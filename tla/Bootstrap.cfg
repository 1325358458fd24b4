SPECIFICATION Spec
CONSTANTS
  Procs = {i1, r1, r2}
  Runners = {r1, r2}
  Services <- MCServices
  Groups <- MCGroups
  Orgs = {"acme"}
  RuleIds <- MCRuleIds
  Pairs <- MCPairs
  RoleNames <- MCRoleNames
  Writers = {"a", "b", "op", "bad"}
  DefaultRoles <- MCDefaults
  Loadable = {"a", "b", "op"}
  Uploads <- MCUploads
  Asked <- MCAsked
  Own <- MCOwn
  HistoryCap = 2
  MaxImports = 1
  MaxEdits = 1
  MaxFaults = 1
  MaxEvents = 3
  Overlap = FALSE
  Codes <- MCCodes
  Worlds <- MCWorlds
  None = None
SYMMETRY Alike
INVARIANTS TypeOK RestoreIsExact RestorePointKept
PROPERTIES MarkedIsSeeded OperatorsWordStands
CHECK_DEADLOCK FALSE
