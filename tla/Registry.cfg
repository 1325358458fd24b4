CONSTANTS
  s1 = s1
  s2 = s2
  grp = grp
  Workers = {w1, w2}
  NoOne = NoOne
  Services = {s1, s2}
  SystemServices = {}
  Groups = {grp}
  SystemGroups = {}
  DefaultGroups = {grp}
  Requests <- MCRequests
  MaxRequests = 3
SPECIFICATION Spec
CHECK_DEADLOCK FALSE
SYMMETRY Alike
VIEW View
INVARIANTS
  TypeOK
  RemainsAreRegistered
PROPERTIES
  RuleWritesTouchOne
  ServiceOpsTouchOwn
  CreateIsComplete
  DeleteIsComplete
