CONSTANTS
  users = users
  dev = dev
  adm = adm
  flag = flag
  Appliers = {a1, a2}
  Cleaners = {k}
  Reviewers = {}
  Editors = {}
  Toggles = {}
  NoOne = NoOne
  Groups <- MCGroups
  Base = users
  BaseIsEmpty = TRUE
  AdminPower = {adm}
  GlobalPower = {adm}
  SystemGroups = {adm}
  OrgAdminFlag = {}
  Actors <- MCActors
  Requests <- MCRequests
SPECIFICATION Spec
CHECK_DEADLOCK FALSE
SYMMETRY Perms
VIEW View
INVARIANTS
  TypeOK
  PreimageHolds
PROPERTIES
  NoUnauthorisedGrant
  NoUngatedStrip
