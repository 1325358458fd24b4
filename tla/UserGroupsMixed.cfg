CONSTANTS
  users = users
  dev = dev
  adm = adm
  flag = flag
  Appliers = {a}
  Cleaners = {}
  Reviewers = {r}
  Editors = {e}
  Toggles = {t}
  NoOne = NoOne
  Groups <- MixedGroups
  Base = users
  BaseIsEmpty = FALSE
  AdminPower = {}
  GlobalPower = {}
  SystemGroups = {users}
  OrgAdminFlag = {flag}
  Actors <- MixedActors
  Requests <- MixedRequests
SPECIFICATION Spec
CHECK_DEADLOCK FALSE
VIEW View
PROPERTIES
  NoUnauthorisedGrant
