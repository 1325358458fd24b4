SPECIFICATION FairSpec
CONSTANTS
  Replicas = {r1, r2}
  Writers = {w1}
  Clients = {c1}
  ReviewAt = {}
  StatsAt = {}
  Kinds = {"registry", "groups", "delete", "scim"}
  MaxWrites = 2
  MaxCrashes = 1
  None = None
INVARIANTS TypeOK BundleCoversEtag
PROPERTIES OpaCatchesUp
CHECK_DEADLOCK FALSE
