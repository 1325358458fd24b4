SPECIFICATION FairSpec
CONSTANTS
  Replicas = {r1}
  Writers = {w1}
  Clients = {c1}
  ReviewAt = {}
  StatsAt = {}
  Kinds = {"groups"}
  MaxWrites = 1
  MaxCrashes = 0
  None = None
PROPERTIES MembershipReachesOpa
CHECK_DEADLOCK FALSE
