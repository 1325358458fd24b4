SPECIFICATION Spec
CONSTANTS
  Replicas = {r1}
  Writers = {w1}
  Clients = {}
  ReviewAt = {r1}
  StatsAt = {r1}
  Kinds = {"registry", "groups", "state"}
  MaxWrites = 2
  MaxCrashes = 0
  None = None
INVARIANTS ReviewIsCurrent
CHECK_DEADLOCK FALSE
