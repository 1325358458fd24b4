CONSTANTS
  Replicas = {r1, r2}
  Transports = 2
  MaxEvents = 2
  Batch = 2
  Claim = 1
  MaxAge = 1
  MaxLen = 1
  MaxFaults = 1
SPECIFICATION Spec
CHECK_DEADLOCK FALSE
INVARIANTS
  OutboxTypeOK
  OneWorkerPerClaim
PROPERTIES
  ImplementsAtLeastOnce
  EventuallySettled
