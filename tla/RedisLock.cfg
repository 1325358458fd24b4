CONSTANTS
  Callers = {c1, c2, c3}
  NoOne = NoOne
  Ttl = 2
  Wait = 1
  Retry = 1
SPECIFICATION Spec
CHECK_DEADLOCK FALSE
INVARIANTS
  TypeOK
  OwnerKeepsLock
PROPERTIES
  ImplementsLeaseMutex
  EveryCallAnswered
  DeadHolderReaped
