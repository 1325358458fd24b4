CONSTANTS
  u1 = u1
  u2 = u2
  m1 = m1
  m2 = m2
  Handlers = {h1, h2}
  Sweepers = {s}
  NoOne = NoOne
  Dead = Dead
  NoReport = NoReport
  Users = {u1}
  Entitlements = {m1}
  Subject <- OneSubject
  MaxBatches = 2
  MaxFaults = 1
SPECIFICATION Spec
CHECK_DEADLOCK FALSE
PROPERTIES
  OverdueIsClosed
