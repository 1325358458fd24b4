CONSTANTS
  u1 = u1
  u2 = u2
  m1 = m1
  m2 = m2
  Handlers = {h1, h2, h3}
  Sweepers = {}
  NoOne = NoOne
  Dead = Dead
  NoReport = NoReport
  Users = {u1, u2}
  Entitlements = {m1, m2}
  Subject <- MCSubject
  MaxBatches = 2
  MaxFaults = 1
SPECIFICATION Spec
CHECK_DEADLOCK FALSE
SYMMETRY Alike
VIEW View
INVARIANTS
  TypeOK
  ReportTruthful
  OutcomeApplied
  InboxShowsPending
PROPERTIES
  DecisionsStand
  ApprovedSurvives
