SPECIFICATION FairSpec
CONSTANTS
  Chains <- RouteChains
  Services <- MCServices
  App = "jinbe"
  Callers <- MCCallers
  MaxChanges = 2
INVARIANTS TypeOK HandledIsAuthorised NeverUninitialised
PROPERTIES EveryRequestAnswered
CHECK_DEADLOCK FALSE
