SPECIFICATION FairSpec
CONSTANTS
  direct = direct  gateway = gateway  route = route
  Direct = {direct}
  Gateway = {gateway}
  Route = {route}
  Config <- MCConfig
CHECK_DEADLOCK FALSE
INVARIANTS
  CutOnlyAfterDeadline
  CleanShutdownIsFinal
PROPERTIES
  CancelledRunReturns
