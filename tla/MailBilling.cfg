SPECIFICATION MCSpec
CONSTANTS
  timer = timer w1 = w1
  Request <- MCRequests
  Timer = timer
  Subscribed <- MCAllEvents
  Operator = TRUE
  GraceDays = 1
  MaxTime = 4
  MaxMoves = 4
  MaxCalls = 2
  MaxFailures = 1
\* The subscription has made its moves, the clock is at its bound.
CHECK_DEADLOCK FALSE
INVARIANTS TypeOK FollowsSubscriptionSerially
PROPERTIES OperatorSuspensionStandsSerially GraceEndsOverlapping
