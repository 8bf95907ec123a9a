SPECIFICATION MCSpec
CONSTANTS
  timer = timer w1 = w1
  Request <- MCRequests
  Timer = timer
  Subscribed <- MCGuideEvents
  Operator = FALSE
  GraceDays = 1
  MaxTime = 4
  MaxMoves = 2
  MaxCalls = 0
  MaxFailures = 0
\* The subscription has made its moves, the clock is at its bound.
CHECK_DEADLOCK FALSE
INVARIANTS GraceFollowsFailureSerially
