SPECIFICATION MCSpec
CONSTANTS
  timer = timer w1 = w1 k1 = k1 k2 = k2 k3 = k3
  Request <- MCRequests
  Drainer = timer
  Key <- MCKeys
  NoKey = NoKey
  RetryLimit = 2
  BatchSize = 2
  MaxRows = 3
  MaxRetries = 2
  MaxOpens = 1
  MaxRefusals = 3
  MaxFailures = 1
\* All mail is sent, or given up, and the bounds are used up.
CHECK_DEADLOCK FALSE
INVARIANTS TypeOK SentOnceSerially SentIsDelivered
PROPERTIES EveryMailDeliveredOverlapping
