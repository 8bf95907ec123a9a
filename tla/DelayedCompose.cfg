SPECIFICATION FairSpec
CONSTANTS
  t1 = t1 t2 = t2 d1 = d1
  Request <- MCRequests
  Draft <- MCDrafts
  NoDraft = NoDraft
  BatchSize = 2
  MaxRows = 2
  MaxTime = 2
  MaxRefusals = 1
  MaxDeletes = 1
  MaxFailures = 1
  MaxOverlaps = 1
\* All is sent and the bounds are used up.
CHECK_DEADLOCK FALSE
INVARIANTS TypeOK SentIsDelivered SentOnce
PROPERTIES WithdrawnIsNotSent DueIsSettled
