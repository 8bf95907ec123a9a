SPECIFICATION MCSpec
CONSTANTS
  owner = owner carrier = carrier sweep = sweep r1 = r1 r2 = r2
  u1 = u1 u2 = u2 u3 = u3 Nobody = Nobody
  Owner = owner
  Carrier = carrier
  Request <- MCOneRequest
  Sweeper = sweep
  ReminderAge = 1
  MaxTime = 5
  MaxReviews = 1
  MaxFailures = 1
  Visit <- MCVisits
  User <- MCUsers
  MaxParticipants = 2
  Ttl = 2
  SignalMaxLen = 3
  Recent = 2
  Limits <- MCLimits
\* The calls are over and the bounds are used up.
CHECK_DEADLOCK FALSE
INVARIANTS BothTypeOK ConfirmationsCountSerially CompletedIsAgreed InvitesAreEarned CapacityHolds 
PROPERTIES EveryInviteRemindedOverlapping
