SPECIFICATION MCSpec
CONSTANTS
  owner = owner carrier = carrier sweep = sweep r1 = r1 r2 = r2
  u1 = u1 u2 = u2 u3 = u3 Nobody = Nobody
  Owner = owner
  Carrier = carrier
  Request <- MCTwoRequests
  Sweeper = sweep
  ReminderAge = 1
  MaxTime = 3
  MaxReviews = 1
  MaxFailures = 0
  Visit <- MCVisits
  User <- MCUsers
  MaxParticipants = 2
  Ttl = 2
  SignalMaxLen = 3
  Recent = 2
  Limits <- MCLimits
INVARIANTS StoredIsKept
