SPECIFICATION MCSpec
CONSTANTS
  h1 = h1 h2 = h2 w1 = w1 w2 = w2
  NoWindow = NoWindow
  Request <- MCRequests
  Window <- MCWindows
  MaxAttempts = 2
  BatchSize = 2
  MaxJobs = 3
  MaxWishes = 3
  MaxErrors = 2
  MaxFailures = 1
  MaxOverlaps = 1
  Gap <- MCGaps
  IdleAfter = 3
  EngineAfter = 2
  Cooldown = 2
  MaxDevices = 2
  Limits <- MCLimits
\* The samples are sent, the windows are matched and the bounds are used up.
CHECK_DEADLOCK FALSE
INVARIANTS RevokedStaysOff
