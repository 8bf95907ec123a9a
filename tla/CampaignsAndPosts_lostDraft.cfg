SPECIFICATION MCSpec
CONSTANTS
  h1 = h1 h2 = h2 k1 = k1 c1 = c1 c2 = c2
  Request <- MCRequests
  Ref <- MCRefs
  NoRef = NoRef
  Wish <- MCWishes
  PostId <- MCPosts
  Channel <- MCChannels
  Targets <- MCTargets
  BatchSize = 2
  Limits <- MCLimits
  MaxRows = 2
  MaxTime = 3
  MaxCalls = 2
  MaxRefusals = 0
  MaxFailures = 0
  MaxOverlaps = 0
\* All is sent and the bounds are used up.
CHECK_DEADLOCK FALSE
INVARIANTS SentDraftIsCampaign
