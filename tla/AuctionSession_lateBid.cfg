SPECIFICATION MCSpec
CONSTANTS
  shipper = shipper c1 = c1 c2 = c2 s1 = s1 s2 = s2 sweep = sweep r1 = r1 r2 = r2
  NoSession = NoSession NoCompany = NoCompany
  Company <- MCCompany
  Owner = shipper
  SessionId <- MCSessions
  Request <- MCRequests
  Sweeper = sweep
  Amount <- MCAmounts
  AskedPrice <- MCAsked
  ListingPrice = 2
  BidStep = 1
  Duration <- MCDurations
  ExtendTerms <- MCExtending
  FixedDuration = 1
  MaxTime = 3
  MaxBids = 3
  MaxFailures = 0
INVARIANTS WinnerIsBest
