\* Two holders, two requests, two rates: transfers, approvals, pauses, claims and reports.
SPECIFICATION Spec
CONSTANTS
  Addresses = {a1,a2}
  NoAddress = none
  Amounts = {2, 5}
  WstAmounts = {5}
  Pools <- MCTwoPools
  ShareRates <- MCShareRates
  Precision = 1000
  MinAmount = 2
  MaxAmount = 5
  PauseDurations = {1}
  PauseInfinitely = 99
  MaxRequests = 2
  MaxTime = 2
CONSTRAINT MCThirdMoment
SYMMETRY MCSymmetry
INVARIANTS
  OwnerIndexConsistent
  TypeOK
  LockedCoversClaims
  CustodyMatchesQueue
PROPERTY FinalizedValueKept
CHECK_DEADLOCK FALSE
