\* Three requests: the batch calculation and the hint search against their references.
SPECIFICATION BatchesSpec
CONSTANTS
  Addresses = {a1}
  NoAddress = none
  Amounts = {2, 5}
  WstAmounts = {}
  Pools <- MCTwoPools
  ShareRates <- MCShareRates
  Precision = 1000
  MinAmount = 2
  MaxAmount = 5
  PauseDurations = {}
  PauseInfinitely = 99
  MaxRequests = 3
  MaxTime = 4
  Budgets = {3, 6, 9}
  MaxBatchesLength = 2
INVARIANTS
  
  HintSearchCorrect
  PrefinalizeFits
CHECK_DEADLOCK FALSE
