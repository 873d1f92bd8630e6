SPECIFICATION PairSpec
CONSTANTS
  v1 = v1
  v2 = v2
  o1 = o1
  tier0 = tier0
  tier1 = tier1
  Vaults = {v1, v2}
  Operators = {o1}
  NodeOperator <- MCNodeOperator
  Tiers = {tier0, tier1}
  DefaultTier = tier0
  TierOperator <- MCTierOperator
  TierParams <- MCTierParams
  InitialParams <- MCInitialParams
  GroupLimits = {3}
  Jailable = {}
  QuarantinePeriod = 2
  MaxRewardRatioBP = 1
  MaxLidoFeeRate = 1
  TotalBasisPoints = 4
  ConnectDeposit = 1
  MinBeaconDeposit = 1
  FreshnessDelta = 4
  ExtraShares = 0
  MaxShareLimit = 3
  MaxUint = 1000
  RateEther = 1
  RateShares = 1
  Amounts = {1}
  ShareAmounts = {1}
  SlashingReserves = {}
  Targets = {}
  Pausing = {}
  MaxEther = 3
  MaxLosses = 1
  MaxFees = 0
  MaxTime = 8
INVARIANTS
  WellFormed
PROPERTIES
  SocializedBadDebtCarried
  KeepsLedger
CHECK_DEADLOCK FALSE
