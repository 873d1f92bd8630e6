SPECIFICATION TermsSpec
CONSTANTS
  v1 = v1
  o1 = o1
  tier0 = tier0
  tier1 = tier1
  tier2 = tier2
  Vaults = {v1}
  Operators = {o1}
  NodeOperator <- MCNodeOperator
  Tiers = {tier0, tier1, tier2}
  DefaultTier = tier0
  TierOperator <- MCTierOperator
  TierParams <- MCTierParams
  InitialParams <- MCInitialParams
  GroupLimits = {1, 2}
  Jailable = {v1}
  QuarantinePeriod = 2
  MaxRewardRatioBP = 1
  MaxLidoFeeRate = 1
  TotalBasisPoints = 4
  ConnectDeposit = 1
  MinBeaconDeposit = 1
  FreshnessDelta = 5
  ExtraShares = 0
  MaxShareLimit = 2
  MaxUint = 1000
  RateEther = 1
  RateShares = 1
  Amounts = {1}
  ShareAmounts = {1}
  SlashingReserves = {2}
  Targets = {0}
  Pausing = {v1}
  MaxEther = 4
  MaxLosses = 0
  MaxFees = 1
  MaxTime = 5
INVARIANTS
  GridCountsLiability
PROPERTIES
  HealthKept
CHECK_DEADLOCK FALSE
