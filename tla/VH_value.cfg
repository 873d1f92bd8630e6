SPECIFICATION HistorySpec
CONSTANTS
  v1 = v1
  tier0 = tier0
  Vaults = {v1}
  Operators = {o1}
  NodeOperator <- MCNodeOperator
  Tiers = {tier0}
  DefaultTier = tier0
  TierOperator <- MCTierOperator
  TierParams <- MCOneParams
  InitialParams <- MCInitialParams
  GroupLimits = {3}
  Jailable = {}
  QuarantinePeriod = 4
  MaxRewardRatioBP = 1
  MaxLidoFeeRate = 1
  TotalBasisPoints = 4
  ConnectDeposit = 1
  MinBeaconDeposit = 1
  FreshnessDelta = 6
  ExtraShares = 0
  MaxShareLimit = 3
  MaxUint = 1000
  RateEther = 1
  RateShares = 1
  Amounts = {2}
  ShareAmounts = {}
  SlashingReserves = {}
  Targets = {}
  Pausing = {}
  MaxEther = 4
  MaxLosses = 1
  MaxFees = 0
  MaxTime = 9
INVARIANTS
  TotalValueBacked
PROPERTIES
  RisesWait
CHECK_DEADLOCK FALSE
