\* One user, two vault rewards, one or two reports, no stake limit.
SPECIFICATION Spec
CONSTANTS
  Accounts = {alice, dead, burner, queue, hub, treasury}
  InitialHolder = dead
  InitialEther = 4
  DepositSize = 4
  TotalBasisPoints = 10
  StakeLimits <- MCNoStakeLimits
  Ratios = {5}
  MaxShares = 9
  MaxBlock = 1
  LimiterPrecision = 10
  UnlimitedRebase = 1000
  Users = {alice}
  Recipients = {hub, burner}
  CanPause = FALSE
  Burner = burner
  Queue = queue
  Hub = hub
  Treasury = treasury
  FeeRecipient = alice
  Deposits = {3}
  Withdrawals = {2}
  ShareAmounts = {2}
  BurnAmounts = {2}
  StETHAmounts = {2}
  ClChanges <- MCClChanges
  ShareRates = {10, 12}
  SharePrecision = 10
  ShareRateDeviation = 3
  RebaseLimit = 3
  TotalFee = 2
  ModuleFee = 1
  FeePrecision = 4
  MaxRequests = 1
  MaxVault = 1
  MaxRefSlot = 1
INVARIANTS
  SharesConserved
  BurnerBacked
  ExternalSharesOwned
  ReportApplies
PROPERTIES
  RebaseAsSimulated
  RebaseLimited
  RateNotDiluted
CHECK_DEADLOCK FALSE
