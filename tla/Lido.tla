-------------------------------- MODULE Lido --------------------------------
(***************************************************************************)
(* Lido and StETH (contracts/0.4.24): the share ledger, the ether buffer,  *)
(* the validator counters, the stake limit (lib/StakeLimitUtils.sol) and   *)
(* the pauses.  Each action is one external function over lidoVars; the    *)
(* callers (users, VaultHub, Accounting, Burner) are in Accounting.tla.    *)
(*                                                                         *)
(* One share is worth internalEther / internalShares: external shares,     *)
(* minted against vaults outside, are valued at that rate and do not       *)
(* enter it.                                                               *)
(***************************************************************************)
EXTENDS Integers, FiniteSets, FiniteSetsExt

CONSTANTS
  Accounts,          \* holders of shares
  InitialHolder,     \* INITIAL_TOKEN_HOLDER, 0xdead
  InitialEther,      \* ether the holder above starts with
  DepositSize,       \* DEPOSIT_SIZE, 32 ether
  TotalBasisPoints,  \* TOTAL_BASIS_POINTS, 10000
  StakeLimits,       \* arguments of setStakingLimit: [max, increase]
  Ratios,            \* arguments of setMaxExternalRatioBP
  MaxShares,         \* bound on totalShares
  MaxBlock           \* bound on block.number

ASSUME LidoAssumption ==
  /\ IsFiniteSet(Accounts) /\ InitialHolder \in Accounts
  /\ InitialEther \in Nat \ {0} /\ DepositSize \in Nat \ {0}
  /\ TotalBasisPoints \in Nat \ {0} /\ Ratios \subseteq 0..TotalBasisPoints
  /\ StakeLimits \subseteq [max : Nat \ {0}, increase : Nat]
  /\ \A l \in StakeLimits : l.increase <= l.max
  /\ MaxShares \in Nat /\ MaxBlock \in Nat

VARIABLES
  shares,               \* mapping(address => uint256)
  totalShares,
  externalShares,
  bufferedEther,
  depositedValidators,
  clBalance,
  clValidators,
  maxExternalRatioBP,
  stopped,
  stakeLimit,           \* StakeLimitState.Data
  block                 \* environment: block.number

shareVars == <<shares, totalShares, externalShares>>
etherVars == <<bufferedEther, depositedValidators, clBalance, clValidators>>
adminVars == <<maxExternalRatioBP, stopped>>
lidoVars  == <<shareVars, etherVars, adminVars, stakeLimit, block>>

StakeLimitData == [prevStakeBlockNumber : Nat, prevStakeLimit : Nat,
                   maxStakeLimitGrowthBlocks : Nat, maxStakeLimit : Nat]

-----------------------------------------------------------------------------
(* The share rate.                                                         *)

InternalEther ==
  bufferedEther + clBalance + (depositedValidators - clValidators) * DepositSize

InternalShares == totalShares - externalShares

SharesByPooledEth(eth) == (eth * InternalShares) \div InternalEther
PooledEthByShares(n) == (n * InternalEther) \div InternalShares
PooledEthBySharesRoundDown(n) == PooledEthByShares(n)    \* faulty: not rounded up
PooledEthBySharesRoundUp(n) ==
  (n * InternalEther + InternalShares - 1) \div InternalShares

TotalPooledEther == InternalEther + (externalShares * InternalEther) \div InternalShares

\* _getMaxMintableExternalShares, as the condition on an amount.
MayMintExternal(n) ==
  IF maxExternalRatioBP = TotalBasisPoints THEN TRUE
  ELSE /\ totalShares * maxExternalRatioBP > externalShares * TotalBasisPoints
       /\ n <= (totalShares * maxExternalRatioBP - externalShares * TotalBasisPoints)
                 \div (TotalBasisPoints - maxExternalRatioBP)

-----------------------------------------------------------------------------
(* StakeLimitUtils.                                                        *)

IsStakingPaused == stakeLimit.prevStakeBlockNumber = 0
IsStakingLimitSet == stakeLimit.maxStakeLimit # 0

StakeLimitIncPerBlock ==
  IF stakeLimit.maxStakeLimitGrowthBlocks = 0 THEN 0
  ELSE stakeLimit.maxStakeLimit \div stakeLimit.maxStakeLimitGrowthBlocks

\* A limit pushed above the maximum by burns decays to it; one below grows to it.
CurrentStakeLimit ==
  LET change == (block - stakeLimit.prevStakeBlockNumber) * StakeLimitIncPerBlock
  IN  IF stakeLimit.prevStakeLimit < stakeLimit.maxStakeLimit
      THEN Min({stakeLimit.prevStakeLimit + change, stakeLimit.maxStakeLimit})
      ELSE Max({stakeLimit.prevStakeLimit - change, stakeLimit.maxStakeLimit})

UpdatePrevStakeLimit(limit) ==
  [stakeLimit EXCEPT !.prevStakeLimit = limit, !.prevStakeBlockNumber = block]

DecreaseStakingLimit(amount) ==
  /\ ~IsStakingPaused
  /\ IsStakingLimitSet => amount <= CurrentStakeLimit
  /\ stakeLimit' = IF IsStakingLimitSet
                   THEN UpdatePrevStakeLimit(CurrentStakeLimit - amount)
                   ELSE stakeLimit

SetPauseRefilling(paused) ==                          \* faulty: restarts with a full limit
  stakeLimit' = [stakeLimit EXCEPT !.prevStakeBlockNumber = IF paused THEN 0 ELSE block,
                                   !.prevStakeLimit = stakeLimit.maxStakeLimit]

SetPause(paused) ==
  stakeLimit' = [stakeLimit EXCEPT !.prevStakeBlockNumber = IF paused THEN 0 ELSE block]

-----------------------------------------------------------------------------
(* StETH's share ledger.                                                   *)

TransferShares(from, to, n) ==
  LET debited == [shares EXCEPT ![from] = @ - n]
  IN  /\ ~stopped
      /\ n <= shares[from]
      /\ shares' = [debited EXCEPT ![to] = @ + n]
      /\ UNCHANGED <<totalShares, externalShares, etherVars, adminVars, stakeLimit, block>>

MintTo(to, n) ==
  /\ totalShares + n <= MaxShares
  /\ shares' = [shares EXCEPT ![to] = @ + n]
  /\ totalShares' = totalShares + n

-----------------------------------------------------------------------------
(* Ether in and out.                                                       *)

\* submit and the default payable function: no check of `stopped', which is
\* left to the staking pause.
Submit(sender, value) ==
  /\ value # 0
  /\ InternalEther > 0
  /\ DecreaseStakingLimit(value)
  /\ MintTo(sender, SharesByPooledEth(value))
  /\ bufferedEther' = bufferedEther + value
  /\ UNCHANGED <<externalShares, depositedValidators, clBalance, clValidators,
                 adminVars, block>>

\* deposit, for the count StakingRouter settles on; `reserve' is
\* WithdrawalQueue.unfinalizedStETH, and bunker mode forbids the call.
Deposit(count, reserve) ==
  /\ ~stopped
  /\ count > 0
  /\ count * DepositSize <= bufferedEther - reserve
  /\ bufferedEther' = bufferedEther - count * DepositSize
  /\ depositedValidators' = depositedValidators + count
  /\ UNCHANGED <<shareVars, clBalance, clValidators, adminVars, stakeLimit, block>>

-----------------------------------------------------------------------------
(* External shares, for VaultHub.                                          *)

MintExternalShares(to, n) ==
  /\ n # 0
  /\ ~stopped
  /\ MayMintExternal(n)
  /\ DecreaseStakingLimit(PooledEthByShares(n))
  /\ externalShares' = externalShares + n
  /\ MintTo(to, n)
  /\ UNCHANGED <<etherVars, adminVars, block>>

\* The amount is valued after the burn, which leaves the rate as it was.
BurnExternalShares(from, n) ==
  /\ n # 0
  /\ ~stopped
  /\ n <= externalShares
  /\ n <= shares[from]
  /\ externalShares' = externalShares - n
  /\ shares' = [shares EXCEPT ![from] = @ - n]
  /\ totalShares' = totalShares - n
  /\ stakeLimit' = IF IsStakingLimitSet /\ ~IsStakingPaused
                   THEN UpdatePrevStakeLimit(CurrentStakeLimit + PooledEthByShares(n))
                   ELSE stakeLimit
  /\ UNCHANGED <<etherVars, adminVars, block>>

RebalanceExternalEtherToInternal(value, n) ==
  /\ value # 0
  /\ ~stopped
  /\ value = PooledEthBySharesRoundUp(n)
  /\ n <= externalShares
  /\ externalShares' = externalShares - n
  /\ bufferedEther' = bufferedEther + value
  /\ UNCHANGED <<shares, totalShares, depositedValidators, clBalance, clValidators,
                 adminVars, stakeLimit, block>>

-----------------------------------------------------------------------------
(* Administration.                                                         *)

Stop ==
  /\ ~stopped
  /\ stopped' = TRUE
  /\ SetPause(TRUE)
  /\ UNCHANGED <<shareVars, etherVars, maxExternalRatioBP, block>>

Resume ==
  /\ stopped
  /\ stopped' = FALSE
  /\ SetPause(FALSE)
  /\ UNCHANGED <<shareVars, etherVars, maxExternalRatioBP, block>>

PauseStaking ==
  /\ ~IsStakingPaused
  /\ SetPause(TRUE)
  /\ UNCHANGED <<shareVars, etherVars, adminVars, block>>

ResumeStakingAnyway ==                                \* faulty: while stopped, too
  /\ IsStakingPaused
  /\ SetPause(FALSE)
  /\ UNCHANGED <<shareVars, etherVars, adminVars, block>>

ResumeStaking ==
  /\ ~stopped
  /\ IsStakingPaused
  /\ SetPause(FALSE)
  /\ UNCHANGED <<shareVars, etherVars, adminVars, block>>

SetStakingLimit(max, increase) ==
  /\ stakeLimit' =
       [prevStakeBlockNumber |-> IF IsStakingPaused THEN 0 ELSE block,
        prevStakeLimit |-> IF IsStakingPaused \/ ~IsStakingLimitSet
                              \/ max < stakeLimit.prevStakeLimit
                           THEN max ELSE stakeLimit.prevStakeLimit,
        maxStakeLimitGrowthBlocks |-> IF increase = 0 THEN 0 ELSE max \div increase,
        maxStakeLimit |-> max]
  /\ UNCHANGED <<shareVars, etherVars, adminVars, block>>

RemoveStakingLimit ==
  /\ stakeLimit' = [stakeLimit EXCEPT !.maxStakeLimit = 0]
  /\ UNCHANGED <<shareVars, etherVars, adminVars, block>>

SetMaxExternalRatioBP(ratio) ==
  /\ maxExternalRatioBP' = ratio
  /\ UNCHANGED <<shareVars, etherVars, stopped, stakeLimit, block>>

NextBlock ==
  /\ block < MaxBlock
  /\ block' = block + 1
  /\ UNCHANGED <<shareVars, etherVars, adminVars, stakeLimit>>

-----------------------------------------------------------------------------
\* initialize: the contract's ether becomes the shares of the initial holder,
\* and the contract starts stopped with staking paused.
LidoInit ==
  /\ shares = [a \in Accounts |-> IF a = InitialHolder THEN InitialEther ELSE 0]
  /\ totalShares = InitialEther
  /\ externalShares = 0
  /\ bufferedEther = InitialEther
  /\ depositedValidators = 0
  /\ clBalance = 0
  /\ clValidators = 0
  /\ maxExternalRatioBP = 0
  /\ stopped = TRUE
  /\ stakeLimit = [prevStakeBlockNumber |-> 0, prevStakeLimit |-> 0,
                   maxStakeLimitGrowthBlocks |-> 0, maxStakeLimit |-> 0]
  /\ block = 1

LidoTypeOK ==
  /\ shares \in [Accounts -> Nat]
  /\ totalShares \in Nat
  /\ externalShares \in 0..totalShares
  /\ bufferedEther \in Nat
  /\ depositedValidators \in Nat
  /\ clBalance \in Nat
  /\ clValidators \in 0..depositedValidators   \* asserted by _getInternalEther
  /\ maxExternalRatioBP \in 0..TotalBasisPoints
  /\ stopped \in BOOLEAN
  /\ stakeLimit \in StakeLimitData
  /\ block \in Nat \ {0}
=============================================================================
