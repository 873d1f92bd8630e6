----------------------------- MODULE Accounting -----------------------------
(***************************************************************************)
(* The oracle report: Accounting.handleOracleReport (contracts/0.8.9) with *)
(* every contract it moves.  Accounting first simulates the report from a  *)
(* snapshot, then checks it, then calls Burner, Lido, VaultHub and the     *)
(* withdrawal queue with the simulated amounts.  Between reports users,    *)
(* vaults and burn requesters act on the same ledger.                      *)
(*                                                                         *)
(* Of VaultHub the sum of the vaults' liability shares is kept and the bad *)
(* debt set aside for the protocol; of the withdrawal queue its unfinal-   *)
(* ized requests.  HashConsensus is the pair of slots it hands out.        *)
(***************************************************************************)
EXTENDS Lido, PositiveTokenRebaseLimiter, RefSlotCache

CONSTANTS
  Users,                 \* accounts that act
  Recipients,            \* accounts a user transfers shares to
  CanPause,              \* whether the pauses are used after the first resume
  Burner, Queue, Hub, Treasury,
  FeeRecipient,          \* the staking modules' reward address
  Deposits,              \* ether a user submits
  Withdrawals,           \* stETH a user asks to withdraw
  ShareAmounts,          \* arguments of the functions that take shares
  BurnAmounts,           \* arguments of requestBurnShares
  StETHAmounts,          \* arguments of requestBurnMyStETH
  ClChanges,             \* CL rewards or losses between two reports
  ShareRates,            \* simulatedShareRate of a report
  SharePrecision,        \* SHARE_RATE_PRECISION_E27
  ShareRateDeviation,    \* simulatedShareRateDeviationBPLimit
  RebaseLimit,           \* maxPositiveTokenRebase
  TotalFee, ModuleFee, FeePrecision,  \* StakingRouter.getStakingRewardsDistribution
  MaxRequests,           \* bound on unfinalized withdrawal requests
  MaxVault,              \* bound on the ether in each vault
  MaxRefSlot             \* bound on the reference slots

ASSUME AccountsAssumption ==
  /\ Users \cup Recipients \cup {Burner, Queue, Hub, Treasury, FeeRecipient}
       \subseteq Accounts
  /\ CanPause \in BOOLEAN
  /\ Cardinality({Burner, Queue, Hub, Treasury}) = 4
  /\ {Burner, Queue, Hub, Treasury} \cap (Users \cup {FeeRecipient}) = {}
ASSUME InputAssumption ==
  /\ Deposits \subseteq Nat /\ Withdrawals \subseteq Nat /\ ShareAmounts \subseteq Nat
  /\ BurnAmounts \subseteq Nat /\ StETHAmounts \subseteq Nat /\ ClChanges \subseteq Int
  /\ ShareRates \subseteq Nat /\ SharePrecision \in Nat \ {0}
  /\ ShareRateDeviation \in Nat /\ RebaseLimit \in 1..UnlimitedRebase
ASSUME FeeAssumption ==
  /\ FeePrecision \in Nat \ {0} /\ TotalFee \in 1..FeePrecision
  /\ ModuleFee \in 0..TotalFee
ASSUME AccountingBounds ==
  MaxRequests \in Nat /\ MaxVault \in Nat /\ MaxRefSlot \in Nat

VARIABLES
  coverSharesBurnRequested,
  nonCoverSharesBurnRequested,
  unfinalized,           \* the queue's requests: amount of stETH and shares
  liabilityShares,       \* sum over the vaults
  badDebtToInternalize,  \* RefSlotCache.Uint104WithCache
  withdrawalVault,       \* balance of WithdrawalVault
  elRewardsVault,        \* balance of LidoExecutionLayerRewardsVault
  refSlot,               \* environment: HashConsensus's current reference slot
  lastProcessingRefSlot  \* of AccountingOracle

burnerVars == <<coverSharesBurnRequested, nonCoverSharesBurnRequested>>
hubVars    == <<liabilityShares, badDebtToInternalize>>
vaultVars  == <<withdrawalVault, elRewardsVault>>
slotVars   == <<refSlot, lastProcessingRefSlot>>
vars == <<lidoVars, burnerVars, unfinalized, hubVars, vaultVars, slotVars>>

SharesBurnRequested == coverSharesBurnRequested + nonCoverSharesBurnRequested

-----------------------------------------------------------------------------
(* Users, and the withdrawal queue's intake.                               *)

UserTransfers(from, to, n) ==
  /\ TransferShares(from, to, n)
  /\ UNCHANGED <<burnerVars, unfinalized, hubVars, vaultVars, slotVars>>

UserSubmits(sender, value) ==
  /\ Submit(sender, value)
  /\ UNCHANGED <<burnerVars, unfinalized, hubVars, vaultVars, slotVars>>

RequestWithdrawal(sender, amount) ==
  LET n == SharesByPooledEth(amount)
  IN  /\ Len(unfinalized) < MaxRequests
      /\ InternalEther > 0
      /\ TransferShares(sender, Queue, n)
      /\ unfinalized' = Append(unfinalized, [stETH |-> amount, shares |-> n])
      /\ UNCHANGED <<burnerVars, hubVars, vaultVars, slotVars>>

SumStETH(first, last) ==
  MapThenSumSet(LAMBDA i : unfinalized[i].stETH, first..last)
SumShares(first, last) ==
  MapThenSumSet(LAMBDA i : unfinalized[i].shares, first..last)

DepositBufferedEther(count) ==
  /\ Deposit(count, SumStETH(1, Len(unfinalized)))
  /\ UNCHANGED <<burnerVars, unfinalized, hubVars, vaultVars, slotVars>>

-----------------------------------------------------------------------------
(* Burner.                                                                 *)

RequestBurn(n, isCover) ==
  /\ n # 0
  /\ IF isCover
     THEN /\ coverSharesBurnRequested' = coverSharesBurnRequested + n
          /\ UNCHANGED nonCoverSharesBurnRequested
     ELSE /\ nonCoverSharesBurnRequested' = nonCoverSharesBurnRequested + n
          /\ UNCHANGED coverSharesBurnRequested

\* requestBurnShares, requestBurnSharesForCover, requestBurnMyShares
RequestBurnShares(from, n, isCover) ==
  /\ TransferShares(from, Burner, n)
  /\ RequestBurn(n, isCover)
  /\ UNCHANGED <<unfinalized, hubVars, vaultVars, slotVars>>

\* requestBurnMyStETH, requestBurnMyStETHForCover: the shares of the amount
\* move, and the shares of the amount are counted again after the move.
RequestBurnMyStETH(sender, amount, isCover) ==
  /\ InternalEther > 0
  /\ TransferShares(sender, Burner, SharesByPooledEth(amount))
  /\ RequestBurn(SharesByPooledEth(amount), isCover)
  /\ UNCHANGED <<unfinalized, hubVars, vaultVars, slotVars>>

ExcessOverCover ==                    \* faulty: forgets the non-cover requests
  IF shares[Burner] <= coverSharesBurnRequested THEN 0
  ELSE shares[Burner] - coverSharesBurnRequested

ExcessStETHShares ==
  IF shares[Burner] <= SharesBurnRequested THEN 0
  ELSE shares[Burner] - SharesBurnRequested

RecoverExcessStETH ==
  LET excessStETH == PooledEthByShares(ExcessStETHShares)
  IN  /\ excessStETH > 0
      /\ TransferShares(Burner, Treasury, SharesByPooledEth(excessStETH))
      /\ UNCHANGED <<burnerVars, unfinalized, hubVars, vaultVars, slotVars>>

-----------------------------------------------------------------------------
(* VaultHub: minting, burning, rebalancing and writing off bad debt.       *)

HubMintShares(to, n) ==
  /\ liabilityShares' = liabilityShares + n
  /\ MintExternalShares(to, n)
  /\ UNCHANGED <<burnerVars, unfinalized, badDebtToInternalize, vaultVars, slotVars>>

HubBurnShares(n) ==
  /\ n <= liabilityShares
  /\ liabilityShares' = liabilityShares - n
  /\ BurnExternalShares(Hub, n)
  /\ UNCHANGED <<burnerVars, unfinalized, badDebtToInternalize, vaultVars, slotVars>>

HubRebalance(n) ==
  /\ n <= liabilityShares
  /\ liabilityShares' = liabilityShares - n
  /\ RebalanceExternalEtherToInternal(PooledEthBySharesRoundUp(n), n)
  /\ UNCHANGED <<burnerVars, unfinalized, badDebtToInternalize, vaultVars, slotVars>>

\* internalizeBadDebt, for the shares by which vaults are under water.
InternalizeBadDebt(n) ==
  /\ 0 < n /\ n <= liabilityShares
  /\ liabilityShares' = liabilityShares - n
  /\ badDebtToInternalize' = WithValueIncrease(badDebtToInternalize, refSlot, n)
  /\ UNCHANGED <<lidoVars, burnerVars, unfinalized, vaultVars, slotVars>>

ClearedBadDebt(n) ==                  \* faulty: forgets what the frame added
  [badDebtToInternalize EXCEPT !.value = 0]

\* decreaseInternalizedBadDebt: what the frame added stays for the next report.
DecreasedBadDebt(n) == [badDebtToInternalize EXCEPT !.value = @ - n]

-----------------------------------------------------------------------------
(* The report.                                                             *)

\* The finalization batches, as the set of their ends: an array of increasing
\* positions in the queue, empty for a report that finalizes nothing.  A
\* batch of no shares would have prefinalize divide by zero.
BatchStart(batches, b) == Max({0} \cup {p \in batches : p < b}) + 1
BatchSets ==
  {batches \in SUBSET (1..Len(unfinalized)) :
     \A b \in batches : SumShares(BatchStart(batches, b), b) > 0}

\* prefinalize: a batch is paid at the report's rate or, if that is less, at
\* the rate of its requests.
EtherToLock(batches, shareRate) ==
  LET ether(b) ==
        LET stETH == SumStETH(BatchStart(batches, b), b)
            n     == SumShares(BatchStart(batches, b), b)
        IN  IF (stETH * SharePrecision) \div n > shareRate
            THEN (n * shareRate) \div SharePrecision
            ELSE stETH
  IN  MapThenSumSet(ether, batches)

\* The reports oracles may agree on: the vault balances and the burn requests
\* of the reference slot, when there may have been less of each.
Reports ==
  [clValidators : clValidators..depositedValidators,
   clChange : ClChanges,
   withdrawalVaultBalance : 0..withdrawalVault,
   elRewardsVaultBalance : 0..elRewardsVault,
   sharesRequestedToBurn : {0, SharesBurnRequested},
   batches : BatchSets,
   shareRate : ShareRates]

PrincipalWithoutDeposits(r) == clBalance    \* faulty: forgets the new validators
PrincipalClBalance(r) == clBalance + (r.clValidators - clValidators) * DepositSize
ClBalance(r) == PrincipalClBalance(r) + r.clChange

\* _calculateTotalProtocolFeeShares; the fee must leave some ether.
ProtocolFee(r, smoothed) ==
  LET clReward == r.clChange + smoothed.withdrawals
  IN  IF clReward > 0
      THEN ((clReward + smoothed.elRewards) * TotalFee) \div FeePrecision
      ELSE 0

\* struct CalculatedValues and the locals it is made from, all uint256: where a
\* value would fall below zero, checked arithmetic reverts the report.
CalculatedValues ==
  [reverts : {FALSE}, etherToFinalizeWQ : Nat, sharesToFinalizeWQ : Nat,
   withdrawals : Nat, elRewards : Nat, sharesFromWQ : Nat, totalSharesToBurn : Nat,
   sharesToMintAsFees : Nat, badDebt : Nat, sharesBeforeFees : Nat,
   postExternalShares : Nat, postInternalEther : Nat,
   postInternalShares : Nat \ {0},                 \* InternalSharesCantBeZero
   postTotalShares : Nat, postTotalPooledEther : Nat]

\* The call of smoothenTokenRebase.
Smoothened(r, etherToLock, sharesToFinalize) ==
  SmoothenTokenRebase(InitLimiterState(RebaseLimit, InternalEther, InternalShares),
                      PrincipalClBalance(r), ClBalance(r),
                      r.withdrawalVaultBalance, r.elRewardsVaultBalance,
                      r.sharesRequestedToBurn, etherToLock, sharesToFinalize)

\* The rest of _simulateOracleReport, after that call.
CalculatedUpdate(r, etherToLock, sharesToFinalize, smoothed) ==
  LET sharesBeforeFees == InternalShares - smoothed.sharesToBurn
      postInternalEther == InternalEther + r.clChange + smoothed.withdrawals
                             + smoothed.elRewards - etherToLock
      feeEther == ProtocolFee(r, smoothed)
      feeShares == IF feeEther = 0 \/ postInternalEther <= feeEther THEN 0
                   ELSE (feeEther * sharesBeforeFees) \div (postInternalEther - feeEther)
      badDebt == ValueForLastRefSlot(badDebtToInternalize, refSlot)
      postInternalShares == sharesBeforeFees + feeShares + badDebt
      postExternalShares == externalShares - badDebt
  IN  [reverts |-> smoothed.reverts \/ (feeEther > 0 /\ postInternalEther <= feeEther),
       etherToFinalizeWQ  |-> etherToLock,
       sharesToFinalizeWQ |-> sharesToFinalize,
       withdrawals        |-> smoothed.withdrawals,
       elRewards          |-> smoothed.elRewards,
       sharesFromWQ       |-> smoothed.sharesFromWQToBurn,
       totalSharesToBurn  |-> smoothed.sharesToBurn,
       sharesToMintAsFees |-> feeShares,
       badDebt            |-> badDebt,
       sharesBeforeFees   |-> sharesBeforeFees,
       postExternalShares |-> postExternalShares,
       postInternalEther  |-> postInternalEther,
       postInternalShares |-> postInternalShares,
       postTotalShares    |-> postInternalShares + postExternalShares,
       postTotalPooledEther |->
         IF postInternalShares <= 0 THEN 0
         ELSE postInternalEther
                + (postExternalShares * postInternalEther) \div postInternalShares]

SimulateWith(r, etherToLock, sharesToFinalize) ==
  CalculatedUpdate(r, etherToLock, sharesToFinalize,
                   Smoothened(r, etherToLock, sharesToFinalize))

\* _simulateOracleReport.
Simulate(r) ==
  SimulateWith(r, EtherToLock(r.batches, r.shareRate),
               IF r.batches = {} THEN 0 ELSE SumShares(1, Max(r.batches)))

\* _checkSimulatedShareRate, on the state as if nothing had been finalized.
ShareRatePlausible(r, u) ==
  LET ether  == u.postInternalEther + u.etherToFinalizeWQ
      rate   == (ether * SharePrecision) \div (u.postInternalShares + u.sharesFromWQ)
      spread == IF rate > r.shareRate THEN rate - r.shareRate ELSE r.shareRate - rate
  IN  rate # 0 /\ (TotalBasisPoints * spread) \div rate <= ShareRateDeviation

\* _sanityChecks.  The limits on how much the CL balance may change are in the
\* choice of ClChanges.
SanityChecks(r, u) ==
  /\ r.clValidators \in clValidators..depositedValidators
  /\ r.withdrawalVaultBalance <= withdrawalVault
  /\ r.elRewardsVaultBalance <= elRewardsVault
  /\ r.sharesRequestedToBurn <= SharesBurnRequested
  /\ r.batches # {} => ShareRatePlausible(r, u)

\* What the calls of _applyOracleReportContext require, one after the other.
AppliesCleanly(u) ==
  LET requested == SharesBurnRequested + u.sharesToFinalizeWQ
  IN  /\ u.sharesToFinalizeWQ <= shares[Queue]                    \* requestBurnShares
      /\ u.badDebt <= badDebtToInternalize.value                  \* VaultHub
      /\ u.badDebt <= externalShares                              \* Lido
      /\ u.totalSharesToBurn <= requested                         \* commitSharesToBurn
      /\ u.totalSharesToBurn <= shares[Burner] + u.sharesToFinalizeWQ
      /\ u.withdrawals <= withdrawalVault
      /\ u.elRewards <= elRewardsVault

\* What is left of the queue; finalize is called only with ether to send.
AfterFinalize(r, u) ==
  IF u.etherToFinalizeWQ = 0 THEN unfinalized
  ELSE SubSeq(unfinalized, Max(r.batches) + 1, Len(unfinalized))

CommitAllToCover(u) ==                \* faulty: cover requests take the whole burn
  /\ coverSharesBurnRequested' = coverSharesBurnRequested - u.totalSharesToBurn
  /\ nonCoverSharesBurnRequested' = nonCoverSharesBurnRequested + u.sharesToFinalizeWQ

\* commitSharesToBurn: cover requests first, then the others, to which the
\* shares of finalized withdrawals were just added.
CommitSharesToBurn(u) ==
  LET coverBurnt == Min({u.totalSharesToBurn, coverSharesBurnRequested})
  IN  /\ coverSharesBurnRequested' = coverSharesBurnRequested - coverBurnt
      /\ nonCoverSharesBurnRequested' =
           nonCoverSharesBurnRequested + u.sharesToFinalizeWQ
             - (u.totalSharesToBurn - coverBurnt)

FeesWithoutRemainder(u) ==            \* faulty: what rounding leaves goes to nobody
  LET gain(a) ==
        CASE a = Queue        -> - u.sharesToFinalizeWQ
          [] a = Burner       -> u.sharesToFinalizeWQ - u.totalSharesToBurn
          [] a = FeeRecipient -> (u.sharesToMintAsFees * ModuleFee) \div TotalFee
          [] a = Treasury     ->
               (u.sharesToMintAsFees * (TotalFee - ModuleFee)) \div TotalFee
          [] OTHER            -> 0
  IN  [a \in Accounts |-> shares[a] + gain(a)]

\* The shares of everyone after the finalized ones moved to Burner, the burn,
\* and _distributeFee, in which the treasury takes what rounding leaves.
SharesAfterReport(u) ==
  LET moduleShares == (u.sharesToMintAsFees * ModuleFee) \div TotalFee
      gain(a) ==
        CASE a = Queue        -> - u.sharesToFinalizeWQ
          [] a = Burner       -> u.sharesToFinalizeWQ - u.totalSharesToBurn
          [] a = FeeRecipient -> moduleShares
          [] a = Treasury     -> u.sharesToMintAsFees - moduleShares
          [] OTHER            -> 0
  IN  [a \in Accounts |-> shares[a] + gain(a)]

Admissible(r, u) ==
  /\ ~stopped
  /\ lastProcessingRefSlot < refSlot
  /\ ClBalance(r) >= 0
  /\ u \in CalculatedValues
  /\ SanityChecks(r, u)
  /\ u.etherToFinalizeWQ <= bufferedEther + u.elRewards + u.withdrawals

\* _applyOracleReportContext.
ApplyOracleReport(r, u) ==
  /\ AppliesCleanly(u)
  /\ clBalance' = ClBalance(r)
  /\ clValidators' = r.clValidators
  /\ badDebtToInternalize' = DecreasedBadDebt(u.badDebt)
  /\ externalShares' = externalShares - u.badDebt
  /\ CommitSharesToBurn(u)
  /\ withdrawalVault' = withdrawalVault - u.withdrawals
  /\ elRewardsVault' = elRewardsVault - u.elRewards
  /\ unfinalized' = AfterFinalize(r, u)
  /\ bufferedEther' = bufferedEther + u.elRewards + u.withdrawals - u.etherToFinalizeWQ
  /\ totalShares' = totalShares - u.totalSharesToBurn + u.sharesToMintAsFees
  /\ shares' = SharesAfterReport(u)
  /\ lastProcessingRefSlot' = refSlot
  /\ UNCHANGED <<depositedValidators, adminVars, stakeLimit, block, liabilityShares,
                 refSlot>>

\* A report that is admissible with what it was simulated to do, and does it.
HandleSimulated(r, u) == Admissible(r, u) /\ ApplyOracleReport(r, u)

HandleOracleReport(r) == HandleSimulated(r, Simulate(r))

-----------------------------------------------------------------------------
(* Administration and environment.                                         *)

Administer ==
  /\ \/ CanPause /\ (Stop \/ PauseStaking)
     \/ Resume
     \/ ResumeStaking
     \/ \E l \in StakeLimits : SetStakingLimit(l.max, l.increase)
     \/ RemoveStakingLimit
     \/ \E b \in Ratios : SetMaxExternalRatioBP(b)
     \/ NextBlock
  /\ UNCHANGED <<burnerVars, unfinalized, hubVars, vaultVars, slotVars>>

ReceiveRewards ==
  /\ \/ /\ withdrawalVault < MaxVault
        /\ withdrawalVault' = withdrawalVault + 1
        /\ UNCHANGED elRewardsVault
     \/ /\ elRewardsVault < MaxVault
        /\ elRewardsVault' = elRewardsVault + 1
        /\ UNCHANGED withdrawalVault
  /\ UNCHANGED <<lidoVars, burnerVars, unfinalized, hubVars, slotVars>>

NextRefSlot ==
  /\ refSlot < MaxRefSlot
  /\ refSlot' = refSlot + 1
  /\ UNCHANGED <<lidoVars, burnerVars, unfinalized, hubVars, vaultVars,
                 lastProcessingRefSlot>>

Init ==
  /\ LidoInit
  /\ coverSharesBurnRequested = 0
  /\ nonCoverSharesBurnRequested = 0
  /\ unfinalized = <<>>
  /\ liabilityShares = 0
  /\ badDebtToInternalize = [value |-> 0, valueOnRefSlot |-> 0, refSlot |-> 0]
  /\ withdrawalVault = 0
  /\ elRewardsVault = 0
  /\ refSlot = 0
  /\ lastProcessingRefSlot = 0

Next ==
  \/ \E u \in Users, a \in Recipients, n \in ShareAmounts : UserTransfers(u, a, n)
  \/ \E u \in Users, v \in Deposits : UserSubmits(u, v)
  \/ \E u \in Users, v \in Withdrawals : RequestWithdrawal(u, v)
  \/ \E c \in 1..MaxShares : DepositBufferedEther(c)
  \/ \E u \in Users, n \in BurnAmounts, b \in BOOLEAN : RequestBurnShares(u, n, b)
  \/ \E u \in Users, v \in StETHAmounts, b \in BOOLEAN : RequestBurnMyStETH(u, v, b)
  \/ RecoverExcessStETH
  \/ \E u \in Users, n \in ShareAmounts : HubMintShares(u, n)
  \/ \E n \in ShareAmounts : HubBurnShares(n)
  \/ \E n \in ShareAmounts : HubRebalance(n)
  \/ \E n \in ShareAmounts : InternalizeBadDebt(n)
  \/ \E r \in Reports : HandleOracleReport(r)
  \/ Administer
  \/ ReceiveRewards
  \/ NextRefSlot

Spec == Init /\ [][Next]_vars

-----------------------------------------------------------------------------
(* Properties.                                                             *)

\* Every variable holds a value of its type.
TypeOK ==
  /\ LidoTypeOK
  /\ coverSharesBurnRequested \in Nat
  /\ nonCoverSharesBurnRequested \in Nat
  /\ unfinalized \in Seq([stETH : Nat, shares : Nat])
  /\ liabilityShares \in Nat
  /\ badDebtToInternalize \in [value : Nat, valueOnRefSlot : Nat, refSlot : Nat]
  /\ withdrawalVault \in Nat
  /\ elRewardsVault \in Nat
  /\ refSlot \in Nat
  /\ lastProcessingRefSlot \in 0..refSlot

\* No mint, burn, transfer or report loses or invents a share, and internal
\* shares never run out, so the share rate always has a denominator ("the stone
\* in the elevator" of _getShareRateDenominator).
SharesConserved ==
  /\ MapThenSumSet(LAMBDA a : shares[a], Accounts) = totalShares
  /\ externalShares < totalShares

\* Burner holds what it was asked to burn, through rounding requests by amount,
\* recoveries of the excess and partial burns, so a report can always burn it.
BurnerBacked == shares[Burner] >= SharesBurnRequested

\* Every external share is a vault's liability or bad debt awaiting a report,
\* and a report still to come takes over no more bad debt than there is: the
\* subtraction that "can't underflow by design" in _simulateOracleReport.
ExternalSharesOwned ==
  /\ externalShares = liabilityShares + badDebtToInternalize.value
  /\ lastProcessingRefSlot < refSlot =>
       ValueForLastRefSlot(badDebtToInternalize, refSlot) <= badDebtToInternalize.value

\* A report that passes the sanity checks, and whose withdrawals fit the ether
\* at hand, is applied to the end: no call after the checks reverts.
ReportApplies ==
  ~stopped => \A r \in Reports :
                LET Applies(u) == Admissible(r, u) => AppliesCleanly(u)
                IN  Applies(Simulate(r))

IsReport == lastProcessingRefSlot' # lastProcessingRefSlot

\* What Accounting simulates, and emits as the post-report totals, is the state
\* that the separate calls to Burner, Lido and VaultHub leave behind.
RebaseAsSimulatedStep ==
  LET AsSimulated(u) ==
        /\ InternalEther' = u.postInternalEther
        /\ InternalShares' = u.postInternalShares
        /\ totalShares' = u.postTotalShares
        /\ TotalPooledEther' = u.postTotalPooledEther
      Agrees(r, u) == HandleSimulated(r, u) => AsSimulated(u)
  IN  IsReport => \A r \in Reports : Agrees(r, Simulate(r))
RebaseAsSimulated == [][RebaseAsSimulatedStep]_vars

\* A report raises the share rate by no more than maxPositiveTokenRebase, CL
\* rewards above that limit aside, whatever it takes from the vaults, burns on
\* Burner, finalizes in the queue, mints as fees or writes off.
RebaseLimitedStep ==
  IsReport /\ InternalEther > 0 =>
    LET clReward == clBalance' - clBalance - (clValidators' - clValidators) * DepositSize
        excess   == Max({0, clReward - (RebaseLimit * InternalEther) \div LimiterPrecision})
        rate     == ((InternalEther' - excess) * LimiterPrecision) \div InternalEther
    IN  rate * InternalShares <= (LimiterPrecision + RebaseLimit) * InternalShares'
RebaseLimited == [][RebaseLimitedStep]_vars

\* Outside reports nobody's stETH loses value: no submission, withdrawal or burn
\* request, external mint, burn or rebalance rounds against the holders.
RateNotDilutedStep ==
  ~IsReport => InternalEther' * InternalShares >= InternalEther * InternalShares'
RateNotDiluted == [][RateNotDilutedStep]_vars

\* "protocol pause also implies staking pause" (_decreaseStakingLimit), which
\* submit relies on: burns by vaults in a stopped protocol, changes of the limit
\* and resumeStaking never reopen staking while the protocol is stopped.
StopImpliesStakingPaused == stopped => IsStakingPaused
=============================================================================
