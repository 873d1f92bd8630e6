--------------------- MODULE PositiveTokenRebaseLimiter ---------------------
(***************************************************************************)
(* contracts/0.8.9/lib/PositiveTokenRebaseLimiter.sol and its use in       *)
(* OracleReportSanityChecker.smoothenTokenRebase: how much of the ether in *)
(* the vaults and of the shares on Burner one report may take in, so that  *)
(* the share rate grows by no more than a limit.  All division floors.     *)
(*                                                                         *)
(* An operator marked "faulty" here, in Lido and in Accounting, is a       *)
(* plausible error in the operator below it, used by nothing, to be put in *)
(* that one's place.                                                       *)
(***************************************************************************)
EXTENDS Integers, FiniteSetsExt

CONSTANTS
  LimiterPrecision,   \* LIMITER_PRECISION_BASE, 10**9
  UnlimitedRebase     \* UNLIMITED_REBASE, type(uint64).max

ASSUME LimiterAssumption ==
  LimiterPrecision \in Nat \ {0} /\ UnlimitedRebase \in Nat \ {0}

\* TokenRebaseLimiterData
InitLimiterState(rebaseLimit, preEther, preShares) ==
  [preTotalPooledEther     |-> preEther,
   preTotalShares          |-> preShares,
   currentTotalPooledEther |-> preEther,
   positiveRebaseLimit     |-> IF preEther = 0 THEN UnlimitedRebase ELSE rebaseLimit,
   maxTotalPooledEther     |-> preEther + (rebaseLimit * preEther) \div LimiterPrecision]

IsUnlimited(limiter) == limiter.positiveRebaseLimit = UnlimitedRebase

IsLimitReached(limiter) ==
  limiter.currentTotalPooledEther >= limiter.maxTotalPooledEther

\* decreaseEther reverts with NegativeTotalPooledEther when this is false.
CanDecreaseEther(limiter, amount) ==
  IsUnlimited(limiter) \/ amount <= limiter.currentTotalPooledEther

DecreaseEther(limiter, amount) ==
  IF IsUnlimited(limiter) THEN limiter
  ELSE [limiter EXCEPT !.currentTotalPooledEther = @ - amount]

IncreaseEther(limiter, amount) ==
  IF IsUnlimited(limiter) THEN limiter
  ELSE [limiter EXCEPT !.currentTotalPooledEther =
          Min({@ + amount, limiter.maxTotalPooledEther})]

ConsumedAll(limiter, amount) == amount               \* faulty: the limit is ignored

\* The part of `amount' that increaseEther returns as taken in.
ConsumedEther(limiter, amount) ==
  IF IsUnlimited(limiter) THEN amount
  ELSE IncreaseEther(limiter, amount).currentTotalPooledEther
         - limiter.currentTotalPooledEther

PooledEtherRate(limiter) ==
  (limiter.currentTotalPooledEther * LimiterPrecision) \div limiter.preTotalPooledEther

SharesToBurnLimit(limiter) ==
  LET limitPlus1 == limiter.positiveRebaseLimit + LimiterPrecision
  IN  CASE IsUnlimited(limiter)    -> limiter.preTotalShares
        [] ~IsUnlimited(limiter) /\ IsLimitReached(limiter) -> 0
        [] OTHER -> (limiter.preTotalShares * (limitPlus1 - PooledEtherRate(limiter)))
                      \div limitPlus1

-----------------------------------------------------------------------------
(* smoothenTokenRebase takes in the change of the CL balance, then the     *)
(* withdrawal vault, then the EL rewards vault, each up to the limit; sets *)
(* aside the ether for withdrawals; and burns up to what the limit leaves. *)

AfterClUpdate(limiter, preCLBalance, postCLBalance) ==
  IF postCLBalance < preCLBalance
  THEN DecreaseEther(limiter, preCLBalance - postCLBalance)
  ELSE IncreaseEther(limiter, postCLBalance - preCLBalance)

SmoothenTokenRebase(limiter, preCL, postCL, withdrawals, rewards, requestedToBurn, toLock, newToBurn) ==
  LET afterCl          == AfterClUpdate(limiter, preCL, postCL)
      afterWithdrawals == IncreaseEther(afterCl, withdrawals)
      afterRewards     == IncreaseEther(afterWithdrawals, rewards)
      afterLock        == DecreaseEther(afterRewards, toLock)
      simulatedToBurn  == Min({SharesToBurnLimit(afterRewards), requestedToBurn})
      sharesToBurn     == Min({SharesToBurnLimit(afterLock),
                               newToBurn + requestedToBurn})
  IN  [reverts      |-> \/ ~CanDecreaseEther(limiter, preCL - postCL)
                        \/ ~CanDecreaseEther(afterRewards, toLock)
                        \/ sharesToBurn < simulatedToBurn,
       withdrawals  |-> ConsumedEther(afterCl, withdrawals),
       elRewards    |-> ConsumedEther(afterWithdrawals, rewards),
       sharesFromWQToBurn |-> sharesToBurn - simulatedToBurn,
       sharesToBurn |-> sharesToBurn]
=============================================================================
