----------------------------- MODULE LazyOracle -----------------------------
(***************************************************************************)
(* contracts/0.8.25/vaults/LazyOracle.sol: the sanity checks of a vault's  *)
(* report.  A rise of the total value that deposits through the hub do not *)
(* explain, and that is more than rewards would be, is quarantined for a   *)
(* period before VaultHub may count it.                                    *)
(***************************************************************************)
EXTENDS Integers, FiniteSetsExt

CONSTANTS
  QuarantinePeriod,
  MaxRewardRatioBP,
  MaxLidoFeeRate,        \* maxLidoFeeRatePerSecond, per unit of time
  TotalBasisPoints

ASSUME SanityParams ==
  /\ QuarantinePeriod \in Nat /\ MaxRewardRatioBP \in Nat
  /\ MaxLidoFeeRate \in Nat /\ TotalBasisPoints \in Nat \ {0}

NoQuarantine == [pending |-> 0, start |-> 0, remainder |-> 0]

NewQuarantine(amount, ts) == [pending |-> amount, start |-> ts, remainder |-> 0]

InQuarantine(q) == q.pending # 0

ExpiredAtOnce(q, ts) == InQuarantine(q) /\ ts >= q.start  \* faulty: no waiting
QuarantineExpired(q, ts) == InQuarantine(q) /\ ts - q.start >= QuarantinePeriod

WithRewards(value) == (value * (TotalBasisPoints + MaxRewardRatioBP)) \div TotalBasisPoints

-----------------------------------------------------------------------------
(* _processTotalValue.  `onchain' is the total value at the reference slot *)
(* as far as the chain can tell, without CL changes and EL rewards.  The   *)
(* result is the total value let through and the quarantine left behind.   *)

\* What can be let through at once: no rise, or one that rewards explain.
AsReported(reported) == [totalValue |-> reported, quarantine |-> NoQuarantine]

Unquarantined(reported, onchain, ts) ==
  IF reported <= WithRewards(onchain) THEN AsReported(reported)
  ELSE [totalValue |-> onchain, quarantine |-> NewQuarantine(reported - onchain, ts)]

Quarantined(q, reported, onchain) ==
  IF reported <= WithRewards(onchain) THEN AsReported(reported)
  ELSE [totalValue |-> onchain,
        quarantine |-> [q EXCEPT !.remainder = Max({0, reported - (onchain + q.pending)})]]

\* What was waiting is let through; what is new since then has to wait.
AfterQuarantine(q, reported, onchain, ts) ==
  IF reported <= WithRewards(onchain) + WithRewards(q.pending) THEN AsReported(reported)
  ELSE [totalValue |-> onchain + q.pending,
        quarantine |-> NewQuarantine(reported - onchain - q.pending, ts)]

ProcessTotalValue(q, reported, onchain, ts) ==
  CASE ~InQuarantine(q)                               -> Unquarantined(reported, onchain, ts)
    [] InQuarantine(q) /\ ~QuarantineExpired(q, ts)   -> Quarantined(q, reported, onchain)
    [] QuarantineExpired(q, ts)                       -> AfterQuarantine(q, reported, onchain, ts)

\* The fee checks of _handleSanityChecks.
FeesPlausible(previousFees, fees, elapsed) ==
  previousFees <= fees /\ fees - previousFees <= elapsed * MaxLidoFeeRate
=============================================================================
