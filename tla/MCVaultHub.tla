----------------------------- MODULE MCVaultHub -----------------------------
(* The terms of tiers on which the runs of VaultHub check it.              *)
EXTENDS QuarantineHistory

CONSTANTS v1, tier0

MCNodeOperator == [v \in Vaults |-> CHOOSE o \in Operators : TRUE]
MCTierOperator == [t \in Tiers \ {DefaultTier} |-> CHOOSE o \in Operators : TRUE]

\* A reserve of a half, and a threshold of a quarter.
MCParams == [shareLimit |-> 2, reserveRatioBP |-> 2, forcedRebalanceThresholdBP |-> 1]
MCOneParams == {MCParams}
MCInitialParams == [t \in Tiers |-> MCParams]
=============================================================================
