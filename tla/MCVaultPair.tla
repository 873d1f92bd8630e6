---------------------------- MODULE MCVaultPair ----------------------------
(* Two connected vaults of one operator, in two tiers, and bad debt: v1    *)
(* has lost most of its ether by the reference slot whose report is due,   *)
(* v2 has some to spare.  The terms of the tiers are left as they are.     *)
EXTENDS VaultHub, TLC

CONSTANTS v1, v2, o1, tier0, tier1

MCNodeOperator == [v \in Vaults |-> o1]
MCTierOperator == [t \in Tiers \ {DefaultTier} |-> o1]

\* A reserve of a half, and a threshold of a quarter.
MCParams == [shareLimit |-> 3, reserveRatioBP |-> 2, forcedRebalanceThresholdBP |-> 1]
MCTierParams == {MCParams}
MCInitialParams == [t \in Tiers |-> MCParams]

\* Three shares of v1 out, backed by six units of which it lost five before
\* reference slot 2.
Held == (v1 :> 6) @@ (v2 :> 3)
Owed == (v1 :> 3) @@ (v2 :> 0)

PairInit ==
  /\ tierParams = InitialParams
  /\ groupLimit \in [Operators -> GroupLimits]
  /\ vaultTier = (v1 :> tier1) @@ (v2 :> tier0)
  /\ tierLiability = (tier1 :> 3) @@ (tier0 :> 0)
  /\ groupLiability = [o \in Operators |-> 3]
  /\ isVaultInJail = [v \in Vaults |-> FALSE]
  /\ vaults = <<v1, v2>>
  /\ balance = (v1 :> 1) @@ (v2 :> 3)
  /\ clBalance = [v \in Vaults |-> 0]
  /\ records = [v \in Vaults |->
       [NoRecord EXCEPT !.totalValue = Held[v], !.reportInOutDelta = Held[v],
                        !.timestamp = 3, !.inOutDelta = InitialDoubleCache(Held[v]),
                        !.liabilityShares = Owed[v], !.maxLiabilityShares = Owed[v],
                        !.minimalReserve = ConnectDeposit]]
  /\ connections = [v \in Vaults |->
       [vaultIndex |-> IF v = v1 THEN 1 ELSE 2,
        disconnectInitiatedTs |-> DisconnectNotInitiated,
        shareLimit |-> MCParams.shareLimit,
        reserveRatioBP |-> MCParams.reserveRatioBP,
        forcedRebalanceThresholdBP |-> MCParams.forcedRebalanceThresholdBP,
        pauseIntent |-> FALSE]]
  /\ badDebtToInternalize = [value |-> 0, valueOnRefSlot |-> 0, refSlot |-> 0]
  /\ externalShares = 3
  /\ quarantines = [v \in Vaults |-> NoQuarantine]
  /\ vaultsData = [refSlot |-> 1, leaves |-> [v \in Vaults |-> NoLeaf]]
  /\ ownedByHub = [v \in Vaults |-> TRUE]
  /\ depositsPaused = [v \in Vaults |-> FALSE]
  /\ now = 5
  /\ losses = (v1 :> 5) @@ (v2 :> 0)
  /\ lossesReported = [v \in Vaults |-> 0]
  /\ feesAccrued = [v \in Vaults |-> 0]
  /\ snapshot = [v \in Vaults |-> Leaf(v, 0)]

PairNext ==
  \/ \E n \in ShareAmounts : BurnShares(v1, n) \/ Rebalance(v1, n)
  \/ OwnerCalls(v2) \/ ConnectVault(v2)
  \/ \E v \in Vaults : RoleCalls(v) \/ AcceptOwnership(v) \/ UpdateVaultData(v)
  \/ NextMoment
  \/ SubmitReport

PairSpec == PairInit /\ [][PairNext]_vars
=============================================================================
