---------------------------- MODULE MCVaultTerms ----------------------------
(* One connected vault, its obligations and its terms: fees, redemptions,  *)
(* slashing reserves, tiers, jail and the pause of deposits.               *)
EXTENDS VaultHub, TLC

CONSTANTS v1, o1, tier0, tier1, tier2

MCNodeOperator == [v \in Vaults |-> o1]
MCTierOperator == [t \in Tiers \ {DefaultTier} |-> o1]

\* A reserve of a half and a threshold of a quarter; three quarters and a half.
Lenient == [shareLimit |-> 2, reserveRatioBP |-> 2, forcedRebalanceThresholdBP |-> 1]
Strict  == [shareLimit |-> 1, reserveRatioBP |-> 3, forcedRebalanceThresholdBP |-> 2]
MCTierParams == {Lenient, Strict}
MCInitialParams == [t \in Tiers |-> IF t = tier1 THEN Strict ELSE Lenient]

TermsInit ==
  /\ GridInit
  /\ vaults = <<v1>>
  /\ balance = (v1 :> 3)
  /\ clBalance = (v1 :> 1)
  /\ records = (v1 :>
       [NoRecord EXCEPT !.totalValue = 4, !.reportInOutDelta = 4, !.timestamp = 3,
                        !.inOutDelta = InitialDoubleCache(4),
                        !.minimalReserve = ConnectDeposit])
  /\ connections = (v1 :>
       [vaultIndex |-> 1, disconnectInitiatedTs |-> DisconnectNotInitiated,
        shareLimit |-> Lenient.shareLimit,
        reserveRatioBP |-> Lenient.reserveRatioBP,
        forcedRebalanceThresholdBP |-> Lenient.forcedRebalanceThresholdBP,
        pauseIntent |-> FALSE])
  /\ badDebtToInternalize = [value |-> 0, valueOnRefSlot |-> 0, refSlot |-> 0]
  /\ externalShares = 0
  /\ quarantines = (v1 :> NoQuarantine)
  /\ vaultsData = [refSlot |-> 1, leaves |-> (v1 :> NoLeaf)]
  /\ ownedByHub = (v1 :> TRUE)
  /\ depositsPaused = (v1 :> FALSE)
  /\ snapshot = (v1 :> NoLeaf)
  /\ feesAccrued = (v1 :> 0)
  /\ now = 3
  /\ losses = (v1 :> 0)
  /\ lossesReported = (v1 :> 0)

TermsNext ==
  \/ ConnectVault(v1) \/ AcceptOwnership(v1) \/ UseOwnVault(v1)
  \/ OwnerCalls(v1) \/ GridCalls(v1)
  \/ ForceRebalance(v1) \/ SettleLidoFees(v1) \/ InitiateDisconnection(v1, FALSE)
  \/ \E n \in Targets : SetLiabilitySharesTarget(v1, n)
  \/ AdministerGrid /\ \A t \in {tier0, tier2} : tierParams'[t] = tierParams[t]
  \/ NextMoment
  \/ SubmitReport
  \/ UpdateVaultData(v1)

TermsSpec == TermsInit /\ [][TermsNext]_vars
=============================================================================
