------------------------------ MODULE VaultHub ------------------------------
(***************************************************************************)
(* contracts/0.8.25/vaults/VaultHub.sol with the StakingVaults connected   *)
(* to it, OperatorGrid, LazyOracle and the ether that is really there.     *)
(*                                                                         *)
(* Time.  A frame has two moments: now = 2 * r + 1 and 2 * r + 2 lie in    *)
(* the frame of reference slot r, whose own time is 2 * r.  The second is  *)
(* the block of the next reference slot, which still sees the old one.     *)
(*                                                                         *)
(* Of a vault's owner what matters is whether it is the hub; roles and     *)
(* senders are left out, as is the pause, and the share rate of Lido is a  *)
(* constant.  The shares of Lido are kept to the external ones.            *)
(***************************************************************************)
EXTENDS RefSlotCache, LazyOracle, OperatorGrid

CONSTANTS
  ConnectDeposit,        \* CONNECT_DEPOSIT
  MinBeaconDeposit,      \* MIN_BEACON_DEPOSIT
  FreshnessDelta,        \* REPORT_FRESHNESS_DELTA
  ExtraShares,           \* the 100 shares of _healthShortfallShares
  MaxShareLimit,         \* of _requireSaneShareLimit
  MaxUint,               \* type(uint256).max
  RateEther, RateShares, \* the share rate: RateEther for RateShares shares
  Amounts,               \* ether that is funded or withdrawn at once
  ShareAmounts,          \* shares in the arguments of a call
  Targets,               \* arguments of setLiabilitySharesTarget
  SlashingReserves,      \* slashing reserves of a report, besides none
  Pausing,               \* vaults whose owner pauses deposits
  MaxEther,              \* bound on the ether of a vault
  MaxLosses,             \* bound on CL losses of a vault
  MaxFees,               \* bound on the fees accrued by a vault
  MaxTime                \* bound on time

ASSUME HubAssumption ==
  /\ {ConnectDeposit, MinBeaconDeposit, FreshnessDelta} \subseteq Nat \ {0}
  /\ {ExtraShares, MaxShareLimit, MaxUint} \subseteq Nat
  /\ {RateEther, RateShares} \subseteq Nat \ {0}
  /\ Amounts \subseteq Nat \ {0} /\ ShareAmounts \subseteq Nat \ {0}
  /\ Targets \subseteq Nat /\ SlashingReserves \subseteq Nat /\ Pausing \subseteq Vaults
  /\ {MaxEther, MaxLosses, MaxFees, MaxTime} \subseteq Nat /\ MaxTime >= 3
  /\ \A p \in TierParams : /\ p.forcedRebalanceThresholdBP < p.reserveRatioBP
                            /\ p.reserveRatioBP < TotalBasisPoints

VARIABLES
  vaults,                \* the list of connected vaults, from index 1
  connections,           \* vaultIndex, limits and disconnectInitiatedTs
  records,               \* the accounting record of each vault
  badDebtToInternalize,
  externalShares,        \* of Lido
  quarantines,
  vaultsData,            \* LazyOracle: reference slot and leaves of the report
  ownedByHub,            \* StakingVault: VaultHub is the owner
  depositsPaused,        \* StakingVault: beaconChainDepositsPaused
  balance,               \* environment: ether on each vault
  clBalance,             \* environment: ether of its validators
  snapshot,              \* environment: leaves as of the last reference slot
  feesAccrued,           \* environment: Lido fees since the vault connected
  now,
  losses,                \* auxiliary: CL losses since the vault connected
  lossesReported         \* auxiliary: those that its last report has seen

hubVars   == <<vaults, connections, records, badDebtToInternalize, externalShares>>
vaultVars == <<ownedByHub, depositsPaused, balance>>
lossVars  == <<losses, lossesReported>>
envVars   == <<clBalance, snapshot, feesAccrued, now, lossVars>>
vars == <<hubVars, gridVars, quarantines, vaultsData, vaultVars, envVars>>

RefSlot == (now - 1) \div 2
TimestampOf(refSlot) == 2 * refSlot

NoConnection ==
  [vaultIndex |-> 0, disconnectInitiatedTs |-> 0, shareLimit |-> 0,
   reserveRatioBP |-> 0, forcedRebalanceThresholdBP |-> 0, pauseIntent |-> FALSE]
DisconnectNotInitiated == MaxUint

NoRecord ==
  [totalValue |-> 0, reportInOutDelta |-> 0, timestamp |-> 0,
   maxLiabilityShares |-> 0, liabilityShares |-> 0,
   inOutDelta |-> InitialDoubleCache(0), minimalReserve |-> 0, redemptionShares |-> 0,
   cumulativeLidoFees |-> 0, settledLidoFees |-> 0]

Connected(v) == connections[v].vaultIndex # 0
Disconnecting(v) ==
  connections[v].disconnectInitiatedTs \notin {0, DisconnectNotInitiated}
InUse(v) == Connected(v) /\ ~Disconnecting(v)            \* _checkConnection

CeilDiv(a, b) == (a + b - 1) \div b
SharesByPooledEth(ether) == (ether * RateShares) \div RateEther
PooledEthBySharesRoundUp(n) == CeilDiv(n * RateEther, RateShares)

-----------------------------------------------------------------------------
(* What a record says of a vault.  c is its connection and r its record.   *)

TotalValue(r) == r.totalValue + CurrentValue(r.inOutDelta) - r.reportInOutDelta

Locked(n, minimalReserve, reserveRatioBP) ==
  LET liability == PooledEthBySharesRoundUp(n)
      reserve   == CeilDiv(liability * reserveRatioBP, TotalBasisPoints - reserveRatioBP)
  IN  liability + Max({reserve, minimalReserve})

LockedOf(c, r) == Locked(r.maxLiabilityShares, r.minimalReserve, c.reserveRatioBP)

ReportFresh(r) ==
  /\ TimestampOf(vaultsData.refSlot) <= r.timestamp
  /\ now - TimestampOf(vaultsData.refSlot) < FreshnessDelta

ThresholdBreached(totalValue, n, thresholdBP) ==
  PooledEthBySharesRoundUp(n)
    > (totalValue * (TotalBasisPoints - thresholdBP)) \div TotalBasisPoints

Healthy(c, r) ==
  ~ThresholdBreached(TotalValue(r), r.liabilityShares, c.forcedRebalanceThresholdBP)

BadDebtShares(r) == Max({0, r.liabilityShares - SharesByPooledEth(TotalValue(r))})

\* The shares to rebalance until the reserve ratio is met again; MaxUint when
\* the vault cannot be rebalanced back to health.
HealthShortfallShares(c, r) ==
  LET liability == PooledEthBySharesRoundUp(r.liabilityShares)
      mintable  == TotalBasisPoints - c.reserveRatioBP
      ether     == CeilDiv(liability * TotalBasisPoints - TotalValue(r) * mintable,
                           c.reserveRatioBP)
  IN  CASE Healthy(c, r)                                    -> 0
        [] ~Healthy(c, r) /\ liability > TotalValue(r)      -> MaxUint
        [] ~Healthy(c, r) /\ liability <= TotalValue(r) /\ r.liabilityShares <= ExtraShares
                                                            -> r.liabilityShares
        [] OTHER -> Min({SharesByPooledEth(ether) + ExtraShares, r.liabilityShares})

UnsettledLidoFees(r) == r.cumulativeLidoFees - r.settledLidoFees

ObligationsShares(c, r) == Max({HealthShortfallShares(c, r), r.redemptionShares})

HasObligations(c, r) ==
  ObligationsShares(c, r) > 0 \/ UnsettledLidoFees(r) >= MinBeaconDeposit

MaxLockableValue(r) == Max({0, TotalValue(r) - UnsettledLidoFees(r)})

WithdrawableFeesIncluded(v, c, r) ==
  LET available == Min({balance[v], TotalValue(r)})
      redeemed  == PooledEthBySharesRoundUp(r.redemptionShares)
      unlocked  == Max({0, TotalValue(r) - LockedOf(c, r)})
  IN  IF redeemed > available THEN 0 ELSE Min({available - redeemed, unlocked})

WithdrawableIgnoringLock(v, c, r) ==                   \* faulty: nothing is locked
  Max({0, Min({balance[v], TotalValue(r)}) - UnsettledLidoFees(r)})
WithdrawableValue(v, c, r) ==
  Max({0, WithdrawableFeesIncluded(v, c, r) - UnsettledLidoFees(r)})

-----------------------------------------------------------------------------
(* Changes of a record, and of the vault with it.                          *)

InOutDeltaChanged(r, increment) ==
  [r EXCEPT !.inOutDelta = WithDoubleIncrease(@, RefSlot, increment)]

LiabilityIncreased(r, n) ==
  [r EXCEPT !.liabilityShares = @ + n,
            !.maxLiabilityShares = Max({@, r.liabilityShares + n})]

RedemptionsKept(r, n) ==                      \* faulty: burns redeem nothing
  [r EXCEPT !.liabilityShares = @ - n]
LiabilityDecreased(r, n) ==
  [r EXCEPT !.liabilityShares = @ - n, !.redemptionShares = Max({0, @ - n})]

CanWithdrawOfRecord(v, r, amount) ==          \* faulty: of what is not there
  0 < amount /\ amount <= TotalValue(r)

\* _withdraw, of the record; StakingVault.withdraw does not send nothing.
CanWithdraw(v, r, amount) ==
  0 < amount /\ amount <= TotalValue(r) /\ amount <= balance[v]

SetRecord(v, r) == records' = [records EXCEPT ![v] = r]
SetConnection(v, c) == connections' = [connections EXCEPT ![v] = c]

\* _updateBeaconChainDepositsPause, with the record and connection of the end
\* of the call.
UpdateDepositsPause(v, c, r) ==
  depositsPaused' = [depositsPaused EXCEPT
    ![v] = HasObligations(c, r) \/ (@ /\ c.pauseIntent)]

-----------------------------------------------------------------------------
(* connectVault and what a vault can do on its own.                        *)

NewConnection(v, params) ==
  [vaultIndex |-> Len(vaults) + 1,
   disconnectInitiatedTs |-> DisconnectNotInitiated,
   shareLimit |-> params.shareLimit,
   reserveRatioBP |-> params.reserveRatioBP,
   forcedRebalanceThresholdBP |-> params.forcedRebalanceThresholdBP,
   pauseIntent |-> depositsPaused[v]]

NewRecord(v) ==
  [NoRecord EXCEPT !.totalValue = balance[v], !.reportInOutDelta = balance[v],
                   !.timestamp = now, !.inOutDelta = InitialDoubleCache(balance[v]),
                   !.minimalReserve = ConnectDeposit]

ConnectVault(v) ==
  LET params == tierParams[vaultTier[v]]
  IN  /\ ~ownedByHub[v] /\ ~Connected(v)
      /\ params.shareLimit <= MaxShareLimit
      /\ balance[v] >= ConnectDeposit
      /\ vaults' = Append(vaults, v)
      /\ SetConnection(v, NewConnection(v, params))
      /\ SetRecord(v, NewRecord(v))
      /\ ownedByHub' = [ownedByHub EXCEPT ![v] = TRUE]
      /\ feesAccrued' = [feesAccrued EXCEPT ![v] = 0]
      /\ losses' = [losses EXCEPT ![v] = 0]
      /\ lossesReported' = [lossesReported EXCEPT ![v] = 0]
      /\ UNCHANGED <<badDebtToInternalize, externalShares, gridVars, quarantines,
                     vaultsData, depositsPaused, balance, clBalance, snapshot, now>>

\* StakingVault.acceptOwnership, after the hub has handed a vault back.
AcceptOwnership(v) ==
  /\ ownedByHub[v] /\ ~Connected(v)
  /\ ownedByHub' = [ownedByHub EXCEPT ![v] = FALSE]
  /\ UNCHANGED <<hubVars, gridVars, quarantines, vaultsData, depositsPaused, balance, envVars>>

\* StakingVault.fund, withdraw and the pause of deposits, by an owner that is
\* not the hub.
UseOwnVault(v) ==
  /\ ~ownedByHub[v]
  /\ \/ \E n \in Amounts :
          /\ \/ /\ balance[v] + clBalance[v] + n <= MaxEther
                /\ balance' = [balance EXCEPT ![v] = @ + n]
             \/ /\ n <= balance[v]
                /\ balance' = [balance EXCEPT ![v] = @ - n]
          /\ UNCHANGED depositsPaused
     \/ /\ v \in Pausing
        /\ depositsPaused' = [depositsPaused EXCEPT ![v] = ~@]
        /\ UNCHANGED balance
  /\ UNCHANGED <<hubVars, gridVars, quarantines, vaultsData, ownedByHub, envVars>>

-----------------------------------------------------------------------------
(* The owner's calls.                                                      *)

\* Left alone by every call that moves a vault's ether or shares.
Elsewhere == <<vaults, quarantines, vaultsData, ownedByHub, envVars>>

Fund(v, amount) ==
  /\ Connected(v)
  /\ balance[v] + clBalance[v] + amount <= MaxEther
  /\ SetRecord(v, InOutDeltaChanged(records[v], amount))
  /\ balance' = [balance EXCEPT ![v] = @ + amount]
  /\ UNCHANGED <<connections, badDebtToInternalize, externalShares, gridVars,
                 depositsPaused, Elsewhere>>

Withdraw(v, amount) ==
  LET r == records[v]
  IN  /\ InUse(v) /\ ReportFresh(r)
      /\ amount <= WithdrawableValue(v, connections[v], r)
      /\ CanWithdraw(v, r, amount)
      /\ SetRecord(v, InOutDeltaChanged(r, -amount))
      /\ balance' = [balance EXCEPT ![v] = @ - amount]
      /\ UNCHANGED <<connections, badDebtToInternalize, externalShares, gridVars,
                     depositsPaused, Elsewhere>>

MintShares(v, n) ==
  LET r == records[v]
      c == connections[v]
      after == r.liabilityShares + n
  IN  /\ InUse(v) /\ ReportFresh(r)
      /\ after <= c.shareLimit
      /\ Locked(after, r.minimalReserve, c.reserveRatioBP) <= MaxLockableValue(r)
      /\ WithinLimits(v, n)
      /\ SetRecord(v, LiabilityIncreased(r, n))
      /\ ChangeLiability(v, n)
      /\ externalShares' = externalShares + n
      /\ UNCHANGED <<connections, badDebtToInternalize, depositsPaused, balance, Elsewhere>>

\* burnShares and transferAndBurnShares
BurnShares(v, n) ==
  LET r == LiabilityDecreased(records[v], n)
  IN  /\ InUse(v)
      /\ n <= records[v].liabilityShares
      /\ SetRecord(v, r)
      /\ ChangeLiability(v, -n)
      /\ externalShares' = externalShares - n
      /\ UpdateDepositsPause(v, connections[v], r)
      /\ UNCHANGED <<connections, badDebtToInternalize, balance, Elsewhere>>

\* _rebalance: the liability is paid with ether of the vault.
PayLiability(v, n) ==
  LET value == PooledEthBySharesRoundUp(n)
      r     == InOutDeltaChanged(LiabilityDecreased(records[v], n), -value)
  IN  /\ n <= records[v].liabilityShares
      /\ CanWithdraw(v, records[v], value)
      /\ SetRecord(v, r)
      /\ balance' = [balance EXCEPT ![v] = @ - value]
      /\ ChangeLiability(v, -n)
      /\ externalShares' = externalShares - n
      /\ UpdateDepositsPause(v, connections[v], r)
      /\ UNCHANGED <<connections, badDebtToInternalize, Elsewhere>>

Rebalance(v, n) ==
  /\ InUse(v) /\ ReportFresh(records[v])
  /\ PayLiability(v, n)

ForceRebalance(v) ==
  LET r         == records[v]
      available == Min({balance[v], TotalValue(r)})
      n         == Min({ObligationsShares(connections[v], r), SharesByPooledEth(available)})
  IN  /\ InUse(v) /\ ReportFresh(r)
      /\ n > 0
      /\ PayLiability(v, n)

PauseBeaconChainDeposits(v) ==
  /\ v \in Pausing
  /\ InUse(v) /\ ~connections[v].pauseIntent
  /\ SetConnection(v, [connections[v] EXCEPT !.pauseIntent = TRUE])
  /\ depositsPaused' = [depositsPaused EXCEPT ![v] = TRUE]
  /\ UNCHANGED <<records, badDebtToInternalize, externalShares, gridVars, balance, Elsewhere>>

ResumeBeaconChainDeposits(v) ==
  LET c == [connections[v] EXCEPT !.pauseIntent = FALSE]
  IN  /\ InUse(v) /\ connections[v].pauseIntent
      /\ ReportFresh(records[v])
      /\ SetConnection(v, c)
      /\ UpdateDepositsPause(v, c, records[v])
      /\ UNCHANGED <<records, badDebtToInternalize, externalShares, gridVars, balance,
                     Elsewhere>>

-----------------------------------------------------------------------------
(* Fees, disconnection and the calls of roles.                             *)

\* _settleLidoFees, of the record.
FeesSettled(r, amount) ==
  InOutDeltaChanged([r EXCEPT !.settledLidoFees = @ + amount], -amount)

PayFees(v, c, amount) ==
  LET r == FeesSettled(records[v], amount)
  IN  /\ CanWithdraw(v, records[v], amount)
      /\ SetRecord(v, r)
      /\ balance' = [balance EXCEPT ![v] = @ - amount]
      /\ UpdateDepositsPause(v, c, r)

SettleLidoFees(v) ==
  LET r == records[v]
      c == connections[v]
      amount == Min({WithdrawableFeesIncluded(v, c, r), UnsettledLidoFees(r)})
  IN  /\ InUse(v) /\ ReportFresh(r)
      /\ amount > 0
      /\ PayFees(v, c, amount)
      /\ UNCHANGED <<connections, badDebtToInternalize, externalShares, gridVars, Elsewhere>>

\* voluntaryDisconnect, which pays all the fees or fails, and disconnect, which
\* pays what it can.
InitiateDisconnection(v, forceFullFees) ==
  LET r == records[v]
      c == connections[v]
      unsettled == UnsettledLidoFees(r)
      available == Min({balance[v], TotalValue(r)})
      amount    == Min({available, unsettled})
  IN  /\ InUse(v) /\ ReportFresh(r)
      /\ r.liabilityShares = 0
      /\ forceFullFees => unsettled <= available
      /\ IF amount > 0 THEN PayFees(v, c, amount)
         ELSE UNCHANGED <<records, balance, depositsPaused>>
      /\ SetConnection(v, [c EXCEPT !.disconnectInitiatedTs = now])
      /\ UNCHANGED <<badDebtToInternalize, externalShares, gridVars, Elsewhere>>

SetLiabilitySharesTarget(v, target) ==
  LET r == [records[v] EXCEPT !.redemptionShares =
              Max({0, records[v].liabilityShares - target})]
  IN  /\ InUse(v)
      /\ SetRecord(v, r)
      /\ UpdateDepositsPause(v, connections[v], r)
      /\ UNCHANGED <<connections, badDebtToInternalize, externalShares, gridVars,
                     balance, Elsewhere>>

AcceptorUncapped(v) == MaxUint               \* faulty: takes over any bad debt
AcceptorCapacity(v) ==
  Max({0, SharesByPooledEth(TotalValue(records[v])) - records[v].liabilityShares})

SocializeBadDebt(v, acceptor, maxShares) ==
  LET n        == Min({BadDebtShares(records[v]), maxShares, AcceptorCapacity(acceptor)})
      accepted == LiabilityIncreased(records[acceptor], n)
  IN  /\ v # acceptor                        \* else there is no capacity
      /\ NodeOperator[v] = NodeOperator[acceptor]
      /\ Connected(v) /\ Connected(acceptor)
      /\ ReportFresh(records[v]) /\ ReportFresh(records[acceptor])
      /\ n > 0
      /\ records' = [records EXCEPT ![v] = LiabilityDecreased(@, n),
                                    ![acceptor] = accepted]
      /\ MoveLiability(v, acceptor, n)
      /\ UpdateDepositsPause(acceptor, connections[acceptor], accepted)
      /\ UNCHANGED <<connections, badDebtToInternalize, externalShares, balance, Elsewhere>>

InternalizeBadDebt(v, maxShares) ==
  LET n == Min({BadDebtShares(records[v]), maxShares})
  IN  /\ Connected(v) /\ ReportFresh(records[v])
      /\ n > 0
      /\ SetRecord(v, LiabilityDecreased(records[v], n))
      /\ ChangeLiability(v, -n)
      /\ badDebtToInternalize' = WithValueIncrease(badDebtToInternalize, RefSlot, n)
      /\ UNCHANGED <<connections, externalShares, depositsPaused, balance, Elsewhere>>

-----------------------------------------------------------------------------
(* OperatorGrid's calls of updateConnection, confirmed by both parties.    *)

UpdateConnection(v, shareLimit, reserveRatioBP, thresholdBP) ==
  LET c == connections[v]
      r == records[v]
  IN  /\ shareLimit <= MaxShareLimit
      /\ Connected(v) /\ ReportFresh(r)
      /\ <<reserveRatioBP, thresholdBP>> # <<c.reserveRatioBP, c.forcedRebalanceThresholdBP>>
           => ~ThresholdBreached(TotalValue(r), r.liabilityShares, reserveRatioBP)
      /\ SetConnection(v, [c EXCEPT !.shareLimit = shareLimit,
                                    !.reserveRatioBP = reserveRatioBP,
                                    !.forcedRebalanceThresholdBP = thresholdBP])
      /\ UNCHANGED <<records, badDebtToInternalize, externalShares, depositsPaused,
                     balance, Elsewhere>>

ChangeTier(v, t, shareLimit) ==
  LET params == tierParams[t]
  IN  /\ MoveToTier(v, t, shareLimit, records[v].liabilityShares)
      /\ UpdateConnection(v, shareLimit, params.reserveRatioBP,
                          params.forcedRebalanceThresholdBP)

SyncTier(v) ==
  LET params == tierParams[vaultTier[v]]
      c      == connections[v]
  IN  /\ <<params.reserveRatioBP, params.forcedRebalanceThresholdBP>>
           # <<c.reserveRatioBP, c.forcedRebalanceThresholdBP>>
      /\ UpdateConnection(v, c.shareLimit, params.reserveRatioBP,
                          params.forcedRebalanceThresholdBP)
      /\ UNCHANGED gridVars

UpdateVaultShareLimit(v, shareLimit) ==
  LET c == connections[v]
  IN  /\ shareLimit <= tierParams[vaultTier[v]].shareLimit
      /\ shareLimit # c.shareLimit
      /\ records[v].liabilityShares <= shareLimit
      /\ UpdateConnection(v, shareLimit, c.reserveRatioBP, c.forcedRebalanceThresholdBP)
      /\ UNCHANGED gridVars

AdministerGrid ==
  /\ \/ \E t \in Tiers, params \in TierParams : AlterTier(t, params)
     \/ \E o \in Operators, limit \in GroupLimits : UpdateGroupShareLimit(o, limit)
     \/ \E v \in Jailable : SetVaultJailStatus(v)
  /\ UNCHANGED <<hubVars, quarantines, vaultsData, vaultVars, envVars>>

-----------------------------------------------------------------------------
(* The oracle: the leaves of a reference slot, the report that publishes   *)
(* them, and the report of each vault that anyone may then bring.          *)

NoLeaf == [inTree |-> FALSE, totalValue |-> 0, cumulativeLidoFees |-> 0,
           liabilityShares |-> 0, maxLiabilityShares |-> 0, slashingReserve |-> 0,
           losses |-> 0]

\* What an honest oracle finds at a vault.
Leaf(v, fees) ==
  IF Connected(v)
  THEN [inTree |-> TRUE, totalValue |-> balance[v] + clBalance[v],
        cumulativeLidoFees |-> fees, liabilityShares |-> records[v].liabilityShares,
        maxLiabilityShares |-> records[v].maxLiabilityShares, slashingReserve |-> 0,
        losses |-> losses[v]]
  ELSE NoLeaf

\* Fees accrue up to the reference slot, at which the leaves are taken.
NextMoment ==
  /\ now < MaxTime
  /\ now' = now + 1
  /\ IF now % 2 = 0
     THEN \E fees \in [Vaults -> 0..MaxFees] :
            /\ \A v \in Vaults : fees[v] \in feesAccrued[v]..(feesAccrued[v] + 1)
            /\ \A v \in Vaults : ~Connected(v) => fees[v] = feesAccrued[v]
            /\ feesAccrued' = fees
            /\ snapshot' = [v \in Vaults |-> Leaf(v, fees[v])]
     ELSE UNCHANGED <<feesAccrued, snapshot>>
  /\ UNCHANGED <<hubVars, gridVars, quarantines, vaultsData, vaultVars, clBalance, lossVars>>

\* AccountingOracle's report: Accounting settles the bad debt of the reference
\* slot (decreaseInternalizedBadDebt) and LazyOracle takes the new leaves.
SubmitReport ==
  LET badDebt == ValueForLastRefSlot(badDebtToInternalize, RefSlot)
  IN  /\ vaultsData.refSlot < RefSlot
      /\ \E s \in [Vaults -> SlashingReserves \cup {0}] :
           /\ \A v \in Vaults : ~snapshot[v].inTree => s[v] = 0
           /\ vaultsData' = [refSlot |-> RefSlot,
                             leaves  |-> [v \in Vaults |->
                                            [snapshot[v] EXCEPT !.slashingReserve = s[v]]]]
      /\ badDebtToInternalize' = [badDebtToInternalize EXCEPT !.value = @ - badDebt]
      /\ externalShares' = externalShares - badDebt
      /\ snapshot' = [v \in Vaults |-> NoLeaf]          \* no longer of use
      /\ UNCHANGED <<vaults, connections, records, gridVars, quarantines, vaultVars,
                     clBalance, feesAccrued, now, lossVars>>

\* The vault leaves the hub; the last vault of the list takes its place.
IndicesKept(v, last) ==                        \* faulty: the last keeps its index
  [connections EXCEPT ![v] = NoConnection]
IndicesWithout(v, last) ==
  [connections EXCEPT ![last].vaultIndex = connections[v].vaultIndex, ![v] = NoConnection]

DeleteVault(v) ==
  LET last == vaults[Len(vaults)]
  IN  /\ vaults' = SubSeq([vaults EXCEPT ![connections[v].vaultIndex] = last],
                          1, Len(vaults) - 1)
      /\ connections' = IndicesWithout(v, last)
      /\ SetRecord(v, NoRecord)
      /\ quarantines' = [quarantines EXCEPT ![v] = NoQuarantine]
      /\ ResetVaultTier(v)
      /\ UNCHANGED <<badDebtToInternalize, externalShares, depositsPaused, lossesReported>>

\* _applyVaultReport.  The largest liability of the period is forgotten only if
\* it is the one that the report has seen.
Reported(r, leaf, totalValue, inOutDelta) ==
  [r EXCEPT !.totalValue = totalValue,
            !.reportInOutDelta = inOutDelta,
            !.timestamp = TimestampOf(vaultsData.refSlot),
            !.cumulativeLidoFees = leaf.cumulativeLidoFees,
            !.minimalReserve = Max({ConnectDeposit, leaf.slashingReserve}),
            !.maxLiabilityShares =
               IF @ = leaf.maxLiabilityShares
               THEN Max({r.liabilityShares, leaf.liabilityShares}) ELSE @]

RecordReport(v, leaf, totalValue, inOutDelta, quarantine) ==
  LET r == Reported(records[v], leaf, totalValue, inOutDelta)
      c == [connections[v] EXCEPT !.disconnectInitiatedTs =
              IF @ <= TimestampOf(vaultsData.refSlot) THEN DisconnectNotInitiated ELSE @]
  IN  /\ SetRecord(v, r)
      /\ SetConnection(v, c)
      /\ quarantines' = [quarantines EXCEPT ![v] = quarantine]
      /\ UpdateDepositsPause(v, c, r)
      /\ lossesReported' = [lossesReported EXCEPT ![v] = leaf.losses]
      /\ UNCHANGED <<vaults, badDebtToInternalize, externalShares, gridVars>>

\* applyVaultReport: a disconnection that the report has seen is completed, or
\* given up if slashing or socialized bad debt is left.
ApplyVaultReport(v, leaf, totalValue, inOutDelta, quarantine) ==
  IF /\ connections[v].disconnectInitiatedTs <= TimestampOf(vaultsData.refSlot)
     /\ leaf.slashingReserve = 0 /\ records[v].liabilityShares = 0
  THEN DeleteVault(v)
  ELSE RecordReport(v, leaf, totalValue, inOutDelta, quarantine)

\* _handleSanityChecks, after the in-out delta of the reference slot was found.
SanityChecked(v, leaf, inOutDelta) ==
  LET r       == records[v]
      onchain == r.totalValue + inOutDelta - r.reportInOutDelta
      ts      == TimestampOf(vaultsData.refSlot)
      checked == ProcessTotalValue(quarantines[v], leaf.totalValue, onchain, ts)
  IN  /\ onchain >= 0
      /\ checked.totalValue + CurrentValue(r.inOutDelta) - inOutDelta >= 0
      /\ FeesPlausible(r.cumulativeLidoFees, leaf.cumulativeLidoFees, ts - r.timestamp)
      /\ leaf.liabilityShares <= leaf.maxLiabilityShares
      /\ ApplyVaultReport(v, leaf, checked.totalValue, inOutDelta, checked.quarantine)

UpdateVaultData(v) ==
  LET r    == records[v]
      leaf == vaultsData.leaves[v]
  IN  /\ leaf.inTree /\ Connected(v)
      /\ r.timestamp < TimestampOf(vaultsData.refSlot)
      /\ HasValueForRefSlot(r.inOutDelta, vaultsData.refSlot)
      /\ SanityChecked(v, leaf, ValueForRefSlot(r.inOutDelta, vaultsData.refSlot))
      /\ UNCHANGED <<vaultsData, ownedByHub, balance, clBalance, snapshot, feesAccrued,
                     now, losses>>

-----------------------------------------------------------------------------
(* The consensus layer: deposits, exits, rewards and losses, by one unit.  *)

MoveClEther(v) ==
  /\ \/ /\ ~depositsPaused[v] /\ balance[v] > 0
        /\ balance' = [balance EXCEPT ![v] = @ - 1]
        /\ clBalance' = [clBalance EXCEPT ![v] = @ + 1]
     \/ /\ clBalance[v] > 0
        /\ balance' = [balance EXCEPT ![v] = @ + 1]
        /\ clBalance' = [clBalance EXCEPT ![v] = @ - 1]
  /\ UNCHANGED <<hubVars, gridVars, quarantines, vaultsData, ownedByHub, depositsPaused,
                 snapshot, feesAccrued, now, lossVars>>

ChangeClEther(v) ==
  /\ Connected(v)
  /\ \/ /\ clBalance[v] > 0 /\ balance[v] + clBalance[v] < MaxEther
        /\ clBalance' = [clBalance EXCEPT ![v] = @ + 1]
        /\ UNCHANGED losses
     \/ /\ clBalance[v] > 0 /\ losses[v] < MaxLosses
        /\ clBalance' = [clBalance EXCEPT ![v] = @ - 1]
        /\ losses' = [losses EXCEPT ![v] = @ + 1]
  /\ UNCHANGED <<hubVars, gridVars, quarantines, vaultsData, vaultVars, snapshot,
                 feesAccrued, now, lossesReported>>

Init ==
  /\ GridInit
  /\ vaults = <<>>
  /\ connections = [v \in Vaults |-> NoConnection]
  /\ records = [v \in Vaults |-> NoRecord]
  /\ badDebtToInternalize = [value |-> 0, valueOnRefSlot |-> 0, refSlot |-> 0]
  /\ externalShares = 0
  /\ quarantines = [v \in Vaults |-> NoQuarantine]
  /\ vaultsData = [refSlot |-> 1, leaves |-> [v \in Vaults |-> NoLeaf]]
  /\ ownedByHub = [v \in Vaults |-> FALSE]
  /\ depositsPaused = [v \in Vaults |-> FALSE]
  /\ balance = [v \in Vaults |-> 0]
  /\ clBalance = [v \in Vaults |-> 0]
  /\ snapshot = [v \in Vaults |-> NoLeaf]
  /\ feesAccrued = [v \in Vaults |-> 0]
  /\ now = 3
  /\ losses = [v \in Vaults |-> 0]
  /\ lossesReported = [v \in Vaults |-> 0]

OwnerCalls(v) ==
  \/ \E n \in Amounts : Fund(v, n) \/ Withdraw(v, n)
  \/ \E n \in ShareAmounts : MintShares(v, n) \/ BurnShares(v, n) \/ Rebalance(v, n)
  \/ PauseBeaconChainDeposits(v)
  \/ ResumeBeaconChainDeposits(v)
  \/ InitiateDisconnection(v, TRUE)

RoleCalls(v) ==
  \/ ForceRebalance(v)
  \/ SettleLidoFees(v)
  \/ InitiateDisconnection(v, FALSE)
  \/ \E n \in Targets : SetLiabilitySharesTarget(v, n)
  \/ \E a \in Vaults, n \in ShareAmounts : SocializeBadDebt(v, a, n)
  \/ \E n \in ShareAmounts : InternalizeBadDebt(v, n)

GridCalls(v) ==
  \/ \E t \in Tiers, n \in ShareAmounts : ChangeTier(v, t, n)
  \/ SyncTier(v)
  \/ \E n \in ShareAmounts : UpdateVaultShareLimit(v, n)

Next ==
  \/ \E v \in Vaults : ConnectVault(v) \/ AcceptOwnership(v) \/ UseOwnVault(v)
  \/ \E v \in Vaults : OwnerCalls(v)
  \/ \E v \in Vaults : RoleCalls(v)
  \/ \E v \in Vaults : GridCalls(v)
  \/ AdministerGrid
  \/ NextMoment
  \/ SubmitReport
  \/ \E v \in Vaults : UpdateVaultData(v)
  \/ \E v \in Vaults : MoveClEther(v) \/ ChangeClEther(v)

Spec == Init /\ [][Next]_vars

-----------------------------------------------------------------------------
(* Properties.                                                             *)

Caches == [value : Int, valueOnRefSlot : Int, refSlot : Nat]
Leaves == [inTree : BOOLEAN, totalValue : Nat, cumulativeLidoFees : Nat,
           liabilityShares : Nat, maxLiabilityShares : Nat, slashingReserve : Nat,
           losses : Nat]

\* Every variable holds a value of its type.
TypeOK ==
  /\ vaults \in Seq(Vaults)
  /\ connections \in [Vaults ->
       [vaultIndex : Nat, disconnectInitiatedTs : Nat, shareLimit : Nat,
        reserveRatioBP : Nat, forcedRebalanceThresholdBP : Nat, pauseIntent : BOOLEAN]]
  /\ records \in [Vaults ->
       [totalValue : Nat, reportInOutDelta : Int, timestamp : Nat,
        maxLiabilityShares : Nat, liabilityShares : Nat, inOutDelta : Seq(Caches),
        minimalReserve : Nat, redemptionShares : Nat, cumulativeLidoFees : Nat,
        settledLidoFees : Nat]]
  /\ badDebtToInternalize \in [value : Nat, valueOnRefSlot : Nat, refSlot : Nat]
  /\ externalShares \in Nat
  /\ tierParams \in [Tiers -> TierParams] /\ tierLiability \in [Tiers -> Nat]
  /\ groupLimit \in [Operators -> GroupLimits] /\ groupLiability \in [Operators -> Nat]
  /\ vaultTier \in [Vaults -> Tiers] /\ isVaultInJail \in [Vaults -> BOOLEAN]
  /\ quarantines \in [Vaults -> [pending : Nat, start : Nat, remainder : Nat]]
  /\ vaultsData \in [refSlot : Nat, leaves : [Vaults -> Leaves]]
  /\ ownedByHub \in [Vaults -> BOOLEAN] /\ depositsPaused \in [Vaults -> BOOLEAN]
  /\ balance \in [Vaults -> Nat] /\ clBalance \in [Vaults -> Nat]
  /\ snapshot \in [Vaults -> Leaves] /\ feesAccrued \in [Vaults -> Nat]
  /\ losses \in [Vaults -> Nat] /\ lossesReported \in [Vaults -> Nat]
  /\ now \in Nat

\* Vaults that leave by swapping keep the list and the index of each in step, so
\* that an index of 0 means what isVaultConnected takes it to mean.
VaultsIndexed ==
  /\ \A i \in 1..Len(vaults) : connections[vaults[i]].vaultIndex = i
  /\ \A v \in Vaults : Connected(v) => \E i \in 1..Len(vaults) :
                         i = connections[v].vaultIndex /\ vaults[i] = v

\* The shares minted under each tier and group, counted through mints, burns,
\* write-offs, changes of tier and disconnections, are those of their vaults.
GridCountsLiability ==
  LET liability(v) == records[v].liabilityShares
      inGroup(o) == {v \in Vaults : vaultTier[v] # DefaultTier
                                      /\ TierOperator[vaultTier[v]] = o}
  IN  /\ \A t \in Tiers : tierLiability[t] =
           MapThenSumSet(liability, {v \in Vaults : vaultTier[v] = t})
      /\ \A o \in Operators : groupLiability[o] = MapThenSumSet(liability, inGroup(o))

\* In each record what is owed in part is owed: redemptions and the locked
\* maximum against the liability, settled fees against those reported.
RecordsConsistent ==
  \A v \in Vaults :
    LET r == records[v]
    IN  /\ r.redemptionShares <= r.liabilityShares
        /\ r.liabilityShares <= r.maxLiabilityShares
        /\ r.settledLidoFees <= r.cumulativeLidoFees

\* The representation: types, the list of vaults and its indices, and records
\* that agree with themselves.
WellFormed == TypeOK /\ VaultsIndexed /\ RecordsConsistent

\* The total value that the hub lends against is never more than the ether on
\* the vault and its validators, but for losses that no report has shown yet,
\* however deposits, withdrawals, reference slots and late reports interleave;
\* and it is never below zero, at which every call on the vault would revert.
TotalValueBacked ==
  \A v \in Vaults : Connected(v) =>
    /\ TotalValue(records[v]) >= 0
    /\ TotalValue(records[v])
         <= balance[v] + clBalance[v] + losses[v] - lossesReported[v]

HealthyVault(v) == Healthy(connections[v], records[v])

\* Nothing that the owner does makes a healthy vault unhealthy: a vault becomes
\* so only by its report, by bad debt it accepts or by a change of its terms,
\* but for a wei of liability that rounding a rebalance may cost.
HealthKeptStep ==
  \A v \in Vaults :
    LET r == records'[v]
        rounding == IF r.liabilityShares < records[v].liabilityShares THEN 1 ELSE 0
        threshold == connections'[v].forcedRebalanceThresholdBP
    IN  /\ Connected(v) /\ Connected(v)'
        /\ r.timestamp = records[v].timestamp
        /\ threshold = connections[v].forcedRebalanceThresholdBP
        /\ r.liabilityShares > records[v].liabilityShares => externalShares' # externalShares
        /\ HealthyVault(v)
        => PooledEthBySharesRoundUp(r.liabilityShares) - rounding
             <= (TotalValue(r) * (TotalBasisPoints - threshold)) \div TotalBasisPoints
HealthKept == [][HealthKeptStep]_vars

\* Bad debt that is socialized goes to a vault that can carry it: the acceptor
\* of a socialization has no bad debt after it.
SocializedBadDebtCarriedStep ==
  \A v \in Vaults :
    records'[v].liabilityShares > records[v].liabilityShares
      => BadDebtShares(records'[v]) = 0
SocializedBadDebtCarried == [][SocializedBadDebtCarriedStep]_vars

\* However vaults mint, rebalance, take over each other's debt and leave, their
\* liabilities together with the external shares of Lido keep the ledger that
\* Accounting relies on.
Ledger == INSTANCE ExternalSharesLedger WITH
            external  <- externalShares,
            liability <- MapThenSumSet(LAMBDA v : records[v].liabilityShares, Vaults),
            badDebt   <- badDebtToInternalize.value
KeepsLedger == Ledger!Spec
=============================================================================
