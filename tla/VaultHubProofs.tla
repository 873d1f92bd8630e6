--------------------------- MODULE VaultHubProofs ---------------------------
(***************************************************************************)
(* Theorems about VaultHub, for every value of its constants.              *)
(*                                                                         *)
(* The inductive invariant has six parts: the list of vaults, the records, *)
(* the liabilities that OperatorGrid counts, those that Lido and VaultHub  *)
(* count, the terms of connections with the order of slots, and the ether  *)
(* behind each vault.  That vaults stay healthy needs of it that a vault   *)
(* is forced to rebalance only below its reserve.  That rises wait needs   *)
(* of QuarantineHistory that what a quarantine holds was in the report of  *)
(* the slot at which it began.                                             *)
(***************************************************************************)
EXTENDS QuarantineHistory, SumTheorems, SequenceTheorems

\* The list and its indices, and who owns the vaults of the list.
ListOK ==
  /\ vaults \in Seq(Vaults)
  /\ VaultsIndexed
  /\ ownedByHub \in [Vaults -> BOOLEAN]
  /\ \A v \in Vaults : Connected(v) => ownedByHub[v]

Connections ==
  [vaultIndex : Nat, disconnectInitiatedTs : Nat, shareLimit : Nat,
   reserveRatioBP : Nat, forcedRebalanceThresholdBP : Nat, pauseIntent : BOOLEAN]

Records ==
  [totalValue : Nat, reportInOutDelta : Int, timestamp : Nat,
   maxLiabilityShares : Nat, liabilityShares : Nat, inOutDelta : [1..2 -> Caches],
   minimalReserve : Nat, redemptionShares : Nat, cumulativeLidoFees : Nat,
   settledLidoFees : Nat]

\* The active cache was written in this frame or before, the other one before
\* the active one, unless neither was.
CachesDated(caches, refSlot) ==
  /\ Active(caches).refSlot <= refSlot
  /\ \/ Previous(caches).refSlot < Active(caches).refSlot
     \/ Previous(caches).refSlot = 0 /\ Active(caches).refSlot = 0

RecordsOK ==
  /\ records \in [Vaults -> Records]
  /\ RecordsConsistent
  /\ \A v \in Vaults : CachesDated(records[v].inOutDelta, RefSlot)

GridTypeOK ==
  /\ tierParams \in [Tiers -> TierParams] /\ tierLiability \in [Tiers -> Nat]
  /\ groupLimit \in [Operators -> GroupLimits] /\ groupLiability \in [Operators -> Nat]
  /\ vaultTier \in [Vaults -> Tiers] /\ isVaultInJail \in [Vaults -> BOOLEAN]

TiersOfOperators ==
  \A v \in Vaults : vaultTier[v] # DefaultTier => TierOperator[vaultTier[v]] = NodeOperator[v]

Owed == [v \in Vaults |-> records[v].liabilityShares]
OfTier(t)  == {v \in Vaults : vaultTier[v] = t}
OfGroup(o) == {v \in Vaults : vaultTier[v] # DefaultTier /\ TierOperator[vaultTier[v]] = o}

\* External shares are liabilities and bad debt; bad debt that a report still to
\* come takes over is there.
SharesOwned ==
  /\ badDebtToInternalize \in [value : Nat, valueOnRefSlot : Nat, refSlot : Nat]
  /\ externalShares = SumOf(Owed, Vaults) + badDebtToInternalize.value
  /\ badDebtToInternalize.refSlot <= RefSlot
  /\ vaultsData.refSlot < RefSlot =>
       ValueForLastRefSlot(badDebtToInternalize, RefSlot) <= badDebtToInternalize.value

GridOK == GridTypeOK /\ TiersOfOperators /\ GridCountsLiability

\* A reserve ratio divides what a vault is short of, and its complement the
\* liability; a vault is forced to rebalance only below its reserve.
TermsOK(c) ==
  /\ c.reserveRatioBP \in 1..(TotalBasisPoints - 1)
  /\ c.forcedRebalanceThresholdBP < c.reserveRatioBP

RatiosOK == \A v \in Vaults : Connected(v) => TermsOK(connections[v])

\* A vault that connects owes nothing yet.
OthersOweNothing == \A v \in Vaults : ~Connected(v) => records[v].liabilityShares = 0

\* The other variables, and the order of slots.
RestOK ==
  /\ connections \in [Vaults -> Connections]
  /\ RatiosOK /\ OthersOweNothing
  /\ quarantines \in [Vaults -> [pending : Nat, start : Nat, remainder : Nat]]
  /\ vaultsData \in [refSlot : Nat, leaves : [Vaults -> Leaves]]
  /\ depositsPaused \in [Vaults -> BOOLEAN]
  /\ balance \in [Vaults -> Nat] /\ clBalance \in [Vaults -> Nat]
  /\ snapshot \in [Vaults -> Leaves] /\ feesAccrued \in [Vaults -> Nat]
  /\ losses \in [Vaults -> Nat] /\ lossesReported \in [Vaults -> Nat]
  /\ now \in Nat /\ now >= 3
  /\ 0 < vaultsData.refSlot /\ vaultsData.refSlot <= RefSlot

\* The ether of a vault and its validators, and what these have lost.
Backing(v) == balance[v] + clBalance[v] + losses[v]

\* What a leaf of reference slot s found at a vault and what came in since are
\* still backed, unless the vault has been reported or reconnected meanwhile.
LeafBacked(v, leaf, s) ==
  LET r == records[v]
  IN  /\ leaf.inTree /\ Connected(v)
      /\ r.timestamp < TimestampOf(s)
      /\ HasValueForRefSlot(r.inOutDelta, s)
      => leaf.totalValue + leaf.losses + CurrentValue(r.inOutDelta)
           - ValueForRefSlot(r.inOutDelta, s) <= Backing(v)

ValueOK ==
  /\ TotalValueBacked
  /\ \A v \in Vaults : LeafBacked(v, snapshot[v], RefSlot)
  /\ \A v \in Vaults : LeafBacked(v, vaultsData.leaves[v], vaultsData.refSlot)

Inv == ListOK /\ RecordsOK /\ GridOK /\ SharesOwned /\ RestOK /\ ValueOK

-----------------------------------------------------------------------------
(* The two caches of a record.                                             *)

LEMMA CacheParts ==
  ASSUME NEW c \in [1..2 -> Caches]
  PROVE  /\ \/ ActiveIndex(c) = 1 /\ Active(c) = c[1] /\ Previous(c) = c[2]
            \/ ActiveIndex(c) = 2 /\ Active(c) = c[2] /\ Previous(c) = c[1]
         /\ Active(c) \in Caches /\ Previous(c) \in Caches
         /\ CurrentValue(c) \in Int
         /\ \A s \in Nat : ValueForRefSlot(c, s) \in Int
<1>1. \/ ActiveIndex(c) = 1 /\ Active(c) = c[1] /\ Previous(c) = c[2]
      \/ ActiveIndex(c) = 2 /\ Active(c) = c[2] /\ Previous(c) = c[1]
  BY DEF ActiveIndex, Active, Previous
<1>2. c[1] \in Caches /\ c[2] \in Caches
  OBVIOUS
<1>3. Active(c) \in Caches /\ Previous(c) \in Caches
  BY <1>1, <1>2
<1>4. /\ Active(c).value \in Int /\ Active(c).valueOnRefSlot \in Int
      /\ Previous(c).valueOnRefSlot \in Int
      /\ Active(c).refSlot \in Nat /\ Previous(c).refSlot \in Nat
  BY <1>3 DEF Caches
<1>5. CurrentValue(c) \in Int
  BY <1>4 DEF CurrentValue
<1>6. ASSUME NEW s \in Nat
      PROVE  ValueForRefSlot(c, s) \in Int
  BY <1>4, <1>5 DEF ValueForRefSlot
<1> QED BY <1>1, <1>3, <1>5, <1>6

\* An increase changes no value that the caches still have for a slot so far.
LEMMA CacheIncreased ==
  ASSUME NEW c \in [1..2 -> Caches], NEW slot \in Nat \ {0}, CachesDated(c, slot),
         NEW d \in Int, NEW n, n = WithDoubleIncrease(c, slot, d)
  PROVE  /\ n \in [1..2 -> Caches]
         /\ CachesDated(n, slot)
         /\ CurrentValue(n) = CurrentValue(c) + d
         /\ \A s \in 1..slot : HasValueForRefSlot(n, s) =>
              HasValueForRefSlot(c, s) /\ ValueForRefSlot(n, s) = ValueForRefSlot(c, s)
<1> DEFINE i == ActiveIndex(c)
           j == 3 - i
<1>1. i \in 1..2 /\ j \in 1..2 /\ i # j /\ Active(c) = c[i] /\ Previous(c) = c[j]
  BY DEF ActiveIndex, Active, Previous
<1>2. /\ c[i] \in Caches /\ c[j] \in Caches
      /\ c[i].value \in Int /\ c[i].valueOnRefSlot \in Int /\ c[j].valueOnRefSlot \in Int
      /\ c[i].refSlot \in Nat /\ c[j].refSlot \in Nat /\ CurrentValue(c) = c[i].value
  BY <1>1 DEF Caches, CurrentValue
<1>3. /\ c[i].refSlot <= slot
      /\ c[j].refSlot < c[i].refSlot \/ (c[j].refSlot = 0 /\ c[i].refSlot = 0)
  BY <1>1 DEF CachesDated
<1>4. CASE c[i].refSlot # slot
  <2> DEFINE e == [value |-> c[i].value + d, valueOnRefSlot |-> c[i].value, refSlot |-> slot]
  <2>1. n = [c EXCEPT ![j] = e]
    BY <1>1, <1>2, <1>4 DEF WithDoubleIncrease
  <2>2. e \in Caches /\ e.refSlot = slot /\ e.value = c[i].value + d
          /\ e.valueOnRefSlot = c[i].value
    BY <1>2 DEF Caches
  <2> HIDE DEF e
  <2>3. n \in [1..2 -> Caches] /\ n[j] = e /\ n[i] = c[i]
    BY <1>1, <2>1, <2>2
  <2>4. ActiveIndex(n) = j
    BY <1>1, <1>2, <1>3, <1>4, <2>2, <2>3 DEF ActiveIndex
  <2>5. Active(n) = e /\ Previous(n) = c[i]
    BY <1>1, <2>3, <2>4 DEF Active, Previous
  <2> HIDE DEF i, j
  <2>6. CurrentValue(n) = CurrentValue(c) + d
    BY <1>2, <2>2, <2>5 DEF CurrentValue
  <2>7. CachesDated(n, slot)
    BY <1>2, <1>3, <1>4, <2>2, <2>5 DEF CachesDated
  <2>8. ASSUME NEW s \in 1..slot, HasValueForRefSlot(n, s)
        PROVE  HasValueForRefSlot(c, s) /\ ValueForRefSlot(n, s) = ValueForRefSlot(c, s)
    <3>1. s >= c[i].refSlot
      BY <2>5, <2>8 DEF HasValueForRefSlot
    <3>2. s > c[j].refSlot
      BY <1>2, <1>3, <3>1
    <3>3. HasValueForRefSlot(c, s)
      BY <1>1, <1>2, <3>2 DEF HasValueForRefSlot
    <3>4. ValueForRefSlot(n, s) = IF s > c[i].refSlot THEN c[i].value ELSE c[i].valueOnRefSlot
      BY <1>2, <2>2, <2>5 DEF ValueForRefSlot
    <3>5. ValueForRefSlot(c, s) = IF s > c[i].refSlot THEN c[i].value ELSE c[i].valueOnRefSlot
      BY <1>1, <1>2, <3>2 DEF ValueForRefSlot
    <3> QED BY <3>3, <3>4, <3>5
  <2> QED BY <2>3, <2>6, <2>7, <2>8
<1>5. CASE c[i].refSlot = slot
  <2>1. n = [c EXCEPT ![i].value = c[i].value + d]
    BY <1>1, <1>2, <1>5 DEF WithDoubleIncrease
  <2>2. /\ n \in [1..2 -> Caches] /\ n[j] = c[j] /\ n[i].value = c[i].value + d
        /\ n[i].valueOnRefSlot = c[i].valueOnRefSlot /\ n[i].refSlot = c[i].refSlot
    BY <1>1, <1>2, <2>1 DEF Caches
  <2>3. ActiveIndex(n) = i
    BY <1>1, <1>2, <1>3, <1>5, <2>2 DEF ActiveIndex
  <2>4. Active(n) = n[i] /\ Previous(n) = c[j]
    BY <1>1, <2>2, <2>3 DEF Active, Previous
  <2> HIDE DEF i, j
  <2>5. CurrentValue(n) = CurrentValue(c) + d
    BY <1>2, <2>2, <2>4 DEF CurrentValue
  <2>6. CachesDated(n, slot)
    BY <1>3, <2>2, <2>4 DEF CachesDated
  <2>7. ASSUME NEW s \in 1..slot, HasValueForRefSlot(n, s)
        PROVE  HasValueForRefSlot(c, s) /\ ValueForRefSlot(n, s) = ValueForRefSlot(c, s)
    <3>1. HasValueForRefSlot(c, s)
      BY <1>1, <2>4, <2>7 DEF HasValueForRefSlot
    <3>2. ~ (s > c[i].refSlot)
      BY <1>5
    <3>3. ValueForRefSlot(n, s) = IF s > c[j].refSlot THEN c[i].valueOnRefSlot
                                                      ELSE c[j].valueOnRefSlot
      BY <1>2, <2>2, <2>4, <3>2 DEF ValueForRefSlot
    <3>4. ValueForRefSlot(c, s) = IF s > c[j].refSlot THEN c[i].valueOnRefSlot
                                                      ELSE c[j].valueOnRefSlot
      BY <1>1, <1>2, <3>2 DEF ValueForRefSlot
    <3> QED BY <3>1, <3>3, <3>4
  <2> QED BY <2>2, <2>5, <2>6, <2>7
<1> QED BY <1>4, <1>5

-----------------------------------------------------------------------------
(* Steps that leave a part of the invariant alone, or nearly.              *)

LEMMA SlotParts ==
  ASSUME RestOK
  PROVE  /\ RefSlot \in Nat \ {0}
         /\ TimestampOf(RefSlot) < now
         /\ vaultsData.refSlot \in 1..RefSlot
<1>1. now \in Nat /\ now >= 3 /\ vaultsData.refSlot \in Nat
      /\ 0 < vaultsData.refSlot /\ vaultsData.refSlot <= RefSlot
  BY DEF RestOK
<1>2. RefSlot \in Nat \ {0} /\ 2 * RefSlot < now
  BY <1>1 DEF RefSlot
<1> QED BY <1>1, <1>2 DEF TimestampOf

LEMMA RecordParts ==
  ASSUME NEW r \in Records
  PROVE  /\ r.totalValue \in Nat /\ r.reportInOutDelta \in Int /\ r.timestamp \in Nat
         /\ r.maxLiabilityShares \in Nat /\ r.liabilityShares \in Nat
         /\ r.inOutDelta \in [1..2 -> Caches] /\ r.minimalReserve \in Nat
         /\ r.redemptionShares \in Nat /\ r.cumulativeLidoFees \in Nat
         /\ r.settledLidoFees \in Nat
         /\ TotalValue(r) \in Int
<1>1. /\ r.totalValue \in Nat /\ r.reportInOutDelta \in Int /\ r.timestamp \in Nat
      /\ r.maxLiabilityShares \in Nat /\ r.liabilityShares \in Nat
      /\ r.inOutDelta \in [1..2 -> Caches] /\ r.minimalReserve \in Nat
      /\ r.redemptionShares \in Nat /\ r.cumulativeLidoFees \in Nat
      /\ r.settledLidoFees \in Nat
  BY DEF Records
<1>2. CurrentValue(r.inOutDelta) \in Int
  BY <1>1, CacheParts
<1> QED BY <1>1, <1>2 DEF TotalValue

LEMMA RecordOf ==
  ASSUME Inv, NEW v \in Vaults
  PROVE  /\ records[v] \in Records
         /\ CachesDated(records[v].inOutDelta, RefSlot)
         /\ records[v].redemptionShares <= records[v].liabilityShares
         /\ records[v].liabilityShares <= records[v].maxLiabilityShares
         /\ records[v].settledLidoFees <= records[v].cumulativeLidoFees
BY DEF Inv, RecordsOK, RecordsConsistent

\* What makes up a record that may be stored.
GoodRecord(r) ==
  /\ r \in Records
  /\ CachesDated(r.inOutDelta, RefSlot)
  /\ r.redemptionShares <= r.liabilityShares
  /\ r.liabilityShares <= r.maxLiabilityShares
  /\ r.settledLidoFees <= r.cumulativeLidoFees

LEMMA RecordStored ==
  ASSUME Inv, NEW v \in Vaults, NEW r, GoodRecord(r), SetRecord(v, r), UNCHANGED now
  PROVE  RecordsOK'
<1>1. RefSlot' = RefSlot
  BY DEF RefSlot
<1>2. \A w \in Vaults : GoodRecord(records[w])
  BY RecordOf DEF GoodRecord
<1>3. records' = [records EXCEPT ![v] = r] /\ records \in [Vaults -> Records] /\ r \in Records
  BY DEF SetRecord, Inv, RecordsOK, GoodRecord
<1>4. records' \in [Vaults -> Records] /\ \A w \in Vaults : GoodRecord(records'[w])
  BY <1>2, <1>3
<1> HIDE DEF RefSlot
<1> QED BY <1>1, <1>4 DEF RecordsOK, RecordsConsistent, GoodRecord

LEMMA RecordsKept ==
  ASSUME Inv, UNCHANGED <<records, now>>
  PROVE  RecordsOK'
BY DEF Inv, RecordsOK, RecordsConsistent, RefSlot

LEMMA ListKept ==
  ASSUME Inv, UNCHANGED <<vaults, ownedByHub>>,
         \A v \in Vaults : connections'[v].vaultIndex = connections[v].vaultIndex
  PROVE  ListOK'
<1>1. /\ vaults \in Seq(Vaults) /\ VaultsIndexed /\ ownedByHub \in [Vaults -> BOOLEAN]
      /\ \A v \in Vaults : Connected(v) => ownedByHub[v]
  BY DEF Inv, ListOK
<1>2. \A v \in Vaults : Connected(v)' <=> Connected(v)
  BY DEF Connected
<1>3. \A i \in 1..Len(vaults) : vaults[i] \in Vaults
  BY <1>1, ElementOfSeq
<1>4. VaultsIndexed'
  BY <1>1, <1>2, <1>3 DEF VaultsIndexed
<1> QED BY <1>1, <1>2, <1>4 DEF ListOK

\* What a step does to the value of a vault that it does not report: d comes in.
MovedBy(v, d) ==
  LET r == records[v]
      n == records'[v]
  IN  /\ n.totalValue = r.totalValue
      /\ n.reportInOutDelta = r.reportInOutDelta
      /\ n.timestamp = r.timestamp
      /\ \/ n.inOutDelta = WithDoubleIncrease(r.inOutDelta, RefSlot, d)
         \/ d = 0 /\ n.inOutDelta = r.inOutDelta
      /\ Backing(v)' >= Backing(v) + d

\* A leaf stays backed through such a step.
LEMMA LeafMoved ==
  ASSUME Inv, RestOK', NEW v \in Vaults, NEW leaf \in Leaves, NEW s \in 1..RefSlot,
         Connected(v), NEW d \in Int, MovedBy(v, d), LeafBacked(v, leaf, s)
  PROVE  /\ CurrentValue(records'[v].inOutDelta) = CurrentValue(records[v].inOutDelta) + d
         /\ \/ ~ leaf.inTree
            \/ ~ (records'[v].timestamp < TimestampOf(s))
            \/ ~ HasValueForRefSlot(records'[v].inOutDelta, s)
            \/ leaf.totalValue + leaf.losses + CurrentValue(records'[v].inOutDelta)
                 - ValueForRefSlot(records'[v].inOutDelta, s) <= Backing(v)'
<1> DEFINE c == records[v].inOutDelta
           n == records'[v].inOutDelta
<1>1. c \in [1..2 -> Caches] /\ CachesDated(c, RefSlot)
  BY RecordOf, RecordParts
<1>2. RefSlot \in Nat \ {0} /\ s \in Nat
  BY SlotParts DEF Inv
<1>3. n = WithDoubleIncrease(c, RefSlot, d) \/ (d = 0 /\ n = c)
  BY DEF MovedBy
<1> HIDE DEF c, n
<1>4. /\ CurrentValue(n) = CurrentValue(c) + d
      /\ HasValueForRefSlot(n, s) =>
           HasValueForRefSlot(c, s) /\ ValueForRefSlot(n, s) = ValueForRefSlot(c, s)
  <2>1. CASE n = WithDoubleIncrease(c, RefSlot, d)
    BY <1>1, <1>2, <2>1, CacheIncreased
  <2>2. CASE d = 0 /\ n = c
    BY <1>1, <2>2, CacheParts
  <2> QED BY <1>3, <2>1, <2>2
<1>5. CurrentValue(c) \in Int /\ ValueForRefSlot(c, s) \in Int
  BY <1>1, <1>2, CacheParts
<1>6. leaf.totalValue \in Nat /\ leaf.losses \in Nat
  BY DEF Leaves
<1>7. Backing(v) \in Int /\ Backing(v)' \in Int
  BY DEF Backing, Inv, RestOK
<1>8. Backing(v)' >= Backing(v) + d /\ records'[v].timestamp = records[v].timestamp
  BY DEF MovedBy
<1>9. ASSUME leaf.inTree, records'[v].timestamp < TimestampOf(s), HasValueForRefSlot(n, s)
      PROVE  leaf.totalValue + leaf.losses + CurrentValue(n) - ValueForRefSlot(n, s)
               <= Backing(v)'
  <2>1. leaf.totalValue + leaf.losses + CurrentValue(c) - ValueForRefSlot(c, s) <= Backing(v)
    BY <1>4, <1>8, <1>9 DEF LeafBacked, c
  <2>2. ValueForRefSlot(n, s) = ValueForRefSlot(c, s) /\ CurrentValue(n) = CurrentValue(c) + d
    BY <1>4, <1>9
  <2> HIDE DEF Backing
  <2> QED BY <1>5, <1>6, <1>7, <1>8, <2>1, <2>2
<1> QED BY <1>4, <1>9 DEF c, n

\* Steps of owners, roles and the consensus layer.
LEMMA ValueMoved ==
  ASSUME Inv, RestOK', UNCHANGED <<snapshot, vaultsData, now, lossesReported>>,
         \A v \in Vaults : Connected(v)' =>
            /\ Connected(v)
            /\ \E d \in Int : MovedBy(v, d) /\ TotalValue(records[v]) + d >= 0
  PROVE  ValueOK'
<1>1. RefSlot' = RefSlot
  BY DEF RefSlot
<1>2. RefSlot \in Nat \ {0} /\ vaultsData.refSlot \in 1..RefSlot
  BY SlotParts DEF Inv
<1>3. \A v \in Vaults : snapshot[v] \in Leaves /\ vaultsData.leaves[v] \in Leaves
  BY DEF Inv, RestOK
<1>4. ASSUME NEW v \in Vaults, Connected(v)'
      PROVE  /\ TotalValue(records'[v]) >= 0
             /\ TotalValue(records'[v])
                  <= balance'[v] + clBalance'[v] + losses'[v] - lossesReported'[v]
             /\ LeafBacked(v, snapshot[v], RefSlot)'
             /\ LeafBacked(v, vaultsData.leaves[v], vaultsData.refSlot)'
  <2>1. PICK d \in Int : MovedBy(v, d) /\ TotalValue(records[v]) + d >= 0
    BY <1>4
  <2>2. Connected(v)
    BY <1>4
  <2>3. LeafBacked(v, snapshot[v], RefSlot)
        /\ LeafBacked(v, vaultsData.leaves[v], vaultsData.refSlot)
    BY DEF Inv, ValueOK
  <2>4. /\ CurrentValue(records'[v].inOutDelta) = CurrentValue(records[v].inOutDelta) + d
        /\ LeafBacked(v, snapshot[v], RefSlot)'
    <3>1. snapshot'[v] = snapshot[v] /\ RefSlot \in 1..RefSlot
      BY <1>2
    <3> QED BY <1>1, <1>3, <2>1, <2>2, <2>3, <3>1, LeafMoved DEF LeafBacked
  <2>5. LeafBacked(v, vaultsData.leaves[v], vaultsData.refSlot)'
    <3>1. vaultsData' = vaultsData
      OBVIOUS
    <3> QED BY <1>2, <1>3, <2>1, <2>2, <2>3, <3>1, LeafMoved DEF LeafBacked
  <2>6. TotalValue(records'[v]) = TotalValue(records[v]) + d
    <3>1. /\ records[v].totalValue \in Int /\ records[v].reportInOutDelta \in Int
          /\ CurrentValue(records[v].inOutDelta) \in Int
      BY RecordOf, RecordParts, CacheParts
    <3>2. /\ records'[v].totalValue = records[v].totalValue
          /\ records'[v].reportInOutDelta = records[v].reportInOutDelta
      BY <2>1 DEF MovedBy
    <3> QED BY <2>4, <3>1, <3>2 DEF TotalValue
  <2>7. /\ TotalValue(records[v])
             <= balance[v] + clBalance[v] + losses[v] - lossesReported[v]
        /\ TotalValue(records[v]) \in Int
    BY <2>2, RecordOf, RecordParts DEF Inv, ValueOK, TotalValueBacked
  <2>8. Backing(v) = balance[v] + clBalance[v] + losses[v]
        /\ Backing(v)' = balance'[v] + clBalance'[v] + losses'[v]
    BY DEF Backing
  <2>9. /\ balance[v] \in Int /\ clBalance[v] \in Int /\ losses[v] \in Int
        /\ balance'[v] \in Int /\ clBalance'[v] \in Int /\ losses'[v] \in Int
        /\ lossesReported[v] \in Int /\ lossesReported'[v] \in Int
    BY DEF Inv, RestOK
  <2>10. Backing(v)' >= Backing(v) + d /\ lossesReported'[v] = lossesReported[v]
    BY <2>1 DEF MovedBy
  <2>11. PICK tv \in Int, new \in Int : tv = TotalValue(records[v]) /\ new = tv + d
    BY <2>7
  <2>12. TotalValue(records'[v]) = new
    BY <2>6, <2>11
  <2>13. tv <= balance[v] + clBalance[v] + losses[v] - lossesReported[v]
    BY <2>7, <2>11
  <2>14. balance'[v] + clBalance'[v] + losses'[v] >= balance[v] + clBalance[v] + losses[v] + d
    BY <2>8, <2>10
  <2>15. new <= balance'[v] + clBalance'[v] + losses'[v] - lossesReported'[v]
    BY ONLY <2>9, <2>10, <2>11, <2>13, <2>14
  <2>16. new >= 0
    BY <2>1, <2>11
  <2> QED BY <2>4, <2>5, <2>12, <2>15, <2>16
<1>5. TotalValueBacked'
  BY <1>4 DEF TotalValueBacked
<1>6. \A v \in Vaults : LeafBacked(v, snapshot[v], RefSlot)'
                          /\ LeafBacked(v, vaultsData.leaves[v], vaultsData.refSlot)'
  BY <1>4 DEF LeafBacked
<1> QED BY <1>5, <1>6 DEF ValueOK

-----------------------------------------------------------------------------
(* What is owed, in sums.                                                  *)

LEMMA LiabilitySum ==
  \A S \in SUBSET Vaults :
    MapThenSumSet(LAMBDA v : records[v].liabilityShares, S) = SumOf(Owed, S)
<1> SUFFICES ASSUME NEW S \in SUBSET Vaults
             PROVE  MapThenSumSet(LAMBDA v : records[v].liabilityShares, S) = SumOf(Owed, S)
  OBVIOUS
<1> DEFINE V(v)    == records[v].liabilityShares
           Step(h) == [s \in SUBSET S |->
                         IF s = {} THEN 0 ELSE V(Taken(s)) + h[s \ {Taken(s)}]]
           iter    == CHOOSE h : h = Step(h)
<1>1. MapThenSumSet(LAMBDA v : records[v].liabilityShares, S) = iter[S]
  BY DEF MapThenSumSet, MapThenFoldSet, Taken
<1>2. IsFiniteSet(S)
  BY GridAssumption, FS_Subset
<1>3. \A v \in S : Owed[v] = V(v)
  BY DEF Owed
<1> HIDE DEF V
<1>4. ASSUME NEW h PROVE h = Step(h) <=> Sums(h, Owed, S)
  <2>1. \A s \in SUBSET S : s # {} => Taken(s) \in S
    BY DEF Taken
  <2>2. Step(h) = [s \in SUBSET S |->
                     IF s = {} THEN 0 ELSE Owed[Taken(s)] + h[s \ {Taken(s)}]]
    BY <1>3, <2>1
  <2> QED BY <2>2 DEF Sums
<1> HIDE DEF Step
<1>5. (\E h : Sums(h, Owed, S)) => Sums(iter, Owed, S)
  <2>1. (\E h : h = Step(h)) => iter = Step(iter)
    OBVIOUS
  <2> HIDE DEF iter
  <2> QED BY <1>4, <2>1
<1> HIDE DEF iter
<1>6. iter[S] = SumOf(Owed, S)
  BY <1>2, <1>5, SumIterated
<1> QED BY <1>1, <1>6

GridCounts ==
  /\ \A t \in Tiers : tierLiability[t] = SumOf(Owed, OfTier(t))
  /\ \A o \in Operators : groupLiability[o] = SumOf(Owed, OfGroup(o))

LEMMA GridSums == GridCountsLiability <=> GridCounts
<1> DEFINE liability(v) == records[v].liabilityShares
<1>1. \A t : OfTier(t) \in SUBSET Vaults
  BY DEF OfTier
<1>2. \A o : OfGroup(o) \in SUBSET Vaults
  BY DEF OfGroup
<1>3. \A t : MapThenSumSet(liability, OfTier(t)) = SumOf(Owed, OfTier(t))
  BY <1>1, LiabilitySum
<1>4. \A o : MapThenSumSet(liability, OfGroup(o)) = SumOf(Owed, OfGroup(o))
  BY <1>2, LiabilitySum
<1>5. GridCountsLiability <=>
        /\ \A t \in Tiers : tierLiability[t] = MapThenSumSet(liability, OfTier(t))
        /\ \A o \in Operators : groupLiability[o] = MapThenSumSet(liability, OfGroup(o))
  BY DEF GridCountsLiability, OfTier, OfGroup
<1> QED BY <1>3, <1>4, <1>5 DEF GridCounts

LEMMA GridSumsNext == GridCountsLiability' <=> GridCounts'
BY GridSums, PTL

LEMMA OwedNat ==
  ASSUME RecordsOK
  PROVE  Owed \in [Vaults -> Nat]
<1>1. \A v \in Vaults : records[v] \in Records
  BY DEF RecordsOK
<1> QED BY <1>1, RecordParts DEF Owed

LEMMA OwedNatNext ==
  ASSUME RecordsOK'
  PROVE  Owed' \in [Vaults -> Nat]
<1>1. \A v \in Vaults : records'[v] \in Records
  BY DEF RecordsOK
<1> QED BY <1>1, RecordParts DEF Owed

LEMMA PartSums ==
  ASSUME NEW f \in [Vaults -> Nat], NEW S \in SUBSET Vaults
  PROVE  SumOf(f, S) \in Nat /\ \A v \in S : f[v] <= SumOf(f, S)
<1>1. IsFiniteSet(S) /\ \A x \in S : f[x] \in Nat
  BY GridAssumption, FS_Subset
<1> QED BY <1>1, SumCovers

LEMMA PartChanges ==
  ASSUME NEW f \in [Vaults -> Nat], NEW g \in [Vaults -> Nat], NEW S \in SUBSET Vaults,
         NEW v \in Vaults, NEW d \in Int, g[v] = f[v] + d,
         \A x \in Vaults : x # v => g[x] = f[x]
  PROVE  SumOf(g, S) = SumOf(f, S) + (IF v \in S THEN d ELSE 0)
<1>1. IsFiniteSet(S)
  BY GridAssumption, FS_Subset
<1>2. SumOf(f, S) \in Nat
  BY PartSums
<1>3. CASE v \in S
  <2>1. /\ \A x \in S : f[x] \in Int /\ g[x] \in Int
        /\ \A x \in S : x # v => g[x] = f[x]
    OBVIOUS
  <2>2. SumOf(g, S) = SumOf(f, S) + g[v] - f[v]
    BY <1>1, <1>3, <2>1, SumChanges
  <2>3. f[v] \in Int
    OBVIOUS
  <2> QED BY <1>2, <1>3, <2>2, <2>3
<1>4. CASE v \notin S
  <2>1. \A x \in S : f[x] = g[x]
    BY <1>4
  <2>2. SumOf(f, S) = SumOf(g, S)
    BY <1>1, <2>1, SumSame
  <2> QED BY <1>2, <1>4, <2>2
<1> QED BY <1>3, <1>4

\* The counts are natural numbers because they are sums.
LEMMA GridFromSums ==
  ASSUME RecordsOK', GridCounts', TiersOfOperators',
         tierParams' \in [Tiers -> TierParams], groupLimit' \in [Operators -> GroupLimits],
         vaultTier' \in [Vaults -> Tiers], isVaultInJail' \in [Vaults -> BOOLEAN],
         tierLiability' = [t \in Tiers |-> tierLiability'[t]],
         groupLiability' = [o \in Operators |-> groupLiability'[o]]
  PROVE  GridOK'
<1>1. Owed' \in [Vaults -> Nat]
  BY OwedNatNext
<1>2. \A t : OfTier(t)' \in SUBSET Vaults
  BY DEF OfTier
<1>3. \A o : OfGroup(o)' \in SUBSET Vaults
  BY DEF OfGroup
<1>4. ASSUME NEW t \in Tiers PROVE tierLiability'[t] \in Nat
  <2>1. SumOf(Owed', OfTier(t)') \in Nat
    BY <1>1, <1>2, PartSums
  <2>2. tierLiability'[t] = SumOf(Owed', OfTier(t)')
    BY DEF GridCounts
  <2> QED BY <2>1, <2>2
<1>5. ASSUME NEW o \in Operators PROVE groupLiability'[o] \in Nat
  <2>1. SumOf(Owed', OfGroup(o)') \in Nat
    BY <1>1, <1>3, PartSums
  <2>2. groupLiability'[o] = SumOf(Owed', OfGroup(o)')
    BY DEF GridCounts
  <2> QED BY <2>1, <2>2
<1>6. tierLiability' \in [Tiers -> Nat] /\ groupLiability' \in [Operators -> Nat]
  BY <1>4, <1>5
<1>7. GridCountsLiability'
  BY GridSumsNext
<1> QED BY <1>6, <1>7 DEF GridOK, GridTypeOK

LEMMA GridParts ==
  ASSUME Inv
  PROVE  /\ GridTypeOK /\ TiersOfOperators /\ GridCounts
         /\ Owed \in [Vaults -> Nat]
         /\ \A v \in Vaults : Owed[v] = records[v].liabilityShares
BY GridSums, OwedNat DEF Inv, GridOK, Owed

\* A step that changes no liability, no count and no vault's tier.
LEMMA GridKept ==
  ASSUME Inv, RecordsOK', UNCHANGED <<tierLiability, groupLiability, vaultTier>>,
         tierParams' \in [Tiers -> TierParams], groupLimit' \in [Operators -> GroupLimits],
         isVaultInJail' \in [Vaults -> BOOLEAN],
         \A v \in Vaults : records'[v].liabilityShares = records[v].liabilityShares
  PROVE  GridOK' /\ SumOf(Owed', Vaults) = SumOf(Owed, Vaults)
<1>1. Owed' = Owed
  BY DEF Owed
<1>2. /\ \A t : OfTier(t)' = OfTier(t)
      /\ \A o : OfGroup(o)' = OfGroup(o)
  BY DEF OfTier, OfGroup
<1>3. GridCounts' /\ TiersOfOperators'
  BY <1>1, <1>2, GridParts DEF GridCounts, TiersOfOperators
<1>4. /\ vaultTier' \in [Vaults -> Tiers]
      /\ tierLiability' = [t \in Tiers |-> tierLiability'[t]]
      /\ groupLiability' = [o \in Operators |-> groupLiability'[o]]
  BY GridParts DEF GridTypeOK
<1> QED BY <1>1, <1>3, <1>4, GridFromSums

\* onMintedShares and onBurnedShares.
LEMMA GridChanged ==
  ASSUME Inv, RecordsOK', NEW v \in Vaults, NEW d \in Int, ChangeLiability(v, d),
         records'[v].liabilityShares = records[v].liabilityShares + d,
         \A w \in Vaults : w # v =>
           records'[w].liabilityShares = records[w].liabilityShares
  PROVE  GridOK' /\ SumOf(Owed', Vaults) = SumOf(Owed, Vaults) + d
<1> DEFINE f == Owed
           g == Owed'
<1>1. f \in [Vaults -> Nat] /\ g \in [Vaults -> Nat]
  BY GridParts, OwedNatNext
<1>2. g[v] = f[v] + d /\ \A x \in Vaults : x # v => g[x] = f[x]
  BY DEF Owed
<1> HIDE DEF f, g
<1>3. \A S \in SUBSET Vaults : SumOf(g, S) = SumOf(f, S) + (IF v \in S THEN d ELSE 0)
  BY <1>1, <1>2, PartChanges
<1>4. /\ tierParams \in [Tiers -> TierParams] /\ tierLiability \in [Tiers -> Nat]
      /\ groupLimit \in [Operators -> GroupLimits] /\ groupLiability \in [Operators -> Nat]
      /\ vaultTier \in [Vaults -> Tiers] /\ isVaultInJail \in [Vaults -> BOOLEAN]
      /\ TiersOfOperators
  BY GridParts DEF GridTypeOK
<1>5. UNCHANGED <<tierParams, groupLimit, isVaultInJail, vaultTier>>
  BY DEF ChangeLiability, gridParamVars
<1>6. ASSUME NEW t \in Tiers
      PROVE  tierLiability'[t] = SumOf(g, OfTier(t)')
  <2>1. OfTier(t)' = OfTier(t) /\ OfTier(t) \in SUBSET Vaults
        /\ (v \in OfTier(t) <=> vaultTier[v] = t)
    BY <1>5 DEF OfTier
  <2>2. tierLiability[t] = SumOf(f, OfTier(t))
    BY GridParts DEF GridCounts, f
  <2>3. tierLiability' = [tierLiability EXCEPT ![vaultTier[v]] = @ + d]
    BY DEF ChangeLiability, TierLiabilityWith
  <2>4. tierLiability'[t] = tierLiability[t] + (IF vaultTier[v] = t THEN d ELSE 0)
    BY <1>4, <2>3
  <2>5. SumOf(g, OfTier(t)) = SumOf(f, OfTier(t)) + (IF v \in OfTier(t) THEN d ELSE 0)
    BY <1>3, <2>1
  <2> QED BY <2>1, <2>2, <2>4, <2>5
<1>7. ASSUME NEW o \in Operators
      PROVE  groupLiability'[o] = SumOf(g, OfGroup(o)')
  <2>1. OfGroup(o)' = OfGroup(o) /\ OfGroup(o) \in SUBSET Vaults
        /\ (v \in OfGroup(o) <=> vaultTier[v] # DefaultTier /\ TierOperator[vaultTier[v]] = o)
    BY <1>5 DEF OfGroup
  <2>2. groupLiability[o] = SumOf(f, OfGroup(o))
    BY GridParts DEF GridCounts, f
  <2>3. groupLiability' = IF vaultTier[v] = DefaultTier THEN groupLiability
          ELSE [groupLiability EXCEPT ![TierOperator[vaultTier[v]]] = @ + d]
    BY DEF ChangeLiability, GroupLiabilityWith
  <2>4. groupLiability'[o] = groupLiability[o] + (IF v \in OfGroup(o) THEN d ELSE 0)
    BY <1>4, <2>1, <2>3
  <2>5. SumOf(g, OfGroup(o)) = SumOf(f, OfGroup(o)) + (IF v \in OfGroup(o) THEN d ELSE 0)
    BY <1>3, <2>1
  <2> QED BY <2>1, <2>2, <2>4, <2>5
<1>8. GridCounts'
  BY <1>6, <1>7 DEF GridCounts, g
<1>9. TiersOfOperators'
  BY <1>4, <1>5 DEF TiersOfOperators
<1>10. /\ tierLiability' = [t \in Tiers |-> tierLiability'[t]]
       /\ groupLiability' = [o \in Operators |-> groupLiability'[o]]
  BY <1>4 DEF ChangeLiability, TierLiabilityWith, GroupLiabilityWith
<1>11. GridOK'
  BY <1>4, <1>5, <1>8, <1>9, <1>10, GridFromSums
<1>12. SumOf(g, Vaults) = SumOf(f, Vaults) + d
  BY <1>3
<1> QED BY <1>11, <1>12 DEF f, g

\* socializeBadDebt: burn on one vault, mint on the other.
LEMMA GridMoved ==
  ASSUME Inv, RecordsOK', NEW v \in Vaults, NEW w \in Vaults, v # w, NEW n \in Nat,
         MoveLiability(v, w, n),
         records'[v].liabilityShares = records[v].liabilityShares - n,
         records'[w].liabilityShares = records[w].liabilityShares + n,
         \A x \in Vaults : x \notin {v, w} =>
           records'[x].liabilityShares = records[x].liabilityShares
  PROVE  GridOK' /\ SumOf(Owed', Vaults) = SumOf(Owed, Vaults)
<1> DEFINE f == Owed
           g == Owed'
<1>1. f \in [Vaults -> Nat] /\ g \in [Vaults -> Nat]
  BY GridParts, OwedNatNext
<1>2. g[v] = f[v] - n /\ g[w] = f[w] + n /\ \A x \in Vaults : x \notin {v, w} => g[x] = f[x]
  BY DEF Owed
<1> HIDE DEF f, g
<1>3. ASSUME NEW S \in SUBSET Vaults
      PROVE  SumOf(g, S) = SumOf(f, S) - (IF v \in S THEN n ELSE 0)
                             + (IF w \in S THEN n ELSE 0)
  <2>1. PICK h : h = [f EXCEPT ![v] = g[v]]
    OBVIOUS
  <2>2. PICK d \in Int : d = -n
    OBVIOUS
  <2>3. h \in [Vaults -> Nat] /\ h[v] = f[v] + d /\ \A x \in Vaults : x # v => h[x] = f[x]
    BY <1>1, <1>2, <2>1, <2>2
  <2>4. g[w] = h[w] + n /\ \A x \in Vaults : x # w => g[x] = h[x]
    BY <1>1, <1>2, <2>1
  <2>5. SumOf(h, S) = SumOf(f, S) + (IF v \in S THEN d ELSE 0)
    BY <1>1, <2>3, PartChanges
  <2>6. SumOf(g, S) = SumOf(h, S) + (IF w \in S THEN n ELSE 0)
    BY <1>1, <2>3, <2>4, PartChanges
  <2>7. SumOf(f, S) \in Int
    BY <1>1, PartSums
  <2> QED BY <2>2, <2>5, <2>6, <2>7
<1>4. /\ tierParams \in [Tiers -> TierParams] /\ tierLiability \in [Tiers -> Nat]
      /\ groupLimit \in [Operators -> GroupLimits] /\ groupLiability \in [Operators -> Nat]
      /\ vaultTier \in [Vaults -> Tiers] /\ isVaultInJail \in [Vaults -> BOOLEAN]
      /\ TiersOfOperators
  BY GridParts DEF GridTypeOK
<1>5. UNCHANGED <<tierParams, groupLimit, isVaultInJail, vaultTier>>
  BY DEF MoveLiability, gridParamVars
<1>6. ASSUME NEW t \in Tiers
      PROVE  tierLiability'[t] = SumOf(g, OfTier(t)')
  <2>1. OfTier(t)' = OfTier(t) /\ OfTier(t) \in SUBSET Vaults
        /\ \A x \in {v, w} : x \in OfTier(t) <=> t = vaultTier[x]
    BY <1>5 DEF OfTier
  <2>2. tierLiability[t] = SumOf(f, OfTier(t))
    BY GridParts DEF GridCounts, f
  <2>3. tierLiability'[t] = tierLiability[t] - (IF t = vaultTier[v] THEN n ELSE 0)
                              + (IF t = vaultTier[w] THEN n ELSE 0)
    BY <1>4 DEF MoveLiability
  <2>4. SumOf(g, OfTier(t)) = SumOf(f, OfTier(t)) - (IF v \in OfTier(t) THEN n ELSE 0)
                                + (IF w \in OfTier(t) THEN n ELSE 0)
    BY <1>3, <2>1
  <2> QED BY <2>1, <2>2, <2>3, <2>4
<1>7. ASSUME NEW o \in Operators
      PROVE  groupLiability'[o] = SumOf(g, OfGroup(o)')
  <2>1. OfGroup(o)' = OfGroup(o) /\ OfGroup(o) \in SUBSET Vaults
        /\ \A x \in {v, w} : x \in OfGroup(o) <=>
             vaultTier[x] # DefaultTier /\ TierOperator[vaultTier[x]] = o
    BY <1>5 DEF OfGroup
  <2>2. groupLiability[o] = SumOf(f, OfGroup(o))
    BY GridParts DEF GridCounts, f
  <2>3. groupLiability'[o] = groupLiability[o] - (IF v \in OfGroup(o) THEN n ELSE 0)
                               + (IF w \in OfGroup(o) THEN n ELSE 0)
    BY <1>4, <2>1 DEF MoveLiability
  <2>4. SumOf(g, OfGroup(o)) = SumOf(f, OfGroup(o)) - (IF v \in OfGroup(o) THEN n ELSE 0)
                                 + (IF w \in OfGroup(o) THEN n ELSE 0)
    BY <1>3, <2>1
  <2> QED BY <2>1, <2>2, <2>3, <2>4
<1>8. GridCounts'
  BY <1>6, <1>7 DEF GridCounts, g
<1>9. TiersOfOperators'
  BY <1>4, <1>5 DEF TiersOfOperators
<1>10. /\ tierLiability' = [t \in Tiers |-> tierLiability'[t]]
       /\ groupLiability' = [o \in Operators |-> groupLiability'[o]]
  BY DEF MoveLiability
<1>11. GridOK'
  BY <1>4, <1>5, <1>8, <1>9, <1>10, GridFromSums
<1>12. SumOf(g, Vaults) = SumOf(f, Vaults)
  <2>1. SumOf(f, Vaults) \in Int
    BY <1>1, PartSums
  <2>2. Vaults \in SUBSET Vaults
    OBVIOUS
  <2>3. SumOf(g, Vaults) = SumOf(f, Vaults) - n + n
    BY <1>3, <2>2
  <2> QED BY <2>1, <2>3
<1> QED BY <1>11, <1>12 DEF f, g

LEMMA PartWith ==
  ASSUME NEW f \in [Vaults -> Nat], NEW S \in SUBSET Vaults, NEW v \in Vaults, v \notin S
  PROVE  SumOf(f, S \cup {v}) = SumOf(f, S) + f[v]
<1> DEFINE T == S \cup {v}
<1>1. IsFiniteSet(T) /\ (\A x \in T : f[x] \in Int) /\ v \in T /\ T \ {v} = S
  BY GridAssumption, FS_Subset
<1> HIDE DEF T
<1>2. SumOf(f, T) = f[v] + SumOf(f, S)
  BY <1>1, SumTakes
<1>3. SumOf(f, S) \in Nat /\ f[v] \in Nat
  BY PartSums
<1>4. SumOf(f, T) = SumOf(f, S) + f[v]
  BY <1>2, <1>3
<1> QED BY <1>4 DEF T

LEMMA PartWithout ==
  ASSUME NEW f \in [Vaults -> Nat], NEW S \in SUBSET Vaults, NEW v \in S
  PROVE  SumOf(f, S \ {v}) = SumOf(f, S) - f[v]
<1>1. v \in Vaults /\ v \notin S \ {v} /\ S \ {v} \in SUBSET Vaults /\ (S \ {v}) \cup {v} = S
  OBVIOUS
<1>2. SumOf(f, S) = SumOf(f, S \ {v}) + f[v]
  BY <1>1, PartWith
<1>3. SumOf(f, S \ {v}) \in Nat /\ f[v] \in Nat
  BY <1>1, PartSums
<1> QED BY <1>2, <1>3

\* A vault that owes nothing does not count.
LEMMA PartAside ==
  ASSUME NEW f \in [Vaults -> Nat], NEW S \in SUBSET Vaults, NEW T \in SUBSET Vaults,
         NEW v \in Vaults, f[v] = 0, S \ {v} = T \ {v}
  PROVE  SumOf(f, S) = SumOf(f, T)
<1>1. ASSUME NEW P \in SUBSET Vaults
      PROVE  SumOf(f, P \ {v}) = SumOf(f, P)
  <2>1. CASE v \in P
    <3>1. SumOf(f, P \ {v}) = SumOf(f, P) - f[v]
      BY <2>1, PartWithout
    <3>2. SumOf(f, P) \in Nat
      BY PartSums
    <3> QED BY <3>1, <3>2
  <2>2. CASE v \notin P
    <3>1. P \ {v} = P
      BY <2>2
    <3> QED BY <3>1
  <2> QED BY <2>1, <2>2
<1> QED BY <1>1

\* The grid's part of changeTier.
LEMMA GridTierMoved ==
  ASSUME Inv, RecordsOK', NEW v \in Vaults, NEW t \in Tiers, NEW limit,
         MoveToTier(v, t, limit, records[v].liabilityShares),
         \A w \in Vaults : records'[w].liabilityShares = records[w].liabilityShares
  PROVE  GridOK' /\ SumOf(Owed', Vaults) = SumOf(Owed, Vaults)
<1> DEFINE f       == Owed
           current == vaultTier[v]
           o       == NodeOperator[v]
           n       == records[v].liabilityShares
<1>1. Owed' = f /\ f \in [Vaults -> Nat] /\ f[v] = n /\ n \in Nat
  BY GridParts DEF Owed
<1>2. /\ tierParams \in [Tiers -> TierParams] /\ tierLiability \in [Tiers -> Nat]
      /\ groupLimit \in [Operators -> GroupLimits] /\ groupLiability \in [Operators -> Nat]
      /\ vaultTier \in [Vaults -> Tiers] /\ isVaultInJail \in [Vaults -> BOOLEAN]
      /\ TiersOfOperators
  BY GridParts DEF GridTypeOK
<1>3. /\ t # DefaultTier /\ t # current /\ TierOperator[t] = o
      /\ groupLiability' = IF current = DefaultTier
                           THEN [groupLiability EXCEPT ![o] = @ + n] ELSE groupLiability
      /\ tierLiability' = [tierLiability EXCEPT ![current] = @ - n, ![t] = @ + n]
      /\ vaultTier' = [vaultTier EXCEPT ![v] = t]
      /\ UNCHANGED <<tierParams, groupLimit, isVaultInJail>>
  BY DEF MoveToTier, gridParamVars
<1>4. current \in Tiers /\ o \in Operators
  BY <1>2, GridAssumption
<1>5. vaultTier' \in [Vaults -> Tiers] /\ vaultTier'[v] = t
      /\ \A w \in Vaults : w # v => vaultTier'[w] = vaultTier[w]
  BY <1>2, <1>3
<1>6. current # DefaultTier => TierOperator[current] = o
  BY <1>2 DEF TiersOfOperators
<1>7. TiersOfOperators'
  BY <1>2, <1>3, <1>5 DEF TiersOfOperators
<1>8. GridCounts
  BY GridParts
<1> HIDE DEF f, current, o, n
<1>9. ASSUME NEW k \in Tiers
      PROVE  tierLiability'[k] = SumOf(f, OfTier(k)')
  <2>1. OfTier(k) \in SUBSET Vaults /\ OfTier(k)' \in SUBSET Vaults
    BY DEF OfTier
  <2>2. tierLiability[k] = SumOf(f, OfTier(k)) /\ tierLiability[k] \in Nat
    BY <1>2, <1>8 DEF GridCounts, f
  <2>3. CASE k = t
    <3>1. OfTier(k)' = OfTier(k) \cup {v} /\ v \notin OfTier(k)
      BY <1>3, <1>5, <2>3 DEF OfTier, current
    <3>2. SumOf(f, OfTier(k)') = SumOf(f, OfTier(k)) + n
      BY <1>1, <2>1, <3>1, PartWith
    <3>3. tierLiability'[k] = tierLiability[k] + n
      BY <1>2, <1>3, <1>4, <2>3
    <3> QED BY <2>2, <3>2, <3>3
  <2>4. CASE k = current
    <3>1. OfTier(k)' = OfTier(k) \ {v} /\ v \in OfTier(k)
      BY <1>3, <1>5, <2>4 DEF OfTier, current
    <3>2. SumOf(f, OfTier(k)') = SumOf(f, OfTier(k)) - n
      BY <1>1, <2>1, <3>1, PartWithout
    <3>3. tierLiability'[k] = tierLiability[k] - n
      BY <1>2, <1>3, <1>4, <2>4
    <3> QED BY <2>2, <3>2, <3>3
  <2>5. CASE k # t /\ k # current
    <3>1. OfTier(k)' = OfTier(k)
      BY <1>5, <2>5 DEF OfTier, current
    <3>2. tierLiability'[k] = tierLiability[k]
      BY <1>2, <1>3, <1>4, <2>5
    <3> QED BY <2>2, <3>1, <3>2
  <2> QED BY <2>3, <2>4, <2>5
<1>10. ASSUME NEW p \in Operators
       PROVE  groupLiability'[p] = SumOf(f, OfGroup(p)')
  <2>1. OfGroup(p) \in SUBSET Vaults /\ OfGroup(p)' \in SUBSET Vaults
    BY DEF OfGroup
  <2>2. groupLiability[p] = SumOf(f, OfGroup(p)) /\ groupLiability[p] \in Nat
    BY <1>2, <1>8 DEF GridCounts, f
  <2>3. v \in OfGroup(p)' <=> p = o
    BY <1>3, <1>5 DEF OfGroup
  <2>4. v \in OfGroup(p) <=> current # DefaultTier /\ p = o
    BY <1>6 DEF OfGroup, current
  <2>5. \A w \in Vaults : w # v => (w \in OfGroup(p)' <=> w \in OfGroup(p))
    BY <1>5 DEF OfGroup
  <2>6. CASE p = o /\ current = DefaultTier
    <3>1. OfGroup(p)' = OfGroup(p) \cup {v} /\ v \notin OfGroup(p)
      BY <2>1, <2>3, <2>4, <2>5, <2>6
    <3>2. SumOf(f, OfGroup(p)') = SumOf(f, OfGroup(p)) + n
      BY <1>1, <2>1, <3>1, PartWith
    <3>3. groupLiability'[p] = groupLiability[p] + n
      BY <1>2, <1>3, <1>4, <2>6
    <3> QED BY <2>2, <3>2, <3>3
  <2>7. CASE p # o \/ current # DefaultTier
    <3>1. OfGroup(p)' = OfGroup(p)
      BY <2>1, <2>3, <2>4, <2>5, <2>7
    <3>2. groupLiability'[p] = groupLiability[p]
      BY <1>2, <1>3, <1>4, <2>7
    <3> QED BY <2>2, <3>1, <3>2
  <2> QED BY <2>6, <2>7
<1>11. GridCounts'
  BY <1>1, <1>9, <1>10 DEF GridCounts
<1>12. /\ tierLiability' = [k \in Tiers |-> tierLiability'[k]]
       /\ groupLiability' = [p \in Operators |-> groupLiability'[p]]
  BY <1>2, <1>3
<1>13. GridOK'
  BY <1>2, <1>3, <1>5, <1>7, <1>11, <1>12, GridFromSums
<1> QED BY <1>1, <1>13 DEF f

\* resetVaultTier, of a vault that owes nothing.
LEMMA GridReset ==
  ASSUME Inv, RecordsOK', NEW v \in Vaults, ResetVaultTier(v),
         records[v].liabilityShares = 0,
         \A w \in Vaults : records'[w].liabilityShares = records[w].liabilityShares
  PROVE  GridOK' /\ SumOf(Owed', Vaults) = SumOf(Owed, Vaults)
<1> DEFINE f == Owed
<1>1. Owed' = f /\ f \in [Vaults -> Nat] /\ f[v] = 0
  BY GridParts DEF Owed
<1>2. /\ tierParams \in [Tiers -> TierParams] /\ tierLiability \in [Tiers -> Nat]
      /\ groupLimit \in [Operators -> GroupLimits] /\ groupLiability \in [Operators -> Nat]
      /\ vaultTier \in [Vaults -> Tiers] /\ isVaultInJail \in [Vaults -> BOOLEAN]
      /\ TiersOfOperators
  BY GridParts DEF GridTypeOK
<1>3. /\ vaultTier' = [vaultTier EXCEPT ![v] = DefaultTier]
      /\ UNCHANGED <<tierParams, groupLimit, isVaultInJail, tierLiability, groupLiability>>
  BY DEF ResetVaultTier, gridParamVars
<1>4. /\ vaultTier' \in [Vaults -> Tiers] /\ vaultTier'[v] = DefaultTier
      /\ \A w \in Vaults : w # v => vaultTier'[w] = vaultTier[w]
  BY <1>2, <1>3, GridAssumption
<1>5. TiersOfOperators'
  BY <1>2, <1>4 DEF TiersOfOperators
<1>6. GridCounts
  BY GridParts
<1> HIDE DEF f
<1>7. ASSUME NEW k \in Tiers
      PROVE  tierLiability'[k] = SumOf(f, OfTier(k)')
  <2>1. /\ OfTier(k) \in SUBSET Vaults /\ OfTier(k)' \in SUBSET Vaults
        /\ OfTier(k) \ {v} = OfTier(k)' \ {v}
    BY <1>4 DEF OfTier
  <2>2. SumOf(f, OfTier(k)) = SumOf(f, OfTier(k)')
    BY <1>1, <2>1, PartAside
  <2> QED BY <1>3, <1>6, <2>2 DEF GridCounts, f
<1>8. ASSUME NEW p \in Operators
      PROVE  groupLiability'[p] = SumOf(f, OfGroup(p)')
  <2>1. /\ OfGroup(p) \in SUBSET Vaults /\ OfGroup(p)' \in SUBSET Vaults
        /\ OfGroup(p) \ {v} = OfGroup(p)' \ {v}
    BY <1>4 DEF OfGroup
  <2>2. SumOf(f, OfGroup(p)) = SumOf(f, OfGroup(p)')
    BY <1>1, <2>1, PartAside
  <2> QED BY <1>3, <1>6, <2>2 DEF GridCounts, f
<1>9. GridCounts'
  BY <1>1, <1>7, <1>8 DEF GridCounts
<1>10. /\ tierLiability' = [k \in Tiers |-> tierLiability'[k]]
       /\ groupLiability' = [p \in Operators |-> groupLiability'[p]]
  BY <1>2, <1>3
<1>11. GridOK'
  BY <1>2, <1>3, <1>4, <1>5, <1>9, <1>10, GridFromSums
<1> QED BY <1>1, <1>11 DEF f

-----------------------------------------------------------------------------
(* Changes of one record.                                                  *)

LEMMA StoredGood ==
  ASSUME Inv, NEW v \in Vaults
  PROVE  GoodRecord(records[v]) /\ RefSlot \in Nat \ {0}
BY RecordOf, SlotParts DEF GoodRecord, Inv

\* n is r but for what its fields of liabilities and fees say.
SameValue(n, r) ==
  /\ n.totalValue = r.totalValue
  /\ n.reportInOutDelta = r.reportInOutDelta
  /\ n.timestamp = r.timestamp

LEMMA DeltaChanged ==
  ASSUME NEW r, GoodRecord(r), RefSlot \in Nat \ {0}, NEW d \in Int,
         NEW n, n = InOutDeltaChanged(r, d)
  PROVE  /\ GoodRecord(n) /\ SameValue(n, r)
         /\ n.inOutDelta = WithDoubleIncrease(r.inOutDelta, RefSlot, d)
         /\ n.liabilityShares = r.liabilityShares
<1>1. r \in Records /\ CachesDated(r.inOutDelta, RefSlot)
  BY DEF GoodRecord
<1>2. PICK caches : caches = WithDoubleIncrease(r.inOutDelta, RefSlot, d)
  OBVIOUS
<1>3. caches \in [1..2 -> Caches] /\ CachesDated(caches, RefSlot)
  BY <1>1, <1>2, CacheIncreased, RecordParts
<1>4. n = [r EXCEPT !.inOutDelta = caches]
  BY <1>2 DEF InOutDeltaChanged
<1>5. /\ n \in Records /\ n.inOutDelta = caches /\ SameValue(n, r)
      /\ n.liabilityShares = r.liabilityShares /\ n.redemptionShares = r.redemptionShares
      /\ n.maxLiabilityShares = r.maxLiabilityShares
      /\ n.settledLidoFees = r.settledLidoFees /\ n.cumulativeLidoFees = r.cumulativeLidoFees
  BY <1>1, <1>3, <1>4 DEF Records, SameValue
<1> QED BY <1>2, <1>3, <1>5 DEF GoodRecord

LEMMA LiabilityUp ==
  ASSUME NEW r, GoodRecord(r), NEW k \in Nat, NEW n, n = LiabilityIncreased(r, k)
  PROVE  /\ GoodRecord(n) /\ SameValue(n, r) /\ n.inOutDelta = r.inOutDelta
         /\ n.liabilityShares = r.liabilityShares + k
<1>1. /\ r \in Records /\ CachesDated(r.inOutDelta, RefSlot)
      /\ r.redemptionShares <= r.liabilityShares /\ r.settledLidoFees <= r.cumulativeLidoFees
      /\ r.liabilityShares \in Nat /\ r.maxLiabilityShares \in Nat /\ r.redemptionShares \in Nat
  BY RecordParts DEF GoodRecord
<1>2. PICK after \in Nat : after = r.liabilityShares + k
  BY <1>1
<1>3. PICK most : most = Max({r.maxLiabilityShares, after})
  OBVIOUS
<1>4. most \in Nat /\ after <= most
  <2>1. PICK m \in Nat : m = r.maxLiabilityShares
    BY <1>1
  <2>2. Max({m, after}) \in {m, after} /\ after <= Max({m, after})
    BY MaxOfTwo
  <2>3. most = Max({m, after})
    BY <1>3, <2>1
  <2> QED BY <2>2, <2>3
<1>5. n = [r EXCEPT !.liabilityShares = after, !.maxLiabilityShares = most]
  BY <1>2, <1>3 DEF LiabilityIncreased
<1>6. /\ n \in Records /\ SameValue(n, r) /\ n.inOutDelta = r.inOutDelta
      /\ n.liabilityShares = after /\ n.maxLiabilityShares = most
      /\ n.redemptionShares = r.redemptionShares
      /\ n.settledLidoFees = r.settledLidoFees /\ n.cumulativeLidoFees = r.cumulativeLidoFees
  BY <1>1, <1>4, <1>5 DEF Records, SameValue
<1> QED BY <1>1, <1>2, <1>4, <1>6 DEF GoodRecord

LEMMA LiabilityDown ==
  ASSUME NEW r, GoodRecord(r), NEW k \in Nat, k <= r.liabilityShares,
         NEW n, n = LiabilityDecreased(r, k)
  PROVE  /\ GoodRecord(n) /\ SameValue(n, r) /\ n.inOutDelta = r.inOutDelta
         /\ n.liabilityShares = r.liabilityShares - k
<1>1. /\ r \in Records /\ CachesDated(r.inOutDelta, RefSlot)
      /\ r.redemptionShares <= r.liabilityShares /\ r.settledLidoFees <= r.cumulativeLidoFees
      /\ r.liabilityShares <= r.maxLiabilityShares
      /\ r.liabilityShares \in Nat /\ r.maxLiabilityShares \in Nat /\ r.redemptionShares \in Nat
  BY RecordParts DEF GoodRecord
<1>2. PICK after \in Nat : after = r.liabilityShares - k
  BY <1>1
<1>3. PICK left \in Int : left = r.redemptionShares - k
  BY <1>1
<1>4. PICK redeemed : redeemed = Max({0, left})
  OBVIOUS
<1>5. redeemed \in Nat /\ redeemed <= after
  <2>1. redeemed \in {0, left} /\ 0 <= redeemed
    BY <1>4, MaxOfTwo
  <2> QED BY <1>1, <1>2, <1>3, <2>1
<1>6. n = [r EXCEPT !.liabilityShares = after, !.redemptionShares = redeemed]
  BY <1>2, <1>3, <1>4 DEF LiabilityDecreased
<1>7. /\ n \in Records /\ SameValue(n, r) /\ n.inOutDelta = r.inOutDelta
      /\ n.liabilityShares = after /\ n.redemptionShares = redeemed
      /\ n.maxLiabilityShares = r.maxLiabilityShares
      /\ n.settledLidoFees = r.settledLidoFees /\ n.cumulativeLidoFees = r.cumulativeLidoFees
  BY <1>1, <1>5, <1>6 DEF Records, SameValue
<1> QED BY <1>1, <1>2, <1>5, <1>7 DEF GoodRecord

LEMMA FeesUp ==
  ASSUME NEW r, GoodRecord(r), RefSlot \in Nat \ {0},
         NEW k \in Nat, k <= UnsettledLidoFees(r), NEW n, n = FeesSettled(r, k)
  PROVE  /\ GoodRecord(n) /\ SameValue(n, r)
         /\ n.inOutDelta = WithDoubleIncrease(r.inOutDelta, RefSlot, -k)
         /\ n.liabilityShares = r.liabilityShares
<1>1. PICK m : m = [r EXCEPT !.settledLidoFees = r.settledLidoFees + k]
  OBVIOUS
<1>2. /\ r \in Records /\ r.settledLidoFees \in Nat /\ r.cumulativeLidoFees \in Nat
      /\ CachesDated(r.inOutDelta, RefSlot)
      /\ r.redemptionShares <= r.liabilityShares /\ r.liabilityShares <= r.maxLiabilityShares
  BY RecordParts DEF GoodRecord
<1>3. PICK paid \in Nat : paid = r.settledLidoFees + k
  BY <1>2
<1>4. paid <= r.cumulativeLidoFees
  BY <1>2, <1>3 DEF UnsettledLidoFees
<1>5. /\ m \in Records /\ SameValue(m, r) /\ m.inOutDelta = r.inOutDelta
      /\ m.liabilityShares = r.liabilityShares /\ m.redemptionShares = r.redemptionShares
      /\ m.maxLiabilityShares = r.maxLiabilityShares
      /\ m.settledLidoFees = paid /\ m.cumulativeLidoFees = r.cumulativeLidoFees
  BY <1>1, <1>2, <1>3 DEF Records, SameValue
<1>6. GoodRecord(m)
  BY <1>2, <1>4, <1>5 DEF GoodRecord
<1>7. PICK d \in Int : d = -k
  OBVIOUS
<1>8. n = InOutDeltaChanged(m, d)
  BY <1>1, <1>7 DEF FeesSettled
<1>9. /\ GoodRecord(n) /\ SameValue(n, m) /\ n.liabilityShares = m.liabilityShares
      /\ n.inOutDelta = WithDoubleIncrease(m.inOutDelta, RefSlot, d)
  BY <1>6, <1>8, DeltaChanged
<1> QED BY <1>5, <1>7, <1>9 DEF SameValue

-----------------------------------------------------------------------------
(* The frame of a call that changes the record of one vault.               *)

LEMMA HubConstants ==
  /\ ConnectDeposit \in Nat \ {0} /\ MinBeaconDeposit \in Nat \ {0}
  /\ MaxShareLimit \in Nat /\ MaxUint \in Nat
  /\ RateEther \in Nat \ {0} /\ RateShares \in Nat \ {0}
  /\ \A n \in Amounts : n \in Nat \ {0}
  /\ \A n \in ShareAmounts : n \in Nat \ {0}
  /\ \A n \in Targets : n \in Nat
  /\ \A n \in SlashingReserves : n \in Nat
  /\ TotalBasisPoints \in Nat \ {0}
BY HubAssumption, SanityParams

LEMMA PauseTyped ==
  ASSUME Inv, NEW v, NEW c, NEW r, UpdateDepositsPause(v, c, r)
  PROVE  depositsPaused' \in [Vaults -> BOOLEAN]
<1>1. depositsPaused \in [Vaults -> BOOLEAN]
  BY DEF Inv, RestOK
<1>2. PICK paused \in BOOLEAN : paused = (HasObligations(c, r) \/ (depositsPaused[v] /\ c.pauseIntent))
  OBVIOUS
<1>3. depositsPaused' = [depositsPaused EXCEPT ![v] = paused]
  BY <1>2 DEF UpdateDepositsPause
<1> QED BY <1>1, <1>3

\* e is the ether that comes in.
RecordChanges(v, r, e) ==
  /\ GoodRecord(r) /\ SetRecord(v, r)
  /\ SameValue(r, records[v])
  /\ \/ r.inOutDelta = WithDoubleIncrease(records[v].inOutDelta, RefSlot, e)
     \/ e = 0 /\ r.inOutDelta = records[v].inOutDelta
  /\ TotalValue(records[v]) + e >= 0

ConnectionsKept ==
  /\ connections' \in [Vaults -> Connections]
  /\ RatiosOK'
  /\ \A w \in Vaults : connections'[w].vaultIndex = connections[w].vaultIndex

LEMMA UnchangedConnections ==
  ASSUME Inv, UNCHANGED connections
  PROVE  ConnectionsKept
BY DEF Inv, RestOK, ConnectionsKept, RatiosOK, Connected

LEMMA VaultStep ==
  ASSUME Inv, NEW v \in Vaults, Connected(v), NEW r, NEW e \in Int, RecordChanges(v, r, e),
         UNCHANGED Elsewhere, ConnectionsKept,
         depositsPaused' \in [Vaults -> BOOLEAN],
         balance' = [balance EXCEPT ![v] = @ + e], balance[v] + e >= 0
  PROVE  ListOK' /\ RecordsOK' /\ RestOK' /\ ValueOK'
<1>1. UNCHANGED <<vaults, quarantines, vaultsData, ownedByHub, clBalance, snapshot,
                  feesAccrued, now, losses, lossesReported>>
  BY DEF Elsewhere, envVars, lossVars
<1>2. ListOK'
  BY <1>1, ListKept DEF ConnectionsKept
<1>3. RecordsOK'
  BY <1>1, RecordStored DEF RecordChanges
<1>4. balance \in [Vaults -> Nat] /\ balance' \in [Vaults -> Nat] /\ balance'[v] = balance[v] + e
      /\ \A w \in Vaults : w # v => balance'[w] = balance[w]
  <2>1. balance \in [Vaults -> Nat]
    BY DEF Inv, RestOK
  <2>2. PICK b \in Nat : b = balance[v] + e
    BY <2>1
  <2>3. balance' = [balance EXCEPT ![v] = b]
    BY <2>2
  <2> QED BY <2>1, <2>2, <2>3
<1>5. \A w \in Vaults : Connected(w)' <=> Connected(w)
  BY DEF Connected, ConnectionsKept
<1>6. records' = [records EXCEPT ![v] = r] /\ records \in [Vaults -> Records]
  BY DEF RecordChanges, SetRecord, Inv, RecordsOK
<1>7. RestOK'
  <2>1. RestOK
    BY DEF Inv
  <2>2. connections' \in [Vaults -> Connections] /\ RatiosOK'
    BY DEF ConnectionsKept
  <2>3. OthersOweNothing'
    BY <1>5, <1>6, <2>1 DEF RestOK, OthersOweNothing
  <2> QED BY <1>1, <1>4, <2>1, <2>2, <2>3 DEF RestOK, RefSlot
<1>8. \A w \in Vaults : clBalance[w] \in Int /\ losses[w] \in Int /\ balance[w] \in Int
  BY DEF Inv, RestOK
<1>9. ASSUME NEW w \in Vaults, Connected(w)
      PROVE  \E d \in Int : MovedBy(w, d) /\ TotalValue(records[w]) + d >= 0
  <2>1. CASE w = v
    <3>1. records'[w] = r
      BY <1>6, <2>1
    <3>2. Backing(w)' = Backing(w) + e
      BY <1>1, <1>4, <1>8, <2>1 DEF Backing
    <3>3. Backing(w) \in Int
      BY <1>8 DEF Backing
    <3>4. MovedBy(w, e)
      <4>1. Backing(w)' >= Backing(w) + e
        BY <3>2, <3>3
      <4> QED BY <2>1, <3>1, <4>1 DEF MovedBy, RecordChanges, SameValue
    <3> QED BY <2>1, <3>4 DEF RecordChanges
  <2>2. CASE w # v
    <3>1. records'[w] = records[w]
      BY <1>6, <2>2
    <3>2. Backing(w)' >= Backing(w) + 0
      BY <1>1, <1>4, <1>8, <2>2 DEF Backing
    <3>3. MovedBy(w, 0)
      BY <3>1, <3>2 DEF MovedBy
    <3>4. TotalValue(records[w]) >= 0 /\ TotalValue(records[w]) \in Int
      BY <1>9, RecordOf, RecordParts DEF Inv, ValueOK, TotalValueBacked
    <3> QED BY <3>3, <3>4
  <2> QED BY <2>1, <2>2
<1>10. ValueOK'
  BY <1>1, <1>5, <1>7, <1>9, ValueMoved
<1> QED BY <1>2, <1>3, <1>7, <1>10

\* The books of Lido and VaultHub through a change by d shares.
LEMMA SharesChanged ==
  ASSUME Inv, NEW d \in Int, SumOf(Owed', Vaults) = SumOf(Owed, Vaults) + d,
         externalShares' = externalShares + d,
         UNCHANGED <<badDebtToInternalize, vaultsData, now>>
  PROVE  SharesOwned'
<1>1. SumOf(Owed, Vaults) \in Int
  BY GridParts, PartSums
<1>2. SharesOwned /\ badDebtToInternalize.value \in Nat
  BY DEF Inv, SharesOwned
<1>3. externalShares' = SumOf(Owed', Vaults) + badDebtToInternalize.value
  BY <1>1, <1>2 DEF SharesOwned
<1> QED BY <1>2, <1>3 DEF SharesOwned, RefSlot

LEMMA SharesKept ==
  ASSUME Inv, SumOf(Owed', Vaults) = SumOf(Owed, Vaults),
         UNCHANGED <<externalShares, badDebtToInternalize, vaultsData, now>>
  PROVE  SharesOwned'
<1>1. SumOf(Owed, Vaults) \in Int /\ externalShares \in Int
  <2>1. SumOf(Owed, Vaults) \in Int
    BY GridParts, PartSums
  <2>2. badDebtToInternalize.value \in Nat
        /\ externalShares = SumOf(Owed, Vaults) + badDebtToInternalize.value
    BY DEF Inv, SharesOwned
  <2> QED BY <2>1, <2>2
<1>2. /\ SumOf(Owed', Vaults) = SumOf(Owed, Vaults) + 0
      /\ externalShares' = externalShares + 0
  BY <1>1
<1>3. 0 \in Int
  OBVIOUS
<1> QED BY <1>2, <1>3, SharesChanged

LEMMA ConnectedValue ==
  ASSUME Inv, NEW v \in Vaults, Connected(v)
  PROVE  TotalValue(records[v]) \in Nat
BY RecordOf, RecordParts DEF Inv, ValueOK, TotalValueBacked

\* A call that moves no ether of the vault.
LEMMA VaultStepStill ==
  ASSUME Inv, NEW v \in Vaults, Connected(v), NEW r, GoodRecord(r), SetRecord(v, r),
         SameValue(r, records[v]), r.inOutDelta = records[v].inOutDelta,
         UNCHANGED Elsewhere, UNCHANGED balance, ConnectionsKept,
         depositsPaused' \in [Vaults -> BOOLEAN]
  PROVE  ListOK' /\ RecordsOK' /\ RestOK' /\ ValueOK'
<1>1. balance \in [Vaults -> Nat] /\ TotalValue(records[v]) \in Nat
  BY ConnectedValue DEF Inv, RestOK
<1>2. balance' = [balance EXCEPT ![v] = @ + 0] /\ balance[v] + 0 >= 0
  BY <1>1
<1>3. RecordChanges(v, r, 0)
  BY <1>1 DEF RecordChanges
<1>4. 0 \in Int
  OBVIOUS
<1> QED BY <1>2, <1>3, <1>4, VaultStep

LEMMA CountsUnmoved ==
  ASSUME Inv, RecordsOK', NEW v \in Vaults, NEW r, SetRecord(v, r),
         r.liabilityShares = records[v].liabilityShares, UNCHANGED gridVars
  PROVE  GridOK' /\ SumOf(Owed', Vaults) = SumOf(Owed, Vaults)
<1>1. \A w \in Vaults : records'[w].liabilityShares = records[w].liabilityShares
  BY DEF SetRecord, Inv, RecordsOK
<1> QED BY <1>1, GridParts, GridKept DEF GridTypeOK, gridVars, gridParamVars

LEMMA CountsMoved ==
  ASSUME Inv, RecordsOK', NEW v \in Vaults, NEW r, SetRecord(v, r), NEW d \in Int,
         r.liabilityShares = records[v].liabilityShares + d, ChangeLiability(v, d)
  PROVE  GridOK' /\ SumOf(Owed', Vaults) = SumOf(Owed, Vaults) + d
<1>1. records' = [records EXCEPT ![v] = r] /\ records \in [Vaults -> Records]
  BY DEF SetRecord, Inv, RecordsOK
<1>2. /\ records'[v].liabilityShares = records[v].liabilityShares + d
      /\ \A w \in Vaults : w # v => records'[w].liabilityShares = records[w].liabilityShares
  BY <1>1
<1> QED BY <1>2, GridChanged

-----------------------------------------------------------------------------
(* The owner's calls.                                                      *)

LEMMA InvFund ==
  ASSUME Inv, NEW v \in Vaults, NEW n \in Amounts, Fund(v, n)
  PROVE  Inv'
<1>1. n \in Nat \ {0}
  BY HubConstants
<1>2. PICK r : r = InOutDeltaChanged(records[v], n)
  OBVIOUS
<1>3. /\ Connected(v) /\ SetRecord(v, r) /\ balance' = [balance EXCEPT ![v] = @ + n]
      /\ UNCHANGED <<connections, badDebtToInternalize, externalShares, gridVars,
                     depositsPaused, Elsewhere>>
  BY <1>2 DEF Fund
<1>4. /\ GoodRecord(r) /\ SameValue(r, records[v])
      /\ r.inOutDelta = WithDoubleIncrease(records[v].inOutDelta, RefSlot, n)
      /\ r.liabilityShares = records[v].liabilityShares
  BY <1>1, <1>2, StoredGood, DeltaChanged
<1>5. RecordChanges(v, r, n)
  <2>1. TotalValue(records[v]) + n >= 0
    BY <1>1, <1>3, ConnectedValue
  <2> QED BY <1>3, <1>4, <2>1 DEF RecordChanges
<1>6. balance[v] + n >= 0 /\ depositsPaused' \in [Vaults -> BOOLEAN]
  <2>1. balance[v] \in Nat /\ depositsPaused \in [Vaults -> BOOLEAN]
    BY DEF Inv, RestOK
  <2> QED BY <1>1, <1>3, <2>1
<1>7. ListOK' /\ RecordsOK' /\ RestOK' /\ ValueOK'
  <2>1. ConnectionsKept
    BY <1>3, UnchangedConnections
  <2>2. UNCHANGED Elsewhere /\ n \in Int
    BY <1>1, <1>3
  <2> QED BY <1>3, <1>5, <1>6, <2>1, <2>2, VaultStep
<1>8. GridOK' /\ SumOf(Owed', Vaults) = SumOf(Owed, Vaults)
  BY <1>3, <1>4, <1>7, CountsUnmoved
<1>9. SharesOwned'
  BY <1>3, <1>8, SharesKept DEF Elsewhere, envVars
<1> QED BY <1>7, <1>8, <1>9 DEF Inv

LEMMA InvWithdraw ==
  ASSUME Inv, NEW v \in Vaults, NEW n \in Amounts, Withdraw(v, n)
  PROVE  Inv'
<1>1. PICK d \in Int : d = -n
  BY HubConstants
<1>2. PICK r : r = InOutDeltaChanged(records[v], d)
  OBVIOUS
<1>3. /\ Connected(v) /\ SetRecord(v, r) /\ balance' = [balance EXCEPT ![v] = @ - n]
      /\ n <= TotalValue(records[v]) /\ n <= balance[v]
      /\ UNCHANGED <<connections, badDebtToInternalize, externalShares, gridVars,
                     depositsPaused, Elsewhere>>
  BY <1>1, <1>2 DEF Withdraw, CanWithdraw, InUse
<1>4. /\ GoodRecord(r) /\ SameValue(r, records[v])
      /\ r.inOutDelta = WithDoubleIncrease(records[v].inOutDelta, RefSlot, d)
      /\ r.liabilityShares = records[v].liabilityShares
  BY <1>2, StoredGood, DeltaChanged
<1>5. n \in Nat /\ balance \in [Vaults -> Nat] /\ depositsPaused \in [Vaults -> BOOLEAN]
  BY HubConstants DEF Inv, RestOK
<1>6. RecordChanges(v, r, d)
  <2>1. TotalValue(records[v]) + d >= 0
    BY <1>1, <1>3, <1>5, ConnectedValue
  <2> QED BY <1>3, <1>4, <2>1 DEF RecordChanges
<1>7. balance[v] + d >= 0 /\ balance' = [balance EXCEPT ![v] = @ + d]
  <2>1. balance[v] \in Nat /\ n \in Nat
    BY <1>5
  <2>2. balance[v] + d = balance[v] - n /\ balance[v] + d >= 0
    BY <1>1, <1>3, <2>1
  <2> QED BY <1>3, <2>2
<1>8. ListOK' /\ RecordsOK' /\ RestOK' /\ ValueOK'
  <2>1. ConnectionsKept
    BY <1>3, UnchangedConnections
  <2>2. UNCHANGED Elsewhere /\ depositsPaused' \in [Vaults -> BOOLEAN]
    BY <1>3, <1>5
  <2> QED BY <1>3, <1>6, <1>7, <2>1, <2>2, VaultStep
<1>9. GridOK' /\ SumOf(Owed', Vaults) = SumOf(Owed, Vaults)
  BY <1>3, <1>4, <1>8, CountsUnmoved
<1>10. SharesOwned'
  BY <1>3, <1>9, SharesKept DEF Elsewhere, envVars
<1> QED BY <1>8, <1>9, <1>10 DEF Inv

LEMMA InvMint ==
  ASSUME Inv, NEW v \in Vaults, NEW n \in ShareAmounts, MintShares(v, n)
  PROVE  Inv'
<1>1. n \in Nat
  BY HubConstants
<1>2. PICK r : r = LiabilityIncreased(records[v], n)
  OBVIOUS
<1>3. /\ Connected(v) /\ SetRecord(v, r) /\ ChangeLiability(v, n)
      /\ externalShares' = externalShares + n
      /\ UNCHANGED <<connections, badDebtToInternalize, depositsPaused, balance, Elsewhere>>
  BY <1>2 DEF MintShares, InUse
<1>4. /\ GoodRecord(r) /\ SameValue(r, records[v]) /\ r.inOutDelta = records[v].inOutDelta
      /\ r.liabilityShares = records[v].liabilityShares + n
  BY <1>1, <1>2, StoredGood, LiabilityUp
<1>5. ListOK' /\ RecordsOK' /\ RestOK' /\ ValueOK'
  <2>1. ConnectionsKept
    BY <1>3, UnchangedConnections
  <2>2. UNCHANGED Elsewhere /\ UNCHANGED balance /\ depositsPaused' \in [Vaults -> BOOLEAN]
    BY <1>3 DEF Inv, RestOK
  <2> QED BY <1>3, <1>4, <2>1, <2>2, VaultStepStill
<1>6. GridOK' /\ SumOf(Owed', Vaults) = SumOf(Owed, Vaults) + n
  BY <1>1, <1>3, <1>4, <1>5, CountsMoved
<1>7. SharesOwned'
  BY <1>1, <1>3, <1>6, SharesChanged DEF Elsewhere, envVars
<1> QED BY <1>5, <1>6, <1>7 DEF Inv

LEMMA InvBurn ==
  ASSUME Inv, NEW v \in Vaults, NEW n \in ShareAmounts, BurnShares(v, n)
  PROVE  Inv'
<1>1. n \in Nat
  BY HubConstants
<1>2. PICK r : r = LiabilityDecreased(records[v], n)
  OBVIOUS
<1>3. PICK d \in Int : d = -n
  BY <1>1
<1>4. /\ Connected(v) /\ SetRecord(v, r) /\ ChangeLiability(v, d)
      /\ n <= records[v].liabilityShares
      /\ externalShares' = externalShares - n
      /\ UpdateDepositsPause(v, connections[v], r)
      /\ UNCHANGED <<connections, badDebtToInternalize, balance, Elsewhere>>
  BY <1>2, <1>3 DEF BurnShares, InUse
<1>5. /\ GoodRecord(r) /\ SameValue(r, records[v]) /\ r.inOutDelta = records[v].inOutDelta
      /\ r.liabilityShares = records[v].liabilityShares - n
  BY <1>1, <1>2, <1>4, StoredGood, LiabilityDown
<1>6. ListOK' /\ RecordsOK' /\ RestOK' /\ ValueOK'
  <2>1. ConnectionsKept
    BY <1>4, UnchangedConnections
  <2>2. UNCHANGED Elsewhere /\ UNCHANGED balance
    BY <1>4
  <2>3. depositsPaused' \in [Vaults -> BOOLEAN]
    BY <1>4, PauseTyped
  <2> QED BY <1>4, <1>5, <2>1, <2>2, <2>3, VaultStepStill
<1>7. records[v].liabilityShares \in Nat /\ externalShares \in Int
  <2>1. SumOf(Owed, Vaults) \in Nat
    BY GridParts, PartSums
  <2>2. badDebtToInternalize.value \in Nat
        /\ externalShares = SumOf(Owed, Vaults) + badDebtToInternalize.value
    BY DEF Inv, SharesOwned
  <2> QED BY <2>1, <2>2, RecordOf, RecordParts
<1>8. r.liabilityShares = records[v].liabilityShares + d /\ externalShares' = externalShares + d
  BY <1>1, <1>3, <1>4, <1>5, <1>7
<1>9. GridOK' /\ SumOf(Owed', Vaults) = SumOf(Owed, Vaults) + d
  BY <1>4, <1>6, <1>8, CountsMoved
<1>10. SharesOwned'
  BY <1>4, <1>8, <1>9, SharesChanged DEF Elsewhere, envVars
<1> QED BY <1>6, <1>9, <1>10 DEF Inv

LEMMA RoundUpNat ==
  ASSUME NEW n \in Nat
  PROVE  /\ PooledEthBySharesRoundUp(n) \in Nat
         /\ n * RateEther <= PooledEthBySharesRoundUp(n) * RateShares
<1> DEFINE p == n * RateEther
           s == RateShares
<1>1. p \in Nat /\ s \in Nat \ {0}
  BY HubConstants, ProductNat
<1> HIDE DEF p, s
<1>2. PICK a \in Nat : a = p + s - 1
  BY <1>1
<1>3. PICK q : q = a \div s
  OBVIOUS
<1>4. q \in Nat /\ a < s * q + s
  BY <1>1, <1>2, <1>3, QuotientNat
<1>5. s * q = q * s /\ q * s \in Int
  BY <1>1, <1>4
<1>6. p <= q * s
  BY <1>1, <1>2, <1>4, <1>5
<1>7. PooledEthBySharesRoundUp(n) = q
  BY <1>2, <1>3 DEF PooledEthBySharesRoundUp, CeilDiv, p, s
<1> QED BY <1>4, <1>6, <1>7 DEF p, s

LEMMA InvPayLiability ==
  ASSUME Inv, NEW v \in Vaults, NEW n \in Nat, Connected(v), PayLiability(v, n)
  PROVE  Inv'
<1>1. PICK value \in Nat : value = PooledEthBySharesRoundUp(n)
  BY RoundUpNat
<1>2. PICK e \in Int, d \in Int : e = -value /\ d = -n
  OBVIOUS
<1>3. PICK m : m = LiabilityDecreased(records[v], n)
  OBVIOUS
<1>4. PICK r : r = InOutDeltaChanged(m, e)
  OBVIOUS
<1>5. /\ n <= records[v].liabilityShares
      /\ value <= TotalValue(records[v]) /\ value <= balance[v]
      /\ SetRecord(v, r) /\ balance' = [balance EXCEPT ![v] = @ - value]
      /\ ChangeLiability(v, d) /\ externalShares' = externalShares - n
      /\ UpdateDepositsPause(v, connections[v], r)
      /\ UNCHANGED <<connections, badDebtToInternalize, Elsewhere>>
  BY <1>1, <1>2, <1>3, <1>4 DEF PayLiability, CanWithdraw
<1>6. /\ GoodRecord(m) /\ SameValue(m, records[v]) /\ m.inOutDelta = records[v].inOutDelta
      /\ m.liabilityShares = records[v].liabilityShares - n
  BY <1>3, <1>5, StoredGood, LiabilityDown
<1>7. /\ GoodRecord(r) /\ SameValue(r, m)
      /\ r.inOutDelta = WithDoubleIncrease(m.inOutDelta, RefSlot, e)
      /\ r.liabilityShares = m.liabilityShares
  BY <1>4, <1>6, StoredGood, DeltaChanged
<1>8. SameValue(r, records[v])
        /\ r.inOutDelta = WithDoubleIncrease(records[v].inOutDelta, RefSlot, e)
  BY <1>6, <1>7 DEF SameValue
<1>9. balance[v] \in Nat /\ TotalValue(records[v]) \in Nat
  BY ConnectedValue DEF Inv, RestOK
<1>10. RecordChanges(v, r, e)
  <2>1. TotalValue(records[v]) + e >= 0
    BY <1>2, <1>5, <1>9
  <2> QED BY <1>5, <1>7, <1>8, <2>1 DEF RecordChanges
<1>11. balance[v] + e >= 0 /\ balance' = [balance EXCEPT ![v] = @ + e]
  <2>1. balance[v] + e = balance[v] - value /\ balance[v] + e >= 0
    BY <1>2, <1>5, <1>9
  <2> QED BY <1>5, <2>1
<1>12. ListOK' /\ RecordsOK' /\ RestOK' /\ ValueOK'
  <2>1. ConnectionsKept
    BY <1>5, UnchangedConnections
  <2>2. UNCHANGED Elsewhere
    BY <1>5
  <2>3. depositsPaused' \in [Vaults -> BOOLEAN]
    BY <1>5, PauseTyped
  <2> QED BY <1>10, <1>11, <2>1, <2>2, <2>3, VaultStep
<1>13. records[v].liabilityShares \in Nat /\ externalShares \in Int
  <2>1. SumOf(Owed, Vaults) \in Nat
    BY GridParts, PartSums
  <2>2. badDebtToInternalize.value \in Nat
        /\ externalShares = SumOf(Owed, Vaults) + badDebtToInternalize.value
    BY DEF Inv, SharesOwned
  <2> QED BY <2>1, <2>2, RecordOf, RecordParts
<1>14. r.liabilityShares = records[v].liabilityShares + d /\ externalShares' = externalShares + d
  BY <1>2, <1>5, <1>6, <1>7, <1>13
<1>15. GridOK' /\ SumOf(Owed', Vaults) = SumOf(Owed, Vaults) + d
  BY <1>5, <1>12, <1>14, CountsMoved
<1>16. SharesOwned'
  BY <1>5, <1>14, <1>15, SharesChanged DEF Elsewhere, envVars
<1> QED BY <1>12, <1>15, <1>16 DEF Inv

LEMMA InvRebalance ==
  ASSUME Inv, NEW v \in Vaults, NEW n \in ShareAmounts, Rebalance(v, n)
  PROVE  Inv'
<1>1. n \in Nat /\ Connected(v) /\ PayLiability(v, n)
  BY HubConstants DEF Rebalance, InUse
<1> QED BY <1>1, InvPayLiability

LEMMA ObligationsNat ==
  ASSUME Inv, NEW v \in Vaults, Connected(v)
  PROVE  ObligationsShares(connections[v], records[v]) \in Nat
<1> DEFINE r == records[v]
           c == connections[v]
<1>1. PICK value \in Nat, owed \in Nat, redeemed \in Nat :
        value = TotalValue(r) /\ owed = r.liabilityShares /\ redeemed = r.redemptionShares
  BY ConnectedValue, RecordOf, RecordParts
<1>2. PICK ratio \in 1..(TotalBasisPoints - 1) : ratio = c.reserveRatioBP
  BY DEF Inv, RestOK, RatiosOK, TermsOK
<1>3. PICK liability \in Nat : liability = PooledEthBySharesRoundUp(owed)
  BY RoundUpNat
<1>4. TotalBasisPoints \in Nat \ {0} /\ RateEther \in Nat \ {0} /\ RateShares \in Nat \ {0}
        /\ MaxUint \in Nat /\ ExtraShares \in Nat
  BY HubConstants, HubAssumption
<1>5. PICK short \in Int : short = liability * TotalBasisPoints
                                     - value * (TotalBasisPoints - ratio)
  BY <1>2, <1>4
<1>6. PICK a \in Int : a = short + ratio - 1
  BY <1>2
<1>7. PICK ether \in Int : ether = CeilDiv(short, ratio)
  <2>1. a \div ratio \in Int
    BY <1>2
  <2> QED BY <1>6, <2>1 DEF CeilDiv
<1>8. PICK shares \in Int : shares = SharesByPooledEth(ether) + ExtraShares
  <2>1. PICK p \in Int : p = ether * RateShares
    BY <1>4
  <2>2. p \div RateEther \in Int
    BY <1>4
  <2> QED BY <1>4, <2>1, <2>2 DEF SharesByPooledEth
<1>9. Min({shares, owed}) \in Int
  <2>1. Min({shares, owed}) \in {shares, owed}
    <3>1. shares \in Int /\ owed \in Int
      OBVIOUS
    <3> QED BY ONLY <3>1, MinOfTwo
  <2> QED BY <2>1
<1>10. HealthShortfallShares(c, r) \in {0, MaxUint, owed, Min({shares, owed})}
  BY <1>1, <1>2, <1>3, <1>5, <1>7, <1>8 DEF HealthShortfallShares
<1>11. PICK shortfall \in Int : shortfall = HealthShortfallShares(c, r)
  BY <1>4, <1>9, <1>10
<1>12. PICK most : most = Max({shortfall, redeemed})
  OBVIOUS
<1>13. most \in {shortfall, redeemed} /\ redeemed <= most
  <2>1. shortfall \in Int /\ redeemed \in Int
    OBVIOUS
  <2> QED BY ONLY <1>12, <2>1, MaxOfTwo
<1>14. most \in Nat
  BY <1>13
<1> QED BY <1>1, <1>11, <1>12, <1>14 DEF ObligationsShares

LEMMA ForcedPayment ==
  ASSUME Inv, NEW v \in Vaults, ForceRebalance(v)
  PROVE  \E n \in Nat : Connected(v) /\ n > 0 /\ PayLiability(v, n)
<1>1. PICK n : /\ n = Min({ObligationsShares(connections[v], records[v]),
                            SharesByPooledEth(Min({balance[v], TotalValue(records[v])}))})
               /\ n > 0 /\ Connected(v) /\ PayLiability(v, n)
  BY DEF ForceRebalance, InUse
<1>2. /\ Connected(v) /\ balance[v] \in Nat /\ TotalValue(records[v]) \in Nat
  BY <1>1, ConnectedValue DEF Inv, RestOK
<1>3. PICK available \in Nat : available = Min({balance[v], TotalValue(records[v])})
  <2>1. PICK a \in Nat, b \in Nat : a = balance[v] /\ b = TotalValue(records[v])
    BY <1>2
  <2>2. Min({a, b}) \in {a, b}
    BY MinOfTwo
  <2>3. Min({a, b}) \in Nat
    BY <2>2
  <2> QED BY <2>1, <2>3
<1>4. PICK most \in Nat : most = SharesByPooledEth(available)
  <2> DEFINE p == available * RateShares
  <2>1. p \in Nat /\ RateEther \in Nat \ {0}
    BY HubConstants, ProductNat
  <2> HIDE DEF p
  <2>2. p \div RateEther \in Nat
    BY <2>1, QuotientNat
  <2> QED BY <2>2 DEF SharesByPooledEth, p
<1>5. PICK obligations \in Nat : obligations = ObligationsShares(connections[v], records[v])
  BY <1>1, ObligationsNat
<1>6. n \in Nat
  <2>1. n = Min({obligations, most})
    BY <1>1, <1>3, <1>4, <1>5
  <2>2. n \in {obligations, most}
    <3>1. obligations \in Int /\ most \in Int
      OBVIOUS
    <3> QED BY ONLY <2>1, <3>1, MinOfTwo
  <2> QED BY <2>2
<1> QED BY <1>1, <1>6

LEMMA InvForceRebalance ==
  ASSUME Inv, NEW v \in Vaults, ForceRebalance(v)
  PROVE  Inv'
<1>1. PICK n \in Nat : Connected(v) /\ PayLiability(v, n)
  BY ForcedPayment
<1> QED BY <1>1, InvPayLiability

-----------------------------------------------------------------------------
(* Calls that change the connection of a vault.                            *)

LEMMA ConnectionSet ==
  ASSUME Inv, NEW v \in Vaults, NEW c \in Connections, SetConnection(v, c),
         c.vaultIndex = connections[v].vaultIndex, TermsOK(c)
  PROVE  ConnectionsKept
<1>1. connections \in [Vaults -> Connections] /\ RatiosOK
  BY DEF Inv, RestOK
<1>2. connections' \in [Vaults -> Connections] /\ connections'[v] = c
      /\ \A w \in Vaults : w # v => connections'[w] = connections[w]
  BY <1>1 DEF SetConnection
<1>3. \A w \in Vaults : connections'[w].vaultIndex = connections[w].vaultIndex
  BY <1>2
<1>4. RatiosOK'
  BY <1>1, <1>2, <1>3 DEF RatiosOK, Connected
<1> QED BY <1>2, <1>3, <1>4 DEF ConnectionsKept

\* The record and the ether stay as they are.
LEMMA TermsStep ==
  ASSUME Inv, NEW v \in Vaults, Connected(v), ConnectionsKept,
         UNCHANGED <<records, balance, Elsewhere>>, depositsPaused' \in [Vaults -> BOOLEAN]
  PROVE  /\ ListOK' /\ RecordsOK' /\ RestOK' /\ ValueOK'
         /\ SetRecord(v, records[v])
<1>1. SetRecord(v, records[v])
  BY DEF SetRecord, Inv, RecordsOK
<1>2. PICK r : r = records[v]
  OBVIOUS
<1>3. GoodRecord(r) /\ SameValue(r, records[v]) /\ r.inOutDelta = records[v].inOutDelta
  BY <1>2, StoredGood DEF SameValue
<1>4. UNCHANGED Elsewhere /\ UNCHANGED balance
  OBVIOUS
<1>5. ListOK' /\ RecordsOK' /\ RestOK' /\ ValueOK'
  BY <1>1, <1>2, <1>3, <1>4, VaultStepStill
<1> QED BY <1>1, <1>5

LEMMA TermsKeepShares ==
  ASSUME Inv, NEW v \in Vaults, Connected(v), ConnectionsKept,
         UNCHANGED <<records, balance, Elsewhere>>, depositsPaused' \in [Vaults -> BOOLEAN],
         UNCHANGED <<badDebtToInternalize, externalShares>>, UNCHANGED gridVars
  PROVE  Inv'
<1>1. ListOK' /\ RecordsOK' /\ RestOK' /\ ValueOK' /\ SetRecord(v, records[v])
  BY TermsStep
<1>2. GridOK' /\ SumOf(Owed', Vaults) = SumOf(Owed, Vaults)
  BY <1>1, CountsUnmoved
<1>3. SharesOwned'
  BY <1>2, SharesKept DEF Elsewhere, envVars
<1> QED BY <1>1, <1>2, <1>3 DEF Inv

LEMMA ConnectionParts ==
  ASSUME Inv, NEW v \in Vaults, Connected(v)
  PROVE  /\ connections[v] \in Connections /\ TermsOK(connections[v])
         /\ connections[v].reserveRatioBP \in 1..(TotalBasisPoints - 1)
BY DEF Inv, RestOK, RatiosOK, TermsOK

LEMMA InvPausing ==
  ASSUME Inv, NEW v \in Vaults,
         PauseBeaconChainDeposits(v) \/ ResumeBeaconChainDeposits(v)
  PROVE  Inv'
<1>1. CASE PauseBeaconChainDeposits(v)
  <2>1. PICK c : c = [connections[v] EXCEPT !.pauseIntent = TRUE]
    OBVIOUS
  <2>2. /\ Connected(v) /\ SetConnection(v, c)
        /\ depositsPaused' = [depositsPaused EXCEPT ![v] = TRUE]
        /\ UNCHANGED <<records, balance, Elsewhere>>
        /\ UNCHANGED <<badDebtToInternalize, externalShares>> /\ UNCHANGED gridVars
    BY <1>1, <2>1 DEF PauseBeaconChainDeposits, InUse
  <2>3. depositsPaused' \in [Vaults -> BOOLEAN]
    BY <2>2 DEF Inv, RestOK
  <2>4. c \in Connections /\ c.vaultIndex = connections[v].vaultIndex
        /\ TermsOK(c)
    BY <2>1, <2>2, ConnectionParts DEF Connections, TermsOK
  <2>5. ConnectionsKept
    BY <2>2, <2>4, ConnectionSet
  <2> QED BY <2>2, <2>3, <2>5, TermsKeepShares
<1>2. CASE ResumeBeaconChainDeposits(v)
  <2>1. PICK c : c = [connections[v] EXCEPT !.pauseIntent = FALSE]
    OBVIOUS
  <2>2. /\ Connected(v) /\ SetConnection(v, c)
        /\ UpdateDepositsPause(v, c, records[v])
        /\ UNCHANGED <<records, balance, Elsewhere>>
        /\ UNCHANGED <<badDebtToInternalize, externalShares>> /\ UNCHANGED gridVars
    BY <1>2, <2>1 DEF ResumeBeaconChainDeposits, InUse
  <2>3. depositsPaused' \in [Vaults -> BOOLEAN]
    BY <2>2, PauseTyped
  <2>4. c \in Connections /\ c.vaultIndex = connections[v].vaultIndex
        /\ TermsOK(c)
    BY <2>1, <2>2, ConnectionParts DEF Connections, TermsOK
  <2>5. ConnectionsKept
    BY <2>2, <2>4, ConnectionSet
  <2> QED BY <2>2, <2>3, <2>5, TermsKeepShares
<1> QED BY <1>1, <1>2

LEMMA ParamsParts ==
  ASSUME NEW p \in TierParams
  PROVE  /\ p.shareLimit \in Nat /\ p.forcedRebalanceThresholdBP \in Nat
         /\ p.reserveRatioBP \in 1..(TotalBasisPoints - 1)
         /\ TermsOK(p)
<1>1. /\ p \in [shareLimit : Nat, reserveRatioBP : Nat \ {0}, forcedRebalanceThresholdBP : Nat]
      /\ p.forcedRebalanceThresholdBP < p.reserveRatioBP
      /\ p.reserveRatioBP < TotalBasisPoints /\ TotalBasisPoints \in Nat
  BY GridAssumption, HubAssumption, SanityParams
<1> QED BY <1>1 DEF TermsOK

\* updateConnection.
LEMMA TermsUpdated ==
  ASSUME Inv, NEW v \in Vaults, NEW limit \in Nat, NEW ratio \in 1..(TotalBasisPoints - 1),
         NEW threshold \in Nat, threshold < ratio,
         UpdateConnection(v, limit, ratio, threshold)
  PROVE  /\ Connected(v) /\ ConnectionsKept
         /\ UNCHANGED <<records, balance, Elsewhere>>
         /\ UNCHANGED <<badDebtToInternalize, externalShares>>
         /\ depositsPaused' \in [Vaults -> BOOLEAN]
<1>1. PICK c : c = [connections[v] EXCEPT !.shareLimit = limit, !.reserveRatioBP = ratio,
                                          !.forcedRebalanceThresholdBP = threshold]
  OBVIOUS
<1>2. /\ Connected(v) /\ SetConnection(v, c)
      /\ UNCHANGED <<records, badDebtToInternalize, externalShares, depositsPaused,
                     balance, Elsewhere>>
  BY <1>1 DEF UpdateConnection
<1>3. connections[v] \in Connections
  BY <1>2, ConnectionParts
<1>4. ratio \in Nat
  BY HubConstants
<1>5. c \in Connections /\ c.vaultIndex = connections[v].vaultIndex /\ TermsOK(c)
  BY <1>1, <1>3, <1>4 DEF Connections, TermsOK
<1>6. ConnectionsKept
  BY <1>2, <1>5, ConnectionSet
<1>7. depositsPaused' \in [Vaults -> BOOLEAN]
  BY <1>2 DEF Inv, RestOK
<1> QED BY <1>2, <1>6, <1>7

LEMMA InvSyncTier ==
  ASSUME Inv, NEW v \in Vaults, SyncTier(v)
  PROVE  Inv'
<1>1. PICK p : p = tierParams[vaultTier[v]]
  OBVIOUS
<1>2. p \in TierParams
  BY <1>1, GridParts DEF GridTypeOK
<1>3. PICK limit : limit = connections[v].shareLimit
  OBVIOUS
<1>4. UpdateConnection(v, limit, p.reserveRatioBP, p.forcedRebalanceThresholdBP)
      /\ UNCHANGED gridVars
  BY <1>1, <1>3 DEF SyncTier
<1>5. limit \in Nat
  BY <1>3 DEF Inv, RestOK, Connections
<1>6. /\ Connected(v) /\ ConnectionsKept
      /\ UNCHANGED <<records, balance, Elsewhere>>
      /\ UNCHANGED <<badDebtToInternalize, externalShares>>
      /\ depositsPaused' \in [Vaults -> BOOLEAN]
  BY <1>2, <1>4, <1>5, ParamsParts, TermsUpdated DEF TermsOK
<1> QED BY <1>4, <1>6, TermsKeepShares

LEMMA InvShareLimit ==
  ASSUME Inv, NEW v \in Vaults, NEW n \in ShareAmounts, UpdateVaultShareLimit(v, n)
  PROVE  Inv'
<1>1. PICK ratio, threshold : ratio = connections[v].reserveRatioBP
                              /\ threshold = connections[v].forcedRebalanceThresholdBP
  OBVIOUS
<1>2. UpdateConnection(v, n, ratio, threshold) /\ UNCHANGED gridVars
  BY <1>1 DEF UpdateVaultShareLimit
<1>3. Connected(v)
  BY <1>2 DEF UpdateConnection
<1>4. n \in Nat /\ ratio \in 1..(TotalBasisPoints - 1) /\ threshold \in Nat
      /\ threshold < ratio
  BY <1>1, <1>3, ConnectionParts, HubConstants DEF Connections, TermsOK
<1>5. /\ ConnectionsKept
      /\ UNCHANGED <<records, balance, Elsewhere>>
      /\ UNCHANGED <<badDebtToInternalize, externalShares>>
      /\ depositsPaused' \in [Vaults -> BOOLEAN]
  BY <1>2, <1>4, TermsUpdated
<1> QED BY <1>2, <1>3, <1>5, TermsKeepShares

LEMMA InvChangeTier ==
  ASSUME Inv, NEW v \in Vaults, NEW t \in Tiers, NEW n \in ShareAmounts, ChangeTier(v, t, n)
  PROVE  Inv'
<1>1. PICK p : p = tierParams[t]
  OBVIOUS
<1>2. p \in TierParams
  BY <1>1, GridParts DEF GridTypeOK
<1>3. /\ UpdateConnection(v, n, p.reserveRatioBP, p.forcedRebalanceThresholdBP)
      /\ MoveToTier(v, t, n, records[v].liabilityShares)
  BY <1>1 DEF ChangeTier
<1>4. n \in Nat
  BY HubConstants
<1>5. /\ Connected(v) /\ ConnectionsKept
      /\ UNCHANGED <<records, balance, Elsewhere>>
      /\ UNCHANGED <<badDebtToInternalize, externalShares>>
      /\ depositsPaused' \in [Vaults -> BOOLEAN]
  BY <1>2, <1>3, <1>4, ParamsParts, TermsUpdated DEF TermsOK
<1>6. ListOK' /\ RecordsOK' /\ RestOK' /\ ValueOK'
  BY <1>5, TermsStep
<1>7. \A w \in Vaults : records'[w].liabilityShares = records[w].liabilityShares
  BY <1>5
<1>8. GridOK' /\ SumOf(Owed', Vaults) = SumOf(Owed, Vaults)
  BY <1>3, <1>6, <1>7, GridTierMoved
<1>9. SharesOwned'
  BY <1>5, <1>8, SharesKept DEF Elsewhere, envVars
<1> QED BY <1>6, <1>8, <1>9 DEF Inv

-----------------------------------------------------------------------------
(* Fees, disconnection and redemptions.                                    *)

\* What is locked is at least the liability.
LEMMA LockedNat ==
  ASSUME NEW n \in Nat, NEW least \in Nat, NEW ratio \in 1..(TotalBasisPoints - 1)
  PROVE  Locked(n, least, ratio) \in Nat
         /\ PooledEthBySharesRoundUp(n) <= Locked(n, least, ratio)
<1>1. PICK liability \in Nat : liability = PooledEthBySharesRoundUp(n)
  BY RoundUpNat
<1>2. PICK b \in Nat \ {0} : b = TotalBasisPoints - ratio
  BY HubConstants
<1>3. PICK p \in Nat : p = liability * ratio
  <2>1. ratio \in Nat
    BY HubConstants
  <2> QED BY <2>1, ProductNat
<1>4. PICK a \in Nat : a = p + b - 1
  BY <1>2
<1>5. PICK reserve \in Nat : reserve = CeilDiv(p, b)
  <2>1. a \div b \in Nat
    BY <1>2, QuotientNat
  <2> QED BY <1>4, <2>1 DEF CeilDiv
<1>6. PICK most : most = Max({reserve, least})
  OBVIOUS
<1>7. most \in {reserve, least}
  <2>1. reserve \in Int /\ least \in Int
    OBVIOUS
  <2> QED BY ONLY <1>6, <2>1, MaxOfTwo
<1>8. most \in Nat
  BY <1>7
<1>9. Locked(n, least, ratio) = liability + most
  BY <1>1, <1>2, <1>3, <1>5, <1>6 DEF Locked
<1> QED BY <1>1, <1>8, <1>9

LEMMA WithdrawableInt ==
  ASSUME Inv, NEW v \in Vaults, Connected(v)
  PROVE  WithdrawableFeesIncluded(v, connections[v], records[v]) \in Int
<1> DEFINE r == records[v]
           c == connections[v]
<1>1. PICK value \in Nat, b \in Nat, shares \in Nat, redeemable \in Nat, least \in Nat :
        /\ value = TotalValue(r) /\ b = balance[v] /\ shares = r.maxLiabilityShares
        /\ redeemable = r.redemptionShares /\ least = r.minimalReserve
  BY ConnectedValue, RecordOf, RecordParts DEF Inv, RestOK
<1>2. PICK ratio \in 1..(TotalBasisPoints - 1) : ratio = c.reserveRatioBP
  BY ConnectionParts
<1>3. PICK locked \in Nat : locked = LockedOf(c, r)
  BY <1>1, <1>2, LockedNat DEF LockedOf
<1>4. PICK redeemed \in Nat : redeemed = PooledEthBySharesRoundUp(redeemable)
  BY RoundUpNat
<1>5. PICK available \in Int : available = Min({b, value})
  <2>1. b \in Int /\ value \in Int
    OBVIOUS
  <2>2. Min({b, value}) \in {b, value}
    BY ONLY <2>1, MinOfTwo
  <2> QED BY <2>2
<1>6. PICK free \in Int : free = value - locked
  OBVIOUS
<1>7. PICK unlocked \in Int : unlocked = Max({0, free})
  <2>1. Max({0, free}) \in {0, free}
    BY MaxOfTwo
  <2> QED BY <2>1
<1>8. PICK spare \in Int : spare = available - redeemed
  OBVIOUS
<1>9. Min({spare, unlocked}) \in Int
  <2>1. spare \in Int /\ unlocked \in Int
    OBVIOUS
  <2>2. Min({spare, unlocked}) \in {spare, unlocked}
    BY ONLY <2>1, MinOfTwo
  <2> QED BY <2>2
<1>10. WithdrawableFeesIncluded(v, c, r) = IF redeemed > available THEN 0 ELSE Min({spare, unlocked})
  BY <1>1, <1>3, <1>4, <1>5, <1>6, <1>7, <1>8 DEF WithdrawableFeesIncluded
<1> QED BY <1>9, <1>10

LEMMA UnsettledNat ==
  ASSUME Inv, NEW v \in Vaults
  PROVE  UnsettledLidoFees(records[v]) \in Nat
<1>1. /\ records[v].cumulativeLidoFees \in Nat /\ records[v].settledLidoFees \in Nat
      /\ records[v].settledLidoFees <= records[v].cumulativeLidoFees
  BY RecordOf, RecordParts
<1> QED BY <1>1 DEF UnsettledLidoFees

\* _settleLidoFees.
LEMMA FeesPaid ==
  ASSUME Inv, NEW v \in Vaults, Connected(v), NEW n \in Nat,
         n <= UnsettledLidoFees(records[v]), PayFees(v, connections[v], n), ConnectionsKept,
         UNCHANGED <<badDebtToInternalize, externalShares>>, UNCHANGED gridVars,
         UNCHANGED Elsewhere
  PROVE  Inv'
<1>1. PICK d \in Int : d = -n
  OBVIOUS
<1>2. PICK r : r = FeesSettled(records[v], n)
  OBVIOUS
<1>3. /\ SetRecord(v, r) /\ balance' = [balance EXCEPT ![v] = @ - n]
      /\ n <= TotalValue(records[v]) /\ n <= balance[v]
      /\ UpdateDepositsPause(v, connections[v], r)
  BY <1>2 DEF PayFees, CanWithdraw
<1>4. /\ GoodRecord(r) /\ SameValue(r, records[v])
      /\ r.inOutDelta = WithDoubleIncrease(records[v].inOutDelta, RefSlot, d)
      /\ r.liabilityShares = records[v].liabilityShares
  BY <1>1, <1>2, StoredGood, FeesUp
<1>5. balance[v] \in Nat /\ TotalValue(records[v]) \in Nat
  BY ConnectedValue DEF Inv, RestOK
<1>6. RecordChanges(v, r, d)
  <2>1. TotalValue(records[v]) + d >= 0
    BY <1>1, <1>3, <1>5
  <2> QED BY <1>3, <1>4, <2>1 DEF RecordChanges
<1>7. balance[v] + d >= 0 /\ balance' = [balance EXCEPT ![v] = @ + d]
  <2>1. balance[v] + d = balance[v] - n /\ balance[v] + d >= 0
    BY <1>1, <1>3, <1>5
  <2> QED BY <1>3, <2>1
<1>8. depositsPaused' \in [Vaults -> BOOLEAN]
  BY <1>3, PauseTyped
<1>9. ListOK' /\ RecordsOK' /\ RestOK' /\ ValueOK'
  BY <1>6, <1>7, <1>8, VaultStep
<1>10. GridOK' /\ SumOf(Owed', Vaults) = SumOf(Owed, Vaults)
  BY <1>3, <1>4, <1>9, CountsUnmoved
<1>11. SharesOwned'
  BY <1>10, SharesKept DEF Elsewhere, envVars
<1> QED BY <1>9, <1>10, <1>11 DEF Inv

LEMMA InvSettleFees ==
  ASSUME Inv, NEW v \in Vaults, SettleLidoFees(v)
  PROVE  Inv'
<1>1. PICK n : /\ n = Min({WithdrawableFeesIncluded(v, connections[v], records[v]),
                            UnsettledLidoFees(records[v])})
               /\ n > 0 /\ Connected(v) /\ PayFees(v, connections[v], n)
               /\ UNCHANGED <<connections, badDebtToInternalize, externalShares, gridVars,
                              Elsewhere>>
  BY DEF SettleLidoFees, InUse
<1>2. PICK most \in Int : most = WithdrawableFeesIncluded(v, connections[v], records[v])
  BY <1>1, WithdrawableInt
<1>3. PICK unsettled \in Nat : unsettled = UnsettledLidoFees(records[v])
  BY UnsettledNat
<1>4. n \in {most, unsettled} /\ n <= unsettled
  <2>1. most \in Int /\ unsettled \in Int /\ n = Min({most, unsettled})
    BY <1>1, <1>2, <1>3
  <2> QED BY ONLY <2>1, MinOfTwo
<1>5. n \in Nat
  BY <1>1, <1>4
<1>6. ConnectionsKept
  BY <1>1, UnchangedConnections
<1>7. UNCHANGED <<badDebtToInternalize, externalShares>> /\ UNCHANGED gridVars
        /\ UNCHANGED Elsewhere
  BY <1>1
<1> QED BY <1>1, <1>3, <1>4, <1>5, <1>6, <1>7, FeesPaid

LEMMA InvDisconnection ==
  ASSUME Inv, NEW v \in Vaults, NEW full \in BOOLEAN, InitiateDisconnection(v, full)
  PROVE  Inv'
<1>1. PICK n : /\ n = Min({Min({balance[v], TotalValue(records[v])}),
                            UnsettledLidoFees(records[v])})
               /\ IF n > 0 THEN PayFees(v, connections[v], n)
                  ELSE UNCHANGED <<records, balance, depositsPaused>>
  BY DEF InitiateDisconnection
<1>2. PICK c : c = [connections[v] EXCEPT !.disconnectInitiatedTs = now]
  OBVIOUS
<1>3. /\ Connected(v) /\ SetConnection(v, c)
      /\ UNCHANGED <<badDebtToInternalize, externalShares>> /\ UNCHANGED gridVars
      /\ UNCHANGED Elsewhere
  BY <1>2 DEF InitiateDisconnection, InUse
<1>4. ConnectionsKept
  <2>1. now \in Nat
    BY DEF Inv, RestOK
  <2>2. c \in Connections /\ c.vaultIndex = connections[v].vaultIndex
        /\ TermsOK(c)
    BY <1>2, <1>3, <2>1, ConnectionParts DEF Connections, TermsOK
  <2> QED BY <1>3, <2>2, ConnectionSet
<1>5. PICK available \in Int : available = Min({balance[v], TotalValue(records[v])})
  <2>1. PICK b \in Nat, value \in Nat : b = balance[v] /\ value = TotalValue(records[v])
    BY <1>3, ConnectedValue DEF Inv, RestOK
  <2>2. b \in Int /\ value \in Int
    OBVIOUS
  <2>3. Min({b, value}) \in {b, value}
    BY ONLY <2>2, MinOfTwo
  <2>4. Min({b, value}) \in Int
    BY <2>3
  <2> QED BY <2>1, <2>4
<1>6. PICK unsettled \in Nat : unsettled = UnsettledLidoFees(records[v])
  BY UnsettledNat
<1>7. n \in {available, unsettled} /\ n <= unsettled
  <2>1. available \in Int /\ unsettled \in Int /\ n = Min({available, unsettled})
    BY <1>1, <1>5, <1>6
  <2> QED BY ONLY <2>1, MinOfTwo
<1>8. CASE n > 0
  <2>1. n \in Nat /\ PayFees(v, connections[v], n)
    BY <1>1, <1>7, <1>8
  <2> QED BY <1>3, <1>4, <1>6, <1>7, <2>1, FeesPaid
<1>9. CASE ~ (n > 0)
  <2>1. UNCHANGED <<records, balance, Elsewhere>> /\ UNCHANGED depositsPaused
    BY <1>1, <1>3, <1>9
  <2>2. depositsPaused' \in [Vaults -> BOOLEAN]
    BY <2>1 DEF Inv, RestOK
  <2> QED BY <1>3, <1>4, <2>1, <2>2, TermsKeepShares
<1> QED BY <1>8, <1>9

LEMMA InvTarget ==
  ASSUME Inv, NEW v \in Vaults, NEW target \in Targets, SetLiabilitySharesTarget(v, target)
  PROVE  Inv'
<1>1. PICK left \in Int : left = records[v].liabilityShares - target
  BY RecordOf, RecordParts, HubConstants
<1>2. PICK redeemed : redeemed = Max({0, left})
  OBVIOUS
<1>3. redeemed \in {0, left} /\ 0 <= redeemed
  <2>1. 0 \in Int /\ left \in Int
    OBVIOUS
  <2> QED BY ONLY <1>2, <2>1, MaxOfTwo
<1>4. /\ records[v].liabilityShares \in Nat /\ target \in Nat
      /\ redeemed \in Nat /\ redeemed <= records[v].liabilityShares
  BY <1>1, <1>3, RecordOf, RecordParts, HubConstants
<1>5. PICK r : r = [records[v] EXCEPT !.redemptionShares = redeemed]
  OBVIOUS
<1>6. /\ Connected(v) /\ SetRecord(v, r) /\ UpdateDepositsPause(v, connections[v], r)
      /\ UNCHANGED <<connections, badDebtToInternalize, externalShares, gridVars,
                     balance, Elsewhere>>
  BY <1>1, <1>2, <1>5 DEF SetLiabilitySharesTarget, InUse
<1>7. /\ r \in Records /\ SameValue(r, records[v]) /\ r.inOutDelta = records[v].inOutDelta
      /\ r.liabilityShares = records[v].liabilityShares /\ r.redemptionShares = redeemed
      /\ r.maxLiabilityShares = records[v].maxLiabilityShares
      /\ r.settledLidoFees = records[v].settledLidoFees
      /\ r.cumulativeLidoFees = records[v].cumulativeLidoFees
  BY <1>4, <1>5, RecordOf DEF Records, SameValue
<1>8. GoodRecord(r)
  BY <1>4, <1>7, StoredGood DEF GoodRecord
<1>9. ListOK' /\ RecordsOK' /\ RestOK' /\ ValueOK'
  <2>1. ConnectionsKept
    BY <1>6, UnchangedConnections
  <2>2. UNCHANGED Elsewhere /\ UNCHANGED balance
    BY <1>6
  <2>3. depositsPaused' \in [Vaults -> BOOLEAN]
    BY <1>6, PauseTyped
  <2> QED BY <1>6, <1>7, <1>8, <2>1, <2>2, <2>3, VaultStepStill
<1>10. GridOK' /\ SumOf(Owed', Vaults) = SumOf(Owed, Vaults)
  BY <1>6, <1>7, <1>9, CountsUnmoved
<1>11. SharesOwned'
  BY <1>6, <1>10, SharesKept DEF Elsewhere, envVars
<1> QED BY <1>9, <1>10, <1>11 DEF Inv

-----------------------------------------------------------------------------
(* Bad debt.                                                               *)

LEMMA SharesOfEther ==
  ASSUME NEW ether \in Nat
  PROVE  SharesByPooledEth(ether) \in Nat
         /\ RateEther * SharesByPooledEth(ether) <= ether * RateShares
<1> DEFINE p == ether * RateShares
<1>1. p \in Nat /\ RateEther \in Nat \ {0}
  BY HubConstants, ProductNat
<1> HIDE DEF p
<1>2. p \div RateEther \in Nat /\ RateEther * (p \div RateEther) <= p
  BY <1>1, QuotientNat
<1> QED BY <1>2 DEF SharesByPooledEth, p

LEMMA BadDebtParts ==
  ASSUME Inv, NEW v \in Vaults, Connected(v)
  PROVE  BadDebtShares(records[v]) \in 0..records[v].liabilityShares
<1>1. PICK owed \in Nat, value \in Nat :
        owed = records[v].liabilityShares /\ value = TotalValue(records[v])
  BY ConnectedValue, RecordOf, RecordParts
<1>2. PICK covered \in Nat : covered = SharesByPooledEth(value)
  BY SharesOfEther
<1>3. PICK short \in Int : short = owed - covered
  OBVIOUS
<1>4. PICK bad : bad = Max({0, short})
  OBVIOUS
<1>5. bad \in {0, short} /\ 0 <= bad
  <2>1. 0 \in Int /\ short \in Int
    OBVIOUS
  <2> QED BY ONLY <1>4, <2>1, MaxOfTwo
<1>6. bad \in 0..owed
  BY <1>3, <1>5
<1> QED BY <1>1, <1>2, <1>3, <1>4, <1>6 DEF BadDebtShares

\* What an acceptor may take over leaves it without bad debt.
LEMMA CapacityParts ==
  ASSUME Inv, NEW v \in Vaults, Connected(v)
  PROVE  /\ AcceptorCapacity(v) \in Nat
         /\ AcceptorCapacity(v) > 0 =>
              AcceptorCapacity(v) = SharesByPooledEth(TotalValue(records[v]))
                                      - records[v].liabilityShares
<1>1. PICK owed \in Nat, value \in Nat :
        owed = records[v].liabilityShares /\ value = TotalValue(records[v])
  BY ConnectedValue, RecordOf, RecordParts
<1>2. PICK covered \in Nat : covered = SharesByPooledEth(value)
  BY SharesOfEther
<1>3. PICK room \in Int : room = covered - owed
  OBVIOUS
<1>4. PICK capacity : capacity = Max({0, room})
  OBVIOUS
<1>5. capacity \in {0, room} /\ 0 <= capacity
  <2>1. 0 \in Int /\ room \in Int
    OBVIOUS
  <2> QED BY ONLY <1>4, <2>1, MaxOfTwo
<1>6. capacity \in Nat /\ (capacity > 0 => capacity = room)
  BY <1>5
<1> QED BY <1>1, <1>2, <1>3, <1>4, <1>6 DEF AcceptorCapacity

LEMMA MinOfThree ==
  ASSUME NEW a \in Int, NEW b \in Int, NEW c \in Int
  PROVE  /\ Min({a, b, c}) \in {a, b, c}
         /\ Min({a, b, c}) <= a /\ Min({a, b, c}) <= b /\ Min({a, b, c}) <= c
<1>1. \E x \in {a, b, c} : \A y \in {a, b, c} : x <= y
  OBVIOUS
<1> QED BY <1>1 DEF Min

LEMMA InvInternalize ==
  ASSUME Inv, NEW v \in Vaults, NEW k \in ShareAmounts, InternalizeBadDebt(v, k)
  PROVE  Inv'
<1> DEFINE cache == badDebtToInternalize
<1>1. PICK n : /\ n = Min({BadDebtShares(records[v]), k})
               /\ n > 0 /\ Connected(v)
               /\ SetRecord(v, LiabilityDecreased(records[v], n))
               /\ ChangeLiability(v, -n)
               /\ badDebtToInternalize' = WithValueIncrease(badDebtToInternalize, RefSlot, n)
               /\ UNCHANGED <<connections, externalShares, depositsPaused, balance, Elsewhere>>
  BY DEF InternalizeBadDebt
<1>2. PICK bad \in Nat : bad = BadDebtShares(records[v]) /\ bad <= records[v].liabilityShares
  BY <1>1, BadDebtParts, RecordOf, RecordParts
<1>3. n \in {bad, k} /\ n <= bad /\ k \in Nat
  <2>1. bad \in Int /\ k \in Int /\ n = Min({bad, k})
    BY <1>1, <1>2, HubConstants
  <2>2. n \in {bad, k} /\ n <= bad
    BY ONLY <2>1, MinOfTwo
  <2> QED BY <2>2, HubConstants
<1>4. n \in Nat /\ n <= records[v].liabilityShares /\ records[v].liabilityShares \in Nat
  BY <1>2, <1>3, RecordOf, RecordParts
<1>5. PICK r : r = LiabilityDecreased(records[v], n)
  OBVIOUS
<1>6. PICK d \in Int : d = -n
  BY <1>4
<1>7. /\ GoodRecord(r) /\ SameValue(r, records[v]) /\ r.inOutDelta = records[v].inOutDelta
      /\ r.liabilityShares = records[v].liabilityShares - n
  BY <1>4, <1>5, StoredGood, LiabilityDown
<1>8. SetRecord(v, r) /\ ChangeLiability(v, d)
  BY <1>1, <1>5, <1>6
<1>9. ListOK' /\ RecordsOK' /\ RestOK' /\ ValueOK'
  <2>1. ConnectionsKept
    BY <1>1, UnchangedConnections
  <2>2. UNCHANGED Elsewhere /\ UNCHANGED balance /\ depositsPaused' \in [Vaults -> BOOLEAN]
    BY <1>1 DEF Inv, RestOK
  <2> QED BY <1>1, <1>7, <1>8, <2>1, <2>2, VaultStepStill
<1>10. r.liabilityShares = records[v].liabilityShares + d
  BY <1>4, <1>6, <1>7
<1>11. GridOK' /\ SumOf(Owed', Vaults) = SumOf(Owed, Vaults) + d
  BY <1>8, <1>9, <1>10, CountsMoved
<1>12. SharesOwned'
  <2>1. /\ cache \in [value : Nat, valueOnRefSlot : Nat, refSlot : Nat]
        /\ cache.value \in Nat /\ cache.valueOnRefSlot \in Nat /\ cache.refSlot \in Nat
        /\ externalShares = SumOf(Owed, Vaults) + cache.value
        /\ vaultsData.refSlot < RefSlot => ValueForLastRefSlot(cache, RefSlot) <= cache.value
    BY DEF Inv, SharesOwned
  <2>2. PICK slot \in Nat : slot = RefSlot /\ vaultsData.refSlot \in Nat
    BY SlotParts DEF Inv
  <2>3. RefSlot' = RefSlot /\ UNCHANGED <<vaultsData, externalShares>>
    BY <1>1 DEF Elsewhere, envVars, RefSlot
  <2>4. cache' = WithValueIncrease(cache, slot, n)
    BY <1>1, <2>2
  <2>5. /\ cache' \in [value : Nat, valueOnRefSlot : Nat, refSlot : Nat]
        /\ cache'.value = cache.value + n
        /\ cache'.refSlot = slot
        /\ cache'.valueOnRefSlot = ValueForLastRefSlot(cache, slot)
    <3>1. CASE cache.refSlot # slot
      BY <1>4, <2>1, <2>4, <3>1 DEF WithValueIncrease, ValueForLastRefSlot
    <3>2. CASE cache.refSlot = slot
      BY <1>4, <2>1, <2>4, <3>2 DEF WithValueIncrease, ValueForLastRefSlot
    <3> QED BY <3>1, <3>2
  <2>6. SumOf(Owed, Vaults) \in Nat
    BY GridParts, PartSums
  <2>7. externalShares' = SumOf(Owed', Vaults) + cache'.value
    BY <1>4, <1>6, <1>11, <2>1, <2>3, <2>5, <2>6
  <2>8. ValueForLastRefSlot(cache', slot) = ValueForLastRefSlot(cache, slot)
          /\ ValueForLastRefSlot(cache, slot) \in Nat
    BY <2>1, <2>5 DEF ValueForLastRefSlot
  <2>9. vaultsData.refSlot < slot => ValueForLastRefSlot(cache', slot) <= cache'.value
    BY <1>4, <2>1, <2>2, <2>5, <2>8
  <2>10. RefSlot' = slot /\ vaultsData' = vaultsData /\ slot <= slot
    BY <2>2, <2>3
  <2> HIDE DEF cache
  <2> QED BY <2>5, <2>7, <2>9, <2>10 DEF SharesOwned, cache
<1> QED BY <1>9, <1>11, <1>12 DEF Inv

LEMMA InvSocialize ==
  ASSUME Inv, NEW v \in Vaults, NEW w \in Vaults, NEW k \in ShareAmounts,
         SocializeBadDebt(v, w, k)
  PROVE  Inv'
<1>1. PICK n : /\ n = Min({BadDebtShares(records[v]), k, AcceptorCapacity(w)})
               /\ n > 0 /\ v # w /\ Connected(v) /\ Connected(w)
               /\ records' = [records EXCEPT ![v] = LiabilityDecreased(records[v], n),
                                             ![w] = LiabilityIncreased(records[w], n)]
               /\ MoveLiability(v, w, n)
               /\ UpdateDepositsPause(w, connections[w], LiabilityIncreased(records[w], n))
               /\ UNCHANGED <<connections, badDebtToInternalize, externalShares, balance,
                              Elsewhere>>
  BY DEF SocializeBadDebt
<1>2. PICK bad \in Nat, capacity \in Nat :
        /\ bad = BadDebtShares(records[v]) /\ bad <= records[v].liabilityShares
        /\ capacity = AcceptorCapacity(w)
  BY <1>1, BadDebtParts, CapacityParts, RecordOf, RecordParts
<1>3. n \in Nat /\ n <= records[v].liabilityShares
  <2>1. bad \in Int /\ k \in Int /\ capacity \in Int /\ n = Min({bad, k, capacity})
    BY <1>1, <1>2, HubConstants
  <2>2. n \in {bad, k, capacity} /\ n <= bad
    BY ONLY <2>1, MinOfThree
  <2> QED BY <1>2, <2>2, HubConstants, RecordOf, RecordParts
<1>4. PICK down, up : down = LiabilityDecreased(records[v], n)
                      /\ up = LiabilityIncreased(records[w], n)
  OBVIOUS
<1>5. /\ GoodRecord(down) /\ SameValue(down, records[v])
      /\ down.inOutDelta = records[v].inOutDelta
      /\ down.liabilityShares = records[v].liabilityShares - n
  BY <1>3, <1>4, StoredGood, LiabilityDown
<1>6. /\ GoodRecord(up) /\ SameValue(up, records[w]) /\ up.inOutDelta = records[w].inOutDelta
      /\ up.liabilityShares = records[w].liabilityShares + n
  BY <1>3, <1>4, StoredGood, LiabilityUp
<1>7. /\ records' \in [Vaults -> Records] /\ records'[v] = down /\ records'[w] = up
      /\ \A x \in Vaults : x \notin {v, w} => records'[x] = records[x]
  <2>1. records' = [records EXCEPT ![v] = down, ![w] = up]
    BY <1>1, <1>4
  <2>2. records \in [Vaults -> Records] /\ down \in Records /\ up \in Records
    BY <1>5, <1>6 DEF Inv, RecordsOK, GoodRecord
  <2> QED BY <1>1, <2>1, <2>2
<1>8. UNCHANGED <<vaults, quarantines, vaultsData, ownedByHub, clBalance, snapshot,
                  feesAccrued, now, losses, lossesReported, balance, connections>>
  BY <1>1 DEF Elsewhere, envVars, lossVars
<1>9. RecordsOK'
  <2>1. \A x \in Vaults : GoodRecord(records'[x])
    BY <1>5, <1>6, <1>7, StoredGood
  <2>2. RefSlot' = RefSlot
    BY <1>8 DEF RefSlot
  <2> QED BY <1>7, <2>1, <2>2 DEF RecordsOK, RecordsConsistent, GoodRecord
<1>10. ListOK'
  BY <1>8, ListKept
<1>11. RestOK'
  <2>1. depositsPaused' \in [Vaults -> BOOLEAN]
    BY <1>1, PauseTyped
  <2>2. ConnectionsKept
    BY <1>1, UnchangedConnections
  <2>3. RatiosOK' /\ connections' \in [Vaults -> Connections]
    BY <2>2 DEF ConnectionsKept
  <2>4. RestOK
    BY DEF Inv
  <2>5. OthersOweNothing'
    BY <1>1, <1>7, <1>8, <2>4 DEF RestOK, OthersOweNothing, Connected
  <2> QED BY <1>8, <2>1, <2>3, <2>4, <2>5 DEF RestOK, RefSlot
<1>12. ASSUME NEW x \in Vaults, Connected(x)'
       PROVE  /\ Connected(x)
              /\ \E d \in Int : MovedBy(x, d) /\ TotalValue(records[x]) + d >= 0
  <2>1. Connected(x)
    BY <1>8, <1>12 DEF Connected
  <2>2. SameValue(records'[x], records[x]) /\ records'[x].inOutDelta = records[x].inOutDelta
    BY <1>5, <1>6, <1>7 DEF SameValue
  <2>3. Backing(x)' >= Backing(x) + 0
    BY <1>8 DEF Backing, Inv, RestOK
  <2>4. MovedBy(x, 0)
    BY <2>2, <2>3 DEF MovedBy, SameValue
  <2>5. TotalValue(records[x]) + 0 >= 0
    BY <2>1, ConnectedValue
  <2> QED BY <2>1, <2>4, <2>5
<1>13. ValueOK'
  BY <1>8, <1>11, <1>12, ValueMoved
<1>14. GridOK' /\ SumOf(Owed', Vaults) = SumOf(Owed, Vaults)
  <2>1. \A x \in Vaults : x \notin {v, w} =>
          records'[x].liabilityShares = records[x].liabilityShares
    BY <1>7
  <2> QED BY <1>1, <1>3, <1>5, <1>6, <1>7, <1>9, <2>1, GridMoved
<1>15. SharesOwned'
  BY <1>1, <1>8, <1>14, SharesKept
<1> QED BY <1>9, <1>10, <1>11, <1>13, <1>14, <1>15 DEF Inv

-----------------------------------------------------------------------------
(* Owners of vaults that are not connected, the administration of the grid *)
(* and the consensus layer: no record, connection or slot changes.         *)

LEMMA EtherMoves ==
  ASSUME Inv,
         UNCHANGED hubVars, UNCHANGED <<quarantines, vaultsData, snapshot, feesAccrued, now>>,
         UNCHANGED lossesReported, UNCHANGED <<tierLiability, groupLiability, vaultTier>>,
         tierParams' \in [Tiers -> TierParams], groupLimit' \in [Operators -> GroupLimits],
         isVaultInJail' \in [Vaults -> BOOLEAN],
         ownedByHub' \in [Vaults -> BOOLEAN], depositsPaused' \in [Vaults -> BOOLEAN],
         \A v \in Vaults : Connected(v) => ownedByHub'[v],
         balance' \in [Vaults -> Nat], clBalance' \in [Vaults -> Nat],
         losses' \in [Vaults -> Nat],
         \A v \in Vaults : Connected(v) =>
           Backing(v)' = Backing(v) \/ Backing(v)' = Backing(v) + 1
  PROVE  Inv'
<1>1. UNCHANGED <<vaults, connections, records, badDebtToInternalize, externalShares>>
  BY DEF hubVars
<1>2. \A v \in Vaults : Connected(v)' <=> Connected(v)
  BY <1>1 DEF Connected
<1>3. ListOK'
  BY <1>1, <1>2 DEF Inv, ListOK, VaultsIndexed
<1>4. RecordsOK'
  BY <1>1, RecordsKept
<1>5. RestOK'
  BY <1>1, <1>2 DEF Inv, RestOK, RatiosOK, OthersOweNothing, RefSlot
<1>6. ASSUME NEW v \in Vaults, Connected(v)'
      PROVE  /\ Connected(v)
             /\ \E d \in Int : MovedBy(v, d) /\ TotalValue(records[v]) + d >= 0
  <2>1. Connected(v)
    BY <1>2, <1>6
  <2>2. Backing(v)' >= Backing(v) + 0
    BY <2>1 DEF Backing, Inv, RestOK
  <2>3. MovedBy(v, 0)
    BY <1>1, <2>2 DEF MovedBy
  <2>4. TotalValue(records[v]) + 0 >= 0
    BY <2>1, ConnectedValue
  <2> QED BY <2>1, <2>3, <2>4
<1>7. ValueOK'
  BY <1>5, <1>6, ValueMoved
<1>8. GridOK' /\ SumOf(Owed', Vaults) = SumOf(Owed, Vaults)
  BY <1>1, <1>4, GridKept
<1>9. SharesOwned'
  BY <1>1, <1>8, SharesKept
<1> QED BY <1>3, <1>4, <1>5, <1>7, <1>8, <1>9 DEF Inv

LEMMA OthersTyped ==
  ASSUME Inv
  PROVE  /\ tierParams \in [Tiers -> TierParams] /\ groupLimit \in [Operators -> GroupLimits]
         /\ isVaultInJail \in [Vaults -> BOOLEAN]
         /\ ownedByHub \in [Vaults -> BOOLEAN] /\ depositsPaused \in [Vaults -> BOOLEAN]
         /\ \A v \in Vaults : Connected(v) => ownedByHub[v]
         /\ balance \in [Vaults -> Nat] /\ clBalance \in [Vaults -> Nat]
         /\ losses \in [Vaults -> Nat]
BY DEF Inv, ListOK, GridOK, GridTypeOK, RestOK

LEMMA InvAccept ==
  ASSUME Inv, NEW v \in Vaults, AcceptOwnership(v)
  PROVE  Inv'
<1>1. /\ ~Connected(v) /\ ownedByHub' = [ownedByHub EXCEPT ![v] = FALSE]
      /\ UNCHANGED hubVars
      /\ UNCHANGED <<quarantines, vaultsData, snapshot, feesAccrued, now>>
      /\ UNCHANGED lossesReported /\ UNCHANGED <<tierLiability, groupLiability, vaultTier>>
      /\ UNCHANGED <<tierParams, groupLimit, isVaultInJail>>
      /\ UNCHANGED <<depositsPaused, balance, clBalance, losses>>
  BY DEF AcceptOwnership, envVars, lossVars, gridVars, gridParamVars
<1>2. ownedByHub' \in [Vaults -> BOOLEAN] /\ \A w \in Vaults : Connected(w) => ownedByHub'[w]
  BY <1>1, OthersTyped
<1>3. \A w \in Vaults : Backing(w)' = Backing(w)
  BY <1>1 DEF Backing
<1> QED BY <1>1, <1>2, <1>3, OthersTyped, EtherMoves

LEMMA InvOwnVault ==
  ASSUME Inv, NEW v \in Vaults, UseOwnVault(v)
  PROVE  Inv'
<1>1. /\ ~Connected(v)
      /\ UNCHANGED hubVars
      /\ UNCHANGED <<quarantines, vaultsData, snapshot, feesAccrued, now>>
      /\ UNCHANGED lossesReported /\ UNCHANGED <<tierLiability, groupLiability, vaultTier>>
      /\ UNCHANGED <<tierParams, groupLimit, isVaultInJail>>
      /\ UNCHANGED <<ownedByHub, clBalance, losses>>
  BY OthersTyped DEF UseOwnVault, envVars, lossVars, gridVars, gridParamVars
<1>2. /\ balance' \in [Vaults -> Nat] /\ depositsPaused' \in [Vaults -> BOOLEAN]
      /\ \A w \in Vaults : w # v => balance'[w] = balance[w]
  <2>1. CASE \E n \in Amounts :
               /\ \/ balance' = [balance EXCEPT ![v] = @ + n]
                  \/ n <= balance[v] /\ balance' = [balance EXCEPT ![v] = @ - n]
               /\ UNCHANGED depositsPaused
    <3>1. PICK n \in Amounts :
               /\ \/ balance' = [balance EXCEPT ![v] = @ + n]
                  \/ n <= balance[v] /\ balance' = [balance EXCEPT ![v] = @ - n]
               /\ UNCHANGED depositsPaused
      BY <2>1
    <3>2. n \in Nat /\ balance[v] \in Nat
      BY HubConstants, OthersTyped
    <3>3. PICK b \in Nat : balance' = [balance EXCEPT ![v] = b]
      BY <3>1, <3>2
    <3> QED BY <3>1, <3>3, OthersTyped
  <2>2. CASE /\ depositsPaused' = [depositsPaused EXCEPT ![v] = ~@]
             /\ UNCHANGED balance
    BY <2>2, OthersTyped
  <2> QED BY <2>1, <2>2 DEF UseOwnVault
<1>3. \A w \in Vaults : Connected(w) => Backing(w)' = Backing(w)
  BY <1>1, <1>2 DEF Backing
<1> QED BY <1>1, <1>2, <1>3, OthersTyped, EtherMoves

LEMMA InvAdminister ==
  ASSUME Inv, AdministerGrid
  PROVE  Inv'
<1>1. /\ UNCHANGED hubVars
      /\ UNCHANGED <<quarantines, vaultsData, snapshot, feesAccrued, now>>
      /\ UNCHANGED lossesReported
      /\ UNCHANGED <<ownedByHub, depositsPaused, balance, clBalance, losses>>
  BY DEF AdministerGrid, vaultVars, envVars, lossVars
<1>2. /\ UNCHANGED <<tierLiability, groupLiability, vaultTier>>
      /\ tierParams' \in [Tiers -> TierParams] /\ groupLimit' \in [Operators -> GroupLimits]
      /\ isVaultInJail' \in [Vaults -> BOOLEAN]
  <2>1. CASE \E t \in Tiers, p \in TierParams : AlterTier(t, p)
    BY <2>1, OthersTyped DEF AlterTier
  <2>2. CASE \E o \in Operators, limit \in GroupLimits : UpdateGroupShareLimit(o, limit)
    BY <2>2, OthersTyped DEF UpdateGroupShareLimit
  <2>3. CASE \E v \in Jailable : SetVaultJailStatus(v)
    BY <2>3, OthersTyped DEF SetVaultJailStatus
  <2> QED BY <2>1, <2>2, <2>3 DEF AdministerGrid
<1>3. \A w \in Vaults : Backing(w)' = Backing(w)
  BY <1>1 DEF Backing
<1> QED BY <1>1, <1>2, <1>3, OthersTyped, EtherMoves

LEMMA InvMoveCl ==
  ASSUME Inv, NEW v \in Vaults, MoveClEther(v)
  PROVE  Inv'
<1>1. /\ UNCHANGED hubVars
      /\ UNCHANGED <<quarantines, vaultsData, snapshot, feesAccrued, now>>
      /\ UNCHANGED lossesReported /\ UNCHANGED <<tierLiability, groupLiability, vaultTier>>
      /\ UNCHANGED <<tierParams, groupLimit, isVaultInJail>>
      /\ UNCHANGED <<ownedByHub, depositsPaused, losses>>
  BY DEF MoveClEther, lossVars, gridVars, gridParamVars
<1>2. PICK b \in Nat, c \in Nat :
        /\ balance' = [balance EXCEPT ![v] = b] /\ clBalance' = [clBalance EXCEPT ![v] = c]
        /\ b + c = balance[v] + clBalance[v]
  <2>1. balance[v] \in Nat /\ clBalance[v] \in Nat
    BY OthersTyped
  <2>2. CASE /\ balance[v] > 0
             /\ balance' = [balance EXCEPT ![v] = @ - 1]
             /\ clBalance' = [clBalance EXCEPT ![v] = @ + 1]
    <3>1. PICK b \in Nat, c \in Nat : b = balance[v] - 1 /\ c = clBalance[v] + 1
      BY <2>1, <2>2
    <3>2. balance' = [balance EXCEPT ![v] = b] /\ clBalance' = [clBalance EXCEPT ![v] = c]
      BY <2>2, <3>1
    <3>3. b + c = balance[v] + clBalance[v]
      BY <2>1, <3>1
    <3> QED BY <3>2, <3>3
  <2>3. CASE /\ clBalance[v] > 0
             /\ balance' = [balance EXCEPT ![v] = @ + 1]
             /\ clBalance' = [clBalance EXCEPT ![v] = @ - 1]
    <3>1. PICK b \in Nat, c \in Nat : b = balance[v] + 1 /\ c = clBalance[v] - 1
      BY <2>1, <2>3
    <3>2. balance' = [balance EXCEPT ![v] = b] /\ clBalance' = [clBalance EXCEPT ![v] = c]
      BY <2>3, <3>1
    <3>3. b + c = balance[v] + clBalance[v]
      BY <2>1, <3>1
    <3> QED BY <3>2, <3>3
  <2> QED BY <2>2, <2>3 DEF MoveClEther
<1>3. balance' \in [Vaults -> Nat] /\ clBalance' \in [Vaults -> Nat]
  BY <1>2, OthersTyped
<1>4. \A w \in Vaults : balance'[w] + clBalance'[w] = balance[w] + clBalance[w]
  BY <1>2, OthersTyped
<1>5. \A w \in Vaults : Backing(w)' = Backing(w)
  BY <1>1, <1>4 DEF Backing
<1> QED BY <1>1, <1>3, <1>5, OthersTyped, EtherMoves

LEMMA InvChangeCl ==
  ASSUME Inv, NEW v \in Vaults, ChangeClEther(v)
  PROVE  Inv'
<1>1. /\ UNCHANGED hubVars
      /\ UNCHANGED <<quarantines, vaultsData, snapshot, feesAccrued, now>>
      /\ UNCHANGED lossesReported /\ UNCHANGED <<tierLiability, groupLiability, vaultTier>>
      /\ UNCHANGED <<tierParams, groupLimit, isVaultInJail>>
      /\ UNCHANGED <<ownedByHub, depositsPaused, balance>>
  BY DEF ChangeClEther, vaultVars, gridVars, gridParamVars
<1>2. PICK c \in Nat, l \in Nat :
        /\ clBalance' = [clBalance EXCEPT ![v] = c] /\ losses' = [losses EXCEPT ![v] = l]
        /\ \/ c + l = clBalance[v] + losses[v]
           \/ c + l = clBalance[v] + losses[v] + 1
  <2>1. clBalance[v] \in Nat /\ losses[v] \in Nat /\ losses \in [Vaults -> Nat]
    BY OthersTyped
  <2>2. CASE /\ clBalance' = [clBalance EXCEPT ![v] = @ + 1]
             /\ UNCHANGED losses
    <3>1. losses' = [losses EXCEPT ![v] = losses[v]]
      BY <2>1, <2>2
    <3> QED BY <2>1, <2>2, <3>1
  <2>3. CASE /\ clBalance[v] > 0
             /\ clBalance' = [clBalance EXCEPT ![v] = @ - 1]
             /\ losses' = [losses EXCEPT ![v] = @ + 1]
    <3>1. PICK b \in Nat, c \in Nat : b = clBalance[v] - 1 /\ c = losses[v] + 1
      BY <2>1, <2>3
    <3>2. clBalance' = [clBalance EXCEPT ![v] = b] /\ losses' = [losses EXCEPT ![v] = c]
      BY <2>3, <3>1
    <3>3. b + c = clBalance[v] + losses[v]
      BY <2>1, <3>1
    <3> QED BY <3>2, <3>3
  <2> QED BY <2>2, <2>3 DEF ChangeClEther
<1>3. clBalance' \in [Vaults -> Nat] /\ losses' \in [Vaults -> Nat]
  BY <1>2, OthersTyped
<1>4. ASSUME NEW w \in Vaults
      PROVE  Backing(w)' = Backing(w) \/ Backing(w)' = Backing(w) + 1
  <2>1. /\ balance[w] \in Nat /\ clBalance[w] \in Nat /\ losses[w] \in Nat
        /\ balance'[w] = balance[w]
    BY <1>1, OthersTyped
  <2>2. CASE w = v
    <3>1. clBalance'[w] = c /\ losses'[w] = l
      BY <1>2, <2>2, OthersTyped
    <3> QED BY <1>2, <2>1, <2>2, <3>1 DEF Backing
  <2>3. CASE w # v
    <3>1. clBalance'[w] = clBalance[w] /\ losses'[w] = losses[w]
      BY <1>2, <2>3, OthersTyped
    <3> QED BY <2>1, <3>1 DEF Backing
  <2> QED BY <2>2, <2>3
<1> QED BY <1>1, <1>3, <1>4, OthersTyped, EtherMoves

-----------------------------------------------------------------------------
(* The oracle: the leaves of a reference slot and the report of them.      *)

LEMMA SlotAdvances ==
  ASSUME RestOK, now' = now + 1
  PROVE  RefSlot' = IF now % 2 = 0 THEN RefSlot + 1 ELSE RefSlot
<1>1. PICK t \in Nat : t = now
  BY DEF RestOK
<1>2. t % 2 = 0 => t \div 2 = (t - 1) \div 2 + 1
  OBVIOUS
<1>3. t % 2 # 0 => t \div 2 = (t - 1) \div 2
  OBVIOUS
<1>4. now' - 1 = t
  BY <1>1
<1> QED BY <1>1, <1>2, <1>3, <1>4 DEF RefSlot

\* What an honest leaf found at the new slot is backed by what it found.
LEMMA LeafFresh ==
  ASSUME Inv, NEW v \in Vaults, NEW s \in Nat, RefSlot < s, NEW fees \in Nat
  PROVE  Leaf(v, fees) \in Leaves /\ LeafBacked(v, Leaf(v, fees), s)
<1> DEFINE c == records[v].inOutDelta
           leaf == Leaf(v, fees)
<1>1. /\ balance[v] \in Nat /\ clBalance[v] \in Nat /\ losses[v] \in Nat
      /\ records[v].liabilityShares \in Nat /\ records[v].maxLiabilityShares \in Nat
  BY OthersTyped, RecordOf, RecordParts
<1>2. CASE Connected(v)
  <2>1. PICK value \in Nat : value = balance[v] + clBalance[v]
    BY <1>1
  <2>2. leaf = [inTree |-> TRUE, totalValue |-> value, cumulativeLidoFees |-> fees,
                liabilityShares |-> records[v].liabilityShares,
                maxLiabilityShares |-> records[v].maxLiabilityShares, slashingReserve |-> 0,
                losses |-> losses[v]]
    BY <1>2, <2>1 DEF Leaf
  <2>3. leaf \in Leaves /\ leaf.totalValue = value /\ leaf.losses = losses[v]
    BY <1>1, <2>2 DEF Leaves
  <2> HIDE DEF leaf
  <2>4. c \in [1..2 -> Caches] /\ CachesDated(c, RefSlot) /\ RefSlot \in Nat
    BY RecordOf, RecordParts, SlotParts DEF Inv
  <2>5. CurrentValue(c) \in Int /\ Active(c).refSlot \in Nat
    BY <2>4, CacheParts DEF Caches
  <2> HIDE DEF c
  <2>6. s > Active(c).refSlot
    BY <2>4, <2>5 DEF CachesDated
  <2>7. ValueForRefSlot(c, s) = CurrentValue(c)
    BY <2>5, <2>6 DEF ValueForRefSlot
  <2>8. leaf.totalValue + leaf.losses + CurrentValue(c) - ValueForRefSlot(c, s) <= Backing(v)
    BY <1>1, <2>1, <2>3, <2>5, <2>7 DEF Backing
  <2> QED BY <2>3, <2>8 DEF LeafBacked, c, leaf
<1>3. CASE ~Connected(v)
  <2>1. leaf = NoLeaf
    BY <1>3 DEF Leaf
  <2> QED BY <1>3, <2>1 DEF LeafBacked, NoLeaf, Leaves
<1> QED BY <1>2, <1>3

LEMMA InvNextMoment ==
  ASSUME Inv, NextMoment
  PROVE  Inv'
<1>1. /\ now' = now + 1 /\ UNCHANGED hubVars /\ UNCHANGED gridVars
      /\ UNCHANGED <<quarantines, vaultsData>> /\ UNCHANGED vaultVars
      /\ UNCHANGED clBalance /\ UNCHANGED lossVars
  BY DEF NextMoment
<1>2. /\ UNCHANGED <<vaults, connections, records, badDebtToInternalize, externalShares>>
      /\ UNCHANGED <<ownedByHub, depositsPaused, balance, losses, lossesReported>>
  BY <1>1 DEF hubVars, vaultVars, lossVars
<1>3. RestOK /\ ValueOK /\ SharesOwned /\ RecordsOK /\ ListOK
  BY DEF Inv
<1>4. PICK slot \in Nat \ {0} : slot = RefSlot
  BY SlotParts DEF Inv
<1>5. RefSlot' = IF now % 2 = 0 THEN slot + 1 ELSE slot
  BY <1>1, <1>3, <1>4, SlotAdvances
<1>6. ListOK'
  BY <1>2, <1>3 DEF ListOK, VaultsIndexed, Connected
<1>7. RecordsOK'
  <2>1. ASSUME NEW v \in Vaults
        PROVE  CachesDated(records[v].inOutDelta, RefSlot')
    <3>1. CachesDated(records[v].inOutDelta, slot)
      BY <1>3, <1>4 DEF RecordsOK
    <3>2. Active(records[v].inOutDelta).refSlot \in Nat
      BY CacheParts, RecordOf, RecordParts DEF Caches
    <3> QED BY <1>4, <1>5, <3>1, <3>2 DEF CachesDated
  <2> QED BY <1>2, <1>3, <2>1 DEF RecordsOK, RecordsConsistent
<1>8. GridOK' /\ SumOf(Owed', Vaults) = SumOf(Owed, Vaults)
  <2>1. \A v \in Vaults : records'[v].liabilityShares = records[v].liabilityShares
    BY <1>2
  <2>2. UNCHANGED <<tierLiability, groupLiability, vaultTier, tierParams, groupLimit,
                    isVaultInJail>>
    BY <1>1 DEF gridVars, gridParamVars
  <2> QED BY <1>7, <2>1, <2>2, OthersTyped, GridKept
<1>9. SharesOwned'
  <2>1. /\ badDebtToInternalize \in [value : Nat, valueOnRefSlot : Nat, refSlot : Nat]
        /\ externalShares = SumOf(Owed, Vaults) + badDebtToInternalize.value
        /\ badDebtToInternalize.refSlot <= slot
        /\ vaultsData.refSlot < slot =>
             ValueForLastRefSlot(badDebtToInternalize, slot) <= badDebtToInternalize.value
    BY <1>3, <1>4 DEF SharesOwned
  <2>2. badDebtToInternalize.refSlot \in Nat /\ badDebtToInternalize.value \in Nat
    BY <2>1
  <2>3. RefSlot' # slot =>
          ValueForLastRefSlot(badDebtToInternalize, RefSlot') = badDebtToInternalize.value
    BY <1>4, <1>5, <2>1, <2>2 DEF ValueForLastRefSlot
  <2>4. badDebtToInternalize.refSlot <= RefSlot'
    BY <1>4, <1>5, <2>1, <2>2
  <2>5. vaultsData.refSlot < RefSlot' =>
          ValueForLastRefSlot(badDebtToInternalize, RefSlot') <= badDebtToInternalize.value
    BY <1>4, <1>5, <2>1, <2>2, <2>3
  <2>6. vaultsData' = vaultsData
    BY <1>1
  <2> QED BY <1>2, <1>8, <2>1, <2>4, <2>5, <2>6 DEF SharesOwned
<1>10. CASE now % 2 = 0
  <2>1. PICK fees \in [Vaults -> 0..MaxFees] :
          feesAccrued' = fees /\ snapshot' = [v \in Vaults |-> Leaf(v, fees[v])]
    BY <1>10 DEF NextMoment
  <2>2. \A v \in Vaults : fees[v] \in Nat
    BY <2>1, HubAssumption
  <2>3. slot + 1 \in Nat /\ RefSlot < slot + 1 /\ RefSlot' = slot + 1
    BY <1>4, <1>5, <1>10
  <2>4. \A v \in Vaults : snapshot'[v] \in Leaves /\ LeafBacked(v, snapshot'[v], slot + 1)
    BY <2>1, <2>2, <2>3, LeafFresh
  <2>5. snapshot' \in [Vaults -> Leaves] /\ feesAccrued' \in [Vaults -> Nat]
    BY <2>1, <2>2, <2>4
  <2>6. RestOK'
    BY <1>1, <1>2, <1>3, <1>4, <2>3, <2>5 DEF RestOK, RatiosOK, OthersOweNothing, Connected
  <2>7. ValueOK'
    <3>1. TotalValueBacked'
      BY <1>1, <1>2, <1>3 DEF ValueOK, TotalValueBacked, Connected
    <3>2. \A v \in Vaults : LeafBacked(v, vaultsData.leaves[v], vaultsData.refSlot)'
      BY <1>1, <1>2, <1>3 DEF ValueOK, LeafBacked, Connected, Backing
    <3>3. \A v \in Vaults : LeafBacked(v, snapshot[v], RefSlot)'
      BY <1>1, <1>2, <2>3, <2>4 DEF LeafBacked, Connected, Backing
    <3> QED BY <3>1, <3>2, <3>3 DEF ValueOK
  <2> QED BY <1>6, <1>7, <1>8, <1>9, <2>6, <2>7 DEF Inv
<1>11. CASE now % 2 # 0
  <2>1. UNCHANGED <<feesAccrued, snapshot>> /\ RefSlot' = RefSlot
    BY <1>4, <1>5, <1>11 DEF NextMoment
  <2>2. RestOK'
    BY <1>1, <1>2, <1>3, <2>1 DEF RestOK, RatiosOK, OthersOweNothing, Connected
  <2>3. ValueOK'
    BY <1>1, <1>2, <1>3, <2>1 DEF ValueOK, TotalValueBacked, LeafBacked, Connected, Backing
  <2> QED BY <1>6, <1>7, <1>8, <1>9, <2>2, <2>3 DEF Inv
<1> QED BY <1>10, <1>11

LEMMA InvSubmitReport ==
  ASSUME Inv, SubmitReport
  PROVE  Inv'
<1> DEFINE cache == badDebtToInternalize
<1>1. PICK slot \in Nat \ {0} : slot = RefSlot
  BY SlotParts DEF Inv
<1>2. PICK badDebt : badDebt = ValueForLastRefSlot(cache, slot)
  OBVIOUS
<1>3. /\ vaultsData.refSlot < slot
      /\ cache' = [cache EXCEPT !.value = @ - badDebt]
      /\ externalShares' = externalShares - badDebt
      /\ snapshot' = [v \in Vaults |-> NoLeaf]
      /\ UNCHANGED <<vaults, connections, records, gridVars, quarantines, vaultVars,
                     clBalance, feesAccrued, now, lossVars>>
  BY <1>1, <1>2 DEF SubmitReport
<1>4. PICK s \in [Vaults -> SlashingReserves \cup {0}] :
        vaultsData' = [refSlot |-> slot,
                       leaves  |-> [v \in Vaults |->
                                      [snapshot[v] EXCEPT !.slashingReserve = s[v]]]]
  BY <1>1 DEF SubmitReport
<1>5. RestOK /\ ValueOK /\ SharesOwned /\ ListOK
  BY DEF Inv
<1>6. RefSlot' = slot
  BY <1>1, <1>3 DEF RefSlot
<1>7. ASSUME NEW v \in Vaults
      PROVE  /\ vaultsData'.leaves[v] \in Leaves
             /\ vaultsData'.leaves[v].inTree = snapshot[v].inTree
             /\ vaultsData'.leaves[v].totalValue = snapshot[v].totalValue
             /\ vaultsData'.leaves[v].losses = snapshot[v].losses
  <2>1. snapshot[v] \in Leaves
    BY <1>5 DEF RestOK
  <2>2. PICK reserve \in Nat : reserve = s[v]
    BY HubConstants
  <2>3. vaultsData'.leaves[v] = [snapshot[v] EXCEPT !.slashingReserve = reserve]
    BY <1>4, <2>2
  <2> QED BY <2>1, <2>3 DEF Leaves
<1>8. vaultsData' \in [refSlot : Nat, leaves : [Vaults -> Leaves]] /\ vaultsData'.refSlot = slot
  <2>1. PICK leaves : leaves = [v \in Vaults |-> [snapshot[v] EXCEPT !.slashingReserve = s[v]]]
    OBVIOUS
  <2>2. vaultsData' = [refSlot |-> slot, leaves |-> leaves]
    BY <1>4, <2>1
  <2>3. leaves \in [Vaults -> Leaves]
    BY <1>7, <2>1, <2>2
  <2> QED BY <2>2, <2>3
<1>9. UNCHANGED <<ownedByHub, depositsPaused, balance, losses, lossesReported>>
  BY <1>3 DEF vaultVars, lossVars
<1>10. ListOK'
  BY <1>3, <1>5, <1>9 DEF ListOK, VaultsIndexed, Connected
<1>11. RecordsOK'
  BY <1>3, RecordsKept
<1>12. RestOK'
  <2>1. snapshot' \in [Vaults -> Leaves]
    BY <1>3 DEF NoLeaf, Leaves
  <2>2. 0 < slot /\ slot <= slot
    OBVIOUS
  <2> QED BY <1>3, <1>5, <1>6, <1>8, <1>9, <2>1, <2>2
       DEF RestOK, RatiosOK, OthersOweNothing, Connected
<1>13. ValueOK'
  <2>1. TotalValueBacked'
    BY <1>3, <1>5, <1>9 DEF ValueOK, TotalValueBacked, Connected
  <2>2. \A v \in Vaults : LeafBacked(v, snapshot[v], RefSlot)'
    BY <1>3 DEF LeafBacked, NoLeaf
  <2>3. ASSUME NEW v \in Vaults
        PROVE  LeafBacked(v, vaultsData.leaves[v], vaultsData.refSlot)'
    <3>1. LeafBacked(v, snapshot[v], slot)
      BY <1>1, <1>5 DEF ValueOK
    <3>2. Backing(v)' = Backing(v)
      BY <1>3, <1>9 DEF Backing
    <3>3. (Connected(v)' <=> Connected(v)) /\ records' = records
      BY <1>3 DEF Connected
    <3> QED BY <1>7, <1>8, <3>1, <3>2, <3>3 DEF LeafBacked
  <2> QED BY <2>1, <2>2, <2>3 DEF ValueOK
<1>14. GridOK' /\ SumOf(Owed', Vaults) = SumOf(Owed, Vaults)
  <2>1. \A v \in Vaults : records'[v].liabilityShares = records[v].liabilityShares
    BY <1>3
  <2>2. UNCHANGED <<tierLiability, groupLiability, vaultTier, tierParams, groupLimit,
                    isVaultInJail>>
    BY <1>3 DEF gridVars, gridParamVars
  <2> QED BY <1>11, <2>1, <2>2, OthersTyped, GridKept
<1>15. SharesOwned'
  <2>1. /\ cache \in [value : Nat, valueOnRefSlot : Nat, refSlot : Nat]
        /\ cache.value \in Nat /\ cache.valueOnRefSlot \in Nat /\ cache.refSlot \in Nat
        /\ externalShares = SumOf(Owed, Vaults) + cache.value
        /\ cache.refSlot <= slot /\ badDebt <= cache.value
    BY <1>1, <1>2, <1>3, <1>5 DEF SharesOwned
  <2>2. badDebt \in Nat
    BY <1>2, <2>1 DEF ValueForLastRefSlot
  <2>3. PICK left \in Nat : left = cache.value - badDebt
    BY <2>1, <2>2
  <2>4. cache' = [cache EXCEPT !.value = left]
    BY <1>3, <2>3
  <2>5. /\ cache' \in [value : Nat, valueOnRefSlot : Nat, refSlot : Nat]
        /\ cache'.value = left /\ cache'.refSlot = cache.refSlot
    BY <2>1, <2>4
  <2>6. SumOf(Owed, Vaults) \in Nat
    BY GridParts, PartSums
  <2>7. externalShares' = SumOf(Owed', Vaults) + cache'.value
    BY <1>3, <1>14, <2>1, <2>2, <2>3, <2>5, <2>6
  <2>8. ~ (vaultsData'.refSlot < RefSlot') /\ cache'.refSlot <= RefSlot'
    BY <1>6, <1>8, <2>1, <2>5
  <2> HIDE DEF cache
  <2> QED BY <2>5, <2>7, <2>8 DEF SharesOwned, cache
<1> QED BY <1>10, <1>11, <1>12, <1>13, <1>14, <1>15 DEF Inv

-----------------------------------------------------------------------------
(* The list: a vault joins at its end.                                     *)

LEMMA Listed ==
  ASSUME Inv
  PROVE  /\ vaults \in Seq(Vaults) /\ Len(vaults) \in Nat
         /\ \A i \in 1..Len(vaults) : vaults[i] \in Vaults
                                        /\ connections[vaults[i]].vaultIndex = i
         /\ \A v \in Vaults : connections[v].vaultIndex # 0 =>
              connections[v].vaultIndex \in 1..Len(vaults)
                /\ vaults[connections[v].vaultIndex] = v
<1>1. vaults \in Seq(Vaults) /\ VaultsIndexed
  BY DEF Inv, ListOK
<1>2. Len(vaults) \in Nat /\ \A i \in 1..Len(vaults) : vaults[i] \in Vaults
  BY <1>1, ElementOfSeq
<1> QED BY <1>1, <1>2 DEF VaultsIndexed, Connected

LEMMA NewConnectionGood ==
  ASSUME Inv, NEW v \in Vaults, NEW p \in TierParams
  PROVE  /\ NewConnection(v, p) \in Connections
         /\ NewConnection(v, p).vaultIndex = Len(vaults) + 1
         /\ TermsOK(NewConnection(v, p))
<1>1. PICK i \in Nat : i = Len(vaults) + 1
  BY Listed
<1>2. PICK ratio \in Nat : /\ ratio = p.reserveRatioBP /\ ratio \in 1..(TotalBasisPoints - 1)
                           /\ p.forcedRebalanceThresholdBP < ratio
  BY ParamsParts, HubConstants DEF TermsOK
<1>3. depositsPaused[v] \in BOOLEAN /\ MaxUint \in Nat /\ p.shareLimit \in Nat
        /\ p.forcedRebalanceThresholdBP \in Nat
  BY OthersTyped, HubConstants, ParamsParts
<1>4. NewConnection(v, p) =
        [vaultIndex |-> i, disconnectInitiatedTs |-> MaxUint, shareLimit |-> p.shareLimit,
         reserveRatioBP |-> ratio, forcedRebalanceThresholdBP |-> p.forcedRebalanceThresholdBP,
         pauseIntent |-> depositsPaused[v]]
  BY <1>1, <1>2 DEF NewConnection, DisconnectNotInitiated
<1> QED BY <1>1, <1>2, <1>3, <1>4 DEF Connections, TermsOK

LEMMA NoCaches ==
  ASSUME NEW b \in Int, NEW caches, caches = InitialDoubleCache(b)
  PROVE  /\ caches \in [1..2 -> Caches]
         /\ CurrentValue(caches) = b
         /\ Active(caches).refSlot = 0 /\ Previous(caches).refSlot = 0
<1>1. DOMAIN caches = 1..2 /\ caches[1] = [value |-> b, valueOnRefSlot |-> 0, refSlot |-> 0]
        /\ caches[2] = [value |-> 0, valueOnRefSlot |-> 0, refSlot |-> 0]
  BY DEF InitialDoubleCache
<1>2. caches = [i \in 1..2 |-> caches[i]]
  BY DEF InitialDoubleCache
<1>3. caches[1] \in Caches /\ caches[2] \in Caches
  BY <1>1 DEF Caches
<1>4. ActiveIndex(caches) = 1
  BY <1>1 DEF ActiveIndex
<1> QED BY <1>1, <1>2, <1>3, <1>4 DEF Active, Previous, CurrentValue

LEMMA NewRecordGood ==
  ASSUME Inv, NEW v \in Vaults, NEW r, r = NewRecord(v)
  PROVE  /\ GoodRecord(r) /\ r.liabilityShares = 0 /\ r.timestamp = now
         /\ TotalValue(r) = balance[v]
<1>1. PICK b \in Nat : b = balance[v]
  BY OthersTyped
<1>2. PICK caches : caches = InitialDoubleCache(b)
  OBVIOUS
<1>3. /\ caches \in [1..2 -> Caches]
      /\ CurrentValue(caches) = b
      /\ Active(caches).refSlot = 0 /\ Previous(caches).refSlot = 0
  BY <1>2, NoCaches
<1>4. now \in Nat /\ ConnectDeposit \in Nat /\ RefSlot \in Nat
  BY HubConstants, SlotParts DEF Inv, RestOK
<1>5. r = [totalValue |-> b, reportInOutDelta |-> b, timestamp |-> now,
           maxLiabilityShares |-> 0, liabilityShares |-> 0,
           inOutDelta |-> caches, minimalReserve |-> ConnectDeposit, redemptionShares |-> 0,
           cumulativeLidoFees |-> 0, settledLidoFees |-> 0]
  BY <1>1, <1>2 DEF NewRecord, NoRecord
<1>6. r \in Records
  BY <1>3, <1>4, <1>5 DEF Records
<1>7. CachesDated(r.inOutDelta, RefSlot)
  BY <1>3, <1>4, <1>5 DEF CachesDated
<1>8. TotalValue(r) = b
  BY <1>3, <1>5 DEF TotalValue
<1> QED BY <1>1, <1>5, <1>6, <1>7, <1>8 DEF GoodRecord

LEMMA InvConnect ==
  ASSUME Inv, NEW v \in Vaults, ConnectVault(v)
  PROVE  Inv'
<1>1. PICK p : p = tierParams[vaultTier[v]]
  OBVIOUS
<1>2. p \in TierParams
  BY <1>1, GridParts DEF GridTypeOK
<1>3. PICK c, r : c = NewConnection(v, p) /\ r = NewRecord(v)
  OBVIOUS
<1>4. /\ ~Connected(v) /\ vaults' = Append(vaults, v)
      /\ SetConnection(v, c) /\ SetRecord(v, r)
      /\ ownedByHub' = [ownedByHub EXCEPT ![v] = TRUE]
      /\ feesAccrued' = [feesAccrued EXCEPT ![v] = 0]
      /\ losses' = [losses EXCEPT ![v] = 0]
      /\ lossesReported' = [lossesReported EXCEPT ![v] = 0]
      /\ UNCHANGED <<badDebtToInternalize, externalShares, gridVars, quarantines,
                     vaultsData, depositsPaused, balance, clBalance, snapshot, now>>
  BY <1>1, <1>3 DEF ConnectVault
<1>5. RestOK /\ ValueOK /\ ListOK /\ RecordsOK
  BY DEF Inv
<1>6. /\ c \in Connections /\ c.vaultIndex = Len(vaults) + 1
      /\ TermsOK(c)
  BY <1>2, <1>3, NewConnectionGood
<1>7. /\ GoodRecord(r) /\ r.liabilityShares = 0 /\ r.timestamp = now
      /\ TotalValue(r) = balance[v]
  BY <1>3, NewRecordGood
<1>8. /\ connections' \in [Vaults -> Connections] /\ connections'[v] = c
      /\ \A w \in Vaults : w # v => connections'[w] = connections[w]
  BY <1>4, <1>5, <1>6 DEF SetConnection, RestOK
<1>9. /\ records'[v] = r /\ \A w \in Vaults : w # v => records'[w] = records[w]
  BY <1>4, <1>5 DEF SetRecord, RecordsOK
<1>10. \A w \in Vaults : w # v => (Connected(w)' <=> Connected(w))
  BY <1>8 DEF Connected
<1>11. ListOK'
  <2>1. vaults \in Seq(Vaults) /\ Len(vaults) \in Nat
    BY Listed
  <2>2. PICK n \in Nat : n = Len(vaults)
    BY <2>1
  <2>3. /\ vaults' \in Seq(Vaults) /\ Len(vaults') = n + 1 /\ vaults'[n + 1] = v
        /\ \A i \in 1..n : vaults'[i] = vaults[i]
    BY <1>4, <2>1, <2>2, AppendProperties
  <2>4. \A i \in 1..n : vaults[i] \in Vaults /\ vaults[i] # v
                          /\ connections[vaults[i]].vaultIndex = i
    BY <1>4, <2>2, Listed DEF Connected
  <2>5. \A i \in 1..(n + 1) : connections'[vaults'[i]].vaultIndex = i
    <3>1. \A i \in 1..n : connections'[vaults'[i]].vaultIndex = i
      BY <1>8, <2>3, <2>4
    <3>2. connections'[vaults'[n + 1]].vaultIndex = n + 1
      BY <1>6, <1>8, <2>2, <2>3
    <3>3. \A i \in 1..(n + 1) : i \in 1..n \/ i = n + 1
      OBVIOUS
    <3> QED BY <3>1, <3>2, <3>3
  <2>6. ASSUME NEW w \in Vaults, Connected(w)'
        PROVE  connections'[w].vaultIndex \in 1..(n + 1)
                 /\ vaults'[connections'[w].vaultIndex] = w
    <3>1. CASE w = v
      BY <1>6, <1>8, <2>2, <2>3, <3>1
    <3>2. CASE w # v
      <4>1. PICK i \in 1..n : i = connections[w].vaultIndex /\ vaults[i] = w
        BY <1>10, <2>2, <2>6, <3>2, Listed DEF Connected
      <4> QED BY <1>8, <2>3, <3>2, <4>1
    <3> QED BY <3>1, <3>2
  <2>7. VaultsIndexed'
    BY <2>3, <2>5, <2>6 DEF VaultsIndexed
  <2>8. ownedByHub' \in [Vaults -> BOOLEAN] /\ \A w \in Vaults : Connected(w)' => ownedByHub'[w]
    BY <1>4, <1>5, <1>10 DEF ListOK
  <2> QED BY <2>3, <2>7, <2>8 DEF ListOK
<1>12. RecordsOK'
  BY <1>4, <1>7, RecordStored
<1>13. RestOK'
  <2>1. RatiosOK'
    BY <1>5, <1>6, <1>8, <1>10 DEF RestOK, RatiosOK
  <2>2. OthersOweNothing'
    BY <1>5, <1>7, <1>9, <1>10 DEF RestOK, OthersOweNothing
  <2>3. /\ feesAccrued' \in [Vaults -> Nat] /\ losses' \in [Vaults -> Nat]
        /\ lossesReported' \in [Vaults -> Nat]
    BY <1>4, <1>5 DEF RestOK
  <2> QED BY <1>4, <1>5, <1>8, <2>1, <2>2, <2>3 DEF RestOK, RefSlot
<1>14. ValueOK'
  <2>1. PICK slot \in Nat, reported \in Nat :
          /\ slot = RefSlot /\ reported = vaultsData.refSlot /\ reported <= slot
          /\ TimestampOf(slot) < now
    BY SlotParts DEF Inv
  <2>2. RefSlot' = slot /\ vaultsData' = vaultsData /\ snapshot' = snapshot
    BY <1>4, <2>1 DEF RefSlot
  <2>3. ~ (now < TimestampOf(slot)) /\ ~ (now < TimestampOf(reported)) /\ now \in Nat
    BY <1>5, <2>1 DEF TimestampOf, RestOK
  <2>4. /\ balance[v] \in Nat /\ clBalance[v] \in Nat
        /\ balance' = balance /\ clBalance' = clBalance
        /\ losses'[v] = 0 /\ lossesReported'[v] = 0
    BY <1>4, <1>5 DEF RestOK
  <2>5. \A w \in Vaults : w # v => losses'[w] = losses[w]
                                     /\ lossesReported'[w] = lossesReported[w]
    BY <1>4, <1>5 DEF RestOK
  <2>6. TotalValueBacked'
    <3>1. TotalValue(records'[v]) = balance[v]
      BY <1>7, <1>9
    <3>2. TotalValue(records'[v]) >= 0 /\ TotalValue(records'[v])
            <= balance'[v] + clBalance'[v] + losses'[v] - lossesReported'[v]
      BY <2>4, <3>1
    <3>3. \A w \in Vaults : w # v /\ Connected(w)' =>
            /\ TotalValue(records'[w]) >= 0
            /\ TotalValue(records'[w])
                 <= balance'[w] + clBalance'[w] + losses'[w] - lossesReported'[w]
      BY <1>5, <1>9, <1>10, <2>4, <2>5 DEF ValueOK, TotalValueBacked
    <3> QED BY <3>2, <3>3 DEF TotalValueBacked
  <2>7. \A w \in Vaults : w # v => Backing(w)' = Backing(w)
    BY <2>4, <2>5 DEF Backing
  <2>8. \A w \in Vaults : LeafBacked(w, snapshot[w], RefSlot)'
    BY <1>5, <1>7, <1>9, <1>10, <2>1, <2>2, <2>3, <2>7 DEF ValueOK, LeafBacked
  <2>9. \A w \in Vaults : LeafBacked(w, vaultsData.leaves[w], vaultsData.refSlot)'
    BY <1>5, <1>7, <1>9, <1>10, <2>1, <2>2, <2>3, <2>7 DEF ValueOK, LeafBacked
  <2> QED BY <2>6, <2>8, <2>9 DEF ValueOK
<1>15. GridOK' /\ SumOf(Owed', Vaults) = SumOf(Owed, Vaults)
  <2>1. r.liabilityShares = records[v].liabilityShares
    BY <1>4, <1>5, <1>7 DEF RestOK, OthersOweNothing
  <2>2. UNCHANGED gridVars
    BY <1>4
  <2> QED BY <1>4, <1>12, <2>1, <2>2, CountsUnmoved
<1>16. SharesOwned'
  BY <1>4, <1>15, SharesKept
<1> QED BY <1>11, <1>12, <1>13, <1>14, <1>15, <1>16 DEF Inv

-----------------------------------------------------------------------------
(* The report of a vault.                                                  *)

LEMMA QuotientAtLeast ==
  ASSUME NEW a \in Nat, NEW b \in Nat, NEW c \in Nat \ {0}, c * b <= a
  PROVE  b <= a \div c
<1>1. PICK q \in Nat : q = a \div c /\ a < c * q + c
  BY QuotientNat
<1>2. SUFFICES ASSUME ~ (b <= q) PROVE FALSE
  BY <1>1
<1>3. PICK d \in Nat : b = q + 1 + d
  <2>1. b - q - 1 \in Nat /\ b = q + 1 + (b - q - 1)
    BY <1>2
  <2> QED BY <2>1
<1>4. c * d \in Nat /\ c * q \in Nat
  BY ProductNat
<1>5. c * b = c * q + c + c * d
  BY <1>3
<1> QED BY <1>1, <1>4, <1>5

LEMMA RewardsAdd ==
  ASSUME NEW value \in Nat
  PROVE  WithRewards(value) \in Nat /\ value <= WithRewards(value)
<1>1. PICK c \in Nat \ {0}, m \in Nat : c = TotalBasisPoints /\ m = MaxRewardRatioBP
  BY SanityParams
<1>2. PICK p \in Nat : p = value * (c + m)
  <2>1. c + m \in Nat
    OBVIOUS
  <2> QED BY <2>1, ProductNat
<1>3. c * value <= p
  <2>1. value * (c + m) = c * value + value * m
    OBVIOUS
  <2>2. c * value \in Nat /\ value * m \in Nat
    BY ProductNat
  <2> QED BY <1>2, <2>1, <2>2
<1>4. p \div c \in Nat /\ value <= p \div c
  BY <1>3, QuotientNat, QuotientAtLeast
<1> QED BY <1>1, <1>2, <1>4 DEF WithRewards

Quarantines == [pending : Nat, start : Nat, remainder : Nat]

\* What is let through is at most what was reported.
LEMMA ProcessedParts ==
  ASSUME NEW q \in Quarantines, NEW reported \in Nat, NEW onchain \in Nat, NEW ts \in Nat,
         NEW checked, checked = ProcessTotalValue(q, reported, onchain, ts)
  PROVE  /\ checked.totalValue \in Nat /\ checked.totalValue <= reported
         /\ checked.quarantine \in Quarantines
<1>1. /\ WithRewards(onchain) \in Nat /\ onchain <= WithRewards(onchain)
      /\ NoQuarantine \in Quarantines
  BY RewardsAdd DEF NoQuarantine, Quarantines
<1>2. q.pending \in Nat
  BY DEF Quarantines
<1>3. CASE checked = Unquarantined(reported, onchain, ts)
  <2>1. CASE reported <= WithRewards(onchain)
    BY <1>1, <1>3, <2>1 DEF Unquarantined, AsReported
  <2>2. CASE ~ (reported <= WithRewards(onchain))
    <3>1. PICK rise \in Nat : rise = reported - onchain
      BY <1>1, <2>2
    <3>2. checked = [totalValue |-> onchain, quarantine |-> NewQuarantine(rise, ts)]
      BY <1>3, <2>2, <3>1 DEF Unquarantined
    <3>3. NewQuarantine(rise, ts) \in Quarantines
      BY DEF NewQuarantine, Quarantines
    <3> QED BY <1>1, <2>2, <3>2, <3>3
  <2> QED BY <2>1, <2>2
<1>4. CASE checked = Quarantined(q, reported, onchain)
  <2>1. CASE reported <= WithRewards(onchain)
    BY <1>1, <1>4, <2>1 DEF Quarantined, AsReported
  <2>2. CASE ~ (reported <= WithRewards(onchain))
    <3>1. PICK over \in Int : over = reported - (onchain + q.pending)
      BY <1>2
    <3>2. PICK left : left = Max({0, over})
      OBVIOUS
    <3>3. left \in {0, over} /\ 0 <= left
      <4>1. 0 \in Int /\ over \in Int
        OBVIOUS
      <4> QED BY ONLY <3>2, <4>1, MaxOfTwo
    <3>4. checked = [totalValue |-> onchain, quarantine |-> [q EXCEPT !.remainder = left]]
      BY <1>4, <2>2, <3>1, <3>2 DEF Quarantined
    <3>5. left \in Nat
      BY <3>3
    <3>6. [q EXCEPT !.remainder = left] \in Quarantines
      BY <3>5 DEF Quarantines
    <3> QED BY <1>1, <2>2, <3>4, <3>6
  <2> QED BY <2>1, <2>2
<1>5. CASE checked = AfterQuarantine(q, reported, onchain, ts)
  <2>1. WithRewards(q.pending) \in Nat /\ q.pending <= WithRewards(q.pending)
    BY <1>2, RewardsAdd
  <2>2. CASE reported <= WithRewards(onchain) + WithRewards(q.pending)
    BY <1>1, <1>5, <2>2 DEF AfterQuarantine, AsReported
  <2>3. CASE ~ (reported <= WithRewards(onchain) + WithRewards(q.pending))
    <3>1. onchain + q.pending \in Nat /\ onchain + q.pending <= reported
      BY <1>1, <1>2, <2>1, <2>3
    <3>2. PICK rise \in Nat : rise = reported - onchain - q.pending
      BY <1>2, <3>1
    <3>3. checked = [totalValue |-> onchain + q.pending,
                     quarantine |-> NewQuarantine(rise, ts)]
      BY <1>5, <2>3, <3>2 DEF AfterQuarantine
    <3>4. NewQuarantine(rise, ts) \in Quarantines
      BY DEF NewQuarantine, Quarantines
    <3> QED BY <3>1, <3>3, <3>4
  <2> QED BY <2>2, <2>3
<1>6. \/ checked = Unquarantined(reported, onchain, ts)
      \/ checked = Quarantined(q, reported, onchain)
      \/ checked = AfterQuarantine(q, reported, onchain, ts)
  BY DEF ProcessTotalValue, QuarantineExpired
<1> QED BY <1>3, <1>4, <1>5, <1>6

\* What UpdateVaultData stores of a report, and what it knows of it.
LEMMA ReportedGood ==
  ASSUME Inv, NEW v \in Vaults, NEW leaf \in Leaves, NEW value \in Nat, NEW delta \in Int,
         records[v].cumulativeLidoFees <= leaf.cumulativeLidoFees,
         NEW r, r = Reported(records[v], leaf, value, delta)
  PROVE  /\ GoodRecord(r) /\ r.timestamp = TimestampOf(vaultsData.refSlot)
         /\ r.inOutDelta = records[v].inOutDelta
         /\ r.liabilityShares = records[v].liabilityShares
         /\ TotalValue(r) = value + CurrentValue(records[v].inOutDelta) - delta
<1>1. /\ leaf.cumulativeLidoFees \in Nat /\ leaf.slashingReserve \in Nat
      /\ leaf.liabilityShares \in Nat
  BY DEF Leaves
<1>2. PICK m : m = records[v]
  OBVIOUS
<1>3. /\ GoodRecord(m) /\ m \in Records /\ m.liabilityShares \in Nat
      /\ m.maxLiabilityShares \in Nat /\ m.liabilityShares <= m.maxLiabilityShares
      /\ m.settledLidoFees <= m.cumulativeLidoFees
      /\ m.settledLidoFees \in Nat /\ m.cumulativeLidoFees \in Nat
      /\ m.redemptionShares <= m.liabilityShares
      /\ CachesDated(m.inOutDelta, RefSlot)
  BY <1>2, StoredGood, RecordOf, RecordParts
<1>4. PICK ts \in Nat : ts = TimestampOf(vaultsData.refSlot)
  BY SlotParts DEF Inv, TimestampOf
<1>5. PICK reserve \in Nat : reserve = Max({ConnectDeposit, leaf.slashingReserve})
  <2>1. PICK a \in Nat, b \in Nat : a = ConnectDeposit /\ b = leaf.slashingReserve
    BY <1>1, HubConstants
  <2>2. a \in Int /\ b \in Int
    OBVIOUS
  <2>3. Max({a, b}) \in {a, b}
    BY ONLY <2>2, MaxOfTwo
  <2>4. Max({a, b}) \in Nat
    BY <2>3
  <2> QED BY <2>1, <2>4
<1>6. PICK most : most = IF m.maxLiabilityShares = leaf.maxLiabilityShares
                         THEN Max({m.liabilityShares, leaf.liabilityShares})
                         ELSE m.maxLiabilityShares
  OBVIOUS
<1>7. most \in Nat /\ m.liabilityShares <= most
  <2>1. PICK a \in Nat, b \in Nat : a = m.liabilityShares /\ b = leaf.liabilityShares
    BY <1>1, <1>3
  <2>2. a \in Int /\ b \in Int
    OBVIOUS
  <2>3. Max({a, b}) \in {a, b} /\ a <= Max({a, b})
    BY ONLY <2>2, MaxOfTwo
  <2>4. Max({a, b}) \in Nat
    BY <2>3
  <2> QED BY <1>3, <1>6, <2>1, <2>3, <2>4
<1>8. r = [m EXCEPT !.totalValue = value, !.reportInOutDelta = delta, !.timestamp = ts,
                    !.cumulativeLidoFees = leaf.cumulativeLidoFees,
                    !.minimalReserve = reserve, !.maxLiabilityShares = most]
  BY <1>2, <1>4, <1>5, <1>6 DEF Reported
<1>9. /\ r \in Records /\ r.timestamp = ts /\ r.inOutDelta = m.inOutDelta
      /\ r.liabilityShares = m.liabilityShares /\ r.redemptionShares = m.redemptionShares
      /\ r.maxLiabilityShares = most /\ r.settledLidoFees = m.settledLidoFees
      /\ r.cumulativeLidoFees = leaf.cumulativeLidoFees
      /\ r.totalValue = value /\ r.reportInOutDelta = delta
  BY <1>1, <1>3, <1>4, <1>5, <1>7, <1>8 DEF Records
<1>10. r.settledLidoFees <= r.cumulativeLidoFees
  BY <1>1, <1>2, <1>3, <1>9
<1>11. GoodRecord(r)
  BY <1>3, <1>7, <1>9, <1>10 DEF GoodRecord
<1>12. TotalValue(r) = value + CurrentValue(m.inOutDelta) - delta
  BY <1>9 DEF TotalValue
<1> QED BY <1>2, <1>4, <1>9, <1>11, <1>12

LEMMA InvRecordReport ==
  ASSUME Inv, NEW v \in Vaults, Connected(v), NEW leaf, leaf = vaultsData.leaves[v],
         leaf.inTree, records[v].timestamp < TimestampOf(vaultsData.refSlot),
         HasValueForRefSlot(records[v].inOutDelta, vaultsData.refSlot),
         records[v].cumulativeLidoFees <= leaf.cumulativeLidoFees,
         NEW delta, delta = ValueForRefSlot(records[v].inOutDelta, vaultsData.refSlot),
         NEW value \in Nat, value <= leaf.totalValue,
         value + CurrentValue(records[v].inOutDelta) - delta >= 0,
         NEW q \in Quarantines, RecordReport(v, leaf, value, delta, q),
         UNCHANGED <<vaultsData, ownedByHub, balance, clBalance, snapshot, feesAccrued,
                     now, losses>>
  PROVE  Inv'
<1> DEFINE caches == records[v].inOutDelta
<1>1. RestOK /\ ValueOK /\ ListOK /\ RecordsOK
  BY DEF Inv
<1>2. PICK slot \in Nat, reported \in Nat :
        /\ slot = RefSlot /\ reported = vaultsData.refSlot
        /\ reported \in 1..slot /\ slot \in 1..slot
  BY SlotParts DEF Inv
<1>3. leaf \in Leaves /\ leaf.totalValue \in Nat /\ leaf.losses \in Nat
  BY <1>1 DEF RestOK, Leaves
<1>4. caches \in [1..2 -> Caches] /\ CurrentValue(caches) \in Int /\ delta \in Int
  BY <1>2, RecordOf, RecordParts, CacheParts
<1>5. PICK r : r = Reported(records[v], leaf, value, delta)
  OBVIOUS
<1>6. /\ GoodRecord(r) /\ r.timestamp = TimestampOf(reported) /\ r.inOutDelta = caches
      /\ r.liabilityShares = records[v].liabilityShares
      /\ TotalValue(r) = value + CurrentValue(caches) - delta
  <2>1. /\ v \in Vaults /\ leaf \in Leaves /\ value \in Nat /\ delta \in Int
        /\ records[v].cumulativeLidoFees <= leaf.cumulativeLidoFees
    BY <1>3, <1>4
  <2>2. /\ GoodRecord(r) /\ r.timestamp = TimestampOf(vaultsData.refSlot)
        /\ r.inOutDelta = records[v].inOutDelta
        /\ r.liabilityShares = records[v].liabilityShares
        /\ TotalValue(r) = value + CurrentValue(records[v].inOutDelta) - delta
    BY ONLY Inv, <1>5, <2>1, ReportedGood
  <2> QED BY <1>2, <2>2
<1>7. PICK c : c = [connections[v] EXCEPT !.disconnectInitiatedTs =
                      IF @ <= TimestampOf(reported) THEN DisconnectNotInitiated ELSE @]
  OBVIOUS
<1>8. /\ SetRecord(v, r) /\ SetConnection(v, c)
      /\ quarantines' = [quarantines EXCEPT ![v] = q]
      /\ UpdateDepositsPause(v, c, r)
      /\ lossesReported' = [lossesReported EXCEPT ![v] = leaf.losses]
      /\ UNCHANGED <<vaults, badDebtToInternalize, externalShares>> /\ UNCHANGED gridVars
  BY <1>2, <1>5, <1>7 DEF RecordReport
<1>9. ConnectionsKept
  <2>1. PICK ts \in Nat : ts = IF connections[v].disconnectInitiatedTs <= TimestampOf(reported)
                               THEN MaxUint ELSE connections[v].disconnectInitiatedTs
    BY HubConstants, ConnectionParts DEF Connections
  <2>2. c = [connections[v] EXCEPT !.disconnectInitiatedTs = ts]
    BY <1>7, <2>1 DEF DisconnectNotInitiated
  <2>3. c \in Connections /\ c.vaultIndex = connections[v].vaultIndex
        /\ TermsOK(c)
    BY <2>2, ConnectionParts DEF Connections, TermsOK
  <2> QED BY <1>8, <2>3, ConnectionSet
<1>10. /\ records'[v] = r /\ \A w \in Vaults : w # v => records'[w] = records[w]
       /\ \A w \in Vaults : Connected(w)' <=> Connected(w)
  BY <1>1, <1>8, <1>9 DEF SetRecord, RecordsOK, ConnectionsKept, Connected
<1>11. ListOK'
  BY <1>8, <1>9, ListKept DEF ConnectionsKept
<1>12. RecordsOK'
  BY <1>6, <1>8, RecordStored
<1>13. RestOK'
  <2>1. quarantines' \in [Vaults -> Quarantines] /\ lossesReported' \in [Vaults -> Nat]
    BY <1>1, <1>3, <1>8 DEF RestOK, Quarantines
  <2>2. depositsPaused' \in [Vaults -> BOOLEAN]
    BY <1>8, PauseTyped
  <2>3. OthersOweNothing'
    BY <1>1, <1>10 DEF RestOK, OthersOweNothing
  <2> QED BY <1>1, <1>9, <2>1, <2>2, <2>3 DEF RestOK, RefSlot, ConnectionsKept, Quarantines
<1>14. ValueOK'
  <2>1. RefSlot' = slot /\ vaultsData' = vaultsData /\ snapshot' = snapshot
    BY <1>2 DEF RefSlot
  <2>2. \A w \in Vaults : Backing(w)' = Backing(w)
    BY DEF Backing
  <2>3. /\ balance[v] \in Nat /\ clBalance[v] \in Nat /\ losses[v] \in Nat
        /\ lossesReported'[v] = leaf.losses
        /\ \A w \in Vaults : w # v => lossesReported'[w] = lossesReported[w]
    BY <1>1, <1>8 DEF RestOK
  <2>4. TotalValueBacked'
    <3>1. leaf.totalValue + leaf.losses + CurrentValue(caches) - delta <= Backing(v)
      BY <1>1, <1>2 DEF ValueOK, LeafBacked
    <3>2. PICK current \in Int : current = CurrentValue(caches)
      BY <1>4
    <3>3. value + current - delta
            <= balance[v] + clBalance[v] + losses[v] - leaf.losses
      BY <1>3, <1>4, <2>3, <3>1, <3>2 DEF Backing
    <3>4. TotalValue(records'[v]) = value + current - delta /\ value + current - delta >= 0
      BY <1>6, <1>10, <3>2
    <3>5. TotalValue(records'[v]) >= 0 /\ TotalValue(records'[v])
            <= balance'[v] + clBalance'[v] + losses'[v] - lossesReported'[v]
      BY <2>3, <3>3, <3>4
    <3>6. \A w \in Vaults : w # v /\ Connected(w)' =>
            /\ TotalValue(records'[w]) >= 0
            /\ TotalValue(records'[w])
                 <= balance'[w] + clBalance'[w] + losses'[w] - lossesReported'[w]
      BY <1>1, <1>10, <2>3 DEF ValueOK, TotalValueBacked
    <3> QED BY <3>5, <3>6 DEF TotalValueBacked
  <2>5. ASSUME NEW w \in Vaults, w # v
        PROVE  LeafBacked(w, snapshot[w], RefSlot)'
                 /\ LeafBacked(w, vaultsData.leaves[w], vaultsData.refSlot)'
    BY <1>1, <1>2, <1>10, <2>1, <2>2, <2>5 DEF ValueOK, LeafBacked
  <2>6. LeafBacked(v, snapshot[v], RefSlot)'
    <3>1. LeafBacked(v, snapshot[v], slot)
      BY <1>1, <1>2 DEF ValueOK
    <3>2. TimestampOf(reported) < TimestampOf(slot) => records[v].timestamp < TimestampOf(slot)
      <4>1. records[v].timestamp \in Nat /\ TimestampOf(reported) \in Nat
              /\ TimestampOf(slot) \in Nat
        BY RecordOf, RecordParts DEF TimestampOf
      <4> QED BY <1>2, <4>1
    <3> HIDE DEF caches
    <3>3. r.inOutDelta = records[v].inOutDelta
      BY <1>6 DEF caches
    <3> QED BY <1>6, <1>10, <2>1, <2>2, <3>1, <3>2, <3>3 DEF LeafBacked
  <2>7. LeafBacked(v, vaultsData.leaves[v], vaultsData.refSlot)'
    <3>1. ~ (TimestampOf(reported) < TimestampOf(reported))
      BY DEF TimestampOf
    <3> QED BY <1>2, <1>6, <1>10, <2>1, <3>1 DEF LeafBacked
  <2> QED BY <2>4, <2>5, <2>6, <2>7 DEF ValueOK
<1>15. GridOK' /\ SumOf(Owed', Vaults) = SumOf(Owed, Vaults)
  BY <1>6, <1>8, <1>12, CountsUnmoved
<1>16. SharesOwned'
  BY <1>8, <1>15, SharesKept
<1> QED BY <1>11, <1>12, <1>13, <1>14, <1>15, <1>16 DEF Inv

\* All connections but that of v stay, their indices aside.
ConnectionsKeptBut(v) ==
  /\ connections' \in [Vaults -> Connections]
  /\ RatiosOK'
  /\ \A w \in Vaults : Connected(w)' => Connected(w) /\ w # v
  /\ \A w \in Vaults : Connected(w) /\ w # v => Connected(w)'

\* The last vault of the list takes the place of the one that leaves.
LEMMA ListWithout ==
  ASSUME Inv, NEW v \in Vaults, Connected(v), DeleteVault(v), UNCHANGED ownedByHub
  PROVE  /\ ListOK' /\ ConnectionsKeptBut(v)
<1>1. PICK n \in Nat : n = Len(vaults)
  BY Listed
<1>2. /\ vaults \in Seq(Vaults)
      /\ \A i \in 1..n : vaults[i] \in Vaults /\ connections[vaults[i]].vaultIndex = i
      /\ \A w \in Vaults : connections[w].vaultIndex # 0 =>
           connections[w].vaultIndex \in 1..n /\ vaults[connections[w].vaultIndex] = w
  BY <1>1, Listed
<1>3. PICK i \in 1..n : i = connections[v].vaultIndex /\ vaults[i] = v
  BY <1>2 DEF Connected
<1>4. PICK last : last = vaults[n]
  OBVIOUS
<1>5. n \in 1..n /\ last \in Vaults /\ connections[last].vaultIndex = n
  BY <1>2, <1>3, <1>4
<1>6. PICK swapped : swapped = [vaults EXCEPT ![i] = last]
  OBVIOUS
<1>7. /\ vaults' = SubSeq(swapped, 1, n - 1)
      /\ connections' = [connections EXCEPT ![last].vaultIndex = i, ![v] = NoConnection]
  BY <1>1, <1>3, <1>4, <1>6 DEF DeleteVault, IndicesWithout
<1>8. /\ vaults' \in Seq(Vaults) /\ Len(vaults') = n - 1
      /\ \A j \in 1..(n - 1) : vaults'[j] = IF j = i THEN last ELSE vaults[j]
  <2>1. \A j \in 1..n : swapped[j] = IF j = i THEN last ELSE vaults[j]
    BY <1>1, <1>2, <1>5, <1>6, ExceptSeq
  <2>2. n - 1 \in Int /\ 1 \in Int /\ \A j \in 1..(n - 1) : swapped[j] \in Vaults
    BY <1>2, <1>5, <2>1
  <2>3. /\ vaults' \in Seq(Vaults)
        /\ Len(vaults') = IF 1 <= n - 1 THEN n - 1 - 1 + 1 ELSE 0
        /\ \A j \in 1..(n - 1 - 1 + 1) : vaults'[j] = swapped[1 + j - 1]
    BY <1>7, <2>2, SubSeqProperties
  <2>4. Len(vaults') = n - 1
    BY <1>5, <2>3
  <2>5. \A j \in 1..(n - 1) : vaults'[j] = swapped[j]
    BY <2>3
  <2> QED BY <2>1, <2>3, <2>4, <2>5
<1>9. connections \in [Vaults -> Connections]
  BY DEF Inv, RestOK
<1>10. NoConnection \in Connections /\ NoConnection.vaultIndex = 0
  BY DEF NoConnection, Connections
<1>11. /\ connections' \in [Vaults -> Connections] /\ connections'[v].vaultIndex = 0
       /\ \A w \in Vaults : w # v =>
            /\ connections'[w].vaultIndex = IF w = last THEN i ELSE connections[w].vaultIndex
            /\ connections'[w].reserveRatioBP = connections[w].reserveRatioBP
            /\ connections'[w].forcedRebalanceThresholdBP
                 = connections[w].forcedRebalanceThresholdBP
  <2>1. PICK mid : mid = [connections EXCEPT ![last].vaultIndex = i]
    OBVIOUS
  <2>2. /\ mid \in [Vaults -> Connections]
        /\ \A w \in Vaults : mid[w].vaultIndex = IF w = last THEN i ELSE connections[w].vaultIndex
        /\ \A w \in Vaults :
             /\ mid[w].reserveRatioBP = connections[w].reserveRatioBP
             /\ mid[w].forcedRebalanceThresholdBP = connections[w].forcedRebalanceThresholdBP
    <3>1. i \in Nat
      OBVIOUS
    <3>2. mid[last] = [connections[last] EXCEPT !.vaultIndex = i]
      BY <1>5, <1>9, <2>1
    <3>3. mid[last] \in Connections /\ mid[last].vaultIndex = i
            /\ mid[last].reserveRatioBP = connections[last].reserveRatioBP
            /\ mid[last].forcedRebalanceThresholdBP
                 = connections[last].forcedRebalanceThresholdBP
      BY <1>5, <1>9, <3>1, <3>2 DEF Connections
    <3>4. \A w \in Vaults : w # last => mid[w] = connections[w]
      BY <1>9, <2>1
    <3>5. DOMAIN mid = Vaults /\ mid = [w \in Vaults |-> mid[w]]
      BY <1>9, <2>1
    <3> QED BY <1>9, <3>3, <3>4, <3>5
  <2>3. connections' = [mid EXCEPT ![v] = NoConnection]
    BY <1>7, <2>1
  <2> QED BY <1>10, <2>2, <2>3
<1>12. ASSUME NEW j \in 1..(n - 1)
       PROVE  connections'[vaults'[j]].vaultIndex = j
  <2>1. j \in 1..n /\ j # n
    OBVIOUS
  <2>2. CASE j = i
    <3>1. last # v
      BY <1>3, <1>4, <1>5, <2>1, <2>2
    <3> QED BY <1>5, <1>8, <1>11, <2>2, <3>1
  <2>3. CASE j # i
    <3>1. vaults'[j] = vaults[j] /\ vaults[j] \in Vaults /\ connections[vaults[j]].vaultIndex = j
      BY <1>2, <1>8, <2>1, <2>3
    <3>2. vaults[j] # v /\ vaults[j] # last
      BY <1>3, <1>5, <2>1, <2>3, <3>1
    <3> QED BY <1>11, <3>1, <3>2
  <2> QED BY <2>2, <2>3
<1>13. ASSUME NEW w \in Vaults, Connected(w)'
       PROVE  /\ w # v /\ Connected(w)
              /\ connections'[w].vaultIndex \in 1..(n - 1)
              /\ vaults'[connections'[w].vaultIndex] = w
  <2>1. w # v
    BY <1>11, <1>13 DEF Connected
  <2>2. CASE w = last
    <3>1. i # n
      BY <1>3, <1>4, <2>1, <2>2
    <3>2. i \in 1..(n - 1) /\ connections'[w].vaultIndex = i
      BY <1>11, <2>1, <2>2, <3>1
    <3>3. Connected(w)
      BY <1>5, <2>2 DEF Connected
    <3> QED BY <1>8, <2>1, <2>2, <3>2, <3>3
  <2>3. CASE w # last
    <3>1. connections'[w].vaultIndex = connections[w].vaultIndex
      BY <1>11, <2>1, <2>3
    <3>2. PICK j \in 1..n : j = connections[w].vaultIndex /\ vaults[j] = w
      BY <1>2, <1>13, <3>1 DEF Connected
    <3>3. j # n /\ j # i
      BY <1>3, <1>4, <2>1, <2>3, <3>2
    <3>4. j \in 1..(n - 1) /\ vaults'[j] = w
      BY <1>8, <3>2, <3>3
    <3> QED BY <1>13, <2>1, <3>1, <3>2, <3>4 DEF Connected
  <2> QED BY <2>2, <2>3
<1>14. VaultsIndexed'
  BY <1>8, <1>12, <1>13 DEF VaultsIndexed
<1>15. ownedByHub' \in [Vaults -> BOOLEAN] /\ \A w \in Vaults : Connected(w)' => ownedByHub'[w]
  BY <1>13 DEF Inv, ListOK
<1>16. ListOK'
  BY <1>8, <1>14, <1>15 DEF ListOK
<1>17. RatiosOK'
  BY <1>11, <1>13 DEF Inv, RestOK, RatiosOK, TermsOK
<1>18. ASSUME NEW w \in Vaults, Connected(w), w # v
       PROVE  Connected(w)'
  <2>1. i # 0
    BY <1>3
  <2> QED BY <1>11, <1>18, <2>1 DEF Connected
<1> QED BY <1>11, <1>13, <1>16, <1>17, <1>18 DEF ConnectionsKeptBut

LEMMA InvDeleteVault ==
  ASSUME Inv, NEW v \in Vaults, Connected(v), DeleteVault(v), records[v].liabilityShares = 0,
         UNCHANGED <<vaultsData, ownedByHub, balance, clBalance, snapshot, feesAccrued,
                     now, losses>>
  PROVE  Inv'
<1>1. RestOK /\ ValueOK /\ RecordsOK
  BY DEF Inv
<1>2. UNCHANGED ownedByHub
  OBVIOUS
<1>3. ListOK' /\ ConnectionsKeptBut(v)
  BY <1>2, ListWithout
<1>4. PICK r : r = NoRecord
  OBVIOUS
<1>5. /\ SetRecord(v, r) /\ quarantines' = [quarantines EXCEPT ![v] = NoQuarantine]
      /\ ResetVaultTier(v)
      /\ UNCHANGED <<badDebtToInternalize, externalShares, depositsPaused, lossesReported>>
  BY <1>4 DEF DeleteVault
<1>6. GoodRecord(r) /\ r.liabilityShares = 0
  <2>1. PICK caches : caches = InitialDoubleCache(0)
    OBVIOUS
  <2>2. caches \in [1..2 -> Caches] /\ Active(caches).refSlot = 0 /\ Previous(caches).refSlot = 0
    BY <2>1, NoCaches
  <2>3. r = [totalValue |-> 0, reportInOutDelta |-> 0, timestamp |-> 0,
             maxLiabilityShares |-> 0, liabilityShares |-> 0,
             inOutDelta |-> caches, minimalReserve |-> 0, redemptionShares |-> 0,
             cumulativeLidoFees |-> 0, settledLidoFees |-> 0]
    BY <1>4, <2>1 DEF NoRecord
  <2>4. r \in Records /\ CachesDated(r.inOutDelta, RefSlot)
    BY <2>2, <2>3, StoredGood DEF Records, CachesDated
  <2> QED BY <2>3, <2>4 DEF GoodRecord
<1>7. RecordsOK'
  BY <1>5, <1>6, RecordStored
<1>8. /\ records'[v] = r /\ \A w \in Vaults : w # v => records'[w] = records[w]
      /\ \A w \in Vaults : records'[w].liabilityShares = records[w].liabilityShares
  BY <1>1, <1>5, <1>6 DEF SetRecord, RecordsOK
<1>9. RestOK'
  <2>1. quarantines' \in [Vaults -> Quarantines]
    BY <1>1, <1>5 DEF RestOK, NoQuarantine, Quarantines
  <2>2. OthersOweNothing'
    BY <1>1, <1>3, <1>6, <1>8 DEF RestOK, OthersOweNothing, ConnectionsKeptBut
  <2> QED BY <1>1, <1>3, <1>5, <2>1, <2>2
       DEF RestOK, RefSlot, ConnectionsKeptBut, Quarantines
<1>10. ASSUME NEW w \in Vaults, Connected(w)'
       PROVE  /\ Connected(w)
              /\ \E d \in Int : MovedBy(w, d) /\ TotalValue(records[w]) + d >= 0
  <2>1. Connected(w) /\ w # v
    BY <1>3, <1>10 DEF ConnectionsKeptBut
  <2>2. records'[w] = records[w]
    BY <1>8, <2>1
  <2>3. Backing(w)' >= Backing(w) + 0
    BY <1>1 DEF Backing, RestOK
  <2>4. MovedBy(w, 0)
    BY <2>2, <2>3 DEF MovedBy
  <2>5. TotalValue(records[w]) + 0 >= 0
    BY <2>1, ConnectedValue
  <2> QED BY <2>1, <2>4, <2>5
<1>11. ValueOK'
  BY <1>5, <1>9, <1>10, ValueMoved
<1>12. GridOK' /\ SumOf(Owed', Vaults) = SumOf(Owed, Vaults)
  BY <1>5, <1>7, <1>8, GridReset
<1>13. SharesOwned'
  BY <1>5, <1>12, SharesKept
<1> QED BY <1>3, <1>7, <1>9, <1>11, <1>12, <1>13 DEF Inv

LEMMA InvUpdateVault ==
  ASSUME Inv, NEW v \in Vaults, UpdateVaultData(v)
  PROVE  Inv'
<1>1. PICK m, leaf, slot, delta, onchain, ts, checked :
        /\ m = records[v] /\ leaf = vaultsData.leaves[v] /\ slot = vaultsData.refSlot
        /\ delta = ValueForRefSlot(m.inOutDelta, slot)
        /\ onchain = m.totalValue + delta - m.reportInOutDelta
        /\ ts = TimestampOf(slot)
        /\ checked = ProcessTotalValue(quarantines[v], leaf.totalValue, onchain, ts)
  OBVIOUS
<1>2. /\ leaf.inTree /\ Connected(v) /\ m.timestamp < ts
      /\ HasValueForRefSlot(m.inOutDelta, slot)
      /\ onchain >= 0
      /\ checked.totalValue + CurrentValue(m.inOutDelta) - delta >= 0
      /\ m.cumulativeLidoFees <= leaf.cumulativeLidoFees
      /\ ApplyVaultReport(v, leaf, checked.totalValue, delta, checked.quarantine)
      /\ UNCHANGED <<vaultsData, ownedByHub, balance, clBalance, snapshot, feesAccrued,
                     now, losses>>
  BY <1>1 DEF UpdateVaultData, SanityChecked, FeesPlausible
<1>3. slot \in Nat /\ ts \in Nat
  BY <1>1, SlotParts DEF Inv, TimestampOf
<1>4. onchain \in Nat
  <2>1. /\ m.totalValue \in Nat /\ m.reportInOutDelta \in Int
        /\ m.inOutDelta \in [1..2 -> Caches]
    BY <1>1, RecordOf, RecordParts
  <2>2. delta \in Int
    BY <1>1, <1>3, <2>1, CacheParts
  <2> QED BY <1>1, <1>2, <2>1, <2>2
<1>5. quarantines[v] \in Quarantines /\ leaf.totalValue \in Nat
  BY <1>1 DEF Inv, RestOK, Quarantines, Leaves
<1>6. /\ checked.totalValue \in Nat /\ checked.totalValue <= leaf.totalValue
      /\ checked.quarantine \in Quarantines
  BY <1>1, <1>3, <1>4, <1>5, ProcessedParts
<1>7. CASE DeleteVault(v) /\ m.liabilityShares = 0
  BY <1>1, <1>2, <1>7, InvDeleteVault
<1>8. CASE RecordReport(v, leaf, checked.totalValue, delta, checked.quarantine)
  <2>1. PICK value \in Nat, q \in Quarantines :
          value = checked.totalValue /\ q = checked.quarantine
    BY <1>6
  <2> QED BY <1>1, <1>2, <1>6, <1>8, <2>1, InvRecordReport
<1> QED BY <1>1, <1>2, <1>7, <1>8 DEF ApplyVaultReport

-----------------------------------------------------------------------------
(* Who may owe more after a step: a vault that mints, or that takes over   *)
(* bad debt.                                                               *)

LEMMA ProductMonotone ==
  ASSUME NEW a \in Nat, NEW b \in Nat, NEW c \in Nat, a <= b
  PROVE  a * c <= b * c
<1>1. PICK d \in Nat : b = a + d
  <2>1. b - a \in Nat /\ b = a + (b - a)
    OBVIOUS
  <2> QED BY <2>1
<1>2. d * c \in Nat /\ a * c \in Nat
  BY ProductNat
<1>3. b * c = a * c + d * c
  BY <1>1
<1> QED BY <1>2, <1>3

LiabilitiesKept ==
  \A w \in Vaults : records'[w].liabilityShares <= records[w].liabilityShares

LEMMA KeptByRecord ==
  ASSUME Inv, NEW v \in Vaults, NEW r, SetRecord(v, r),
         r.liabilityShares \in Int, r.liabilityShares <= records[v].liabilityShares
  PROVE  LiabilitiesKept
<1>1. \A w \in Vaults : records[w].liabilityShares \in Nat
  BY RecordOf, RecordParts
<1>2. records' = [records EXCEPT ![v] = r] /\ DOMAIN records = Vaults
  BY DEF SetRecord, Inv, RecordsOK
<1>3. \A w \in Vaults : records'[w] = IF w = v THEN r ELSE records[w]
  BY <1>2
<1>4. ASSUME NEW w \in Vaults
      PROVE  records'[w].liabilityShares <= records[w].liabilityShares
  BY <1>1, <1>3
<1> QED BY <1>4 DEF LiabilitiesKept

LEMMA KeptUntouched ==
  ASSUME Inv, UNCHANGED records
  PROVE  LiabilitiesKept
<1>1. \A w \in Vaults : records[w].liabilityShares \in Nat
  BY RecordOf, RecordParts
<1> QED BY <1>1 DEF LiabilitiesKept

\* What the changes of a record do to its liability.
LEMMA LiabilityAfter ==
  ASSUME NEW r \in Records
  PROVE  /\ \A d : InOutDeltaChanged(r, d).liabilityShares = r.liabilityShares
         /\ \A k : FeesSettled(r, k).liabilityShares = r.liabilityShares
         /\ \A k : LiabilityDecreased(r, k).liabilityShares = r.liabilityShares - k
         /\ \A k, d : InOutDeltaChanged(LiabilityDecreased(r, k), d).liabilityShares
                        = r.liabilityShares - k
         /\ \A t : [r EXCEPT !.redemptionShares = t].liabilityShares = r.liabilityShares
         /\ \A leaf, value, d : Reported(r, leaf, value, d).liabilityShares = r.liabilityShares
<1>1. \A d : InOutDeltaChanged(r, d).liabilityShares = r.liabilityShares
  BY DEF InOutDeltaChanged, Records
<1>2. ASSUME NEW k
      PROVE  FeesSettled(r, k).liabilityShares = r.liabilityShares
  <2>1. PICK m : m = [r EXCEPT !.settledLidoFees = r.settledLidoFees + k]
    OBVIOUS
  <2>2. "liabilityShares" \in DOMAIN m /\ m.liabilityShares = r.liabilityShares
    BY <2>1 DEF Records
  <2>3. FeesSettled(r, k) = [m EXCEPT !.inOutDelta = WithDoubleIncrease(m.inOutDelta, RefSlot, -k)]
    BY <2>1 DEF FeesSettled, InOutDeltaChanged
  <2> QED BY <2>2, <2>3
<1>3. ASSUME NEW k
      PROVE  /\ LiabilityDecreased(r, k).liabilityShares = r.liabilityShares - k
             /\ \A d : InOutDeltaChanged(LiabilityDecreased(r, k), d).liabilityShares
                         = r.liabilityShares - k
  <2>1. PICK m, left : /\ m = LiabilityDecreased(r, k)
                       /\ left = Max({0, r.redemptionShares - k})
    OBVIOUS
  <2>2. m = [r EXCEPT !.liabilityShares = r.liabilityShares - k, !.redemptionShares = left]
    BY <2>1 DEF LiabilityDecreased
  <2>3. "liabilityShares" \in DOMAIN m /\ m.liabilityShares = r.liabilityShares - k
    BY <2>2 DEF Records
  <2>4. \A d : InOutDeltaChanged(m, d).liabilityShares = m.liabilityShares
    BY <2>3 DEF InOutDeltaChanged
  <2> QED BY <2>1, <2>3, <2>4
<1>4. \A t : [r EXCEPT !.redemptionShares = t].liabilityShares = r.liabilityShares
  BY DEF Records
<1>5. \A leaf, value, d : Reported(r, leaf, value, d).liabilityShares = r.liabilityShares
  BY DEF Reported, Records
<1> QED BY <1>1, <1>2, <1>3, <1>4, <1>5

LEMMA KeptByPayment ==
  ASSUME Inv, NEW v \in Vaults, NEW n \in Nat, PayLiability(v, n)
  PROVE  LiabilitiesKept
<1>1. PICK e : e = -PooledEthBySharesRoundUp(n)
  OBVIOUS
<1>2. PICK r : r = InOutDeltaChanged(LiabilityDecreased(records[v], n), e)
  OBVIOUS
<1>3. SetRecord(v, r)
  BY <1>1, <1>2 DEF PayLiability
<1>4. records[v] \in Records /\ records[v].liabilityShares \in Nat
  BY RecordOf, RecordParts
<1>5. r.liabilityShares = records[v].liabilityShares - n
  BY <1>2, <1>4, LiabilityAfter
<1>6. r.liabilityShares \in Int /\ r.liabilityShares <= records[v].liabilityShares
  BY <1>4, <1>5
<1> QED BY <1>3, <1>6, KeptByRecord

LEMMA KeptByFees ==
  ASSUME Inv, NEW v \in Vaults, NEW c, NEW n, PayFees(v, c, n)
  PROVE  LiabilitiesKept
<1>1. PICK r : r = FeesSettled(records[v], n)
  OBVIOUS
<1>2. SetRecord(v, r)
  BY <1>1 DEF PayFees
<1>3. records[v] \in Records /\ records[v].liabilityShares \in Nat
  BY RecordOf, RecordParts
<1>4. r.liabilityShares = records[v].liabilityShares
  BY <1>1, <1>3, LiabilityAfter
<1> QED BY <1>2, <1>3, <1>4, KeptByRecord

LEMMA KeptByOwner ==
  ASSUME Inv, NEW v \in Vaults, OwnerCalls(v)
  PROVE  LiabilitiesKept \/ \E n \in ShareAmounts : MintShares(v, n)
<1>1. records[v] \in Records /\ records[v].liabilityShares \in Nat
  BY RecordOf, RecordParts
<1>2. ASSUME NEW n \in Amounts, Fund(v, n) \/ Withdraw(v, n) PROVE LiabilitiesKept
  <2>1. PICK d : SetRecord(v, InOutDeltaChanged(records[v], d))
    BY <1>2 DEF Fund, Withdraw
  <2>2. PICK r : r = InOutDeltaChanged(records[v], d)
    OBVIOUS
  <2>3. r.liabilityShares = records[v].liabilityShares
    BY <1>1, <2>2, LiabilityAfter
  <2> QED BY <1>1, <2>1, <2>2, <2>3, KeptByRecord
<1>3. ASSUME NEW n \in ShareAmounts, BurnShares(v, n) PROVE LiabilitiesKept
  <2>1. PICK r : r = LiabilityDecreased(records[v], n)
    OBVIOUS
  <2>2. SetRecord(v, r) /\ n \in Nat
    BY <1>3, <2>1, HubConstants DEF BurnShares
  <2>3. r.liabilityShares = records[v].liabilityShares - n
    BY <1>1, <2>1, LiabilityAfter
  <2>4. r.liabilityShares \in Int /\ r.liabilityShares <= records[v].liabilityShares
    BY <1>1, <2>2, <2>3
  <2> QED BY <2>2, <2>4, KeptByRecord
<1>4. ASSUME NEW n \in ShareAmounts, Rebalance(v, n) PROVE LiabilitiesKept
  <2>1. n \in Nat /\ PayLiability(v, n)
    BY <1>4, HubConstants DEF Rebalance
  <2> QED BY <2>1, KeptByPayment
<1>5. CASE PauseBeaconChainDeposits(v) \/ ResumeBeaconChainDeposits(v)
  <2>1. UNCHANGED records
    BY <1>5 DEF PauseBeaconChainDeposits, ResumeBeaconChainDeposits
  <2> QED BY <2>1, KeptUntouched
<1>6. CASE InitiateDisconnection(v, TRUE)
  <2>1. (\E n : PayFees(v, connections[v], n)) \/ UNCHANGED records
    BY <1>6 DEF InitiateDisconnection
  <2> QED BY <2>1, KeptByFees, KeptUntouched
<1> QED BY <1>2, <1>3, <1>4, <1>5, <1>6 DEF OwnerCalls

LEMMA KeptByRole ==
  ASSUME Inv, NEW v \in Vaults, RoleCalls(v)
  PROVE  LiabilitiesKept \/ \E a \in Vaults, n \in ShareAmounts : SocializeBadDebt(v, a, n)
<1>1. records[v] \in Records /\ records[v].liabilityShares \in Nat
  BY RecordOf, RecordParts
<1>2. CASE ForceRebalance(v)
  BY <1>2, ForcedPayment, KeptByPayment
<1>3. CASE SettleLidoFees(v) \/ InitiateDisconnection(v, FALSE)
  <2>1. (\E n : PayFees(v, connections[v], n)) \/ UNCHANGED records
    BY <1>3 DEF SettleLidoFees, InitiateDisconnection
  <2> QED BY <2>1, KeptByFees, KeptUntouched
<1>4. ASSUME NEW n \in Targets, SetLiabilitySharesTarget(v, n) PROVE LiabilitiesKept
  <2>1. PICK t, r : r = [records[v] EXCEPT !.redemptionShares = t] /\ SetRecord(v, r)
    BY <1>4 DEF SetLiabilitySharesTarget
  <2>2. r.liabilityShares = records[v].liabilityShares
    BY <1>1, <2>1, LiabilityAfter
  <2>3. SetRecord(v, r)
    BY <2>1
  <2> QED BY <1>1, <2>2, <2>3, KeptByRecord
<1>5. ASSUME NEW k \in ShareAmounts, InternalizeBadDebt(v, k) PROVE LiabilitiesKept
  <2>1. PICK n : /\ n = Min({BadDebtShares(records[v]), k}) /\ Connected(v)
                 /\ SetRecord(v, LiabilityDecreased(records[v], n))
    BY <1>5 DEF InternalizeBadDebt
  <2>2. PICK bad \in Nat : bad = BadDebtShares(records[v])
    BY <1>1, <2>1, BadDebtParts
  <2>3. n \in Nat
    <3>1. bad \in Int /\ k \in Int /\ k \in Nat /\ n = Min({bad, k})
      BY <2>1, <2>2, HubConstants
    <3>2. n \in {bad, k}
      BY ONLY <3>1, MinOfTwo
    <3> QED BY <3>1, <3>2
  <2>4. PICK r : r = LiabilityDecreased(records[v], n)
    OBVIOUS
  <2>5. r.liabilityShares = records[v].liabilityShares - n
    BY <1>1, <2>4, LiabilityAfter
  <2>6. r.liabilityShares \in Int /\ r.liabilityShares <= records[v].liabilityShares
    BY <1>1, <2>3, <2>5
  <2> QED BY <2>1, <2>4, <2>6, KeptByRecord
<1> QED BY <1>2, <1>3, <1>4, <1>5 DEF RoleCalls

LEMMA KeptByGrid ==
  ASSUME Inv, NEW v \in Vaults, GridCalls(v)
  PROVE  LiabilitiesKept
<1>1. UNCHANGED records
  BY DEF GridCalls, ChangeTier, SyncTier, UpdateVaultShareLimit, UpdateConnection
<1> QED BY <1>1, KeptUntouched

LEMMA KeptByConnecting ==
  ASSUME Inv, NEW v \in Vaults, ConnectVault(v)
  PROVE  LiabilitiesKept
<1>1. PICK r : r = NewRecord(v)
  OBVIOUS
<1>2. SetRecord(v, r)
  BY <1>1 DEF ConnectVault
<1>3. r.liabilityShares = 0
  BY <1>1, NewRecordGood
<1>4. records[v].liabilityShares \in Nat
  BY RecordOf, RecordParts
<1> QED BY <1>2, <1>3, <1>4, KeptByRecord

LEMMA KeptByReport ==
  ASSUME Inv, NEW v \in Vaults, UpdateVaultData(v)
  PROVE  LiabilitiesKept
<1>1. records[v] \in Records /\ records[v].liabilityShares \in Nat
  BY RecordOf, RecordParts
<1>2. PICK leaf, value, delta, q : ApplyVaultReport(v, leaf, value, delta, q)
  BY DEF UpdateVaultData, SanityChecked
<1>3. CASE DeleteVault(v)
  <2>1. SetRecord(v, NoRecord)
    BY <1>3 DEF DeleteVault
  <2>2. NoRecord.liabilityShares = 0
    BY DEF NoRecord
  <2> QED BY <1>1, <2>1, <2>2, KeptByRecord
<1>4. CASE RecordReport(v, leaf, value, delta, q)
  <2>1. PICK r : r = Reported(records[v], leaf, value, delta)
    OBVIOUS
  <2>2. SetRecord(v, r)
    BY <1>4, <2>1 DEF RecordReport
  <2>3. r.liabilityShares = records[v].liabilityShares
    BY <1>1, <2>1, LiabilityAfter
  <2> QED BY <1>1, <2>2, <2>3, KeptByRecord
<1> QED BY <1>2, <1>3, <1>4 DEF ApplyVaultReport

LEMMA WhoOwesMore ==
  ASSUME Inv, [Next]_vars
  PROVE  \/ LiabilitiesKept
         \/ \E v \in Vaults, n \in ShareAmounts : MintShares(v, n)
         \/ \E v, a \in Vaults, n \in ShareAmounts : SocializeBadDebt(v, a, n)
<1>1. CASE \E v \in Vaults : OwnerCalls(v)
  BY <1>1, KeptByOwner
<1>2. CASE \E v \in Vaults : RoleCalls(v)
  BY <1>2, KeptByRole
<1>3. CASE \E v \in Vaults : GridCalls(v) \/ ConnectVault(v) \/ UpdateVaultData(v)
  BY <1>3, KeptByGrid, KeptByConnecting, KeptByReport
<1>4. CASE \/ \E v \in Vaults : AcceptOwnership(v) \/ UseOwnVault(v)
           \/ AdministerGrid \/ NextMoment \/ SubmitReport
           \/ \E v \in Vaults : MoveClEther(v) \/ ChangeClEther(v)
           \/ UNCHANGED vars
  <2>1. UNCHANGED records
    BY <1>4 DEF AcceptOwnership, UseOwnVault, AdministerGrid, NextMoment, SubmitReport,
                MoveClEther, ChangeClEther, vars, hubVars
  <2> QED BY <2>1, KeptUntouched
<1> QED BY <1>1, <1>2, <1>3, <1>4 DEF Next

LEMMA ValueUnmoved ==
  ASSUME NEW r, NEW n, SameValue(n, r), n.inOutDelta = r.inOutDelta
  PROVE  TotalValue(n) = TotalValue(r)
BY DEF SameValue, TotalValue

\* What is owed against ether that covers it is no bad debt.
LEMMA NoBadDebt ==
  ASSUME NEW n, NEW owed \in Nat, NEW value \in Nat, n.liabilityShares = owed,
         TotalValue(n) = value, owed <= SharesByPooledEth(value)
  PROVE  BadDebtShares(n) = 0
<1>1. PICK covered \in Nat : covered = SharesByPooledEth(value)
  BY SharesOfEther
<1>2. PICK short \in Int : short = owed - covered
  OBVIOUS
<1>3. Max({0, short}) \in {0, short} /\ 0 <= Max({0, short})
  BY MaxOfTwo
<1>4. Max({0, short}) = 0
  BY <1>1, <1>2, <1>3
<1> QED BY <1>1, <1>2, <1>4 DEF BadDebtShares

LEMMA LockedIsCovered ==
  ASSUME NEW owed \in Nat, NEW least \in Nat, NEW ratio \in 1..(TotalBasisPoints - 1),
         NEW value \in Nat, Locked(owed, least, ratio) <= value
  PROVE  owed <= SharesByPooledEth(value)
<1>1. PICK liability \in Nat : /\ liability = PooledEthBySharesRoundUp(owed)
                               /\ owed * RateEther <= liability * RateShares
  BY RoundUpNat
<1>2. liability <= value
  BY <1>1, LockedNat
<1>3. RateEther \in Nat \ {0} /\ RateShares \in Nat
  BY HubConstants
<1>4. liability * RateShares <= value * RateShares
  BY <1>2, <1>3, ProductMonotone
<1>5. PICK a \in Nat, b \in Nat, c \in Nat :
        a = owed * RateEther /\ b = liability * RateShares /\ c = value * RateShares
  BY <1>1, <1>3, ProductNat
<1>6. RateEther * owed <= c
  <2>1. RateEther * owed = a
    BY <1>3, <1>5
  <2> QED BY <1>1, <1>4, <1>5, <2>1
<1>7. owed <= c \div RateEther
  BY <1>3, <1>6, QuotientAtLeast
<1> QED BY <1>5, <1>7 DEF SharesByPooledEth

LEMMA MintCovered ==
  ASSUME Inv, NEW v \in Vaults, NEW n \in ShareAmounts, MintShares(v, n)
  PROVE  SocializedBadDebtCarriedStep
<1>1. PICK r : r = LiabilityIncreased(records[v], n)
  OBVIOUS
<1>2. PICK value \in Nat, owed \in Nat, least \in Nat, unsettled \in Nat :
        /\ value = TotalValue(records[v]) /\ owed = records[v].liabilityShares + n
        /\ least = records[v].minimalReserve /\ unsettled = UnsettledLidoFees(records[v])
  <2>1. Connected(v) /\ n \in Nat
    BY HubConstants DEF MintShares, InUse
  <2>2. records[v].liabilityShares \in Nat /\ records[v].minimalReserve \in Nat
    BY RecordOf, RecordParts
  <2>3. TotalValue(records[v]) \in Nat /\ UnsettledLidoFees(records[v]) \in Nat
    BY <2>1, ConnectedValue, UnsettledNat
  <2> QED BY <2>1, <2>2, <2>3
<1>3. PICK ratio \in 1..(TotalBasisPoints - 1) : ratio = connections[v].reserveRatioBP
  BY ConnectionParts DEF MintShares, InUse
<1>4. /\ Locked(owed, least, ratio) <= MaxLockableValue(records[v])
      /\ SetRecord(v, r) /\ n \in Nat
  BY <1>1, <1>2, <1>3, HubConstants DEF MintShares
<1>5. PICK most \in Int : most = MaxLockableValue(records[v]) /\ most <= value
  <2>1. PICK free \in Int : free = value - unsettled
    OBVIOUS
  <2>2. Max({0, free}) \in {0, free}
    <3>1. 0 \in Int /\ free \in Int
      BY <2>1
    <3> QED BY ONLY <3>1, MaxOfTwo
  <2>3. Max({0, free}) \in Int /\ Max({0, free}) <= value
    BY <1>2, <2>1, <2>2
  <2> QED BY <1>2, <2>1, <2>3 DEF MaxLockableValue
<1>6. Locked(owed, least, ratio) <= value
  <2>1. PICK locked \in Nat : locked = Locked(owed, least, ratio)
    BY LockedNat
  <2> QED BY <1>4, <1>5, <2>1
<1>7. owed <= SharesByPooledEth(value)
  BY <1>6, LockedIsCovered
<1>8. r.liabilityShares = owed /\ TotalValue(r) = value
  BY <1>1, <1>2, <1>4, StoredGood, LiabilityUp, ValueUnmoved
<1>9. BadDebtShares(r) = 0
  BY <1>7, <1>8, NoBadDebt
<1>10. records' = [records EXCEPT ![v] = r] /\ DOMAIN records = Vaults
  BY <1>4 DEF SetRecord, Inv, RecordsOK
<1>11. \A w \in Vaults : records'[w] = IF w = v THEN r ELSE records[w]
  BY <1>10
<1>12. \A w \in Vaults : records[w].liabilityShares \in Nat
  BY RecordOf, RecordParts
<1> QED BY <1>9, <1>11, <1>12 DEF SocializedBadDebtCarriedStep

LEMMA SocializingCovered ==
  ASSUME Inv, NEW v \in Vaults, NEW w \in Vaults, NEW k \in ShareAmounts,
         SocializeBadDebt(v, w, k)
  PROVE  SocializedBadDebtCarriedStep
<1>1. PICK n : /\ n = Min({BadDebtShares(records[v]), k, AcceptorCapacity(w)})
               /\ n > 0 /\ v # w /\ Connected(v) /\ Connected(w)
               /\ records' = [records EXCEPT ![v] = LiabilityDecreased(records[v], n),
                                             ![w] = LiabilityIncreased(records[w], n)]
  BY DEF SocializeBadDebt
<1>2. PICK bad \in Nat, capacity \in Nat :
        /\ bad = BadDebtShares(records[v]) /\ capacity = AcceptorCapacity(w)
        /\ capacity > 0 => capacity = SharesByPooledEth(TotalValue(records[w]))
                                        - records[w].liabilityShares
  BY <1>1, BadDebtParts, CapacityParts, RecordOf, RecordParts
<1>3. n \in Nat /\ n <= capacity
  <2>1. bad \in Int /\ k \in Int /\ capacity \in Int /\ n = Min({bad, k, capacity})
    BY <1>1, <1>2, HubConstants
  <2>2. n \in {bad, k, capacity} /\ n <= capacity
    BY ONLY <2>1, MinOfThree
  <2> QED BY <1>2, <2>2, HubConstants
<1>4. PICK down, up : down = LiabilityDecreased(records[v], n)
                      /\ up = LiabilityIncreased(records[w], n)
  OBVIOUS
<1>5. PICK value \in Nat, before \in Nat, covered \in Nat :
        /\ value = TotalValue(records[w]) /\ before = records[w].liabilityShares
        /\ covered = SharesByPooledEth(value)
  BY <1>1, ConnectedValue, RecordOf, RecordParts, SharesOfEther
<1>6. PICK owed \in Nat : owed = before + n
  BY <1>3
<1>7. owed <= SharesByPooledEth(value)
  BY <1>1, <1>2, <1>3, <1>5, <1>6
<1>8. up.liabilityShares = owed /\ TotalValue(up) = value
  BY <1>3, <1>4, <1>5, <1>6, StoredGood, LiabilityUp, ValueUnmoved
<1>9. BadDebtShares(up) = 0
  BY <1>7, <1>8, NoBadDebt
<1>10. down.liabilityShares = records[v].liabilityShares - n
  BY <1>4, RecordOf, LiabilityAfter
<1>11. \A x \in Vaults : records'[x] = IF x = w THEN up ELSE IF x = v THEN down ELSE records[x]
  <2>1. records' = [records EXCEPT ![v] = down, ![w] = up] /\ DOMAIN records = Vaults
    BY <1>1, <1>4 DEF Inv, RecordsOK
  <2> QED BY <1>1, <2>1
<1>12. \A x \in Vaults : records[x].liabilityShares \in Nat
  BY RecordOf, RecordParts
<1>13. ASSUME NEW x \in Vaults,
              records'[x].liabilityShares > records[x].liabilityShares
       PROVE  x = w
  BY <1>3, <1>10, <1>11, <1>12, <1>13
<1> QED BY <1>9, <1>11, <1>13 DEF SocializedBadDebtCarriedStep

-----------------------------------------------------------------------------
(* Health.  What rounding up does, and when a liability is safe.           *)

LEMMA RoundUpTight ==
  ASSUME NEW n \in Nat
  PROVE  PooledEthBySharesRoundUp(n) * RateShares < n * RateEther + RateShares
<1>1. PICK p \in Nat, s \in Nat \ {0} : p = n * RateEther /\ s = RateShares
  BY HubConstants, ProductNat
<1>2. PICK a \in Nat : a = p + s - 1
  BY <1>1
<1>3. PICK q \in Nat : q = a \div s /\ s * q <= a
  BY <1>1, <1>2, QuotientNat
<1>4. q * s < p + s
  <2>1. q * s = s * q /\ s * q \in Nat
    BY ProductNat
  <2> QED BY <1>2, <1>3, <2>1
<1>5. PooledEthBySharesRoundUp(n) = q
  BY <1>1, <1>2, <1>3 DEF PooledEthBySharesRoundUp, CeilDiv
<1> QED BY <1>1, <1>4, <1>5

LEMMA RoundUpLeast ==
  ASSUME NEW n \in Nat, NEW k \in Nat, n * RateEther <= k * RateShares
  PROVE  PooledEthBySharesRoundUp(n) <= k
<1>1. PICK q \in Nat : q = PooledEthBySharesRoundUp(n)
  BY RoundUpNat
<1>2. PICK s \in Nat \ {0}, p \in Nat, ks \in Nat : s = RateShares /\ p = n * RateEther /\ ks = k * s
  BY HubConstants, ProductNat
<1>3. q * s < p + s /\ p <= ks
  BY <1>1, <1>2, RoundUpTight
<1>4. SUFFICES ASSUME ~ (q <= k) PROVE FALSE
  BY <1>1
<1>5. PICK d \in Nat : q = k + 1 + d
  <2>1. q - k - 1 \in Nat /\ q = k + 1 + (q - k - 1)
    BY <1>4
  <2> QED BY <2>1
<1>6. d * s \in Nat
  BY ProductNat
<1>7. q * s = ks + s + d * s
  BY <1>2, <1>5
<1> QED BY <1>2, <1>3, <1>6, <1>7

LEMMA RoundUpMonotone ==
  ASSUME NEW n \in Nat, NEW m \in Nat, n <= m
  PROVE  PooledEthBySharesRoundUp(n) <= PooledEthBySharesRoundUp(m)
<1>1. PICK q \in Nat, s \in Nat, e \in Nat :
        /\ q = PooledEthBySharesRoundUp(m) /\ s = RateShares /\ e = RateEther
        /\ m * e <= q * s
  BY RoundUpNat, HubConstants
<1>2. n * e <= m * e
  BY ProductMonotone
<1>3. n * e \in Nat /\ m * e \in Nat /\ q * s \in Nat
  BY ProductNat
<1>4. n * e <= q * s
  BY <1>1, <1>2, <1>3
<1> QED BY <1>1, <1>4, RoundUpLeast

\* Paying for n shares of m may cost a wei more than the liability falls.
LEMMA RoundUpDifference ==
  ASSUME NEW n \in Nat, NEW m \in Nat, n <= m, NEW k, k = m - n
  PROVE  PooledEthBySharesRoundUp(k)
           <= PooledEthBySharesRoundUp(m) - PooledEthBySharesRoundUp(n) + 1
<1>1. PICK q \in Nat, r \in Nat, s \in Nat \ {0}, e \in Nat :
        /\ q = PooledEthBySharesRoundUp(m) /\ r = PooledEthBySharesRoundUp(n)
        /\ s = RateShares /\ e = RateEther
        /\ m * e <= q * s /\ r * s < n * e + s
  BY RoundUpNat, RoundUpTight, HubConstants
<1>2. r <= q
  BY <1>1, RoundUpMonotone
<1>3. PICK t \in Nat : t = q - r + 1
  BY <1>2
<1>4. k \in Nat
  OBVIOUS
<1>5. /\ m * e \in Nat /\ n * e \in Nat /\ q * s \in Nat /\ r * s \in Nat
      /\ k * e = m * e - n * e /\ t * s = q * s - r * s + s
  BY <1>3, ProductNat
<1>6. k * e <= t * s
  BY <1>1, <1>5
<1> QED BY <1>1, <1>3, <1>4, <1>6, RoundUpLeast

Safe(owed, value, threshold) ==
  PooledEthBySharesRoundUp(owed)
    <= (value * (TotalBasisPoints - threshold)) \div TotalBasisPoints

LEMMA PointsLeft ==
  ASSUME NEW n \in Nat, n < TotalBasisPoints
  PROVE  /\ TotalBasisPoints \in Nat \ {0}
         /\ TotalBasisPoints - n \in Nat \ {0} /\ TotalBasisPoints - n <= TotalBasisPoints
BY HubConstants

\* The quotient of a threshold, without division.
LEMMA QuotientMeans ==
  ASSUME NEW k \in Nat, NEW a \in Nat, NEW c \in Nat \ {0}
  PROVE  k <= a \div c <=> k * c <= a
<1>1. PICK q \in Nat : q = a \div c /\ c * q <= a
  BY QuotientNat
<1>2. c * k = k * c /\ c * q = q * c /\ k * c \in Nat /\ q * c \in Nat
  BY ProductNat
<1>3. ASSUME k <= q PROVE k * c <= a
  <2>1. k * c <= q * c
    BY <1>3, ProductMonotone
  <2> QED BY <1>1, <1>2, <2>1
<1>4. ASSUME k * c <= a PROVE k <= a \div c
  BY <1>2, <1>4, QuotientAtLeast
<1> QED BY <1>1, <1>3, <1>4

LEMMA SafeMeans ==
  ASSUME NEW owed \in Nat, NEW value \in Nat, NEW threshold \in Nat,
         threshold < TotalBasisPoints
  PROVE  Safe(owed, value, threshold)
           <=> PooledEthBySharesRoundUp(owed) * TotalBasisPoints
                 <= value * (TotalBasisPoints - threshold)
<1>1. PICK c \in Nat \ {0}, b \in Nat, k \in Nat :
        /\ c = TotalBasisPoints /\ b = c - threshold
        /\ k = PooledEthBySharesRoundUp(owed)
  BY PointsLeft, RoundUpNat
<1>2. PICK a \in Nat : a = value * b
  BY ProductNat
<1>3. k <= a \div c <=> k * c <= a
  BY QuotientMeans
<1> QED BY <1>1, <1>2, <1>3 DEF Safe

LEMMA SafeMonotone ==
  ASSUME NEW owed \in Nat, NEW value \in Nat, NEW less \in Nat, NEW more \in Nat,
         NEW threshold \in Nat, threshold < TotalBasisPoints,
         less <= owed, value <= more, Safe(owed, value, threshold)
  PROVE  Safe(less, more, threshold)
<1>1. PICK c \in Nat, b \in Nat, k \in Nat, l \in Nat :
        /\ c = TotalBasisPoints /\ b = c - threshold
        /\ k = PooledEthBySharesRoundUp(owed) /\ l = PooledEthBySharesRoundUp(less)
  BY PointsLeft, RoundUpNat
<1>2. l <= k
  BY <1>1, RoundUpMonotone
<1>3. /\ l * c <= k * c /\ value * b <= more * b
      /\ l * c \in Nat /\ k * c \in Nat /\ value * b \in Nat /\ more * b \in Nat
  BY <1>2, ProductMonotone, ProductNat
<1>4. k * c <= value * b
  BY <1>1, SafeMeans
<1>5. l * c <= more * b
  BY <1>3, <1>4
<1> QED BY <1>1, <1>5, SafeMeans

\* A vault that keeps its reserve is above the threshold.
LEMMA SafeLocked ==
  ASSUME NEW owed \in Nat, NEW most \in Nat, owed <= most, NEW least \in Nat,
         NEW ratio \in 1..(TotalBasisPoints - 1), NEW threshold \in Nat, threshold < ratio,
         NEW value \in Nat, Locked(most, least, ratio) <= value
  PROVE  Safe(owed, value, threshold)
<1>1. PICK c \in Nat \ {0}, b \in Nat \ {0}, g \in Nat, l \in Nat, u \in Nat :
        /\ c = TotalBasisPoints /\ b = c - ratio /\ g = ratio - threshold /\ u = ratio
        /\ l = PooledEthBySharesRoundUp(most)
  <2>1. ratio \in Nat /\ ratio < TotalBasisPoints /\ ratio - threshold \in Nat
    BY HubConstants
  <2> QED BY <2>1, PointsLeft, RoundUpNat
<1>2. PICK p \in Nat : p = l * u
  BY ProductNat
<1>3. PICK a \in Nat : a = p + b - 1
  BY <1>1
<1>4. PICK reserve \in Nat : reserve = CeilDiv(p, b) /\ p <= b * reserve
  <2>1. PICK q \in Nat : q = a \div b /\ a < b * q + b /\ b * q \in Nat
    BY QuotientNat, ProductNat
  <2>2. p <= b * q
    BY <1>1, <1>3, <2>1
  <2> QED BY <1>3, <2>1, <2>2 DEF CeilDiv
<1>5. PICK kept \in Int : kept = Max({reserve, least}) /\ reserve <= kept
  <2>1. reserve \in Int /\ least \in Int
    OBVIOUS
  <2>2. Max({reserve, least}) \in {reserve, least} /\ reserve <= Max({reserve, least})
    BY ONLY <2>1, MaxOfTwo
  <2> QED BY <2>1, <2>2
<1>6. Locked(most, least, ratio) = l + kept
  BY <1>1, <1>2, <1>4, <1>5 DEF Locked
<1>7. l + reserve <= value
  BY <1>5, <1>6
<1>8. PICK x \in Nat : x = l + reserve
  OBVIOUS
<1>9. PICK lb \in Nat, rb \in Nat : lb = l * b /\ rb = b * reserve
  BY ProductNat
<1>10. x * b = lb + rb /\ l * c = lb + p
  BY <1>1, <1>2, <1>8, <1>9
<1>11. l * c <= x * b
  BY <1>4, <1>9, <1>10
<1>12. x * b <= value * b /\ value * b \in Nat /\ x * b \in Nat /\ value * g \in Nat
       /\ l * c \in Nat
  BY <1>7, <1>8, ProductMonotone, ProductNat
<1>13. value * (b + g) = value * b + value * g /\ b + g = TotalBasisPoints - threshold
  BY <1>1, HubConstants
<1>14. l * c <= value * (TotalBasisPoints - threshold)
  BY <1>11, <1>12, <1>13
<1>15. threshold < TotalBasisPoints
  BY HubConstants
<1>16. Safe(most, value, threshold)
  BY <1>1, <1>14, <1>15, SafeMeans
<1> QED BY <1>15, <1>16, SafeMonotone

\* A payment leaves a safe liability safe, but for a wei.
LEMMA SafePaid ==
  ASSUME NEW owed \in Nat, NEW value \in Nat, NEW n \in Nat, n <= owed,
         NEW threshold \in Nat, threshold < TotalBasisPoints,
         NEW paid \in Nat, paid = PooledEthBySharesRoundUp(n), paid <= value,
         Safe(owed, value, threshold),
         NEW left \in Nat, left = owed - n, NEW rest \in Nat, rest = value - paid
  PROVE  PooledEthBySharesRoundUp(left) - 1
           <= (rest * (TotalBasisPoints - threshold)) \div TotalBasisPoints
<1>1. PICK c \in Nat \ {0}, b \in Nat, k \in Nat, l \in Nat :
        /\ c = TotalBasisPoints /\ b = c - threshold /\ b <= c
        /\ k = PooledEthBySharesRoundUp(owed) /\ l = PooledEthBySharesRoundUp(left)
  BY PointsLeft, RoundUpNat
<1>2. l <= k - paid + 1
  BY <1>1, RoundUpDifference
<1>3. k * c <= value * b
  BY <1>1, SafeMeans
<1>4. paid <= k
  BY <1>1, RoundUpMonotone
<1>5. PICK h \in Nat : h = k - paid
  BY <1>4
<1>6. PICK kc \in Nat, pc \in Nat, pb \in Nat, vb \in Nat, a \in Nat :
        /\ kc = k * c /\ pc = paid * c /\ pb = paid * b /\ vb = value * b /\ a = rest * b
  BY ProductNat
<1>7. h * c = kc - pc /\ a = vb - pb
  BY <1>5, <1>6
<1>8. pb <= pc
  <2>1. b * paid <= c * paid
    BY <1>1, ProductMonotone
  <2> QED BY <1>6, <2>1
<1>9. h * c <= a
  BY <1>3, <1>6, <1>7, <1>8
<1>10. PICK quotient \in Nat : quotient = a \div c /\ h <= quotient
  BY <1>9, QuotientMeans, QuotientNat
<1>11. l - 1 <= quotient
  BY <1>2, <1>5, <1>10
<1> QED BY <1>1, <1>6, <1>10, <1>11

\* What a step may not do to the health of vault v.
HealthStays(v) ==
  LET r == records'[v]
      rounding == IF r.liabilityShares < records[v].liabilityShares THEN 1 ELSE 0
      threshold == connections'[v].forcedRebalanceThresholdBP
  IN  /\ Connected(v) /\ Connected(v)'
      /\ r.timestamp = records[v].timestamp
      /\ threshold = connections[v].forcedRebalanceThresholdBP
      /\ r.liabilityShares > records[v].liabilityShares => externalShares' # externalShares
      /\ HealthyVault(v)
      => PooledEthBySharesRoundUp(r.liabilityShares) - rounding
           <= (TotalValue(r) * (TotalBasisPoints - threshold)) \div TotalBasisPoints

ValuesTyped ==
  \A v \in Vaults : /\ records[v] \in Records
                    /\ Connected(v) => TotalValue(records[v]) \in Nat

LEMMA TypedValues == Inv => ValuesTyped
BY RecordOf, ConnectedValue DEF ValuesTyped

LEMMA TypedValuesNext == Inv' => ValuesTyped'
BY TypedValues, PTL

LEMMA ThresholdTyped ==
  ASSUME Inv, NEW v \in Vaults, Connected(v)
  PROVE  /\ connections[v].forcedRebalanceThresholdBP \in Nat
         /\ connections[v].forcedRebalanceThresholdBP < connections[v].reserveRatioBP
         /\ connections[v].forcedRebalanceThresholdBP < TotalBasisPoints
<1>1. /\ connections[v].forcedRebalanceThresholdBP \in Nat /\ connections[v].reserveRatioBP \in Nat
      /\ connections[v].reserveRatioBP \in 1..(TotalBasisPoints - 1)
      /\ connections[v].forcedRebalanceThresholdBP < connections[v].reserveRatioBP
  BY ConnectionParts DEF Connections, TermsOK
<1> QED BY <1>1, HubConstants

LEMMA HealthyIsSafe ==
  ASSUME Inv, NEW v \in Vaults, Connected(v), HealthyVault(v)
  PROVE  Safe(records[v].liabilityShares, TotalValue(records[v]),
              connections[v].forcedRebalanceThresholdBP)
<1>1. PICK owed \in Nat, value \in Nat, threshold \in Nat :
        /\ owed = records[v].liabilityShares /\ value = TotalValue(records[v])
        /\ threshold = connections[v].forcedRebalanceThresholdBP
        /\ threshold < TotalBasisPoints
  BY RecordOf, RecordParts, ConnectedValue, ThresholdTyped
<1>2. PICK c \in Nat \ {0}, b \in Nat, k \in Nat :
        /\ c = TotalBasisPoints /\ b = c - threshold
        /\ k = PooledEthBySharesRoundUp(owed)
  BY <1>1, PointsLeft, RoundUpNat
<1>3. PICK a \in Nat : a = value * b
  BY ProductNat
<1>4. PICK q \in Nat : q = a \div c
  BY QuotientNat
<1>5. ~ (k > q)
  BY <1>1, <1>2, <1>3, <1>4 DEF HealthyVault, Healthy, ThresholdBreached
<1>6. k <= q
  BY <1>5
<1> QED BY <1>1, <1>2, <1>3, <1>4, <1>6 DEF Safe

\* A vault whose liability is safe after the step.
LEMMA SafeStays ==
  ASSUME Inv, Inv', NEW v \in Vaults, Connected(v),
         HealthyVault(v) =>
           Safe(records'[v].liabilityShares, TotalValue(records'[v]),
                connections[v].forcedRebalanceThresholdBP)
  PROVE  HealthStays(v)
<1>1. PICK threshold \in Nat : /\ threshold = connections[v].forcedRebalanceThresholdBP
                               /\ threshold < TotalBasisPoints
  BY ThresholdTyped
<1>2. PICK r \in Records : r = records'[v]
  BY TypedValuesNext DEF ValuesTyped
<1>3. PICK before \in Nat, after \in Nat :
        before = records[v].liabilityShares /\ after = r.liabilityShares
  BY <1>2, RecordOf, RecordParts
<1>4. PICK rounding \in Nat : rounding = IF after < before THEN 1 ELSE 0
  OBVIOUS
<1>5. SUFFICES ASSUME Connected(v)', HealthyVault(v)
               PROVE  PooledEthBySharesRoundUp(after) - rounding
                        <= (TotalValue(r) * (TotalBasisPoints - threshold)) \div TotalBasisPoints
  BY <1>1, <1>2, <1>3, <1>4 DEF HealthStays
<1>6. PICK value \in Nat : value = TotalValue(r)
  BY <1>2, <1>5, TypedValuesNext DEF ValuesTyped
<1>7. PICK k \in Nat, b \in Nat, c \in Nat \ {0} :
        /\ k = PooledEthBySharesRoundUp(after) /\ c = TotalBasisPoints /\ b = c - threshold
  BY <1>1, RoundUpNat, PointsLeft
<1>8. PICK a \in Nat : a = value * b
  BY ProductNat
<1>9. PICK q \in Nat : q = a \div c
  BY QuotientNat
<1>10. k <= q
  BY <1>1, <1>2, <1>3, <1>5, <1>6, <1>7, <1>8, <1>9 DEF Safe
<1>11. k - rounding <= q
  BY <1>10
<1> QED BY <1>6, <1>7, <1>8, <1>9, <1>11

\* A vault that owes no more and is worth no less.
LEMMA EasedStays ==
  ASSUME Inv, Inv', NEW v \in Vaults,
         records'[v].liabilityShares <= records[v].liabilityShares,
         TotalValue(records[v]) <= TotalValue(records'[v])
  PROVE  HealthStays(v)
<1>1. SUFFICES ASSUME Connected(v), Connected(v)' PROVE HealthStays(v)
  BY DEF HealthStays
<1>2. PICK owed \in Nat, value \in Nat, less \in Nat, more \in Nat, threshold \in Nat :
        /\ owed = records[v].liabilityShares /\ value = TotalValue(records[v])
        /\ less = records'[v].liabilityShares /\ more = TotalValue(records'[v])
        /\ threshold = connections[v].forcedRebalanceThresholdBP
        /\ threshold < TotalBasisPoints
  <2>1. records'[v] \in Records /\ TotalValue(records'[v]) \in Nat
    BY <1>1, TypedValuesNext DEF ValuesTyped
  <2> QED BY <1>1, <2>1, RecordOf, RecordParts, ConnectedValue, ThresholdTyped
<1>3. HealthyVault(v) => Safe(owed, value, threshold)
  BY <1>1, <1>2, HealthyIsSafe
<1>4. HealthyVault(v) => Safe(less, more, threshold)
  BY <1>2, <1>3, SafeMonotone
<1> QED BY <1>1, <1>2, <1>4, SafeStays

LEMMA UntouchedStays ==
  ASSUME Inv, Inv', NEW v \in Vaults, records'[v] = records[v]
  PROVE  HealthStays(v)
<1>1. records[v].liabilityShares \in Nat /\ TotalValue(records[v]) \in Int
  BY RecordOf, RecordParts
<1> QED BY <1>1, EasedStays

LEMMA UntouchedAll ==
  ASSUME Inv, Inv', UNCHANGED records
  PROVE  HealthKeptStep
BY UntouchedStays DEF HealthKeptStep, HealthStays

\* A step that changes the record of vault v alone.
LEMMA OneRecord ==
  ASSUME Inv, Inv', NEW v \in Vaults, NEW r, SetRecord(v, r), HealthStays(v)
  PROVE  HealthKeptStep
<1>1. records' = [records EXCEPT ![v] = r] /\ DOMAIN records = Vaults
  BY DEF SetRecord, Inv, RecordsOK
<1>2. \A w \in Vaults : w # v => records'[w] = records[w]
  BY <1>1
<1>3. \A w \in Vaults : HealthStays(w)
  BY <1>2, UntouchedStays
<1> QED BY <1>3 DEF HealthKeptStep, HealthStays

LEMMA RecordRead ==
  ASSUME Inv, NEW v \in Vaults, NEW r, SetRecord(v, r)
  PROVE  records'[v] = r
BY DEF SetRecord, Inv, RecordsOK

LEMMA EasedRecord ==
  ASSUME Inv, Inv', NEW v \in Vaults, NEW r, SetRecord(v, r),
         r.liabilityShares <= records[v].liabilityShares,
         TotalValue(records[v]) <= TotalValue(r)
  PROVE  HealthKeptStep
BY RecordRead, EasedStays, OneRecord

LEMMA SafeRecord ==
  ASSUME Inv, Inv', NEW v \in Vaults, Connected(v), NEW r, SetRecord(v, r),
         HealthyVault(v) => Safe(r.liabilityShares, TotalValue(r),
                                 connections[v].forcedRebalanceThresholdBP)
  PROVE  HealthKeptStep
BY RecordRead, SafeStays, OneRecord

LEMMA DeltaValue ==
  ASSUME NEW r, GoodRecord(r), RefSlot \in Nat \ {0}, NEW d \in Int,
         NEW n, n \in Records, SameValue(n, r),
         n.inOutDelta = WithDoubleIncrease(r.inOutDelta, RefSlot, d)
  PROVE  TotalValue(n) = TotalValue(r) + d
<1>1. CurrentValue(n.inOutDelta) = CurrentValue(r.inOutDelta) + d
  BY CacheIncreased, RecordParts DEF GoodRecord
<1>2. CurrentValue(r.inOutDelta) \in Int /\ r.totalValue \in Nat /\ r.reportInOutDelta \in Int
  BY CacheParts, RecordParts DEF GoodRecord
<1> QED BY <1>1, <1>2 DEF TotalValue, SameValue

\* What may be withdrawn, fees included, leaves what is locked.
LEMMA LockedStays ==
  ASSUME Inv, NEW v \in Vaults, Connected(v), NEW n \in Nat, n > 0,
         n <= WithdrawableFeesIncluded(v, connections[v], records[v])
  PROVE  LockedOf(connections[v], records[v]) <= TotalValue(records[v]) - n
<1> DEFINE r == records[v]
           c == connections[v]
<1>1. PICK value \in Nat, b \in Nat, shares \in Nat, redeemable \in Nat, least \in Nat :
        /\ value = TotalValue(r) /\ b = balance[v] /\ shares = r.maxLiabilityShares
        /\ redeemable = r.redemptionShares /\ least = r.minimalReserve
  BY ConnectedValue, RecordOf, RecordParts DEF Inv, RestOK
<1>2. PICK ratio \in 1..(TotalBasisPoints - 1) : ratio = c.reserveRatioBP
  BY ConnectionParts
<1>3. PICK locked \in Nat : locked = LockedOf(c, r)
  BY <1>1, <1>2, LockedNat DEF LockedOf
<1>4. PICK redeemed \in Nat : redeemed = PooledEthBySharesRoundUp(redeemable)
  BY RoundUpNat
<1>5. PICK available \in Int : available = Min({b, value})
  <2>1. b \in Int /\ value \in Int
    OBVIOUS
  <2>2. Min({b, value}) \in {b, value}
    BY ONLY <2>1, MinOfTwo
  <2> QED BY <2>2
<1>6. PICK free \in Int : free = value - locked
  OBVIOUS
<1>7. PICK unlocked \in Int : unlocked = Max({0, free}) /\ (unlocked > 0 => unlocked = free)
  <2>1. 0 \in Int /\ free \in Int
    OBVIOUS
  <2>2. Max({0, free}) \in {0, free}
    BY ONLY <2>1, MaxOfTwo
  <2> QED BY <2>2
<1>8. PICK spare \in Int : spare = available - redeemed
  OBVIOUS
<1>9. PICK smaller \in Int : smaller = Min({spare, unlocked}) /\ smaller <= unlocked
  <2>1. spare \in Int /\ unlocked \in Int
    OBVIOUS
  <2>2. Min({spare, unlocked}) \in {spare, unlocked} /\ Min({spare, unlocked}) <= unlocked
    BY ONLY <2>1, MinOfTwo
  <2> QED BY <2>2
<1>10. WithdrawableFeesIncluded(v, c, r) = IF redeemed > available THEN 0 ELSE smaller
  BY <1>1, <1>3, <1>4, <1>5, <1>6, <1>7, <1>8, <1>9 DEF WithdrawableFeesIncluded
<1>11. n <= unlocked
  BY <1>9, <1>10
<1>12. n <= free
  BY <1>7, <1>11
<1> QED BY <1>1, <1>3, <1>6, <1>12

\* A vault that keeps what is locked is safe.
LEMMA LockedKeepsSafe ==
  ASSUME Inv, NEW v \in Vaults, Connected(v), NEW value \in Nat,
         LockedOf(connections[v], records[v]) <= value
  PROVE  Safe(records[v].liabilityShares, value, connections[v].forcedRebalanceThresholdBP)
<1>1. PICK owed \in Nat, most \in Nat, least \in Nat :
        /\ owed = records[v].liabilityShares /\ most = records[v].maxLiabilityShares
        /\ least = records[v].minimalReserve /\ owed <= most
  BY RecordOf, RecordParts
<1>2. PICK ratio \in 1..(TotalBasisPoints - 1), threshold \in Nat :
        /\ ratio = connections[v].reserveRatioBP
        /\ threshold = connections[v].forcedRebalanceThresholdBP
        /\ threshold < ratio
  BY ConnectionParts, ThresholdTyped
<1>3. Locked(most, least, ratio) <= value
  BY <1>1, <1>2 DEF LockedOf
<1> QED BY <1>1, <1>2, <1>3, SafeLocked

LEMMA HealthFund ==
  ASSUME Inv, Inv', NEW v \in Vaults, NEW n \in Amounts, Fund(v, n)
  PROVE  HealthKeptStep
<1>1. PICK r : r = InOutDeltaChanged(records[v], n)
  OBVIOUS
<1>2. n \in Nat /\ n \in Int /\ SetRecord(v, r)
  BY <1>1, HubConstants DEF Fund
<1>3. /\ GoodRecord(r) /\ SameValue(r, records[v])
      /\ r.inOutDelta = WithDoubleIncrease(records[v].inOutDelta, RefSlot, n)
      /\ r.liabilityShares = records[v].liabilityShares
  BY <1>1, <1>2, StoredGood, DeltaChanged
<1>4. TotalValue(r) = TotalValue(records[v]) + n
  BY <1>2, <1>3, StoredGood, DeltaValue DEF GoodRecord
<1>5. records[v].liabilityShares \in Nat /\ TotalValue(records[v]) \in Int
  BY RecordOf, RecordParts
<1>6. /\ r.liabilityShares <= records[v].liabilityShares
      /\ TotalValue(records[v]) <= TotalValue(r)
  BY <1>2, <1>3, <1>4, <1>5
<1> QED BY <1>2, <1>6, EasedRecord

\* Ether that leaves within what may be withdrawn.
LEMMA HealthOutflow ==
  ASSUME Inv, Inv', NEW v \in Vaults, Connected(v), NEW n \in Nat, n > 0,
         n <= WithdrawableFeesIncluded(v, connections[v], records[v]), n <= TotalValue(records[v]),
         NEW r \in Records, SetRecord(v, r), SameValue(r, records[v]),
         r.liabilityShares = records[v].liabilityShares,
         r.inOutDelta = WithDoubleIncrease(records[v].inOutDelta, RefSlot, -n)
  PROVE  HealthKeptStep
<1>1. PICK d \in Int : d = -n
  OBVIOUS
<1>2. TotalValue(r) = TotalValue(records[v]) + d
  BY <1>1, StoredGood, DeltaValue
<1>3. PICK value \in Nat : value = TotalValue(r) /\ value = TotalValue(records[v]) - n
  BY <1>1, <1>2, ConnectedValue
<1>4. LockedOf(connections[v], records[v]) <= value
  BY <1>3, LockedStays
<1>5. Safe(r.liabilityShares, TotalValue(r), connections[v].forcedRebalanceThresholdBP)
  BY <1>3, <1>4, LockedKeepsSafe
<1> QED BY <1>5, SafeRecord

LEMMA HealthWithdraw ==
  ASSUME Inv, Inv', NEW v \in Vaults, NEW n \in Amounts, Withdraw(v, n)
  PROVE  HealthKeptStep
<1>1. PICK d \in Int : d = -n
  BY HubConstants
<1>2. PICK r : r = InOutDeltaChanged(records[v], d)
  OBVIOUS
<1>3. /\ Connected(v) /\ SetRecord(v, r) /\ n <= TotalValue(records[v])
      /\ n <= WithdrawableValue(v, connections[v], records[v]) /\ n \in Nat /\ n > 0
  BY <1>1, <1>2, HubConstants DEF Withdraw, CanWithdraw, InUse
<1>4. /\ GoodRecord(r) /\ SameValue(r, records[v])
      /\ r.inOutDelta = WithDoubleIncrease(records[v].inOutDelta, RefSlot, d)
      /\ r.liabilityShares = records[v].liabilityShares
  BY <1>2, StoredGood, DeltaChanged
<1>5. n <= WithdrawableFeesIncluded(v, connections[v], records[v])
  <2>1. PICK most \in Int : most = WithdrawableFeesIncluded(v, connections[v], records[v])
    BY <1>3, WithdrawableInt
  <2>2. PICK fees \in Nat : fees = UnsettledLidoFees(records[v])
    BY UnsettledNat
  <2>3. PICK free \in Int : free = most - fees
    OBVIOUS
  <2>4. Max({0, free}) \in {0, free}
    <3>1. 0 \in Int /\ free \in Int
      OBVIOUS
    <3> QED BY ONLY <3>1, MaxOfTwo
  <2>5. WithdrawableValue(v, connections[v], records[v]) = Max({0, free})
    BY <2>1, <2>2, <2>3 DEF WithdrawableValue
  <2> QED BY <1>3, <2>1, <2>2, <2>3, <2>4, <2>5
<1>6. r.inOutDelta = WithDoubleIncrease(records[v].inOutDelta, RefSlot, -n) /\ r \in Records
  BY <1>1, <1>4 DEF GoodRecord
<1> QED BY <1>3, <1>4, <1>5, <1>6, HealthOutflow

\* A mint locks what it is safe against.
LEMMA HealthMint ==
  ASSUME Inv, Inv', NEW v \in Vaults, NEW n \in ShareAmounts, MintShares(v, n)
  PROVE  HealthKeptStep
<1>1. PICK r : r = LiabilityIncreased(records[v], n)
  OBVIOUS
<1>2. Connected(v) /\ n \in Nat /\ SetRecord(v, r)
  BY <1>1, HubConstants DEF MintShares, InUse
<1>3. PICK value \in Nat, owed \in Nat, least \in Nat, unsettled \in Nat :
        /\ value = TotalValue(records[v]) /\ owed = records[v].liabilityShares + n
        /\ least = records[v].minimalReserve /\ unsettled = UnsettledLidoFees(records[v])
  BY <1>2, ConnectedValue, UnsettledNat, RecordOf, RecordParts
<1>4. PICK ratio \in 1..(TotalBasisPoints - 1), threshold \in Nat :
        /\ ratio = connections[v].reserveRatioBP
        /\ threshold = connections[v].forcedRebalanceThresholdBP
        /\ threshold < ratio
  BY <1>2, ConnectionParts, ThresholdTyped
<1>5. Locked(owed, least, ratio) <= MaxLockableValue(records[v])
  BY <1>3, <1>4 DEF MintShares
<1>6. PICK most \in Int : most = MaxLockableValue(records[v]) /\ most <= value
  <2>1. PICK free \in Int : free = value - unsettled
    OBVIOUS
  <2>2. Max({0, free}) \in {0, free}
    BY MaxOfTwo
  <2>3. Max({0, free}) \in Int /\ Max({0, free}) <= value
    BY <1>3, <2>1, <2>2
  <2> QED BY <1>3, <2>1, <2>3 DEF MaxLockableValue
<1>7. Locked(owed, least, ratio) <= value
  <2>1. PICK locked \in Nat : locked = Locked(owed, least, ratio)
    BY LockedNat
  <2> QED BY <1>5, <1>6, <2>1
<1>8. Safe(owed, value, threshold)
  <2>1. owed <= owed
    OBVIOUS
  <2> QED BY <1>4, <1>7, <2>1, SafeLocked
<1>9. r.liabilityShares = owed /\ TotalValue(r) = value
  BY <1>1, <1>2, <1>3, StoredGood, LiabilityUp, ValueUnmoved
<1> QED BY <1>2, <1>4, <1>8, <1>9, SafeRecord

\* A fall of the liability alone.
LEMMA HealthDecreased ==
  ASSUME Inv, Inv', NEW v \in Vaults, NEW n \in Nat, n <= records[v].liabilityShares,
         SetRecord(v, LiabilityDecreased(records[v], n))
  PROVE  HealthKeptStep
<1>1. PICK r : r = LiabilityDecreased(records[v], n)
  OBVIOUS
<1>2. /\ SameValue(r, records[v]) /\ r.inOutDelta = records[v].inOutDelta
      /\ r.liabilityShares = records[v].liabilityShares - n
  BY <1>1, StoredGood, LiabilityDown
<1>3. records[v].liabilityShares \in Nat /\ TotalValue(records[v]) \in Int
  BY RecordOf, RecordParts
<1>4. TotalValue(r) = TotalValue(records[v])
  BY <1>2, ValueUnmoved
<1>5. /\ r.liabilityShares <= records[v].liabilityShares
      /\ TotalValue(records[v]) <= TotalValue(r)
  BY <1>2, <1>3, <1>4
<1> QED BY <1>1, <1>5, EasedRecord

\* A payment costs the ether of its shares, rounded up.
LEMMA HealthPayment ==
  ASSUME Inv, Inv', NEW v \in Vaults, Connected(v), NEW n \in Nat, n > 0, PayLiability(v, n)
  PROVE  HealthKeptStep
<1>1. PICK paid \in Nat : paid = PooledEthBySharesRoundUp(n)
  BY RoundUpNat
<1>2. PICK d \in Int : d = -paid
  OBVIOUS
<1>3. PICK m : m = LiabilityDecreased(records[v], n)
  OBVIOUS
<1>4. PICK r : r = InOutDeltaChanged(m, d)
  OBVIOUS
<1>5. /\ n <= records[v].liabilityShares /\ paid <= TotalValue(records[v])
      /\ SetRecord(v, r)
  BY <1>1, <1>2, <1>3, <1>4 DEF PayLiability, CanWithdraw
<1>6. /\ GoodRecord(m) /\ SameValue(m, records[v]) /\ m.inOutDelta = records[v].inOutDelta
      /\ m.liabilityShares = records[v].liabilityShares - n
  BY <1>3, <1>5, StoredGood, LiabilityDown
<1>7. /\ GoodRecord(r) /\ SameValue(r, m)
      /\ r.inOutDelta = WithDoubleIncrease(m.inOutDelta, RefSlot, d)
      /\ r.liabilityShares = m.liabilityShares
  BY <1>4, <1>6, StoredGood, DeltaChanged
<1>8. TotalValue(r) = TotalValue(records[v]) + d
  <2>1. TotalValue(r) = TotalValue(m) + d
    BY <1>6, <1>7, StoredGood, DeltaValue DEF GoodRecord
  <2> QED BY <1>6, <2>1, ValueUnmoved
<1>9. PICK owed \in Nat, value \in Nat, threshold \in Nat :
        /\ owed = records[v].liabilityShares /\ value = TotalValue(records[v])
        /\ threshold = connections[v].forcedRebalanceThresholdBP
        /\ threshold < TotalBasisPoints
  BY RecordOf, RecordParts, ConnectedValue, ThresholdTyped
<1>10. PICK left \in Nat, rest \in Nat : left = owed - n /\ rest = value - paid
  BY <1>5, <1>9
<1>11. r.liabilityShares = left /\ TotalValue(r) = rest /\ records'[v] = r
  BY <1>2, <1>5, <1>6, <1>7, <1>8, <1>9, <1>10, RecordRead
<1>12. ASSUME HealthyVault(v)
       PROVE  PooledEthBySharesRoundUp(left) - 1
                <= (rest * (TotalBasisPoints - threshold)) \div TotalBasisPoints
  <2>1. Safe(owed, value, threshold)
    BY <1>9, <1>12, HealthyIsSafe
  <2> QED BY <1>1, <1>5, <1>9, <1>10, <2>1, SafePaid
<1>13. left < owed
  BY <1>10
<1>14. HealthStays(v)
  BY <1>9, <1>11, <1>12, <1>13 DEF HealthStays
<1> QED BY <1>5, <1>14, OneRecord

LEMMA HealthFees ==
  ASSUME Inv, Inv', NEW v \in Vaults, SettleLidoFees(v)
  PROVE  HealthKeptStep
<1>1. PICK n : /\ n = Min({WithdrawableFeesIncluded(v, connections[v], records[v]),
                            UnsettledLidoFees(records[v])})
               /\ n > 0 /\ Connected(v) /\ PayFees(v, connections[v], n)
  BY DEF SettleLidoFees, InUse
<1>2. PICK most \in Int : most = WithdrawableFeesIncluded(v, connections[v], records[v])
  BY <1>1, WithdrawableInt
<1>3. PICK unsettled \in Nat : unsettled = UnsettledLidoFees(records[v])
  BY UnsettledNat
<1>4. n \in {most, unsettled} /\ n <= unsettled /\ n <= most
  <2>1. most \in Int /\ unsettled \in Int /\ n = Min({most, unsettled})
    BY <1>1, <1>2, <1>3
  <2> QED BY ONLY <2>1, MinOfTwo
<1>5. n \in Nat
  BY <1>1, <1>4
<1>6. PICK r : r = FeesSettled(records[v], n)
  OBVIOUS
<1>7. SetRecord(v, r) /\ n <= TotalValue(records[v])
  BY <1>1, <1>6 DEF PayFees, CanWithdraw
<1>8. /\ GoodRecord(r) /\ SameValue(r, records[v])
      /\ r.inOutDelta = WithDoubleIncrease(records[v].inOutDelta, RefSlot, -n)
      /\ r.liabilityShares = records[v].liabilityShares
  BY <1>3, <1>4, <1>5, <1>6, StoredGood, FeesUp
<1>9. n <= WithdrawableFeesIncluded(v, connections[v], records[v]) /\ r \in Records
  BY <1>2, <1>4, <1>8 DEF GoodRecord
<1> QED BY <1>1, <1>5, <1>7, <1>8, <1>9, HealthOutflow

\* A vault that disconnects owes nothing.
LEMMA HealthDisconnection ==
  ASSUME Inv, Inv', NEW v \in Vaults, NEW full \in BOOLEAN, InitiateDisconnection(v, full)
  PROVE  HealthKeptStep
<1>1. CASE UNCHANGED records
  BY <1>1, UntouchedAll
<1>2. ASSUME NEW n, PayFees(v, connections[v], n) PROVE HealthKeptStep
  <2>1. PICK r : r = FeesSettled(records[v], n)
    OBVIOUS
  <2>2. SetRecord(v, r)
    BY <1>2, <2>1 DEF PayFees
  <2>3. r.liabilityShares = 0 /\ Connected(v)
    BY <2>1, RecordOf, LiabilityAfter DEF InitiateDisconnection, InUse
  <2>4. PICK threshold \in Nat : /\ threshold = connections[v].forcedRebalanceThresholdBP
                                 /\ threshold < TotalBasisPoints
    BY <2>3, ThresholdTyped
  <2>5. records'[v] = r
    BY <2>2, RecordRead
  <2>6. CASE ~ Connected(v)'
    <3>1. HealthStays(v)
      BY <2>6 DEF HealthStays
    <3> QED BY <2>2, <3>1, OneRecord
  <2>7. CASE Connected(v)'
    <3>1. PICK value \in Nat : value = TotalValue(r)
      BY <2>5, <2>7, TypedValuesNext DEF ValuesTyped
    <3>2. PICK k \in Nat, b \in Nat, c \in Nat \ {0} :
            /\ k = PooledEthBySharesRoundUp(0) /\ c = TotalBasisPoints /\ b = c - threshold
      BY <2>4, RoundUpNat, PointsLeft
    <3>3. k = 0
      <4>1. 0 * RateEther <= 0 * RateShares /\ 0 \in Nat
        BY HubConstants
      <4>2. PooledEthBySharesRoundUp(0) <= 0
        BY <4>1, RoundUpLeast
      <4> QED BY <3>2, <4>2
    <3>4. k * c = 0 /\ value * b \in Nat
      BY <3>3, ProductNat
    <3>5. PooledEthBySharesRoundUp(0) * TotalBasisPoints
            <= value * (TotalBasisPoints - threshold)
      BY <3>2, <3>4
    <3>6. Safe(0, value, threshold)
      BY <2>4, <3>5, SafeMeans
    <3> QED BY <2>2, <2>3, <2>4, <3>1, <3>6, SafeRecord
  <2> QED BY <2>6, <2>7
<1> QED BY <1>1, <1>2 DEF InitiateDisconnection

LEMMA HealthTarget ==
  ASSUME Inv, Inv', NEW v \in Vaults, NEW target \in Targets,
         SetLiabilitySharesTarget(v, target)
  PROVE  HealthKeptStep
<1>1. PICK redeemed, r : /\ r = [records[v] EXCEPT !.redemptionShares = redeemed]
                         /\ SetRecord(v, r)
  BY DEF SetLiabilitySharesTarget
<1>2. SetRecord(v, r)
  BY <1>1
<1>3. /\ SameValue(r, records[v]) /\ r.inOutDelta = records[v].inOutDelta
      /\ r.liabilityShares = records[v].liabilityShares
  BY <1>1, RecordOf DEF Records, SameValue
<1>4. TotalValue(r) = TotalValue(records[v])
  BY <1>3, ValueUnmoved
<1>5. records[v].liabilityShares \in Nat /\ TotalValue(records[v]) \in Int
  BY RecordOf, RecordParts
<1>6. /\ r.liabilityShares <= records[v].liabilityShares
      /\ TotalValue(records[v]) <= TotalValue(r)
  BY <1>3, <1>4, <1>5
<1> QED BY <1>2, <1>6, EasedRecord

LEMMA HealthInternalized ==
  ASSUME Inv, Inv', NEW v \in Vaults, NEW k \in ShareAmounts, InternalizeBadDebt(v, k)
  PROVE  HealthKeptStep
<1>1. PICK n : /\ n = Min({BadDebtShares(records[v]), k}) /\ Connected(v)
               /\ SetRecord(v, LiabilityDecreased(records[v], n))
  BY DEF InternalizeBadDebt
<1>2. PICK bad \in Nat, owed \in Nat :
        /\ bad = BadDebtShares(records[v]) /\ owed = records[v].liabilityShares /\ bad <= owed
  BY <1>1, BadDebtParts, RecordOf, RecordParts
<1>3. n \in {bad, k} /\ n <= bad /\ k \in Nat
  <2>1. bad \in Int /\ k \in Int /\ k \in Nat /\ n = Min({bad, k})
    BY <1>1, <1>2, HubConstants
  <2> QED BY ONLY <2>1, MinOfTwo
<1>4. n \in Nat /\ n <= records[v].liabilityShares
  BY <1>2, <1>3
<1> QED BY <1>1, <1>4, HealthDecreased

\* Both vaults of a socialization: the one owes less; the acceptor owes more
\* while the external shares are what they were.
LEMMA HealthSocialized ==
  ASSUME Inv, Inv', NEW v \in Vaults, NEW w \in Vaults, NEW k \in ShareAmounts,
         SocializeBadDebt(v, w, k)
  PROVE  HealthKeptStep
<1>1. PICK n : /\ n = Min({BadDebtShares(records[v]), k, AcceptorCapacity(w)})
               /\ n > 0 /\ v # w /\ Connected(v) /\ Connected(w)
               /\ records' = [records EXCEPT ![v] = LiabilityDecreased(records[v], n),
                                             ![w] = LiabilityIncreased(records[w], n)]
               /\ UNCHANGED externalShares
  BY DEF SocializeBadDebt
<1>2. PICK bad \in Nat, capacity \in Nat, owed \in Nat :
        /\ bad = BadDebtShares(records[v]) /\ capacity = AcceptorCapacity(w)
        /\ owed = records[v].liabilityShares /\ bad <= owed
  BY <1>1, BadDebtParts, CapacityParts, RecordOf, RecordParts
<1>3. n \in Nat /\ n <= bad
  <2>1. bad \in Int /\ k \in Int /\ capacity \in Int /\ n = Min({bad, k, capacity})
    BY <1>1, <1>2, HubConstants
  <2>2. n \in {bad, k, capacity} /\ n <= bad
    BY ONLY <2>1, MinOfThree
  <2> QED BY <1>2, <2>2, HubConstants
<1>4. PICK down, up : down = LiabilityDecreased(records[v], n)
                      /\ up = LiabilityIncreased(records[w], n)
  OBVIOUS
<1>5. \A x \in Vaults : records'[x] = IF x = w THEN up ELSE IF x = v THEN down ELSE records[x]
  <2>1. records' = [records EXCEPT ![v] = down, ![w] = up] /\ DOMAIN records = Vaults
    BY <1>1, <1>4 DEF Inv, RecordsOK
  <2> QED BY <1>1, <2>1
<1>6. HealthStays(v)
  <2>1. n <= records[v].liabilityShares
    BY <1>2, <1>3
  <2>2. /\ SameValue(down, records[v]) /\ down.inOutDelta = records[v].inOutDelta
        /\ down.liabilityShares = records[v].liabilityShares - n
    BY <1>3, <1>4, <2>1, StoredGood, LiabilityDown
  <2>3. records[v].liabilityShares \in Nat /\ TotalValue(records[v]) \in Int
    BY RecordOf, RecordParts
  <2>4. TotalValue(down) = TotalValue(records[v])
    BY <2>2, ValueUnmoved
  <2>5. records'[v] = down
    BY <1>1, <1>5
  <2> QED BY <1>3, <2>2, <2>3, <2>4, <2>5, EasedStays
<1>7. HealthStays(w)
  <2>1. records'[w] = up /\ up.liabilityShares = records[w].liabilityShares + n
    BY <1>3, <1>4, <1>5, StoredGood, LiabilityUp
  <2>2. records[w].liabilityShares \in Nat
    BY RecordOf, RecordParts
  <2>3. records'[w].liabilityShares > records[w].liabilityShares
    BY <1>1, <1>3, <2>1, <2>2
  <2> QED BY <1>1, <2>3 DEF HealthStays
<1>8. ASSUME NEW x \in Vaults, x # v, x # w PROVE HealthStays(x)
  BY <1>5, <1>8, UntouchedStays
<1> QED BY <1>6, <1>7, <1>8 DEF HealthKeptStep, HealthStays

LEMMA HealthConnecting ==
  ASSUME Inv, Inv', NEW v \in Vaults, ConnectVault(v)
  PROVE  HealthKeptStep
<1>1. PICK r : r = NewRecord(v)
  OBVIOUS
<1>2. SetRecord(v, r) /\ ~ Connected(v)
  BY <1>1 DEF ConnectVault
<1>3. HealthStays(v)
  BY <1>2 DEF HealthStays
<1> QED BY <1>2, <1>3, OneRecord

\* A report is no step of the owner, and a vault that leaves is out of it.
LEMMA HealthReported ==
  ASSUME Inv, Inv', NEW v \in Vaults, UpdateVaultData(v)
  PROVE  HealthKeptStep
<1>1. PICK leaf, value, delta, q : ApplyVaultReport(v, leaf, value, delta, q)
  BY DEF UpdateVaultData, SanityChecked
<1>2. PICK before \in Nat, seen \in Nat :
        /\ before = records[v].timestamp /\ seen = TimestampOf(vaultsData.refSlot)
        /\ before < seen
  <2>1. vaultsData.refSlot \in Nat
    BY DEF Inv, RestOK
  <2>2. TimestampOf(vaultsData.refSlot) \in Nat
    BY <2>1 DEF TimestampOf
  <2>3. records[v].timestamp \in Nat
    BY RecordOf, RecordParts
  <2> QED BY <2>2, <2>3 DEF UpdateVaultData
<1>3. CASE DeleteVault(v)
  <2>1. PICK r : r = NoRecord
    OBVIOUS
  <2>2. SetRecord(v, r)
    BY <1>3, <2>1 DEF DeleteVault
  <2>3. ~ Connected(v)'
    <3>1. connections' = [[connections EXCEPT ![vaults[Len(vaults)]].vaultIndex
                              = connections[v].vaultIndex] EXCEPT ![v] = NoConnection]
      BY <1>3 DEF DeleteVault, IndicesWithout
    <3>2. DOMAIN connections = Vaults
      BY DEF Inv, RestOK
    <3>3. connections'[v] = NoConnection
      BY <3>1, <3>2
    <3> QED BY <3>3 DEF Connected, NoConnection
  <2>4. HealthStays(v)
    BY <2>3 DEF HealthStays
  <2> QED BY <2>2, <2>4, OneRecord
<1>4. CASE RecordReport(v, leaf, value, delta, q)
  <2>1. PICK r : r = Reported(records[v], leaf, value, delta)
    OBVIOUS
  <2>2. SetRecord(v, r)
    BY <1>4, <2>1 DEF RecordReport
  <2>3. r.timestamp = seen
    BY <1>2, <2>1, RecordOf DEF Reported, Records
  <2>4. records'[v] = r
    BY <2>2, RecordRead
  <2>5. records'[v].timestamp # records[v].timestamp
    BY <1>2, <2>3, <2>4
  <2>6. HealthStays(v)
    BY <2>5 DEF HealthStays
  <2> QED BY <2>2, <2>6, OneRecord
<1> QED BY <1>1, <1>3, <1>4 DEF ApplyVaultReport

LEMMA HealthSteps ==
  ASSUME Inv, Inv', [Next]_vars
  PROVE  HealthKeptStep
<1>1. ASSUME NEW v \in Vaults, OwnerCalls(v) PROVE HealthKeptStep
  <2>1. ASSUME NEW n \in ShareAmounts, BurnShares(v, n) PROVE HealthKeptStep
    <3>1. n \in Nat
      BY HubConstants
    <3>2. n <= records[v].liabilityShares /\ SetRecord(v, LiabilityDecreased(records[v], n))
      BY <2>1 DEF BurnShares
    <3> QED BY <3>1, <3>2, HealthDecreased
  <2>2. ASSUME NEW n \in ShareAmounts, Rebalance(v, n) PROVE HealthKeptStep
    <3>1. n \in Nat /\ n > 0
      BY HubConstants
    <3>2. Connected(v) /\ PayLiability(v, n)
      BY <2>2 DEF Rebalance, InUse
    <3> QED BY <3>1, <3>2, HealthPayment
  <2>3. CASE PauseBeaconChainDeposits(v) \/ ResumeBeaconChainDeposits(v)
    <3>1. UNCHANGED records
      BY <2>3 DEF PauseBeaconChainDeposits, ResumeBeaconChainDeposits
    <3> QED BY <3>1, UntouchedAll
  <2> QED BY <1>1, <2>1, <2>2, <2>3, HealthFund, HealthWithdraw, HealthMint,
             HealthDisconnection DEF OwnerCalls
<1>2. ASSUME NEW v \in Vaults, RoleCalls(v) PROVE HealthKeptStep
  <2>1. CASE ForceRebalance(v)
    <3>1. PICK n \in Nat : Connected(v) /\ PayLiability(v, n) /\ n > 0
      BY <2>1, ForcedPayment
    <3> QED BY <3>1, HealthPayment
  <2> QED BY <1>2, <2>1, HealthFees, HealthDisconnection, HealthTarget, HealthSocialized,
             HealthInternalized DEF RoleCalls
<1>3. CASE \E v \in Vaults : GridCalls(v)
  <2>1. UNCHANGED records
    BY <1>3 DEF GridCalls, ChangeTier, SyncTier, UpdateVaultShareLimit, UpdateConnection
  <2> QED BY <2>1, UntouchedAll
<1>4. CASE \E v \in Vaults : ConnectVault(v) \/ UpdateVaultData(v)
  BY <1>4, HealthConnecting, HealthReported
<1>5. CASE \/ \E v \in Vaults : AcceptOwnership(v) \/ UseOwnVault(v)
           \/ AdministerGrid \/ NextMoment \/ SubmitReport
           \/ \E v \in Vaults : MoveClEther(v) \/ ChangeClEther(v)
           \/ UNCHANGED vars
  <2>1. UNCHANGED records
    BY <1>5 DEF AcceptOwnership, UseOwnVault, AdministerGrid, NextMoment, SubmitReport,
                MoveClEther, ChangeClEther, vars, hubVars
  <2> QED BY <2>1, UntouchedAll
<1> QED BY <1>1, <1>2, <1>3, <1>4, <1>5 DEF Next

-----------------------------------------------------------------------------
(* The ledger of external shares.                                          *)

LiabilityTotalled ==
  MapThenSumSet(LAMBDA v : records[v].liabilityShares, Vaults) = SumOf(Owed, Vaults)

LEMMA LiabilityTotal == LiabilityTotalled
BY LiabilitySum DEF LiabilityTotalled

LEMMA LiabilityTotalNext == LiabilityTotalled'
BY LiabilityTotal, PTL

LedgerBalanced ==
  /\ SumOf(Owed, Vaults) \in Nat /\ badDebtToInternalize.value \in Nat
  /\ externalShares = SumOf(Owed, Vaults) + badDebtToInternalize.value

LEMMA TotalOwed == Inv => LedgerBalanced
BY OwedNat, PartSums DEF Inv, SharesOwned, LedgerBalanced

LEMMA TotalOwedNext == Inv' => LedgerBalanced'
BY TotalOwed, PTL

LEMMA WhoChangesBadDebt ==
  ASSUME [Next]_vars
  PROVE  \/ UNCHANGED badDebtToInternalize
         \/ \E v \in Vaults, k \in ShareAmounts : InternalizeBadDebt(v, k)
         \/ SubmitReport
<1>1. ASSUME NEW v \in Vaults, OwnerCalls(v)
      PROVE  UNCHANGED badDebtToInternalize
  BY <1>1 DEF OwnerCalls, Fund, Withdraw, MintShares, BurnShares, Rebalance, PayLiability,
              PauseBeaconChainDeposits, ResumeBeaconChainDeposits, InitiateDisconnection
<1>2. ASSUME NEW v \in Vaults, RoleCalls(v)
      PROVE  \/ UNCHANGED badDebtToInternalize
             \/ \E k \in ShareAmounts : InternalizeBadDebt(v, k)
  BY <1>2 DEF RoleCalls, ForceRebalance, PayLiability, SettleLidoFees, InitiateDisconnection,
              SetLiabilitySharesTarget, SocializeBadDebt
<1>3. ASSUME NEW v \in Vaults, GridCalls(v)
      PROVE  UNCHANGED badDebtToInternalize
  BY <1>3 DEF GridCalls, ChangeTier, SyncTier, UpdateVaultShareLimit, UpdateConnection
<1>4. ASSUME NEW v \in Vaults, UpdateVaultData(v)
      PROVE  UNCHANGED badDebtToInternalize
  BY <1>4 DEF UpdateVaultData, SanityChecked, ApplyVaultReport, DeleteVault, RecordReport
<1>5. CASE \/ \E v \in Vaults : ConnectVault(v) \/ AcceptOwnership(v) \/ UseOwnVault(v)
           \/ AdministerGrid \/ NextMoment
           \/ \E v \in Vaults : MoveClEther(v) \/ ChangeClEther(v)
           \/ UNCHANGED vars
  BY <1>5 DEF ConnectVault, AcceptOwnership, UseOwnVault, AdministerGrid, NextMoment,
              MoveClEther, ChangeClEther, vars, hubVars
<1> QED BY <1>1, <1>2, <1>3, <1>4, <1>5 DEF Next

-----------------------------------------------------------------------------
(* Theorems.                                                               *)

LEMMA NoRecordGood ==
  /\ NoRecord \in Records /\ NoRecord.liabilityShares = 0
  /\ NoRecord.redemptionShares = 0 /\ NoRecord.maxLiabilityShares = 0
  /\ NoRecord.settledLidoFees = 0 /\ NoRecord.cumulativeLidoFees = 0
  /\ \A slot \in Nat : CachesDated(NoRecord.inOutDelta, slot)
<1>1. PICK caches : caches = InitialDoubleCache(0)
  OBVIOUS
<1>2. /\ caches \in [1..2 -> Caches]
      /\ Active(caches).refSlot = 0 /\ Previous(caches).refSlot = 0
  BY <1>1, NoCaches
<1>3. NoRecord = [totalValue |-> 0, reportInOutDelta |-> 0, timestamp |-> 0,
                  maxLiabilityShares |-> 0, liabilityShares |-> 0, inOutDelta |-> caches,
                  minimalReserve |-> 0, redemptionShares |-> 0,
                  cumulativeLidoFees |-> 0, settledLidoFees |-> 0]
  BY <1>1 DEF NoRecord
<1>4. \A slot \in Nat : CachesDated(NoRecord.inOutDelta, slot)
  BY <1>2, <1>3 DEF CachesDated
<1> QED BY <1>2, <1>3, <1>4 DEF Records

LEMMA InitInv == Init => Inv
<1> SUFFICES ASSUME Init PROVE Inv
  OBVIOUS
<1>1. \A v \in Vaults : ~ Connected(v) /\ connections[v] = NoConnection
  BY DEF Init, Connected, NoConnection
<1>2. RefSlot = 1
  BY DEF Init, RefSlot
<1>3. ListOK
  <2>1. vaults \in Seq(Vaults) /\ Len(vaults) = 0
    BY EmptySeq DEF Init
  <2>2. VaultsIndexed
    BY <1>1, <2>1 DEF VaultsIndexed
  <2>3. ownedByHub \in [Vaults -> BOOLEAN]
    BY DEF Init
  <2> QED BY <1>1, <2>1, <2>2, <2>3 DEF ListOK
<1>4. records = [v \in Vaults |-> NoRecord]
  BY DEF Init
<1>5. RecordsOK
  BY <1>2, <1>4, NoRecordGood DEF RecordsOK, RecordsConsistent
<1>6. \A S \in SUBSET Vaults : SumOf(Owed, S) = 0
  <2>1. ASSUME NEW S \in SUBSET Vaults PROVE IsFiniteSet(S) /\ \A x \in S : Owed[x] = 0
    BY <1>4, NoRecordGood, GridAssumption, FS_Subset DEF Owed
  <2> QED BY <2>1, SumOfZeros
<1>7. GridOK
  <2>1. GridCounts
    <3>1. \A t : OfTier(t) \in SUBSET Vaults
      BY DEF OfTier
    <3>2. \A o : OfGroup(o) \in SUBSET Vaults
      BY DEF OfGroup
    <3> QED BY <1>6, <3>1, <3>2 DEF GridCounts, Init, GridInit
  <2>2. GridTypeOK /\ TiersOfOperators
    BY GridAssumption DEF Init, GridInit, GridTypeOK, TiersOfOperators
  <2> QED BY <2>1, <2>2, GridSums DEF GridOK
<1>8. SharesOwned
  <2>1. SumOf(Owed, Vaults) = 0
    BY <1>6
  <2>2. badDebtToInternalize = [value |-> 0, valueOnRefSlot |-> 0, refSlot |-> 0]
          /\ externalShares = 0 /\ vaultsData.refSlot = 1
    BY DEF Init
  <2> QED BY <1>2, <2>1, <2>2 DEF SharesOwned
<1>9. RestOK
  <2>1. connections \in [Vaults -> Connections]
    BY DEF Init, NoConnection, Connections
  <2>2. RatiosOK /\ OthersOweNothing
    BY <1>1, <1>4, NoRecordGood DEF RatiosOK, OthersOweNothing
  <2>3. NoLeaf \in Leaves
    BY DEF NoLeaf, Leaves
  <2>4. quarantines \in [Vaults -> [pending : Nat, start : Nat, remainder : Nat]]
    BY DEF Init, NoQuarantine
  <2>5. vaultsData \in [refSlot : Nat, leaves : [Vaults -> Leaves]] /\ vaultsData.refSlot = 1
    BY <2>3 DEF Init
  <2>6. /\ depositsPaused \in [Vaults -> BOOLEAN]
        /\ balance \in [Vaults -> Nat] /\ clBalance \in [Vaults -> Nat]
        /\ snapshot \in [Vaults -> Leaves] /\ feesAccrued \in [Vaults -> Nat]
        /\ losses \in [Vaults -> Nat] /\ lossesReported \in [Vaults -> Nat]
        /\ now \in Nat /\ now >= 3
    BY <2>3 DEF Init
  <2> QED BY <1>2, <2>1, <2>2, <2>4, <2>5, <2>6 DEF RestOK
<1>10. ValueOK
  BY <1>1 DEF ValueOK, TotalValueBacked, LeafBacked
<1> QED BY <1>3, <1>5, <1>7, <1>8, <1>9, <1>10 DEF Inv

LEMMA NextInv == Inv /\ [Next]_vars => Inv'
<1> SUFFICES ASSUME Inv, [Next]_vars PROVE Inv'
  OBVIOUS
<1>1. CASE \E v \in Vaults : ConnectVault(v) \/ AcceptOwnership(v) \/ UseOwnVault(v)
  BY <1>1, InvConnect, InvAccept, InvOwnVault
<1>2. ASSUME NEW v \in Vaults, OwnerCalls(v) PROVE Inv'
  <2>1. CASE \E n \in Amounts : Fund(v, n) \/ Withdraw(v, n)
    BY <2>1, InvFund, InvWithdraw
  <2>2. CASE \E n \in ShareAmounts : MintShares(v, n) \/ BurnShares(v, n) \/ Rebalance(v, n)
    BY <2>2, InvMint, InvBurn, InvRebalance
  <2>3. CASE PauseBeaconChainDeposits(v) \/ ResumeBeaconChainDeposits(v)
    BY <2>3, InvPausing
  <2>4. CASE InitiateDisconnection(v, TRUE)
    BY <2>4, InvDisconnection
  <2> QED BY <1>2, <2>1, <2>2, <2>3, <2>4 DEF OwnerCalls
<1>3. ASSUME NEW v \in Vaults, RoleCalls(v) PROVE Inv'
  <2>1. CASE ForceRebalance(v)
    BY <2>1, InvForceRebalance
  <2>2. CASE SettleLidoFees(v) \/ InitiateDisconnection(v, FALSE)
    BY <2>2, InvSettleFees, InvDisconnection
  <2>3. CASE \E n \in Targets : SetLiabilitySharesTarget(v, n)
    BY <2>3, InvTarget
  <2>4. CASE \E a \in Vaults, n \in ShareAmounts : SocializeBadDebt(v, a, n)
    BY <2>4, InvSocialize
  <2>5. CASE \E n \in ShareAmounts : InternalizeBadDebt(v, n)
    BY <2>5, InvInternalize
  <2> QED BY <1>3, <2>1, <2>2, <2>3, <2>4, <2>5 DEF RoleCalls
<1>4. ASSUME NEW v \in Vaults, GridCalls(v) PROVE Inv'
  <2>1. CASE \E t \in Tiers, n \in ShareAmounts : ChangeTier(v, t, n)
    BY <2>1, InvChangeTier
  <2>2. CASE SyncTier(v) \/ \E n \in ShareAmounts : UpdateVaultShareLimit(v, n)
    BY <2>2, InvSyncTier, InvShareLimit
  <2> QED BY <1>4, <2>1, <2>2 DEF GridCalls
<1>5. CASE AdministerGrid \/ NextMoment \/ SubmitReport
  BY <1>5, InvAdminister, InvNextMoment, InvSubmitReport
<1>6. CASE \E v \in Vaults : UpdateVaultData(v) \/ MoveClEther(v) \/ ChangeClEther(v)
  BY <1>6, InvUpdateVault, InvMoveCl, InvChangeCl
<1>7. CASE UNCHANGED vars
  <2>1. /\ UNCHANGED hubVars
        /\ UNCHANGED <<quarantines, vaultsData, snapshot, feesAccrued, now>>
        /\ UNCHANGED lossesReported /\ UNCHANGED <<tierLiability, groupLiability, vaultTier>>
        /\ UNCHANGED <<tierParams, groupLimit, isVaultInJail, ownedByHub, depositsPaused>>
        /\ UNCHANGED <<balance, clBalance, losses>>
    BY <1>7 DEF vars, vaultVars, envVars, lossVars, gridVars, gridParamVars
  <2>2. \A v \in Vaults : Backing(v)' = Backing(v)
    BY <2>1 DEF Backing
  <2> QED BY <2>1, <2>2, OthersTyped, EtherMoves
<1> QED BY <1>1, <1>2, <1>3, <1>4, <1>5, <1>6, <1>7 DEF Next

LEMMA Invariance == Spec => []Inv
  BY InitInv, NextInv, PTL DEF Spec

\* Every reachable state of the hub, the grid, the lazy oracle and the vaults is
\* well typed: no count, record or balance falls below zero.
THEOREM TypeCorrect == Spec => []TypeOK
<1>1. ASSUME NEW c \in [1..2 -> Caches] PROVE c \in Seq(Caches)
  BY SeqDef
<1>2. ASSUME Inv PROVE TypeOK
  <2>1. externalShares \in Nat
    <3>1. SumOf(Owed, Vaults) \in Nat
      BY <1>2, OwedNat, PartSums DEF Inv
    <3> QED BY <1>2, <3>1 DEF Inv, SharesOwned
  <2>2. records \in [Vaults ->
          [totalValue : Nat, reportInOutDelta : Int, timestamp : Nat,
           maxLiabilityShares : Nat, liabilityShares : Nat, inOutDelta : Seq(Caches),
           minimalReserve : Nat, redemptionShares : Nat, cumulativeLidoFees : Nat,
           settledLidoFees : Nat]]
    BY <1>1, <1>2 DEF Inv, RecordsOK, Records
  <2> QED BY <1>2, <2>1, <2>2
          DEF Inv, ListOK, GridOK, GridTypeOK, SharesOwned, RestOK, Connections, TypeOK
<1> QED
  BY <1>2, Invariance, PTL

\* The list of vaults and the index of each stay in step through connections,
\* deletions by swapping and disconnections given up, and in each record what is
\* owed in part is owed.
THEOREM VaultsStayIndexed == Spec => []WellFormed
<1>1. Inv => VaultsIndexed /\ RecordsConsistent
  BY DEF Inv, ListOK, RecordsOK
<1> QED
  BY <1>1, TypeCorrect, Invariance, PTL DEF WellFormed

\* The shares counted under each tier and group are those of its vaults, through
\* mints, burns, write-offs, changes of tier and disconnections.
THEOREM GridCountsExact == Spec => []GridCountsLiability
<1>1. Inv => GridCountsLiability
  BY DEF Inv, GridOK
<1> QED
  BY <1>1, Invariance, PTL

\* The hub never lends against ether that is neither on the vault nor on its
\* validators, but for losses that no report has shown, however calls, reference
\* slots and late reports interleave.
THEOREM TotalValueStaysBacked == Spec => []TotalValueBacked
<1>1. Inv => TotalValueBacked
  BY DEF Inv, ValueOK
<1> QED
  BY <1>1, Invariance, PTL

\* Whoever owes more after a step, by minting or by taking over bad debt, has
\* ether that covers all it owes.
THEOREM DebtGoesWhereCovered == Spec => SocializedBadDebtCarried
<1>1. ASSUME Inv, [Next]_vars, LiabilitiesKept PROVE SocializedBadDebtCarriedStep
  <2>1. \A w \in Vaults : records[w].liabilityShares \in Nat
    BY <1>1, RecordOf, RecordParts
  <2>2. \A w \in Vaults : records'[w].liabilityShares \in Nat
    <3>1. RecordsOK'
      BY <1>1, NextInv DEF Inv
    <3>2. \A w \in Vaults : records'[w] \in Records
      BY <3>1 DEF RecordsOK
    <3> QED BY <3>2, RecordParts
  <2>3. \A w \in Vaults : ~ (records'[w].liabilityShares > records[w].liabilityShares)
    BY <1>1, <2>1, <2>2 DEF LiabilitiesKept
  <2> QED BY <2>3 DEF SocializedBadDebtCarriedStep
<1>2. Inv /\ [Next]_vars => [SocializedBadDebtCarriedStep]_vars
  BY <1>1, WhoOwesMore, MintCovered, SocializingCovered
<1> QED
  BY <1>2, Invariance, PTL DEF Spec, SocializedBadDebtCarried

\* Nothing that the owner or a role does makes a healthy vault unhealthy, but for
\* the wei of liability that rounding a rebalance may cost: what may be withdrawn
\* or minted keeps the reserve, and the reserve is above the threshold.
THEOREM HealthIsKept == Spec => HealthKept
<1>1. Inv /\ Inv' /\ [Next]_vars => [HealthKeptStep]_vars
  BY HealthSteps
<1> QED
  BY <1>1, Invariance, PTL DEF Spec, HealthKept

LEMMA LedgerStarts == Init => Ledger!Init
<1> SUFFICES ASSUME Init PROVE Ledger!Init
  OBVIOUS
<1>1. LedgerBalanced /\ LiabilityTotalled
  BY InitInv, TotalOwed, LiabilityTotal
<1>2. externalShares \in Nat
  BY <1>1 DEF LedgerBalanced
<1> QED BY <1>1, <1>2 DEF Ledger!Init, LedgerBalanced, LiabilityTotalled

\* What external shares and bad debt do decides the step of the ledger, because
\* liabilities are the rest of the external shares before and after.
LEMMA LedgerSteps ==
  ASSUME Inv, [Next]_vars
  PROVE  [Ledger!Next]_(Ledger!ledgerVars)
<1>1. /\ LedgerBalanced /\ LedgerBalanced' /\ LiabilityTotalled /\ LiabilityTotalled'
  BY NextInv, TotalOwed, TotalOwedNext, LiabilityTotal, LiabilityTotalNext
<1>a. PICK ext \in Nat, extNext \in Nat, sum \in Nat, sumNext \in Nat, bad \in Nat, badNext \in Nat :
        /\ ext = externalShares /\ extNext = externalShares'
        /\ sum = SumOf(Owed, Vaults) /\ sumNext = SumOf(Owed, Vaults)'
        /\ bad = badDebtToInternalize.value /\ badNext = badDebtToInternalize'.value
        /\ ext = sum + bad /\ extNext = sumNext + badNext
  BY <1>1 DEF LedgerBalanced
<1>b. sum = MapThenSumSet(LAMBDA v : records[v].liabilityShares, Vaults)
  BY <1>1, <1>a DEF LiabilityTotalled
<1>c. sumNext = MapThenSumSet(LAMBDA v : records[v].liabilityShares, Vaults)'
  BY <1>1, <1>a DEF LiabilityTotalled
<1>2. /\ ext = externalShares /\ extNext = externalShares'
      /\ sum = MapThenSumSet(LAMBDA v : records[v].liabilityShares, Vaults)
      /\ sumNext = MapThenSumSet(LAMBDA v : records[v].liabilityShares, Vaults)'
      /\ bad = badDebtToInternalize.value /\ badNext = badDebtToInternalize'.value
      /\ ext = sum + bad /\ extNext = sumNext + badNext
  BY <1>a, <1>b, <1>c
<1>3. CASE badDebtToInternalize' = badDebtToInternalize
  <2>1. bad = badNext
    BY <1>2, <1>3
  <2>2. CASE extNext > ext
    <3>1. sumNext - sum = extNext - ext
      BY <1>2, <2>1
    <3>2. Ledger!Mint
      BY <1>2, <1>3, <2>2, <3>1 DEF Ledger!Mint
    <3> QED BY <3>2 DEF Ledger!Next
  <2>3. CASE extNext < ext
    <3>1. sum - sumNext = ext - extNext /\ sumNext >= 0
      BY <1>2, <2>1
    <3>2. Ledger!Burn
      BY <1>2, <1>3, <2>3, <3>1 DEF Ledger!Burn
    <3> QED BY <3>2 DEF Ledger!Next
  <2>4. CASE extNext = ext
    <3>1. sumNext = sum
      BY <1>2, <2>1, <2>4
    <3> QED BY <1>2, <1>3, <2>1, <2>4, <3>1 DEF Ledger!ledgerVars
  <2> QED BY <1>2, <2>2, <2>3, <2>4
<1>4. CASE \E v \in Vaults, k \in ShareAmounts : InternalizeBadDebt(v, k)
  <2>1. PICK n :
          /\ n > 0 /\ n \in Nat
          /\ badDebtToInternalize' = WithValueIncrease(badDebtToInternalize, RefSlot, n)
          /\ UNCHANGED externalShares
    <3>1. PICK v \in Vaults, k \in ShareAmounts : InternalizeBadDebt(v, k)
      BY <1>4
    <3>2. PICK n : /\ n = Min({BadDebtShares(records[v]), k}) /\ n > 0 /\ Connected(v)
                   /\ badDebtToInternalize' = WithValueIncrease(badDebtToInternalize, RefSlot, n)
                   /\ UNCHANGED externalShares
      BY <3>1 DEF InternalizeBadDebt
    <3>3. PICK most \in Nat : most = BadDebtShares(records[v])
      BY <3>2, BadDebtParts, RecordOf, RecordParts
    <3>4. most \in Int /\ k \in Int /\ k \in Nat /\ n = Min({most, k})
      BY <3>2, <3>3, HubConstants
    <3>5. n \in {most, k}
      BY ONLY <3>4, MinOfTwo
    <3> QED BY <3>2, <3>4, <3>5
  <2>2. badNext = bad + n
    <3>1. badDebtToInternalize \in [value : Nat, valueOnRefSlot : Nat, refSlot : Nat]
      BY DEF Inv, SharesOwned
    <3> QED BY <1>2, <2>1, <3>1 DEF WithValueIncrease
  <2>3. extNext = ext
    BY <1>2, <2>1
  <2>4. sumNext < sum /\ sumNext >= 0 /\ badNext - bad = sum - sumNext
    BY <1>2, <2>1, <2>2, <2>3
  <2>5. Ledger!WriteOff
    BY <1>2, <2>1, <2>4 DEF Ledger!WriteOff
  <2> QED BY <2>5 DEF Ledger!Next
<1>5. CASE SubmitReport
  <2>1. PICK d : /\ d = ValueForLastRefSlot(badDebtToInternalize, RefSlot)
                 /\ badDebtToInternalize' = [badDebtToInternalize EXCEPT
                                               !.value = badDebtToInternalize.value - d]
                 /\ externalShares' = externalShares - d
                 /\ UNCHANGED records
    BY <1>5 DEF SubmitReport
  <2>2. badDebtToInternalize \in [value : Nat, valueOnRefSlot : Nat, refSlot : Nat]
    BY DEF Inv, SharesOwned
  <2>3. d \in Nat
    BY <2>1, <2>2 DEF ValueForLastRefSlot
  <2>4. badNext = bad - d /\ extNext = ext - d
    BY <1>2, <2>1, <2>2
  <2>5. sumNext = sum
    BY <1>2, <2>3, <2>4
  <2>6. CASE d = 0
    <3>1. badNext = bad /\ extNext = ext
      BY <1>2, <2>4, <2>6
    <3> QED BY <1>2, <2>5, <3>1 DEF Ledger!ledgerVars
  <2>7. CASE d > 0
    <3>1. badNext < bad /\ badNext >= 0 /\ ext - extNext = bad - badNext
      BY <1>2, <2>3, <2>4, <2>7
    <3>2. Ledger!Settle
      BY <1>2, <2>5, <3>1 DEF Ledger!Settle
    <3> QED BY <3>2 DEF Ledger!Next
  <2> QED BY <2>3, <2>6, <2>7
<1> QED BY <1>3, <1>4, <1>5, WhoChangesBadDebt

\* VaultHub implements the ledger of external shares: what its vaults owe and
\* the bad debt set aside change with the external shares of Lido only as the
\* ledger allows.
THEOREM HubKeepsLedger == Spec => KeepsLedger
<1>1. Inv /\ [Next]_vars => [Ledger!Next]_(Ledger!ledgerVars)
  BY LedgerSteps
<1> QED
  BY <1>1, LedgerStarts, Invariance, PTL DEF Spec, KeepsLedger, Ledger!Spec

-----------------------------------------------------------------------------
(* What a report lets through has waited.                                  *)

\* What is quarantined was in the report of the slot at which it began to wait.
RiseKnown(v) ==
  \E s \in 0..MaxRefSlot :
    /\ quarantines[v].start = TimestampOf(s)
    /\ quarantines[v].start <= records[v].timestamp
    /\ quarantines[v].pending <= risen[v][s]

HistoryInv ==
  /\ risen \in [Vaults -> [0..MaxRefSlot -> Nat]]
  /\ now <= MaxTime
  /\ \A v \in Vaults : InQuarantine(quarantines[v]) => Connected(v) /\ RiseKnown(v)

\* A step without a report of the vault leaves its quarantine, and the vault in
\* the hub if it is there.
NotReported(v) ==
  /\ quarantines'[v] = quarantines[v]
  /\ Connected(v) => Connected(v)' /\ records'[v].timestamp = records[v].timestamp

\* What the changes of a record do to its timestamp.
LEMMA TimestampAfter ==
  ASSUME NEW r \in Records
  PROVE  /\ \A d : InOutDeltaChanged(r, d).timestamp = r.timestamp
         /\ \A k : FeesSettled(r, k).timestamp = r.timestamp
         /\ \A k : LiabilityIncreased(r, k).timestamp = r.timestamp
         /\ \A k : LiabilityDecreased(r, k).timestamp = r.timestamp
         /\ \A k, d : InOutDeltaChanged(LiabilityDecreased(r, k), d).timestamp = r.timestamp
         /\ \A t : [r EXCEPT !.redemptionShares = t].timestamp = r.timestamp
<1>1. \A d : InOutDeltaChanged(r, d).timestamp = r.timestamp
  BY DEF InOutDeltaChanged, Records
<1>2. ASSUME NEW k
      PROVE  FeesSettled(r, k).timestamp = r.timestamp
  <2>1. PICK m : m = [r EXCEPT !.settledLidoFees = r.settledLidoFees + k]
    OBVIOUS
  <2>2. "timestamp" \in DOMAIN m /\ m.timestamp = r.timestamp
    BY <2>1 DEF Records
  <2>3. FeesSettled(r, k) = [m EXCEPT !.inOutDelta = WithDoubleIncrease(m.inOutDelta, RefSlot, -k)]
    BY <2>1 DEF FeesSettled, InOutDeltaChanged
  <2> QED BY <2>2, <2>3
<1>3. ASSUME NEW k
      PROVE  /\ LiabilityDecreased(r, k).timestamp = r.timestamp
             /\ \A d : InOutDeltaChanged(LiabilityDecreased(r, k), d).timestamp = r.timestamp
  <2>1. PICK m, left : /\ m = LiabilityDecreased(r, k)
                       /\ left = Max({0, r.redemptionShares - k})
    OBVIOUS
  <2>2. m = [r EXCEPT !.liabilityShares = r.liabilityShares - k, !.redemptionShares = left]
    BY <2>1 DEF LiabilityDecreased
  <2>3. "timestamp" \in DOMAIN m /\ m.timestamp = r.timestamp
    BY <2>2 DEF Records
  <2>4. \A d : InOutDeltaChanged(m, d).timestamp = m.timestamp
    BY <2>3 DEF InOutDeltaChanged
  <2> QED BY <2>1, <2>3, <2>4
<1>4. ASSUME NEW k
      PROVE  LiabilityIncreased(r, k).timestamp = r.timestamp
  <2>1. PICK more, most : /\ more = r.liabilityShares + k
                          /\ most = Max({r.maxLiabilityShares, more})
    OBVIOUS
  <2>2. LiabilityIncreased(r, k) = [r EXCEPT !.liabilityShares = more, !.maxLiabilityShares = most]
    BY <2>1 DEF LiabilityIncreased
  <2> QED BY <2>2 DEF Records
<1>5. \A t : [r EXCEPT !.redemptionShares = t].timestamp = r.timestamp
  BY DEF Records
<1> QED BY <1>1, <1>2, <1>3, <1>4, <1>5

LEMMA RecordDated ==
  ASSUME Inv, NEW v \in Vaults, NEW r, SetRecord(v, r), r.timestamp = records[v].timestamp,
         UNCHANGED <<connections, quarantines>>
  PROVE  \A w \in Vaults : NotReported(w)
<1>1. records' = [records EXCEPT ![v] = r] /\ DOMAIN records = Vaults
  BY DEF SetRecord, Inv, RecordsOK
<1> QED BY <1>1 DEF NotReported, Connected

\* A step that changes one connection, but not its index, and one record.
LEMMA ConnectionDated ==
  ASSUME Inv, NEW v \in Vaults, NEW c, SetConnection(v, c),
         c.vaultIndex = connections[v].vaultIndex, UNCHANGED quarantines,
         \/ UNCHANGED records
         \/ \E r : SetRecord(v, r) /\ r.timestamp = records[v].timestamp
  PROVE  \A w \in Vaults : NotReported(w)
<1>1. connections' = [connections EXCEPT ![v] = c] /\ DOMAIN connections = Vaults
        /\ DOMAIN records = Vaults
  BY DEF SetConnection, Inv, RestOK, RecordsOK
<1>2. \A w \in Vaults : Connected(w) => Connected(w)'
  BY <1>1 DEF Connected
<1>3. \A w \in Vaults : records'[w].timestamp = records[w].timestamp
  BY <1>1 DEF SetRecord
<1> QED BY <1>2, <1>3 DEF NotReported

LEMMA PaymentDated ==
  ASSUME Inv, NEW v \in Vaults, NEW n, PayLiability(v, n)
  PROVE  \A w \in Vaults : NotReported(w)
<1>1. PICK e : /\ SetRecord(v, InOutDeltaChanged(LiabilityDecreased(records[v], n), e))
               /\ UNCHANGED <<connections, quarantines>>
  BY DEF PayLiability, Elsewhere
<1>2. InOutDeltaChanged(LiabilityDecreased(records[v], n), e).timestamp = records[v].timestamp
  BY RecordOf, TimestampAfter
<1> QED BY <1>1, <1>2, RecordDated

LEMMA DisconnectionDated ==
  ASSUME Inv, NEW v \in Vaults, NEW full, InitiateDisconnection(v, full)
  PROVE  \A w \in Vaults : NotReported(w)
<1>1. PICK c : c = [connections[v] EXCEPT !.disconnectInitiatedTs = now]
  OBVIOUS
<1>2. c.vaultIndex = connections[v].vaultIndex
  BY <1>1 DEF Inv, RestOK, Connections
<1>3. SetConnection(v, c) /\ UNCHANGED quarantines
        /\ (UNCHANGED records \/ \E k : PayFees(v, connections[v], k))
  BY <1>1 DEF InitiateDisconnection, Elsewhere
<1>4. UNCHANGED records \/ \E r : SetRecord(v, r) /\ r.timestamp = records[v].timestamp
  BY <1>3, RecordOf, TimestampAfter DEF PayFees
<1> QED BY <1>2, <1>3, <1>4, ConnectionDated

LEMMA OwnerDated ==
  ASSUME Inv, NEW v \in Vaults, OwnerCalls(v)
  PROVE  \A w \in Vaults : NotReported(w)
<1>1. records[v] \in Records /\ connections[v] \in Connections
  BY RecordOf DEF Inv, RestOK
<1>2. ASSUME NEW n \in Amounts, Fund(v, n) \/ Withdraw(v, n)
      PROVE  \A w \in Vaults : NotReported(w)
  <2>1. PICK d : SetRecord(v, InOutDeltaChanged(records[v], d))
                   /\ UNCHANGED <<connections, quarantines>>
    BY <1>2 DEF Fund, Withdraw, Elsewhere
  <2>2. InOutDeltaChanged(records[v], d).timestamp = records[v].timestamp
    BY <1>1, TimestampAfter
  <2> QED BY <2>1, <2>2, RecordDated
<1>3. ASSUME NEW n \in ShareAmounts, MintShares(v, n) \/ BurnShares(v, n)
      PROVE  \A w \in Vaults : NotReported(w)
  <2>1. /\ \/ SetRecord(v, LiabilityIncreased(records[v], n))
           \/ SetRecord(v, LiabilityDecreased(records[v], n))
        /\ UNCHANGED <<connections, quarantines>>
    BY <1>3 DEF MintShares, BurnShares, Elsewhere
  <2>2. /\ LiabilityIncreased(records[v], n).timestamp = records[v].timestamp
        /\ LiabilityDecreased(records[v], n).timestamp = records[v].timestamp
    BY <1>1, TimestampAfter
  <2> QED BY <2>1, <2>2, RecordDated
<1>4. ASSUME NEW n \in ShareAmounts, Rebalance(v, n)
      PROVE  \A w \in Vaults : NotReported(w)
  BY <1>4, PaymentDated DEF Rebalance
<1>5. CASE PauseBeaconChainDeposits(v) \/ ResumeBeaconChainDeposits(v)
  <2>1. PICK p, c : c = [connections[v] EXCEPT !.pauseIntent = p] /\ SetConnection(v, c)
                      /\ UNCHANGED <<records, quarantines>>
    BY <1>5 DEF PauseBeaconChainDeposits, ResumeBeaconChainDeposits, Elsewhere
  <2>2. c.vaultIndex = connections[v].vaultIndex
    BY <1>1, <2>1 DEF Connections
  <2> QED BY <2>1, <2>2, ConnectionDated
<1> QED BY <1>2, <1>3, <1>4, <1>5, DisconnectionDated DEF OwnerCalls

LEMMA RoleDated ==
  ASSUME Inv, NEW v \in Vaults, RoleCalls(v)
  PROVE  \A w \in Vaults : NotReported(w)
<1>1. records[v] \in Records
  BY RecordOf
<1>2. CASE ForceRebalance(v)
  BY <1>2, PaymentDated DEF ForceRebalance
<1>3. CASE SettleLidoFees(v)
  <2>1. PICK k : SetRecord(v, FeesSettled(records[v], k)) /\ UNCHANGED <<connections, quarantines>>
    BY <1>3 DEF SettleLidoFees, PayFees, Elsewhere
  <2>2. FeesSettled(records[v], k).timestamp = records[v].timestamp
    BY <1>1, TimestampAfter
  <2> QED BY <2>1, <2>2, RecordDated
<1>4. ASSUME NEW n \in Targets, SetLiabilitySharesTarget(v, n)
      PROVE  \A w \in Vaults : NotReported(w)
  <2>1. PICK t : SetRecord(v, [records[v] EXCEPT !.redemptionShares = t])
                   /\ UNCHANGED <<connections, quarantines>>
    BY <1>4 DEF SetLiabilitySharesTarget, Elsewhere
  <2>2. [records[v] EXCEPT !.redemptionShares = t].timestamp = records[v].timestamp
    BY <1>1, TimestampAfter
  <2> QED BY <2>1, <2>2, RecordDated
<1>5. ASSUME NEW k \in ShareAmounts, InternalizeBadDebt(v, k)
      PROVE  \A w \in Vaults : NotReported(w)
  <2>1. PICK n : SetRecord(v, LiabilityDecreased(records[v], n))
                   /\ UNCHANGED <<connections, quarantines>>
    BY <1>5 DEF InternalizeBadDebt, Elsewhere
  <2>2. LiabilityDecreased(records[v], n).timestamp = records[v].timestamp
    BY <1>1, TimestampAfter
  <2> QED BY <2>1, <2>2, RecordDated
<1>6. ASSUME NEW a \in Vaults, NEW k \in ShareAmounts, SocializeBadDebt(v, a, k)
      PROVE  \A w \in Vaults : NotReported(w)
  <2>1. PICK n, given, taken :
          /\ given = LiabilityDecreased(records[v], n)
          /\ taken = LiabilityIncreased(records[a], n)
          /\ records' = [records EXCEPT ![v] = given, ![a] = taken]
          /\ UNCHANGED <<connections, quarantines>> /\ v # a
    BY <1>6 DEF SocializeBadDebt, Elsewhere
  <2>2. given.timestamp = records[v].timestamp /\ taken.timestamp = records[a].timestamp
    BY <1>1, <2>1, RecordOf, TimestampAfter
  <2>3. DOMAIN records = Vaults
    BY DEF Inv, RecordsOK
  <2>4. \A w \in Vaults : records'[w].timestamp = records[w].timestamp
    BY <2>1, <2>2, <2>3
  <2> QED BY <2>1, <2>4 DEF NotReported, Connected
<1> QED BY <1>2, <1>3, <1>4, <1>5, <1>6, DisconnectionDated DEF RoleCalls

LEMMA GridDated ==
  ASSUME Inv, NEW v \in Vaults, GridCalls(v)
  PROVE  \A w \in Vaults : NotReported(w)
<1>1. PICK l, ratio, threshold : UpdateConnection(v, l, ratio, threshold)
  BY DEF GridCalls, ChangeTier, SyncTier, UpdateVaultShareLimit
<1>2. PICK c : c = [connections[v] EXCEPT !.shareLimit = l, !.reserveRatioBP = ratio,
                                          !.forcedRebalanceThresholdBP = threshold]
  OBVIOUS
<1>3. SetConnection(v, c) /\ UNCHANGED <<records, quarantines>>
  BY <1>1, <1>2 DEF UpdateConnection, Elsewhere
<1>4. c.vaultIndex = connections[v].vaultIndex
  BY <1>2 DEF Inv, RestOK, Connections
<1> QED BY <1>3, <1>4, ConnectionDated

LEMMA ConnectingDated ==
  ASSUME Inv, NEW v \in Vaults, ConnectVault(v)
  PROVE  \A w \in Vaults : NotReported(w)
<1>1. PICK c, r : SetConnection(v, c) /\ SetRecord(v, r) /\ ~Connected(v)
                    /\ UNCHANGED quarantines
  BY DEF ConnectVault
<1>2. DOMAIN connections = Vaults /\ DOMAIN records = Vaults
  BY DEF Inv, RestOK, RecordsOK
<1> QED BY <1>1, <1>2 DEF NotReported, Connected, SetConnection, SetRecord

\* Only the reports of vaults move timestamps and quarantines, and complete
\* disconnections.
LEMMA OnlyReportsDate ==
  ASSUME Inv, Next, ~ \E v \in Vaults : UpdateVaultData(v)
  PROVE  \A w \in Vaults : NotReported(w)
<1>1. ASSUME NEW v \in Vaults, ConnectVault(v) \/ OwnerCalls(v) \/ RoleCalls(v) \/ GridCalls(v)
      PROVE  \A w \in Vaults : NotReported(w)
  BY <1>1, ConnectingDated, OwnerDated, RoleDated, GridDated
<1>2. CASE \/ \E v \in Vaults : AcceptOwnership(v) \/ UseOwnVault(v)
           \/ AdministerGrid \/ NextMoment \/ SubmitReport
           \/ \E v \in Vaults : MoveClEther(v) \/ ChangeClEther(v)
  <2>1. UNCHANGED <<connections, records, quarantines>>
    BY <1>2 DEF AcceptOwnership, UseOwnVault, AdministerGrid, NextMoment, SubmitReport,
                MoveClEther, ChangeClEther, hubVars
  <2> QED BY <2>1 DEF NotReported, Connected
<1> QED BY <1>1, <1>2 DEF Next

LEMMA RewardsMonotone ==
  ASSUME NEW a \in Nat, NEW b \in Nat, a <= b
  PROVE  WithRewards(a) <= WithRewards(b)
<1>1. PICK c \in Nat \ {0}, m \in Nat : c = TotalBasisPoints /\ m = c + MaxRewardRatioBP
  <2>1. TotalBasisPoints \in Nat \ {0} /\ TotalBasisPoints + MaxRewardRatioBP \in Nat
    BY SanityParams
  <2> QED BY <2>1
<1>2. PICK x \in Nat, y \in Nat : x = a * m /\ y = b * m /\ x <= y
  <2>1. a * m \in Nat /\ b * m \in Nat
    BY ProductNat
  <2> QED BY <2>1, ProductMonotone
<1>3. PICK q \in Nat : q = x \div c /\ c * q <= x
  BY QuotientNat
<1>4. q <= y \div c
  <2>1. c * q \in Nat
    BY ProductNat
  <2>2. c * q <= y
    BY <1>2, <1>3, <2>1
  <2> QED BY ONLY c \in Nat \ {0}, y \in Nat, q \in Nat, <2>2, QuotientAtLeast
<1> QED BY <1>1, <1>2, <1>3, <1>4 DEF WithRewards

\* What is let through at once, and what of the rest may be waiting since when.
Waits(checked, q, reported, onchain, ts) ==
  LET new == checked.quarantine
  IN  /\ \/ checked.totalValue <= WithRewards(onchain)
         \/ /\ InQuarantine(q) /\ q.start + QuarantinePeriod <= ts
            /\ checked.totalValue <= WithRewards(onchain) + WithRewards(q.pending)
      /\ InQuarantine(new) =>
           \/ new.start = ts /\ onchain + new.pending <= reported
           \/ InQuarantine(q) /\ new.start = q.start /\ new.pending = q.pending

LEMMA ProcessedWaits ==
  ASSUME NEW q \in Quarantines, NEW reported \in Nat, NEW onchain \in Nat, NEW ts \in Nat,
         NEW checked, checked = ProcessTotalValue(q, reported, onchain, ts)
  PROVE  Waits(checked, q, reported, onchain, ts)
<1>1. PICK more \in Nat : more = WithRewards(onchain) /\ onchain <= more
  BY RewardsAdd
<1>2. PICK pending \in Nat, start \in Nat : pending = q.pending /\ start = q.start
  BY DEF Quarantines
<1>3. PICK extra \in Nat : extra = WithRewards(pending) /\ pending <= extra
  BY RewardsAdd
<1>4. ~InQuarantine(NoQuarantine)
  BY DEF InQuarantine, NoQuarantine
<1>5. ASSUME NEW new, NEW amount \in Nat, new = NewQuarantine(amount, ts)
      PROVE  new.start = ts /\ new.pending = amount
  BY <1>5 DEF NewQuarantine
<1>6. CASE checked = AsReported(reported) /\ reported <= more
  <2>1. checked.totalValue <= WithRewards(onchain) /\ ~InQuarantine(checked.quarantine)
    BY <1>1, <1>4, <1>6 DEF AsReported
  <2> QED BY <2>1 DEF Waits
<1>7. CASE ~(reported <= more) /\ checked = Unquarantined(reported, onchain, ts)
  <2>1. PICK rise \in Nat : rise = reported - onchain /\ onchain + rise <= reported
    <3>1. reported - onchain \in Nat /\ onchain + (reported - onchain) <= reported
      BY <1>1, <1>7
    <3> QED BY <3>1
  <2>2. checked = [totalValue |-> onchain, quarantine |-> NewQuarantine(rise, ts)]
    BY <1>1, <1>7, <2>1 DEF Unquarantined
  <2>3. checked.totalValue <= WithRewards(onchain) /\ checked.quarantine.start = ts
        /\ onchain + checked.quarantine.pending <= reported
    BY <1>1, <1>5, <2>1, <2>2
  <2> QED BY <2>3 DEF Waits
<1>8. CASE ~(reported <= more) /\ InQuarantine(q) /\ checked = Quarantined(q, reported, onchain)
  <2>1. PICK left : checked = [totalValue |-> onchain, quarantine |-> [q EXCEPT !.remainder = left]]
    BY <1>1, <1>8 DEF Quarantined
  <2>2. checked.totalValue <= WithRewards(onchain)
        /\ checked.quarantine.start = q.start /\ checked.quarantine.pending = q.pending
    BY <1>1, <2>1 DEF Quarantines
  <2> QED BY <1>8, <2>2 DEF Waits
<1>9. CASE InQuarantine(q) /\ QuarantineExpired(q, ts) /\ checked = AfterQuarantine(q, reported, onchain, ts)
  <2>1. q.start + QuarantinePeriod <= ts
    BY <1>2, <1>9, SanityParams DEF QuarantineExpired
  <2>2. CASE reported <= more + extra
    <3>1. checked = AsReported(reported)
      BY <1>1, <1>2, <1>3, <1>9, <2>2 DEF AfterQuarantine
    <3>2. checked.totalValue <= WithRewards(onchain) + WithRewards(q.pending)
          /\ ~InQuarantine(checked.quarantine)
      BY <1>1, <1>2, <1>3, <1>4, <2>2, <3>1 DEF AsReported
    <3> QED BY <1>9, <2>1, <3>2 DEF Waits
  <2>3. CASE ~(reported <= more + extra)
    <3>1. PICK rise \in Nat : rise = reported - onchain - pending /\ onchain + rise <= reported
      <4>1. /\ reported - onchain - pending \in Nat
            /\ onchain + (reported - onchain - pending) <= reported
        BY <1>1, <1>3, <2>3
      <4> QED BY <4>1
    <3>2. checked = [totalValue |-> onchain + pending, quarantine |-> NewQuarantine(rise, ts)]
      BY <1>1, <1>2, <1>3, <1>9, <2>3, <3>1 DEF AfterQuarantine
    <3>3. checked.totalValue <= WithRewards(onchain) + WithRewards(q.pending)
      BY <1>1, <1>2, <1>3, <3>2
    <3>4. checked.quarantine.start = ts /\ onchain + checked.quarantine.pending <= reported
      BY <1>5, <3>1, <3>2
    <3> QED BY <1>9, <2>1, <3>3, <3>4 DEF Waits
  <2> QED BY <2>2, <2>3
<1>10. reported <= more /\ ~QuarantineExpired(q, ts) => checked = AsReported(reported)
  BY <1>1 DEF ProcessTotalValue, Unquarantined, Quarantined, QuarantineExpired
<1>11. \/ ~InQuarantine(q) /\ checked = Unquarantined(reported, onchain, ts)
       \/ /\ InQuarantine(q) /\ ~QuarantineExpired(q, ts)
          /\ checked = Quarantined(q, reported, onchain)
       \/ /\ InQuarantine(q) /\ QuarantineExpired(q, ts)
          /\ checked = AfterQuarantine(q, reported, onchain, ts)
  BY DEF ProcessTotalValue, QuarantineExpired
<1> QED BY <1>6, <1>7, <1>8, <1>9, <1>10, <1>11 DEF QuarantineExpired

\* The greatest of finitely many numbers, or zero.
LEMMA MaxOfMany ==
  ASSUME NEW n \in Nat, NEW f \in [0..n -> Nat], NEW S \in SUBSET (0..n), NEW W,
         W = {f[s] : s \in S}
  PROVE  Max(W \cup {0}) \in Nat /\ \A s \in S : f[s] <= Max(W \cup {0})
<1>1. IsFiniteSet(0..n)
  <2>1. 0 \in Int /\ n \in Int
    OBVIOUS
  <2> QED BY <2>1, FS_Interval
<1>2. PICK hi \in Nat : \A s \in 0..n : f[s] <= hi
  <2>1. \A s \in 0..n : f[s] \in Nat
    OBVIOUS
  <2>2. SumOf(f, 0..n) \in Nat /\ \A s \in 0..n : f[s] <= SumOf(f, 0..n)
    BY ONLY <1>1, <2>1, SumCovers
  <2> QED BY <2>2
<1>3. PICK V : V = W \cup {0}
  OBVIOUS
<1>4. V \in SUBSET (0..hi) /\ V # {}
  BY <1>2, <1>3
<1>5. Max(V) \in V /\ \A y \in V : y <= Max(V)
  BY ONLY hi \in Nat, <1>4, MaxOfBounded
<1> QED BY <1>3, <1>4, <1>5

LEMMA SlotsBounded ==
  ASSUME Inv, now <= MaxTime
  PROVE  /\ MaxRefSlot \in Nat /\ vaultsData.refSlot \in 0..MaxRefSlot
<1>1. now \in Nat /\ now >= 3 /\ MaxTime \in Nat /\ vaultsData.refSlot \in Nat
      /\ vaultsData.refSlot <= RefSlot
  BY HubAssumption DEF Inv, RestOK
<1>2. MaxRefSlot \in Nat /\ RefSlot <= MaxRefSlot /\ RefSlot \in Nat
  BY <1>1 DEF RefSlot, MaxRefSlot
<1> QED BY <1>1, <1>2

\* The rise that a report shows, and the report's place in the history.
LEMMA RiseTyped ==
  ASSUME Inv, HistoryInv, NEW v \in Vaults
  PROVE  /\ Rise(v) \in Nat
         /\ vaultsData.leaves[v].totalValue \in Nat /\ OnchainTotalValue(records[v]) \in Int
         /\ vaultsData.leaves[v].totalValue - OnchainTotalValue(records[v]) <= Rise(v)
<1>1. vaultsData.leaves[v].totalValue \in Nat /\ vaultsData.refSlot \in Nat
  BY DEF Inv, RestOK, Leaves
<1>2. OnchainTotalValue(records[v]) \in Int
  <2>1. /\ records[v].totalValue \in Nat /\ records[v].reportInOutDelta \in Int
        /\ records[v].inOutDelta \in [1..2 -> Caches]
    BY RecordOf, RecordParts
  <2>2. ValueForRefSlot(records[v].inOutDelta, vaultsData.refSlot) \in Int
    BY <1>1, <2>1, CacheParts
  <2> QED BY <2>1, <2>2 DEF OnchainTotalValue
<1>3. PICK x \in Int : x = vaultsData.leaves[v].totalValue - OnchainTotalValue(records[v])
  BY <1>1, <1>2
<1>4. 0 \in Int
  OBVIOUS
<1>5. Max({0, x}) \in {0, x} /\ 0 <= Max({0, x}) /\ x <= Max({0, x})
  BY ONLY <1>3, <1>4, MaxOfTwo
<1> QED BY <1>1, <1>2, <1>3, <1>5 DEF Rise

LEMMA RisenTyped ==
  ASSUME Inv, HistoryInv, NEW v \in Vaults
  PROVE  RisenAfter(v) \in [0..MaxRefSlot -> Nat]
<1>1. risen[v] \in [0..MaxRefSlot -> Nat] /\ Rise(v) \in Nat
  BY RiseTyped DEF HistoryInv
<1>2. [risen[v] EXCEPT ![vaultsData.refSlot] = Rise(v)] \in [0..MaxRefSlot -> Nat]
  BY <1>1
<1> QED BY <1>1, <1>2 DEF RisenAfter

\* What waits of a vault whose report is not brought goes on to wait.
LEMMA WaitGoesOn ==
  ASSUME Inv, HistoryInv, NEW v \in Vaults, NotReported(v), risen'[v] = RisenAfter(v)
  PROVE  /\ ~ReportApplied(v)
         /\ (InQuarantine(quarantines[v]) => Connected(v) /\ RiseKnown(v))'
<1>1. ~ReportApplied(v)
  BY DEF NotReported, ReportApplied
<1>2. ASSUME InQuarantine(quarantines'[v])
      PROVE  Connected(v)' /\ RiseKnown(v)'
  <2>1. quarantines'[v] = quarantines[v] /\ Connected(v) /\ RiseKnown(v)
    BY <1>2 DEF NotReported, HistoryInv
  <2>2. Connected(v)' /\ records'[v].timestamp = records[v].timestamp
    BY <2>1 DEF NotReported
  <2>3. risen'[v] = risen[v]
    BY <1>1, <2>2 DEF RisenAfter
  <2> QED BY <2>1, <2>2, <2>3 DEF RiseKnown, MaxRefSlot, TimestampOf
<1> QED BY <1>1, <1>2

LEMMA OthersNotReported ==
  ASSUME Inv, NEW v \in Vaults, NEW w \in Vaults, w # v, Connected(v),
         \/ DeleteVault(v)
         \/ \E leaf, value, delta, q : RecordReport(v, leaf, value, delta, q)
  PROVE  NotReported(w)
<1>1. /\ connections \in [Vaults -> Connections] /\ DOMAIN records = Vaults
      /\ DOMAIN quarantines = Vaults
  BY DEF Inv, RestOK, RecordsOK
<1>2. \E r, q : /\ records' = [records EXCEPT ![v] = r]
                /\ quarantines' = [quarantines EXCEPT ![v] = q]
  BY DEF DeleteVault, RecordReport, SetRecord
<1>3. Connected(w) => Connected(w)'
  <2>1. CASE DeleteVault(v)
    <3>1. connections' = IndicesWithout(v, vaults[Len(vaults)]) /\ connections[v].vaultIndex # 0
      BY <2>1 DEF DeleteVault, Connected
    <3>2. connections'[w].vaultIndex \in {connections[w].vaultIndex, connections[v].vaultIndex}
      BY <1>1, <3>1 DEF IndicesWithout, Connections
    <3> QED BY <3>1, <3>2 DEF Connected
  <2>2. CASE \E leaf, value, delta, q : RecordReport(v, leaf, value, delta, q)
    BY <1>1, <2>2 DEF RecordReport, SetConnection, Connected
  <2> QED BY <2>1, <2>2
<1> QED BY <1>1, <1>2, <1>3 DEF NotReported

\* A report that is recorded, as the history sees it.
LEMMA RecordedWaits ==
  ASSUME Inv, HistoryInv, NEW v \in Vaults, Connected(v), risen'[v] = RisenAfter(v),
         NEW onchain \in Nat, onchain = OnchainTotalValue(records[v]),
         NEW ts, ts = TimestampOf(vaultsData.refSlot), records[v].timestamp < ts,
         NEW value, NEW q \in Quarantines, NEW delta, NEW checked,
         value = checked.totalValue, q = checked.quarantine,
         Waits(checked, quarantines[v], vaultsData.leaves[v].totalValue, onchain, ts),
         RecordReport(v, vaultsData.leaves[v], value, delta, q)
  PROVE  /\ (InQuarantine(quarantines[v]) => Connected(v) /\ RiseKnown(v))'
         /\ value <= WithRewards(onchain)
            \/ \E s \in 0..MaxRefSlot :
                 /\ TimestampOf(s) + QuarantinePeriod <= ts
                 /\ quarantines[v].pending <= risen[v][s]
                 /\ value <= WithRewards(onchain) + WithRewards(quarantines[v].pending)
         /\ records'[v].totalValue = value
<1>1. /\ connections \in [Vaults -> Connections] /\ records \in [Vaults -> Records]
      /\ quarantines \in [Vaults -> Quarantines]
  BY DEF Inv, RestOK, RecordsOK, Quarantines
<1>2. PICK slot \in 0..MaxRefSlot : slot = vaultsData.refSlot /\ ts = 2 * slot
  BY SlotsBounded DEF HistoryInv, TimestampOf
<1>3. /\ Connected(v)' /\ quarantines'[v] = q
      /\ records'[v].timestamp = ts /\ records'[v].totalValue = value
  <2>1. /\ records' = [records EXCEPT ![v] = Reported(records[v], vaultsData.leaves[v], value, delta)]
        /\ quarantines' = [quarantines EXCEPT ![v] = q]
    BY DEF RecordReport, SetRecord
  <2>2. records[v] \in Records
    BY <1>1
  <2>3. PICK r : r = Reported(records[v], vaultsData.leaves[v], value, delta)
    OBVIOUS
  <2>4. r.timestamp = ts /\ r.totalValue = value
    BY <2>2, <2>3 DEF Reported, Records
  <2>5. connections'[v].vaultIndex = connections[v].vaultIndex
    BY <1>1 DEF RecordReport, SetConnection, Connections
  <2> QED BY <1>1, <2>1, <2>3, <2>4, <2>5 DEF Connected
<1>4. records[v].timestamp \in Nat /\ ts \in Nat /\ slot \in Nat
  BY <1>1, <1>2 DEF Records
<1>5. risen'[v] = [risen[v] EXCEPT ![slot] = Rise(v)] /\ risen[v] \in [0..MaxRefSlot -> Nat]
  <2>1. ReportApplied(v)
    BY <1>3, <1>4 DEF ReportApplied
  <2> QED BY <1>2, <1>3, <2>1 DEF RisenAfter, HistoryInv
<1>6. ASSUME InQuarantine(q)
      PROVE  RiseKnown(v)'
  <2>1. CASE q.start = ts /\ onchain + q.pending <= vaultsData.leaves[v].totalValue
    <3>1. q.pending <= Rise(v)
      <4>1. PICK pending \in Nat, reported \in Nat, rise \in Nat :
              /\ pending = q.pending /\ reported = vaultsData.leaves[v].totalValue
              /\ rise = Rise(v) /\ reported - onchain <= rise
        BY RiseTyped DEF Quarantines
      <4> QED BY <2>1, <4>1
    <3>2. risen'[v][slot] = Rise(v)
      BY <1>5
    <3>3. quarantines'[v].start = TimestampOf(slot) /\ ts <= ts
      BY <1>2, <1>3, <1>4, <2>1 DEF TimestampOf
    <3> QED BY <1>3, <2>1, <3>1, <3>2, <3>3 DEF RiseKnown, TimestampOf, MaxRefSlot
  <2>2. CASE /\ InQuarantine(quarantines[v]) /\ q.start = quarantines[v].start
             /\ q.pending = quarantines[v].pending
    <3>1. PICK s \in 0..MaxRefSlot :
            /\ quarantines[v].start = TimestampOf(s)
            /\ quarantines[v].start <= records[v].timestamp
            /\ quarantines[v].pending <= risen[v][s]
      BY <2>2 DEF HistoryInv, RiseKnown
    <3>2. s # slot /\ q.start <= ts
      BY <1>2, <1>4, <2>2, <3>1 DEF TimestampOf
    <3>3. risen'[v][s] = risen[v][s]
      BY <1>5, <3>2
    <3> QED BY <1>3, <2>2, <3>1, <3>2, <3>3 DEF RiseKnown, TimestampOf, MaxRefSlot
  <2> QED BY <1>6, <2>1, <2>2 DEF Waits
<1>7. ASSUME InQuarantine(quarantines[v]), quarantines[v].start + QuarantinePeriod <= ts
      PROVE  \E s \in 0..MaxRefSlot : /\ TimestampOf(s) + QuarantinePeriod <= ts
                                      /\ quarantines[v].pending <= risen[v][s]
  BY <1>7 DEF HistoryInv, RiseKnown
<1> QED BY <1>3, <1>6, <1>7 DEF Waits

\* The steps of the history: HistoryInv is kept, and a report lets through only
\* what waited.
LEMMA HistoryThroughReport ==
  ASSUME Inv, Inv', HistoryInv, NEW v \in Vaults, UpdateVaultData(v),
         risen' = [w \in Vaults |-> RisenAfter(w)]
  PROVE  HistoryInv' /\ RisesWaitStep
<1>1. PICK m, leaf, slot, delta, onchain, ts, checked :
        /\ m = records[v] /\ leaf = vaultsData.leaves[v] /\ slot = vaultsData.refSlot
        /\ delta = ValueForRefSlot(m.inOutDelta, slot)
        /\ onchain = m.totalValue + delta - m.reportInOutDelta
        /\ ts = TimestampOf(slot)
        /\ checked = ProcessTotalValue(quarantines[v], leaf.totalValue, onchain, ts)
  OBVIOUS
<1>2. /\ Connected(v) /\ m.timestamp < ts /\ onchain >= 0
      /\ ApplyVaultReport(v, leaf, checked.totalValue, delta, checked.quarantine)
      /\ UNCHANGED <<vaultsData, now>>
  BY <1>1 DEF UpdateVaultData, SanityChecked
<1>3. slot \in Nat /\ ts \in Nat
  BY <1>1, SlotParts DEF Inv, TimestampOf
<1>4. onchain = OnchainTotalValue(records[v]) /\ onchain \in Nat
  <2>1. onchain = OnchainTotalValue(records[v])
    BY <1>1 DEF OnchainTotalValue
  <2>2. OnchainTotalValue(records[v]) \in Int
    BY RiseTyped
  <2> QED BY <1>2, <2>1, <2>2
<1>5. quarantines[v] \in Quarantines /\ leaf.totalValue \in Nat
  BY <1>1 DEF Inv, RestOK, Quarantines, Leaves
<1>6. checked.quarantine \in Quarantines
  BY <1>1, <1>3, <1>4, <1>5, ProcessedParts
<1>7. Waits(checked, quarantines[v], leaf.totalValue, onchain, ts)
  BY <1>1, <1>3, <1>4, <1>5, ProcessedWaits
<1>8. \A w \in Vaults : risen'[w] = RisenAfter(w)
  OBVIOUS
<1>9. risen' \in [Vaults -> [0..MaxRefSlot -> Nat]] /\ now' <= MaxTime
  BY <1>2, RisenTyped DEF HistoryInv
<1>10. \A w \in Vaults : w # v => NotReported(w)
  BY <1>2, OthersNotReported DEF ApplyVaultReport
<1>11. \A w \in Vaults : w # v =>
         /\ ~ReportApplied(w)
         /\ (InQuarantine(quarantines[w]) => Connected(w) /\ RiseKnown(w))'
  BY <1>8, <1>10, WaitGoesOn
<1>12. CASE DeleteVault(v)
  <2>1. ~Connected(v)' /\ quarantines'[v] = NoQuarantine
    <3>1. /\ connections' = IndicesWithout(v, vaults[Len(vaults)])
          /\ quarantines' = [quarantines EXCEPT ![v] = NoQuarantine]
          /\ DOMAIN connections = Vaults /\ DOMAIN quarantines = Vaults
      BY <1>12 DEF DeleteVault, Inv, RestOK
    <3>2. connections'[v] = NoConnection
      BY <3>1 DEF IndicesWithout
    <3> QED BY <3>1, <3>2 DEF Connected, NoConnection
  <2>2. ~ReportApplied(v) /\ ~InQuarantine(quarantines'[v])
    BY <2>1 DEF ReportApplied, InQuarantine, NoQuarantine
  <2>3. HistoryInv'
    BY <1>9, <1>11, <2>2 DEF HistoryInv, MaxRefSlot
  <2>4. RisesWaitStep
    BY <1>11, <2>2 DEF RisesWaitStep
  <2> QED BY <2>3, <2>4
<1>13. CASE RecordReport(v, leaf, checked.totalValue, delta, checked.quarantine)
  <2>1. PICK value, q : value = checked.totalValue /\ q = checked.quarantine /\ q \in Quarantines
    BY <1>6
  <2>2. /\ (InQuarantine(quarantines[v]) => Connected(v) /\ RiseKnown(v))'
        /\ value <= WithRewards(onchain)
           \/ \E s \in 0..MaxRefSlot :
                /\ TimestampOf(s) + QuarantinePeriod <= ts
                /\ quarantines[v].pending <= risen[v][s]
                /\ value <= WithRewards(onchain) + WithRewards(quarantines[v].pending)
        /\ records'[v].totalValue = value
    <3>1. risen'[v] = RisenAfter(v) /\ ts = TimestampOf(vaultsData.refSlot)
      BY <1>1, <1>8
    <3>2. records[v].timestamp < ts
      BY <1>1, <1>2
    <3>3. Waits(checked, quarantines[v], vaultsData.leaves[v].totalValue, onchain, ts)
      BY <1>1, <1>7
    <3>4. RecordReport(v, vaultsData.leaves[v], value, delta, q)
      BY <1>1, <1>13, <2>1
    <3>5. onchain \in Nat /\ onchain = OnchainTotalValue(records[v]) /\ Connected(v)
      BY <1>2, <1>4
    <3>6. value = checked.totalValue /\ q = checked.quarantine /\ q \in Quarantines
      BY <2>1
    <3> QED BY ONLY Inv, HistoryInv, v \in Vaults, <3>1, <3>2, <3>3, <3>4, <3>5, <3>6, RecordedWaits
  <2>3. HistoryInv'
    BY <1>9, <1>11, <2>2 DEF HistoryInv, MaxRefSlot
  <2>4. value <= WithRewards(onchain) + WithRewards(Max(
                   {risen[v][s] : s \in {k \in 0..MaxRefSlot :
                                           TimestampOf(k) + QuarantinePeriod <= ts}} \cup {0}))
    <3>1. PICK S, W : /\ S = {k \in 0..MaxRefSlot : TimestampOf(k) + QuarantinePeriod <= ts}
                      /\ W = {risen[v][s] : s \in S}
      OBVIOUS
    <3>2. PICK n, f : n \in Nat /\ n = MaxRefSlot /\ f = risen[v] /\ f \in [0..n -> Nat]
      BY SlotsBounded DEF HistoryInv
    <3>3. Max(W \cup {0}) \in Nat /\ \A s \in S : f[s] <= Max(W \cup {0})
      <4>1. S \in SUBSET (0..n) /\ W = {f[s] : s \in S}
        BY <3>1, <3>2
      <4> QED BY ONLY <3>2, <4>1, MaxOfMany
    <3>4. PICK most \in Nat, pending \in Nat :
            most = Max(W \cup {0}) /\ pending = quarantines[v].pending
      BY <1>5, <3>3 DEF Quarantines
    <3>5. PICK more \in Nat, extra \in Nat, known \in Nat :
            more = WithRewards(onchain) /\ extra = WithRewards(pending) /\ known = WithRewards(most)
      BY <1>4, RewardsAdd
    <3>6. value <= more + known
      <4>1. CASE value <= more
        <5>1. value \in Nat
          BY <1>1, <1>3, <1>4, <1>5, <2>1, ProcessedParts
        <5> QED BY <4>1, <5>1
      <4>2. CASE \E s \in 0..MaxRefSlot :
                   /\ TimestampOf(s) + QuarantinePeriod <= ts
                   /\ quarantines[v].pending <= risen[v][s]
                   /\ value <= WithRewards(onchain) + WithRewards(quarantines[v].pending)
        <5>1. PICK s \in S : pending <= f[s] /\ value <= more + extra
          BY <3>1, <3>2, <3>4, <3>5, <4>2
        <5>2. pending <= most
          BY <3>2, <3>3, <3>4, <5>1, <3>1
        <5>3. extra <= known
          BY <3>5, <5>2, RewardsMonotone
        <5>4. value \in Nat
          BY <1>1, <1>3, <1>4, <1>5, <2>1, ProcessedParts
        <5> QED BY <5>1, <5>3, <5>4
      <4> QED BY <2>2, <3>5, <4>1, <4>2
    <3> QED BY <3>1, <3>4, <3>5, <3>6
  <2>5. RisesWaitStep
    BY <1>1, <1>4, <1>11, <2>2, <2>4 DEF RisesWaitStep
  <2> QED BY <2>3, <2>5
<1> QED BY <1>2, <1>12, <1>13 DEF ApplyVaultReport

LEMMA ClockBounded ==
  ASSUME Inv, Next, now <= MaxTime, ~ \E v \in Vaults : UpdateVaultData(v)
  PROVE  now' <= MaxTime
<1>1. CASE NextMoment
  BY <1>1, HubAssumption DEF NextMoment, Inv, RestOK
<1>2. CASE UNCHANGED now
  BY <1>2
<1>3. ASSUME NEW v \in Vaults, ConnectVault(v) \/ OwnerCalls(v) \/ RoleCalls(v) \/ GridCalls(v)
                                 \/ MoveClEther(v) \/ ChangeClEther(v)
      PROVE  UNCHANGED now
  BY <1>3 DEF ConnectVault, OwnerCalls, Fund, Withdraw, MintShares, BurnShares, Rebalance,
     PayLiability, PauseBeaconChainDeposits, ResumeBeaconChainDeposits, InitiateDisconnection,
     RoleCalls, ForceRebalance, SettleLidoFees, SetLiabilitySharesTarget, InternalizeBadDebt,
     SocializeBadDebt, GridCalls, ChangeTier, SyncTier, UpdateVaultShareLimit, UpdateConnection,
     MoveClEther, ChangeClEther, Elsewhere, envVars
<1>4. CASE \/ \E v \in Vaults : AcceptOwnership(v) \/ UseOwnVault(v)
           \/ AdministerGrid \/ SubmitReport
  BY <1>4 DEF AcceptOwnership, UseOwnVault, AdministerGrid, SubmitReport, envVars
<1> QED BY <1>1, <1>2, <1>3, <1>4 DEF Next

LEMMA HistoryKept ==
  ASSUME Inv, Inv', HistoryInv, HistoryNext
  PROVE  HistoryInv' /\ RisesWaitStep
<1>1. Next /\ risen' = [w \in Vaults |-> RisenAfter(w)]
  BY DEF HistoryNext
<1>2. CASE \E v \in Vaults : UpdateVaultData(v)
  BY <1>1, <1>2, HistoryThroughReport
<1>3. CASE ~ \E v \in Vaults : UpdateVaultData(v)
  <2>1. \A w \in Vaults : NotReported(w)
    BY <1>1, <1>3, OnlyReportsDate
  <2>2. \A w \in Vaults : risen'[w] = RisenAfter(w)
    BY <1>1
  <2>3. \A w \in Vaults :
          /\ ~ReportApplied(w)
          /\ (InQuarantine(quarantines[w]) => Connected(w) /\ RiseKnown(w))'
    BY <2>1, <2>2, WaitGoesOn
  <2>4. risen' \in [Vaults -> [0..MaxRefSlot -> Nat]]
    BY <1>1, RisenTyped
  <2>5. now' <= MaxTime
    BY <1>1, <1>3, ClockBounded DEF HistoryInv
  <2>6. HistoryInv'
    BY <2>3, <2>4, <2>5 DEF HistoryInv, MaxRefSlot
  <2> QED BY <2>3, <2>6 DEF RisesWaitStep
<1> QED BY <1>2, <1>3

LEMMA HistoryStarts == HistoryInit => HistoryInv
<1> SUFFICES ASSUME HistoryInit PROVE HistoryInv
  OBVIOUS
<1>1. \A v \in Vaults : ~InQuarantine(quarantines[v])
  BY DEF HistoryInit, Init, NoQuarantine, InQuarantine
<1>2. now <= MaxTime
  BY HubAssumption DEF HistoryInit, Init
<1>3. risen \in [Vaults -> [0..MaxRefSlot -> Nat]]
  BY DEF HistoryInit
<1> QED BY <1>1, <1>2, <1>3 DEF HistoryInv

\* The history only watches: the hub with it makes the steps of the hub.
LEMMA HistoryWatches == HistorySpec => Spec
<1>1. HistoryInit => Init
  BY DEF HistoryInit
<1>2. [HistoryNext]_<<vars, risen>> => [Next]_vars
  BY DEF HistoryNext
<1> QED BY <1>1, <1>2, PTL DEF HistorySpec, Spec

LEMMA HistoryStutters ==
  ASSUME HistoryInv, UNCHANGED <<vars, risen>>
  PROVE  HistoryInv'
<1>1. UNCHANGED <<connections, records, quarantines, now, risen>>
  BY DEF vars, hubVars, envVars
<1> QED BY <1>1 DEF HistoryInv, RiseKnown, Connected, MaxRefSlot, TimestampOf

\* What counts of a vault's value beyond its deposits was in a report at least a
\* quarantine period before, rewards aside, whatever reports, deposits and
\* reconnections come between.
THEOREM RisesHaveWaited == HistorySpec => RisesWait
<1>1. Inv /\ Inv' /\ HistoryInv /\ [HistoryNext]_<<vars, risen>> => HistoryInv'
  BY HistoryKept, HistoryStutters
<1>2. Inv /\ Inv' /\ HistoryInv /\ [HistoryNext]_<<vars, risen>>
        => [RisesWaitStep]_<<vars, risen>>
  BY HistoryKept
<1>3. HistorySpec => []Inv
  BY HistoryWatches, Invariance, PTL
<1> QED
  BY <1>1, <1>2, <1>3, HistoryStarts, PTL DEF HistorySpec, RisesWait
=============================================================================
