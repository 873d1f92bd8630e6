----------------------- MODULE AccountingOracleProofs -----------------------
(***************************************************************************)
(* Extra data, rewards and counts of exited validators under any consensus *)
(* contract that keeps to the calls of BaseOracle, any reports and any     *)
(* chunks.                                                                 *)
(***************************************************************************)
EXTENDS AccountingOracle, SumTheorems

\* What the proof needs of the report the oracle holds: it is not older than the
\* last one processed, and neither are the rewards; empty extra data has no items.
ReportTypeOK ==
  /\ consensusReport \in [Processors -> ConsensusReport]
  /\ lastProcessingRefSlot \in [Processors -> Slots]
  /\ slot \in Slots

ReportsAdvance ==
  /\ lastProcessingRefSlot[AO] <= consensusReport[AO].refSlot
  /\ \A m \in Modules : rewardedAt[m] <= extraState.refSlot
  /\ extraState.dataFormat = EXTRA_DATA_FORMAT_EMPTY => extraState.itemsCount = 0

IInv == ReportTypeOK /\ ReportsAdvance /\ ExtraOK /\ RewardsAwaitCounts

USE DEF EXTRA_DATA_FORMAT_EMPTY, EXTRA_DATA_FORMAT_LIST

\* The key an accepted chunk ends with is a number, and the chunk has items.
LEMMA ChunkCounts ==
  ASSUME NEW chunk \in Chunks, NEW n, NEW key, ItemsAccepted(chunk.items, n, key)
  PROVE  /\ Len(chunk.items) \in Nat \ {0}
         /\ LastKey(chunk.items[Len(chunk.items)]) \in Nat
<1> DEFINE items == chunk.items
           last  == items[Len(items)]
<1>1. items \in Seq(ExtraItem) /\ items # <<>>
  BY ChunkAssumption DEF ItemsAccepted
<1>2. Len(items) \in Nat \ {0} /\ Len(items) \in DOMAIN items
  BY <1>1
<1>3. last \in ExtraItem /\ last.nodeOpIds # <<>>
  BY <1>1, <1>2 DEF ItemsAccepted
<1>4. last.type \in Nat /\ last.module \in Nat /\ last.nodeOpIds \in Seq(Nat)
  BY <1>3 DEF ExtraItem
<1>5. Len(last.nodeOpIds) \in DOMAIN last.nodeOpIds /\ last.nodeOpIds[Len(last.nodeOpIds)] \in Nat
  BY <1>3, <1>4
<1>6. LastKey(last) = SortingKey(last.type, last.module, last.nodeOpIds[Len(last.nodeOpIds)])
  BY <1>5 DEF LastKey, ItemKeys
<1>7. \A t, m, o \in Nat : SortingKey(t, m, o) \in Nat
  <2>1. KeyBase \in Nat
    BY KeyAssumption
  <2>2. \A a, b \in Nat : a * b \in Nat
    OBVIOUS
  <2> QED BY <2>1, <2>2 DEF SortingKey
<1>8. LastKey(last) \in Nat
  BY <1>4, <1>5, <1>6, <1>7
<1> QED BY <1>2, <1>8

LEMMA InitIInv == OracleInit /\ slot = 0 /\ ExtraInit => IInv
<1> SUFFICES ASSUME OracleInit, slot = 0, ExtraInit PROVE IInv
  OBVIOUS
<1>1. ReportTypeOK
  BY SlotAssumption DEF OracleInit, ReportTypeOK, ConsensusReport, Slots
<1>2. ReportsAdvance
  BY ProcessorAssumption DEF OracleInit, ExtraInit, ReportsAdvance
<1>3. ExtraOK
  BY ProcessorAssumption, SlotAssumption
  DEF OracleInit, ExtraInit, ExtraOK, ExtraTypeOK, ExtraDataComplete, RewardStates, Slots
<1>4. RewardsAwaitCounts
  BY DEF ExtraInit, RewardsAwaitCounts
<1> QED BY <1>1, <1>2, <1>3, <1>4 DEF IInv

LEMMA FinishedTyped ==
  ASSUME rewardState \in [Modules -> RewardStates], FinishReporting \/ UNCHANGED rewardState
  PROVE  rewardState' \in [Modules -> RewardStates]
BY DEF FinishReporting, RewardStates

\* A chunk that is accepted leaves the state complete exactly if it is the last.
LEMMA ChunkAdvances ==
  ASSUME IInv, NEW chunk \in Chunks, SubmitExtraDataList(chunk)
  PROVE  /\ ~extraState.submitted
         /\ ExtraTypeOK' /\ ExtraDataComplete'
         /\ extraState'.refSlot = extraState.refSlot
         /\ extraState'.submitted <=> chunk.next = NoChunk
         /\ extraState'.dataFormat = EXTRA_DATA_FORMAT_LIST
<1> DEFINE counted == extraState.itemsProcessed + Len(chunk.items)
           key     == LastKey(chunk.items[Len(chunk.items)])
<1>1. /\ extraState.dataFormat = EXTRA_DATA_FORMAT_LIST
      /\ extraState.itemsProcessed # extraState.itemsCount
      /\ ItemsAccepted(chunk.items, extraState.itemsProcessed, extraState.lastSortingKey)
      /\ AdvanceExtraState(chunk)
      /\ UNCHANGED <<oracleVars, routerExited, rewardedAt>>
  BY DEF SubmitExtraDataList, CanSubmitExtraData
<1>2. ExtraTypeOK /\ ExtraDataComplete
  BY DEF IInv, ExtraOK
<1>3. ~extraState.submitted
  BY <1>1, <1>2 DEF ExtraDataComplete
<1>4. Len(chunk.items) \in Nat \ {0} /\ key \in Nat
  BY <1>1, ChunkCounts
<1>5. counted \in Nat /\ counted > extraState.itemsProcessed
  BY <1>2, <1>4 DEF ExtraTypeOK
<1>6. ChunkCounted(chunk) = [extraState EXCEPT !.itemsProcessed = counted, !.lastSortingKey = key]
  BY DEF ChunkCounted
<1>7. UNCHANGED <<lastProcessingRefSlot, routerExited, rewardedAt>>
  BY <1>1 DEF oracleVars
<1>8. rewardState' \in [Modules -> RewardStates]
  BY <1>2, FinishedTyped DEF SubmitExtraDataList, ExtraTypeOK
<1> HIDE DEF counted, key
<1>9. CASE chunk.next = NoChunk
  <2>1. /\ counted = extraState.itemsCount
        /\ extraState' = [extraState EXCEPT !.itemsProcessed = counted, !.lastSortingKey = key,
                                            !.submitted = TRUE]
    BY <1>1, <1>2, <1>6, <1>9 DEF AdvanceExtraState, ExtraTypeOK
  <2>2. ExtraTypeOK'
    BY <1>2, <1>4, <1>5, <1>7, <1>8, <2>1 DEF ExtraTypeOK
  <2>3. /\ extraState'.refSlot = extraState.refSlot /\ extraState'.submitted
        /\ extraState'.dataFormat = EXTRA_DATA_FORMAT_LIST
        /\ extraState'.itemsCount = extraState.itemsCount
        /\ extraState'.itemsProcessed = extraState'.itemsCount
    BY <1>1, <1>2, <2>1 DEF ExtraTypeOK
  <2>4. ExtraDataComplete'
    BY <1>2, <1>7, <2>2, <2>3 DEF ExtraDataComplete, ExtraTypeOK
  <2> QED BY <1>3, <1>9, <2>2, <2>3, <2>4
<1>10. CASE chunk.next # NoChunk
  <2>1. /\ counted < extraState.itemsCount
        /\ extraState' = [extraState EXCEPT !.itemsProcessed = counted, !.lastSortingKey = key,
                                            !.dataHash = chunk.next]
    BY <1>1, <1>2, <1>6, <1>10 DEF AdvanceExtraState, ExtraTypeOK
  <2>2. ExtraTypeOK'
    BY <1>2, <1>4, <1>5, <1>7, <1>8, <2>1 DEF ExtraTypeOK
  <2>3. /\ extraState'.refSlot = extraState.refSlot /\ ~extraState'.submitted
        /\ extraState'.dataFormat = EXTRA_DATA_FORMAT_LIST
        /\ extraState'.itemsCount = extraState.itemsCount
        /\ extraState'.itemsProcessed < extraState'.itemsCount
    BY <1>1, <1>2, <1>3, <2>1 DEF ExtraTypeOK
  <2>4. ExtraDataComplete'
    BY <1>2, <1>7, <2>2, <2>3 DEF ExtraDataComplete, ExtraTypeOK
  <2> QED BY <1>3, <1>10, <2>2, <2>3, <2>4
<1> QED BY <1>9, <1>10

\* Steps of the consensus contract keep a report that is not older than the last
\* one processed.
LEMMA ConsensusKeeps ==
  ASSUME IInv, ConsensusCalls
  PROVE  IInv'
<1> USE ProcessorAssumption
<1>1. /\ ReportTypeOK /\ ReportsAdvance /\ ExtraTypeOK /\ ExtraDataComplete /\ RewardsAwaitCounts
      /\ UNCHANGED <<lastProcessingRefSlot, consensusVersion, extraState, routerVars, slot>>
  BY DEF IInv, ExtraOK, ConsensusCalls
<1>2. /\ consensusReport' \in [Processors -> ConsensusReport]
      /\ lastProcessingRefSlot[AO] <= consensusReport'[AO].refSlot
  <2>1. CASE \E h \in Hashes, refSlot \in Slots, deadline \in Nat :
               SubmitConsensusReport(AO, h, refSlot, deadline)
    <3> PICK h \in Hashes, refSlot \in Slots, deadline \in Nat :
               SubmitConsensusReport(AO, h, refSlot, deadline)
      BY <2>1
    <3>1. [hash |-> h, refSlot |-> refSlot, processingDeadline |-> deadline] \in ConsensusReport
      BY DEF ConsensusReport
    <3>2. consensusReport' = [consensusReport EXCEPT ![AO] =
            [hash |-> h, refSlot |-> refSlot, processingDeadline |-> deadline]]
          /\ lastProcessingRefSlot[AO] < refSlot
      BY DEF SubmitConsensusReport
    <3> QED BY <1>1, <3>1, <3>2 DEF ReportTypeOK, Slots
  <2>2. CASE \E refSlot \in Slots : DiscardConsensusReport(AO, refSlot)
    <3> PICK refSlot \in Slots : DiscardConsensusReport(AO, refSlot)
      BY <2>2
    <3>1. UNCHANGED consensusReport
          \/ consensusReport' = [consensusReport EXCEPT ![AO].hash = ZeroHash]
      BY DEF DiscardConsensusReport
    <3> QED BY <1>1, <3>1 DEF ReportTypeOK, ReportsAdvance, ConsensusReport
  <2> QED BY <2>1, <2>2 DEF ConsensusCalls
<1> QED BY <1>1, <1>2 DEF IInv, ReportTypeOK, ReportsAdvance, ExtraOK, ExtraTypeOK,
           ExtraDataComplete, RewardsAwaitCounts, routerVars

LEMMA StepIInv == IInv /\ [OracleNext]_aoVars => IInv'
<1> SUFFICES ASSUME IInv, [OracleNext]_aoVars PROVE IInv'
  OBVIOUS
<1> USE ProcessorAssumption
<1>0. ReportTypeOK /\ ReportsAdvance /\ ExtraTypeOK /\ ExtraDataComplete /\ RewardsAwaitCounts
  BY DEF IInv, ExtraOK
<1>1. CASE ConsensusCalls
  BY <1>1, ConsensusKeeps
<1>2. ASSUME NEW data \in Hashes, NEW R \in SUBSET Modules, SubmitReportData(data, R)
      PROVE  IInv'
  <2>1. /\ lastProcessingRefSlot' = [lastProcessingRefSlot EXCEPT ![AO] = Report.refSlot]
        /\ lastProcessingRefSlot[AO] # Report.refSlot
        /\ UNCHANGED <<consensusReport, slot>>
    BY <1>2 DEF SubmitReportData, StartProcessing, Report
  <2>2. Report.refSlot \in Slots /\ Report.refSlot > extraState.refSlot
    BY <1>0, <2>1 DEF ReportTypeOK, ReportsAdvance, ExtraDataComplete, Report, ConsensusReport, Slots
  <2>3. /\ extraState' = [refSlot |-> Report.refSlot, dataFormat |-> data.extraDataFormat,
                          submitted |-> FALSE, dataHash |-> data.extraDataHash,
                          itemsCount |-> data.extraDataItemsCount, itemsProcessed |-> 0,
                          lastSortingKey |-> 0]
        /\ rewardState' = [m \in Modules |->
             IF m \in R THEN "TransferredToModule" ELSE rewardState[m]]
        /\ rewardedAt' = [m \in Modules |-> IF m \in R THEN Report.refSlot ELSE rewardedAt[m]]
        /\ ExtraFieldsValid(data)
        /\ ProcessExitedByModule(data.exits, Report.refSlot - lastProcessingRefSlot[AO])
    BY <1>2 DEF SubmitReportData
  <2>4. routerExited' \in [Modules -> Nat]
    <3>1. UpdateExitedByModule(data.exits) /\ data.exits \in Seq(Modules \X Nat)
      BY <2>3, ReportAssumption DEF ProcessExitedByModule
    <3>2. \A k \in DOMAIN data.exits : data.exits[k][2] \in Nat
      BY <3>1
    <3> QED BY <1>0, <3>1, <3>2 DEF UpdateExitedByModule, ExtraTypeOK
  <2>5. ReportTypeOK' /\ ReportsAdvance'
    BY <1>0, <2>1, <2>2, <2>3
       DEF ReportTypeOK, ReportsAdvance, Report, ExtraTypeOK, Slots, ExtraFieldsValid
  <2>6. ExtraTypeOK' /\ ExtraDataComplete'
    <3>1. data.extraDataItemsCount \in Nat
      BY ReportAssumption
    <3>2. rewardState' \in [Modules -> RewardStates] /\ rewardedAt' \in [Modules -> Slots]
      BY <1>0, <2>2, <2>3 DEF ExtraTypeOK, RewardStates
    <3> QED BY <1>0, <2>1, <2>2, <2>3, <2>4, <3>1, <3>2
            DEF ReportTypeOK, ExtraTypeOK, ExtraDataComplete, ExtraFieldsValid
  <2>7. RewardsAwaitCounts'
    BY <1>0, <2>2, <2>3 DEF RewardsAwaitCounts, ReportsAdvance, ExtraTypeOK, Slots
  <2> QED BY <2>5, <2>6, <2>7 DEF IInv, ExtraOK
<1>3. CASE SubmitExtraDataEmpty
  <2>1. /\ ~extraState.submitted
        /\ extraState.dataFormat = EXTRA_DATA_FORMAT_EMPTY
        /\ extraState' = [extraState EXCEPT !.submitted = TRUE]
        /\ UNCHANGED <<oracleVars, routerExited, summaryExited, rewardedAt, slot>>
        /\ FinishReporting
    BY <1>3 DEF SubmitExtraDataEmpty, CanSubmitExtraData
  <2>2. rewardState' \in [Modules -> RewardStates]
    BY <1>0, <2>1, FinishedTyped DEF ExtraTypeOK
  <2>3. ExtraTypeOK' /\ ExtraDataComplete'
    <3>1. ExtraTypeOK'
      BY <1>0, <2>1, <2>2 DEF ExtraTypeOK
    <3>2. extraState.itemsProcessed = extraState.itemsCount
      BY <1>0, <2>1 DEF ExtraDataComplete, ExtraTypeOK, ReportsAdvance
    <3> QED BY <1>0, <2>1, <3>1, <3>2 DEF ExtraTypeOK, ExtraDataComplete, oracleVars
  <2>4. extraState'.submitted /\ extraState'.refSlot = extraState.refSlot
    BY <1>0, <2>1 DEF ExtraTypeOK
  <2>5. RewardsAwaitCounts'
    BY <1>0, <2>1, <2>4 DEF RewardsAwaitCounts, FinishReporting
  <2> QED BY <1>0, <2>1, <2>3, <2>5
          DEF IInv, ExtraOK, ReportTypeOK, ReportsAdvance, ExtraTypeOK, oracleVars
<1>4. ASSUME NEW chunk \in Chunks, SubmitExtraDataList(chunk)
      PROVE  IInv'
  <2>1. /\ ~extraState.submitted /\ ExtraTypeOK' /\ ExtraDataComplete'
        /\ extraState'.refSlot = extraState.refSlot
        /\ extraState'.submitted <=> chunk.next = NoChunk
        /\ extraState'.dataFormat = EXTRA_DATA_FORMAT_LIST
    BY <1>4, ChunkAdvances
  <2>2. /\ UNCHANGED <<consensusReport, lastProcessingRefSlot, routerExited, rewardedAt, slot>>
        /\ IF chunk.next = NoChunk THEN FinishReporting ELSE UNCHANGED rewardState
    BY <1>4 DEF SubmitExtraDataList, oracleVars
  <2>3. RewardsAwaitCounts'
    BY <1>0, <2>1, <2>2 DEF RewardsAwaitCounts, FinishReporting
  <2> QED BY <1>0, <2>1, <2>2, <2>3 DEF IInv, ExtraOK, ReportTypeOK, ReportsAdvance
<1>5. ASSUME NEW m \in Modules, DistributeReward(m)
      PROVE  IInv'
  <2>1. /\ rewardState[m] = "ReadyForDistribution"
        /\ rewardState' = [rewardState EXCEPT ![m] = "Distributed"]
        /\ UNCHANGED <<consensusReport, lastProcessingRefSlot, extraState, routerExited,
                       summaryExited, rewardedAt, slot>>
    BY <1>5 DEF DistributeReward, oracleVars
  <2>2. ReportTypeOK' /\ ReportsAdvance' /\ ExtraTypeOK' /\ ExtraDataComplete'
    BY <1>0, <2>1 DEF ReportTypeOK, ReportsAdvance, ExtraTypeOK, ExtraDataComplete, RewardStates
  <2>3. RewardsAwaitCounts'
    BY <1>0, <2>1 DEF RewardsAwaitCounts, ExtraTypeOK
  <2> QED BY <2>2, <2>3 DEF IInv, ExtraOK
<1>6. CASE TimePasses
  BY <1>0, <1>6 DEF TimePasses, IInv, ExtraOK, ReportTypeOK, ReportsAdvance, ExtraTypeOK,
     ExtraDataComplete, RewardsAwaitCounts, oracleVars, routerVars
<1>7. CASE UNCHANGED aoVars
  BY <1>0, <1>7 DEF aoVars, IInv, ExtraOK, ReportTypeOK, ReportsAdvance, ExtraTypeOK,
     ExtraDataComplete, RewardsAwaitCounts, oracleVars, routerVars
<1> QED BY <1>1, <1>2, <1>3, <1>4, <1>5, <1>6, <1>7 DEF OracleNext

-----------------------------------------------------------------------------
(* The counts of a module, added up operator by operator.                  *)

\* The ids of the operators of a module.
ModuleIds(m) == {o[2] : o \in ModuleOperators(m)}

\* total[k] is the sum of v over the operators of m with ids below k.
AddsUp(total, v, m) ==
  /\ total[0] = 0
  /\ \A k \in 1..KeyBase :
       total[k] = total[k - 1] + (IF k - 1 \in ModuleIds(m) THEN v[<<m, k - 1>>] ELSE 0)

\* An operator is a pair of ids below KeyBase; there are finitely many.
LEMMA OperatorsArePairs ==
  /\ KeyBase \in Nat /\ IsFiniteSet(Operators)
  /\ \A o \in Operators : o = <<o[1], o[2]>> /\ o[2] \in 0 .. KeyBase - 1
<1>1. KeyBase \in Nat /\ Operators \subseteq (1 .. KeyBase - 1) \X (0 .. KeyBase - 1)
  BY KeyAssumption DEF Operators
<1>2. IsFiniteSet((1 .. KeyBase - 1) \X (0 .. KeyBase - 1))
  <2>1. IsFiniteSet(1 .. KeyBase - 1) /\ IsFiniteSet(0 .. KeyBase - 1)
    BY <1>1, FS_Interval
  <2> QED BY <2>1, FS_Product
<1>3. IsFiniteSet(Operators)
  BY <1>1, <1>2, FS_Subset
<1> QED BY <1>1, <1>3

\* An operator of a module is known by its id.
LEMMA ModuleIdsMean ==
  ASSUME NEW m \in Modules, NEW i
  PROVE  i \in ModuleIds(m) <=> <<m, i>> \in ModuleOperators(m)
<1>1. ASSUME i \in ModuleIds(m) PROVE <<m, i>> \in ModuleOperators(m)
  <2>1. PICK o \in Operators : o[1] = m /\ o[2] = i
    BY <1>1 DEF ModuleIds, ModuleOperators
  <2>2. o = <<o[1], o[2]>>
    BY OperatorsArePairs
  <2>3. o = <<m, i>>
    BY <2>1, <2>2
  <2> QED BY <2>1, <2>3 DEF ModuleOperators
<1>2. ASSUME <<m, i>> \in ModuleOperators(m) PROVE i \in ModuleIds(m)
  BY <1>2 DEF ModuleIds
<1> QED BY <1>1, <1>2

\* Adding up by ids gives the sum over the operators.
LEMMA AddsUpIsSum ==
  ASSUME NEW m \in Modules, NEW v, \A o \in Operators : v[o] \in Int,
         NEW total, AddsUp(total, v, m)
  PROVE  total[KeyBase] = SumOf(v, ModuleOperators(m))
<1> DEFINE Low(k) == {o \in ModuleOperators(m) : o[2] < k}
           C      == {k \in 0..KeyBase : total[k] # SumOf(v, Low(k))}
<1>0. KeyBase \in Nat /\ \A k : IsFiniteSet(Low(k)) /\ Low(k) \subseteq Operators
  BY OperatorsArePairs, FS_Subset DEF ModuleOperators
<1>1. C = {}
  <2> SUFFICES ASSUME C # {} PROVE FALSE
    OBVIOUS
  <2>1. PICK k \in C : \A j \in C : k <= j
    <3>1. C \in SUBSET Nat
      OBVIOUS
    <3> HIDE DEF C
    <3> QED BY <3>1, LeastNumber
  <2>2. k \in 0..KeyBase /\ total[k] # SumOf(v, Low(k))
    OBVIOUS
  <2>3. k # 0
    <3>1. Low(0) = {}
      BY OperatorsArePairs DEF ModuleOperators
    <3>2. total[0] = 0 /\ SumOf(v, {}) = 0
      BY SumEmpty DEF AddsUp
    <3> QED BY <2>2, <3>1, <3>2
  <2>4. PICK p \in 0 .. KeyBase - 1 : p = k - 1 /\ p \notin C /\ k = p + 1 /\ k \in 1..KeyBase
    <3>1. k - 1 \in 0 .. KeyBase - 1 /\ k - 1 + 1 = k /\ k \in 1..KeyBase /\ ~(k <= k - 1)
      BY <1>0, <2>2, <2>3
    <3>2. k - 1 \notin C
      BY <2>1, <3>1
    <3> HIDE DEF C
    <3> QED BY <3>1, <3>2
  <2>5. total[p] = SumOf(v, Low(p))
    <3>1. p \in 0..KeyBase
      BY <1>0, <2>4
    <3> QED BY <2>4, <3>1
  <2> HIDE DEF C
  <2>6. total[k] = total[p] + (IF p \in ModuleIds(m) THEN v[<<m, p>>] ELSE 0)
    BY <2>4 DEF AddsUp
  <2>7. \A o \in ModuleOperators(m) : o = <<m, o[2]>> /\ o[2] \in Nat
    BY <1>0, OperatorsArePairs DEF ModuleOperators
  <2>8. SumOf(v, Low(p)) \in Int
    <3>1. IsFiniteSet(Low(p)) /\ \A o \in Low(p) : v[o] \in Int
      BY <1>0
    <3> HIDE DEF Low
    <3> QED BY <3>1, SumIsInt
  <2>9. CASE p \in ModuleIds(m)
    <3>1. <<m, p>> \in ModuleOperators(m)
      BY <2>9, ModuleIdsMean
    <3>2. PICK x : x = <<m, p>> /\ x \in ModuleOperators(m) /\ x[2] = p
      BY <3>1
    <3>3. x \in Low(k) /\ Low(p) = Low(k) \ {x}
      <4>1. x \in Low(k)
        BY <2>4, <3>2
      <4>2. \A o \in ModuleOperators(m) : (o[2] < p <=> o[2] < k /\ o # x)
        <5> SUFFICES ASSUME NEW o \in ModuleOperators(m) PROVE o[2] < p <=> o[2] < k /\ o # x
          OBVIOUS
        <5>1. o = x <=> o[2] = p
          BY <2>7, <3>2
        <5>2. PICK i \in Nat : i = o[2]
          BY <2>7
        <5>3. i < p <=> i < k /\ i # p
          BY <1>0, <2>4
        <5> QED BY <5>1, <5>2, <5>3
      <4> QED BY <4>1, <4>2
    <3>4. IsFiniteSet(Low(k)) /\ \A o \in Low(k) : v[o] \in Int
      BY <1>0
    <3>5. SumOf(v, Low(k)) = v[x] + SumOf(v, Low(k) \ {x})
      <4> HIDE DEF Low
      <4> QED BY <3>3, <3>4, SumTakes
    <3>6. v[x] \in Int
      BY <3>3, <3>4
    <3> HIDE DEF Low
    <3> QED BY <2>2, <2>5, <2>6, <2>8, <2>9, <3>2, <3>3, <3>5, <3>6
  <2>10. CASE p \notin ModuleIds(m)
    <3>1. \A o \in ModuleOperators(m) : o[2] # p
      BY <2>10 DEF ModuleIds
    <3>2. Low(p) = Low(k)
      <4>1. \A o \in ModuleOperators(m) : o[2] < p <=> o[2] < k
        BY <2>4, <2>7, <3>1
      <4> QED BY <4>1
    <3> HIDE DEF Low
    <3> QED BY <2>2, <2>5, <2>6, <2>8, <2>10, <3>2
  <2> QED BY <2>9, <2>10
<1>2. Low(KeyBase) = ModuleOperators(m)
  BY OperatorsArePairs DEF ModuleOperators
<1>3. KeyBase \in 0..KeyBase
  BY <1>0
<1> QED BY <1>1, <1>2, <1>3

\* What a chunk adds to the operators of a module.
Gain(new) == [o \in Operators |-> new[o] - nodeExited[o]]

\* The loops over ids in ReportExitedByOperator and in the summary of deposits are such sums.
LEMMA GainIsSum ==
  ASSUME NEW m \in Modules, NEW new,
         \A o \in Operators : new[o] \in Int /\ nodeExited[o] \in Int
  PROVE  SummaryGain(new, m) = SumOf(Gain(new), ModuleOperators(m))
<1> DEFINE D(v, k) == v + (IF k - 1 \in ModuleIds(m)
                           THEN new[<<m, k - 1>>] - nodeExited[<<m, k - 1>>] ELSE 0)
           c       == 0
           G       == CHOOSE g : g = [k \in 0..KeyBase |-> IF k = 0 THEN c ELSE D(g[k - 1], k)]
<1>1. SummaryGain(new, m) = G[KeyBase]
  BY DEF SummaryGain, ModuleIds
<1>2. G = [k \in 0..KeyBase |-> IF k = 0 THEN c ELSE D(G[k - 1], k)]
  <2>1. FiniteNatInductiveDefHypothesis(G, c, D, 0, KeyBase)
    BY DEF FiniteNatInductiveDefHypothesis
  <2>2. FiniteNatInductiveDefConclusion(G, c, D, 0, KeyBase)
    <3>1. KeyBase \in Nat
      BY KeyAssumption
    <3> HIDE DEF D, G, c
    <3> QED BY <2>1, <3>1, FiniteNatInductiveDef
  <2> HIDE DEF D, G, c
  <2> QED BY <2>2 DEF FiniteNatInductiveDefConclusion
<1> HIDE DEF G
<1>3. G[0] = 0 /\ \A k \in 1..KeyBase : G[k] = D(G[k - 1], k)
  <2>1. KeyBase \in Nat
    BY KeyAssumption
  <2>2. G[0] = c /\ \A k \in 1..KeyBase : G[k] = D(G[k - 1], k)
    <3> HIDE DEF D, c
    <3> QED BY <1>2, <2>1
  <2> QED BY <2>2
<1>4. \A i \in ModuleIds(m) : Gain(new)[<<m, i>>] = new[<<m, i>>] - nodeExited[<<m, i>>]
  BY ModuleIdsMean DEF Gain, ModuleOperators
<1>5. AddsUp(G, Gain(new), m)
  BY <1>3, <1>4 DEF AddsUp
<1>6. \A o \in Operators : Gain(new)[o] \in Int
  BY DEF Gain
<1> QED BY <1>1, <1>5, <1>6, AddsUpIsSum

LEMMA DepositedIsSum ==
  ASSUME NEW m \in Modules
  PROVE  DepositedIn(m) = SumOf(Deposited, ModuleOperators(m))
<1> DEFINE D(v, k) == v + (IF k - 1 \in ModuleIds(m) THEN Deposited[<<m, k - 1>>] ELSE 0)
           c       == 0
           G       == CHOOSE g : g = [k \in 0..KeyBase |-> IF k = 0 THEN c ELSE D(g[k - 1], k)]
<1>1. DepositedIn(m) = G[KeyBase]
  BY DEF DepositedIn, ModuleIds
<1>2. G = [k \in 0..KeyBase |-> IF k = 0 THEN c ELSE D(G[k - 1], k)]
  <2>1. FiniteNatInductiveDefHypothesis(G, c, D, 0, KeyBase)
    BY DEF FiniteNatInductiveDefHypothesis
  <2>2. FiniteNatInductiveDefConclusion(G, c, D, 0, KeyBase)
    <3>1. KeyBase \in Nat
      BY KeyAssumption
    <3> HIDE DEF D, G, c
    <3> QED BY <2>1, <3>1, FiniteNatInductiveDef
  <2> HIDE DEF D, G, c
  <2> QED BY <2>2 DEF FiniteNatInductiveDefConclusion
<1> HIDE DEF G
<1>3. G[0] = 0 /\ \A k \in 1..KeyBase : G[k] = D(G[k - 1], k)
  <2>1. KeyBase \in Nat
    BY KeyAssumption
  <2>2. G[0] = c /\ \A k \in 1..KeyBase : G[k] = D(G[k - 1], k)
    <3> HIDE DEF D, c
    <3> QED BY <1>2, <2>1
  <2> QED BY <2>2
<1>4. AddsUp(G, Deposited, m)
  BY <1>3 DEF AddsUp
<1>5. \A o \in Operators : Deposited[o] \in Int
  BY DepositedAssumption DEF Operators
<1> QED BY <1>1, <1>4, <1>5, AddsUpIsSum

\* The count an accepted chunk gives an operator is a number.
LEMMA CountsAreNat ==
  ASSUME NEW items \in Seq(ExtraItem), NEW o \in Operators, o \in Updated(items)
  PROVE  CountFor(items, o) \in Nat
<1>1. \A u \in Updates(items) : u[3] \in Nat
  <2> SUFFICES ASSUME NEW i \in DOMAIN items, NEW k \in DOMAIN items[i].nodeOpIds
               PROVE  items[i].counts[k] \in Nat
    BY DEF Updates
  <2>1. items[i] \in ExtraItem
    OBVIOUS
  <2>2. PICK ids \in Seq(Nat), counts \in Seq(Nat) :
          ids = items[i].nodeOpIds /\ counts = items[i].counts /\ Len(ids) = Len(counts)
    BY <2>1 DEF ExtraItem
  <2>3. k \in DOMAIN counts
    BY <2>2
  <2> QED BY <2>2, <2>3
<1>2. \E u \in Updates(items) : u[1] = o[1] /\ u[2] = o[2]
  <2>1. PICK u \in Updates(items) : o = <<u[1], u[2]>>
    BY DEF Updated
  <2> QED BY <2>1
<1>3. (CHOOSE u \in Updates(items) : u[1] = o[1] /\ u[2] = o[2]) \in Updates(items)
  BY <1>2
<1> QED BY <1>1, <1>3 DEF CountFor

\* The counts of operators are within their deposits and add up to those of their module.
NodesCounted ==
  /\ nodeExited \in [Operators -> Nat]
  /\ \A o \in Operators : nodeExited[o] <= Deposited[o]
  /\ \A m \in Modules : /\ summaryExited[m] = SumOf(nodeExited, ModuleOperators(m))
                        /\ routerExited[m] <= DepositedIn(m)

\* A chunk changes the summary of a module by what its operators gain.
LEMMA ChunkAddsUp ==
  ASSUME NodesCounted, NEW chunk \in Chunks, SubmitExtraDataList(chunk)
  PROVE  NodesCounted'
<1> DEFINE items == chunk.items
           new   == [o \in Operators |->
                       IF o \in Updated(items) THEN CountFor(items, o) ELSE nodeExited[o]]
<1>1. /\ \A o \in Operators : new[o] >= nodeExited[o] /\ new[o] <= Deposited[o]
      /\ nodeExited' = new /\ summaryExited' = SummaryAfter(new)
      /\ UNCHANGED routerExited
  BY DEF SubmitExtraDataList, ReportExitedByOperator
<1>2. \A o \in Operators : new[o] \in Nat
  <2>1. items \in Seq(ExtraItem)
    BY ChunkAssumption
  <2> HIDE DEF items
  <2> QED BY <2>1, CountsAreNat DEF NodesCounted
<1>3. new \in [Operators -> Nat]
  BY <1>2
<1> HIDE DEF new
<1>4. ASSUME NEW m \in Modules
      PROVE  SumOf(new, ModuleOperators(m)) =
               SumOf(nodeExited, ModuleOperators(m)) + SummaryGain(new, m)
  <2>1. IsFiniteSet(ModuleOperators(m)) /\ ModuleOperators(m) \subseteq Operators
    BY OperatorsArePairs, FS_Subset DEF ModuleOperators
  <2>2. \A o \in Operators : nodeExited[o] \in Int /\ new[o] \in Int
    BY <1>3 DEF NodesCounted
  <2>3. SummaryGain(new, m) = SumOf(Gain(new), ModuleOperators(m))
    BY <2>2, GainIsSum
  <2>4. \A o \in ModuleOperators(m) :
          /\ nodeExited[o] \in Int /\ Gain(new)[o] \in Int
          /\ new[o] = nodeExited[o] + Gain(new)[o]
    BY <2>1, <2>2 DEF Gain
  <2>5. SumOf(new, ModuleOperators(m)) =
          SumOf(nodeExited, ModuleOperators(m)) + SumOf(Gain(new), ModuleOperators(m))
    BY <2>1, <2>4, SumAdds
  <2> QED BY <2>3, <2>5
<1>5. \A m \in Modules : summaryExited'[m] = summaryExited[m] + SummaryGain(new, m)
  BY <1>1 DEF SummaryAfter
<1>6. \A m \in Modules : summaryExited'[m] = SumOf(nodeExited', ModuleOperators(m))
  BY <1>1, <1>4, <1>5 DEF NodesCounted
<1> QED BY <1>1, <1>3, <1>6 DEF NodesCounted

\* Nothing has exited at first.
LEMMA CountedInit == ExtraInit => NodesCounted
<1> SUFFICES ASSUME ExtraInit PROVE NodesCounted
  OBVIOUS
<1>1. \A o \in Operators : nodeExited[o] = 0 /\ Deposited[o] \in Nat
  BY DepositedAssumption DEF ExtraInit, Operators
<1>2. ASSUME NEW m \in Modules
      PROVE  SumOf(nodeExited, ModuleOperators(m)) = 0 /\ 0 <= DepositedIn(m)
  <2>1. IsFiniteSet(ModuleOperators(m)) /\ ModuleOperators(m) \subseteq Operators
    BY OperatorsArePairs, FS_Subset DEF ModuleOperators
  <2>2. SumOf(nodeExited, ModuleOperators(m)) = 0
    BY <1>1, <2>1, SumOfZeros
  <2>3. SumOf(Deposited, ModuleOperators(m)) \in Nat
    BY <1>1, <2>1, SumCovers
  <2> QED BY <2>2, <2>3, DepositedIsSum
<1> QED BY <1>1, <1>2 DEF NodesCounted, ExtraInit

\* The main data sets the count of a module within its deposits.
LEMMA CountedNext ==
  ASSUME NodesCounted, [OracleNext]_aoVars
  PROVE  NodesCounted'
<1> USE DEF routerVars
<1>1. CASE ConsensusCalls
  BY <1>1 DEF ConsensusCalls, NodesCounted
<1>2. ASSUME NEW data \in Hashes, NEW R \in SUBSET Modules, SubmitReportData(data, R)
      PROVE  NodesCounted'
  <2>1. UNCHANGED <<nodeExited, summaryExited>> /\ UpdateExitedByModule(data.exits)
    BY <1>2 DEF SubmitReportData, ProcessExitedByModule
  <2>2. \A m \in Modules : routerExited'[m] <= DepositedIn(m)
    <3> SUFFICES ASSUME NEW m \in Modules PROVE routerExited'[m] <= DepositedIn(m)
      OBVIOUS
    <3>1. CASE \E k \in DOMAIN data.exits : data.exits[k][1] = m
      <4>1. PICK k \in DOMAIN data.exits :
              data.exits[k][1] = m /\ routerExited'[m] = data.exits[k][2]
        BY <2>1, <3>1 DEF UpdateExitedByModule
      <4> QED BY <2>1, <4>1 DEF UpdateExitedByModule
    <3>2. CASE ~\E k \in DOMAIN data.exits : data.exits[k][1] = m
      BY <2>1, <3>2 DEF UpdateExitedByModule, NodesCounted
    <3> QED BY <3>1, <3>2
  <2> QED BY <2>1, <2>2 DEF NodesCounted
<1>3. CASE SubmitExtraDataEmpty
  BY <1>3 DEF SubmitExtraDataEmpty, NodesCounted
<1>4. ASSUME NEW chunk \in Chunks, SubmitExtraDataList(chunk) PROVE NodesCounted'
  BY <1>4, ChunkAddsUp
<1>5. ASSUME NEW m \in Modules, DistributeReward(m) PROVE NodesCounted'
  BY <1>5 DEF DistributeReward, NodesCounted
<1>6. CASE TimePasses
  BY <1>6 DEF TimePasses, NodesCounted
<1>7. CASE UNCHANGED aoVars
  BY <1>7 DEF aoVars, NodesCounted
<1> QED BY <1>1, <1>2, <1>3, <1>4, <1>5, <1>6, <1>7 DEF OracleNext

\* The sum the property is written with.
LEMMA OperatorsSum ==
  ASSUME NEW m \in Modules
  PROVE  MapThenSumSet(LAMBDA o : nodeExited[o], ModuleOperators(m)) =
           SumOf(nodeExited, ModuleOperators(m))
<1> DEFINE S       == ModuleOperators(m)
           V(o)    == nodeExited[o]
           Step(h) == [s \in SUBSET S |->
                         IF s = {} THEN 0 ELSE V(Taken(s)) + h[s \ {Taken(s)}]]
           iter    == CHOOSE h : h = Step(h)
<1>1. MapThenSumSet(LAMBDA o : nodeExited[o], S) = iter[S]
  BY DEF MapThenSumSet, MapThenFoldSet, Taken
<1>2. IsFiniteSet(S)
  BY OperatorsArePairs, FS_Subset DEF ModuleOperators
<1>3. ASSUME NEW h PROVE h = Step(h) <=> Sums(h, nodeExited, S)
  BY DEF Sums
<1> HIDE DEF Step
<1>4. (\E h : Sums(h, nodeExited, S)) => Sums(iter, nodeExited, S)
  <2>1. (\E h : h = Step(h)) => iter = Step(iter)
    OBVIOUS
  <2> HIDE DEF iter
  <2> QED BY <1>3, <2>1
<1> HIDE DEF iter
<1>5. iter[S] = SumOf(nodeExited, S)
  <2> HIDE DEF S
  <2> QED BY <1>2, <1>4, SumIterated
<1> QED BY <1>1, <1>5

-----------------------------------------------------------------------------
(* Theorems.                                                               *)

\* Extra data is counted as submitted exactly when all of it was processed, for any
\* reports, any chunks and any limits.
THEOREM ExtraDataCounted == OracleSpec => []ExtraOK
<1>1. IInv => ExtraOK
  BY DEF IInv
<1> QED BY InitIInv, StepIInv, <1>1, PTL DEF OracleSpec

\* Rewards minted with a report wait for the operators' counts of that report, for any
\* reports, any chunks and any limits.
THEOREM RewardsWait == OracleSpec => []RewardsAwaitCounts
<1>1. IInv => RewardsAwaitCounts
  BY DEF IInv
<1> QED BY InitIInv, StepIInv, <1>1, PTL DEF OracleSpec

\* The counts of exited validators agree, and StakingRouter can subtract them, for any
\* reports and chunks.
THEOREM CountsAddUp == OracleSpec => []SummariesAddUp
<1>1. NodesCounted => SummariesAddUp
  <2> SUFFICES ASSUME NodesCounted, NEW m \in Modules
               PROVE  /\ summaryExited[m] =
                           MapThenSumSet(LAMBDA o : nodeExited[o], ModuleOperators(m))
                      /\ summaryExited[m] <= DepositedIn(m) /\ routerExited[m] <= DepositedIn(m)
    BY DEF SummariesAddUp
  <2>1. IsFiniteSet(ModuleOperators(m)) /\ ModuleOperators(m) \subseteq Operators
    BY OperatorsArePairs, FS_Subset DEF ModuleOperators
  <2>2. \A o \in ModuleOperators(m) :
          nodeExited[o] \in Int /\ Deposited[o] \in Int /\ nodeExited[o] <= Deposited[o]
    BY <2>1, DepositedAssumption DEF NodesCounted, Operators
  <2>3. SumOf(nodeExited, ModuleOperators(m)) <= SumOf(Deposited, ModuleOperators(m))
    BY <2>1, <2>2, SumAtMost
  <2>4. /\ summaryExited[m] = SumOf(nodeExited, ModuleOperators(m))
        /\ routerExited[m] <= DepositedIn(m)
    BY DEF NodesCounted
  <2> QED BY <2>3, <2>4, OperatorsSum, DepositedIsSum
<1>2. NodesCounted /\ [OracleNext]_aoVars => NodesCounted'
  BY CountedNext
<1> QED BY CountedInit, <1>1, <1>2, PTL DEF OracleSpec
=============================================================================
