-------------------------- MODULE AccountingOracle --------------------------
(***************************************************************************)
(* AccountingOracle (contracts/0.8.9/oracle) after consensus: the main     *)
(* data of a report, then its extra data in one or more transactions, with *)
(* the counts of exited validators they change in StakingRouter (by        *)
(* module) and in NodeOperatorsRegistry (by operator).                     *)
(*                                                                         *)
(* What the main data does to Lido, the withdrawal queue and the vaults is *)
(* the subject of Accounting, WithdrawalQueue and LazyOracle.  Here it     *)
(* chooses the modules that were minted rewards.                           *)
(*                                                                         *)
(* The hash of a report is its data.                                       *)
(***************************************************************************)
EXTENDS BaseOracle, ExtraData, FiniteSetsExt

CONSTANTS
  AO,                  \* the processor this is
  ExitedPerDayLimit,   \* exitedValidatorsPerDayLimit
  SlotsPerDay,         \* seconds of a day in slots
  Chunks               \* extra data that may be submitted

Operators == DOMAIN Deposited
Modules   == {o[1] : o \in Operators}

ASSUME ProcessorAssumption == AO \in Processors
ASSUME ReportAssumption ==
  \A data \in Hashes : /\ data.exits \in Seq(Modules \X Nat)
                       /\ data.extraDataFormat \in Nat /\ data.extraDataItemsCount \in Nat
ASSUME ChunkAssumption == \A chunk \in Chunks : chunk.items \in Seq(ExtraItem)
ASSUME RateAssumption == ExitedPerDayLimit \in Nat /\ SlotsPerDay \in Nat \ {0}

VARIABLES
  extraState,      \* _storageExtraDataProcessingState
  routerExited,    \* StakingRouter: module -> exitedValidatorsCount
  nodeExited,      \* NodeOperatorsRegistry: operator -> its exited count
  summaryExited,   \* NodeOperatorsRegistry: module -> exited count in its summary
  rewardState,     \* NodeOperatorsRegistry: module -> REWARD_DISTRIBUTION_STATE
  rewardedAt       \* history: module -> the reference slot of its last rewards

routerVars == <<routerExited, nodeExited, summaryExited, rewardState, rewardedAt>>
aoVars     == <<oracleVars, extraState, routerVars, slot>>

RewardStates == {"TransferredToModule", "ReadyForDistribution", "Distributed"}

Report == consensusReport[AO]

ModuleOperators(m) == {o \in Operators : o[1] = m}

-----------------------------------------------------------------------------
(* StakingRouter and NodeOperatorsRegistry.                                *)

\* StakingRouter.updateExitedValidatorsCountByStakingModule.  `exits' is the
\* sequence of <<module, count>> of the report.
NewlyExited(exits) ==
  LET newly[k \in 0..Len(exits)] ==
        IF k = 0 THEN 0
        ELSE newly[k - 1] + exits[k][2] - routerExited[exits[k][1]]
  IN  newly[Len(exits)]

DepositedIn(m) ==
  LET ids == {o[2] : o \in ModuleOperators(m)}
      total[k \in 0..KeyBase] ==
        IF k = 0 THEN 0
        ELSE total[k - 1] + (IF k - 1 \in ids THEN Deposited[<<m, k - 1>>] ELSE 0)
  IN  total[KeyBase]

UpdateExitedByModule(exits) ==
  /\ \A k \in DOMAIN exits :
       /\ exits[k][1] \in Modules
       /\ exits[k][2] >= routerExited[exits[k][1]]
       /\ exits[k][2] <= DepositedIn(exits[k][1])
  /\ routerExited' = [m \in Modules |->
       IF \E k \in DOMAIN exits : exits[k][1] = m
       THEN exits[CHOOSE k \in DOMAIN exits : exits[k][1] = m][2]
       ELSE routerExited[m]]

\* StakingRouter.reportStakingModuleExitedValidatorsCountByNodeOperator for all
\* the items of a chunk: each module adds up what its operators gained.
SummaryGain(new, m) ==
  LET ids == {o[2] : o \in ModuleOperators(m)}
      gain[k \in 0..KeyBase] ==
        IF k = 0 THEN 0
        ELSE gain[k - 1] + (IF k - 1 \in ids THEN new[<<m, k - 1>>] - nodeExited[<<m, k - 1>>]
                                             ELSE 0)
  IN  gain[KeyBase]

SummaryOfLatest(new) ==                           \* faulty: adds the counts themselves
  [m \in Modules |->
     summaryExited[m] + SummaryGain([o \in Operators |->
                          IF new[o] = nodeExited[o] THEN new[o] ELSE nodeExited[o] + new[o]], m)]

SummaryAfter(new) == [m \in Modules |-> summaryExited[m] + SummaryGain(new, m)]

ReportExitedByOperator(items) ==
  LET new == [o \in Operators |->
                IF o \in Updated(items) THEN CountFor(items, o) ELSE nodeExited[o]]
  IN  /\ Updated(items) \subseteq Operators
      /\ \A o \in Operators : new[o] >= nodeExited[o] /\ new[o] <= Deposited[o]
      /\ nodeExited' = new
      /\ summaryExited' = SummaryAfter(new)

FinishReportingOfAll ==                           \* faulty: whatever the counts
  rewardState' = [m \in Modules |-> "ReadyForDistribution"]

\* StakingRouter.onValidatorsCountsByNodeOperatorReportingFinished: the modules
\* whose operators add up to the module's count may distribute rewards.
FinishReporting ==
  rewardState' = [m \in Modules |->
    IF summaryExited'[m] = routerExited[m] THEN "ReadyForDistribution" ELSE rewardState[m]]

\* NodeOperatorsRegistry.distributeReward, by anyone.
DistributeReward(m) ==
  /\ rewardState[m] = "ReadyForDistribution"
  /\ rewardState' = [rewardState EXCEPT ![m] = "Distributed"]
  /\ UNCHANGED <<oracleVars, extraState, routerExited, nodeExited, summaryExited, rewardedAt,
                 slot>>

-----------------------------------------------------------------------------
(* The main data.                                                          *)

ExtraFieldsValid(data) ==
  \/ /\ data.extraDataFormat = EXTRA_DATA_FORMAT_EMPTY
     /\ data.extraDataHash = NoChunk
     /\ data.extraDataItemsCount = 0
  \/ /\ data.extraDataFormat = EXTRA_DATA_FORMAT_LIST
     /\ data.extraDataItemsCount # 0
     /\ data.extraDataHash # NoChunk

\* _processStakingRouterExitedValidatorsByModule.
ProcessExitedByModule(exits, slotsElapsed) ==
  /\ \A k \in 2..Len(exits) : exits[k][1] > exits[k - 1][1]
  /\ \A k \in DOMAIN exits : exits[k][2] # 0
  /\ UpdateExitedByModule(exits)
  /\ exits # <<>> =>
       (NewlyExited(exits) * SlotsPerDay) \div slotsElapsed <= ExitedPerDayLimit

\* submitReportData, with `rewarded' the modules that get rewards in it.
SubmitReportData(data, rewarded) ==
  /\ StartProcessing(AO, data)
  /\ ExtraFieldsValid(data)
  /\ ProcessExitedByModule(data.exits, Report.refSlot - lastProcessingRefSlot[AO])
  /\ rewardState' = [m \in Modules |->
       IF m \in rewarded THEN "TransferredToModule" ELSE rewardState[m]]
  /\ rewardedAt' = [m \in Modules |-> IF m \in rewarded THEN Report.refSlot ELSE rewardedAt[m]]
  /\ extraState' = [refSlot |-> Report.refSlot, dataFormat |-> data.extraDataFormat,
                    submitted |-> FALSE, dataHash |-> data.extraDataHash,
                    itemsCount |-> data.extraDataItemsCount, itemsProcessed |-> 0,
                    lastSortingKey |-> 0]
  /\ UNCHANGED <<nodeExited, summaryExited, slot>>

-----------------------------------------------------------------------------
(* The extra data.                                                         *)

\* _checkCanSubmitExtraData.
CanSubmitExtraData(format) ==
  /\ Report.hash # ZeroHash
  /\ extraState.refSlot = Report.refSlot         \* else CannotSubmitExtraDataBeforeMainData
  /\ slot <= Report.processingDeadline
  /\ extraState.dataFormat = format

SubmitExtraDataEmpty ==
  /\ CanSubmitExtraData(EXTRA_DATA_FORMAT_EMPTY)
  /\ ~extraState.submitted
  /\ UNCHANGED <<oracleVars, routerExited, nodeExited, summaryExited, rewardedAt, slot>>
  /\ FinishReporting
  /\ extraState' = [extraState EXCEPT !.submitted = TRUE]

\* The state after a chunk.
ChunkCounted(chunk) ==
  [extraState EXCEPT !.itemsProcessed = @ + Len(chunk.items),
                     !.lastSortingKey = LastKey(chunk.items[Len(chunk.items)])]

AnyCountEnds(chunk) ==                            \* faulty: the last chunk ends it
  IF chunk.next = NoChunk
  THEN extraState' = [ChunkCounted(chunk) EXCEPT !.submitted = TRUE]
  ELSE extraState' = [ChunkCounted(chunk) EXCEPT !.dataHash = chunk.next]

\* The last chunk must reach the number of items, an earlier one must not.
AdvanceExtraState(chunk) ==
  IF chunk.next = NoChunk
  THEN /\ ChunkCounted(chunk).itemsProcessed = extraState.itemsCount
       /\ extraState' = [ChunkCounted(chunk) EXCEPT !.submitted = TRUE]
  ELSE /\ ChunkCounted(chunk).itemsProcessed < extraState.itemsCount
       /\ extraState' = [ChunkCounted(chunk) EXCEPT !.dataHash = chunk.next]

\* submitReportExtraDataList.
SubmitExtraDataList(chunk) ==
  /\ CanSubmitExtraData(EXTRA_DATA_FORMAT_LIST)
  /\ extraState.itemsProcessed # extraState.itemsCount
  /\ chunk = extraState.dataHash
  /\ ItemsAccepted(chunk.items, extraState.itemsProcessed, extraState.lastSortingKey)
  /\ ReportExitedByOperator(chunk.items)
  /\ AdvanceExtraState(chunk)
  /\ IF chunk.next = NoChunk THEN FinishReporting ELSE UNCHANGED rewardState
  /\ UNCHANGED <<oracleVars, routerExited, rewardedAt, slot>>

-----------------------------------------------------------------------------
(* The oracle with any consensus contract and any passing of time.         *)

ExtraInit ==
  /\ extraState = [refSlot |-> 0, dataFormat |-> EXTRA_DATA_FORMAT_EMPTY, submitted |-> FALSE,
                   dataHash |-> NoChunk, itemsCount |-> 0, itemsProcessed |-> 0,
                   lastSortingKey |-> 0]
  /\ routerExited = [m \in Modules |-> 0]
  /\ nodeExited = [o \in Operators |-> 0]
  /\ summaryExited = [m \in Modules |-> 0]
  /\ rewardState = [m \in Modules |-> "Distributed"]
  /\ rewardedAt = [m \in Modules |-> 0]

ConsensusCalls ==
  /\ \/ \E h \in Hashes, refSlot \in Slots, deadline \in Nat :
          SubmitConsensusReport(AO, h, refSlot, deadline)
     \/ \E refSlot \in Slots : DiscardConsensusReport(AO, refSlot)
  /\ UNCHANGED <<lastProcessingRefSlot, consensusVersion, extraState, routerVars, slot>>

TimePasses == slot' \in Slots /\ slot' > slot /\ UNCHANGED <<oracleVars, extraState, routerVars>>

OracleNext ==
  \/ ConsensusCalls
  \/ \E data \in Hashes, R \in SUBSET Modules : SubmitReportData(data, R)
  \/ SubmitExtraDataEmpty
  \/ \E chunk \in Chunks : SubmitExtraDataList(chunk)
  \/ \E m \in Modules : DistributeReward(m)
  \/ TimePasses

OracleSpec == OracleInit /\ slot = 0 /\ ExtraInit /\ [][OracleNext]_aoVars

-----------------------------------------------------------------------------
(* Properties.                                                             *)

\* The state of the extra data and of the rewards has its type.
ExtraTypeOK ==
  /\ extraState \in [refSlot : Slots, dataFormat : {EXTRA_DATA_FORMAT_EMPTY,
                     EXTRA_DATA_FORMAT_LIST}, submitted : BOOLEAN,
                     dataHash : {extraState.dataHash}, itemsCount : Nat, itemsProcessed : Nat,
                     lastSortingKey : Nat]
  /\ routerExited \in [Modules -> Nat]
  /\ rewardState \in [Modules -> RewardStates] /\ rewardedAt \in [Modules -> Slots]

\* Extra data counts as submitted exactly when every item the report announced was
\* processed, be it in one transaction or in many, and no more are ever counted
\* than announced; it never belongs to a report that has not been processed.
ExtraDataComplete ==
  /\ extraState.itemsProcessed <= extraState.itemsCount
  /\ extraState.submitted => extraState.itemsProcessed = extraState.itemsCount
  /\ extraState.dataFormat = EXTRA_DATA_FORMAT_LIST =>
       (extraState.submitted <=> extraState.itemsProcessed = extraState.itemsCount)
  /\ extraState.refSlot = lastProcessingRefSlot[AO]

ExtraOK == ExtraTypeOK /\ ExtraDataComplete

\* The rewards minted with a report are not distributed, nor ready to be, before
\* the extra data of that report was processed to the end and the operators of
\* the module add up to the count the router has for it.
RewardsAwaitCounts ==
  \A m \in Modules :
    rewardedAt[m] # 0 /\ rewardedAt[m] = extraState.refSlot
      /\ rewardState[m] # "TransferredToModule" =>
      /\ extraState.submitted
      /\ summaryExited[m] = routerExited[m]

\* The summary of a module, which is updated by differences, stays the sum over its
\* operators; and neither it nor the router's count exceeds the deposits, from which
\* StakingRouter subtracts the greater of the two.
SummariesAddUp ==
  \A m \in Modules :
    /\ summaryExited[m] = MapThenSumSet(LAMBDA o : nodeExited[o], ModuleOperators(m))
    /\ summaryExited[m] <= DepositedIn(m) /\ routerExited[m] <= DepositedIn(m)
=============================================================================
