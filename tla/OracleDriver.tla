---------------------------- MODULE OracleDriver ----------------------------
(***************************************************************************)
(* The helpers of lib/protocol/helpers/accounting.ts that drive the oracle *)
(* of a deployed protocol: they set the committee up, wait for a frame,    *)
(* build a report of exited validators, vote for it with the fast lane and *)
(* submit its data and its extra data.  They run against HashConsensus and *)
(* AccountingOracle, composed here.                                        *)
(*                                                                         *)
(* Each await of the code that sends a transaction, or reads what a later  *)
(* step relies on, is a step; between two of them time passes, validators  *)
(* exit, rewards are distributed, and an extra data transaction sent       *)
(* before may be mined once more.  A transaction that reverts is an action *)
(* that is not enabled, and makes the call throw.                          *)
(***************************************************************************)
EXTENDS HashConsensus, AccountingOracle, SequencesExt

CONSTANTS
  OcMember,        \* n -> certainAddress(`AO:HC:OC:${n}`)
  Committees,      \* <<minMembersCount, quorum>>, the arguments of calls
  OffsetSlots,     \* slots waited into the next frame: 10 in the code
  ChunkSizes,      \* arguments maxItemsPerChunk
  Exits,           \* sets of operators whose validators exit together
  MaxVariants      \* bound on the reports tried in a frame

ASSUME OffsetAssumption == OffsetSlots \in Nat /\ MaxVariants \in Nat
ASSUME OcAssumption == \A m, n \in DOMAIN OcMember : OcMember[m] = OcMember[n] => m = n

VARIABLES
  exited,       \* environment: operator -> its validators that have exited
  sent,         \* environment: extra data sent so far, by call or again
  managesRole,  \* whether the agent holds MANAGE_MEMBERS_AND_QUORUM_ROLE
  call          \* the call that runs

hcVars     == <<frameConfig, memberVars, consensusVars, quorum, reportProcessor>>
driverVars == <<hcVars, aoVars, exited, sent, managesRole, call>>

NoCall == [pc |-> "idle", op |-> "none", outcome |-> "none", todo |-> <<>>, count |-> 0,
           needed |-> 0, quorum |-> 0, refSlot |-> 0, data |-> ZeroHash, chunks |-> <<>>,
           size |-> 0]

Return == call' = [NoCall EXCEPT !.outcome = "returned"]
Throw  == call' = [NoCall EXCEPT !.outcome = "thrown"]

OnlyCall == UNCHANGED <<hcVars, aoVars, exited, sent, managesRole>>
OffChain == UNCHANGED <<exited, sent, managesRole>>

\* A transaction, after which the call goes on as `after' says, or throws.
Transact(tx, after) ==
  \/ tx /\ after /\ OffChain
  \/ ~ENABLED tx /\ Throw /\ OnlyCall

HashConsensusTx(action) == action /\ UNCHANGED <<extraState, routerVars>>
OracleTx(action)        == action /\ UNCHANGED hcVars

-----------------------------------------------------------------------------
(* The committee.                                                          *)

\* getFastLaneMembers, in the order of the code.
FastLaneAddresses ==
  LET total == TotalMembers
      left  == IF quorum >= total THEN 0 ELSE FrameIndex % total
      past  == IF quorum >= total THEN total ELSE left + quorum
  IN  [k \in 1..past - left |-> memberAddresses[((left + k - 1) % total) + 1]]

EnsureHashConsensusInitialEpoch ==
  /\ call.pc = "idle"
  /\ frameConfig.initialEpoch = FarFutureEpoch
  /\ HashConsensusTx(UpdateInitialEpoch(Epoch(slot)))
  /\ Return
  /\ OffChain

EnsureOracleCommitteeMembers(minMembersCount, newQuorum) ==
  /\ call.pc = "idle"
  /\ InitialEpochArrived
  /\ LET count == Len(FastLaneAddresses)
     IN  IF count >= minMembersCount
         THEN /\ Return
              /\ OnlyCall
         ELSE /\ managesRole' = TRUE
              /\ call' = [NoCall EXCEPT !.op = "committee", !.pc = "add", !.count = count,
                                        !.needed = minMembersCount, !.quorum = newQuorum]
              /\ UNCHANGED <<hcVars, aoVars, exited, sent>>

AddCommitteeMember ==
  /\ call.pc = "add"
  /\ Transact(HashConsensusTx(AddMember(OcMember[call.count], call.quorum)),
              call' = [call EXCEPT !.count = @ + 1,
                         !.pc = IF call.count + 1 < call.needed THEN "add" ELSE "renounce"])

RenounceRole ==
  /\ call.pc = "renounce"
  /\ managesRole' = FALSE
  /\ Return
  /\ UNCHANGED <<hcVars, aoVars, exited, sent>>

-----------------------------------------------------------------------------
(* Building a report.                                                      *)

OperatorOrder(o1, o2) == o1[1] < o2[1] \/ (o1[1] = o2[1] /\ o1[2] < o2[2])

\* An item for each operator whose count in its module is not the actual one.
ExitedKeys(recorded, actual) ==
  LET order == SetToSortSeq({o \in Operators : recorded[o] # actual[o]}, OperatorOrder)
  IN  [k \in DOMAIN order |-> [module |-> order[k][1], nodeOpIds |-> <<order[k][2]>>,
                               counts |-> <<actual[order[k]]>>]]

ExitedByModule(recorded, actual) ==
  LET total(m) == SumFunctionOnSet(actual, ModuleOperators(m))
      order    == SetToSortSeq({m \in Modules : recorded[m] # total(m)}, <)
  IN  [k \in DOMAIN order |-> <<order[k], total(order[k])>>]

\* What a caller passes: nothing; the exits; the exits with a count of items that
\* is not theirs, or with the last operator named twice.
Contents(byModule, byOperator, actual) ==
  LET exits == ExitedByModule(byModule, actual)
      keys  == ExitedKeys(byOperator, actual)
  IN  {[exits |-> <<>>, keys |-> <<>>, extra |-> 0],
       [exits |-> exits, keys |-> keys, extra |-> 0]}
        \cup {[exits |-> exits, keys |-> keys, extra |-> 1] : k \in DOMAIN keys}
        \cup {[exits |-> exits, keys |-> Append(keys, Last(keys)), extra |-> 0] : k \in DOMAIN keys}

\* constructOracleReport, for callers of report(), and reportWithoutExtraData,
\* which always asks for a list.
ConstructReport(op, refSlot, content, chunks) ==
  LET items == Len(content.keys) + content.extra
  IN  [refSlot |-> refSlot, exits |-> content.exits,
       extraDataFormat |-> IF items # 0 \/ op = "reportWithoutExtraData"
                           THEN EXTRA_DATA_FORMAT_LIST ELSE EXTRA_DATA_FORMAT_EMPTY,
       extraDataHash |-> IF items # 0 THEN chunks[1] ELSE NoChunk,
       extraDataItemsCount |-> items]

-----------------------------------------------------------------------------
(* Reporting.                                                              *)

\* The main data of the report the oracle holds has been processed.
Processed == Report.hash # ZeroHash /\ lastProcessingRefSlot[AO] = Report.refSlot

SlotsPerFrame == frameConfig.epochsPerFrame * SlotsPerEpoch

NextFrameItself == RefSlot + SlotsPerFrame        \* faulty: the time of the reference slot

\* getReportTimeElapsed: the slot that is waited for.
NextFrameWithOffset == RefSlot + SlotsPerFrame + OffsetSlots

\* report() or reportWithoutExtraData(), with or without waitNextReportTime;
\* the reference slot waited for, if any, is kept to be compared.
StartReport(op, waitNextReportTime, maxItemsPerChunk) ==
  /\ call.pc = "idle"
  /\ InitialEpochArrived
  /\ waitNextReportTime => NextFrameWithOffset <= MaxSlot
  /\ ~waitNextReportTime /\ reportingState.lastReportRefSlot = RefSlot =>
       Len(reportVariants) < MaxVariants
  /\ slot' = IF waitNextReportTime THEN NextFrameWithOffset ELSE slot
  /\ call' = [NoCall EXCEPT !.op = op, !.pc = "build", !.size = maxItemsPerChunk,
                !.refSlot = IF waitNextReportTime THEN RefSlot + SlotsPerFrame ELSE 0]
  /\ UNCHANGED <<hcVars, oracleVars, extraState, routerVars>> /\ OffChain

\* The expectation of waitNextAvailableReportTime, then the report for the frame.
BuildReport ==
  /\ call.pc = "build"
  /\ OnlyCall
  /\ IF call.refSlot \notin {0, RefSlot} THEN Throw
     ELSE \E content \in Contents(routerExited, nodeExited, exited) :
            LET chunks == PrepareExtraData(EncodeItems(content.keys), call.size)
            IN  call' = [call EXCEPT !.pc = "reach", !.refSlot = RefSlot, !.chunks = chunks,
                           !.data = ConstructReport(call.op, RefSlot, content, chunks)]

\* reachConsensus: the members that will vote are those of the fast lane now.
ReachConsensus ==
  /\ call.pc = "reach"
  /\ call' = [call EXCEPT !.pc = "vote", !.todo = FastLaneAddresses]
  /\ OnlyCall

\* HashConsensus._submitReport returns at once when the report of the frame is
\* being processed and the member has not voted in it.
VoteIgnored(a) ==
  /\ IsMember(a)
  /\ slot <= RefSlot + frameConfig.fastLaneLengthSlots =>
       IsFastLaneMember(memberIndices1b[a] - 1, FrameIndex)
  /\ ReportProcessing
  /\ memberStates[memberIndices1b[a]].lastReportRefSlot # RefSlot
  /\ UNCHANGED vars

Vote ==
  /\ call.pc = "vote" /\ call.todo # <<>>
  /\ LET a == Head(call.todo)
     IN  Transact(/\ call.refSlot = RefSlot
                  /\ SubmitReport(a, call.data) \/ VoteIgnored(a)
                  /\ UNCHANGED <<extraState, routerVars>>,
                  call' = [call EXCEPT !.todo = Tail(@)])

\* The hash getConsensusState returns.
ConsensusHash ==
  LET winners == QuorumVariants(reportingState, reportVariants, quorum)
  IN  IF winners = {} THEN ZeroHash ELSE reportVariants[Min(winners)].hash

ExpectConsensus ==
  /\ call.pc = "vote" /\ call.todo = <<>>
  /\ IF ConsensusHash = call.data THEN call' = [call EXCEPT !.pc = "submit"] ELSE Throw
  /\ OnlyCall

SubmitData ==
  /\ call.pc = "submit"
  /\ \E rewarded \in {{}, Modules} :
       Transact(OracleTx(SubmitReportData(call.data, rewarded)),
                call' = [call EXCEPT !.pc = IF call.op = "reportWithoutExtraData"
                                            THEN "main" ELSE "extra"])

\* What reportWithoutExtraData expects of the processing state before it returns.
ExpectMainData ==
  /\ call.pc = "main"
  /\ IF /\ Processed
        /\ ~extraState.submitted
        /\ extraState.itemsCount = call.data.extraDataItemsCount
        /\ extraState.itemsProcessed = 0
     THEN call' = [call EXCEPT !.pc = "extra"]
     ELSE Throw
  /\ OnlyCall

OneChunkOnly == SubSeq(call.chunks, 2, 1)         \* faulty: the rest is not sent

ChunksLeft == Tail(call.chunks)

\* submitReport sends its only chunk; after reportWithoutExtraData the caller
\* sends them in order.
SubmitExtraData ==
  /\ call.pc = "extra"
  /\ IF call.data.extraDataFormat = EXTRA_DATA_FORMAT_EMPTY
     THEN /\ Transact(OracleTx(SubmitExtraDataEmpty), call' = [call EXCEPT !.pc = "verify"])
     ELSE LET chunk == Head(call.chunks)
          IN  \/ /\ OracleTx(SubmitExtraDataList(chunk))
                 /\ call' = [call EXCEPT !.chunks = ChunksLeft,
                                         !.pc = IF ChunksLeft = <<>> THEN "verify" ELSE "extra"]
                 /\ sent' = sent \cup {chunk}
                 /\ UNCHANGED <<exited, managesRole>>
              \/ /\ ~ENABLED SubmitExtraDataList(chunk)
                 /\ Throw
                 /\ sent' = sent \cup {chunk}
                 /\ UNCHANGED <<hcVars, aoVars, exited, managesRole>>

\* getProcessingState, as submitReport expects it in the end (and the tests,
\* after the last of several chunks).
ProcessingStateExpected ==
  /\ RefSlot = call.refSlot
  /\ Report.hash = call.data
  /\ Processed
  /\ call.op = "report" => extraState.dataHash = call.data.extraDataHash
  /\ extraState.dataFormat = call.data.extraDataFormat
  /\ extraState.submitted
  /\ extraState.itemsCount = call.data.extraDataItemsCount
  /\ extraState.itemsProcessed = call.data.extraDataItemsCount

VerifyState ==
  /\ call.pc = "verify"
  /\ IF ProcessingStateExpected THEN Return ELSE Throw
  /\ OnlyCall

-----------------------------------------------------------------------------
(* The environment.                                                        *)

ValidatorsExit(ops) ==
  /\ \A o \in ops : exited[o] < Deposited[o]
  /\ exited' = [o \in Operators |-> IF o \in ops THEN exited[o] + 1 ELSE exited[o]]
  /\ UNCHANGED <<hcVars, aoVars, sent, managesRole, call>>

SentAgain(chunk) ==
  /\ OracleTx(SubmitExtraDataList(chunk))
  /\ UNCHANGED <<exited, sent, managesRole, call>>

Distribute(m) ==
  /\ OracleTx(DistributeReward(m))
  /\ UNCHANGED <<exited, sent, managesRole, call>>

SlotPasses ==
  /\ HashConsensusTx(Tick)
  /\ UNCHANGED <<exited, sent, managesRole, call>>

DriverInit ==
  /\ Init /\ ExtraInit
  /\ exited = [o \in Operators |-> 0]
  /\ sent = {}
  /\ managesRole = FALSE
  /\ call = NoCall

CallGoesOn ==
  \/ AddCommitteeMember \/ RenounceRole
  \/ BuildReport \/ ReachConsensus \/ Vote \/ ExpectConsensus
  \/ SubmitData \/ ExpectMainData \/ SubmitExtraData \/ VerifyState

DriverNext ==
  \/ EnsureHashConsensusInitialEpoch
  \/ \E c \in Committees : EnsureOracleCommitteeMembers(c[1], c[2])
  \/ \E wait \in BOOLEAN : StartReport("report", wait, 0)
  \/ \E n \in ChunkSizes : StartReport("reportWithoutExtraData", TRUE, n)
  \/ CallGoesOn
  \/ \E ops \in Exits : ValidatorsExit(ops)
  \/ \E chunk \in sent : SentAgain(chunk)
  \/ \E m \in Modules : Distribute(m)
  \/ SlotPasses

DriverSpec == DriverInit /\ [][DriverNext]_driverVars /\ WF_driverVars(CallGoesOn)

-----------------------------------------------------------------------------
(* Properties.                                                             *)

\* The items a chain of chunks holds, from the first chunk on.
ChainItems(first) ==
  LET link[k \in 1..Cardinality(Operators) + 2] ==
        IF k = 1 THEN first
        ELSE IF link[k - 1] = NoChunk THEN NoChunk ELSE link[k - 1].next
  IN  FlattenSeq([k \in DOMAIN link |-> IF link[k] = NoChunk THEN <<>> ELSE link[k].items])

\* A report whose extra data is what it says it is.
WellBuilt(data) ==
  LET items == ChainItems(data.extraDataHash)
  IN  /\ data.extraDataFormat = EXTRA_DATA_FORMAT_LIST
      /\ Len(items) = data.extraDataItemsCount
      /\ Cardinality(Updated(items)) = Len(items)

Recorded(item) == nodeExited[<<item.module, item.nodeOpIds[1]>>] = item.counts[1]

\* While extra data arrives in chunks, some of them twice, the chunks still to come
\* are those of the report after the items processed, and exactly the operators of
\* the items processed have their new count; the summary of a module is always the
\* sum over its operators, never above what the router was told, and equal to it
\* once the extra data of a well built report was submitted.
CountsFollowChain ==
  /\ SummariesAddUp
  /\ \A m \in Modules :
       /\ summaryExited[m] <= routerExited[m]
       /\ Processed /\ WellBuilt(Report.hash) /\ extraState.submitted =>
            summaryExited[m] = routerExited[m]
  /\ Processed /\ WellBuilt(Report.hash) =>
       LET items == ChainItems(Report.hash.extraDataHash)
       IN  /\ ~extraState.submitted =>
                ChainItems(extraState.dataHash) =
                  SubSeq(items, extraState.itemsProcessed + 1, Len(items))
           /\ \A i \in DOMAIN items : Recorded(items[i]) <=> i <= extraState.itemsProcessed

\* The chunks of a call fit the limits of the sanity checker and none was sent before.
FreshAndFitting ==
  \A k \in DOMAIN call.chunks :
    call.chunks[k] \notin sent /\ Len(call.chunks[k].items) <= MaxItems

\* Once its main data is in, a well built report with extra data in chunks that fit
\* has all of it processed, unless the deadline of the report passes first: the
\* chunks the builder links are the ones the oracle asks for, in that order.
Delivered ==
  (call.pc = "extra" /\ extraState.itemsProcessed = 0 /\ WellBuilt(call.data) /\ FreshAndFitting)
    ~> (extraState.submitted \/ slot > Report.processingDeadline)

VotedBefore(a, hash) ==
  LET m == memberStates[memberIndices1b[a]]
  IN  m.lastReportRefSlot = RefSlot /\ reportVariants[m.lastReportVariantIndex].hash = hash

\* A call that waited for a frame finds itself in the next one, and gives up only for
\* a reason the protocol has: the frame is over, its report is taken already or was
\* voted for by an earlier call that failed, the
\* committee is too small or knows the address, the fields of extra data contradict
\* each other, too many validators exited, or the extra data is not acceptable.
ThrowsExplained ==
  [][/\ call.pc = "idle" /\ call'.pc = "build" /\ call'.refSlot # 0 =>
          /\ RefSlot' = RefSlot + SlotsPerFrame
          /\ call'.refSlot = RefSlot'
     /\ call.pc # "idle" /\ call'.outcome = "thrown" =>
          \/ call.pc = "add" /\ IsMember(OcMember[call.count])
          \/ call.pc = "add" /\ call.quorum <= (TotalMembers + 1) \div 2
          \/ call.pc # "add" /\ RefSlot # call.refSlot
          \/ call.pc = "vote" /\ (ReportProcessing \/ TotalMembers < quorum \/ quorum = 0 \/ RefSlot = 0)
          \/ call.pc = "vote" /\ call.todo # <<>> /\ VotedBefore(Head(call.todo), call.data)
          \/ call.pc = "submit" /\ ~ExtraFieldsValid(call.data)
          \/ call.pc = "submit" /\ NewlyExited(call.data.exits) * SlotsPerDay > ExitedPerDayLimit
          \/ call.pc \in {"main", "extra"} /\ call.data.extraDataFormat = EXTRA_DATA_FORMAT_LIST
               /\ ~(WellBuilt(call.data) /\ FreshAndFitting)]_driverVars
=============================================================================
