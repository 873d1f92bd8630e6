---------------------------- MODULE HashConsensus ----------------------------
(***************************************************************************)
(* HashConsensus (contracts/0.8.9/oracle): members of the oracle committee *)
(* vote for a report hash per reporting frame; the hash a quorum supports  *)
(* is pushed to the report processor, and taken back when it loses the     *)
(* quorum before processing starts.                                        *)
(*                                                                         *)
(* The arrays _memberStates and _memberAddresses are sequences and         *)
(* _reportVariants is the sequence of its first _reportVariantsLength      *)
(* entries; indices count from 1 where the code counts from 0.             *)
(*                                                                         *)
(* An operator marked "faulty" is a plausible error in the operator below  *)
(* it, used by nothing, to be put in that one's place.                     *)
(***************************************************************************)
EXTENDS BaseOracle, Sequences, FiniteSets, FiniteSetsExt

CONSTANTS
  Addresses,          \* addresses that may be members
  Quorums,            \* arguments of setQuorum, addMember and removeMember
  UnreachableQuorum,  \* UNREACHABLE_QUORUM
  SlotsPerEpoch,      \* SLOTS_PER_EPOCH
  FrameSizes,         \* arguments epochsPerFrame
  FastLanes,          \* arguments fastLaneLengthSlots
  FarFutureEpoch,     \* the initial epoch the constructor sets
  MaxSupport          \* bound on a variant's support, see SubmitReport

ASSUME QuorumAssumption ==
  /\ Quorums \subseteq Nat /\ UnreachableQuorum \in Nat
  /\ IsFiniteSet(Addresses) /\ UnreachableQuorum > Cardinality(Addresses)
ASSUME ReportsAssumption == IsFiniteSet(Hashes)        \* bytes32
ASSUME SupportAssumption == MaxSupport \in Nat /\ MaxSupport >= Cardinality(Addresses)
ASSUME FrameAssumption ==
  /\ SlotsPerEpoch \in Nat \ {0} /\ FrameSizes \subseteq Nat \ {0}
  /\ FastLanes \subseteq Nat
  /\ FarFutureEpoch \in Nat /\ FarFutureEpoch * SlotsPerEpoch > MaxSlot

VARIABLES
  frameConfig,         \* _frameConfig
  memberStates,        \* _memberStates
  memberAddresses,     \* _memberAddresses
  memberIndices1b,     \* _memberIndices1b
  reportingState,      \* _reportingState
  quorum,              \* _quorum
  reportVariants,      \* _reportVariants
  reportProcessor      \* _reportProcessor

memberVars    == <<memberStates, memberAddresses, memberIndices1b>>
consensusVars == <<reportingState, reportVariants>>
vars == <<oracleVars, slot, frameConfig, memberVars, consensusVars, quorum, reportProcessor>>

-----------------------------------------------------------------------------
(* Frames.                                                                 *)

Epoch(s) == s \div SlotsPerEpoch

InitialEpochIgnored == TRUE                       \* faulty: no check

InitialEpochArrived == Epoch(slot) >= frameConfig.initialEpoch

FrameIndex == (Epoch(slot) - frameConfig.initialEpoch) \div frameConfig.epochsPerFrame

FrameStartEpoch == frameConfig.initialEpoch + FrameIndex * frameConfig.epochsPerFrame

\* The current frame; defined once the initial epoch has arrived.
RefSlot == FrameStartEpoch * SlotsPerEpoch - 1

DeadlineSlot == RefSlot + frameConfig.epochsPerFrame * SlotsPerEpoch

-----------------------------------------------------------------------------
(* Members.                                                                *)

IsMember(a) == memberIndices1b[a] # 0

TotalMembers == Len(memberStates)

IsHalfOpenLaneMember(index0, frameIndex) ==       \* faulty: misses the last of the lane
  LET total == TotalMembers
      left  == IF quorum >= total THEN 0 ELSE frameIndex % total
      past  == IF quorum >= total THEN total ELSE left + quorum
  IN  past # 0 /\ (index0 + total - left) % total < (past - 1 - left) % total

\* pointInClosedIntervalModN over the window of `quorum' indices, counted from
\* 0, that starts at frameIndex mod the number of members.
IsFastLaneMember(index0, frameIndex) ==
  LET total == TotalMembers
      left  == IF quorum >= total THEN 0 ELSE frameIndex % total
      past  == IF quorum >= total THEN total ELSE left + quorum
  IN  past # 0 /\ (index0 + total - left) % total <= (past - 1 - left) % total

-----------------------------------------------------------------------------
(* Reaching and losing consensus.  `state' and `variants' are the new      *)
(* reporting state and variants but for the consensus fields.              *)

ReportProcessing == lastProcessingRefSlot[reportProcessor] >= RefSlot

ConsensusReached(state, variants, index) ==
  IF state.lastConsensusRefSlot # RefSlot \/ state.lastConsensusVariantIndex # index
  THEN /\ reportingState' = [state EXCEPT !.lastConsensusRefSlot = RefSlot,
                                          !.lastConsensusVariantIndex = index]
       /\ SubmitConsensusReport(reportProcessor, variants[index].hash, RefSlot, DeadlineSlot)
  ELSE reportingState' = state /\ UNCHANGED consensusReport

ConsensusKept(state) ==                           \* faulty: the report is not discarded
  reportingState' = state /\ UNCHANGED consensusReport

ConsensusNotReached(state) ==
  IF state.lastConsensusRefSlot = RefSlot
  THEN /\ reportingState' = [state EXCEPT !.lastConsensusRefSlot = 0]
       /\ DiscardConsensusReport(reportProcessor, RefSlot)
  ELSE reportingState' = state /\ UNCHANGED consensusReport

\* _getConsensusReport: the first variant with a quorum, or none.
QuorumVariants(state, variants, newQuorum) ==
  IF state.lastReportRefSlot # RefSlot THEN {}
  ELSE {i \in DOMAIN variants : variants[i].support >= newQuorum}

\* _setQuorumAndCheckConsensus, which ends every change of the member set.
SetQuorumAndCheckConsensus(newQuorum, total, variants) ==
  /\ newQuorum > total \div 2                   \* else QuorumTooSmall
  /\ quorum' = newQuorum
  /\ reportVariants' = variants
  /\ LET winners == QuorumVariants(reportingState, variants, newQuorum)
     IN  IF ~InitialEpochArrived \/ slot > DeadlineSlot \/ ReportProcessing
         THEN UNCHANGED <<reportingState, consensusReport>>
         ELSE IF winners # {}
         THEN ConsensusReached(reportingState, variants, Min(winners))
         ELSE ConsensusNotReached(reportingState)

-----------------------------------------------------------------------------
(* Management.                                                             *)

AddMember(a, newQuorum) ==
  /\ ~IsMember(a)
  /\ memberStates' = Append(memberStates,
                            [lastReportRefSlot |-> 0, lastReportVariantIndex |-> 0])
  /\ memberAddresses' = Append(memberAddresses, a)
  /\ memberIndices1b' = [memberIndices1b EXCEPT ![a] = TotalMembers + 1]
  /\ SetQuorumAndCheckConsensus(newQuorum, TotalMembers + 1, reportVariants)
  /\ UNCHANGED <<lastProcessingRefSlot, consensusVersion, slot, frameConfig, reportProcessor>>

\* The vote of a member on its way out is taken back, unless the report of its
\* frame is already being processed.
VariantsWithVote(m) == reportVariants             \* faulty: the vote stays
VariantsWithoutVote(m) ==
  IF m.lastReportRefSlot > 0 /\ m.lastReportRefSlot = RefSlot /\ ~ReportProcessing
  THEN [reportVariants EXCEPT ![m.lastReportVariantIndex].support = @ - 1]
  ELSE reportVariants

\* The index map when the last member takes the place of the one removed.
IndicesSwapped(a, moved) ==                       \* faulty: order of the assignments
  [memberIndices1b EXCEPT ![a] = 0, ![moved] = memberIndices1b[a]]
IndicesWithout(a, moved) ==
  [memberIndices1b EXCEPT ![moved] = memberIndices1b[a], ![a] = 0]

RemoveMember(a, newQuorum) ==
  LET i     == memberIndices1b[a]
      n     == TotalMembers
      moved == memberAddresses[n]
      m     == memberStates[i]
  IN  /\ IsMember(a)
      /\ m.lastReportRefSlot > 0 => InitialEpochArrived
      /\ memberStates' = SubSeq([memberStates EXCEPT ![i] = memberStates[n]], 1, n - 1)
      /\ memberAddresses' = SubSeq([memberAddresses EXCEPT ![i] = moved], 1, n - 1)
      /\ memberIndices1b' = IndicesWithout(a, moved)
      /\ SetQuorumAndCheckConsensus(newQuorum, n - 1, VariantsWithoutVote(m))
      /\ UNCHANGED <<lastProcessingRefSlot, consensusVersion, slot, frameConfig,
                     reportProcessor>>

\* setQuorum and disableConsensus.
SetQuorum(newQuorum) ==
  /\ SetQuorumAndCheckConsensus(newQuorum, TotalMembers, reportVariants)
  /\ UNCHANGED <<lastProcessingRefSlot, consensusVersion, slot, frameConfig, memberVars,
                 reportProcessor>>

SetFrame(initialEpoch, epochsPerFrame, fastLaneLengthSlots) ==
  /\ fastLaneLengthSlots <= epochsPerFrame * SlotsPerEpoch
  /\ frameConfig' = [initialEpoch |-> initialEpoch, epochsPerFrame |-> epochsPerFrame,
                     fastLaneLengthSlots |-> fastLaneLengthSlots]
  /\ UNCHANGED <<oracleVars, slot, memberVars, consensusVars, quorum, reportProcessor>>

UpdateInitialEpoch(epoch) ==
  /\ ~InitialEpochArrived
  /\ epoch > 0                                   \* slot -1 underflows
  /\ epoch * SlotsPerEpoch - 1 >= lastProcessingRefSlot[reportProcessor]
  /\ SetFrame(epoch, frameConfig.epochsPerFrame, frameConfig.fastLaneLengthSlots)

SetFrameConfigFromStart(epochsPerFrame, fastLaneLengthSlots) ==   \* faulty: frames restart
  /\ InitialEpochArrived
  /\ SetFrame(frameConfig.initialEpoch, epochsPerFrame, fastLaneLengthSlots)

SetFrameConfig(epochsPerFrame, fastLaneLengthSlots) ==
  /\ InitialEpochArrived
  /\ SetFrame(FrameStartEpoch, epochsPerFrame, fastLaneLengthSlots)

SetFastLaneLengthSlots(fastLaneLengthSlots) ==
  SetFrame(frameConfig.initialEpoch, frameConfig.epochsPerFrame, fastLaneLengthSlots)

\* The new processor gets the consensus report unless it was processed by
\* the previous one or by itself.
SetReportProcessor(newProcessor) ==
  /\ newProcessor # reportProcessor
  /\ InitialEpochArrived
  /\ reportProcessor' = newProcessor
  /\ IF /\ ~ReportProcessing
        /\ lastProcessingRefSlot[newProcessor] < RefSlot
        /\ reportingState.lastConsensusRefSlot = RefSlot
     THEN SubmitConsensusReport(newProcessor,
            reportVariants[reportingState.lastConsensusVariantIndex].hash, RefSlot, DeadlineSlot)
     ELSE UNCHANGED consensusReport
  /\ UNCHANGED <<lastProcessingRefSlot, consensusVersion, slot, frameConfig, memberVars,
                 consensusVars, quorum>>

-----------------------------------------------------------------------------
(* _submitReport by member a for the current reference slot and consensus  *)
(* version.  While the report is being processed nothing changes.  A vote  *)
(* counted before the processor was replaced stays when its member leaves, *)
(* so that support can exceed the number of members: hence MaxSupport.     *)
SubmitReport(a, hash) ==
  LET i        == memberIndices1b[a]
      m        == memberStates[i]
      fresh    == reportingState.lastReportRefSlot # RefSlot
      old      == IF fresh THEN <<>> ELSE reportVariants
      known    == {v \in DOMAIN old : old[v].hash = hash}
      index    == IF known = {} THEN Len(old) + 1 ELSE Min(known)
      revote   == m.lastReportRefSlot = RefSlot
      prev     == m.lastReportVariantIndex
      reduced  == IF revote THEN [old EXCEPT ![prev].support = @ - 1] ELSE old
      lost     == revote /\ reduced[prev].support = quorum - 1
      variants == IF known = {} THEN Append(reduced, [hash |-> hash, support |-> 1])
                  ELSE [reduced EXCEPT ![index].support = @ + 1]
      state    == [reportingState EXCEPT !.lastReportRefSlot = RefSlot]
  IN  /\ IsMember(a)
      /\ InitialEpochArrived
      /\ RefSlot # 0
      /\ slot <= DeadlineSlot
      /\ slot <= RefSlot + frameConfig.fastLaneLengthSlots => IsFastLaneMember(i - 1, FrameIndex)
      /\ ~ReportProcessing
      /\ ~(revote /\ index = prev)               \* else DuplicateReport
      /\ variants[index].support <= MaxSupport
      /\ reportVariants' = variants
      /\ memberStates' = [memberStates EXCEPT ![i] =
           [lastReportRefSlot |-> RefSlot, lastReportVariantIndex |-> index]]
      /\ IF variants[index].support >= quorum THEN ConsensusReached(state, variants, index)
         ELSE IF lost THEN ConsensusNotReached(state)
         ELSE reportingState' = state /\ UNCHANGED consensusReport
      /\ UNCHANGED <<lastProcessingRefSlot, consensusVersion, slot, frameConfig,
                     memberAddresses, memberIndices1b, quorum, reportProcessor>>

-----------------------------------------------------------------------------
(* Steps of the processors and of time.                                    *)

ProcessReport(p, hash) ==
  /\ StartProcessing(p, hash)
  /\ UNCHANGED <<slot, frameConfig, memberVars, consensusVars, quorum, reportProcessor>>

ChangeConsensusVersion(p, version) ==
  /\ SetConsensusVersion(p, version)
  /\ UNCHANGED <<slot, frameConfig, memberVars, consensusVars, quorum, reportProcessor>>

Tick ==
  /\ slot < MaxSlot
  /\ slot' = slot + 1
  /\ UNCHANGED <<oracleVars, frameConfig, memberVars, consensusVars, quorum, reportProcessor>>

Init ==
  /\ OracleInit
  /\ slot = 0
  /\ \E e \in FrameSizes, f \in FastLanes :
       /\ f <= e * SlotsPerEpoch
       /\ frameConfig = [initialEpoch |-> FarFutureEpoch, epochsPerFrame |-> e,
                         fastLaneLengthSlots |-> f]
  /\ memberStates = <<>>
  /\ memberAddresses = <<>>
  /\ memberIndices1b = [a \in Addresses |-> 0]
  /\ reportingState = [lastReportRefSlot |-> 0, lastConsensusRefSlot |-> 0,
                       lastConsensusVariantIndex |-> 0]
  /\ quorum = 0
  /\ reportVariants = <<>>
  /\ reportProcessor \in Processors

Next ==
  \/ \E a \in Addresses, q \in Quorums : AddMember(a, q)
  \/ \E a \in Addresses, q \in Quorums : RemoveMember(a, q)
  \/ \E q \in Quorums : SetQuorum(q)
  \/ \E e \in 1..Epoch(MaxSlot) : UpdateInitialEpoch(e)
  \/ \E e \in FrameSizes, f \in FastLanes : SetFrameConfig(e, f)
  \/ \E f \in FastLanes : SetFastLaneLengthSlots(f)
  \/ \E p \in Processors : SetReportProcessor(p)
  \/ \E a \in Addresses, h \in Hashes : SubmitReport(a, h)
  \/ \E p \in Processors, h \in Hashes : ProcessReport(p, h)
  \/ \E p \in Processors, v \in Versions : ChangeConsensusVersion(p, v)
  \/ Tick

Spec == Init /\ [][Next]_vars

-----------------------------------------------------------------------------
(* Properties.                                                             *)

MemberState == [lastReportRefSlot : Slots, lastReportVariantIndex : 0..Cardinality(Hashes)]

\* Every variable holds a value of its type.
TypeOK ==
  /\ OracleTypeOK
  /\ frameConfig \in [initialEpoch : 1..FarFutureEpoch, epochsPerFrame : FrameSizes,
                      fastLaneLengthSlots : FastLanes]
  /\ memberStates \in Seq(MemberState)
  /\ memberAddresses \in Seq(Addresses)
  /\ memberIndices1b \in [Addresses -> 0..Cardinality(Addresses)]
  /\ reportingState \in [lastReportRefSlot : Slots, lastConsensusRefSlot : Slots,
                         lastConsensusVariantIndex : 0..Cardinality(Hashes)]
  /\ quorum \in Quorums \cup {0}
  /\ reportVariants \in Seq([hash : Hashes, support : Nat])
  /\ reportProcessor \in Processors

\* Removals by swapping keep the index map and the two arrays in step: a member
\* votes through its own state and never through another's.
MembersIndexed ==
  /\ Len(memberAddresses) = TotalMembers
  /\ \A i \in 1..TotalMembers : memberIndices1b[memberAddresses[i]] = i
  /\ \A a \in Addresses : IsMember(a) => \E i \in 1..TotalMembers :
                            i = memberIndices1b[a] /\ memberAddresses[i] = a

WellFormed == TypeOK /\ MembersIndexed

\* The reports of the current frame are live: votes count and no processor
\* has started on the frame.
FrameOpen ==
  /\ InitialEpochArrived
  /\ reportingState.lastReportRefSlot = RefSlot
  /\ \A p \in Processors : lastProcessingRefSlot[p] < RefSlot

Voters(v) == {i \in 1..TotalMembers : /\ memberStates[i].lastReportRefSlot = RefSlot
                                      /\ memberStates[i].lastReportVariantIndex = v}

\* The support of a hash is the number of current members whose vote in the
\* current frame is that hash, through changed votes and member changes.
SupportIsVotes ==
  FrameOpen => \A v \in DOMAIN reportVariants :
                 reportVariants[v].support = Cardinality(Voters(v))

\* In an open frame HashConsensus holds a consensus exactly when a hash has
\* the quorum, for that hash, and the processor holds the same report: no change
\* of votes, members or quorum leaves a report standing without its quorum.
ConsensusIsQuorum ==
  FrameOpen =>
    LET winners == {v \in DOMAIN reportVariants : reportVariants[v].support >= quorum}
        report  == consensusReport[reportProcessor]
    IN  IF winners = {}
        THEN /\ reportingState.lastConsensusRefSlot # RefSlot
             /\ report.refSlot = RefSlot => report.hash = ZeroHash
        ELSE /\ reportingState.lastConsensusRefSlot = RefSlot
             /\ winners = {reportingState.lastConsensusVariantIndex}
             /\ report.refSlot = RefSlot
             /\ report.hash = reportVariants[reportingState.lastConsensusVariantIndex].hash

\* The processor never refuses a call of HashConsensus, so a member's vote or a
\* change of the committee is never reverted by it.
ProcessorAccepts ==
  InitialEpochArrived /\ ~ReportProcessing =>
    /\ consensusReport[reportProcessor].refSlot <= RefSlot
    /\ slot <= DeadlineSlot

\* Once a report is being processed it stays the same until a report for a later
\* slot arrives, whoever votes, leaves or moves the processor (_startProcessing).
ProcessedReportFixed ==
  [][\A p \in Processors :
       consensusReport[p].refSlot = lastProcessingRefSlot[p] =>
         \/ consensusReport'[p] = consensusReport[p]
         \/ consensusReport'[p].refSlot > consensusReport[p].refSlot]_vars

\* Reports are processed in increasing order of their reference slots.
ProcessingAdvances ==
  [][\A p \in Processors :
       lastProcessingRefSlot'[p] # lastProcessingRefSlot[p] =>
         lastProcessingRefSlot'[p] > lastProcessingRefSlot[p]]_vars

\* The reference slot never goes back, and a new frame size keeps it or moves it
\* on by at least the smaller of the two frame sizes (HashConsensus.sol:353).
RefSlotAdvances ==
  [][InitialEpochArrived =>
       \/ RefSlot' = RefSlot
       \/ RefSlot' >= RefSlot + SlotsPerEpoch * Min({frameConfig.epochsPerFrame,
                                                     frameConfig'.epochsPerFrame})]_vars

\* The fast lane of any frame holds as many members as the quorum asks for, and
\* its window reaches each member once in as many frames as there are members.
FastLaneComplete ==
  \A f \in 0..TotalMembers :
    LET lane(g) == {i \in 0..TotalMembers - 1 : IsFastLaneMember(i, g)}
    IN  /\ Cardinality(lane(f)) = Min({quorum, TotalMembers})
        /\ quorum > 0 => UNION {lane(f + k) : k \in 0..TotalMembers - 1} = 0..TotalMembers - 1
=============================================================================
