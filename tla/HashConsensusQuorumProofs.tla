---------------------- MODULE HashConsensusQuorumProofs ----------------------
(***************************************************************************)
(* Votes, the quorum and the report the processor holds: for every         *)
(* committee, every quorum a majority, and any number of processors.       *)
(*                                                                         *)
(* The support of a variant is the number of members that stand by it,     *)
(* so two variants with a majority would share a member: there is one      *)
(* consensus at most, and the processor holds it.                          *)
(***************************************************************************)
EXTENDS HashConsensusProofs

\* A quorum is a majority of the committee; there is none before the first call.
QuorumMajority ==
  \/ quorum > TotalMembers \div 2
  \/ quorum = 0 /\ TotalMembers = 0 /\ reportVariants = <<>>

\* HashConsensus was never moved from one processor to another.
SoleProcessor == \A p, q \in Processors : p = q

Winners == {v \in DOMAIN reportVariants : reportVariants[v].support >= quorum}

\* ConsensusIsQuorum with any number of processors.  A processor that was replaced
\* keeps its report when the quorum is lost meanwhile, and holds it still when it
\* is put back: a report without a quorum is discarded for certain only when
\* there is one processor.
ConsensusTracksQuorum ==
  FrameOpen =>
    LET report == consensusReport[reportProcessor]
    IN  IF Winners = {}
        THEN /\ reportingState.lastConsensusRefSlot # RefSlot
             /\ SoleProcessor /\ report.refSlot = RefSlot => report.hash = ZeroHash
        ELSE /\ reportingState.lastConsensusRefSlot = RefSlot
             /\ Winners = {reportingState.lastConsensusVariantIndex}
             /\ report.refSlot = RefSlot
             /\ report.hash = reportVariants[reportingState.lastConsensusVariantIndex].hash

VoteInv == QuorumMajority /\ SupportIsVotes /\ ConsensusTracksQuorum

-----------------------------------------------------------------------------
(* Open frames.                                                            *)

LEMMA OpenFrame ==
  ASSUME Inv, FrameOpen
  PROVE  /\ InitialEpochArrived /\ Round = RefSlot /\ RefSlot \in Nat /\ RefSlot # 0
         /\ ~ReportProcessing /\ slot <= DeadlineSlot
         /\ \A v : Voters(v) = Backers(v)
         /\ CurrentVariants = reportVariants
<1>1. TypeOK /\ InitialEpochArrived /\ Round = RefSlot
  BY DEF Inv, Counted, FrameOpen, Round
<1>2. RefSlot \in Nat /\ slot <= DeadlineSlot
  BY <1>1, FrameAroundSlot, VotersAreBackers
<1>3. reportProcessor \in Processors /\ lastProcessingRefSlot[reportProcessor] \in Nat
  BY <1>1, SlotAssumption DEF TypeOK, OracleTypeOK, Slots
<1>4. lastProcessingRefSlot[reportProcessor] < RefSlot
  BY <1>3 DEF FrameOpen
<1>5. RefSlot # 0 /\ ~ReportProcessing
  BY <1>2, <1>3, <1>4 DEF ReportProcessing
<1> QED BY <1>1, <1>2, <1>5, VotersAreBackers DEF CurrentVariants

\* A frame that is open after a step that is no vote was open before it.
LEMMA OpenBefore ==
  ASSUME Inv, Inv', Next, Round' = Round, FrameOpen'
  PROVE  FrameOpen /\ RefSlot' = RefSlot
<1>1. /\ InitialEpochArrived' /\ RefSlot' = Round
      /\ \A p \in Processors : lastProcessingRefSlot'[p] < RefSlot'
  BY DEF FrameOpen, Round
<1>2. /\ lastProcessingRefSlot \in [Processors -> Slots] /\ Slots \subseteq Nat
      /\ lastProcessingRefSlot' \in [Processors -> Slots]
      /\ Round \in Nat /\ reportProcessor \in Processors
  BY Numbers DEF Inv, Counted, TypeOK, OracleTypeOK
<1>3. \A p \in Processors : lastProcessingRefSlot[p] < Round
  <2> SUFFICES ASSUME NEW p \in Processors PROVE lastProcessingRefSlot[p] < Round
    OBVIOUS
  <2>1. lastProcessingRefSlot[p] \in Nat /\ lastProcessingRefSlot'[p] \in Nat
    BY <1>2
  <2>2. lastProcessingRefSlot'[p] = lastProcessingRefSlot[p]
        \/ lastProcessingRefSlot'[p] > lastProcessingRefSlot[p]
    BY StepProcesses DEF Processes
  <2> QED BY <2>1, <2>2, <1>1, <1>2
<1>4. InitialEpochArrived
  <2> SUFFICES ASSUME ~InitialEpochArrived PROVE FALSE
    OBVIOUS
  <2>1. Round = 0
    BY DEF Inv, RoundArrived
  <2>2. lastProcessingRefSlot[reportProcessor] \in Nat /\ lastProcessingRefSlot[reportProcessor] < 0
    BY <1>2, <1>3, <2>1
  <2> QED BY <2>2
<1>5. RefSlot \in Nat /\ Round <= RefSlot
  BY <1>4, VotersAreBackers
<1>6. RefSlot' = RefSlot
  <2>1. \/ RefSlot' = RefSlot
        \/ RefSlot' >= RefSlot + SlotsPerEpoch * Min({frameConfig.epochsPerFrame,
                                                      frameConfig'.epochsPerFrame})
    BY <1>4, FrameMoves DEF Inv, Counted
  <2> DEFINE least == Min({frameConfig.epochsPerFrame, frameConfig'.epochsPerFrame})
  <2>2. least \in Nat
    <3> DEFINE a == frameConfig.epochsPerFrame
               b == frameConfig'.epochsPerFrame
    <3>1. a \in Nat /\ b \in Nat /\ least = Min({a, b})
      BY FrameAssumption DEF Inv, Counted, TypeOK
    <3> HIDE DEF a, b
    <3>2. Min({a, b}) \in {a, b}
      <4>1. a \in Int /\ b \in Int
        BY <3>1
      <4> QED BY <4>1, MinOfTwo
    <3> QED BY <3>1, <3>2
  <2>3. RefSlot' = RefSlot \/ RefSlot' >= RefSlot + SlotsPerEpoch * least
    BY <2>1
  <2> HIDE DEF least
  <2>4. SlotsPerEpoch * least \in Nat
    BY <2>2, FrameAssumption
  <2> QED BY <2>3, <2>4, <1>1, <1>2, <1>5
<1> QED BY <1>1, <1>3, <1>4, <1>6 DEF FrameOpen, Round

\* Two variants with a quorum would share a voter.
LEMMA OneWinner ==
  (TypeOK /\ QuorumMajority /\ SupportIsVotes /\ FrameOpen => \A v, w \in Winners : v = w)
<1> SUFFICES ASSUME TypeOK, QuorumMajority, SupportIsVotes, FrameOpen,
                    NEW v \in Winners, NEW w \in Winners, v # w
             PROVE  FALSE
  OBVIOUS
<1>1. TotalMembers \in Nat /\ quorum \in Nat
  BY Numbers, QuorumAssumption DEF TypeOK
<1>2. /\ v \in DOMAIN reportVariants /\ w \in DOMAIN reportVariants
      /\ reportVariants[v].support >= quorum /\ reportVariants[w].support >= quorum
  BY DEF Winners
<1>3. quorum > TotalMembers \div 2
  <2>1. reportVariants # <<>>
    BY <1>2
  <2> QED BY <2>1 DEF QuorumMajority
<1>4. Voters(v) \in SUBSET (1..TotalMembers) /\ Voters(w) \in SUBSET (1..TotalMembers)
  BY DEF Voters
<1>5. Voters(v) \cap Voters(w) = {}
  BY DEF Voters
<1>6. Cardinality(Voters(v)) >= quorum /\ Cardinality(Voters(w)) >= quorum
  BY <1>2 DEF SupportIsVotes
<1>7. Cardinality(Voters(v)) \in Nat /\ Cardinality(Voters(w)) \in Nat
  BY <1>1, <1>4, SomeMembers
<1>8. Cardinality(Voters(v)) + Cardinality(Voters(w)) > TotalMembers
  BY <1>1, <1>3, <1>6, <1>7
<1>9. IsFiniteSet(1..TotalMembers) /\ Cardinality(1..TotalMembers) = TotalMembers
  BY <1>1, UpToCount
<1> QED BY <1>4, <1>5, <1>8, <1>9, FS_MajoritiesIntersect

LEMMA OneWinnerNext ==
  (TypeOK /\ QuorumMajority /\ SupportIsVotes /\ FrameOpen => \A v, w \in Winners : v = w)'
BY OneWinner, PTL

-----------------------------------------------------------------------------
(* The quorum stays a majority.                                            *)

LEMMA QuorumKept == ASSUME Inv, QuorumMajority, Next PROVE QuorumMajority'
<1>1. ASSUME NEW a \in Addresses, NEW q \in Quorums, AddMember(a, q) PROVE QuorumMajority'
  <2>1. /\ memberStates' = Append(memberStates,
                                  [lastReportRefSlot |-> 0, lastReportVariantIndex |-> 0])
        /\ quorum' > (TotalMembers + 1) \div 2
    BY <1>1 DEF AddMember, SetQuorumAndCheckConsensus
  <2>2. TotalMembers' = TotalMembers + 1
    BY <2>1 DEF Inv, Counted, TypeOK, TotalMembers
  <2> QED BY <2>1, <2>2 DEF QuorumMajority
<1>2. ASSUME NEW a \in Addresses, NEW q \in Quorums, RemoveMember(a, q) PROVE QuorumMajority'
  <2>1. /\ TotalMembers' = TotalMembers - 1
        /\ SetQuorumAndCheckConsensus(q, TotalMembers - 1,
                                      VariantsWithoutVote(memberStates[memberIndices1b[a]]))
    BY <1>2, RemoveMemberEffect
  <2>2. quorum' > (TotalMembers - 1) \div 2
    BY <2>1 DEF SetQuorumAndCheckConsensus
  <2> QED BY <2>1, <2>2 DEF QuorumMajority
<1>3. ASSUME NEW q \in Quorums, SetQuorum(q) PROVE QuorumMajority'
  BY <1>3 DEF SetQuorum, SetQuorumAndCheckConsensus, memberVars, QuorumMajority, TotalMembers
<1>4. ASSUME NEW a \in Addresses, NEW h \in Hashes, SubmitReport(a, h) PROVE QuorumMajority'
  <2>1. PICK i, variants, index : Voted(i, h, variants, index)
    BY <1>4, SubmitReportVotes
  <2>2. quorum' = quorum /\ i \in 1..TotalMembers
    BY <2>1 DEF Voted
  <2>3. TotalMembers' = TotalMembers
    BY <2>1, VotersAfter
  <2>4. ~(TotalMembers = 0)
    BY <2>2
  <2> QED BY <2>2, <2>3, <2>4 DEF QuorumMajority
<1>5. ASSUME UNCHANGED <<memberStates, quorum, reportVariants>> PROVE QuorumMajority'
  BY <1>5 DEF QuorumMajority, TotalMembers
<1> QED
  BY <1>1, <1>2, <1>3, <1>4, <1>5
  DEF Next, UpdateInitialEpoch, SetFrameConfig, SetFastLaneLengthSlots, SetFrame,
      SetReportProcessor, ProcessReport, ChangeConsensusVersion, Tick, memberVars, consensusVars

-----------------------------------------------------------------------------
(* Support is counted right.                                               *)

LEMMA OpenVoters ==
  (Inv /\ FrameOpen => \A v : Voters(v) = Backers(v))
BY OpenFrame

LEMMA OpenVotersNext ==
  (Inv /\ FrameOpen => \A v : Voters(v) = Backers(v))'
BY OpenVoters, PTL

LEMMA AddMemberSupport ==
  ASSUME Inv, Inv', SupportIsVotes, NEW a \in Addresses, NEW q \in Quorums, AddMember(a, q),
         FrameOpen, RefSlot' = RefSlot
  PROVE  SupportIsVotes'
<1> DEFINE n == TotalMembers
<1>1. /\ memberStates' = Append(memberStates,
                                [lastReportRefSlot |-> 0, lastReportVariantIndex |-> 0])
      /\ reportVariants' = reportVariants
  BY DEF AddMember, SetQuorumAndCheckConsensus
<1>2. n \in Nat /\ n = Len(memberStates) /\ memberStates \in Seq(MemberState)
  BY Numbers DEF Inv, Counted, TypeOK, TotalMembers
<1>3. RefSlot # 0
  BY OpenFrame
<1> HIDE DEF n
<1>4. /\ Len(memberStates') = n + 1
      /\ memberStates'[n + 1] = [lastReportRefSlot |-> 0, lastReportVariantIndex |-> 0]
      /\ \A j \in 1..n : memberStates'[j] = memberStates[j]
  BY <1>1, <1>2
<1>5. ASSUME NEW v PROVE Voters(v)' = Voters(v)
  <2>1. Voters(v)' = {j \in 1..(n + 1) : /\ memberStates'[j].lastReportRefSlot = RefSlot
                                         /\ memberStates'[j].lastReportVariantIndex = v}
    BY <1>4 DEF Voters, TotalMembers
  <2>2. Voters(v) = {j \in 1..n : /\ memberStates[j].lastReportRefSlot = RefSlot
                                  /\ memberStates[j].lastReportVariantIndex = v}
    BY <1>2 DEF Voters, TotalMembers
  <2>3. memberStates'[n + 1].lastReportRefSlot # RefSlot
    BY <1>3, <1>4
  <2> QED BY <2>1, <2>2, <2>3, <1>2, <1>4
<1> QED BY <1>1, <1>5 DEF SupportIsVotes

LEMMA RemoveMemberSupport ==
  ASSUME Inv, Inv', SupportIsVotes, NEW a \in Addresses, NEW q \in Quorums, RemoveMember(a, q),
         FrameOpen, FrameOpen', Round' = Round
  PROVE  SupportIsVotes'
<1> DEFINE n        == TotalMembers
           i        == memberIndices1b[a]
           m        == memberStates[i]
           variants == VariantsWithoutVote(m)
<1>1. /\ n \in Nat \ {0} /\ i \in 1..n
      /\ m.lastReportRefSlot > 0 => InitialEpochArrived
      /\ TotalMembers' = n - 1
      /\ \A j \in 1..(n - 1) : /\ j = i => memberStates'[j] = memberStates[n]
                               /\ j # i => memberStates'[j] = memberStates[j]
      /\ SetQuorumAndCheckConsensus(q, n - 1, variants)
  BY RemoveMemberEffect
<1>2. reportVariants' = variants
  BY <1>1 DEF SetQuorumAndCheckConsensus
<1>3. /\ variants \in Seq(Variant) /\ Len(variants) = Len(reportVariants)
      /\ \/ \A v \in 1..Len(variants) :
              /\ i \in Backers(v) => variants[v].support = reportVariants[v].support - 1
              /\ i \notin Backers(v) => variants[v].support = reportVariants[v].support
         \/ /\ variants = reportVariants
            /\ ~(m.lastReportRefSlot > 0 /\ m.lastReportRefSlot = RefSlot /\ ~ReportProcessing)
  BY <1>1, VoteTakenBack
<1>4. RefSlot \in Nat /\ RefSlot # 0 /\ ~ReportProcessing
  BY OpenFrame
<1>5. \A v : Voters(v) = Backers(v) /\ Voters(v)' = Backers(v)'
  BY OpenVoters, OpenVotersNext
<1>6. ASSUME NEW v PROVE /\ Cardinality(Backers(v)) \in Nat
                         /\ Cardinality(Backers(v)') = Cardinality(Backers(v))
                                                       - (IF i \in Backers(v) THEN 1 ELSE 0)
  <2> HIDE DEF n, i
  <2> QED BY <1>1, BackersWithout DEF n
<1>7. Len(reportVariants) \in Nat
  BY Numbers DEF Inv, Counted
<1>8. ASSUME NEW v \in 1..Len(reportVariants)
      PROVE  variants[v].support = reportVariants[v].support - (IF i \in Backers(v) THEN 1 ELSE 0)
  <2>0. reportVariants[v].support \in Nat
    BY <1>8, Numbers DEF Inv, Counted
  <2> HIDE DEF variants
  <2>1. CASE \A w \in 1..Len(variants) :
               /\ i \in Backers(w) => variants[w].support = reportVariants[w].support - 1
               /\ i \notin Backers(w) => variants[w].support = reportVariants[w].support
    BY <2>0, <2>1, <1>3, <1>8
  <2>2. CASE /\ variants = reportVariants
             /\ ~(m.lastReportRefSlot > 0 /\ m.lastReportRefSlot = RefSlot /\ ~ReportProcessing)
    <3>1. m.lastReportRefSlot # RefSlot
      BY <2>2, <1>4
    <3>2. i \notin Voters(v)
      BY <3>1 DEF Voters
    <3>3. i \notin Backers(v)
      BY <3>2, <1>5
    <3> QED BY <2>0, <2>2, <3>3
  <2> QED BY <2>1, <2>2, <1>3
<1>9. ASSUME NEW v \in DOMAIN reportVariants'
      PROVE  reportVariants'[v].support = Cardinality(Voters(v)')
  <2>1. v \in 1..Len(reportVariants) /\ v \in DOMAIN reportVariants
    <3> HIDE DEF variants
    <3>1. reportVariants \in Seq(Variant)
      BY DEF Inv, Counted, TypeOK, Variant
    <3> QED BY <3>1, <1>2, <1>3, <1>9
  <2>2. reportVariants[v].support = Cardinality(Backers(v))
    BY <2>1, <1>5 DEF SupportIsVotes
  <2>3. variants[v].support = reportVariants[v].support - (IF i \in Backers(v) THEN 1 ELSE 0)
    BY <2>1, <1>8
  <2>4. Cardinality(Backers(v)') = Cardinality(Backers(v)) - (IF i \in Backers(v) THEN 1 ELSE 0)
    BY <1>6
  <2> HIDE DEF variants, i
  <2> QED BY <2>2, <2>3, <2>4, <1>2, <1>5
<1> QED BY <1>9 DEF SupportIsVotes

\* Before a vote the support of every variant of the frame is its voters' number.
LEMMA VoteSupport ==
  ASSUME Inv, SupportIsVotes, NEW i, NEW h, NEW variants, NEW index,
         Voted(i, h, variants, index), FrameOpen'
  PROVE  /\ FrameOpen <=> Round = RefSlot
         /\ \A v \in 1..Len(variants) : variants[v].support = Cardinality(Voters(v)')
<1>1. RefSlot' = RefSlot /\ InitialEpochArrived /\ RefSlot # 0
      /\ lastProcessingRefSlot' = lastProcessingRefSlot
      /\ Len(variants) \in Nat /\ Len(CurrentVariants) \in Nat
  <2>1. RefSlot' = RefSlot
    BY VotersAfter
  <2>2. variants \in Seq(Variant) /\ CurrentVariants \in Seq(Variant)
    BY CurrentVariantsTyped DEF Voted, VoteCounted
  <2>3. InitialEpochArrived /\ RefSlot # 0 /\ lastProcessingRefSlot' = lastProcessingRefSlot
    BY DEF Voted
  <2> QED BY <2>1, <2>2, <2>3
<1>2. FrameOpen <=> Round = RefSlot
  BY <1>1 DEF FrameOpen, Round
<1>3. ASSUME NEW v \in 1..Len(variants) PROVE variants[v].support = Cardinality(Voters(v)')
  <2>1. /\ variants[v].support \in Nat /\ SupportOf(CurrentVariants, v) \in Nat
        /\ variants[v].support - Cardinality(Voters(v)') =
             SupportOf(CurrentVariants, v) - Cardinality(Voters(v))
        /\ ~(v <= Len(CurrentVariants)) =>
             SupportOf(CurrentVariants, v) = 0 /\ Cardinality(Voters(v)) = 0
    BY SupportAfter
  <2>2. /\ Cardinality(Voters(v)) \in Nat
        /\ Cardinality(Voters(v)') = Cardinality(Voters(v)) + (IF v = index THEN 1 ELSE 0)
                                                   - (IF i \in Voters(v) THEN 1 ELSE 0)
    BY VotersAfter
  <2>3. Cardinality(Voters(v)') \in Int
    BY <2>2
  <2>4. SupportOf(CurrentVariants, v) = Cardinality(Voters(v))
    <3>1. CASE ~(v <= Len(CurrentVariants))
      BY <2>1, <3>1
    <3>2. CASE v <= Len(CurrentVariants)
      <4>1. v \in 1..Len(CurrentVariants)
        BY <1>1, <3>2
      <4>2. Round = RefSlot /\ CurrentVariants = reportVariants
        <5>1. Len(<<>>) = 0
          OBVIOUS
        <5> QED BY <4>1, <5>1 DEF CurrentVariants
      <4>3. v \in DOMAIN reportVariants
        <5>1. reportVariants \in Seq(Variant)
          BY DEF Inv, Counted, TypeOK, Variant
        <5> QED BY <4>1, <4>2, <5>1
      <4>4. reportVariants[v].support = Cardinality(Voters(v))
        BY <1>2, <4>2, <4>3 DEF SupportIsVotes
      <4> QED BY <3>2, <4>2, <4>4 DEF SupportOf
    <3> QED BY <3>1, <3>2
  <2> QED BY <2>1, <2>2, <2>3, <2>4
<1> QED BY <1>2, <1>3

\* The step of a vote.
LEMMA VoteKeepsSupport ==
  ASSUME Inv, SupportIsVotes, NEW i, NEW h, NEW variants, NEW index,
         Voted(i, h, variants, index)
  PROVE  SupportIsVotes'
<1> SUFFICES ASSUME FrameOpen', NEW v \in DOMAIN reportVariants'
             PROVE  reportVariants'[v].support = Cardinality(Voters(v)')
  BY DEF SupportIsVotes
<1>1. reportVariants' = variants /\ variants \in Seq(Variant)
  BY DEF Voted, VoteCounted
<1>2. v \in 1..Len(variants)
  BY <1>1
<1> QED BY <1>1, <1>2, VoteSupport

\* Steps after which a frame is open are votes, or find it open and its reports the same.
LEMMA CheckKeepsRound ==
  ASSUME Inv, Next
  PROVE  \/ \E a \in Addresses, h \in Hashes : SubmitReport(a, h)
         \/ Round' = Round
<1>1. ASSUME NEW a \in Addresses, NEW q \in Quorums, AddMember(a, q) PROVE Round' = Round
  <2>1. /\ SetQuorumAndCheckConsensus(q, TotalMembers + 1, reportVariants)
        /\ reportVariants \in Seq(Variant)
    BY <1>1 DEF AddMember, Inv, Counted, TypeOK, Variant
  <2> QED BY <2>1, CheckedConsensus DEF ConsensusKeptInOrder
<1>2. ASSUME NEW a \in Addresses, NEW q \in Quorums, RemoveMember(a, q) PROVE Round' = Round
  <2> DEFINE i        == memberIndices1b[a]
             variants == VariantsWithoutVote(memberStates[i])
  <2>1. /\ i \in 1..TotalMembers
        /\ memberStates[i].lastReportRefSlot > 0 => InitialEpochArrived
        /\ SetQuorumAndCheckConsensus(q, TotalMembers - 1, variants)
    BY <1>2, RemoveMemberEffect
  <2>2. /\ variants \in Seq(Variant) /\ Len(variants) = Len(reportVariants)
        /\ \A v \in 1..Len(variants) : variants[v].hash = reportVariants[v].hash
    BY <2>1, VoteTakenBack
  <2> HIDE DEF variants
  <2>3. ConsensusKeptInOrder(variants)
    BY <2>1, <2>2, CheckedConsensus
  <2> QED BY <2>3 DEF ConsensusKeptInOrder
<1>3. ASSUME NEW q \in Quorums, SetQuorum(q) PROVE Round' = Round
  <2>1. /\ SetQuorumAndCheckConsensus(q, TotalMembers, reportVariants)
        /\ reportVariants \in Seq(Variant)
    BY <1>3 DEF SetQuorum, Inv, Counted, TypeOK, Variant
  <2> QED BY <2>1, CheckedConsensus DEF ConsensusKeptInOrder
<1>4. ASSUME reportingState' = reportingState PROVE Round' = Round
  BY <1>4 DEF Round
<1> QED
  BY <1>1, <1>2, <1>3, <1>4
  DEF Next, UpdateInitialEpoch, SetFrameConfig, SetFastLaneLengthSlots, SetFrame,
      SetReportProcessor, ProcessReport, ChangeConsensusVersion, Tick, consensusVars

LEMMA SupportKept ==
  ASSUME Inv, Inv', SupportIsVotes, Next
  PROVE  SupportIsVotes'
<1>1. CASE \E a \in Addresses, h \in Hashes : SubmitReport(a, h)
  BY <1>1, SubmitReportVotes, VoteKeepsSupport
<1>2. CASE Round' = Round /\ ~FrameOpen'
  BY <1>2 DEF SupportIsVotes
<1>3. CASE Round' = Round /\ FrameOpen'
  <2>1. FrameOpen /\ RefSlot' = RefSlot
    BY <1>3, OpenBefore
  <2>2. ASSUME UNCHANGED <<memberStates, reportVariants>> PROVE SupportIsVotes'
    BY <2>1, <2>2 DEF SupportIsVotes, Voters, TotalMembers
  <2>3. ASSUME NEW q \in Quorums, SetQuorum(q) PROVE SupportIsVotes'
    BY <2>2, <2>3 DEF SetQuorum, SetQuorumAndCheckConsensus, memberVars
  <2>4. ASSUME \E a \in Addresses, h \in Hashes : SubmitReport(a, h) PROVE SupportIsVotes'
    BY <2>4, SubmitReportVotes, VoteKeepsSupport
  <2> QED
    BY <1>3, <2>1, <2>2, <2>3, <2>4, AddMemberSupport, RemoveMemberSupport
    DEF Next, UpdateInitialEpoch, SetFrameConfig, SetFastLaneLengthSlots, SetFrame,
        SetReportProcessor, ProcessReport, ChangeConsensusVersion, Tick, memberVars,
        consensusVars
<1> QED BY <1>1, <1>2, <1>3, CheckKeepsRound

-----------------------------------------------------------------------------
(* The consensus follows the quorum.                                       *)

\* What HashConsensus and its processor hold for the winners.
Tracks(report) ==
  IF Winners = {}
  THEN /\ reportingState.lastConsensusRefSlot # RefSlot
       /\ SoleProcessor /\ report.refSlot = RefSlot => report.hash = ZeroHash
  ELSE /\ reportingState.lastConsensusRefSlot = RefSlot
       /\ Winners = {reportingState.lastConsensusVariantIndex}
       /\ report.refSlot = RefSlot
       /\ report.hash = reportVariants[reportingState.lastConsensusVariantIndex].hash

LEMMA TracksIsConsensus ==
  (ConsensusTracksQuorum <=> (FrameOpen => Tracks(consensusReport[reportProcessor])))
BY DEF ConsensusTracksQuorum, Tracks

LEMMA TracksIsConsensusNext ==
  (ConsensusTracksQuorum <=> (FrameOpen => Tracks(consensusReport[reportProcessor])))'
BY TracksIsConsensus, PTL

\* A change of members or quorum checks the consensus anew.
LEMMA CheckTracks ==
  ASSUME Inv, Inv', VoteInv, QuorumMajority', SupportIsVotes', FrameOpen, FrameOpen',
         NEW q, NEW total, NEW variants \in Seq(Variant), Len(variants) = Len(reportVariants),
         \A v \in 1..Len(variants) : variants[v].hash = reportVariants[v].hash,
         SetQuorumAndCheckConsensus(q, total, variants),
         UNCHANGED <<slot, frameConfig, reportProcessor>>
  PROVE  ConsensusTracksQuorum'
<1> DEFINE W == QuorumVariants(reportingState, variants, q)
<1>1. /\ TypeOK /\ InitialEpochArrived /\ RefSlot \in Nat /\ RefSlot # 0
      /\ ~ReportProcessing /\ slot <= DeadlineSlot /\ Round = RefSlot
      /\ slot \in Nat /\ DeadlineSlot \in Nat
  BY OpenFrame, FrameAroundSlot, FrameTypes DEF Inv, Counted
<1>2. RefSlot' = RefSlot
  BY FrameSame
<1>3. /\ quorum' = q /\ reportVariants' = variants
      /\ W # {} => ConsensusReached(reportingState, variants, Min(W))
      /\ W = {} => ConsensusNotReached(reportingState)
  BY <1>1 DEF SetQuorumAndCheckConsensus
<1>4. W = {v \in DOMAIN variants : variants[v].support >= q} /\ W \subseteq 1..Len(variants)
  BY <1>1 DEF QuorumVariants, Round
<1>5. Winners' = W
  BY <1>3, <1>4 DEF Winners
<1>6. /\ reportingState \in State /\ Len(variants) \in Nat
      /\ FrameOpen => Tracks(consensusReport[reportProcessor])
  BY <1>1, Numbers, TracksIsConsensus DEF VoteInv
<1>7. consensusReport \in [Processors -> ConsensusReport] /\ reportProcessor \in Processors
  BY <1>1 DEF TypeOK, OracleTypeOK
<1> DEFINE report == consensusReport'[reportProcessor]
           index  == reportingState'.lastConsensusVariantIndex
<1>8. CASE W # {}
  <2> DEFINE first == Min(W)
  <2>1. first \in W /\ first \in 1..Len(variants)
    BY <1>4, <1>6, <1>8, FirstWinner
  <2>2. Winners' = {first}
    <3>1. \A v, w \in Winners' : v = w
      BY OneWinnerNext DEF Inv, Counted
    <3> QED BY <3>1, <2>1, <1>5
  <2>3. first <= Cardinality(Hashes)
    <3>1. \A v, w \in 1..Len(variants) : variants[v].hash = variants[w].hash => v = w
      BY <1>3 DEF Inv, Counted, VariantsDistinct
    <3>2. Len(variants) <= Cardinality(Hashes) /\ Cardinality(Hashes) \in Nat
      BY <3>1, VariantsBounded
    <3> QED BY <2>1, <3>2, <1>6
  <2>4. ConsensusReached(reportingState, variants, first)
    BY <1>3, <1>8
  <2> HIDE DEF first, W
  <2>5. /\ reportingState'.lastConsensusRefSlot = RefSlot
        /\ reportingState'.lastConsensusVariantIndex = first
        /\ \/ /\ reportingState.lastConsensusRefSlot = RefSlot
              /\ reportingState.lastConsensusVariantIndex = first
              /\ consensusReport' = consensusReport
           \/ consensusReport' = [consensusReport EXCEPT ![reportProcessor] =
                [hash |-> variants[first].hash, refSlot |-> RefSlot,
                 processingDeadline |-> DeadlineSlot]]
    BY <1>1, <1>6, <2>1, <2>3, <2>4, ReachedEffect
  <2>6. report.refSlot = RefSlot /\ report.hash = variants[first].hash
    <3>1. CASE /\ reportingState.lastConsensusRefSlot = RefSlot
               /\ reportingState.lastConsensusVariantIndex = first
               /\ consensusReport' = consensusReport
      <4>1. /\ consensusReport[reportProcessor].refSlot = RefSlot
            /\ consensusReport[reportProcessor].hash = reportVariants[first].hash
        BY <3>1, <1>6 DEF Tracks
      <4> QED BY <4>1, <3>1, <2>1
    <3>2. CASE consensusReport' = [consensusReport EXCEPT ![reportProcessor] =
                [hash |-> variants[first].hash, refSlot |-> RefSlot,
                 processingDeadline |-> DeadlineSlot]]
      BY <3>2, <1>7
    <3> QED BY <3>1, <3>2, <2>5
  <2>7. Tracks(consensusReport[reportProcessor])'
    <3>1. Winners' # {}
      BY <2>2
    <3> QED BY <3>1, <2>2, <2>5, <2>6, <1>2, <1>3 DEF Tracks
  <2> QED BY <2>7, TracksIsConsensusNext
<1>9. CASE W = {}
  <2>1. ConsensusNotReached(reportingState)
    BY <1>3, <1>9
  <2> HIDE DEF W
  <2>2. \/ /\ reportingState.lastConsensusRefSlot # RefSlot
           /\ reportingState' = reportingState
           /\ consensusReport' = consensusReport
        \/ /\ reportingState.lastConsensusRefSlot = RefSlot
           /\ reportingState' = [reportingState EXCEPT !.lastConsensusRefSlot = 0]
           /\ \/ /\ consensusReport[reportProcessor].refSlot < RefSlot
                 /\ consensusReport' = consensusReport
              \/ consensusReport' = [consensusReport EXCEPT ![reportProcessor].hash = ZeroHash]
    BY <1>1, <1>6, <2>1, NotReachedEffect
  <2>3. /\ reportingState'.lastConsensusRefSlot # RefSlot
        /\ SoleProcessor /\ report.refSlot = RefSlot => report.hash = ZeroHash
    <3>1. CASE /\ reportingState.lastConsensusRefSlot # RefSlot
               /\ reportingState' = reportingState
               /\ consensusReport' = consensusReport
      BY <3>1, <1>6 DEF Tracks
    <3>2. CASE /\ reportingState' = [reportingState EXCEPT !.lastConsensusRefSlot = 0]
               /\ \/ /\ consensusReport[reportProcessor].refSlot < RefSlot
                     /\ consensusReport' = consensusReport
                  \/ consensusReport' = [consensusReport EXCEPT ![reportProcessor].hash = ZeroHash]
      <4>1. reportingState'.lastConsensusRefSlot = 0
        BY <3>2, <1>6 DEF State
      <4>2. consensusReport[reportProcessor].refSlot < RefSlot
              => consensusReport[reportProcessor].refSlot # RefSlot
        BY <1>1, <1>7, SlotAssumption DEF ConsensusReport, Slots
      <4>3. CASE consensusReport' = [consensusReport EXCEPT ![reportProcessor].hash = ZeroHash]
        <5>1. report.hash = ZeroHash
          BY <4>3, <1>7 DEF ConsensusReport
        <5> QED BY <5>1, <4>1, <1>1
      <4> QED BY <3>2, <4>1, <4>2, <4>3, <1>1
    <3> QED BY <2>2, <3>1, <3>2
  <2>4. Tracks(consensusReport[reportProcessor])'
    BY <2>3, <1>2, <1>5, <1>9 DEF Tracks
  <2> QED BY <2>4, TracksIsConsensusNext
<1> QED BY <1>8, <1>9

\* Winners before and after a vote.
LEMMA WinnersAfter ==
  ASSUME Inv, VoteInv, NEW i, NEW h, NEW variants, NEW index, Voted(i, h, variants, index),
         FrameOpen', ~(variants[index].support >= quorum)
  PROVE  /\ ~FrameOpen => Winners' = {}
         /\ FrameOpen => \A w : w \in Winners' <=>
                           w \in Winners /\ ~(i \in Voters(w) /\ reportVariants[w].support = quorum)
<1>1. /\ quorum' = quorum /\ reportVariants' = variants
      /\ variants \in Seq(Variant) /\ Len(variants) \in Nat /\ index \in 1..Len(variants)
      /\ Len(variants) \in {Len(CurrentVariants), Len(CurrentVariants) + 1}
      /\ Len(variants) # Len(CurrentVariants) => index = Len(variants)
      /\ i \notin Voters(index)
      /\ \A v \in 1..Len(variants) :
           variants[v].support = SupportOf(CurrentVariants, v) + (IF v = index THEN 1 ELSE 0)
                                                               - (IF i \in Voters(v) THEN 1 ELSE 0)
  BY DEF Voted, VoteCounted
<1>2. /\ quorum \in Nat /\ Len(CurrentVariants) \in Nat
      /\ \A v \in 1..Len(CurrentVariants) : CurrentVariants[v].support \in Nat
  <2>1. quorum \in Nat
    BY QuorumAssumption DEF Inv, Counted, TypeOK
  <2>2. /\ Len(CurrentVariants) \in Nat
        /\ \A v \in 1..Len(CurrentVariants) : CurrentVariants[v].support \in Nat
    BY CurrentVariantsTyped
  <2> QED BY <2>1, <2>2
<1>3. Winners' = {v \in 1..Len(variants) : variants[v].support >= quorum}
  BY <1>1 DEF Winners
<1>4. FrameOpen <=> Round = RefSlot
  BY VoteSupport DEF VoteInv
<1>5. CASE ~FrameOpen
  <2>1. Len(CurrentVariants) = 0
    BY <1>4, <1>5 DEF CurrentVariants
  <2>2. \A v \in 1..Len(variants) : v = index
    BY <1>1, <2>1
  <2> QED BY <2>2, <1>3, <1>5
<1>6. CASE FrameOpen
  <2>1. CurrentVariants = reportVariants /\ DOMAIN reportVariants = 1..Len(reportVariants)
    BY <1>6, OpenFrame DEF Inv, Counted, TypeOK
  <2>2. ASSUME NEW w \in 1..Len(variants), w # index
        PROVE  /\ w \in 1..Len(reportVariants) /\ reportVariants[w].support \in Nat
               /\ variants[w].support = reportVariants[w].support
                                          - (IF i \in Voters(w) THEN 1 ELSE 0)
    <3>1. w \in 1..Len(CurrentVariants)
      BY <1>1, <1>2, <2>2
    <3>2. SupportOf(CurrentVariants, w) = reportVariants[w].support
      BY <1>2, <2>1, <3>1 DEF SupportOf
    <3>3. w \in 1..Len(reportVariants)
      BY <2>1, <3>1
    <3>4. reportVariants[w].support \in Nat
      BY <1>2, <2>1, <3>1
    <3>5. variants[w].support = SupportOf(CurrentVariants, w)
                                  + (IF w = index THEN 1 ELSE 0)
                                  - (IF i \in Voters(w) THEN 1 ELSE 0)
      BY <1>1, <2>2
    <3>6. variants[w].support = reportVariants[w].support + 0
                                  - (IF i \in Voters(w) THEN 1 ELSE 0)
      BY <2>2, <3>2, <3>5
    <3>7. variants[w].support = reportVariants[w].support
                                  - (IF i \in Voters(w) THEN 1 ELSE 0)
      BY <3>4, <3>6
    <3> QED BY <3>3, <3>4, <3>7
  <2>3. ASSUME index \in 1..Len(reportVariants)
        PROVE  ~(reportVariants[index].support >= quorum)
    <3>1. SupportOf(CurrentVariants, index) = reportVariants[index].support
          /\ reportVariants[index].support \in Nat
      BY <1>2, <2>1, <2>3 DEF SupportOf
    <3>2. variants[index].support = reportVariants[index].support + 1
      BY <1>1, <3>1
    <3> QED BY <1>2, <3>1, <3>2
  <2>4. ASSUME NEW w
        PROVE  w \in Winners' <=>
                 w \in Winners /\ ~(i \in Voters(w) /\ reportVariants[w].support = quorum)
    <3>1. CASE w = index
      BY <3>1, <2>1, <2>3, <1>3 DEF Winners
    <3>2. CASE w # index /\ w \in 1..Len(variants)
      <4>1. /\ w \in 1..Len(reportVariants) /\ reportVariants[w].support \in Nat
            /\ variants[w].support = reportVariants[w].support
                                       - (IF i \in Voters(w) THEN 1 ELSE 0)
        BY <3>2, <2>2
      <4>2. w \in Winners <=> reportVariants[w].support >= quorum
        BY <4>1, <2>1 DEF Winners
      <4>3. w \in Winners' <=> variants[w].support >= quorum
        BY <3>2, <1>3
      <4>4. CASE i \in Voters(w)
        BY <4>1, <4>2, <4>3, <4>4, <1>2
      <4>5. CASE i \notin Voters(w)
        BY <4>1, <4>2, <4>3, <4>5
      <4> QED BY <4>4, <4>5
    <3>3. CASE w \notin 1..Len(variants)
      <4>1. w \notin 1..Len(reportVariants)
        BY <1>1, <1>2, <2>1, <3>3
      <4> QED BY <4>1, <3>3, <2>1, <1>3 DEF Winners
    <3> QED BY <3>1, <3>2, <3>3
  <2> QED BY <2>4, <1>6
<1> QED BY <1>5, <1>6

LEMMA VoteTracks ==
  ASSUME Inv, Inv', VoteInv, QuorumMajority', SupportIsVotes', FrameOpen',
         NEW i, NEW h, NEW variants, NEW index, Voted(i, h, variants, index)
  PROVE  ConsensusTracksQuorum'
<1> DEFINE state  == [reportingState EXCEPT !.lastReportRefSlot = RefSlot]
           report == consensusReport'[reportProcessor]
<1>1. /\ TypeOK /\ InitialEpochArrived /\ RefSlot # 0
      /\ reportVariants' = variants /\ quorum' = quorum /\ reportProcessor' = reportProcessor
      /\ VoteSettled(i, variants, index)
      /\ variants \in Seq(Variant) /\ Len(variants) \in Nat /\ index \in 1..Len(variants)
      /\ \A v \in 1..Len(CurrentVariants) : variants[v].hash = CurrentVariants[v].hash
  BY DEF Inv, Counted, Voted, VoteCounted
<1>2. RefSlot \in Slots /\ RefSlot \in Nat /\ RefSlot' = RefSlot /\ index <= Cardinality(Hashes)
  <2>1. index \in 0..Cardinality(Hashes) /\ RefSlot \in Slots /\ RefSlot \in Nat
    BY VoteEffect
  <2>2. RefSlot' = RefSlot
    BY VotersAfter
  <2> QED BY <2>1, <2>2
<1>3. /\ reportingState \in State /\ state \in State
      /\ state.lastConsensusRefSlot = reportingState.lastConsensusRefSlot
      /\ state.lastConsensusVariantIndex = reportingState.lastConsensusVariantIndex
      /\ reportingState.lastConsensusRefSlot \in Nat
      /\ reportingState.lastConsensusRefSlot <= Round /\ Round \in Nat
  BY <1>1, <1>2, Numbers DEF State, Inv, Counted, SlotsOrdered
<1>4. /\ consensusReport \in [Processors -> ConsensusReport] /\ reportProcessor \in Processors
      /\ consensusReport[reportProcessor].refSlot \in Nat
      /\ consensusReport[reportProcessor].refSlot <= Round
  <2>1. consensusReport \in [Processors -> ConsensusReport] /\ reportProcessor \in Processors
    BY <1>1 DEF TypeOK, OracleTypeOK
  <2>2. consensusReport[reportProcessor] \in ConsensusReport
    BY <2>1
  <2>3. consensusReport[reportProcessor].refSlot \in Nat
    BY <2>2, SlotAssumption DEF ConsensusReport, Slots
  <2>4. consensusReport[reportProcessor].refSlot <= Round
    BY <2>1 DEF Inv, Counted, SlotsOrdered
  <2> QED BY <2>1, <2>3, <2>4
<1>5. /\ FrameOpen <=> Round = RefSlot
      /\ FrameOpen => Tracks(consensusReport[reportProcessor])
      /\ Round <= RefSlot
  BY VoteSupport, TracksIsConsensus, VotersAreBackers, <1>1 DEF VoteInv
<1>6. FrameOpen => CurrentVariants = reportVariants
                   /\ DOMAIN reportVariants = 1..Len(CurrentVariants)
  BY OpenFrame, <1>1 DEF TypeOK
<1>7. ASSUME reportingState.lastConsensusRefSlot = RefSlot
      PROVE  /\ FrameOpen
             /\ Winners = {reportingState.lastConsensusVariantIndex}
             /\ consensusReport[reportProcessor].refSlot = RefSlot
             /\ consensusReport[reportProcessor].hash =
                  reportVariants[reportingState.lastConsensusVariantIndex].hash
  <2>1. FrameOpen
    BY <1>7, <1>2, <1>3, <1>5
  <2> QED BY <2>1, <1>5, <1>7 DEF Tracks
<1>8. ASSUME NEW w \in Winners, FrameOpen PROVE variants[w].hash = reportVariants[w].hash
  BY <1>1, <1>6, <1>8 DEF Winners
<1>9. CASE variants[index].support >= quorum
  <2>1. ConsensusReached(state, variants, index)
    BY <1>1, <1>9 DEF VoteSettled
  <2>2. Winners' = {index}
    <3>1. index \in Winners'
      BY <1>1, <1>9 DEF Winners
    <3>2. \A v, w \in Winners' : v = w
      BY OneWinnerNext DEF Inv, Counted
    <3> QED BY <3>1, <3>2
  <2> HIDE DEF state
  <2>3. /\ reportingState'.lastConsensusRefSlot = RefSlot
        /\ reportingState'.lastConsensusVariantIndex = index
        /\ \/ /\ state.lastConsensusRefSlot = RefSlot
              /\ state.lastConsensusVariantIndex = index
              /\ consensusReport' = consensusReport
           \/ consensusReport' = [consensusReport EXCEPT ![reportProcessor] =
                [hash |-> variants[index].hash, refSlot |-> RefSlot,
                 processingDeadline |-> DeadlineSlot]]
    BY <1>1, <1>2, <1>3, <2>1, ReachedEffect
  <2>4. report.refSlot = RefSlot /\ report.hash = variants[index].hash
    <3>1. CASE /\ reportingState.lastConsensusRefSlot = RefSlot
               /\ reportingState.lastConsensusVariantIndex = index
               /\ consensusReport' = consensusReport
      <4>1. index \in Winners /\ FrameOpen
        BY <3>1, <1>7
      <4> QED BY <3>1, <4>1, <1>7, <1>8
    <3>2. CASE consensusReport' = [consensusReport EXCEPT ![reportProcessor] =
                 [hash |-> variants[index].hash, refSlot |-> RefSlot,
                  processingDeadline |-> DeadlineSlot]]
      BY <3>2, <1>4
    <3> QED BY <2>3, <1>3, <3>1, <3>2
  <2>5. Winners' # {}
    BY <2>2
  <2>6. Tracks(consensusReport[reportProcessor])'
    BY <2>2, <2>3, <2>4, <2>5, <1>1, <1>2 DEF Tracks
  <2> QED BY <2>6, TracksIsConsensusNext
<1>10. CASE ~(variants[index].support >= quorum)
  <2>1. /\ ~FrameOpen => Winners' = {}
        /\ FrameOpen => \A w : w \in Winners' <=>
             w \in Winners /\ ~(i \in Voters(w) /\ reportVariants[w].support = quorum)
    BY <1>10, WinnersAfter
  <2>2. CASE \E v \in 1..Len(CurrentVariants) :
               i \in Voters(v) /\ CurrentVariants[v].support = quorum
    <3>1. PICK v \in 1..Len(CurrentVariants) :
                 i \in Voters(v) /\ CurrentVariants[v].support = quorum
      BY <2>2
    <3>2. FrameOpen /\ quorum \in Nat
      <4>1. Len(<<>>) = 0
        OBVIOUS
      <4>2. Round = RefSlot
        BY <3>1, <4>1 DEF CurrentVariants
      <4>3. quorum \in Nat
        BY <1>1, QuorumAssumption DEF TypeOK
      <4> QED BY <4>2, <4>3, <1>5
    <3>3. v \in Winners
      BY <3>1, <3>2, <1>6 DEF Winners
    <3>4. /\ reportingState.lastConsensusRefSlot = RefSlot /\ Winners = {v}
          /\ consensusReport[reportProcessor].refSlot = RefSlot
      BY <3>2, <3>3, <1>5 DEF Tracks
    <3>5. Winners' = {}
      BY <2>1, <3>1, <3>2, <3>4, <1>6
    <3>6. ConsensusNotReached(state)
      BY <1>1, <1>10, <3>1 DEF VoteSettled
    <3>7. /\ reportingState' = [state EXCEPT !.lastConsensusRefSlot = 0]
          /\ \/ consensusReport[reportProcessor].refSlot < RefSlot
             \/ consensusReport' = [consensusReport EXCEPT ![reportProcessor].hash = ZeroHash]
      <4> HIDE DEF state
      <4> QED BY <1>1, <1>3, <3>4, <3>6, NotReachedEffect
    <3>8. reportingState'.lastConsensusRefSlot = 0 /\ report.hash = ZeroHash
      <4>1. report.hash = ZeroHash
        BY <3>4, <3>7, <1>2, <1>4 DEF ConsensusReport
      <4> HIDE DEF state
      <4> QED BY <4>1, <3>7, <1>3 DEF State
    <3>9. Tracks(consensusReport[reportProcessor])'
      BY <3>5, <3>8, <1>1, <1>2 DEF Tracks
    <3> QED BY <3>9, TracksIsConsensusNext
  <2>3. CASE ~\E v \in 1..Len(CurrentVariants) :
                i \in Voters(v) /\ CurrentVariants[v].support = quorum
    <3>1. reportingState' = state /\ consensusReport' = consensusReport
      BY <1>1, <1>10, <2>3 DEF VoteSettled
    <3>2. /\ reportingState'.lastConsensusRefSlot = reportingState.lastConsensusRefSlot
          /\ reportingState'.lastConsensusVariantIndex = reportingState.lastConsensusVariantIndex
      BY <3>1, <1>3
    <3>3. CASE ~FrameOpen
      <4>1. Winners' = {} /\ Round < RefSlot
        BY <3>3, <2>1, <1>2, <1>3, <1>5
      <4>2. /\ reportingState.lastConsensusRefSlot # RefSlot
            /\ consensusReport[reportProcessor].refSlot # RefSlot
        BY <4>1, <1>2, <1>3, <1>4
      <4>3. Tracks(consensusReport[reportProcessor])'
        BY <4>1, <4>2, <3>1, <3>2, <1>1, <1>2 DEF Tracks
      <4> QED BY <4>3, TracksIsConsensusNext
    <3>4. CASE FrameOpen
      <4>1. Winners' = Winners
        <5>1. \A w : w \in Winners => w \in 1..Len(CurrentVariants)
          BY <3>4, <1>6 DEF Winners
        <5>2. \A w : w \in Winners' <=> w \in Winners
          BY <5>1, <2>1, <2>3, <3>4, <1>6
        <5> QED BY <5>2
      <4>2. Tracks(consensusReport[reportProcessor])
        BY <3>4, <1>5
      <4>3. CASE Winners = {}
        <5>1. Tracks(consensusReport[reportProcessor])'
          BY <4>1, <4>2, <4>3, <3>1, <3>2, <1>1, <1>2 DEF Tracks
        <5> QED BY <5>1, TracksIsConsensusNext
      <4>4. CASE Winners # {}
        <5> DEFINE last == reportingState.lastConsensusVariantIndex
        <5>1. last \in Winners /\ variants[last].hash = reportVariants[last].hash
          BY <4>2, <4>4, <3>4, <1>8 DEF Tracks
        <5>2. Tracks(consensusReport[reportProcessor])'
          BY <4>1, <4>2, <4>4, <5>1, <3>1, <3>2, <1>1, <1>2 DEF Tracks
        <5> QED BY <5>2, TracksIsConsensusNext
      <4> QED BY <4>3, <4>4
    <3> QED BY <3>3, <3>4
  <2> QED BY <2>2, <2>3
<1> QED BY <1>9, <1>10

\* The report moves with the consensus to a new processor.
LEMMA NewProcessorTracks ==
  ASSUME Inv, VoteInv, FrameOpen, RefSlot' = RefSlot, NEW p \in Processors, SetReportProcessor(p)
  PROVE  ConsensusTracksQuorum'
<1>1. /\ p # reportProcessor /\ reportProcessor' = p
      /\ UNCHANGED <<lastProcessingRefSlot, reportingState, reportVariants, quorum>>
      /\ IF /\ ~ReportProcessing
            /\ lastProcessingRefSlot[p] < RefSlot
            /\ reportingState.lastConsensusRefSlot = RefSlot
         THEN SubmitConsensusReport(p,
                reportVariants[reportingState.lastConsensusVariantIndex].hash, RefSlot, DeadlineSlot)
         ELSE UNCHANGED consensusReport
  BY DEF SetReportProcessor, consensusVars
<1>2. ~ReportProcessing /\ lastProcessingRefSlot[p] < RefSlot
  BY OpenFrame DEF FrameOpen
<1>3. ~SoleProcessor /\ Winners' = Winners
  BY <1>1 DEF SoleProcessor, Winners, Inv, Counted, TypeOK
<1>4. consensusReport \in [Processors -> ConsensusReport]
  BY DEF Inv, Counted, TypeOK, OracleTypeOK
<1>5. Tracks(consensusReport[reportProcessor])
  BY TracksIsConsensus DEF VoteInv
<1>6. CASE Winners = {}
  <2>1. Tracks(consensusReport[reportProcessor])'
    BY <1>1, <1>3, <1>5, <1>6 DEF Tracks, SoleProcessor
  <2> QED BY <2>1, TracksIsConsensusNext
<1>7. CASE Winners # {}
  <2>1. consensusReport' = [consensusReport EXCEPT ![p] =
          [hash |-> reportVariants[reportingState.lastConsensusVariantIndex].hash,
           refSlot |-> RefSlot, processingDeadline |-> DeadlineSlot]]
    BY <1>1, <1>2, <1>5, <1>7 DEF Tracks, SubmitConsensusReport
  <2>2. /\ consensusReport'[p].refSlot = RefSlot
        /\ consensusReport'[p].hash = reportVariants[reportingState.lastConsensusVariantIndex].hash
    BY <2>1, <1>4
  <2>3. Tracks(consensusReport[reportProcessor])'
    BY <2>2, <1>1, <1>3, <1>5, <1>7 DEF Tracks
  <2> QED BY <2>3, TracksIsConsensusNext
<1> QED BY <1>6, <1>7

LEMMA TracksKept ==
  ASSUME Inv, Inv', VoteInv, QuorumMajority', SupportIsVotes', Next
  PROVE  ConsensusTracksQuorum'
<1>1. CASE \E a \in Addresses, h \in Hashes : SubmitReport(a, h)
  <2>1. FrameOpen' => ConsensusTracksQuorum'
    BY <1>1, SubmitReportVotes, VoteTracks
  <2> QED BY <2>1 DEF ConsensusTracksQuorum
<1>2. CASE Round' = Round /\ ~FrameOpen'
  BY <1>2 DEF ConsensusTracksQuorum
<1>3. CASE Round' = Round /\ FrameOpen'
  <2>1. FrameOpen /\ RefSlot' = RefSlot
    BY <1>3, OpenBefore
  <2>2. reportVariants \in Seq(Variant)
    BY DEF Inv, Counted, TypeOK, Variant
  <2>3. ASSUME NEW a \in Addresses, NEW q \in Quorums, AddMember(a, q)
        PROVE  ConsensusTracksQuorum'
    <3>1. /\ SetQuorumAndCheckConsensus(q, TotalMembers + 1, reportVariants)
          /\ UNCHANGED <<slot, frameConfig, reportProcessor>>
      BY <2>3 DEF AddMember
    <3> QED BY <3>1, <2>1, <2>2, <1>3, CheckTracks
  <2>4. ASSUME NEW a \in Addresses, NEW q \in Quorums, RemoveMember(a, q)
        PROVE  ConsensusTracksQuorum'
    <3> DEFINE i        == memberIndices1b[a]
               variants == VariantsWithoutVote(memberStates[i])
    <3>1. /\ i \in 1..TotalMembers
          /\ memberStates[i].lastReportRefSlot > 0 => InitialEpochArrived
          /\ SetQuorumAndCheckConsensus(q, TotalMembers - 1, variants)
          /\ UNCHANGED <<slot, frameConfig, reportProcessor>>
      BY <2>4, RemoveMemberEffect
    <3>2. /\ variants \in Seq(Variant) /\ Len(variants) = Len(reportVariants)
          /\ \A v \in 1..Len(variants) : variants[v].hash = reportVariants[v].hash
      BY <3>1, VoteTakenBack
    <3> HIDE DEF variants
    <3> QED BY <3>1, <3>2, <2>1, <1>3, CheckTracks
  <2>5. ASSUME NEW q \in Quorums, SetQuorum(q) PROVE ConsensusTracksQuorum'
    <3>1. /\ SetQuorumAndCheckConsensus(q, TotalMembers, reportVariants)
          /\ UNCHANGED <<slot, frameConfig, reportProcessor>>
      BY <2>5 DEF SetQuorum
    <3> QED BY <3>1, <2>1, <2>2, <1>3, CheckTracks
  <2>6. ASSUME NEW p \in Processors, SetReportProcessor(p) PROVE ConsensusTracksQuorum'
    BY <2>1, <2>6, NewProcessorTracks
  <2>7. ASSUME UNCHANGED <<consensusReport, reportingState, reportVariants, quorum, reportProcessor>>
        PROVE  ConsensusTracksQuorum'
    BY <2>1, <2>7 DEF VoteInv, ConsensusTracksQuorum, Winners, SoleProcessor
  <2>8. ASSUME NEW p \in Processors, NEW h \in Hashes, ProcessReport(p, h)
        PROVE  ConsensusTracksQuorum'
    BY <2>7, <2>8 DEF ProcessReport, StartProcessing, consensusVars
  <2>9. ASSUME NEW p \in Processors, NEW v \in Versions, ChangeConsensusVersion(p, v)
        PROVE  ConsensusTracksQuorum'
    BY <2>7, <2>9 DEF ChangeConsensusVersion, SetConsensusVersion, consensusVars
  <2>10. CASE \E a \in Addresses, h \in Hashes : SubmitReport(a, h)
    BY <1>1, <2>10
  <2>11. ASSUME \/ \E e \in 1..Epoch(MaxSlot) : UpdateInitialEpoch(e)
                \/ \E e \in FrameSizes, f \in FastLanes : SetFrameConfig(e, f)
                \/ \E f \in FastLanes : SetFastLaneLengthSlots(f)
                \/ Tick
         PROVE  ConsensusTracksQuorum'
    BY <2>7, <2>11 DEF UpdateInitialEpoch, SetFrameConfig, SetFastLaneLengthSlots, SetFrame, Tick,
                       consensusVars, oracleVars
  <2> QED BY <2>3, <2>4, <2>5, <2>6, <2>8, <2>9, <2>10, <2>11 DEF Next
<1> QED BY <1>1, <1>2, <1>3, CheckKeepsRound

LEMMA VotesStutter ==
  ASSUME VoteInv, UNCHANGED vars
  PROVE  VoteInv'
<1>1. /\ UNCHANGED <<slot, frameConfig, memberStates, reportingState, reportVariants, quorum>>
      /\ UNCHANGED <<consensusReport, lastProcessingRefSlot, reportProcessor>>
  BY DEF vars, oracleVars, memberVars, consensusVars
<1>2. RefSlot' = RefSlot /\ (InitialEpochArrived' <=> InitialEpochArrived)
  BY <1>1, FrameSame
<1>3. FrameOpen' <=> FrameOpen
  BY <1>1, <1>2 DEF FrameOpen
<1>4. QuorumMajority'
  BY <1>1 DEF VoteInv, QuorumMajority, TotalMembers
<1>5. SupportIsVotes'
  BY <1>1, <1>2, <1>3 DEF VoteInv, SupportIsVotes, Voters, TotalMembers
<1>6. ConsensusTracksQuorum'
  BY <1>1, <1>2, <1>3 DEF VoteInv, ConsensusTracksQuorum, Winners, SoleProcessor
<1> QED BY <1>4, <1>5, <1>6 DEF VoteInv

\* The inductive invariant of votes and quorum, on top of Inv.
LEMMA VotesAndQuorum == Spec => [](Inv /\ VoteInv)
<1>1. Init => Inv /\ VoteInv
  <2> SUFFICES ASSUME Init PROVE VoteInv
    BY InitInv
  <2>1. /\ quorum = 0 /\ memberStates = <<>> /\ reportVariants = <<>>
        /\ reportingState.lastReportRefSlot = 0
        /\ lastProcessingRefSlot = [p \in Processors |-> 0] /\ reportProcessor \in Processors
    BY DEF Init, OracleInit
  <2>2. ~FrameOpen
    BY <2>1 DEF FrameOpen
  <2>3. QuorumMajority
    BY <2>1 DEF QuorumMajority, TotalMembers
  <2> QED BY <2>2, <2>3 DEF VoteInv, SupportIsVotes, ConsensusTracksQuorum
<1>2. Inv /\ VoteInv /\ [Next]_vars => (Inv /\ VoteInv)'
  <2>1. ASSUME Inv, VoteInv, Next PROVE (Inv /\ VoteInv)'
    <3>1. Inv'
      BY <2>1, NextInv
    <3>2. QuorumMajority'
      BY <2>1, QuorumKept DEF VoteInv
    <3>3. SupportIsVotes'
      BY <2>1, <3>1, SupportKept DEF VoteInv
    <3>4. ConsensusTracksQuorum'
      BY <2>1, <3>1, <3>2, <3>3, TracksKept
    <3> QED BY <3>1, <3>2, <3>3, <3>4 DEF VoteInv
  <2>2. ASSUME Inv, VoteInv, UNCHANGED vars PROVE (Inv /\ VoteInv)'
    BY <2>2, StutterInv, VotesStutter
  <2> QED BY <2>1, <2>2
<1> QED BY <1>1, <1>2, PTL DEF Spec

\* The support of a hash is the number of members that stand by it: votes are
\* neither lost nor counted twice through changed votes, removals by swapping, and
\* changes of the frame, the processor and the committee.
THEOREM SupportIsCounted == Spec => []SupportIsVotes
<1>1. Inv /\ VoteInv => SupportIsVotes
  BY DEF VoteInv
<1> QED BY <1>1, VotesAndQuorum, PTL

\* Whatever processors the report goes to, a hash with the quorum is the one
\* consensus and the processor holds it; without one there is no consensus.
THEOREM ConsensusFollowsQuorum == Spec => []ConsensusTracksQuorum
<1>1. Inv /\ VoteInv => ConsensusTracksQuorum
  BY DEF VoteInv
<1> QED BY <1>1, VotesAndQuorum, PTL

\* With one processor, as deployed, a report never stands without its quorum
\* either: the processor holds a hash of the frame exactly when a quorum does.
THEOREM ReportHasQuorum ==
  ASSUME SoleProcessor
  PROVE  Spec => []ConsensusIsQuorum
<1>1. Inv /\ VoteInv => ConsensusIsQuorum
  BY DEF VoteInv, ConsensusIsQuorum, ConsensusTracksQuorum, Winners
<1> QED BY <1>1, VotesAndQuorum, PTL

-----------------------------------------------------------------------------
(* Fast lanes.                                                             *)

LEMMA AroundOnce ==
  ASSUME NEW n \in Nat \ {0}, NEW a \in 0..(n - 1)
  PROVE  a % n = a /\ (a + n) % n = a
OBVIOUS

\* The lane that starts at `left' holds the `wanted' members from there on,
\* around the end of the array.
LEMMA LaneAround ==
  ASSUME NEW n \in Nat \ {0}, NEW wanted \in 1..n, NEW left \in 0..(n - 1), NEW lane,
         lane = {i \in 0..(n - 1) : (i + n - left) % n <= wanted - 1}
  PROVE  Cardinality(lane) = wanted /\ left \in lane
<1>1. ASSUME NEW i \in 0..(n - 1)
      PROVE  (i + n - left) % n = IF i < left THEN i + n - left ELSE i - left
  <2>1. CASE i < left
    <3>1. i + n - left \in 0..(n - 1)
      BY <2>1
    <3> QED BY <2>1, <3>1, AroundOnce
  <2>2. CASE ~(i < left)
    <3> DEFINE a == i - left
    <3>1. a \in 0..(n - 1) /\ i + n - left = a + n
      BY <2>2
    <3> HIDE DEF a
    <3>2. (a + n) % n = a
      BY <3>1, AroundOnce
    <3>3. (i + n - left) % n = i - left
      BY <3>1, <3>2 DEF a
    <3> QED BY <2>2, <3>3
  <2> QED BY <2>1, <2>2
<1>2. left \in lane
  BY <1>1
<1>3. CASE left + wanted <= n
  <2>1. lane = left..(left + wanted - 1)
    <3>1. \A i \in 0..(n - 1) : i \in lane <=> i \in left..(left + wanted - 1)
      BY <1>1, <1>3
    <3>2. lane \subseteq 0..(n - 1) /\ left..(left + wanted - 1) \subseteq 0..(n - 1)
      BY <1>3
    <3> QED BY <3>1, <3>2
  <2>2. left <= left + wanted - 1 /\ left \in Int /\ left + wanted - 1 \in Int
    OBVIOUS
  <2>3. Cardinality(left..(left + wanted - 1)) = left + wanted - 1 - left + 1
    BY <2>2, FS_Interval
  <2>4. left + wanted - 1 - left + 1 = wanted
    OBVIOUS
  <2>5. Cardinality(lane) = wanted
    BY <2>1, <2>3, <2>4, Zenon
  <2> QED BY <1>2, <2>5
<1>4. CASE ~(left + wanted <= n)
  <2> DEFINE high == left..(n - 1)
             low  == 0..(left + wanted - n - 1)
  <2>1. lane = high \cup low
    <3>1. \A i \in 0..(n - 1) : i \in lane <=> i \in high \cup low
      BY <1>1, <1>4
    <3>2. lane \subseteq 0..(n - 1) /\ high \cup low \subseteq 0..(n - 1)
      BY <1>4
    <3> QED BY <3>1, <3>2
  <2>2. high \cap low = {}
    OBVIOUS
  <2>3. IsFiniteSet(high) /\ Cardinality(high) = n - left
    <3>1. left \in Int /\ n - 1 \in Int /\ left <= n - 1
      OBVIOUS
    <3> QED BY <3>1, FS_Interval
  <2>4. IsFiniteSet(low) /\ Cardinality(low) = left + wanted - n
    <3>1. 0 \in Int /\ left + wanted - n - 1 \in Int /\ 0 <= left + wanted - n - 1
      BY <1>4
    <3> QED BY <3>1, FS_Interval
  <2>5. Cardinality(high \cap low) = 0
    BY <2>2, FS_EmptySet
  <2> HIDE DEF high, low
  <2>6. Cardinality(high \cup low) = Cardinality(high) + Cardinality(low) - Cardinality(high \cap low)
    BY <2>3, <2>4, FS_Union
  <2>7. n - left + (left + wanted - n) - 0 = wanted
    OBVIOUS
  <2>8. Cardinality(lane) = wanted
    BY <2>1, <2>3, <2>4, <2>5, <2>6, <2>7, Zenon
  <2> QED BY <1>2, <2>8
<1> QED BY <1>3, <1>4

\* The frame whose lane starts at a given member comes within a round of frames.
LEMMA LaneReaches ==
  ASSUME NEW n \in Nat \ {0}, NEW f \in 0..n, NEW i \in 0..(n - 1)
  PROVE  \E k \in 0..(n - 1) : (f + k) % n = i
<1>1. CASE i >= f
  <2>1. i - f \in 0..(n - 1) /\ f + (i - f) = i
    BY <1>1
  <2> QED BY <2>1, AroundOnce
<1>2. CASE i < f
  <2>1. i + n - f \in 0..(n - 1) /\ f + (i + n - f) = i + n
    BY <1>2
  <2> QED BY <2>1, AroundOnce
<1> QED BY <1>1, <1>2

LEMMA LaneMember ==
  ASSUME NEW n, n = TotalMembers, ~(quorum >= n), NEW i, NEW g,
         NEW left, left = g % n, NEW past, past = left + quorum
  PROVE  IsFastLaneMember(i, g) <=> past # 0 /\ (i + n - left) % n <= (past - 1 - left) % n
BY DEF IsFastLaneMember

LEMMA LanesComplete ==
  ASSUME Inv, QuorumMajority
  PROVE  FastLaneComplete
<1> DEFINE n       == TotalMembers
           lane(g) == {i \in 0..TotalMembers - 1 : IsFastLaneMember(i, g)}
<1>1. n \in Nat /\ quorum \in Nat
  BY Numbers, QuorumAssumption DEF Inv, Counted, TypeOK
<1>2. n # 0 => quorum # 0
  BY <1>1 DEF QuorumMajority
<1>3. CASE n = 0
  <2>1. \A g : lane(g) = {}
    BY <1>3
  <2>2. Min({quorum, n}) = 0
    <3>1. Min({quorum, n}) \in {quorum, n} /\ Min({quorum, n}) <= quorum
          /\ Min({quorum, n}) <= n
      BY <1>1, MinOfTwo
    <3> QED BY <3>1, <1>1, <1>3
  <2>3. ASSUME NEW f \in 0..n
        PROVE  /\ Cardinality(lane(f)) = Min({quorum, n})
               /\ UNION {lane(f + k) : k \in 0..n - 1} = 0..n - 1
    <3>1. 0..n - 1 = {}
      BY <1>3
    <3> QED BY <2>1, <2>2, <3>1, FS_EmptySet
  <2> QED BY <2>3 DEF FastLaneComplete
<1>4. CASE n # 0
  <2> DEFINE wanted  == IF quorum >= n THEN n ELSE quorum
             left(g) == IF quorum >= n THEN 0 ELSE g % n
  <2>1. n \in Nat \ {0} /\ wanted \in 1..n
    BY <1>1, <1>2, <1>4
  <2>2. wanted = Min({quorum, n})
    <3>1. Min({quorum, n}) \in {quorum, n} /\ Min({quorum, n}) <= quorum
          /\ Min({quorum, n}) <= n
      BY <1>1, MinOfTwo
    <3> QED BY <3>1, <1>1
  <2>3. ASSUME NEW g \in Nat PROVE Cardinality(lane(g)) = wanted /\ left(g) \in lane(g)
    <3>1. left(g) \in 0..(n - 1)
      <4>1. g % n \in 0..(n - 1)
        BY <2>1, <2>3
      <4> QED BY <4>1, <2>1
    <3>2. lane(g) = {i \in 0..(n - 1) : (i + n - left(g)) % n <= wanted - 1}
      <4> DEFINE start == left(g)
      <4>1. start \in 0..(n - 1) /\ start = IF quorum >= n THEN 0 ELSE g % n
        BY <3>1
      <4> HIDE DEF start
      <4>2. start + wanted - 1 - start = wanted - 1 /\ wanted - 1 \in 0..(n - 1)
            /\ start + wanted # 0
        BY <2>1, <4>1
      <4>3. (wanted - 1) % n = wanted - 1
        BY <2>1, <4>2, AroundOnce
      <4>4. ASSUME NEW i \in 0..(n - 1)
            PROVE  IsFastLaneMember(i, g) <=> (i + n - start) % n <= wanted - 1
        <5>1. CASE quorum >= n
          <6>1. wanted = n /\ start = 0
            BY <5>1, <4>1
          <6>2. IsFastLaneMember(i, g) <=> n # 0 /\ (i + n - 0) % n <= (n - 1 - 0) % n
            BY <5>1 DEF IsFastLaneMember
          <6>3. n - 1 - 0 = wanted - 1
            BY <6>1, <1>1
          <6> QED BY <6>1, <6>2, <6>3, <4>3, <1>4, Zenon
        <5>2. CASE ~(quorum >= n)
          <6> DEFINE past == start + wanted
          <6>1. n = TotalMembers /\ start = g % n /\ past = start + quorum
            BY <5>2, <4>1
          <6> HIDE DEF n, wanted
          <6>2. past # 0 /\ past - 1 - start = wanted - 1
            BY <2>1, <4>1
          <6> HIDE DEF past
          <6>3. IsFastLaneMember(i, g) <=> past # 0 /\ (i + n - start) % n <= (past - 1 - start) % n
            BY <5>2, <6>1, LaneMember
          <6> QED BY <6>2, <6>3, <4>3, Zenon
        <5> QED BY <5>1, <5>2
      <4> QED BY <4>4 DEF start
    <3> HIDE DEF left, wanted
    <3> QED BY <2>1, <3>1, <3>2, LaneAround
  <2>4. ASSUME NEW f \in 0..n PROVE UNION {lane(f + k) : k \in 0..n - 1} = 0..n - 1
    <3>1. ASSUME NEW i \in 0..(n - 1) PROVE \E k \in 0..n - 1 : i \in lane(f + k)
      <4>1. PICK k \in 0..(n - 1) : (f + k) % n = i
        BY <2>1, LaneReaches
      <4>2. f + k \in Nat
        BY <2>1
      <4>3. CASE ~(quorum >= n)
        <5>1. left(f + k) = i
          BY <4>1, <4>3
        <5> QED BY <4>2, <5>1, <2>3
      <4>4. CASE quorum >= n
        <5>1. i \in lane(f + k) <=> (i + n - 0) % n <= (n - 1 - 0) % n
          <6>1. IsFastLaneMember(i, f + k) <=> n # 0 /\ (i + n - 0) % n <= (n - 1 - 0) % n
            BY <4>4 DEF IsFastLaneMember
          <6>2. i \in lane(f + k) <=> IsFastLaneMember(i, f + k)
            OBVIOUS
          <6> QED BY <6>1, <6>2, <1>4, Zenon
        <5>2. i + n - 0 = i + n /\ n - 1 - 0 = n - 1 /\ n - 1 \in 0..(n - 1)
          BY <2>1
        <5>3. (i + n) % n = i /\ (n - 1) % n = n - 1
          BY <2>1, <5>2, AroundOnce
        <5>4. i <= n - 1
          BY <2>1
        <5>5. (i + n - 0) % n <= (n - 1 - 0) % n
          BY <5>2, <5>3, <5>4, Zenon
        <5> QED BY <5>1, <5>5
      <4> QED BY <4>3, <4>4
    <3>2. \A g : lane(g) \subseteq 0..n - 1
      OBVIOUS
    <3> HIDE DEF lane
    <3> QED BY <3>1, <3>2
  <2>5. ASSUME NEW f \in 0..n
        PROVE  /\ Cardinality(lane(f)) = Min({quorum, n})
               /\ UNION {lane(f + k) : k \in 0..n - 1} = 0..n - 1
    <3>1. f \in Nat
      BY <1>1
    <3> QED BY <3>1, <2>2, <2>3, <2>4
  <2> QED BY <2>5 DEF FastLaneComplete
<1> QED BY <1>3, <1>4

\* The fast lane of every frame holds as many members as the quorum asks for, and
\* it reaches each member once a round, for a committee of any size.
THEOREM FastLanesReachAll == Spec => []FastLaneComplete
<1>1. Inv /\ VoteInv => FastLaneComplete
  BY LanesComplete DEF VoteInv
<1> QED BY <1>1, VotesAndQuorum, PTL
=============================================================================
