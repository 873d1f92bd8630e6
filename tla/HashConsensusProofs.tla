------------------------- MODULE HashConsensusProofs -------------------------
(***************************************************************************)
(* Theorems about HashConsensus, for every committee, every set of report  *)
(* hashes and processors, every frame size and any number of slots.        *)
(*                                                                         *)
(* Inv is the inductive invariant.  Votes are counted against the slot of  *)
(* the last report, Round, and not against the current reference slot:     *)
(* that slot moves by itself when time passes.                             *)
(***************************************************************************)
EXTENDS HashConsensus, FiniteSetTheorems, SequenceTheorems, WellFoundedInduction, TLAPS

\* The reference slot of the votes that are stored.
Round == reportingState.lastReportRefSlot

VariantsDistinct ==
  \A v, w \in 1..Len(reportVariants) : reportVariants[v].hash = reportVariants[w].hash => v = w

\* No vote, consensus, report or processing is ahead of the last report.
SlotsOrdered ==
  /\ \A p \in Processors : /\ lastProcessingRefSlot[p] <= consensusReport[p].refSlot
                           /\ consensusReport[p].refSlot <= Round
  /\ reportingState.lastConsensusRefSlot <= Round
  /\ \A i \in 1..TotalMembers : memberStates[i].lastReportRefSlot <= Round

\* The last report is not ahead of the current frame.
RoundArrived == IF InitialEpochArrived THEN Round <= RefSlot ELSE Round = 0

\* A vote and a consensus of the last report's slot name a variant that exists.
VotesIndexed ==
  Round # 0 =>
    /\ \A i \in 1..TotalMembers :
         memberStates[i].lastReportRefSlot = Round =>
           memberStates[i].lastReportVariantIndex \in 1..Len(reportVariants)
    /\ reportingState.lastConsensusRefSlot = Round =>
         reportingState.lastConsensusVariantIndex \in 1..Len(reportVariants)

\* The members whose stored vote is variant v.
Backers(v) == {i \in 1..TotalMembers : /\ memberStates[i].lastReportRefSlot = Round
                                       /\ memberStates[i].lastReportVariantIndex = v}

\* The support of a variant is never less than the votes stored for it: it can
\* always be decremented.
SupportCovers ==
  Round # 0 => \A v \in 1..Len(reportVariants) :
                 reportVariants[v].support >= Cardinality(Backers(v))

\* What the counting of votes needs to make sense, whatever the quorum.
Counted ==
  /\ TypeOK
  /\ MembersIndexed
  /\ VariantsDistinct
  /\ SlotsOrdered
  /\ VotesIndexed
  /\ SupportCovers

Inv == Counted /\ RoundArrived

-----------------------------------------------------------------------------
(* Frames.                                                                 *)

LEMMA FrameTypes ==
  ASSUME TypeOK
  PROVE  /\ slot \in Nat /\ slot <= MaxSlot
         /\ SlotsPerEpoch \in Nat \ {0}
         /\ frameConfig.initialEpoch \in Nat \ {0}
         /\ frameConfig.epochsPerFrame \in Nat \ {0}
<1>1. slot \in 0..MaxSlot
  BY DEF TypeOK, OracleTypeOK, Slots
<1>2. frameConfig.initialEpoch \in 1..FarFutureEpoch /\ frameConfig.epochsPerFrame \in FrameSizes
  BY DEF TypeOK
<1>3. MaxSlot \in Nat /\ SlotsPerEpoch \in Nat \ {0} /\ FarFutureEpoch \in Nat
      /\ \A e \in FrameSizes : e \in Nat \ {0}
  BY SlotAssumption, FrameAssumption
<1> QED BY <1>1, <1>2, <1>3

LEMMA Quotient ==
  ASSUME NEW a \in Nat, NEW b \in Nat \ {0}
  PROVE  a \div b \in Nat /\ (a \div b) * b <= a /\ a < (a \div b) * b + b
OBVIOUS

LEMMA ProductMonotone ==
  ASSUME NEW a \in Nat, NEW b \in Nat, NEW c \in Nat, a <= b
  PROVE  a * c \in Nat /\ b * c \in Nat /\ a * c <= b * c
OBVIOUS

\* The first epoch of the current frame and the frame's place around the slot.
LEMMA FrameAroundEpoch ==
  ASSUME TypeOK, InitialEpochArrived
  PROVE  /\ Epoch(slot) \in Nat
         /\ FrameIndex \in Nat
         /\ FrameStartEpoch \in Nat
         /\ frameConfig.initialEpoch <= FrameStartEpoch
         /\ FrameStartEpoch <= Epoch(slot)
         /\ Epoch(slot) < FrameStartEpoch + frameConfig.epochsPerFrame
<1>1. /\ slot \in Nat /\ SlotsPerEpoch \in Nat \ {0}
      /\ frameConfig.initialEpoch \in Nat /\ frameConfig.epochsPerFrame \in Nat \ {0}
  BY FrameTypes
<1>2. Epoch(slot) \in Nat
  BY <1>1, Quotient DEF Epoch
<1> DEFINE past == Epoch(slot) - frameConfig.initialEpoch
<1>3. past \in Nat
  BY <1>1, <1>2 DEF InitialEpochArrived
<1> HIDE DEF past
<1>4. /\ past \div frameConfig.epochsPerFrame \in Nat
      /\ (past \div frameConfig.epochsPerFrame) * frameConfig.epochsPerFrame <= past
      /\ past < (past \div frameConfig.epochsPerFrame) * frameConfig.epochsPerFrame
                  + frameConfig.epochsPerFrame
  BY <1>1, <1>3, Quotient
<1>5. FrameIndex = past \div frameConfig.epochsPerFrame
  BY DEF FrameIndex, past
<1>6. /\ FrameIndex \in Nat
      /\ FrameIndex * frameConfig.epochsPerFrame <= past
      /\ past < FrameIndex * frameConfig.epochsPerFrame + frameConfig.epochsPerFrame
  BY <1>4, <1>5
<1> DEFINE done == FrameIndex * frameConfig.epochsPerFrame
<1>7. done \in Nat /\ done <= past /\ past < done + frameConfig.epochsPerFrame
  BY <1>1, <1>6
<1>8. FrameStartEpoch = frameConfig.initialEpoch + done
  BY DEF FrameStartEpoch
<1> HIDE DEF done
<1> QED BY <1>1, <1>2, <1>6, <1>7, <1>8 DEF past

LEMMA FrameAroundEpochNext ==
  (TypeOK /\ InitialEpochArrived => FrameIndex \in Nat /\ FrameStartEpoch \in Nat)'
<1>1. TypeOK /\ InitialEpochArrived => FrameIndex \in Nat /\ FrameStartEpoch \in Nat
  BY FrameAroundEpoch
<1> QED BY <1>1, PTL

\* The current slot lies between the reference slot and the deadline.
LEMMA FrameAroundSlot ==
  ASSUME TypeOK, InitialEpochArrived
  PROVE  /\ RefSlot \in Slots /\ DeadlineSlot \in Nat
         /\ RefSlot < slot /\ slot <= DeadlineSlot
         /\ DeadlineSlot = RefSlot + frameConfig.epochsPerFrame * SlotsPerEpoch
<1> DEFINE start == FrameStartEpoch
           size  == frameConfig.epochsPerFrame
           now   == Epoch(slot)
<1>1. /\ slot \in Nat /\ slot <= MaxSlot /\ size \in Nat \ {0}
      /\ start \in Nat /\ start # 0 /\ start <= now /\ now < start + size /\ now \in Nat
      /\ SlotsPerEpoch \in Nat \ {0}
  BY FrameAroundEpoch, FrameTypes
<1>2. now * SlotsPerEpoch <= slot /\ slot < now * SlotsPerEpoch + SlotsPerEpoch
  BY <1>1, Quotient DEF Epoch
<1>3. RefSlot = start * SlotsPerEpoch - 1 /\ DeadlineSlot = RefSlot + size * SlotsPerEpoch
  BY DEF RefSlot, DeadlineSlot
<1> HIDE DEF start, size, now
<1>4. start * SlotsPerEpoch <= now * SlotsPerEpoch
  BY <1>1, ProductMonotone
<1>5. /\ (now + 1) * SlotsPerEpoch <= (start + size) * SlotsPerEpoch
      /\ (now + 1) * SlotsPerEpoch = now * SlotsPerEpoch + SlotsPerEpoch
      /\ (start + size) * SlotsPerEpoch = start * SlotsPerEpoch + size * SlotsPerEpoch
  <2>1. now + 1 \in Nat /\ start + size \in Nat /\ now + 1 <= start + size
    BY <1>1
  <2> QED BY <1>1, <2>1, ProductMonotone
<1>6. /\ start * SlotsPerEpoch \in Nat \ {0} /\ size * SlotsPerEpoch \in Nat
      /\ now * SlotsPerEpoch \in Nat
  BY <1>1
<1>7. RefSlot \in Nat /\ RefSlot < slot /\ slot <= DeadlineSlot /\ DeadlineSlot \in Nat
  BY <1>1, <1>2, <1>3, <1>4, <1>5, <1>6
<1> QED BY SlotAssumption, <1>1, <1>3, <1>7 DEF Slots, size

LEMMA FrameAroundSlotNext == (TypeOK /\ InitialEpochArrived => RefSlot \in Slots)'
<1>1. TypeOK /\ InitialEpochArrived => RefSlot \in Slots
  BY FrameAroundSlot
<1> QED BY <1>1, PTL

-----------------------------------------------------------------------------
(* Counting members and variants.                                          *)

Variant == [hash : Hashes, support : Nat]

LEMMA UpToCount ==
  ASSUME NEW n \in Nat
  PROVE  IsFiniteSet(1..n) /\ Cardinality(1..n) = n
<1>1. IsFiniteSet(1..n) /\ Cardinality(1..n) = IF 1 > n THEN 0 ELSE n - 1 + 1
  BY FS_Interval
<1> QED BY <1>1

\* Different hashes: there are no more variants than hashes.
LEMMA VariantsBounded ==
  ASSUME NEW variants \in Seq(Variant),
         \A v, w \in 1..Len(variants) : variants[v].hash = variants[w].hash => v = w
  PROVE  /\ Cardinality(Hashes) \in Nat
         /\ Len(variants) <= Cardinality(Hashes)
<1> DEFINE f == [v \in 1..Len(variants) |-> variants[v].hash]
<1>1. Len(variants) \in Nat /\ \A v \in 1..Len(variants) : variants[v].hash \in Hashes
  <2>1. Len(variants) \in Nat /\ \A v \in 1..Len(variants) : variants[v] \in Variant
    OBVIOUS
  <2> QED BY <2>1 DEF Variant
<1>2. f \in Injection(1..Len(variants), Hashes)
  BY <1>1 DEF Injection, IsInjective
<1>3. Cardinality(1..Len(variants)) <= Cardinality(Hashes)
  BY <1>2, ReportsAssumption, FS_Injection
<1>4. Cardinality(1..Len(variants)) = Len(variants)
  BY <1>1, UpToCount
<1> QED BY <1>3, <1>4, ReportsAssumption, FS_CardinalityType

\* Every member has one place in the array: there are no more members than
\* addresses.
LEMMA MembersBounded ==
  ASSUME NEW addresses \in Seq(Addresses), NEW indices,
         \A i \in 1..Len(addresses) : indices[addresses[i]] = i
  PROVE  /\ Cardinality(Addresses) \in Nat
         /\ Len(addresses) <= Cardinality(Addresses)
<1> DEFINE f == [i \in 1..Len(addresses) |-> addresses[i]]
<1>1. Len(addresses) \in Nat /\ \A i \in 1..Len(addresses) : addresses[i] \in Addresses
  OBVIOUS
<1>2. f \in Injection(1..Len(addresses), Addresses)
  BY <1>1 DEF Injection, IsInjective
<1>3. IsFiniteSet(Addresses)
  BY QuorumAssumption
<1>4. Cardinality(1..Len(addresses)) <= Cardinality(Addresses)
  BY <1>2, <1>3, FS_Injection
<1>5. Cardinality(1..Len(addresses)) = Len(addresses)
  BY <1>1, UpToCount
<1> QED BY <1>3, <1>4, <1>5, FS_CardinalityType

\* A subset of the member indices is finite.
LEMMA SomeMembers ==
  ASSUME NEW n \in Nat, NEW S \in SUBSET (1..n)
  PROVE  IsFiniteSet(S) /\ Cardinality(S) \in Nat /\ Cardinality(S) <= n
<1>1. IsFiniteSet(1..n) /\ Cardinality(1..n) = n
  BY UpToCount
<1>2. IsFiniteSet(S) /\ Cardinality(S) <= Cardinality(1..n)
  BY <1>1, FS_Subset
<1> QED BY <1>1, <1>2, FS_CardinalityType

\* The last of n members takes the place of member i: of the members in S all
\* are still counted but i.
LEMMA SwapCount ==
  ASSUME NEW n \in Nat \ {0}, NEW i \in 1..n, NEW S \in SUBSET (1..n), NEW T,
         T = {j \in 1..(n - 1) : (j = i => n \in S) /\ (j # i => j \in S)}
  PROVE  Cardinality(T) = Cardinality(S) - (IF i \in S THEN 1 ELSE 0)
<1>1. IsFiniteSet(S) /\ Cardinality(S) \in Nat
  BY SomeMembers
<1>2. IsFiniteSet(S \ {i})
      /\ Cardinality(S \ {i}) = Cardinality(S) - (IF i \in S THEN 1 ELSE 0)
  BY <1>1, FS_RemoveElement
<1>3. T \subseteq 1..n
  OBVIOUS
<1>4. CASE i = n
  <2>1. \A j \in 1..n : j \in T <=> j \in S \ {i}
    BY <1>4
  <2>2. T = S \ {i}
    BY <2>1, <1>3
  <2> QED BY <2>2, <1>2
<1>5. CASE i # n /\ n \notin S
  <2>1. \A j \in 1..n : j \in T <=> j \in S \ {i}
    BY <1>5
  <2>2. T = S \ {i}
    BY <2>1, <1>3
  <2> QED BY <2>2, <1>2
<1>6. CASE i # n /\ n \in S
  <2> DEFINE R == (S \ {i}) \ {n}
  <2>1. IsFiniteSet(R) /\ Cardinality(R) = Cardinality(S \ {i}) - 1
    BY <1>2, <1>6, FS_RemoveElement
  <2>2. \A j \in 1..n : j \in T <=> j \in R \cup {i}
    BY <1>6
  <2>3. Cardinality(R \cup {i}) = Cardinality(R) + 1
    BY <2>1, FS_AddElement
  <2>4. Cardinality(S \ {i}) \in Nat
    BY <1>2, FS_CardinalityType
  <2>5. T = R \cup {i}
    BY <2>2, <1>3
  <2>6. Cardinality(T) = Cardinality(R) + 1
    BY <2>3, <2>5
  <2>7. Cardinality(R) + 1 = Cardinality(S \ {i})
    BY <2>1, <2>4
  <2> QED BY <2>6, <2>7, <1>2
<1> QED BY <1>4, <1>5, <1>6

-----------------------------------------------------------------------------
(* The reference slot over time.                                           *)

LEMMA MinOfTwo ==
  ASSUME NEW a \in Int, NEW b \in Int
  PROVE  Min({a, b}) \in {a, b} /\ Min({a, b}) <= a /\ Min({a, b}) <= b
<1>1. \E x \in {a, b} : \A y \in {a, b} : x <= y
  <2>1. CASE a <= b
    BY <2>1
  <2>2. CASE b <= a
    BY <2>2
  <2> QED BY <2>1, <2>2
<1>2. Min({a, b}) \in {a, b} /\ \A y \in {a, b} : Min({a, b}) <= y
  BY <1>1 DEF Min
<1> QED BY <1>2

LEMMA FramesCompare ==
  ASSUME NEW k \in Nat, NEW l \in Nat, NEW size \in Nat \ {0}, k * size < l * size + size
  PROVE  k <= l /\ (k # l => k * size + size <= l * size)
<1>1. k <= l
  <2> SUFFICES ASSUME l + 1 <= k PROVE FALSE
    OBVIOUS
  <2>1. (l + 1) * size <= k * size
    BY ProductMonotone
  <2>2. (l + 1) * size = l * size + size
    OBVIOUS
  <2>3. k * size \in Int /\ l * size \in Int
    OBVIOUS
  <2> QED BY <2>1, <2>2, <2>3
<1>2. ASSUME k # l PROVE k * size + size <= l * size
  <2>1. k + 1 <= l
    BY <1>1, <1>2
  <2>2. (k + 1) * size <= l * size
    BY <2>1, ProductMonotone
  <2> QED BY <2>2
<1> QED BY <1>1, <1>2

\* One more slot: the frame is the same or the next one.
LEMMA TickMovesFrame ==
  ASSUME TypeOK, TypeOK', InitialEpochArrived, Tick
  PROVE  /\ InitialEpochArrived'
         /\ \/ FrameStartEpoch' = FrameStartEpoch
            \/ FrameStartEpoch' >= FrameStartEpoch + frameConfig.epochsPerFrame
<1> DEFINE I == frameConfig.initialEpoch
           size == frameConfig.epochsPerFrame
           k == FrameIndex
           l == FrameIndex'
           now == Epoch(slot)
           then == Epoch(slot')
<1>1. frameConfig' = frameConfig /\ slot' = slot + 1
  BY DEF Tick
<1>2. /\ slot \in Nat /\ SlotsPerEpoch \in Nat \ {0} /\ I \in Nat \ {0} /\ size \in Nat \ {0}
  BY FrameTypes
<1>3. now \in Nat /\ then \in Nat /\ now <= then
  <2>1. /\ slot + 1 \in Nat /\ slot \in Nat
        /\ then = (slot + 1) \div SlotsPerEpoch /\ now = slot \div SlotsPerEpoch
    BY <1>1, <1>2 DEF Epoch
  <2>2. /\ now \in Nat /\ then \in Nat /\ now * SlotsPerEpoch <= slot
        /\ slot + 1 < then * SlotsPerEpoch + SlotsPerEpoch
    BY <2>1, <1>2, Quotient
  <2> HIDE DEF now, then
  <2>3. now * SlotsPerEpoch < then * SlotsPerEpoch + SlotsPerEpoch
    BY <2>2, <1>2
  <2> QED BY <2>2, <2>3, <1>2, FramesCompare
<1>4. InitialEpochArrived'
  BY <1>1, <1>2, <1>3 DEF InitialEpochArrived
<1>5. /\ k = (now - I) \div size /\ l = (then - I) \div size
      /\ FrameStartEpoch = I + k * size /\ FrameStartEpoch' = I + l * size
  BY <1>1 DEF FrameIndex, FrameStartEpoch, Epoch
<1>6. now - I \in Nat /\ then - I \in Nat
  BY <1>2, <1>3 DEF InitialEpochArrived
<1> HIDE DEF I, size, now, then
<1>7. /\ k \in Nat /\ l \in Nat /\ k * size <= now - I
      /\ then - I < l * size + size
  BY <1>2, <1>5, <1>6, Quotient
<1>8. k <= l /\ (k # l => k * size + size <= l * size)
  <2>1. k * size \in Int /\ l * size \in Int
    BY <1>2, <1>7
  <2>2. I \in Int /\ size \in Int /\ now \in Int /\ then \in Int
    BY <1>2, <1>3
  <2>3. k * size < l * size + size
    <3> DEFINE a == k * size
               b == l * size
    <3>1. a \in Int /\ b \in Int /\ a <= now - I /\ then - I < b + size /\ now <= then
      BY <1>3, <1>7, <2>1
    <3> HIDE DEF a, b
    <3>2. a < b + size
      BY <3>1, <2>2
    <3> QED BY <3>2 DEF a, b
  <2> QED BY <2>3, <1>2, <1>7, FramesCompare
<1>9. CASE k = l
  <2>1. FrameStartEpoch' = FrameStartEpoch
    BY <1>5, <1>9
  <2> QED BY <2>1, <1>4
<1>10. CASE k # l
  <2>1. k * size \in Int /\ l * size \in Int
    BY <1>2, <1>7
  <2>2. FrameStartEpoch' >= FrameStartEpoch + size
    BY <1>2, <1>5, <1>8, <1>10, <2>1
  <2> QED BY <2>2, <1>4 DEF size
<1> QED BY <1>9, <1>10

\* New frames start at the current one: it stays current or, cut into smaller
\* frames, gives way to a later one.
LEMMA ResizeMovesFrame ==
  ASSUME TypeOK, TypeOK', InitialEpochArrived, NEW e \in FrameSizes, NEW f, SetFrameConfig(e, f)
  PROVE  /\ InitialEpochArrived'
         /\ frameConfig'.epochsPerFrame = e
         /\ \/ FrameStartEpoch' = FrameStartEpoch
            \/ FrameStartEpoch' >= FrameStartEpoch + e
<1> DEFINE l == FrameIndex'
<1>1. /\ slot' = slot /\ frameConfig'.initialEpoch = FrameStartEpoch
      /\ frameConfig'.epochsPerFrame = e
  BY DEF SetFrameConfig, SetFrame
<1>2. Epoch(slot') = Epoch(slot)
  BY <1>1
<1>3. InitialEpochArrived'
  BY <1>1, <1>2, FrameAroundEpoch DEF InitialEpochArrived
<1>4. l \in Nat /\ FrameStartEpoch \in Nat /\ e \in Nat \ {0}
      /\ FrameStartEpoch' = FrameStartEpoch + l * e
  <2>1. l \in Nat /\ e \in Nat \ {0}
    BY <1>3, FrameAroundEpochNext, FrameAssumption
  <2>2. FrameStartEpoch' = FrameStartEpoch + l * e
    BY <1>1 DEF FrameStartEpoch
  <2> QED BY <2>1, <2>2, FrameAroundEpoch
<1> HIDE DEF l
<1>5. CASE l = 0
  BY <1>1, <1>3, <1>4, <1>5
<1>6. CASE l # 0
  <2>1. 1 <= l /\ 1 * e <= l * e
    BY <1>4, <1>6, ProductMonotone
  <2>2. FrameStartEpoch' >= FrameStartEpoch + e
    BY <1>4, <2>1
  <2> QED BY <1>1, <1>3, <2>2
<1> QED BY <1>5, <1>6

\* The reference slot of a later frame is later by the slots between them.
LEMMA RefSlotOfFrame ==
  ASSUME NEW start \in Nat, NEW later \in Nat, NEW size \in Nat, later >= start + size
  PROVE  later * SlotsPerEpoch - 1 >= start * SlotsPerEpoch - 1 + SlotsPerEpoch * size
<1>1. SlotsPerEpoch \in Nat
  BY FrameAssumption
<1>2. (start + size) * SlotsPerEpoch <= later * SlotsPerEpoch
  BY <1>1, ProductMonotone
<1>3. (start + size) * SlotsPerEpoch = start * SlotsPerEpoch + SlotsPerEpoch * size
  BY <1>1
<1>4. /\ start * SlotsPerEpoch \in Int /\ SlotsPerEpoch * size \in Int
      /\ later * SlotsPerEpoch \in Int
  BY <1>1
<1> QED BY <1>2, <1>3, <1>4

\* What RefSlotAdvances says of one step.
Advances ==
  InitialEpochArrived =>
    \/ RefSlot' = RefSlot
    \/ RefSlot' >= RefSlot + SlotsPerEpoch * Min({frameConfig.epochsPerFrame,
                                                  frameConfig'.epochsPerFrame})

LEMMA FrameSame ==
  ASSUME UNCHANGED <<slot, frameConfig>>
  PROVE  /\ InitialEpochArrived' <=> InitialEpochArrived
         /\ RefSlot' = RefSlot /\ DeadlineSlot' = DeadlineSlot
BY DEF InitialEpochArrived, RefSlot, DeadlineSlot, FrameStartEpoch, FrameIndex, Epoch

LEMMA FrameMoves ==
  ASSUME TypeOK, TypeOK', Next, InitialEpochArrived
  PROVE  /\ InitialEpochArrived'
         /\ \/ RefSlot' = RefSlot
            \/ RefSlot' >= RefSlot + SlotsPerEpoch * Min({frameConfig.epochsPerFrame,
                                                          frameConfig'.epochsPerFrame})
<1> DEFINE least == Min({frameConfig.epochsPerFrame, frameConfig'.epochsPerFrame})
<1>1. /\ FrameStartEpoch \in Nat /\ frameConfig.epochsPerFrame \in Nat \ {0}
      /\ frameConfig'.epochsPerFrame \in Nat \ {0}
  <2>1. frameConfig'.epochsPerFrame \in FrameSizes
    BY DEF TypeOK
  <2> QED BY <2>1, FrameAroundEpoch, FrameTypes, FrameAssumption
<1>2. least \in Nat /\ least <= frameConfig.epochsPerFrame /\ least <= frameConfig'.epochsPerFrame
  <2> DEFINE a == frameConfig.epochsPerFrame
             b == frameConfig'.epochsPerFrame
  <2>1. a \in Nat /\ b \in Nat /\ least = Min({a, b})
    BY <1>1
  <2> HIDE DEF a, b, least
  <2>2. Min({a, b}) \in {a, b} /\ Min({a, b}) <= a /\ Min({a, b}) <= b
    BY <2>1, MinOfTwo
  <2>3. least \in Nat /\ least <= a /\ least <= b
    BY <2>1, <2>2
  <2> QED BY <2>3 DEF a, b
<1>3. ASSUME InitialEpochArrived', NEW e \in Nat, least <= e,
             \/ FrameStartEpoch' = FrameStartEpoch
             \/ FrameStartEpoch' >= FrameStartEpoch + e
      PROVE  RefSlot' = RefSlot \/ RefSlot' >= RefSlot + SlotsPerEpoch * least
  <2>1. FrameStartEpoch' \in Nat
    BY <1>3, FrameAroundEpochNext
  <2>2. RefSlot = FrameStartEpoch * SlotsPerEpoch - 1 /\ RefSlot' = FrameStartEpoch' * SlotsPerEpoch - 1
    BY DEF RefSlot
  <2>3. CASE FrameStartEpoch' = FrameStartEpoch
    BY <2>2, <2>3
  <2>4. CASE FrameStartEpoch' >= FrameStartEpoch + e
    <3>1. FrameStartEpoch' >= FrameStartEpoch + least
      BY <1>1, <1>2, <1>3, <2>1, <2>4
    <3> HIDE DEF least
    <3> QED BY <1>1, <1>2, <2>1, <2>2, <3>1, RefSlotOfFrame
  <2> QED BY <1>3, <2>3, <2>4
<1> HIDE DEF least
<1>4. CASE Tick
  <2>1. /\ InitialEpochArrived' /\ least <= frameConfig.epochsPerFrame
        /\ \/ FrameStartEpoch' = FrameStartEpoch
           \/ FrameStartEpoch' >= FrameStartEpoch + frameConfig.epochsPerFrame
    BY <1>2, <1>4, TickMovesFrame
  <2> QED BY <1>1, <1>3, <2>1 DEF least
<1>5. CASE \E e \in FrameSizes, f \in FastLanes : SetFrameConfig(e, f)
  <2>1. PICK e \in FrameSizes, f \in FastLanes : SetFrameConfig(e, f)
    BY <1>5
  <2>2. /\ InitialEpochArrived' /\ frameConfig'.epochsPerFrame = e
        /\ FrameStartEpoch' = FrameStartEpoch \/ FrameStartEpoch' >= FrameStartEpoch + e
    BY <2>1, ResizeMovesFrame
  <2> QED BY <1>1, <1>2, <1>3, <2>2 DEF least
<1>6. CASE \E f \in FastLanes : SetFastLaneLengthSlots(f)
  <2>1. /\ slot' = slot /\ frameConfig'.initialEpoch = frameConfig.initialEpoch
        /\ frameConfig'.epochsPerFrame = frameConfig.epochsPerFrame
    BY <1>6 DEF SetFastLaneLengthSlots, SetFrame
  <2> QED BY <2>1 DEF InitialEpochArrived, RefSlot, FrameStartEpoch, FrameIndex, Epoch
<1>7. CASE \E e \in 1..Epoch(MaxSlot) : UpdateInitialEpoch(e)
  BY <1>7 DEF UpdateInitialEpoch
<1>8. CASE UNCHANGED <<slot, frameConfig>>
  BY <1>8, FrameSame
<1>9. CASE \E a \in Addresses, q \in Quorums : AddMember(a, q) \/ RemoveMember(a, q)
  BY <1>8, <1>9 DEF AddMember, RemoveMember
<1>10. CASE \E q \in Quorums : SetQuorum(q)
  BY <1>8, <1>10 DEF SetQuorum
<1>11. CASE \E p \in Processors : SetReportProcessor(p)
  BY <1>8, <1>11 DEF SetReportProcessor
<1>12. CASE \E a \in Addresses, h \in Hashes : SubmitReport(a, h)
  <2>1. PICK a \in Addresses, h \in Hashes : SubmitReport(a, h)
    BY <1>12
  <2>2. UNCHANGED <<lastProcessingRefSlot, consensusVersion, slot, frameConfig,
                    memberAddresses, memberIndices1b, quorum, reportProcessor>>
    BY <2>1 DEF SubmitReport
  <2> QED BY <2>2, <1>8
<1>13. CASE \/ \E p \in Processors, h \in Hashes : ProcessReport(p, h)
            \/ \E p \in Processors, v \in Versions : ChangeConsensusVersion(p, v)
  BY <1>8, <1>13 DEF ProcessReport, ChangeConsensusVersion
<1> QED BY <1>4, <1>5, <1>6, <1>7, <1>9, <1>10, <1>11, <1>12, <1>13 DEF Next, least

-----------------------------------------------------------------------------
(* Reaching and losing consensus.                                          *)

State == [lastReportRefSlot : Slots, lastConsensusRefSlot : Slots,
          lastConsensusVariantIndex : 0..Cardinality(Hashes)]

\* The current processor gets the report, unless it has it.
LEMMA ReachedEffect ==
  ASSUME TypeOK, InitialEpochArrived, NEW state \in State, NEW variants \in Seq(Variant),
         NEW index \in 1..Len(variants), index <= Cardinality(Hashes),
         ConsensusReached(state, variants, index)
  PROVE  /\ reportingState' \in State
         /\ reportingState'.lastReportRefSlot = state.lastReportRefSlot
         /\ reportingState'.lastConsensusRefSlot = RefSlot
         /\ reportingState'.lastConsensusVariantIndex = index
         /\ consensusReport' \in [Processors -> ConsensusReport]
         /\ \/ /\ state.lastConsensusRefSlot = RefSlot
               /\ state.lastConsensusVariantIndex = index
               /\ consensusReport' = consensusReport
            \/ /\ consensusReport[reportProcessor].refSlot <= RefSlot
               /\ lastProcessingRefSlot[reportProcessor] < RefSlot
               /\ consensusReport' = [consensusReport EXCEPT ![reportProcessor] =
                    [hash |-> variants[index].hash, refSlot |-> RefSlot,
                     processingDeadline |-> DeadlineSlot]]
<1>1. RefSlot \in Slots /\ DeadlineSlot \in Nat
  BY FrameAroundSlot
<1>2. consensusReport \in [Processors -> ConsensusReport] /\ reportProcessor \in Processors
  BY DEF TypeOK, OracleTypeOK
<1>3. variants[index].hash \in Hashes
  <2>1. variants[index] \in Variant
    OBVIOUS
  <2> QED BY <2>1 DEF Variant
<1>4. index \in 0..Cardinality(Hashes)
  BY ReportsAssumption, FS_CardinalityType
<1>5. CASE state.lastConsensusRefSlot # RefSlot \/ state.lastConsensusVariantIndex # index
  <2>1. /\ reportingState' = [state EXCEPT !.lastConsensusRefSlot = RefSlot,
                                           !.lastConsensusVariantIndex = index]
        /\ SubmitConsensusReport(reportProcessor, variants[index].hash, RefSlot, DeadlineSlot)
    BY <1>5 DEF ConsensusReached
  <2>2. /\ reportingState' \in State
        /\ reportingState'.lastReportRefSlot = state.lastReportRefSlot
        /\ reportingState'.lastConsensusRefSlot = RefSlot
        /\ reportingState'.lastConsensusVariantIndex = index
    BY <1>1, <1>4, <2>1 DEF State
  <2>3. /\ consensusReport[reportProcessor].refSlot <= RefSlot
        /\ lastProcessingRefSlot[reportProcessor] < RefSlot
        /\ consensusReport' = [consensusReport EXCEPT ![reportProcessor] =
             [hash |-> variants[index].hash, refSlot |-> RefSlot,
              processingDeadline |-> DeadlineSlot]]
    <3>1. /\ RefSlot >= consensusReport[reportProcessor].refSlot
          /\ RefSlot > lastProcessingRefSlot[reportProcessor]
          /\ consensusReport' = [consensusReport EXCEPT ![reportProcessor] =
               [hash |-> variants[index].hash, refSlot |-> RefSlot,
                processingDeadline |-> DeadlineSlot]]
      BY <2>1 DEF SubmitConsensusReport
    <3>2. /\ consensusReport[reportProcessor].refSlot \in Slots
          /\ lastProcessingRefSlot[reportProcessor] \in Slots
      BY DEF TypeOK, OracleTypeOK, ConsensusReport
    <3>3. Slots \subseteq Int
      BY DEF Slots
    <3> QED BY <1>1, <3>1, <3>2, <3>3
  <2>4. consensusReport' \in [Processors -> ConsensusReport]
    BY <1>1, <1>2, <1>3, <2>3 DEF ConsensusReport
  <2> QED BY <2>2, <2>3, <2>4
<1>6. CASE ~(state.lastConsensusRefSlot # RefSlot \/ state.lastConsensusVariantIndex # index)
  <2>1. reportingState' = state /\ consensusReport' = consensusReport
    BY <1>6 DEF ConsensusReached
  <2> QED BY <1>2, <1>6, <2>1
<1> QED BY <1>5, <1>6

\* The current processor discards the report, if consensus was reached on one.
LEMMA NotReachedEffect ==
  ASSUME TypeOK, InitialEpochArrived, NEW state \in State, ConsensusNotReached(state)
  PROVE  /\ reportingState' \in State
         /\ reportingState'.lastReportRefSlot = state.lastReportRefSlot
         /\ consensusReport' \in [Processors -> ConsensusReport]
         /\ \/ /\ state.lastConsensusRefSlot # RefSlot
               /\ reportingState' = state
               /\ consensusReport' = consensusReport
            \/ /\ state.lastConsensusRefSlot = RefSlot
               /\ reportingState' = [state EXCEPT !.lastConsensusRefSlot = 0]
               /\ \/ /\ consensusReport[reportProcessor].refSlot < RefSlot
                     /\ consensusReport' = consensusReport
                  \/ /\ consensusReport[reportProcessor].refSlot = RefSlot
                     /\ lastProcessingRefSlot[reportProcessor] < RefSlot
                     /\ consensusReport' = [consensusReport EXCEPT ![reportProcessor].hash = ZeroHash]
<1>1. RefSlot \in Slots /\ Slots \subseteq Int /\ 0 \in Slots
  BY FrameAroundSlot, SlotAssumption DEF Slots
<1>2. /\ consensusReport \in [Processors -> ConsensusReport] /\ reportProcessor \in Processors
      /\ consensusReport[reportProcessor].refSlot \in Slots
      /\ lastProcessingRefSlot[reportProcessor] \in Slots
  BY DEF TypeOK, OracleTypeOK, ConsensusReport
<1>3. CASE state.lastConsensusRefSlot = RefSlot
  <2>1. /\ reportingState' = [state EXCEPT !.lastConsensusRefSlot = 0]
        /\ DiscardConsensusReport(reportProcessor, RefSlot)
    BY <1>3 DEF ConsensusNotReached
  <2>2. /\ reportingState' \in State
        /\ reportingState'.lastReportRefSlot = state.lastReportRefSlot
    BY <1>1, <2>1 DEF State
  <2>3. \/ /\ consensusReport[reportProcessor].refSlot < RefSlot
           /\ consensusReport' = consensusReport
        \/ /\ consensusReport[reportProcessor].refSlot = RefSlot
           /\ lastProcessingRefSlot[reportProcessor] < RefSlot
           /\ consensusReport' = [consensusReport EXCEPT ![reportProcessor].hash = ZeroHash]
    <3>1. /\ RefSlot >= consensusReport[reportProcessor].refSlot
          /\ RefSlot > consensusReport[reportProcessor].refSlot => consensusReport' = consensusReport
          /\ ~(RefSlot > consensusReport[reportProcessor].refSlot) =>
               /\ RefSlot > lastProcessingRefSlot[reportProcessor]
               /\ consensusReport' = [consensusReport EXCEPT ![reportProcessor].hash = ZeroHash]
      BY <2>1 DEF DiscardConsensusReport
    <3> QED BY <1>1, <1>2, <3>1
  <2>4. consensusReport' \in [Processors -> ConsensusReport]
    BY <1>2, <2>3 DEF ConsensusReport
  <2> QED BY <1>3, <2>1, <2>2, <2>3, <2>4
<1>4. CASE state.lastConsensusRefSlot # RefSlot
  BY <1>2, <1>4 DEF ConsensusNotReached
<1> QED BY <1>3, <1>4

\* The part of the invariant that is about the consensus, after a step that
\* keeps the round and the hashes of the variants.
ConsensusKeptInOrder(variants) ==
  /\ reportingState' \in State
  /\ Round' = Round
  /\ consensusReport' \in [Processors -> ConsensusReport]
  /\ \A p \in Processors : /\ consensusReport[p].refSlot <= consensusReport'[p].refSlot
                           /\ consensusReport'[p].refSlot <= Round
  /\ reportingState'.lastConsensusRefSlot <= Round
  /\ Round # 0 /\ reportingState'.lastConsensusRefSlot = Round =>
       reportingState'.lastConsensusVariantIndex \in 1..Len(variants)

Earlier == {p \in Nat \X Nat : p[1] < p[2]}

LEMMA Least ==
  ASSUME NEW S \in SUBSET Nat, S # {}
  PROVE  \E x \in S : \A y \in S : x <= y
<1>1. IsWellFoundedOn(Earlier, Nat)
  <2>1. OpToRel(<, Nat) = Earlier
    BY DEF OpToRel, Earlier
  <2> QED BY <2>1, NatLessThanWellFounded
<1>2. PICK x \in S : \A y \in S : ~ (<<y, x>> \in Earlier)
  BY <1>1, WFMin
<1>3. ASSUME NEW y \in S PROVE x <= y
  <2>1. x \in Nat /\ y \in Nat /\ ~(<<y, x>> \in Earlier)
    BY <1>2
  <2>2. <<y, x>> \in Nat \X Nat /\ <<y, x>>[1] = y /\ <<y, x>>[2] = x
    BY <2>1
  <2>3. ~(y < x)
    BY <2>1, <2>2 DEF Earlier
  <2> QED BY <2>1, <2>3
<1> QED BY <1>3

\* The first variant with a quorum is one of them.
LEMMA FirstWinner ==
  ASSUME NEW W \in SUBSET Nat, W # {}
  PROVE  Min(W) \in W
BY Least DEF Min

\* What every step that ends a change of the member set does to the consensus.
LEMMA CheckedConsensus ==
  ASSUME Inv, NEW q, NEW total, NEW variants \in Seq(Variant),
         Len(variants) = Len(reportVariants),
         \A v \in 1..Len(variants) : variants[v].hash = reportVariants[v].hash,
         SetQuorumAndCheckConsensus(q, total, variants)
  PROVE  ConsensusKeptInOrder(variants)
<1>1. /\ reportingState \in State
      /\ consensusReport \in [Processors -> ConsensusReport]
      /\ reportProcessor \in Processors
      /\ lastProcessingRefSlot \in [Processors -> Slots]
      /\ \A p \in Processors : consensusReport[p].refSlot \in Slots
      /\ Round \in Slots /\ reportingState.lastConsensusRefSlot \in Slots
  <2>1. /\ consensusReport \in [Processors -> ConsensusReport]
        /\ reportProcessor \in Processors
        /\ lastProcessingRefSlot \in [Processors -> Slots]
        /\ reportingState \in State
    BY DEF Inv, Counted, TypeOK, OracleTypeOK, State
  <2>2. \A p \in Processors : consensusReport[p].refSlot \in Slots
    BY <2>1 DEF ConsensusReport
  <2>3. Round \in Slots /\ reportingState.lastConsensusRefSlot \in Slots
    BY <2>1 DEF State, Round
  <2> QED BY <2>1, <2>2, <2>3
<1>2. Slots \subseteq Nat
  BY SlotAssumption DEF Slots
<1>3. /\ \A p \in Processors : consensusReport[p].refSlot <= Round
      /\ reportingState.lastConsensusRefSlot <= Round
      /\ Round # 0 /\ reportingState.lastConsensusRefSlot = Round =>
           reportingState.lastConsensusVariantIndex \in 1..Len(variants)
  BY DEF Inv, Counted, SlotsOrdered, VotesIndexed
<1>4. ASSUME UNCHANGED <<reportingState, consensusReport>>
      PROVE  ConsensusKeptInOrder(variants)
  <2>1. /\ reportingState' = reportingState /\ consensusReport' = consensusReport
        /\ Round' = Round
    BY <1>4 DEF Round
  <2>2. ASSUME NEW p \in Processors
        PROVE  consensusReport[p].refSlot <= consensusReport[p].refSlot
    <3>1. consensusReport[p].refSlot \in Nat
      BY <1>1, <1>2
    <3> QED BY <3>1
  <2> QED BY <1>1, <1>3, <2>1, <2>2 DEF ConsensusKeptInOrder
<1> DEFINE winners == QuorumVariants(reportingState, variants, q)
<1>5. CASE ~InitialEpochArrived \/ slot > DeadlineSlot \/ ReportProcessing
  BY <1>4, <1>5 DEF SetQuorumAndCheckConsensus
<1>6. CASE /\ ~(~InitialEpochArrived \/ slot > DeadlineSlot \/ ReportProcessing)
           /\ winners # {}
  <2>1. InitialEpochArrived /\ ConsensusReached(reportingState, variants, Min(winners))
    BY <1>6 DEF SetQuorumAndCheckConsensus
  <2>2. Round = RefSlot /\ winners \subseteq 1..Len(variants)
    BY <1>6 DEF QuorumVariants, Round
  <2>3. Min(winners) \in 1..Len(variants)
    BY <1>6, <2>2, FirstWinner
  <2>4. Len(variants) <= Cardinality(Hashes) /\ Cardinality(Hashes) \in Nat
    BY VariantsBounded DEF Inv, Counted, VariantsDistinct
  <2>5. Min(winners) <= Cardinality(Hashes)
    BY <2>3, <2>4
  <2> HIDE DEF winners
  <2>6. /\ reportingState' \in State
        /\ reportingState'.lastReportRefSlot = reportingState.lastReportRefSlot
        /\ reportingState'.lastConsensusRefSlot = RefSlot
        /\ reportingState'.lastConsensusVariantIndex = Min(winners)
        /\ consensusReport' \in [Processors -> ConsensusReport]
        /\ \/ consensusReport' = consensusReport
           \/ /\ consensusReport[reportProcessor].refSlot <= RefSlot
              /\ consensusReport' = [consensusReport EXCEPT ![reportProcessor] =
                    [hash |-> variants[Min(winners)].hash, refSlot |-> RefSlot,
                     processingDeadline |-> DeadlineSlot]]
    BY <1>1, <2>1, <2>3, <2>5, ReachedEffect DEF Inv, Counted
  <2>7. ASSUME NEW p \in Processors
        PROVE  /\ consensusReport[p].refSlot <= consensusReport'[p].refSlot
               /\ consensusReport'[p].refSlot <= Round
    <3>1. consensusReport[p].refSlot \in Nat /\ Round \in Nat /\ consensusReport[p].refSlot <= Round
      BY <1>1, <1>2, <1>3
    <3>2. \/ consensusReport'[p].refSlot = consensusReport[p].refSlot
          \/ consensusReport'[p].refSlot = RefSlot
      BY <1>1, <2>6
    <3> QED BY <2>2, <3>1, <3>2
  <2>8. Round' = Round /\ reportingState'.lastConsensusRefSlot <= Round
    <3>1. Round \in Nat
      BY <1>1, <1>2
    <3> QED BY <2>2, <2>6, <3>1 DEF Round
  <2> QED BY <2>3, <2>6, <2>7, <2>8 DEF ConsensusKeptInOrder
<1>7. CASE /\ ~(~InitialEpochArrived \/ slot > DeadlineSlot \/ ReportProcessing)
           /\ winners = {}
  <2>1. InitialEpochArrived /\ ConsensusNotReached(reportingState) /\ ~ReportProcessing
    BY <1>7 DEF SetQuorumAndCheckConsensus
  <2>2. RefSlot \in Slots /\ RefSlot # 0
    <3>1. RefSlot \in Slots
      BY <2>1, FrameAroundSlot DEF Inv, Counted
    <3>2. lastProcessingRefSlot[reportProcessor] \in Nat /\ RefSlot \in Nat
          /\ ~(lastProcessingRefSlot[reportProcessor] >= RefSlot)
      BY <1>1, <1>2, <2>1, <3>1 DEF ReportProcessing
    <3> QED BY <3>1, <3>2
  <2>3. /\ reportingState' \in State
        /\ reportingState'.lastReportRefSlot = reportingState.lastReportRefSlot
        /\ consensusReport' \in [Processors -> ConsensusReport]
        /\ \/ consensusReport' = consensusReport
           \/ consensusReport' = [consensusReport EXCEPT ![reportProcessor].hash = ZeroHash]
        /\ \/ reportingState' = reportingState
           \/ reportingState' = [reportingState EXCEPT !.lastConsensusRefSlot = 0]
    BY <1>1, <2>1, NotReachedEffect DEF Inv, Counted
  <2>4. ASSUME NEW p \in Processors
        PROVE  consensusReport'[p].refSlot = consensusReport[p].refSlot
    BY <1>1, <2>3 DEF ConsensusReport
  <2>5. \/ reportingState'.lastConsensusRefSlot = reportingState.lastConsensusRefSlot
           /\ reportingState'.lastConsensusVariantIndex = reportingState.lastConsensusVariantIndex
        \/ reportingState'.lastConsensusRefSlot = 0
    BY <1>1, <2>3 DEF State
  <2> QED BY <1>1, <1>2, <1>3, <2>3, <2>4, <2>5 DEF ConsensusKeptInOrder, Round
<1> QED BY <1>5, <1>6, <1>7

-----------------------------------------------------------------------------
(* Every step keeps the invariant.                                         *)

\* The numbers the state holds are naturals.
LEMMA Numbers ==
  ASSUME TypeOK
  PROVE  /\ TotalMembers \in Nat /\ Len(memberAddresses) \in Nat /\ Len(reportVariants) \in Nat
         /\ Slots \subseteq Nat /\ 0 \in Slots
         /\ Round \in Slots /\ reportingState.lastConsensusRefSlot \in Slots
         /\ reportingState \in State
         /\ \A i \in 1..TotalMembers :
              /\ memberStates[i] \in MemberState
              /\ memberStates[i].lastReportRefSlot \in Slots
              /\ memberStates[i].lastReportVariantIndex \in Nat
         /\ \A v \in 1..Len(reportVariants) :
              /\ reportVariants[v] \in Variant
              /\ reportVariants[v].hash \in Hashes
              /\ reportVariants[v].support \in Nat
<1>1. memberStates \in Seq(MemberState) /\ memberAddresses \in Seq(Addresses)
      /\ reportVariants \in Seq(Variant) /\ reportingState \in State
  BY DEF TypeOK, Variant, State
<1>2. Slots \subseteq Nat /\ 0 \in Slots
  BY SlotAssumption DEF Slots
<1>3. Round \in Slots /\ reportingState.lastConsensusRefSlot \in Slots
  BY <1>1 DEF State, Round
<1>4. \A i \in 1..TotalMembers : memberStates[i] \in MemberState
  BY <1>1 DEF TotalMembers
<1>5. \A v \in 1..Len(reportVariants) : reportVariants[v] \in Variant
  BY <1>1
<1> QED BY <1>1, <1>2, <1>3, <1>4, <1>5 DEF TotalMembers, MemberState, Variant

\* The types after a change of the member set.
LEMMA CheckedTypes ==
  ASSUME Inv, NEW q \in Quorums, NEW total, NEW variants \in Seq(Variant),
         SetQuorumAndCheckConsensus(q, total, variants), ConsensusKeptInOrder(variants),
         UNCHANGED <<lastProcessingRefSlot, consensusVersion, slot, frameConfig, reportProcessor>>,
         memberStates' \in Seq(MemberState), memberAddresses' \in Seq(Addresses),
         memberIndices1b' \in [Addresses -> 0..Cardinality(Addresses)]
  PROVE  TypeOK' /\ reportVariants' = variants
<1>1. quorum' = q /\ reportVariants' = variants
  BY DEF SetQuorumAndCheckConsensus
<1>2. TypeOK
  BY DEF Inv, Counted
<1>3. OracleTypeOK'
  BY <1>2 DEF TypeOK, OracleTypeOK, ConsensusKeptInOrder
<1> QED BY <1>1, <1>2, <1>3 DEF TypeOK, ConsensusKeptInOrder, State, Variant

\* The processors' reports and the consensus stay behind the round.
LEMMA CheckedOrder ==
  ASSUME Inv, NEW variants, ConsensusKeptInOrder(variants), UNCHANGED lastProcessingRefSlot
  PROVE  /\ \A p \in Processors : /\ lastProcessingRefSlot'[p] <= consensusReport'[p].refSlot
                                  /\ consensusReport'[p].refSlot <= Round'
         /\ reportingState'.lastConsensusRefSlot <= Round'
         /\ Round' = Round
<1>1. ASSUME NEW p \in Processors
      PROVE  lastProcessingRefSlot[p] <= consensusReport'[p].refSlot
  <2>1. /\ lastProcessingRefSlot[p] <= consensusReport[p].refSlot
        /\ consensusReport[p].refSlot <= consensusReport'[p].refSlot
    BY DEF Inv, Counted, SlotsOrdered, ConsensusKeptInOrder
  <2>2. /\ lastProcessingRefSlot[p] \in Slots /\ consensusReport[p].refSlot \in Slots
        /\ consensusReport'[p].refSlot \in Slots
    BY DEF Inv, Counted, TypeOK, OracleTypeOK, ConsensusReport, ConsensusKeptInOrder
  <2> QED BY <2>1, <2>2 DEF Slots
<1> QED BY <1>1 DEF ConsensusKeptInOrder

LEMMA AddMemberCounted ==
  ASSUME Inv, NEW a \in Addresses, NEW q \in Quorums, AddMember(a, q)
  PROVE  Counted'
<1> DEFINE n == TotalMembers
           z == [lastReportRefSlot |-> 0, lastReportVariantIndex |-> 0]
<1>1. TypeOK /\ MembersIndexed /\ Len(memberAddresses) = n /\ n \in Nat
      /\ memberStates \in Seq(MemberState) /\ memberAddresses \in Seq(Addresses)
      /\ memberIndices1b \in [Addresses -> 0..Cardinality(Addresses)]
      /\ reportVariants \in Seq(Variant)
  BY Numbers DEF Inv, Counted, MembersIndexed, TypeOK, Variant
<1>2. /\ memberIndices1b[a] = 0
      /\ memberStates' = Append(memberStates, z)
      /\ memberAddresses' = Append(memberAddresses, a)
      /\ memberIndices1b' = [memberIndices1b EXCEPT ![a] = n + 1]
      /\ SetQuorumAndCheckConsensus(q, n + 1, reportVariants)
      /\ UNCHANGED <<lastProcessingRefSlot, consensusVersion, slot, frameConfig, reportProcessor>>
  BY DEF AddMember, IsMember
<1>3. ConsensusKeptInOrder(reportVariants)
  BY <1>1, <1>2, CheckedConsensus
<1>4. z \in MemberState
  <2>1. Cardinality(Hashes) \in Nat
    BY ReportsAssumption, FS_CardinalityType
  <2> QED BY <2>1, <1>1, Numbers DEF MemberState
<1>5. /\ memberStates' \in Seq(MemberState) /\ TotalMembers' = n + 1
      /\ memberStates'[n + 1] = z
      /\ \A i \in 1..n : memberStates'[i] = memberStates[i]
  BY <1>1, <1>2, <1>4 DEF TotalMembers
<1>6. /\ memberAddresses' \in Seq(Addresses) /\ Len(memberAddresses') = n + 1
      /\ memberAddresses'[n + 1] = a
      /\ \A i \in 1..n : memberAddresses'[i] = memberAddresses[i]
  BY <1>1, <1>2
<1>7. \A i \in 1..n : memberAddresses[i] \in Addresses /\ memberAddresses[i] # a
  BY <1>1, <1>2 DEF MembersIndexed
<1>8. \A i \in 1..(n + 1) : memberIndices1b'[memberAddresses'[i]] = i
  BY <1>1, <1>2, <1>6, <1>7 DEF MembersIndexed
<1>9. memberIndices1b' \in [Addresses -> 0..Cardinality(Addresses)]
  <2>1. n + 1 <= Cardinality(Addresses) /\ Cardinality(Addresses) \in Nat
    BY <1>6, <1>8, MembersBounded
  <2> QED BY <1>1, <1>2, <2>1
<1>10. MembersIndexed'
  <2>1. ASSUME NEW b \in Addresses, memberIndices1b'[b] # 0
        PROVE  \E i \in 1..(n + 1) : i = memberIndices1b'[b] /\ memberAddresses'[i] = b
    <3>1. CASE b = a
      BY <3>1, <1>1, <1>2, <1>6
    <3>2. CASE b # a
      <4>1. PICK i \in 1..n : i = memberIndices1b[b] /\ memberAddresses[i] = b
        BY <3>2, <2>1, <1>1, <1>2 DEF MembersIndexed, IsMember
      <4> QED BY <4>1, <3>2, <1>1, <1>2, <1>6
    <3> QED BY <3>1, <3>2
  <2> QED BY <2>1, <1>5, <1>6, <1>8 DEF MembersIndexed, IsMember
<1>11. TypeOK' /\ reportVariants' = reportVariants
  BY <1>1, <1>2, <1>3, <1>5, <1>6, <1>9, CheckedTypes
<1>12. Round' = Round
  BY <1>3 DEF ConsensusKeptInOrder
<1>13. SlotsOrdered'
  <2>1. \A i \in 1..(n + 1) : memberStates'[i].lastReportRefSlot <= Round
    <3>1. 0 <= Round
      BY <1>1, Numbers
    <3>2. \A i \in 1..n : memberStates[i].lastReportRefSlot <= Round
      BY DEF Inv, Counted, SlotsOrdered
    <3>3. z.lastReportRefSlot = 0
      OBVIOUS
    <3> HIDE DEF n, z
    <3>4. \A i \in 1..(n + 1) : i = n + 1 \/ i \in 1..n
      BY <1>1
    <3> QED BY <1>5, <3>1, <3>2, <3>3, <3>4 DEF n
  <2>2. \A i \in 1..TotalMembers' : memberStates'[i].lastReportRefSlot <= Round'
    BY <2>1, <1>5, <1>12
  <2>3. UNCHANGED lastProcessingRefSlot
    BY <1>2
  <2> QED BY <2>2, <2>3, <1>3, CheckedOrder DEF SlotsOrdered
<1>14. VotesIndexed'
  <2>1. ASSUME Round # 0, NEW i \in 1..(n + 1), memberStates'[i].lastReportRefSlot = Round
        PROVE  memberStates'[i].lastReportVariantIndex \in 1..Len(reportVariants)
    <3>1. i \in 1..n /\ memberStates'[i] = memberStates[i]
      BY <2>1, <1>1, <1>5
    <3> QED BY <2>1, <3>1 DEF VotesIndexed, Inv, Counted
  <2>2. \A i \in 1..TotalMembers' : Round' # 0 /\ memberStates'[i].lastReportRefSlot = Round' =>
          memberStates'[i].lastReportVariantIndex \in 1..Len(reportVariants')
    BY <2>1, <1>5, <1>11, <1>12
  <2> QED BY <2>2, <1>3, <1>11, <1>12 DEF VotesIndexed, ConsensusKeptInOrder
<1>15. SupportCovers'
  <2>1. ASSUME NEW v, Round # 0 PROVE Backers(v)' = Backers(v)
    BY <2>1, <1>1, <1>5, <1>12 DEF Backers
  <2> QED BY <2>1, <1>11, <1>12 DEF SupportCovers, Inv, Counted
<1>16. VariantsDistinct'
  BY <1>11 DEF VariantsDistinct, Inv, Counted
<1> QED BY <1>10, <1>11, <1>13, <1>14, <1>15, <1>16 DEF Counted

\* The last element takes the place of element i.
LEMMA SwapRemoved ==
  ASSUME NEW T, NEW s \in Seq(T), NEW i \in 1..Len(s), NEW n, n = Len(s), NEW r,
         r = SubSeq([s EXCEPT ![i] = s[n]], 1, n - 1)
  PROVE  /\ r \in Seq(T) /\ Len(r) = n - 1
         /\ \A j \in 1..(n - 1) : (j = i => r[j] = s[n]) /\ (j # i => r[j] = s[j])
<1> DEFINE t == [s EXCEPT ![i] = s[n]]
<1>1. n \in Nat /\ n # 0 /\ i \in 1..n /\ s[n] \in T
  OBVIOUS
<1>2. t \in Seq(T) /\ Len(t) = n
  BY <1>1
<1>3. \A j \in 1..n : (j = i => t[j] = s[n]) /\ (j # i => t[j] = s[j])
  BY <1>1
<1> HIDE DEF t
<1>4. r = SubSeq(t, 1, n - 1)
  BY DEF t
<1>5. r \in Seq(T) /\ Len(r) = n - 1 /\ \A j \in 1..(n - 1) : r[j] = t[j]
  BY <1>1, <1>2, <1>4
<1> QED BY <1>1, <1>3, <1>5

\* The vote of member i is taken back from the variant it is for, and only there.
LEMMA VoteTakenBack ==
  ASSUME Inv, NEW i \in 1..TotalMembers, NEW m, m = memberStates[i],
         m.lastReportRefSlot > 0 => InitialEpochArrived,
         NEW variants, variants = VariantsWithoutVote(m)
  PROVE  /\ variants \in Seq(Variant) /\ Len(variants) = Len(reportVariants)
         /\ \A v \in 1..Len(variants) : variants[v].hash = reportVariants[v].hash
         /\ \/ /\ m.lastReportRefSlot = Round /\ Round = RefSlot /\ Round # 0
               /\ \A v \in 1..Len(variants) :
                    /\ i \in Backers(v) => variants[v].support = reportVariants[v].support - 1
                    /\ i \notin Backers(v) => variants[v].support = reportVariants[v].support
            \/ /\ variants = reportVariants
               /\ ~(m.lastReportRefSlot > 0 /\ m.lastReportRefSlot = RefSlot /\ ~ReportProcessing)
<1>1. TypeOK /\ reportVariants \in Seq(Variant) /\ m \in MemberState
      /\ m.lastReportRefSlot \in Nat /\ Round \in Nat
      /\ m.lastReportRefSlot <= Round
  BY Numbers DEF Inv, Counted, TypeOK, Variant, SlotsOrdered
<1>2. CASE m.lastReportRefSlot > 0 /\ m.lastReportRefSlot = RefSlot /\ ~ReportProcessing
  <2> DEFINE prev == m.lastReportVariantIndex
  <2>1. InitialEpochArrived /\ RefSlot \in Nat /\ Round <= RefSlot
    BY <1>1, <1>2, FrameAroundSlot, Numbers DEF Inv, RoundArrived
  <2>2. m.lastReportRefSlot = Round /\ Round = RefSlot /\ Round # 0
    BY <1>1, <1>2, <2>1
  <2>3. prev \in 1..Len(reportVariants)
    BY <2>2 DEF Inv, Counted, VotesIndexed
  <2>4. \A v \in 1..Len(reportVariants) : i \in Backers(v) <=> v = prev
    BY <2>2 DEF Backers
  <2>5. reportVariants[prev].support - 1 \in Nat
    <3>1. i \in Backers(prev) /\ Backers(prev) \in SUBSET (1..TotalMembers)
      BY <2>3, <2>4 DEF Backers
    <3>2. IsFiniteSet(Backers(prev)) /\ Cardinality(Backers(prev)) \in Nat
      BY <1>1, <3>1, SomeMembers, Numbers
    <3>3. Cardinality(Backers(prev)) # 0
      BY <3>1, <3>2, FS_EmptySet
    <3>4. reportVariants[prev].support >= Cardinality(Backers(prev))
      BY <2>2, <2>3 DEF Inv, Counted, SupportCovers
    <3>5. reportVariants[prev].support \in Nat
      BY <1>1, <2>3, Numbers
    <3> QED BY <3>2, <3>3, <3>4, <3>5
  <2>6. variants = [reportVariants EXCEPT ![prev].support = @ - 1]
    BY <1>2 DEF VariantsWithoutVote
  <2>7. reportVariants[prev] \in Variant /\ Len(reportVariants) \in Nat
    BY <1>1, <2>3, Numbers
  <2> HIDE DEF prev
  <2>8. [reportVariants[prev] EXCEPT !.support = @ - 1] \in Variant
    BY <2>5, <2>7 DEF Variant
  <2>9. /\ variants \in Seq(Variant) /\ Len(variants) = Len(reportVariants)
        /\ variants[prev] = [reportVariants[prev] EXCEPT !.support = @ - 1]
        /\ \A v \in 1..Len(reportVariants) : v # prev => variants[v] = reportVariants[v]
    BY <1>1, <2>3, <2>6, <2>8
  <2>10. /\ variants[prev].hash = reportVariants[prev].hash
         /\ variants[prev].support = reportVariants[prev].support - 1
    BY <2>7, <2>9 DEF Variant
  <2>11. \A v \in 1..Len(variants) :
           /\ variants[v].hash = reportVariants[v].hash
           /\ v = prev => variants[v].support = reportVariants[v].support - 1
           /\ v # prev => variants[v].support = reportVariants[v].support
    BY <2>9, <2>10
  <2>12. \A v \in 1..Len(variants) : i \in Backers(v) <=> v = prev
    BY <2>4, <2>9
  <2> QED BY <2>2, <2>9, <2>11, <2>12
<1>3. CASE ~(m.lastReportRefSlot > 0 /\ m.lastReportRefSlot = RefSlot /\ ~ReportProcessing)
  BY <1>1, <1>3 DEF VariantsWithoutVote
<1> QED BY <1>2, <1>3

\* Of the votes for a variant all are still stored but the one of member i.
LEMMA BackersWithout ==
  ASSUME Inv, NEW n, n = TotalMembers, NEW i \in 1..n, TotalMembers' = n - 1, Round' = Round,
         \A j \in 1..(n - 1) : /\ j = i => memberStates'[j] = memberStates[n]
                               /\ j # i => memberStates'[j] = memberStates[j],
         NEW v
  PROVE  /\ Cardinality(Backers(v)) \in Nat
         /\ Cardinality(Backers(v)') = Cardinality(Backers(v)) - (IF i \in Backers(v) THEN 1 ELSE 0)
<1> DEFINE S == Backers(v)
<1>1. n \in Nat \ {0}
  BY Numbers DEF Inv, Counted
<1>2. S \in SUBSET (1..n)
  BY DEF Backers
<1>3. Backers(v)' = {j \in 1..(n - 1) : (j = i => n \in S) /\ (j # i => j \in S)}
  <2>1. Backers(v)' = {j \in 1..(n - 1) : /\ memberStates'[j].lastReportRefSlot = Round
                                          /\ memberStates'[j].lastReportVariantIndex = v}
    BY DEF Backers
  <2>2. \A j \in 1..(n - 1) :
          (/\ memberStates'[j].lastReportRefSlot = Round
           /\ memberStates'[j].lastReportVariantIndex = v)
          <=> (j = i => n \in S) /\ (j # i => j \in S)
    BY <1>1 DEF Backers
  <2> QED BY <2>1, <2>2
<1> HIDE DEF S
<1>4. Cardinality(Backers(v)') = Cardinality(S) - (IF i \in S THEN 1 ELSE 0)
  BY <1>1, <1>2, <1>3, SwapCount
<1>5. Cardinality(S) \in Nat
  BY <1>1, <1>2, SomeMembers
<1> QED BY <1>4, <1>5 DEF S

LEMMA RemoveMemberEffect ==
  ASSUME Inv, NEW a \in Addresses, NEW q \in Quorums, RemoveMember(a, q),
         NEW n, n = TotalMembers, NEW i, i = memberIndices1b[a],
         NEW moved, moved = memberAddresses[n],
         NEW variants, variants = VariantsWithoutVote(memberStates[i])
  PROVE  /\ n \in Nat \ {0} /\ i \in 1..n /\ memberAddresses[i] = a
         /\ memberStates[i].lastReportRefSlot > 0 => InitialEpochArrived
         /\ memberStates' \in Seq(MemberState) /\ TotalMembers' = n - 1
         /\ \A j \in 1..(n - 1) : /\ j = i => memberStates'[j] = memberStates[n]
                                  /\ j # i => memberStates'[j] = memberStates[j]
         /\ memberAddresses' \in Seq(Addresses) /\ Len(memberAddresses') = n - 1
         /\ \A j \in 1..(n - 1) : /\ j = i => memberAddresses'[j] = moved
                                  /\ j # i => memberAddresses'[j] = memberAddresses[j]
         /\ memberIndices1b' = [memberIndices1b EXCEPT ![moved] = i, ![a] = 0]
         /\ SetQuorumAndCheckConsensus(q, n - 1, variants)
         /\ UNCHANGED <<lastProcessingRefSlot, consensusVersion, slot, frameConfig,
                        reportProcessor>>
<1>1. /\ memberStates \in Seq(MemberState) /\ memberAddresses \in Seq(Addresses)
      /\ n \in Nat /\ n = Len(memberStates) /\ n = Len(memberAddresses)
  BY Numbers DEF Inv, Counted, TypeOK, MembersIndexed, TotalMembers
<1>2. /\ i # 0
      /\ memberStates[i].lastReportRefSlot > 0 => InitialEpochArrived
      /\ memberStates' = SubSeq([memberStates EXCEPT ![i] = memberStates[n]], 1, n - 1)
      /\ memberAddresses' = SubSeq([memberAddresses EXCEPT ![i] = moved], 1, n - 1)
      /\ memberIndices1b' = [memberIndices1b EXCEPT ![moved] = i, ![a] = 0]
      /\ SetQuorumAndCheckConsensus(q, n - 1, variants)
      /\ UNCHANGED <<lastProcessingRefSlot, consensusVersion, slot, frameConfig, reportProcessor>>
  BY DEF RemoveMember, IsMember, IndicesWithout
<1>3. i \in 1..n /\ memberAddresses[i] = a
  BY <1>2 DEF Inv, Counted, MembersIndexed, IsMember
<1>4. /\ memberStates' \in Seq(MemberState) /\ TotalMembers' = n - 1
      /\ \A j \in 1..(n - 1) : /\ j = i => memberStates'[j] = memberStates[n]
                               /\ j # i => memberStates'[j] = memberStates[j]
  <2>1. /\ i \in 1..Len(memberStates) /\ n = Len(memberStates)
        /\ memberStates' = SubSeq([memberStates EXCEPT ![i] = memberStates[n]], 1, n - 1)
    BY <1>1, <1>2, <1>3
  <2>2. /\ memberStates' \in Seq(MemberState) /\ Len(memberStates') = n - 1
        /\ \A j \in 1..(n - 1) : /\ j = i => memberStates'[j] = memberStates[n]
                                 /\ j # i => memberStates'[j] = memberStates[j]
    <3> DEFINE r == SubSeq([memberStates EXCEPT ![i] = memberStates[n]], 1, n - 1)
    <3>0. memberStates \in Seq(MemberState) /\ i \in 1..Len(memberStates) /\ n = Len(memberStates)
      BY <1>1, <2>1
    <3>1. /\ r \in Seq(MemberState) /\ Len(r) = n - 1
          /\ \A j \in 1..(n - 1) : /\ j = i => r[j] = memberStates[n]
                                   /\ j # i => r[j] = memberStates[j]
      BY <3>0, SwapRemoved
    <3> QED BY <3>1, <2>1
  <2> QED BY <2>2 DEF TotalMembers
<1>5. /\ memberAddresses' \in Seq(Addresses) /\ Len(memberAddresses') = n - 1
      /\ \A j \in 1..(n - 1) : /\ j = i => memberAddresses'[j] = moved
                               /\ j # i => memberAddresses'[j] = memberAddresses[j]
  <2>1. /\ i \in 1..Len(memberAddresses) /\ n = Len(memberAddresses)
        /\ memberAddresses' = SubSeq([memberAddresses EXCEPT ![i] = memberAddresses[n]], 1, n - 1)
    BY <1>1, <1>2, <1>3
  <2> QED BY <2>1, <1>1, SwapRemoved
<1>6. n \in Nat \ {0}
  BY <1>1, <1>3
<1> QED BY <1>2, <1>3, <1>4, <1>5, <1>6

LEMMA RemoveMemberCounted ==
  ASSUME Inv, NEW a \in Addresses, NEW q \in Quorums, RemoveMember(a, q)
  PROVE  Counted'
<1> DEFINE n        == TotalMembers
           i        == memberIndices1b[a]
           moved    == memberAddresses[n]
           variants == VariantsWithoutVote(memberStates[i])
<1>1. /\ TypeOK /\ MembersIndexed /\ Len(memberAddresses) = n
      /\ memberIndices1b \in [Addresses -> 0..Cardinality(Addresses)]
  BY DEF Inv, Counted, MembersIndexed, TypeOK
<1>2. /\ n \in Nat \ {0} /\ i \in 1..n /\ memberAddresses[i] = a
      /\ memberStates[i].lastReportRefSlot > 0 => InitialEpochArrived
      /\ memberStates' \in Seq(MemberState) /\ TotalMembers' = n - 1
      /\ \A j \in 1..(n - 1) : /\ j = i => memberStates'[j] = memberStates[n]
                               /\ j # i => memberStates'[j] = memberStates[j]
      /\ memberAddresses' \in Seq(Addresses) /\ Len(memberAddresses') = n - 1
      /\ \A j \in 1..(n - 1) : /\ j = i => memberAddresses'[j] = moved
                               /\ j # i => memberAddresses'[j] = memberAddresses[j]
      /\ memberIndices1b' = [memberIndices1b EXCEPT ![moved] = i, ![a] = 0]
      /\ SetQuorumAndCheckConsensus(q, n - 1, variants)
      /\ UNCHANGED <<lastProcessingRefSlot, consensusVersion, slot, frameConfig, reportProcessor>>
  BY RemoveMemberEffect
<1>3. /\ variants \in Seq(Variant) /\ Len(variants) = Len(reportVariants)
      /\ \A v \in 1..Len(variants) : variants[v].hash = reportVariants[v].hash
      /\ \/ \A v \in 1..Len(variants) :
              /\ i \in Backers(v) => variants[v].support = reportVariants[v].support - 1
              /\ i \notin Backers(v) => variants[v].support = reportVariants[v].support
         \/ variants = reportVariants
  BY <1>2, VoteTakenBack
<1> HIDE DEF n, i, moved, variants
<1>4. ConsensusKeptInOrder(variants)
  BY <1>2, <1>3, CheckedConsensus
<1>5. Round' = Round
  BY <1>4 DEF ConsensusKeptInOrder
<1>6. /\ moved \in Addresses /\ memberIndices1b[moved] = n /\ (moved = a <=> i = n)
      /\ \A j \in 1..n : memberAddresses[j] \in Addresses /\ memberIndices1b[memberAddresses[j]] = j
  <2>1. memberAddresses \in Seq(Addresses) /\ \A j \in 1..n : memberIndices1b[memberAddresses[j]] = j
    BY <1>1 DEF MembersIndexed, TypeOK, n
  <2>2. \A j \in 1..n : memberAddresses[j] \in Addresses
    BY <2>1, <1>1
  <2>3. n \in 1..n /\ moved = memberAddresses[n]
    BY <1>2 DEF moved
  <2> QED BY <2>1, <2>2, <2>3, <1>2
<1>7. \A b \in Addresses : memberIndices1b'[b] = IF b = a THEN 0
                                                 ELSE IF b = moved THEN i ELSE memberIndices1b[b]
  BY <1>1, <1>2
<1>8. memberIndices1b' \in [Addresses -> 0..Cardinality(Addresses)]
  <2>1. i \in 0..Cardinality(Addresses) /\ 0 \in 0..Cardinality(Addresses)
    BY <1>1, QuorumAssumption, FS_CardinalityType DEF i
  <2> QED BY <1>1, <1>2, <2>1
<1>9. \A j \in 1..(n - 1) : memberIndices1b'[memberAddresses'[j]] = j
  <2> SUFFICES ASSUME NEW j \in 1..(n - 1) PROVE memberIndices1b'[memberAddresses'[j]] = j
    OBVIOUS
  <2>1. CASE j = i
    <3>1. j # n
      BY <1>2
    <3>2. memberAddresses'[j] = moved
      BY <2>1, <1>2
    <3>3. moved # a /\ moved \in Addresses
      BY <2>1, <3>1, <1>6
    <3> QED BY <3>2, <3>3, <2>1, <1>7
  <2>2. CASE j # i
    <3>1. j \in 1..n /\ n \in 1..n /\ j # n
      BY <1>2
    <3>2. /\ memberAddresses'[j] = memberAddresses[j] /\ memberAddresses[j] \in Addresses
          /\ memberIndices1b[memberAddresses[j]] = j
      <4>1. memberAddresses'[j] = memberAddresses[j]
        BY <2>2, <1>2
      <4> QED BY <4>1, <3>1, <1>6
    <3>3. memberAddresses[j] # a /\ memberAddresses[j] # moved
      BY <2>2, <3>1, <3>2, <1>2, <1>6
    <3> QED BY <3>2, <3>3, <1>7
  <2> QED BY <2>1, <2>2
<1>10. ASSUME NEW b \in Addresses, memberIndices1b'[b] # 0
       PROVE  \E j \in 1..(n - 1) : j = memberIndices1b'[b] /\ memberAddresses'[j] = b
  <2>1. b # a
    BY <1>7, <1>10
  <2>2. CASE b = moved
    <3>1. i \in 1..(n - 1)
      BY <2>1, <2>2, <1>2, <1>6
    <3>2. memberIndices1b'[b] = i /\ memberAddresses'[i] = b
      BY <2>1, <2>2, <3>1, <1>2, <1>7
    <3> QED BY <3>1, <3>2
  <2>3. CASE b # moved
    <3>1. memberIndices1b[b] # 0 /\ memberIndices1b'[b] = memberIndices1b[b]
      BY <2>1, <2>3, <1>7, <1>10
    <3>2. PICK j \in 1..n : j = memberIndices1b[b] /\ memberAddresses[j] = b
      BY <3>1, <1>1 DEF MembersIndexed, IsMember, n
    <3>3. j # i /\ j # n
      BY <3>2, <2>1, <2>3, <1>2 DEF moved
    <3>4. j \in 1..(n - 1)
      BY <3>3, <1>2
    <3>5. memberAddresses'[j] = b
      BY <3>2, <3>3, <3>4, <1>2
    <3> QED BY <3>1, <3>2, <3>4, <3>5
  <2> QED BY <2>2, <2>3
<1>11. MembersIndexed'
  BY <1>2, <1>9, <1>10 DEF MembersIndexed, IsMember
<1>12. TypeOK' /\ reportVariants' = variants
  BY <1>2, <1>3, <1>4, <1>8, CheckedTypes
<1>13. SlotsOrdered'
  <2>1. ASSUME NEW j \in 1..(n - 1) PROVE memberStates'[j].lastReportRefSlot <= Round
    <3>1. j \in 1..n /\ n \in 1..n
      BY <1>2
    <3> QED BY <3>1, <1>2 DEF Inv, Counted, SlotsOrdered, n
  <2>2. \A j \in 1..TotalMembers' : memberStates'[j].lastReportRefSlot <= Round'
    BY <2>1, <1>2, <1>5
  <2>3. UNCHANGED lastProcessingRefSlot
    BY <1>2
  <2> QED BY <2>2, <2>3, <1>4, CheckedOrder DEF SlotsOrdered
<1>14. VotesIndexed'
  <2>1. ASSUME Round # 0, NEW j \in 1..(n - 1), memberStates'[j].lastReportRefSlot = Round
        PROVE  memberStates'[j].lastReportVariantIndex \in 1..Len(reportVariants)
    <3>1. j \in 1..n /\ n \in 1..n
      BY <1>2
    <3> QED BY <3>1, <2>1, <1>2 DEF Inv, Counted, VotesIndexed, n
  <2>2. \A j \in 1..TotalMembers' : Round' # 0 /\ memberStates'[j].lastReportRefSlot = Round' =>
          memberStates'[j].lastReportVariantIndex \in 1..Len(reportVariants')
    BY <2>1, <1>2, <1>3, <1>5, <1>12
  <2> QED BY <2>2, <1>4, <1>5, <1>12 DEF VotesIndexed, ConsensusKeptInOrder
<1>15. SupportCovers'
  <2>1. ASSUME Round # 0, NEW v \in 1..Len(variants)
        PROVE  variants[v].support >= Cardinality(Backers(v)')
    <3>1. /\ Cardinality(Backers(v)) \in Nat
          /\ Cardinality(Backers(v)') = Cardinality(Backers(v)) - (IF i \in Backers(v) THEN 1 ELSE 0)
      BY <1>2, <1>5, BackersWithout DEF n
    <3>2. reportVariants[v].support >= Cardinality(Backers(v)) /\ reportVariants[v].support \in Nat
      BY <2>1, <1>1, <1>3, Numbers DEF Inv, Counted, SupportCovers
    <3> QED BY <3>1, <3>2, <1>3
  <2> QED BY <2>1, <1>5, <1>12 DEF SupportCovers
<1>16. VariantsDistinct'
  BY <1>3, <1>12 DEF VariantsDistinct, Inv, Counted
<1> QED BY <1>11, <1>12, <1>13, <1>14, <1>15, <1>16 DEF Counted

LEMMA SetQuorumCounted ==
  ASSUME Inv, NEW q \in Quorums, SetQuorum(q)
  PROVE  Counted'
<1>1. /\ SetQuorumAndCheckConsensus(q, TotalMembers, reportVariants)
      /\ UNCHANGED <<lastProcessingRefSlot, consensusVersion, slot, frameConfig, memberVars,
                     reportProcessor>>
  BY DEF SetQuorum
<1>2. TypeOK /\ reportVariants \in Seq(Variant)
  BY DEF Inv, Counted, TypeOK, Variant
<1>3. ConsensusKeptInOrder(reportVariants)
  BY <1>1, <1>2, CheckedConsensus
<1>4. /\ memberStates' = memberStates /\ memberAddresses' = memberAddresses
      /\ memberIndices1b' = memberIndices1b
      /\ UNCHANGED <<lastProcessingRefSlot, consensusVersion, slot, frameConfig, reportProcessor>>
      /\ TotalMembers' = TotalMembers
  BY <1>1 DEF memberVars, TotalMembers
<1>5. TypeOK' /\ reportVariants' = reportVariants
  BY <1>1, <1>2, <1>3, <1>4, CheckedTypes DEF TypeOK
<1>6. MembersIndexed' /\ VariantsDistinct'
  BY <1>4, <1>5 DEF Inv, Counted, MembersIndexed, VariantsDistinct, IsMember
<1>7. Round' = Round
  BY <1>3 DEF ConsensusKeptInOrder
<1>8. SlotsOrdered'
  <2>1. \A i \in 1..TotalMembers' : memberStates'[i].lastReportRefSlot <= Round'
    BY <1>4, <1>7 DEF Inv, Counted, SlotsOrdered
  <2>2. UNCHANGED lastProcessingRefSlot
    BY <1>4
  <2> QED BY <2>1, <2>2, <1>3, CheckedOrder DEF SlotsOrdered
<1>9. VotesIndexed'
  BY <1>3, <1>4, <1>5, <1>7 DEF Inv, Counted, VotesIndexed, ConsensusKeptInOrder
<1>10. SupportCovers'
  <2>1. \A v : Backers(v)' = Backers(v)
    BY <1>4, <1>7 DEF Backers
  <2> QED BY <2>1, <1>5, <1>7 DEF Inv, Counted, SupportCovers
<1> QED BY <1>5, <1>6, <1>8, <1>9, <1>10 DEF Counted

\* No epoch of a slot lies beyond the epoch the constructor sets.
LEMMA EpochBeforeFar ==
  ASSUME NEW s \in Slots
  PROVE  Epoch(s) \in Nat /\ Epoch(s) <= FarFutureEpoch
<1>1. s \in Nat /\ s <= MaxSlot /\ MaxSlot \in Nat /\ SlotsPerEpoch \in Nat \ {0}
      /\ FarFutureEpoch \in Nat /\ FarFutureEpoch * SlotsPerEpoch > MaxSlot
  BY SlotAssumption, FrameAssumption DEF Slots
<1>2. Epoch(s) \in Nat /\ Epoch(s) * SlotsPerEpoch <= s
  BY <1>1, Quotient DEF Epoch
<1> DEFINE e == Epoch(s)
<1> HIDE DEF e
<1>3. e \in Nat /\ e * SlotsPerEpoch <= s
  BY <1>2 DEF e
<1>4. e * SlotsPerEpoch < FarFutureEpoch * SlotsPerEpoch + SlotsPerEpoch
  <2> DEFINE x == e * SlotsPerEpoch
             y == FarFutureEpoch * SlotsPerEpoch
  <2>1. x \in Int /\ y \in Int /\ x <= s /\ y > MaxSlot
    BY <1>1, <1>3
  <2> HIDE DEF x, y
  <2>2. x < y + SlotsPerEpoch
    BY <1>1, <2>1
  <2> QED BY <2>2 DEF x, y
<1>5. e <= FarFutureEpoch
  BY <1>1, <1>3, <1>4, FramesCompare
<1> QED BY <1>3, <1>5 DEF e

\* The members, the votes and the consensus stay: the counting stays right.
LEMMA SameCounts ==
  ASSUME Inv, TypeOK', UNCHANGED <<memberVars, consensusVars>>,
         \A p \in Processors : /\ lastProcessingRefSlot'[p] <= consensusReport'[p].refSlot
                               /\ consensusReport'[p].refSlot <= Round
  PROVE  Counted'
<1>1. /\ memberStates' = memberStates /\ memberAddresses' = memberAddresses
      /\ memberIndices1b' = memberIndices1b /\ reportVariants' = reportVariants
      /\ reportingState' = reportingState /\ TotalMembers' = TotalMembers /\ Round' = Round
  BY DEF memberVars, consensusVars, TotalMembers, Round
<1>2. MembersIndexed' /\ VariantsDistinct' /\ VotesIndexed'
  BY <1>1 DEF Inv, Counted, MembersIndexed, VariantsDistinct, VotesIndexed, IsMember
<1>3. SlotsOrdered'
  BY <1>1 DEF Inv, Counted, SlotsOrdered
<1>4. SupportCovers'
  <2>1. \A v : Backers(v)' = Backers(v)
    BY <1>1 DEF Backers
  <2> QED BY <2>1, <1>1 DEF Inv, Counted, SupportCovers
<1> QED BY <1>2, <1>3, <1>4 DEF Counted

\* A change of the frames or a slot that passes.
LEMMA FramesCounted ==
  ASSUME Inv, UNCHANGED <<oracleVars, memberVars, consensusVars, quorum, reportProcessor>>,
         slot' \in Slots,
         frameConfig' \in [initialEpoch : 1..FarFutureEpoch, epochsPerFrame : FrameSizes,
                           fastLaneLengthSlots : FastLanes]
  PROVE  Counted'
<1>1. TypeOK'
  BY DEF Inv, Counted, TypeOK, OracleTypeOK, oracleVars, memberVars, consensusVars
<1>2. \A p \in Processors : /\ lastProcessingRefSlot'[p] <= consensusReport'[p].refSlot
                            /\ consensusReport'[p].refSlot <= Round
  BY DEF Inv, Counted, SlotsOrdered, oracleVars
<1> QED BY <1>1, <1>2, SameCounts

LEMMA FrameStepCounted ==
  ASSUME Inv,
         \/ \E e \in 1..Epoch(MaxSlot) : UpdateInitialEpoch(e)
         \/ \E e \in FrameSizes, f \in FastLanes : SetFrameConfig(e, f)
         \/ \E f \in FastLanes : SetFastLaneLengthSlots(f)
         \/ Tick
  PROVE  Counted'
<1>1. /\ TypeOK /\ slot \in Slots /\ FarFutureEpoch \in Nat /\ MaxSlot \in Slots
      /\ frameConfig \in [initialEpoch : 1..FarFutureEpoch, epochsPerFrame : FrameSizes,
                          fastLaneLengthSlots : FastLanes]
  BY SlotAssumption, FrameAssumption DEF Inv, Counted, TypeOK, OracleTypeOK, Slots
<1>2. CASE \E e \in 1..Epoch(MaxSlot) : UpdateInitialEpoch(e)
  <2>1. PICK e \in 1..Epoch(MaxSlot) : UpdateInitialEpoch(e)
    BY <1>2
  <2>2. e \in 1..FarFutureEpoch
    BY <1>1, EpochBeforeFar
  <2> QED BY <2>1, <2>2, <1>1, FramesCounted DEF UpdateInitialEpoch, SetFrame
<1>3. CASE \E e \in FrameSizes, f \in FastLanes : SetFrameConfig(e, f)
  <2>1. PICK e \in FrameSizes, f \in FastLanes : SetFrameConfig(e, f)
    BY <1>3
  <2>2. InitialEpochArrived
    BY <2>1 DEF SetFrameConfig
  <2>3. FrameStartEpoch \in 1..FarFutureEpoch
    <3>1. /\ FrameStartEpoch \in Nat /\ frameConfig.initialEpoch <= FrameStartEpoch
          /\ FrameStartEpoch <= Epoch(slot) /\ Epoch(slot) \in Nat
      BY <1>1, <2>2, FrameAroundEpoch
    <3>2. Epoch(slot) <= FarFutureEpoch
      BY <1>1, EpochBeforeFar
    <3>3. frameConfig.initialEpoch \in 1..FarFutureEpoch
      BY <1>1
    <3> QED BY <1>1, <3>1, <3>2, <3>3
  <2> QED BY <2>1, <2>3, <1>1, FramesCounted DEF SetFrameConfig, SetFrame
<1>4. CASE \E f \in FastLanes : SetFastLaneLengthSlots(f)
  BY <1>1, <1>4, FramesCounted DEF SetFastLaneLengthSlots, SetFrame
<1>5. CASE Tick
  <2>1. slot' \in Slots
    BY <1>1, <1>5, SlotAssumption DEF Tick, Slots
  <2> QED BY <1>1, <1>5, <2>1, FramesCounted DEF Tick
<1> QED BY <1>2, <1>3, <1>4, <1>5

\* The steps of the processors and the move to another one.
LEMMA ProcessorStepCounted ==
  ASSUME Inv,
         \/ \E p \in Processors : SetReportProcessor(p)
         \/ \E p \in Processors, h \in Hashes : ProcessReport(p, h)
         \/ \E p \in Processors, v \in Versions : ChangeConsensusVersion(p, v)
  PROVE  Counted'
<1>1. /\ TypeOK /\ consensusReport \in [Processors -> ConsensusReport]
      /\ lastProcessingRefSlot \in [Processors -> Slots] /\ Slots \subseteq Nat
      /\ \A p \in Processors : consensusReport[p].refSlot \in Slots
      /\ \A p \in Processors : /\ lastProcessingRefSlot[p] <= consensusReport[p].refSlot
                               /\ consensusReport[p].refSlot <= Round
  BY Numbers DEF Inv, Counted, TypeOK, OracleTypeOK, SlotsOrdered, ConsensusReport
<1>2. CASE \E p \in Processors : SetReportProcessor(p)
  <2>1. PICK p \in Processors : SetReportProcessor(p)
    BY <1>2
  <2> DEFINE index == reportingState.lastConsensusVariantIndex
  <2>2. /\ reportProcessor' = p /\ InitialEpochArrived
        /\ UNCHANGED <<lastProcessingRefSlot, consensusVersion, slot, frameConfig, memberVars,
                       consensusVars, quorum>>
        /\ \/ consensusReport' = consensusReport
           \/ /\ reportingState.lastConsensusRefSlot = RefSlot
              /\ lastProcessingRefSlot[p] < RefSlot
              /\ consensusReport' = [consensusReport EXCEPT ![p] =
                   [hash |-> reportVariants[index].hash, refSlot |-> RefSlot,
                    processingDeadline |-> DeadlineSlot]]
    BY <2>1 DEF SetReportProcessor, SubmitConsensusReport
  <2>3. CASE consensusReport' = consensusReport
    <3>1. TypeOK'
      BY <1>1, <2>2, <2>3 DEF TypeOK, OracleTypeOK, memberVars, consensusVars
    <3> QED BY <1>1, <2>2, <2>3, <3>1, SameCounts
  <2>4. CASE consensusReport' # consensusReport
    <3>1. RefSlot \in Slots /\ RefSlot \in Nat /\ DeadlineSlot \in Nat
          /\ lastProcessingRefSlot[p] \in Nat /\ lastProcessingRefSlot[p] < RefSlot
      BY <1>1, <2>2, <2>4, FrameAroundSlot
    <3>2. /\ reportingState.lastConsensusRefSlot = RefSlot /\ RefSlot # 0 /\ RefSlot = Round
          /\ RefSlot <= Round
      <4>1. reportingState.lastConsensusRefSlot = RefSlot
        BY <2>2, <2>4
      <4>2. Round \in Nat /\ Round <= RefSlot /\ reportingState.lastConsensusRefSlot <= Round
        BY <1>1, <2>2, Numbers DEF Inv, Counted, SlotsOrdered, RoundArrived
      <4>3. RefSlot # 0
        BY <3>1
      <4> QED BY <3>1, <4>1, <4>2, <4>3
    <3>3. index \in 1..Len(reportVariants)
      BY <3>2 DEF Inv, Counted, VotesIndexed
    <3>4. reportVariants[index].hash \in Hashes
      BY <1>1, <3>3, Numbers
    <3>5. consensusReport' \in [Processors -> ConsensusReport]
      BY <1>1, <2>2, <2>4, <3>1, <3>4 DEF ConsensusReport
    <3>6. TypeOK'
      BY <1>1, <2>2, <3>5 DEF TypeOK, OracleTypeOK, memberVars, consensusVars
    <3>7. ASSUME NEW o \in Processors
          PROVE  /\ lastProcessingRefSlot'[o] <= consensusReport'[o].refSlot
                 /\ consensusReport'[o].refSlot <= Round
      BY <1>1, <2>2, <2>4, <3>1, <3>2
    <3> QED BY <2>2, <3>6, <3>7, SameCounts
  <2> QED BY <2>3, <2>4
<1>3. CASE \E p \in Processors, h \in Hashes : ProcessReport(p, h)
  <2>1. PICK p \in Processors, h \in Hashes : ProcessReport(p, h)
    BY <1>3
  <2>2. /\ lastProcessingRefSlot' = [lastProcessingRefSlot EXCEPT ![p] = consensusReport[p].refSlot]
        /\ UNCHANGED <<consensusReport, consensusVersion, slot, frameConfig, memberVars,
                       consensusVars, quorum, reportProcessor>>
    BY <2>1 DEF ProcessReport, StartProcessing
  <2>3. TypeOK'
    BY <1>1, <2>2 DEF TypeOK, OracleTypeOK, memberVars, consensusVars
  <2>4. ASSUME NEW o \in Processors
        PROVE  /\ lastProcessingRefSlot'[o] <= consensusReport'[o].refSlot
               /\ consensusReport'[o].refSlot <= Round
    <3>1. consensusReport[o].refSlot \in Nat
      BY <1>1
    <3>2. lastProcessingRefSlot'[o] <= consensusReport[o].refSlot
      BY <1>1, <2>2, <3>1
    <3> QED BY <1>1, <2>2, <3>2
  <2> QED BY <2>2, <2>3, <2>4, SameCounts
<1>4. CASE \E p \in Processors, v \in Versions : ChangeConsensusVersion(p, v)
  <2>1. PICK p \in Processors, v \in Versions : ChangeConsensusVersion(p, v)
    BY <1>4
  <2>2. /\ consensusVersion' = [consensusVersion EXCEPT ![p] = v]
        /\ UNCHANGED <<consensusReport, lastProcessingRefSlot, slot, frameConfig, memberVars,
                       consensusVars, quorum, reportProcessor>>
    BY <2>1 DEF ChangeConsensusVersion, SetConsensusVersion
  <2>3. TypeOK'
    <3>1. consensusVersion' \in [Processors -> Versions]
      BY <1>1, <2>2 DEF TypeOK, OracleTypeOK
    <3> QED BY <1>1, <2>2, <3>1 DEF TypeOK, OracleTypeOK, memberVars, consensusVars
  <2> QED BY <1>1, <2>2, <2>3, SameCounts
<1> QED BY <1>2, <1>3, <1>4

-----------------------------------------------------------------------------
(* A vote.                                                                 *)

\* The variants a vote is counted among: none in a frame without a report yet.
CurrentVariants == IF Round # RefSlot THEN <<>> ELSE reportVariants

Distinct(variants) ==
  \A v, w \in 1..Len(variants) : variants[v].hash = variants[w].hash => v = w

SupportOf(variants, v) == IF v <= Len(variants) THEN variants[v].support ELSE 0

\* Members vote for the current frame only if a report has arrived in it.
LEMMA VotersAreBackers ==
  ASSUME Inv, InitialEpochArrived
  PROVE  /\ RefSlot \in Nat /\ Round \in Nat /\ Round <= RefSlot
         /\ Round = RefSlot => \A v : Voters(v) = Backers(v)
         /\ Round # RefSlot => \A v : Voters(v) = {}
         /\ RefSlot # 0 => \A v : v \notin 1..Len(CurrentVariants) => Voters(v) = {}
<1>1. /\ TypeOK /\ RefSlot \in Nat /\ Round \in Nat /\ Round <= RefSlot
      /\ \A i \in 1..TotalMembers : /\ memberStates[i].lastReportRefSlot \in Nat
                                    /\ memberStates[i].lastReportRefSlot <= Round
  BY FrameAroundSlot, Numbers DEF Inv, Counted, RoundArrived, SlotsOrdered
<1>2. ASSUME Round = RefSlot, NEW v PROVE Voters(v) = Backers(v)
  BY <1>2 DEF Voters, Backers
<1>3. ASSUME Round # RefSlot, NEW v PROVE Voters(v) = {}
  <2>1. \A i \in 1..TotalMembers : memberStates[i].lastReportRefSlot # RefSlot
    BY <1>1, <1>3
  <2> QED BY <2>1 DEF Voters
<1>4. ASSUME RefSlot # 0, NEW v, v \notin 1..Len(CurrentVariants) PROVE Voters(v) = {}
  <2>1. CASE Round # RefSlot
    BY <1>3, <2>1
  <2>2. CASE Round = RefSlot
    <3>1. CurrentVariants = reportVariants
      BY <2>2 DEF CurrentVariants
    <3>2. Backers(v) = {}
      BY <1>4, <2>2, <3>1 DEF Backers, Inv, Counted, VotesIndexed
    <3> QED BY <1>2, <2>2, <3>2
  <2> QED BY <2>1, <2>2
<1> QED BY <1>1, <1>2, <1>3, <1>4

\* The variants after a vote: the member's last vote in the frame is taken back
\* and the new one counted, for a hash that may be new.
VoteCounted(i, hash, variants, index) ==
  /\ variants \in Seq(Variant) /\ Distinct(variants)
  /\ Len(variants) \in {Len(CurrentVariants), Len(CurrentVariants) + 1}
  /\ index \in 1..Len(variants)
  /\ Len(variants) # Len(CurrentVariants) => index = Len(variants)
  /\ variants[index].hash = hash
  /\ \A v \in 1..Len(CurrentVariants) : variants[v].hash = CurrentVariants[v].hash
  /\ i \notin Voters(index)
  /\ \A v \in 1..Len(variants) :
       variants[v].support = SupportOf(CurrentVariants, v) + (IF v = index THEN 1 ELSE 0)
                                                           - (IF i \in Voters(v) THEN 1 ELSE 0)

\* What follows from a vote that is counted.
VoteSettled(i, variants, index) ==
  LET state == [reportingState EXCEPT !.lastReportRefSlot = RefSlot]
  IN  \/ /\ variants[index].support >= quorum
         /\ ConsensusReached(state, variants, index)
      \/ /\ ~(variants[index].support >= quorum)
         /\ \E v \in 1..Len(CurrentVariants) :
              i \in Voters(v) /\ CurrentVariants[v].support = quorum
         /\ ConsensusNotReached(state)
      \/ /\ ~(variants[index].support >= quorum)
         /\ ~\E v \in 1..Len(CurrentVariants) :
               i \in Voters(v) /\ CurrentVariants[v].support = quorum
         /\ reportingState' = state /\ consensusReport' = consensusReport

LEMMA CurrentVariantsTyped ==
  ASSUME Inv
  PROVE  /\ CurrentVariants \in Seq(Variant) /\ Distinct(CurrentVariants)
         /\ Len(CurrentVariants) \in Nat
         /\ \A v \in 1..Len(CurrentVariants) :
              /\ CurrentVariants[v] \in Variant
              /\ CurrentVariants[v].hash \in Hashes
              /\ CurrentVariants[v].support \in Nat
<1>1. /\ reportVariants \in Seq(Variant) /\ Distinct(reportVariants)
  BY DEF Inv, Counted, TypeOK, VariantsDistinct, Distinct, Variant
<1>2. <<>> \in Seq(Variant) /\ Len(<<>>) = 0
  OBVIOUS
<1>3. Distinct(<<>>)
  BY <1>2 DEF Distinct
<1>4. CurrentVariants \in Seq(Variant) /\ Distinct(CurrentVariants)
  BY <1>1, <1>2, <1>3 DEF CurrentVariants
<1>5. Len(CurrentVariants) \in Nat /\ \A v \in 1..Len(CurrentVariants) : CurrentVariants[v] \in Variant
  BY <1>4
<1> QED BY <1>4, <1>5 DEF Variant

LEMMA ReplacedElement ==
  ASSUME NEW T, NEW s \in Seq(T), NEW i \in 1..Len(s), NEW x \in T, NEW r,
         r = [s EXCEPT ![i] = x]
  PROVE  /\ r \in Seq(T) /\ Len(r) = Len(s) /\ r[i] = x
         /\ \A j \in 1..Len(s) : j # i => r[j] = s[j]
OBVIOUS

\* The variants with the vote of member i taken back, if it has one.
ReducedVariants(i) ==
  IF memberStates[i].lastReportRefSlot = RefSlot
  THEN [CurrentVariants EXCEPT ![memberStates[i].lastReportVariantIndex].support = @ - 1]
  ELSE CurrentVariants

LEMMA VoteReduced ==
  ASSUME Inv, InitialEpochArrived, RefSlot # 0, NEW i \in 1..TotalMembers, NEW reduced,
         reduced = ReducedVariants(i)
  PROVE  /\ reduced \in Seq(Variant) /\ Len(reduced) = Len(CurrentVariants)
         /\ \A v \in 1..Len(CurrentVariants) :
              /\ reduced[v].hash = CurrentVariants[v].hash
              /\ reduced[v].support \in Nat
              /\ reduced[v].support = CurrentVariants[v].support
                                        - (IF i \in Voters(v) THEN 1 ELSE 0)
         /\ memberStates[i].lastReportRefSlot = RefSlot =>
              /\ memberStates[i].lastReportVariantIndex \in 1..Len(CurrentVariants)
              /\ Round = RefSlot
         /\ \A v : i \in Voters(v) <=> /\ memberStates[i].lastReportRefSlot = RefSlot
                                       /\ memberStates[i].lastReportVariantIndex = v
<1> DEFINE old  == CurrentVariants
           prev == memberStates[i].lastReportVariantIndex
<1>1. /\ old \in Seq(Variant) /\ Len(old) \in Nat
      /\ \A v \in 1..Len(old) : /\ old[v] \in Variant
                                /\ old[v].hash \in Hashes /\ old[v].support \in Nat
  BY CurrentVariantsTyped
<1>2. \A v : i \in Voters(v) <=> memberStates[i].lastReportRefSlot = RefSlot /\ prev = v
  BY DEF Voters
<1>3. CASE memberStates[i].lastReportRefSlot = RefSlot
  <2>1. i \in Voters(prev) /\ Round = RefSlot
    BY <1>2, <1>3, VotersAreBackers
  <2>2. old = reportVariants /\ i \in Backers(prev)
    BY <2>1, VotersAreBackers DEF CurrentVariants
  <2>3. prev \in 1..Len(old)
    BY <2>1, <2>2 DEF Backers, Inv, Counted, VotesIndexed
  <2>4. old[prev].support - 1 \in Nat
    <3>1. Backers(prev) \in SUBSET (1..TotalMembers) /\ TotalMembers \in Nat
      BY Numbers DEF Backers, Inv, Counted
    <3>2. IsFiniteSet(Backers(prev)) /\ Cardinality(Backers(prev)) \in Nat
      BY <3>1, SomeMembers
    <3>3. Cardinality(Backers(prev)) # 0
      BY <2>2, <3>2, FS_EmptySet
    <3>4. old[prev].support >= Cardinality(Backers(prev))
      BY <2>1, <2>2, <2>3 DEF Inv, Counted, SupportCovers
    <3> QED BY <1>1, <2>3, <3>2, <3>3, <3>4
  <2>5. reduced = [old EXCEPT ![prev].support = @ - 1]
    BY <1>3 DEF ReducedVariants
  <2>6. old[prev] \in Variant
    BY <1>1, <2>3
  <2>7. \A v : i \in Voters(v) <=> prev = v
    BY <1>2, <1>3
  <2> HIDE DEF old, prev
  <2>8. [old[prev] EXCEPT !.support = @ - 1] \in Variant
    BY <2>4, <2>6 DEF Variant
  <2>9. /\ reduced \in Seq(Variant) /\ Len(reduced) = Len(old)
        /\ reduced[prev] = [old[prev] EXCEPT !.support = @ - 1]
        /\ \A v \in 1..Len(old) : v # prev => reduced[v] = old[v]
    <3> DEFINE new == [old[prev] EXCEPT !.support = @ - 1]
    <3>1. new \in Variant /\ reduced = [old EXCEPT ![prev] = new]
      BY <2>5, <2>8
    <3>2. old \in Seq(Variant) /\ prev \in 1..Len(old)
      BY <1>1, <2>3
    <3> HIDE DEF new
    <3>3. /\ reduced \in Seq(Variant) /\ Len(reduced) = Len(old) /\ reduced[prev] = new
          /\ \A v \in 1..Len(old) : v # prev => reduced[v] = old[v]
      BY <3>1, <3>2, ReplacedElement
    <3> QED BY <3>3 DEF new
  <2>10. reduced[prev].hash = old[prev].hash /\ reduced[prev].support = old[prev].support - 1
    BY <2>6, <2>9 DEF Variant
  <2>11. ASSUME NEW v \in 1..Len(old)
         PROVE  /\ reduced[v].hash = old[v].hash
                /\ reduced[v].support \in Nat
                /\ reduced[v].support = old[v].support - (IF i \in Voters(v) THEN 1 ELSE 0)
    <3>1. CASE v = prev
      BY <3>1, <2>4, <2>7, <2>10
    <3>2. CASE v # prev
      <4>1. reduced[v] = old[v] /\ old[v].support \in Nat /\ i \notin Voters(v)
        BY <3>2, <1>1, <2>7, <2>9
      <4>2. old[v].support - (IF i \in Voters(v) THEN 1 ELSE 0) = old[v].support
        BY <4>1
      <4> QED BY <4>1, <4>2
    <3> QED BY <3>1, <3>2
  <2> QED BY <1>2, <2>1, <2>3, <2>9, <2>11 DEF old, prev
<1>4. CASE memberStates[i].lastReportRefSlot # RefSlot
  <2>1. reduced = old /\ \A v : i \notin Voters(v)
    BY <1>2, <1>4 DEF ReducedVariants
  <2> QED BY <1>1, <1>2, <1>4, <2>1
<1> QED BY <1>3, <1>4

LEMMA AppendedElement ==
  ASSUME NEW T, NEW s \in Seq(T), NEW n, n = Len(s), NEW x \in T, NEW r, r = Append(s, x)
  PROVE  /\ n \in Nat /\ r \in Seq(T) /\ Len(r) = n + 1 /\ r[n + 1] = x
         /\ \A j \in 1..n : r[j] = s[j]
OBVIOUS

KnownIn(old, hash) == {v \in DOMAIN old : old[v].hash = hash}

IndexFor(old, hash) ==
  IF KnownIn(old, hash) = {} THEN Len(old) + 1 ELSE Min(KnownIn(old, hash))

WithVote(old, reduced, hash) ==
  IF KnownIn(old, hash) = {} THEN Append(reduced, [hash |-> hash, support |-> 1])
  ELSE [reduced EXCEPT ![IndexFor(old, hash)].support = @ + 1]

\* Adding a vote for the variant with its hash, the only one.
LEMMA VoteAdded ==
  ASSUME NEW old \in Seq(Variant), Distinct(old), NEW hash \in Hashes,
         NEW reduced \in Seq(Variant), Len(reduced) = Len(old),
         \A v \in 1..Len(old) : reduced[v].hash = old[v].hash,
         NEW index, index = IndexFor(old, hash),
         NEW variants, variants = WithVote(old, reduced, hash)
  PROVE  /\ variants \in Seq(Variant) /\ Distinct(variants)
         /\ Len(variants) \in {Len(old), Len(old) + 1}
         /\ index \in 1..Len(variants)
         /\ Len(variants) # Len(old) => index = Len(variants)
         /\ variants[index].hash = hash
         /\ \A v \in 1..Len(old) : /\ variants[v].hash = old[v].hash
                                   /\ v # index => variants[v].support = reduced[v].support
         /\ IF index <= Len(old) THEN variants[index].support = reduced[index].support + 1
                                 ELSE variants[index].support = 1
<1> DEFINE n == Len(old)
           known == KnownIn(old, hash)
<1>1. /\ n \in Nat /\ DOMAIN old = 1..n /\ \A v \in 1..n : old[v] \in Variant
      /\ \A v \in 1..n : reduced[v] \in Variant
  OBVIOUS
<1>2. \A v \in 1..n : reduced[v].support \in Nat
  BY <1>1 DEF Variant
<1>3. CASE known = {}
  <2> DEFINE new == [hash |-> hash, support |-> 1]
  <2>1. new \in Variant /\ new.hash = hash /\ new.support = 1
    BY DEF Variant
  <2>2. index = n + 1 /\ variants = Append(reduced, new)
    BY <1>3 DEF IndexFor, WithVote
  <2>a. n = Len(reduced)
    OBVIOUS
  <2> HIDE DEF new, n
  <2>3. /\ variants \in Seq(Variant) /\ Len(variants) = n + 1 /\ variants[n + 1] = new
        /\ \A v \in 1..n : variants[v] = reduced[v]
    BY <2>a, <2>1, <2>2, AppendedElement
  <2>4. \A v \in 1..n : old[v].hash # hash
    BY <1>1, <1>3 DEF KnownIn, n
  <2>5. \A v \in 1..(n + 1) : v = n + 1 \/ v \in 1..n
    BY <1>1
  <2>6. /\ \A v \in 1..n : variants[v].hash = old[v].hash
        /\ variants[n + 1].hash = hash
    BY <2>1, <2>3 DEF n
  <2>7. Distinct(variants)
    <3>1. \A v, w \in 1..n : old[v].hash = old[w].hash => v = w
      BY DEF Distinct, n
    <3> SUFFICES ASSUME NEW v \in 1..(n + 1), NEW w \in 1..(n + 1),
                        variants[v].hash = variants[w].hash
                 PROVE  v = w
      BY <2>3 DEF Distinct
    <3> QED BY <2>4, <2>5, <2>6, <3>1
  <2>8. ~(index <= n) /\ index \in 1..Len(variants) /\ index = Len(variants)
    BY <1>1, <2>2, <2>3
  <2>9. \A v \in 1..n : v # index => variants[v].support = reduced[v].support
    BY <2>3
  <2>10. variants[index].support = 1 /\ variants[index].hash = hash
    BY <2>1, <2>2, <2>3
  <2> QED BY <2>3, <2>6, <2>7, <2>8, <2>9, <2>10 DEF n
<1>4. CASE known # {}
  <2>1. index \in known
    <3>1. known \in SUBSET Nat
      BY <1>1 DEF KnownIn
    <3> QED BY <3>1, <1>4, FirstWinner DEF IndexFor
  <2>2. index \in 1..n /\ old[index].hash = hash
    BY <2>1, <1>1 DEF KnownIn
  <2> DEFINE new == [reduced[index] EXCEPT !.support = @ + 1]
  <2>3. /\ new \in Variant /\ new.hash = reduced[index].hash
        /\ new.support = reduced[index].support + 1
    BY <1>1, <1>2, <2>2 DEF Variant
  <2>4. variants = [reduced EXCEPT ![index] = new]
    BY <1>4 DEF WithVote
  <2> HIDE DEF new
  <2>5. /\ variants \in Seq(Variant) /\ Len(variants) = n /\ variants[index] = new
        /\ \A v \in 1..n : v # index => variants[v] = reduced[v]
    BY <2>2, <2>3, <2>4, ReplacedElement
  <2>6. \A v \in 1..n : variants[v].hash = old[v].hash
    BY <2>2, <2>3, <2>5
  <2>7. Distinct(variants)
    BY <2>5, <2>6 DEF Distinct
  <2>8. variants[index].hash = hash
    BY <2>2, <2>6
  <2> QED BY <1>1, <2>2, <2>3, <2>5, <2>6, <2>7, <2>8
<1> QED BY <1>3, <1>4

\* A vote as one step.
Voted(i, hash, variants, index) ==
  /\ i \in 1..TotalMembers
  /\ InitialEpochArrived /\ RefSlot # 0 /\ ~ReportProcessing
  /\ VoteCounted(i, hash, variants, index)
  /\ VoteSettled(i, variants, index)
  /\ reportVariants' = variants
  /\ memberStates' = [memberStates EXCEPT ![i] =
       [lastReportRefSlot |-> RefSlot, lastReportVariantIndex |-> index]]
  /\ UNCHANGED <<lastProcessingRefSlot, consensusVersion, slot, frameConfig,
                 memberAddresses, memberIndices1b, quorum, reportProcessor>>

LEMMA SubmitReportVotes ==
  ASSUME Inv, NEW a \in Addresses, NEW h \in Hashes, SubmitReport(a, h)
  PROVE  \E i, variants, index : Voted(i, h, variants, index)
<1> DEFINE i        == memberIndices1b[a]
           m        == memberStates[i]
           fresh    == reportingState.lastReportRefSlot # RefSlot
           old      == IF fresh THEN <<>> ELSE reportVariants
           known    == {v \in DOMAIN old : old[v].hash = h}
           index    == IF known = {} THEN Len(old) + 1 ELSE Min(known)
           revote   == m.lastReportRefSlot = RefSlot
           prev     == m.lastReportVariantIndex
           reduced  == IF revote THEN [old EXCEPT ![prev].support = @ - 1] ELSE old
           lost     == revote /\ reduced[prev].support = quorum - 1
           variants == IF known = {} THEN Append(reduced, [hash |-> h, support |-> 1])
                       ELSE [reduced EXCEPT ![index].support = @ + 1]
           state    == [reportingState EXCEPT !.lastReportRefSlot = RefSlot]
<1>1. /\ IsMember(a) /\ InitialEpochArrived /\ RefSlot # 0 /\ ~ReportProcessing
      /\ ~(revote /\ index = prev)
      /\ reportVariants' = variants
      /\ memberStates' = [memberStates EXCEPT ![i] =
           [lastReportRefSlot |-> RefSlot, lastReportVariantIndex |-> index]]
      /\ IF variants[index].support >= quorum THEN ConsensusReached(state, variants, index)
         ELSE IF lost THEN ConsensusNotReached(state)
         ELSE reportingState' = state /\ UNCHANGED consensusReport
      /\ UNCHANGED <<lastProcessingRefSlot, consensusVersion, slot, frameConfig,
                     memberAddresses, memberIndices1b, quorum, reportProcessor>>
  BY DEF SubmitReport
<1>2. old = CurrentVariants
  BY DEF CurrentVariants, Round
<1>3. i \in 1..TotalMembers
  <2>1. IsMember(a)
    BY <1>1
  <2> HIDE DEF variants, lost, reduced, index
  <2> QED BY <2>1 DEF Inv, Counted, MembersIndexed, IsMember
<1>4. /\ old \in Seq(Variant) /\ Distinct(old) /\ Len(old) \in Nat
      /\ \A v \in 1..Len(old) : old[v].support \in Nat
  BY <1>2, CurrentVariantsTyped
<1>5. reduced = ReducedVariants(i)
  BY <1>2 DEF ReducedVariants
<1>6. state = [reportingState EXCEPT !.lastReportRefSlot = RefSlot]
  OBVIOUS
<1>7. index = IndexFor(old, h) /\ variants = WithVote(old, reduced, h)
  BY DEF IndexFor, WithVote, KnownIn
<1>8. revote <=> memberStates[i].lastReportRefSlot = RefSlot
  OBVIOUS
<1>9. prev = memberStates[i].lastReportVariantIndex
  OBVIOUS
<1>10. lost <=> revote /\ reduced[prev].support = quorum - 1
  OBVIOUS
<1> HIDE DEF old, known, index, revote, prev, reduced, lost, variants, state
<1>11. /\ reduced \in Seq(Variant) /\ Len(reduced) = Len(old)
       /\ \A v \in 1..Len(old) :
            /\ reduced[v].hash = old[v].hash
            /\ reduced[v].support \in Nat
            /\ reduced[v].support = old[v].support - (IF i \in Voters(v) THEN 1 ELSE 0)
       /\ revote => prev \in 1..Len(old)
       /\ \A v : i \in Voters(v) <=> revote /\ prev = v
  <2>1. /\ reduced \in Seq(Variant) /\ Len(reduced) = Len(CurrentVariants)
        /\ \A v \in 1..Len(CurrentVariants) :
             /\ reduced[v].hash = CurrentVariants[v].hash
             /\ reduced[v].support \in Nat
             /\ reduced[v].support = CurrentVariants[v].support
                                       - (IF i \in Voters(v) THEN 1 ELSE 0)
        /\ memberStates[i].lastReportRefSlot = RefSlot =>
             memberStates[i].lastReportVariantIndex \in 1..Len(CurrentVariants)
        /\ \A v : i \in Voters(v) <=> /\ memberStates[i].lastReportRefSlot = RefSlot
                                      /\ memberStates[i].lastReportVariantIndex = v
    BY <1>1, <1>3, <1>5, VoteReduced
  <2> QED BY <2>1, <1>2, <1>8, <1>9
<1>12. /\ variants \in Seq(Variant) /\ Distinct(variants)
       /\ Len(variants) \in {Len(old), Len(old) + 1}
       /\ index \in 1..Len(variants)
       /\ Len(variants) # Len(old) => index = Len(variants)
       /\ variants[index].hash = h
       /\ \A v \in 1..Len(old) : /\ variants[v].hash = old[v].hash
                                 /\ v # index => variants[v].support = reduced[v].support
       /\ IF index <= Len(old) THEN variants[index].support = reduced[index].support + 1
                               ELSE variants[index].support = 1
  BY <1>4, <1>7, <1>11, VoteAdded
<1>13. i \notin Voters(index)
  BY <1>1, <1>11
<1>14. ASSUME NEW v \in 1..Len(variants)
       PROVE  variants[v].support = SupportOf(old, v) + (IF v = index THEN 1 ELSE 0)
                                                      - (IF i \in Voters(v) THEN 1 ELSE 0)
  <2>1. CASE v = index /\ v <= Len(old)
    <3>1. v \in 1..Len(old)
      BY <2>1, <1>4
    <3>2. old[v].support \in Nat /\ reduced[v].support = old[v].support
      BY <3>1, <2>1, <1>4, <1>11, <1>13
    <3> QED BY <3>2, <2>1, <1>12, <1>13 DEF SupportOf
  <2>2. CASE v = index /\ ~(v <= Len(old))
    BY <2>2, <1>12, <1>13 DEF SupportOf
  <2>3. CASE v # index
    <3>1. v \in 1..Len(old) /\ v <= Len(old)
      BY <2>3, <1>4, <1>12
    <3>2. /\ variants[v].support = reduced[v].support /\ old[v].support \in Nat
          /\ reduced[v].support = old[v].support - (IF i \in Voters(v) THEN 1 ELSE 0)
      BY <3>1, <2>3, <1>4, <1>11, <1>12
    <3> QED BY <3>1, <3>2, <2>3 DEF SupportOf
  <2> QED BY <2>1, <2>2, <2>3
<1>15. VoteCounted(i, h, variants, index)
  BY <1>2, <1>12, <1>13, <1>14 DEF VoteCounted
<1>16. lost <=> \E v \in 1..Len(old) : i \in Voters(v) /\ old[v].support = quorum
  <2>1. CASE revote
    <3>1. prev \in 1..Len(old) /\ i \in Voters(prev)
      BY <2>1, <1>11
    <3>2. reduced[prev].support = old[prev].support - 1 /\ old[prev].support \in Nat
      BY <3>1, <1>4, <1>11
    <3>3. quorum \in Nat
      BY QuorumAssumption DEF Inv, Counted, TypeOK
    <3>4. lost <=> old[prev].support = quorum
      BY <2>1, <3>2, <3>3, <1>10
    <3> QED BY <2>1, <3>1, <3>4, <1>11
  <2>2. CASE ~revote
    BY <2>2, <1>10, <1>11
  <2> QED BY <2>1, <2>2
<1>17. VoteSettled(i, variants, index)
  BY <1>1, <1>2, <1>6, <1>16 DEF VoteSettled
<1>18. Voted(i, h, variants, index)
  BY <1>1, <1>3, <1>15, <1>17 DEF Voted
<1> QED BY <1>18

\* One vote more for the variant voted for, and one less for the one left.
LEMMA VotersAfter ==
  ASSUME Inv, NEW i, NEW h, NEW variants, NEW index, Voted(i, h, variants, index), NEW v
  PROVE  /\ Cardinality(Voters(v)) \in Nat
         /\ Cardinality(Voters(v)') = Cardinality(Voters(v)) + (IF v = index THEN 1 ELSE 0)
                                                   - (IF i \in Voters(v) THEN 1 ELSE 0)
         /\ RefSlot' = RefSlot /\ TotalMembers' = TotalMembers
<1>1. /\ i \in 1..TotalMembers /\ i \notin Voters(index)
      /\ memberStates' = [memberStates EXCEPT ![i] =
           [lastReportRefSlot |-> RefSlot, lastReportVariantIndex |-> index]]
      /\ UNCHANGED <<slot, frameConfig>>
  BY DEF Voted, VoteCounted
<1>2. RefSlot' = RefSlot
  BY <1>1, FrameSame
<1>3. memberStates \in Seq(MemberState) /\ TotalMembers \in Nat
  BY Numbers DEF Inv, Counted, TypeOK
<1>4. /\ TotalMembers' = TotalMembers
      /\ memberStates'[i].lastReportRefSlot = RefSlot
      /\ memberStates'[i].lastReportVariantIndex = index
      /\ \A j \in 1..TotalMembers : j # i => memberStates'[j] = memberStates[j]
  BY <1>1, <1>3 DEF TotalMembers
<1>5. Voters(v) \in SUBSET (1..TotalMembers)
  BY DEF Voters
<1>6. IsFiniteSet(Voters(v)) /\ Cardinality(Voters(v)) \in Nat
  BY <1>3, <1>5, SomeMembers
<1>7. Voters(v)' = {j \in 1..TotalMembers : /\ memberStates'[j].lastReportRefSlot = RefSlot
                                            /\ memberStates'[j].lastReportVariantIndex = v}
  BY <1>2, <1>4 DEF Voters
<1>8. CASE v = index
  <2>1. \A j \in 1..TotalMembers : j \in Voters(v)' <=> j \in Voters(v) \cup {i}
    BY <1>4, <1>7, <1>8 DEF Voters
  <2>2. Voters(v)' = Voters(v) \cup {i}
    BY <2>1, <1>1, <1>5, <1>7
  <2>3. Cardinality(Voters(v)') = Cardinality(Voters(v)) + 1
    BY <2>2, <1>1, <1>6, <1>8, FS_AddElement
  <2> QED BY <2>3, <1>1, <1>2, <1>4, <1>6, <1>8
<1>9. CASE v # index
  <2>1. \A j \in 1..TotalMembers : j \in Voters(v)' <=> j \in Voters(v) \ {i}
    BY <1>4, <1>7, <1>9 DEF Voters
  <2>2. Voters(v)' = Voters(v) \ {i}
    BY <2>1, <1>1, <1>5, <1>7
  <2>3. Cardinality(Voters(v)') = Cardinality(Voters(v)) - (IF i \in Voters(v) THEN 1 ELSE 0)
    BY <2>2, <1>6, FS_RemoveElement
  <2> QED BY <2>3, <1>2, <1>4, <1>6, <1>9
<1> QED BY <1>8, <1>9

\* The support of a variant covers, or is, its votes: so it does after the vote.
LEMMA SupportAfter ==
  ASSUME Inv, NEW i, NEW h, NEW variants, NEW index, Voted(i, h, variants, index),
         NEW v \in 1..Len(variants)
  PROVE  /\ variants[v].support \in Nat /\ SupportOf(CurrentVariants, v) \in Nat
         /\ variants[v].support - Cardinality(Voters(v)') =
              SupportOf(CurrentVariants, v) - Cardinality(Voters(v))
         /\ ~(v <= Len(CurrentVariants)) =>
              SupportOf(CurrentVariants, v) = 0 /\ Cardinality(Voters(v)) = 0
<1>1. /\ variants \in Seq(Variant) /\ InitialEpochArrived /\ RefSlot # 0
      /\ variants[v].support = SupportOf(CurrentVariants, v) + (IF v = index THEN 1 ELSE 0)
                                                            - (IF i \in Voters(v) THEN 1 ELSE 0)
  BY DEF Voted, VoteCounted
<1>2. variants[v].support \in Nat
  <2>1. variants[v] \in Variant
    BY <1>1
  <2> QED BY <2>1 DEF Variant
<1>3. Len(variants) \in Nat /\ v \in Nat \ {0} /\ Len(CurrentVariants) \in Nat
  BY <1>1, CurrentVariantsTyped
<1>4. SupportOf(CurrentVariants, v) \in Nat
  BY <1>3, CurrentVariantsTyped DEF SupportOf
<1>5. /\ Cardinality(Voters(v)) \in Nat
      /\ Cardinality(Voters(v)') = Cardinality(Voters(v)) + (IF v = index THEN 1 ELSE 0)
                                                - (IF i \in Voters(v) THEN 1 ELSE 0)
  BY VotersAfter
<1>6. ASSUME ~(v <= Len(CurrentVariants))
      PROVE  SupportOf(CurrentVariants, v) = 0 /\ Cardinality(Voters(v)) = 0
  <2>1. Voters(v) = {}
    BY <1>1, <1>3, <1>6, VotersAreBackers
  <2> QED BY <2>1, <1>6, FS_EmptySet DEF SupportOf
<1>7. variants[v].support - Cardinality(Voters(v)') =
        SupportOf(CurrentVariants, v) - Cardinality(Voters(v))
  <2> DEFINE x == SupportOf(CurrentVariants, v)
             y == Cardinality(Voters(v))
             b == IF v = index THEN 1 ELSE 0
             c == IF i \in Voters(v) THEN 1 ELSE 0
  <2>1. x \in Int /\ y \in Int /\ b \in Int /\ c \in Int
    BY <1>4, <1>5
  <2>2. variants[v].support = x + b - c /\ Cardinality(Voters(v)') = y + b - c
    BY <1>1, <1>5
  <2> HIDE DEF x, y, b, c
  <2>3. variants[v].support - Cardinality(Voters(v)') = x - y
    BY <2>1, <2>2
  <2> QED BY <2>3 DEF x, y
<1> QED BY <1>2, <1>4, <1>6, <1>7

\* The reporting state and the report the processor holds after a vote.
LEMMA VoteEffect ==
  ASSUME Inv, NEW i, NEW h, NEW variants, NEW index, Voted(i, h, variants, index)
  PROVE  /\ index \in 0..Cardinality(Hashes)
         /\ RefSlot \in Slots /\ RefSlot \in Nat
         /\ reportingState' \in State
         /\ Round' = RefSlot
         /\ reportingState'.lastConsensusRefSlot <= RefSlot
         /\ reportingState'.lastConsensusRefSlot = RefSlot =>
              reportingState'.lastConsensusVariantIndex \in 1..Len(variants)
         /\ consensusReport' \in [Processors -> ConsensusReport]
         /\ \A p \in Processors : /\ consensusReport[p].refSlot <= consensusReport'[p].refSlot
                                  /\ consensusReport'[p].refSlot <= RefSlot
<1> DEFINE state == [reportingState EXCEPT !.lastReportRefSlot = RefSlot]
<1>1. /\ InitialEpochArrived /\ RefSlot # 0 /\ VoteSettled(i, variants, index)
      /\ variants \in Seq(Variant) /\ Distinct(variants) /\ index \in 1..Len(variants)
      /\ Len(variants) \in {Len(CurrentVariants), Len(CurrentVariants) + 1}
  BY DEF Voted, VoteCounted
<1>2. TypeOK /\ RefSlot \in Slots /\ RefSlot \in Nat /\ Round \in Nat /\ Round <= RefSlot
  BY <1>1, FrameAroundSlot, VotersAreBackers DEF Inv, Counted
<1>3. index <= Cardinality(Hashes) /\ index \in 0..Cardinality(Hashes)
  <2>1. Cardinality(Hashes) \in Nat /\ Len(variants) <= Cardinality(Hashes)
    BY <1>1, VariantsBounded DEF Distinct
  <2> QED BY <2>1, <1>1
<1>4. /\ state \in State /\ state.lastReportRefSlot = RefSlot
      /\ state.lastConsensusRefSlot = reportingState.lastConsensusRefSlot
      /\ state.lastConsensusVariantIndex = reportingState.lastConsensusVariantIndex
  <2>1. reportingState \in State
    BY <1>2, Numbers
  <2> QED BY <2>1, <1>2 DEF State
<1>5. /\ consensusReport \in [Processors -> ConsensusReport] /\ reportProcessor \in Processors
      /\ reportingState.lastConsensusRefSlot \in Nat
      /\ reportingState.lastConsensusRefSlot <= RefSlot
      /\ \A p \in Processors : /\ consensusReport[p].refSlot \in Nat
                               /\ consensusReport[p].refSlot <= RefSlot
  <2>1. consensusReport \in [Processors -> ConsensusReport] /\ reportProcessor \in Processors
    BY <1>2 DEF TypeOK, OracleTypeOK
  <2>2. \A p \in Processors : consensusReport[p].refSlot \in Slots
    BY <2>1 DEF ConsensusReport
  <2>3. Slots \subseteq Nat /\ reportingState.lastConsensusRefSlot \in Slots
    BY <1>2, Numbers
  <2>4. /\ reportingState.lastConsensusRefSlot <= Round
        /\ \A p \in Processors : consensusReport[p].refSlot <= Round
    BY DEF Inv, Counted, SlotsOrdered
  <2>5. reportingState.lastConsensusRefSlot <= RefSlot
    <3>1. reportingState.lastConsensusRefSlot \in Nat /\ reportingState.lastConsensusRefSlot <= Round
      BY <2>3, <2>4
    <3> QED BY <3>1, <1>2
  <2>6. ASSUME NEW p \in Processors PROVE consensusReport[p].refSlot <= RefSlot
    <3>1. consensusReport[p].refSlot \in Nat
      BY <2>2, <2>3
    <3> QED BY <3>1, <2>4, <1>2
  <2> QED BY <2>1, <2>2, <2>3, <2>5, <2>6
<1>6. reportingState.lastConsensusRefSlot = RefSlot =>
        reportingState.lastConsensusVariantIndex \in 1..Len(variants)
  <2> SUFFICES ASSUME reportingState.lastConsensusRefSlot = RefSlot
               PROVE  reportingState.lastConsensusVariantIndex \in 1..Len(variants)
    OBVIOUS
  <2>1. Round = RefSlot
    BY <1>2 DEF Inv, Counted, SlotsOrdered
  <2>2. reportingState.lastConsensusVariantIndex \in 1..Len(CurrentVariants)
    BY <1>1, <2>1 DEF CurrentVariants, Inv, Counted, VotesIndexed
  <2> QED BY <1>1, <2>2, CurrentVariantsTyped
<1> HIDE DEF state
<1>7. CASE ConsensusReached(state, variants, index)
  <2>1. /\ reportingState' \in State
        /\ reportingState'.lastReportRefSlot = RefSlot
        /\ reportingState'.lastConsensusRefSlot = RefSlot
        /\ reportingState'.lastConsensusVariantIndex = index
        /\ consensusReport' \in [Processors -> ConsensusReport]
        /\ \/ consensusReport' = consensusReport
           \/ consensusReport' = [consensusReport EXCEPT ![reportProcessor] =
                [hash |-> variants[index].hash, refSlot |-> RefSlot,
                 processingDeadline |-> DeadlineSlot]]
    BY <1>1, <1>2, <1>3, <1>4, <1>7, ReachedEffect
  <2>2. ASSUME NEW p \in Processors
        PROVE  /\ consensusReport[p].refSlot <= consensusReport'[p].refSlot
               /\ consensusReport'[p].refSlot <= RefSlot
    <3>1. consensusReport'[p].refSlot \in {consensusReport[p].refSlot, RefSlot}
      BY <1>5, <2>1
    <3> QED BY <3>1, <1>2, <1>5
  <2> QED BY <1>1, <1>2, <1>3, <2>1, <2>2 DEF Round
<1>8. CASE ConsensusNotReached(state)
  <2>1. /\ reportingState' \in State
        /\ reportingState'.lastReportRefSlot = RefSlot
        /\ consensusReport' \in [Processors -> ConsensusReport]
        /\ \/ reportingState' = state /\ state.lastConsensusRefSlot # RefSlot
           \/ reportingState' = [state EXCEPT !.lastConsensusRefSlot = 0]
        /\ \/ consensusReport' = consensusReport
           \/ consensusReport' = [consensusReport EXCEPT ![reportProcessor].hash = ZeroHash]
    BY <1>1, <1>2, <1>4, <1>8, NotReachedEffect
  <2>2. /\ reportingState'.lastConsensusRefSlot <= RefSlot
        /\ reportingState'.lastConsensusRefSlot # RefSlot
    BY <1>1, <1>2, <1>4, <1>5, <2>1 DEF State
  <2>3. ASSUME NEW p \in Processors
        PROVE  /\ consensusReport[p].refSlot <= consensusReport'[p].refSlot
               /\ consensusReport'[p].refSlot <= RefSlot
    <3>1. consensusReport'[p].refSlot = consensusReport[p].refSlot
      BY <1>5, <2>1 DEF ConsensusReport
    <3> QED BY <3>1, <1>2, <1>5
  <2> QED BY <1>2, <1>3, <2>1, <2>2, <2>3 DEF Round
<1>9. CASE reportingState' = state /\ consensusReport' = consensusReport
  <2>1. ASSUME NEW p \in Processors
        PROVE  consensusReport[p].refSlot <= consensusReport'[p].refSlot
    BY <1>5, <1>9
  <2> QED BY <1>2, <1>3, <1>4, <1>5, <1>6, <1>9, <2>1 DEF Round
<1> QED BY <1>1, <1>7, <1>8, <1>9 DEF VoteSettled, state

LEMMA SubmitReportCounted ==
  ASSUME Inv, NEW a \in Addresses, NEW h \in Hashes, SubmitReport(a, h)
  PROVE  Counted' /\ RoundArrived'
<1>1. PICK i, variants, index : Voted(i, h, variants, index)
  BY SubmitReportVotes
<1>2. /\ index \in 0..Cardinality(Hashes)
      /\ RefSlot \in Slots /\ RefSlot \in Nat
      /\ reportingState' \in State
      /\ Round' = RefSlot
      /\ reportingState'.lastConsensusRefSlot <= RefSlot
      /\ reportingState'.lastConsensusRefSlot = RefSlot =>
           reportingState'.lastConsensusVariantIndex \in 1..Len(variants)
      /\ consensusReport' \in [Processors -> ConsensusReport]
      /\ \A p \in Processors : /\ consensusReport[p].refSlot <= consensusReport'[p].refSlot
                               /\ consensusReport'[p].refSlot <= RefSlot
  BY <1>1, VoteEffect
<1>3. /\ i \in 1..TotalMembers /\ InitialEpochArrived
      /\ variants \in Seq(Variant) /\ Distinct(variants) /\ index \in 1..Len(variants)
      /\ Len(variants) \in {Len(CurrentVariants), Len(CurrentVariants) + 1}
      /\ reportVariants' = variants
      /\ memberStates' = [memberStates EXCEPT ![i] =
           [lastReportRefSlot |-> RefSlot, lastReportVariantIndex |-> index]]
      /\ UNCHANGED <<lastProcessingRefSlot, consensusVersion, slot, frameConfig,
                     memberAddresses, memberIndices1b, quorum, reportProcessor>>
  BY <1>1 DEF Voted, VoteCounted
<1>4. TypeOK /\ memberStates \in Seq(MemberState) /\ TotalMembers \in Nat
  BY Numbers DEF Inv, Counted, TypeOK
<1>5. /\ RefSlot' = RefSlot /\ (InitialEpochArrived' <=> InitialEpochArrived)
  BY <1>3, FrameSame
<1>6. /\ memberStates' \in Seq(MemberState) /\ TotalMembers' = TotalMembers
      /\ memberStates'[i] = [lastReportRefSlot |-> RefSlot, lastReportVariantIndex |-> index]
      /\ \A j \in 1..TotalMembers : j # i => memberStates'[j] = memberStates[j]
  <2> DEFINE new == [lastReportRefSlot |-> RefSlot, lastReportVariantIndex |-> index]
  <2>1. new \in MemberState
    BY <1>2 DEF MemberState
  <2>2. i \in 1..Len(memberStates) /\ memberStates' = [memberStates EXCEPT ![i] = new]
    BY <1>3 DEF TotalMembers
  <2> HIDE DEF new
  <2>3. /\ memberStates' \in Seq(MemberState) /\ Len(memberStates') = Len(memberStates)
        /\ memberStates'[i] = new
        /\ \A j \in 1..Len(memberStates) : j # i => memberStates'[j] = memberStates[j]
    BY <1>4, <2>1, <2>2, ReplacedElement
  <2> QED BY <2>3 DEF TotalMembers, new
<1>7. TypeOK'
  BY <1>2, <1>3, <1>4, <1>6 DEF TypeOK, OracleTypeOK, State, Variant
<1>8. MembersIndexed'
  BY <1>3, <1>6 DEF MembersIndexed, IsMember, Inv, Counted
<1>9. VariantsDistinct'
  BY <1>3 DEF VariantsDistinct, Distinct
<1>10. SlotsOrdered'
  <2>1. ASSUME NEW p \in Processors
        PROVE  lastProcessingRefSlot[p] <= consensusReport'[p].refSlot
    <3>1. /\ lastProcessingRefSlot[p] <= consensusReport[p].refSlot
          /\ consensusReport[p].refSlot <= consensusReport'[p].refSlot
      BY <1>2 DEF Inv, Counted, SlotsOrdered
    <3>2. /\ lastProcessingRefSlot[p] \in Slots /\ consensusReport[p].refSlot \in Slots
          /\ consensusReport'[p].refSlot \in Slots
      BY <1>2, <1>4 DEF TypeOK, OracleTypeOK, ConsensusReport
    <3> QED BY <3>1, <3>2 DEF Slots
  <2>2. ASSUME NEW j \in 1..TotalMembers
        PROVE  memberStates'[j].lastReportRefSlot <= RefSlot
    <3>1. CASE j = i
      BY <3>1, <1>2, <1>6
    <3>2. CASE j # i
      <4>1. memberStates[j].lastReportRefSlot <= Round /\ Round <= RefSlot /\ Round \in Nat
        BY <1>3, VotersAreBackers DEF Inv, Counted, SlotsOrdered
      <4>2. memberStates[j].lastReportRefSlot \in Nat
        BY <1>4, Numbers
      <4> QED BY <4>1, <4>2, <3>2, <1>2, <1>6
    <3> QED BY <3>1, <3>2
  <2> QED BY <2>1, <2>2, <1>2, <1>3, <1>6 DEF SlotsOrdered
<1>11. VotesIndexed'
  <2>1. ASSUME NEW j \in 1..TotalMembers, Round' # 0,
               memberStates'[j].lastReportRefSlot = RefSlot
        PROVE  memberStates'[j].lastReportVariantIndex \in 1..Len(variants)
    <3>1. CASE j = i
      BY <3>1, <1>3, <1>6
    <3>2. CASE j # i
      <4>1. j \in Voters(memberStates[j].lastReportVariantIndex) /\ memberStates'[j] = memberStates[j]
        BY <3>2, <2>1, <1>6 DEF Voters
      <4>2. memberStates[j].lastReportVariantIndex \in 1..Len(CurrentVariants)
        BY <4>1, <2>1, <1>2, <1>3, VotersAreBackers
      <4> QED BY <4>1, <4>2, <1>3, CurrentVariantsTyped
    <3> QED BY <3>1, <3>2
  <2> QED BY <2>1, <1>2, <1>3, <1>6 DEF VotesIndexed
<1>12. SupportCovers'
  <2>1. ASSUME NEW v \in 1..Len(variants)
        PROVE  variants[v].support >= Cardinality(Backers(v)')
    <3>1. Backers(v)' = Voters(v)'
      BY <1>2, <1>5 DEF Backers, Voters
    <3>2. /\ variants[v].support \in Nat /\ SupportOf(CurrentVariants, v) \in Nat
          /\ variants[v].support - Cardinality(Voters(v)') =
               SupportOf(CurrentVariants, v) - Cardinality(Voters(v))
          /\ ~(v <= Len(CurrentVariants)) =>
               SupportOf(CurrentVariants, v) = 0 /\ Cardinality(Voters(v)) = 0
      BY <1>1, SupportAfter
    <3>3. Cardinality(Voters(v)) \in Nat /\ Cardinality(Voters(v)') \in Nat
      <4>1. Voters(v) \in SUBSET (1..TotalMembers) /\ Voters(v)' \in SUBSET (1..TotalMembers)
        BY <1>6 DEF Voters
      <4> QED BY <4>1, <1>4, SomeMembers
    <3>4. SupportOf(CurrentVariants, v) >= Cardinality(Voters(v))
      <4>1. CASE ~(v <= Len(CurrentVariants))
        BY <4>1, <3>2
      <4>2. CASE v <= Len(CurrentVariants) /\ Round = RefSlot
        <5>1. CurrentVariants = reportVariants /\ v \in 1..Len(reportVariants) /\ Round # 0
          BY <4>2, <1>1, <1>3, CurrentVariantsTyped DEF CurrentVariants, Voted
        <5>2. Voters(v) = Backers(v)
          BY <4>2, <1>3, VotersAreBackers
        <5> QED BY <4>2, <5>1, <5>2 DEF Inv, Counted, SupportCovers, SupportOf
      <4>3. CASE Round # RefSlot
        <5>1. Voters(v) = {}
          BY <4>3, <1>3, VotersAreBackers
        <5> QED BY <5>1, <3>2, FS_EmptySet
      <4> QED BY <4>1, <4>2, <4>3
    <3> QED BY <3>1, <3>2, <3>3, <3>4
  <2> QED BY <2>1, <1>3 DEF SupportCovers
<1>13. RoundArrived'
  BY <1>2, <1>3, <1>5 DEF RoundArrived
<1> QED BY <1>7, <1>8, <1>9, <1>10, <1>11, <1>12, <1>13 DEF Counted

-----------------------------------------------------------------------------
(* The theorems.                                                           *)

LEMMA InitInv == Init => Inv
<1> SUFFICES ASSUME Init PROVE Inv
  OBVIOUS
<1>1. /\ memberStates = <<>> /\ memberAddresses = <<>> /\ reportVariants = <<>>
      /\ memberIndices1b = [a \in Addresses |-> 0]
      /\ reportingState = [lastReportRefSlot |-> 0, lastConsensusRefSlot |-> 0,
                           lastConsensusVariantIndex |-> 0]
      /\ quorum = 0 /\ slot = 0 /\ reportProcessor \in Processors
      /\ consensusReport = [p \in Processors |->
           [hash |-> ZeroHash, refSlot |-> 0, processingDeadline |-> 0]]
      /\ lastProcessingRefSlot = [p \in Processors |-> 0]
      /\ consensusVersion \in [Processors -> Versions]
  BY DEF Init, OracleInit
<1>2. PICK e \in FrameSizes, f \in FastLanes :
        frameConfig = [initialEpoch |-> FarFutureEpoch, epochsPerFrame |-> e,
                       fastLaneLengthSlots |-> f]
  BY DEF Init
<1>3. 0 \in Slots /\ Cardinality(Hashes) \in Nat /\ Cardinality(Addresses) \in Nat
  BY SlotAssumption, ReportsAssumption, QuorumAssumption, FS_CardinalityType DEF Slots
<1>4. FarFutureEpoch \in 1..FarFutureEpoch
  <2>1. FarFutureEpoch # 0
    BY SlotAssumption, FrameAssumption
  <2> QED BY <2>1, FrameAssumption
<1>5. OracleTypeOK
  BY <1>1, <1>3 DEF OracleTypeOK, ConsensusReport
<1>6. TypeOK
  BY <1>1, <1>2, <1>3, <1>4, <1>5 DEF TypeOK
<1>7. TotalMembers = 0 /\ Len(memberAddresses) = 0 /\ Len(reportVariants) = 0 /\ Round = 0
  BY <1>1 DEF TotalMembers, Round
<1>8. MembersIndexed /\ VariantsDistinct /\ VotesIndexed /\ SupportCovers
  BY <1>1, <1>7 DEF MembersIndexed, IsMember, VariantsDistinct, VotesIndexed, SupportCovers
<1>9. SlotsOrdered
  BY <1>1, <1>7 DEF SlotsOrdered
<1>10. RoundArrived
  BY <1>3, <1>6, <1>7, FrameAroundSlot DEF RoundArrived, Slots
<1> QED BY <1>6, <1>8, <1>9, <1>10 DEF Inv, Counted

\* What a step leaves alone when it is no vote.
LEMMA RoundKept ==
  ASSUME Inv, Next, Counted', Round' = Round
  PROVE  RoundArrived'
<1>1. TypeOK /\ TypeOK' /\ RoundArrived /\ Round \in Nat /\ Slots \subseteq Nat
  BY Numbers DEF Inv, Counted
<1>2. CASE ~InitialEpochArrived
  <2>1. Round = 0
    BY <1>1, <1>2 DEF RoundArrived
  <2>2. ASSUME InitialEpochArrived' PROVE Round' <= RefSlot'
    <3>1. RefSlot' \in Slots
      BY <1>1, <2>2, FrameAroundSlotNext
    <3>2. RefSlot' \in Nat
      BY <3>1, SlotAssumption DEF Slots
    <3> QED BY <2>1, <3>2
  <2> QED BY <2>1, <2>2 DEF RoundArrived
<1>3. CASE InitialEpochArrived
  <2>1. /\ InitialEpochArrived'
        /\ \/ RefSlot' = RefSlot
           \/ RefSlot' >= RefSlot + SlotsPerEpoch * Min({frameConfig.epochsPerFrame,
                                                         frameConfig'.epochsPerFrame})
    BY <1>1, <1>3, FrameMoves
  <2>2. RefSlot \in Nat /\ RefSlot' \in Nat /\ Round <= RefSlot
    BY <1>1, <1>3, <2>1, FrameAroundSlot, FrameAroundSlotNext, SlotAssumption
    DEF Slots, RoundArrived
  <2>3. RefSlot <= RefSlot'
    <3> DEFINE least == Min({frameConfig.epochsPerFrame, frameConfig'.epochsPerFrame})
    <3>1. least \in Nat
      <4>1. frameConfig.epochsPerFrame \in Nat /\ frameConfig'.epochsPerFrame \in Nat
        BY <1>1, FrameAssumption DEF TypeOK
      <4> DEFINE a == frameConfig.epochsPerFrame
                 b == frameConfig'.epochsPerFrame
      <4>2. a \in Nat /\ b \in Nat /\ least = Min({a, b})
        BY <4>1
      <4> HIDE DEF a, b, least
      <4> QED BY <4>2, MinOfTwo
    <3> HIDE DEF least
    <3>2. SlotsPerEpoch * least \in Nat
      BY <3>1, FrameAssumption
    <3>3. RefSlot' = RefSlot \/ RefSlot' >= RefSlot + SlotsPerEpoch * least
      BY <2>1 DEF least
    <3> QED BY <2>2, <3>2, <3>3
  <2> QED BY <1>1, <2>1, <2>2, <2>3 DEF RoundArrived
<1> QED BY <1>2, <1>3

LEMMA NextInv == ASSUME Inv, Next PROVE Inv'
<1>1. CASE \E a \in Addresses, h \in Hashes : SubmitReport(a, h)
  BY <1>1, SubmitReportCounted DEF Inv
<1>2. ASSUME Counted', Round' = Round PROVE Inv'
  BY <1>2, RoundKept DEF Inv
<1>3. CASE \E a \in Addresses, q \in Quorums : AddMember(a, q)
  <2>1. PICK a \in Addresses, q \in Quorums : AddMember(a, q)
    BY <1>3
  <2>2. Counted'
    BY <2>1, AddMemberCounted
  <2>3. SetQuorumAndCheckConsensus(q, TotalMembers + 1, reportVariants)
    BY <2>1 DEF AddMember
  <2>4. ConsensusKeptInOrder(reportVariants)
    BY <2>3, CheckedConsensus DEF Inv, Counted, TypeOK, Variant
  <2> QED BY <1>2, <2>2, <2>4 DEF ConsensusKeptInOrder
<1>4. CASE \E a \in Addresses, q \in Quorums : RemoveMember(a, q)
  <2>1. PICK a \in Addresses, q \in Quorums : RemoveMember(a, q)
    BY <1>4
  <2>2. Counted'
    BY <2>1, RemoveMemberCounted
  <2>3. PICK variants : SetQuorumAndCheckConsensus(q, TotalMembers - 1, variants)
                        /\ variants = VariantsWithoutVote(memberStates[memberIndices1b[a]])
    BY <2>1 DEF RemoveMember
  <2>4. /\ memberIndices1b[a] \in 1..TotalMembers
        /\ memberStates[memberIndices1b[a]].lastReportRefSlot > 0 => InitialEpochArrived
    BY <2>1, RemoveMemberEffect
  <2>5. /\ variants \in Seq(Variant) /\ Len(variants) = Len(reportVariants)
        /\ \A v \in 1..Len(variants) : variants[v].hash = reportVariants[v].hash
    BY <2>3, <2>4, VoteTakenBack
  <2>6. ConsensusKeptInOrder(variants)
    BY <2>3, <2>5, CheckedConsensus
  <2> QED BY <1>2, <2>2, <2>6 DEF ConsensusKeptInOrder
<1>5. CASE \E q \in Quorums : SetQuorum(q)
  <2>1. PICK q \in Quorums : SetQuorum(q)
    BY <1>5
  <2>2. Counted'
    BY <2>1, SetQuorumCounted
  <2>3. SetQuorumAndCheckConsensus(q, TotalMembers, reportVariants)
    BY <2>1 DEF SetQuorum
  <2>4. ConsensusKeptInOrder(reportVariants)
    BY <2>3, CheckedConsensus DEF Inv, Counted, TypeOK, Variant
  <2> QED BY <1>2, <2>2, <2>4 DEF ConsensusKeptInOrder
<1>6. CASE \/ \E e \in 1..Epoch(MaxSlot) : UpdateInitialEpoch(e)
           \/ \E e \in FrameSizes, f \in FastLanes : SetFrameConfig(e, f)
           \/ \E f \in FastLanes : SetFastLaneLengthSlots(f)
           \/ Tick
  <2>1. Counted'
    BY <1>6, FrameStepCounted
  <2>2. Round' = Round
    BY <1>6 DEF UpdateInitialEpoch, SetFrameConfig, SetFastLaneLengthSlots, SetFrame, Tick,
                consensusVars, Round
  <2> QED BY <1>2, <2>1, <2>2
<1>7. CASE \/ \E p \in Processors : SetReportProcessor(p)
           \/ \E p \in Processors, h \in Hashes : ProcessReport(p, h)
           \/ \E p \in Processors, v \in Versions : ChangeConsensusVersion(p, v)
  <2>1. Counted'
    BY <1>7, ProcessorStepCounted
  <2>2. Round' = Round
    BY <1>7 DEF SetReportProcessor, ProcessReport, ChangeConsensusVersion, consensusVars, Round
  <2> QED BY <1>2, <2>1, <2>2
<1> QED BY <1>1, <1>3, <1>4, <1>5, <1>6, <1>7 DEF Next

LEMMA StutterInv == ASSUME Inv, UNCHANGED vars PROVE Inv'
<1>1. /\ UNCHANGED <<consensusReport, lastProcessingRefSlot, consensusVersion, slot, frameConfig,
                     memberStates, memberAddresses, memberIndices1b, reportingState,
                     reportVariants, quorum, reportProcessor>>
  BY DEF vars, oracleVars, memberVars, consensusVars
<1>2. TypeOK'
  BY <1>1 DEF Inv, Counted, TypeOK, OracleTypeOK
<1>3. UNCHANGED <<memberVars, consensusVars>>
  BY <1>1 DEF memberVars, consensusVars
<1>4. \A p \in Processors : /\ lastProcessingRefSlot'[p] <= consensusReport'[p].refSlot
                            /\ consensusReport'[p].refSlot <= Round
  BY <1>1 DEF Inv, Counted, SlotsOrdered
<1>5. Counted'
  BY <1>2, <1>3, <1>4, SameCounts
<1>6. RoundArrived'
  BY <1>1, FrameSame DEF Inv, RoundArrived, Round
<1> QED BY <1>5, <1>6 DEF Inv

THEOREM Invariance == Spec => []Inv
<1>1. Inv /\ [Next]_vars => Inv'
  BY NextInv, StutterInv
<1> QED BY InitInv, <1>1, PTL DEF Spec

\* Every variable keeps its type and the index map of the members stays in step with
\* the two arrays, through every order of addMember and the swap of removeMember.
THEOREM MembersStayIndexed == Spec => []WellFormed
<1>1. Inv => WellFormed
  BY DEF Inv, Counted, WellFormed
<1> QED BY Invariance, <1>1, PTL

\* SubmitConsensusReport and DiscardConsensusReport never revert under these calls:
\* the processor accepts what HashConsensus pushes, whatever the committee did.
THEOREM ProcessorNeverRefuses == Spec => []ProcessorAccepts
<1>1. Inv => ProcessorAccepts
  <2> SUFFICES ASSUME Inv, InitialEpochArrived, ~ReportProcessing
               PROVE  /\ consensusReport[reportProcessor].refSlot <= RefSlot
                      /\ slot <= DeadlineSlot
    BY DEF ProcessorAccepts
  <2>1. RefSlot \in Nat /\ slot <= DeadlineSlot /\ Round \in Nat /\ Round <= RefSlot
    BY FrameAroundSlot, VotersAreBackers DEF Inv, Counted
  <2>2. /\ consensusReport[reportProcessor].refSlot <= Round
        /\ consensusReport[reportProcessor].refSlot \in Slots
    BY DEF Inv, Counted, SlotsOrdered, TypeOK, OracleTypeOK, ConsensusReport
  <2>3. consensusReport[reportProcessor].refSlot \in Nat
    BY <2>2, SlotAssumption DEF Slots
  <2> QED BY <2>1, <2>2, <2>3
<1> QED BY Invariance, <1>1, PTL

\* Neither time nor a new frame size or start takes the reference slot back, and a
\* frame that is left has lasted as long as the smaller of the two frame sizes.
THEOREM ReferenceSlotAdvances == Spec => RefSlotAdvances
<1>1. ASSUME Inv, Inv', [Next]_vars PROVE Advances
  <2>1. TypeOK /\ TypeOK'
    BY <1>1 DEF Inv, Counted
  <2>2. CASE Next
    BY <2>1, <2>2, FrameMoves DEF Advances
  <2>3. CASE UNCHANGED vars
    BY <2>3, FrameSame DEF Advances, vars
  <2> QED BY <1>1, <2>2, <2>3
<1>2. Inv /\ Inv' /\ [Next]_vars => [Advances]_vars
  BY <1>1
<1>3. Spec => [][Advances]_vars
  BY Invariance, <1>2, PTL DEF Spec
<1> QED BY <1>3 DEF RefSlotAdvances, Advances

\* What ProcessedReportFixed says of one step.
KeepsProcessed ==
  \A p \in Processors :
    consensusReport[p].refSlot = lastProcessingRefSlot[p] =>
      \/ consensusReport'[p] = consensusReport[p]
      \/ consensusReport'[p].refSlot > consensusReport[p].refSlot

\* A report that replaces another, or a discarded one, is not being processed.
LEMMA PushKeepsProcessed ==
  ASSUME TypeOK, InitialEpochArrived, NEW state, NEW variants, NEW index,
         \/ ConsensusReached(state, variants, index)
         \/ ConsensusNotReached(state)
         \/ UNCHANGED consensusReport
  PROVE  KeepsProcessed
<1>1. /\ consensusReport \in [Processors -> ConsensusReport] /\ reportProcessor \in Processors
      /\ RefSlot \in Nat
      /\ consensusReport[reportProcessor].refSlot \in Slots
      /\ lastProcessingRefSlot[reportProcessor] \in Slots
  BY FrameAroundSlot, SlotAssumption DEF TypeOK, OracleTypeOK, ConsensusReport, Slots
<1>2. /\ consensusReport[reportProcessor].refSlot \in Nat
      /\ lastProcessingRefSlot[reportProcessor] \in Nat
  BY <1>1, SlotAssumption DEF Slots
<1>3. CASE UNCHANGED consensusReport
  BY <1>3 DEF KeepsProcessed
<1>4. CASE SubmitConsensusReport(reportProcessor, variants[index].hash, RefSlot, DeadlineSlot)
  <2>1. /\ RefSlot > lastProcessingRefSlot[reportProcessor]
        /\ consensusReport'[reportProcessor].refSlot = RefSlot
        /\ \A p \in Processors : p # reportProcessor => consensusReport'[p] = consensusReport[p]
    BY <1>1, <1>4 DEF SubmitConsensusReport
  <2> QED BY <2>1, <1>2 DEF KeepsProcessed
<1>5. CASE DiscardConsensusReport(reportProcessor, RefSlot)
  <2>1. CASE RefSlot > consensusReport[reportProcessor].refSlot
    BY <1>5, <2>1, <1>3 DEF DiscardConsensusReport
  <2>2. CASE ~(RefSlot > consensusReport[reportProcessor].refSlot)
    <3>1. /\ RefSlot >= consensusReport[reportProcessor].refSlot
          /\ RefSlot > lastProcessingRefSlot[reportProcessor]
          /\ \A p \in Processors : p # reportProcessor => consensusReport'[p] = consensusReport[p]
      BY <1>1, <1>5, <2>2 DEF DiscardConsensusReport
    <3>2. consensusReport[reportProcessor].refSlot # lastProcessingRefSlot[reportProcessor]
      BY <1>1, <1>2, <2>2, <3>1
    <3> QED BY <3>1, <3>2 DEF KeepsProcessed
  <2> QED BY <2>1, <2>2
<1> QED BY <1>3, <1>4, <1>5 DEF ConsensusReached, ConsensusNotReached

LEMMA CheckKeepsProcessed ==
  ASSUME TypeOK, NEW q, NEW total, NEW variants, SetQuorumAndCheckConsensus(q, total, variants)
  PROVE  KeepsProcessed
<1>1. CASE UNCHANGED consensusReport
  BY <1>1 DEF KeepsProcessed
<1>2. CASE /\ InitialEpochArrived
           /\ \/ \E index : ConsensusReached(reportingState, variants, index)
              \/ ConsensusNotReached(reportingState)
  BY <1>2, PushKeepsProcessed
<1> QED BY <1>1, <1>2 DEF SetQuorumAndCheckConsensus

\* A report whose processing has begun is neither replaced by another for its slot nor
\* discarded: not by votes, members, quorums, nor by moving to its processor and back.
THEOREM ProcessedReportStays == Spec => ProcessedReportFixed
<1>1. ASSUME Inv, Next PROVE KeepsProcessed
  <2>1. TypeOK
    BY <1>1 DEF Inv, Counted
  <2>2. CASE UNCHANGED consensusReport
    BY <2>2 DEF KeepsProcessed
  <2>3. CASE \E a \in Addresses, q \in Quorums : AddMember(a, q)
    BY <2>1, <2>3, CheckKeepsProcessed DEF AddMember
  <2>4. CASE \E a \in Addresses, q \in Quorums : RemoveMember(a, q)
    BY <2>1, <2>4, CheckKeepsProcessed DEF RemoveMember
  <2>5. CASE \E q \in Quorums : SetQuorum(q)
    BY <2>1, <2>5, CheckKeepsProcessed DEF SetQuorum
  <2>6. CASE \E a \in Addresses, h \in Hashes : SubmitReport(a, h)
    <3>1. PICK a \in Addresses, h \in Hashes : SubmitReport(a, h)
      BY <2>6
    <3>2. PICK i, variants, index : Voted(i, h, variants, index)
      BY <1>1, <3>1, SubmitReportVotes
    <3> QED BY <2>1, <3>2, PushKeepsProcessed DEF Voted, VoteSettled
  <2>7. CASE \E p \in Processors : SetReportProcessor(p)
    <3>1. PICK p \in Processors : SetReportProcessor(p)
      BY <2>7
    <3>2. CASE /\ InitialEpochArrived
               /\ SubmitConsensusReport(p,
                    reportVariants[reportingState.lastConsensusVariantIndex].hash,
                    RefSlot, DeadlineSlot)
      <4>1. consensusReport \in [Processors -> ConsensusReport]
        BY <2>1 DEF TypeOK, OracleTypeOK
      <4>2. /\ RefSlot > lastProcessingRefSlot[p]
            /\ consensusReport'[p].refSlot = RefSlot
            /\ \A o \in Processors : o # p => consensusReport'[o] = consensusReport[o]
        BY <3>2, <4>1 DEF SubmitConsensusReport
      <4> QED BY <4>2 DEF KeepsProcessed
    <3> QED BY <3>1, <3>2, <2>2 DEF SetReportProcessor
  <2>8. CASE \/ \E e \in 1..Epoch(MaxSlot) : UpdateInitialEpoch(e)
             \/ \E e \in FrameSizes, f \in FastLanes : SetFrameConfig(e, f)
             \/ \E f \in FastLanes : SetFastLaneLengthSlots(f)
             \/ \E p \in Processors, h \in Hashes : ProcessReport(p, h)
             \/ \E p \in Processors, v \in Versions : ChangeConsensusVersion(p, v)
             \/ Tick
    BY <2>2, <2>8 DEF UpdateInitialEpoch, SetFrameConfig, SetFastLaneLengthSlots, SetFrame,
      ProcessReport, StartProcessing, ChangeConsensusVersion, SetConsensusVersion, Tick, oracleVars
  <2> QED BY <1>1, <2>3, <2>4, <2>5, <2>6, <2>7, <2>8 DEF Next
<1>2. Inv /\ [Next]_vars => [KeepsProcessed]_vars
  BY <1>1
<1>3. Spec => [][KeepsProcessed]_vars
  BY Invariance, <1>2, PTL DEF Spec
<1> QED BY <1>3 DEF ProcessedReportFixed, KeepsProcessed

\* What ProcessingAdvances says of one step.
Processes ==
  \A p \in Processors :
    lastProcessingRefSlot'[p] # lastProcessingRefSlot[p] =>
      lastProcessingRefSlot'[p] > lastProcessingRefSlot[p]

LEMMA StepProcesses == ASSUME Inv, Next PROVE Processes
<1>1. CASE UNCHANGED lastProcessingRefSlot
  BY <1>1 DEF Processes
<1>2. CASE \E p \in Processors, h \in Hashes : ProcessReport(p, h)
  <2>1. PICK p \in Processors, h \in Hashes : ProcessReport(p, h)
    BY <1>2
  <2>2. /\ lastProcessingRefSlot \in [Processors -> Slots]
        /\ consensusReport \in [Processors -> ConsensusReport]
        /\ lastProcessingRefSlot[p] <= consensusReport[p].refSlot
    BY DEF Inv, Counted, TypeOK, OracleTypeOK, SlotsOrdered
  <2>3. lastProcessingRefSlot[p] \in Int /\ consensusReport[p].refSlot \in Int
    BY <2>2 DEF ConsensusReport, Slots
  <2>4. lastProcessingRefSlot' = [lastProcessingRefSlot EXCEPT ![p] = consensusReport[p].refSlot]
    BY <2>1 DEF ProcessReport, StartProcessing
  <2>5. \A o \in Processors : lastProcessingRefSlot'[o] =
          IF o = p THEN consensusReport[p].refSlot ELSE lastProcessingRefSlot[o]
    BY <2>2, <2>4
  <2> QED BY <2>2, <2>3, <2>5 DEF Processes
<1>3. CASE \E a \in Addresses, h \in Hashes : SubmitReport(a, h)
  <2>1. PICK a \in Addresses, h \in Hashes : SubmitReport(a, h)
    BY <1>3
  <2>2. PICK i, variants, index : Voted(i, h, variants, index)
    BY <2>1, SubmitReportVotes
  <2> QED BY <2>2, <1>1 DEF Voted
<1>4. CASE \/ \E a \in Addresses, q \in Quorums : AddMember(a, q) \/ RemoveMember(a, q)
           \/ \E q \in Quorums : SetQuorum(q)
           \/ \E e \in 1..Epoch(MaxSlot) : UpdateInitialEpoch(e)
           \/ \E e \in FrameSizes, f \in FastLanes : SetFrameConfig(e, f)
           \/ \E f \in FastLanes : SetFastLaneLengthSlots(f)
           \/ \E p \in Processors : SetReportProcessor(p)
           \/ \E p \in Processors, v \in Versions : ChangeConsensusVersion(p, v)
           \/ Tick
  BY <1>1, <1>4 DEF AddMember, RemoveMember, SetQuorum, UpdateInitialEpoch, SetFrameConfig,
    SetFastLaneLengthSlots, SetFrame, SetReportProcessor, ChangeConsensusVersion,
    SetConsensusVersion, Tick, oracleVars
<1> QED BY <1>2, <1>3, <1>4 DEF Next

\* A processor works through reference slots in increasing order, also when it was
\* replaced and put back in between.
THEOREM ReportsProcessedInOrder == Spec => ProcessingAdvances
<1>1. Inv /\ [Next]_vars => [Processes]_vars
  BY StepProcesses
<1>2. Spec => [][Processes]_vars
  BY Invariance, <1>1, PTL DEF Spec
<1> QED BY <1>2 DEF ProcessingAdvances, Processes
=============================================================================
