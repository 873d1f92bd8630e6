------------------------ MODULE WithdrawalQueueProofs ------------------------
(***************************************************************************)
(* Theorems about WithdrawalQueue, and about the batch calculation of      *)
(* FinalizationBatches, for every set of holders, amounts and rates and    *)
(* any number of requests.                                                 *)
(*                                                                         *)
(* Inv is the inductive invariant: the types, the order of the cumulative  *)
(* sums and of the checkpoints, and the three bookkeeping properties that  *)
(* TLC checks.  InitInv and NextInv are its two halves; NextInv has one    *)
(* lemma per action that changes more than the environment.                *)
(***************************************************************************)
EXTENDS FinalizationBatches, SumTheorems

CumulativeMonotone ==
  \A i, j \in 0..lastRequestId :
    i <= j => /\ queue[i].cumulativeStETH <= queue[j].cumulativeStETH
              /\ queue[i].cumulativeShares <= queue[j].cumulativeShares

RequestsOwned ==
  /\ \A i \in 1..lastRequestId : queue[i].owner \in Addresses
  /\ \A i \in Ids : i > lastRequestId => tokenApprovals[i] = NoAddress

CheckpointOrder ==
  /\ lastFinalizedRequestId > 0 => lastCheckpointIndex > 0
  /\ \A h \in 1..lastCheckpointIndex :
       checkpoints[h].fromRequestId \in 1..lastFinalizedRequestId
  /\ \A g, h \in 1..lastCheckpointIndex :
       g < h => checkpoints[g].fromRequestId < checkpoints[h].fromRequestId

Inv ==
  /\ TypeOK
  /\ CumulativeMonotone
  /\ RequestsOwned
  /\ CheckpointOrder
  /\ CheckpointsPartition
  /\ OwnerIndexConsistent
  /\ NoApprovalToOwner
  /\ CustodyMatchesQueue

USE AddressAssumption, AmountAssumption, PoolAssumption, RateAssumption,
    TimeAssumption, BoundAssumption

-----------------------------------------------------------------------------
(* Arithmetic.                                                             *)

LEMMA ProductQuotientNat ==
  ASSUME NEW a \in Nat, NEW b \in Nat, NEW c \in Nat \ {0}
  PROVE  (a * b) \div c \in Nat
<1> DEFINE p == a * b
<1>1. p \in Nat
  BY ProductNat
<1> HIDE DEF p
<1>2. p \div c \in Nat
  BY <1>1
<1> QED
  BY <1>2 DEF p

\* Lido's conversions yield natural numbers.
LEMMA ConversionsNat ==
  ASSUME TypeOK, NEW amount \in Nat
  PROVE  SharesByPooledEth(amount) \in Nat /\ PooledEthByShares(amount) \in Nat
<1>1. pool.ether \in Nat \ {0} /\ pool.shares \in Nat \ {0}
  BY DEF TypeOK
<1> QED
  BY <1>1, ProductQuotientNat DEF SharesByPooledEth, PooledEthByShares

\* The value of one request at a checkpoint's rate is a natural number.
LEMMA ClaimableNat ==
  ASSUME TypeOK, CumulativeMonotone,
         NEW id \in 1..lastRequestId, NEW hint \in Ids
  PROVE  CalculateClaimableEther(id, hint) \in Nat
<1>1. id \in Ids /\ id - 1 \in Ids /\ id \in 0..lastRequestId /\ id - 1 \in 0..lastRequestId
  BY DEF TypeOK, Ids
<1>2. queue[id] \in Request /\ queue[id - 1] \in Request
  BY <1>1 DEF TypeOK
<1>3. queue[id - 1].cumulativeStETH <= queue[id].cumulativeStETH
      /\ queue[id - 1].cumulativeShares <= queue[id].cumulativeShares
  BY <1>1 DEF CumulativeMonotone
<1>4. BatchStETH(id - 1, id) \in Nat /\ BatchShares(id - 1, id) \in Nat
  BY <1>2, <1>3 DEF BatchStETH, BatchShares, Request
<1>5. checkpoints[hint].maxShareRate \in Nat
  BY DEF TypeOK, Checkpoint
<1>6. (BatchShares(id - 1, id) * checkpoints[hint].maxShareRate) \div Precision \in Nat
  BY <1>4, <1>5, ProductQuotientNat
<1> QED
  BY <1>4, <1>6 DEF CalculateClaimableEther, BatchEther

-----------------------------------------------------------------------------
(* One lemma per action that moves requests, checkpoints or approvals.     *)

\* What does not touch requests, checkpoints and approvals keeps their shape.
LEMMA FrameInv ==
  ASSUME Inv, UNCHANGED <<requestVars, finalizeVars, approvalVars>>, TypeOK'
  PROVE  Inv'
<1> USE DEF requestVars, finalizeVars, approvalVars
<1>1. CumulativeMonotone' /\ RequestsOwned' /\ CustodyMatchesQueue'
  BY DEF Inv, CumulativeMonotone, RequestsOwned, CustodyMatchesQueue, BatchShares
<1>2. CheckpointOrder' /\ CheckpointsPartition'
  BY DEF Inv, CheckpointOrder, CheckpointsPartition, ValidHint
<1>3. OwnerIndexConsistent' /\ NoApprovalToOwner'
  BY DEF Inv, OwnerIndexConsistent, NoApprovalToOwner
<1> QED
  BY <1>1, <1>2, <1>3 DEF Inv

\* _enqueue appends a request: the sums grow and no other request moves.
LEMMA RequestInv ==
  ASSUME Inv, NEW sender \in Addresses, NEW owner \in Addresses \cup {NoAddress},
         NEW amount \in Nat, RequestStETH(sender, amount, owner)
  PROVE  Inv'
<1> DEFINE id     == lastRequestId + 1
           holder == RequestOwner(sender, owner)
           shares == SharesByPooledEth(amount)
           last   == queue[lastRequestId]
           new    == [cumulativeStETH  |-> last.cumulativeStETH + amount,
                      cumulativeShares |-> last.cumulativeShares + shares,
                      owner            |-> holder,
                      timestamp        |-> now,
                      claimed          |-> FALSE,
                      reportTimestamp  |-> lastReportTimestamp]
<1> USE DEF finalizeVars, etherVars, approvalVars, reportVars, envVars
<1>1. /\ holder \in Addresses
      /\ shares \in Nat
      /\ lastRequestId \in Nat /\ id \in Ids /\ lastRequestId \in Ids
      /\ last \in Request
  <2>1. holder \in Addresses
    BY DEF RequestOwner
  <2>2. shares \in Nat
    BY ConversionsNat DEF Inv
  <2>3. lastRequestId \in Nat /\ id \in Ids /\ lastRequestId \in Ids
    BY DEF Inv, TypeOK, RequestStETH, Enqueue, Ids
  <2> QED
    BY <2>1, <2>2, <2>3 DEF Inv, TypeOK
<1>2. new \in Request
  BY <1>1 DEF Inv, TypeOK, Request
<1>3. /\ id <= MaxRequests
      /\ lastRequestId' = id
      /\ queue' = [queue EXCEPT ![id] = new]
      /\ requestsByOwner' = [requestsByOwner EXCEPT ![holder] = @ \cup {id}]
      /\ lockedShares' = lockedShares + shares
      /\ UNCHANGED <<finalizeVars, etherVars, approvalVars, resumeSince,
                     reportVars, envVars>>
  BY Zenon DEF RequestStETH, Enqueue
<1>4. TypeOK'
  <2>1. queue' \in [Ids -> Request]
    BY <1>1, <1>2, <1>3 DEF Inv, TypeOK
  <2>2. requestsByOwner' \in [Addresses -> SUBSET Ids]
    BY <1>1, <1>3 DEF Inv, TypeOK
  <2>3. lockedShares' \in Nat /\ lastRequestId' \in Ids
        /\ lastFinalizedRequestId' \in 0..lastRequestId'
    BY <1>1, <1>3 DEF Inv, TypeOK
  <2> QED
    BY <1>3, <2>1, <2>2, <2>3 DEF Inv, TypeOK
<1>5. /\ queue'[id] = new
      /\ \A i \in Ids : i # id => queue'[i] = queue[i]
  BY <1>1, <1>3 DEF Inv, TypeOK
<1> HIDE DEF shares, holder
<1>6. CumulativeMonotone'
  <2> SUFFICES ASSUME NEW i \in 0..id, NEW j \in 0..id, i <= j
               PROVE  /\ queue'[i].cumulativeStETH <= queue'[j].cumulativeStETH
                      /\ queue'[i].cumulativeShares <= queue'[j].cumulativeShares
    BY <1>3 DEF CumulativeMonotone
  <2>1. i \in Ids /\ j \in Ids
    BY <1>1 DEF Ids
  <2>2. queue[i] \in Request /\ new \in Request
    BY <1>2, <2>1 DEF Inv, TypeOK
  <2>3. CASE j # id
    BY <1>1, <1>5, <2>1, <2>3 DEF Inv, CumulativeMonotone
  <2>4. CASE j = id /\ i = id
    BY <1>5, <2>2, <2>4 DEF Request
  <2>5. CASE j = id /\ i # id
    <3>1. /\ queue[i].cumulativeStETH <= last.cumulativeStETH
          /\ queue[i].cumulativeShares <= last.cumulativeShares
      BY <1>1, <2>5 DEF Inv, CumulativeMonotone
    <3> QED
      BY <1>1, <1>5, <2>1, <2>2, <2>5, <3>1 DEF Request
  <2> QED
    BY <2>3, <2>4, <2>5
<1>7. RequestsOwned' /\ NoApprovalToOwner'
  <2>1. tokenApprovals[id] = NoAddress
    BY <1>1 DEF Inv, RequestsOwned
  <2>2. \A i \in 1..id : i # id => i \in 1..lastRequestId /\ i \in Ids
    BY <1>1 DEF Ids
  <2>3. \A i \in Ids : i > id => i > lastRequestId
    BY <1>1 DEF Ids
  <2> QED
    BY <1>1, <1>3, <1>5, <2>1, <2>2, <2>3 DEF Inv, RequestsOwned, NoApprovalToOwner
<1>8. CheckpointOrder' /\ CheckpointsPartition'
  BY <1>3 DEF Inv, CheckpointOrder, CheckpointsPartition, ValidHint
<1>9. OwnerIndexConsistent'
  <2> SUFFICES ASSUME NEW a \in Addresses
               PROVE  requestsByOwner'[a] =
                        {i \in 1..id : queue'[i].owner = a /\ ~queue'[i].claimed}
    BY <1>3 DEF OwnerIndexConsistent
  <2>1. requestsByOwner[a] =
          {i \in 1..lastRequestId : queue[i].owner = a /\ ~queue[i].claimed}
    BY DEF Inv, OwnerIndexConsistent
  <2>2. requestsByOwner'[a] = requestsByOwner[a] \cup (IF a = holder THEN {id} ELSE {})
    BY <1>1, <1>3 DEF Inv, TypeOK
  <2>3. \A i \in 1..id : i # id => i \in 1..lastRequestId /\ i \in Ids
    BY <1>1 DEF Ids
  <2>4. \A i \in 1..lastRequestId : i \in 1..id /\ i # id /\ i \in Ids
    BY <1>1 DEF Ids
  <2>5. id \in 1..id
    BY <1>1
  <2> QED
    BY <1>5, <2>1, <2>2, <2>3, <2>4, <2>5
<1>10. CustodyMatchesQueue'
  <2>1. lastFinalizedRequestId \in Ids /\ lastFinalizedRequestId # id
    BY <1>1 DEF Inv, TypeOK, Ids
  <2>2. queue[lastFinalizedRequestId] \in Request
    BY <2>1 DEF Inv, TypeOK
  <2> QED
    BY <1>1, <1>3, <1>5, <2>1, <2>2 DEF Inv, CustodyMatchesQueue, BatchShares, Request
<1> QED
  BY <1>4, <1>6, <1>7, <1>8, <1>9, <1>10 DEF Inv

\* _finalize opens one checkpoint at the first request it finalizes: earlier
\* requests keep their hint, the new ones get the new checkpoint.
LEMMA FinalizeInv ==
  ASSUME Inv, NEW batches \in ValidBatches, NEW rate \in ShareRates,
         Finalize(batches, rate)
  PROVE  Inv'
<1> USE DEF approvalVars, reportVars, envVars
<1> DEFINE first == lastFinalizedRequestId + 1
           cp    == lastCheckpointIndex + 1
           new   == [fromRequestId |-> first, maxShareRate |-> rate]
<1> DEFINE Effect(last, ether) ==
             /\ checkpoints' = [checkpoints EXCEPT ![cp] = new]
             /\ lastCheckpointIndex' = cp
             /\ lockedEtherAmount' = lockedEtherAmount + ether
             /\ etherBalance' = etherBalance + ether
             /\ lastFinalizedRequestId' = last
             /\ lockedShares' = lockedShares - SharesToBurn(last)
             /\ UNCHANGED <<queue, lastRequestId, requestsByOwner, approvalVars, resumeSince,
                            reportVars, envVars>>
<1>a. PICK last \in batches :
        \E ether \in 0 .. BatchStETH(lastFinalizedRequestId, last) : Effect(last, ether)
  BY DEF Finalize
<1>1. PICK ether \in 0 .. BatchStETH(lastFinalizedRequestId, last) : Effect(last, ether)
  BY <1>a
<1>2. /\ last \in first..lastRequestId
      /\ lastRequestId \in Nat /\ lastRequestId <= MaxRequests
      /\ lastFinalizedRequestId \in 0..lastRequestId /\ lastFinalizedRequestId < last
      /\ lastCheckpointIndex \in 0..lastFinalizedRequestId
  BY DEF ValidBatches, Inv, TypeOK, Ids
<1>3. cp \in Ids /\ cp \in 1..last /\ first \in 1..last
  BY <1>2 DEF Ids
<1>4. new \in Checkpoint
  BY <1>2 DEF Checkpoint
<1>5. /\ checkpoints'[cp] = new
      /\ \A h \in Ids : h # cp => checkpoints'[h] = checkpoints[h]
  BY <1>1, <1>3 DEF Inv, TypeOK
<1>6. \A h \in 1..cp : h # cp => h \in 1..lastCheckpointIndex /\ h \in Ids
  BY <1>2 DEF Ids
<1>7. lockedShares' = BatchShares(last, lastRequestId) /\ lockedShares' \in Nat
  <2>1. \A i \in 0..lastRequestId : i \in Ids /\ queue[i] \in Request
    BY <1>2 DEF Inv, TypeOK, Ids
  <2>2. /\ last \in 0..lastRequestId /\ lastRequestId \in 0..lastRequestId
        /\ last <= lastRequestId
    BY <1>2
  <2>3. queue[last].cumulativeShares <= queue[lastRequestId].cumulativeShares
    BY <2>2 DEF Inv, CumulativeMonotone
  <2> QED
    BY <1>1, <1>2, <2>1, <2>2, <2>3
    DEF Inv, CustodyMatchesQueue, SharesToBurn, BatchShares, Request
<1>8. TypeOK'
  <2>1. checkpoints' \in [Ids -> Checkpoint]
    BY <1>1, <1>3, <1>4 DEF Inv, TypeOK
  <2>2. BatchStETH(lastFinalizedRequestId, last) \in Int
    <3>1. last \in Ids /\ lastFinalizedRequestId \in Ids
      BY <1>2 DEF Ids
    <3> QED
      BY <3>1 DEF Inv, TypeOK, BatchStETH, Request
  <2>3. lockedEtherAmount' \in Nat /\ etherBalance' \in Nat
    BY <1>1, <2>2 DEF Inv, TypeOK
  <2> QED
    BY <1>1, <1>2, <1>3, <1>7, <2>3, <2>1, <2>2 DEF Inv, TypeOK
<1>9. CumulativeMonotone' /\ RequestsOwned' /\ OwnerIndexConsistent' /\ NoApprovalToOwner'
  BY <1>1 DEF Inv, CumulativeMonotone, RequestsOwned, OwnerIndexConsistent, NoApprovalToOwner
<1>10. CheckpointOrder'
  <2>1. \A h \in 1..lastCheckpointIndex :
          checkpoints[h].fromRequestId \in 1..lastFinalizedRequestId
    BY DEF Inv, CheckpointOrder
  <2>2. \A h \in 1..cp : checkpoints'[h].fromRequestId \in 1..last
    BY <1>2, <1>3, <1>5, <1>6, <2>1
  <2>3. \A g, h \in 1..cp :
          g < h => checkpoints'[g].fromRequestId < checkpoints'[h].fromRequestId
    <3> SUFFICES ASSUME NEW g \in 1..cp, NEW h \in 1..cp, g < h
                 PROVE  checkpoints'[g].fromRequestId < checkpoints'[h].fromRequestId
      OBVIOUS
    <3>1. g # cp /\ g \in 1..lastCheckpointIndex /\ checkpoints'[g] = checkpoints[g]
      BY <1>2, <1>5, <1>6
    <3>2. CASE h = cp
      BY <1>2, <1>5, <2>1, <3>1, <3>2
    <3>3. CASE h # cp
      BY <1>5, <1>6, <3>1, <3>3 DEF Inv, CheckpointOrder
    <3> QED
      BY <3>2, <3>3
  <2> QED
    BY <1>1, <1>2, <2>2, <2>3 DEF CheckpointOrder
<1>11. CheckpointsPartition'
  <2>1. \A i \in 1..lastFinalizedRequestId, h \in 1..cp :
          ValidHint(i, h)' <=> h # cp /\ ValidHint(i, h)
    <3> SUFFICES ASSUME NEW i \in 1..lastFinalizedRequestId, NEW h \in 1..cp
                 PROVE  ValidHint(i, h)' <=> h # cp /\ ValidHint(i, h)
      OBVIOUS
    <3>1. CASE h = cp
      BY <1>1, <1>2, <1>5, <3>1 DEF ValidHint
    <3>2. CASE h = lastCheckpointIndex
      BY <1>1, <1>2, <1>3, <1>5, <1>6, <3>2 DEF ValidHint
    <3>3. CASE h < lastCheckpointIndex
      <4>1. h + 1 # cp /\ h + 1 \in Ids /\ h # cp /\ h \in Ids
        BY <1>2, <3>3 DEF Ids
      <4> QED
        BY <1>1, <1>2, <1>5, <3>3, <4>1 DEF ValidHint
    <3> QED
      BY <1>2, <3>1, <3>2, <3>3
  <2>2. \A i \in first..last, h \in 1..cp : ValidHint(i, h)' <=> h = cp
    <3> SUFFICES ASSUME NEW i \in first..last, NEW h \in 1..cp
                 PROVE  ValidHint(i, h)' <=> h = cp
      OBVIOUS
    <3>1. CASE h = cp
      BY <1>1, <1>2, <1>5, <3>1 DEF ValidHint
    <3>2. CASE h # cp
      <4>1. h \in 1..lastCheckpointIndex /\ h < cp
        BY <1>2, <1>6, <3>2
      <4>2. checkpoints'[h + 1].fromRequestId <= first
        <5>1. CASE h + 1 = cp
          BY <1>2, <1>5, <5>1
        <5>2. CASE h + 1 # cp
          <6>1. h + 1 \in 1..lastCheckpointIndex /\ h + 1 \in Ids
            BY <1>2, <4>1, <5>2 DEF Ids
          <6> QED
            BY <1>2, <1>5, <5>2, <6>1 DEF Inv, CheckpointOrder
        <5> QED
          BY <5>1, <5>2
      <4>3. ~ (i < checkpoints'[h + 1].fromRequestId)
        <5>1. checkpoints'[h + 1].fromRequestId \in Nat
          <6>1. h + 1 \in Ids
            BY <1>2, <4>1 DEF Ids
          <6> QED
            BY <1>8, <6>1 DEF TypeOK, Checkpoint
        <5> QED
          BY <1>2, <4>2, <5>1
      <4> QED
        BY <1>1, <3>2, <4>1, <4>3 DEF ValidHint
    <3> QED
      BY <3>1, <3>2
  <2> SUFFICES ASSUME NEW i \in 1..last
               PROVE  \E h \in 1..cp : /\ ValidHint(i, h)'
                                       /\ \A g \in 1..cp : ValidHint(i, g)' => g = h
    BY <1>1 DEF CheckpointsPartition
  <2>3. CASE i \in 1..lastFinalizedRequestId
    <3>1. PICK h \in 1..lastCheckpointIndex :
            /\ ValidHint(i, h)
            /\ \A g \in 1..lastCheckpointIndex : ValidHint(i, g) => g = h
      BY <2>3 DEF Inv, CheckpointsPartition
    <3>2. h \in 1..cp /\ h # cp
      BY <1>2
    <3> QED
      BY <1>6, <2>1, <2>3, <3>1, <3>2
  <2>4. CASE i \in first..last
    <3>1. cp \in 1..cp
      BY <1>2
    <3> QED
      BY <2>2, <2>4, <3>1
  <2> QED
    BY <1>2, <2>3, <2>4
<1>12. CustodyMatchesQueue'
  BY <1>1, <1>7 DEF CustodyMatchesQueue, BatchShares
<1> QED
  BY <1>8, <1>9, <1>10, <1>11, <1>12 DEF Inv

\* _claim settles one request: it leaves its owner's index and nothing else of
\* the queue moves.
LEMMA ClaimInv ==
  ASSUME Inv, NEW sender \in Addresses, NEW id \in Ids, NEW hint \in Ids,
         ClaimWithHint(sender, id, hint)
  PROVE  Inv'
<1> USE DEF finalizeVars, approvalVars, reportVars, envVars
<1> DEFINE ether == CalculateClaimableEther(id, hint)
<1>1. /\ 0 < id /\ id <= lastFinalizedRequestId
      /\ ~queue[id].claimed /\ queue[id].owner = sender
      /\ ether <= lockedEtherAmount /\ ether <= etherBalance
      /\ queue' = [queue EXCEPT ![id].claimed = TRUE]
      /\ requestsByOwner' = [requestsByOwner EXCEPT ![sender] = @ \ {id}]
      /\ lockedEtherAmount' = lockedEtherAmount - ether
      /\ etherBalance' = etherBalance - ether
      /\ UNCHANGED <<lastRequestId, lockedShares, finalizeVars, approvalVars,
                     resumeSince, reportVars, envVars>>
  BY DEF ClaimWithHint
<1>2. id \in 1..lastRequestId
  BY <1>1 DEF Inv, TypeOK, Ids
<1>3. ether \in Nat
  BY <1>2, ClaimableNat DEF Inv
<1> HIDE DEF ether
<1>4. TypeOK'
  <2>1. queue' \in [Ids -> Request]
    <3>1. queue[id] \in Request
      BY DEF Inv, TypeOK
    <3>2. [queue[id] EXCEPT !.claimed = TRUE] \in Request
      BY <3>1 DEF Request
    <3> QED
      BY <1>1, <3>2 DEF Inv, TypeOK
  <2>2. requestsByOwner' \in [Addresses -> SUBSET Ids]
    BY <1>1 DEF Inv, TypeOK
  <2>3. lockedEtherAmount' \in Nat /\ etherBalance' \in Nat
    BY <1>1, <1>3 DEF Inv, TypeOK
  <2> QED
    BY <1>1, <2>1, <2>2, <2>3 DEF Inv, TypeOK
<1>5. /\ queue'[id].claimed
      /\ \A i \in Ids : i # id => queue'[i] = queue[i]
      /\ \A i \in Ids : /\ queue'[i].owner = queue[i].owner
                        /\ queue'[i].cumulativeStETH = queue[i].cumulativeStETH
                        /\ queue'[i].cumulativeShares = queue[i].cumulativeShares
  BY <1>1 DEF Inv, TypeOK, Request
<1>6. \A i \in 0..lastRequestId : i \in Ids
  BY DEF Inv, TypeOK, Ids
<1>7. CumulativeMonotone'
  BY <1>1, <1>5, <1>6 DEF Inv, CumulativeMonotone
<1>8. RequestsOwned' /\ NoApprovalToOwner'
  BY <1>1, <1>5, <1>6 DEF Inv, RequestsOwned, NoApprovalToOwner
<1>9. CheckpointOrder' /\ CheckpointsPartition'
  BY <1>1 DEF Inv, CheckpointOrder, CheckpointsPartition, ValidHint
<1>10. OwnerIndexConsistent'
  <2> SUFFICES ASSUME NEW a \in Addresses
               PROVE  requestsByOwner'[a] =
                        {i \in 1..lastRequestId : queue'[i].owner = a /\ ~queue'[i].claimed}
    BY <1>1 DEF OwnerIndexConsistent
  <2>1. requestsByOwner[a] =
          {i \in 1..lastRequestId : queue[i].owner = a /\ ~queue[i].claimed}
    BY DEF Inv, OwnerIndexConsistent
  <2>2. requestsByOwner'[a] = requestsByOwner[a] \ (IF a = sender THEN {id} ELSE {})
    BY <1>1 DEF Inv, TypeOK
  <2>3. \A i \in 1..lastRequestId : i \in Ids
    BY <1>6
  <2> QED
    BY <1>1, <1>5, <2>1, <2>2, <2>3
<1>11. CustodyMatchesQueue'
  <2>1. lastFinalizedRequestId \in Ids /\ lastRequestId \in Ids
    BY DEF Inv, TypeOK, Ids
  <2> QED
    BY <1>1, <1>5, <2>1 DEF Inv, CustodyMatchesQueue, BatchShares
<1> QED
  BY <1>4, <1>7, <1>8, <1>9, <1>10, <1>11 DEF Inv

\* transferFrom moves an open request between two owners and drops its approval.
LEMMA TransferInv ==
  ASSUME Inv, NEW sender \in Addresses, NEW from \in Addresses, NEW to \in Addresses,
         NEW id \in Ids, TransferFrom(sender, from, to, id)
  PROVE  Inv'
<1> USE DEF finalizeVars, etherVars, reportVars, envVars
<1>1. /\ to # from
      /\ 0 < id /\ id <= lastRequestId
      /\ ~queue[id].claimed /\ from = queue[id].owner
      /\ tokenApprovals' = [tokenApprovals EXCEPT ![id] = NoAddress]
      /\ queue' = [queue EXCEPT ![id].owner = to]
      /\ requestsByOwner' = [requestsByOwner EXCEPT ![from] = @ \ {id}, ![to] = @ \cup {id}]
      /\ UNCHANGED <<lastRequestId, lockedShares, finalizeVars, etherVars,
                     operatorApprovals, resumeSince, reportVars, envVars>>
  BY DEF TransferFrom
<1>2. TypeOK'
  <2>1. queue' \in [Ids -> Request]
    BY <1>1 DEF Inv, TypeOK, Request
  <2>2. requestsByOwner' \in [Addresses -> SUBSET Ids]
    BY <1>1 DEF Inv, TypeOK
  <2>3. tokenApprovals' \in [Ids -> Addresses \cup {NoAddress}]
    BY <1>1 DEF Inv, TypeOK
  <2> QED
    BY <1>1, <2>1, <2>2, <2>3 DEF Inv, TypeOK
<1>3. /\ queue'[id].owner = to
      /\ \A i \in Ids : i # id => queue'[i] = queue[i]
      /\ \A i \in Ids : /\ queue'[i].claimed = queue[i].claimed
                        /\ queue'[i].cumulativeStETH = queue[i].cumulativeStETH
                        /\ queue'[i].cumulativeShares = queue[i].cumulativeShares
  BY <1>1 DEF Inv, TypeOK, Request
<1>4. \A i \in 0..lastRequestId : i \in Ids
  BY DEF Inv, TypeOK, Ids
<1>5. CumulativeMonotone'
  BY <1>1, <1>3, <1>4 DEF Inv, CumulativeMonotone
<1>6. RequestsOwned' /\ NoApprovalToOwner'
  <2>1. /\ tokenApprovals'[id] = NoAddress
        /\ \A i \in Ids : i # id => tokenApprovals'[i] = tokenApprovals[i]
    BY <1>1 DEF Inv, TypeOK
  <2> QED
    BY <1>1, <1>3, <1>4, <2>1 DEF Inv, RequestsOwned, NoApprovalToOwner
<1>7. CheckpointOrder' /\ CheckpointsPartition'
  BY <1>1 DEF Inv, CheckpointOrder, CheckpointsPartition, ValidHint
<1>8. OwnerIndexConsistent'
  <2> SUFFICES ASSUME NEW a \in Addresses
               PROVE  requestsByOwner'[a] =
                        {i \in 1..lastRequestId : queue'[i].owner = a /\ ~queue'[i].claimed}
    BY <1>1 DEF OwnerIndexConsistent
  <2>1. requestsByOwner[a] =
          {i \in 1..lastRequestId : queue[i].owner = a /\ ~queue[i].claimed}
    BY DEF Inv, OwnerIndexConsistent
  <2>2. requestsByOwner'[a] = IF a = to THEN requestsByOwner[a] \cup {id}
                             ELSE IF a = from THEN requestsByOwner[a] \ {id}
                             ELSE requestsByOwner[a]
    BY <1>1 DEF Inv, TypeOK
  <2>3. \A i \in 1..lastRequestId : i \in Ids
    BY <1>4
  <2>4. id \in 1..lastRequestId
    BY <1>1 DEF Inv, TypeOK, Ids
  <2>5. \A i \in 1..lastRequestId :
          queue'[i].owner = a /\ ~queue'[i].claimed
            <=> IF i = id THEN a = to ELSE queue[i].owner = a /\ ~queue[i].claimed
    BY <1>1, <1>3, <2>3, <2>4
  <2>6. CASE a = to
    <3>1. {i \in 1..lastRequestId : queue'[i].owner = a /\ ~queue'[i].claimed}
            = {i \in 1..lastRequestId : i = id \/ (queue[i].owner = a /\ ~queue[i].claimed)}
      BY <1>1, <2>5, <2>6
    <3> QED
      BY <2>1, <2>2, <2>4, <2>6, <3>1
  <2>7. CASE a = from
    BY <1>1, <2>1, <2>2, <2>4, <2>5, <2>7
  <2>8. CASE a # to /\ a # from
    <3>1. \A i \in 1..lastRequestId :
            queue'[i].owner = a /\ ~queue'[i].claimed
              <=> queue[i].owner = a /\ ~queue[i].claimed
      BY <1>1, <2>5, <2>8
    <3> QED
      BY <2>1, <2>2, <2>8, <3>1
  <2> QED
    BY <2>6, <2>7, <2>8
<1>9. CustodyMatchesQueue'
  <2>1. lastFinalizedRequestId \in Ids /\ lastRequestId \in Ids
    BY DEF Inv, TypeOK, Ids
  <2> QED
    BY <1>1, <1>3, <2>1 DEF Inv, CustodyMatchesQueue, BatchShares
<1> QED
  BY <1>2, <1>5, <1>6, <1>7, <1>8, <1>9 DEF Inv

\* Approvals: neither is ever given to the owner of the request.
LEMMA ApprovalInv ==
  ASSUME Inv,
         \/ \E s \in Addresses, t \in Addresses \cup {NoAddress}, i \in Ids : Approve(s, t, i)
         \/ \E s, op \in Addresses, b \in BOOLEAN : SetApprovalForAll(s, op, b)
  PROVE  Inv'
<1> USE DEF requestVars, finalizeVars, etherVars, reportVars, envVars
<1>1. ASSUME NEW s \in Addresses, NEW t \in Addresses \cup {NoAddress}, NEW i \in Ids,
             Approve(s, t, i)
      PROVE  Inv'
  <2> USE <1>1 DEF Approve
  <2>1. TypeOK'
    BY DEF Inv, TypeOK
  <2>2. CumulativeMonotone' /\ CustodyMatchesQueue' /\ OwnerIndexConsistent'
    BY DEF Inv, CumulativeMonotone, CustodyMatchesQueue, BatchShares, OwnerIndexConsistent
  <2>3. RequestsOwned'
    BY DEF Inv, TypeOK, RequestsOwned, Ids
  <2>4. CheckpointOrder' /\ CheckpointsPartition'
    BY DEF Inv, CheckpointOrder, CheckpointsPartition, ValidHint
  <2>5. NoApprovalToOwner'
    BY DEF Inv, TypeOK, Ids, NoApprovalToOwner
  <2> QED
    BY <2>1, <2>2, <2>3, <2>4, <2>5 DEF Inv
<1>2. ASSUME NEW s \in Addresses, NEW op \in Addresses, NEW b \in BOOLEAN,
             SetApprovalForAll(s, op, b)
      PROVE  Inv'
  <2> USE <1>2 DEF SetApprovalForAll
  <2>1. TypeOK'
    BY DEF Inv, TypeOK
  <2>2. CumulativeMonotone' /\ CustodyMatchesQueue' /\ OwnerIndexConsistent'
    BY DEF Inv, CumulativeMonotone, CustodyMatchesQueue, BatchShares, OwnerIndexConsistent
  <2>3. RequestsOwned' /\ CheckpointOrder' /\ CheckpointsPartition' /\ NoApprovalToOwner'
    BY DEF Inv, RequestsOwned, CheckpointOrder, CheckpointsPartition, ValidHint,
           NoApprovalToOwner
  <2> QED
    BY <2>1, <2>2, <2>3 DEF Inv
<1> QED
  BY <1>1, <1>2

-----------------------------------------------------------------------------
(* The two halves of the induction.                                        *)

LEMMA InitInv == Init => Inv
<1> SUFFICES ASSUME Init PROVE Inv
  OBVIOUS
<1> USE DEF Init
<1>1. 0 \in Ids
  BY DEF Ids
<1>2. TypeOK
  <2>1. NoRequest \in Request /\ NoRequest.claimed = FALSE
    BY DEF NoRequest, Request
  <2>2. \A i \in Ids : [NoRequest EXCEPT !.claimed = (i = 0)] \in Request
    BY <2>1 DEF Request
  <2>3. queue \in [Ids -> Request]
    BY <2>2
  <2> QED
    BY <1>1, <2>3 DEF TypeOK, Checkpoint, Ids, BunkerModeDisabled
<1>3. CumulativeMonotone /\ RequestsOwned /\ CheckpointOrder /\ CheckpointsPartition
      /\ OwnerIndexConsistent /\ NoApprovalToOwner
  BY <1>1 DEF CumulativeMonotone, RequestsOwned, CheckpointOrder, CheckpointsPartition,
              OwnerIndexConsistent, NoApprovalToOwner, NoRequest
<1>4. CustodyMatchesQueue
  BY <1>1 DEF CustodyMatchesQueue, BatchShares, NoRequest
<1> QED
  BY <1>2, <1>3, <1>4 DEF Inv

LEMMA NextInv == Inv /\ [Next]_vars => Inv'
<1> SUFFICES ASSUME Inv, [Next]_vars PROVE Inv'
  OBVIOUS
<1> USE DEF requestVars, finalizeVars, etherVars, approvalVars, reportVars, envVars
<1>1. ASSUME NEW s \in Addresses, NEW a \in Amounts, NEW o \in Addresses \cup {NoAddress},
             RequestWithdrawal(s, a, o)
      PROVE  Inv'
  BY <1>1, RequestInv DEF RequestWithdrawal
<1>2. ASSUME NEW s \in Addresses, NEW w \in WstAmounts, NEW o \in Addresses \cup {NoAddress},
             RequestWithdrawalWstETH(s, w, o)
      PROVE  Inv'
  <2>1. PooledEthByShares(w) \in Nat
    BY ConversionsNat DEF Inv
  <2> QED
    BY <1>2, <2>1, RequestInv DEF RequestWithdrawalWstETH
<1>3. ASSUME NEW b \in ValidBatches, NEW r \in ShareRates, Finalize(b, r)
      PROVE  Inv'
  BY <1>3, FinalizeInv
<1>4. ASSUME NEW s \in Addresses, NEW i \in Ids, NEW h \in Ids, ClaimWithdrawals(s, i, h)
      PROVE  Inv'
  BY <1>4, ClaimInv DEF ClaimWithdrawals
<1>5. ASSUME NEW s \in Addresses, NEW i \in Ids, ClaimWithdrawal(s, i)
      PROVE  Inv'
  <2> DEFINE h == FindCheckpointHint(i, 1, lastCheckpointIndex)
  <2>1. ClaimWithHint(s, i, h)
    BY <1>5 DEF ClaimWithdrawal
  <2>2. h \in 1..lastCheckpointIndex
    BY <2>1 DEF ClaimWithHint, ValidHint
  <2>3. h \in Ids
    BY <2>2 DEF Inv, TypeOK, Ids
  <2> QED
    BY <2>1, <2>3, ClaimInv
<1>6. ASSUME NEW s \in Addresses, NEW f \in Addresses, NEW t \in Addresses, NEW i \in Ids,
             TransferFrom(s, f, t, i)
      PROVE  Inv'
  BY <1>6, TransferInv
<1>7. CASE Resume
  BY <1>7, FrameInv DEF Resume, Inv, TypeOK
<1>8. ASSUME NEW d \in PauseDurations, PauseFor(d)
      PROVE  Inv'
  BY <1>8, FrameInv DEF PauseFor, Inv, TypeOK
<1>9. ASSUME NEW t \in 0..MaxTime \cup {PauseInfinitely}, PauseUntil(t)
      PROVE  Inv'
  BY <1>9, FrameInv DEF PauseUntil, Inv, TypeOK
<1>10. ASSUME NEW b \in BOOLEAN, NEW t \in 0..MaxTime, OnOracleReport(b, t)
       PROVE  Inv'
  BY <1>10, FrameInv DEF OnOracleReport, BunkerModeDisabled, Inv, TypeOK
<1>11. ASSUME NEW p \in Pools, Rebase(p)
       PROVE  Inv'
  BY <1>11, FrameInv DEF Rebase, Inv, TypeOK
<1>12. CASE Tick
  BY <1>12, FrameInv DEF Tick, Inv, TypeOK
<1>13. CASE UNCHANGED vars
  BY <1>13, FrameInv DEF vars, Inv, TypeOK
<1> QED
  BY <1>1, <1>2, <1>3, <1>4, <1>5, <1>6, <1>7, <1>8, <1>9, <1>10, <1>11, <1>12, <1>13,
     ApprovalInv DEF Next

-----------------------------------------------------------------------------
(* The value of a finalized request.                                       *)

\* The hint of a finalized request is the one _calculateClaimableEther accepts.
LEMMA HintUnique ==
  ASSUME Inv, NEW i \in 1..lastFinalizedRequestId
  PROVE  /\ HintOf(i) \in 1..lastCheckpointIndex
         /\ ValidHint(i, HintOf(i))
         /\ \A g \in 1..lastCheckpointIndex : ValidHint(i, g) => g = HintOf(i)
<1>1. PICK h \in 1..lastCheckpointIndex :
        ValidHint(i, h) /\ \A g \in 1..lastCheckpointIndex : ValidHint(i, g) => g = h
  BY DEF Inv, CheckpointsPartition
<1>2. HintOf(i) = h
  BY <1>1 DEF HintOf
<1> QED
  BY <1>1, <1>2

\* Nothing moves a request's amounts once it is in the queue, or a checkpoint
\* once it is made; the hint of a finalized request stays valid.
LEMMA HistoryKept ==
  ASSUME Inv, Next
  PROVE  /\ \A j \in 0..lastRequestId :
              /\ queue'[j].cumulativeStETH = queue[j].cumulativeStETH
              /\ queue'[j].cumulativeShares = queue[j].cumulativeShares
         /\ lastFinalizedRequestId <= lastFinalizedRequestId'
         /\ lastCheckpointIndex <= lastCheckpointIndex'
         /\ \A h \in 1..lastCheckpointIndex :
              /\ checkpoints'[h] = checkpoints[h]
              /\ \A i \in 1..lastFinalizedRequestId : ValidHint(i, h) => ValidHint(i, h)'
<1> DEFINE Kept ==
      /\ \A j \in 0..lastRequestId :
           /\ queue'[j].cumulativeStETH = queue[j].cumulativeStETH
           /\ queue'[j].cumulativeShares = queue[j].cumulativeShares
      /\ lastFinalizedRequestId <= lastFinalizedRequestId'
      /\ lastCheckpointIndex <= lastCheckpointIndex'
      /\ \A h \in 1..lastCheckpointIndex :
           /\ checkpoints'[h] = checkpoints[h]
           /\ \A i \in 1..lastFinalizedRequestId : ValidHint(i, h) => ValidHint(i, h)'
<1> SUFFICES Kept
  OBVIOUS
<1> USE DEF requestVars, finalizeVars, etherVars, approvalVars, reportVars, envVars
<1>1. /\ \A j \in 0..lastRequestId : j \in Ids /\ queue[j] \in Request
      /\ lastRequestId \in Nat /\ lastFinalizedRequestId \in Nat
      /\ lastCheckpointIndex \in Nat /\ lastCheckpointIndex <= lastRequestId
      /\ queue \in [Ids -> Request] /\ checkpoints \in [Ids -> Checkpoint]
  BY DEF Inv, TypeOK, Ids
<1>2. ASSUME UNCHANGED finalizeVars,
             \A j \in 0..lastRequestId :
               /\ queue'[j].cumulativeStETH = queue[j].cumulativeStETH
               /\ queue'[j].cumulativeShares = queue[j].cumulativeShares
      PROVE  Kept
  BY <1>1, <1>2 DEF ValidHint
<1>3. ASSUME NEW s \in Addresses, NEW a \in Nat, NEW o \in Addresses \cup {NoAddress},
             RequestStETH(s, a, o)
      PROVE  Kept
  <2>1. /\ UNCHANGED finalizeVars
        /\ \E r : queue' = [queue EXCEPT ![lastRequestId + 1] = r]
    BY <1>3 DEF RequestStETH, Enqueue
  <2>2. \A j \in 0..lastRequestId : j # lastRequestId + 1
    BY <1>1
  <2>3. \A j \in 0..lastRequestId : queue'[j] = queue[j]
    BY <1>1, <2>1, <2>2
  <2> QED
    BY <1>2, <2>1, <2>3
<1>4. ASSUME NEW b \in ValidBatches, NEW r \in ShareRates, Finalize(b, r)
      PROVE  Kept
  <2> DEFINE cp  == lastCheckpointIndex + 1
             new == [fromRequestId |-> lastFinalizedRequestId + 1, maxShareRate |-> r]
  <2>1. PICK last \in b :
          /\ checkpoints' = [checkpoints EXCEPT ![cp] = new]
          /\ lastCheckpointIndex' = cp
          /\ lastFinalizedRequestId' = last
          /\ queue' = queue
    BY <1>4 DEF Finalize
  <2>2. last \in lastFinalizedRequestId + 1 .. lastRequestId /\ cp \in Ids
    BY <1>1 DEF ValidBatches, Inv, TypeOK, Ids
  <2>3. /\ checkpoints'[cp] = new
        /\ \A h \in 1..lastCheckpointIndex : checkpoints'[h] = checkpoints[h]
    BY <1>1, <2>1, <2>2 DEF Ids
  <2>4. ASSUME NEW h \in 1..lastCheckpointIndex, NEW i \in 1..lastFinalizedRequestId,
               ValidHint(i, h)
        PROVE  ValidHint(i, h)'
    <3>1. CASE h = lastCheckpointIndex
      BY <1>1, <2>1, <2>3, <2>4, <3>1 DEF ValidHint
    <3>2. CASE h < lastCheckpointIndex
      <4>1. h + 1 \in 1..lastCheckpointIndex
        BY <1>1, <3>2
      <4> QED
        BY <1>1, <2>1, <2>3, <2>4, <3>2, <4>1 DEF ValidHint
    <3> QED
      BY <1>1, <3>1, <3>2
  <2> QED
    BY <1>1, <2>1, <2>2, <2>3, <2>4
<1>5. ASSUME NEW s \in Addresses, NEW i \in Ids, NEW h \in Ids \cup {0}, ClaimWithHint(s, i, h)
      PROVE  Kept
  BY <1>1, <1>2, <1>5 DEF ClaimWithHint, Request
<1>6. ASSUME NEW s \in Addresses, NEW f \in Addresses, NEW t \in Addresses, NEW i \in Ids,
             TransferFrom(s, f, t, i)
      PROVE  Kept
  BY <1>1, <1>2, <1>6 DEF TransferFrom, Request
<1>7. ASSUME UNCHANGED <<queue, finalizeVars>> PROVE Kept
  BY <1>2, <1>7
<1>8. CASE \E s \in Addresses, a \in Amounts, o \in Addresses \cup {NoAddress} :
             RequestWithdrawal(s, a, o)
  BY <1>3, <1>8 DEF RequestWithdrawal
<1>9. CASE \E s \in Addresses, w \in WstAmounts, o \in Addresses \cup {NoAddress} :
             RequestWithdrawalWstETH(s, w, o)
  <2>1. \A w \in WstAmounts : PooledEthByShares(w) \in Nat
    BY ConversionsNat DEF Inv
  <2> QED
    BY <1>3, <1>9, <2>1 DEF RequestWithdrawalWstETH
<1>10. CASE \E s \in Addresses, i \in Ids, h \in Ids : ClaimWithdrawals(s, i, h)
  BY <1>5, <1>10 DEF ClaimWithdrawals
<1>11. CASE \E s \in Addresses, i \in Ids : ClaimWithdrawal(s, i)
  <2>1. PICK s \in Addresses, i \in Ids : ClaimWithdrawal(s, i)
    BY <1>11
  <2> DEFINE h == FindCheckpointHint(i, 1, lastCheckpointIndex)
  <2>2. ClaimWithHint(s, i, h)
    BY <2>1 DEF ClaimWithdrawal
  <2>3. h \in 1..lastCheckpointIndex
    BY <2>2 DEF ClaimWithHint, ValidHint
  <2>4. h \in Ids
    BY <2>3 DEF Inv, TypeOK, Ids
  <2> QED
    BY <1>5, <2>2, <2>4
<1> HIDE DEF Kept
<1>12. CASE \/ \E s \in Addresses, t \in Addresses \cup {NoAddress}, i \in Ids : Approve(s, t, i)
            \/ \E s, op \in Addresses, b \in BOOLEAN : SetApprovalForAll(s, op, b)
            \/ Resume
            \/ \E d \in PauseDurations : PauseFor(d)
            \/ \E t \in 0..MaxTime \cup {PauseInfinitely} : PauseUntil(t)
            \/ \E b \in BOOLEAN, t \in 0..MaxTime : OnOracleReport(b, t)
            \/ \E p \in Pools : Rebase(p)
            \/ Tick
  BY <1>7, <1>12 DEF Approve, SetApprovalForAll, Resume, PauseFor, PauseUntil,
                     OnOracleReport, Rebase, Tick
<1> QED
  BY <1>4, <1>6, <1>8, <1>9, <1>10, <1>11, <1>12 DEF Next

\* Only a claim marks a request claimed.
LEMMA ClaimedByClaim ==
  ASSUME Inv, Next, NEW i \in 1..lastRequestId, ~queue[i].claimed, queue'[i].claimed
  PROVE  \E s \in Addresses, h \in 1..lastCheckpointIndex : ClaimWithHint(s, i, h)
<1> USE DEF requestVars
<1>1. /\ i \in Ids /\ i # lastRequestId + 1 /\ queue \in [Ids -> Request]
      /\ lastRequestId \in Nat
  BY DEF Inv, TypeOK, Ids
<1>2. queue' # queue
  OBVIOUS
<1>3. ASSUME NEW s, NEW a, NEW o, RequestStETH(s, a, o) PROVE FALSE
  <2>1. \E r : queue' = [queue EXCEPT ![lastRequestId + 1] = r]
    BY <1>3 DEF RequestStETH, Enqueue
  <2> QED
    BY <1>1, <2>1
<1>4. ASSUME NEW s, NEW f, NEW t, NEW j \in Ids, TransferFrom(s, f, t, j) PROVE FALSE
  BY <1>1, <1>4 DEF TransferFrom, Request
<1>5. ASSUME NEW s, NEW j \in Ids, NEW h, ClaimWithHint(s, j, h)
      PROVE  j = i /\ h \in 1..lastCheckpointIndex
  BY <1>1, <1>5 DEF ClaimWithHint, ValidHint, Request
<1>6. CASE \E s \in Addresses, j \in Ids, h \in Ids : ClaimWithdrawals(s, j, h)
  BY <1>5, <1>6 DEF ClaimWithdrawals
<1>7. CASE \E s \in Addresses, j \in Ids : ClaimWithdrawal(s, j)
  BY <1>5, <1>7 DEF ClaimWithdrawal
<1> QED
  BY <1>2, <1>3, <1>4, <1>6, <1>7
  DEF Next, RequestWithdrawal, RequestWithdrawalWstETH, Finalize, Approve, SetApprovalForAll,
      Resume, PauseFor, PauseUntil, OnOracleReport, Rebase, Tick

\* So a finalized request is worth after a step what it was worth before.
LEMMA ValueKept ==
  ASSUME Inv, Inv', Next, NEW i \in 1..lastFinalizedRequestId
  PROVE  ClaimableEther(i)' = ClaimableEther(i)
<1>1. PICK h \in 1..lastCheckpointIndex : h = HintOf(i) /\ ValidHint(i, h)
  BY HintUnique
<1>2. h \in 1..lastCheckpointIndex' /\ i \in 1..lastFinalizedRequestId' /\ ValidHint(i, h)'
  <2>1. lastCheckpointIndex \in Nat /\ lastCheckpointIndex' \in Nat
        /\ lastFinalizedRequestId \in Nat /\ lastFinalizedRequestId' \in Nat
    BY DEF Inv, TypeOK, Ids
  <2> QED
    BY <1>1, <2>1, HistoryKept DEF ValidHint
<1>3. PICK k \in 1..lastCheckpointIndex' :
        ValidHint(i, k)' /\ \A g \in 1..lastCheckpointIndex' : ValidHint(i, g)' => g = k
  BY <1>2 DEF Inv, CheckpointsPartition
<1>4. HintOf(i)' = h
  <2>1. h = k
    BY <1>2, <1>3 DEF ValidHint
  <2> QED
    BY <1>3, <2>1 DEF HintOf, ValidHint
<1>5. i \in 0..lastRequestId /\ i - 1 \in 0..lastRequestId
  BY DEF Inv, TypeOK, Ids
<1>6. /\ BatchStETH(i - 1, i)' = BatchStETH(i - 1, i)
      /\ BatchShares(i - 1, i)' = BatchShares(i - 1, i)
  BY <1>5, HistoryKept DEF BatchStETH, BatchShares
<1>7. checkpoints'[h] = checkpoints[h]
  BY <1>1, HistoryKept
<1> QED
  BY <1>1, <1>4, <1>6, <1>7
  DEF ClaimableEther, CalculateClaimableEther, BatchEther, BatchShareRate

-----------------------------------------------------------------------------
(* What batches and claims pay.                                            *)
(*                                                                         *)
(* The batch (start, end] is paid as one: nominal when its share rate is   *)
(* not above the report's, else its shares at the report's rate.  Its      *)
(* requests are claimed one by one, each by its own rate and with its own  *)
(* rounding.  Rates are quotients rounded down, so that a request one unit *)
(* below the report's rate may be paid more than its shares are worth: the *)
(* batch covers its requests when none or all of them are above the rate.  *)

\* All requests of (start, end] are above the rate, or none is.
SameSide(start, end, rate) ==
  \/ \A i \in start + 1 .. end : BatchShareRate(i - 1, i) > rate
  \/ \A i \in start + 1 .. end : BatchShareRate(i - 1, i) <= rate

\* The report's batches are such, as those of calculateFinalizationBatches are
\* but for requests made between the same two reports.
OneSidedFinalization ==
  \A b \in ValidBatches, r \in ShareRates :
    Finalize(b, r) => \A end \in b : SameSide(PrevBatchEnd(b, end), end, r)

\* Every request is worth at least one share.
RequestsWorth ==
  \A i \in 1..lastRequestId : queue[i - 1].cumulativeShares < queue[i].cumulativeShares

\* What the finalized requests are worth, and what the unclaimed ones are owed.
ClaimValues == [i \in 1..lastFinalizedRequestId |-> ClaimableEther(i)]
Owed        == SumOf(ClaimValues, Unclaimed)
OwedCovered == Owed <= lockedEtherAmount /\ lockedEtherAmount <= etherBalance

LEMMA QuotientBounds ==
  ASSUME NEW a \in Nat, NEW c \in Nat \ {0}
  PROVE  a \div c \in Nat /\ c * (a \div c) <= a /\ a < c * (a \div c) + c
OBVIOUS

LEMMA QuotientAtLeast ==
  ASSUME NEW a \in Nat, NEW c \in Nat \ {0}, NEW q \in Int, c * q <= a
  PROVE  q <= a \div c
OBVIOUS

LEMMA ProductMonotone ==
  ASSUME NEW x \in Int, NEW y \in Int, NEW c \in Nat, x <= y
  PROVE  c * x <= c * y
OBVIOUS

\* What stETH e for s shares is paid at a rate, as BatchEther.
Paid(e, s, rate) ==
  IF (e * Precision) \div s > rate THEN (s * rate) \div Precision ELSE e

LEMMA PaidBounds ==
  ASSUME NEW e \in Nat, NEW s \in Nat \ {0}, NEW rate \in Nat
  PROVE  /\ Paid(e, s, rate) \in Nat /\ Paid(e, s, rate) <= e
         /\ (e * Precision) \div s > rate => Precision * Paid(e, s, rate) <= s * rate
         /\ (e * Precision) \div s <= rate =>
              Paid(e, s, rate) = e /\ Precision * e + 1 <= s * (rate + 1)
<1> DEFINE a == e * Precision
           q == a \div s
           b == s * rate
           p == b \div Precision
<1>1. a \in Nat /\ b \in Nat
  BY ProductNat
<1>2. q \in Nat /\ s * q <= a /\ a < s * q + s
  <2> HIDE DEF a
  <2> QED BY <1>1, QuotientBounds
<1>3. p \in Nat /\ Precision * p <= b
  <2> HIDE DEF b
  <2> QED BY <1>1, QuotientBounds
<1>4. s * (rate + 1) = b + s
  OBVIOUS
<1>5. Precision * e = a
  OBVIOUS
<1>6. CASE q > rate
  <2>1. Paid(e, s, rate) = p
    BY <1>6 DEF Paid
  <2>2. s * (rate + 1) <= s * q
    <3> HIDE DEF q
    <3> QED BY <1>2, <1>6, ProductMonotone
  <2>3. Precision * p <= Precision * e
    <3>1. Precision * p \in Int
      BY <1>3, ProductNat
    <3>2. s * q \in Nat /\ s * (rate + 1) \in Nat
      BY <1>2, ProductNat
    <3> HIDE DEF a, q, b, p
    <3> QED BY <1>1, <1>2, <1>3, <1>4, <1>5, <2>2, <3>1, <3>2
  <2>4. p <= e
    <3> SUFFICES ASSUME e + 1 <= p PROVE FALSE
      BY <1>3
    <3>1. Precision * (e + 1) <= Precision * p
      <4> HIDE DEF p
      <4> QED BY <1>3, ProductMonotone
    <3>2. Precision * (e + 1) = Precision * e + Precision
      OBVIOUS
    <3>3. Precision * p \in Int /\ Precision * e \in Int
      BY <1>3, ProductNat
    <3> HIDE DEF a, q, b, p
    <3> QED BY <2>3, <3>1, <3>2, <3>3
  <2> QED BY <1>3, <1>6, <2>1, <2>4
<1>7. CASE q <= rate
  <2>1. Paid(e, s, rate) = e
    BY <1>2, <1>7 DEF Paid
  <2>2. s * q <= b
    <3> HIDE DEF q
    <3> QED BY <1>2, <1>7, ProductMonotone
  <2>3. Precision * e + 1 <= s * (rate + 1)
    <3>1. s * q \in Nat
      BY <1>2, ProductNat
    <3> HIDE DEF a, q, b, p
    <3> QED BY <1>1, <1>2, <1>4, <1>5, <2>2, <3>1
  <2>4. ~ (q > rate)
    BY <1>2, <1>7
  <2> QED BY <2>1, <2>3, <2>4
<1> QED BY <1>2, <1>6, <1>7

\* A sum of payments is covered by the payment of the batch: when all are
\* discounted, and when none is.
LEMMA PaidCovers ==
  ASSUME NEW e \in Nat, NEW s \in Nat \ {0}, NEW rate \in Nat, NEW sum \in Int, sum <= e,
         \/ Precision * sum <= s * rate
         \/ Precision * e + 1 <= s * (rate + 1)
  PROVE  sum <= Paid(e, s, rate)
<1> DEFINE a == e * Precision
           q == a \div s
           b == s * rate
<1>1. a \in Nat /\ b \in Nat
  BY ProductNat
<1>2. q \in Nat /\ s * q <= a
  <2> HIDE DEF a
  <2> QED BY <1>1, QuotientBounds
<1>3. CASE q <= rate
  BY <1>2, <1>3 DEF Paid
<1>4. CASE q > rate
  <2>1. s * (rate + 1) <= s * q
    <3> HIDE DEF q
    <3> QED BY <1>2, <1>4, ProductMonotone
  <2>2. Precision * sum <= b
    <3>1. Precision * e = a
      OBVIOUS
    <3>2. s * q \in Nat /\ s * (rate + 1) \in Nat
      BY <1>2, ProductNat
    <3> HIDE DEF a, q
    <3> QED BY <1>1, <1>2, <2>1, <3>1, <3>2
  <2>3. sum <= b \div Precision
    <3> HIDE DEF b
    <3> QED BY <1>1, <2>2, QuotientAtLeast
  <2> QED BY <1>4, <2>3 DEF Paid
<1> QED BY <1>2, <1>3, <1>4

\* A queue's batch has a positive number of shares.
LEMMA BatchSizes ==
  ASSUME TypeOK, CumulativeMonotone, RequestsWorth,
         NEW start \in 0..lastRequestId, NEW end \in start + 1 .. lastRequestId
  PROVE  BatchStETH(start, end) \in Nat /\ BatchShares(start, end) \in Nat \ {0}
<1>1. /\ start \in Ids /\ end \in Ids /\ end - 1 \in Ids /\ start <= end - 1
      /\ end \in 0..lastRequestId /\ end - 1 \in 0..lastRequestId /\ end \in 1..lastRequestId
  BY DEF TypeOK, Ids
<1>2. queue[start] \in Request /\ queue[end] \in Request /\ queue[end - 1] \in Request
  BY <1>1 DEF TypeOK
<1>3. queue[start].cumulativeStETH <= queue[end].cumulativeStETH
  BY <1>1 DEF CumulativeMonotone
<1>4. queue[start].cumulativeShares <= queue[end - 1].cumulativeShares
  BY <1>1 DEF CumulativeMonotone
<1>5. queue[end - 1].cumulativeShares < queue[end].cumulativeShares
  BY <1>1 DEF RequestsWorth
<1> QED BY <1>2, <1>3, <1>4, <1>5 DEF BatchStETH, BatchShares, Request

\* BatchEther is Paid, and so bounded.
LEMMA BatchEtherBounds ==
  ASSUME TypeOK, CumulativeMonotone, RequestsWorth, NEW rate \in Nat,
         NEW start \in 0..lastRequestId, NEW end \in start + 1 .. lastRequestId
  PROVE  /\ BatchEther(start, end, rate) = Paid(BatchStETH(start, end), BatchShares(start, end), rate)
         /\ BatchEther(start, end, rate) \in Nat
         /\ BatchEther(start, end, rate) <= BatchStETH(start, end)
         /\ BatchShareRate(start, end) > rate =>
              Precision * BatchEther(start, end, rate) <= BatchShares(start, end) * rate
         /\ BatchShareRate(start, end) <= rate =>
              /\ BatchEther(start, end, rate) = BatchStETH(start, end)
              /\ Precision * BatchStETH(start, end) + 1 <= BatchShares(start, end) * (rate + 1)
<1> DEFINE e == BatchStETH(start, end)
           s == BatchShares(start, end)
<1>1. e \in Nat /\ s \in Nat \ {0}
  BY BatchSizes
<1>2. BatchEther(start, end, rate) = Paid(e, s, rate)
  BY DEF BatchEther, BatchShareRate, Paid
<1>3. BatchShareRate(start, end) = (e * Precision) \div s
  BY DEF BatchShareRate
<1> HIDE DEF e, s
<1>4. /\ Paid(e, s, rate) \in Nat /\ Paid(e, s, rate) <= e
      /\ (e * Precision) \div s > rate => Precision * Paid(e, s, rate) <= s * rate
      /\ (e * Precision) \div s <= rate =>
           Paid(e, s, rate) = e /\ Precision * e + 1 <= s * (rate + 1)
  BY <1>1, PaidBounds
<1> HIDE DEF Paid
<1> QED BY <1>2, <1>3, <1>4, Zenon DEF e, s

\* What the requests of a batch are paid on claim is at most what was locked for
\* the batch, when they are on one side of the rate.
LEMMA BatchCovers ==
  ASSUME TypeOK, CumulativeMonotone, RequestsWorth, NEW rate \in Nat,
         NEW start \in 0..lastRequestId, NEW end \in start + 1 .. lastRequestId,
         SameSide(start, end, rate), NEW paid,
         \A n \in start..end : paid[n] \in Int,
         \A n \in start + 1 .. end : paid[n] - paid[n - 1] = BatchEther(n - 1, n, rate)
  PROVE  paid[end] - paid[start] <= BatchEther(start, end, rate)
<1> DEFINE eth    == [n \in start..end |-> queue[n].cumulativeStETH]
           worth  == [n \in start..end |-> queue[n].cumulativeShares * rate]
           scaled == [n \in start..end |-> Precision * paid[n]]
           nom    == [n \in start..end |-> Precision * queue[n].cumulativeStETH + n]
           above  == [n \in start..end |-> queue[n].cumulativeShares * (rate + 1)]
           sum    == paid[end] - paid[start]
           e      == BatchStETH(start, end)
           s      == BatchShares(start, end)
<1>1. /\ start \in Nat /\ end \in Nat /\ start <= end /\ end \in start..end /\ start \in start..end
      /\ \A n \in start..end : n \in Ids /\ n \in 0..lastRequestId /\ n \in Int
      /\ \A n \in start + 1 .. end : /\ n \in start..end /\ n - 1 \in start..end
                                     /\ n - 1 \in 0..lastRequestId
                                     /\ n \in n - 1 + 1 .. lastRequestId
  BY DEF TypeOK, Ids
<1>2. \A n \in start..end : queue[n].cumulativeStETH \in Nat /\ queue[n].cumulativeShares \in Nat
  BY <1>1 DEF TypeOK, Request
<1>3. e \in Nat /\ s \in Nat \ {0}
  BY BatchSizes
<1>4. ASSUME NEW n \in start + 1 .. end
      PROVE  /\ paid[n] - paid[n - 1] <= BatchStETH(n - 1, n)
             /\ BatchShareRate(n - 1, n) > rate =>
                  Precision * (paid[n] - paid[n - 1]) <= BatchShares(n - 1, n) * rate
             /\ BatchShareRate(n - 1, n) <= rate =>
                  Precision * BatchStETH(n - 1, n) + 1 <= BatchShares(n - 1, n) * (rate + 1)
  <2>1. n - 1 \in 0..lastRequestId /\ n \in n - 1 + 1 .. lastRequestId
    BY <1>1
  <2>2. paid[n] - paid[n - 1] = BatchEther(n - 1, n, rate)
    OBVIOUS
  <2> QED BY <2>1, <2>2, BatchEtherBounds
<1>5. sum \in Int /\ sum <= e
  <2>1. \A n \in start..end : paid[n] \in Int /\ eth[n] \in Int
    BY <1>2
  <2>2. \A n \in start + 1 .. end : paid[n] - paid[n - 1] <= eth[n] - eth[n - 1]
    BY <1>1, <1>4 DEF BatchStETH
  <2>3. paid[end] - paid[start] <= eth[end] - eth[start]
    <3> HIDE DEF eth
    <3> QED BY <1>1, <2>1, <2>2, StepwiseGrowth
  <2> QED BY <1>1, <2>1, <2>3 DEF BatchStETH
<1>6. CASE \A i \in start + 1 .. end : BatchShareRate(i - 1, i) > rate
  <2>1. \A n \in start..end : scaled[n] \in Int /\ worth[n] \in Int
    BY <1>2
  <2>2. ASSUME NEW n \in start + 1 .. end
        PROVE  scaled[n] - scaled[n - 1] <= worth[n] - worth[n - 1]
    <3>1. Precision * (paid[n] - paid[n - 1]) <= BatchShares(n - 1, n) * rate
      BY <1>4, <1>6
    <3>2. /\ paid[n] \in Int /\ paid[n - 1] \in Int
          /\ queue[n].cumulativeShares \in Int /\ queue[n - 1].cumulativeShares \in Int
      BY <1>1, <1>2
    <3>3. Precision * (paid[n] - paid[n - 1]) = Precision * paid[n] - Precision * paid[n - 1]
      BY <3>2
    <3>4. BatchShares(n - 1, n) * rate
            = queue[n].cumulativeShares * rate - queue[n - 1].cumulativeShares * rate
      BY <3>2 DEF BatchShares
    <3> QED BY <1>1, <3>1, <3>3, <3>4
  <2>3. scaled[end] - scaled[start] <= worth[end] - worth[start]
    <3> HIDE DEF scaled, worth
    <3> QED BY <1>1, <2>1, <2>2, StepwiseGrowth
  <2>4. Precision * sum <= s * rate
    <3>1. /\ paid[end] \in Int /\ paid[start] \in Int
          /\ queue[end].cumulativeShares \in Int /\ queue[start].cumulativeShares \in Int
      BY <1>1, <1>2
    <3>2. Precision * sum = Precision * paid[end] - Precision * paid[start]
      BY <3>1
    <3>3. s * rate = queue[end].cumulativeShares * rate - queue[start].cumulativeShares * rate
      BY <3>1 DEF BatchShares
    <3> QED BY <1>1, <2>3, <3>2, <3>3
  <2>5. sum <= Paid(e, s, rate)
    <3> HIDE DEF sum, e, s
    <3> QED BY <1>3, <1>5, <2>4, PaidCovers
  <2> QED BY <2>5, BatchEtherBounds
<1>7. CASE \A i \in start + 1 .. end : BatchShareRate(i - 1, i) <= rate
  <2>1. \A n \in start..end : nom[n] \in Int /\ above[n] \in Int
    BY <1>1, <1>2
  <2>2. ASSUME NEW n \in start + 1 .. end
        PROVE  nom[n] - nom[n - 1] <= above[n] - above[n - 1]
    <3>1. Precision * BatchStETH(n - 1, n) + 1 <= BatchShares(n - 1, n) * (rate + 1)
      BY <1>4, <1>7
    <3>2. /\ queue[n].cumulativeStETH \in Int /\ queue[n - 1].cumulativeStETH \in Int
          /\ queue[n].cumulativeShares \in Int /\ queue[n - 1].cumulativeShares \in Int
      BY <1>1, <1>2
    <3>3. Precision * BatchStETH(n - 1, n)
            = Precision * queue[n].cumulativeStETH - Precision * queue[n - 1].cumulativeStETH
      BY <3>2 DEF BatchStETH
    <3>4. BatchShares(n - 1, n) * (rate + 1)
            = queue[n].cumulativeShares * (rate + 1) - queue[n - 1].cumulativeShares * (rate + 1)
      BY <3>2 DEF BatchShares
    <3>5. nom[n] - nom[n - 1] = Precision * queue[n].cumulativeStETH
                                  - Precision * queue[n - 1].cumulativeStETH + 1
      BY <1>1, <3>2
    <3> QED BY <1>1, <3>1, <3>3, <3>4, <3>5
  <2>3. nom[end] - nom[start] <= above[end] - above[start]
    <3> HIDE DEF nom, above
    <3> QED BY <1>1, <2>1, <2>2, StepwiseGrowth
  <2>4. Precision * e + 1 <= s * (rate + 1)
    <3>1. /\ queue[end].cumulativeStETH \in Int /\ queue[start].cumulativeStETH \in Int
          /\ queue[end].cumulativeShares \in Int /\ queue[start].cumulativeShares \in Int
      BY <1>1, <1>2
    <3>2. Precision * e = Precision * queue[end].cumulativeStETH
                            - Precision * queue[start].cumulativeStETH
      BY <3>1 DEF BatchStETH
    <3>3. s * (rate + 1) = queue[end].cumulativeShares * (rate + 1)
                             - queue[start].cumulativeShares * (rate + 1)
      BY <3>1 DEF BatchShares
    <3>4. nom[end] - nom[start] = Precision * queue[end].cumulativeStETH
                                    - Precision * queue[start].cumulativeStETH + (end - start)
      BY <1>1, <3>1
    <3>5. 1 <= end - start
      BY <1>1
    <3>6. above[end] - above[start] = s * (rate + 1)
      BY <1>1, <3>3
    <3>7. Precision * e \in Int /\ s * (rate + 1) \in Int
      BY <1>3
    <3>8. nom[end] - nom[start] = Precision * e + (end - start)
      BY <1>1, <3>2, <3>4
    <3> HIDE DEF e, s, nom, above
    <3> QED BY <1>1, <2>3, <3>5, <3>6, <3>7, <3>8
  <2>5. sum <= Paid(e, s, rate)
    <3> HIDE DEF sum, e, s
    <3> QED BY <1>3, <1>5, <2>4, PaidCovers
  <2> QED BY <2>5, BatchEtherBounds
<1> QED BY <1>6, <1>7 DEF SameSide

\* prefinalize adds up what the batches are paid.
LEMMA EthToLockIsSum ==
  ASSUME NEW batches, IsFiniteSet(batches), NEW rate, NEW f,
         \A b \in batches : f[b] = BatchEther(PrevBatchEnd(batches, b), b, rate)
  PROVE  EthToLock(batches, rate) = SumOf(f, batches)
<1> DEFINE V(b)    == BatchEther(PrevBatchEnd(batches, b), b, rate)
           Step(h) == [s \in SUBSET batches |->
                         IF s = {} THEN 0 ELSE V(Taken(s)) + h[s \ {Taken(s)}]]
           iter    == CHOOSE h : h = Step(h)
<1>1. EthToLock(batches, rate) = iter[batches]
  BY DEF EthToLock, MapThenSumSet, MapThenFoldSet, Taken
<1>2. \A b \in batches : f[b] = V(b)
  OBVIOUS
<1> HIDE DEF V
<1>3. ASSUME NEW h PROVE h = Step(h) <=> Sums(h, f, batches)
  <2>1. \A s \in SUBSET batches : s # {} => Taken(s) \in batches
    BY DEF Taken
  <2>2. Step(h) = [s \in SUBSET batches |->
                     IF s = {} THEN 0 ELSE f[Taken(s)] + h[s \ {Taken(s)}]]
    BY <1>2, <2>1
  <2> QED BY <2>2 DEF Sums
<1> HIDE DEF Step
<1>4. (\E h : Sums(h, f, batches)) => Sums(iter, f, batches)
  <2>1. (\E h : h = Step(h)) => iter = Step(iter)
    OBVIOUS
  <2> HIDE DEF iter
  <2> QED BY <1>3, <2>1
<1> HIDE DEF iter
<1>5. iter[batches] = SumOf(f, batches)
  BY <1>4, SumIterated
<1> QED BY <1>1, <1>5

\* The end of a batch and the one before it, as positions in the queue.
LEMMA BatchEndBounds ==
  ASSUME TypeOK, NEW batches \in ValidBatches
  PROVE  /\ lastFinalizedRequestId \in Nat /\ lastRequestId \in Nat
         /\ \A b \in batches : b \in lastFinalizedRequestId + 1 .. lastRequestId
         /\ IsFiniteSet(batches) /\ batches # {}
         /\ \A b \in batches :
              /\ PrevBatchEnd(batches, b) = Before(lastFinalizedRequestId, batches, b)
              /\ PrevBatchEnd(batches, b) \in 0..lastRequestId
              /\ PrevBatchEnd(batches, b) \in lastFinalizedRequestId..lastRequestId
              /\ b \in PrevBatchEnd(batches, b) + 1 .. lastRequestId
<1> DEFINE lo == lastFinalizedRequestId
           hi == lastRequestId
<1>1. lo \in Nat /\ hi \in Nat /\ lo <= hi
  BY DEF TypeOK, Ids
<1>2. /\ \A b \in batches : b \in lo + 1 .. hi
      /\ batches # {}
  BY DEF ValidBatches
<1>3. IsFiniteSet(batches)
  <2>1. batches \subseteq lo + 1 .. hi
    BY <1>2
  <2>2. IsFiniteSet(lo + 1 .. hi)
    BY <1>1, FS_Interval
  <2> QED BY <2>1, <2>2, FS_Subset
<1>4. ASSUME NEW b \in batches
      PROVE  /\ PrevBatchEnd(batches, b) = Before(lo, batches, b)
             /\ Before(lo, batches, b) \in lo .. b - 1
  <2>1. \A c \in batches : c \in Nat /\ lo < c
    BY <1>1, <1>2
  <2>2. Before(lo, batches, b) \in lo .. b - 1
    <3> HIDE DEF lo, hi
    <3> QED BY <1>1, <2>1, BeforeBounds
  <2> QED BY <2>2 DEF PrevBatchEnd, Before, UpTo
<1>5. ASSUME NEW b \in batches
      PROVE  /\ PrevBatchEnd(batches, b) \in 0..hi /\ PrevBatchEnd(batches, b) \in lo..hi
             /\ b \in PrevBatchEnd(batches, b) + 1 .. hi
  <2> DEFINE p == PrevBatchEnd(batches, b)
  <2>1. p \in lo .. b - 1 /\ b \in lo + 1 .. hi
    BY <1>2, <1>4
  <2> HIDE DEF p
  <2>2. p \in 0..hi /\ p \in lo..hi /\ b \in p + 1 .. hi
    BY <1>1, <2>1
  <2> QED BY <2>2 DEF p
<1> QED BY <1>1, <1>2, <1>3, <1>4, <1>5

\* A quantity that grows over the queue grows, up to the last batch, by the sum of
\* its growth over the batches.
LEMMA GrowthOverBatches ==
  ASSUME TypeOK, NEW batches \in ValidBatches, NEW last \in batches,
         \A b \in batches : b <= last,
         NEW amount, \A n \in lastFinalizedRequestId..lastRequestId : amount[n] \in Int
  PROVE  LET growth == [b \in batches |-> amount[b] - amount[PrevBatchEnd(batches, b)]]
         IN  /\ \A b \in batches : growth[b] \in Int
             /\ SumOf(growth, batches) = amount[last] - amount[lastFinalizedRequestId]
<1> DEFINE lo     == lastFinalizedRequestId
           growth == [b \in batches |-> amount[b] - amount[PrevBatchEnd(batches, b)]]
<1>1. /\ lo \in Nat /\ lastRequestId \in Nat /\ last \in lo + 1 .. lastRequestId
      /\ \A b \in batches : b \in lo + 1 .. lastRequestId
  BY BatchEndBounds
<1>2. last \in Nat /\ lo <= last /\ \A b \in batches : b \in lo + 1 .. last
  BY <1>1
<1>3. \A n \in lo..last : amount[n] \in Int
  BY <1>1, <1>2
<1>4. \A b \in batches : growth[b] = amount[b] - amount[Before(lo, batches, b)]
  BY BatchEndBounds
<1> DEFINE top == last + 1
<1>5. SumOf(growth, batches) = amount[Before(lo, batches, top)] - amount[lo]
  <2>1. lo \in Nat /\ top \in Nat /\ lo < top
    BY <1>1, <1>2
  <2>2. \A b \in batches : b \in Nat /\ lo < b /\ b < top
    BY <1>1, <1>2
  <2>3. \A n \in Nat : lo <= n /\ n < top => amount[n] \in Int
    BY <1>1, <1>2, <1>3
  <2> HIDE DEF growth, lo, top
  <2> QED BY <2>1, <2>2, <2>3, <1>4, Telescoping
<1>6. Before(lo, batches, top) = last
  <2>1. lo \in Nat /\ last \in Nat /\ top \in Nat /\ lo < top /\ last < top
    BY <1>1, <1>2
  <2>2. \A b \in batches : b \in Nat /\ lo < b
    BY <1>1, <1>2
  <2>3. /\ Before(lo, batches, top) \in lo .. top - 1
        /\ \A b \in UpTo(lo, batches, top) : b <= Before(lo, batches, top)
    <3> HIDE DEF lo, top, growth
    <3> QED BY <2>1, <2>2, BeforeBounds
  <2>4. last \in UpTo(lo, batches, top)
    BY <2>1 DEF UpTo
  <2>5. last <= Before(lo, batches, top)
    BY <2>3, <2>4
  <2> QED BY <1>2, <2>3, <2>5
<1>7. ASSUME NEW b \in batches PROVE growth[b] \in Int
  <2>1. b \in lo..lastRequestId /\ PrevBatchEnd(batches, b) \in lo..lastRequestId
    BY <1>1, BatchEndBounds
  <2>2. amount[b] \in Int /\ amount[PrevBatchEnd(batches, b)] \in Int
    BY <2>1
  <2> QED BY <2>2
<1> QED BY <1>5, <1>6, <1>7

\* What prefinalize asks for is at most the nominal amount of the requests.
LEMMA LockFits ==
  ASSUME TypeOK, CumulativeMonotone, RequestsWorth, NEW batches \in ValidBatches,
         NEW rate \in Nat, NEW last \in batches, \A b \in batches : b <= last
  PROVE  EthToLock(batches, rate) <= BatchStETH(lastFinalizedRequestId, last)
<1> DEFINE lo     == lastFinalizedRequestId
           eth    == [n \in lo..lastRequestId |-> queue[n].cumulativeStETH]
           paid   == [b \in batches |-> BatchEther(PrevBatchEnd(batches, b), b, rate)]
           growth == [b \in batches |-> eth[b] - eth[PrevBatchEnd(batches, b)]]
<1>1. \A n \in lo..lastRequestId : n \in Ids /\ eth[n] \in Int
  BY DEF TypeOK, Ids, Request
<1>2. /\ \A b \in batches : growth[b] \in Int
      /\ SumOf(growth, batches) = eth[last] - eth[lo]
  <2> HIDE DEF eth
  <2> QED BY <1>1, GrowthOverBatches
<1>3. ASSUME NEW b \in batches
      PROVE  paid[b] \in Int /\ growth[b] \in Int /\ paid[b] <= growth[b]
  <2> DEFINE p == PrevBatchEnd(batches, b)
  <2>1. p \in 0..lastRequestId /\ b \in p + 1 .. lastRequestId /\ p \in lo..lastRequestId
        /\ b \in lo..lastRequestId
    BY BatchEndBounds
  <2>2. BatchEther(p, b, rate) \in Nat /\ BatchEther(p, b, rate) <= BatchStETH(p, b)
    <3> HIDE DEF p
    <3> QED BY <2>1, BatchEtherBounds
  <2>3. growth[b] = BatchStETH(p, b)
    BY <2>1 DEF BatchStETH
  <2>4. paid[b] = BatchEther(p, b, rate)
    OBVIOUS
  <2> HIDE DEF growth, paid, p
  <2> QED BY <1>2, <2>2, <2>3, <2>4
<1>4. SumOf(paid, batches) <= SumOf(growth, batches)
  <2>1. IsFiniteSet(batches)
    BY BatchEndBounds
  <2> HIDE DEF paid, growth
  <2> QED BY <1>3, <2>1, SumAtMost
<1>5. EthToLock(batches, rate) = SumOf(paid, batches)
  <2>1. IsFiniteSet(batches)
    BY BatchEndBounds
  <2> QED BY <2>1, EthToLockIsSum
<1>6. eth[last] - eth[lo] = BatchStETH(lo, last)
  <2>1. last \in lo..lastRequestId /\ lo \in lo..lastRequestId
    BY BatchEndBounds
  <2> QED BY <2>1 DEF BatchStETH
<1> HIDE DEF eth, paid, growth
<1> QED BY <1>2, <1>4, <1>5, <1>6

\* What is locked covers the requests it finalizes.
LEMMA LockCovers ==
  ASSUME TypeOK, CumulativeMonotone, RequestsWorth, NEW batches \in ValidBatches,
         NEW rate \in Nat, NEW last \in batches, \A b \in batches : b <= last,
         \A b \in batches : SameSide(PrevBatchEnd(batches, b), b, rate),
         NEW value,
         \A i \in lastFinalizedRequestId + 1 .. last : value[i] = BatchEther(i - 1, i, rate)
  PROVE  SumOf(value, lastFinalizedRequestId + 1 .. last) <= EthToLock(batches, rate)
<1> DEFINE lo     == lastFinalizedRequestId
           v      == [i \in lo + 1 .. lastRequestId |-> BatchEther(i - 1, i, rate)]
           paid   == [n \in lo..lastRequestId |-> SumOf(v, lo + 1 .. n)]
           locked == [b \in batches |-> BatchEther(PrevBatchEnd(batches, b), b, rate)]
           growth == [b \in batches |-> paid[b] - paid[PrevBatchEnd(batches, b)]]
<1>1. /\ lo \in Nat /\ lastRequestId \in Nat /\ lo <= lastRequestId
      /\ last \in lo + 1 .. lastRequestId
      /\ IsFiniteSet(batches)
  BY BatchEndBounds DEF TypeOK
<1>2. \A i \in lo + 1 .. lastRequestId : v[i] \in Int
  <2> SUFFICES ASSUME NEW i \in lo + 1 .. lastRequestId PROVE v[i] \in Int
    OBVIOUS
  <2>1. i - 1 \in 0..lastRequestId /\ i \in i - 1 + 1 .. lastRequestId
    BY <1>1
  <2>2. BatchEther(i - 1, i, rate) \in Nat
    BY <2>1, BatchEtherBounds
  <2> QED BY <2>2
<1>3. \A n \in lo..lastRequestId : paid[n] \in Int
  <2> SUFFICES ASSUME NEW n \in lo..lastRequestId PROVE paid[n] \in Int
    OBVIOUS
  <2>1. IsFiniteSet(lo + 1 .. n)
    BY <1>1, FS_Interval
  <2>2. \A i \in lo + 1 .. n : v[i] \in Int
    BY <1>1, <1>2
  <2>3. SumOf(v, lo + 1 .. n) \in Int
    <3> HIDE DEF v, lo
    <3> QED BY <2>1, <2>2, SumIsInt
  <2> QED BY <2>3
<1>4. ASSUME NEW n \in lo + 1 .. lastRequestId
      PROVE  paid[n] - paid[n - 1] = BatchEther(n - 1, n, rate)
  <2> DEFINE S == lo + 1 .. n
             T == lo + 1 .. n - 1
  <2>1. n \in S /\ S \ {n} = T /\ n \in lo..lastRequestId /\ n - 1 \in lo..lastRequestId
    BY <1>1
  <2>2. IsFiniteSet(S) /\ IsFiniteSet(T)
    <3>1. IsFiniteSet(S)
      BY <1>1, FS_Interval
    <3> QED BY <3>1, <2>1, FS_Subset
  <2>3. \A i \in S : v[i] \in Int
    BY <1>1, <1>2
  <2>4. SumOf(v, S) = v[n] + SumOf(v, S \ {n})
    <3> HIDE DEF v, S
    <3> QED BY <2>1, <2>2, <2>3, SumTakes
  <2>5. paid[n] = SumOf(v, S) /\ paid[n - 1] = SumOf(v, T)
    BY <2>1
  <2>6. paid[n - 1] \in Int /\ v[n] \in Int /\ v[n] = BatchEther(n - 1, n, rate)
    BY <2>1, <1>2, <1>3
  <2> HIDE DEF v, S, T, paid
  <2>7. paid[n] = v[n] + paid[n - 1]
    BY <2>1, <2>4, <2>5
  <2>8. ASSUME NEW x, NEW y \in Int, NEW z \in Int, x = z + y PROVE x - y = z
    BY <2>8
  <2>9. paid[n] - paid[n - 1] = v[n]
    BY <2>6, <2>7, <2>8
  <2> QED BY <2>6, <2>9
<1>5. /\ \A b \in batches : growth[b] \in Int
      /\ SumOf(growth, batches) = paid[last] - paid[lo]
  <2> HIDE DEF paid
  <2> QED BY <1>3, GrowthOverBatches
<1>6. ASSUME NEW b \in batches
      PROVE  growth[b] \in Int /\ locked[b] \in Int /\ growth[b] <= locked[b]
  <2> DEFINE p == PrevBatchEnd(batches, b)
  <2>1. /\ p \in 0..lastRequestId /\ b \in p + 1 .. lastRequestId /\ p \in lo..lastRequestId
        /\ b \in lo..lastRequestId /\ lo \in Nat
    BY BatchEndBounds
  <2>2. SameSide(p, b, rate)
    OBVIOUS
  <2>3. /\ \A n \in p..b : paid[n] \in Int
        /\ \A n \in p + 1 .. b : paid[n] - paid[n - 1] = BatchEther(n - 1, n, rate)
    <3>1. \A n \in p..b : n \in lo..lastRequestId
      BY <1>1, <2>1
    <3>2. \A n \in p + 1 .. b : n \in lo + 1 .. lastRequestId
      BY <1>1, <2>1
    <3> HIDE DEF paid, p
    <3> QED BY <1>3, <1>4, <3>1, <3>2
  <2>4. paid[b] - paid[p] <= BatchEther(p, b, rate) /\ BatchEther(p, b, rate) \in Nat
    <3> HIDE DEF paid, p, growth, locked, v
    <3>1. p \in 0..lastRequestId /\ b \in p + 1 .. lastRequestId
      BY <2>1
    <3>2. BatchEther(p, b, rate) \in Nat
      BY <3>1, BatchEtherBounds
    <3>3. paid[b] - paid[p] <= BatchEther(p, b, rate)
      BY <3>1, <2>2, <2>3, BatchCovers
    <3> QED BY <3>2, <3>3
  <2>5. growth[b] = paid[b] - paid[p] /\ locked[b] = BatchEther(p, b, rate)
    OBVIOUS
  <2> HIDE DEF growth, locked, paid, p
  <2> QED BY <1>5, <2>4, <2>5
<1>7. SumOf(growth, batches) <= SumOf(locked, batches)
  <2> HIDE DEF growth, locked
  <2> QED BY <1>1, <1>6, SumAtMost
<1>8. EthToLock(batches, rate) = SumOf(locked, batches)
  BY <1>1, EthToLockIsSum
<1>9. paid[lo] = 0
  <2>1. lo + 1 .. lo = {}
    BY <1>1
  <2>2. SumOf(v, lo + 1 .. lo) = 0
    BY <2>1, SumEmpty
  <2> QED BY <1>1, <2>2
<1>10. SumOf(value, lo + 1 .. last) = paid[last]
  <2>1. \A i \in lo + 1 .. last : value[i] = v[i]
    BY <1>1
  <2>2. IsFiniteSet(lo + 1 .. last)
    BY <1>1, FS_Interval
  <2>3. SumOf(value, lo + 1 .. last) = SumOf(v, lo + 1 .. last)
    <3> HIDE DEF v, lo
    <3> QED BY <2>1, <2>2, SumSame
  <2> QED BY <1>1, <2>3
<1>11. paid[last] \in Int
  BY <1>1, <1>3
<1> HIDE DEF paid, growth, locked
<1> QED BY <1>5, <1>7, <1>8, <1>9, <1>10, <1>11

\* Every finalized request has a natural number as its value.
LEMMA ValuesNat ==
  ASSUME Inv
  PROVE  /\ \A i \in 1..lastFinalizedRequestId : ClaimValues[i] \in Nat
         /\ Unclaimed \subseteq 1..lastFinalizedRequestId /\ IsFiniteSet(Unclaimed)
<1>1. lastFinalizedRequestId \in Nat /\ lastRequestId \in Nat
      /\ \A i \in 1..lastFinalizedRequestId : i \in 1..lastRequestId
  BY DEF Inv, TypeOK, Ids
<1>2. ASSUME NEW i \in 1..lastFinalizedRequestId PROVE ClaimValues[i] \in Nat
  <2>1. HintOf(i) \in Ids
    BY HintUnique DEF Inv, TypeOK, Ids
  <2>2. CalculateClaimableEther(i, HintOf(i)) \in Nat
    BY <1>1, <2>1, ClaimableNat DEF Inv
  <2> QED BY <2>2 DEF ClaimValues, ClaimableEther
<1>3. Unclaimed \subseteq 1..lastFinalizedRequestId
  BY DEF Unclaimed
<1>4. IsFiniteSet(1..lastFinalizedRequestId)
  BY <1>1, FS_Interval
<1> QED BY <1>2, <1>3, <1>4, FS_Subset

LEMMA ValuesAlwaysNat ==
  Inv => \A i \in 1..lastFinalizedRequestId : ClaimValues[i] \in Nat
BY ValuesNat

LEMMA ValuesNatNext ==
  Inv' => (\A i \in 1..lastFinalizedRequestId : ClaimValues[i] \in Nat)'
BY ValuesAlwaysNat, PTL

LEMMA WorthInit == Init => RequestsWorth
  BY DEF Init, RequestsWorth

\* A request asks for at least MIN_STETH_WITHDRAWAL_AMOUNT, which buys a share.
LEMMA WorthNext ==
  ASSUME Inv, Inv', Next, RequestsWorth
  PROVE  RequestsWorth'
<1>0. lastRequestId \in Nat /\ queue \in [Ids -> Request] /\ pool \in Pools
  BY DEF Inv, TypeOK, Ids
<1>1. ASSUME NEW s, NEW a \in Nat, NEW o, RequestStETH(s, a, o)
      PROVE  RequestsWorth'
  <2> DEFINE id == lastRequestId + 1
  <2>1. /\ lastRequestId' = id /\ id <= MaxRequests /\ MinAmount <= a
        /\ \E r : /\ r.cumulativeShares = queue[lastRequestId].cumulativeShares
                                            + SharesByPooledEth(a)
                  /\ queue' = [queue EXCEPT ![id] = r]
    BY <1>1 DEF RequestStETH, Enqueue
  <2>2. id \in Ids /\ lastRequestId \in Ids /\ lastRequestId # id
    BY <1>0, <2>1 DEF Ids
  <2>3. queue'[id].cumulativeShares = queue'[lastRequestId].cumulativeShares + SharesByPooledEth(a)
    BY <1>0, <2>1, <2>2
  <2>4. SharesByPooledEth(a) \in Nat /\ SharesByPooledEth(a) >= 1
    <3> DEFINE eth == pool.ether
               shs == pool.shares
    <3>1. eth \in Nat \ {0} /\ shs \in Nat \ {0} /\ MinAmount * shs >= eth
      BY <1>0, ShareWorthAssumption
    <3> HIDE DEF eth, shs
    <3>2. shs * MinAmount <= shs * a
      BY <2>1, <3>1, ProductMonotone
    <3>3. a * shs \in Nat /\ shs * a = a * shs /\ shs * MinAmount = MinAmount * shs
          /\ MinAmount * shs \in Nat
      BY <3>1
    <3>4. eth * 1 <= a * shs
      BY <3>1, <3>2, <3>3
    <3>5. (a * shs) \div eth \in Nat /\ 1 <= (a * shs) \div eth
      <4> DEFINE p == a * shs
      <4>1. p \in Nat /\ eth * 1 <= p
        BY <3>3, <3>4
      <4> HIDE DEF p
      <4>2. p \div eth \in Nat /\ 1 <= p \div eth
        BY <3>1, <4>1, QuotientBounds, QuotientAtLeast
      <4> QED BY <4>2 DEF p
    <3> QED BY <3>5 DEF SharesByPooledEth, eth, shs
  <2>5. queue'[lastRequestId].cumulativeShares \in Nat
    BY <2>2 DEF Inv, TypeOK, Request
  <2>6. queue'[id - 1].cumulativeShares < queue'[id].cumulativeShares
    <3>1. id - 1 = lastRequestId
      BY <1>0
    <3> QED BY <2>3, <2>4, <2>5, <3>1
  <2>7. ASSUME NEW i \in 1..lastRequestId
        PROVE  queue'[i - 1].cumulativeShares < queue'[i].cumulativeShares
    <3>1. i - 1 \in 0..lastRequestId /\ i \in 0..lastRequestId
      BY <1>0
    <3>2. queue[i - 1].cumulativeShares < queue[i].cumulativeShares
      BY DEF RequestsWorth
    <3> QED BY <3>1, <3>2, HistoryKept
  <2>8. \A i \in 1..id : i = id \/ i \in 1..lastRequestId
    BY <1>0
  <2> QED BY <2>1, <2>6, <2>7, <2>8 DEF RequestsWorth
<1>2. ASSUME lastRequestId' = lastRequestId PROVE RequestsWorth'
  <2>1. ASSUME NEW i \in 1..lastRequestId
        PROVE  queue'[i - 1].cumulativeShares < queue'[i].cumulativeShares
    <3>1. i - 1 \in 0..lastRequestId /\ i \in 0..lastRequestId
      BY <1>0
    <3>2. queue[i - 1].cumulativeShares < queue[i].cumulativeShares
      BY DEF RequestsWorth
    <3> QED BY <3>1, <3>2, HistoryKept
  <2> QED BY <1>2, <2>1 DEF RequestsWorth
<1>3. \A w \in WstAmounts : PooledEthByShares(w) \in Nat
  BY ConversionsNat DEF Inv
<1>4. CASE \/ \E s \in Addresses, a \in Amounts, o \in Addresses \cup {NoAddress} :
                RequestWithdrawal(s, a, o)
           \/ \E s \in Addresses, w \in WstAmounts, o \in Addresses \cup {NoAddress} :
                RequestWithdrawalWstETH(s, w, o)
  BY <1>1, <1>3, <1>4 DEF RequestWithdrawal, RequestWithdrawalWstETH
<1> USE DEF requestVars
<1>5. CASE \E b \in ValidBatches, r \in ShareRates : Finalize(b, r)
  BY <1>2, <1>5 DEF Finalize
<1>6. CASE \/ \E s \in Addresses, i \in Ids, h \in Ids : ClaimWithdrawals(s, i, h)
           \/ \E s \in Addresses, i \in Ids : ClaimWithdrawal(s, i)
  BY <1>2, <1>6 DEF ClaimWithdrawals, ClaimWithdrawal, ClaimWithHint
<1>7. CASE \E s, f, t \in Addresses, i \in Ids : TransferFrom(s, f, t, i)
  BY <1>2, <1>7 DEF TransferFrom
<1>8. CASE \/ \E s \in Addresses, t \in Addresses \cup {NoAddress}, i \in Ids : Approve(s, t, i)
           \/ \E s, op \in Addresses, b \in BOOLEAN : SetApprovalForAll(s, op, b)
           \/ Resume
           \/ \E d \in PauseDurations : PauseFor(d)
           \/ \E t \in 0..MaxTime \cup {PauseInfinitely} : PauseUntil(t)
           \/ \E b \in BOOLEAN, t \in 0..MaxTime : OnOracleReport(b, t)
           \/ \E p \in Pools : Rebase(p)
           \/ Tick
  BY <1>2, <1>8 DEF Approve, SetApprovalForAll, Resume, PauseFor, PauseUntil,
                    OnOracleReport, Rebase, Tick
<1> QED BY <1>4, <1>5, <1>6, <1>7, <1>8 DEF Next

\* The values of the finalized requests do not change.
LEMMA ClaimValuesKept ==
  ASSUME Inv, Inv', Next
  PROVE  \A i \in 1..lastFinalizedRequestId : ClaimValues'[i] = ClaimValues[i]
<1> SUFFICES ASSUME NEW i \in 1..lastFinalizedRequestId
             PROVE  ClaimValues'[i] = ClaimValues[i]
  OBVIOUS
<1>1. i \in 1..lastFinalizedRequestId'
  <2>1. lastFinalizedRequestId \in Nat /\ lastFinalizedRequestId' \in Nat
    BY DEF Inv, TypeOK, Ids
  <2>2. lastFinalizedRequestId <= lastFinalizedRequestId'
    BY HistoryKept
  <2> QED BY <2>1, <2>2
<1>2. ClaimableEther(i)' = ClaimableEther(i)
  BY ValueKept
<1> QED BY <1>1, <1>2 DEF ClaimValues

\* A claim takes out what is owed for it; every other step but a finalization
\* leaves what is owed and what is locked alone.
LEMMA OwedByClaim ==
  ASSUME Inv, Inv', Next, OwedCovered, NEW s, NEW id \in Ids, NEW hint, ClaimWithHint(s, id, hint)
  PROVE  OwedCovered'
<1> USE DEF finalizeVars
<1>1. /\ id \in 1..lastFinalizedRequestId /\ id \in Unclaimed
      /\ hint \in 1..lastCheckpointIndex /\ ValidHint(id, hint)
  BY DEF ClaimWithHint, Inv, TypeOK, Ids, ValidHint, Unclaimed
<1>2. hint = HintOf(id)
  BY <1>1, HintUnique
<1>3. ClaimValues[id] = CalculateClaimableEther(id, hint)
  BY <1>1, <1>2 DEF ClaimValues, ClaimableEther
<1>4. /\ lockedEtherAmount' = lockedEtherAmount - ClaimValues[id]
      /\ etherBalance' = etherBalance - ClaimValues[id]
      /\ queue' = [queue EXCEPT ![id].claimed = TRUE]
      /\ lastFinalizedRequestId' = lastFinalizedRequestId
  BY <1>3 DEF ClaimWithHint
<1>5. Unclaimed' = Unclaimed \ {id}
  <2>1. \A i \in 1..lastFinalizedRequestId : i \in Ids
    BY DEF Inv, TypeOK, Ids
  <2>2. \A i \in 1..lastFinalizedRequestId : queue'[i].claimed <=> i = id \/ queue[i].claimed
    <3>1. \A i \in Ids : i # id => queue'[i] = queue[i]
      BY <1>4 DEF Inv, TypeOK
    <3>2. queue'[id].claimed
      BY <1>4 DEF Inv, TypeOK, Request
    <3> QED BY <2>1, <3>1, <3>2
  <2> QED BY <1>4, <2>2 DEF Unclaimed
<1>6. Owed = ClaimValues[id] + SumOf(ClaimValues, Unclaimed \ {id})
  <2>1. IsFiniteSet(Unclaimed) /\ \A i \in Unclaimed : ClaimValues[i] \in Int
    BY ValuesNat
  <2> QED BY <1>1, <2>1, SumTakes DEF Owed
<1>7. Owed' = SumOf(ClaimValues, Unclaimed \ {id}) /\ Owed' \in Nat
  <2>1. /\ Unclaimed \ {id} \subseteq 1..lastFinalizedRequestId
        /\ IsFiniteSet(Unclaimed \ {id})
    BY ValuesNat, FS_Subset
  <2>2. \A i \in Unclaimed \ {id} : ClaimValues'[i] = ClaimValues[i] /\ ClaimValues[i] \in Nat
    BY <2>1, ClaimValuesKept, ValuesNat
  <2>3. SumOf(ClaimValues', Unclaimed \ {id}) = SumOf(ClaimValues, Unclaimed \ {id})
    BY <2>1, <2>2, SumSame
  <2>4. SumOf(ClaimValues, Unclaimed \ {id}) \in Nat
    BY <2>1, <2>2, SumCovers
  <2> QED BY <1>5, <2>3, <2>4 DEF Owed
<1>8. ClaimValues[id] \in Nat /\ lockedEtherAmount \in Nat /\ etherBalance \in Nat
  BY <1>1, ValuesNat DEF Inv, TypeOK
<1> QED BY <1>4, <1>6, <1>7, <1>8 DEF OwedCovered

LEMMA OwedKept ==
  ASSUME Inv, Inv', Next, OwedCovered,
         UNCHANGED <<lastFinalizedRequestId, lockedEtherAmount, etherBalance>>,
         \A i \in 1..lastFinalizedRequestId : queue'[i].claimed = queue[i].claimed
  PROVE  OwedCovered'
<1>1. Unclaimed' = Unclaimed
  BY DEF Unclaimed
<1>2. SumOf(ClaimValues', Unclaimed) = SumOf(ClaimValues, Unclaimed)
  <2>1. IsFiniteSet(Unclaimed) /\ \A i \in Unclaimed : ClaimValues'[i] = ClaimValues[i]
    BY ValuesNat, ClaimValuesKept
  <2> QED BY <2>1, SumSame
<1>3. Owed' = Owed
  BY <1>1, <1>2 DEF Owed
<1> QED BY <1>3 DEF OwedCovered

\* A finalization locks at least what it comes to owe.
LEMMA OwedByFinalize ==
  ASSUME Inv, Inv', Next, RequestsWorth, OwedCovered, OneSidedFinalization,
         NEW batches \in ValidBatches, NEW rate \in ShareRates, Finalize(batches, rate)
  PROVE  OwedCovered'
<1> DEFINE lo  == lastFinalizedRequestId
           eth == EthToLock(batches, rate)
<1>0. PICK cp : cp = lastCheckpointIndex + 1
  OBVIOUS
<1>1. PICK last \in batches :
        /\ \A b \in batches : b <= last
        /\ eth \in 0 .. BatchStETH(lastFinalizedRequestId, last)
        /\ checkpoints' = [checkpoints EXCEPT ![cp] =
             [fromRequestId |-> lo + 1, maxShareRate |-> rate]]
        /\ lastCheckpointIndex' = cp
        /\ lockedEtherAmount' = lockedEtherAmount + eth
        /\ etherBalance' = etherBalance + eth
        /\ lastFinalizedRequestId' = last
        /\ queue' = queue
  BY <1>0 DEF Finalize
<1>2. /\ lo \in Nat /\ lastRequestId \in Nat /\ last \in lo + 1 .. lastRequestId
      /\ cp \in Ids /\ cp \in Nat \ {0} /\ rate \in Nat
      /\ lockedEtherAmount \in Nat /\ etherBalance \in Nat
  <2>1. lo \in Nat /\ lastRequestId \in Nat /\ last \in lo + 1 .. lastRequestId
    BY BatchEndBounds DEF Inv
  <2>2. lastCheckpointIndex \in 0..lo /\ lastRequestId <= MaxRequests
    BY DEF Inv, TypeOK, Ids
  <2>3. cp \in Ids /\ cp \in Nat \ {0}
    BY <1>0, <2>1, <2>2 DEF Ids
  <2>4. lockedEtherAmount \in Nat /\ etherBalance \in Nat
    BY DEF Inv, TypeOK
  <2>5. rate \in Nat
    OBVIOUS
  <2> QED BY <2>1, <2>3, <2>4, <2>5
<1>3. eth \in Nat
  BY <1>1
<1> HIDE DEF eth
<1> DEFINE new == lo + 1 .. last
<1>4. ASSUME NEW i \in new PROVE ClaimValues'[i] = BatchEther(i - 1, i, rate) /\ i \in 1..last
  <2>1. i \in 1..last
    BY <1>2
  <2>2. PICK k \in 1..cp :
          ValidHint(i, k)' /\ \A g \in 1..cp : ValidHint(i, g)' => g = k
    BY <1>1, <2>1 DEF Inv, CheckpointsPartition
  <2>3. ValidHint(i, cp)' /\ cp \in 1..cp /\ checkpoints'[cp].maxShareRate = rate
    <3>1. checkpoints'[cp] = [fromRequestId |-> lo + 1, maxShareRate |-> rate]
      BY <1>1, <1>2 DEF Inv, TypeOK
    <3>2. cp \in 1..cp
      BY <1>2
    <3>3. lo + 1 <= i /\ ~ (cp < cp)
      BY <1>2
    <3>4. ValidHint(i, cp)'
      BY <1>1, <3>1, <3>2, <3>3 DEF ValidHint
    <3> QED BY <3>1, <3>2, <3>4
  <2>4. k = cp
    BY <2>2, <2>3
  <2>5. HintOf(i)' = cp
    BY <1>1, <2>2, <2>3, <2>4 DEF HintOf
  <2>6. ClaimableEther(i)' = BatchEther(i - 1, i, rate)
    BY <1>1, <2>3, <2>5
    DEF ClaimableEther, CalculateClaimableEther, BatchEther, BatchStETH, BatchShares,
        BatchShareRate
  <2> QED BY <1>1, <2>1, <2>6 DEF ClaimValues
<1>5. SumOf(ClaimValues', new) <= eth
  <2>1. \A b \in batches : SameSide(PrevBatchEnd(batches, b), b, rate)
    BY DEF OneSidedFinalization
  <2>2. \A i \in lastFinalizedRequestId + 1 .. last : ClaimValues'[i] = BatchEther(i - 1, i, rate)
    BY <1>4
  <2>3. TypeOK /\ CumulativeMonotone
    BY DEF Inv
  <2>4. SumOf(ClaimValues', lastFinalizedRequestId + 1 .. last) <= EthToLock(batches, rate)
    BY <1>1, <1>2, <2>1, <2>2, <2>3, LockCovers
  <2> QED BY <2>4 DEF eth
<1>6. /\ IsFiniteSet(Unclaimed) /\ IsFiniteSet(new) /\ Unclaimed \cap new = {}
      /\ \A i \in Unclaimed \cup new : ClaimValues'[i] \in Nat
      /\ Unclaimed' \subseteq Unclaimed \cup new
  <2>1. Unclaimed \subseteq 1..lo /\ IsFiniteSet(Unclaimed)
    BY ValuesNat
  <2>2. IsFiniteSet(new)
    BY <1>2, FS_Interval
  <2>3. \A i \in 1..lo : i \notin new /\ i \in 1..last
    BY <1>2
  <2>4. \A i \in 1..last : ClaimValues'[i] \in Nat
    <3>1. (\A i \in 1..lastFinalizedRequestId : ClaimValues[i] \in Nat)'
      BY ValuesNatNext
    <3> QED BY <1>1, <3>1
  <2>5. Unclaimed' \subseteq Unclaimed \cup new
    <3>1. \A i \in 1..last : i \in 1..lo \/ i \in new
      BY <1>2
    <3> QED BY <1>1, <3>1 DEF Unclaimed
  <2>6. \A i \in new : ClaimValues'[i] \in Nat
    BY <1>4, <2>4
  <2>7. \A i \in Unclaimed : ClaimValues'[i] \in Nat
    BY <2>1, <2>3, <2>4
  <2> HIDE DEF new
  <2> QED BY <2>1, <2>2, <2>3, <2>5, <2>6, <2>7
<1>7. SumOf(ClaimValues', Unclaimed) = Owed
  <2>1. IsFiniteSet(Unclaimed) /\ \A i \in Unclaimed : ClaimValues'[i] = ClaimValues[i]
    BY ValuesNat, ClaimValuesKept
  <2> QED BY <2>1, SumSame DEF Owed
<1>8. SumOf(ClaimValues', Unclaimed \cup new) = Owed + SumOf(ClaimValues', new)
  <2>1. \A i \in Unclaimed \cup new : ClaimValues'[i] \in Int
    BY <1>6
  <2> HIDE DEF new
  <2> QED BY <1>6, <1>7, <2>1, SumUnion
<1>9. Owed' <= SumOf(ClaimValues', Unclaimed \cup new)
  <2>1. IsFiniteSet(Unclaimed \cup new)
    BY <1>6, FS_Union
  <2> HIDE DEF new
  <2> QED BY <1>6, <2>1, SumSubset DEF Owed
<1>10. Owed \in Int /\ SumOf(ClaimValues', new) \in Int /\ Owed' \in Int
  <2>1. IsFiniteSet(Unclaimed')
    <3>1. IsFiniteSet(Unclaimed \cup new)
      BY <1>6, FS_Union
    <3> QED BY <1>6, <3>1, FS_Subset
  <2>2. Owed' \in Int
    <3>1. \A i \in Unclaimed' : ClaimValues'[i] \in Int
      BY <1>6
    <3> QED BY <2>1, <3>1, SumIsInt DEF Owed
  <2>3. SumOf(ClaimValues', new) \in Int /\ SumOf(ClaimValues', Unclaimed) \in Int
    <3> HIDE DEF new
    <3> QED BY <1>6, SumIsInt
  <2> QED BY <1>7, <2>2, <2>3
<1> HIDE DEF new
<1> QED BY <1>1, <1>2, <1>3, <1>5, <1>8, <1>9, <1>10 DEF OwedCovered

LEMMA OwedInit == Init => OwedCovered
<1> SUFFICES ASSUME Init PROVE OwedCovered
  OBVIOUS
<1>1. Unclaimed = {}
  BY DEF Init, Unclaimed
<1>2. Owed = 0
  BY <1>1, SumEmpty DEF Owed
<1> QED BY <1>2 DEF Init, OwedCovered

LEMMA OwedNext ==
  ASSUME Inv, Inv', Next, RequestsWorth, OwedCovered, OneSidedFinalization
  PROVE  OwedCovered'
<1> USE DEF finalizeVars, etherVars
<1>0. /\ queue \in [Ids -> Request]
      /\ \A i \in 1..lastFinalizedRequestId : i \in Ids /\ i # lastRequestId + 1
  <2>1. /\ lastRequestId \in 0..MaxRequests /\ lastFinalizedRequestId \in 0..lastRequestId
        /\ queue \in [Ids -> Request]
    BY DEF Inv, TypeOK, Ids
  <2> QED BY <2>1 DEF Ids
<1>1. ASSUME NEW s, NEW a, NEW o, RequestStETH(s, a, o) PROVE OwedCovered'
  <2>1. PICK r : queue' = [queue EXCEPT ![lastRequestId + 1] = r]
    BY <1>1 DEF RequestStETH, Enqueue
  <2>2. \A i \in 1..lastFinalizedRequestId : queue'[i].claimed = queue[i].claimed
    BY <1>0, <2>1
  <2> QED BY <1>1, <2>2, OwedKept DEF RequestStETH
<1>2. CASE \/ \E s \in Addresses, a \in Amounts, o \in Addresses \cup {NoAddress} :
                RequestWithdrawal(s, a, o)
           \/ \E s \in Addresses, w \in WstAmounts, o \in Addresses \cup {NoAddress} :
                RequestWithdrawalWstETH(s, w, o)
  BY <1>1, <1>2 DEF RequestWithdrawal, RequestWithdrawalWstETH
<1>3. CASE \E b \in ValidBatches, r \in ShareRates : Finalize(b, r)
  BY <1>3, OwedByFinalize
<1>4. CASE \/ \E s \in Addresses, i \in Ids, h \in Ids : ClaimWithdrawals(s, i, h)
           \/ \E s \in Addresses, i \in Ids : ClaimWithdrawal(s, i)
  BY <1>4, OwedByClaim DEF ClaimWithdrawals, ClaimWithdrawal
<1>5. ASSUME NEW s, NEW f, NEW t, NEW i, TransferFrom(s, f, t, i) PROVE OwedCovered'
  <2>1. queue' = [queue EXCEPT ![i].owner = t]
    BY <1>5 DEF TransferFrom
  <2>2. \A j \in 1..lastFinalizedRequestId : queue'[j].claimed = queue[j].claimed
    BY <1>0, <2>1 DEF Request
  <2> QED BY <1>5, <2>2, OwedKept DEF TransferFrom
<1>6. CASE \/ \E s \in Addresses, t \in Addresses \cup {NoAddress}, i \in Ids : Approve(s, t, i)
           \/ \E s, op \in Addresses, b \in BOOLEAN : SetApprovalForAll(s, op, b)
           \/ Resume
           \/ \E d \in PauseDurations : PauseFor(d)
           \/ \E t \in 0..MaxTime \cup {PauseInfinitely} : PauseUntil(t)
           \/ \E b \in BOOLEAN, t \in 0..MaxTime : OnOracleReport(b, t)
           \/ \E p \in Pools : Rebase(p)
           \/ Tick
  <2>1. UNCHANGED <<queue, lastFinalizedRequestId, lockedEtherAmount, etherBalance>>
    BY <1>6 DEF Approve, SetApprovalForAll, Resume, PauseFor, PauseUntil,
                OnOracleReport, Rebase, Tick, requestVars
  <2> QED BY <2>1, OwedKept
<1> QED BY <1>2, <1>3, <1>4, <1>5, <1>6 DEF Next

LEMMA OwedStutters ==
  ASSUME OwedCovered, UNCHANGED vars
  PROVE  OwedCovered'
<1> USE DEF vars, requestVars, finalizeVars, etherVars
<1>1. Unclaimed' = Unclaimed
  BY DEF Unclaimed
<1>2. ClaimValues' = ClaimValues
  <2>1. \A i, h : ValidHint(i, h)' <=> ValidHint(i, h)
    BY DEF ValidHint
  <2>2. \A i : HintOf(i)' = HintOf(i)
    BY <2>1 DEF HintOf
  <2> QED BY <2>2 DEF ClaimValues, ClaimableEther, CalculateClaimableEther, BatchEther,
                      BatchStETH, BatchShares, BatchShareRate
<1> QED BY <1>1, <1>2 DEF OwedCovered, Owed

\* What is owed is the sum LockedCoversClaims is stated with.
LEMMA ClaimsSum ==
  ASSUME Inv
  PROVE  MapThenSumSet(ClaimableEther, Unclaimed) = Owed
<1> DEFINE S       == Unclaimed
           f       == ClaimValues
           V(i)    == ClaimableEther(i)
           Step(h) == [s \in SUBSET S |->
                         IF s = {} THEN 0 ELSE V(Taken(s)) + h[s \ {Taken(s)}]]
           iter    == CHOOSE h : h = Step(h)
<1>1. IsFiniteSet(S) /\ \A i \in S : i \in 1..lastFinalizedRequestId
  BY ValuesNat
<1>2. MapThenSumSet(ClaimableEther, S) = iter[S]
  BY DEF MapThenSumSet, MapThenFoldSet, Taken
<1>3. \A i \in S : f[i] = V(i)
  BY <1>1 DEF ClaimValues
<1> HIDE DEF S, V, f
<1>4. ASSUME NEW h PROVE h = Step(h) <=> Sums(h, f, S)
  <2>1. \A s \in SUBSET S : s # {} => Taken(s) \in S
    BY DEF Taken
  <2>2. Step(h) = [s \in SUBSET S |->
                     IF s = {} THEN 0 ELSE f[Taken(s)] + h[s \ {Taken(s)}]]
    BY <1>3, <2>1
  <2> QED BY <2>2 DEF Sums
<1> HIDE DEF Step
<1>5. (\E h : Sums(h, f, S)) => Sums(iter, f, S)
  <2>1. (\E h : h = Step(h)) => iter = Step(iter)
    OBVIOUS
  <2> HIDE DEF iter
  <2> QED BY <1>4, <2>1
<1> HIDE DEF iter
<1>6. iter[S] = SumOf(f, S)
  BY <1>1, <1>5, SumIterated
<1> QED BY <1>2, <1>6 DEF S, f, Owed

-----------------------------------------------------------------------------
(* The search for a hint.                                                  *)

\* One turn of the search, with g for the turns to come.
Halving(g, id, range) ==
  LET lo  == range[1]
      hi  == range[2]
      mid == (hi + lo + 1) \div 2
  IN  IF hi > lo
      THEN IF checkpoints[mid].fromRequestId <= id THEN g[<<mid, hi>>] ELSE g[<<lo, mid - 1>>]
      ELSE lo

Searches(g, id) == g = [range \in Ids \X Ids |-> Halving(g, id, range)]

Narrower == {p \in (Ids \X Ids) \X (Ids \X Ids) : p[1][2] - p[1][1] < p[2][2] - p[2][1]}

\* Ranges cannot be narrowed for ever.
LEMMA NarrowerWellFounded == IsWellFoundedOn(Narrower, Ids \X Ids)
<1>1. ASSUME NEW T \in SUBSET (Ids \X Ids), T # {}
      PROVE  \E x \in T : \A y \in T : ~(<<y, x>> \in Narrower)
  <2> DEFINE Width(x) == x[2] - x[1] + MaxRequests
             N        == {Width(x) : x \in T}
  <2>1. ASSUME NEW x \in T PROVE Width(x) \in Nat
    <3>1. PICK lo \in Nat, hi \in Nat : lo = x[1] /\ hi = x[2] /\ lo <= MaxRequests
      BY DEF Ids
    <3>2. hi - lo + MaxRequests \in Nat
      BY <3>1
    <3> QED BY <3>1, <3>2
  <2>2. N \in SUBSET Nat /\ N # {}
    <3> HIDE DEF Width
    <3> QED BY <1>1, <2>1
  <2>3. PICK n \in N : \A m \in N : n <= m
    <3> HIDE DEF N
    <3> QED BY <2>2, LeastNumber
  <2>4. PICK x \in T : n = Width(x)
    OBVIOUS
  <2>5. ASSUME NEW y \in T PROVE ~(<<y, x>> \in Narrower)
    <3>1. Width(x) <= Width(y)
      BY <2>3, <2>4
    <3>2. x \in Ids \X Ids /\ y \in Ids \X Ids
      OBVIOUS
    <3> QED BY <3>1, <3>2 DEF Narrower, Ids
  <2> QED BY <2>5
<1>2. \A T \in SUBSET (Ids \X Ids) :
        T # {} => \E x \in T : \A y \in T : ~(<<y, x>> \in Narrower)
  BY <1>1
<1> QED BY ONLY <1>2, MinWF

LEMMA SearchExists ==
  ASSUME NEW id \in Nat
  PROVE  \E g : /\ Searches(g, id)
                /\ \A first, last :
                     FindCheckpointHint(id, first, last) =
                       CASE \/ lastCheckpointIndex = 0
                            \/ id > lastFinalizedRequestId
                            \/ first > last -> 0
                         [] OTHER ->
                              IF id >= checkpoints[last].fromRequestId
                              THEN IF \/ last = lastCheckpointIndex
                                      \/ id < checkpoints[last + 1].fromRequestId
                                   THEN last ELSE 0
                              ELSE IF id < checkpoints[first].fromRequestId THEN 0
                                   ELSE g[<<first, last - 1>>]
<1> DEFINE D(g, x) == Halving(g, id, x)
           S       == Ids \X Ids
           search  == CHOOSE g : g = [x \in S |-> D(g, x)]
<1>1. WFDefOn(Narrower, S, D)
  <2>1. ASSUME NEW g, NEW h, NEW x \in S,
               \A y \in SetLessThan(x, Narrower, S) : g[y] = h[y]
        PROVE  D(g, x) = D(h, x)
    <3>1. PICK lo \in Nat, hi \in Nat, mid \in Nat :
            lo = x[1] /\ hi = x[2] /\ mid = (hi + lo + 1) \div 2
      BY DEF Ids
    <3>2. CASE hi > lo
      <4>1. lo < mid /\ mid <= hi
        BY <3>1, <3>2
      <4>2. <<mid, hi>> \in S /\ <<lo, mid - 1>> \in S
        BY <3>1, <4>1 DEF Ids
      <4>3. <<<<mid, hi>>, x>> \in Narrower /\ <<<<lo, mid - 1>>, x>> \in Narrower
        BY <3>1, <4>1, <4>2 DEF Narrower
      <4>4. g[<<mid, hi>>] = h[<<mid, hi>>] /\ g[<<lo, mid - 1>>] = h[<<lo, mid - 1>>]
        BY <2>1, <4>2, <4>3 DEF SetLessThan
      <4>5. D(g, x) = IF checkpoints[mid].fromRequestId <= id THEN g[<<mid, hi>>] ELSE g[<<lo, mid - 1>>]
        BY <3>1, <3>2 DEF Halving
      <4>6. D(h, x) = IF checkpoints[mid].fromRequestId <= id THEN h[<<mid, hi>>] ELSE h[<<lo, mid - 1>>]
        BY <3>1, <3>2 DEF Halving
      <4> HIDE DEF D
      <4> QED BY <4>4, <4>5, <4>6
    <3>3. CASE ~(hi > lo)
      BY <3>1, <3>3 DEF Halving
    <3> QED BY <3>2, <3>3
  <2> HIDE DEF D, S
  <2> QED BY <2>1 DEF WFDefOn
<1>2. OpDefinesFcn(search, S, D)
  BY DEF OpDefinesFcn
<1>3. WFInductiveDefines(search, S, D)
  <2>1. IsWellFoundedOn(Narrower, S)
    BY NarrowerWellFounded
  <2> HIDE DEF D, S, search
  <2> QED BY <1>1, <1>2, <2>1, WFInductiveDef
<1>4. Searches(search, id)
  <2>1. search = [x \in S |-> D(search, x)]
    <3> HIDE DEF D, S, search
    <3> QED BY <1>3 DEF WFInductiveDefines
  <2> HIDE DEF search
  <2> QED BY <2>1 DEF Searches
<1>5. \A first, last :
        FindCheckpointHint(id, first, last) =
          CASE \/ lastCheckpointIndex = 0
               \/ id > lastFinalizedRequestId
               \/ first > last -> 0
            [] OTHER ->
                 IF id >= checkpoints[last].fromRequestId
                 THEN IF \/ last = lastCheckpointIndex
                         \/ id < checkpoints[last + 1].fromRequestId
                      THEN last ELSE 0
                 ELSE IF id < checkpoints[first].fromRequestId THEN 0
                      ELSE search[<<first, last - 1>>]
  BY DEF FindCheckpointHint, Halving
<1> QED BY <1>4, <1>5

FromId(i) == checkpoints[i].fromRequestId

FoundIn(h, id, lo, hi) == h \in lo..hi /\ FromId(h) <= id /\ id < FromId(h + 1)

\* The range the search is given: its first checkpoint does not start after the
\* request, and the one after its last does.
Straddles(id, lo, hi) ==
  /\ lo \in Ids /\ hi \in Ids /\ lo <= hi /\ hi + 1 \in Ids
  /\ FromId(lo) <= id /\ id < FromId(hi + 1)

LEMMA SearchFinds ==
  ASSUME TypeOK, NEW id \in Nat, NEW g, Searches(g, id), NEW lo, NEW hi, Straddles(id, lo, hi)
  PROVE  FoundIn(g[<<lo, hi>>], id, lo, hi)
<1> DEFINE Missed(a, b) == Straddles(id, a, b) /\ ~FoundIn(g[<<a, b>>], id, a, b)
           N            == {n \in Nat : \E a, b \in Ids : n = b - a /\ Missed(a, b)}
<1>1. SUFFICES ASSUME N # {} PROVE FALSE
  <2>1. hi - lo \in Nat /\ lo \in Ids /\ hi \in Ids
    BY DEF Straddles, Ids
  <2>2. hi - lo \notin N => FoundIn(g[<<lo, hi>>], id, lo, hi)
    BY <2>1
  <2> QED BY <2>2
<1>2. PICK n \in N : \A m \in N : n <= m
  <2>1. N \in SUBSET Nat
    OBVIOUS
  <2> HIDE DEF N
  <2> QED BY <1>1, <2>1, LeastNumber
<1>3. PICK a \in Ids, b \in Ids : n = b - a /\ Missed(a, b)
  OBVIOUS
<1>4. PICK mid : mid = (b + a + 1) \div 2
  OBVIOUS
<1>5. /\ a \in Nat /\ b \in Nat /\ a <= b /\ b + 1 \in Ids
      /\ FromId(a) <= id /\ id < FromId(b + 1)
  BY <1>3 DEF Straddles, Ids
<1>6. \A i \in Ids : FromId(i) \in Nat
  BY DEF TypeOK, Checkpoint, FromId
<1>7. g[<<a, b>>] = IF b > a THEN IF FromId(mid) <= id THEN g[<<mid, b>>] ELSE g[<<a, mid - 1>>]
                            ELSE a
  <2>1. <<a, b>> \in Ids \X Ids
    OBVIOUS
  <2>2. g[<<a, b>>] = Halving(g, id, <<a, b>>)
    BY <2>1 DEF Searches
  <2> QED BY <1>4, <2>2 DEF Halving, FromId
<1>8. ASSUME NEW c \in Ids, NEW d \in Ids, Straddles(id, c, d), a <= c, d <= b, d - c < b - a,
             g[<<a, b>>] = g[<<c, d>>]
      PROVE  FALSE
  <2>1. d - c \in Nat /\ c \in Nat /\ d \in Nat
    BY <1>8 DEF Straddles, Ids
  <2>2. d - c \notin N
    <3>1. n = b - a /\ n \in Nat
      BY <1>3
    <3>2. d - c \in N => n <= d - c
      BY <1>2
    <3> HIDE DEF N
    <3> QED BY <1>5, <1>8, <2>1, <3>1, <3>2
  <2>3. FoundIn(g[<<c, d>>], id, c, d)
    BY <1>8, <2>1, <2>2
  <2>4. FoundIn(g[<<a, b>>], id, a, b)
    BY <1>5, <1>8, <2>1, <2>3 DEF FoundIn
  <2> QED BY <1>3, <2>4
<1>9. CASE b > a
  <2>1. mid \in Nat /\ a < mid /\ mid <= b
    BY <1>4, <1>5, <1>9
  <2>2. PICK low \in Nat : low = mid - 1 /\ low + 1 = mid /\ a <= low /\ low < b
    <3>1. mid - 1 \in Nat /\ mid - 1 + 1 = mid /\ a <= mid - 1 /\ mid - 1 < b
      BY <1>5, <2>1
    <3> QED BY <3>1
  <2>3. mid \in Ids /\ low \in Ids /\ low + 1 \in Ids /\ FromId(mid) \in Nat
    BY <1>5, <1>6, <2>1, <2>2 DEF Ids
  <2>4. CASE FromId(mid) <= id
    <3>1. Straddles(id, mid, b)
      BY <1>5, <2>1, <2>3, <2>4 DEF Straddles
    <3>2. b - mid < b - a
      BY <1>5, <2>1
    <3> QED BY <1>5, <1>7, <1>8, <1>9, <2>1, <2>3, <2>4, <3>1, <3>2
  <2>5. CASE ~(FromId(mid) <= id)
    <3>1. id < FromId(low + 1)
      BY <2>2, <2>3, <2>5
    <3>2. Straddles(id, a, low)
      BY <1>5, <2>2, <2>3, <3>1 DEF Straddles
    <3>3. low - a < b - a /\ low <= b
      BY <1>5, <2>2
    <3> QED BY <1>5, <1>7, <1>8, <1>9, <2>2, <2>3, <2>5, <3>2, <3>3
  <2> QED BY <2>4, <2>5
<1>10. CASE ~(b > a)
  <2>1. a = b /\ g[<<a, b>>] = a
    BY <1>5, <1>7, <1>10
  <2>2. FoundIn(a, id, a, b)
    BY <1>5, <2>1 DEF FoundIn
  <2> QED BY <1>3, <2>1, <2>2
<1> QED BY <1>9, <1>10

\* The least checkpoint range of a request: what the search returns is its hint.
LEMMA HintFound ==
  ASSUME Inv, NEW id \in 1..lastRequestId,
         NEW first \in 1..lastCheckpointIndex, NEW last \in 1..lastCheckpointIndex
  PROVE  LET found == FindCheckpointHint(id, first, last)
         IN  IF id <= lastFinalizedRequestId /\ \E h \in first..last : ValidHint(id, h)
             THEN ValidHint(id, found) /\ found \in first..last
             ELSE found = 0
<1>1. PICK found : found = FindCheckpointHint(id, first, last)
  OBVIOUS
<1>2. /\ lastRequestId \in Ids /\ lastFinalizedRequestId \in 0..lastRequestId
      /\ lastCheckpointIndex \in 0..lastFinalizedRequestId /\ id \in Nat /\ id # 0
      /\ first \in Nat \ {0} /\ last \in Nat \ {0}
      /\ first <= lastCheckpointIndex /\ last <= lastCheckpointIndex
  BY DEF Inv, TypeOK, Ids
<1>3. \A i \in 1..lastCheckpointIndex : i \in Ids /\ FromId(i) \in Nat
  BY <1>2 DEF Inv, TypeOK, Checkpoint, FromId, Ids
<1>4. \A i, j \in 1..lastCheckpointIndex : i <= j => FromId(i) <= FromId(j)
  <2> SUFFICES ASSUME NEW i \in 1..lastCheckpointIndex, NEW j \in 1..lastCheckpointIndex, i <= j
               PROVE  FromId(i) <= FromId(j)
    OBVIOUS
  <2>1. FromId(i) \in Nat /\ FromId(j) \in Nat
    BY <1>3
  <2>2. CASE i < j
    BY <2>1, <2>2 DEF Inv, CheckpointOrder, FromId
  <2>3. CASE i = j
    BY <2>1, <2>3
  <2> QED BY <1>2, <2>2, <2>3
<1>5. PICK g :
        /\ Searches(g, id)
        /\ found = CASE \/ lastCheckpointIndex = 0
                        \/ id > lastFinalizedRequestId
                        \/ first > last -> 0
                     [] OTHER ->
                          IF id >= FromId(last)
                          THEN IF last = lastCheckpointIndex \/ id < FromId(last + 1)
                               THEN last ELSE 0
                          ELSE IF id < FromId(first) THEN 0 ELSE g[<<first, last - 1>>]
  BY <1>1, <1>2, SearchExists DEF FromId
<1>6. CASE id > lastFinalizedRequestId \/ first > last
  <2>1. found = 0
    BY <1>2, <1>5, <1>6
  <2>2. ~(id <= lastFinalizedRequestId /\ \E h \in first..last : ValidHint(id, h))
    BY <1>2, <1>6
  <2> QED BY <1>1, <2>1, <2>2
<1>7. CASE id <= lastFinalizedRequestId /\ first <= last
  <2>1. ~(lastCheckpointIndex = 0 \/ id > lastFinalizedRequestId \/ first > last)
    BY <1>2, <1>7
  <2>2. found = IF id >= FromId(last)
                THEN IF last = lastCheckpointIndex \/ id < FromId(last + 1) THEN last ELSE 0
                ELSE IF id < FromId(first) THEN 0 ELSE g[<<first, last - 1>>]
    BY <1>5, <2>1
  <2>3. FromId(first) \in Nat /\ FromId(last) \in Nat
    BY <1>3
  <2>4. CASE id >= FromId(last) /\ (last = lastCheckpointIndex \/ id < FromId(last + 1))
    <3>1. found = last
      BY <2>2, <2>4
    <3>2. ValidHint(id, last) /\ last \in first..last
      BY <1>2, <1>7, <2>3, <2>4 DEF ValidHint, FromId
    <3> QED BY <1>1, <1>7, <3>1, <3>2
  <2>5. CASE id >= FromId(last) /\ ~(last = lastCheckpointIndex \/ id < FromId(last + 1))
    <3>1. found = 0
      BY <2>2, <2>5
    <3>2. ASSUME NEW h \in first..last, ValidHint(id, h)
          PROVE  FALSE
      <4>1. h \in 1..lastCheckpointIndex /\ last + 1 \in 1..lastCheckpointIndex
            /\ h + 1 \in 1..lastCheckpointIndex /\ h + 1 <= last + 1 /\ h < lastCheckpointIndex
        BY <1>2, <2>5
      <4>2. id < FromId(h + 1)
        BY <3>2, <4>1 DEF ValidHint, FromId
      <4>3. FromId(h + 1) <= FromId(last + 1) /\ FromId(h + 1) \in Nat /\ FromId(last + 1) \in Nat
        BY <1>3, <1>4, <4>1
      <4> QED BY <1>2, <2>5, <4>2, <4>3
    <3> QED BY <1>1, <3>1, <3>2
  <2>6. CASE ~(id >= FromId(last)) /\ id < FromId(first)
    <3>1. found = 0
      BY <2>2, <2>6
    <3>2. ASSUME NEW h \in first..last, ValidHint(id, h)
          PROVE  FALSE
      <4>1. h \in 1..lastCheckpointIndex /\ first <= h
        BY <1>2
      <4>2. FromId(h) <= id
        BY <3>2 DEF ValidHint, FromId
      <4>3. FromId(first) <= FromId(h) /\ FromId(h) \in Nat
        BY <1>3, <1>4, <4>1
      <4> QED BY <1>2, <2>3, <2>6, <4>2, <4>3
    <3> QED BY <1>1, <3>1, <3>2
  <2>7. CASE ~(id >= FromId(last)) /\ ~(id < FromId(first))
    <3>1. first # last
      BY <1>2, <2>3, <2>7
    <3>2. PICK low \in Nat : low = last - 1 /\ low + 1 = last /\ first <= low
      <4>1. last - 1 \in Nat /\ last - 1 + 1 = last /\ first <= last - 1
        BY <1>2, <1>7, <3>1
      <4> QED BY <4>1
    <3>3. found = g[<<first, low>>]
      BY <2>2, <2>7, <3>2
    <3>4. Straddles(id, first, low)
      <4>1. first \in Ids /\ low \in Ids /\ low + 1 \in Ids
        BY <1>2, <1>3, <3>2 DEF Ids
      <4>2. FromId(first) <= id /\ id < FromId(low + 1)
        BY <1>2, <2>3, <2>7, <3>2
      <4> QED BY <3>2, <4>1, <4>2 DEF Straddles
    <3>5. FoundIn(found, id, first, low)
      BY <1>2, <1>5, <3>3, <3>4, SearchFinds DEF Inv
    <3>6. ValidHint(id, found) /\ found \in first..last
      BY <1>2, <3>2, <3>5 DEF FoundIn, ValidHint, FromId
    <3> QED BY <1>1, <1>7, <3>6
  <2> QED BY <2>4, <2>5, <2>6, <2>7
<1> QED BY <1>2, <1>6, <1>7

-----------------------------------------------------------------------------
(* The loop of calculateFinalizationBatches.                               *)

\* What a call starts its loop with.
LoopStart(state) ==
  [remainingEthBudget |-> state.remainingEthBudget, batches |-> state.batches,
   currentId |-> 1 + (IF state.batches = <<>> THEN lastFinalizedRequestId
                      ELSE Last(state.batches)),
   stopped |-> FALSE]

\* The request after the last that a call may handle.
LoopPast(first, maxRequests) == Min({lastRequestId + 1, first + maxRequests})

\* What a call returns when its loop ends with `result'.
LoopResult(result, first, maxRequests) ==
  [remainingEthBudget |-> result.remainingEthBudget,
   batches            |-> result.batches,
   finished           |-> \/ result.currentId = lastRequestId + 1
                          \/ result.currentId < first + maxRequests]

\* F[k] is what the loop holds after k turns from request `first'.
Loops(F, base, first, len, rate, time) ==
  /\ F[0] = base
  /\ \A k \in 1..len : F[k] = HandleRequest(F[k - 1], first + k - 1, rate, time)

\* The fold of a call is such a sequence of turns.
LEMMA LoopUnrolls ==
  ASSUME TypeOK, NEW state, NEW rate, NEW time, NEW maxRequests \in Nat, NEW first \in Nat,
         first = LoopStart(state).currentId, NEW len \in Nat,
         len = LoopPast(first, maxRequests) - first
  PROVE  \E F : /\ Loops(F, LoopStart(state), first, len, rate, time)
                /\ CalculateFinalizationBatches(state, rate, time, maxRequests) =
                     LoopResult(F[len], first, maxRequests)
<1> DEFINE n       == 1 + (IF state.batches = <<>> THEN lastFinalizedRequestId
                           ELSE Last(state.batches))
           past    == Min({lastRequestId + 1, n + maxRequests})
           base    == [remainingEthBudget |-> state.remainingEthBudget,
                       batches |-> state.batches, currentId |-> n, stopped |-> FALSE]
           seq     == [k \in 1 .. past - n |-> n + k - 1]
           S       == DOMAIN seq
           D(g, s) == IF s = {} THEN base
                      ELSE HandleRequest(g[s \ {Max(s)}], seq[Max(s)], rate, time)
           R       == StrictSubsetOrdering(S)
           iter    == CHOOSE g : g = [s \in SUBSET S |-> D(g, s)]
<1>1. CalculateFinalizationBatches(state, rate, time, maxRequests)
        = LoopResult(iter[S], n, maxRequests)
  BY DEF CalculateFinalizationBatches, LoopResult, FoldLeft, MapThenFoldSet
<1>a. n = first /\ past - n = len /\ base = LoopStart(state)
  BY DEF LoopStart, LoopPast
<1> HIDE DEF n, past, base
<1>b. S = 1..len /\ \A k \in 1..len : seq[k] = first + k - 1
  BY <1>a
<1> HIDE DEF seq, S
<1>2. \A s \in SUBSET S : s # {} => Max(s) \in s /\ \A y \in s : y <= Max(s)
  <2> SUFFICES ASSUME NEW s \in SUBSET S, s # {} PROVE Max(s) \in s /\ \A y \in s : y <= Max(s)
    OBVIOUS
  <2>1. s \in SUBSET (0..len)
    BY <1>b
  <2> QED BY <2>1, MaxOfBounded
<1>3. WFDefOn(R, SUBSET S, D)
  <2>1. ASSUME NEW g, NEW h, NEW s \in SUBSET S,
               \A y \in SetLessThan(s, R, SUBSET S) : g[y] = h[y]
        PROVE  D(g, s) = D(h, s)
    <3>1. CASE s = {}
      BY <3>1
    <3>2. CASE s # {}
      <4> DEFINE t == s \ {Max(s)}
      <4>1. t \in SUBSET S /\ t \subseteq s /\ t # s
        BY <1>2, <3>2
      <4>2. <<t, s>> \in R
        BY <4>1 DEF StrictSubsetOrdering
      <4>3. t \in SetLessThan(s, R, SUBSET S)
        BY <4>1, <4>2 DEF SetLessThan
      <4>4. g[t] = h[t]
        BY <2>1, <4>3
      <4> QED BY <4>4, <3>2
    <3> QED BY <3>1, <3>2
  <2> HIDE DEF D
  <2> QED BY <2>1 DEF WFDefOn
<1>4. IsFiniteSet(S)
  BY <1>b, FS_Interval
<1>5. iter = [s \in SUBSET S |-> D(iter, s)]
  <2>1. FiniteSubsetsOf(S) = SUBSET S
    <3> HIDE DEF S
    <3> QED BY <1>4, FS_FiniteSubsetsOfFinite
  <2>2. IsWellFoundedOn(R, SUBSET S)
    <3> HIDE DEF S
    <3> QED BY <2>1, FS_StrictSubsetOrderingWellFounded
  <2>3. OpDefinesFcn(iter, SUBSET S, D)
    BY DEF OpDefinesFcn
  <2>4. WFInductiveDefines(iter, SUBSET S, D)
    <3> HIDE DEF D, R, S, iter
    <3> QED BY <1>3, <2>2, <2>3, WFInductiveDef
  <2> HIDE DEF D, iter
  <2> QED BY <2>4 DEF WFInductiveDefines
<1> HIDE DEF iter
<1> DEFINE F == [k \in 0..len |-> iter[1..k]]
<1>6. F[0] = base
  <2>1. F[0] = iter[{}]
    <3>1. 0 \in 0..len /\ 1..0 = {}
      OBVIOUS
    <3> QED BY <3>1
  <2>2. {} \in SUBSET S
    OBVIOUS
  <2>3. iter[{}] = D(iter, {})
    <3> HIDE DEF D
    <3> QED BY <1>5, <2>2
  <2> QED BY <2>1, <2>3
<1>7. ASSUME NEW k \in 1..len
      PROVE  F[k] = HandleRequest(F[k - 1], first + k - 1, rate, time)
  <2>1. /\ k \in 0..len /\ k - 1 \in 0..len /\ k \in S /\ k \in 1..k
        /\ 1..k \in SUBSET S /\ (1..k) \ {k} = 1 .. k - 1
    BY <1>b
  <2>2. Max(1..k) = k
    <3>1. Max(1..k) \in 1..k /\ k <= Max(1..k)
      BY <1>2, <2>1
    <3> QED BY <3>1
  <2>3. iter[1..k] = D(iter, 1..k)
    <3> HIDE DEF D
    <3> QED BY <1>5, <2>1
  <2>4. D(iter, 1..k) = HandleRequest(iter[(1..k) \ {Max(1..k)}], seq[Max(1..k)], rate, time)
    <3>1. 1..k # {}
      BY <2>1
    <3> HIDE DEF seq
    <3> QED BY <3>1
  <2>5. seq[k] = first + k - 1
    BY <1>b
  <2>6. F[k] = iter[1..k] /\ F[k - 1] = iter[1 .. k - 1]
    BY <2>1
  <2> HIDE DEF D, seq, F
  <2> QED BY <2>1, <2>2, <2>3, <2>4, <2>5, <2>6
<1>8. F[len] = iter[S]
  BY <1>b
<1> HIDE DEF F
<1> QED BY <1>1, <1>a, <1>6, <1>7, <1>8 DEF Loops

\* G[k] is the state after k calls.
Calling(G, n, budget, rate, time, maxRequests) ==
  /\ G[0] = FirstState(budget)
  /\ \A k \in 1..n :
       G[k] = IF CallReverts(G[k - 1]) THEN G[k - 1]
              ELSE CalculateFinalizationBatches(G[k - 1], rate, time, maxRequests)

\* The states of the daemon's loop, call by call.
LEMMA CallsUnroll ==
  ASSUME NEW n \in Nat, NEW budget, NEW rate, NEW time, NEW maxRequests
  PROVE  \E G : /\ Calling(G, n, budget, rate, time, maxRequests)
                /\ AfterCalls(n, budget, rate, time, maxRequests) = G[n]
<1> DEFINE D(v, k) == IF CallReverts(v) THEN v
                      ELSE CalculateFinalizationBatches(v, rate, time, maxRequests)
           c       == FirstState(budget)
           G       == CHOOSE g : g = [k \in 0..n |-> IF k = 0 THEN c ELSE D(g[k - 1], k)]
<1>1. AfterCalls(n, budget, rate, time, maxRequests) = G[n]
  BY DEF AfterCalls
<1>2. G = [k \in 0..n |-> IF k = 0 THEN c ELSE D(G[k - 1], k)]
  <2>1. FiniteNatInductiveDefHypothesis(G, c, D, 0, n)
    BY DEF FiniteNatInductiveDefHypothesis
  <2>2. FiniteNatInductiveDefConclusion(G, c, D, 0, n)
    <3> HIDE DEF D, G, c
    <3> QED BY <2>1, FiniteNatInductiveDef
  <2> HIDE DEF D, G, c
  <2> QED BY <2>2 DEF FiniteNatInductiveDefConclusion
<1> HIDE DEF G
<1>3. G[0] = c
  <2> HIDE DEF D
  <2> QED BY <1>2
<1>4. \A k \in 1..n : G[k] = D(G[k - 1], k)
  <2> HIDE DEF D
  <2> QED BY <1>2
<1> QED BY <1>1, <1>3, <1>4 DEF Calling

-----------------------------------------------------------------------------
(* What a prefix of the unfinalized requests takes.                        *)

Payments(rate) == [i \in Nat |-> BatchEther(i - 1, i, rate)]

Prefix(n) == lastFinalizedRequestId + 1 .. n

Spent(n, rate) == SumOf(Payments(rate), Prefix(n))

\* The requests of a prefix that need another batch than the one before them.
Splits(n, rate) == {i \in Prefix(n) : i - 1 \in Prefix(n) /\ ~SameBatch(i, rate)}

\* Every request alone is paid at least a wei, at every rate a report may carry.
RequestsPaid ==
  \A i \in 1..lastRequestId, r \in ShareRates : BatchEther(i - 1, i, r) \in Nat \ {0}

\* The affordability of a prefix in terms of what its requests are paid.
LEMMA AffordableMeans ==
  ASSUME TypeOK, NEW n \in Nat, NEW budget, NEW rate, NEW time
  PROVE  Affordable(n, budget, rate, time) <=>
           /\ \A i \in Prefix(n) : queue[i].timestamp <= time
           /\ Spent(n, rate) <= budget
           /\ 1 + Cardinality(Splits(n, rate)) <= MaxBatchesLength
<1> DEFINE S       == Prefix(n)
           f       == Payments(rate)
           V(i)    == BatchEther(i - 1, i, rate)
           Step(h) == [s \in SUBSET S |->
                         IF s = {} THEN 0 ELSE V(Taken(s)) + h[s \ {Taken(s)}]]
           iter    == CHOOSE h : h = Step(h)
<1>1. IsFiniteSet(S) /\ \A i \in S : i \in Nat
  <2>1. lastFinalizedRequestId \in Nat
    BY DEF TypeOK, Ids
  <2> QED BY <2>1, FS_Interval DEF Prefix
<1>2. MapThenSumSet(LAMBDA i : BatchEther(i - 1, i, rate), Prefix(n)) = iter[S]
  BY DEF MapThenSumSet, MapThenFoldSet, Taken
<1>3. \A i \in S : f[i] = V(i)
  BY <1>1 DEF Payments
<1>4. f = Payments(rate)
  OBVIOUS
<1>5. Affordable(n, budget, rate, time) <=>
        /\ \A i \in Prefix(n) : queue[i].timestamp <= time
        /\ iter[S] <= budget
        /\ 1 + Cardinality(Splits(n, rate)) <= MaxBatchesLength
  <2>1. Affordable(n, budget, rate, time) <=>
          /\ \A i \in Prefix(n) : queue[i].timestamp <= time
          /\ MapThenSumSet(LAMBDA i : BatchEther(i - 1, i, rate), Prefix(n)) <= budget
          /\ 1 + Cardinality(Splits(n, rate)) <= MaxBatchesLength
    BY DEF Affordable, Splits, Prefix, MapThenSumSet, MapThenFoldSet
  <2> HIDE DEF iter
  <2> QED BY <1>2, <2>1
<1> HIDE DEF S, V, f
<1>6. ASSUME NEW h PROVE h = Step(h) <=> Sums(h, f, S)
  <2>1. \A s \in SUBSET S : s # {} => Taken(s) \in S
    BY DEF Taken
  <2>2. Step(h) = [s \in SUBSET S |->
                     IF s = {} THEN 0 ELSE f[Taken(s)] + h[s \ {Taken(s)}]]
    BY <1>3, <2>1
  <2> QED BY <2>2 DEF Sums
<1> HIDE DEF Step
<1>7. (\E h : Sums(h, f, S)) => Sums(iter, f, S)
  <2>1. (\E h : h = Step(h)) => iter = Step(iter)
    OBVIOUS
  <2> HIDE DEF iter
  <2> QED BY <1>6, <2>1
<1> HIDE DEF iter
<1>8. iter[S] = SumOf(f, S)
  BY <1>1, <1>7, SumIterated
<1>9. iter[S] = Spent(n, rate)
  BY <1>4, <1>8 DEF S, Spent
<1> QED BY <1>5, <1>9

\* One more request adds its ether, and a batch unless it joins the one before it.
LEMMA PrefixGrows ==
  ASSUME TypeOK, RequestsPaid, NEW rate \in ShareRates,
         NEW n \in lastFinalizedRequestId .. lastRequestId - 1
  PROVE  /\ Prefix(n + 1) = Prefix(n) \cup {n + 1} /\ n + 1 \notin Prefix(n)
         /\ BatchEther(n, n + 1, rate) \in Nat \ {0}
         /\ Spent(n, rate) \in Nat
         /\ Spent(n + 1, rate) = Spent(n, rate) + BatchEther(n, n + 1, rate)
         /\ Cardinality(Splits(n, rate)) \in Nat
         /\ Cardinality(Splits(n + 1, rate)) =
              Cardinality(Splits(n, rate))
                + IF n # lastFinalizedRequestId /\ ~SameBatch(n + 1, rate) THEN 1 ELSE 0
<1> DEFINE lo == lastFinalizedRequestId
<1>1. /\ lo \in Nat /\ lastRequestId \in Nat /\ n \in Nat /\ lo <= n /\ n < lastRequestId
      /\ n + 1 \in 1..lastRequestId /\ n + 1 - 1 = n
  BY DEF TypeOK, Ids
<1>2. Prefix(n + 1) = Prefix(n) \cup {n + 1} /\ n + 1 \notin Prefix(n) /\ n + 1 \in Nat
  BY <1>1 DEF Prefix
<1>3. BatchEther(n, n + 1, rate) \in Nat \ {0}
  <2>1. BatchEther(n + 1 - 1, n + 1, rate) \in Nat \ {0}
    BY <1>1 DEF RequestsPaid
  <2> QED BY <1>1, <2>1
<1>4. \A i \in Prefix(n + 1) : Payments(rate)[i] \in Nat
  <2> SUFFICES ASSUME NEW i \in Prefix(n + 1) PROVE Payments(rate)[i] \in Nat
    OBVIOUS
  <2>1. i \in 1..lastRequestId /\ i \in Nat
    BY <1>1 DEF Prefix
  <2>2. BatchEther(i - 1, i, rate) \in Nat
    BY <2>1 DEF RequestsPaid
  <2> QED BY <2>1, <2>2 DEF Payments
<1>5. IsFiniteSet(Prefix(n)) /\ IsFiniteSet(Prefix(n + 1))
  BY <1>1, FS_Interval DEF Prefix
<1>6. /\ Spent(n, rate) \in Nat
      /\ Spent(n + 1, rate) = Spent(n, rate) + BatchEther(n, n + 1, rate)
  <2> DEFINE f == Payments(rate)
             S == Prefix(n)
             T == Prefix(n + 1)
             x == n + 1
  <2>1. x \in T /\ T \ {x} = S /\ S \subseteq T
    BY <1>2
  <2>2. f[x] = BatchEther(n, n + 1, rate)
    BY <1>1, <1>2 DEF Payments
  <2>3. /\ IsFiniteSet(S) /\ IsFiniteSet(T)
        /\ \A i \in T : f[i] \in Int
        /\ \A i \in S : f[i] \in Nat
    BY <1>4, <1>5, <2>1
  <2>4. Spent(n, rate) = SumOf(f, S) /\ Spent(n + 1, rate) = SumOf(f, T)
    BY DEF Spent
  <2> HIDE DEF f, S, T, x
  <2>5. SumOf(f, T) = f[x] + SumOf(f, T \ {x})
    BY <2>1, <2>3, SumTakes
  <2>6. SumOf(f, S) \in Nat
    BY <2>3, SumCovers
  <2>7. SumOf(f, T) = BatchEther(n, n + 1, rate) + SumOf(f, S)
    BY <2>1, <2>2, <2>5
  <2>8. PICK e \in Nat, p \in Nat :
          /\ e = BatchEther(n, n + 1, rate)
          /\ p = Spent(n, rate) /\ Spent(n + 1, rate) = e + p
    BY <1>3, <2>4, <2>6, <2>7
  <2> QED BY ONLY <2>8
<1>7. /\ IsFiniteSet(Splits(n, rate)) /\ n + 1 \notin Splits(n, rate)
      /\ Cardinality(Splits(n, rate)) \in Nat
  <2>1. Splits(n, rate) \subseteq Prefix(n)
    BY DEF Splits
  <2>2. IsFiniteSet(Splits(n, rate))
    BY <1>5, <2>1, FS_Subset
  <2> QED BY <1>2, <2>1, <2>2, FS_CardinalityType
<1>8. n \in Prefix(n) <=> n # lo
  BY <1>1 DEF Prefix
<1>9. \A i \in Prefix(n) : i - 1 \in Prefix(n + 1) <=> i - 1 \in Prefix(n)
  BY <1>1 DEF Prefix
<1>10. CASE n # lo /\ ~SameBatch(n + 1, rate)
  <2>1. Splits(n + 1, rate) = Splits(n, rate) \cup {n + 1}
    BY <1>1, <1>2, <1>8, <1>9, <1>10 DEF Splits
  <2>2. Cardinality(Splits(n + 1, rate)) = Cardinality(Splits(n, rate)) + 1
    BY <1>7, <2>1, FS_AddElement
  <2> QED BY <1>2, <1>3, <1>6, <1>7, <1>10, <2>2
<1>11. CASE ~(n # lo /\ ~SameBatch(n + 1, rate))
  <2>1. Splits(n + 1, rate) = Splits(n, rate)
    <3>1. n + 1 - 1 \in Prefix(n + 1) <=> n # lo
      BY <1>1 DEF Prefix
    <3> QED BY <1>2, <1>9, <1>11, <3>1 DEF Splits
  <2> QED BY <1>2, <1>3, <1>6, <1>7, <1>11, <2>1
<1> QED BY <1>10, <1>11

\* What is affordable stays so without its last requests.
LEMMA AffordableBefore ==
  ASSUME TypeOK, RequestsPaid, NEW budget \in Nat, NEW rate \in ShareRates, NEW time \in Nat,
         NEW n \in Nat, n <= lastRequestId, Affordable(n, budget, rate, time),
         NEW k \in Nat, k <= n
  PROVE  Affordable(k, budget, rate, time)
<1>1. /\ \A i \in Prefix(n) : queue[i].timestamp <= time
      /\ Spent(n, rate) <= budget
      /\ 1 + Cardinality(Splits(n, rate)) <= MaxBatchesLength
  BY AffordableMeans
<1>2. Prefix(k) \subseteq Prefix(n) /\ IsFiniteSet(Prefix(n)) /\ IsFiniteSet(Prefix(k))
  <2>1. lastFinalizedRequestId \in Nat
    BY DEF TypeOK, Ids
  <2>2. Prefix(k) \subseteq Prefix(n)
    BY <2>1 DEF Prefix
  <2>3. IsFiniteSet(Prefix(n))
    BY <2>1, FS_Interval DEF Prefix
  <2> QED BY <2>2, <2>3, FS_Subset
<1>3. \A i \in Prefix(n) : Payments(rate)[i] \in Nat
  <2> SUFFICES ASSUME NEW i \in Prefix(n) PROVE Payments(rate)[i] \in Nat
    OBVIOUS
  <2>1. i \in 1..lastRequestId /\ i \in Nat
    BY DEF Prefix, TypeOK, Ids
  <2>2. BatchEther(i - 1, i, rate) \in Nat
    BY <2>1 DEF RequestsPaid
  <2> QED BY <2>1, <2>2 DEF Payments
<1>4. Spent(k, rate) <= budget
  <2> DEFINE f == Payments(rate)
             S == Prefix(n)
             T == Prefix(k)
  <2>1. IsFiniteSet(S) /\ IsFiniteSet(T) /\ T \in SUBSET S /\ \A i \in S : f[i] \in Nat
    BY <1>2, <1>3
  <2>2. Spent(k, rate) = SumOf(f, T) /\ Spent(n, rate) = SumOf(f, S)
    BY DEF Spent
  <2> HIDE DEF f, S, T
  <2>3. SumOf(f, T) <= SumOf(f, S)
    BY <2>1, SumSubset
  <2>4. \A i \in T : f[i] \in Nat
    BY <2>1
  <2>5. SumOf(f, T) \in Nat /\ SumOf(f, S) \in Nat
    BY <2>1, <2>4, SumCovers
  <2> QED BY <1>1, <2>2, <2>3, <2>5
<1>5. 1 + Cardinality(Splits(k, rate)) <= MaxBatchesLength
  <2>1. Splits(k, rate) \subseteq Splits(n, rate) /\ Splits(n, rate) \subseteq Prefix(n)
    BY <1>2 DEF Splits
  <2>2. IsFiniteSet(Splits(n, rate)) /\ IsFiniteSet(Splits(k, rate))
    BY <1>2, <2>1, FS_Subset
  <2>3. /\ Cardinality(Splits(k, rate)) \in Nat /\ Cardinality(Splits(n, rate)) \in Nat
        /\ Cardinality(Splits(k, rate)) <= Cardinality(Splits(n, rate))
    BY <2>1, <2>2, FS_CardinalityType, FS_Subset
  <2> QED BY <1>1, <2>3, BatchesAssumption
<1>6. \A i \in Prefix(k) : queue[i].timestamp <= time
  BY <1>1, <1>2
<1> QED BY <1>4, <1>5, <1>6, AffordableMeans

-----------------------------------------------------------------------------
(* The turns of the loop.                                                  *)

Acc == [remainingEthBudget : Int, batches : Seq(Nat), currentId : Nat, stopped : BOOLEAN]

\* The loop has taken the requests up to n, and they are affordable.
Running(acc, n, budget, rate, time) ==
  /\ acc \in Acc /\ ~acc.stopped
  /\ acc.remainingEthBudget = budget - Spent(n, rate)
  /\ acc.currentId = n + 1
  /\ IF n = lastFinalizedRequestId THEN acc.batches = <<>>
     ELSE /\ Len(acc.batches) = 1 + Cardinality(Splits(n, rate))
          /\ acc.batches[Len(acc.batches)] = n
          /\ \A i \in DOMAIN acc.batches : acc.batches[i] \in Prefix(n)
  /\ Affordable(n, budget, rate, time)

\* The loop held acc and stopped, with nothing taken.
Halted(next, acc) ==
  /\ next \in Acc /\ next.stopped
  /\ next.batches = acc.batches /\ next.currentId = acc.currentId
  /\ acc.remainingEthBudget = 0 => next.remainingEthBudget = 0

\* What the two assignments to the batches leave.
LEMMA LastReplaced ==
  ASSUME NEW q \in Seq(Nat), NEW m \in Nat \ {0}, m = Len(q), NEW id \in Nat,
         NEW p, p = [q EXCEPT ![m] = id]
  PROVE  /\ p \in Seq(Nat) /\ Len(p) = m /\ p[m] = id /\ DOMAIN p = 1..m
         /\ \A i \in 1..m : i # m => p[i] = q[i]
OBVIOUS

LEMMA LastAppended ==
  ASSUME NEW q \in Seq(Nat), NEW m \in Nat, m = Len(q), NEW id \in Nat,
         NEW p, p = Append(q, id)
  PROVE  /\ p \in Seq(Nat) /\ Len(p) = m + 1 /\ p[m + 1] = id /\ DOMAIN p = 1 .. m + 1
         /\ \A i \in 1..m : p[i] = q[i]
OBVIOUS

\* A turn takes the next request when the longer prefix is affordable, and else stops.
LEMMA StepTaken ==
  ASSUME TypeOK, RequestsPaid, NEW budget \in Nat, NEW rate \in ShareRates, NEW time \in Nat,
         NEW n \in lastFinalizedRequestId .. lastRequestId - 1,
         NEW acc, Running(acc, n, budget, rate, time),
         NEW next, next = HandleRequest(acc, n + 1, rate, time)
  PROVE  IF Affordable(n + 1, budget, rate, time) THEN Running(next, n + 1, budget, rate, time)
         ELSE Halted(next, acc)
<1>a. PICK lo \in Nat, id \in Nat :
        /\ lo = lastFinalizedRequestId /\ n \in Nat /\ lo <= n /\ n < lastRequestId
        /\ id = n + 1 /\ id - 1 = n /\ id \in 1..lastRequestId /\ lastRequestId <= MaxRequests
  <2>1. /\ lastFinalizedRequestId \in Nat /\ lastRequestId \in Nat /\ n \in Nat
        /\ lastFinalizedRequestId <= n /\ n < lastRequestId /\ lastRequestId <= MaxRequests
        /\ n + 1 \in Nat /\ n + 1 - 1 = n /\ n + 1 \in 1..lastRequestId
    BY DEF TypeOK, Ids
  <2> QED BY <2>1
<1> DEFINE splits == n # lo /\ ~SameBatch(id, rate)
<1>b. PICK e \in Nat, sp \in Nat, c \in Nat :
        /\ e = BatchEther(id - 1, id, rate) /\ e # 0
        /\ sp = Spent(n, rate) /\ Spent(id, rate) = sp + e
        /\ c = Cardinality(Splits(n, rate))
        /\ Cardinality(Splits(id, rate)) = c + IF splits THEN 1 ELSE 0
        /\ Prefix(id) = Prefix(n) \cup {id}
  BY <1>a, PrefixGrows
<1>c. PICK have \in Int, left \in Int :
        /\ have = budget - sp /\ left = have - e
        /\ left < 0 <=> ~(sp + e <= budget)
        /\ left = budget - (sp + e)
        /\ have = 0 => left < 0
  <2>1. /\ budget - sp \in Int /\ (budget - sp) - e \in Int
        /\ (budget - sp) - e = budget - (sp + e)
        /\ (budget - sp) - e < 0 <=> ~(sp + e <= budget)
        /\ budget - sp = 0 => (budget - sp) - e < 0
    BY ONLY <1>b, budget \in Nat
  <2> QED BY <2>1
<1>1. /\ lo = lastFinalizedRequestId /\ n \in Nat /\ lo <= n /\ n < lastRequestId /\ id = n + 1
      /\ id - 1 = n /\ e = BatchEther(id - 1, id, rate) /\ e # 0
      /\ sp = Spent(n, rate) /\ Spent(id, rate) = sp + e
      /\ c = Cardinality(Splits(n, rate))
      /\ Cardinality(Splits(id, rate)) = c + IF splits THEN 1 ELSE 0
      /\ Prefix(id) = Prefix(n) \cup {id}
  BY <1>a, <1>b
<1>2. PICK q \in Seq(Nat), m \in Nat :
        /\ q = acc.batches /\ m = Len(q)
        /\ acc = [remainingEthBudget |-> have, batches |-> q, currentId |-> id,
                  stopped |-> FALSE]
  <2>1. /\ acc \in Acc /\ acc.stopped = FALSE /\ acc.currentId = id
        /\ acc.remainingEthBudget = have
    BY <1>1, <1>c DEF Running, Acc
  <2>2. acc.batches \in Seq(Nat) /\ Len(acc.batches) \in Nat
    BY <2>1 DEF Acc
  <2> QED BY <2>1, <2>2 DEF Acc
<1>d. acc = [remainingEthBudget |-> have, batches |-> q, currentId |-> id, stopped |-> FALSE]
  BY <1>2
<1>3. /\ n = lo => m = 0
      /\ n # lo => m = 1 + c /\ \A i \in 1..m : q[i] \in Prefix(n)
  <2>1. CASE n = lo
    <3>1. q = <<>>
      BY <1>1, <1>2, <2>1 DEF Running
    <3> QED BY <1>2, <2>1, <3>1
  <2>2. CASE n # lo
    <3>1. Len(q) = 1 + c /\ \A i \in DOMAIN q : q[i] \in Prefix(n)
      BY <1>1, <1>2, <2>2 DEF Running
    <3>2. DOMAIN q = 1..m
      BY <1>2
    <3> QED BY <1>2, <2>2, <3>1, <3>2
  <2> QED BY <2>1, <2>2
<1>4. /\ \A i \in Prefix(n) : queue[i].timestamp <= time
      /\ sp <= budget /\ 1 + c <= MaxBatchesLength /\ MaxBatchesLength \in Nat \ {0}
  <2>1. Affordable(n, budget, rate, time)
    BY DEF Running
  <2> QED BY <1>1, <2>1, AffordableMeans, BatchesAssumption
<1>5. Affordable(id, budget, rate, time) <=>
        /\ queue[id].timestamp <= time
        /\ sp + e <= budget
        /\ 1 + (c + IF splits THEN 1 ELSE 0) <= MaxBatchesLength
  <2>1. Affordable(id, budget, rate, time) <=>
          /\ \A i \in Prefix(id) : queue[i].timestamp <= time
          /\ Spent(id, rate) <= budget
          /\ 1 + Cardinality(Splits(id, rate)) <= MaxBatchesLength
    BY AffordableMeans
  <2> HIDE DEF splits
  <2> QED BY <1>1, <1>4, <2>1
<1>6. queue[id].timestamp \in Nat
  BY <1>a DEF TypeOK, Ids, Request
<1>7. m # 0 <=> n # lo
  BY <1>3
<1> DEFINE late == queue[id].timestamp > time \/ left < 0
<1>8. next = IF late
             THEN [remainingEthBudget |-> have, batches |-> q, currentId |-> id,
                   stopped |-> TRUE]
             ELSE IF n # lo /\ SameBatch(id, rate)
             THEN [remainingEthBudget |-> left, batches |-> [q EXCEPT ![m] = id],
                   currentId |-> id + 1, stopped |-> FALSE]
             ELSE IF m = MaxBatchesLength
             THEN [remainingEthBudget |-> left, batches |-> q, currentId |-> id, stopped |-> TRUE]
             ELSE [remainingEthBudget |-> left, batches |-> Append(q, id),
                   currentId |-> id + 1, stopped |-> FALSE]
  <2>1. /\ acc.stopped = FALSE /\ acc.batches = q /\ acc.remainingEthBudget = have
        /\ acc.remainingEthBudget - e = left
    BY <1>2, <1>c
  <2>2. next = IF late THEN [acc EXCEPT !.stopped = TRUE]
               ELSE IF n # lo /\ SameBatch(id, rate)
               THEN [acc EXCEPT !.remainingEthBudget = left, !.batches[m] = id,
                                !.currentId = id + 1]
               ELSE IF m = MaxBatchesLength
               THEN [acc EXCEPT !.remainingEthBudget = left, !.stopped = TRUE]
               ELSE [acc EXCEPT !.remainingEthBudget = left, !.batches = Append(@, id),
                                !.currentId = id + 1]
    BY <1>1, <1>2, <1>7, <2>1 DEF HandleRequest
  <2> HIDE DEF late
  <2>3. CASE late
    <3>1. next = [acc EXCEPT !.stopped = TRUE]
      BY <2>2, <2>3
    <3>2. next = [remainingEthBudget |-> have, batches |-> q,
                  currentId |-> id, stopped |-> TRUE]
      BY ONLY <1>d, <3>1
    <3> QED BY <2>3, <3>2
  <2>4. CASE ~late /\ n # lo /\ SameBatch(id, rate)
    <3>1. next = [acc EXCEPT !.remainingEthBudget = left, !.batches[m] = id,
                             !.currentId = id + 1]
      BY <2>2, <2>4
    <3>2. next = [remainingEthBudget |-> left, batches |-> [q EXCEPT ![m] = id],
                  currentId |-> id + 1, stopped |-> FALSE]
      BY ONLY <1>d, <3>1
    <3> QED BY <2>4, <3>2
  <2>5. CASE ~late /\ ~(n # lo /\ SameBatch(id, rate)) /\ m = MaxBatchesLength
    <3>1. next = [acc EXCEPT !.remainingEthBudget = left, !.stopped = TRUE]
      BY <2>2, <2>5
    <3>2. next = [remainingEthBudget |-> left, batches |-> q,
                  currentId |-> id, stopped |-> TRUE]
      BY ONLY <1>d, <3>1
    <3> QED BY <2>5, <3>2
  <2>6. CASE ~late /\ ~(n # lo /\ SameBatch(id, rate)) /\ m # MaxBatchesLength
    <3>1. next = [acc EXCEPT !.remainingEthBudget = left, !.batches = Append(@, id),
                             !.currentId = id + 1]
      BY <2>2, <2>6
    <3>2. next = [remainingEthBudget |-> left, batches |-> Append(q, id),
                  currentId |-> id + 1, stopped |-> FALSE]
      BY ONLY <1>d, <3>1
    <3> QED BY <2>6, <3>2
  <2> QED BY <2>3, <2>4, <2>5, <2>6
<1>9. CASE late
  <2>1. ~Affordable(id, budget, rate, time)
    <3>1. ~(queue[id].timestamp <= time /\ sp + e <= budget)
      BY <1>c, <1>6, <1>9
    <3> HIDE DEF splits
    <3> QED BY <1>5, <3>1
  <2>2. Halted(next, acc)
    <3>1. next = [remainingEthBudget |-> have, batches |-> q, currentId |-> id,
                  stopped |-> TRUE]
      BY <1>8, <1>9
    <3> QED BY ONLY <1>2, <3>1, have \in Int, id \in Nat DEF Halted, Acc
  <2> QED BY <1>1, <2>1, <2>2
<1>10. CASE ~late
  <2>0. /\ queue[id].timestamp <= time /\ sp + e <= budget
        /\ have # 0 /\ left = budget - Spent(id, rate)
    <3>1. PICK ts \in Nat : ts = queue[id].timestamp
      BY <1>6
    <3>2. ~(ts > time) /\ ~(left < 0)
      BY <1>10, <3>1
    <3>3. ts <= time
      BY ONLY <3>2, ts \in Nat, time \in Nat
    <3>4. have # 0 /\ sp + e <= budget /\ left = budget - (sp + e)
      BY ONLY <1>c, <3>2
    <3> QED BY <1>1, <3>1, <3>3, <3>4
  <2> HIDE DEF late
  <2>1. CASE n # lo /\ SameBatch(id, rate)
    <3>1. PICK p : p = [q EXCEPT ![m] = id]
      OBVIOUS
    <3>2. next = [remainingEthBudget |-> left, batches |-> p, currentId |-> id + 1,
                  stopped |-> FALSE]
      BY <1>8, <1>10, <2>1, <3>1
    <3>3. Affordable(id, budget, rate, time)
      BY <1>4, <1>5, <2>0, <2>1
    <3>4. m = 1 + c /\ m # 0 /\ \A i \in 1..m : q[i] \in Prefix(n)
      BY <1>3, <2>1
    <3>5. /\ p \in Seq(Nat) /\ Len(p) = m /\ p[m] = id /\ DOMAIN p = 1..m
          /\ \A i \in 1..m : i # m => p[i] = q[i]
      <4>1. id \in Nat /\ m \in Nat \ {0} /\ m = Len(q)
        BY <1>2, <3>4
      <4> QED BY ONLY <3>1, <4>1, LastReplaced
    <3>6. \A i \in 1..m : p[i] \in Prefix(id)
      BY <1>1, <3>4, <3>5
    <3>7. 1 + Cardinality(Splits(id, rate)) = m /\ id # lo
      BY <1>1, <2>1, <3>4
    <3>8. Running(next, id, budget, rate, time)
      <4>1. /\ next \in Acc /\ ~next.stopped /\ next.remainingEthBudget = left
            /\ next.currentId = id + 1 /\ next.batches = p
        BY ONLY <3>2, <3>5, left \in Int, id \in Nat DEF Acc
      <4> QED BY <1>1, <2>0, <3>3, <3>5, <3>6, <3>7, <4>1 DEF Running
    <3> QED BY <1>1, <3>3, <3>8
  <2>2. CASE ~(n # lo /\ SameBatch(id, rate)) /\ m = MaxBatchesLength
    <3>1. n # lo /\ ~SameBatch(id, rate)
      BY <1>4, <1>7, <2>2
    <3>2. ~Affordable(id, budget, rate, time)
      BY <1>3, <1>5, <2>2, <3>1
    <3>3. next = [remainingEthBudget |-> left, batches |-> q, currentId |-> id, stopped |-> TRUE]
      BY <1>8, <1>10, <2>2
    <3>4. Halted(next, acc)
      BY ONLY <1>2, <2>0, <3>3, left \in Int, id \in Nat DEF Halted, Acc
    <3> QED BY <1>1, <3>2, <3>4
  <2>3. CASE ~(n # lo /\ SameBatch(id, rate)) /\ m # MaxBatchesLength
    <3>1. PICK p : p = Append(q, id)
      OBVIOUS
    <3>2. next = [remainingEthBudget |-> left, batches |-> p, currentId |-> id + 1,
                  stopped |-> FALSE]
      BY <1>8, <1>10, <2>3, <3>1
    <3>3. m = IF splits THEN 1 + c ELSE 0
      BY <1>3, <2>3
    <3>4. /\ p \in Seq(Nat) /\ Len(p) = m + 1 /\ p[m + 1] = id /\ DOMAIN p = 1 .. m + 1
          /\ \A i \in 1..m : p[i] = q[i]
      <4>1. id \in Nat /\ m \in Nat /\ m = Len(q)
        BY <1>2
      <4> QED BY ONLY <3>1, <4>1, LastAppended
    <3>5. \A i \in 1 .. m + 1 : p[i] \in Prefix(id)
      <4>1. \A i \in 1..m : q[i] \in Prefix(n)
        BY <1>3, <1>7
      <4>2. \A i \in 1 .. m + 1 : i \in 1..m \/ i = m + 1
        OBVIOUS
      <4> QED BY <1>1, <3>4, <4>1, <4>2
    <3>6. 1 + Cardinality(Splits(id, rate)) = m + 1 /\ id # lo
      <4>1. CASE n = lo
        <5>1. Splits(n, rate) = {}
          BY <1>1, <4>1 DEF Splits, Prefix
        <5>2. c = 0
          BY <1>1, <5>1, FS_EmptySet
        <5> QED BY <1>1, <1>3, <4>1, <5>2
      <4>2. CASE n # lo
        <5>1. m = 1 + c /\ splits
          BY <1>3, <2>3, <4>2
        <5>2. Cardinality(Splits(id, rate)) = c + 1
          BY <1>1, <5>1
        <5> QED BY <1>1, <5>1, <5>2
      <4> QED BY <4>1, <4>2
    <3>7. Affordable(id, budget, rate, time)
      <4>1. 1 + (c + IF splits THEN 1 ELSE 0) <= MaxBatchesLength
        <5>1. CASE splits
          BY <1>3, <1>4, <2>3, <5>1
        <5>2. CASE ~splits
          BY <1>4, <5>2
        <5> QED BY <5>1, <5>2
      <4> QED BY <1>5, <2>0, <4>1
    <3>8. Running(next, id, budget, rate, time)
      <4>1. /\ next \in Acc /\ ~next.stopped /\ next.remainingEthBudget = left
            /\ next.currentId = id + 1 /\ next.batches = p
        BY ONLY <3>2, <3>4, left \in Int, id \in Nat DEF Acc
      <4> QED BY <1>1, <2>0, <3>4, <3>5, <3>6, <3>7, <4>1 DEF Running
    <3> QED BY <1>1, <3>7, <3>8
  <2> QED BY <2>1, <2>2, <2>3
<1> QED BY <1>9, <1>10

\* A loop that has stopped does nothing more.
LEMMA StoppedStays ==
  ASSUME NEW acc \in Acc, acc.stopped, NEW id, NEW rate, NEW time
  PROVE  HandleRequest(acc, id, rate, time) = acc
<1>1. HandleRequest(acc, id, rate, time) = [acc EXCEPT !.stopped = TRUE]
  BY DEF HandleRequest
<1>2. acc.stopped = TRUE
  BY DEF Acc
<1> QED BY ONLY acc \in Acc, <1>1, <1>2 DEF Acc

\* Before the first turn nothing is taken.
LEMMA StartRuns ==
  ASSUME TypeOK, NEW budget \in Nat, NEW rate, NEW time
  PROVE  Running(LoopStart(FirstState(budget)), lastFinalizedRequestId, budget, rate, time)
<1> DEFINE lo == lastFinalizedRequestId
<1>1. lo \in Nat
  BY DEF TypeOK, Ids
<1>2. Prefix(lo) = {}
  BY <1>1 DEF Prefix
<1>3. Spent(lo, rate) = 0
  BY <1>2, SumEmpty DEF Spent
<1>4. Cardinality(Splits(lo, rate)) = 0
  <2>1. Splits(lo, rate) = {}
    BY <1>2 DEF Splits
  <2> QED BY <2>1, FS_EmptySet
<1>5. Affordable(lo, budget, rate, time)
  BY <1>1, <1>2, <1>3, <1>4, AffordableMeans, BatchesAssumption
<1>6. LoopStart(FirstState(budget)) =
        [remainingEthBudget |-> budget, batches |-> <<>>, currentId |-> 1 + lo, stopped |-> FALSE]
  BY DEF LoopStart, FirstState
<1> QED BY <1>1, <1>3, <1>5, <1>6 DEF Running, Acc

\* The loop takes the first `reach' of the requests, and stops before the next.
Reaches(W, reach, len, budget, rate, time) ==
  /\ reach \in 0..len
  /\ \A k \in 0..reach : Running(W[k], lastFinalizedRequestId + k, budget, rate, time)
  /\ \A k \in reach + 1 .. len : W[k] = W[reach + 1]
  /\ reach < len => /\ Halted(W[reach + 1], W[reach])
                    /\ ~Affordable(lastFinalizedRequestId + reach + 1, budget, rate, time)

\* So the loop runs to the end of the longest affordable prefix and stands still after it.
LEMMA LoopReaches ==
  ASSUME TypeOK, RequestsPaid, NEW budget \in Nat, NEW rate \in ShareRates, NEW time \in Nat,
         NEW len \in Nat, len = lastRequestId - lastFinalizedRequestId,
         NEW W, Loops(W, LoopStart(FirstState(budget)), lastFinalizedRequestId + 1, len, rate, time)
  PROVE  \E reach \in Nat : Reaches(W, reach, len, budget, rate, time)
<1> DEFINE lo      == lastFinalizedRequestId
           Runs(k) == Running(W[k], lo + k, budget, rate, time)
           N       == {k \in 0..len : ~Runs(k)}
<1>1. lo \in Nat /\ lastRequestId \in Nat /\ lastRequestId = lo + len
  BY DEF TypeOK, Ids
<1>2. Runs(0)
  <2>1. lo + 0 = lo /\ W[0] = LoopStart(FirstState(budget))
    BY <1>1 DEF Loops
  <2> QED BY <2>1, StartRuns
<1>3. ASSUME NEW k \in 1..len
      PROVE  /\ k - 1 \in 0..len /\ lo + k - 1 \in lo .. lastRequestId - 1
             /\ W[k] = HandleRequest(W[k - 1], lo + k, rate, time)
  <2>1. k - 1 \in 0..len /\ lo + k - 1 \in lo .. lastRequestId - 1 /\ lo + 1 + k - 1 = lo + k
    BY <1>1
  <2>2. W[k] = HandleRequest(W[k - 1], lo + 1 + k - 1, rate, time)
    BY DEF Loops
  <2> QED BY <2>1, <2>2
<1>4. ASSUME NEW k \in 1..len, Runs(k - 1)
      PROVE  IF Affordable(lo + k, budget, rate, time) THEN Runs(k) ELSE Halted(W[k], W[k - 1])
  <2>1. PICK n : n = lo + k - 1 /\ n + 1 = lo + k /\ n = lo + (k - 1)
    BY <1>1
  <2>2. n \in lo .. lastRequestId - 1 /\ W[k] = HandleRequest(W[k - 1], n + 1, rate, time)
    BY <1>3, <2>1
  <2>3. Running(W[k - 1], n, budget, rate, time)
    BY <1>4, <2>1
  <2>4. IF Affordable(n + 1, budget, rate, time) THEN Running(W[k], n + 1, budget, rate, time)
        ELSE Halted(W[k], W[k - 1])
    BY <2>2, <2>3, StepTaken
  <2> QED BY <2>1, <2>4
<1>5. CASE N = {}
  <2>1. \A k \in 0..len : Runs(k)
    BY <1>5
  <2>2. len \in 0..len /\ len + 1 .. len = {}
    OBVIOUS
  <2>3. Reaches(W, len, len, budget, rate, time)
    BY <2>1, <2>2 DEF Reaches
  <2> QED BY <2>3
<1>6. CASE N # {}
  <2>1. PICK k \in N : \A j \in N : k <= j
    <3>1. N \in SUBSET Nat
      OBVIOUS
    <3> HIDE DEF N
    <3> QED BY <1>6, <3>1, LeastNumber
  <2>2. k \in 0..len /\ ~Runs(k)
    OBVIOUS
  <2>3. k # 0
    BY <1>2, <2>2
  <2>4. PICK reach \in Nat : reach = k - 1 /\ reach + 1 = k /\ reach < len /\ k \in 1..len
    <3>1. k - 1 \in Nat /\ k - 1 + 1 = k /\ k - 1 < len /\ k \in 1..len
      BY <2>2, <2>3
    <3> QED BY <3>1
  <2>5. \A j \in 0..reach : Runs(j)
    <3>1. \A j \in 0..reach : j \in 0..len /\ ~(k <= j)
      BY <2>4
    <3>2. \A j \in 0..len : j \notin N => Runs(j)
      OBVIOUS
    <3> HIDE DEF N, Runs
    <3> QED BY <2>1, <3>1, <3>2
  <2> HIDE DEF N
  <2>6. /\ Halted(W[k], W[reach])
        /\ ~Affordable(lo + reach + 1, budget, rate, time)
    <3>1. reach \in 0..reach /\ lo + reach + 1 = lo + k
      BY <1>1, <2>4
    <3>2. Runs(k - 1)
      BY <2>4, <2>5, <3>1
    <3>3. IF Affordable(lo + k, budget, rate, time) THEN Runs(k) ELSE Halted(W[k], W[k - 1])
      BY <1>4, <2>4, <3>2
    <3> HIDE DEF Runs
    <3> QED BY <2>2, <2>4, <3>1, <3>3
  <2>7. ASSUME NEW j \in k..len, W[j] # W[k] PROVE FALSE
    <3> DEFINE M == {i \in k..len : W[i] # W[k]}
    <3>1. PICK i \in M : \A h \in M : i <= h
      <4>1. M \in SUBSET Nat /\ M # {}
        BY <2>4, <2>7
      <4> HIDE DEF M
      <4> QED BY <4>1, LeastNumber
    <3>2. i \in k..len /\ W[i] # W[k]
      OBVIOUS
    <3>3. i - 1 \in k..len /\ i \in 1..len /\ ~(i <= i - 1)
      BY <2>4, <3>2
    <3>4. W[i - 1] = W[k]
      <4>1. i - 1 \notin M
        BY <3>1, <3>3
      <4> QED BY <3>3, <4>1
    <3> HIDE DEF M
    <3>5. W[i] = HandleRequest(W[k], lo + i, rate, time)
      BY <1>3, <3>3, <3>4
    <3>6. W[k] \in Acc /\ W[k].stopped
      BY <2>6 DEF Halted
    <3>7. W[i] = W[k]
      BY <3>5, <3>6, StoppedStays
    <3> QED BY <3>2, <3>7
  <2>8. Reaches(W, reach, len, budget, rate, time)
    <3>1. reach \in 0..len
      BY <2>4
    <3>2. \A j \in reach + 1 .. len : W[j] = W[reach + 1]
      BY <2>4, <2>7
    <3>3. Halted(W[reach + 1], W[reach])
      BY <2>4, <2>6
    <3> QED BY <2>5, <2>6, <3>1, <3>2, <3>3 DEF Reaches
  <2> QED BY <2>8
<1> QED BY <1>5, <1>6

-----------------------------------------------------------------------------
(* Several calls.                                                          *)

\* A state left by some calls is what the loop over all requests held after j turns.
Resumes(state, acc) ==
  /\ state.batches = acc.batches
  /\ state.remainingEthBudget = acc.remainingEthBudget

\* A call starts its loop where the state it was given left off.
LEMMA ResumesThere ==
  ASSUME TypeOK, RequestsPaid, NEW budget \in Nat, NEW rate \in ShareRates, NEW time \in Nat,
         NEW n \in lastFinalizedRequestId .. lastRequestId, NEW acc,
         Running(acc, n, budget, rate, time), NEW state, Resumes(state, acc)
  PROVE  LoopStart(state) = acc /\ LoopStart(state).currentId = n + 1
<1>1. lastFinalizedRequestId \in Nat /\ n \in Nat /\ n + 1 = 1 + n
  BY DEF TypeOK, Ids
<1>2. PICK q \in Seq(Nat) : q = acc.batches
  BY DEF Running, Acc
<1>3. (IF q = <<>> THEN lastFinalizedRequestId ELSE Last(q)) = n
  <2>1. CASE n = lastFinalizedRequestId
    BY <1>2, <2>1 DEF Running
  <2>2. CASE n # lastFinalizedRequestId
    <3>1. q[Len(q)] = n /\ Len(q) = 1 + Cardinality(Splits(n, rate))
      BY <1>2, <2>2 DEF Running
    <3>2. Cardinality(Splits(n, rate)) \in Nat
      <4>1. IsFiniteSet(Prefix(n)) /\ Splits(n, rate) \subseteq Prefix(n)
        BY <1>1, FS_Interval DEF Prefix, Splits
      <4>2. IsFiniteSet(Splits(n, rate))
        BY <4>1, FS_Subset
      <4> QED BY <4>2, FS_CardinalityType
    <3>3. q # <<>>
      <4>1. Len(q) # 0
        BY <3>1, <3>2
      <4> QED BY <4>1
    <3> QED BY <3>1, <3>3 DEF Last
  <2> QED BY <2>1, <2>2
<1>4. LoopStart(state) = [remainingEthBudget |-> acc.remainingEthBudget, batches |-> acc.batches,
                          currentId |-> n + 1, stopped |-> FALSE]
  BY <1>1, <1>2, <1>3 DEF LoopStart, Resumes
<1>5. acc \in Acc /\ acc.stopped = FALSE /\ acc.currentId = n + 1
  BY DEF Running, Acc
<1>6. acc = [remainingEthBudget |-> acc.remainingEthBudget, batches |-> acc.batches,
             currentId |-> acc.currentId, stopped |-> acc.stopped]
  BY ONLY <1>5 DEF Acc
<1> QED BY <1>4, <1>5, <1>6

\* A loop that goes on where another one was does what that one does.
LEMMA LoopFollows ==
  ASSUME NEW len \in Nat, NEW first \in Nat, NEW base, NEW rate, NEW time,
         NEW W, Loops(W, base, first, len, rate, time),
         NEW j \in Nat, NEW m \in Nat, j + m <= len,
         NEW F, Loops(F, W[j], first + j, m, rate, time)
  PROVE  F[m] = W[j + m]
<1> DEFINE N == {i \in 0..m : F[i] # W[j + i]}
<1>1. SUFFICES ASSUME N # {} PROVE FALSE
  OBVIOUS
<1>2. PICK i \in N : \A h \in N : i <= h
  <2>1. N \in SUBSET Nat
    OBVIOUS
  <2> HIDE DEF N
  <2> QED BY <1>1, <2>1, LeastNumber
<1>3. i \in 0..m /\ F[i] # W[j + i]
  OBVIOUS
<1>4. i # 0
  <2>1. F[0] = W[j] /\ j + 0 = j
    BY DEF Loops
  <2> QED BY <1>3, <2>1
<1>5. PICK p \in 0..m, q \in 1..len :
        /\ p = i - 1 /\ q = j + i /\ q - 1 = j + p /\ p \notin N
        /\ i \in 1..m /\ first + j + i - 1 = first + q - 1
  <2>1. /\ i - 1 \in 0..m /\ j + i \in 1..len /\ j + i - 1 = j + (i - 1) /\ ~(i <= i - 1)
        /\ i \in 1..m /\ first + j + i - 1 = first + (j + i) - 1
    BY <1>3, <1>4
  <2>2. i - 1 \notin N
    BY <1>2, <2>1
  <2> HIDE DEF N
  <2> QED BY <2>1, <2>2
<1>6. F[p] = W[j + p]
  BY <1>5
<1> HIDE DEF N
<1>7. F[i] = HandleRequest(F[i - 1], first + j + i - 1, rate, time)
  BY <1>5 DEF Loops
<1>8. W[q] = HandleRequest(W[q - 1], first + q - 1, rate, time)
  BY <1>5 DEF Loops
<1> QED BY <1>3, <1>5, <1>6, <1>7, <1>8

\* The loop over all unfinalized requests.
WholeLoop(W, reach, len, budget, rate, time) ==
  /\ len = lastRequestId - lastFinalizedRequestId
  /\ Loops(W, LoopStart(FirstState(budget)), lastFinalizedRequestId + 1, len, rate, time)
  /\ Reaches(W, reach, len, budget, rate, time)

\* A call takes the loop over all requests to its end, or some turns further.
LEMMA CallTakes ==
  ASSUME TypeOK, RequestsPaid, NEW budget \in Nat, NEW rate \in ShareRates, NEW time \in Nat,
         NEW len \in Nat, NEW reach \in Nat, NEW W, WholeLoop(W, reach, len, budget, rate, time),
         NEW j \in 0..reach, NEW state, Resumes(state, W[j]), NEW maxRequests \in Nat \ {0},
         NEW next, next = CalculateFinalizationBatches(state, rate, time, maxRequests)
  PROVE  \/ next.finished /\ Resumes(next, W[len])
         \/ /\ ~next.finished /\ j + maxRequests < len
            /\ \E i \in j + 1 .. reach : Resumes(next, W[i])
<1> DEFINE lo == lastFinalizedRequestId
<1>1. /\ lo \in Nat /\ lastRequestId \in Nat /\ lastRequestId = lo + len /\ j \in Nat /\ j <= reach
      /\ reach <= len /\ lo + j \in lo..lastRequestId /\ j \in 0..len
  BY DEF TypeOK, Ids, WholeLoop, Reaches
<1>2. PICK first \in Nat : first = lo + 1 + j /\ first = lo + j + 1
  BY <1>1
<1>3. Running(W[j], lo + j, budget, rate, time)
  BY DEF WholeLoop, Reaches
<1>4. LoopStart(state) = W[j] /\ LoopStart(state).currentId = first
  BY <1>1, <1>2, <1>3, ResumesThere
<1>5. PICK m \in Nat :
        /\ m = LoopPast(first, maxRequests) - first
        /\ m <= maxRequests /\ j + m <= len /\ (m = maxRequests \/ j + m = len)
  <2> DEFINE a == lastRequestId + 1
             b == first + maxRequests
  <2>1. a \in Int /\ b \in Int
    BY <1>1
  <2>2. Min({a, b}) \in {a, b} /\ Min({a, b}) <= a /\ Min({a, b}) <= b
    <3> HIDE DEF a, b
    <3> QED BY <2>1, MinOfTwo
  <2>3. PICK p \in Int : /\ p = LoopPast(first, maxRequests) /\ p \in {a, b}
                         /\ p <= a /\ p <= b
    <3>1. LoopPast(first, maxRequests) = Min({a, b})
      BY DEF LoopPast
    <3> HIDE DEF a, b
    <3> QED BY <2>1, <2>2, <3>1
  <2>4. p - first \in Nat /\ p - first <= maxRequests /\ j + (p - first) <= len
        /\ (p - first = maxRequests \/ j + (p - first) = len)
    BY <1>1, <1>2, <2>3
  <2> QED BY <2>3, <2>4
<1>6. PICK F : /\ Loops(F, LoopStart(state), first, m, rate, time)
               /\ CalculateFinalizationBatches(state, rate, time, maxRequests) =
                    LoopResult(F[m], first, maxRequests)
  <2>1. maxRequests \in Nat /\ first = LoopStart(state).currentId
    BY <1>4
  <2> QED BY <1>5, <2>1, LoopUnrolls
<1>7. PICK k \in 0..len : k = j + m
  BY <1>1, <1>5
<1>8. F[m] = W[k]
  <2>1. PICK f0, base :
          /\ f0 \in Nat /\ f0 = lo + 1 /\ first = f0 + j /\ base = LoopStart(FirstState(budget))
    BY <1>1, <1>2
  <2>2. Loops(W, base, f0, len, rate, time)
    BY <2>1 DEF WholeLoop
  <2>3. Loops(F, W[j], f0 + j, m, rate, time)
    BY <1>4, <1>6, <2>1
  <2>4. j + m <= len /\ j \in Nat
    BY <1>1, <1>5
  <2>5. F[m] = W[j + m]
    BY ONLY len \in Nat, m \in Nat, <2>1, <2>2, <2>3, <2>4, LoopFollows
  <2> QED BY <1>7, <2>5
<1>9. next = LoopResult(W[k], first, maxRequests)
  BY <1>6, <1>8
<1>10. /\ Resumes(next, W[k])
       /\ next.finished <=> (\/ W[k].currentId = lastRequestId + 1
                             \/ W[k].currentId < first + maxRequests)
  BY <1>9 DEF LoopResult, Resumes
<1>11. CASE k <= reach
  <2>1. Running(W[k], lo + k, budget, rate, time)
    BY <1>11 DEF WholeLoop, Reaches
  <2>2. W[k].currentId = lo + k + 1
    BY <2>1 DEF Running
  <2>3. CASE k = len
    <3>1. next.finished
      BY <1>1, <1>10, <2>2, <2>3
    <3> QED BY <1>10, <2>3, <3>1
  <2>4. CASE k # len
    <3>1. m = maxRequests /\ k \in j + 1 .. reach /\ j + maxRequests < len
          /\ lo + k + 1 = first + maxRequests /\ lo + k + 1 # lastRequestId + 1
      BY <1>1, <1>2, <1>5, <1>7, <1>11, <2>4
    <3>2. ~(first + maxRequests < first + maxRequests)
      BY <1>2
    <3>3. ~next.finished
      BY <1>10, <2>2, <3>1, <3>2
    <3> QED BY <1>10, <3>1, <3>3
  <2> QED BY <2>3, <2>4
<1>12. CASE ~(k <= reach)
  <2>1. reach + 1 <= k /\ reach < len /\ k \in reach + 1 .. len /\ len \in reach + 1 .. len
    BY <1>1, <1>12
  <2>2. W[k] = W[reach + 1] /\ W[len] = W[reach + 1] /\ Halted(W[reach + 1], W[reach])
    BY <2>1 DEF WholeLoop, Reaches
  <2>3. Running(W[reach], lo + reach, budget, rate, time)
    BY DEF WholeLoop, Reaches
  <2>4. W[k].currentId = lo + reach + 1
    BY <2>2, <2>3 DEF Halted, Running
  <2>5. lo + reach + 1 < first + maxRequests
    <3>1. first = lo + j + 1 /\ k = j + m /\ m <= maxRequests
      BY <1>2, <1>5, <1>7
    <3>2. lo \in Nat /\ j \in Nat /\ k \in Nat
      BY <1>1
    <3> HIDE DEF lo
    <3> QED BY ONLY <2>1, <3>1, <3>2, m \in Nat, maxRequests \in Nat, reach \in Nat, len \in Nat, first \in Nat
  <2> QED BY <1>10, <2>2, <2>4, <2>5
<1> QED BY <1>11, <1>12

\* A state with nothing left to spend is what the whole loop ends with.
LEMMA SpentEnds ==
  ASSUME TypeOK, RequestsPaid, NEW budget \in Nat, NEW rate \in ShareRates, NEW time \in Nat,
         NEW len \in Nat, NEW reach \in Nat, NEW W, WholeLoop(W, reach, len, budget, rate, time),
         NEW j \in 0..reach, NEW state, Resumes(state, W[j]), state.remainingEthBudget = 0
  PROVE  Resumes(state, W[len])
<1> DEFINE lo == lastFinalizedRequestId
<1>1. /\ lo \in Nat /\ lastRequestId \in Nat /\ lastRequestId = lo + len /\ j \in Nat /\ j <= reach
      /\ reach <= len
  BY DEF TypeOK, Ids, WholeLoop, Reaches
<1>2. Running(W[j], lo + j, budget, rate, time) /\ W[j].remainingEthBudget = 0
  BY DEF WholeLoop, Reaches, Resumes
<1>3. j = reach
  <2> SUFFICES ASSUME j # reach PROVE FALSE
    OBVIOUS
  <2>1. PICK n \in Nat : n = lo + j /\ n \in lo .. lastRequestId - 1 /\ n + 1 = lo + (j + 1)
                         /\ j + 1 \in 0..reach
    BY <1>1
  <2>2. Running(W[j + 1], lo + (j + 1), budget, rate, time)
    BY <2>1 DEF WholeLoop, Reaches
  <2>3. Affordable(n + 1, budget, rate, time)
    BY <2>1, <2>2 DEF Running
  <2>4. Spent(n + 1, rate) <= budget
    BY <2>3, AffordableMeans
  <2>5. PICK e \in Nat \ {0}, sp \in Nat : sp = Spent(n, rate) /\ Spent(n + 1, rate) = sp + e
    BY <2>1, PrefixGrows
  <2>6. budget - sp = 0
    BY <1>2, <2>1, <2>5 DEF Running
  <2>7. sp + e <= budget
    BY <2>4, <2>5
  <2> QED BY ONLY budget \in Nat, <2>5, <2>6, <2>7
<1>4. CASE reach = len
  BY <1>3, <1>4
<1>5. CASE reach < len
  <2>1. W[len] = W[reach + 1] /\ Halted(W[reach + 1], W[reach])
    <3>1. len \in reach + 1 .. len
      BY <1>5
    <3> QED BY <1>5, <3>1 DEF WholeLoop, Reaches
  <2> QED BY <1>2, <1>3, <2>1 DEF Halted, Resumes
<1> QED BY <1>1, <1>4, <1>5

\* However few requests each call handles, the calls end where one call does.
LEMMA CallsMeet ==
  ASSUME TypeOK, RequestsPaid, NEW budget \in Nat, NEW rate \in ShareRates, NEW time \in Nat,
         NEW len \in Nat, NEW reach \in Nat, NEW W, WholeLoop(W, reach, len, budget, rate, time),
         NEW maxRequests \in Nat \ {0}, NEW n \in Nat, n > len,
         NEW G, Calling(G, n, budget, rate, time, maxRequests)
  PROVE  Resumes(G[n], W[len])
<1> DEFINE Goes(k)  == /\ ~G[k].finished
                       /\ \E j \in 0..reach : j >= k /\ Resumes(G[k], W[j])
           Ended(k) == CallReverts(G[k]) /\ Resumes(G[k], W[len])
           N        == {k \in 0..n : ~(Goes(k) \/ Ended(k))}
<1>1. Goes(0)
  <2>1. G[0] = FirstState(budget) /\ W[0] = LoopStart(FirstState(budget))
    BY DEF Calling, WholeLoop, Loops
  <2>2. ~G[0].finished /\ Resumes(G[0], W[0])
    BY <2>1 DEF FirstState, LoopStart, Resumes
  <2>3. 0 \in 0..reach /\ 0 >= 0
    OBVIOUS
  <2> QED BY <2>2, <2>3
<1>2. ASSUME NEW k \in 1..n, NEW p \in Nat, p = k - 1, Goes(p) \/ Ended(p)
      PROVE  Goes(k) \/ Ended(k)
  <2>1. G[k] = IF CallReverts(G[p]) THEN G[p]
               ELSE CalculateFinalizationBatches(G[p], rate, time, maxRequests)
    BY <1>2 DEF Calling
  <2>2. CASE Ended(p)
    BY <2>1, <2>2
  <2>3. CASE Goes(p)
    <3>1. PICK j \in 0..reach : j >= p /\ Resumes(G[p], W[j])
      BY <2>3
    <3>2. CASE CallReverts(G[p])
      <4>1. G[p].remainingEthBudget = 0
        BY <2>3, <3>2 DEF CallReverts
      <4>2. Resumes(G[p], W[len])
        BY <3>1, <4>1, SpentEnds
      <4> QED BY <2>1, <3>2, <4>2
    <3>3. CASE ~CallReverts(G[p])
      <4>1. G[k] = CalculateFinalizationBatches(G[p], rate, time, maxRequests)
        BY <2>1, <3>3
      <4>2. \/ G[k].finished /\ Resumes(G[k], W[len])
            \/ ~G[k].finished /\ \E i \in j + 1 .. reach : Resumes(G[k], W[i])
        <5>1. \/ G[k].finished /\ Resumes(G[k], W[len])
              \/ /\ ~G[k].finished /\ j + maxRequests < len
                 /\ \E i \in j + 1 .. reach : Resumes(G[k], W[i])
          BY <3>1, <4>1, CallTakes
        <5> QED BY <5>1
      <4>3. CASE G[k].finished /\ Resumes(G[k], W[len])
        BY <4>3 DEF CallReverts
      <4>4. CASE ~G[k].finished /\ \E i \in j + 1 .. reach : Resumes(G[k], W[i])
        <5>1. PICK i \in j + 1 .. reach : Resumes(G[k], W[i])
          BY <4>4
        <5>2. i \in 0..reach /\ i >= k
          BY <1>2, <3>1
        <5> QED BY <4>4, <5>1, <5>2
      <4> QED BY <4>2, <4>3, <4>4
    <3> QED BY <3>2, <3>3
  <2> QED BY <1>2, <2>2, <2>3
<1>3. N = {}
  <2> SUFFICES ASSUME N # {} PROVE FALSE
    OBVIOUS
  <2>1. PICK k \in N : \A h \in N : k <= h
    <3>1. N \in SUBSET Nat
      OBVIOUS
    <3> HIDE DEF N
    <3> QED BY <3>1, LeastNumber
  <2>2. k \in 0..n /\ ~(Goes(k) \/ Ended(k))
    OBVIOUS
  <2>3. k # 0
    BY <1>1, <2>2
  <2>4. PICK p \in Nat : p = k - 1 /\ p \in 0..n /\ k \in 1..n /\ ~(k <= p)
    <3>1. k - 1 \in Nat /\ k - 1 \in 0..n /\ k \in 1..n /\ ~(k <= k - 1)
      BY <2>2, <2>3
    <3> QED BY <3>1
  <2>5. Goes(p) \/ Ended(p)
    <3>1. p \notin N
      BY <2>1, <2>4
    <3> HIDE DEF Goes, Ended
    <3> QED BY <2>4, <3>1
  <2> HIDE DEF Goes, Ended, N
  <2> QED BY <1>2, <2>2, <2>4, <2>5
<1>4. Goes(n) \/ Ended(n)
  <2>1. n \in 0..n
    OBVIOUS
  <2> HIDE DEF Goes, Ended
  <2> QED BY <1>3, <2>1
<1>5. ~Goes(n)
  <2>1. reach <= len
    BY DEF WholeLoop, Reaches
  <2> QED BY <2>1
<1> QED BY <1>4, <1>5

-----------------------------------------------------------------------------
(* What one call takes.                                                    *)

\* One call that may handle all requests runs the whole loop.
LEMMA OneCallLoops ==
  ASSUME TypeOK, RequestsPaid, NEW budget \in Nat, NEW rate \in ShareRates, NEW time \in Nat
  PROVE  \E W, reach, len :
           /\ len \in Nat /\ reach \in Nat /\ len <= MaxRequests
           /\ WholeLoop(W, reach, len, budget, rate, time)
           /\ Resumes(OneCall(budget, rate, time), W[len])
<1> DEFINE state == FirstState(budget)
           base  == LoopStart(state)
           first == lastFinalizedRequestId + 1
<1>1. /\ lastFinalizedRequestId \in Nat /\ lastRequestId \in Nat
      /\ lastFinalizedRequestId <= lastRequestId /\ lastRequestId <= MaxRequests
  BY DEF TypeOK, Ids
<1>2. PICK len \in Nat : len = lastRequestId - lastFinalizedRequestId /\ len <= MaxRequests
  BY <1>1
<1>3. first \in Nat /\ first = base.currentId
  BY <1>1 DEF FirstState, LoopStart
<1>4. LoopPast(first, MaxRequests) = lastRequestId + 1
  <2>1. /\ lastRequestId + 1 \in Int /\ first + MaxRequests \in Int
        /\ lastRequestId + 1 <= first + MaxRequests
    BY <1>1
  <2>2. PICK a \in Int, b \in Int :
          a = lastRequestId + 1 /\ b = first + MaxRequests /\ a <= b
    BY <2>1
  <2>3. Min({a, b}) \in {a, b} /\ Min({a, b}) <= a /\ Min({a, b}) <= b
    BY MinOfTwo
  <2>4. Min({a, b}) = a
    BY <2>2, <2>3
  <2>5. LoopPast(first, MaxRequests) = Min({a, b})
    BY <2>2 DEF LoopPast
  <2> QED BY <2>2, <2>4, <2>5
<1>5. len = LoopPast(first, MaxRequests) - first
  BY <1>1, <1>2, <1>4
<1>6. PICK W : /\ Loops(W, base, first, len, rate, time)
               /\ CalculateFinalizationBatches(state, rate, time, MaxRequests) =
                    LoopResult(W[len], first, MaxRequests)
  <2> HIDE DEF base, state, first
  <2>1. MaxRequests \in Nat /\ first = LoopStart(state).currentId
    BY <1>3 DEF base
  <2>2. \E F : /\ Loops(F, LoopStart(state), first, len, rate, time)
               /\ CalculateFinalizationBatches(state, rate, time, MaxRequests) =
                     LoopResult(F[len], first, MaxRequests)
    BY <1>2, <1>3, <1>5, <2>1, LoopUnrolls
  <2> QED BY <2>2 DEF base
<1>7. PICK reach \in Nat : Reaches(W, reach, len, budget, rate, time)
  BY <1>2, <1>6, LoopReaches
<1>8. WholeLoop(W, reach, len, budget, rate, time)
  BY <1>2, <1>6, <1>7 DEF WholeLoop
<1>9. Resumes(OneCall(budget, rate, time), W[len])
  BY <1>6 DEF OneCall, LoopResult, Resumes
<1> QED BY <1>2, <1>8, <1>9

\* The loop ends with the batches of the longest affordable prefix.
LEMMA LoopTakes ==
  ASSUME TypeOK, RequestsPaid, NEW budget \in Nat, NEW rate \in ShareRates, NEW time \in Nat,
         NEW len \in Nat, NEW reach \in Nat, NEW W, WholeLoop(W, reach, len, budget, rate, time)
  PROVE  /\ Running(W[reach], lastFinalizedRequestId + reach, budget, rate, time)
         /\ W[len].batches = W[reach].batches
         /\ \A n \in lastFinalizedRequestId + 1 .. lastRequestId :
              Affordable(n, budget, rate, time) <=> n <= lastFinalizedRequestId + reach
<1> DEFINE lo == lastFinalizedRequestId
<1>1. /\ lo \in Nat /\ lastRequestId \in Nat /\ lastRequestId = lo + len /\ reach <= len
      /\ reach \in 0..reach
  BY DEF TypeOK, Ids, WholeLoop, Reaches
<1>2. Running(W[reach], lo + reach, budget, rate, time)
  BY <1>1 DEF WholeLoop, Reaches
<1>3. W[len].batches = W[reach].batches
  <2>1. CASE reach < len
    <3>1. len \in reach + 1 .. len
      BY <2>1
    <3> QED BY <2>1, <3>1 DEF WholeLoop, Reaches, Halted
  <2>2. CASE reach = len
    BY <2>2
  <2> QED BY <1>1, <2>1, <2>2
<1>4. ASSUME NEW n \in lo + 1 .. lastRequestId
      PROVE  Affordable(n, budget, rate, time) <=> n <= lo + reach
  <2>1. n \in Nat /\ n <= lastRequestId /\ lo + reach \in Nat /\ lo + reach <= lastRequestId
        /\ lo + reach + 1 \in Nat
    BY <1>1
  <2>2. CASE n <= lo + reach
    <3>1. Affordable(lo + reach, budget, rate, time)
      BY <1>2 DEF Running
    <3>2. PICK h \in Nat : h = lo + reach /\ h <= lastRequestId /\ n <= h
      BY <2>1, <2>2
    <3>3. Affordable(h, budget, rate, time)
      BY <3>1, <3>2
    <3>4. Affordable(n, budget, rate, time)
      BY <2>1, <3>2, <3>3, AffordableBefore
    <3> QED BY <2>2, <3>4
  <2>3. CASE ~(n <= lo + reach)
    <3>1. reach < len /\ lo + reach + 1 <= n
      BY <1>1, <2>3
    <3>2. ~Affordable(lo + reach + 1, budget, rate, time)
      BY <3>1 DEF WholeLoop, Reaches
    <3>3. PICK h \in Nat : h = lo + reach + 1 /\ h <= n
      BY <2>1, <3>1
    <3>4. ~Affordable(h, budget, rate, time)
      BY <3>2, <3>3
    <3>5. ~Affordable(n, budget, rate, time)
      BY <2>1, <3>3, <3>4, AffordableBefore
    <3> QED BY <2>3, <3>5
  <2> QED BY <2>2, <2>3
<1> QED BY <1>2, <1>3, <1>4

\* The requests an affordable prefix can end with.
AffordableEnds(budget, rate, time) ==
  {n \in lastFinalizedRequestId + 1 .. lastRequestId : Affordable(n, budget, rate, time)}

\* So the batches of a call that handles all requests end with that prefix.
LEMMA WholeTakesPrefix ==
  ASSUME TypeOK, RequestsPaid, NEW budget \in Nat, NEW rate \in ShareRates, NEW time \in Nat,
         NEW len \in Nat, NEW reach \in Nat, NEW W, WholeLoop(W, reach, len, budget, rate, time),
         NEW whole, Resumes(whole, W[len]),
         NEW taken, taken = AffordableEnds(budget, rate, time)
  PROVE  IF taken = {} THEN BatchEnds(whole) = {}
         ELSE BatchEnds(whole) \in ValidBatches /\ Max(BatchEnds(whole)) = Max(taken)
<1> DEFINE lo == lastFinalizedRequestId
<1>1. /\ lo \in Nat /\ lastRequestId \in Nat /\ lastRequestId = lo + len /\ reach <= len
      /\ lastRequestId <= MaxRequests
  BY DEF TypeOK, Ids, WholeLoop, Reaches
<1>2. Running(W[reach], lo + reach, budget, rate, time) /\ W[len].batches = W[reach].batches
  BY LoopTakes
<1>3. \A n \in lo + 1 .. lastRequestId : Affordable(n, budget, rate, time) <=> n <= lo + reach
  BY LoopTakes
<1>4. PICK last \in Nat : last = lo + reach /\ last <= lastRequestId /\ lo <= last
  BY <1>1
<1>5. taken = lo + 1 .. last
  BY <1>1, <1>3, <1>4 DEF AffordableEnds
<1>6. PICK q \in Seq(Nat) : q = whole.batches /\ q = W[reach].batches
  BY <1>2 DEF Running, Acc, Resumes
<1>7. BatchEnds(whole) = {q[i] : i \in DOMAIN q}
  BY <1>6 DEF BatchEnds
<1>8. CASE reach = 0
  <2>1. taken = {} /\ last = lo
    BY <1>1, <1>4, <1>5, <1>8
  <2>2. q = <<>>
    BY <1>2, <1>4, <1>6, <2>1 DEF Running
  <2> QED BY <1>7, <2>1, <2>2
<1>9. CASE reach # 0
  <2>1. last # lo /\ last \in lo + 1 .. last /\ last \in taken
    BY <1>1, <1>4, <1>5, <1>9
  <2>2. /\ Len(q) = 1 + Cardinality(Splits(last, rate)) /\ q[Len(q)] = last
        /\ \A i \in DOMAIN q : q[i] \in Prefix(last)
    BY <1>2, <1>4, <1>6, <2>1 DEF Running
  <2>3. Cardinality(Splits(last, rate)) \in Nat
    <3>1. IsFiniteSet(Prefix(last)) /\ Splits(last, rate) \subseteq Prefix(last)
      BY <1>1, FS_Interval DEF Prefix, Splits
    <3>2. IsFiniteSet(Splits(last, rate))
      BY <3>1, FS_Subset
    <3> QED BY <3>2, FS_CardinalityType
  <2>4. Len(q) \in DOMAIN q
    BY <2>2, <2>3
  <2>5. PICK ends : ends = BatchEnds(whole) /\ last \in ends /\ ends \subseteq lo + 1 .. last
    <3>1. last \in BatchEnds(whole)
      BY <1>7, <2>2, <2>4
    <3>2. BatchEnds(whole) \subseteq lo + 1 .. last
      BY <1>7, <2>2 DEF Prefix
    <3> QED BY <3>1, <3>2
  <2>6. ends \in ValidBatches
    BY <1>1, <1>4, <2>5 DEF ValidBatches
  <2>7. ends \in SUBSET (0..MaxRequests) /\ ends # {} /\ taken \in SUBSET (0..MaxRequests) /\ taken # {}
    BY <1>1, <1>4, <1>5, <2>1, <2>5
  <2>8. Max(ends) \in ends /\ \A y \in ends : y <= Max(ends)
    BY <2>7, MaxOfBounded
  <2>9. Max(taken) \in taken /\ \A y \in taken : y <= Max(taken)
    BY <2>7, MaxOfBounded
  <2>10. PICK a, b : a = Max(ends) /\ b = Max(taken)
    OBVIOUS
  <2>11. a \in lo + 1 .. last /\ b \in lo + 1 .. last /\ last <= a /\ last <= b
    BY ONLY <1>5, <2>1, <2>5, <2>8, <2>9, <2>10
  <2>12. a = b
    BY <1>1, <1>4, <2>11
  <2> QED BY <2>1, <2>5, <2>6, <2>10, <2>12
<1> QED BY <1>8, <1>9

\* The property, from the types and the payments alone.
LEMMA PrefixTaken ==
  ASSUME TypeOK, RequestsPaid
  PROVE  LongestAffordablePrefix
<1> SUFFICES
      ASSUME NEW m \in Budgets, NEW r \in ShareRates, NEW t \in 0..MaxTime, NEW taken,
             taken = AffordableEnds(m, r, t)
      PROVE  /\ IF taken = {} THEN BatchEnds(OneCall(m, r, t)) = {}
                ELSE /\ BatchEnds(OneCall(m, r, t)) \in ValidBatches
                     /\ Max(BatchEnds(OneCall(m, r, t))) = Max(taken)
             /\ \A k \in 1..MaxRequests :
                  /\ Calls(m, r, t, k).batches = OneCall(m, r, t).batches
                  /\ Calls(m, r, t, k).remainingEthBudget = OneCall(m, r, t).remainingEthBudget
  BY DEF LongestAffordablePrefix, AffordableEnds
<1>1. m \in Nat /\ t \in Nat
  BY BatchesAssumption
<1>2. PICK W, reach, len :
        /\ len \in Nat /\ reach \in Nat /\ len <= MaxRequests
        /\ WholeLoop(W, reach, len, m, r, t)
        /\ Resumes(OneCall(m, r, t), W[len])
  BY <1>1, OneCallLoops
<1>3. IF taken = {} THEN BatchEnds(OneCall(m, r, t)) = {}
      ELSE /\ BatchEnds(OneCall(m, r, t)) \in ValidBatches
           /\ Max(BatchEnds(OneCall(m, r, t))) = Max(taken)
  <2>1. PICK whole : whole = OneCall(m, r, t)
    OBVIOUS
  <2>2. Resumes(whole, W[len])
    BY <1>2, <2>1
  <2>3. IF taken = {} THEN BatchEnds(whole) = {}
        ELSE BatchEnds(whole) \in ValidBatches /\ Max(BatchEnds(whole)) = Max(taken)
    BY <1>1, <1>2, <2>2, WholeTakesPrefix
  <2> QED BY <2>1, <2>3
<1>4. ASSUME NEW k \in 1..MaxRequests
      PROVE  /\ Calls(m, r, t, k).batches = OneCall(m, r, t).batches
             /\ Calls(m, r, t, k).remainingEthBudget = OneCall(m, r, t).remainingEthBudget
  <2>1. PICK n : n \in Nat /\ n = MaxRequests + 1 /\ n > len
    BY <1>2
  <2>2. PICK G : Calling(G, n, m, r, t, k) /\ AfterCalls(n, m, r, t, k) = G[n]
    BY <2>1, CallsUnroll
  <2>3. k \in Nat \ {0}
    OBVIOUS
  <2>4. Resumes(G[n], W[len])
    BY <1>1, <1>2, <2>1, <2>2, <2>3, CallsMeet
  <2>5. Calls(m, r, t, k) = G[n]
    BY <2>1, <2>2 DEF Calls
  <2> QED BY <1>2, <2>4, <2>5 DEF Resumes
<1> QED BY <1>3, <1>4
-----------------------------------------------------------------------------
(* Every request is paid something.                                        *)

LEMMA PaidInit == Init => RequestsPaid
  BY DEF Init, RequestsPaid

\* A new request brings the shares of at least the least amount.
LEMMA SharesAtLeast ==
  ASSUME pool \in Pools, NEW a \in Nat, MinAmount <= a, NEW r \in ShareRates
  PROVE  /\ SharesByPooledEth(a) \in Nat
         /\ (SharesByPooledEth(a) * r) \div Precision \in Nat \ {0}
<1> DEFINE s0 == (MinAmount * pool.shares) \div pool.ether
           s  == SharesByPooledEth(a)
<1>1. PICK eth \in Nat \ {0}, shs \in Nat \ {0} : eth = pool.ether /\ shs = pool.shares
  OBVIOUS
<1>2. PICK x \in Nat, y \in Nat : x = MinAmount * shs /\ y = a * shs /\ x <= y
  <2>1. shs * MinAmount <= shs * a
    BY ProductMonotone
  <2>2. /\ MinAmount * shs \in Nat /\ a * shs \in Nat
        /\ shs * MinAmount = MinAmount * shs /\ shs * a = a * shs
    BY ProductNat
  <2> QED BY <2>1, <2>2
<1>3. s0 = x \div eth /\ s = y \div eth
  BY <1>1, <1>2 DEF SharesByPooledEth
<1>4. s0 \in Nat /\ s \in Nat /\ eth * s0 <= x
  <2>1. x \div eth \in Nat /\ y \div eth \in Nat /\ eth * (x \div eth) <= x
    BY QuotientBounds
  <2> QED BY <1>3, <2>1
<1>5. s0 <= s
  <2> HIDE DEF s0, s
  <2>1. eth * s0 <= y
    BY <1>2, <1>4, ProductNat
  <2>2. s0 <= y \div eth
    BY <1>4, <2>1, QuotientAtLeast
  <2> QED BY <1>3, <2>2
<1>6. s0 * r >= Precision
  BY PaidAssumption
<1> HIDE DEF s0, s
<1>7. r \in Nat /\ Precision \in Nat \ {0}
  OBVIOUS
<1>8. PICK z \in Nat : z = s * r /\ Precision * 1 <= z
  <2>1. r * s0 <= r * s
    BY <1>4, <1>5, <1>7, ProductMonotone
  <2>2. s * r \in Nat /\ s0 * r \in Nat
    BY <1>4, <1>7, ProductNat
  <2>3. r * s0 = s0 * r /\ r * s = s * r
    BY <1>4, <1>7
  <2> QED BY <1>6, <1>7, <2>1, <2>2, <2>3
<1>9. z \div Precision \in Nat /\ 1 <= z \div Precision
  BY <1>7, <1>8, QuotientBounds, QuotientAtLeast
<1> QED BY <1>4, <1>8, <1>9 DEF s

\* Only a request makes the queue longer.
LEMMA OnlyRequestsAppend ==
  ASSUME Inv, Next
  PROVE  (\E s, a, o : a \in Nat /\ RequestStETH(s, a, o)) \/ lastRequestId' = lastRequestId
<1>1. \A w \in WstAmounts : PooledEthByShares(w) \in Nat
  BY ConversionsNat DEF Inv
<1>2. CASE \/ \E s \in Addresses, a \in Amounts, o \in Addresses \cup {NoAddress} :
                RequestWithdrawal(s, a, o)
           \/ \E s \in Addresses, w \in WstAmounts, o \in Addresses \cup {NoAddress} :
                RequestWithdrawalWstETH(s, w, o)
  BY <1>1, <1>2 DEF RequestWithdrawal, RequestWithdrawalWstETH
<1> USE DEF requestVars
<1>3. CASE \E b \in ValidBatches, r \in ShareRates : Finalize(b, r)
  BY <1>3 DEF Finalize
<1>4. CASE \/ \E s \in Addresses, i \in Ids, h \in Ids : ClaimWithdrawals(s, i, h)
           \/ \E s \in Addresses, i \in Ids : ClaimWithdrawal(s, i)
  BY <1>4 DEF ClaimWithdrawals, ClaimWithdrawal, ClaimWithHint
<1>5. CASE \E s, f, t \in Addresses, i \in Ids : TransferFrom(s, f, t, i)
  BY <1>5 DEF TransferFrom
<1>6. CASE \/ \E s \in Addresses, t \in Addresses \cup {NoAddress}, i \in Ids : Approve(s, t, i)
           \/ \E s, op \in Addresses, b \in BOOLEAN : SetApprovalForAll(s, op, b)
           \/ Resume
           \/ \E d \in PauseDurations : PauseFor(d)
           \/ \E t \in 0..MaxTime \cup {PauseInfinitely} : PauseUntil(t)
           \/ \E b \in BOOLEAN, t \in 0..MaxTime : OnOracleReport(b, t)
           \/ \E p \in Pools : Rebase(p)
           \/ Tick
  BY <1>6 DEF Approve, SetApprovalForAll, Resume, PauseFor, PauseUntil,
              OnOracleReport, Rebase, Tick
<1> QED BY <1>2, <1>3, <1>4, <1>5, <1>6 DEF Next

\* A request of no value would be paid nothing; the least amount forbids it.
LEMMA PaidNext ==
  ASSUME Inv, Inv', Next, RequestsPaid
  PROVE  RequestsPaid'
<1>0. /\ lastRequestId \in Nat /\ queue \in [Ids -> Request] /\ pool \in Pools
      /\ lastRequestId <= MaxRequests
  BY DEF Inv, TypeOK, Ids
<1>1. ASSUME NEW i \in 1..lastRequestId, NEW r \in ShareRates
      PROVE  BatchEther(i - 1, i, r)' = BatchEther(i - 1, i, r)
  <2>1. i - 1 \in 0..lastRequestId /\ i \in 0..lastRequestId
    BY <1>0
  <2>2. /\ queue'[i].cumulativeStETH = queue[i].cumulativeStETH
        /\ queue'[i].cumulativeShares = queue[i].cumulativeShares
        /\ queue'[i - 1].cumulativeStETH = queue[i - 1].cumulativeStETH
        /\ queue'[i - 1].cumulativeShares = queue[i - 1].cumulativeShares
    BY <2>1, HistoryKept
  <2> QED BY <2>2 DEF BatchEther, BatchShareRate, BatchShares, BatchStETH
<1>2. ASSUME NEW s, NEW a \in Nat, NEW o, RequestStETH(s, a, o)
      PROVE  RequestsPaid'
  <2>0. PICK id \in Nat : id = lastRequestId + 1
    BY <1>0
  <2>1. /\ lastRequestId' = id /\ id <= MaxRequests /\ MinAmount <= a
        /\ \E new : /\ new.cumulativeShares = queue[lastRequestId].cumulativeShares
                                              + SharesByPooledEth(a)
                    /\ new.cumulativeStETH = queue[lastRequestId].cumulativeStETH + a
                    /\ queue' = [queue EXCEPT ![id] = new]
    BY <1>2, <2>0 DEF RequestStETH, Enqueue
  <2>2. id \in Ids /\ lastRequestId \in Ids /\ lastRequestId # id /\ id - 1 = lastRequestId
    BY <1>0, <2>0, <2>1 DEF Ids
  <2>3. /\ queue'[id].cumulativeShares = queue'[id - 1].cumulativeShares + SharesByPooledEth(a)
        /\ queue'[id].cumulativeStETH = queue'[id - 1].cumulativeStETH + a
    BY <1>0, <2>1, <2>2
  <2>4. queue'[id - 1].cumulativeShares \in Nat /\ queue'[id - 1].cumulativeStETH \in Nat
    BY <2>2 DEF Inv, TypeOK, Request
  <2>5. ASSUME NEW r \in ShareRates PROVE BatchEther(id - 1, id, r)' \in Nat \ {0}
    <3>1. SharesByPooledEth(a) \in Nat /\ (SharesByPooledEth(a) * r) \div Precision \in Nat \ {0}
      BY <1>0, <2>1, SharesAtLeast
    <3>2. PICK sh \in Nat : sh = SharesByPooledEth(a)
      BY <3>1
    <3>3. /\ queue'[id].cumulativeShares - queue'[id - 1].cumulativeShares = sh
          /\ queue'[id].cumulativeStETH - queue'[id - 1].cumulativeStETH = a
      BY <2>3, <2>4, <3>2
    <3>4. BatchShares(id - 1, id)' = sh /\ BatchStETH(id - 1, id)' = a
      BY <3>3 DEF BatchShares, BatchStETH
    <3>5. \/ BatchEther(id - 1, id, r)' = (sh * r) \div Precision
          \/ BatchEther(id - 1, id, r)' = a
      BY <3>4 DEF BatchEther
    <3>6. a # 0
      BY <2>1
    <3> QED BY <3>1, <3>2, <3>5, <3>6
  <2>6. ASSUME NEW i \in 1..id, NEW r \in ShareRates
        PROVE  BatchEther(i - 1, i, r)' \in Nat \ {0}
    <3>1. CASE i = id
      <4> QED BY <2>5, <3>1
    <3>2. CASE i # id
      <4>1. i \in 1..lastRequestId
        BY <1>0, <2>0, <3>2
      <4> QED BY <1>1, <4>1 DEF RequestsPaid
    <3> QED BY <3>1, <3>2
  <2> QED BY <2>1, <2>6 DEF RequestsPaid
<1>3. ASSUME lastRequestId' = lastRequestId PROVE RequestsPaid'
  BY <1>1, <1>3 DEF RequestsPaid
<1>4. (\E s, a, o : a \in Nat /\ RequestStETH(s, a, o)) \/ lastRequestId' = lastRequestId
  BY OnlyRequestsAppend
<1> QED BY <1>2, <1>3, <1>4
-----------------------------------------------------------------------------
\* The invariant and the payments outlast every step of BatchesSpec.
LEMMA BatchesNextInv ==
  ASSUME Inv, RequestsPaid, [BatchesNext]_vars
  PROVE  Inv' /\ RequestsPaid'
<1>1. CASE \/ \E s \in Addresses, a \in Amounts : RequestWithdrawal(s, a, s)
           \/ \E b \in ValidBatches, r \in ShareRates : Finalize(b, r)
           \/ Resume
  <2>1. Next
    BY <1>1 DEF Next
  <2>2. Inv'
    BY <2>1, NextInv
  <2> QED BY <2>1, <2>2, PaidNext
<1>2. CASE \E p \in Pools : OracleReport(p)
  <2> USE DEF requestVars, finalizeVars, etherVars, approvalVars
  <2>1. TypeOK'
    <3>1. now + 2 \in 0..MaxTime /\ now + 1 \in 0..MaxTime
      BY <1>2 DEF OracleReport, Inv, TypeOK
    <3> QED BY <1>2, <3>1 DEF OracleReport, Inv, TypeOK
  <2>2. Inv'
    BY <1>2, <2>1, FrameInv DEF OracleReport
  <2>3. RequestsPaid'
    BY <1>2 DEF OracleReport, RequestsPaid, BatchEther, BatchShareRate, BatchShares, BatchStETH
  <2> QED BY <2>2, <2>3
<1>3. CASE UNCHANGED vars
  <2>1. Inv'
    BY <1>3, NextInv
  <2>2. RequestsPaid'
    BY <1>3 DEF vars, requestVars, RequestsPaid, BatchEther, BatchShareRate, BatchShares, BatchStETH
  <2> QED BY <2>1, <2>2
<1> QED BY <1>1, <1>2, <1>3 DEF BatchesNext

-----------------------------------------------------------------------------
(* Theorems.                                                               *)

LEMMA Invariance == Spec => []Inv
  BY InitInv, NextInv, PTL DEF Spec

\* Every reachable state of the queue is well typed.
THEOREM TypeCorrect == Spec => []TypeOK
<1>1. Inv => TypeOK
  BY DEF Inv
<1> QED
  BY <1>1, Invariance, PTL

\* Every finalized request falls under exactly one checkpoint, whatever batches
\* the reports finalized: one hint, and so one value, per request.
THEOREM UniqueCheckpoint == Spec => []CheckpointsPartition
<1>1. Inv => CheckpointsPartition
  BY DEF Inv
<1> QED
  BY <1>1, Invariance, PTL

\* The owner index agrees with the queue through requests, transfers and claims.
THEOREM OwnerIndex == Spec => []OwnerIndexConsistent
<1>1. Inv => OwnerIndexConsistent
  BY DEF Inv
<1> QED
  BY <1>1, Invariance, PTL

\* No request's approval is left to its own owner.
THEOREM ApprovalsNotStale == Spec => []NoApprovalToOwner
<1>1. Inv => NoApprovalToOwner
  BY DEF Inv
<1> QED
  BY <1>1, Invariance, PTL

\* The queue holds exactly the shares of the requests not yet finalized.
THEOREM Custody == Spec => []CustodyMatchesQueue
<1>1. Inv => CustodyMatchesQueue
  BY DEF Inv
<1> QED
  BY <1>1, Invariance, PTL

\* A finalized request keeps its value until it is claimed, and the claim takes
\* exactly that value out of the locked ether.
THEOREM ValueFixedAtFinalization == Spec => FinalizedValueKept
<1>1. ASSUME Inv, Inv', [Next]_vars PROVE [FinalizedValueStep]_vars
  <2> SUFFICES ASSUME Next, NEW i \in Unclaimed
               PROVE  IF queue'[i].claimed
                      THEN lockedEtherAmount' = lockedEtherAmount - ClaimableEther(i)
                      ELSE i \in Unclaimed' /\ ClaimableEther(i)' = ClaimableEther(i)
    BY <1>1 DEF FinalizedValueStep
  <2>1. i \in 1..lastFinalizedRequestId /\ ~queue[i].claimed /\ i \in 1..lastRequestId
    BY <1>1 DEF Unclaimed, Inv, TypeOK, Ids
  <2>2. CASE ~queue'[i].claimed
    <3>1. i \in 1..lastFinalizedRequestId'
      BY <1>1, <2>1, HistoryKept DEF Inv, TypeOK
    <3> QED
      BY <1>1, <2>1, <2>2, <3>1, ValueKept DEF Unclaimed
  <2>3. CASE queue'[i].claimed
    <3>1. \E s \in Addresses, h \in 1..lastCheckpointIndex : ClaimWithHint(s, i, h)
      BY <1>1, <2>1, <2>3, ClaimedByClaim
    <3>2. PICK s \in Addresses, h \in 1..lastCheckpointIndex : ClaimWithHint(s, i, h)
      BY <3>1
    <3>3. h = HintOf(i)
      BY <1>1, <2>1, <3>2, HintUnique DEF ClaimWithHint
    <3>4. lockedEtherAmount' = lockedEtherAmount - CalculateClaimableEther(i, h)
      BY <3>2 DEF ClaimWithHint
    <3> QED
      BY <2>3, <3>3, <3>4 DEF ClaimableEther
  <2> QED
    BY <2>2, <2>3
<1> QED
  BY <1>1, Invariance, PTL DEF Spec, FinalizedValueKept

LEMMA WorthInvariance == Spec => []RequestsWorth
<1>1. Inv /\ Inv' /\ RequestsWorth /\ [Next]_vars => RequestsWorth'
  <2> SUFFICES ASSUME Inv, Inv', RequestsWorth, [Next]_vars PROVE RequestsWorth'
    OBVIOUS
  <2>1. CASE Next
    BY <2>1, WorthNext
  <2>2. CASE UNCHANGED vars
    BY <2>2 DEF vars, requestVars, RequestsWorth
  <2> QED BY <2>1, <2>2
<1> QED
  BY <1>1, WorthInit, Invariance, PTL DEF Spec

\* Whatever batches and rate a report carries, the ether prefinalize computes
\* is no more than the stETH of the requests: _finalize never refuses it.
THEOREM PrefinalizeAlwaysFits == Spec => []PrefinalizeFits
<1>1. Inv /\ RequestsWorth => PrefinalizeFits
  <2> SUFFICES ASSUME Inv, RequestsWorth, NEW b \in ValidBatches, NEW r \in ShareRates
               PROVE  EthToLock(b, r) <= BatchStETH(lastFinalizedRequestId, Max(b))
    BY DEF PrefinalizeFits
  <2>1. TypeOK /\ CumulativeMonotone
    BY DEF Inv
  <2>2. /\ lastRequestId \in Nat /\ lastFinalizedRequestId \in Nat /\ b # {}
        /\ \A n \in b : n \in lastFinalizedRequestId + 1 .. lastRequestId
    BY <2>1, BatchEndBounds
  <2>3. b \in SUBSET (0..lastRequestId)
    BY <2>2
  <2>4. Max(b) \in b /\ \A n \in b : n <= Max(b)
    BY <2>2, <2>3, MaxOfBounded
  <2>5. r \in Nat
    OBVIOUS
  <2> QED BY <2>1, <2>4, <2>5, LockFits
<1> QED
  BY <1>1, Invariance, WorthInvariance, PTL

\* When no report mixes, in one batch, requests above its rate with requests at
\* or below it, the ether locked covers every unclaimed request in full: what
\* _claim subtracts from lockedEtherAmount never underflows, in any order.
THEOREM ClaimsCovered ==
  Spec /\ [][OneSidedFinalization]_vars => []LockedCoversClaims
<1>1. /\ Inv /\ Inv' /\ RequestsWorth /\ OwedCovered
      /\ [Next]_vars /\ [OneSidedFinalization]_vars
      => OwedCovered'
  <2> SUFFICES ASSUME Inv, Inv', RequestsWorth, OwedCovered, [Next]_vars,
                      [OneSidedFinalization]_vars
               PROVE  OwedCovered'
    OBVIOUS
  <2>1. CASE UNCHANGED vars
    BY <2>1, OwedStutters
  <2>2. CASE Next /\ OneSidedFinalization
    BY <2>2, OwedNext
  <2> QED BY <2>1, <2>2
<1>2. Inv /\ OwedCovered => LockedCoversClaims
  BY ClaimsSum DEF OwedCovered, LockedCoversClaims
<1> QED
  BY <1>1, <1>2, OwedInit, Invariance, WorthInvariance, PTL DEF Spec

\* The binary search returns the hint of every finalized request whose checkpoint
\* is in the range it is given, and NOT_FOUND for every other request and range.
THEOREM HintSearchFinds == Spec => []HintSearchCorrect
<1>1. Inv => HintSearchCorrect
  BY HintFound DEF HintSearchCorrect
<1> QED
  BY <1>1, Invariance, PTL

\* However the queue grew and whatever a report's rate and time limit and the daemon's
\* budget are, calculateFinalizationBatches returns batches prefinalize accepts, ending
\* with the longest affordable prefix; and the calls it is split into give what one gives.
THEOREM LongestPrefixTaken == BatchesSpec => []LongestAffordablePrefix
<1>1. Inv /\ RequestsPaid => LongestAffordablePrefix
  BY PrefixTaken DEF Inv
<1>2. Init => Inv /\ RequestsPaid
  BY InitInv, PaidInit
<1>3. Inv /\ RequestsPaid /\ [BatchesNext]_vars => Inv' /\ RequestsPaid'
  BY BatchesNextInv
<1> QED
  BY <1>1, <1>2, <1>3, PTL DEF BatchesSpec
=============================================================================
