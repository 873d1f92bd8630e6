-------------------------- MODULE WithdrawalQueue --------------------------
(***************************************************************************)
(* The stETH withdrawal queue: WithdrawalQueueBase, WithdrawalQueue and    *)
(* WithdrawalQueueERC721 (contracts/0.8.9), one contract on chain.         *)
(*                                                                         *)
(* A holder locks stETH and gets a request, an NFT.  The oracle report     *)
(* finalizes a prefix of the queue, locking ether at the smaller of the    *)
(* nominal amount and the request's shares at the reported share rate; the *)
(* rate is kept in a checkpoint and applied to each request on claim.      *)
(*                                                                         *)
(* Mappings are total functions on 0..MaxRequests whose default is the     *)
(* zero record, as in Solidity.  Every transaction is one atomic step.     *)
(* Batch calls (several amounts, several ids) are the one-element calls    *)
(* in a row.  Lido, wstETH and time are the environment: `pool' is the     *)
(* protocol's <<ether, shares>>, which any rebase replaces.                *)
(*                                                                         *)
(* An operator marked "faulty" is a plausible error in the operator below  *)
(* it.  Nothing uses it: it is there to be put in that one's place, to see *)
(* that a property notices.                                                *)
(***************************************************************************)
EXTENDS Integers, FiniteSets, FiniteSetsExt

CONSTANTS
  Addresses,        \* holders of requests and callers
  NoAddress,        \* address(0)
  Amounts,          \* stETH amounts a caller may ask for
  WstAmounts,       \* wstETH amounts a caller may ask for
  Pools,            \* protocol states [ether, shares] a rebase may lead to
  ShareRates,       \* share rates an oracle report may carry
  Precision,        \* E27_PRECISION_BASE
  MinAmount,        \* MIN_STETH_WITHDRAWAL_AMOUNT
  MaxAmount,        \* MAX_STETH_WITHDRAWAL_AMOUNT
  PauseDurations,   \* arguments of pauseFor
  PauseInfinitely,  \* PAUSE_INFINITELY, type(uint256).max
  MaxRequests,      \* bound on the queue
  MaxTime           \* bound on block.timestamp

ASSUME AddressAssumption == NoAddress \notin Addresses
ASSUME AmountAssumption ==
  /\ Amounts \subseteq Nat /\ WstAmounts \subseteq Nat
  /\ MinAmount \in Nat \ {0} /\ MaxAmount \in Nat
ASSUME PoolAssumption ==
  Pools \subseteq [ether : Nat \ {0}, shares : Nat \ {0}]
\* A withdrawable amount is worth at least one share: the share rate stays
\* far below MIN_STETH_WITHDRAWAL_AMOUNT (100 wei).
ASSUME ShareWorthAssumption ==
  \A p \in Pools : MinAmount * p.shares >= p.ether
ASSUME RateAssumption == ShareRates \subseteq Nat \ {0} /\ Precision \in Nat \ {0}
ASSUME TimeAssumption ==
  /\ MaxTime \in Nat /\ PauseInfinitely \in Nat /\ PauseInfinitely > MaxTime
  /\ PauseDurations \subseteq Nat
ASSUME BoundAssumption == MaxRequests \in Nat

VARIABLES
  queue,                   \* mapping(uint256 => WithdrawalRequest)
  lastRequestId,
  lastFinalizedRequestId,
  checkpoints,             \* mapping(uint256 => Checkpoint)
  lastCheckpointIndex,
  lockedEtherAmount,
  requestsByOwner,         \* mapping(address => UintSet)
  tokenApprovals,          \* mapping(uint256 => address)
  operatorApprovals,       \* owner -> operators approved for all
  resumeSince,             \* RESUME_SINCE_TIMESTAMP
  lastReportTimestamp,
  bunkerModeSince,         \* BUNKER_MODE_SINCE_TIMESTAMP
  etherBalance,            \* address(this).balance
  lockedShares,            \* stETH shares the contract holds
  pool,                    \* environment: Lido's ether and shares
  now                      \* environment: block.timestamp

requestVars  == <<queue, lastRequestId, requestsByOwner, lockedShares>>
finalizeVars == <<lastFinalizedRequestId, checkpoints, lastCheckpointIndex>>
etherVars    == <<lockedEtherAmount, etherBalance>>
approvalVars == <<tokenApprovals, operatorApprovals>>
reportVars   == <<lastReportTimestamp, bunkerModeSince>>
envVars      == <<pool, now>>
vars == <<requestVars, finalizeVars, etherVars, approvalVars, resumeSince,
          reportVars, envVars>>

Ids == 0..MaxRequests

Request == [cumulativeStETH : Nat, cumulativeShares : Nat,
            owner : Addresses \cup {NoAddress}, timestamp : Nat,
            claimed : BOOLEAN, reportTimestamp : Nat]

Checkpoint == [fromRequestId : Nat, maxShareRate : Nat]

NoRequest == [cumulativeStETH |-> 0, cumulativeShares |-> 0, owner |-> NoAddress,
              timestamp |-> 0, claimed |-> FALSE, reportTimestamp |-> 0]

-----------------------------------------------------------------------------
(* Lido's conversions at the current rate.                                 *)

SharesByPooledEth(amount) == (amount * pool.shares) \div pool.ether
PooledEthByShares(amount) == (amount * pool.ether) \div pool.shares

IsPaused == now < resumeSince

(* _calcBatch over the requests (start, end].                              *)
BatchStETH(start, end) ==
  queue[end].cumulativeStETH - queue[start].cumulativeStETH
BatchShares(start, end) ==
  queue[end].cumulativeShares - queue[start].cumulativeShares
BatchShareRate(start, end) ==
  (BatchStETH(start, end) * Precision) \div BatchShares(start, end)

BatchEtherAtGreater(start, end, maxShareRate) ==      \* faulty: pays the greater
  IF BatchShareRate(start, end) < maxShareRate
  THEN (BatchShares(start, end) * maxShareRate) \div Precision
  ELSE BatchStETH(start, end)

(* The ether due to the requests (start, end] at rate maxShareRate: their  *)
(* shares at that rate when their own rate is higher, else nominal.        *)
BatchEther(start, end, maxShareRate) ==
  IF BatchShareRate(start, end) > maxShareRate
  THEN (BatchShares(start, end) * maxShareRate) \div Precision
  ELSE BatchStETH(start, end)

(* prefinalize: `batches' is the set of batch ends.  The array must be     *)
(* strictly increasing, so the set determines it.                          *)
ValidBatches == (SUBSET (lastFinalizedRequestId + 1 .. lastRequestId)) \ {{}}

PrevBatchEnd(batches, end) ==
  Max({lastFinalizedRequestId} \cup {b \in batches : b < end})

EthToLock(batches, maxShareRate) ==
  MapThenSumSet(LAMBDA b : BatchEther(PrevBatchEnd(batches, b), b, maxShareRate),
                batches)

SharesToBurnFromZero(last) == BatchShares(0, last)    \* faulty: from the first request

\* The shares of batches that end with request `last': a telescoping sum.
SharesToBurn(last) == BatchShares(lastFinalizedRequestId, last)

ValidHintClosed(id, hint) ==                          \* faulty: off by one at the end
  /\ hint \in 1..lastCheckpointIndex
  /\ checkpoints[hint].fromRequestId <= id
  /\ hint < lastCheckpointIndex => id <= checkpoints[hint + 1].fromRequestId

(* The hint check of _calculateClaimableEther: id lies between checkpoint  *)
(* `hint' and the next one.                                                *)
ValidHint(id, hint) ==
  /\ hint \in 1..lastCheckpointIndex
  /\ checkpoints[hint].fromRequestId <= id
  /\ hint < lastCheckpointIndex => id < checkpoints[hint + 1].fromRequestId

NominalClaimableEther(id, hint) == BatchStETH(id - 1, id)    \* faulty: no discount
LatestClaimableEther(id, hint) ==                     \* faulty: the last checkpoint's rate
  BatchEther(id - 1, id, checkpoints[lastCheckpointIndex].maxShareRate)

CalculateClaimableEther(id, hint) ==
  BatchEther(id - 1, id, checkpoints[hint].maxShareRate)

FindLastCheckpoint(id, first, last) ==                \* faulty: ignores the range's end
  IF lastCheckpointIndex = 0 \/ id > lastFinalizedRequestId \/ first > last THEN 0
  ELSE Max({0} \cup {h \in first..lastCheckpointIndex : checkpoints[h].fromRequestId <= id})

(* _findCheckpointHint for an id in the queue and a range inside the       *)
(* checkpoints; 0 is NOT_FOUND.                                            *)
FindCheckpointHint(id, first, last) ==
  LET from(i) == checkpoints[i].fromRequestId
      Search[range \in Ids \X Ids] ==
        LET lo  == range[1]
            hi  == range[2]
            mid == (hi + lo + 1) \div 2
        IN  IF hi > lo
            THEN IF from(mid) <= id THEN Search[<<mid, hi>>] ELSE Search[<<lo, mid - 1>>]
            ELSE lo
  IN  CASE \/ lastCheckpointIndex = 0
           \/ id > lastFinalizedRequestId
           \/ first > last                           -> 0
        [] OTHER ->
             IF id >= from(last)
             THEN IF last = lastCheckpointIndex \/ id < from(last + 1) THEN last ELSE 0
             ELSE IF id < from(first) THEN 0 ELSE Search[<<first, last - 1>>]

-----------------------------------------------------------------------------
(* Requests.                                                               *)

(* _enqueue, with the stETH transfer that precedes it.                     *)
Enqueue(amount, shares, owner) ==
  LET last == queue[lastRequestId]
      id   == lastRequestId + 1
  IN  /\ id <= MaxRequests
      /\ lastRequestId' = id
      /\ queue' = [queue EXCEPT ![id] =
           [cumulativeStETH  |-> last.cumulativeStETH + amount,
            cumulativeShares |-> last.cumulativeShares + shares,
            owner            |-> owner,
            timestamp        |-> now,
            claimed          |-> FALSE,
            reportTimestamp  |-> lastReportTimestamp]]
      /\ requestsByOwner' = [requestsByOwner EXCEPT ![owner] = @ \cup {id}]
      /\ lockedShares' = lockedShares + shares

RequestOwner(sender, owner) == IF owner = NoAddress THEN sender ELSE owner

RequestStETH(sender, amount, owner) ==
  /\ ~IsPaused
  /\ MinAmount <= amount /\ amount <= MaxAmount
  /\ Enqueue(amount, SharesByPooledEth(amount), RequestOwner(sender, owner))
  /\ UNCHANGED <<finalizeVars, etherVars, approvalVars, resumeSince,
                 reportVars, envVars>>

RequestWithdrawal(sender, amount, owner) ==
  amount \in Amounts /\ RequestStETH(sender, amount, owner)

\* unwrap turns wstETH, one share each, into the stETH it is worth.
RequestWithdrawalWstETH(sender, wstAmount, owner) ==
  RequestStETH(sender, PooledEthByShares(wstAmount), owner)

-----------------------------------------------------------------------------
(* Finalization: Accounting calls prefinalize, moves the shares to burn    *)
(* out of the queue, and has Lido call finalize with the ether.            *)

Finalize(batches, maxShareRate) ==
  \E last \in batches :
  \E ether \in 0 .. BatchStETH(lastFinalizedRequestId, last) :
    /\ ~IsPaused
    /\ \A b \in batches : b <= last
    /\ ether = EthToLock(batches, maxShareRate)   \* else TooMuchEtherToFinalize
    /\ checkpoints' = [checkpoints EXCEPT ![lastCheckpointIndex + 1] =
         [fromRequestId |-> lastFinalizedRequestId + 1, maxShareRate |-> maxShareRate]]
    /\ lastCheckpointIndex' = lastCheckpointIndex + 1
    /\ lockedEtherAmount' = lockedEtherAmount + ether
    /\ etherBalance' = etherBalance + ether
    /\ lastFinalizedRequestId' = last
    /\ lockedShares' = lockedShares - SharesToBurn(last)
    /\ UNCHANGED <<queue, lastRequestId, requestsByOwner, approvalVars, resumeSince,
                   reportVars, envVars>>

-----------------------------------------------------------------------------
(* Claims.                                                                 *)

(* _claim.  Nothing is written after the ether is sent, so a recipient     *)
(* that calls back acts like a later transaction.                          *)
ClaimWithHint(sender, id, hint) ==
  LET ether == CalculateClaimableEther(id, hint)
  IN  /\ 0 < id /\ id <= lastFinalizedRequestId
      /\ ~queue[id].claimed
      /\ queue[id].owner = sender
      /\ ValidHint(id, hint)
      /\ ether <= lockedEtherAmount          \* checked subtraction
      /\ ether <= etherBalance               \* else NotEnoughEther
      /\ queue' = [queue EXCEPT ![id].claimed = TRUE]
      /\ requestsByOwner' = [requestsByOwner EXCEPT ![sender] = @ \ {id}]
      /\ lockedEtherAmount' = lockedEtherAmount - ether
      /\ etherBalance' = etherBalance - ether
      /\ UNCHANGED <<lastRequestId, lockedShares, finalizeVars, approvalVars,
                     resumeSince, reportVars, envVars>>

\* claimWithdrawals, claimWithdrawalsTo: the caller supplies the hint.
ClaimWithdrawals(sender, id, hint) == ClaimWithHint(sender, id, hint)

\* claimWithdrawal searches for the hint.
ClaimWithdrawal(sender, id) ==
  /\ 0 < id /\ id <= lastRequestId
  /\ ClaimWithHint(sender, id, FindCheckpointHint(id, 1, lastCheckpointIndex))

-----------------------------------------------------------------------------
(* The ERC-721 face of a request.                                          *)

ApproveAnyone(sender, to, id) ==                      \* faulty: the owner too
  /\ 0 < id /\ id <= lastRequestId
  /\ ~queue[id].claimed
  /\ sender = queue[id].owner \/ sender \in operatorApprovals[queue[id].owner]
  /\ tokenApprovals' = [tokenApprovals EXCEPT ![id] = to]
  /\ UNCHANGED <<requestVars, finalizeVars, etherVars, operatorApprovals,
                 resumeSince, reportVars, envVars>>

Approve(sender, to, id) ==
  LET owner == queue[id].owner
  IN  /\ 0 < id /\ id <= lastRequestId
      /\ ~queue[id].claimed
      /\ to # owner
      /\ sender = owner \/ sender \in operatorApprovals[owner]
      /\ tokenApprovals' = [tokenApprovals EXCEPT ![id] = to]
      /\ UNCHANGED <<requestVars, finalizeVars, etherVars, operatorApprovals,
                     resumeSince, reportVars, envVars>>

SetApprovalForAll(owner, operator, approved) ==
  /\ owner # operator
  /\ operatorApprovals' = [operatorApprovals EXCEPT ![owner] =
       IF approved THEN @ \cup {operator} ELSE @ \ {operator}]
  /\ UNCHANGED <<requestVars, finalizeVars, etherVars, tokenApprovals, resumeSince,
                 reportVars, envVars>>

TransferLeavesIndex(sender, from, to, id) ==          \* faulty: `from' keeps the id
  /\ to # from
  /\ 0 < id /\ id <= lastRequestId
  /\ ~queue[id].claimed
  /\ from = queue[id].owner
  /\ from = sender \/ sender \in operatorApprovals[from] \/ tokenApprovals[id] = sender
  /\ tokenApprovals' = [tokenApprovals EXCEPT ![id] = NoAddress]
  /\ queue' = [queue EXCEPT ![id].owner = to]
  /\ requestsByOwner' = [requestsByOwner EXCEPT ![to] = @ \cup {id}]
  /\ UNCHANGED <<lastRequestId, lockedShares, finalizeVars, etherVars,
                 operatorApprovals, resumeSince, reportVars, envVars>>

\* transferFrom; safeTransferFrom adds a callback that may only revert.
TransferFrom(sender, from, to, id) ==
  /\ to # from
  /\ 0 < id /\ id <= lastRequestId
  /\ ~queue[id].claimed
  /\ from = queue[id].owner
  /\ \/ from = sender
     \/ sender \in operatorApprovals[from]
     \/ tokenApprovals[id] = sender
  /\ tokenApprovals' = [tokenApprovals EXCEPT ![id] = NoAddress]
  /\ queue' = [queue EXCEPT ![id].owner = to]
  /\ requestsByOwner' = [requestsByOwner EXCEPT ![from] = @ \ {id}, ![to] = @ \cup {id}]
  /\ UNCHANGED <<lastRequestId, lockedShares, finalizeVars, etherVars,
                 operatorApprovals, resumeSince, reportVars, envVars>>

-----------------------------------------------------------------------------
(* Pausing, oracle timestamps, and the environment.                        *)

Resume ==
  /\ IsPaused
  /\ resumeSince' = now
  /\ UNCHANGED <<requestVars, finalizeVars, etherVars, approvalVars,
                 reportVars, envVars>>

PauseFor(duration) ==
  /\ ~IsPaused
  /\ duration > 0
  /\ resumeSince' = IF duration = PauseInfinitely THEN PauseInfinitely ELSE now + duration
  /\ UNCHANGED <<requestVars, finalizeVars, etherVars, approvalVars,
                 reportVars, envVars>>

PauseUntil(until) ==
  /\ ~IsPaused
  /\ until >= now
  /\ resumeSince' = IF until = PauseInfinitely THEN PauseInfinitely ELSE until + 1
  /\ UNCHANGED <<requestVars, finalizeVars, etherVars, approvalVars,
                 reportVars, envVars>>

BunkerModeDisabled == PauseInfinitely      \* also type(uint256).max
IsBunkerModeActive == bunkerModeSince < BunkerModeDisabled

\* onOracleReport: the caller, AccountingOracle, reports increasing slots, and
\* the slot of its previous report as the start of bunker mode.
OnOracleReport(isBunkerModeNow, reportTimestamp) ==
  /\ lastReportTimestamp < reportTimestamp
  /\ reportTimestamp < now
  /\ lastReportTimestamp' = reportTimestamp
  /\ bunkerModeSince' = IF isBunkerModeNow = IsBunkerModeActive THEN bunkerModeSince
                        ELSE IF isBunkerModeNow THEN lastReportTimestamp
                        ELSE BunkerModeDisabled
  /\ UNCHANGED <<requestVars, finalizeVars, etherVars, approvalVars, resumeSince,
                 envVars>>

Rebase(newPool) ==
  /\ pool' = newPool
  /\ UNCHANGED <<requestVars, finalizeVars, etherVars, approvalVars, resumeSince,
                 reportVars, now>>

Tick ==
  /\ now < MaxTime
  /\ now' = now + 1
  /\ UNCHANGED <<requestVars, finalizeVars, etherVars, approvalVars, resumeSince,
                 reportVars, pool>>

-----------------------------------------------------------------------------
(* _initializeQueue: index 0 of the queue is a claimed dummy, and the      *)
(* contract starts paused.                                                 *)
Init ==
  /\ queue = [i \in Ids |-> [NoRequest EXCEPT !.claimed = (i = 0)]]
  /\ lastRequestId = 0
  /\ lastFinalizedRequestId = 0
  /\ checkpoints = [i \in Ids |-> [fromRequestId |-> 0, maxShareRate |-> 0]]
  /\ lastCheckpointIndex = 0
  /\ lockedEtherAmount = 0
  /\ requestsByOwner = [a \in Addresses |-> {}]
  /\ tokenApprovals = [i \in Ids |-> NoAddress]
  /\ operatorApprovals = [a \in Addresses |-> {}]
  /\ resumeSince = PauseInfinitely
  /\ lastReportTimestamp = 0
  /\ bunkerModeSince = BunkerModeDisabled
  /\ etherBalance = 0
  /\ lockedShares = 0
  /\ pool \in Pools
  /\ now = 0

Next ==
  \/ \E s \in Addresses, a \in Amounts, o \in Addresses \cup {NoAddress} :
       RequestWithdrawal(s, a, o)
  \/ \E s \in Addresses, w \in WstAmounts, o \in Addresses \cup {NoAddress} :
       RequestWithdrawalWstETH(s, w, o)
  \/ \E b \in ValidBatches, r \in ShareRates : Finalize(b, r)
  \/ \E s \in Addresses, i \in Ids, h \in Ids : ClaimWithdrawals(s, i, h)
  \/ \E s \in Addresses, i \in Ids : ClaimWithdrawal(s, i)
  \/ \E s \in Addresses, t \in Addresses \cup {NoAddress}, i \in Ids : Approve(s, t, i)
  \/ \E s, op \in Addresses, b \in BOOLEAN : SetApprovalForAll(s, op, b)
  \/ \E s, f, t \in Addresses, i \in Ids : TransferFrom(s, f, t, i)
  \/ Resume
  \/ \E d \in PauseDurations : PauseFor(d)
  \/ \E t \in 0..MaxTime \cup {PauseInfinitely} : PauseUntil(t)
  \/ \E b \in BOOLEAN, t \in 0..MaxTime : OnOracleReport(b, t)
  \/ \E p \in Pools : Rebase(p)
  \/ Tick

Spec == Init /\ [][Next]_vars

-----------------------------------------------------------------------------
(* Properties.                                                             *)

\* Every variable holds a value of its type.
TypeOK ==
  /\ queue \in [Ids -> Request]
  /\ lastRequestId \in Ids
  /\ lastFinalizedRequestId \in 0..lastRequestId
  /\ checkpoints \in [Ids -> Checkpoint]
  /\ lastCheckpointIndex \in 0..lastFinalizedRequestId
  /\ lockedEtherAmount \in Nat
  /\ requestsByOwner \in [Addresses -> SUBSET Ids]
  /\ tokenApprovals \in [Ids -> Addresses \cup {NoAddress}]
  /\ operatorApprovals \in [Addresses -> SUBSET Addresses]
  /\ resumeSince \in Nat
  /\ lastReportTimestamp \in Nat
  /\ bunkerModeSince \in Nat
  /\ etherBalance \in Nat
  /\ lockedShares \in Nat
  /\ pool \in Pools
  /\ now \in 0..MaxTime

\* The index of open requests by owner agrees with the queue, so that the
\* asserts around EnumerableSet add and remove in _enqueue, _claim and
\* _transfer never fail and no claimed request can be transferred back in.
OwnerIndexConsistent ==
  \A a \in Addresses :
    requestsByOwner[a] =
      {i \in 1..lastRequestId : queue[i].owner = a /\ ~queue[i].claimed}

\* Every finalized request falls under exactly one checkpoint, so exactly one
\* hint is accepted by _calculateClaimableEther and its value is well defined.
CheckpointsPartition ==
  \A i \in 1..lastFinalizedRequestId :
    \E h \in 1..lastCheckpointIndex :
      /\ ValidHint(i, h)
      /\ \A g \in 1..lastCheckpointIndex : ValidHint(i, g) => g = h

HintOf(id) == CHOOSE h \in 1..lastCheckpointIndex : ValidHint(id, h)

\* The ether a finalized request pays on claim.
ClaimableEther(id) == CalculateClaimableEther(id, HintOf(id))

Unclaimed == {i \in 1..lastFinalizedRequestId : ~queue[i].claimed}

\* The ether locked for finalized requests covers all that are unclaimed, and the
\* balance holds it: no order of claims underflows lockedEtherAmount.  Rates are
\* rounded down, so this needs Precision to exceed the square of a request's
\* shares, or no batch with requests on both sides of the report's rate;
\* otherwise the locked ether may be a wei short.
LockedCoversClaims ==
  /\ MapThenSumSet(ClaimableEther, Unclaimed) <= lockedEtherAmount
  /\ lockedEtherAmount <= etherBalance

\* The binary search of _findCheckpointHint returns the hint of a request when
\* it lies in the searched range, and NOT_FOUND otherwise.
HintSearchCorrect ==
  \A i \in 1..lastRequestId, f \in 1..lastCheckpointIndex, l \in 1..lastCheckpointIndex :
    LET found == FindCheckpointHint(i, f, l)
    IN  IF i <= lastFinalizedRequestId /\ \E h \in f..l : ValidHint(i, h)
        THEN ValidHint(i, found) /\ found \in f..l
        ELSE found = 0

\* The contract holds exactly the shares of the unfinalized requests: burning a
\* finalized batch never takes shares of a later request, whatever the rate did.
CustodyMatchesQueue ==
  lockedShares = BatchShares(lastFinalizedRequestId, lastRequestId)

\* What prefinalize computes never trips TooMuchEtherToFinalize in _finalize,
\* for any batches and rate an oracle report may carry.
PrefinalizeFits ==
  \A b \in ValidBatches, r \in ShareRates :
    EthToLock(b, r) <= BatchStETH(lastFinalizedRequestId, Max(b))

\* A finalized request keeps its value through later finalizations, rebases,
\* pauses and transfers until it is claimed, and the claim pays that value once.
FinalizedValueStep ==
  \A i \in Unclaimed :
    IF queue'[i].claimed
    THEN lockedEtherAmount' = lockedEtherAmount - ClaimableEther(i)
    ELSE i \in Unclaimed' /\ ClaimableEther(i)' = ClaimableEther(i)

FinalizedValueKept == [][FinalizedValueStep]_vars

\* An approval given for a request dies with the transfer that uses it: the one
\* approved is never the owner, who would otherwise carry a stale approval along.
NoApprovalToOwner ==
  \A i \in 1..lastRequestId : tokenApprovals[i] # queue[i].owner
=============================================================================
