------------------------ MODULE FinalizationBatches ------------------------
(***************************************************************************)
(* calculateFinalizationBatches of WithdrawalQueueBase: the view with      *)
(* which the oracle daemon picks, call after call, the requests a report   *)
(* finalizes and groups them into batches.  The queue it reads is the one  *)
(* of WithdrawalQueue, under requests and oracle reports; here the share   *)
(* rate moves only with a report, as the batch rule on requests of one     *)
(* report presumes.  Operators marked "faulty" are as in WithdrawalQueue.  *)
(***************************************************************************)
EXTENDS WithdrawalQueue, SequencesExt

CONSTANTS
  Budgets,          \* remainingEthBudget of the first call
  MaxBatchesLength  \* MAX_BATCHES_LENGTH

ASSUME BatchesAssumption == Budgets \subseteq Nat \ {0} /\ MaxBatchesLength \in Nat \ {0}
\* The shares of a withdrawable amount are worth at least one wei at a report's rate:
\* MIN_STETH_WITHDRAWAL_AMOUNT is 100 wei, and rates stay near one wei per share.
ASSUME PaidAssumption ==
  \A p \in Pools, r \in ShareRates : ((MinAmount * p.shares) \div p.ether) * r >= Precision

(* BatchesCalculationState.                                                *)
FirstState(budget) == [remainingEthBudget |-> budget, finished |-> FALSE, batches |-> <<>>]

(* Whether request id may share a batch with the one before it.            *)
SameBatch(id, maxShareRate) ==
  LET Rate(i) == BatchShareRate(i - 1, i)
  IN  \/ queue[id - 1].reportTimestamp = queue[id].reportTimestamp
      \/ Rate(id - 1) <= maxShareRate /\ Rate(id) <= maxShareRate
      \/ Rate(id - 1) > maxShareRate /\ Rate(id) > maxShareRate

(* One turn of the loop on request id; `stopped' is a break.               *)
HandleRequest(acc, id, maxShareRate, maxTimestamp) ==
  LET ether  == BatchEther(id - 1, id, maxShareRate)
      n      == Len(acc.batches)
      budget == acc.remainingEthBudget - ether
  IN  IF acc.stopped \/ queue[id].timestamp > maxTimestamp \/ budget < 0
      THEN [acc EXCEPT !.stopped = TRUE]
      ELSE IF n # 0 /\ SameBatch(id, maxShareRate)
      THEN [acc EXCEPT !.remainingEthBudget = budget, !.batches[n] = id, !.currentId = id + 1]
      ELSE IF n = MaxBatchesLength
      THEN [acc EXCEPT !.remainingEthBudget = budget, !.stopped = TRUE]
      ELSE [acc EXCEPT !.remainingEthBudget = budget, !.batches = Append(@, id),
                       !.currentId = id + 1]

(* One call.  It reverts (InvalidState) on a finished or penniless state.  *)
CallReverts(state) == state.finished \/ state.remainingEthBudget = 0

CalculateFromStart(state, maxShareRate, maxTimestamp, maxRequests) ==   \* faulty: starts over
  LET first  == 1 + lastFinalizedRequestId
      past   == Min({lastRequestId + 1, first + maxRequests})
      result == FoldLeft(LAMBDA acc, id : HandleRequest(acc, id, maxShareRate, maxTimestamp),
                         [remainingEthBudget |-> state.remainingEthBudget,
                          batches |-> state.batches, currentId |-> first, stopped |-> FALSE],
                         [k \in 1 .. past - first |-> first + k - 1])
  IN  [remainingEthBudget |-> result.remainingEthBudget,
       batches            |-> result.batches,
       finished           |-> \/ result.currentId = lastRequestId + 1
                              \/ result.currentId < first + maxRequests]

CalculateFinalizationBatches(state, maxShareRate, maxTimestamp, maxRequests) ==
  LET first  == 1 + IF state.batches = <<>> THEN lastFinalizedRequestId ELSE Last(state.batches)
      past   == Min({lastRequestId + 1, first + maxRequests})
      result == FoldLeft(LAMBDA acc, id : HandleRequest(acc, id, maxShareRate, maxTimestamp),
                         [remainingEthBudget |-> state.remainingEthBudget,
                          batches |-> state.batches, currentId |-> first, stopped |-> FALSE],
                         [k \in 1 .. past - first |-> first + k - 1])
  IN  [remainingEthBudget |-> result.remainingEthBudget,
       batches            |-> result.batches,
       finished           |-> \/ result.currentId = lastRequestId + 1
                              \/ result.currentId < first + maxRequests]

(* The daemon's loop: the state after n calls, stopping on `finished' or   *)
(* when the next call would revert.                                        *)
AfterCalls(n, budget, rate, time, maxRequests) ==
  LET State[k \in 0..n] ==
        IF k = 0 THEN FirstState(budget)
        ELSE IF CallReverts(State[k - 1]) THEN State[k - 1]
        ELSE CalculateFinalizationBatches(State[k - 1], rate, time, maxRequests)
  IN  State[n]

-----------------------------------------------------------------------------
(* The queue under requests and reports.                                   *)

\* A turbo-mode report: the rate moves, then WithdrawalQueue learns its timestamp, which
\* lies before the block that delivers it and after any earlier report.
OracleReport(newPool) ==
  /\ now + 2 <= MaxTime
  /\ now' = now + 2
  /\ lastReportTimestamp' = now + 1
  /\ pool' = newPool
  /\ UNCHANGED <<requestVars, finalizeVars, etherVars, approvalVars, resumeSince,
                 bunkerModeSince>>

BatchesNext ==
  \/ \E s \in Addresses, a \in Amounts : RequestWithdrawal(s, a, s)
  \/ \E b \in ValidBatches, r \in ShareRates : Finalize(b, r)
  \/ Resume
  \/ \E p \in Pools : OracleReport(p)

BatchesSpec == Init /\ [][BatchesNext]_vars

-----------------------------------------------------------------------------
(* Properties.  In each: a budget, the report's rate and timestamp limit,  *)
(* and the number of requests per call.                                    *)

OneCall(budget, rate, time) ==
  CalculateFinalizationBatches(FirstState(budget), rate, time, MaxRequests)

Calls(budget, rate, time, k) == AfterCalls(MaxRequests + 1, budget, rate, time, k)

BatchEnds(state) == {state.batches[i] : i \in DOMAIN state.batches}

\* The reference: a prefix of the unfinalized requests is affordable when all
\* of it is old enough, its requests one by one fit the budget, and it needs no
\* more batches than the limit.
Affordable(n, budget, rate, time) ==
  LET ids == lastFinalizedRequestId + 1 .. n
  IN  /\ \A i \in ids : queue[i].timestamp <= time
      /\ MapThenSumSet(LAMBDA i : BatchEther(i - 1, i, rate), ids) <= budget
      /\ 1 + Cardinality({i \in ids : i - 1 \in ids /\ ~SameBatch(i, rate)}) <= MaxBatchesLength

\* The loop takes the longest affordable prefix, in consecutive batches that
\* prefinalize accepts; and splitting the work over several calls, which the daemon
\* does for gas, gives the batches and the remainder that one call gives.
LongestAffordablePrefix ==
  \A m \in Budgets, r \in ShareRates, t \in 0..MaxTime :
    LET whole == OneCall(m, r, t)
        ends  == BatchEnds(whole)
        taken == {n \in lastFinalizedRequestId + 1 .. lastRequestId : Affordable(n, m, r, t)}
    IN  /\ IF taken = {} THEN ends = {} ELSE ends \in ValidBatches /\ Max(ends) = Max(taken)
        /\ \A k \in 1..MaxRequests :
             LET parts == Calls(m, r, t, k)
             IN  /\ parts.batches = whole.batches
                 /\ parts.remainingEthBudget = whole.remainingEthBudget
=============================================================================
