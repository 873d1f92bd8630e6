------------------------- MODULE MCWithdrawalQueue -------------------------
(***************************************************************************)
(* WithdrawalQueue on small instances.  Precision exceeds the square of    *)
(* the shares in play, so that a rate read back from an amount and its     *)
(* shares orders requests as the exact quotients do.                       *)
(***************************************************************************)
EXTENDS WithdrawalQueue, TLC

\* Share rates of 1 and 0.6: requests of 2 and 5 wei made on either side of a
\* loss get different rates of their own.
MCTwoPools == {[ether |-> 10, shares |-> 10], [ether |-> 6, shares |-> 10]}

\* A report below every request's rate, and one between them.
MCShareRates == {600, 800}

\* Reports reach the queue in the third moment only, which is explored while the
\* queue is empty: what they set is used in FinalizationBatches alone.
MCThirdMoment == now = 2 => lastRequestId = 0

MCSymmetry == Permutations(Addresses)
=============================================================================
