----------------------- MODULE MCFinalizationBatches -----------------------
(* FinalizationBatches on queues of up to three requests.                  *)
EXTENDS FinalizationBatches

MCTwoPools == {[ether |-> 10, shares |-> 10], [ether |-> 6, shares |-> 10]}
MCShareRates == {600, 800}
=============================================================================
