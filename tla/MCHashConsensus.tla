--------------------------- MODULE MCHashConsensus ---------------------------
(* HashConsensus on small instances.                                       *)
EXTENDS HashConsensus, TLC

CONSTANTS h1, h2

\* One version, or a second version of which h2 is the only report.
MCOneVersion  == [h \in Hashes |-> 1]
MCTwoVersions == (h1 :> 1) @@ (h2 :> 2)

MCSymmetry == Permutations(Addresses)
=============================================================================
