------------------------- MODULE MCStakeLimitWindow -------------------------
(* The staking limit on a small instance.                                  *)
EXTENDS StakeLimitWindow

MCNoClChanges == {}
MCStakeLimits == {[max |-> 2, increase |-> 0], [max |-> 3, increase |-> 1]}
=============================================================================
