---------------------------- MODULE MCAccounting ----------------------------
(* Accounting on small instances.                                          *)
EXTENDS Accounting

MCClChanges == {-2, 0, 2}
MCNoStakeLimits == {}
=============================================================================
