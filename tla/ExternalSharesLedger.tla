------------------------ MODULE ExternalSharesLedger ------------------------
(***************************************************************************)
(* What Lido, Accounting and VaultHub promise each other about external    *)
(* shares: each one is the liability of a vault or bad debt set aside, and *)
(* it changes from the one to the other or disappears only as follows.     *)
(***************************************************************************)
EXTENDS Integers

VARIABLES
  external,      \* the external shares of Lido
  liability,     \* the liability shares of all vaults
  badDebt        \* bad debt that a report is to take over

ledgerVars == <<external, liability, badDebt>>

Init ==
  /\ {external, liability, badDebt} \subseteq Nat
  /\ external = liability + badDebt

\* mintShares
Mint ==
  /\ external' > external
  /\ liability' - liability = external' - external
  /\ UNCHANGED badDebt

\* burnShares and the rebalances
Burn ==
  /\ external' < external /\ liability' >= 0
  /\ liability - liability' = external - external'
  /\ UNCHANGED badDebt

\* internalizeBadDebt
WriteOff ==
  /\ liability' < liability /\ liability' >= 0
  /\ badDebt' - badDebt = liability - liability'
  /\ UNCHANGED external

\* the report of Accounting
Settle ==
  /\ badDebt' < badDebt /\ badDebt' >= 0
  /\ external - external' = badDebt - badDebt'
  /\ UNCHANGED liability

Next == Mint \/ Burn \/ WriteOff \/ Settle

Spec == Init /\ [][Next]_ledgerVars
=============================================================================
