----------------------------- MODULE MCAccounts -----------------------------
(* Accounts on small instances: the values of the constants are in the     *)
(* cfgs.                                                                   *)
EXTENDS Accounts, TLC

\* Children and passwords are interchangeable.
Symmetry == Permutations(Child) \cup Permutations(Pass)
=============================================================================
