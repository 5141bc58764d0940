----------------------------- MODULE MCPresence -----------------------------
(* Presence on small instances: the values of the constants are in the     *)
(* cfgs.                                                                   *)
EXTENDS Presence, TLC

\* Children and user names are interchangeable.
Symmetry == Permutations(Child) \cup Permutations(User)
=============================================================================
