------------------------------- MODULE MCIpc -------------------------------
(* Ipc on small instances: the values of the constants are in the cfgs.    *)
EXTENDS Ipc, TLC

\* Pids and user names are interchangeable.
Symmetry == Permutations(Child) \cup Permutations(User)
=============================================================================
