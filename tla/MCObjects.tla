----------------------------- MODULE MCObjects -----------------------------
(* Objects on small instances: the values of the constants are in the cfgs. *)
EXTENDS Objects, TLC

\* The objects that the puzzle needs, in the order of world_init, with a second
\* shovel so that lists have more than one element.
MCStock == <<"shovel", "shovel", "food", "bear", "computer">>

\* Users are interchangeable.
Symmetry == Permutations(User)
=============================================================================
