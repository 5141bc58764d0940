----------------------------- MODULE MCPersist -----------------------------
(* Persist on small instances: the values of the constants are in the cfgs. *)
EXTENDS Persist, TLC

\* Two objects of one name, so that a TAKE or a DROP can be interrupted halfway.
MCStock == <<"shovel", "shovel">>

\* In the order of netcosm_world.
MCOrder == <<"dead_end", "fork", "computer_room">>
=============================================================================
