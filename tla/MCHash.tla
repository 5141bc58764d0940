------------------------------ MODULE MCHash -------------------------------
(* Hash on small instances: a key is the number it hashes to.              *)
EXTENDS Hash

\* Pids, or strings under strcmp.
Exact == [k \in Key |-> k]

=============================================================================
