-------------------------------- MODULE Rpc --------------------------------
(***************************************************************************)
(* What send_master promises a child, without pipes, packets or event      *)
(* loop: a call is executed once by the master and returns after that.  A  *)
(* client can leave at any time.                                           *)
(***************************************************************************)
CONSTANT Client

VARIABLE st     \* "away", "idle", "called" or "served", for every client

TypeOK == st \in [Client -> {"away", "idle", "called", "served"}]

Init == st = [c \in Client |-> "away"]

Step(c, from, to) == st[c] = from /\ st' = [st EXCEPT ![c] = to]

Join(c)   == Step(c, "away", "idle")
Call(c)   == Step(c, "idle", "called")
Serve(c)  == Step(c, "called", "served")
Return(c) == Step(c, "served", "idle")
Leave(c)  == st[c] # "away" /\ st' = [st EXCEPT ![c] = "away"]

Next == \E c \in Client : Join(c) \/ Call(c) \/ Serve(c) \/ Return(c) \/ Leave(c)

Spec == Init /\ [][Next]_st

\* Every call is served and returns, unless its client leaves.
Liveness == \A c \in Client : WF_st(Serve(c)) /\ WF_st(Return(c))
=============================================================================
