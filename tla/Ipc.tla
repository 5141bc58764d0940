-------------------------------- MODULE Ipc --------------------------------
(***************************************************************************)
(* The child-master protocol of NetCosm: one master process runs a libev   *)
(* loop, every connected client is served by a forked child, and each      *)
(* child is joined to the master by two packet-mode pipes.                 *)
(*                                                                         *)
(*   server.c        the event loop, fork of a child, SIGCHLD, reaping     *)
(*   server_reqs.c   handle_child_req and the table of request handlers    *)
(*   client_reqs.c   send_master and poll_requests, the child's side       *)
(*   client.c        client_read, which serves the pipe between commands   *)
(*                                                                         *)
(* What the client types, what the world answers and when a client leaves  *)
(* are nondeterministic.  Text is abstracted away: a packet that prints    *)
(* something is BCASTMSG whatever it prints.                               *)
(***************************************************************************)
EXTENDS Integers, Sequences, FiniteSets

CONSTANTS
    Child,      \* process ids the kernel can give to a child
    User,       \* user names that a REQ_GETUSERDATA can ask for
    Cmds,       \* the requests the children issue in this instance
    PipeCap,    \* packets a pipe holds (16 for a pipe in packet mode)
    MaxText,    \* bound: text packets one handler prints
    Admins,     \* children whose are_admin is set: no rate limit
    RateLimit,  \* requests a non-admin child may send in one second (11)
    MaxTime,    \* bound: seconds that pass
    MayCrash    \* whether a child can also die outside of client_read

none == "none"
NoChild == "none"

(***************************************************************************)
(* The request table: the codes the master knows, and which children the   *)
(* handler of a request is called for, before its finalizer runs for the   *)
(* sender.                                                                 *)
(***************************************************************************)
Cmd == {"NOP", "BCASTMSG", "CHANGESTATE", "CHANGEUSER", "KICK", "KICKALL",
        "LISTCLIENTS", "SETROOM", "MOVE", "GETUSERDATA", "DELUSERDATA",
        "ADDUSERDATA", "LOOKAT", "TAKE", "DROP", "EXECVERB", "WAIT",
        "GETROOMDESC", "GETROOMNAME", "PRINTINVENTORY", "LISTUSERS"}

Which(cmd) ==
    CASE cmd \in {"BCASTMSG", "KICK", "LISTCLIENTS"} -> "ALL"
      [] cmd = "KICKALL"                             -> "ALL_BUT_SENDER"
      [] cmd \in {"CHANGESTATE", "CHANGEUSER"}       -> "SENDER"
      [] OTHER                                       -> "NONE"

ASSUME ChildAssumption == none \notin Child /\ IsFiniteSet(Child)
ASSUME UserAssumption  == none \notin User
ASSUME CmdsAssumption  == Cmds \subseteq Cmd
ASSUME BoundAssumption ==
    /\ PipeCap \in Nat \ {0}
    /\ MaxText \in Nat
    /\ Admins \subseteq Child
    /\ RateLimit \in Nat
    /\ MaxTime \in Nat
    /\ MayCrash \in BOOLEAN

\* returned_reqdata: nothing yet, a boolean, or the record of one user.
Datum == {none, "yes", "no"} \cup User

\* A request: GETUSERDATA carries a user name, KICK a pid.
Request == {r \in [cmd : Cmd, arg : {none} \cup User \cup Child] :
               r.cmd = "GETUSERDATA" => r.arg \in User}

\* A packet of the master, and the child whose pipe it is written to.
Packet == [cmd : {"BCASTMSG", "RAWMODE", "KICK", "MOVE", "GETUSERDATA",
                  "DELUSERDATA", "ADDUSERDATA", "ALLDONE"},
           val : Datum]
Parcel == [to : Child, pkt : Packet]

VARIABLES
    \* Memory of the children
    pc,             \* where each process is
    cur,            \* the request it is inside send_master for
    reqdata,        \* reqdata_type and returned_reqdata
    child_rawmode,  \* the children whose input goes to the world module
    reqs_since_ts,  \* requests sent since the clock's last second
    \* The pipes
    readpipe,       \* child to master
    outpipe,        \* master to child
    \* Memory of the master
    mpc,            \* where the event loop is
    child_map,      \* pids with an entry (and a running io_watcher)
    num_clients,
    raw_mode_cb,    \* the children whose entry has a raw mode callback
    reap_children,  \* the flag that sigchld_handler sets
    pending,        \* children whose watcher still has to run this round
    job,            \* the request handle_child_req is working on
    queue,          \* packets the current handler has yet to write
    now             \* the wall clock, in seconds

childVars  == <<pc, cur, reqdata, child_rawmode, reqs_since_ts>>
pipeVars   == <<readpipe, outpipe>>
masterVars == <<mpc, child_map, num_clients, raw_mode_cb, reap_children,
                pending, job, queue>>
vars == <<childVars, pipeVars, masterVars, now>>

NoReq == [cmd |-> "NOP", arg |-> none]
NoJob == [sender |-> NoChild, req |-> NoReq, rest |-> {}]

\* "free": the kernel may hand out the pid.  "exiting": the descriptors are
\* closed, the process is not yet waitable.  "zombie": it is.
Running == {"ready", "drain", "sending", "waiting"}
Dead == {"exiting", "zombie"}

MasterPc == {"poll", "accept", "insert", "dispatch", "serve", "finish", "reap"}

Init ==
    /\ pc = [c \in Child |-> "free"]
    /\ cur = [c \in Child |-> NoReq]
    /\ reqdata = [c \in Child |-> none]
    /\ child_rawmode = {}
    /\ reqs_since_ts = [c \in Child |-> 0]
    /\ readpipe = [c \in Child |-> <<>>]
    /\ outpipe = [c \in Child |-> <<>>]
    /\ mpc = "poll"
    /\ child_map = {}
    /\ num_clients = 0
    /\ raw_mode_cb = {}
    /\ reap_children = FALSE
    /\ pending = {}
    /\ job = NoJob
    /\ queue = <<>>
    /\ now = 0

-----------------------------------------------------------------------------
(***************************************************************************)
(* The child.                                                              *)
(***************************************************************************)

\* The requests that the client's commands can make child c send.  CLIENT
\* KICK refuses the pid of the child itself.
Requests(c) ==
    { [cmd |-> k, arg |-> none] : k \in Cmds \ {"GETUSERDATA", "KICK"} }
      \cup { [cmd |-> k, arg |-> u] : k \in Cmds \cap {"GETUSERDATA"}, u \in User }
      \cup { [cmd |-> k, arg |-> p] : k \in Cmds \cap {"KICK"}, p \in Child \ {c} }

\* Mutants: the limit is off by one; the requests are not counted.
SendMasterOffByOne(c, r) ==
    /\ pc[c] = "ready"
    /\ c \in Admins \/ reqs_since_ts[c] <= RateLimit
    /\ reqs_since_ts' = IF c \in Admins THEN reqs_since_ts
                        ELSE [reqs_since_ts EXCEPT ![c] = @ + 1]
    /\ pc' = [pc EXCEPT ![c] = "sending"]
    /\ cur' = [cur EXCEPT ![c] = r]
    /\ UNCHANGED <<reqdata, child_rawmode, pipeVars, masterVars, now>>

SendMasterUncounted(c, r) ==
    /\ pc[c] = "ready"
    /\ pc' = [pc EXCEPT ![c] = "sending"]
    /\ cur' = [cur EXCEPT ![c] = r]
    /\ UNCHANGED <<reqdata, child_rawmode, reqs_since_ts, pipeVars, masterVars, now>>

\* send_master up to its write.  A child over its limit prints a notice and
\* returns, which changes nothing here.
SendMaster(c, r) ==
    /\ pc[c] = "ready"
    /\ c \in Admins \/ reqs_since_ts[c] < RateLimit
    /\ reqs_since_ts' = IF c \in Admins THEN reqs_since_ts
                        ELSE [reqs_since_ts EXCEPT ![c] = @ + 1]
    /\ pc' = [pc EXCEPT ![c] = "sending"]
    /\ cur' = [cur EXCEPT ![c] = r]
    /\ UNCHANGED <<reqdata, child_rawmode, pipeVars, masterVars, now>>

\* The write of send_master: it blocks while the pipe is full.
WriteRequest(c) ==
    /\ pc[c] = "sending"
    /\ Len(readpipe[c]) < PipeCap
    /\ readpipe' = [readpipe EXCEPT ![c] = Append(@, cur[c])]
    /\ pc' = [pc EXCEPT ![c] = "waiting"]
    /\ UNCHANGED <<cur, reqdata, child_rawmode, reqs_since_ts, outpipe,
                   masterVars, now>>

\* client_read finds its pipe readable and calls poll_requests, which does
\* not come back before it has read an ALLDONE.
ClientRead(c) ==
    /\ pc[c] = "ready"
    /\ outpipe[c] # <<>>
    /\ pc' = [pc EXCEPT ![c] = "drain"]
    /\ UNCHANGED <<cur, reqdata, child_rawmode, reqs_since_ts, pipeVars,
                   masterVars, now>>

\* Mutant: raw mode is switched on, never off.
ToggleOn(S, c) == S \cup {c}

Toggle(S, c) == IF c \in S THEN S \ {c} ELSE S \cup {c}

\* What one packet does to reqdata_type and returned_reqdata.
Received(p, old) ==
    IF p.cmd \in {"MOVE", "GETUSERDATA", "DELUSERDATA", "ADDUSERDATA"}
    THEN p.val ELSE old

\* One turn of the loop in poll_requests, called from send_master ("waiting")
\* or from client_read ("drain").  A packet that prints (see Printed) is done
\* with when the client has read enough of what was printed before: out() is a
\* blocking write, so this step may never come.
PollRequests(c) ==
    /\ pc[c] \in {"waiting", "drain"}
    /\ outpipe[c] # <<>>
    /\ LET p == Head(outpipe[c]) IN
       \/ /\ p.cmd = "ALLDONE"
          /\ pc' = [pc EXCEPT ![c] = "ready"]
          /\ cur' = [cur EXCEPT ![c] = NoReq]
          /\ outpipe' = [outpipe EXCEPT ![c] = Tail(@)]
          /\ UNCHANGED <<reqdata, child_rawmode, reqs_since_ts>>
       \/ /\ p.cmd = "KICK"
          /\ pc' = [pc EXCEPT ![c] = "exiting"]
          /\ cur' = [cur EXCEPT ![c] = NoReq]
          /\ reqdata' = [reqdata EXCEPT ![c] = none]
          /\ child_rawmode' = child_rawmode \ {c}
          /\ reqs_since_ts' = [reqs_since_ts EXCEPT ![c] = 0]
          /\ outpipe' = [outpipe EXCEPT ![c] = <<>>]
       \/ /\ p.cmd \notin {"ALLDONE", "KICK"}
          /\ reqdata' = [reqdata EXCEPT ![c] = Received(p, @)]
          /\ child_rawmode' = IF p.cmd = "RAWMODE" THEN Toggle(child_rawmode, c)
                              ELSE child_rawmode
          /\ outpipe' = [outpipe EXCEPT ![c] = Tail(@)]
          /\ UNCHANGED <<pc, cur, reqs_since_ts>>
    /\ UNCHANGED <<readpipe, masterVars, now>>

\* The process ends: QUIT, a lost connection or a third failed login, all in
\* client_read or after it; a crash can come anywhere.  Its memory and the
\* read end of its outpipe are gone, what it wrote can still be read.
Exit(c) ==
    /\ pc[c] \in IF MayCrash THEN Running ELSE {"ready"}
    /\ pc' = [pc EXCEPT ![c] = "exiting"]
    /\ cur' = [cur EXCEPT ![c] = NoReq]
    /\ reqdata' = [reqdata EXCEPT ![c] = none]
    /\ child_rawmode' = child_rawmode \ {c}
    /\ reqs_since_ts' = [reqs_since_ts EXCEPT ![c] = 0]
    /\ outpipe' = [outpipe EXCEPT ![c] = <<>>]
    /\ UNCHANGED <<readpipe, masterVars, now>>

\* The kernel makes the process waitable and raises SIGCHLD in the master.
SigChld(c) ==
    /\ pc[c] = "exiting"
    /\ pc' = [pc EXCEPT ![c] = "zombie"]
    /\ reap_children' = TRUE
    /\ UNCHANGED <<cur, reqdata, child_rawmode, reqs_since_ts, pipeVars, mpc,
                   child_map, num_clients, raw_mode_cb, pending, job, queue, now>>

\* The second changes, and with it every child's allowance.
Tick ==
    /\ now < MaxTime
    /\ now' = now + 1
    /\ reqs_since_ts' = [c \in Child |-> 0]
    /\ UNCHANGED <<pc, cur, reqdata, child_rawmode, pipeVars, masterVars>>

-----------------------------------------------------------------------------
(***************************************************************************)
(* The master: the event loop.                                             *)
(***************************************************************************)

\* A read of the pipe would not block: data, or end of file.
Readable(c) == readpipe[c] # <<>> \/ pc[c] \in Dead

\* One call of the poll backend.  The listening socket has the highest
\* priority, so a new connection is taken before any child is served.
EvPoll ==
    /\ mpc = "poll"
    /\ pending' = {c \in child_map : Readable(c)}
    /\ \/ pending' # {} /\ mpc' = "dispatch"
       \/ (\E c \in Child : pc[c] = "free") /\ mpc' = "accept"
    /\ UNCHANGED <<childVars, pipeVars, child_map, num_clients, raw_mode_cb,
                   reap_children, job, queue, now>>

\* new_connection_cb up to the fork.  From there on the child runs.
Fork(c) ==
    /\ mpc = "accept"
    /\ pc[c] = "free"
    /\ num_clients' = num_clients + 1
    /\ pc' = [pc EXCEPT ![c] = "ready"]
    /\ job' = [NoJob EXCEPT !.sender = c]
    /\ mpc' = "insert"
    /\ UNCHANGED <<cur, reqdata, child_rawmode, reqs_since_ts, pipeVars,
                   child_map, raw_mode_cb, reap_children, pending, queue, now>>

\* The rest of new_connection_cb: the entry and its watcher.
InsertChild ==
    /\ mpc = "insert"
    /\ child_map' = child_map \cup {job.sender}
    /\ raw_mode_cb' = raw_mode_cb \ {job.sender}
    /\ job' = NoJob
    /\ mpc' = "dispatch"
    /\ UNCHANGED <<childVars, pipeVars, num_clients, reap_children, pending,
                   queue, now>>

\* All watchers of this round have run.
EndRound ==
    /\ mpc = "dispatch"
    /\ pending = {}
    /\ mpc' = "poll"
    /\ UNCHANGED <<childVars, pipeVars, child_map, num_clients, raw_mode_cb,
                   reap_children, pending, job, queue, now>>

-----------------------------------------------------------------------------
(***************************************************************************)
(* The master: handle_child_req and the handlers of the table.             *)
(***************************************************************************)
To(c, cmd, val) == [to |-> c, pkt |-> [cmd |-> cmd, val |-> val]]
Text(c) == To(c, "BCASTMSG", none)

\* Mutant: only the sender of a broadcast is told that it is over.
HandleChildNoDone(r, s, d) ==
    CASE r.cmd = "BCASTMSG"          -> <<Text(d)>>
      [] r.cmd = "KICK" /\ r.arg = d -> <<To(d, "KICK", none), Text(s)>>
      [] r.cmd = "KICKALL"           -> <<To(d, "KICK", none)>>
      [] r.cmd = "LISTCLIENTS"       -> <<Text(s)>>
      [] OTHER                       -> <<>>

\* handle_child of request r, sent by s, called for child d: req_pass_msg,
\* req_kick_client, req_kick_always, req_send_clientinfo; req_change_state
\* and req_change_user only touch the entry.
HandleChild(r, s, d) ==
    CASE r.cmd = "BCASTMSG" /\ d = s -> <<Text(d)>>
      [] r.cmd = "BCASTMSG" /\ d # s -> <<Text(d), To(d, "ALLDONE", none)>>
      [] r.cmd = "KICK" /\ r.arg = d -> <<To(d, "KICK", none), Text(s)>>
      [] r.cmd = "KICKALL"           -> <<To(d, "KICK", none)>>
      [] r.cmd = "LISTCLIENTS"       -> <<Text(s)>>
      [] OTHER                       -> <<>>

\* Up to MaxText packets of text for s.
Texts(s) == { [i \in 1..n |-> Text(s)] : n \in 0..MaxText }

\* Mutant: the finalizer sends an ALLDONE of its own.
AnswersTwice(r, s) ==
    IF r.cmd \in {"MOVE", "GETUSERDATA"}
    THEN { <<To(s, r.cmd, "no"), To(s, "ALLDONE", none)>> }
    ELSE { <<>> }

\* The packets that carry the outcome of the finalizer of request r of s.
Answers(r, s) ==
    CASE r.cmd \in {"MOVE", "DELUSERDATA", "ADDUSERDATA"} ->
             { <<To(s, r.cmd, "yes")>>, <<To(s, r.cmd, "no")>> }
      [] r.cmd = "GETUSERDATA" -> { <<>>, <<To(s, r.cmd, r.arg)>> }
      [] r.cmd = "EXECVERB"    -> { <<>>, <<To(s, "RAWMODE", none)>> }
      [] OTHER                 -> { <<>> }

Prints(r, s) ==
    IF r.cmd \in {"MOVE", "LOOKAT", "TAKE", "DROP", "EXECVERB", "GETROOMDESC",
                  "GETROOMNAME", "PRINTINVENTORY", "LISTCLIENTS", "LISTUSERS"}
    THEN Texts(s) ELSE { <<>> }

\* handle_child_req reads a request and finds its sender and its handler.
\* The handler is called for the sender first.
ReadRequest(c) ==
    /\ mpc = "dispatch"
    /\ c \in pending
    /\ readpipe[c] # <<>>
    /\ LET r == Head(readpipe[c])
           w == Which(r.cmd) IN
       /\ job' = [sender |-> c, req |-> r,
                  rest |-> IF w \in {"ALL", "ALL_BUT_SENDER"}
                           THEN child_map \ {c} ELSE {}]
       /\ queue' = IF w \in {"SENDER", "ALL"} THEN HandleChild(r, c, c) ELSE <<>>
    /\ readpipe' = [readpipe EXCEPT ![c] = Tail(@)]
    /\ pending' = pending \ {c}
    /\ mpc' = "serve"
    /\ UNCHANGED <<childVars, outpipe, child_map, num_clients, raw_mode_cb,
                   reap_children, now>>

\* Mutant: end of file is ignored.
ReadEofIgnored(c) ==
    /\ mpc = "dispatch"
    /\ c \in pending
    /\ readpipe[c] = <<>>
    /\ pending' = pending \ {c}
    /\ UNCHANGED <<childVars, pipeVars, mpc, child_map, num_clients, raw_mode_cb,
                   reap_children, job, queue, now>>

\* handle_child_req reads end of file: childreq_cb calls handle_disconnects.
ReadEof(c) ==
    /\ mpc = "dispatch"
    /\ c \in pending
    /\ readpipe[c] = <<>>
    /\ pending' = pending \ {c}
    /\ mpc' = "reap"
    /\ UNCHANGED <<childVars, pipeVars, child_map, num_clients, raw_mode_cb,
                   reap_children, job, queue, now>>

\* send_packet: the write blocks while the pipe of a live child is full, and
\* fails (EPIPE, ignored) when nobody holds the other end.
SendPacket ==
    /\ queue # <<>>
    /\ LET d == Head(queue).to IN
       \/ /\ pc[d] \in Running
          /\ Len(outpipe[d]) < PipeCap
          /\ outpipe' = [outpipe EXCEPT ![d] = Append(@, Head(queue).pkt)]
       \/ /\ pc[d] \notin Running
          /\ UNCHANGED outpipe
    /\ queue' = Tail(queue)
    /\ UNCHANGED <<childVars, readpipe, mpc, child_map, num_clients,
                   raw_mode_cb, reap_children, pending, job, now>>

\* The loop over child_map calls the handler for another child.
VisitChild(d) ==
    /\ mpc = "serve"
    /\ queue = <<>>
    /\ d \in job.rest
    /\ queue' = HandleChild(job.req, job.sender, d)
    /\ job' = [job EXCEPT !.rest = @ \ {d}]
    /\ UNCHANGED <<childVars, pipeVars, mpc, child_map, num_clients,
                   raw_mode_cb, reap_children, pending, now>>

\* The finalizer, and the ALLDONE for the sender that ends every request.
\* A verb may toggle raw mode, which child_toggle_rawmode does on both sides.
Finalize ==
    /\ mpc = "serve"
    /\ queue = <<>>
    /\ job.rest = {}
    /\ LET s == job.sender IN
       \E texts \in Prints(job.req, s), answer \in Answers(job.req, s) :
          /\ queue' = texts \o answer \o <<To(s, "ALLDONE", none)>>
          /\ raw_mode_cb' = IF answer = <<To(s, "RAWMODE", none)>>
                            THEN Toggle(raw_mode_cb, s)
                            ELSE raw_mode_cb
    /\ mpc' = "finish"
    /\ UNCHANGED <<childVars, pipeVars, child_map, num_clients, reap_children,
                   pending, job, now>>

\* childreq_cb after handle_child_req.  The flag is never reset.
Finish ==
    /\ mpc = "finish"
    /\ queue = <<>>
    /\ mpc' = IF reap_children THEN "reap" ELSE "dispatch"
    /\ job' = NoJob
    /\ UNCHANGED <<childVars, pipeVars, child_map, num_clients, raw_mode_cb,
                   reap_children, pending, queue, now>>

\* Mutants: the entry stays in the map; the client is still counted; the
\* watcher of the freed entry is not stopped.
ReapChildKeepsEntry(c) ==
    /\ mpc = "reap"
    /\ pc[c] = "zombie"
    /\ pc' = [pc EXCEPT ![c] = "free"]
    /\ num_clients' = num_clients - 1
    /\ pending' = pending \ {c}
    /\ readpipe' = [readpipe EXCEPT ![c] = <<>>]
    /\ UNCHANGED <<cur, reqdata, child_rawmode, reqs_since_ts, outpipe, mpc,
                   child_map, raw_mode_cb, reap_children, job, queue, now>>

ReapChildUncounted(c) ==
    /\ mpc = "reap"
    /\ pc[c] = "zombie"
    /\ pc' = [pc EXCEPT ![c] = "free"]
    /\ child_map' = child_map \ {c}
    /\ pending' = pending \ {c}
    /\ raw_mode_cb' = raw_mode_cb \ {c}
    /\ readpipe' = [readpipe EXCEPT ![c] = <<>>]
    /\ UNCHANGED <<cur, reqdata, child_rawmode, reqs_since_ts, outpipe, mpc,
                   num_clients, reap_children, job, queue, now>>

ReapChildStillWatched(c) ==
    /\ mpc = "reap"
    /\ pc[c] = "zombie"
    /\ pc' = [pc EXCEPT ![c] = "free"]
    /\ num_clients' = num_clients - 1
    /\ child_map' = child_map \ {c}
    /\ raw_mode_cb' = raw_mode_cb \ {c}
    /\ readpipe' = [readpipe EXCEPT ![c] = <<>>]
    /\ UNCHANGED <<cur, reqdata, child_rawmode, reqs_since_ts, outpipe, mpc,
                   pending, reap_children, job, queue, now>>

\* One turn of the waitpid loop in handle_disconnects.  free_child_data stops
\* the watcher, so what the child wrote and nobody read is never read.
ReapChild(c) ==
    /\ mpc = "reap"
    /\ pc[c] = "zombie"
    /\ pc' = [pc EXCEPT ![c] = "free"]
    /\ num_clients' = num_clients - 1
    /\ child_map' = child_map \ {c}
    /\ pending' = pending \ {c}
    /\ raw_mode_cb' = raw_mode_cb \ {c}
    /\ readpipe' = [readpipe EXCEPT ![c] = <<>>]
    /\ UNCHANGED <<cur, reqdata, child_rawmode, reqs_since_ts, outpipe, mpc,
                   reap_children, job, queue, now>>

\* waitpid finds no further zombie.
ReapDone ==
    /\ mpc = "reap"
    /\ \A c \in Child : pc[c] # "zombie"
    /\ mpc' = "dispatch"
    /\ UNCHANGED <<childVars, pipeVars, child_map, num_clients, raw_mode_cb,
                   reap_children, pending, job, queue, now>>
-----------------------------------------------------------------------------
Master ==
    \/ EvPoll \/ InsertChild \/ EndRound \/ SendPacket \/ Finalize \/ Finish
    \/ ReapDone
    \/ \E c \in Child : \/ Fork(c) \/ ReadRequest(c) \/ ReadEof(c)
                        \/ VisitChild(c) \/ ReapChild(c)

\* What a child does by itself once it has something to read or to write.
ChildStep(c) == WriteRequest(c) \/ ClientRead(c) \/ PollRequests(c) \/ SigChld(c)

Next ==
    \/ Master
    \/ \E c \in Child : \/ \E r \in Requests(c) : SendMaster(c, r)
                        \/ ChildStep(c)
                        \/ Exit(c)
    \/ Tick

Spec == Init /\ [][Next]_vars

\* Packets that poll_requests prints: out() writes to the socket of the client,
\* and blocks for as long as the client does not read.
Printed(p) == p.cmd \in {"BCASTMSG", "KICK"}

\* The steps of a child that wait for nothing but the kernel and the master.
Scheduled(c) ==
    \/ WriteRequest(c) \/ SigChld(c)
    \/ PollRequests(c) /\ ~Printed(Head(outpipe[c]))

\* The processes are scheduled.  Clients need neither type, read nor leave.
FairSpec == Spec /\ WF_vars(Master) /\ \A c \in Child : WF_vars(Scheduled(c))

\* What the program cannot see to: clients read what is printed for them, so
\* that no child stays in out() for ever.
ClientsRead == \A c \in Child : WF_vars(ClientRead(c) \/ PollRequests(c))
-----------------------------------------------------------------------------
(***************************************************************************)
(* Safety.                                                                 *)
(***************************************************************************)

\* Types; no pipe ever holds more packets than it has slots.
TypeOK ==
    /\ pc \in [Child -> Running \cup Dead \cup {"free"}]
    /\ cur \in [Child -> Request]
    /\ reqdata \in [Child -> Datum]
    /\ child_rawmode \subseteq Child
    /\ reqs_since_ts \in [Child -> 0..RateLimit]
    /\ readpipe \in [Child -> Seq(Request)]
    /\ outpipe \in [Child -> Seq(Packet)]
    /\ \A c \in Child : Len(readpipe[c]) <= PipeCap /\ Len(outpipe[c]) <= PipeCap
    /\ mpc \in MasterPc
    /\ child_map \subseteq Child
    /\ num_clients \in Int
    /\ raw_mode_cb \subseteq Child
    /\ reap_children \in BOOLEAN
    /\ pending \subseteq Child
    /\ job \in [sender : Child \cup {NoChild}, req : Request, rest : SUBSET Child]
    /\ queue \in Seq(Parcel)
    /\ now \in 0..MaxTime

\* handle_disconnects dereferences the entry of every pid that waitpid
\* returns: each process that exists has an entry, except for the one
\* new_connection_cb is about to insert.
Entered ==
    {c \in Child : pc[c] # "free"} =
        child_map \cup (IF mpc = "insert" THEN {job.sender} ELSE {})

\* num_clients, which LISTCLIENTS prints and a new child is greeted with,
\* counts the entries of child_map, whatever order forks and deaths come in.
ClientCount ==
    num_clients = Cardinality(child_map) + (IF mpc = "insert" THEN 1 ELSE 0)

\* No freed entry is used: the watchers that have yet to run, the sender and
\* the children a handler has yet to visit or to write to are all entered.
NoFreedEntry ==
    /\ pending \subseteq child_map
    /\ mpc \in {"serve", "finish"} =>
          /\ {job.sender} \cup job.rest \subseteq child_map
          /\ \A i \in 1..Len(queue) : queue[i].to \in child_map

\* A packet after which poll_requests returns or never reads again.
Final(p) == p.cmd \in {"ALLDONE", "KICK"}

\* The master has yet to write a final packet for c.
Owed(c) ==
    \/ mpc = "serve" /\ job.sender = c
    \/ \E i \in 1..Len(queue) : queue[i].to = c /\ Final(queue[i].pkt)

\* Nobody is stranded in a blocking read: a child inside poll_requests still
\* has a final packet ahead of it, in its pipe or on the way, and what lies
\* in the pipe of a live child always ends with one.
NoStrandedChild ==
    \A c \in Child :
        /\ pc[c] = "waiting" => readpipe[c] # <<>> \/ outpipe[c] # <<>> \/ Owed(c)
        /\ pc[c] = "drain"   => outpipe[c] # <<>> \/ Owed(c)
        /\ outpipe[c] # <<>> => Final(outpipe[c][Len(outpipe[c])]) \/ Owed(c)

Toggles(c) ==
    Cardinality({i \in 1..Len(outpipe[c]) : outpipe[c][i].cmd = "RAWMODE"})
      + Cardinality({i \in 1..Len(queue) : queue[i] = To(c, "RAWMODE", none)})

\* Raw mode is kept twice, as a flag the child flips and as a callback the
\* master sets: the two agree up to the toggles still on their way.
RawModeAgrees ==
    \A c \in child_map : pc[c] \in Running =>
        (c \in child_rawmode <=> c \in raw_mode_cb) <=> (Toggles(c) % 2 = 0)

\* The master waits for room in the pipe of c while c waits for room in its
\* pipe to the master: neither of them moves again.
CircularWait(c) ==
    /\ queue # <<>> /\ Head(queue).to = c /\ Len(outpipe[c]) = PipeCap
    /\ pc[c] = "sending" /\ Len(readpipe[c]) = PipeCap

\* How much of its allowance a running child has put into its pipe: what the
\* clock has granted so far bounds what it wrote and is about to write.
Backlog(c) == Len(readpipe[c]) + (IF pc[c] = "sending" THEN 1 ELSE 0)
WithinAllowance ==
    \A c \in Child \ Admins :
        pc[c] \in Running => Backlog(c) <= RateLimit * now + reqs_since_ts[c]

\* The server does not wedge itself as long as nobody broadcasts, at whatever
\* rate requests come.
NoCircularWait == \A c \in Child : ~CircularWait(c)

\* The master has not yet executed the request of c.
Unserved(c) == readpipe[c] # <<>> \/ (mpc = "serve" /\ job.sender = c)

\* send_master of c returns.
Returns(c) == pc[c] = "waiting" /\ pc'[c] = "ready"

\* send_master returns only after the master has executed the request.
ReturnsServed == [][\A c \in Child : Returns(c) => ~Unserved(c)]_vars

\* userdb_request_lookup gives the record of the user that was asked for, or
\* NULL, which is what it makes of a reqdata that is not of TYPE_USERDATA.
LookupOfName ==
    [][\A c \in Child :
         Returns(c) /\ cur[c].cmd = "GETUSERDATA" /\ reqdata[c] \in User
           => reqdata[c] = cur[c].arg]_vars

-----------------------------------------------------------------------------
(***************************************************************************)
(* Liveness, under FairSpec and for clients that read.                     *)
(***************************************************************************)
Wedged == \E c \in Child : CircularWait(c)

\* No read of poll_requests hangs: a child inside send_master or inside the
\* poll_requests of client_read comes back to its client (or dies), unless the
\* master ends up waiting in a circle with some child.  There is no other way
\* to hang, although master and children block on each other all the time.
EveryPollReturns ==
    ClientsRead =>
        \A c \in Child : pc[c] \in {"waiting", "drain"}
                           ~> pc[c] \in {"ready"} \cup Dead \/ Wedged

\* A dead child is reaped, whether its SIGCHLD or its end of file is seen
\* first and although nothing polls the flag that SIGCHLD sets.
EveryDeathIsReaped ==
    ClientsRead => \A c \in Child : pc[c] \in Dead ~> pc[c] = "free" \/ Wedged

-----------------------------------------------------------------------------
(***************************************************************************)
(* Refinement: what the child sees of the master.                          *)
(***************************************************************************)
rpc == [c \in Child |->
          CASE pc[c] \in Dead \cup {"free"}       -> "away"
            [] pc[c] = "waiting" /\ Unserved(c)   -> "called"
            [] pc[c] = "waiting" /\ ~Unserved(c)  -> "served"
            [] OTHER                              -> "idle"]

R == INSTANCE Rpc WITH Client <- Child, st <- rpc

\* As long as nobody broadcasts, send_master is a remote procedure call, and one
\* that returns if clients read.
ImplementsRpc == R!Spec /\ (ClientsRead => R!Liveness)
=============================================================================
