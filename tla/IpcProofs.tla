----------------------------- MODULE IpcProofs -----------------------------
(***************************************************************************)
(* Machine-checked proofs about Ipc, for every set of pids and users, every *)
(* pipe capacity, rate limit and bound.                                    *)
(***************************************************************************)
EXTENDS Ipc, TLAPS, FiniteSetTheorems

-----------------------------------------------------------------------------
(***************************************************************************)
(* The packets that handlers produce.                                      *)
(***************************************************************************)

\* A sequence of parcels that handle_child or a finalizer may leave in queue.
Parcels == Seq(Parcel)

\* Short tuples are sequences.
LEMMA TupleSeq ==
    ASSUME NEW S, NEW x \in S, NEW y \in S
    PROVE  <<>> \in Seq(S) /\ <<x>> \in Seq(S) /\ <<x, y>> \in Seq(S)
  OBVIOUS

\* The last element after a write to a pipe, and after a read from it.
LEMMA AppendLast ==
    ASSUME NEW S, NEW q \in Seq(S), NEW x \in S
    PROVE  /\ Append(q, x) # <<>>
           /\ Len(Append(q, x)) = Len(q) + 1
           /\ Append(q, x)[Len(Append(q, x))] = x
  <1>1. Len(Append(q, x)) = Len(q) + 1 /\ Append(q, x)[Len(q) + 1] = x
    OBVIOUS
  <1>2. Len(<<>>) = 0 /\ Len(q) + 1 # 0
    OBVIOUS
  <1> QED
    BY <1>1, <1>2

LEMMA TailLast ==
    ASSUME NEW S, NEW q \in Seq(S), q # <<>>
    PROVE  /\ Tail(q) # <<>> => Tail(q)[Len(Tail(q))] = q[Len(q)]
           /\ Tail(q) = <<>> => q[Len(q)] = Head(q)
  <1>1. Len(q) \in Nat \ {0} /\ Len(Tail(q)) = Len(q) - 1
    OBVIOUS
  <1>2. \A i \in 1..Len(Tail(q)) : Tail(q)[i] = q[i + 1]
    OBVIOUS
  <1>3. Tail(q) # <<>> => Len(Tail(q)) \in 1..Len(Tail(q))
    <2>1. Tail(q) \in Seq(S)
      OBVIOUS
    <2>2. \A t \in Seq(S) : t # <<>> => Len(t) \in 1..Len(t)
      OBVIOUS
    <2> QED
      BY <2>1, <2>2
  <1>4. Tail(q) = <<>> => Len(q) = 1
    <2>1. Len(<<>>) = 0
      OBVIOUS
    <2>2. Tail(q) = <<>> => Len(Tail(q)) = 0
      BY <2>1, Zenon
    <2> QED
      BY <1>1, <2>2
  <1>5. q[1] = Head(q)
    OBVIOUS
  <1> QED
    BY <1>1, <1>2, <1>3, <1>4, <1>5

\* To builds a parcel.
LEMMA ToType ==
    ASSUME NEW c \in Child, NEW v \in Datum,
           NEW k \in {"BCASTMSG", "RAWMODE", "KICK", "MOVE", "GETUSERDATA",
                      "DELUSERDATA", "ADDUSERDATA", "ALLDONE"}
    PROVE  To(c, k, v) \in Parcel
  BY DEF To, Parcel, Packet

\* handle_child writes well-formed packets, to the sender or to the child it
\* is called for.
LEMMA HandleChildType ==
    ASSUME NEW r \in Request, NEW s \in Child, NEW d \in Child
    PROVE  /\ HandleChild(r, s, d) \in Parcels
           /\ \A i \in 1..Len(HandleChild(r, s, d)) :
                 HandleChild(r, s, d)[i].to \in {s, d}
  <1> DEFINE H == HandleChild(r, s, d)
  <1>1. /\ Text(s) \in Parcel /\ Text(d) \in Parcel
        /\ To(d, "ALLDONE", none) \in Parcel /\ To(d, "KICK", none) \in Parcel
    BY ToType DEF Text, Datum
  <1>2. /\ Text(s).to = s /\ Text(d).to = d
        /\ To(d, "ALLDONE", none).to = d /\ To(d, "KICK", none).to = d
    BY DEF Text, To
  <1>3. \/ H = <<Text(d)>>
        \/ H = <<Text(d), To(d, "ALLDONE", none)>>
        \/ H = <<To(d, "KICK", none), Text(s)>>
        \/ H = <<To(d, "KICK", none)>>
        \/ H = <<Text(s)>>
        \/ H = <<>>
    BY DEF HandleChild
  <1> HIDE DEF H
  <1>4. H \in Parcels
    BY <1>1, <1>3, TupleSeq DEF Parcels
  <1>5. \A i \in 1..Len(H) : H[i].to \in {s, d}
    BY <1>2, <1>3
  <1> QED
    BY <1>4, <1>5 DEF H

\* Whatever handle_child writes to a child other than the sender ends with a
\* packet that releases or ends it: req_pass_msg's ALLDONE, or a KICK.
LEMMA HandleChildFramed ==
    ASSUME NEW r \in Request, NEW s \in Child, NEW d \in Child
    PROVE  LET H == HandleChild(r, s, d) IN
           \A i \in 1..Len(H) :
              H[i].to = s \/ \E j \in i..Len(H) : H[j].to = H[i].to /\ Final(H[j].pkt)
  <1> DEFINE H == HandleChild(r, s, d)
  <1>1. /\ Text(s).to = s /\ Text(d).to = d
        /\ To(d, "ALLDONE", none).to = d /\ Final(To(d, "ALLDONE", none).pkt)
        /\ To(d, "KICK", none).to = d /\ Final(To(d, "KICK", none).pkt)
    BY DEF Text, To, Final
  <1>2. \/ H = <<Text(d)>> /\ d = s
        \/ H = <<Text(d), To(d, "ALLDONE", none)>>
        \/ H = <<To(d, "KICK", none), Text(s)>>
        \/ H = <<To(d, "KICK", none)>>
        \/ H = <<Text(s)>>
        \/ H = <<>>
    BY DEF HandleChild
  <1> HIDE DEF H
  <1>3. \A i \in 1..Len(H) :
           H[i].to = s \/ \E j \in i..Len(H) : H[j].to = H[i].to /\ Final(H[j].pkt)
    BY <1>1, <1>2
  <1> QED
    BY <1>3 DEF H

\* Everything a finalizer writes goes to the sender, and its last packet is
\* the ALLDONE of the request.
LEMMA FinalizeQueue ==
    ASSUME NEW r \in Request, NEW s \in Child,
           NEW texts \in Prints(r, s), NEW answer \in Answers(r, s)
    PROVE  LET Q == texts \o answer \o <<To(s, "ALLDONE", none)>> IN
           /\ Q \in Parcels
           /\ Len(Q) > 0
           /\ Q[Len(Q)] = To(s, "ALLDONE", none)
           /\ \A i \in 1..Len(Q) : Q[i].to = s
  <1> DEFINE done == To(s, "ALLDONE", none)
             S == {p \in Parcel : p.to = s}
  <1>1. done \in S /\ Text(s) \in S /\ To(s, "RAWMODE", none) \in S
    BY ToType DEF Text, To, Datum
  <1>2. texts \in Seq(S)
    <2>1. texts = <<>> \/ \E n \in 0..MaxText : texts = [i \in 1..n |-> Text(s)]
      BY DEF Prints, Texts
    <2>2. ASSUME NEW n \in 0..MaxText, texts = [i \in 1..n |-> Text(s)]
          PROVE  texts \in Seq(S)
      <3>1. n \in Nat
        BY BoundAssumption
      <3> HIDE DEF S
      <3> QED
        BY <1>1, <2>2, <3>1
    <2> HIDE DEF S
    <2> QED
      BY <1>1, <2>1, <2>2, TupleSeq
  <1>3. answer \in Seq(S)
    <2>1. \/ answer = <<>> \/ answer = <<To(s, "RAWMODE", none)>>
          \/ /\ r.cmd \in {"MOVE", "DELUSERDATA", "ADDUSERDATA"}
             /\ answer = <<To(s, r.cmd, "yes")>> \/ answer = <<To(s, r.cmd, "no")>>
          \/ r.cmd = "GETUSERDATA" /\ answer = <<To(s, r.cmd, r.arg)>>
      BY DEF Answers
    <2>2. CASE /\ r.cmd \in {"MOVE", "DELUSERDATA", "ADDUSERDATA"}
               /\ answer = <<To(s, r.cmd, "yes")>> \/ answer = <<To(s, r.cmd, "no")>>
      <3>1. To(s, r.cmd, "yes") \in S /\ To(s, r.cmd, "no") \in S
        BY <2>2, ToType DEF To, Datum
      <3> HIDE DEF S
      <3> QED
        BY <2>2, <3>1, TupleSeq
    <2>3. CASE r.cmd = "GETUSERDATA" /\ answer = <<To(s, r.cmd, r.arg)>>
      <3>1. r.arg \in User
        BY <2>3 DEF Request
      <3>2. To(s, r.cmd, r.arg) \in S
        BY <2>3, <3>1, ToType DEF To, Datum
      <3> HIDE DEF S
      <3> QED
        BY <2>3, <3>2, TupleSeq
    <2> HIDE DEF S
    <2> QED
      BY <1>1, <2>1, <2>2, <2>3, TupleSeq
  <1> DEFINE Q == texts \o answer \o <<done>>
  <1>4. /\ Q \in Seq(S) /\ Len(Q) = Len(texts) + Len(answer) + 1
        /\ Q[Len(Q)] = done
    <2> HIDE DEF S, done
    <2>1. texts \o answer \in Seq(S) /\ Len(texts \o answer) = Len(texts) + Len(answer)
      BY <1>2, <1>3
    <2> DEFINE ta == texts \o answer
    <2> HIDE DEF ta
    <2>2. ta \in Seq(S)
      BY <2>1 DEF ta
    <2>3. /\ ta \o <<done>> \in Seq(S)
          /\ Len(ta \o <<done>>) = Len(ta) + 1
          /\ (ta \o <<done>>)[Len(ta) + 1] = done
      BY <1>1, <2>2
    <2> QED
      BY <2>1, <2>3 DEF ta
  <1>5. /\ Len(Q) > 0 /\ \A i \in 1..Len(Q) : Q[i] \in S
    <2> HIDE DEF Q, S
    <2> QED
      BY <1>2, <1>3, <1>4
  <1>6. Q \in Parcels
    <2>1. S \subseteq Parcel
      OBVIOUS
    <2> HIDE DEF Q, S
    <2> QED
      BY <1>4, <2>1 DEF Parcels
  <1> QED
    BY <1>4, <1>5, <1>6

-----------------------------------------------------------------------------
(***************************************************************************)
(* Types.                                                                  *)
(***************************************************************************)

\* The handler has a sender, and packets are queued only by a handler.
Shape ==
    /\ mpc \in {"insert", "serve", "finish"} => job.sender \in Child
    /\ queue # <<>> => mpc \in {"serve", "finish"}

Typed == TypeOK /\ Shape

LEMMA RequestsType ==
    ASSUME NEW c \in Child
    PROVE  Requests(c) \subseteq Request
  BY CmdsAssumption DEF Requests, Request, Cmd

LEMMA NoReqType == NoReq \in Request
  BY DEF NoReq, Request, Cmd

LEMMA TypedInit == Init => Typed
  <1> SUFFICES ASSUME Init PROVE Typed
    OBVIOUS
  <1>1. \A c \in Child : Len(readpipe[c]) <= PipeCap /\ Len(outpipe[c]) <= PipeCap
    BY BoundAssumption DEF Init
  <1>2. /\ readpipe \in [Child -> Seq(Request)] /\ outpipe \in [Child -> Seq(Packet)]
        /\ queue \in Seq(Parcel)
    BY DEF Init
  <1>3. job \in [sender : Child \cup {NoChild}, req : Request, rest : SUBSET Child]
    BY NoReqType DEF Init, NoJob
  <1>4. /\ pc \in [Child -> Running \cup Dead \cup {"free"}]
        /\ cur \in [Child -> Request] /\ reqdata \in [Child -> Datum]
        /\ child_rawmode \subseteq Child /\ raw_mode_cb \subseteq Child
    BY NoReqType DEF Init, Datum
  <1>5. reqs_since_ts \in [Child -> 0..RateLimit] /\ now \in 0..MaxTime
    BY BoundAssumption DEF Init
  <1>6. /\ mpc \in MasterPc /\ child_map \subseteq Child /\ num_clients \in Int
        /\ pending \subseteq Child
    BY DEF Init, MasterPc
  <1>7. reap_children \in BOOLEAN
    BY Zenon DEF Init
  <1>8. Shape
    BY DEF Init, Shape
  <1> QED
    BY <1>1, <1>2, <1>3, <1>4, <1>5, <1>6, <1>7, <1>8, Zenon DEF Typed, TypeOK

LEMMA TypedNext == Typed /\ [Next]_vars => Typed'
  <1> SUFFICES ASSUME Typed, [Next]_vars PROVE Typed'
    OBVIOUS
  <1> USE DEF Typed, Shape
  <1>1. ASSUME NEW c \in Child, NEW r \in Requests(c), SendMaster(c, r) PROVE Typed'
    <2>1. r \in Request
      BY RequestsType
    <2> QED
      BY <1>1, <2>1, BoundAssumption
      DEF SendMaster, TypeOK, Running, pipeVars, masterVars
  <1>2. ASSUME NEW c \in Child, WriteRequest(c) PROVE Typed'
    BY <1>2, BoundAssumption DEF WriteRequest, TypeOK, Running, masterVars
  <1>3. ASSUME NEW c \in Child, ClientRead(c) PROVE Typed'
    BY <1>3 DEF ClientRead, TypeOK, Running, pipeVars, masterVars
  <1>4. ASSUME NEW c \in Child, PollRequests(c) PROVE Typed'
    <2> DEFINE hd == Head(outpipe[c])
    <2>1. /\ hd \in Packet /\ Tail(outpipe[c]) \in Seq(Packet)
          /\ Len(Tail(outpipe[c])) <= PipeCap
      BY <1>4, BoundAssumption DEF PollRequests, TypeOK
    <2>2. <<>> \in Seq(Packet) /\ Len(<<>>) <= PipeCap
      BY BoundAssumption
    <2>3. ASSUME NEW x \in Datum PROVE Received(hd, x) \in Datum
      BY <2>1 DEF Received, Packet
    <2>4. /\ pc' \in [Child -> Running \cup Dead \cup {"free"}]
          /\ cur' \in [Child -> Request]
      <3>1. /\ \/ pc' = [pc EXCEPT ![c] = "ready"] \/ pc' = [pc EXCEPT ![c] = "exiting"]
               \/ pc' = pc
            /\ cur' = [cur EXCEPT ![c] = NoReq] \/ cur' = cur
        BY <1>4 DEF PollRequests
      <3>2. "ready" \in Running /\ "exiting" \in Dead
        BY DEF Running, Dead
      <3>3. pc' \in [Child -> Running \cup Dead \cup {"free"}]
        BY <3>1, <3>2 DEF TypeOK
      <3>4. cur' \in [Child -> Request]
        BY <3>1, NoReqType DEF TypeOK
      <3> QED
        BY <3>3, <3>4
    <2>5. reqdata' \in [Child -> Datum]
      <3>1. none \in Datum
        BY DEF Datum
      <3>2. \/ reqdata' = reqdata \/ reqdata' = [reqdata EXCEPT ![c] = none]
            \/ reqdata' = [reqdata EXCEPT ![c] = Received(hd, @)]
        BY <1>4 DEF PollRequests
      <3>3. Received(hd, reqdata[c]) \in Datum
        BY <2>3 DEF TypeOK
      <3> QED
        BY <3>1, <3>2, <3>3 DEF TypeOK
    <2>6. /\ child_rawmode' \subseteq Child
          /\ reqs_since_ts' \in [Child -> 0..RateLimit]
      BY <1>4, BoundAssumption DEF PollRequests, TypeOK, Toggle
    <2>7. /\ outpipe' \in [Child -> Seq(Packet)]
          /\ \A d \in Child : Len(outpipe'[d]) <= PipeCap
      <3>1. \/ outpipe' = [outpipe EXCEPT ![c] = Tail(@)]
            \/ outpipe' = [outpipe EXCEPT ![c] = <<>>]
        BY <1>4, Zenon DEF PollRequests
      <3> QED
        BY <2>1, <2>2, <3>1 DEF TypeOK
    <2> QED
      BY <1>4, <2>4, <2>5, <2>6, <2>7 DEF PollRequests, TypeOK, masterVars
  <1>5. ASSUME NEW c \in Child, SigChld(c) PROVE Typed'
    BY <1>5 DEF SigChld, TypeOK, Dead, pipeVars
  <1>6. ASSUME NEW c \in Child, Exit(c) PROVE Typed'
    BY <1>6, NoReqType, BoundAssumption DEF Exit, TypeOK, Dead, Datum, masterVars
  <1>7. ASSUME Tick PROVE Typed'
    BY <1>7, BoundAssumption DEF Tick, TypeOK, pipeVars, masterVars
  <1>8. ASSUME EvPoll PROVE Typed'
    BY <1>8 DEF EvPoll, TypeOK, MasterPc, childVars, pipeVars
  <1>9. ASSUME NEW c \in Child, Fork(c) PROVE Typed'
    <2>1. /\ job' \in [sender : Child \cup {NoChild}, req : Request, rest : SUBSET Child]
          /\ job'.sender \in Child
      BY <1>9, NoReqType DEF Fork, NoJob
    <2>2. /\ pc' \in [Child -> Running \cup Dead \cup {"free"}]
          /\ num_clients' \in Int /\ mpc' \in MasterPc
      BY <1>9 DEF Fork, TypeOK, MasterPc, Running
    <2> QED
      BY <1>9, <2>1, <2>2 DEF Fork, TypeOK, pipeVars
  <1>10. ASSUME InsertChild PROVE Typed'
    BY <1>10, NoReqType DEF InsertChild, TypeOK, MasterPc, NoJob, childVars, pipeVars
  <1>11. ASSUME EndRound PROVE Typed'
    BY <1>11 DEF EndRound, TypeOK, MasterPc, childVars, pipeVars
  <1>12. ASSUME NEW c \in Child, ReadRequest(c) PROVE Typed'
    <2> DEFINE r == Head(readpipe[c])
    <2>1. /\ r \in Request /\ Tail(readpipe[c]) \in Seq(Request)
          /\ Len(Tail(readpipe[c])) <= PipeCap
      BY <1>12, BoundAssumption DEF ReadRequest, TypeOK
    <2>2. <<>> \in Seq(Parcel) /\ HandleChild(r, c, c) \in Seq(Parcel)
      BY <2>1, HandleChildType DEF Parcels
    <2>3. queue' \in Seq(Parcel)
      BY <1>12, <2>2 DEF ReadRequest
    <2>4. job' \in [sender : Child \cup {NoChild}, req : Request, rest : SUBSET Child]
      BY <1>12, <2>1 DEF ReadRequest, TypeOK
    <2>5. job'.sender \in Child
      BY <1>12 DEF ReadRequest
    <2> QED
      BY <1>12, <2>1, <2>3, <2>4, <2>5 DEF ReadRequest, TypeOK, MasterPc, childVars
  <1>13. ASSUME NEW c \in Child, ReadEof(c) PROVE Typed'
    BY <1>13 DEF ReadEof, TypeOK, MasterPc, childVars, pipeVars
  <1>14. ASSUME SendPacket PROVE Typed'
    <2> DEFINE d == Head(queue).to
    <2>1. Head(queue) \in Parcel /\ Tail(queue) \in Seq(Parcel)
      BY <1>14 DEF SendPacket, TypeOK
    <2>2. d \in Child /\ Head(queue).pkt \in Packet
      BY <2>1 DEF Parcel
    <2>3. /\ outpipe' \in [Child -> Seq(Packet)]
          /\ \A c \in Child : Len(outpipe'[c]) <= PipeCap
      <3>1. CASE /\ Len(outpipe[d]) < PipeCap
                 /\ outpipe' = [outpipe EXCEPT ![d] = Append(@, Head(queue).pkt)]
        BY <2>2, <3>1, BoundAssumption DEF TypeOK
      <3>2. CASE outpipe' = outpipe
        BY <3>2 DEF TypeOK
      <3> QED
        BY <1>14, <3>1, <3>2 DEF SendPacket
    <2> QED
      BY <1>14, <2>1, <2>3 DEF SendPacket, TypeOK, childVars
  <1>15. ASSUME NEW d \in Child, VisitChild(d) PROVE Typed'
    <2>1. HandleChild(job.req, job.sender, d) \in Seq(Parcel)
      BY <1>15, HandleChildType DEF VisitChild, TypeOK, Parcels
    <2> QED
      BY <1>15, <2>1 DEF VisitChild, TypeOK, childVars, pipeVars
  <1>16. ASSUME Finalize PROVE Typed'
    <2> DEFINE s == job.sender
    <2>1. s \in Child /\ job.req \in Request
      BY <1>16 DEF Finalize, TypeOK
    <2>2. queue' \in Seq(Parcel)
      BY <1>16, <2>1, FinalizeQueue DEF Finalize, Parcels
    <2>3. raw_mode_cb' \subseteq Child
      BY <1>16, <2>1 DEF Finalize, TypeOK, Toggle
    <2> QED
      BY <1>16, <2>1, <2>2, <2>3 DEF Finalize, TypeOK, MasterPc, childVars, pipeVars
  <1>17. ASSUME Finish PROVE Typed'
    BY <1>17, NoReqType DEF Finish, TypeOK, MasterPc, NoJob, childVars, pipeVars
  <1>18. ASSUME NEW c \in Child, ReapChild(c) PROVE Typed'
    <2>1. <<>> \in Seq(Request) /\ Len(<<>>) <= PipeCap
      BY BoundAssumption
    <2> QED
      BY <1>18, <2>1 DEF ReapChild, TypeOK
  <1>19. ASSUME ReapDone PROVE Typed'
    BY <1>19 DEF ReapDone, TypeOK, MasterPc, childVars, pipeVars
  <1>20. ASSUME UNCHANGED vars PROVE Typed'
    BY <1>20 DEF TypeOK, vars, childVars, pipeVars, masterVars
  <1> QED
    BY <1>1, <1>2, <1>3, <1>4, <1>5, <1>6, <1>7, <1>8, <1>9, <1>10, <1>11, <1>12,
       <1>13, <1>14, <1>15, <1>16, <1>17, <1>18, <1>19, <1>20
    DEF Next, Master, ChildStep

\* Types hold in every reachable state; in particular no pipe is ever given
\* more packets than it has slots, by the child's write or by send_packet.
THEOREM TypeCorrect == Spec => []TypeOK
  <1>1. Typed => TypeOK
    BY DEF Typed
  <1> QED
    BY <1>1, TypedInit, TypedNext, PTL DEF Spec

-----------------------------------------------------------------------------
(***************************************************************************)
(* The master's bookkeeping: child_map, num_clients and the watchers.      *)
(***************************************************************************)

\* The child that new_connection_cb is about to insert has no entry yet.
Fresh == mpc = "insert" => job.sender \notin child_map

Books == Entered /\ Fresh /\ NoFreedEntry /\ ClientCount

LEMMA BooksInit == Init => Books
  <1> SUFFICES ASSUME Init PROVE Books
    OBVIOUS
  <1>1. Cardinality({}) = 0
    BY FS_EmptySet
  <1> QED
    BY <1>1 DEF Init, Books, Entered, Fresh, NoFreedEntry, ClientCount

\* What a step of the children, the kernel or the clock leaves alone.
LEMMA BooksFrame ==
    ASSUME Books,
           {c \in Child : pc[c] # "free"}' = {c \in Child : pc[c] # "free"},
           UNCHANGED <<mpc, child_map, num_clients, pending, job, queue>>
    PROVE  Books'
  BY DEF Books, Entered, Fresh, NoFreedEntry, ClientCount

LEMMA BooksNext == Typed /\ Typed' /\ Books /\ [Next]_vars => Books'
  <1> SUFFICES ASSUME Typed, Typed', Books, [Next]_vars PROVE Books'
    OBVIOUS
  <1> USE DEF Typed, Shape
  <1> DEFINE Live == {c \in Child : pc[c] # "free"}
  <1>1. ASSUME NEW c \in Child, NEW r \in Requests(c), SendMaster(c, r) PROVE Books'
    <2>1. Live' = Live
      BY <1>1 DEF SendMaster, TypeOK
    <2> QED
      BY <1>1, <2>1, BooksFrame DEF SendMaster, masterVars
  <1>2. ASSUME NEW c \in Child, WriteRequest(c) PROVE Books'
    <2>1. Live' = Live
      BY <1>2 DEF WriteRequest, TypeOK
    <2> QED
      BY <1>2, <2>1, BooksFrame DEF WriteRequest, masterVars
  <1>3. ASSUME NEW c \in Child, ClientRead(c) PROVE Books'
    <2>1. Live' = Live
      BY <1>3 DEF ClientRead, TypeOK
    <2> QED
      BY <1>3, <2>1, BooksFrame DEF ClientRead, masterVars
  <1>4. ASSUME NEW c \in Child, PollRequests(c) PROVE Books'
    <2>1. /\ pc[c] # "free"
          /\ \/ pc' = [pc EXCEPT ![c] = "ready"] \/ pc' = [pc EXCEPT ![c] = "exiting"]
             \/ pc' = pc
      BY <1>4 DEF PollRequests
    <2>2. Live' = Live
      BY <2>1 DEF TypeOK
    <2> QED
      BY <1>4, <2>2, BooksFrame DEF PollRequests, masterVars
  <1>5. ASSUME NEW c \in Child, SigChld(c) PROVE Books'
    <2>1. Live' = Live
      BY <1>5 DEF SigChld, TypeOK
    <2> QED
      BY <1>5, <2>1, BooksFrame DEF SigChld
  <1>6. ASSUME NEW c \in Child, Exit(c) PROVE Books'
    <2>1. Live' = Live
      BY <1>6 DEF Exit, TypeOK, Running
    <2> QED
      BY <1>6, <2>1, BooksFrame DEF Exit, masterVars
  <1>7. ASSUME Tick PROVE Books'
    BY <1>7, BooksFrame DEF Tick, masterVars
  <1>8. ASSUME EvPoll PROVE Books'
    BY <1>8 DEF EvPoll, Books, Entered, Fresh, NoFreedEntry, ClientCount, childVars
  <1>9. ASSUME NEW c \in Child, Fork(c) PROVE Books'
    <2>1. job'.sender = c
      BY <1>9 DEF Fork, NoJob
    <2>2. c \notin child_map
      BY <1>9 DEF Fork, Books, Entered
    <2>3. Entered'
      BY <1>9, <2>1 DEF Fork, Books, Entered, TypeOK
    <2>4. ClientCount'
      <3>1. Cardinality(child_map) \in Nat
        BY ChildAssumption, FS_Subset, FS_CardinalityType DEF TypeOK
      <3> QED
        BY <1>9, <3>1 DEF Fork, Books, ClientCount
    <2> QED
      BY <1>9, <2>1, <2>2, <2>3, <2>4 DEF Fork, Books, Fresh, NoFreedEntry
  <1>10. ASSUME InsertChild PROVE Books'
    <2>1. IsFiniteSet(child_map)
      BY ChildAssumption, FS_Subset DEF TypeOK
    <2>2. Cardinality(child_map') = Cardinality(child_map) + 1
      BY <1>10, <2>1, FS_AddElement DEF InsertChild, Books, Fresh
    <2>3. ClientCount'
      BY <1>10, <2>2 DEF InsertChild, Books, ClientCount
    <2> QED
      BY <1>10, <2>3 DEF InsertChild, Books, Entered, Fresh, NoFreedEntry, childVars
  <1>11. ASSUME EndRound PROVE Books'
    BY <1>11 DEF EndRound, Books, Entered, Fresh, NoFreedEntry, ClientCount, childVars
  <1>12. ASSUME NEW c \in Child, ReadRequest(c) PROVE Books'
    <2>1. c \in child_map
      BY <1>12 DEF ReadRequest, Books, NoFreedEntry
    <2>2. Head(readpipe[c]) \in Request
      BY <1>12 DEF ReadRequest, TypeOK
    <2>3. \A i \in 1..Len(queue') : queue'[i].to = c
      BY <1>12, <2>2, HandleChildType DEF ReadRequest
    <2>4. {job'.sender} \cup job'.rest \subseteq child_map
      BY <1>12, <2>1 DEF ReadRequest
    <2>5. NoFreedEntry'
      BY <1>12, <2>1, <2>3, <2>4 DEF ReadRequest, Books, NoFreedEntry
    <2> QED
      BY <1>12, <2>5 DEF ReadRequest, Books, Entered, Fresh, ClientCount, childVars
  <1>13. ASSUME NEW c \in Child, ReadEof(c) PROVE Books'
    BY <1>13 DEF ReadEof, Books, Entered, Fresh, NoFreedEntry, ClientCount, childVars
  <1>14. ASSUME SendPacket PROVE Books'
    <2>1. \A i \in 1..Len(queue') : queue'[i] = queue[i + 1] /\ i + 1 \in 1..Len(queue)
      BY <1>14 DEF SendPacket, TypeOK
    <2>2. NoFreedEntry'
      BY <1>14, <2>1 DEF SendPacket, Books, NoFreedEntry
    <2> QED
      BY <1>14, <2>2 DEF SendPacket, Books, Entered, Fresh, ClientCount, childVars
  <1>15. ASSUME NEW d \in Child, VisitChild(d) PROVE Books'
    <2>1. \A i \in 1..Len(queue') : queue'[i].to \in {job.sender, d}
      BY <1>15, HandleChildType DEF VisitChild, TypeOK
    <2>2. job'.sender = job.sender /\ job'.rest \subseteq job.rest
      BY <1>15 DEF VisitChild, TypeOK
    <2>3. NoFreedEntry'
      BY <1>15, <2>1, <2>2 DEF VisitChild, Books, NoFreedEntry
    <2> QED
      BY <1>15, <2>2, <2>3 DEF VisitChild, Books, Entered, Fresh, ClientCount, childVars
  <1>16. ASSUME Finalize PROVE Books'
    <2>1. \A i \in 1..Len(queue') : queue'[i].to = job.sender
      BY <1>16, FinalizeQueue DEF Finalize, TypeOK
    <2>2. NoFreedEntry'
      BY <1>16, <2>1 DEF Finalize, Books, NoFreedEntry
    <2> QED
      BY <1>16, <2>2 DEF Finalize, Books, Entered, Fresh, ClientCount, childVars
  <1>17. ASSUME Finish PROVE Books'
    BY <1>17 DEF Finish, Books, Entered, Fresh, NoFreedEntry, ClientCount, childVars
  <1>18. ASSUME NEW c \in Child, ReapChild(c) PROVE Books'
    <2>1. c \in child_map
      BY <1>18 DEF ReapChild, Books, Entered
    <2>2. IsFiniteSet(child_map)
      BY ChildAssumption, FS_Subset DEF TypeOK
    <2>3. Cardinality(child_map') = Cardinality(child_map) - 1
      BY <1>18, <2>1, <2>2, FS_RemoveElement DEF ReapChild
    <2>4. ClientCount'
      BY <1>18, <2>2, <2>3, FS_CardinalityType DEF ReapChild, Books, ClientCount
    <2>5. Entered'
      BY <1>18 DEF ReapChild, Books, Entered, TypeOK
    <2> QED
      BY <1>18, <2>4, <2>5 DEF ReapChild, Books, Fresh, NoFreedEntry
  <1>19. ASSUME ReapDone PROVE Books'
    BY <1>19 DEF ReapDone, Books, Entered, Fresh, NoFreedEntry, ClientCount, childVars
  <1>20. ASSUME UNCHANGED vars PROVE Books'
    BY <1>20, BooksFrame DEF vars, childVars, masterVars
  <1> QED
    BY <1>1, <1>2, <1>3, <1>4, <1>5, <1>6, <1>7, <1>8, <1>9, <1>10, <1>11, <1>12,
       <1>13, <1>14, <1>15, <1>16, <1>17, <1>18, <1>19, <1>20
    DEF Next, Master, ChildStep

\* Every process that waitpid can return has an entry (handle_disconnects
\* does not check), num_clients counts the entries, and no handler or watcher
\* works on an entry that was freed.
THEOREM BooksCorrect == Spec => [](Entered /\ ClientCount /\ NoFreedEntry)
  <1>1. Books => Entered /\ ClientCount /\ NoFreedEntry
    BY DEF Books
  <1> QED
    BY <1>1, TypedInit, TypedNext, BooksInit, BooksNext, PTL DEF Spec

\* num_clients is the number of entries, however new_connection_cb and
\* handle_disconnects take turns.
THEOREM ClientsCounted == Spec => []ClientCount
  <1> QED
    BY BooksCorrect, PTL

\* handle_child_req, its loops over child_map and childreq_cb only touch entries
\* that free_child_data has not freed.
THEOREM NothingFreed == Spec => []NoFreedEntry
  <1> QED
    BY BooksCorrect, PTL

-----------------------------------------------------------------------------
(***************************************************************************)
(* Framing: nobody blocks for ever in poll_requests.                       *)
(***************************************************************************)

\* Nothing lies in the pipes of a pid that is free, or in the outpipe of a
\* process that is gone.
Quiet ==
    \A c \in Child :
        /\ pc[c] = "free" => readpipe[c] = <<>>
        /\ pc[c] \notin Running => outpipe[c] = <<>>

\* A queued packet for a child other than the sender is, or is followed by,
\* a final one; the sender's comes with the end of the handler.
QueueFramed ==
    \A i \in 1..Len(queue) :
        \/ mpc = "serve" /\ queue[i].to = job.sender
        \/ \E j \in i..Len(queue) : queue[j].to = queue[i].to /\ Final(queue[j].pkt)

\* NoStrandedChild for one child.
Fed(c) ==
    /\ pc[c] = "waiting" => readpipe[c] # <<>> \/ outpipe[c] # <<>> \/ Owed(c)
    /\ pc[c] = "drain"   => outpipe[c] # <<>> \/ Owed(c)
    /\ outpipe[c] # <<>> => Final(outpipe[c][Len(outpipe[c])]) \/ Owed(c)

Frames == Quiet /\ QueueFramed /\ \A c \in Child : Fed(c)

LEMMA FramesInit == Init => Frames
  BY DEF Init, Frames, Quiet, QueueFramed, Fed

\* A step of child c alone: the other children and the queue are not touched.
LEMMA FramesChild ==
    ASSUME Frames, NEW c \in Child,
           UNCHANGED <<mpc, job, queue>>,
           \A d \in Child \ {c} : /\ pc'[d] = pc[d] /\ readpipe'[d] = readpipe[d]
                                  /\ outpipe'[d] = outpipe[d],
           pc'[c] # "free",
           pc'[c] \notin Running => outpipe'[c] = <<>>,
           Fed(c)'
    PROVE  Frames'
  <1>1. \A d \in Child \ {c} : Fed(d)'
    BY DEF Frames, Fed, Owed
  <1>2. QueueFramed'
    BY DEF Frames, QueueFramed
  <1>3. Quiet'
    BY DEF Frames, Quiet
  <1> QED
    BY <1>1, <1>2, <1>3 DEF Frames

\* A step of the master between two handlers.
LEMMA FramesLoop ==
    ASSUME Frames, queue = <<>>, queue' = <<>>, mpc # "serve", mpc' # "serve",
           UNCHANGED <<pc, readpipe, outpipe>>
    PROVE  Frames'
  <1>1. ASSUME NEW c \in Child PROVE ~Owed(c) /\ ~Owed(c)'
    BY DEF Owed
  <1>2. \A c \in Child : Fed(c)'
    BY <1>1 DEF Frames, Fed
  <1>3. QueueFramed' /\ Quiet'
    BY DEF Frames, QueueFramed, Quiet
  <1> QED
    BY <1>2, <1>3 DEF Frames

LEMMA FramesNext == Typed /\ Typed' /\ Books /\ Frames /\ [Next]_vars => Frames'
  <1> SUFFICES ASSUME Typed, Typed', Books, Frames, [Next]_vars PROVE Frames'
    OBVIOUS
  <1> USE DEF Typed
  <1>1. ASSUME NEW c \in Child, NEW r \in Requests(c), SendMaster(c, r) PROVE Frames'
    <2>1. Fed(c)'
      BY <1>1 DEF SendMaster, Frames, Fed, Owed, TypeOK, pipeVars, masterVars
    <2> QED
      BY <1>1, <2>1, FramesChild DEF SendMaster, TypeOK, Running, pipeVars, masterVars
  <1>2. ASSUME NEW c \in Child, WriteRequest(c) PROVE Frames'
    <2>1. readpipe'[c] # <<>>
      <3>1. readpipe'[c] = Append(readpipe[c], cur[c])
        BY <1>2 DEF WriteRequest, TypeOK
      <3>2. readpipe[c] \in Seq(Request) /\ cur[c] \in Request
        BY DEF TypeOK
      <3> QED
        BY <3>1, <3>2, AppendLast
    <2>2. Fed(c)'
      BY <1>2, <2>1 DEF WriteRequest, Frames, Fed, Owed, TypeOK, masterVars
    <2> QED
      BY <1>2, <2>2, FramesChild DEF WriteRequest, TypeOK, Running, masterVars
  <1>3. ASSUME NEW c \in Child, ClientRead(c) PROVE Frames'
    <2>1. Fed(c)'
      BY <1>3 DEF ClientRead, Frames, Fed, Owed, TypeOK, pipeVars, masterVars
    <2> QED
      BY <1>3, <2>1, FramesChild DEF ClientRead, TypeOK, Running, pipeVars, masterVars
  <1>4. ASSUME NEW c \in Child, PollRequests(c) PROVE Frames'
    <2> DEFINE o == outpipe[c]
    <2>1. /\ o \in Seq(Packet) /\ o # <<>> /\ Len(o) \in Nat \ {0}
          /\ pc[c] \in {"waiting", "drain"}
      BY <1>4 DEF PollRequests, TypeOK
    <2>2. /\ Tail(o) # <<>> => Tail(o)[Len(Tail(o))] = o[Len(o)]
          /\ Tail(o) = <<>> => o[Len(o)] = Head(o)
      BY <2>1, TailLast
    <2>3. UNCHANGED <<mpc, job, queue, readpipe>>
      BY <1>4 DEF PollRequests, masterVars
    <2>4. Owed(c)' <=> Owed(c)
      BY <2>3 DEF Owed
    <2>5. CASE Head(o).cmd = "ALLDONE"
      <3>1. /\ pc' = [pc EXCEPT ![c] = "ready"]
            /\ outpipe' = [outpipe EXCEPT ![c] = Tail(@)]
        BY <1>4, <2>5 DEF PollRequests
      <3>2. Fed(c)'
        BY <2>2, <2>4, <3>1 DEF Frames, Fed, TypeOK
      <3> QED
        BY <2>3, <3>1, <3>2, FramesChild DEF TypeOK, Running
    <2>6. CASE Head(o).cmd = "KICK"
      <3>1. /\ pc' = [pc EXCEPT ![c] = "exiting"]
            /\ outpipe' = [outpipe EXCEPT ![c] = <<>>]
        BY <1>4, <2>6 DEF PollRequests
      <3>2. Fed(c)'
        BY <3>1 DEF Fed, TypeOK
      <3> QED
        BY <2>3, <3>1, <3>2, FramesChild DEF TypeOK
    <2>7. CASE Head(o).cmd \notin {"ALLDONE", "KICK"}
      <3>1. pc' = pc /\ outpipe' = [outpipe EXCEPT ![c] = Tail(@)]
        BY <1>4, <2>7 DEF PollRequests
      <3>2. outpipe'[c] = Tail(o)
        BY <3>1 DEF TypeOK
      <3>3. CASE Tail(o) = <<>>
        <4>1. Owed(c)'
          BY <2>1, <2>2, <2>4, <2>7, <3>3 DEF Frames, Fed, Final
        <4> QED
          BY <3>1, <3>2, <3>3, <4>1, <2>1, <2>3, FramesChild DEF Fed, TypeOK, Running
      <3>4. CASE Tail(o) # <<>>
        <4>1. Fed(c)'
          BY <2>1, <2>2, <2>4, <3>1, <3>2, <3>4 DEF Frames, Fed
        <4> QED
          BY <2>1, <2>3, <3>1, <4>1, FramesChild DEF TypeOK, Running
      <3> QED
        BY <3>3, <3>4
    <2> QED
      BY <2>5, <2>6, <2>7
  <1>5. ASSUME NEW c \in Child, SigChld(c) PROVE Frames'
    <2>1. outpipe[c] = <<>>
      BY <1>5 DEF SigChld, Frames, Quiet, Running
    <2>2. Fed(c)'
      BY <1>5, <2>1 DEF SigChld, Fed, TypeOK, pipeVars
    <2> QED
      BY <1>5, <2>1, <2>2, FramesChild DEF SigChld, TypeOK, pipeVars
  <1>6. ASSUME NEW c \in Child, Exit(c) PROVE Frames'
    <2>1. Fed(c)'
      BY <1>6 DEF Exit, Fed, TypeOK
    <2> QED
      BY <1>6, <2>1, FramesChild DEF Exit, TypeOK, masterVars
  <1>7. ASSUME Tick PROVE Frames'
    BY <1>7 DEF Tick, Frames, Quiet, QueueFramed, Fed, Owed, pipeVars, masterVars
  <1>8. ASSUME EvPoll PROVE Frames'
    BY <1>8, FramesLoop DEF EvPoll, Shape, childVars, pipeVars
  <1>9. ASSUME NEW c \in Child, Fork(c) PROVE Frames'
    <2>1. queue = <<>> /\ queue' = <<>>
      BY <1>9 DEF Fork, Shape
    <2>2. \A d \in Child : ~Owed(d) /\ ~Owed(d)'
      BY <1>9, <2>1 DEF Fork, Owed
    <2>3. outpipe[c] = <<>>
      BY <1>9 DEF Fork, Frames, Quiet, Running
    <2>4. \A d \in Child : Fed(d)'
      BY <1>9, <2>2, <2>3 DEF Fork, Frames, Fed, TypeOK, pipeVars
    <2>5. Quiet' /\ QueueFramed'
      BY <1>9, <2>1 DEF Fork, Frames, Quiet, QueueFramed, TypeOK, Running, pipeVars
    <2> QED
      BY <2>4, <2>5 DEF Frames
  <1>10. ASSUME InsertChild PROVE Frames'
    BY <1>10, FramesLoop DEF InsertChild, Shape, childVars, pipeVars
  <1>11. ASSUME EndRound PROVE Frames'
    BY <1>11, FramesLoop DEF EndRound, Shape, childVars, pipeVars
  <1>12. ASSUME NEW c \in Child, ReadRequest(c) PROVE Frames'
    <2>1. \A d \in Child : ~Owed(d)
      BY <1>12 DEF ReadRequest, Shape, Owed
    <2>2. mpc' = "serve" /\ job'.sender = c
      BY <1>12 DEF ReadRequest
    <2>3. Owed(c)'
      BY <2>2 DEF Owed
    <2>4. \A d \in Child : Fed(d)'
      BY <1>12, <2>1, <2>3 DEF ReadRequest, Frames, Fed, TypeOK, childVars
    <2>5. Head(readpipe[c]) \in Request
      BY <1>12 DEF ReadRequest, TypeOK
    <2>6. \A i \in 1..Len(queue') : queue'[i].to = c
      BY <1>12, <2>5, HandleChildType DEF ReadRequest
    <2>7. QueueFramed'
      BY <2>2, <2>6 DEF QueueFramed
    <2>8. readpipe[c] # <<>> /\ pc[c] # "free"
      BY <1>12 DEF ReadRequest, Frames, Quiet
    <2>9. Quiet'
      BY <1>12, <2>8 DEF ReadRequest, Frames, Quiet, TypeOK, childVars
    <2> QED
      BY <2>4, <2>7, <2>9 DEF Frames
  <1>13. ASSUME NEW c \in Child, ReadEof(c) PROVE Frames'
    BY <1>13, FramesLoop DEF ReadEof, Shape, childVars, pipeVars
  <1>14. ASSUME SendPacket PROVE Frames'
    <2>0. PICK h \in Parcel, d \in Child : h = Head(queue) /\ d = h.to
      <3>1. Head(queue) \in Parcel
        BY <1>14 DEF SendPacket, TypeOK
      <3>2. Head(queue).to \in Child
        BY <3>1 DEF Parcel
      <3> QED
        BY <3>1, <3>2
    <2>1. /\ queue \in Seq(Parcel) /\ queue # <<>> /\ queue' = Tail(queue)
          /\ UNCHANGED <<mpc, job, pc, readpipe>>
      BY <1>14 DEF SendPacket, TypeOK, childVars
    <2>2. /\ h = queue[1] /\ Len(queue') = Len(queue) - 1 /\ Len(queue) \in Nat \ {0}
          /\ \A i \in 1..Len(queue') : queue'[i] = queue[i + 1]
          /\ \A i \in 2..Len(queue) : queue'[i - 1] = queue[i]
      <3>1. /\ h = queue[1] /\ Len(queue') = Len(queue) - 1 /\ Len(queue) \in Nat \ {0}
            /\ \A i \in 1..Len(queue') : queue'[i] = queue[i + 1]
        BY <2>0, <2>1
      <3>2. ASSUME NEW i \in 2..Len(queue)
            PROVE  i - 1 \in 1..Len(queue') /\ (i - 1) + 1 = i
        BY <3>1
      <3> QED
        BY <3>1, <3>2
    <2>3. h \in Parcel /\ d \in Child /\ h.pkt \in Packet
      BY DEF Parcel
    <2>4. QueueFramed'
      <3> SUFFICES ASSUME NEW i \in 1..Len(queue')
                   PROVE  \/ mpc' = "serve" /\ queue'[i].to = job'.sender
                          \/ \E j \in i..Len(queue') :
                                queue'[j].to = queue'[i].to /\ Final(queue'[j].pkt)
        BY DEF QueueFramed
      <3>1. i + 1 \in 1..Len(queue) /\ queue'[i] = queue[i + 1]
        BY <2>2
      <3>2. CASE mpc = "serve" /\ queue[i + 1].to = job.sender
        BY <2>1, <3>1, <3>2
      <3>3. CASE \E j \in (i + 1)..Len(queue) :
                    queue[j].to = queue[i + 1].to /\ Final(queue[j].pkt)
        <4>1. PICK j \in (i + 1)..Len(queue) :
                     queue[j].to = queue[i + 1].to /\ Final(queue[j].pkt)
          BY <3>3
        <4>2. j - 1 \in i..Len(queue') /\ queue'[j - 1] = queue[j]
          BY <2>2, <4>1
        <4> QED
          BY <3>1, <4>1, <4>2
      <3> QED
        BY <3>1, <3>2, <3>3 DEF Frames, QueueFramed
    <2>5. ASSUME NEW c \in Child, Owed(c), ~Owed(c)'
          PROVE  c = d /\ Final(h.pkt)
      <3>1. ~(mpc = "serve" /\ job.sender = c)
        BY <2>1, <2>5 DEF Owed
      <3>2. PICK i \in 1..Len(queue) : queue[i].to = c /\ Final(queue[i].pkt)
        BY <2>5, <3>1 DEF Owed
      <3>3. CASE i = 1
        BY <2>0, <2>2, <3>2, <3>3
      <3>4. CASE i # 1
        <4>1. i - 1 \in 1..Len(queue') /\ queue'[i - 1] = queue[i]
          BY <2>2, <3>4
        <4> QED
          BY <2>5, <3>2, <4>1 DEF Owed
      <3> QED
        BY <3>3, <3>4
    <2>6. ASSUME ~Final(h.pkt) PROVE Owed(d)'
      <3>1. CASE mpc = "serve" /\ h.to = job.sender
        BY <2>0, <2>1, <3>1 DEF Owed
      <3>2. CASE \E j \in 1..Len(queue) : queue[j].to = d /\ Final(queue[j].pkt)
        <4>1. PICK j \in 1..Len(queue) : queue[j].to = d /\ Final(queue[j].pkt)
          BY <3>2
        <4>2. j # 1
          BY <2>2, <2>6, <4>1
        <4>3. j - 1 \in 1..Len(queue') /\ queue'[j - 1] = queue[j]
          BY <2>2, <4>2
        <4> QED
          BY <4>1, <4>3 DEF Owed
      <3> QED
        BY <2>0, <2>2, <3>1, <3>2 DEF Frames, QueueFramed
    <2>7. CASE pc[d] \in Running
      <3>1. outpipe' = [outpipe EXCEPT ![d] = Append(@, h.pkt)]
        BY <1>14, <2>0, <2>7 DEF SendPacket
      <3>2. /\ outpipe'[d] = Append(outpipe[d], h.pkt) /\ outpipe[d] \in Seq(Packet)
            /\ \A c \in Child \ {d} : outpipe'[c] = outpipe[c]
        BY <3>1 DEF TypeOK
      <3>2a. outpipe'[d] # <<>> /\ outpipe'[d][Len(outpipe'[d])] = h.pkt
        BY <2>3, <3>2, AppendLast
      <3>3. Fed(d)'
        BY <2>6, <3>2a DEF Fed
      <3>4. ASSUME NEW c \in Child, c # d PROVE Fed(c)'
        BY <2>1, <2>5, <3>2, <3>4 DEF Frames, Fed
      <3>5. Quiet'
        BY <2>1, <2>7, <3>2 DEF Frames, Quiet, Running
      <3> QED
        BY <2>4, <3>3, <3>4, <3>5 DEF Frames
    <2>8. CASE pc[d] \notin Running
      <3>1. outpipe' = outpipe
        BY <1>14, <2>0, <2>8 DEF SendPacket
      <3>2. outpipe[d] = <<>>
        BY <2>3, <2>8 DEF Frames, Quiet
      <3>3. Fed(d)'
        BY <2>1, <2>8, <3>1, <3>2 DEF Fed, Running
      <3>4. ASSUME NEW c \in Child, c # d PROVE Fed(c)'
        BY <2>1, <2>5, <3>1, <3>4 DEF Frames, Fed
      <3>5. Quiet'
        BY <2>1, <3>1 DEF Frames, Quiet
      <3> QED
        BY <2>4, <3>3, <3>4, <3>5 DEF Frames
    <2> QED
      BY <2>7, <2>8
  <1>15. ASSUME NEW d \in Child, VisitChild(d) PROVE Frames'
    <2>1. /\ mpc = "serve" /\ mpc' = "serve" /\ job'.sender = job.sender
          /\ job.sender \in Child /\ job.req \in Request /\ queue = <<>>
          /\ queue' = HandleChild(job.req, job.sender, d)
          /\ UNCHANGED <<pc, readpipe, outpipe>>
      BY <1>15 DEF VisitChild, TypeOK, Shape, childVars, pipeVars
    <2>2. \A c \in Child : Owed(c) => Owed(c)'
      BY <2>1 DEF Owed
    <2>3. \A c \in Child : Fed(c)'
      BY <2>1, <2>2 DEF Frames, Fed
    <2>4. QueueFramed'
      BY <2>1, HandleChildFramed DEF QueueFramed
    <2> QED
      BY <2>1, <2>3, <2>4 DEF Frames, Quiet
  <1>16. ASSUME Finalize PROVE Frames'
    <2> DEFINE n == Len(queue')
    <2>0. PICK s : s = job.sender
      OBVIOUS
    <2>1. /\ mpc = "serve" /\ s \in Child /\ job.req \in Request /\ queue = <<>>
          /\ UNCHANGED <<job, pc, readpipe, outpipe>>
      BY <1>16, <2>0 DEF Finalize, TypeOK, Shape, childVars, pipeVars
    <2>2. /\ queue' \in Parcels /\ n > 0 /\ queue'[n] = To(s, "ALLDONE", none)
          /\ \A i \in 1..n : queue'[i].to = s
      BY <1>16, <2>0, <2>1, FinalizeQueue DEF Finalize
    <2>3. n \in 1..n /\ queue'[n].to = s /\ Final(queue'[n].pkt)
      BY <2>2 DEF To, Final, Parcels
    <2>4. Owed(s)' /\ \A c \in Child : Owed(c) => c = s
      BY <2>0, <2>1, <2>3 DEF Owed
    <2>5. \A c \in Child : Fed(c)'
      BY <2>1, <2>4 DEF Frames, Fed
    <2>6. QueueFramed'
      <3> SUFFICES ASSUME NEW i \in 1..n
                   PROVE  \E j \in i..n : queue'[j].to = queue'[i].to /\ Final(queue'[j].pkt)
        BY DEF QueueFramed
      <3>1. n \in i..n
        BY <2>2 DEF Parcels
      <3> QED
        BY <2>2, <2>3, <3>1
    <2> QED
      BY <2>1, <2>5, <2>6 DEF Frames, Quiet
  <1>17. ASSUME Finish PROVE Frames'
    BY <1>17, FramesLoop DEF Finish, Shape, childVars, pipeVars
  <1>18. ASSUME NEW c \in Child, ReapChild(c) PROVE Frames'
    <2>1. queue = <<>> /\ queue' = <<>> /\ mpc = "reap" /\ mpc' = "reap"
      BY <1>18 DEF ReapChild, Shape
    <2>2. \A d \in Child : ~Owed(d) /\ ~Owed(d)'
      BY <2>1 DEF Owed
    <2>3. outpipe[c] = <<>>
      BY <1>18 DEF ReapChild, Frames, Quiet, Running
    <2>4. /\ pc' = [pc EXCEPT ![c] = "free"] /\ outpipe' = outpipe
          /\ readpipe' = [readpipe EXCEPT ![c] = <<>>]
      BY <1>18 DEF ReapChild
    <2>5. \A d \in Child : Fed(d)'
      BY <2>2, <2>3, <2>4 DEF Frames, Fed, TypeOK
    <2>6. Quiet' /\ QueueFramed'
      BY <2>1, <2>3, <2>4 DEF Frames, Quiet, QueueFramed, TypeOK
    <2> QED
      BY <2>5, <2>6 DEF Frames
  <1>19. ASSUME ReapDone PROVE Frames'
    BY <1>19, FramesLoop DEF ReapDone, Shape, childVars, pipeVars
  <1>20. ASSUME UNCHANGED vars PROVE Frames'
    BY <1>20 DEF Frames, Quiet, QueueFramed, Fed, Owed, vars, childVars, pipeVars, masterVars
  <1> QED
    BY <1>1, <1>2, <1>3, <1>4, <1>5, <1>6, <1>7, <1>8, <1>9, <1>10, <1>11, <1>12,
       <1>13, <1>14, <1>15, <1>16, <1>17, <1>18, <1>19, <1>20
    DEF Next, Master, ChildStep

\* A child that blocks in poll_requests, from send_master or from client_read,
\* always has a packet ahead of it that lets it return or makes it exit.
THEOREM NobodyStranded == Spec => []NoStrandedChild
  <1>1. Frames => NoStrandedChild
    BY DEF Frames, Fed, NoStrandedChild
  <1> QED
    BY <1>1, TypedInit, TypedNext, BooksInit, BooksNext, FramesInit, FramesNext, PTL
    DEF Spec

-----------------------------------------------------------------------------
(***************************************************************************)
(* The rate limit keeps the pipe to the master from filling up.            *)
(***************************************************************************)

\* What the clock grants, without the multiplication.
LEMMA Allowance ==
    ASSUME Typed
    PROVE  /\ RateLimit * now \in Nat
           /\ RateLimit * (now + 1) = RateLimit * now + RateLimit
           /\ RateLimit * now <= RateLimit * MaxTime
           /\ RateLimit * (MaxTime + 1) = RateLimit * MaxTime + RateLimit
           /\ RateLimit * MaxTime \in Nat
  <1>1. ASSUME NEW a \in Nat, NEW n \in Nat, NEW m \in Nat, n <= m
        PROVE  /\ a * n \in Nat /\ a * (n + 1) = a * n + a
               /\ a * n <= a * m /\ a * (m + 1) = a * m + a /\ a * m \in Nat
    <2>1. /\ a * n \in Nat /\ a * m \in Nat
          /\ a * (n + 1) = a * n + a /\ a * (m + 1) = a * m + a
      OBVIOUS
    <2>2. a * (m - n) \in Nat /\ a * m = a * n + a * (m - n)
      BY <1>1
    <2> QED
      BY <2>1, <2>2
  <1>2. RateLimit \in Nat /\ now \in Nat /\ MaxTime \in Nat /\ now <= MaxTime
    BY BoundAssumption DEF Typed, TypeOK
  <1> QED
    BY <1>1, <1>2

\* A step after which no child has a larger backlog or a smaller allowance.
LEMMA AllowanceFrame ==
    ASSUME Typed, Typed', WithinAllowance,
           now' = now, UNCHANGED reqs_since_ts,
           \A c \in Child : pc'[c] \in Running =>
              pc[c] \in Running /\ Backlog(c)' <= Backlog(c)
    PROVE  WithinAllowance'
  <1> SUFFICES ASSUME NEW c \in Child \ Admins, pc'[c] \in Running
               PROVE  Backlog(c)' <= RateLimit * now' + reqs_since_ts'[c]
    BY DEF WithinAllowance
  <1>1. Backlog(c) <= RateLimit * now + reqs_since_ts[c] /\ Backlog(c)' <= Backlog(c)
    BY DEF WithinAllowance
  <1>2. Backlog(c) \in Int /\ Backlog(c)' \in Int
    BY DEF Backlog, Typed, TypeOK
  <1>3. reqs_since_ts[c] \in Int /\ RateLimit * now \in Int
    BY Allowance DEF Typed, TypeOK
  <1> QED
    BY <1>1, <1>2, <1>3

LEMMA AllowanceInit == Init => WithinAllowance
  BY DEF Init, WithinAllowance, Running

LEMMA AllowanceNext ==
    Typed /\ Typed' /\ Frames /\ WithinAllowance /\ [Next]_vars => WithinAllowance'
  <1> SUFFICES ASSUME Typed, Typed', Frames, WithinAllowance, [Next]_vars
               PROVE  WithinAllowance'
    OBVIOUS
  <1> DEFINE Granted(c) == RateLimit * now + reqs_since_ts[c]
  <1>0. /\ pc \in [Child -> Running \cup Dead \cup {"free"}]
        /\ reqs_since_ts \in [Child -> Nat] /\ RateLimit * now \in Nat
        /\ readpipe \in [Child -> Seq(Request)]
        /\ \A c \in Child : Len(readpipe[c]) \in Nat
    BY Allowance, BoundAssumption DEF Typed, TypeOK
  <1>1. ASSUME NEW c \in Child, NEW r \in Requests(c), SendMaster(c, r)
        PROVE  WithinAllowance'
    <2>1. /\ pc' = [pc EXCEPT ![c] = "sending"] /\ readpipe' = readpipe /\ now' = now
          /\ pc[c] = "ready"
          /\ c \notin Admins => reqs_since_ts' = [reqs_since_ts EXCEPT ![c] = @ + 1]
          /\ c \in Admins => reqs_since_ts' = reqs_since_ts
      BY <1>1 DEF SendMaster, pipeVars
    <2> SUFFICES ASSUME NEW d \in Child \ Admins, pc'[d] \in Running
                 PROVE  Backlog(d)' <= RateLimit * now + reqs_since_ts'[d]
      BY <2>1 DEF WithinAllowance
    <2>2. CASE d = c
      <3>1. Backlog(c) <= RateLimit * now + reqs_since_ts[c]
        BY <2>1, <2>2 DEF WithinAllowance, Running
      <3>2. Len(readpipe[c]) <= RateLimit * now + reqs_since_ts[c]
        BY <1>0, <2>1, <3>1 DEF Backlog
      <3>3. Backlog(c)' = Len(readpipe[c]) + 1
        BY <1>0, <2>1 DEF Backlog
      <3>4. reqs_since_ts'[c] = reqs_since_ts[c] + 1
        BY <1>0, <2>1, <2>2
      <3> QED
        BY <1>0, <2>2, <3>2, <3>3, <3>4
    <2>3. CASE d # c
      <3>1. pc'[d] = pc[d] /\ reqs_since_ts'[d] = reqs_since_ts[d]
        BY <1>0, <2>1, <2>3
      <3> QED
        BY <2>1, <3>1 DEF WithinAllowance, Backlog
    <2> QED
      BY <2>2, <2>3
  <1>2. ASSUME NEW c \in Child, WriteRequest(c) PROVE WithinAllowance'
    <2>1. /\ pc[c] = "sending" /\ pc' = [pc EXCEPT ![c] = "waiting"]
          /\ readpipe' = [readpipe EXCEPT ![c] = Append(@, cur[c])]
          /\ now' = now /\ UNCHANGED reqs_since_ts
      BY <1>2 DEF WriteRequest
    <2>2. Len(Append(readpipe[c], cur[c])) = Len(readpipe[c]) + 1
      BY <1>0, AppendLast DEF Typed, TypeOK
    <2>3. ASSUME NEW d \in Child, pc'[d] \in Running
          PROVE  pc[d] \in Running /\ Backlog(d)' <= Backlog(d)
      <3>1. CASE d = c
        <4>1. pc'[c] = "waiting" /\ readpipe'[c] = Append(readpipe[c], cur[c])
          BY <1>0, <2>1
        <4>2. Backlog(c)' = Len(readpipe[c]) + 1 /\ Backlog(c) = Len(readpipe[c]) + 1
          BY <1>0, <2>1, <2>2, <4>1 DEF Backlog
        <4> QED
          BY <1>0, <2>1, <3>1, <4>2 DEF Running
      <3>2. CASE d # c
        <4>1. pc'[d] = pc[d] /\ readpipe'[d] = readpipe[d]
          BY <1>0, <2>1, <3>2
        <4> QED
          BY <1>0, <2>3, <4>1 DEF Backlog
      <3> QED
        BY <3>1, <3>2
    <2> QED
      BY <2>1, <2>3, AllowanceFrame
  <1>3. ASSUME NEW c \in Child, ClientRead(c) PROVE WithinAllowance'
    <2>1. ASSUME NEW d \in Child, pc'[d] \in Running
          PROVE  pc[d] \in Running /\ Backlog(d)' <= Backlog(d)
      BY <1>0, <1>3, <2>1 DEF ClientRead, Backlog, Running, pipeVars
    <2> QED
      BY <1>3, <2>1, AllowanceFrame DEF ClientRead
  <1>4. ASSUME NEW c \in Child, PollRequests(c) PROVE WithinAllowance'
    <2>1. /\ pc[c] \in {"waiting", "drain"} /\ now' = now /\ readpipe' = readpipe
          /\ \/ pc' = [pc EXCEPT ![c] = "ready"] /\ UNCHANGED reqs_since_ts
             \/ /\ pc' = [pc EXCEPT ![c] = "exiting"]
                /\ reqs_since_ts' = [reqs_since_ts EXCEPT ![c] = 0]
             \/ UNCHANGED <<pc, reqs_since_ts>>
      BY <1>4 DEF PollRequests
    <2>2. ASSUME NEW d \in Child \ Admins, pc'[d] \in Running
          PROVE  Backlog(d)' <= RateLimit * now + reqs_since_ts'[d]
      <3>1. /\ pc[d] \in Running /\ reqs_since_ts'[d] = reqs_since_ts[d]
            /\ pc'[d] = "sending" => pc[d] = "sending"
        BY <1>0, <2>1, <2>2 DEF Running
      <3>2. Backlog(d)' <= Backlog(d)
        BY <1>0, <2>1, <3>1 DEF Backlog
      <3>3. Backlog(d) <= RateLimit * now + reqs_since_ts[d]
        BY <3>1 DEF WithinAllowance
      <3> QED
        BY <1>0, <3>1, <3>2, <3>3, <2>1 DEF Backlog
    <2> QED
      BY <2>1, <2>2 DEF WithinAllowance
  <1>5. ASSUME NEW c \in Child, SigChld(c) PROVE WithinAllowance'
    <2>1. ASSUME NEW d \in Child, pc'[d] \in Running
          PROVE  pc[d] \in Running /\ Backlog(d)' <= Backlog(d)
      BY <1>0, <1>5, <2>1 DEF SigChld, Backlog, Running, pipeVars
    <2> QED
      BY <1>5, <2>1, AllowanceFrame DEF SigChld
  <1>6. ASSUME NEW c \in Child, Exit(c) PROVE WithinAllowance'
    <2>1. /\ pc' = [pc EXCEPT ![c] = "exiting"] /\ now' = now /\ readpipe' = readpipe
          /\ reqs_since_ts' = [reqs_since_ts EXCEPT ![c] = 0]
      BY <1>6 DEF Exit
    <2>2. ASSUME NEW d \in Child \ Admins, pc'[d] \in Running
          PROVE  Backlog(d)' <= RateLimit * now + reqs_since_ts'[d]
      <3>1. pc'[d] = pc[d] /\ reqs_since_ts'[d] = reqs_since_ts[d]
        BY <1>0, <2>1, <2>2 DEF Running
      <3> QED
        BY <2>1, <2>2, <3>1 DEF WithinAllowance, Backlog
    <2> QED
      BY <2>1, <2>2 DEF WithinAllowance
  <1>7. ASSUME Tick PROVE WithinAllowance'
    <2>1. /\ now' = now + 1 /\ reqs_since_ts' = [c \in Child |-> 0]
          /\ pc' = pc /\ readpipe' = readpipe
      BY <1>7 DEF Tick, pipeVars
    <2>2. ASSUME NEW c \in Child \ Admins, pc[c] \in Running
          PROVE  Backlog(c) <= RateLimit * (now + 1)
      <3>1. Backlog(c) <= RateLimit * now + reqs_since_ts[c]
        BY <2>2 DEF WithinAllowance
      <3>2. reqs_since_ts[c] <= RateLimit /\ RateLimit \in Nat
        BY BoundAssumption DEF Typed, TypeOK
      <3>3. RateLimit * (now + 1) = RateLimit * now + RateLimit
        BY Allowance
      <3> HIDE DEF Granted
      <3> QED
        BY <1>0, <3>1, <3>2, <3>3 DEF Backlog
    <2>3. RateLimit * (now + 1) + 0 = RateLimit * (now + 1)
      BY <1>0, Allowance, BoundAssumption
    <2> QED
      BY <2>1, <2>2, <2>3 DEF WithinAllowance, Backlog
  <1>8. ASSUME NEW c \in Child, Fork(c) PROVE WithinAllowance'
    <2>1. /\ pc' = [pc EXCEPT ![c] = "ready"] /\ now' = now
          /\ UNCHANGED <<readpipe, reqs_since_ts>> /\ pc[c] = "free"
      BY <1>8 DEF Fork, pipeVars
    <2>2. readpipe[c] = <<>>
      BY <2>1 DEF Frames, Quiet
    <2>3. ASSUME NEW d \in Child \ Admins, pc'[d] \in Running
          PROVE  Backlog(d)' <= RateLimit * now + reqs_since_ts[d]
      <3>1. CASE d = c
        <4>1. Backlog(d)' = 0
          BY <1>0, <2>1, <2>2, <3>1 DEF Backlog
        <4> QED
          BY <1>0, <4>1
      <3>2. CASE d # c
        <4>1. pc'[d] = pc[d]
          BY <1>0, <2>1, <3>2
        <4> QED
          BY <2>1, <2>3, <4>1 DEF WithinAllowance, Backlog
      <3> QED
        BY <3>1, <3>2
    <2> QED
      BY <2>1, <2>3 DEF WithinAllowance
  <1>9. ASSUME NEW c \in Child, ReadRequest(c) PROVE WithinAllowance'
    <2>1. /\ readpipe' = [readpipe EXCEPT ![c] = Tail(@)] /\ readpipe[c] # <<>>
          /\ UNCHANGED <<pc, reqs_since_ts>> /\ now' = now
      BY <1>9 DEF ReadRequest, childVars
    <2>2. Len(Tail(readpipe[c])) <= Len(readpipe[c]) /\ Len(Tail(readpipe[c])) \in Nat
      BY <1>0, <2>1
    <2>3. ASSUME NEW d \in Child, pc'[d] \in Running
          PROVE  pc[d] \in Running /\ Backlog(d)' <= Backlog(d)
      BY <1>0, <2>1, <2>2, <2>3 DEF Backlog
    <2> QED
      BY <2>1, <2>3, AllowanceFrame
  <1>10. ASSUME NEW c \in Child, ReapChild(c) PROVE WithinAllowance'
    <2>1. /\ pc' = [pc EXCEPT ![c] = "free"]
          /\ readpipe' = [readpipe EXCEPT ![c] = <<>>]
          /\ UNCHANGED reqs_since_ts /\ now' = now
      BY <1>10 DEF ReapChild
    <2>2. ASSUME NEW d \in Child, pc'[d] \in Running
          PROVE  pc[d] \in Running /\ Backlog(d)' <= Backlog(d)
      <3>1. d # c
        BY <1>0, <2>1, <2>2 DEF Running
      <3>2. pc'[d] = pc[d] /\ readpipe'[d] = readpipe[d]
        BY <1>0, <2>1, <3>1
      <3> QED
        BY <1>0, <2>2, <3>2 DEF Backlog
    <2> QED
      BY <2>1, <2>2, AllowanceFrame
  <1>11. ASSUME UNCHANGED <<pc, readpipe, reqs_since_ts, now>> PROVE WithinAllowance'
    BY <1>11 DEF WithinAllowance, Backlog
  <1>12. \/ EvPoll \/ InsertChild \/ EndRound \/ SendPacket \/ Finalize \/ Finish
         \/ ReapDone \/ UNCHANGED vars
         \/ \E c \in Child : ReadEof(c) \/ VisitChild(c)
         => UNCHANGED <<pc, readpipe, reqs_since_ts, now>>
    BY DEF EvPoll, InsertChild, EndRound, SendPacket, Finalize, Finish, ReapDone,
           ReadEof, VisitChild, vars, childVars, pipeVars
  <1> QED
    BY <1>1, <1>2, <1>3, <1>4, <1>5, <1>6, <1>7, <1>8, <1>9, <1>10, <1>11, <1>12
    DEF Next, Master, ChildStep

\* What non-admin children have written and the master has not read stays
\* within what send_master's counter has let through.
THEOREM AllowanceKept == Spec => []WithinAllowance
  BY TypedInit, TypedNext, BooksInit, BooksNext, FramesInit, FramesNext,
     AllowanceInit, AllowanceNext, PTL DEF Spec
=============================================================================
