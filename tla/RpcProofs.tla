----------------------------- MODULE RpcProofs -----------------------------
(***************************************************************************)
(* Machine-checked proofs about what send_master promises a child: the two *)
(* copies of the raw mode agree, and without broadcasts every call returns *)
(* after the master has executed it, which is what Rpc specifies.          *)
(***************************************************************************)
EXTENDS IpcProofs

-----------------------------------------------------------------------------
(***************************************************************************)
(* Counting packets in pipes and queues.                                   *)
(***************************************************************************)

\* The places of q that hold a member of M, and how many there are.
Hits(q, M) == {i \in 1..Len(q) : q[i] \in M}
Count(q, M) == Cardinality(Hits(q, M))

LEMMA CountType ==
    ASSUME NEW S, NEW q \in Seq(S), NEW M
    PROVE  IsFiniteSet(Hits(q, M)) /\ Count(q, M) \in Nat
  <1>1. Len(q) \in Int /\ 1 \in Int
    OBVIOUS
  <1>2. IsFiniteSet(1..Len(q))
    BY <1>1, FS_Interval
  <1>3. Hits(q, M) \in SUBSET (1..Len(q))
    BY DEF Hits
  <1>4. IsFiniteSet(Hits(q, M))
    BY <1>2, <1>3, FS_Subset
  <1> QED
    BY <1>4, FS_CardinalityType DEF Count

\* No member of M in q.
LEMMA CountNone ==
    ASSUME NEW q, NEW M, \A i \in 1..Len(q) : q[i] \notin M
    PROVE  Count(q, M) = 0
  <1>1. Hits(q, M) = {}
    BY DEF Hits
  <1> QED
    BY <1>1, FS_EmptySet DEF Count

\* One place of q holds a member of M.
LEMMA CountOne ==
    ASSUME NEW q, NEW M, NEW k \in 1..Len(q), q[k] \in M,
           \A i \in 1..Len(q) : i # k => q[i] \notin M
    PROVE  Count(q, M) = 1
  <1>1. Hits(q, M) = {k}
    BY DEF Hits
  <1> QED
    BY <1>1, FS_Singleton DEF Count

\* A write to a pipe.
LEMMA CountAppend ==
    ASSUME NEW S, NEW q \in Seq(S), NEW x \in S, NEW M
    PROVE  Count(Append(q, x), M) = Count(q, M) + (IF x \in M THEN 1 ELSE 0)
  <1> DEFINE n == Len(q)
             qx == Append(q, x)
  <1>1. /\ n \in Nat /\ Len(qx) = n + 1 /\ qx[n + 1] = x
        /\ \A i \in 1..n : qx[i] = q[i]
    OBVIOUS
  <1>2. n + 1 \notin Hits(q, M) /\ IsFiniteSet(Hits(q, M)) /\ Count(q, M) \in Nat
    BY <1>1, CountType DEF Hits
  <1>3. CASE x \in M
    <2>1. Hits(qx, M) = Hits(q, M) \cup {n + 1}
      <3> HIDE DEF n, qx
      <3> QED
        BY <1>1, <1>3 DEF Hits, n
    <2>2. Cardinality(Hits(q, M) \cup {n + 1}) = Cardinality(Hits(q, M)) + 1
      <3> HIDE DEF n
      <3> QED
        BY <1>2, FS_AddElement
    <2> QED
      BY <1>3, <2>1, <2>2 DEF Count
  <1>4. CASE x \notin M
    <2>1. Hits(qx, M) = Hits(q, M)
      <3> HIDE DEF n, qx
      <3> QED
        BY <1>1, <1>4 DEF Hits, n
    <2> QED
      BY <1>2, <1>4, <2>1 DEF Count
  <1> QED
    BY <1>3, <1>4

\* A read from a pipe.
LEMMA CountTail ==
    ASSUME NEW S, NEW q \in Seq(S), q # <<>>, NEW M
    PROVE  Count(q, M) = Count(Tail(q), M) + (IF Head(q) \in M THEN 1 ELSE 0)
  <1> DEFINE n == Len(q)
             t == Tail(q)
             H == Hits(t, M)
             G == Hits(q, M) \ {1}
  <1>1. /\ n \in Nat \ {0} /\ Len(t) = n - 1 /\ q[1] = Head(q) /\ t \in Seq(S)
        /\ \A i \in 1..(n - 1) : t[i] = q[i + 1]
    OBVIOUS
  <1>2. /\ IsFiniteSet(Hits(q, M)) /\ Count(q, M) \in Nat
        /\ IsFiniteSet(H) /\ Count(t, M) \in Nat
    <2> HIDE DEF t
    <2> QED
      BY <1>1, CountType
  <1>3. Cardinality(G) = Cardinality(H)
    <2> DEFINE f == [i \in H |-> i + 1]
    <2>1. \A i : i \in H <=> i \in 1..(n - 1) /\ q[i + 1] \in M
      <3> HIDE DEF n, t
      <3> QED
        BY <1>1 DEF Hits
    <2>2. \A i : i \in G <=> i \in 2..n /\ q[i] \in M
      <3> HIDE DEF n
      <3> QED
        BY <1>1 DEF Hits, n
    <2> HIDE DEF H, G, n, t
    <2>3. f \in [H -> G]
      BY <1>1, <2>1, <2>2
    <2>4. \A i, j \in H : f[i] = f[j] => i = j
      BY <1>1, <2>1
    <2>5. ASSUME NEW k \in G PROVE \E i \in H : f[i] = k
      <3>1. k \in 2..n /\ q[k] \in M
        BY <2>2
      <3>2. k - 1 \in 1..(n - 1) /\ (k - 1) + 1 = k
        BY <1>1, <3>1
      <3>3. k - 1 \in H
        BY <2>1, <3>1, <3>2
      <3> QED
        BY <3>2, <3>3
    <2> HIDE DEF f
    <2>6. f \in Surjection(H, G) /\ f \in Injection(H, G)
      BY <2>3, <2>4, <2>5 DEF Surjection, Injection, IsInjective
    <2> QED
      BY <1>2, <2>6, FS_Surjection
  <1>4. Cardinality(G) = IF 1 \in Hits(q, M) THEN Count(q, M) - 1 ELSE Count(q, M)
    BY <1>2, FS_RemoveElement DEF Count
  <1>5. 1 \in Hits(q, M) <=> Head(q) \in M
    BY <1>1 DEF Hits
  <1>6. Cardinality(H) = Count(t, M)
    BY DEF Count
  <1>7. Count(t, M) = IF Head(q) \in M THEN Count(q, M) - 1 ELSE Count(q, M)
    <2> HIDE DEF G, H, t, n
    <2> QED
      BY <1>3, <1>4, <1>5, <1>6
  <1> QED
    BY <1>2, <1>7

-----------------------------------------------------------------------------
(***************************************************************************)
(* The toggles and the ALLDONEs on their way to a child.                   *)
(***************************************************************************)
Counted == {"RAWMODE", "ALLDONE"}

Kind(k) == {p \in Packet : p.cmd = k}

\* Packets of kind k that the master has produced and c has not read.
OnWay(c, k) == Count(outpipe[c], Kind(k)) + Count(queue, {To(c, k, none)})

\* These packets carry no value.
Plain(q) ==
    \A i \in 1..Len(q) : q[i].pkt.cmd \in Counted => q[i].pkt.val = none

LEMMA OnWayType ==
    ASSUME Typed, NEW c \in Child, NEW k
    PROVE  /\ OnWay(c, k) \in Nat
           /\ Count(outpipe[c], Kind(k)) \in Nat
           /\ Count(queue, {To(c, k, none)}) \in Nat
  <1>1. outpipe[c] \in Seq(Packet) /\ queue \in Seq(Parcel)
    BY DEF Typed, TypeOK
  <1>2. Count(outpipe[c], Kind(k)) \in Nat /\ Count(queue, {To(c, k, none)}) \in Nat
    BY <1>1, CountType
  <1> QED
    BY <1>2 DEF OnWay

\* A parcel that is a toggle or an ALLDONE is the one that To builds.
LEMMA PlainParcel ==
    ASSUME NEW h \in Parcel, NEW k \in Counted, NEW c \in Child,
           h.pkt.cmd \in Counted => h.pkt.val = none
    PROVE  h = To(c, k, none) <=> h.to = c /\ h.pkt \in Kind(k)
  <1>1. /\ h = [to |-> h.to, pkt |-> h.pkt] /\ h.pkt \in Packet
        /\ h.pkt = [cmd |-> h.pkt.cmd, val |-> h.pkt.val]
    BY DEF Parcel, Packet
  <1>2. ASSUME h.to = c, h.pkt.cmd = k PROVE h = To(c, k, none)
    BY <1>1, <1>2 DEF To
  <1>3. ASSUME h = To(c, k, none) PROVE h.to = c /\ h.pkt.cmd = k
    BY <1>3 DEF To
  <1> QED
    BY <1>1, <1>2, <1>3 DEF Kind

\* send_packet moves a packet from the handler to the pipe of a running child.
LEMMA OnWaySend ==
    ASSUME Typed, Plain(queue), SendPacket, NEW c \in Child, NEW k \in Counted,
           pc[c] \in Running
    PROVE  OnWay(c, k)' = OnWay(c, k)
  <1>1. queue \in Seq(Parcel) /\ queue # <<>> /\ queue' = Tail(queue)
    BY DEF SendPacket, Typed, TypeOK
  <1>2. PICK h \in Parcel : h = Head(queue) /\ h = queue[1] /\ 1 \in 1..Len(queue)
    BY <1>1
  <1>3. h.pkt.cmd \in Counted => h.pkt.val = none
    BY <1>2 DEF Plain
  <1>4. h = To(c, k, none) <=> h.to = c /\ h.pkt \in Kind(k)
    BY <1>3, PlainParcel
  <1> DEFINE M == {To(c, k, none)}
             cq == Count(queue, M)
             cq1 == Count(queue', M)
             co == Count(outpipe[c], Kind(k))
             co1 == Count(outpipe'[c], Kind(k))
  <1>5. cq = cq1 + (IF h \in M THEN 1 ELSE 0)
    <2> HIDE DEF M
    <2> QED
      BY <1>1, <1>2, CountTail
  <1>6. outpipe[c] \in Seq(Packet) /\ outpipe \in [Child -> Seq(Packet)] /\ h.pkt \in Packet
    BY DEF Typed, TypeOK, Parcel
  <1>7. CASE h.to = c
    <2>1. outpipe' = [outpipe EXCEPT ![c] = Append(@, h.pkt)]
      BY <1>2, <1>7 DEF SendPacket
    <2>2. outpipe'[c] = Append(outpipe[c], h.pkt)
      BY <1>6, <2>1
    <2>3. co1 = co + (IF h.pkt \in Kind(k) THEN 1 ELSE 0)
      BY <1>6, <2>2, CountAppend
    <2>4. co \in Nat /\ cq \in Nat /\ cq1 \in Nat
      <3>1. Tail(queue) \in Seq(Parcel)
        BY <1>1
      <3> QED
        BY <1>1, <1>6, <3>1, CountType
    <2>5. co1 + cq1 = co + cq
      <3> HIDE DEF co1, cq1, co, cq
      <3> QED
        BY <1>4, <1>5, <1>7, <2>3, <2>4 DEF M
    <2> QED
      BY <2>5 DEF OnWay
  <1>8. CASE h.to # c
    <2>1. outpipe'[c] = outpipe[c]
      <3>1. \/ outpipe' = [outpipe EXCEPT ![h.to] = Append(@, h.pkt)]
            \/ outpipe' = outpipe
        BY <1>2 DEF SendPacket
      <3> QED
        BY <1>6, <1>8, <3>1
    <2>2. cq1 = cq
      <3>1. cq1 \in Nat
        <4>1. Tail(queue) \in Seq(Parcel)
          BY <1>1
        <4> QED
          BY <1>1, <4>1, CountType
      <3>2. h \notin M
        BY <1>4, <1>8
      <3> HIDE DEF cq1, cq, M
      <3> QED
        BY <1>5, <3>1, <3>2
    <2> QED
      BY <2>1, <2>2 DEF OnWay
  <1> QED
    BY <1>7, <1>8

\* poll_requests takes a packet out of the pipe of its child.
LEMMA OnWayPoll ==
    ASSUME Typed, NEW c \in Child, PollRequests(c), Head(outpipe[c]).cmd # "KICK", NEW k
    PROVE  /\ OnWay(c, k)' \in Nat
           /\ OnWay(c, k) = OnWay(c, k)' + (IF Head(outpipe[c]).cmd = k THEN 1 ELSE 0)
  <1>1. /\ outpipe' = [outpipe EXCEPT ![c] = Tail(@)] /\ queue' = queue
        /\ outpipe[c] # <<>>
    BY DEF PollRequests, masterVars
  <1>2. outpipe[c] \in Seq(Packet) /\ outpipe'[c] = Tail(outpipe[c])
    BY <1>1 DEF Typed, TypeOK
  <1>3. Head(outpipe[c]) \in Kind(k) <=> Head(outpipe[c]).cmd = k
    BY <1>1, <1>2 DEF Kind
  <1> DEFINE cq == Count(queue, {To(c, k, none)})
             co == Count(outpipe[c], Kind(k))
             co1 == Count(outpipe'[c], Kind(k))
  <1>4. co = co1 + (IF Head(outpipe[c]).cmd = k THEN 1 ELSE 0)
    BY <1>1, <1>2, <1>3, CountTail
  <1>5. cq \in Nat /\ co1 \in Nat
    <2>1. Tail(outpipe[c]) \in Seq(Packet)
      BY <1>1, <1>2
    <2> QED
      BY <1>2, <2>1, OnWayType, CountType
  <1>6. co + cq = (co1 + cq) + (IF Head(outpipe[c]).cmd = k THEN 1 ELSE 0)
    <2> HIDE DEF cq, co, co1
    <2> QED
      BY <1>4, <1>5
  <1> QED
    BY <1>1, <1>5, <1>6 DEF OnWay

\* handle_child toggles nothing, and ends nothing but a broadcast.
LEMMA OnWayHandle ==
    ASSUME NEW r \in Request, NEW s \in Child, NEW d \in Child, NEW c, NEW k \in Counted,
           k = "RAWMODE" \/ r.cmd # "BCASTMSG"
    PROVE  Count(HandleChild(r, s, d), {To(c, k, none)}) = 0
  <1> DEFINE H == HandleChild(r, s, d)
  <1>1. \/ H = <<Text(d)>>
        \/ H = <<Text(d), To(d, "ALLDONE", none)>> /\ r.cmd = "BCASTMSG"
        \/ H = <<To(d, "KICK", none), Text(s)>>
        \/ H = <<To(d, "KICK", none)>>
        \/ H = <<Text(s)>>
        \/ H = <<>>
    BY DEF HandleChild
  <1>2. ASSUME NEW e, NEW j, To(e, j, none) = To(c, k, none) PROVE j = k
    <2>1. To(e, j, none).pkt.cmd = j /\ To(c, k, none).pkt.cmd = k
      BY DEF To
    <2> QED
      BY <1>2, <2>1
  <1>3. /\ \A e : Text(e) # To(c, k, none) /\ To(e, "KICK", none) # To(c, k, none)
        /\ \A e : To(e, "ALLDONE", none) = To(c, k, none) => k = "ALLDONE"
    BY <1>2 DEF Text, Counted
  <1>4. \A i \in 1..Len(H) : H[i] \notin {To(c, k, none)}
    <2> HIDE DEF H
    <2> QED
      BY <1>1, <1>3 DEF Counted
  <1> QED
    BY <1>4, CountNone

LEMMA PlainHandle ==
    ASSUME NEW r \in Request, NEW s \in Child, NEW d \in Child
    PROVE  Plain(HandleChild(r, s, d))
  <1> DEFINE H == HandleChild(r, s, d)
  <1>1. \/ H = <<Text(d)>>
        \/ H = <<Text(d), To(d, "ALLDONE", none)>>
        \/ H = <<To(d, "KICK", none), Text(s)>>
        \/ H = <<To(d, "KICK", none)>>
        \/ H = <<Text(s)>>
        \/ H = <<>>
    BY DEF HandleChild
  <1>2. \A e, j : To(e, j, none).pkt.val = none
    BY DEF To
  <1>3. \A i \in 1..Len(H) : H[i].pkt.val = none
    <2> HIDE DEF H
    <2> QED
      BY <1>1, <1>2 DEF Text
  <1> QED
    BY <1>3 DEF Plain

\* What a finalizer writes: n texts, at most one answer, and the ALLDONE.
Written(Q, n, s, answer) ==
    /\ n \in Nat
    /\ \A i \in 1..n : Q[i] = Text(s)
    /\ \/ answer = <<>> /\ Len(Q) = n + 1
       \/ /\ Len(Q) = n + 2 /\ answer = <<Q[n + 1]>>
          /\ Q[n + 1].pkt.cmd \notin {"BCASTMSG", "ALLDONE"}
          /\ Q[n + 1].pkt.cmd = "RAWMODE" => Q[n + 1] = To(s, "RAWMODE", none)
    /\ Q[Len(Q)] = To(s, "ALLDONE", none)

LEMMA FinalizeParts ==
    ASSUME NEW r \in Request, NEW s \in Child,
           NEW texts \in Prints(r, s), NEW answer \in Answers(r, s)
    PROVE  Written(texts \o answer \o <<To(s, "ALLDONE", none)>>, Len(texts), s, answer)
  <1> DEFINE done == To(s, "ALLDONE", none)
             n == Len(texts)
             Q == texts \o answer \o <<done>>
  <1>1. texts \in Seq({Text(s)})
    <2>1. texts = <<>> \/ \E m \in 0..MaxText : texts = [i \in 1..m |-> Text(s)]
      BY DEF Prints, Texts
    <2>2. ASSUME NEW m \in 0..MaxText, texts = [i \in 1..m |-> Text(s)]
          PROVE  texts \in Seq({Text(s)})
      <3>1. m \in Nat
        BY BoundAssumption
      <3> QED
        BY <2>2, <3>1
    <2>3. <<>> \in Seq({Text(s)})
      OBVIOUS
    <2> QED
      BY <2>1, <2>2, <2>3, Zenon
  <1> DEFINE Fits(a) == /\ answer = <<a>> /\ a.pkt.cmd \notin {"BCASTMSG", "ALLDONE"}
                        /\ a.pkt.cmd = "RAWMODE" => a = To(s, "RAWMODE", none)
  <1>2. answer = <<>> \/ \E a : Fits(a)
    <2>1. \/ answer = <<>> \/ answer = <<To(s, "RAWMODE", none)>>
          \/ /\ r.cmd \in {"MOVE", "DELUSERDATA", "ADDUSERDATA"}
             /\ answer = <<To(s, r.cmd, "yes")>> \/ answer = <<To(s, r.cmd, "no")>>
          \/ r.cmd = "GETUSERDATA" /\ answer = <<To(s, r.cmd, r.arg)>>
      BY DEF Answers
    <2>2. \A k, v : To(s, k, v).pkt.cmd = k
      BY DEF To
    <2> QED
      BY <2>1, <2>2
  <1>3. /\ n \in Nat /\ \A i \in 1..n : texts[i] = Text(s)
    BY <1>1
  <1>4. CASE answer = <<>>
    <2>1. texts \o answer = texts
      BY <1>1, <1>4
    <2>2. /\ Len(Q) = n + 1 /\ Q[n + 1] = done
          /\ \A i \in 1..n : Q[i] = texts[i]
      <3> DEFINE qq == texts \o <<done>>
      <3>1. Q = qq
        BY <2>1
      <3>2. /\ Len(qq) = n + 1 /\ qq[n + 1] = done
            /\ \A i \in 1..n : qq[i] = texts[i]
        <4>1. texts \in Seq({Text(s), done})
          BY <1>1
        <4> HIDE DEF done
        <4> QED
          BY <4>1
      <3> QED
        BY <3>1, <3>2
    <2>3. Written(Q, n, s, answer)
      <3> HIDE DEF Q, n
      <3> QED
        BY <1>3, <1>4, <2>2 DEF Written
    <2> QED
      BY <2>3
  <1>5. ASSUME NEW a, Fits(a)
        PROVE  /\ Len(Q) = n + 2 /\ Q[n + 1] = a /\ Q[Len(Q)] = done
               /\ \A i \in 1..n : Q[i] = texts[i]
    <2> DEFINE ta == texts \o <<a>>
    <2>1. /\ ta \in Seq({Text(s), a, done})
          /\ Len(ta) = n + 1 /\ ta[n + 1] = a /\ \A i \in 1..n : ta[i] = texts[i]
      <3>1. texts \in Seq({Text(s), a, done})
        BY <1>1
      <3> HIDE DEF done
      <3> QED
        BY <3>1
    <2>2. Q = ta \o <<done>>
      BY <1>5
    <2>3. /\ Len(ta \o <<done>>) = n + 2 /\ (ta \o <<done>>)[n + 2] = done
          /\ \A i \in 1..(n + 1) : (ta \o <<done>>)[i] = ta[i]
      <3> HIDE DEF ta, done
      <3> QED
        BY <1>3, <2>1
    <2> HIDE DEF ta, Q, n
    <2> QED
      BY <1>3, <2>1, <2>2, <2>3
  <1>6. CASE answer # <<>>
    <2>1. PICK a : Fits(a)
      BY <1>2, <1>6, Zenon
    <2>2. /\ Len(Q) = n + 2 /\ Q[n + 1] = a /\ Q[Len(Q)] = done
          /\ \A i \in 1..n : Q[i] = texts[i]
      BY <1>5, <2>1
    <2>3. Written(Q, n, s, answer)
      <3> HIDE DEF Q, n
      <3> QED
        BY <1>3, <2>1, <2>2 DEF Written
    <2> QED
      BY <2>3
  <1> QED
    BY <1>4, <1>6

\* A finalizer ends the call of its sender, and flips the raw mode on the
\* child's side whenever it flips it on the master's.
Ending(Q, c, s, answer) ==
    /\ Plain(Q)
    /\ Count(Q, {To(c, "ALLDONE", none)}) = (IF c = s THEN 1 ELSE 0)
    /\ Count(Q, {To(c, "RAWMODE", none)}) =
          (IF c = s /\ answer = <<To(s, "RAWMODE", none)>> THEN 1 ELSE 0)

LEMMA OnWayFinalize ==
    ASSUME NEW r \in Request, NEW s \in Child, NEW c \in Child,
           NEW texts \in Prints(r, s), NEW answer \in Answers(r, s)
    PROVE  Ending(texts \o answer \o <<To(s, "ALLDONE", none)>>, c, s, answer)
  <1> DEFINE done == To(s, "ALLDONE", none)
             raw == To(s, "RAWMODE", none)
  <1>0. PICK Q, n : Q = texts \o answer \o <<done>> /\ n = Len(texts)
    OBVIOUS
  <1>1. Written(Q, n, s, answer)
    BY <1>0, FinalizeParts
  <1> USE DEF Written
  <1>2. /\ \A e, k : To(e, k, none).to = e /\ To(e, k, none).pkt.cmd = k
        /\ \A e, k : To(e, k, none).pkt.val = none
        /\ Text(s).pkt.cmd = "BCASTMSG"
    BY DEF To, Text
  <1>3. Len(Q) \in 1..Len(Q) /\ \A i \in 1..Len(Q) : i # Len(Q) => Q[i].pkt.cmd # "ALLDONE"
    BY <1>1, <1>2
  <1>4. /\ answer # <<raw>> => \A i \in 1..Len(Q) : Q[i].pkt.cmd # "RAWMODE"
        /\ answer = <<raw>> => /\ n + 1 \in 1..Len(Q) /\ Q[n + 1] = raw
                               /\ \A i \in 1..Len(Q) : i # n + 1 => Q[i].pkt.cmd # "RAWMODE"
    <2> HIDE DEF raw, done
    <2>1. raw.pkt.cmd = "RAWMODE" /\ done.pkt.cmd = "ALLDONE"
      BY <1>2 DEF raw, done
    <2>2. CASE answer = <<raw>>
      <3>1. Len(Q) = n + 2 /\ Q[n + 1] = raw
        BY <1>1, <2>2
      <3>2. \A i \in 1..Len(Q) : i = n + 1 \/ i = n + 2 \/ i \in 1..n
        BY <1>1, <3>1
      <3> QED
        BY <1>1, <1>2, <2>1, <2>2, <3>1, <3>2
    <2>3. CASE answer # <<raw>>
      <3>1. CASE answer = <<>> /\ Len(Q) = n + 1
        <4>1. \A i \in 1..Len(Q) : i = n + 1 \/ i \in 1..n
          BY <1>1, <3>1
        <4> QED
          BY <1>1, <1>2, <2>1, <2>3, <3>1, <4>1
      <3>2. CASE /\ Len(Q) = n + 2 /\ answer = <<Q[n + 1]>>
                 /\ Q[n + 1].pkt.cmd = "RAWMODE" => Q[n + 1] = raw
        <4>1. \A i \in 1..Len(Q) : i = n + 1 \/ i = n + 2 \/ i \in 1..n
          BY <1>1, <3>2
        <4> QED
          BY <1>1, <1>2, <2>1, <2>3, <3>2, <4>1
      <3> QED
        BY <1>1, <3>1, <3>2 DEF raw
    <2> QED
      BY <2>2, <2>3
  <1>5. Plain(Q)
    <2> SUFFICES ASSUME NEW i \in 1..Len(Q), Q[i].pkt.cmd \in Counted
                 PROVE  Q[i].pkt.val = none
      BY DEF Plain
    <2>1. CASE Q[i].pkt.cmd = "ALLDONE"
      BY <1>1, <1>2, <1>3, <2>1
    <2>2. CASE Q[i].pkt.cmd = "RAWMODE"
      <3>1. answer = <<raw>> /\ i = n + 1 /\ Q[n + 1] = raw
        BY <1>4, <2>2
      <3> QED
        BY <1>2, <3>1
    <2> QED
      BY <2>1, <2>2 DEF Counted
  <1>6. Count(Q, {To(c, "ALLDONE", none)}) = (IF c = s THEN 1 ELSE 0)
    <2>1. CASE c = s
      <3>1. Q[Len(Q)] \in {done} /\ \A i \in 1..Len(Q) : i # Len(Q) => Q[i] \notin {done}
        BY <1>1, <1>2, <1>3
      <3> QED
        BY <1>3, <2>1, <3>1, CountOne
    <2>2. CASE c # s
      <3>1. \A i \in 1..Len(Q) : Q[i] \notin {To(c, "ALLDONE", none)}
        BY <1>1, <1>2, <1>3, <2>2
      <3> QED
        BY <2>2, <3>1, CountNone
    <2> QED
      BY <2>1, <2>2
  <1>7. Count(Q, {To(c, "RAWMODE", none)}) = (IF c = s /\ answer = <<raw>> THEN 1 ELSE 0)
    <2>1. CASE c = s /\ answer = <<raw>>
      <3>1. /\ n + 1 \in 1..Len(Q) /\ Q[n + 1] \in {raw}
            /\ \A i \in 1..Len(Q) : i # n + 1 => Q[i] \notin {raw}
        BY <1>2, <1>4, <2>1
      <3> QED
        BY <2>1, <3>1, CountOne
    <2>2. CASE ~(c = s /\ answer = <<raw>>)
      <3>1. ASSUME NEW i \in 1..Len(Q) PROVE Q[i] # To(c, "RAWMODE", none)
        <4>1. CASE Q[i].pkt.cmd # "RAWMODE"
          BY <1>2, <4>1
        <4>2. CASE Q[i].pkt.cmd = "RAWMODE"
          <5>1. answer = <<raw>> /\ Q[i] = raw
            BY <1>4, <4>2
          <5>2. c # s
            BY <2>2, <5>1
          <5> QED
            BY <1>2, <5>1, <5>2
        <4> QED
          BY <4>1, <4>2
      <3>2. Count(Q, {To(c, "RAWMODE", none)}) = 0
        BY <3>1, CountNone
      <3> QED
        BY <2>2, <3>2
    <2> QED
      BY <2>1, <2>2
  <1>8. Ending(Q, c, s, answer)
    BY <1>5, <1>6, <1>7 DEF Ending
  <1> QED
    BY <1>0, <1>8

\* A step that neither produces nor consumes packets.
LEMMA OnWayFrame ==
    ASSUME NEW c \in Child, NEW k, outpipe'[c] = outpipe[c], queue' = queue
    PROVE  OnWay(c, k)' = OnWay(c, k)
  BY DEF OnWay

\* A handler starts with an empty queue and is called for a child.
LEMMA OnWayHandler ==
    ASSUME NEW c \in Child, NEW k \in Counted, Typed, outpipe' = outpipe, queue = <<>>,
           NEW r \in Request, NEW s \in Child, NEW d \in Child,
           queue' = HandleChild(r, s, d),
           k = "RAWMODE" \/ r.cmd # "BCASTMSG"
    PROVE  OnWay(c, k)' = OnWay(c, k) /\ Plain(queue')
  <1>1. Count(<<>>, {To(c, k, none)}) = 0 /\ Plain(<<>>)
    <2>1. \A i \in 1..Len(<<>>) : <<>>[i] \notin {To(c, k, none)}
      OBVIOUS
    <2> QED
      BY <2>1, CountNone DEF Plain
  <1>2. Count(queue', {To(c, k, none)}) = 0 /\ Plain(queue')
    BY <1>1, OnWayHandle, PlainHandle
  <1> QED
    BY <1>1, <1>2 DEF OnWay

-----------------------------------------------------------------------------
(***************************************************************************)
(* The raw mode.                                                           *)
(***************************************************************************)

\* RawModeAgrees for one child, and what a new child starts with.
Agree(c) ==
    /\ pc[c] \notin Running => c \notin child_rawmode
    /\ c \notin child_map => c \notin child_rawmode /\ outpipe[c] = <<>>
    /\ c \in child_map /\ pc[c] \in Running =>
          ((c \in child_rawmode <=> c \in raw_mode_cb) <=> (OnWay(c, "RAWMODE") % 2 = 0))

Agreed == Plain(queue) /\ \A c \in Child : Agree(c)

LEMMA Parity ==
    ASSUME NEW n \in Nat
    PROVE  (n + 1) % 2 = 0 <=> ~(n % 2 = 0)
  OBVIOUS

LEMMA AgreedInit == Init => Agreed
  BY DEF Init, Agreed, Agree, Plain, Running

\* A step that leaves the raw mode, the packets and the map alone.
LEMMA AgreedFrame ==
    ASSUME Agreed,
           UNCHANGED <<child_rawmode, raw_mode_cb, outpipe, queue, child_map>>,
           \A c \in Child : pc'[c] \in Running <=> pc[c] \in Running
    PROVE  Agreed'
  <1>1. Plain(queue)'
    BY DEF Agreed
  <1>2. ASSUME NEW c \in Child PROVE Agree(c)'
    <2>1. OnWay(c, "RAWMODE")' = OnWay(c, "RAWMODE")
      BY OnWayFrame
    <2> QED
      BY <2>1 DEF Agreed, Agree
  <1> QED
    BY <1>1, <1>2 DEF Agreed

\* A step of child c or of the kernel on its behalf.
LEMMA AgreedChild ==
    ASSUME Agreed, NEW c \in Child, Agree(c)', UNCHANGED <<queue, raw_mode_cb>>,
           \A d \in Child \ {c} :
              /\ pc'[d] = pc[d] /\ outpipe'[d] = outpipe[d]
              /\ d \in child_rawmode' <=> d \in child_rawmode
              /\ d \in child_map' <=> d \in child_map
    PROVE  Agreed'
  <1>1. Plain(queue)'
    BY DEF Agreed
  <1>2. ASSUME NEW d \in Child \ {c} PROVE Agree(d)'
    <2>1. OnWay(d, "RAWMODE")' = OnWay(d, "RAWMODE")
      BY OnWayFrame
    <2> QED
      BY <2>1 DEF Agreed, Agree
  <1> QED
    BY <1>1, <1>2 DEF Agreed

LEMMA AgreedNext ==
    Typed /\ Typed' /\ Books /\ Frames /\ Agreed /\ [Next]_vars => Agreed'
  <1> SUFFICES ASSUME Typed, Typed', Books, Frames, Agreed, [Next]_vars PROVE Agreed'
    OBVIOUS
  <1>0. /\ pc \in [Child -> Running \cup Dead \cup {"free"}]
        /\ outpipe \in [Child -> Seq(Packet)]
    BY DEF Typed, TypeOK
  <1> DEFINE SameLife == \A c \in Child : pc'[c] \in Running <=> pc[c] \in Running
  <1>1. ASSUME NEW c \in Child, NEW r \in Requests(c), SendMaster(c, r) PROVE Agreed'
    <2>1. SameLife
      BY <1>0, <1>1 DEF SendMaster, Running
    <2> QED
      BY <1>1, <2>1, AgreedFrame DEF SendMaster, pipeVars, masterVars
  <1>2. ASSUME NEW c \in Child, WriteRequest(c) PROVE Agreed'
    <2>1. SameLife
      BY <1>0, <1>2 DEF WriteRequest, Running
    <2> QED
      BY <1>2, <2>1, AgreedFrame DEF WriteRequest, masterVars
  <1>3. ASSUME NEW c \in Child, ClientRead(c) PROVE Agreed'
    <2>1. SameLife
      BY <1>0, <1>3 DEF ClientRead, Running
    <2> QED
      BY <1>3, <2>1, AgreedFrame DEF ClientRead, pipeVars, masterVars
  <1>4. ASSUME NEW c \in Child, PollRequests(c) PROVE Agreed'
    <2>1. PICK p : p = Head(outpipe[c])
      OBVIOUS
    <2>2. /\ pc[c] \in Running /\ outpipe[c] # <<>> /\ c \in child_map
          /\ UNCHANGED <<queue, raw_mode_cb, child_map>>
      BY <1>4 DEF PollRequests, Running, masterVars, Agreed, Agree
    <2>3. CASE p.cmd = "KICK"
      <3>1. /\ pc' = [pc EXCEPT ![c] = "exiting"] /\ child_rawmode' = child_rawmode \ {c}
            /\ outpipe' = [outpipe EXCEPT ![c] = <<>>]
        BY <1>4, <2>1, <2>3 DEF PollRequests
      <3>2. pc'[c] \notin Running /\ c \notin child_rawmode' /\ c \in child_map'
        BY <1>0, <2>2, <3>1 DEF Running
      <3>3. Agree(c)'
        BY <3>2 DEF Agree
      <3> QED
        BY <1>0, <2>2, <3>1, <3>3, AgreedChild
    <2>4. CASE p.cmd # "KICK"
      <3>1. /\ outpipe' = [outpipe EXCEPT ![c] = Tail(@)]
            /\ pc' = pc \/ pc' = [pc EXCEPT ![c] = "ready"]
            /\ child_rawmode' = IF p.cmd = "RAWMODE" THEN Toggle(child_rawmode, c)
                                ELSE child_rawmode
        BY <1>4, <2>1, <2>4 DEF PollRequests
      <3>2. OnWay(c, "RAWMODE") = OnWay(c, "RAWMODE")' + (IF p.cmd = "RAWMODE" THEN 1 ELSE 0)
        BY <1>4, <2>1, <2>4, OnWayPoll
      <3>3. OnWay(c, "RAWMODE")' \in Nat
        BY <1>4, <2>1, <2>4, OnWayPoll
      <3>4. /\ p.cmd = "RAWMODE" => (c \in child_rawmode' <=> c \notin child_rawmode)
            /\ p.cmd # "RAWMODE" => child_rawmode' = child_rawmode
            /\ \A d \in Child \ {c} : d \in child_rawmode' <=> d \in child_rawmode
        BY <3>1 DEF Toggle
      <3>5. pc'[c] \in Running
        BY <1>0, <2>2, <3>1 DEF Running
      <3>6. (c \in child_rawmode <=> c \in raw_mode_cb) <=> (OnWay(c, "RAWMODE") % 2 = 0)
        BY <2>2 DEF Agreed, Agree
      <3>7. (c \in child_rawmode' <=> c \in raw_mode_cb') <=> (OnWay(c, "RAWMODE")' % 2 = 0)
        <4> DEFINE n == OnWay(c, "RAWMODE")
                   m == OnWay(c, "RAWMODE")'
        <4>1. CASE p.cmd = "RAWMODE"
          <5>1. n % 2 = 0 <=> ~(m % 2 = 0)
            BY <3>2, <3>3, <4>1, Parity
          <5> HIDE DEF n, m
          <5> QED
            BY <2>2, <3>4, <3>6, <4>1, <5>1 DEF n, m
        <4>2. CASE p.cmd # "RAWMODE"
          <5>1. n = m
            BY <3>2, <3>3, <4>2
          <5> QED
            BY <2>2, <3>4, <3>6, <4>2, <5>1
        <4> QED
          BY <4>1, <4>2
      <3>8. Agree(c)'
        BY <2>2, <3>5, <3>7 DEF Agree
      <3> QED
        BY <1>0, <2>2, <3>1, <3>4, <3>8, AgreedChild
    <2> QED
      BY <2>3, <2>4
  <1>5. ASSUME NEW c \in Child, SigChld(c) PROVE Agreed'
    <2>1. SameLife
      BY <1>0, <1>5 DEF SigChld, Running
    <2> QED
      BY <1>5, <2>1, AgreedFrame DEF SigChld, pipeVars
  <1>6. ASSUME NEW c \in Child, Exit(c) PROVE Agreed'
    <2>1. /\ pc' = [pc EXCEPT ![c] = "exiting"] /\ child_rawmode' = child_rawmode \ {c}
          /\ outpipe' = [outpipe EXCEPT ![c] = <<>>]
          /\ UNCHANGED <<queue, raw_mode_cb, child_map>>
      BY <1>6 DEF Exit, masterVars
    <2>2. pc'[c] \notin Running /\ c \notin child_rawmode' /\ outpipe'[c] = <<>>
      BY <1>0, <2>1 DEF Running
    <2>3. Agree(c)'
      BY <2>2 DEF Agree
    <2> QED
      BY <1>0, <2>1, <2>3, AgreedChild
  <1>7. ASSUME NEW c \in Child, Fork(c) PROVE Agreed'
    <2>1. /\ pc' = [pc EXCEPT ![c] = "ready"] /\ pc[c] = "free"
          /\ UNCHANGED <<child_rawmode, outpipe, queue, raw_mode_cb, child_map>>
      BY <1>7 DEF Fork, pipeVars
    <2>2. c \notin child_map
      BY <2>1 DEF Books, Entered
    <2>3. Agree(c)'
      BY <1>0, <2>1, <2>2 DEF Agreed, Agree, Running
    <2> QED
      BY <1>0, <2>1, <2>3, AgreedChild
  <1>8. ASSUME InsertChild PROVE Agreed'
    <2>1. PICK c \in Child : c = job.sender
      BY <1>8 DEF InsertChild, Typed, Shape
    <2>2. /\ child_map' = child_map \cup {c} /\ raw_mode_cb' = raw_mode_cb \ {c}
          /\ queue = <<>> /\ UNCHANGED <<pc, child_rawmode, outpipe, queue>>
      BY <1>8, <2>1 DEF InsertChild, Typed, Shape, childVars, pipeVars
    <2>3. c \notin child_map
      BY <1>8, <2>1 DEF InsertChild, Books, Fresh
    <2>4. c \notin child_rawmode /\ outpipe[c] = <<>>
      BY <2>3 DEF Agreed, Agree
    <2>5. OnWay(c, "RAWMODE")' = 0
      <3>1. Count(<<>>, Kind("RAWMODE")) = 0 /\ Count(<<>>, {To(c, "RAWMODE", none)}) = 0
        BY CountNone
      <3> QED
        BY <2>2, <2>4, <3>1 DEF OnWay
    <2>6. Agree(c)'
      <3>1. 0 % 2 = 0
        OBVIOUS
      <3> QED
        BY <2>2, <2>4, <2>5, <3>1 DEF Agreed, Agree
    <2>7. ASSUME NEW d \in Child \ {c} PROVE Agree(d)'
      <3>1. OnWay(d, "RAWMODE")' = OnWay(d, "RAWMODE")
        BY <2>2, OnWayFrame
      <3> QED
        BY <2>2, <3>1 DEF Agreed, Agree
    <2> QED
      BY <2>2, <2>6, <2>7 DEF Agreed
  <1>9. ASSUME NEW c \in Child, ReadRequest(c) PROVE Agreed'
    <2>1. PICK r : r = Head(readpipe[c])
      OBVIOUS
    <2>2. r \in Request
      BY <1>9, <2>1 DEF ReadRequest, Typed, TypeOK
    <2>3. /\ queue = <<>>
          /\ queue' = HandleChild(r, c, c) \/ queue' = <<>>
          /\ UNCHANGED <<pc, child_rawmode, outpipe, raw_mode_cb, child_map>>
      BY <1>9, <2>1 DEF ReadRequest, Typed, Shape, childVars
    <2>4. ASSUME NEW d \in Child
          PROVE  OnWay(d, "RAWMODE")' = OnWay(d, "RAWMODE") /\ Plain(queue')
      <3>1. CASE queue' = HandleChild(r, c, c)
        BY <2>2, <2>3, <3>1, OnWayHandler DEF Counted
      <3>2. CASE queue' = <<>>
        BY <2>3, <3>2, OnWayFrame DEF Agreed
      <3> QED
        BY <2>3, <3>1, <3>2
    <2>5. ASSUME NEW d \in Child PROVE Agree(d)'
      BY <2>3, <2>4 DEF Agreed, Agree
    <2> QED
      BY <2>4, <2>5 DEF Agreed
  <1>10. ASSUME SendPacket PROVE Agreed'
    <2>1. /\ UNCHANGED <<pc, child_rawmode, raw_mode_cb, child_map>>
          /\ queue' = Tail(queue) /\ queue # <<>> /\ queue \in Seq(Parcel)
      BY <1>10 DEF SendPacket, childVars, Typed, TypeOK
    <2>2. Plain(queue')
      <3>1. \A i \in 1..Len(queue') : queue'[i] = queue[i + 1] /\ i + 1 \in 1..Len(queue)
        BY <2>1
      <3> QED
        BY <3>1 DEF Agreed, Plain
    <2>3. ASSUME NEW c \in Child, pc[c] \in Running
          PROVE  OnWay(c, "RAWMODE")' = OnWay(c, "RAWMODE")
      BY <1>10, <2>3, OnWaySend DEF Agreed, Counted
    <2>4. ASSUME NEW c \in Child, c \notin child_map PROVE outpipe'[c] = <<>>
      <3>1. Head(queue).to \in child_map
        BY <2>1 DEF Books, NoFreedEntry, Typed, Shape
      <3>2. \/ outpipe' = outpipe
            \/ outpipe' = [outpipe EXCEPT ![Head(queue).to] = Append(@, Head(queue).pkt)]
        BY <1>10 DEF SendPacket
      <3> QED
        BY <1>0, <2>4, <3>1, <3>2 DEF Agreed, Agree
    <2>5. ASSUME NEW c \in Child PROVE Agree(c)'
      BY <2>1, <2>3, <2>4 DEF Agreed, Agree
    <2> QED
      BY <2>2, <2>5 DEF Agreed
  <1>11. ASSUME NEW d \in Child, VisitChild(d) PROVE Agreed'
    <2>1. /\ queue = <<>> /\ queue' = HandleChild(job.req, job.sender, d)
          /\ job.req \in Request /\ job.sender \in Child
          /\ UNCHANGED <<pc, child_rawmode, outpipe, raw_mode_cb, child_map>>
      BY <1>11 DEF VisitChild, Typed, TypeOK, Shape, childVars, pipeVars
    <2>2. ASSUME NEW c \in Child
          PROVE  OnWay(c, "RAWMODE")' = OnWay(c, "RAWMODE") /\ Plain(queue')
      BY <2>1, OnWayHandler DEF Counted
    <2>3. ASSUME NEW c \in Child PROVE Agree(c)'
      BY <2>1, <2>2 DEF Agreed, Agree
    <2> QED
      BY <2>2, <2>3 DEF Agreed
  <1>12. ASSUME Finalize PROVE Agreed'
    <2>1. PICK s \in Child, r \in Request : s = job.sender /\ r = job.req
      BY <1>12 DEF Finalize, Typed, TypeOK, Shape
    <2>2. PICK texts \in Prints(r, s), answer \in Answers(r, s) :
             /\ queue' = texts \o answer \o <<To(s, "ALLDONE", none)>>
             /\ raw_mode_cb' = IF answer = <<To(s, "RAWMODE", none)>>
                               THEN Toggle(raw_mode_cb, s) ELSE raw_mode_cb
      BY <1>12, <2>1 DEF Finalize
    <2>3. queue = <<>> /\ UNCHANGED <<pc, child_rawmode, outpipe, child_map>>
      BY <1>12 DEF Finalize, childVars, pipeVars
    <2> DEFINE flips == answer = <<To(s, "RAWMODE", none)>>
    <2>4a. ASSUME NEW c \in Child PROVE Ending(queue', c, s, answer)
      BY <2>2, OnWayFinalize
    <2>4. Plain(queue')
      BY <2>4a DEF Ending
    <2>5. ASSUME NEW c \in Child
          PROVE  OnWay(c, "RAWMODE")' = OnWay(c, "RAWMODE") + (IF c = s /\ flips THEN 1 ELSE 0)
      <3> DEFINE M == {To(c, "RAWMODE", none)}
                 o == Count(outpipe[c], Kind("RAWMODE"))
      <3>1. Count(queue', M) = IF c = s /\ flips THEN 1 ELSE 0
        BY <2>4a DEF Ending
      <3>2. Count(queue, M) = 0
        BY <2>3, CountNone
      <3>3. o \in Nat
        BY OnWayType
      <3>4. OnWay(c, "RAWMODE") = o /\ OnWay(c, "RAWMODE")' = o + Count(queue', M)
        <4>1. OnWay(c, "RAWMODE") = o + Count(queue, M)
          BY DEF OnWay
        <4>2. OnWay(c, "RAWMODE")' = o + Count(queue', M)
          BY <2>3 DEF OnWay
        <4> HIDE DEF o, M
        <4> QED
          BY <3>2, <3>3, <4>1, <4>2
      <3> HIDE DEF o, M, flips
      <3> QED
        BY <3>1, <3>4
    <2>6. ASSUME NEW c \in Child PROVE Agree(c)'
      <3> DEFINE n == OnWay(c, "RAWMODE")
      <3>1. n \in Nat
        BY OnWayType
      <3>2. CASE c = s /\ flips
        <4>1. OnWay(c, "RAWMODE")' = n + 1
          BY <2>5, <3>2
        <4>2. (n + 1) % 2 = 0 <=> ~(n % 2 = 0)
          BY <3>1, Parity
        <4>3. c \in raw_mode_cb' <=> c \notin raw_mode_cb
          BY <2>2, <3>2 DEF Toggle
        <4> QED
          BY <2>3, <4>1, <4>2, <4>3 DEF Agreed, Agree
      <3>3. CASE ~(c = s /\ flips)
        <4>1. OnWay(c, "RAWMODE")' = n
          BY <2>5, <3>1, <3>3
        <4>2. c \in raw_mode_cb' <=> c \in raw_mode_cb
          BY <2>2, <3>3 DEF Toggle
        <4> QED
          BY <2>3, <4>1, <4>2 DEF Agreed, Agree
      <3> QED
        BY <3>2, <3>3
    <2> QED
      BY <2>4, <2>6 DEF Agreed
  <1>13. ASSUME NEW c \in Child, ReapChild(c) PROVE Agreed'
    <2>1. /\ pc[c] = "zombie" /\ pc' = [pc EXCEPT ![c] = "free"]
          /\ child_map' = child_map \ {c} /\ raw_mode_cb' = raw_mode_cb \ {c}
          /\ UNCHANGED <<child_rawmode, outpipe, queue>>
      BY <1>13 DEF ReapChild
    <2>2. outpipe[c] = <<>> /\ c \notin child_rawmode /\ pc'[c] \notin Running
      BY <1>0, <2>1 DEF Frames, Quiet, Agreed, Agree, Running
    <2>3. Agree(c)'
      BY <2>1, <2>2 DEF Agree
    <2>4. ASSUME NEW d \in Child \ {c} PROVE Agree(d)'
      <3>1. OnWay(d, "RAWMODE")' = OnWay(d, "RAWMODE")
        BY <2>1, OnWayFrame
      <3> QED
        BY <1>0, <2>1, <3>1 DEF Agreed, Agree
    <2> QED
      BY <2>1, <2>3, <2>4 DEF Agreed
  <1>14. ASSUME UNCHANGED <<pc, child_rawmode, raw_mode_cb, outpipe, queue, child_map>>
         PROVE  Agreed'
    BY <1>14, AgreedFrame
  <1>15. \/ Tick \/ EvPoll \/ EndRound \/ Finish \/ ReapDone \/ UNCHANGED vars
         \/ \E c \in Child : ReadEof(c)
         => UNCHANGED <<pc, child_rawmode, raw_mode_cb, outpipe, queue, child_map>>
    BY DEF Tick, EvPoll, EndRound, Finish, ReapDone, ReadEof, vars, childVars,
           pipeVars, masterVars
  <1> QED
    BY <1>1, <1>2, <1>3, <1>4, <1>5, <1>6, <1>7, <1>8, <1>9, <1>10, <1>11, <1>12,
       <1>13, <1>14, <1>15
    DEF Next, Master, ChildStep

\* child_toggle_rawmode changes the master's callback at once and the child's
\* flag through a packet: the two copies never differ by anything but the
\* toggles on their way, whatever dies, is kicked or broadcasts in between.
THEOREM RawModeKept == Spec => []RawModeAgrees
  <1>1. Typed /\ Agreed => RawModeAgrees
    <2> SUFFICES ASSUME Typed, Agreed, NEW c \in child_map, pc[c] \in Running
                 PROVE  (c \in child_rawmode <=> c \in raw_mode_cb) <=> (Toggles(c) % 2 = 0)
      BY DEF RawModeAgrees
    <2>1. c \in Child /\ outpipe[c] \in Seq(Packet)
      BY DEF Typed, TypeOK
    <2>2. {i \in 1..Len(outpipe[c]) : outpipe[c][i].cmd = "RAWMODE"}
             = Hits(outpipe[c], Kind("RAWMODE"))
      BY <2>1 DEF Hits, Kind
    <2>3. {i \in 1..Len(queue) : queue[i] = To(c, "RAWMODE", none)}
             = Hits(queue, {To(c, "RAWMODE", none)})
      BY DEF Hits
    <2>4. Toggles(c) = OnWay(c, "RAWMODE")
      BY <2>2, <2>3 DEF Toggles, OnWay, Count
    <2> QED
      BY <2>1, <2>4 DEF Agreed, Agree
  <1> QED
    BY <1>1, TypedInit, TypedNext, BooksInit, BooksNext, FramesInit, FramesNext,
       AgreedInit, AgreedNext, PTL DEF Spec

-----------------------------------------------------------------------------
(***************************************************************************)
(* Without broadcasts, a child has at most one call under way.             *)
(***************************************************************************)

\* Nobody has sent a broadcast.
Silent ==
    /\ \A c \in Child :
          /\ cur[c].cmd # "BCASTMSG"
          /\ \A i \in 1..Len(readpipe[c]) : readpipe[c][i].cmd # "BCASTMSG"
    /\ job.req.cmd # "BCASTMSG"

LEMMA SilentInit == Init => Silent
  <1> SUFFICES ASSUME Init PROVE Silent
    OBVIOUS
  <1>1. NoReq.cmd = "NOP" /\ NoJob.req.cmd = "NOP"
    BY DEF NoReq, NoJob
  <1> QED
    BY <1>1 DEF Init, Silent

LEMMA SilentNext ==
    ASSUME "BCASTMSG" \notin Cmds
    PROVE  Typed /\ Silent /\ [Next]_vars => Silent'
  <1> SUFFICES ASSUME Typed, Silent, [Next]_vars PROVE Silent'
    OBVIOUS
  <1>0. /\ readpipe \in [Child -> Seq(Request)] /\ cur \in [Child -> Request]
        /\ NoReq.cmd = "NOP" /\ NoJob.req.cmd = "NOP"
    BY DEF Typed, TypeOK, NoReq, NoJob
  <1>1. ASSUME NEW c \in Child, NEW r \in Requests(c), SendMaster(c, r) PROVE Silent'
    <2>1. r.cmd # "BCASTMSG"
      BY DEF Requests
    <2> QED
      BY <1>0, <1>1, <2>1 DEF SendMaster, Silent, pipeVars, masterVars
  <1>2. ASSUME NEW c \in Child, WriteRequest(c) PROVE Silent'
    <2>1. /\ readpipe' = [readpipe EXCEPT ![c] = Append(@, cur[c])]
          /\ UNCHANGED <<cur, job>>
      BY <1>2 DEF WriteRequest, masterVars
    <2>2. ASSUME NEW d \in Child, NEW i \in 1..Len(readpipe'[d])
          PROVE  readpipe'[d][i].cmd # "BCASTMSG"
      <3>1. CASE d = c
        <4>1. readpipe[c] \in Seq(Request) /\ cur[c] \in Request
          BY <1>0
        <4>2. readpipe'[c] = Append(readpipe[c], cur[c])
          BY <1>0, <2>1
        <4>3. /\ Len(readpipe'[c]) = Len(readpipe[c]) + 1
              /\ readpipe'[c][Len(readpipe[c]) + 1] = cur[c]
              /\ \A j \in 1..Len(readpipe[c]) : readpipe'[c][j] = readpipe[c][j]
          BY <4>1, <4>2
        <4>4. i \in 1..Len(readpipe[c]) \/ i = Len(readpipe[c]) + 1
          BY <3>1, <4>1, <4>3
        <4> QED
          BY <3>1, <4>3, <4>4 DEF Silent
      <3>2. CASE d # c
        BY <1>0, <2>1, <2>2, <3>2 DEF Silent
      <3> QED
        BY <3>1, <3>2
    <2> QED
      BY <2>1, <2>2 DEF Silent
  <1>3. ASSUME NEW c \in Child, PollRequests(c) \/ Exit(c) PROVE Silent'
    <2>1. /\ cur' = cur \/ cur' = [cur EXCEPT ![c] = NoReq]
          /\ UNCHANGED <<readpipe, job>>
      BY <1>3 DEF PollRequests, Exit, masterVars
    <2> QED
      BY <1>0, <2>1 DEF Silent
  <1>4. ASSUME NEW c \in Child, ReadRequest(c) PROVE Silent'
    <2>1. /\ readpipe' = [readpipe EXCEPT ![c] = Tail(@)] /\ cur' = cur
          /\ job'.req = Head(readpipe[c]) /\ readpipe[c] # <<>>
      BY <1>4 DEF ReadRequest, childVars
    <2>2. /\ readpipe[c] \in Seq(Request)
          /\ Head(readpipe[c]) = readpipe[c][1] /\ 1 \in 1..Len(readpipe[c])
          /\ \A i \in 1..Len(Tail(readpipe[c])) :
                i + 1 \in 1..Len(readpipe[c]) /\ Tail(readpipe[c])[i] = readpipe[c][i + 1]
      BY <1>0, <2>1
    <2>3. ASSUME NEW d \in Child, NEW i \in 1..Len(readpipe'[d])
          PROVE  readpipe'[d][i].cmd # "BCASTMSG"
      <3>1. CASE d = c
        <4>1. readpipe'[c] = Tail(readpipe[c])
          BY <1>0, <2>1
        <4> QED
          BY <2>2, <3>1, <4>1 DEF Silent
      <3>2. CASE d # c
        BY <1>0, <2>1, <2>3, <3>2 DEF Silent
      <3> QED
        BY <3>1, <3>2
    <2> QED
      BY <2>1, <2>2, <2>3 DEF Silent
  <1>5. ASSUME NEW c \in Child, ReapChild(c) PROVE Silent'
    BY <1>0, <1>5 DEF ReapChild, Silent
  <1>6. ASSUME \/ InsertChild \/ Finish \/ \E c \in Child : Fork(c) \/ VisitChild(c)
        PROVE  Silent'
    <2>1. UNCHANGED <<cur, readpipe>>
      BY <1>6 DEF InsertChild, Finish, Fork, VisitChild, childVars, pipeVars
    <2>2. job'.req.cmd # "BCASTMSG"
      <3>1. CASE InsertChild \/ Finish
        BY <1>0, <3>1 DEF InsertChild, Finish
      <3>2. CASE \E c \in Child : Fork(c)
        BY <1>0, <3>2 DEF Fork, NoJob
      <3>3. CASE \E c \in Child : VisitChild(c)
        <4>1. job'.req = job.req
          BY <3>3 DEF VisitChild, Typed, TypeOK
        <4> QED
          BY <4>1 DEF Silent
      <3> QED
        BY <1>6, <3>1, <3>2, <3>3
    <2> QED
      BY <2>1, <2>2 DEF Silent
  <1>7. ASSUME UNCHANGED <<cur, readpipe, job>> PROVE Silent'
    BY <1>7 DEF Silent
  <1>8. \/ EvPoll \/ EndRound \/ SendPacket \/ Finalize \/ ReapDone \/ Tick \/ UNCHANGED vars
        \/ \E c \in Child : ReadEof(c) \/ ClientRead(c) \/ SigChld(c)
        => UNCHANGED <<cur, readpipe, job>>
    BY DEF EvPoll, EndRound, SendPacket, Finalize, ReapDone, Tick, ReadEof, ClientRead,
           SigChld, vars, childVars, pipeVars, masterVars
  <1> QED
    BY <1>1, <1>2, <1>3, <1>4, <1>5, <1>6, <1>7, <1>8 DEF Next, Master, ChildStep

\* Where the call of c can be: written and not read, being executed, or
\* answered by an ALLDONE that c has not read.
Serving(c) == IF mpc = "serve" /\ job.sender = c THEN 1 ELSE 0
Calls(c) == Len(readpipe[c]) + Serving(c) + OnWay(c, "ALLDONE")

\* It is in one of these places, once, while c waits in send_master, and in
\* none of them when c does not.
OneCall(c) == pc[c] \in Running => Calls(c) = IF pc[c] = "waiting" THEN 1 ELSE 0
OneCallEach == \A c \in Child : OneCall(c)

LEMMA CallsType ==
    ASSUME Typed, NEW c \in Child
    PROVE  /\ Len(readpipe[c]) \in Nat /\ Serving(c) \in {0, 1}
           /\ OnWay(c, "ALLDONE") \in Nat /\ Calls(c) \in Nat
  <1>1. Len(readpipe[c]) \in Nat /\ Serving(c) \in {0, 1}
    BY DEF Typed, TypeOK, Serving
  <1>2. OnWay(c, "ALLDONE") \in Nat
    BY OnWayType
  <1> QED
    BY <1>1, <1>2 DEF Calls

LEMMA OneCallInit == Init => OneCallEach
  BY DEF Init, OneCallEach, OneCall, Running

\* A step that does not move the call of c.
LEMMA OneCallFrame ==
    ASSUME OneCallEach, NEW c \in Child,
           readpipe'[c] = readpipe[c], OnWay(c, "ALLDONE")' = OnWay(c, "ALLDONE"),
           Serving(c)' = Serving(c),
           pc'[c] \in Running => pc[c] \in Running /\ (pc'[c] = "waiting" <=> pc[c] = "waiting")
    PROVE  OneCall(c)'
  <1>1. Calls(c)' = Calls(c)
    BY DEF Calls
  <1> QED
    BY <1>1 DEF OneCallEach, OneCall

LEMMA OneCallNext ==
    Typed /\ Typed' /\ Books /\ Frames /\ Agreed /\ Silent /\ OneCallEach /\ [Next]_vars
      => OneCallEach'
  <1> SUFFICES ASSUME Typed, Typed', Books, Frames, Agreed, Silent, OneCallEach, [Next]_vars,
                      NEW d \in Child
               PROVE  OneCall(d)'
    BY DEF OneCallEach
  <1> DEFINE done == OnWay(d, "ALLDONE")
  <1>0. /\ pc \in [Child -> Running \cup Dead \cup {"free"}]
        /\ outpipe \in [Child -> Seq(Packet)] /\ readpipe \in [Child -> Seq(Request)]
        /\ cur \in [Child -> Request]
    BY DEF Typed, TypeOK
  <1>00. /\ Len(readpipe[d]) \in Nat /\ Serving(d) \in {0, 1}
         /\ done \in Nat /\ Calls(d) \in Nat
    BY CallsType
  <1>1. ASSUME NEW c \in Child, NEW r \in Requests(c), SendMaster(c, r) PROVE OneCall(d)'
    <2>1. pc[c] = "ready" /\ pc' = [pc EXCEPT ![c] = "sending"] /\ UNCHANGED <<pipeVars, masterVars>>
      BY <1>1 DEF SendMaster
    <2>2. UNCHANGED <<readpipe, outpipe, queue, mpc, job>>
      BY <2>1 DEF pipeVars, masterVars
    <2>3. done' = done
      BY <2>2, OnWayFrame
    <2>4. Serving(d)' = Serving(d)
      BY <2>2 DEF Serving
    <2> QED
      BY <1>0, <2>1, <2>2, <2>3, <2>4, OneCallFrame DEF Running
  <1>2. ASSUME NEW c \in Child, WriteRequest(c) PROVE OneCall(d)'
    <2>1. /\ pc[c] = "sending" /\ pc' = [pc EXCEPT ![c] = "waiting"]
          /\ readpipe' = [readpipe EXCEPT ![c] = Append(@, cur[c])]
          /\ UNCHANGED <<outpipe, queue, mpc, job>>
      BY <1>2 DEF WriteRequest, masterVars
    <2>2. done' = done
      BY <2>1, OnWayFrame
    <2>3. Serving(d)' = Serving(d)
      BY <2>1 DEF Serving
    <2>4. CASE d = c
      <3>1. Len(readpipe'[d]) = Len(readpipe[d]) + 1
        <4>1. readpipe'[d] = Append(readpipe[d], cur[d])
          BY <1>0, <2>1, <2>4
        <4>2. readpipe[d] \in Seq(Request) /\ cur[d] \in Request
          BY <1>0
        <4> QED
          BY <4>1, <4>2, AppendLast
      <3>2. Calls(d) = 0
        BY <2>1, <2>4 DEF OneCallEach, OneCall, Running
      <3>3. Calls(d)' = Calls(d) + 1
        <4>1. Calls(d) = Len(readpipe[d]) + Serving(d) + done
          BY DEF Calls
        <4>2. Calls(d)' = Len(readpipe[d]) + 1 + Serving(d) + done
          BY <2>2, <2>3, <3>1 DEF Calls
        <4> HIDE DEF done
        <4> QED
          BY <1>00, <4>1, <4>2
      <3>4. pc'[d] = "waiting"
        BY <1>0, <2>1, <2>4
      <3> QED
        BY <3>2, <3>3, <3>4 DEF OneCall
    <2>5. CASE d # c
      <3>1. readpipe'[d] = readpipe[d] /\ pc'[d] = pc[d]
        BY <1>0, <2>1, <2>5
      <3> QED
        BY <2>2, <2>3, <3>1, OneCallFrame
    <2> QED
      BY <2>4, <2>5
  <1>3. ASSUME NEW c \in Child, ClientRead(c) PROVE OneCall(d)'
    <2>1. /\ pc[c] = "ready" /\ pc' = [pc EXCEPT ![c] = "drain"]
          /\ UNCHANGED <<readpipe, outpipe, queue, mpc, job>>
      BY <1>3 DEF ClientRead, pipeVars, masterVars
    <2>2. done' = done
      BY <2>1, OnWayFrame
    <2>3. Serving(d)' = Serving(d)
      BY <2>1 DEF Serving
    <2> QED
      BY <1>0, <2>1, <2>2, <2>3, OneCallFrame DEF Running
  <1>4. ASSUME NEW c \in Child, PollRequests(c) PROVE OneCall(d)'
    <2>1. PICK p : p = Head(outpipe[c])
      OBVIOUS
    <2>2. /\ pc[c] \in {"waiting", "drain"} /\ UNCHANGED <<readpipe, queue, mpc, job>>
          /\ \/ outpipe' = [outpipe EXCEPT ![c] = Tail(@)]
             \/ outpipe' = [outpipe EXCEPT ![c] = <<>>]
          /\ \/ pc' = [pc EXCEPT ![c] = "ready"] /\ p.cmd = "ALLDONE"
             \/ pc' = [pc EXCEPT ![c] = "exiting"] /\ p.cmd = "KICK"
             \/ pc' = pc /\ p.cmd \notin {"ALLDONE", "KICK"}
      BY <1>4, <2>1 DEF PollRequests, masterVars
    <2>3. Serving(d)' = Serving(d)
      BY <2>2 DEF Serving
    <2>4. CASE d # c
      <3>1. outpipe'[d] = outpipe[d] /\ pc'[d] = pc[d]
        BY <1>0, <2>2, <2>4
      <3>2. done' = done
        BY <2>2, <3>1, OnWayFrame
      <3> QED
        BY <2>2, <2>3, <3>1, <3>2, OneCallFrame
    <2>5. CASE d = c /\ p.cmd = "KICK"
      <3>1. pc'[d] = "exiting"
        BY <1>0, <2>2, <2>5
      <3> QED
        BY <3>1 DEF OneCall, Running
    <2>6. CASE d = c /\ p.cmd # "KICK"
      <3>1. done' \in Nat /\ done = done' + (IF p.cmd = "ALLDONE" THEN 1 ELSE 0)
        BY <1>4, <2>1, <2>6, OnWayPoll
      <3>2. CASE p.cmd = "ALLDONE"
        <4>1. done = done' + 1 /\ pc'[d] = "ready"
          BY <1>0, <2>2, <2>6, <3>1, <3>2
        <4>2. Calls(d) = Calls(d)' + 1
          <5>1. Calls(d) = Len(readpipe[d]) + Serving(d) + done
            BY DEF Calls
          <5>2. Calls(d)' = Len(readpipe[d]) + Serving(d) + done'
            BY <2>2, <2>3 DEF Calls
          <5> HIDE DEF done
          <5> QED
            BY <1>00, <3>1, <4>1, <5>1, <5>2
        <4>3. Calls(d)' \in Nat
          <5>1. Calls(d)' = Len(readpipe[d]) + Serving(d) + done'
            BY <2>2, <2>3 DEF Calls
          <5> HIDE DEF done
          <5> QED
            BY <1>00, <3>1, <5>1
        <4>4. Calls(d) \in {0, 1}
          BY <2>2, <2>6 DEF OneCallEach, OneCall, Running
        <4>5. Calls(d)' = 0
          BY <4>2, <4>3, <4>4
        <4> QED
          BY <4>1, <4>5 DEF OneCall
      <3>3. CASE p.cmd # "ALLDONE"
        <4>1. done' = done /\ pc' = pc
          BY <1>00, <2>2, <2>6, <3>1, <3>3
        <4> QED
          BY <2>2, <2>3, <4>1, OneCallFrame
      <3> QED
        BY <3>2, <3>3
    <2> QED
      BY <2>4, <2>5, <2>6
  <1>5. ASSUME NEW c \in Child, SigChld(c) \/ Exit(c) PROVE OneCall(d)'
    <2>1. /\ pc' = [pc EXCEPT ![c] = "zombie"] \/ pc' = [pc EXCEPT ![c] = "exiting"]
          /\ outpipe' = outpipe \/ outpipe' = [outpipe EXCEPT ![c] = <<>>]
          /\ UNCHANGED <<readpipe, queue, mpc, job>>
      BY <1>5 DEF SigChld, Exit, pipeVars, masterVars
    <2>2. CASE d = c
      BY <1>0, <2>1, <2>2 DEF OneCall, Running
    <2>3. CASE d # c
      <3>1. outpipe'[d] = outpipe[d] /\ pc'[d] = pc[d] /\ readpipe'[d] = readpipe[d]
        BY <1>0, <2>1, <2>3
      <3>2. done' = done /\ Serving(d)' = Serving(d)
        BY <2>1, <3>1, OnWayFrame DEF Serving
      <3> QED
        BY <3>1, <3>2, OneCallFrame
    <2> QED
      BY <2>2, <2>3
  <1>6. ASSUME NEW c \in Child, Fork(c) PROVE OneCall(d)'
    <2>1. /\ pc[c] = "free" /\ pc' = [pc EXCEPT ![c] = "ready"] /\ queue = <<>>
          /\ mpc = "accept" /\ mpc' = "insert" /\ UNCHANGED <<readpipe, outpipe, queue>>
      BY <1>6 DEF Fork, pipeVars, Typed, Shape
    <2>2. Serving(d) = 0 /\ Serving(d)' = 0
      BY <2>1 DEF Serving
    <2>3. done' = done
      BY <2>1, OnWayFrame
    <2>4. CASE d = c
      <3>1. outpipe[d] = <<>> /\ readpipe[d] = <<>>
        BY <2>1, <2>4 DEF Frames, Quiet, Running
      <3>2. Count(<<>>, Kind("ALLDONE")) = 0 /\ Count(<<>>, {To(d, "ALLDONE", none)}) = 0
        BY CountNone
      <3>3. done = 0 /\ Len(readpipe[d]) = 0
        BY <2>1, <3>1, <3>2 DEF OnWay
      <3>4. Calls(d)' = 0
        BY <2>1, <2>2, <2>3, <3>3 DEF Calls
      <3>5. pc'[d] = "ready"
        BY <1>0, <2>1, <2>4
      <3> QED
        BY <3>4, <3>5 DEF OneCall
    <2>5. CASE d # c
      BY <1>0, <2>1, <2>2, <2>3, <2>5, OneCallFrame
    <2> QED
      BY <2>4, <2>5
  <1>7. ASSUME NEW c \in Child, ReadRequest(c) PROVE OneCall(d)'
    <2>1. PICK r : r = Head(readpipe[c])
      OBVIOUS
    <2>2. /\ mpc = "dispatch" /\ mpc' = "serve" /\ job'.sender = c
          /\ readpipe[c] # <<>> /\ readpipe' = [readpipe EXCEPT ![c] = Tail(@)]
          /\ queue = <<>>
          /\ queue' = HandleChild(r, c, c) \/ queue' = <<>>
          /\ UNCHANGED <<pc, outpipe>>
      BY <1>7, <2>1 DEF ReadRequest, Typed, Shape, childVars
    <2>3. r \in Request /\ r.cmd # "BCASTMSG"
      <3>1. readpipe[c] \in Seq(Request)
        BY <1>0
      <3>2. r \in Request /\ r = readpipe[c][1] /\ 1 \in 1..Len(readpipe[c])
        BY <2>1, <2>2, <3>1
      <3> QED
        BY <3>2 DEF Silent
    <2>4. done' = done
      <3>1. CASE queue' = HandleChild(r, c, c)
        BY <2>2, <2>3, <3>1, OnWayHandler DEF Counted
      <3>2. CASE queue' = <<>>
        BY <2>2, <3>2, OnWayFrame
      <3> QED
        BY <2>2, <3>1, <3>2
    <2>5. CASE d = c
      <3>1. Len(readpipe[d]) = Len(readpipe'[d]) + 1 /\ Len(readpipe'[d]) \in Nat
        <4>1. readpipe[d] \in Seq(Request) /\ readpipe'[d] = Tail(readpipe[d]) /\ readpipe[d] # <<>>
          BY <1>0, <2>2, <2>5
        <4> QED
          BY <4>1
      <3>2. Serving(d) = 0 /\ Serving(d)' = 1
        BY <2>2, <2>5 DEF Serving
      <3>3. Calls(d)' = Calls(d)
        <4>1. Calls(d) = Len(readpipe[d]) + Serving(d) + done
          BY DEF Calls
        <4>2. Calls(d)' = Len(readpipe'[d]) + Serving(d)' + done'
          BY DEF Calls
        <4> HIDE DEF done
        <4> QED
          BY <1>00, <2>4, <3>1, <3>2, <4>1, <4>2
      <3> QED
        BY <2>2, <3>3 DEF OneCallEach, OneCall
    <2>6. CASE d # c
      <3>1. Serving(d) = 0 /\ Serving(d)' = 0 /\ readpipe'[d] = readpipe[d]
        BY <1>0, <2>2, <2>6 DEF Serving
      <3> QED
        BY <2>2, <2>4, <3>1, OneCallFrame
    <2> QED
      BY <2>5, <2>6
  <1>8. ASSUME SendPacket PROVE OneCall(d)'
    <2>1. UNCHANGED <<pc, readpipe, mpc, job>>
      BY <1>8 DEF SendPacket, childVars
    <2>2. CASE pc[d] \in Running
      <3>1. done' = done
        BY <1>8, <2>2, OnWaySend DEF Agreed, Counted
      <3>2. Serving(d)' = Serving(d)
        BY <2>1 DEF Serving
      <3> QED
        BY <2>1, <3>1, <3>2, OneCallFrame
    <2>3. CASE pc[d] \notin Running
      BY <2>1, <2>3 DEF OneCall
    <2> QED
      BY <2>2, <2>3
  <1>9. ASSUME NEW c \in Child, VisitChild(c) PROVE OneCall(d)'
    <2>1. /\ queue = <<>> /\ queue' = HandleChild(job.req, job.sender, c)
          /\ job.req \in Request /\ job.sender \in Child /\ job'.sender = job.sender
          /\ UNCHANGED <<pc, readpipe, outpipe, mpc>>
      BY <1>9 DEF VisitChild, Typed, TypeOK, Shape, childVars, pipeVars
    <2>2. job.req.cmd # "BCASTMSG"
      BY DEF Silent
    <2>3. done' = done
      BY <2>1, <2>2, OnWayHandler DEF Counted
    <2>4. Serving(d)' = Serving(d)
      BY <2>1 DEF Serving
    <2> QED
      BY <2>1, <2>3, <2>4, OneCallFrame
  <1>10. ASSUME Finalize PROVE OneCall(d)'
    <2>1. PICK s \in Child, r \in Request : s = job.sender /\ r = job.req
      BY <1>10 DEF Finalize, Typed, TypeOK, Shape
    <2>2. PICK texts \in Prints(r, s), answer \in Answers(r, s) :
             queue' = texts \o answer \o <<To(s, "ALLDONE", none)>>
      BY <1>10, <2>1 DEF Finalize
    <2>3. /\ queue = <<>> /\ mpc = "serve" /\ mpc' = "finish"
          /\ UNCHANGED <<pc, readpipe, outpipe, job>>
      BY <1>10 DEF Finalize, childVars, pipeVars
    <2>4. Ending(queue', d, s, answer)
      BY <2>2, OnWayFinalize
    <2> DEFINE M == {To(d, "ALLDONE", none)}
               o == Count(outpipe[d], Kind("ALLDONE"))
    <2>5. Count(queue, M) = 0 /\ Count(queue', M) = IF d = s THEN 1 ELSE 0
      BY <2>3, <2>4, CountNone DEF Ending
    <2>6. Serving(d) = (IF d = s THEN 1 ELSE 0) /\ Serving(d)' = 0
      BY <2>1, <2>3 DEF Serving
    <2>7. o \in Nat
      BY OnWayType
    <2>8. /\ Calls(d) = Len(readpipe[d]) + Serving(d) + (o + Count(queue, M))
          /\ Calls(d)' = Len(readpipe[d]) + Serving(d)' + (o + Count(queue', M))
      BY <2>3 DEF Calls, OnWay
    <2>9. Calls(d)' = Calls(d)
      <3> HIDE DEF M, o, done
      <3>1. CASE d = s
        <4>1. /\ Calls(d) = Len(readpipe[d]) + 1 + (o + 0)
              /\ Calls(d)' = Len(readpipe[d]) + 0 + (o + 1)
          BY <2>5, <2>6, <2>8, <3>1
        <4>2. \A a, b \in Nat : a + 1 + (b + 0) = a + 0 + (b + 1)
          OBVIOUS
        <4>3. Len(readpipe[d]) \in Nat
          BY <1>00
        <4> QED
          BY <2>7, <4>1, <4>2, <4>3, Zenon
      <3>2. CASE d # s
        BY <1>00, <2>5, <2>6, <2>7, <2>8, <3>2
      <3> QED
        BY <3>1, <3>2
    <2> QED
      BY <2>3, <2>9 DEF OneCallEach, OneCall
  <1>11. ASSUME NEW c \in Child, ReapChild(c) PROVE OneCall(d)'
    <2>1. /\ mpc = "reap" /\ pc' = [pc EXCEPT ![c] = "free"]
          /\ readpipe' = [readpipe EXCEPT ![c] = <<>>] /\ UNCHANGED <<outpipe, queue, mpc, job>>
      BY <1>11 DEF ReapChild
    <2>2. CASE d = c
      BY <1>0, <2>1, <2>2 DEF OneCall, Running
    <2>3. CASE d # c
      <3>1. pc'[d] = pc[d] /\ readpipe'[d] = readpipe[d] /\ done' = done
        BY <1>0, <2>1, <2>3, OnWayFrame
      <3>2. Serving(d)' = Serving(d)
        BY <2>1 DEF Serving
      <3> QED
        BY <3>1, <3>2, OneCallFrame
    <2> QED
      BY <2>2, <2>3
  <1>12. ASSUME UNCHANGED <<pc, readpipe, outpipe, queue>>,
                (mpc # "serve" /\ mpc' # "serve") \/ UNCHANGED <<mpc, job>>
         PROVE  OneCall(d)'
    <2>1. done' = done
      BY <1>12, OnWayFrame
    <2>2. Serving(d)' = Serving(d)
      BY <1>12 DEF Serving
    <2> QED
      BY <1>12, <2>1, <2>2, OneCallFrame
  <1>13. \/ Tick \/ EvPoll \/ InsertChild \/ EndRound \/ Finish \/ ReapDone \/ UNCHANGED vars
         \/ \E c \in Child : ReadEof(c)
         => /\ UNCHANGED <<pc, readpipe, outpipe, queue>>
            /\ (mpc # "serve" /\ mpc' # "serve") \/ UNCHANGED <<mpc, job>>
    BY DEF Tick, EvPoll, InsertChild, EndRound, Finish, ReapDone, ReadEof, vars, childVars,
           pipeVars, masterVars
  <1> QED
    BY <1>1, <1>2, <1>3, <1>4, <1>5, <1>6, <1>7, <1>8, <1>9, <1>10, <1>11, <1>12, <1>13
    DEF Next, Master, ChildStep

-----------------------------------------------------------------------------
(***************************************************************************)
(* Without broadcasts, send_master is a remote procedure call.             *)
(***************************************************************************)

\* The refinement mapping, for one child.
View(c) ==
    /\ pc[c] \notin Running => rpc[c] = "away"
    /\ pc[c] = "waiting" /\ Unserved(c) => rpc[c] = "called"
    /\ pc[c] = "waiting" /\ ~Unserved(c) => rpc[c] = "served"
    /\ pc[c] \in Running /\ pc[c] # "waiting" => rpc[c] = "idle"

LEMMA Views ==
    ASSUME Typed, Typed', NEW c \in Child
    PROVE  View(c) /\ View(c)'
  <1>1. pc[c] \in Running \cup Dead \cup {"free"} /\ pc'[c] \in Running \cup Dead \cup {"free"}
    BY DEF Typed, TypeOK
  <1>2. View(c)
    BY <1>1 DEF View, rpc, Running, Dead
  <1>3. View(c)'
    BY <1>1 DEF View, rpc, Running, Dead
  <1> QED
    BY <1>2, <1>3

\* A step after which c sees the same of the master.
Same(c) ==
    /\ pc'[c] \in Running <=> pc[c] \in Running
    /\ pc'[c] = "waiting" <=> pc[c] = "waiting"
    /\ pc[c] = "waiting" => (Unserved(c)' <=> Unserved(c))

LEMMA SameView ==
    ASSUME Typed, Typed', NEW c \in Child, Same(c)
    PROVE  rpc'[c] = rpc[c]
  <1>1. View(c) /\ View(c)'
    BY Views
  <1> QED
    BY <1>1 DEF View, Same

LEMMA RpcStutter ==
    ASSUME Typed, Typed', \A c \in Child : Same(c)
    PROVE  rpc' = rpc
  <1>1. \A c \in Child : rpc'[c] = rpc[c]
    BY SameView
  <1>2. rpc = [c \in Child |-> rpc[c]] /\ rpc' = [c \in Child |-> rpc'[c]]
    BY DEF rpc
  <1> QED
    BY <1>1, <1>2

LEMMA RpcMove ==
    ASSUME Typed, Typed', NEW c \in Child, NEW v, rpc'[c] = v,
           \A d \in Child \ {c} : Same(d)
    PROVE  rpc' = [rpc EXCEPT ![c] = v]
  <1>1. \A d \in Child \ {c} : rpc'[d] = rpc[d]
    BY SameView
  <1>2. rpc = [d \in Child |-> rpc[d]] /\ rpc' = [d \in Child |-> rpc'[d]]
    BY DEF rpc
  <1> HIDE DEF rpc
  <1>3. [rpc EXCEPT ![c] = v] = [d \in Child |-> IF d = c THEN v ELSE rpc[d]]
    BY <1>2
  <1> QED
    BY <1>1, <1>2, <1>3

\* A child that reads an ALLDONE is inside send_master, and its request has
\* been executed.
LEMMA ServedFirst ==
    ASSUME Typed, OneCallEach, NEW c \in Child, PollRequests(c),
           Head(outpipe[c]).cmd = "ALLDONE"
    PROVE  pc[c] = "waiting" /\ ~Unserved(c)
  <1> DEFINE done == OnWay(c, "ALLDONE")
  <1>1. pc[c] \in {"waiting", "drain"} /\ pc[c] \in Running
    BY DEF PollRequests, Running
  <1>2. done' \in Nat /\ done = done' + 1
    BY OnWayPoll
  <1>3. Calls(c) = Len(readpipe[c]) + Serving(c) + done
    BY DEF Calls
  <1>4. /\ Len(readpipe[c]) \in Nat /\ Serving(c) \in {0, 1} /\ readpipe[c] \in Seq(Request)
    BY CallsType DEF Typed, TypeOK
  <1>5. Calls(c) = IF pc[c] = "waiting" THEN 1 ELSE 0
    BY <1>1 DEF OneCallEach, OneCall
  <1>6. pc[c] = "waiting" /\ Len(readpipe[c]) = 0 /\ Serving(c) = 0
    <2> HIDE DEF done
    <2> QED
      BY <1>1, <1>2, <1>3, <1>4, <1>5
  <1>7. readpipe[c] = <<>>
    BY <1>4, <1>6
  <1> QED
    BY <1>6, <1>7 DEF Unserved, Serving

RpcInv == Typed /\ Books /\ Frames /\ Agreed /\ Silent /\ OneCallEach

LEMMA RpcNext == RpcInv /\ RpcInv' /\ [Next]_vars => [R!Next]_rpc
  <1> SUFFICES ASSUME RpcInv, RpcInv', [Next]_vars PROVE R!Next \/ rpc' = rpc
    OBVIOUS
  <1> USE DEF RpcInv
  <1>0. /\ pc \in [Child -> Running \cup Dead \cup {"free"}]
        /\ readpipe \in [Child -> Seq(Request)] /\ cur \in [Child -> Request]
    BY DEF Typed, TypeOK
  <1>00. ASSUME NEW c \in Child PROVE View(c) /\ View(c)'
    BY Views
  <1>1. ASSUME NEW c \in Child, NEW r \in Requests(c), SendMaster(c, r) PROVE rpc' = rpc
    <2>1. \A d \in Child : Same(d)
      BY <1>0, <1>1 DEF SendMaster, Same, Unserved, Running, pipeVars, masterVars
    <2> QED
      BY <2>1, RpcStutter
  <1>2. ASSUME NEW c \in Child, WriteRequest(c) PROVE R!Next
    <2>1. /\ pc[c] = "sending" /\ pc' = [pc EXCEPT ![c] = "waiting"]
          /\ readpipe' = [readpipe EXCEPT ![c] = Append(@, cur[c])] /\ UNCHANGED <<mpc, job>>
      BY <1>2 DEF WriteRequest, masterVars
    <2>2. Unserved(c)' /\ pc'[c] = "waiting"
      <3>1. readpipe[c] \in Seq(Request) /\ cur[c] \in Request
        BY <1>0
      <3>2. readpipe'[c] = Append(readpipe[c], cur[c])
        BY <1>0, <2>1
      <3> QED
        BY <1>0, <2>1, <3>1, <3>2, AppendLast DEF Unserved
    <2>3. rpc[c] = "idle" /\ rpc'[c] = "called"
      BY <1>00, <2>1, <2>2 DEF View, Running
    <2>4. \A d \in Child \ {c} : Same(d)
      BY <1>0, <2>1 DEF Same, Unserved
    <2>5. rpc' = [rpc EXCEPT ![c] = "called"]
      BY <2>3, <2>4, RpcMove
    <2> QED
      BY <2>3, <2>5 DEF R!Next, R!Call, R!Step
  <1>3. ASSUME NEW c \in Child, ClientRead(c) PROVE rpc' = rpc
    <2>1. \A d \in Child : Same(d)
      BY <1>0, <1>3 DEF ClientRead, Same, Unserved, Running, pipeVars, masterVars
    <2> QED
      BY <2>1, RpcStutter
  <1>4. ASSUME NEW c \in Child, PollRequests(c) PROVE R!Next \/ rpc' = rpc
    <2>1. UNCHANGED <<readpipe, mpc, job>> /\ pc[c] \in {"waiting", "drain"}
      BY <1>4 DEF PollRequests, masterVars
    <2>2. CASE Head(outpipe[c]).cmd = "ALLDONE"
      <3>1. pc' = [pc EXCEPT ![c] = "ready"]
        BY <1>4, <2>2 DEF PollRequests
      <3>2. pc[c] = "waiting" /\ ~Unserved(c)
        BY <1>4, <2>2, ServedFirst
      <3>3. rpc[c] = "served" /\ rpc'[c] = "idle"
        BY <1>0, <1>00, <3>1, <3>2 DEF View, Running
      <3>4. \A d \in Child \ {c} : Same(d)
        BY <1>0, <2>1, <3>1 DEF Same, Unserved
      <3>5. rpc' = [rpc EXCEPT ![c] = "idle"]
        BY <3>3, <3>4, RpcMove
      <3> QED
        BY <3>3, <3>5 DEF R!Next, R!Return, R!Step
    <2>3. CASE Head(outpipe[c]).cmd = "KICK"
      <3>1. pc' = [pc EXCEPT ![c] = "exiting"]
        BY <1>4, <2>3 DEF PollRequests
      <3>2. pc[c] \in Running /\ pc'[c] \notin Running
        BY <1>0, <2>1, <3>1 DEF Running
      <3>3. rpc[c] # "away" /\ rpc'[c] = "away"
        BY <1>00, <3>2 DEF View
      <3>4. \A d \in Child \ {c} : Same(d)
        BY <1>0, <2>1, <3>1 DEF Same, Unserved
      <3>5. rpc' = [rpc EXCEPT ![c] = "away"]
        BY <3>3, <3>4, RpcMove
      <3> QED
        BY <3>3, <3>5 DEF R!Next, R!Leave
    <2>4. CASE Head(outpipe[c]).cmd \notin {"ALLDONE", "KICK"}
      <3>1. pc' = pc
        BY <1>4, <2>4 DEF PollRequests
      <3>2. \A d \in Child : Same(d)
        BY <2>1, <3>1 DEF Same, Unserved
      <3> QED
        BY <3>2, RpcStutter
    <2> QED
      BY <2>2, <2>3, <2>4
  <1>5. ASSUME NEW c \in Child, SigChld(c) PROVE rpc' = rpc
    <2>1. \A d \in Child : Same(d)
      BY <1>0, <1>5 DEF SigChld, Same, Unserved, Running, pipeVars
    <2> QED
      BY <2>1, RpcStutter
  <1>6. ASSUME NEW c \in Child, Exit(c) PROVE R!Next
    <2>1. /\ pc[c] \in Running /\ pc' = [pc EXCEPT ![c] = "exiting"]
          /\ UNCHANGED <<readpipe, mpc, job>>
      BY <1>6 DEF Exit, masterVars, Running
    <2>2. pc'[c] \notin Running
      BY <1>0, <2>1 DEF Running
    <2>3. rpc[c] # "away" /\ rpc'[c] = "away"
      BY <1>00, <2>1, <2>2 DEF View
    <2>4. \A d \in Child \ {c} : Same(d)
      BY <1>0, <2>1 DEF Same, Unserved
    <2>5. rpc' = [rpc EXCEPT ![c] = "away"]
      BY <2>3, <2>4, RpcMove
    <2> QED
      BY <2>3, <2>5 DEF R!Next, R!Leave
  <1>7. ASSUME NEW c \in Child, Fork(c) PROVE R!Next
    <2>1. /\ pc[c] = "free" /\ pc' = [pc EXCEPT ![c] = "ready"] /\ mpc = "accept"
          /\ mpc' = "insert" /\ UNCHANGED readpipe
      BY <1>7 DEF Fork, pipeVars
    <2>2. rpc[c] = "away" /\ rpc'[c] = "idle"
      BY <1>0, <1>00, <2>1 DEF View, Running
    <2>3. \A d \in Child \ {c} : Same(d)
      BY <1>0, <2>1 DEF Same, Unserved
    <2>4. rpc' = [rpc EXCEPT ![c] = "idle"]
      BY <2>2, <2>3, RpcMove
    <2> QED
      BY <2>2, <2>4 DEF R!Next, R!Join, R!Step
  <1>8. ASSUME NEW c \in Child, ReadRequest(c) PROVE rpc' = rpc
    <2>1. /\ mpc = "dispatch" /\ mpc' = "serve" /\ job'.sender = c /\ UNCHANGED pc
          /\ readpipe[c] # <<>> /\ readpipe' = [readpipe EXCEPT ![c] = Tail(@)]
      BY <1>8 DEF ReadRequest, childVars
    <2>2. Unserved(c) /\ Unserved(c)'
      BY <2>1 DEF Unserved
    <2>3. \A d \in Child \ {c} : Unserved(d)' <=> Unserved(d)
      BY <1>0, <2>1 DEF Unserved
    <2>4. \A d \in Child : Same(d)
      BY <2>1, <2>2, <2>3 DEF Same
    <2> QED
      BY <2>4, RpcStutter
  <1>9. ASSUME Finalize PROVE R!Next \/ rpc' = rpc
    <2>1. PICK s \in Child : s = job.sender
      BY <1>9 DEF Finalize, Typed, Shape
    <2>2. mpc = "serve" /\ mpc' = "finish" /\ UNCHANGED <<pc, readpipe, job>>
      BY <1>9 DEF Finalize, childVars, pipeVars
    <2>3. \A d \in Child \ {s} : Same(d)
      BY <2>1, <2>2 DEF Same, Unserved
    <2>4. CASE pc[s] \in Running
      <3>1. Serving(s) = 1 /\ Unserved(s)
        BY <2>1, <2>2 DEF Serving, Unserved
      <3>2. /\ Len(readpipe[s]) \in Nat /\ OnWay(s, "ALLDONE") \in Nat
            /\ Calls(s) = Len(readpipe[s]) + 1 + OnWay(s, "ALLDONE")
        BY <3>1, CallsType DEF Calls
      <3>3. Calls(s) = IF pc[s] = "waiting" THEN 1 ELSE 0
        BY <2>4 DEF OneCallEach, OneCall
      <3>4. pc[s] = "waiting" /\ Len(readpipe[s]) = 0
        BY <3>2, <3>3
      <3>5. readpipe[s] = <<>>
        BY <1>0, <3>4
      <3>6. ~Unserved(s)'
        BY <2>2, <3>5 DEF Unserved
      <3>7. rpc[s] = "called" /\ rpc'[s] = "served"
        BY <1>00, <2>2, <3>1, <3>4, <3>6 DEF View
      <3>8. rpc' = [rpc EXCEPT ![s] = "served"]
        BY <2>3, <3>7, RpcMove
      <3> QED
        BY <3>7, <3>8 DEF R!Next, R!Serve, R!Step
    <2>5. CASE pc[s] \notin Running
      <3>1. Same(s)
        BY <2>2, <2>5 DEF Same, Running
      <3> QED
        BY <2>3, <3>1, RpcStutter
    <2> QED
      BY <2>4, <2>5
  <1>10. ASSUME NEW c \in Child, ReapChild(c) PROVE rpc' = rpc
    <2>1. /\ pc[c] = "zombie" /\ pc' = [pc EXCEPT ![c] = "free"]
          /\ readpipe' = [readpipe EXCEPT ![c] = <<>>] /\ UNCHANGED <<mpc, job>>
      BY <1>10 DEF ReapChild
    <2>2. \A d \in Child : Same(d)
      BY <1>0, <2>1 DEF Same, Unserved, Running
    <2> QED
      BY <2>2, RpcStutter
  <1>11. ASSUME UNCHANGED <<pc, readpipe>>,
                \/ mpc # "serve" /\ mpc' # "serve"
                \/ mpc' = mpc /\ job'.sender = job.sender
         PROVE  rpc' = rpc
    <2>1. \A d \in Child : Same(d)
      BY <1>11 DEF Same, Unserved
    <2> QED
      BY <2>1, RpcStutter
  <1>12. \/ Tick \/ EvPoll \/ InsertChild \/ EndRound \/ SendPacket \/ Finish \/ ReapDone
         \/ UNCHANGED vars
         \/ \E c \in Child : ReadEof(c) \/ VisitChild(c)
         => /\ UNCHANGED <<pc, readpipe>>
            /\ \/ mpc # "serve" /\ mpc' # "serve"
               \/ mpc' = mpc /\ job'.sender = job.sender
    <2>1. ASSUME NEW c \in Child, VisitChild(c) PROVE job'.sender = job.sender
      BY <2>1 DEF VisitChild, Typed, TypeOK
    <2> QED
      BY <2>1 DEF Tick, EvPoll, InsertChild, EndRound, SendPacket, Finish, ReapDone, ReadEof,
             VisitChild, vars, childVars, pipeVars, masterVars
  <1> QED
    BY <1>1, <1>2, <1>3, <1>4, <1>5, <1>6, <1>7, <1>8, <1>9, <1>10, <1>11, <1>12
    DEF Next, Master, ChildStep

LEMMA RpcInvariant ==
    ASSUME "BCASTMSG" \notin Cmds
    PROVE  Spec => []RpcInv
  BY TypedInit, TypedNext, BooksInit, BooksNext, FramesInit, FramesNext, AgreedInit,
     AgreedNext, SilentInit, SilentNext, OneCallInit, OneCallNext, PTL DEF Spec, RpcInv

\* As long as no child may broadcast, what the children see of the master is
\* a remote procedure call: req handlers run once per request, between the
\* write of send_master and its return, also when clients leave, are kicked
\* or crash.
THEOREM SendMasterIsCall ==
    ASSUME "BCASTMSG" \notin Cmds
    PROVE  Spec => R!Spec
  <1>1. Init => R!Init
    <2> SUFFICES ASSUME Init PROVE rpc = [c \in Child |-> "away"]
      BY DEF R!Init
    <2> QED
      BY DEF Init, rpc
  <1> QED
    BY <1>1, RpcInvariant, RpcNext, PTL DEF Spec, R!Spec

\* Under the same condition send_master never returns before the master has
\* executed the request: the ALLDONE that req_pass_msg sends to bystanders is
\* the only cause of the early return.
THEOREM ReturnsOnlyServed ==
    ASSUME "BCASTMSG" \notin Cmds
    PROVE  Spec => ReturnsServed
  <1>1. RpcInv /\ RpcInv' /\ [Next]_vars => [\A c \in Child : Returns(c) => ~Unserved(c)]_vars
    <2> SUFFICES ASSUME RpcInv, RpcInv', [Next]_vars, NEW c \in Child, Returns(c), Unserved(c)
                 PROVE  FALSE
      OBVIOUS
    <2>1. R!Next \/ rpc' = rpc
      BY RpcNext
    <2>2. View(c) /\ View(c)'
      BY Views DEF RpcInv
    <2>3. rpc[c] = "called" /\ rpc'[c] = "idle"
      BY <2>2 DEF Returns, View, Running
    <2>4. PICK d \in Child : R!Join(d) \/ R!Call(d) \/ R!Serve(d) \/ R!Return(d) \/ R!Leave(d)
      BY <2>1, <2>3 DEF R!Next
    <2>5. rpc \in [Child -> {rpc[e] : e \in Child}]
      BY DEF rpc
    <2> QED
      BY <2>3, <2>4, <2>5 DEF R!Join, R!Call, R!Serve, R!Return, R!Leave, R!Step
  <1> QED
    BY <1>1, RpcInvariant, PTL DEF Spec, ReturnsServed

\* Without broadcasts the server never wedges itself, whatever the pipes hold,
\* with administrators and for as long as it runs: a child that is about to
\* write has nothing in its pipe, so the master never waits for one that waits
\* for it.  Only the ALLDONEs of other children's broadcasts let requests pile
\* up.
THEOREM OnlyBroadcastsWedge ==
    ASSUME "BCASTMSG" \notin Cmds
    PROVE  Spec => []NoCircularWait
  <1>1. RpcInv => NoCircularWait
    <2> SUFFICES ASSUME RpcInv, NEW c \in Child, CircularWait(c)
                 PROVE  FALSE
      BY DEF NoCircularWait
    <2>1. pc[c] = "sending" /\ Len(readpipe[c]) = PipeCap
      BY DEF CircularWait
    <2>2. Calls(c) = 0
      BY <2>1 DEF RpcInv, OneCallEach, OneCall, Running
    <2>3. Len(readpipe[c]) = 0
      BY <2>2, CallsType DEF RpcInv, Calls
    <2> QED
      BY <2>1, <2>3, BoundAssumption
  <1> QED
    BY <1>1, RpcInvariant, PTL
=============================================================================
