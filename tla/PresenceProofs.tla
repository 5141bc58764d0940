--------------------------- MODULE PresenceProofs ---------------------------
(***************************************************************************)
(* Machine-checked proofs about Presence, for every set of children, names *)
(* and rooms and every bound.                                              *)
(***************************************************************************)
EXTENDS Presence, TLAPS

-----------------------------------------------------------------------------
(***************************************************************************)
(* What room_user_add, room_user_del and free do to one room->users.       *)
(***************************************************************************)

\* A name occurs once: the maps are hash tables without duplicate keys.
Unique(S) == \A e, f \in S : e.name = f.name => e = f

\* No key of the map has been freed.
AllLive(S) == \A e \in S : e.key = "live"

LEMMA DeletedType ==
    ASSUME NEW S \in SUBSET Entry, NEW u, NEW T \in Deleted(S, u)
    PROVE  T \in SUBSET Entry
  BY DEF Deleted, Named, Freed

LEMMA AddedType ==
    ASSUME NEW S \in SUBSET Entry, NEW u \in User, NEW c \in Child, NEW T \in Added(S, u, c)
    PROVE  T \in SUBSET Entry
  BY DEF Added, Fresh, Entry

LEMMA FreeType ==
    ASSUME NEW S \in SUBSET Entry, NEW c \in Child
    PROVE  Free(S, c) \in SUBSET Entry
  BY DEF Free, Entry

\* Without freed keys room_user_del takes out exactly the entry of the name.
LEMMA DeletedLive ==
    ASSUME NEW S \in SUBSET Entry, NEW u, Unique(S), AllLive(S), NEW T \in Deleted(S, u)
    PROVE  T = {e \in S : e.name # u}
  BY DEF Deleted, Named, Freed, Unique, AllLive, Entry

\* Without freed keys room_user_add fails only if the name is there.
LEMMA AddedLive ==
    ASSUME NEW S \in SUBSET Entry, NEW u, NEW c, AllLive(S), NEW T \in Added(S, u, c)
    PROVE  \/ T = S /\ \E e \in S : e.name = u
           \/ T = S \cup {Fresh(u, c)} /\ \A e \in S : e.name # u
  BY DEF Added, Named, Freed, AllLive, Entry

\* Freeing a string that is no key changes nothing.
LEMMA FreeNone ==
    ASSUME NEW S \in SUBSET Entry, NEW c, \A e \in S : e.of # c
    PROVE  Free(S, c) = S
  BY DEF Free

-----------------------------------------------------------------------------
(***************************************************************************)
(* The type invariant.  A session acts under a name: the login has stored  *)
(* it before the master is told, and LOGOUT does not take it away.         *)
(***************************************************************************)
NamesSet ==
    \A c \in Child :
        /\ pc[c] = "user" => name[c] \in User
        /\ pc[c] \in {"room", "game"} => user[c] \in User
        /\ c \in again => user[c] \in User

TypeInv == TypeOK /\ NamesSet

LEMMA TypeInit == Init => TypeInv
  BY PresenceAssumption DEF Init, TypeInv, TypeOK, NamesSet, Stage

LEMMA TypeStep == TypeInv /\ [Next]_vars => TypeInv'
  <1> SUFFICES ASSUME TypeInv, [Next]_vars PROVE TypeInv'
    OBVIOUS
  <1> USE PresenceAssumption DEF TypeInv, TypeOK, NamesSet, Stage
  <1>1. ASSUME NEW c \in Child, Connect(c) PROVE TypeInv'
    BY <1>1 DEF Connect
  <1>2. ASSUME NEW c \in Child, NEW u \in User, Login(c, u) PROVE TypeInv'
    BY <1>2 DEF Login
  <1>3. ASSUME NEW c \in Child, ChangeUser(c) PROVE TypeInv'
    <2>1. name[c] \in User
      BY <1>3 DEF ChangeUser
    <2>2. users' \in [Room -> SUBSET Entry]
      BY <1>3, FreeType DEF ChangeUser
    <2>3. shared' \subseteq User
      BY <1>3, <2>1 DEF ChangeUser
    <2> QED
      BY <1>3, <2>1, <2>2, <2>3 DEF ChangeUser
  <1>4. ASSUME NEW c \in Child, SetRoom(c) PROVE TypeInv'
    <2>1. PICK T \in Added(users[Start], user[c], c) : users' = [users EXCEPT ![Start] = T]
      BY <1>4 DEF SetRoom
    <2>2. user[c] \in User /\ users[Start] \in SUBSET Entry
      BY <1>4 DEF SetRoom
    <2>3. T \in SUBSET Entry
      BY <2>1, <2>2, AddedType
    <2> QED
      BY <1>4, <2>1, <2>3 DEF SetRoom
  <1>5. ASSUME NEW c \in Child, Limited(c) PROVE TypeInv'
    BY <1>5 DEF Limited
  <1>6. ASSUME NEW c \in Child, NEW r \in Room, Move(c, r) PROVE TypeInv'
    <2> DEFINE left(S) == [users EXCEPT ![room[c]] = S]
    <2>1. PICK S \in Deleted(users[room[c]], user[c]) :
            \E T \in Added(left(S)[r], user[c], c) : users' = [left(S) EXCEPT ![r] = T]
      BY <1>6 DEF Move
    <2>2. S \in SUBSET Entry
      BY DeletedType
    <2>3. left(S) \in [Room -> SUBSET Entry]
      BY <2>2
    <2> HIDE DEF left
    <2>4. PICK T \in Added(left(S)[r], user[c], c) : users' = [left(S) EXCEPT ![r] = T]
      BY <2>1
    <2>5. user[c] \in User /\ left(S)[r] \in SUBSET Entry
      BY <1>6, <2>3 DEF Move
    <2>6. T \in SUBSET Entry
      BY <2>5, AddedType
    <2>7. users' \in [Room -> SUBSET Entry]
      BY <2>3, <2>4, <2>6
    <2> QED
      BY <1>6, <2>7 DEF Move
  <1>7. ASSUME NEW c \in Child, NEW r \in Room, Teleport(c, r) PROVE TypeInv'
    <2>1. PICK S \in Deleted(users[room[c]], user[c]), T \in Added(users[r], user[c], c) :
            users' = [users EXCEPT ![room[c]] = S, ![r] = T]
      BY <1>7 DEF Teleport
    <2>2. user[c] \in User /\ users[r] \in SUBSET Entry /\ users[room[c]] \in SUBSET Entry
      BY <1>7 DEF Teleport
    <2>3. S \in SUBSET Entry /\ T \in SUBSET Entry
      BY <2>2, AddedType, DeletedType
    <2>4. users' \in [Room -> SUBSET Entry]
      BY <2>1, <2>3
    <2> QED
      BY <1>7, <2>4 DEF Teleport
  <1>8. ASSUME NEW c \in Child, Logout(c) PROVE TypeInv'
    BY <1>8 DEF Logout
  <1>9. ASSUME NEW c \in Child, Exit(c) PROVE TypeInv'
    BY <1>9 DEF Exit
  <1>10. ASSUME NEW c \in Child, Reap(c) PROVE TypeInv'
    <2>1. PICK S : /\ S = users[room[c]] \/ S \in Deleted(users[room[c]], user[c])
                   /\ users' = [r \in Room |-> Free(IF r = room[c] THEN S ELSE users[r], c)]
      BY <1>10 DEF Reap
    <2>2. S \in SUBSET Entry
      BY <2>1, DeletedType
    <2>3. users' \in [Room -> SUBSET Entry]
      BY <2>1, <2>2, FreeType
    <2> QED
      BY <1>10, <2>3 DEF Reap
  <1>11. CASE UNCHANGED vars
    BY <1>11 DEF vars
  <1> QED
    BY <1>1, <1>2, <1>3, <1>4, <1>5, <1>6, <1>7, <1>8, <1>9, <1>10, <1>11 DEF Next

\* Type correctness: whatever clients, verbs and freed keys do, child->room is
\* a room and room->users holds entries of children under names.
THEOREM TypeCorrect == Spec => []TypeOK
  <1>1. TypeInv => TypeOK
    BY DEF TypeInv
  <1> QED
    BY TypeInit, TypeStep, <1>1, PTL DEF Spec

-----------------------------------------------------------------------------
(***************************************************************************)
(* The books are right until somebody logs out or is teleported.  True     *)
(* entries alone are not inductive: that room_user_del by name takes out   *)
(* the entry of the child itself rests on names being unique in a room,    *)
(* and on a child that is not in the game yet being in the start room.     *)
(***************************************************************************)

\* Before its CHANGEUSER a child has no name, before its SETROOM it is in
\* Start, and nobody is subject to the rate limit while logging in.
Staged ==
    /\ \A c \in Child :
        /\ pc[c] \in {"free", "auth", "user"} => user[c] = NoUser
        /\ pc[c] \in {"free", "auth", "user", "room"} => room[c] = Start
    /\ again = {}

UniqueNames == \A r \in Room : Unique(users[r])

\* A name that two children have now is in shared.
SharedKnown ==
    \A c, d \in Child : c # d /\ user[c] = user[d] /\ user[c] # NoUser => user[c] \in shared

Listed ==
    \A c \in Child :
        pc[c] = "game" /\ user[c] \notin shared => Fresh(user[c], c) \in users[room[c]]

Books == Staged /\ EntriesTrue /\ UniqueNames /\ SharedKnown /\ Listed

PresenceInv == TypeInv /\ (Orderly => Books)

LEMMA PresenceInit == Init => PresenceInv
  <1> SUFFICES ASSUME Init PROVE PresenceInv
    OBVIOUS
  <1>1. TypeInv
    BY TypeInit
  <1>2. Books
    BY PresenceAssumption
    DEF Init, Books, Staged, EntriesTrue, UniqueNames, Unique, SharedKnown, Listed
  <1> QED
    BY <1>1, <1>2 DEF PresenceInv

\* Logouts and teleports are counted and never uncounted.
LEMMA OrderlyBefore ==
    ASSUME TypeInv, [Next]_vars, Orderly'
    PROVE  Orderly /\ UNCHANGED <<logouts, teleports>>
  BY DEF TypeInv, TypeOK, Orderly, Next, vars, Connect, Login, ChangeUser, SetRoom, Limited,
         Move, Teleport, Logout, Exit, Reap

\* room_user_add adds at most the entry of the child, does so if the name is
\* not there, and keeps names unique.
LEMMA AddedBooks ==
    ASSUME NEW S \in SUBSET Entry, NEW c \in Child, NEW u \in User,
           Unique(S), AllLive(S), NEW T \in Added(S, u, c)
    PROVE  /\ Unique(T)
           /\ \A e \in T : e \in S \/ e = Fresh(u, c)
           /\ \A e \in S : e \in T
           /\ (\A e \in S : e.name # u) => Fresh(u, c) \in T
  BY AddedLive DEF Unique, Fresh

\* room_user_del of a child in its room takes out the entry of its name, and
\* the child has no other entry in any room.
LEMMA DeletedBooks ==
    ASSUME TypeInv, Books, NEW c \in Child, user[c] \in User,
           NEW S \in Deleted(users[room[c]], user[c])
    PROVE  /\ S = {e \in users[room[c]] : e.name # user[c]}
           /\ \A q \in Room : \A e \in users[q] : e.of = c => q = room[c] /\ e.name = user[c]
  <1>1. room[c] \in Room /\ users \in [Room -> SUBSET Entry]
    BY DEF TypeInv, TypeOK
  <1>2. S = {e \in users[room[c]] : e.name # user[c]}
    <2>1. Unique(users[room[c]]) /\ AllLive(users[room[c]])
      BY <1>1 DEF Books, UniqueNames, EntriesTrue, AllLive
    <2> QED
      BY <2>1, <1>1, DeletedLive
  <1>3. \A q \in Room : \A e \in users[q] : e.of = c => q = room[c] /\ e.name = user[c]
    BY <1>1 DEF Books, EntriesTrue
  <1> QED
    BY <1>2, <1>3

LEMMA BooksStep ==
    ASSUME TypeInv, Orderly, Books, [Next]_vars, Orderly'
    PROVE  Books'
  <1>0. UNCHANGED <<logouts, teleports>>
    BY OrderlyBefore
  <1>t. /\ pc \in [Child -> Stage] /\ user \in [Child -> User \cup {NoUser}]
        /\ name \in [Child -> User \cup {NoUser}]
        /\ room \in [Child -> Room] /\ users \in [Room -> SUBSET Entry]
    BY DEF TypeInv, TypeOK
  <1>u. NoUser \notin User /\ Start \in Room
    BY PresenceAssumption
  <1>l. \A r \in Room : AllLive(users[r]) /\ Unique(users[r])
    BY DEF Books, EntriesTrue, UniqueNames, AllLive
  <1>e. \A r \in Room : \A e \in users[r] : e.of \in Child /\ e.name \in User
    BY <1>t DEF Entry
  <1>1. ASSUME NEW c \in Child, Connect(c) PROVE Books'
    BY <1>1, <1>t DEF Connect, Books, Staged, EntriesTrue, UniqueNames, SharedKnown, Listed
  <1>2. ASSUME NEW c \in Child, NEW u \in User, Login(c, u) PROVE Books'
    BY <1>2, <1>t DEF Login, Books, Staged, EntriesTrue, UniqueNames, SharedKnown, Listed
  <1>3. ASSUME NEW c \in Child, ChangeUser(c) PROVE Books'
    <2>1. user[c] = NoUser /\ name[c] \in User
      BY <1>3 DEF ChangeUser, Books, Staged, TypeInv, NamesSet
    <2>2. \A r \in Room : \A e \in users[r] : e.of # c
      BY <2>1, <1>e, <1>u DEF Books, EntriesTrue
    <2>3. users' = users
      <3>1. \A r \in Room : Free(users[r], c) = users[r]
        BY <2>2, <1>t, FreeNone
      <3> QED
        BY <3>1, <1>3, <1>t DEF ChangeUser
    <2>4. user' = [user EXCEPT ![c] = name[c]] /\ pc' = [pc EXCEPT ![c] = "room"]
          /\ room' = room /\ again' = again /\ shared \subseteq shared'
      BY <1>3 DEF ChangeUser
    <2>5. Staged'
      BY <2>4, <1>t, <1>3 DEF Books, Staged, ChangeUser
    <2>6. EntriesTrue'
      BY <2>2, <2>3, <2>4, <1>t, <1>e DEF Books, EntriesTrue
    <2>7. UniqueNames'
      BY <2>3 DEF Books, UniqueNames
    <2>8. SharedKnown'
      <3> SUFFICES ASSUME NEW a \in Child, NEW b \in Child, a # b, user'[a] = user'[b],
                          user'[a] # NoUser
                   PROVE  user'[a] \in shared'
        BY DEF SharedKnown
      <3>1. CASE a # c /\ b # c
        BY <3>1, <2>4, <1>t DEF Books, SharedKnown
      <3>2. CASE a = c
        <4>1. b \in Child \ {c} /\ user[b] = name[c] /\ user'[a] = name[c]
          BY <3>2, <2>4, <1>t
        <4> QED
          BY <4>1, <1>3 DEF ChangeUser
      <3>3. CASE b = c
        <4>1. a \in Child \ {c} /\ user[a] = name[c] /\ user'[a] = name[c]
          BY <3>3, <2>4, <1>t
        <4> QED
          BY <4>1, <1>3 DEF ChangeUser
      <3> QED
        BY <3>1, <3>2, <3>3
    <2>9. Listed'
      BY <2>3, <2>4, <1>t DEF Books, Listed
    <2> QED
      BY <2>5, <2>6, <2>7, <2>8, <2>9 DEF Books
  <1>4. ASSUME NEW c \in Child, SetRoom(c) PROVE Books'
    <2>1. PICK T \in Added(users[Start], user[c], c) : users' = [users EXCEPT ![Start] = T]
      BY <1>4 DEF SetRoom
    <2>2. user[c] \in User /\ room[c] = Start
      BY <1>4 DEF SetRoom, TypeInv, NamesSet, Books, Staged
    <2>3. /\ Unique(T)
          /\ \A e \in T : e \in users[Start] \/ e = Fresh(user[c], c)
          /\ \A e \in users[Start] : e \in T
          /\ (\A e \in users[Start] : e.name # user[c]) => Fresh(user[c], c) \in T
      BY <2>2, <1>t, <1>u, <1>l, AddedBooks
    <2>4. user' = user /\ room' = room /\ pc' = [pc EXCEPT ![c] = "game"]
          /\ again' = again /\ shared' = shared
      BY <1>4, <2>2, <1>t DEF SetRoom
    <2>5. Staged'
      BY <2>4, <1>t DEF Books, Staged
    <2>6. EntriesTrue'
      <3>1. Fresh(user[c], c).key = "live" /\ Fresh(user[c], c).name = user[c]
            /\ Fresh(user[c], c).of = c
        BY DEF Fresh
      <3> QED
        BY <2>1, <2>2, <2>3, <2>4, <3>1, <1>t DEF Books, EntriesTrue
    <2>7. UniqueNames'
      BY <2>1, <2>3, <1>t DEF Books, UniqueNames
    <2>8. SharedKnown'
      BY <2>4 DEF Books, SharedKnown
    <2>9. Listed'
      <3> SUFFICES ASSUME NEW a \in Child, pc'[a] = "game", user[a] \notin shared
                   PROVE  Fresh(user[a], a) \in users'[room[a]]
        BY <2>4 DEF Listed
      <3>1. CASE a # c
        <4>1. Fresh(user[a], a) \in users[room[a]]
          BY <3>1, <2>4, <1>t DEF Books, Listed
        <4> QED
          BY <4>1, <2>1, <2>3, <1>t
      <3>2. CASE a = c
        <4>1. ASSUME NEW e \in users[Start], e.name = user[c] PROVE e = Fresh(user[c], c)
          <5>1. e.of \in Child /\ user[e.of] = user[c] /\ e.key = "live"
            BY <4>1, <1>e, <1>u DEF Books, EntriesTrue
          <5>2. e.of = c
            BY <5>1, <2>2, <1>u, <3>2 DEF Books, SharedKnown
          <5>3. e \in Entry
            BY <1>t, <1>u
          <5> QED
            BY <4>1, <5>1, <5>2, <5>3 DEF Entry, Fresh
        <4>2. Fresh(user[c], c) \in T
          BY <4>1, <2>3
        <4> QED
          BY <4>2, <3>2, <2>1, <2>2, <1>t
      <3> QED
        BY <3>1, <3>2
    <2> QED
      BY <2>5, <2>6, <2>7, <2>8, <2>9 DEF Books
  <1>5. ASSUME NEW c \in Child, Limited(c) PROVE Books'
    BY <1>5 DEF Limited, Books, Staged
  <1>6. ASSUME NEW c \in Child, NEW r \in Room, Move(c, r) PROVE Books'
    <2>1. PICK S \in Deleted(users[room[c]], user[c]) :
            \E T \in Added([users EXCEPT ![room[c]] = S][r], user[c], c) :
               users' = [[users EXCEPT ![room[c]] = S] EXCEPT ![r] = T]
      BY <1>6 DEF Move
    <2>2. PICK left : left = [users EXCEPT ![room[c]] = S]
      OBVIOUS
    <2>3. PICK T \in Added(left[r], user[c], c) : users' = [left EXCEPT ![r] = T]
      BY <2>1, <2>2
    <2>4. user[c] \in User
      BY <1>6 DEF Move, TypeInv, NamesSet
    <2>5. /\ left \in [Room -> SUBSET Entry]
          /\ \A q \in Room : \A e \in left[q] : e \in users[q] /\ e.of # c
          /\ \A q \in Room : \A e \in users[q] : e.name # user[c] => e \in left[q]
      <3>1. /\ S = {e \in users[room[c]] : e.name # user[c]}
            /\ \A q \in Room : \A e \in users[q] :
                  e.of = c => q = room[c] /\ e.name = user[c]
        BY <2>4, DeletedBooks
      <3> QED
        BY <3>1, <2>2, <1>t
    <2>6. \A q \in Room : Unique(left[q]) /\ AllLive(left[q])
      BY <2>5, <1>l DEF Unique, AllLive
    <2>7. /\ Unique(T)
          /\ \A e \in T : e \in left[r] \/ e = Fresh(user[c], c)
          /\ \A e \in left[r] : e \in T
          /\ (\A e \in left[r] : e.name # user[c]) => Fresh(user[c], c) \in T
      BY <2>4, <2>5, <2>6, AddedBooks
    <2>8. user' = user /\ room' = [room EXCEPT ![c] = r] /\ pc' = pc
          /\ again' = again /\ shared' = shared
      BY <1>6 DEF Move
    <2>9. Staged'
      BY <2>8, <1>t, <1>6 DEF Books, Staged, Move
    <2>10. EntriesTrue'
      <3>1. Fresh(user[c], c).key = "live" /\ Fresh(user[c], c).name = user[c]
            /\ Fresh(user[c], c).of = c
        BY DEF Fresh
      <3> SUFFICES ASSUME NEW q \in Room, NEW e \in users'[q]
                   PROVE  e.key = "live" /\ user[e.of] = e.name /\ room'[e.of] = q
        BY <2>8 DEF EntriesTrue
      <3>2. CASE e \in left[q]
        <4>1. e.key = "live" /\ user[e.of] = e.name /\ room[e.of] = q /\ e.of # c
          BY <3>2, <2>5 DEF Books, EntriesTrue
        <4>2. e.of \in Child
          BY <3>2, <2>5, <1>e
        <4> QED
          BY <4>1, <4>2, <2>8, <1>t
      <3>3. CASE e \notin left[q]
        <4>1. q = r /\ e = Fresh(user[c], c)
          BY <3>3, <2>3, <2>5, <2>7
        <4> QED
          BY <4>1, <3>1, <2>8, <1>t
      <3> QED
        BY <3>2, <3>3
    <2>11. UniqueNames'
      BY <2>3, <2>5, <2>6, <2>7 DEF UniqueNames
    <2>12. SharedKnown'
      BY <2>8 DEF Books, SharedKnown
    <2>13. Listed'
      <3> SUFFICES ASSUME NEW a \in Child, pc[a] = "game", user[a] \notin shared
                   PROVE  Fresh(user[a], a) \in users'[room'[a]]
        BY <2>8 DEF Listed
      <3>1. CASE a # c
        <4>1. Fresh(user[a], a) \in users[room[a]] /\ room[a] \in Room /\ room'[a] = room[a]
          BY <3>1, <2>8, <1>t DEF Books, Listed
        <4>2. user[a] # user[c]
          BY <3>1, <2>4, <1>u DEF Books, SharedKnown
        <4>3. Fresh(user[a], a) \in left[room[a]]
          BY <4>1, <4>2, <2>5 DEF Fresh
        <4> QED
          BY <4>1, <4>3, <2>3, <2>5, <2>7
      <3>2. CASE a = c
        <4>1. ASSUME NEW e \in left[r], e.name = user[c] PROVE FALSE
          <5>1. e \in users[r] /\ e.of # c
            BY <2>5
          <5>2. e.of \in Child /\ user[e.of] = user[c]
            BY <5>1, <4>1, <1>e DEF Books, EntriesTrue
          <5> QED
            BY <5>1, <5>2, <2>4, <1>u, <3>2 DEF Books, SharedKnown
        <4>2. Fresh(user[c], c) \in T
          BY <4>1, <2>7
        <4> QED
          BY <4>2, <3>2, <2>3, <2>5, <2>8, <1>t
      <3> QED
        BY <3>1, <3>2
    <2> QED
      BY <2>9, <2>10, <2>11, <2>12, <2>13 DEF Books
  <1>7. ASSUME NEW c \in Child, NEW r \in Room, Teleport(c, r) PROVE Books'
    BY <1>7, <1>0 DEF Teleport, TypeInv, TypeOK
  <1>8. ASSUME NEW c \in Child, Logout(c) PROVE Books'
    BY <1>8, <1>0 DEF Logout, TypeInv, TypeOK
  <1>9. ASSUME NEW c \in Child, Exit(c) PROVE Books'
    BY <1>9, <1>t DEF Exit, Books, Staged, EntriesTrue, UniqueNames, SharedKnown, Listed
  <1>10. ASSUME NEW c \in Child, Reap(c) PROVE Books'
    <2>1. PICK left : /\ left \in [Room -> SUBSET Entry]
                      /\ \A q \in Room : \A e \in left[q] : e \in users[q] /\ e.of # c
                      /\ \A q \in Room : \A e \in users[q] :
                            e.name # user[c] => e \in left[q]
                      /\ users' = [q \in Room |-> Free(left[q], c)]
      <3>1. CASE user[c] = NoUser
        <4>1. users' = [q \in Room |-> Free(users[q], c)]
          BY <3>1, <1>10, <1>t DEF Reap
        <4>2. \A q \in Room : \A e \in users[q] : e.of # c
          BY <3>1, <1>e, <1>u DEF Books, EntriesTrue
        <4> QED
          BY <4>1, <4>2, <1>t
      <3>2. CASE user[c] # NoUser
        <4>1. PICK S \in Deleted(users[room[c]], user[c]) :
                users' = [q \in Room |-> Free(IF q = room[c] THEN S ELSE users[q], c)]
          BY <3>2, <1>10 DEF Reap
        <4>2. PICK left : left = [users EXCEPT ![room[c]] = S]
          OBVIOUS
        <4>3. user[c] \in User
          BY <3>2, <1>t
        <4>4. /\ left \in [Room -> SUBSET Entry]
              /\ \A q \in Room : \A e \in left[q] : e \in users[q] /\ e.of # c
              /\ \A q \in Room : \A e \in users[q] : e.name # user[c] => e \in left[q]
          <5>1. /\ S = {e \in users[room[c]] : e.name # user[c]}
                /\ \A q \in Room : \A e \in users[q] :
                      e.of = c => q = room[c] /\ e.name = user[c]
            BY <4>3, DeletedBooks
          <5> QED
            BY <5>1, <4>2, <1>t
        <4>5. \A q \in Room : left[q] = IF q = room[c] THEN S ELSE users[q]
          BY <4>2, <1>t
        <4>6. users' = [q \in Room |-> Free(left[q], c)]
          BY <4>1, <4>5
        <4> QED
          BY <4>4, <4>6
      <3> QED
        BY <3>1, <3>2
    <2>2. users' = left
      <3>1. \A q \in Room : Free(left[q], c) = left[q]
        BY <2>1, FreeNone
      <3> QED
        BY <3>1, <2>1
    <2>3. /\ user' = [user EXCEPT ![c] = NoUser] /\ room' = [room EXCEPT ![c] = Start]
          /\ pc' = [pc EXCEPT ![c] = "free"] /\ again' = again \ {c} /\ shared' = shared
      BY <1>10 DEF Reap
    <2>4. Staged'
      BY <2>3, <1>t DEF Books, Staged
    <2>5. EntriesTrue'
      BY <2>1, <2>2, <2>3, <1>t, <1>e DEF Books, EntriesTrue
    <2>6. UniqueNames'
      BY <2>1, <2>2, <1>l DEF UniqueNames, Unique
    <2>7. SharedKnown'
      BY <2>3, <1>t DEF Books, SharedKnown
    <2>8. Listed'
      <3> SUFFICES ASSUME NEW a \in Child, a # c, pc[a] = "game", user[a] \notin shared
                   PROVE  Fresh(user[a], a) \in users'[room[a]]
        BY <2>3, <1>t DEF Listed
      <3>1. Fresh(user[a], a) \in users[room[a]] /\ user[a] \in User
        BY DEF Books, Listed, TypeInv, NamesSet
      <3>2. user[a] # user[c]
        BY <3>1, <1>u DEF Books, SharedKnown
      <3> QED
        BY <3>1, <3>2, <2>1, <2>2, <1>t DEF Fresh
    <2> QED
      BY <2>4, <2>5, <2>6, <2>7, <2>8 DEF Books
  <1>11. CASE UNCHANGED vars
    BY <1>11 DEF vars, Books, Staged, EntriesTrue, UniqueNames, SharedKnown, Listed
  <1> QED
    BY <1>1, <1>2, <1>3, <1>4, <1>5, <1>6, <1>7, <1>8, <1>9, <1>10, <1>11 DEF Next

LEMMA PresenceStep == PresenceInv /\ [Next]_vars => PresenceInv'
  BY TypeStep, OrderlyBefore, BooksStep DEF PresenceInv

LEMMA PresenceAlways == Spec => []PresenceInv
  BY PresenceInit, PresenceStep, PTL DEF Spec

\* Until the first LOGOUT or teleport every entry of every room->users has an
\* allocated key and leads to a child of that name in that room.
THEOREM EntriesCorrect == Spec => []OrderlyEntriesTrue
  <1>1. PresenceInv => OrderlyEntriesTrue
    BY DEF PresenceInv, Books, OrderlyEntriesTrue
  <1> QED
    BY PresenceAlways, <1>1, PTL

\* Until then every session whose name only it has used is listed in its room.
THEOREM SessionsFound == Spec => []SessionsListed
  <1>1. PresenceInv => SessionsListed
    BY DEF PresenceInv, Books, Listed, SessionsListed
  <1> QED
    BY PresenceAlways, <1>1, PTL
=============================================================================
