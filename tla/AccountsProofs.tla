--------------------------- MODULE AccountsProofs ---------------------------
(***************************************************************************)
(* Machine-checked proofs about Accounts, for every set of children, names *)
(* and passwords, every interval and every bound.                          *)
(***************************************************************************)
EXTENDS Accounts, FiniteSetTheorems, TLAPS

-----------------------------------------------------------------------------
(***************************************************************************)
(* The user database.                                                      *)
(***************************************************************************)

\* A name has one record: the map is a hash table without duplicate keys.
Unique(S) == \A r, s \in S : r.name = s.name => r = s

\* The counter of server_save_state runs from 0 to SAVE_INTERVAL - 1.
LEMMA Wrap ==
    ASSUME NEW I \in Nat \ {0, 1}, NEW k \in 0..I - 1
    PROVE  /\ k + 1 < I => (k + 1) % I = k + 1
           /\ k + 1 = I => (k + 1) % I = 0
  OBVIOUS

\* What server_save_state does to the counter and the file.
LEMMA Saved ==
    ASSUME TypeOK, NEW db \in SUBSET Record, Save(db)
    PROVE  /\ n' \in 0..SaveInterval - 1
           /\ \/ n' = 0 /\ file' = db
              \/ n' = n + 1 /\ file' = file
  <1>1. n \in 0..SaveInterval - 1 /\ SaveInterval \in Nat \ {0, 1}
    BY AccountsAssumption DEF TypeOK
  <1>2. \/ n + 1 < SaveInterval /\ n' = n + 1
        \/ n + 1 = SaveInterval /\ n' = 0
    <2>1. n' = (n + 1) % SaveInterval
      BY DEF Save
    <2>2. n + 1 < SaveInterval \/ n + 1 = SaveInterval
      BY <1>1
    <2> QED
      BY <1>1, <2>1, <2>2, Wrap
  <1> QED
    BY <1>1, <1>2 DEF Save

\* userdb_add leaves one record under the name and the others alone.
LEMMA Put ==
    ASSUME TypeOK, Unique(userdb), NEW r \in Record, UserdbAdd(r)
    PROVE  /\ userdb' \in SUBSET Record
           /\ Unique(userdb')
           /\ \A s \in userdb' : s \in userdb \/ s = r
           /\ \E x : \A u \in User \ {x} : Lookup(u)' = Lookup(u)
           /\ n' \in 0..SaveInterval - 1
           /\ \/ n' = 0 /\ file' = userdb'
              \/ n' = n + 1 /\ file' = file
  <1> DEFINE db == {s \in userdb : s.name # r.name} \cup {r}
  <1>1. db \in SUBSET Record /\ userdb' = db /\ Save(db)
    BY DEF UserdbAdd, TypeOK
  <1>2. Unique(db) /\ \A s \in db : s \in userdb \/ s = r
    BY DEF Unique
  <1>3. \A u \in User \ {r.name} : Lookup(u)' = Lookup(u)
    BY <1>1 DEF Lookup
  <1> HIDE DEF db
  <1> QED
    BY <1>1, <1>2, <1>3, Saved

\* userdb_remove only takes away.
LEMMA Removed ==
    ASSUME TypeOK, Unique(userdb), NEW u, UserdbRemove(u)
    PROVE  /\ userdb' \in SUBSET Record
           /\ Unique(userdb')
           /\ \A s \in userdb' : s \in userdb
           /\ \E x : \A v \in User \ {x} : Lookup(v)' = Lookup(v)
           /\ n' \in 0..SaveInterval - 1
           /\ \/ UNCHANGED dbvars
              \/ n' = 0 /\ file' = userdb'
              \/ n' = n + 1 /\ file' = file
  <1>1. CASE Lookup(u) = {}
    BY <1>1 DEF UserdbRemove, dbvars, TypeOK, Lookup
  <1>2. CASE Lookup(u) # {}
    <2> DEFINE db == userdb \ Lookup(u)
    <2>1. db \in SUBSET Record /\ userdb' = db /\ Save(db)
      BY <1>2 DEF UserdbRemove, TypeOK
    <2>2. Unique(db) /\ \A s \in db : s \in userdb
      BY DEF Unique
    <2>3. \A v \in User \ {u} : Lookup(v)' = Lookup(v)
      BY <2>1 DEF Lookup
    <2> HIDE DEF db
    <2> QED
      BY <2>1, <2>2, <2>3, Saved
  <1> QED
    BY <1>1, <1>2

\* A child holds one record at most, and one it knew or that is in the map.
LEMMA Answered ==
    ASSUME TypeOK, Unique(userdb), NEW c \in Child, NEW u \in User \cup {NoUser},
           NEW h \in {Answer(c, u), held[c]}
    PROVE  /\ h \in SUBSET Record
           /\ \A r, s \in h : r = s
           /\ \A r \in h : r \in held[c] \/ (r \in userdb /\ r.name = u)
  BY DEF TypeOK, Unique, Answer, Lookup

-----------------------------------------------------------------------------
(***************************************************************************)
(* Types, unique names, and what USERFILE is behind.  The counter bounds   *)
(* it: a change adds one user at most and one to the counter, which may be *)
(* ahead by the change that first_run_setup made, never behind.            *)
(***************************************************************************)
Named == \A c \in Child : pc[c] \in {"store", "game", "chpass"} => current_user[c] \in User

SaveInv == IsFiniteSet(Unsaved) /\ Cardinality(Unsaved) <= n

\* A file that is written is behind for nobody.
LEMMA Written ==
    ASSUME file' = userdb', n' \in Nat
    PROVE  SaveInv'
  <1>1. Unsaved' = {}
    BY DEF Unsaved, Lookup, Stored
  <1> QED
    BY <1>1, FS_EmptySet DEF SaveInv

\* A change that is counted and not written puts it behind for one more user.
LEMMA Unwritten ==
    ASSUME SaveInv, n \in Nat, NEW x, \A u \in User \ {x} : Lookup(u)' = Lookup(u),
           n' = n + 1, file' = file
    PROVE  SaveInv'
  <1> DEFINE more == Unsaved \cup {x}
  <1>1. Unsaved' \in SUBSET more
    BY DEF Unsaved, Stored
  <1>2. IsFiniteSet(more) /\ Cardinality(more) \in {Cardinality(Unsaved), Cardinality(Unsaved) + 1}
    BY FS_AddElement DEF SaveInv
  <1>3. IsFiniteSet(Unsaved') /\ Cardinality(Unsaved') <= Cardinality(more)
    BY <1>1, <1>2, FS_Subset
  <1>4. Cardinality(Unsaved) \in Nat /\ Cardinality(Unsaved') \in Nat
    BY <1>3, FS_CardinalityType DEF SaveInv
  <1> HIDE DEF more
  <1> QED
    BY <1>2, <1>3, <1>4 DEF SaveInv

DbInv == TypeOK /\ Unique(userdb) /\ Unique(file) /\ Named /\ SaveInv

LEMMA DbInit == Init => DbInv
  <1> SUFFICES ASSUME Init PROVE DbInv
    OBVIOUS
  <1>1. PICK p \in Pass : /\ userdb = {[name |-> Root, pass |-> p, priv |-> "ADMIN"]}
                          /\ file = userdb /\ n = 1
    BY DEF Init, Boot, Setup
  <1>2. userdb \subseteq Record /\ Unique(userdb)
    BY <1>1, AccountsAssumption DEF Record, Priv, Unique
  <1>3. 1 \in 0..SaveInterval - 1
    BY AccountsAssumption
  <1>4. Unsaved = {}
    BY <1>1 DEF Unsaved, Lookup, Stored
  <1>5. SaveInv
    BY <1>1, <1>4, FS_EmptySet DEF SaveInv
  <1> QED
    BY <1>1, <1>2, <1>3, <1>5, AccountsAssumption DEF Init, DbInv, TypeOK, Named, Priv

\* The process of a child ends.
LEMMA Left ==
    ASSUME TypeOK, NEW c \in Child, Leave(c)
    PROVE  /\ pc' \in [Child -> {"free", "auth", "store", "game", "chpass"}]
           /\ current_user' \in [Child -> User \cup {NoUser}]
           /\ held' \in [Child -> SUBSET Record]
           /\ failures' \in [Child -> 0..MaxFailures - 1]
           /\ are_admin' \subseteq Child /\ paced' \subseteq Child
           /\ pc'[c] = "free" /\ held'[c] = {}
           /\ \A d \in Child \ {c} : /\ pc'[d] = pc[d] /\ held'[d] = held[d]
                                     /\ current_user'[d] = current_user[d]
  BY AccountsAssumption DEF TypeOK, Leave

LEMMA DbStep == DbInv /\ [Next]_vars => DbInv'
  <1> SUFFICES ASSUME DbInv, [Next]_vars PROVE DbInv'
    OBVIOUS
  <1>t. TypeOK /\ Unique(userdb) /\ Unique(file) /\ Named /\ SaveInv
    BY DEF DbInv
  <1>a. /\ NoUser \notin User /\ Root \in User /\ MaxFailures \in Nat \ {0}
        /\ SaveInterval \in Nat \ {0, 1} /\ MaxEdits \in Nat /\ MaxDrops \in Nat
    BY AccountsAssumption
  <1> DEFINE DbPart == /\ userdb \subseteq Record /\ file \subseteq Record
                       /\ n \in 0..SaveInterval - 1
                       /\ Unique(userdb) /\ Unique(file) /\ SaveInv
             ChildPart == /\ pc \in [Child -> {"free", "auth", "store", "game", "chpass"}]
                          /\ current_user \in [Child -> User \cup {NoUser}]
                          /\ held \in [Child -> SUBSET Record]
                          /\ \A c \in Child : \A r, s \in held[c] : r = s
                          /\ failures \in [Child -> 0..MaxFailures - 1]
                          /\ are_admin \subseteq Child /\ paced \subseteq Child
                          /\ Named
             HistPart == /\ granted \subseteq User \X Priv
                         /\ edits \in 0..MaxEdits /\ drops \in 0..MaxDrops
  <1>p. DbPart /\ ChildPart /\ HistPart
    BY <1>t DEF TypeOK
  <1>q. ASSUME DbPart', ChildPart', HistPart' PROVE DbInv'
    BY <1>q DEF DbInv, TypeOK
  <1>s. ASSUME UNCHANGED dbvars PROVE DbPart'
    BY <1>s, <1>p DEF dbvars, SaveInv, Unsaved, Lookup, Stored
  \* A change that ends with server_save_state.
  <1>w. ASSUME userdb' \in SUBSET Record, Unique(userdb'), n' \in 0..SaveInterval - 1,
               \E x : \A u \in User \ {x} : Lookup(u)' = Lookup(u),
               \/ n' = 0 /\ file' = userdb'
               \/ n' = n + 1 /\ file' = file
        PROVE  DbPart'
    <2>1. SaveInv'
      BY <1>w, <1>p, Written, Unwritten
    <2> QED
      BY <1>w, <1>p, <2>1
  <1> HIDE DEF DbPart
  <1>1. ASSUME NEW c \in Child, Connect(c) PROVE DbInv'
    <2>1. ChildPart' /\ HistPart'
      BY <1>1, <1>p DEF Connect, history, Named
    <2> QED
      BY <2>1, <1>q, <1>s, <1>1 DEF Connect
  <1>2. ASSUME NEW c \in Child, Exit(c) PROVE DbInv'
    <2>1. ChildPart' /\ HistPart'
      BY <1>2, <1>p, <1>t, Left DEF Exit, history, Named
    <2> QED
      BY <2>1, <1>q, <1>s, <1>2 DEF Exit
  <1>3. ASSUME NEW c \in Child, NEW u \in User, NEW p \in Pass, Login(c, u, p) PROVE DbInv'
    <2>1. PICK h \in {Answer(c, u), held[c]} : Ask(c, u, h) /\ held' = [held EXCEPT ![c] = h]
      BY <1>3 DEF Login
    <2>2. h \in SUBSET Record /\ \A r, s \in h : r = s
      BY <1>t, Answered
    <2>3. ChildPart'
      BY <1>3, <1>p, <2>1, <2>2 DEF Login, Named
    <2>4. HistPart'
      BY <1>3, <1>p, <1>a, <2>1 DEF Login, Ask, MayDrop
    <2> QED
      BY <2>3, <2>4, <1>q, <1>s, <1>3 DEF Login
  <1>4. ASSUME NEW c \in Child, NEW u \in User, NEW p \in Pass, LoginFails(c, u, p)
        PROVE  DbInv'
    <2>1. PICK h \in {Answer(c, u), held[c]} :
            /\ Ask(c, u, h)
            /\ IF failures[c] + 1 >= MaxFailures
               THEN Leave(c)
               ELSE /\ failures' = [failures EXCEPT ![c] = @ + 1]
                    /\ held' = [held EXCEPT ![c] = h]
                    /\ paced' = paced \cup {c}
                    /\ current_user' = [current_user EXCEPT ![c] = NoUser]
                    /\ UNCHANGED <<pc, are_admin>>
      BY <1>4 DEF LoginFails
    <2>2. h \in SUBSET Record /\ \A r, s \in h : r = s
      BY <1>t, Answered
    <2>3. ChildPart'
      <3>1. CASE failures[c] + 1 >= MaxFailures
        BY <3>1, <2>1, <1>p, <1>t, Left DEF Named
      <3>2. CASE ~ (failures[c] + 1 >= MaxFailures)
        <4>1. failures[c] \in 0..MaxFailures - 1
          BY <1>p
        <4>2. failures[c] + 1 \in 0..MaxFailures - 1
          BY <4>1, <3>2, <1>a
        <4>3. pc[c] = "auth"
          BY <1>4 DEF LoginFails
        <4> QED
          BY <3>2, <2>1, <2>2, <4>2, <4>3, <1>p DEF Named
      <3> QED
        BY <3>1, <3>2
    <2>4. HistPart'
      BY <1>4, <1>p, <1>a, <2>1 DEF LoginFails, Ask, MayDrop
    <2> QED
      BY <2>3, <2>4, <1>q, <1>s, <1>4 DEF LoginFails
  <1>5. ASSUME NEW c \in Child, Store(c) PROVE DbInv'
    <2>1. PICK r \in held[c] : UserdbAdd(r)
      BY <1>5 DEF Store
    <2>2. r \in Record
      BY <1>p
    <2>3. DbPart'
      BY <2>1, <2>2, <1>t, <1>w, Put
    <2>4. ChildPart' /\ HistPart'
      BY <1>5, <1>p DEF Store, Level, Named, history
    <2> QED
      BY <2>3, <2>4, <1>q
  <1>6. ASSUME NEW c \in Child, StoreDropped(c) PROVE DbInv'
    <2>1. ChildPart'
      BY <1>6, <1>p DEF StoreDropped, Level, Named
    <2>2. HistPart'
      BY <1>6, <1>p, <1>a DEF StoreDropped, MayDrop
    <2> QED
      BY <2>1, <2>2, <1>q, <1>s, <1>6 DEF StoreDropped
  <1>7. ASSUME NEW c \in Child, Chatter(c) PROVE DbInv'
    <2>1. ChildPart' /\ HistPart'
      BY <1>7, <1>p DEF Chatter, history, Named
    <2> QED
      BY <2>1, <1>q, <1>s, <1>7 DEF Chatter
  <1>8. ASSUME NEW c \in Child, Go(c) PROVE DbInv'
    <2>1. ChildPart' /\ HistPart'
      BY <1>8, <1>p DEF Go, history, Named
    <2> QED
      BY <2>1, <1>q, <1>s, <1>8 DEF Go
  <1>9. ASSUME NEW c \in Child, WorldChange(c) PROVE DbInv'
    <2>1. ChildPart' /\ HistPart'
      BY <1>9, <1>p DEF WorldChange, history, childvars, Named
    <2>2. userdb \in SUBSET Record /\ Save(userdb) /\ userdb' = userdb
      BY <1>9, <1>t DEF WorldChange, TypeOK
    <2>3. \A u \in User : Lookup(u)' = Lookup(u)
      BY <2>2 DEF Lookup
    <2>4. DbPart'
      BY <2>2, <2>3, <1>t, <1>w, Saved
    <2> QED
      BY <2>1, <2>4, <1>q
  <1>10. ASSUME NEW c \in Child, NEW u \in User, NEW p \in Pass, NEW priv \in Priv,
                UserAdd(c, u, p, priv)
         PROVE  DbInv'
    <2>1. [name |-> u, pass |-> p, priv |-> priv] \in Record
      BY DEF Record
    <2>2. DbPart'
      BY <2>1, <1>10, <1>t, <1>w, Put DEF UserAdd
    <2>3. ChildPart'
      BY <1>10, <1>p DEF UserAdd, Named
    <2>4. HistPart'
      BY <1>10, <1>p, <1>a DEF UserAdd, Edit
    <2> QED
      BY <2>2, <2>3, <2>4, <1>q
  <1>11. ASSUME NEW c \in Child, NEW u \in User, UserDel(c, u) PROVE DbInv'
    <2>1. DbPart'
      BY <1>11, <1>t, <1>w, <1>s, Removed DEF UserDel
    <2>2. ChildPart'
      BY <1>11, <1>p DEF UserDel, Named
    <2>3. HistPart'
      BY <1>11, <1>p, <1>a DEF UserDel, Edit
    <2> QED
      BY <2>1, <2>2, <2>3, <1>q
  <1>12. ASSUME NEW c \in Child, NEW p \in Pass, Chpass(c, p) PROVE DbInv'
    <2>1. PICK h \in {Answer(c, current_user[c]), held[c]} :
            /\ Ask(c, current_user[c], h)
            /\ held' = [held EXCEPT ![c] = h]
            /\ IF Right(h, p)
               THEN pc' = [pc EXCEPT ![c] = "chpass"] /\ paced' = paced
               ELSE pc' = pc /\ paced' = paced \cup {c}
      BY <1>12 DEF Chpass
    <2>2. h \in SUBSET Record /\ \A r, s \in h : r = s
      BY <1>t, <1>p, Answered
    <2>3. ChildPart'
      BY <1>12, <1>p, <2>1, <2>2 DEF Chpass, Named
    <2>4. HistPart'
      BY <1>12, <1>p, <1>a, <2>1 DEF Chpass, Ask, MayDrop
    <2> QED
      BY <2>3, <2>4, <1>q, <1>s, <1>12 DEF Chpass
  <1>13. ASSUME NEW c \in Child, NEW p \in Pass, ChpassStore(c, p) PROVE DbInv'
    <2>1. PICK r \in held[c] :
            UserdbAdd([name |-> current_user[c], pass |-> p, priv |-> r.priv])
      BY <1>13 DEF ChpassStore
    <2>2. [name |-> current_user[c], pass |-> p, priv |-> r.priv] \in Record
      BY <1>13, <1>p DEF ChpassStore, Named, Record
    <2>3. DbPart'
      BY <2>1, <2>2, <1>t, <1>w, Put
    <2>4. ChildPart'
      BY <1>13, <1>p DEF ChpassStore, Named
    <2>5. HistPart'
      BY <1>13, <1>p, <1>a DEF ChpassStore, Edit
    <2> QED
      BY <2>3, <2>4, <2>5, <1>q
  <1>14. ASSUME NEW c \in Child, ChpassCancel(c) PROVE DbInv'
    <2>1. ChildPart' /\ HistPart'
      BY <1>14, <1>p DEF ChpassCancel, history, Named
    <2> QED
      BY <2>1, <1>q, <1>s, <1>14 DEF ChpassCancel
  <1>15. ASSUME NEW c \in Child, Logout(c) PROVE DbInv'
    <2>1. ChildPart' /\ HistPart'
      BY <1>15, <1>p, <1>a DEF Logout, history, Named
    <2> QED
      BY <2>1, <1>q, <1>s, <1>15 DEF Logout
  <1>16. CASE Restart
    <2>1. PICK saved \in {file} \cup SUBSET userdb : \E b \in Boot(saved) :
            userdb' = b.map /\ file' = b.map /\ n' = b.n
      BY <1>16 DEF Restart
    <2>2. /\ userdb' \in SUBSET Record /\ Unique(userdb') /\ file' = userdb' /\ n' \in {0, 1}
      <3>1. CASE saved # {}
        BY <2>1, <3>1, <1>t DEF Boot, TypeOK, Unique
      <3>2. CASE saved = {}
        <4>1. PICK p \in Pass : /\ userdb' = {[name |-> Root, pass |-> p, priv |-> "ADMIN"]}
                                /\ file' = userdb' /\ n' = 1
          BY <2>1, <3>2 DEF Boot, Setup
        <4> QED
          BY <4>1, <1>a DEF Record, Priv, Unique
      <3> QED
        BY <3>1, <3>2
    <2>3. n' \in 0..SaveInterval - 1 /\ SaveInv'
      BY <2>2, <1>a, Written
    <2>4. DbPart'
      BY <2>2, <2>3 DEF DbPart
    <2>5. ChildPart' /\ HistPart'
      BY <1>16, <1>p, <1>a DEF Restart, history, Named
    <2> QED
      BY <2>4, <2>5, <1>q
  <1>17. CASE UNCHANGED vars
    <2>1. ChildPart' /\ HistPart' /\ UNCHANGED dbvars
      BY <1>17, <1>p DEF vars, childvars, history, Named
    <2> QED
      BY <2>1, <1>q, <1>s
  <1> QED
    BY <1>1, <1>2, <1>3, <1>4, <1>5, <1>6, <1>7, <1>8, <1>9, <1>10, <1>11, <1>12, <1>13,
       <1>14, <1>15, <1>16, <1>17
    DEF Next

LEMMA DbAlways == Spec => []DbInv
  BY DbInit, DbStep, PTL DEF Spec

\* Type correctness of the database and of every session.
THEOREM TypeCorrect == Spec => []TypeOK
  <1>1. DbInv => TypeOK
    BY DEF DbInv
  <1> QED
    BY DbAlways, <1>1, PTL

\* USERFILE is never behind for more users than changes were counted since it
\* was written: what a kill takes back if it does not fall into userdb_write.
THEOREM LittleUnsaved == Spec => []UnsavedFew
  <1>1. DbInv => UnsavedFew
    BY DEF DbInv, SaveInv, UnsavedFew
  <1> QED
    BY DbAlways, <1>1, PTL

-----------------------------------------------------------------------------
(***************************************************************************)
(* Privileges.  A record that is held may be written back at any time, so  *)
(* it has to be a granted one too; and that CHPASS holds the record of its *)
(* own user rests on the write-back of the login, whose answer clears a    *)
(* record that was looked up under another name.                           *)
(***************************************************************************)
Granted(S) == \A r \in S : <<r.name, r.priv>> \in granted

HeldOwn ==
    \A c \in Child :
        /\ pc[c] \in {"game", "chpass"} => \A r \in held[c] : r.name = current_user[c]
        /\ pc[c] = "chpass" => held[c] # {}

Grants ==
    /\ <<Root, "ADMIN">> \in granted
    /\ Granted(userdb) /\ Granted(file)
    /\ \A c \in Child : Granted(held[c])
    /\ HeldOwn

AccountsInv == DbInv /\ (drops = 0 => Grants)

LEMMA GrantsInit == Init => Grants
  BY DEF Init, Boot, Setup, Grants, Granted, HeldOwn

LEMMA GrantsStep ==
    ASSUME DbInv, drops = 0, Grants, [Next]_vars, drops' = 0
    PROVE  Grants'
  <1>t. TypeOK /\ Unique(userdb) /\ Named
    BY DEF DbInv
  <1>u. /\ pc \in [Child -> {"free", "auth", "store", "game", "chpass"}]
        /\ current_user \in [Child -> User \cup {NoUser}]
        /\ held \in [Child -> SUBSET Record]
    BY <1>t DEF TypeOK
  <1>g. /\ <<Root, "ADMIN">> \in granted /\ Granted(userdb) /\ Granted(file)
        /\ (\A c \in Child : Granted(held[c])) /\ HeldOwn
    BY DEF Grants
  \* A record that is granted may be added to the map.
  <1>w. ASSUME NEW r \in Record, UserdbAdd(r), <<r.name, r.priv>> \in granted',
               granted \subseteq granted'
        PROVE  Granted(userdb)' /\ Granted(file)'
    <2>1. /\ \A s \in userdb' : s \in userdb \/ s = r
          /\ file' = userdb' \/ file' = file
      BY <1>w, <1>t, Put
    <2> QED
      BY <2>1, <1>w, <1>g DEF Granted
  <1>1. ASSUME NEW c \in Child, Connect(c) PROVE Grants'
    BY <1>1, <1>g, <1>u DEF Connect, dbvars, history, Grants, Granted, HeldOwn
  <1>2. ASSUME NEW c \in Child, Exit(c) PROVE Grants'
    BY <1>2, <1>g, <1>u, <1>t, Left DEF Exit, dbvars, history, Grants, Granted, HeldOwn
  <1>3. ASSUME NEW c \in Child, NEW u \in User, NEW p \in Pass, Login(c, u, p) PROVE Grants'
    <2>1. PICK h \in {Answer(c, u), held[c]} : held' = [held EXCEPT ![c] = h]
      BY <1>3 DEF Login
    <2>2. \A r \in h : r \in held[c] \/ r \in userdb
      BY <1>t, Answered
    <2>3. Granted(h)
      BY <2>2, <1>g DEF Granted
    <2> QED
      BY <1>3, <2>1, <2>3, <1>g, <1>u DEF Login, dbvars, Grants, Granted, HeldOwn
  <1>4. ASSUME NEW c \in Child, NEW u \in User, NEW p \in Pass, LoginFails(c, u, p)
        PROVE  Grants'
    <2>1. PICK h \in {Answer(c, u), held[c]} :
            \/ Leave(c)
            \/ /\ held' = [held EXCEPT ![c] = h]
               /\ current_user' = [current_user EXCEPT ![c] = NoUser]
               /\ pc' = pc
      BY <1>4 DEF LoginFails
    <2>2. \A r \in h : r \in held[c] \/ r \in userdb
      BY <1>t, Answered
    <2>3. Granted(h)
      BY <2>2, <1>g DEF Granted
    <2>4. UNCHANGED dbvars /\ granted' = granted /\ pc[c] = "auth"
      BY <1>4 DEF LoginFails
    <2>5. CASE Leave(c)
      BY <2>5, <2>4, <1>g, <1>u, <1>t, Left DEF dbvars, Grants, Granted, HeldOwn
    <2>6. CASE /\ held' = [held EXCEPT ![c] = h]
               /\ current_user' = [current_user EXCEPT ![c] = NoUser]
               /\ pc' = pc
      BY <2>6, <2>3, <2>4, <1>g, <1>u DEF dbvars, Grants, Granted, HeldOwn
    <2> QED
      BY <2>1, <2>5, <2>6
  <1>5. ASSUME NEW c \in Child, Store(c) PROVE Grants'
    <2>1. PICK r \in held[c] : UserdbAdd(r)
      BY <1>5 DEF Store
    <2>2. r \in Record /\ <<r.name, r.priv>> \in granted /\ granted' = granted
      BY <1>5, <1>u, <1>g DEF Store, history, Granted
    <2>3. Granted(userdb)' /\ Granted(file)'
      BY <2>1, <2>2, <1>w
    <2> QED
      BY <1>5, <2>2, <2>3, <1>g, <1>u DEF Store, Grants, Granted, HeldOwn
  <1>6. ASSUME NEW c \in Child, StoreDropped(c) PROVE Grants'
    BY <1>6 DEF StoreDropped
  <1>7. ASSUME NEW c \in Child, Chatter(c) PROVE Grants'
    BY <1>7, <1>g DEF Chatter, dbvars, history, Grants, Granted, HeldOwn
  <1>8. ASSUME NEW c \in Child, Go(c) PROVE Grants'
    BY <1>8, <1>g, <1>u DEF Go, dbvars, history, Grants, Granted, HeldOwn
  <1>9. ASSUME NEW c \in Child, WorldChange(c) PROVE Grants'
    <2>1. userdb' = userdb /\ (file' = userdb \/ file' = file)
      BY <1>9 DEF WorldChange, Save
    <2> QED
      BY <1>9, <2>1, <1>g DEF WorldChange, childvars, history, Grants, Granted, HeldOwn
  <1>10. ASSUME NEW c \in Child, NEW u \in User, NEW p \in Pass, NEW priv \in Priv,
                UserAdd(c, u, p, priv)
         PROVE  Grants'
    <2> DEFINE r == [name |-> u, pass |-> p, priv |-> priv]
    <2>1. /\ r \in Record /\ UserdbAdd(r) /\ <<r.name, r.priv>> \in granted'
          /\ granted \subseteq granted'
      BY <1>10 DEF UserAdd, Record
    <2> HIDE DEF r
    <2>2. Granted(userdb)' /\ Granted(file)'
      BY <2>1, <1>w
    <2> QED
      BY <1>10, <2>1, <2>2, <1>g, <1>u DEF UserAdd, Grants, Granted, HeldOwn
  <1>11. ASSUME NEW c \in Child, NEW u \in User, UserDel(c, u) PROVE Grants'
    <2>1. /\ \A s \in userdb' : s \in userdb
          /\ file' = userdb' \/ file' = file
      BY <1>11, <1>t, Removed DEF UserDel, dbvars
    <2> QED
      BY <1>11, <2>1, <1>g, <1>u DEF UserDel, Grants, Granted, HeldOwn
  <1>12. ASSUME NEW c \in Child, NEW p \in Pass, Chpass(c, p) PROVE Grants'
    <2>1. PICK h \in {Answer(c, current_user[c]), held[c]} :
            /\ held' = [held EXCEPT ![c] = h]
            /\ IF Right(h, p) THEN pc' = [pc EXCEPT ![c] = "chpass"] ELSE pc' = pc
      BY <1>12 DEF Chpass
    <2>2. \A r \in h : r \in held[c] \/ (r \in userdb /\ r.name = current_user[c])
      BY <1>t, <1>u, Answered
    <2>3. pc[c] = "game" /\ UNCHANGED <<dbvars, current_user, granted>>
      BY <1>12 DEF Chpass
    <2>4. Granted(h) /\ \A r \in h : r.name = current_user[c]
      BY <2>2, <2>3, <1>g DEF Granted, HeldOwn
    <2>5. Right(h, p) => h # {}
      BY DEF Right
    <2> QED
      BY <2>1, <2>3, <2>4, <2>5, <1>g, <1>u DEF dbvars, Grants, Granted, HeldOwn
  <1>13. ASSUME NEW c \in Child, NEW p \in Pass, ChpassStore(c, p) PROVE Grants'
    <2>1. PICK r \in held[c] :
            UserdbAdd([name |-> current_user[c], pass |-> p, priv |-> r.priv])
      BY <1>13 DEF ChpassStore
    <2>2. r \in Record /\ r.name = current_user[c] /\ <<r.name, r.priv>> \in granted
          /\ current_user[c] \in User /\ granted' = granted
      BY <1>13, <1>u, <1>t, <1>g DEF ChpassStore, HeldOwn, Granted, Named
    <2> DEFINE s == [name |-> current_user[c], pass |-> p, priv |-> r.priv]
    <2>3. s \in Record /\ UserdbAdd(s) /\ <<s.name, s.priv>> \in granted'
      BY <2>1, <2>2 DEF Record
    <2> HIDE DEF s
    <2>4. Granted(userdb)' /\ Granted(file)'
      BY <2>2, <2>3, <1>w
    <2> QED
      BY <1>13, <2>2, <2>4, <1>g, <1>u DEF ChpassStore, Grants, Granted, HeldOwn
  <1>14. ASSUME NEW c \in Child, ChpassCancel(c) PROVE Grants'
    BY <1>14, <1>g, <1>u DEF ChpassCancel, dbvars, history, Grants, Granted, HeldOwn
  <1>15. ASSUME NEW c \in Child, Logout(c) PROVE Grants'
    BY <1>15, <1>g, <1>u DEF Logout, dbvars, history, Grants, Granted, HeldOwn
  <1>16. CASE Restart
    <2>1. PICK saved \in {file} \cup SUBSET userdb : \E b \in Boot(saved) :
            userdb' = b.map /\ file' = b.map
      BY <1>16 DEF Restart
    <2>2. Granted(saved) /\ granted' = granted
      BY <1>16, <1>g DEF Restart, history, Granted
    <2>3. Granted(userdb)' /\ Granted(file)'
      BY <2>1, <2>2, <1>g DEF Boot, Setup, Granted
    <2> QED
      BY <1>16, <2>2, <2>3, <1>g DEF Restart, Grants, Granted, HeldOwn
  <1>17. CASE UNCHANGED vars
    BY <1>17, <1>g DEF vars, dbvars, childvars, history, Grants, Granted, HeldOwn
  <1> QED
    BY <1>1, <1>2, <1>3, <1>4, <1>5, <1>6, <1>7, <1>8, <1>9, <1>10, <1>11, <1>12, <1>13,
       <1>14, <1>15, <1>16, <1>17
    DEF Next

\* Drops are counted and never uncounted.
LEMMA DropsGrow ==
    ASSUME DbInv, [Next]_vars, drops' = 0
    PROVE  drops = 0
  <1>0. drops \in Nat
    BY AccountsAssumption DEF DbInv, TypeOK
  <1>1. ASSUME NEW c \in Child, NEW u, NEW h, Ask(c, u, h) PROVE drops' \in {drops, drops + 1}
    BY <1>1 DEF Ask
  <1>2. ASSUME NEW c \in Child, NEW u \in User, NEW p \in Pass,
               Login(c, u, p) \/ LoginFails(c, u, p)
        PROVE  drops' \in {drops, drops + 1}
    BY <1>1, <1>2 DEF Login, LoginFails
  <1>3. ASSUME NEW c \in Child, NEW p \in Pass, Chpass(c, p) \/ ChpassStore(c, p)
        PROVE  drops' \in {drops, drops + 1}
    BY <1>1, <1>3 DEF Chpass, ChpassStore
  <1>4. ASSUME NEW c \in Child, NEW u \in User,
               \/ UserDel(c, u)
               \/ \E p \in Pass, priv \in Priv : UserAdd(c, u, p, priv)
        PROVE  drops' = drops
    BY <1>4 DEF UserAdd, UserDel
  <1>5. ASSUME NEW c \in Child,
               \/ Connect(c) \/ Exit(c) \/ Store(c) \/ Chatter(c) \/ Go(c)
               \/ WorldChange(c) \/ ChpassCancel(c) \/ Logout(c)
        PROVE  drops' = drops
    BY <1>5 DEF Connect, Exit, Store, Chatter, Go, WorldChange, ChpassCancel, Logout, history
  <1>6. ASSUME NEW c \in Child, StoreDropped(c) PROVE drops' = drops + 1
    BY <1>6 DEF StoreDropped
  <1>7. CASE Restart \/ UNCHANGED vars
    BY <1>7 DEF Restart, vars, history
  <1>8. drops' \in {drops, drops + 1}
    BY <1>2, <1>3, <1>4, <1>5, <1>6, <1>7 DEF Next
  <1> QED
    BY <1>0, <1>8

LEMMA AccountsAlways == Spec => []AccountsInv
  <1>1. Init => AccountsInv
    BY DbInit, GrantsInit DEF AccountsInv
  <1>2. AccountsInv /\ [Next]_vars => AccountsInv'
    BY DbStep, GrantsStep, DropsGrow DEF AccountsInv
  <1> QED
    BY <1>1, <1>2, PTL DEF Spec

\* While the rate limit drops nothing, nobody comes by a privilege that was
\* not given to that name, however logins, CHPASS, USER and restarts interleave.
THEOREM PrivilegesGranted == Spec => []PrivGranted
  <1>1. AccountsInv => PrivGranted
    BY DEF AccountsInv, Grants, Granted, PrivGranted
  <1> QED
    BY AccountsAlways, <1>1, PTL

\* While the rate limit drops nothing, CHPASS works on the record of its user.
THEOREM ChpassOnOwnRecord == Spec => []ChpassOwn
  <1>1. AccountsInv => ChpassOwn
    BY DEF AccountsInv, Grants, HeldOwn, ChpassOwn
  <1> QED
    BY AccountsAlways, <1>1, PTL
=============================================================================
