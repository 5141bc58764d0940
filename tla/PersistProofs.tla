--------------------------- MODULE PersistProofs ---------------------------
(***************************************************************************)
(* Machine-checked proofs about Persist, for every stock, every set of     *)
(* rooms and users and every save interval, of a server that is started    *)
(* without -d.  With -d the world file of the launch directory goes stale, *)
(* and what is proved here fails (finding prefix).                         *)
(***************************************************************************)
EXTENDS Persist, LifetimeProofs

-----------------------------------------------------------------------------
(***************************************************************************)
(* What the server does to the world in memory between two saves.          *)
(***************************************************************************)

\* There is an object of class c.
Around(c) == \E p \in Place : \E i \in Has(p) : cls[i] = c

\* Who carries something has a record.
Owners ==
    /\ \A u \in User : \A i \in Has(u) : u \in recs
    /\ Dropping \/ Dropped \/ op = "taking" => actor \in recs

\* Bears stay where they were made, until there is a key.
BearsHome ==
    /\ \A u \in User : \A i \in Has(u) : cls[i] # "bear"
    /\ \A r \in Room : \A i \in Has(r) : cls[i] = "bear" => r = HomeOf.bear
    /\ op \in {"dropping", "hook", "undrop"} => cls[cur] # "bear"
    /\ Around("key") => ~ Around("bear")

CardDug == Around("cpu") => "dug" \in flags

Tame == Owners /\ BearsHome /\ CardDug

\* What is new after a step has a new id, and is a card, from a hole that had
\* not been dug, or a key, from a bear.
Births ==
    /\ idcounter' >= idcounter /\ flags \subseteq flags'
    /\ \A q \in Place : \A j \in Has(q)' :
         \/ Held(j) /\ cls'[j] = cls[j]
         \/ /\ j = idcounter
            /\ \/ cls'[j] = "cpu" /\ "dug" \notin flags
               \/ cls'[j] = "key" /\ Around("bear")

\* A step that makes nothing.
LEMMA NoBirth ==
    ASSUME Typed, Tame, cls' = cls, idcounter' = idcounter, flags \subseteq flags',
           \A q \in Place : \A j \in Has(q)' : Held(j)
    PROVE  Births /\ (Around("key")' => ~ Around("bear")') /\ CardDug'
  <1>1. \A c : (\E p \in Place : \E i \in Has(p)' : cls[i] = c) => Around(c)
    BY DEF Around, Held
  <1>2. \A c : Around(c)' => Around(c)
    BY <1>1 DEF Around
  <1>3. idcounter \in Nat
    BY DEF Typed
  <1> QED
    BY <1>2, <1>3 DEF Births, Tame, BearsHome, CardDug

LEMMA TameNext ==
    ASSUME ObjectsInv, Tame, [Next]_vars
    PROVE  Tame' /\ Births
  <1>0. Typed /\ Exact /\ Apart /\ Moving
    BY DEF ObjectsInv
  <1>1. Owners /\ BearsHome /\ CardDug
    BY DEF Tame
  <1>2. \A u \in User : u \in Place /\ u \notin Room
    BY ObjectsAssumption DEF Place
  <1>3. \A r \in Room : r \in Place /\ r \notin User
    BY ObjectsAssumption DEF Place
  <1>4. UNCHANGED <<maps, heap>> => \A q \in Place : Has(q)' = Has(q)
    BY SameMaps DEF maps, heap
  <1>5. Busy => actor \in User /\ Here \in Room /\ actor \in Place /\ Here \in Place
    BY <1>0, <1>2, <1>3 DEF Moving, Busy, Here
  <1>6. ASSUME NEW u \in User, UserdbAdd(u) PROVE Tame' /\ Births
    <2>1. UNCHANGED <<cls, idcounter, flags>> /\ \A q \in Place : Has(q)' = Has(q)
      BY <1>6, <1>4 DEF UserdbAdd, ThenSave, world, maps, heap
    <2>2. Births /\ (Around("key")' => ~ Around("bear")') /\ CardDug'
      BY <1>0, <2>1, NoBirth DEF Held
    <2>3. Owners'
      BY <1>6, <1>0, <1>1, <1>2, <1>5, <2>1
      DEF UserdbAdd, ThenSave, world, Owners, Busy, Taking, Dropping, Dropped
    <2>4. BearsHome'
      BY <1>6, <1>0, <1>1, <1>2, <1>3, <2>1, <2>2 DEF UserdbAdd, ThenSave, BearsHome
    <2> QED
      BY <2>2, <2>3, <2>4 DEF Tame
  <1>7. ASSUME NEW u \in User, Enter(u) \/ Leave(u) PROVE Tame' /\ Births
    <2>1. UNCHANGED <<cls, idcounter, flags>> /\ \A q \in Place : Has(q)' = Has(q)
      BY <1>7, <1>4 DEF Enter, Leave, loop, world, maps, heap
    <2>2. Births /\ (Around("key")' => ~ Around("bear")') /\ CardDug'
      BY <1>0, <2>1, NoBirth DEF Held
    <2>3. Owners'
      BY <1>7, <1>0, <1>1, <1>2, <1>5, <2>1
      DEF Enter, Leave, loop, world, Owners, Busy, Taking, Dropping, Dropped
    <2>4. BearsHome'
      BY <1>7, <1>0, <1>1, <1>2, <1>3, <2>1, <2>2 DEF Enter, Leave, loop, BearsHome
    <2> QED
      BY <2>2, <2>3, <2>4 DEF Tame
  <1>8. ASSUME NEW u \in User, NEW r \in Room, Walk(u, r) PROVE Tame' /\ Births
    <2>1. UNCHANGED <<cls, idcounter, flags>> /\ \A q \in Place : Has(q)' = Has(q)
      BY <1>8, <1>4 DEF Walk, loop, world, maps, heap
    <2>2. Births /\ (Around("key")' => ~ Around("bear")') /\ CardDug'
      BY <1>0, <2>1, NoBirth DEF Held
    <2>3. Owners'
      BY <1>8, <1>0, <1>1, <1>2, <1>5, <2>1
      DEF Walk, loop, world, Owners, Busy, Taking, Dropping, Dropped
    <2>4. BearsHome'
      BY <1>8, <1>0, <1>1, <1>2, <1>3, <2>1, <2>2 DEF Walk, loop, BearsHome
    <2> QED
      BY <2>2, <2>3, <2>4 DEF Tame
  <1>9. ASSUME NEW u \in User, LookupFails(u) PROVE Tame' /\ Births
    <2>1. UNCHANGED <<cls, idcounter, flags>> /\ \A q \in Place : Has(q)' = Has(q)
      BY <1>9, <1>4 DEF LookupFails, Segfault, loop, world, maps, heap
    <2>2. Births /\ (Around("key")' => ~ Around("bear")') /\ CardDug'
      BY <1>0, <2>1, NoBirth DEF Held
    <2>3. Owners'
      BY <1>9, <1>0, <1>1, <1>2, <1>5, <2>1
      DEF LookupFails, Segfault, loop, world, Owners, Busy, Taking, Dropping, Dropped
    <2>4. BearsHome'
      BY <1>9, <1>0, <1>1, <1>2, <1>3, <2>1, <2>2 DEF LookupFails, Segfault, loop, BearsHome
    <2> QED
      BY <2>2, <2>3, <2>4 DEF Tame
  <1>10. ASSUME NEW u \in User, NEW k, ReqTake(u, k) PROVE Tame' /\ Births
    <2>1. UNCHANGED <<cls, idcounter, flags>> /\ \A q \in Place : Has(q)' = Has(q)
      BY <1>10, <1>4
      DEF ReqTake, world, maps, heap
    <2>2. Births /\ (Around("key")' => ~ Around("bear")') /\ CardDug'
      BY <1>0, <2>1, NoBirth DEF Held
    <2>3. Owners'
      BY <1>10, <1>0, <1>1, <1>2, <1>5, <2>1
      DEF ReqTake, world, Owners, Busy, Taking, Dropping, Dropped
    <2>4. BearsHome'
      BY <1>10, <1>0, <1>1, <1>2, <1>3, <2>1, <2>2 DEF ReqTake, world, BearsHome
    <2> QED
      BY <2>2, <2>3, <2>4 DEF Tame
  <1>11. ASSUME NEW u \in User, NEW k, ReqDrop(u, k) PROVE Tame' /\ Births
    <2>1. UNCHANGED <<cls, idcounter, flags>> /\ \A q \in Place : Has(q)' = Has(q)
      BY <1>11, <1>4
      DEF ReqDrop, world, maps, heap
    <2>2. Births /\ (Around("key")' => ~ Around("bear")') /\ CardDug'
      BY <1>0, <2>1, NoBirth DEF Held
    <2>3. Owners'
      BY <1>11, <1>0, <1>1, <1>2, <1>5, <2>1
      DEF ReqDrop, world, Owners, Busy, Taking, Dropping, Dropped
    <2>4. BearsHome'
      BY <1>11, <1>0, <1>1, <1>2, <1>3, <2>1, <2>2 DEF ReqDrop, world, BearsHome
    <2> QED
      BY <2>2, <2>3, <2>4 DEF Tame
  <1>12. ASSUME SaveState PROVE Tame' /\ Births
    <2>1. UNCHANGED <<cls, idcounter, flags>> /\ \A q \in Place : Has(q)' = Has(q)
      BY <1>12, <1>4 DEF SaveState, Idle, world, maps, heap
    <2>2. Births /\ (Around("key")' => ~ Around("bear")') /\ CardDug'
      BY <1>0, <2>1, NoBirth DEF Held
    <2>3. Owners'
      BY <1>12, <1>0, <1>1, <1>2, <1>5, <2>1
      DEF SaveState, Idle, world, Owners, Busy, Taking, Dropping, Dropped
    <2>4. BearsHome'
      BY <1>12, <1>0, <1>1, <1>2, <1>3, <2>1, <2>2 DEF SaveState, Idle, BearsHome
    <2> QED
      BY <2>2, <2>3, <2>4 DEF Tame
  <1>13. ASSUME NEW i \in Id, TakeRefused(i) PROVE Tame' /\ Births
    <2>1. UNCHANGED <<cls, idcounter, flags>> /\ \A q \in Place : Has(q)' = Has(q)
      BY <1>13, <1>4
      DEF TakeRefused, world, maps, heap
    <2>2. Births /\ (Around("key")' => ~ Around("bear")') /\ CardDug'
      BY <1>0, <2>1, NoBirth DEF Held
    <2>3. Owners'
      BY <1>13, <1>0, <1>1, <1>2, <1>5, <2>1
      DEF TakeRefused, world, Owners, Busy, Taking, Dropping, Dropped
    <2>4. BearsHome'
      BY <1>13, <1>0, <1>1, <1>2, <1>3, <2>1, <2>2 DEF TakeRefused, world, BearsHome
    <2> QED
      BY <2>2, <2>3, <2>4 DEF Tame
  <1>14. ASSUME NEW i \in Id, TakeAdd(i), actor \notin recs PROVE Tame' /\ Births
    <2>1. UNCHANGED <<cls, idcounter, flags>> /\ \A q \in Place : Has(q)' = Has(q)
      BY <1>14, <1>4 DEF TakeAdd, Segfault, loop, world, maps, heap
    <2>2. Births /\ (Around("key")' => ~ Around("bear")') /\ CardDug'
      BY <1>0, <2>1, NoBirth DEF Held
    <2>3. Owners'
      BY <1>14, <1>0, <1>1, <1>2, <1>5, <2>1
      DEF TakeAdd, Segfault, loop, world, Owners, Busy, Taking, Dropping, Dropped
    <2>4. BearsHome'
      BY <1>14, <1>0, <1>1, <1>2, <1>3, <2>1, <2>2 DEF TakeAdd, Segfault, loop, BearsHome
    <2> QED
      BY <2>2, <2>3, <2>4 DEF Tame
  <1>15. ASSUME LoopDone PROVE Tame' /\ Births
    <2>1. UNCHANGED <<cls, idcounter, flags>> /\ \A q \in Place : Has(q)' = Has(q)
      BY <1>15, <1>4
      DEF LoopDone, world, maps, heap
    <2>2. Births /\ (Around("key")' => ~ Around("bear")') /\ CardDug'
      BY <1>0, <2>1, NoBirth DEF Held
    <2>3. Owners'
      BY <1>15, <1>0, <1>1, <1>2, <1>5, <2>1
      DEF LoopDone, world, Owners, Busy, Taking, Dropping, Dropped
    <2>4. BearsHome'
      BY <1>15, <1>0, <1>1, <1>2, <1>3, <2>1, <2>2 DEF LoopDone, world, BearsHome
    <2> QED
      BY <2>2, <2>3, <2>4 DEF Tame
  <1>16. ASSUME DropKept PROVE Tame' /\ Births
    <2>1. UNCHANGED <<cls, idcounter, flags>> /\ \A q \in Place : Has(q)' = Has(q)
      BY <1>16, <1>4 DEF DropKept, NextDrop, world, maps, heap
    <2>2. Births /\ (Around("key")' => ~ Around("bear")') /\ CardDug'
      BY <1>0, <2>1, NoBirth DEF Held
    <2>3. Owners'
      BY <1>16, <1>0, <1>1, <1>2, <1>5, <2>1
      DEF DropKept, NextDrop, world, Owners, Busy, Taking, Dropping, Dropped
    <2>4. BearsHome'
      BY <1>16, <1>0, <1>1, <1>2, <1>3, <2>1, <2>2 DEF DropKept, NextDrop, BearsHome
    <2> QED
      BY <2>2, <2>3, <2>4 DEF Tame
  <1>17. ASSUME UNCHANGED vars PROVE Tame' /\ Births
    <2>1. UNCHANGED <<cls, idcounter, flags>> /\ \A q \in Place : Has(q)' = Has(q)
      BY <1>17, <1>4 DEF vars, loop, world, maps, heap
    <2>2. Births /\ (Around("key")' => ~ Around("bear")') /\ CardDug'
      BY <1>0, <2>1, NoBirth DEF Held
    <2>3. Owners'
      BY <1>17, <1>0, <1>1, <1>2, <1>5, <2>1
      DEF vars, loop, world, Owners, Busy, Taking, Dropping, Dropped
    <2>4. BearsHome'
      BY <1>17, <1>0, <1>1, <1>2, <1>3, <2>1, <2>2 DEF vars, loop, BearsHome
    <2> QED
      BY <2>2, <2>3, <2>4 DEF Tame
  <1>18. ASSUME NEW u \in User, UserdbRemove(u) PROVE Tame' /\ Births
    <2>1. cls' = cls /\ \A q \in Place : Has(q)' = IF q = u THEN Has(q) \ Has(u) ELSE Has(q)
      BY <1>18, UserdbRemoveHas
    <2>2. Births /\ (Around("key")' => ~ Around("bear")') /\ CardDug'
      BY <1>18, <1>0, <2>1, NoBirth DEF UserdbRemove, ThenSave, Held
    <2>3. Owners'
      BY <1>18, <1>1, <1>2, <2>1
      DEF UserdbRemove, ThenSave, Asks, Ready, Owners, Busy, Taking, Dropping, Dropped
    <2>4. BearsHome'
      BY <1>18, <1>1, <1>2, <1>3, <2>1, <2>2 DEF UserdbRemove, ThenSave, BearsHome
    <2> QED
      BY <2>2, <2>3, <2>4 DEF Tame
  <1>19. ASSUME NEW u \in User, NEW i \in Id, Put(u, i) PROVE Tame' /\ Births
    <2>1. cls' = cls /\ \A q \in Place : Has(q)' = IF q = u THEN Has(q) \ {i} ELSE Has(q)
      BY <1>19, PutHas
    <2>2. Births /\ (Around("key")' => ~ Around("bear")') /\ CardDug'
      BY <1>19, <1>0, <2>1, NoBirth DEF Put, loop, Held
    <2>3. Owners'
      BY <1>19, <1>1, <1>2, <2>1
      DEF Put, loop, Asks, Ready, Owners, Busy, Taking, Dropping, Dropped
    <2>4. BearsHome'
      BY <1>19, <1>1, <1>2, <1>3, <2>1, <2>2 DEF Put, loop, BearsHome
    <2> QED
      BY <2>2, <2>3, <2>4 DEF Tame
  <1>20. ASSUME NEW u \in User, NEW k, Eat(u, k) PROVE Tame' /\ Births
    <2>1. cls' = cls /\ \A q \in Place : Has(q)' = IF q = u THEN Has(q) \ List(u, k) ELSE Has(q)
      BY <1>20, EatHas
    <2>2. Births /\ (Around("key")' => ~ Around("bear")') /\ CardDug'
      BY <1>20, <1>0, <2>1, NoBirth DEF Eat, loop, world, Held
    <2>3. Owners'
      BY <1>20, <1>1, <1>2, <2>1
      DEF Eat, loop, world, Asks, Ready, Owners, Busy, Taking, Dropping, Dropped
    <2>4. BearsHome'
      BY <1>20, <1>1, <1>2, <1>3, <2>1, <2>2 DEF Eat, loop, world, BearsHome
    <2> QED
      BY <2>2, <2>3, <2>4 DEF Tame
  <1>21. ASSUME NEW i \in Id, TakeAdd(i), actor \in recs PROVE Tame' /\ Births
    <2>1. /\ actor \in User /\ Here \in Room /\ i \in Has(Here)
          /\ cls' = cls /\ actor' = actor
          /\ \A q \in Place : Has(q)' = IF q = actor THEN Has(q) \cup {i} ELSE Has(q)
      BY <1>21, TakeAddHas
    <2>2. Births /\ (Around("key")' => ~ Around("bear")') /\ CardDug'
      <3>1. Here \in Place
        BY <1>2, <1>3, <2>1
      <3> QED
        BY <1>21, <1>0, <2>1, <3>1, NoBirth
        DEF TakeAdd, world, Held
    <2>3. Owners'
      BY <1>21, <1>1, <1>2, <1>3, <2>1
      DEF TakeAdd, world, Owners, Busy, Taking, Dropping, Dropped
    <2>4. BearsHome'
      BY <1>21, <1>0, <1>1, <1>2, <1>3, <2>1, <2>2
      DEF TakeAdd, world, BearsHome, NoTake, Moving, Busy, Taking, Dropping, Dropped,
          Between
    <2> QED
      BY <2>2, <2>3, <2>4 DEF Tame
  <1>22. ASSUME NEW i \in Id, DropAdd(i) PROVE Tame' /\ Births
    <2>1. /\ actor \in User /\ Here \in Room /\ i \in Has(actor)
          /\ cls' = cls /\ actor' = actor
          /\ \A q \in Place : Has(q)' = IF q = Here THEN Has(q) \cup {i} ELSE Has(q)
      BY <1>22, DropAddHas
    <2>2. Births /\ (Around("key")' => ~ Around("bear")') /\ CardDug'
      <3>1. actor \in Place
        BY <1>2, <1>3, <2>1
      <3> QED
        BY <1>22, <1>0, <2>1, <3>1, NoBirth
        DEF DropAdd, world, Held
    <2>3. Owners'
      BY <1>22, <1>1, <1>2, <1>3, <2>1
      DEF DropAdd, world, Owners, Busy, Taking, Dropping, Dropped
    <2>4. BearsHome'
      BY <1>22, <1>0, <1>1, <1>2, <1>3, <2>1, <2>2
      DEF DropAdd, world, BearsHome, NoTake, Moving, Busy, Taking, Dropping, Dropped,
          Between
    <2> QED
      BY <2>2, <2>3, <2>4 DEF Tame
  <1>23. ASSUME DropRefused PROVE Tame' /\ Births
    <2>1. /\ actor \in User /\ Here \in Room /\ cur \in Has(Here)
          /\ cls' = cls /\ actor' = actor
          /\ \A q \in Place : Has(q)' = IF q = actor THEN Has(q) \cup {cur} ELSE Has(q)
      BY <1>23, DropRefusedHas
    <2>2. Births /\ (Around("key")' => ~ Around("bear")') /\ CardDug'
      <3>1. Here \in Place
        BY <1>2, <1>3, <2>1
      <3> QED
        BY <1>23, <1>0, <2>1, <3>1, NoBirth
        DEF DropRefused, world, Held
    <2>3. Owners'
      BY <1>23, <1>1, <1>2, <1>3, <2>1
      DEF DropRefused, world, Owners, Busy, Taking, Dropping, Dropped
    <2>4. BearsHome'
      BY <1>23, <1>0, <1>1, <1>2, <1>3, <2>1, <2>2
      DEF DropRefused, world, BearsHome, NoTake, Moving, Busy, Taking, Dropping, Dropped,
          Between
    <2> QED
      BY <2>2, <2>3, <2>4 DEF Tame
  <1>24. ASSUME TakeDel PROVE Tame' /\ Births
    <2>1. /\ actor \in User /\ Here \in Room /\ cur \in Has(actor)
          /\ cls' = cls /\ actor' = actor
          /\ \A q \in Place : Has(q)' = IF q = Here THEN Has(q) \ {cur} ELSE Has(q)
      BY <1>24, TakeDelHas
    <2>2. Births /\ (Around("key")' => ~ Around("bear")') /\ CardDug'
      <3>1. actor \in Place
        BY <1>2, <1>3, <2>1
      <3> QED
        BY <1>24, <1>0, <2>1, <3>1, NoBirth
        DEF TakeDel, world, Held
    <2>3. Owners'
      BY <1>24, <1>1, <1>2, <1>3, <2>1
      DEF TakeDel, world, Owners, Busy, Taking, Dropping, Dropped
    <2>4. BearsHome'
      BY <1>24, <1>0, <1>1, <1>2, <1>3, <2>1, <2>2
      DEF TakeDel, world, BearsHome, NoTake, Moving, Busy, Taking, Dropping, Dropped,
          Between
    <2> QED
      BY <2>2, <2>3, <2>4 DEF Tame
  <1>25. ASSUME DropDel PROVE Tame' /\ Births
    <2>1. /\ actor \in User /\ Here \in Room /\ cur \in Has(Here)
          /\ cls' = cls /\ actor' = actor
          /\ \A q \in Place : Has(q)' = IF q = actor THEN Has(q) \ {cur} ELSE Has(q)
      BY <1>25, DropDelHas
    <2>2. Births /\ (Around("key")' => ~ Around("bear")') /\ CardDug'
      <3>1. Here \in Place
        BY <1>2, <1>3, <2>1
      <3> QED
        BY <1>25, <1>0, <2>1, <3>1, NoBirth
        DEF DropDel, world, Held
    <2>3. Owners'
      BY <1>25, <1>1, <1>2, <1>3, <2>1
      DEF DropDel, world, Owners, Busy, Taking, Dropping, Dropped
    <2>4. BearsHome'
      BY <1>25, <1>0, <1>1, <1>2, <1>3, <2>1, <2>2
      DEF DropDel, world, BearsHome, NoTake, Moving, Busy, Taking, Dropping, Dropped,
          Between
    <2> QED
      BY <2>2, <2>3, <2>4 DEF Tame
  <1>26. ASSUME UndoDel PROVE Tame' /\ Births
    <2>1. /\ actor \in User /\ Here \in Room /\ cur \in Has(actor)
          /\ cls' = cls /\ actor' = actor
          /\ \A q \in Place : Has(q)' = IF q = Here THEN Has(q) \ {cur} ELSE Has(q)
      BY <1>26, UndoDelHas
    <2>2. Births /\ (Around("key")' => ~ Around("bear")') /\ CardDug'
      <3>1. actor \in Place
        BY <1>2, <1>3, <2>1
      <3> QED
        BY <1>26, <1>0, <2>1, <3>1, NoBirth DEF UndoDel, NextDrop, world, Held
    <2>3. Owners'
      BY <1>26, <1>1, <1>2, <1>3, <2>1
      DEF UndoDel, NextDrop, world, Owners, Busy, Taking, Dropping, Dropped
    <2>4. BearsHome'
      BY <1>26, <1>0, <1>1, <1>2, <1>3, <2>1, <2>2
      DEF UndoDel, NextDrop, BearsHome, NoTake, Moving, Busy, Taking, Dropping, Dropped,
          Between
    <2> QED
      BY <2>2, <2>3, <2>4 DEF Tame
  <1>30. ASSUME NEW u \in User, Dig(u) PROVE Tame' /\ Births
    <2>1. /\ "fork" \in Room /\ idcounter \in Id
          /\ \A p \in Place : idcounter \notin Has(p)
          /\ cls' = [cls EXCEPT ![idcounter] = "cpu"]
          /\ \A q \in Place : Has(q)' = IF q = "fork" THEN Has(q) \cup {idcounter} ELSE Has(q)
      BY <1>30, DigHas
    <2>2. \A q \in Place : Has(q) \subseteq Id
      BY <1>0, HasType
    <2>3. \A j \in Id : cls'[j] = IF j = idcounter THEN "cpu" ELSE cls[j]
      BY <1>0, <2>1 DEF Typed
    <2>4. /\ "dug" \notin flags /\ flags' = flags \cup {"dug"} /\ idcounter' = idcounter + 1
          /\ op = "idle" /\ op' = "idle" /\ recs' = recs
      BY <1>30 DEF Dig, Asks, Ready, loop, Create
    <2>5. \A q \in Place : \A j \in Has(q)' :
            (Held(j) /\ cls'[j] = cls[j] /\ j # idcounter) \/ (j = idcounter /\ cls'[j] = "cpu" /\ q = "fork")
      BY <2>1, <2>2, <2>3 DEF Held
    <2>6. Births
      BY <2>1, <2>4, <2>5 DEF Births, Id
    <2>7. CardDug'
      BY <2>4 DEF CardDug
    <2>8. Owners'
      BY <1>1, <1>2, <2>1, <2>4 DEF Owners, Dropping, Dropped
    <2>9. (Around("key")' => Around("key")) /\ (Around("bear")' => Around("bear"))
      BY <2>5 DEF Around, Held
    <2>10. BearsHome'
      <3>1. \A r \in Room : \A i \in Has(r)' : cls'[i] = "bear" => i \in Has(r) /\ cls[i] = "bear"
        BY <1>3, <2>1, <2>2, <2>3
      <3>2. \A w \in User : \A i \in Has(w)' : i \in Has(w) /\ cls'[i] = cls[i]
        BY <1>2, <2>1, <2>2, <2>3
      <3> QED
        BY <1>1, <2>4, <2>9, <3>1, <3>2 DEF BearsHome
    <2> QED
      BY <2>6, <2>7, <2>8, <2>10 DEF Tame
  <1>31. ASSUME DropFed PROVE Tame' /\ Births
    <2>1. /\ actor \in User /\ Here \in Room /\ idcounter \in Id
          /\ actor' = actor /\ \A p \in Place : idcounter \notin Has(p)
          /\ cls' = [cls EXCEPT ![idcounter] = "key"]
          /\ \A q \in Place :
               Has(q)' = IF q = Here THEN (Has(q) \ Fed) \cup {idcounter} ELSE Has(q)
      BY <1>31, DropFedHas
    <2>2. \A q \in Place : Has(q) \subseteq Id
      BY <1>0, HasType
    <2>3. \A j \in Id : cls'[j] = IF j = idcounter THEN "key" ELSE cls[j]
      BY <1>0, <2>1 DEF Typed
    <2>4. /\ flags' = flags /\ idcounter' = idcounter + 1
          /\ op = "hook" /\ op' = "drop" /\ recs' = recs
      BY <1>31 DEF DropFed, NextDrop, world, Create
    <2>5. Here \in Place /\ actor \in Place /\ actor # Here
      BY <1>2, <1>3, <2>1
    <2>6. PICK b \in List(Here, "bear") : TRUE
      BY <1>31 DEF DropFed, Feeds
    <2>7. b \in Has(Here) /\ cls[b] = "bear"
      <3>1. b \in Has(Here) /\ <<"bear", b>> \in objects[Here]
        BY <1>0, <2>5 DEF List, Has, Typed
      <3>2. "bear" \in Names(cls[b]) /\ cls[b] \in Class
        BY <1>0, <2>5, <3>1 DEF Exact
      <3>3. "bear" \in Class /\ "bear" \in Names("bear")
        BY DEF Class, Names, NamesOf, AliasesOf
      <3> QED
        BY <3>1, <3>2, <3>3, OneName
    <2>8. \A p \in Place : \A j \in Has(p) : cls[j] = "bear" => p = Here /\ j \in Fed
      <3> SUFFICES ASSUME NEW p \in Place, NEW j \in Has(p), cls[j] = "bear"
                   PROVE  p = Here /\ j \in Fed
        OBVIOUS
      <3>1. p = Here
        BY <1>1, <2>1, <2>7 DEF BearsHome, Place
      <3>2. NameOf.bear \in Names("bear") /\ "bear" \in Class
        BY NamesType DEF Class
      <3>3. <<NameOf.bear, j>> \in objects[Here]
        BY <1>0, <2>5, <3>1, <3>2 DEF Exact
      <3>4. j \in List(Here, NameOf.bear)
        BY <3>3 DEF List
      <3> QED
        BY <3>1, <3>4 DEF Fed
    <2>9. \A q \in Place : \A j \in Has(q)' :
            \/ Held(j) /\ cls'[j] = cls[j] /\ j # idcounter /\ j \in Has(q) /\ cls[j] # "bear"
            \/ j = idcounter /\ cls'[j] = "key" /\ q = Here
      BY <2>1, <2>2, <2>3, <2>5, <2>8 DEF Held
    <2>10. Around("bear") /\ ~ Around("bear")'
      BY <2>5, <2>7, <2>9 DEF Around
    <2>11. Births
      BY <2>1, <2>4, <2>9, <2>10 DEF Births, Id
    <2>12. CardDug'
      <3>1. Around("cpu")' => Around("cpu")
        BY <2>9 DEF Around, Held
      <3> QED
        BY <1>1, <2>4, <3>1 DEF CardDug
    <2>13. Owners'
      BY <1>1, <1>2, <2>1, <2>4, <2>5 DEF Owners, Dropping, Dropped
    <2>14. BearsHome'
      BY <1>2, <1>3, <2>4, <2>9, <2>10 DEF BearsHome, Around
    <2> QED
      BY <2>11, <2>12, <2>13, <2>14 DEF Tame
  <1>32. ASSUME Next PROVE Tame' /\ Births
    BY <1>32, <1>6, <1>7, <1>8, <1>9, <1>10, <1>11, <1>12, <1>13, <1>14, <1>15, <1>16, <1>17,
       <1>18, <1>19, <1>20, <1>21, <1>22, <1>23, <1>24, <1>25, <1>26, <1>30, <1>31
    DEF Next, Work, TakeStep, DropStep, HookStep
  <1> QED
    BY <1>17, <1>32

-----------------------------------------------------------------------------
(***************************************************************************)
(* What is written can be read again.                                      *)
(***************************************************************************)

\* Records of one map: each object once, under its name.
Good(rs) ==
    /\ rs \subseteq Record
    /\ \A rc \in rs : rc[1] = NameOf[rc[3]]
    /\ \A rc, sc \in rs : rc[2] = sc[2] => rc = sc

LEMMA WrittenIs ==
    ASSUME Typed, NEW p \in Place, NEW rc
    PROVE  rc \in Written(p) <=>
             \E pr \in objects[p] : /\ pr[1] = NameOf[cls[pr[2]]]
                                    /\ rc = <<pr[1], pr[2], cls[pr[2]]>>
  BY DEF Written

\* The records of a map, one for each of its objects.
LEMMA WrittenHas ==
    ASSUME Typed, Exact, NEW p \in Place
    PROVE  /\ Good(Written(p))
           /\ \A rc \in Written(p) : rc[2] \in Has(p) /\ rc[3] = cls[rc[2]]
           /\ \A i \in Has(p) : <<NameOf[cls[i]], i, cls[i]>> \in Written(p)
  <1>1. ASSUME NEW rc \in Written(p)
        PROVE  /\ rc[2] \in Has(p) /\ rc[3] = cls[rc[2]] /\ rc[1] = NameOf[rc[3]]
               /\ rc = <<rc[1], rc[2], rc[3]>> /\ rc \in Record
    <2>1. PICK pr \in objects[p] : /\ pr[1] = NameOf[cls[pr[2]]]
                                   /\ rc = <<pr[1], pr[2], cls[pr[2]]>>
      BY WrittenIs
    <2>2. pr[1] \in Key /\ pr[2] \in Id
      BY DEF Typed
    <2>3. pr[2] \in Has(p)
      BY DEF Has
    <2>4. cls[pr[2]] \in Class
      BY <2>3 DEF Exact
    <2> QED
      BY <2>1, <2>2, <2>3, <2>4 DEF Record
  <1>2. ASSUME NEW i \in Has(p) PROVE <<NameOf[cls[i]], i, cls[i]>> \in Written(p)
    <2>1. cls[i] \in Class /\ NameOf[cls[i]] \in Names(cls[i])
      BY NamesType DEF Exact
    <2>2. <<NameOf[cls[i]], i>> \in objects[p]
      BY <2>1 DEF Exact
    <2> DEFINE pr == <<NameOf[cls[i]], i>>
    <2>3. pr \in objects[p] /\ pr[1] = NameOf[cls[pr[2]]] /\ pr[2] = i
      BY <2>2
    <2> QED
      BY <2>3, WrittenIs
  <1>3. Written(p) \subseteq Record
    BY <1>1
  <1>4. \A rc \in Written(p) : rc[1] = NameOf[rc[3]]
    BY <1>1
  <1>5. \A rc, sc \in Written(p) : rc[2] = sc[2] => rc = sc
    <2> SUFFICES ASSUME NEW rc \in Written(p), NEW sc \in Written(p), rc[2] = sc[2]
                 PROVE  rc = sc
      OBVIOUS
    <2>1. rc[3] = sc[3] /\ rc[1] = sc[1]
      BY <1>1
    <2> QED
      BY <1>1, <2>1
  <1>6. Good(Written(p))
    BY <1>3, <1>4, <1>5 DEF Good
  <1> QED
    BY <1>1, <1>2, <1>6

LEMMA LoadedIs ==
    ASSUME NEW rs, Good(rs)
    PROVE  /\ Loaded(rs) \in SUBSET (Key \X Id)
           /\ \A k, i : <<k, i>> \in Loaded(rs) <=> \E rc \in rs : rc[2] = i /\ k \in Names(rc[3])
           /\ \A rc \in rs : rc[2] \in Id /\ rc[3] \in Class /\ <<rc[1], rc[2]>> \in Loaded(rs)
           /\ \A pr \in Loaded(rs) : \E rc \in rs : rc[2] = pr[2]
  <1>1. \A rc \in rs : /\ rc[1] \in Key /\ rc[2] \in Id /\ rc[3] \in Class
                       /\ rc = <<rc[1], rc[2], rc[3]>> /\ rc[1] = NameOf[rc[3]]
    BY DEF Good, Record
  <1>2. \A rc \in rs : Names(rc[3]) \subseteq Key /\ NameOf[rc[3]] \in Names(rc[3])
    BY <1>1, NamesType
  <1>3. \A pr : pr \in Loaded(rs) <=> \E rc \in rs : pr \in Names(rc[3]) \X {rc[2]}
    BY DEF Loaded
  <1>4. \A rc \in rs : Names(rc[3]) \X {rc[2]} \subseteq Key \X Id
    BY <1>1, <1>2
  <1>5. Loaded(rs) \in SUBSET (Key \X Id)
    BY <1>3, <1>4
  <1>6. \A k, i : <<k, i>> \in Loaded(rs) <=> \E rc \in rs : rc[2] = i /\ k \in Names(rc[3])
    BY <1>3
  <1>7. \A rc \in rs : rc[2] \in Id /\ rc[3] \in Class /\ <<rc[1], rc[2]>> \in Loaded(rs)
    BY <1>1, <1>2, <1>6
  <1>8. \A pr \in Loaded(rs) : \E rc \in rs : rc[2] = pr[2]
    BY <1>3
  <1> QED
    BY <1>5, <1>6, <1>7, <1>8

\* obj_read and the insertion under all names undo world_save and userdb_write.
LEMMA RoundTrip ==
    ASSUME Typed, Exact, NEW p \in Place
    PROVE  Loaded(Written(p)) = objects[p]
  <1>1. Good(Written(p))
    BY WrittenHas
  <1>2. Loaded(Written(p)) \in SUBSET (Key \X Id) /\ objects[p] \in SUBSET (Key \X Id)
    BY <1>1, LoadedIs DEF Typed
  <1> SUFFICES ASSUME NEW k, NEW i
               PROVE  <<k, i>> \in Loaded(Written(p)) <=> <<k, i>> \in objects[p]
    BY <1>2
  <1>3. <<k, i>> \in Loaded(Written(p)) <=>
          \E rc \in Written(p) : rc[2] = i /\ k \in Names(rc[3])
    BY <1>1, LoadedIs
  <1>4. ASSUME <<k, i>> \in Loaded(Written(p)) PROVE <<k, i>> \in objects[p]
    <2>1. PICK rc \in Written(p) : rc[2] = i /\ k \in Names(rc[3])
      BY <1>3, <1>4
    <2>2. i \in Has(p) /\ rc[3] = cls[i]
      BY <2>1, WrittenHas
    <2> QED
      BY <2>1, <2>2 DEF Exact
  <1>5. ASSUME <<k, i>> \in objects[p] PROVE <<k, i>> \in Loaded(Written(p))
    <2>1. i \in Has(p)
      BY <1>5 DEF Has
    <2>2. k \in Names(cls[i])
      BY <1>5, <2>1 DEF Exact
    <2> DEFINE rc == <<NameOf[cls[i]], i, cls[i]>>
    <2>3. rc \in Written(p) /\ rc[2] = i /\ k \in Names(rc[3])
      BY <2>1, <2>2, WrittenHas
    <2> QED
      BY <1>3, <2>3
  <1> QED
    BY <1>4, <1>5

\* A map that was read: it holds the objects of its records, and would be
\* written as it was.
LEMMA ReadMap ==
    ASSUME NEW p \in Place, NEW rs, Good(rs), objects'[p] = Loaded(rs),
           \A rc \in rs : cls'[rc[2]] = rc[3]
    PROVE  /\ \A i : i \in Has(p)' <=> \E rc \in rs : rc[2] = i
           /\ Written(p)' = rs
           /\ \A i \in Has(p)' : /\ cls'[i] \in Class
                                 /\ \A k : <<k, i>> \in objects'[p] <=> k \in Names(cls'[i])
  <1>1. \A rc \in rs : /\ rc[2] \in Id /\ rc[3] \in Class /\ rc[1] = NameOf[rc[3]]
                       /\ rc = <<rc[1], rc[2], rc[3]>> /\ <<rc[1], rc[2]>> \in Loaded(rs)
    <2>1. \A rc \in rs : rc[1] = NameOf[rc[3]] /\ rc = <<rc[1], rc[2], rc[3]>>
      BY DEF Good, Record
    <2> QED
      BY <2>1, LoadedIs
  <1>2. \A pr \in Loaded(rs) : pr = <<pr[1], pr[2]>> /\ \E rc \in rs : rc[2] = pr[2]
    BY LoadedIs
  <1>3. \A i : i \in Has(p)' <=> \E pr \in Loaded(rs) : pr[2] = i
    BY DEF Has
  <1>4. \A i : i \in Has(p)' <=> \E rc \in rs : rc[2] = i
    <2> SUFFICES ASSUME NEW i
                 PROVE  (\E pr \in Loaded(rs) : pr[2] = i) <=> \E rc \in rs : rc[2] = i
      BY <1>3
    <2>1. ASSUME NEW rc \in rs, rc[2] = i PROVE \E pr \in Loaded(rs) : pr[2] = i
      <3>1. <<rc[1], rc[2]>> \in Loaded(rs)
        BY <1>1
      <3> WITNESS <<rc[1], rc[2]>> \in Loaded(rs)
      <3> QED
        BY <2>1
    <2> QED
      BY <1>2, <2>1
  <1>5. \A rc : rc \in Written(p)' <=>
             \E pr \in Loaded(rs) : /\ pr[1] = NameOf[cls'[pr[2]]]
                                    /\ rc = <<pr[1], pr[2], cls'[pr[2]]>>
    BY DEF Written
  <1>6. ASSUME NEW rc \in Written(p)' PROVE rc \in rs
    <2>1. PICK pr \in Loaded(rs) : /\ pr[1] = NameOf[cls'[pr[2]]]
                                   /\ rc = <<pr[1], pr[2], cls'[pr[2]]>>
      BY <1>5
    <2>2. PICK sc \in rs : sc[2] = pr[2]
      BY <1>2
    <2> QED
      BY <1>1, <2>1, <2>2
  <1>7. ASSUME NEW rc \in rs PROVE rc \in Written(p)'
    <2> DEFINE pr == <<rc[1], rc[2]>>
    <2>1. pr \in Loaded(rs) /\ pr[1] = NameOf[cls'[pr[2]]] /\ rc = <<pr[1], pr[2], cls'[pr[2]]>>
      BY <1>1
    <2> QED
      BY <1>5, <2>1
  <1>8. ASSUME NEW i \in Has(p)'
        PROVE  /\ cls'[i] \in Class
               /\ \A k : <<k, i>> \in objects'[p] <=> k \in Names(cls'[i])
    <2>1. PICK rc \in rs : rc[2] = i
      BY <1>4, <1>8
    <2>2. \A sc \in rs : sc[2] = i => sc = rc
      BY <2>1 DEF Good
    <2>3. cls'[i] = rc[3] /\ rc[3] \in Class
      BY <1>1, <2>1
    <2>4. \A k : <<k, i>> \in Loaded(rs) <=> \E sc \in rs : sc[2] = i /\ k \in Names(sc[3])
      BY LoadedIs
    <2> QED
      BY <2>1, <2>2, <2>3, <2>4
  <1> QED
    BY <1>4, <1>6, <1>7, <1>8

-----------------------------------------------------------------------------
(***************************************************************************)
(* Reading a file.                                                         *)
(***************************************************************************)

\* All records of a file.
Records(f) == {t[2] : t \in Tagged(f)}

LEMMA TaggedIs ==
    ASSUME NEW f
    PROVE  /\ \A t : t \in Tagged(f) <=> \E p \in DOMAIN f : \E rc \in f[p] : t = <<p, rc>>
           /\ \A p \in DOMAIN f : \A rc \in f[p] : <<p, rc>> \in Tagged(f)
           /\ \A rc : rc \in Records(f) <=> \E p \in DOMAIN f : rc \in f[p]
  <1>1. \A t : t \in Tagged(f) <=> \E p \in DOMAIN f : \E rc \in f[p] : t = <<p, rc>>
    BY DEF Tagged
  <1>2. \A p \in DOMAIN f : \A rc \in f[p] : <<p, rc>> \in Tagged(f) /\ <<p, rc>>[2] = rc
    BY <1>1
  <1>3. \A rc : rc \in Records(f) <=> \E t \in Tagged(f) : rc = t[2]
    BY DEF Records
  <1>4. ASSUME NEW rc, NEW p \in DOMAIN f, rc \in f[p] PROVE rc \in Records(f)
    <2>1. <<p, rc>> \in Tagged(f) /\ <<p, rc>>[2] = rc
      BY <1>2, <1>4
    <2> QED
      BY <1>3, <2>1
  <1>5. ASSUME NEW rc \in Records(f) PROVE \E p \in DOMAIN f : rc \in f[p]
    BY <1>1, <1>3, <1>5
  <1> QED
    BY <1>1, <1>2, <1>4, <1>5

LEMMA RecordsGood ==
    ASSUME NEW f, \A p \in DOMAIN f : Good(f[p]),
           \A p, q \in DOMAIN f : \A rc \in f[p], sc \in f[q] : rc[2] = sc[2] => p = q
    PROVE  Good(Records(f))
  <1>1. \A rc \in Records(f) : \E p \in DOMAIN f : rc \in f[p]
    BY TaggedIs
  <1>2. \A rc \in Records(f) : rc \in Record /\ rc[1] = NameOf[rc[3]]
    BY <1>1 DEF Good
  <1>3. ASSUME NEW rc \in Records(f), NEW sc \in Records(f), rc[2] = sc[2] PROVE rc = sc
    <2>1. PICK p \in DOMAIN f : rc \in f[p]
      BY <1>1
    <2>2. PICK q \in DOMAIN f : sc \in f[q]
      BY <1>1
    <2>3. p = q
      BY <1>3, <2>1, <2>2
    <2> QED
      BY <1>3, <2>1, <2>2, <2>3 DEF Good
  <1> QED
    BY <1>2, <1>3 DEF Good

LEMMA ClassesIs ==
    ASSUME NEW rs, Good(rs), Typed
    PROVE  /\ \A rc \in rs : Classes(cls, rs)[rc[2]] = rc[3]
           /\ \A i \in Id : (\A rc \in rs : rc[2] # i) => Classes(cls, rs)[i] = cls[i]
           /\ Classes(cls, rs) \in [Id -> Class \cup {NoClass}]
  <1>1. \A rc \in rs : rc[2] \in Id /\ rc[3] \in Class
    BY LoadedIs
  <1>2. ASSUME NEW rc \in rs PROVE Classes(cls, rs)[rc[2]] = rc[3]
    <2> DEFINE x == CHOOSE sc \in rs : sc[2] = rc[2]
    <2>1. x \in rs /\ x[2] = rc[2]
      OBVIOUS
    <2>2. x = rc
      BY <2>1 DEF Good
    <2>3. Classes(cls, rs)[rc[2]] = x[3]
      BY <1>1 DEF Classes
    <2> QED
      BY <2>2, <2>3
  <1>3. \A i \in Id : (\A rc \in rs : rc[2] # i) => Classes(cls, rs)[i] = cls[i]
    BY DEF Classes
  <1>4. \A i \in Id : Classes(cls, rs)[i] \in Class \cup {NoClass}
    BY <1>1, <1>2, <1>3 DEF Typed
  <1> QED
    BY <1>2, <1>3, <1>4 DEF Classes

\* obj_new and obj_dup: a reference for each name.
LEMMA LoadedCount ==
    ASSUME NEW rs, Good(rs), NEW i \in Id
    PROVE  /\ \A rc \in rs : rc[2] = i =>
                Cardinality({pr \in Loaded(rs) : pr[2] = i}) = Cardinality(Names(rc[3]))
           /\ (\A rc \in rs : rc[2] # i) => Cardinality({pr \in Loaded(rs) : pr[2] = i}) = 0
  <1> DEFINE ps == {pr \in Loaded(rs) : pr[2] = i}
  <1>1. \A pr \in Loaded(rs) : pr = <<pr[1], pr[2]>>
    BY LoadedIs
  <1>2. ASSUME NEW rc \in rs, rc[2] = i PROVE Cardinality(ps) = Cardinality(Names(rc[3]))
    <2>1. \A sc \in rs : sc[2] = i => sc = rc
      BY <1>2 DEF Good
    <2>2. \A k, j : <<k, j>> \in Loaded(rs) <=> \E sc \in rs : sc[2] = j /\ k \in Names(sc[3])
      BY LoadedIs
    <2>3. \A k : <<k, i>> \in Loaded(rs) <=> k \in Names(rc[3])
      BY <1>2, <2>1, <2>2
    <2>4. ps = Names(rc[3]) \X {i}
      BY <1>1, <2>3
    <2>5. IsFiniteSet(Names(rc[3])) /\ IsFiniteSet({i}) /\ Cardinality({i}) = 1
      BY LoadedIs, NamesType, FS_Singleton
    <2>6. Cardinality(Names(rc[3])) \in Nat
      BY <2>5, FS_CardinalityType
    <2>7. Cardinality(Names(rc[3]) \X {i}) = Cardinality(Names(rc[3])) * Cardinality({i})
      BY <2>5, FS_Product
    <2>8. Cardinality(Names(rc[3]) \X {i}) = Cardinality(Names(rc[3]))
      BY <2>5, <2>6, <2>7
    <2> HIDE DEF ps
    <2> QED
      BY <2>4, <2>8
  <1>3. ASSUME \A rc \in rs : rc[2] # i PROVE Cardinality(ps) = 0
    <2>1. ps = {}
      BY <1>3, LoadedIs
    <2> QED
      BY <2>1, FS_EmptySet
  <1> QED
    BY <1>2, <1>3

\* The maps of a file f come into memory, next to what is there: world_load and
\* userdb_init.
LEMMA LoadStep ==
    ASSUME ObjectsInv, op = "idle", NEW f, DOMAIN f \subseteq Place,
           \A p \in DOMAIN f : Good(f[p]) /\ objects[p] = {},
           \A p, q \in DOMAIN f : \A rc \in f[p], sc \in f[q] : rc[2] = sc[2] => p = q,
           \A p \in Place : \A i \in Has(p) : \A q \in DOMAIN f : \A rc \in f[q] : rc[2] # i,
           objects' = [p \in Place |-> IF p \in DOMAIN f THEN Loaded(f[p]) ELSE objects[p]],
           cls' = Classes(cls, Records(f)), ref' = Dup(ref, Loaded(Records(f))),
           strings' \in [Place -> SUBSET (Key \X (Id \cup {Literal}))],
           recs' \subseteq User, flags' \subseteq {"dug", "running"},
           idcounter' \in 1..MaxId + 1, idcounter' >= idcounter,
           \A p \in DOMAIN f : \A rc \in f[p] : rc[2] < idcounter',
           UNCHANGED <<leaked, loop, where, master>>
    PROVE  /\ ObjectsInv'
           /\ \A p \in DOMAIN f : /\ Written(p)' = f[p]
                                  /\ \A i : i \in Has(p)' <=> \E rc \in f[p] : rc[2] = i
                                  /\ \A rc \in f[p] : cls'[rc[2]] = rc[3]
           /\ \A p \in Place \ DOMAIN f : /\ Has(p)' = Has(p)
                                          /\ \A i \in Has(p) : cls'[i] = cls[i]
  <1>0. Typed /\ Exact /\ Fresh /\ Apart /\ Moving /\ Referred
    BY DEF ObjectsInv
  <1> DEFINE rs == Records(f)
  <1>1. Good(rs) /\ \A rc : rc \in rs <=> \E p \in DOMAIN f : rc \in f[p]
    BY RecordsGood, TaggedIs
  <1> HIDE DEF rs
  <1>2. /\ \A rc \in rs : cls'[rc[2]] = rc[3]
        /\ \A i \in Id : (\A rc \in rs : rc[2] # i) => cls'[i] = cls[i]
        /\ cls' \in [Id -> Class \cup {NoClass}]
    <2>1. cls' = Classes(cls, rs)
      BY DEF rs
    <2> QED
      BY <1>0, <1>1, <2>1, ClassesIs
  <1>3. \A p \in DOMAIN f : \A rc \in f[p] : cls'[rc[2]] = rc[3]
    BY <1>1, <1>2
  <1>4. ASSUME NEW p \in DOMAIN f
        PROVE  /\ Written(p)' = f[p]
               /\ \A i : i \in Has(p)' <=> \E rc \in f[p] : rc[2] = i
               /\ \A i \in Has(p)' : /\ cls'[i] \in Class
                                     /\ \A k : <<k, i>> \in objects'[p] <=> k \in Names(cls'[i])
    <2>1. p \in Place /\ Good(f[p]) /\ objects'[p] = Loaded(f[p])
      OBVIOUS
    <2>2. \A rc \in f[p] : cls'[rc[2]] = rc[3]
      BY <1>3
    <2> QED
      BY <2>1, <2>2, ReadMap
  <1>5. \A i \in Id : Held(i) => \A rc \in rs : rc[2] # i
    BY <1>1 DEF Held
  <1>6. ASSUME NEW p \in Place \ DOMAIN f
        PROVE  Has(p)' = Has(p) /\ objects'[p] = objects[p] /\ \A i \in Has(p) : cls'[i] = cls[i]
    <2>1. objects'[p] = objects[p]
      OBVIOUS
    <2>2. Has(p)' = Has(p)
      BY <2>1 DEF Has
    <2>3. \A i \in Has(p) : i \in Id /\ Held(i)
      BY <1>0, HasType DEF Held
    <2> QED
      BY <1>2, <1>5, <2>1, <2>2, <2>3
  <1>7. Exact'
    <2> SUFFICES ASSUME NEW p \in Place, NEW i \in Has(p)'
                 PROVE  /\ cls'[i] \in Class
                        /\ \A k : <<k, i>> \in objects'[p] <=> k \in Names(cls'[i])
      BY DEF Exact
    <2>1. CASE p \in DOMAIN f
      BY <1>4, <2>1
    <2>2. CASE p \notin DOMAIN f
      BY <1>0, <1>6, <2>2 DEF Exact
    <2> QED
      BY <2>1, <2>2
  <1>8. objects' \in [Place -> SUBSET (Key \X Id)]
    <2>1. \A p \in DOMAIN f : Loaded(f[p]) \in SUBSET (Key \X Id)
      BY LoadedIs
    <2> QED
      BY <1>0, <2>1 DEF Typed
  <1>9. \A p \in DOMAIN f : \A i : i \notin Has(p)
    BY DEF Has
  <1>10. \A i \in Id : Held(i)' <=> Held(i) \/ \E rc \in rs : rc[2] = i
    BY <1>1, <1>4, <1>6, <1>9 DEF Held
  <1>11. Fresh'
    <2> SUFFICES ASSUME NEW i \in Id, i >= idcounter', NEW p \in Place PROVE i \notin Has(p)'
      BY DEF Fresh
    <2>1. idcounter \in Nat /\ idcounter' \in Nat /\ i \in Nat
      BY <1>0 DEF Typed, Id
    <2>2. i >= idcounter
      BY <2>1
    <2>3. CASE p \in DOMAIN f
      <3> SUFFICES ASSUME i \in Has(p)' PROVE FALSE
        OBVIOUS
      <3>1. PICK rc \in f[p] : rc[2] = i
        BY <1>4, <2>3
      <3>2. i < idcounter'
        BY <2>3, <3>1
      <3> QED
        BY <2>1, <3>2
    <2>4. CASE p \notin DOMAIN f
      BY <1>0, <1>6, <2>2, <2>4 DEF Fresh
    <2> QED
      BY <2>3, <2>4
  <1>12. op' = "idle" /\ actor' = actor /\ todo' = todo /\ cur' = cur
    BY DEF loop
  <1>13. ~ Between /\ ~ Between'
    BY <1>12 DEF Between
  <1>14. Apart'
    <2> SUFFICES ASSUME NEW i \in Id, NEW p \in Place, NEW q \in Place,
                        i \in Has(p)', i \in Has(q)'
                 PROVE  p = q
      BY DEF Apart
    <2>1. CASE p \in DOMAIN f /\ q \in DOMAIN f
      BY <1>4, <2>1
    <2>2. CASE p \in DOMAIN f /\ q \notin DOMAIN f
      BY <1>4, <1>6, <2>2
    <2>3. CASE p \notin DOMAIN f /\ q \in DOMAIN f
      BY <1>4, <1>6, <2>3
    <2>4. CASE p \notin DOMAIN f /\ q \notin DOMAIN f
      BY <1>0, <1>6, <1>13, <2>4 DEF Apart
    <2> QED
      BY <2>1, <2>2, <2>3, <2>4
  <1>15. Moving'
    BY <1>12, <1>13 DEF Moving, Taking, Dropping, Dropped
  <1>16. Referred' /\ ref' \in [Id -> Int]
    <2>1. ASSUME NEW i \in Id
          PROVE  /\ ref'[i] = leaked'[i] + Share(i)' /\ ref'[i] \in Int
                 /\ (i >= idcounter' => leaked'[i] = 0)
      <3>1. /\ leaked'[i] = leaked[i] /\ leaked[i] \in Nat /\ ref[i] \in Int /\ i \in Nat
            /\ idcounter \in Nat /\ idcounter' \in Nat
        BY <1>0 DEF Typed, Id
      <3>2. i >= idcounter' => leaked'[i] = 0
        BY <1>0, <3>1 DEF Referred
      <3>3. ref'[i] = ref[i] + Cardinality({pr \in Loaded(rs) : pr[2] = i})
        BY DEF Dup, rs
      <3>4. ref[i] = leaked[i] + IF Held(i) THEN Size(i) ELSE 0
        BY <1>0, <1>13 DEF Referred, Share
      <3>5. Share(i)' = IF Held(i)' THEN Size(i)' ELSE 0
        BY <1>13 DEF Share
      <3>6. CASE \E rc \in rs : rc[2] = i
        <4>1. PICK rc \in rs : rc[2] = i
          BY <3>6
        <4>2. ~ Held(i) /\ Held(i)' /\ cls'[i] = rc[3] /\ rc[3] \in Class
          BY <1>1, <1>2, <1>5, <1>10, <4>1, LoadedIs
        <4>3. Cardinality({pr \in Loaded(rs) : pr[2] = i}) = Cardinality(Names(rc[3]))
          BY <1>1, <4>1, LoadedCount
        <4>4. Size(i)' = Cardinality(Names(rc[3])) /\ Cardinality(Names(rc[3])) \in Nat
          BY <4>2, NamesType, FS_CardinalityType DEF Size, Names
        <4> QED
          BY <3>1, <3>2, <3>3, <3>4, <3>5, <4>2, <4>3, <4>4
      <3>7. CASE \A rc \in rs : rc[2] # i
        <4>1. Cardinality({pr \in Loaded(rs) : pr[2] = i}) = 0
          BY <1>1, <3>7, LoadedCount
        <4>2. (Held(i)' <=> Held(i)) /\ cls'[i] = cls[i]
          BY <1>2, <1>10, <3>7
        <4>3. Size(i)' = Size(i)
          BY <4>2 DEF Size, Names
        <4> QED
          BY <3>1, <3>2, <3>3, <3>4, <3>5, <4>1, <4>2, <4>3
      <3> QED
        BY <3>6, <3>7
    <2> QED
      BY <2>1 DEF Referred, Dup
  <1>17. Typed'
    BY <1>0, <1>2, <1>8, <1>12, <1>16 DEF Typed
  <1> QED
    BY <1>3, <1>4, <1>6, <1>7, <1>11, <1>14, <1>15, <1>16, <1>17 DEF ObjectsInv

-----------------------------------------------------------------------------
(***************************************************************************)
(* A world file that was cut off.                                          *)
(***************************************************************************)
Flag == {"dug", "running"}
WorldFile ==
    [st : {"absent", "whole", "torn"}, rooms : [Room -> SUBSET Record],
     flags : SUBSET Flag, counter : 1..MaxId + 1]

LEMMA FiniteRecord == IsFiniteSet(Record)
  <1>1. IsFiniteSet(Key \X Id)
    BY PairsFinite
  <1>2. IsFiniteSet(Class)
    <2>1. \A x : IsFiniteSet({x})
      BY FS_Singleton
    <2>2. \A S, x : IsFiniteSet(S) => IsFiniteSet(S \cup {x})
      BY FS_AddElement
    <2>3. Class = {"shovel"} \cup {"trees"} \cup {"boulder"} \cup {"food"} \cup {"bear"}
                    \cup {"bracelet"} \cup {"bins"} \cup {"computer"} \cup {"key"} \cup {"cpu"}
      BY DEF Class
    <2>4. IsFiniteSet({"shovel"} \cup {"trees"} \cup {"boulder"} \cup {"food"} \cup {"bear"})
      BY <2>1, <2>2
    <2> QED
      BY <2>2, <2>3, <2>4
  <1>3. IsFiniteSet((Key \X Id) \X Class)
    BY <1>1, <1>2, FS_Product
  <1> DEFINE g == [rc \in Record |-> <<<<rc[1], rc[2]>>, rc[3]>>]
  <1>4. g \in Injection(Record, (Key \X Id) \X Class)
    <2>1. \A rc \in Record : /\ rc[1] \in Key /\ rc[2] \in Id /\ rc[3] \in Class
                             /\ rc = <<rc[1], rc[2], rc[3]>>
      BY DEF Record
    <2>2. g \in [Record -> (Key \X Id) \X Class]
      BY <2>1
    <2>3. ASSUME NEW a \in Record, NEW b \in Record, g[a] = g[b] PROVE a = b
      <3>1. <<<<a[1], a[2]>>, a[3]>> = <<<<b[1], b[2]>>, b[3]>>
        BY <2>3
      <3>2. a[1] = b[1] /\ a[2] = b[2] /\ a[3] = b[3]
        BY <3>1
      <3> QED
        BY <2>1, <3>2
    <2> HIDE DEF g
    <2> QED
      BY <2>2, <2>3 DEF Injection, IsInjective
  <1> QED
    BY <1>3, <1>4, FS_Injection

AmountSet(f, k, c) == UNION {{<<j, rc>> : rc \in {x \in f.rooms[Order[j]] : x[3] = c}} : j \in 1..k}

\* A class that has no objects in the old file and one in the new file changes
\* the length of the file.
LEMMA AmountSame ==
    ASSUME NEW old \in WorldFile, NEW new \in WorldFile, NEW k \in 0..Len(Order), NEW j \in 1..k,
           NEW rc \in new.rooms[Order[j]],
           Amount(old, k, rc[3]) = Amount(new, k, rc[3])
    PROVE  \E q \in Room : \E sc \in old.rooms[q] : sc[3] = rc[3]
  <1> DEFINE c == rc[3]
  <1> SUFFICES ASSUME \A q \in Room : \A sc \in old.rooms[q] : sc[3] # c PROVE FALSE
    OBVIOUS
  <1>1. rc[3] = c /\ Amount(old, k, c) = Amount(new, k, c)
    OBVIOUS
  <1>2. new.rooms \in [Room -> SUBSET Record]
    BY DEF WorldFile
  <1> HIDE DEF c
  <1>3. k \in Nat /\ \A m \in 1..k : Order[m] \in Room
    BY PersistAssumption
  <1>4. \A f, t : t \in AmountSet(f, k, c) <=>
          \E m \in 1..k : \E x \in f.rooms[Order[m]] : x[3] = c /\ t = <<m, x>>
    BY DEF AmountSet
  <1>5. AmountSet(old, k, c) = {}
    BY <1>3, <1>4
  <1>6. <<j, rc>> \in AmountSet(new, k, c)
    BY <1>4, <1>1
  <1>7. AmountSet(new, k, c) \in SUBSET ((1..k) \X Record)
    BY <1>3, <1>4, <1>2
  <1>8. IsFiniteSet((1..k) \X Record)
    <2>1. IsFiniteSet(1..k)
      BY <1>3, FS_Interval
    <2> QED
      BY <2>1, FiniteRecord, FS_Product
  <1>9. IsFiniteSet(AmountSet(new, k, c))
    BY <1>7, <1>8, FS_Subset
  <1>10. Cardinality(AmountSet(old, k, c)) = 0 /\ Cardinality(AmountSet(new, k, c)) # 0
    BY <1>5, <1>6, <1>9, FS_EmptySet
  <1> QED
    BY <1>10, <1>1 DEF Amount, AmountSet

\* The new file goes on as the old one: then every class in the part that was
\* written has been in the old file.
Mixed(w, old, new, done) ==
    /\ w \in WorldFile /\ w.st = "whole" /\ w.counter = old.counter
    /\ \A r \in Room : w.rooms[r] = IF r \in done THEN new.rooms[r] ELSE old.rooms[r]
    /\ \A f \in Flag : f \in w.flags <=> IF RoomOf(f) \in done THEN f \in new.flags ELSE f \in old.flags
    /\ \A r \in done : \A rc \in new.rooms[r] :
         \E q \in Room : \E sc \in old.rooms[q] : sc[3] = rc[3]

LEMMA CutIs ==
    ASSUME NEW old \in WorldFile, NEW new \in WorldFile, NEW k \in 0..Len(Order)
    PROVE  \/ WorldCut(old, new, k) = NoWorld("torn")
           \/ /\ old.st = "whole"
              /\ \E done \in SUBSET Room : Mixed(WorldCut(old, new, k), old, new, done)
  <1> DEFINE done == {Order[j] : j \in 1..k}
             w == WorldCut(old, new, k)
             rooms == [r \in Room |-> IF r \in done THEN new.rooms[r] ELSE old.rooms[r]]
             fl == {f \in new.flags : RoomOf(f) \in done} \cup {f \in old.flags : RoomOf(f) \notin done}
  <1>1. SUFFICES ASSUME old.st = "whole",
                        \A c \in Class : Amount(old, k, c) = Amount(new, k, c)
                 PROVE  done \in SUBSET Room /\ Mixed(w, old, new, done)
    BY DEF WorldCut
  <1>2. done \in SUBSET Room
    BY PersistAssumption
  <1>3. w = [old EXCEPT !.rooms = rooms, !.flags = fl]
    BY <1>1 DEF WorldCut
  <1>4. rooms \in [Room -> SUBSET Record] /\ fl \in SUBSET Flag
    BY DEF WorldFile
  <1>5. ASSUME NEW r \in done, NEW rc \in new.rooms[r]
        PROVE  \E q \in Room : \E sc \in old.rooms[q] : sc[3] = rc[3]
    <2>1. PICK j \in 1..k : r = Order[j]
      OBVIOUS
    <2>2. new.rooms \in [Room -> SUBSET Record] /\ rc[3] \in Class
      BY <1>2 DEF WorldFile, Record
    <2>3. Amount(old, k, rc[3]) = Amount(new, k, rc[3])
      BY <1>1, <2>2
    <2>4. rc \in new.rooms[Order[j]]
      BY <2>1
    <2> QED
      BY <2>3, <2>4, AmountSame
  <1>6. \A r \in Room : rooms[r] = IF r \in done THEN new.rooms[r] ELSE old.rooms[r]
    OBVIOUS
  <1>7. \A f : f \in fl <=> IF RoomOf(f) \in done THEN f \in new.flags ELSE f \in old.flags
    OBVIOUS
  <1> HIDE DEF rooms, fl, done, w
  <1>8. w \in WorldFile /\ w.st = "whole" /\ w.counter = old.counter /\ w.rooms = rooms /\ w.flags = fl
    BY <1>1, <1>3, <1>4 DEF WorldFile
  <1> QED
    BY <1>2, <1>5, <1>6, <1>7, <1>8 DEF Mixed

-----------------------------------------------------------------------------
(***************************************************************************)
(* The invariant.                                                          *)
(***************************************************************************)

\* The world file of the only directory there is, and the inventories of the
\* user file.
Saved == worldfile["launch"]
Bag == userfile.users
Running == pc \in {"world", "userdb", "users", "up"}

Files ==
    /\ worldfile \in [Directory -> WorldFile]
    /\ userfile.st \in {"absent", "whole", "torn"} /\ DOMAIN Bag \subseteq User
    /\ \A r \in Room : Good(Saved.rooms[r])
    /\ \A u \in DOMAIN Bag : Good(Bag[u])
    /\ userfile.st = "absent" => DOMAIN Bag = {}
    /\ Saved.st # "whole" => promise.st = "none" /\ \A r \in Room : Saved.rooms[r] = {}
    /\ Saved.st = "absent" => userfile.st = "absent"

\* The memory of a process that does not run.
Blank ==
    /\ ref = [i \in Id |-> 0] /\ cls = [i \in Id |-> NoClass]
    /\ leaked = [i \in Id |-> 0] /\ idcounter = 1
    /\ objects = [p \in Place |-> {}] /\ strings = [p \in Place |-> {}]
    /\ recs = {} /\ flags = {} /\ master = "up"
    /\ where = [u \in User |-> Nowhere]
    /\ op = "idle" /\ actor = NoUser /\ todo = {} /\ cur = 0

\* Users have nothing before the user file is read, and no handler runs.
Starting == pc = "userdb" \/ (pc \in {"world", "users"} /\ task = "start")

Phases ==
    /\ pc \in Pc /\ task \in {"start", "serve", "exit"} /\ n \in 0..SaveInterval - 1
    /\ pc = "down" => Blank
    /\ Starting => op = "idle" /\ \A u \in User : objects[u] = {}
    /\ pc \in {"userdb", "up", "down"} => task = "start"
    /\ task = "serve" => pc \in {"world", "users"} /\ op = "save"
    /\ task = "exit" => pc \in {"world", "users"}
    /\ Running => Saved.st = IF pc = "world" /\ task = "start" THEN "absent" ELSE "whole"

\* After world_load and after world_save, file and memory agree.
Current ==
    pc \in {"userdb", "users"} =>
        /\ \A r \in Room : Saved.rooms[r] = Written(r)
        /\ Saved.flags = flags
        /\ pc = "users" /\ task # "start" => Saved.counter = idcounter

\* What is left of a save in the files, and what the save before it has left.
KeptUsers ==
    /\ userfile.st = "whole" /\ DOMAIN Bag = promise.recs
    /\ \A u \in User : promise.objects[u] = IF u \in promise.recs THEN Loaded(Bag[u]) ELSE {}
KeptRooms == \A r \in Room : Loaded(Saved.rooms[r]) = promise.objects[r]
NewUsers == \A u \in DOMAIN Bag : Bag[u] = Written(u)
NewRooms == \A r \in Room : Saved.rooms[r] = Written(r)

\* Between two saves, the files hold what was promised.  In a save they hold it
\* still, or, where SIGINT has interrupted one, already what is written now.
Promise ==
    [st : {"none", "kept"}, objects : [Place -> SUBSET (Key \X Id)], recs : SUBSET User,
     flags : SUBSET Flag]

Kept ==
    /\ promise \in Promise
    /\ promise.st = "kept" =>
         /\ \A p, q \in Place : \A a \in promise.objects[p], b \in promise.objects[q] :
              a[2] = b[2] => p = q
         /\ KeptUsers \/ (task = "exit" /\ NewUsers)
         /\ pc # "users" => KeptRooms \/ (task = "exit" /\ NewRooms)
         /\ pc \notin {"world", "users"} => Saved.flags = promise.flags

\* The counter of the world file is above all ids of both files.
Numbered ==
    Saved.st = "whole" =>
        /\ \A r \in Room : \A rc \in Saved.rooms[r] : rc[2] < Saved.counter
        /\ \A u \in DOMAIN Bag : \A rc \in Bag[u] : rc[2] < Saved.counter
        /\ Running => Saved.counter <= idcounter

Recorded(c) == \E r \in Room : \E rc \in Saved.rooms[r] : rc[3] = c
Owned(c) == \E u \in DOMAIN Bag : \E rc \in Bag[u] : rc[3] = c

\* BearsHome and CardDug, for the files.
Beasts ==
    /\ \A r \in Room : \A rc \in Saved.rooms[r] : rc[3] = "bear" => r = HomeOf.bear
    /\ ~ Owned("bear")
    /\ Recorded("key") \/ Owned("key") => ~ Recorded("bear") /\ ~ Around("bear")

Cards ==
    Saved.st = "whole" /\ (Recorded("cpu") \/ Owned("cpu"))
        => "dug" \in Saved.flags /\ (Running => "dug" \in flags)

\* What is newer than the world file is of a class the file does not have.
Later ==
    Running /\ Saved.st = "whole" =>
        \A p \in Place : \A i \in Has(p) : i >= Saved.counter => ~ Recorded(cls[i])

PInv ==
    /\ ObjectsInv /\ Tame
    /\ Files /\ Phases /\ Current /\ Kept /\ Numbered /\ Beasts /\ Cards /\ Later

LEMMA BlankInv == Blank => ObjectsInv /\ Tame
  <1> SUFFICES ASSUME Blank PROVE ObjectsInv /\ Tame
    OBVIOUS
  <1>1. \A p \in Place : \A i : i \notin Has(p)
    BY DEF Blank, Has
  <1>2. op = "idle" /\ leaked = [i \in Id |-> 0] /\ ref = [i \in Id |-> 0]
    BY DEF Blank
  <1>3. Typed
    BY ObjectsAssumption DEF Blank, Typed, Ops
  <1>4. Exact /\ Fresh /\ Apart
    BY <1>1 DEF Exact, Fresh, Apart
  <1>5. Moving
    BY <1>2 DEF Moving, Between, Taking, Dropping, Dropped
  <1>6. Referred
    BY <1>1, <1>2 DEF Referred, Share, Held, Between
  <1>7. Tame
    BY <1>1, <1>2, ObjectsAssumption
    DEF Tame, Owners, BearsHome, CardDug, Around, Dropping, Dropped, Place
  <1> QED
    BY <1>3, <1>4, <1>5, <1>6, <1>7 DEF ObjectsInv

LEMMA BlankNext == Blank' => ObjectsInv' /\ Tame'
  BY BlankInv, PTL

LEMMA GoneBlank == Gone => Blank'
  BY DEF Gone, Idle, Blank

LEMMA MadeTame == Init => Tame
  <1> SUFFICES ASSUME Init PROVE Tame
    OBVIOUS
  <1>1. \A p \in Place : \A i \in Has(p) : i \in Made /\ HomeOf[Stock[i]] = p
    BY DEF Init, Has, MadeObjects, MadeAt
  <1>2. ASSUME NEW p \in Place, NEW i \in Has(p)
        PROVE  /\ cls[i] \in DOMAIN HomeOf /\ HomeOf[cls[i]] = p /\ p \in Room
               /\ cls[i] # "key" /\ cls[i] # "cpu"
    <2>1. i \in Made /\ HomeOf[Stock[i]] = p
      BY <1>1
    <2>2. i \in Id /\ Stock[i] \in DOMAIN HomeOf /\ p \in Room
      BY <2>1, StockClass, ObjectsAssumption DEF Made
    <2>3. cls[i] = Stock[i]
      BY <2>1, <2>2 DEF Init, MadeCls
    <2>4. "key" \notin DOMAIN HomeOf /\ "cpu" \notin DOMAIN HomeOf
      BY DEF HomeOf
    <2> QED
      BY <2>1, <2>2, <2>3, <2>4
  <1>3. \A u \in User : \A i : i \notin Has(u)
    BY <1>2, ObjectsAssumption DEF Place
  <1>4. \A r \in Room : \A i \in Has(r) : cls[i] = "bear" => r = HomeOf.bear
    BY <1>2 DEF Place
  <1>5. ~ Around("key") /\ ~ Around("cpu")
    BY <1>2 DEF Around
  <1>6. op = "idle"
    BY DEF Init
  <1> QED
    BY <1>3, <1>4, <1>5, <1>6 DEF Tame, Owners, BearsHome, CardDug, Dropping, Dropped

LEMMA MadeNext == Init' => ObjectsInv' /\ Tame'
  BY ObjectsInit, MadeTame, PTL

LEMMA PersistInit == PInit => PInv
  <1> SUFFICES ASSUME PInit PROVE PInv
    OBVIOUS
  <1>1. Blank
    BY DEF PInit, Blank
  <1>2. ObjectsInv /\ Tame
    BY <1>1, BlankInv
  <1>3. /\ pc = "down" /\ task = "start" /\ n = 0
        /\ worldfile = [d \in Directory |-> NoWorld("absent")]
        /\ userfile = NoUsers("absent") /\ promise = NoPromise
    BY DEF PInit
  <1>4. NoWorld("absent") \in WorldFile
    BY ObjectsAssumption DEF NoWorld, NoRooms, WorldFile, Flag
  <1>5. /\ Saved = NoWorld("absent") /\ Saved.st = "absent"
        /\ \A r \in Room : Saved.rooms[r] = {}
    BY <1>3 DEF Saved, NoWorld, NoRooms, Directory
  <1>6. userfile.st = "absent" /\ DOMAIN Bag = {}
    BY <1>3 DEF Bag, NoUsers
  <1>7. promise \in Promise /\ promise.st = "none"
    BY <1>3 DEF NoPromise, Promise, Flag
  <1>8. Files
    BY <1>3, <1>4, <1>5, <1>6, <1>7 DEF Files, Good
  <1>9. Phases
    BY <1>1, <1>3, PersistAssumption DEF Phases, Pc, Starting, Running
  <1> QED
    BY <1>2, <1>3, <1>5, <1>6, <1>7, <1>8, <1>9
    DEF PInv, Current, Kept, Numbered, Beasts, Cards, Later, Recorded, Owned, Running

-----------------------------------------------------------------------------
(***************************************************************************)
(* Steps that write nothing.                                               *)
(***************************************************************************)
LEMMA SameFiles ==
    ASSUME UNCHANGED <<worldfile, userfile, promise>>
    PROVE  /\ Saved' = Saved /\ Bag' = Bag
           /\ Files => Files'
           /\ \A c : (Recorded(c)' <=> Recorded(c)) /\ (Owned(c)' <=> Owned(c))
  <1>1. Saved' = Saved /\ Bag' = Bag
    BY DEF Saved, Bag
  <1> QED
    BY <1>1 DEF Files, Recorded, Owned

LEMMA SameMemory ==
    ASSUME ObjectsInv, Tame, UNCHANGED vars
    PROVE  /\ ObjectsInv' /\ Tame'
           /\ \A p \in Place : Has(p)' = Has(p) /\ Written(p)' = Written(p)
           /\ \A c : Around(c)' <=> Around(c)
  <1>1. ObjectsInv' /\ Tame'
    BY ObjectsNext, TameNext
  <1>2. UNCHANGED <<objects, cls>>
    BY DEF vars, maps, heap
  <1>3. \A p \in Place : Has(p)' = Has(p) /\ Written(p)' = Written(p)
    BY <1>2 DEF Has, Written
  <1> QED
    BY <1>1, <1>2, <1>3 DEF Around

LEMMA Still ==
    ASSUME PInv, UNCHANGED <<vars, worldfile, userfile, promise>>, Phases', Current',
           Running' => Running,
           pc' \in {"world", "users"} \/ pc \notin {"world", "users"},
           task = "exit" \/ (pc = "users" /\ pc' # "users") => task' = "exit"
    PROVE  PInv'
  <1>0. /\ ObjectsInv /\ Tame
        /\ Files /\ Phases /\ Current /\ Kept /\ Numbered /\ Beasts /\ Cards /\ Later
    BY DEF PInv
  <1>1. /\ Saved' = Saved /\ Bag' = Bag /\ Files'
        /\ \A c : (Recorded(c)' <=> Recorded(c)) /\ (Owned(c)' <=> Owned(c))
    BY <1>0, SameFiles
  <1>2. /\ ObjectsInv' /\ Tame'
        /\ \A p \in Place : Has(p)' = Has(p) /\ Written(p)' = Written(p)
        /\ \A c : Around(c)' <=> Around(c)
    BY <1>0, SameMemory
  <1>3. UNCHANGED <<idcounter, flags, cls>>
    BY DEF vars, heap, world
  <1>4. Kept'
    <2>1. /\ KeptUsers' <=> KeptUsers
          /\ KeptRooms' <=> KeptRooms
      BY <1>1 DEF KeptUsers, KeptRooms
    <2>2. /\ NewUsers' <=> NewUsers
          /\ NewRooms' <=> NewRooms
      <3>1. (\A u \in DOMAIN Bag : u \in Place) /\ \A r \in Room : r \in Place
        BY <1>0 DEF Files, Place
      <3> QED
        BY <1>1, <1>2, <3>1 DEF NewUsers, NewRooms
    <2>3. pc = "users" => NewRooms
      BY <1>0 DEF Current, NewRooms
    <2> QED
      BY <1>0, <1>1, <2>1, <2>2, <2>3 DEF Kept
  <1>5. Numbered'
    BY <1>0, <1>1, <1>3 DEF Numbered
  <1>6. Beasts'
    BY <1>0, <1>1, <1>2 DEF Beasts
  <1>7. Cards'
    BY <1>0, <1>1, <1>3 DEF Cards
  <1>8. Later'
    BY <1>0, <1>1, <1>2, <1>3 DEF Later
  <1> QED
    BY <1>1, <1>2, <1>4, <1>5, <1>6, <1>7, <1>8 DEF PInv

LEMMA BumpedType == n \in Nat => Bumped \in 0..SaveInterval - 1
  BY PersistAssumption DEF Bumped

LEMMA FailsKeep == ASSUME PInv, StartFails \/ UserdbFails PROVE PInv'
  <1>1. /\ UNCHANGED <<vars, task, n, worldfile, userfile, promise>>
        /\ pc \in {"down", "userdb"} /\ pc' \in {"twins", "refused"}
    BY DEF StartFails, UserdbFails
  <1>2. Phases /\ pc \in Pc /\ pc' \in Pc /\ task = "start"
    BY <1>1 DEF PInv, Phases, Pc
  <1>3. Phases'
    BY <1>1, <1>2 DEF Phases, Starting, Running
  <1>4. Current' /\ ~ Running'
    BY <1>1 DEF Current, Running
  <1> QED
    BY <1>1, <1>3, <1>4, Still

\* The server works: what is new is newer than the world file.
LEMMA ServeKeeps ==
    ASSUME PInv, [Next]_vars, pc = "up", n' \in 0..SaveInterval - 1,
           UNCHANGED <<pc, task, worldfile, userfile, promise>>
    PROVE  PInv'
  <1>0. /\ ObjectsInv /\ Tame
        /\ Files /\ Phases /\ Current /\ Kept /\ Numbered /\ Beasts /\ Cards /\ Later
    BY DEF PInv
  <1>1. /\ Saved' = Saved /\ Bag' = Bag /\ Files'
        /\ \A c : (Recorded(c)' <=> Recorded(c)) /\ (Owned(c)' <=> Owned(c))
    BY <1>0, SameFiles
  <1>2. ObjectsInv' /\ Tame' /\ Births
    BY <1>0, ObjectsNext, TameNext
  <1>3. Running /\ Running' /\ Saved.st = "whole" /\ task = "start"
    BY <1>0 DEF Running, Phases
  <1>4. Phases'
    BY <1>0, <1>1, <1>3 DEF Phases, Starting, Pc, Running
  <1>5. Current'
    BY DEF Current
  <1>6. Kept'
    BY <1>0, <1>1, <1>3 DEF Kept, KeptUsers, KeptRooms
  <1>7. idcounter \in Nat /\ idcounter' \in Nat /\ idcounter' >= idcounter /\ flags \subseteq flags'
    BY <1>0, <1>2 DEF ObjectsInv, Typed, Births
  <1>8. Saved.counter \in Nat /\ Saved \in WorldFile
    BY <1>0 DEF Files, WorldFile, Saved, Directory
  <1>9. Numbered'
    BY <1>0, <1>1, <1>3, <1>7, <1>8 DEF Numbered
  <1>10. Around("bear")' => Around("bear")
    BY <1>2 DEF Around, Births, Held
  <1>11. Beasts'
    BY <1>0, <1>1, <1>10 DEF Beasts
  <1>12. Cards'
    BY <1>0, <1>1, <1>3, <1>7 DEF Cards
  <1>13. Later'
    <2> SUFFICES ASSUME NEW p \in Place, NEW i \in Has(p)', i >= Saved.counter, Recorded(cls'[i])
                 PROVE  FALSE
      BY <1>1 DEF Later
    <2>1. CASE Held(i) /\ cls'[i] = cls[i]
      BY <1>0, <1>3, <2>1 DEF Later, Held
    <2>2. CASE cls'[i] = "cpu" /\ "dug" \notin flags
      BY <1>0, <1>3, <2>2 DEF Cards
    <2>3. CASE cls'[i] = "key" /\ Around("bear")
      BY <1>0, <2>3 DEF Beasts
    <2> QED
      BY <1>2, <2>1, <2>2, <2>3 DEF Births
  <1> QED
    BY <1>1, <1>2, <1>4, <1>5, <1>6, <1>9, <1>11, <1>12, <1>13 DEF PInv

LEMMA SaveDueKeeps == ASSUME PInv, SaveDue PROVE PInv'
  <1>0. Phases /\ ObjectsInv /\ n \in Nat
    BY DEF PInv, Phases
  <1>1. pc = "up" /\ op = "save" /\ n' = Bumped /\ UNCHANGED <<worldfile, userfile, promise>>
    BY DEF SaveDue
  <1>2. n' \in 0..SaveInterval - 1
    BY <1>0, <1>1, BumpedType
  <1>3. CASE n' = 0
    <2>1. pc' = "world" /\ task' = "serve" /\ UNCHANGED vars
      BY <1>3 DEF SaveDue
    <2>2. Saved' = Saved /\ op' = op /\ Running /\ Running' /\ ~ Starting' /\ Saved.st = "whole"
      BY <1>0, <1>1, <2>1 DEF Saved, vars, loop, Running, Starting, Phases
    <2>3. Phases'
      BY <1>1, <1>2, <2>1, <2>2 DEF Phases, Pc
    <2>4. Current'
      BY <2>1 DEF Current
    <2>5. task # "exit"
      BY <1>0, <1>1 DEF Phases
    <2> QED
      BY <1>1, <2>1, <2>2, <2>3, <2>4, <2>5, Still
  <1>4. CASE n' # 0
    <2>1. Idle /\ UNCHANGED <<maps, heap, world, pc, task>>
      BY <1>4 DEF SaveDue
    <2>2. [Next]_vars
      BY <1>1, <2>1 DEF Next, SaveState
    <2> QED
      BY <1>1, <1>2, <2>1, <2>2, ServeKeeps
  <1> QED
    BY <1>3, <1>4

-----------------------------------------------------------------------------
(***************************************************************************)
(* The start of the server.                                                *)
(***************************************************************************)
LEMMA FirstRunKeeps == ASSUME PInv, NEW u \in User, FirstRunSetup(u) PROVE PInv'
  <1>0. /\ ObjectsInv /\ Tame
        /\ Files /\ Phases /\ Current /\ Kept /\ Numbered /\ Beasts /\ Cards /\ Later
    BY DEF PInv
  <1>1. /\ pc = "userdb" /\ pc' = "users" /\ recs' = {u} /\ n' = Bumped
        /\ UNCHANGED <<objects, strings, ref, cls, idcounter, leaked, op, actor, todo, cur>>
        /\ UNCHANGED <<where, flags, master, task, worldfile, userfile, promise>>
    BY DEF FirstRunSetup, maps, heap, loop
  <1>2. /\ Saved' = Saved /\ Bag' = Bag /\ Files'
        /\ \A c : (Recorded(c)' <=> Recorded(c)) /\ (Owned(c)' <=> Owned(c))
    BY <1>0, <1>1, SameFiles
  <1>3. /\ task = "start" /\ op = "idle" /\ (\A v \in User : objects[v] = {})
        /\ Saved.st = "whole" /\ n \in Nat
    BY <1>0, <1>1 DEF Phases, Starting, Running
  <1>4. \A p \in Place : Has(p)' = Has(p) /\ Written(p)' = Written(p)
    BY <1>1 DEF Has, Written
  <1>5. (\A c : Around(c)' <=> Around(c)) /\ \A i : Held(i)' <=> Held(i)
    BY <1>1, <1>4 DEF Around, Held
  <1>6. ObjectsInv'
    <2>0. Typed /\ Exact /\ Fresh /\ Apart /\ Moving /\ Referred
      BY <1>0 DEF ObjectsInv
    <2>1. Typed'
      BY <1>1, <2>0 DEF Typed
    <2>2. Exact' /\ Fresh'
      BY <1>1, <1>4, <2>0, SameMaps DEF Fresh
    <2>3. Apart' /\ Moving'
      BY <1>1, <1>3, <1>4, <2>0 DEF Apart, Moving, Between, Taking, Dropping, Dropped
    <2>4. \A i \in Id : Share(i)' = Share(i)
      BY <1>1, <1>5 DEF Share, Size, Between, Names
    <2>5. Referred'
      BY <1>1, <2>0, <2>4 DEF Referred
    <2> QED
      BY <2>1, <2>2, <2>3, <2>5 DEF ObjectsInv
  <1>7. Tame'
    <2>1. \A v \in User : \A i : i \notin Has(v)
      BY <1>3 DEF Has
    <2>2. \A v \in User : v \in Place
      BY DEF Place
    <2>3. \A r \in Room : r \in Place
      BY DEF Place
    <2> QED
      BY <1>0, <1>1, <1>3, <1>4, <1>5, <2>1, <2>2, <2>3
      DEF Tame, Owners, BearsHome, CardDug, Dropping, Dropped
  <1>8. Phases'
    BY <1>1, <1>2, <1>3, BumpedType DEF Phases, Starting, Running, Pc
  <1>9. Current'
    <2>1. \A r \in Room : Written(r)' = Written(r)
      BY <1>4 DEF Place
    <2> QED
      BY <1>0, <1>1, <1>2, <1>3, <2>1 DEF Current
  <1>10. Kept'
    BY <1>0, <1>1, <1>2, <1>3 DEF Kept, KeptUsers
  <1>11. Numbered' /\ Cards' /\ Later' /\ Beasts'
    <2>1. Running /\ Running'
      BY <1>1 DEF Running
    <2> QED
      BY <1>0, <1>1, <1>2, <1>4, <1>5, <2>1 DEF Numbered, Cards, Later, Beasts
  <1> QED
    BY <1>2, <1>6, <1>7, <1>8, <1>9, <1>10, <1>11 DEF PInv

LEMMA StartFreshKeeps == ASSUME PInv, StartFresh PROVE PInv'
  <1>0. Files /\ Phases /\ Kept
    BY DEF PInv
  <1>1. /\ pc = "down" /\ pc' = "world" /\ task' = "start" /\ Saved.st = "absent"
        /\ UNCHANGED <<n, worldfile, userfile, promise>>
    BY DEF StartFresh, Saved
  <1>2. /\ Saved' = Saved /\ Bag' = Bag /\ Files'
        /\ \A c : (Recorded(c)' <=> Recorded(c)) /\ (Owned(c)' <=> Owned(c))
    BY <1>0, <1>1, SameFiles
  <1>3. Blank
    BY <1>0, <1>1 DEF Phases
  <1>4. Init'
    BY <1>3 DEF Blank, Init, StartFresh, loop, world
  <1>5. ObjectsInv' /\ Tame'
    BY <1>4, MadeNext
  <1>6. op' = "idle" /\ recs' = {} /\ \A u \in User : objects'[u] = {}
    <2>1. op' = "idle" /\ recs' = {}
      BY <1>4 DEF Init
    <2>2. \A u \in User : \A i : i \notin Has(u)'
      BY <1>5, <2>1 DEF Tame, Owners
    <2> QED
      BY <2>1, <2>2 DEF Has
  <1>7. Phases'
    BY <1>0, <1>1, <1>2, <1>6 DEF Phases, Starting, Running, Pc
  <1>8. (\A r \in Room : Saved.rooms[r] = {}) /\ DOMAIN Bag = {} /\ promise.st = "none"
    BY <1>0, <1>1 DEF Files
  <1>9. \A c : ~ Recorded(c) /\ ~ Owned(c)
    BY <1>8 DEF Recorded, Owned
  <1>10. Kept'
    BY <1>0, <1>1, <1>2, <1>8 DEF Kept
  <1>11. Beasts'
    BY <1>2, <1>8, <1>9 DEF Beasts
  <1>12. Current' /\ Numbered' /\ Cards' /\ Later'
    BY <1>1, <1>2 DEF Current, Numbered, Cards, Later
  <1> QED
    BY <1>2, <1>5, <1>7, <1>10, <1>11, <1>12 DEF PInv

LEMMA SingleRecords ==
    ASSUME NEW f, NEW ts, Tagged(f) \subseteq ts, ~ Doubled(ts)
    PROVE  \A p, q \in DOMAIN f : \A rc \in f[p], sc \in f[q] : rc[2] = sc[2] => p = q
  <1> SUFFICES ASSUME NEW p \in DOMAIN f, NEW q \in DOMAIN f, NEW rc \in f[p], NEW sc \in f[q],
                      rc[2] = sc[2]
               PROVE  p = q
    OBVIOUS
  <1>1. <<p, rc>> \in ts /\ <<q, sc>> \in ts
    BY TaggedIs
  <1>2. \A t, v \in ts : t[2][2] = v[2][2] => t = v
    BY DEF Doubled
  <1>3. <<p, rc>> = <<q, sc>>
    BY <1>1, <1>2
  <1> QED
    BY <1>3

LEMMA StartLoadKeeps == ASSUME PInv, StartLoad PROVE PInv'
  <1>0. ObjectsInv /\ Files /\ Phases /\ Kept /\ Numbered /\ Beasts /\ Cards
    BY DEF PInv
  <1> DEFINE f == Saved.rooms
  <1>1. /\ pc = "down" /\ pc' = "userdb" /\ task' = "start" /\ Saved.st = "whole"
        /\ ~ Doubled(Tagged(f))
        /\ cls' = Classes(cls, Records(f)) /\ ref' = Dup(ref, Loaded(Records(f)))
        /\ objects' = [p \in Place |-> IF p \in Room THEN Loaded(f[p]) ELSE {}]
        /\ idcounter' = Saved.counter /\ flags' = Saved.flags
        /\ UNCHANGED <<leaked, loop, recs, where, master, n, worldfile, userfile, promise>>
    BY DEF StartLoad, Saved, Records, Counted, Counter
  <1>2. PICK lead : strings' = [p \in Place |-> IF p \in Room THEN Headed(Loaded(f[p]), lead) ELSE {}]
    BY DEF StartLoad, Saved
  <1>3. /\ Saved' = Saved /\ Bag' = Bag /\ Files'
        /\ \A c : (Recorded(c)' <=> Recorded(c)) /\ (Owned(c)' <=> Owned(c))
    BY <1>0, <1>1, SameFiles
  <1>4. Blank
    BY <1>0, <1>1 DEF Phases
  <1>5. /\ Saved \in WorldFile /\ f \in [Room -> SUBSET Record] /\ DOMAIN f = Room
        /\ Saved.counter \in 1..MaxId + 1 /\ Saved.flags \subseteq Flag
        /\ \A r \in Room : Good(f[r])
    BY <1>0 DEF Files, Saved, Directory, WorldFile
  <1> HIDE DEF f
  <1>6. op = "idle" /\ idcounter = 1 /\ recs = {} /\ \A p \in Place : objects[p] = {}
    BY <1>4 DEF Blank
  <1>7. strings' \in [Place -> SUBSET (Key \X (Id \cup {Literal}))]
    <2>1. \A r \in Room : Headed(Loaded(f[r]), lead) \in SUBSET (Key \X (Id \cup {Literal}))
      <3>1. \A r \in Room : Loaded(f[r]) \in SUBSET (Key \X Id)
        BY <1>5, LoadedIs
      <3> QED
        BY <3>1 DEF Headed
    <2> QED
      BY <1>2, <2>1
  <1>8. \A p, q \in DOMAIN f : \A rc \in f[p], sc \in f[q] : rc[2] = sc[2] => p = q
    BY <1>1, SingleRecords
  <1>9. \A r \in Room : \A rc \in f[r] : rc[2] < Saved.counter
    BY <1>0, <1>1 DEF Numbered, f
  <1>10. /\ ObjectsInv'
         /\ \A p \in Room : /\ Written(p)' = f[p]
                            /\ \A i : i \in Has(p)' <=> \E rc \in f[p] : rc[2] = i
                            /\ \A rc \in f[p] : cls'[rc[2]] = rc[3]
         /\ \A p \in Place \ Room : Has(p)' = Has(p)
    <2>1. /\ Room \subseteq Place /\ \A p \in Place : \A i : i \notin Has(p)
      BY <1>6 DEF Place, Has
    <2>2. objects' = [p \in Place |-> IF p \in DOMAIN f THEN Loaded(f[p]) ELSE objects[p]]
      BY <1>1, <1>5, <1>6
    <2>3. /\ recs' \subseteq User /\ flags' \subseteq {"dug", "running"}
          /\ idcounter' \in 1..MaxId + 1 /\ idcounter' >= idcounter
      BY <1>1, <1>5, <1>6 DEF Flag
    <2>4. UNCHANGED <<leaked, loop, where, master>>
      BY <1>1
    <2>5. \A p \in DOMAIN f : \A rc \in f[p] : rc[2] < idcounter'
      BY <1>1, <1>5, <1>9
    <2> QED
      BY <1>0, <1>1, <1>5, <1>6, <1>7, <1>8, <2>1, <2>2, <2>3, <2>4, <2>5, LoadStep
  <1>11. \A u \in User : u \in Place /\ u \notin Room /\ objects'[u] = {} /\ \A i : i \notin Has(u)'
    <2>1. \A u \in User : u \in Place /\ u \notin Room
      BY ObjectsAssumption DEF Place
    <2>2. \A u \in User : objects'[u] = {}
      BY <1>1, <2>1
    <2> QED
      BY <2>1, <2>2 DEF Has
  <1>12. op' = "idle"
    BY <1>1, <1>6 DEF loop
  <1>13. Phases'
    BY <1>0, <1>1, <1>3, <1>11, <1>12 DEF Phases, Starting, Running, Pc
  <1>14. Current'
    BY <1>1, <1>3, <1>10 DEF Current, f
  <1>15. Kept'
    BY <1>0, <1>1, <1>3 DEF Kept, KeptUsers, KeptRooms, Phases
  <1>16. Numbered'
    <2>1. idcounter' \in Nat
      BY <1>1, <1>5
    <2> QED
      BY <1>0, <1>1, <1>3, <2>1 DEF Numbered
  <1>17. \A c : Around(c)' <=> Recorded(c)
    <2>1. \A c : Around(c)' <=> \E p \in Place : \E i \in Has(p)' : cls'[i] = c
      BY DEF Around
    <2>2. ASSUME NEW c, NEW p \in Place, NEW i \in Has(p)', cls'[i] = c PROVE Recorded(c)
      <3>1. p \in Room
        BY <1>11, <2>2 DEF Place
      <3>2. PICK rc \in f[p] : rc[2] = i
        BY <1>10, <2>2, <3>1
      <3> QED
        BY <1>10, <2>2, <3>1, <3>2 DEF Recorded, f
    <2>3. ASSUME NEW c, NEW r \in Room, NEW rc \in f[r], rc[3] = c
          PROVE  \E p \in Place : \E i \in Has(p)' : cls'[i] = c
      <3>1. r \in Place /\ rc[2] \in Has(r)' /\ cls'[rc[2]] = c
        BY <1>10, <2>3 DEF Place
      <3> QED
        BY <3>1
    <2>4. \A c : Recorded(c) <=> \E r \in Room : \E rc \in f[r] : rc[3] = c
      BY DEF Recorded, f
    <2> QED
      BY <2>1, <2>2, <2>3, <2>4
  <1>18. Tame'
    <2>1. Owners'
      BY <1>11, <1>12 DEF Owners, Dropping, Dropped
    <2>2. \A r \in Room : \A i \in Has(r)' : cls'[i] = "bear" => r = HomeOf.bear
      BY <1>0, <1>10 DEF Beasts, f
    <2>3. BearsHome'
      BY <1>0, <1>11, <1>12, <1>17, <2>2 DEF BearsHome, Beasts
    <2>4. CardDug'
      BY <1>0, <1>1, <1>17 DEF CardDug, Cards
    <2> QED
      BY <2>1, <2>3, <2>4 DEF Tame
  <1>19. Beasts'
    BY <1>0, <1>3, <1>17 DEF Beasts
  <1>20. Cards'
    BY <1>0, <1>1, <1>3 DEF Cards
  <1>21. Later'
    <2> SUFFICES ASSUME NEW p \in Place, NEW i \in Has(p)', i >= Saved.counter PROVE FALSE
      BY <1>3 DEF Later
    <2>1. p \in Room
      BY <1>11 DEF Place
    <2>2. PICK rc \in f[p] : rc[2] = i
      BY <1>10, <2>1
    <2>3. i \in Int /\ Saved.counter \in Int
      BY <1>5, <2>1, <2>2 DEF Record, Id
    <2> QED
      BY <1>9, <2>1, <2>2, <2>3
  <1> QED
    BY <1>3, <1>10, <1>13, <1>14, <1>15, <1>16, <1>18, <1>19, <1>20, <1>21 DEF PInv

LEMMA InRoomsIs ==
    ASSUME Typed, Exact, NEW r \in Room
    PROVE  /\ \A rc \in Written(r) : <<r, rc>> \in InRooms
           /\ \A i \in Has(r) : \E rc \in Written(r) : rc[2] = i /\ <<r, rc>> \in InRooms
  <1>1. \A rc \in Written(r) : <<r, rc>> \in InRooms
    BY DEF InRooms
  <1>2. r \in Place
    BY DEF Place
  <1>3. ASSUME NEW i \in Has(r) PROVE \E rc \in Written(r) : rc[2] = i
    <2>1. <<NameOf[cls[i]], i, cls[i]>> \in Written(r)
      BY <1>2, WrittenHas
    <2>2. <<NameOf[cls[i]], i, cls[i]>>[2] = i
      OBVIOUS
    <2> QED
      BY <2>1, <2>2
  <1> QED
    BY <1>1, <1>3

LEMMA UserdbInitKeeps == ASSUME PInv, UserdbInit PROVE PInv'
  <1>0. /\ ObjectsInv /\ Tame
        /\ Files /\ Phases /\ Current /\ Kept /\ Numbered /\ Beasts /\ Cards /\ Later
    BY DEF PInv
  <1> DEFINE f == Bag
             ts == Tagged(f)
             inv(p) == IF p \in DOMAIN f THEN Loaded(f[p]) ELSE {}
  <1>1. /\ pc = "userdb" /\ pc' = "up"
        /\ ~ Doubled(ts \cup InRooms) /\ idcounter + Cardinality(ts) <= MaxId + 1
        /\ cls' = Classes(cls, Records(f)) /\ ref' = Dup(ref, Loaded(Records(f)))
        /\ objects' = [p \in Place |-> objects[p] \cup inv(p)]
        /\ idcounter' = idcounter + Cardinality(ts) /\ recs' = DOMAIN f
        /\ UNCHANGED <<leaked, loop, where, flags, master, task, n, worldfile, userfile, promise>>
    BY DEF UserdbInit, Bag, Records, Counted
  <1>2. PICK lead : strings' = [p \in Place |-> strings[p] \cup Headed(inv(p), lead)]
    BY DEF UserdbInit, Bag
  <1>3. /\ Saved' = Saved /\ Bag' = Bag /\ Files'
        /\ \A c : (Recorded(c)' <=> Recorded(c)) /\ (Owned(c)' <=> Owned(c))
    BY <1>0, <1>1, SameFiles
  <1>4. /\ Typed /\ Exact /\ op = "idle" /\ task = "start" /\ Saved.st = "whole"
        /\ \A u \in User : objects[u] = {}
    BY <1>0, <1>1 DEF ObjectsInv, Phases, Starting, Running
  <1>5. DOMAIN f \subseteq User /\ \A u \in DOMAIN f : Good(f[u])
    BY <1>0 DEF Files
  <1>6. \A u \in User : u \in Place /\ u \notin Room /\ \A i : i \notin Has(u)
    BY <1>4, ObjectsAssumption DEF Place, Has
  <1>7. \A u \in DOMAIN f : \A rc \in f[u] : rc[2] < Saved.counter
    BY <1>0, <1>4 DEF Numbered
  <1>8. Saved.counter \in Nat /\ Saved.counter <= idcounter /\ idcounter \in Nat \ {0}
    <2>1. Saved.counter \in Nat
      BY <1>0 DEF Files, Saved, Directory, WorldFile
    <2>2. idcounter \in Nat \ {0}
      BY <1>4 DEF Typed
    <2>3. Saved.counter <= idcounter
      BY <1>0, <1>1, <1>4 DEF Numbered, Running
    <2> QED
      BY <2>1, <2>2, <2>3
  <1> HIDE DEF f
  <1>9. \A p, q \in DOMAIN f : \A rc \in f[p], sc \in f[q] : rc[2] = sc[2] => p = q
    BY <1>1, SingleRecords
  <1>10. Cardinality(ts) \in Nat
    <2> DEFINE g == [t \in ts |-> t[2][2]]
    <2>1. \A t \in ts : t[2][2] \in Id
      <3> SUFFICES ASSUME NEW t \in ts PROVE t[2][2] \in Id
        OBVIOUS
      <3>1. PICK u \in DOMAIN f : \E rc \in f[u] : t = <<u, rc>>
        BY TaggedIs
      <3>2. PICK rc \in f[u] : t = <<u, rc>>
        BY <3>1
      <3>3. rc[2] \in Id
        BY <1>5, LoadedIs
      <3> QED
        BY <3>2, <3>3
    <2>2. \A t, v \in ts : t[2][2] = v[2][2] => t = v
      BY <1>1 DEF Doubled
    <2>3. g \in [ts -> Id]
      BY <2>1
    <2>4. \A t, v \in ts : g[t] = g[v] => t = v
      BY <2>2
    <2> HIDE DEF g, ts
    <2>5. g \in Injection(ts, Id)
      BY <2>3, <2>4 DEF Injection, IsInjective
    <2>6. IsFiniteSet(Id)
      BY ObjectsAssumption, FS_Interval DEF Id
    <2>7. IsFiniteSet(ts)
      BY <2>5, <2>6, FS_Injection
    <2> QED
      BY <2>7, FS_CardinalityType
  <1>11. idcounter' \in 1..MaxId + 1 /\ idcounter' >= idcounter /\ idcounter' \in Nat
    <2>1. MaxId \in Nat
      BY ObjectsAssumption
    <2> HIDE DEF ts
    <2> QED
      BY <1>1, <1>8, <1>10, <2>1
  <1>12. strings' \in [Place -> SUBSET (Key \X (Id \cup {Literal}))]
    <2>1. \A p \in Place : Headed(inv(p), lead) \in SUBSET (Key \X (Id \cup {Literal}))
      <3>1. \A u \in DOMAIN f : Loaded(f[u]) \in SUBSET (Key \X Id)
        BY <1>5, LoadedIs
      <3>2. \A p \in Place : inv(p) \in SUBSET (Key \X Id)
        BY <3>1
      <3> HIDE DEF inv
      <3> QED
        BY <3>2 DEF Headed
    <2> HIDE DEF inv
    <2> QED
      BY <1>2, <1>4, <2>1 DEF Typed
  <1>13. objects' = [p \in Place |-> IF p \in DOMAIN f THEN Loaded(f[p]) ELSE objects[p]]
    <2>1. \A p \in Place : objects[p] \cup inv(p) = IF p \in DOMAIN f THEN Loaded(f[p]) ELSE objects[p]
      BY <1>4, <1>5
    <2> HIDE DEF inv
    <2> QED
      BY <1>1, <2>1
  <1>14. \A p \in Place : \A i \in Has(p) : \A q \in DOMAIN f : \A rc \in f[q] : rc[2] # i
    <2> SUFFICES ASSUME NEW p \in Place, NEW i \in Has(p), NEW q \in DOMAIN f, NEW rc \in f[q],
                        rc[2] = i
                 PROVE  FALSE
      OBVIOUS
    <2>1. p \in Room /\ q \notin Room
      BY <1>5, <1>6 DEF Place
    <2>2. PICK sc \in Written(p) : sc[2] = i /\ <<p, sc>> \in InRooms
      BY <1>4, <2>1, InRoomsIs
    <2>3. <<q, rc>> \in ts
      BY TaggedIs
    <2>4. \A t, v \in ts \cup InRooms : t[2][2] = v[2][2] => t = v
      BY <1>1 DEF Doubled
    <2> HIDE DEF ts
    <2>5. <<p, sc>> = <<q, rc>>
      BY <2>2, <2>3, <2>4
    <2> QED
      BY <2>1, <2>5
  <1>15. \A p \in DOMAIN f : \A rc \in f[p] : rc[2] < idcounter'
    <2> SUFFICES ASSUME NEW p \in DOMAIN f, NEW rc \in f[p] PROVE rc[2] < idcounter'
      OBVIOUS
    <2>1. rc[2] \in Nat
      <3>1. rc[2] \in Id
        BY <1>5, LoadedIs
      <3> QED
        BY <3>1 DEF Id
    <2>2. rc[2] < Saved.counter
      BY <1>7 DEF f
    <2> QED
      BY <1>8, <1>11, <2>1, <2>2
  <1>16. /\ ObjectsInv'
         /\ \A p \in DOMAIN f : /\ \A i : i \in Has(p)' <=> \E rc \in f[p] : rc[2] = i
                                /\ \A rc \in f[p] : cls'[rc[2]] = rc[3]
         /\ \A p \in Place \ DOMAIN f : Has(p)' = Has(p) /\ \A i \in Has(p) : cls'[i] = cls[i]
    <2>1. DOMAIN f \subseteq Place /\ \A p \in DOMAIN f : Good(f[p]) /\ objects[p] = {}
      BY <1>4, <1>5, <1>6
    <2>2. recs' \subseteq User /\ flags' \subseteq {"dug", "running"}
      BY <1>1, <1>4, <1>5 DEF Typed
    <2>3. cls' = Classes(cls, Records(f)) /\ ref' = Dup(ref, Loaded(Records(f)))
      BY <1>1
    <2>4. UNCHANGED <<leaked, loop, where, master>>
      BY <1>1
    <2>5. ObjectsInv /\ op = "idle"
      BY <1>0, <1>4
    <2> HIDE DEF ts, inv
    <2> QED
      BY <1>9, <1>11, <1>12, <1>13, <1>14, <1>15, <2>1, <2>2, <2>3, <2>4, <2>5, LoadStep
  <1> HIDE DEF ts, inv
  <1>17. op' = "idle" /\ Running /\ Running' /\ flags' = flags
    BY <1>1, <1>4 DEF loop, Running
  <1>18. Phases'
    BY <1>0, <1>1, <1>3, <1>4, <1>17 DEF Phases, Starting, Pc
  <1>19. Current'
    BY <1>1 DEF Current
  <1>20. Kept'
    BY <1>0, <1>1, <1>3 DEF Kept, KeptUsers, KeptRooms, Phases
  <1>21. Numbered'
    <2>1. Saved.counter <= idcounter'
      BY <1>8, <1>11
    <2> QED
      BY <1>0, <1>3, <1>4, <2>1 DEF Numbered
  <1>22. ASSUME NEW c, Around(c)' PROVE Around(c) \/ Owned(c)
    <2>1. PICK p \in Place : \E i \in Has(p)' : cls'[i] = c
      BY <1>22 DEF Around
    <2>2. PICK i \in Has(p)' : cls'[i] = c
      BY <2>1
    <2>3. CASE p \in DOMAIN f
      <3>1. PICK rc \in f[p] : rc[2] = i
        BY <1>16, <2>3
      <3> QED
        BY <1>16, <2>2, <2>3, <3>1 DEF Owned, f
    <2>4. CASE p \notin DOMAIN f
      BY <1>16, <2>2, <2>4 DEF Around
    <2> QED
      BY <2>3, <2>4
  <1>23. Tame'
    <2>1. \A u \in User : \A i \in Has(u)' : u \in DOMAIN f /\ \E rc \in f[u] : rc[2] = i
      BY <1>6, <1>16
    <2>2. Owners'
      BY <1>1, <1>17, <2>1 DEF Owners, Dropping, Dropped
    <2>3. \A u \in User : \A i \in Has(u)' : cls'[i] # "bear"
      BY <1>0, <1>16, <2>1 DEF Beasts, Owned, f
    <2>4. \A r \in Room : r \in Place /\ r \notin DOMAIN f
      BY <1>5, <1>6 DEF Place
    <2>5. \A r \in Room : \A i \in Has(r)' : cls'[i] = "bear" => r = HomeOf.bear
      BY <1>0, <1>16, <2>4 DEF Tame, BearsHome
    <2>6. Around("key")' => ~ Around("bear")'
      BY <1>0, <1>22 DEF Tame, BearsHome, Beasts
    <2>7. BearsHome'
      BY <1>17, <2>3, <2>5, <2>6 DEF BearsHome
    <2>8. CardDug'
      BY <1>0, <1>4, <1>17, <1>22 DEF CardDug, Tame, Cards
    <2> QED
      BY <2>2, <2>7, <2>8 DEF Tame
  <1>24. Beasts'
    BY <1>0, <1>3, <1>22 DEF Beasts
  <1>25. Cards'
    BY <1>0, <1>3, <1>17 DEF Cards
  <1>26. Later'
    <2> SUFFICES ASSUME NEW p \in Place, NEW i \in Has(p)', i >= Saved.counter, Recorded(cls'[i])
                 PROVE  FALSE
      BY <1>3 DEF Later
    <2>1. CASE p \in DOMAIN f
      <3>1. PICK rc \in f[p] : rc[2] = i
        BY <1>16, <2>1
      <3>2. i \in Nat
        <4>1. i \in Id
          BY <1>5, <2>1, <3>1, LoadedIs
        <4> QED
          BY <4>1 DEF Id
      <3>3. i < Saved.counter
        BY <1>7, <2>1, <3>1 DEF f
      <3> QED
        BY <1>8, <3>2, <3>3
    <2>2. CASE p \notin DOMAIN f
      BY <1>0, <1>4, <1>16, <1>17, <2>2 DEF Later
    <2> QED
      BY <2>1, <2>2
  <1> QED
    BY <1>3, <1>16, <1>18, <1>19, <1>20, <1>21, <1>23, <1>24, <1>25, <1>26 DEF PInv

-----------------------------------------------------------------------------
(***************************************************************************)
(* The writing of the files.                                               *)
(***************************************************************************)
LEMMA ImageIs ==
    ASSUME ObjectsInv
    PROVE  /\ WorldImage \in WorldFile /\ WorldImage.st = "whole"
           /\ WorldImage.flags = flags /\ WorldImage.counter = idcounter
           /\ \A r \in Room : WorldImage.rooms[r] = Written(r)
           /\ \A p \in Place : \A rc \in Written(p) :
                /\ rc[2] \in Has(p) /\ rc[3] = cls[rc[2]] /\ Around(rc[3])
                /\ rc[2] \in Nat /\ rc[2] < idcounter
  <1>0. Typed /\ Exact /\ Fresh
    BY DEF ObjectsInv
  <1>1. \A r \in Room : r \in Place
    BY DEF Place
  <1>2. \A r \in Room : Written(r) \subseteq Record
    BY <1>0, <1>1, WrittenHas DEF Good
  <1>3. WorldImage \in WorldFile
    BY <1>0, <1>2 DEF WorldImage, WorldFile, Typed, Flag
  <1>4. /\ WorldImage.st = "whole" /\ WorldImage.flags = flags /\ WorldImage.counter = idcounter
        /\ \A r \in Room : WorldImage.rooms[r] = Written(r)
    BY DEF WorldImage
  <1>5. ASSUME NEW p \in Place, NEW rc \in Written(p)
        PROVE  /\ rc[2] \in Has(p) /\ rc[3] = cls[rc[2]] /\ Around(rc[3])
               /\ rc[2] \in Nat /\ rc[2] < idcounter
    <2>1. rc[2] \in Has(p) /\ rc[3] = cls[rc[2]]
      BY <1>0, WrittenHas
    <2>2. rc[2] \in Id /\ idcounter \in Nat
      BY <1>0, <2>1, HasType DEF Typed
    <2>3. rc[2] \in Nat
      BY <2>2 DEF Id
    <2>4. ~ (rc[2] >= idcounter)
      BY <1>0, <2>1, <2>2 DEF Fresh
    <2>5. rc[2] < idcounter
      BY <2>2, <2>3, <2>4
    <2> QED
      BY <2>1, <2>3, <2>5 DEF Around
  <1> QED
    BY <1>3, <1>4, <1>5

LEMMA WorldSaveKeeps == ASSUME ~ Prefix, PInv, WorldSave PROVE PInv'
  <1>0. /\ ObjectsInv /\ Tame
        /\ Files /\ Phases /\ Current /\ Kept /\ Numbered /\ Beasts /\ Cards /\ Later
    BY DEF PInv
  <1>1. /\ pc = "world" /\ pc' = IF task = "start" THEN "userdb" ELSE "users"
        /\ worldfile' = [worldfile EXCEPT !["launch"] = WorldImage]
        /\ UNCHANGED <<vars, task, n, userfile, promise>>
    BY DEF WorldSave, SaveDir, Home
  <1>2. Saved' = WorldImage /\ worldfile' \in [Directory -> WorldFile] /\ Bag' = Bag
    BY <1>0, <1>1, ImageIs DEF Files, Saved, Bag, Directory
  <1>3. /\ Saved'.st = "whole" /\ Saved'.flags = flags /\ Saved'.counter = idcounter
        /\ \A r \in Room : Saved'.rooms[r] = Written(r)
    BY <1>0, <1>2, ImageIs
  <1>4. /\ ObjectsInv' /\ Tame'
        /\ \A p \in Place : Has(p)' = Has(p) /\ Written(p)' = Written(p)
        /\ \A c : Around(c)' <=> Around(c)
    BY <1>0, <1>1, SameMemory
  <1>5. UNCHANGED <<idcounter, flags, cls, op, objects>>
    BY <1>1 DEF vars, heap, world, loop, maps
  <1>6. \A r \in Room : r \in Place
    BY DEF Place
  <1>7. Files'
    <2>1. \A r \in Room : Good(Written(r))
      BY <1>0, <1>6, WrittenHas DEF ObjectsInv
    <2> QED
      BY <1>0, <1>1, <1>2, <1>3, <2>1 DEF Files
  <1>8. Running /\ Running'
    BY <1>1 DEF Running
  <1>9. Phases'
    BY <1>0, <1>1, <1>3, <1>5, <1>8 DEF Phases, Starting, Pc
  <1>10. Current'
    BY <1>3, <1>4, <1>5, <1>6 DEF Current
  <1>11. Kept'
    <2>1. task = "start" => promise.st = "none"
      BY <1>0, <1>1, <1>8 DEF Files, Phases
    <2>2. KeptUsers' <=> KeptUsers
      BY <1>1, <1>2 DEF KeptUsers
    <2>3. NewUsers' <=> NewUsers
      <3>1. \A u \in DOMAIN Bag : u \in Place
        BY <1>0 DEF Files, Place
      <3> QED
        BY <1>2, <1>4, <3>1 DEF NewUsers
    <2> QED
      BY <1>0, <1>1, <2>1, <2>2, <2>3 DEF Kept
  <1>12. idcounter \in Nat /\ Saved.counter \in Nat
    BY <1>0 DEF ObjectsInv, Typed, Files, Saved, Directory, WorldFile
  <1>13. \A u \in DOMAIN Bag : \A rc \in Bag[u] : rc[2] < idcounter
    <2> SUFFICES ASSUME NEW u \in DOMAIN Bag, NEW rc \in Bag[u] PROVE rc[2] < idcounter
      OBVIOUS
    <2>1. Saved.st = "whole"
      BY <1>0, <1>8 DEF Files, Phases
    <2>2. rc[2] \in Id
      BY <1>0, LoadedIs DEF Files
    <2>3. rc[2] \in Nat
      BY <2>2 DEF Id
    <2>4. rc[2] < Saved.counter /\ Saved.counter <= idcounter
      BY <1>0, <1>8, <2>1 DEF Numbered
    <2> QED
      BY <1>12, <2>3, <2>4
  <1>14. Numbered'
    <2>1. \A r \in Room : \A rc \in Written(r) : rc[2] < idcounter
      BY <1>0, <1>6, ImageIs
    <2> QED
      BY <1>2, <1>3, <1>5, <1>12, <1>13, <2>1 DEF Numbered
  <1>15. /\ \A c : Recorded(c)' => Around(c)
         /\ \A c : Owned(c)' <=> Owned(c)
    <2>1. ASSUME NEW c, Recorded(c)' PROVE Around(c)
      <3>1. PICK r \in Room : \E rc \in Written(r) : rc[3] = c
        BY <1>3, <2>1 DEF Recorded
      <3> QED
        BY <1>0, <1>6, <3>1, ImageIs
    <2> QED
      BY <1>2, <2>1 DEF Owned
  <1>16. Beasts'
    <2>1. \A r \in Room : \A rc \in Saved'.rooms[r] : rc[3] = "bear" => r = HomeOf.bear
      BY <1>0, <1>3, <1>6, ImageIs DEF Tame, BearsHome
    <2> QED
      BY <1>0, <1>4, <1>15, <2>1 DEF Beasts, Tame, BearsHome
  <1>17. Cards'
    <2>1. Recorded("cpu")' => "dug" \in flags
      BY <1>0, <1>15 DEF Tame, CardDug
    <2>2. Owned("cpu") => "dug" \in flags
      BY <1>0, <1>8 DEF Cards, Files, Phases, Owned
    <2> QED
      BY <1>3, <1>5, <1>15, <2>1, <2>2 DEF Cards
  <1>18. Later'
    <2> SUFFICES ASSUME NEW p \in Place, NEW i \in Has(p), i >= idcounter PROVE FALSE
      BY <1>3, <1>4 DEF Later
    <2>1. Typed /\ Fresh
      BY <1>0 DEF ObjectsInv
    <2> QED
      BY <2>1, HasType DEF Fresh
  <1> QED
    BY <1>4, <1>7, <1>9, <1>10, <1>11, <1>14, <1>16, <1>17, <1>18 DEF PInv

\* What userdb_write puts into the user file, however much of it.
LEMMA BagWritten ==
    ASSUME PInv, pc = "users", Saved' = Saved,
           DOMAIN Bag' \subseteq recs, \A u \in DOMAIN Bag' : Bag'[u] = Written(u)
    PROVE  /\ DOMAIN Bag' \subseteq User /\ \A u \in DOMAIN Bag' : Good(Bag'[u])
           /\ \A u \in DOMAIN Bag' : \A rc \in Bag'[u] : rc[2] < Saved.counter
           /\ ~ Owned("bear")'
           /\ \A c : Recorded(c)' <=> Recorded(c)
           /\ Recorded("key") \/ Owned("key")' => ~ Recorded("bear") /\ ~ Around("bear")
           /\ Recorded("cpu") \/ Owned("cpu")' => "dug" \in flags /\ "dug" \in Saved.flags
  <1>0. /\ ObjectsInv /\ Tame
        /\ Files /\ Phases /\ Current /\ Numbered /\ Beasts /\ Cards
    BY DEF PInv
  <1>1. Typed /\ Exact /\ recs \subseteq User /\ \A u \in User : u \in Place
    BY <1>0 DEF ObjectsInv, Typed, Place
  <1>2. Saved.st = "whole" /\ Running
    BY <1>0 DEF Phases, Running
  <1>3. \A u \in DOMAIN Bag' : u \in Place /\ u \in User /\ Good(Bag'[u])
    BY <1>1, WrittenHas
  <1>4. ASSUME NEW u \in DOMAIN Bag', NEW rc \in Bag'[u] PROVE rc[2] < Saved.counter
    <2>1. rc[2] \in Has(u) /\ rc[2] < idcounter
      BY <1>0, <1>3, ImageIs
    <2>2. task # "start"
      <3> SUFFICES ASSUME task = "start" PROVE FALSE
        OBVIOUS
      <3>1. objects[u] = {}
        BY <1>0, <1>3 DEF Phases, Starting
      <3> QED
        BY <2>1, <3>1 DEF Has
    <2> QED
      BY <1>0, <2>1, <2>2 DEF Current
  <1>5. ASSUME NEW c, Owned(c)' PROVE Around(c) /\ \E u \in User : \E i \in Has(u) : cls[i] = c
    <2>1. PICK u \in DOMAIN Bag' : \E rc \in Bag'[u] : rc[3] = c
      BY <1>5 DEF Owned
    <2>2. PICK rc \in Written(u) : rc[3] = c
      BY <2>1
    <2> QED
      BY <1>0, <1>3, <2>1, <2>2, ImageIs
  <1>6. ASSUME NEW c, Recorded(c) PROVE Around(c)
    <2>1. PICK r \in Room : \E rc \in Written(r) : rc[3] = c
      BY <1>0, <1>6 DEF Recorded, Current
    <2>2. r \in Place
      BY DEF Place
    <2> QED
      BY <1>0, <2>1, <2>2, ImageIs
  <1>7. \A c : Recorded(c)' <=> Recorded(c)
    BY DEF Recorded
  <1>8. ~ Owned("bear")'
    BY <1>0, <1>5 DEF Tame, BearsHome
  <1>9. Around("key") => ~ Around("bear")
    BY <1>0 DEF Tame, BearsHome
  <1>10. Around("cpu") => "dug" \in flags /\ "dug" \in Saved.flags
    BY <1>0 DEF Tame, CardDug, Current
  <1> QED
    BY <1>3, <1>4, <1>5, <1>6, <1>7, <1>8, <1>9, <1>10

\* userdb_write that gets no further leaves the old file, or some users of now.
LEMMA UserCut ==
    ASSUME userfile' \in UserCuts(userfile, UserImage), userfile' # userfile
    PROVE  /\ userfile'.st \in {"whole", "torn"}
           /\ DOMAIN Bag' \subseteq recs /\ \A u \in DOMAIN Bag' : Bag'[u] = Written(u)
  <1>1. CASE userfile' = NoUsers("torn")
    BY <1>1 DEF NoUsers, Bag
  <1>2. CASE userfile' # NoUsers("torn")
    <2>1. PICK done \in SUBSET DOMAIN UserImage.users :
            userfile' = [UserImage EXCEPT !.users = [u \in done |-> @[u]]]
      BY <1>2 DEF UserCuts
    <2>2. DOMAIN UserImage.users = recs /\ UserImage.st = "whole"
          /\ \A u \in recs : UserImage.users[u] = Written(u)
      BY DEF UserImage
    <2>3. userfile'.st = "whole" /\ userfile'.users = [u \in done |-> UserImage.users[u]]
      BY <2>1 DEF UserImage
    <2> QED
      BY <2>1, <2>2, <2>3 DEF Bag
  <1> QED
    BY <1>1, <1>2

LEMMA SigintKeeps == ASSUME PInv, Sigint PROVE PInv'
  <1>0. /\ ObjectsInv /\ Tame
        /\ Files /\ Phases /\ Current /\ Kept /\ Numbered /\ Beasts /\ Cards /\ Later
    BY DEF PInv
  <1>1. /\ UNCHANGED <<vars, n, worldfile, promise>>
        /\ pc \in {"up", "world", "users"} /\ pc' = "world" /\ task' = "exit"
        /\ pc = "up" \/ task = "serve"
        /\ \/ userfile' = userfile
           \/ pc = "users" /\ userfile' \in UserCuts(userfile, UserImage)
    BY DEF Sigint
  <1>2. Saved' = Saved
    BY <1>1 DEF Saved
  <1>3. Running /\ Running' /\ ~ Starting' /\ Saved.st = "whole"
    BY <1>0, <1>1 DEF Phases, Starting, Running
  <1>4. Phases'
    BY <1>0, <1>1, <1>2, <1>3 DEF Phases, Pc
  <1>5. Current'
    BY <1>1 DEF Current
  <1>6. CASE userfile' = userfile
    BY <1>1, <1>3, <1>4, <1>5, <1>6, Still
  <1>7. CASE userfile' # userfile
    <2>1. /\ pc = "users" /\ userfile'.st \in {"whole", "torn"}
          /\ DOMAIN Bag' \subseteq recs /\ \A u \in DOMAIN Bag' : Bag'[u] = Written(u)
      BY <1>1, <1>7, UserCut
    <2>2. /\ DOMAIN Bag' \subseteq User /\ \A u \in DOMAIN Bag' : Good(Bag'[u])
          /\ \A u \in DOMAIN Bag' : \A rc \in Bag'[u] : rc[2] < Saved.counter
          /\ ~ Owned("bear")'
          /\ \A c : Recorded(c)' <=> Recorded(c)
          /\ Recorded("key") \/ Owned("key")' => ~ Recorded("bear") /\ ~ Around("bear")
          /\ Recorded("cpu") \/ Owned("cpu")' => "dug" \in flags /\ "dug" \in Saved.flags
      BY <1>2, <2>1, BagWritten
    <2>3. /\ ObjectsInv' /\ Tame'
          /\ \A p \in Place : Has(p)' = Has(p) /\ Written(p)' = Written(p)
          /\ \A c : Around(c)' <=> Around(c)
      BY <1>0, <1>1, SameMemory
    <2>4. UNCHANGED <<idcounter, flags, cls>>
      BY <1>1 DEF vars, heap, world
    <2>5. Files'
      BY <1>0, <1>1, <1>2, <1>3, <2>1, <2>2 DEF Files
    <2>6. Kept'
      <3>1. (\A u \in User : u \in Place) /\ \A r \in Room : r \in Place
        BY DEF Place
      <3>2. NewUsers'
        BY <2>1, <2>2, <2>3, <3>1 DEF NewUsers
      <3>3. NewRooms'
        BY <1>0, <1>2, <2>1, <2>3, <3>1 DEF Current, NewRooms
      <3> QED
        BY <1>0, <1>1, <3>2, <3>3 DEF Kept
    <2>7. Numbered' /\ Beasts' /\ Cards'
      BY <1>0, <1>2, <1>3, <2>2, <2>3, <2>4 DEF Numbered, Beasts, Cards
    <2>8. Later'
      BY <1>0, <1>2, <1>3, <2>2, <2>3, <2>4 DEF Later
    <2> QED
      BY <1>4, <1>5, <2>3, <2>5, <2>6, <2>7, <2>8 DEF PInv
  <1> QED
    BY <1>6, <1>7

LEMMA Resting ==
    ASSUME ObjectsInv, Tame, op \in {"idle", "save"}, Idle, UNCHANGED <<maps, heap, world>>
    PROVE  /\ ObjectsInv' /\ Tame'
           /\ \A p \in Place : Has(p)' = Has(p)
           /\ \A c : Around(c)' <=> Around(c)
  <1>0. Typed /\ Exact /\ Fresh /\ Apart /\ Moving /\ Referred
    BY DEF ObjectsInv
  <1>1. /\ UNCHANGED <<objects, strings, ref, cls, idcounter, leaked, recs, where, flags, master>>
        /\ op' = "idle" /\ actor' = NoUser /\ todo' = {} /\ cur' = 0
    BY DEF maps, heap, world, Idle
  <1>2. (\A p \in Place : Has(p)' = Has(p)) /\ Exact'
    BY <1>0, <1>1, SameMaps
  <1>3. (\A c : Around(c)' <=> Around(c)) /\ \A i : Held(i)' <=> Held(i)
    BY <1>1, <1>2 DEF Around, Held
  <1>4. Typed'
    BY <1>0, <1>1 DEF Typed, Ops
  <1>5. Fresh' /\ Apart' /\ Moving'
    BY <1>0, <1>1, <1>2 DEF Fresh, Apart, Moving, Between, Taking, Dropping, Dropped
  <1>6. Referred'
    <2>1. \A i \in Id : Share(i)' = Share(i)
      BY <1>1, <1>3 DEF Share, Size, Between, Names
    <2> QED
      BY <1>0, <1>1, <2>1 DEF Referred
  <1>7. Tame'
    <2>1. \A p \in Room \cup User : p \in Place
      BY DEF Place
    <2> QED
      BY <1>1, <1>2, <1>3, <2>1 DEF Tame, Owners, BearsHome, CardDug, Dropping, Dropped
  <1> QED
    BY <1>2, <1>3, <1>4, <1>5, <1>6, <1>7 DEF ObjectsInv

LEMMA UserdbWriteKeeps == ASSUME PInv, UserdbWrite PROVE PInv'
  <1>0. /\ ObjectsInv /\ Tame
        /\ Files /\ Phases /\ Current /\ Kept /\ Numbered /\ Beasts /\ Cards /\ Later
    BY DEF PInv
  <1>1. /\ pc = "users" /\ task' = "start" /\ userfile' = UserImage /\ worldfile' = worldfile
        /\ promise' = IF Between THEN NoPromise ELSE Now
        /\ \/ pc' = "down" /\ n' = 0 /\ Gone
           \/ pc' = "up" /\ Idle /\ UNCHANGED <<n, maps, heap, world>> /\ task # "exit"
    BY DEF UserdbWrite
  <1>2. Saved' = Saved /\ Saved.st = "whole" /\ Running
    BY <1>0, <1>1 DEF Saved, Phases, Running
  <1>3. userfile'.st = "whole" /\ DOMAIN Bag' = recs /\ \A u \in recs : Bag'[u] = Written(u)
    BY <1>1 DEF UserImage, Bag
  <1>4. /\ DOMAIN Bag' \subseteq User /\ \A u \in DOMAIN Bag' : Good(Bag'[u])
        /\ \A u \in DOMAIN Bag' : \A rc \in Bag'[u] : rc[2] < Saved.counter
        /\ ~ Owned("bear")'
        /\ \A c : Recorded(c)' <=> Recorded(c)
        /\ Recorded("key") \/ Owned("key")' => ~ Recorded("bear") /\ ~ Around("bear")
        /\ Recorded("cpu") \/ Owned("cpu")' => "dug" \in flags /\ "dug" \in Saved.flags
    BY <1>1, <1>2, <1>3, BagWritten
  <1>5. /\ ObjectsInv' /\ Tame' /\ (Around("bear")' => Around("bear")) /\ n' \in 0..SaveInterval - 1
        /\ \/ pc' = "down" /\ Blank'
           \/ /\ pc' = "up" /\ op' = "idle" /\ UNCHANGED <<idcounter, flags, cls>>
              /\ \A p \in Place : Has(p)' = Has(p)
    <2>1. CASE pc' = "down" /\ n' = 0 /\ Gone
      <3>1. Blank' /\ ObjectsInv' /\ Tame'
        BY <2>1, GoneBlank, BlankNext
      <3>2. ~ Around("bear")'
        BY <3>1 DEF Blank, Around, Has
      <3> QED
        BY <2>1, <3>1, <3>2, PersistAssumption
    <2>2. CASE pc' = "up" /\ Idle /\ UNCHANGED <<n, maps, heap, world>> /\ task # "exit"
      <3>1. op \in {"idle", "save"}
        BY <1>0, <1>1, <2>2 DEF Phases, Starting
      <3>2. ObjectsInv' /\ Tame' /\ (Around("bear")' => Around("bear")) /\ \A p \in Place : Has(p)' = Has(p)
        BY <1>0, <2>2, <3>1, Resting
      <3> QED
        BY <1>0, <2>2, <3>2 DEF heap, world, Idle, Phases
    <2> QED
      BY <1>1, <2>1, <2>2
  <1>6. Files'
    BY <1>0, <1>1, <1>2, <1>3, <1>4 DEF Files
  <1>7. Phases'
    BY <1>1, <1>2, <1>5 DEF Phases, Starting, Running, Pc
  <1>8. Current'
    BY <1>1 DEF Current
  <1>9. Kept'
    <2>1. CASE Between
      <3>1. promise' \in Promise /\ promise'.st = "none"
        BY <1>1, <2>1 DEF NoPromise, Promise, Flag
      <3> QED
        BY <3>1 DEF Kept
    <2>2. CASE ~ Between
      <3>0. Typed /\ Exact /\ Apart
        BY <1>0 DEF ObjectsInv
      <3>1. /\ promise' \in Promise /\ promise'.objects = objects /\ promise'.recs = recs
            /\ promise'.flags = flags
        BY <1>1, <2>2, <3>0 DEF Now, Promise, Flag, Typed
      <3>2. \A p, q \in Place : \A a \in objects[p], b \in objects[q] : a[2] = b[2] => p = q
        <4> SUFFICES ASSUME NEW p \in Place, NEW q \in Place, NEW a \in objects[p],
                            NEW b \in objects[q], a[2] = b[2]
                     PROVE  p = q
          OBVIOUS
        <4>1. a[2] \in Has(p) /\ a[2] \in Has(q)
          BY DEF Has
        <4>2. a[2] \in Id
          BY <3>0, <4>1, HasType
        <4> QED
          BY <2>2, <3>0, <4>1, <4>2 DEF Apart
      <3>3. \A u \in User : objects[u] = IF u \in recs THEN Loaded(Bag'[u]) ELSE {}
        <4> SUFFICES ASSUME NEW u \in User
                     PROVE  objects[u] = IF u \in recs THEN Loaded(Bag'[u]) ELSE {}
          OBVIOUS
        <4>1. CASE u \in recs
          <5>1. u \in Place
            BY DEF Place
          <5>2. Loaded(Written(u)) = objects[u]
            BY <3>0, <5>1, RoundTrip
          <5> QED
            BY <1>3, <4>1, <5>2
        <4>2. CASE u \notin recs
          BY <1>0, <4>2 DEF Tame, Owners, Has
        <4> QED
          BY <4>1, <4>2
      <3>4. \A r \in Room : Loaded(Saved.rooms[r]) = objects[r]
        <4> SUFFICES ASSUME NEW r \in Room PROVE Loaded(Saved.rooms[r]) = objects[r]
          OBVIOUS
        <4>1. r \in Place /\ Saved.rooms[r] = Written(r)
          BY <1>0, <1>1 DEF Place, Current
        <4> QED
          BY <3>0, <4>1, RoundTrip
      <3>5. Saved.flags = flags
        BY <1>0, <1>1 DEF Current
      <3> QED
        BY <1>2, <1>3, <3>1, <3>2, <3>3, <3>4, <3>5 DEF Kept, KeptUsers, KeptRooms
    <2> QED
      BY <2>1, <2>2
  <1>10. Numbered'
    BY <1>0, <1>2, <1>4, <1>5 DEF Numbered, Running
  <1>11. Beasts'
    BY <1>0, <1>2, <1>4, <1>5 DEF Beasts
  <1>12. Cards'
    BY <1>2, <1>4, <1>5 DEF Cards, Running
  <1>13. Later'
    BY <1>0, <1>2, <1>4, <1>5 DEF Later, Running
  <1> QED
    BY <1>5, <1>6, <1>7, <1>8, <1>9, <1>10, <1>11, <1>12, <1>13 DEF PInv

\* A killed process leaves files that are no worse than the ones before.
LEMMA CrashKeeps == ASSUME ~ Prefix, PInv, Crash PROVE PInv'
  <1>0. /\ ObjectsInv /\ Tame
        /\ Files /\ Phases /\ Current /\ Kept /\ Numbered /\ Beasts /\ Cards /\ Later
    BY DEF PInv
  <1>1. Running /\ pc' = "down" /\ task' = "start" /\ n' = 0 /\ Gone
    BY DEF Crash, Running
  <1>2. Blank' /\ ObjectsInv' /\ Tame'
    BY <1>1, GoneBlank, BlankNext
  <1>3. ~ Running' /\ \A c : ~ Around(c)'
    BY <1>1, <1>2 DEF Running, Blank, Around, Has
  <1>4. Phases'
    BY <1>1, <1>2, <1>3, PersistAssumption DEF Phases, Starting, Pc
  <1>5. Current' /\ Later'
    BY <1>1, <1>3 DEF Current, Later
  <1>6. NoPromise \in Promise /\ NoPromise.st = "none"
    BY DEF NoPromise, Promise, Flag
  <1>7. SUFFICES Files' /\ Kept' /\ Numbered' /\ Beasts' /\ Cards'
    BY <1>2, <1>4, <1>5 DEF PInv
  <1>8. CASE pc \in {"userdb", "up"} /\ UNCHANGED <<worldfile, userfile, promise>>
    <2>1. /\ Saved' = Saved /\ Bag' = Bag /\ Files'
          /\ \A c : (Recorded(c)' <=> Recorded(c)) /\ (Owned(c)' <=> Owned(c))
      BY <1>0, <1>8, SameFiles
    <2>2. Kept'
      BY <1>0, <1>1, <1>8, <2>1 DEF Kept, KeptUsers, KeptRooms, Phases
    <2> QED
      BY <1>0, <1>3, <2>1, <2>2 DEF Numbered, Beasts, Cards
  <1>9. CASE /\ pc = "users" /\ userfile' \in UserCuts(userfile, UserImage) /\ userfile' # userfile
             /\ promise' = NoPromise /\ UNCHANGED worldfile
    <2>1. Saved' = Saved /\ Saved.st = "whole"
      BY <1>0, <1>9 DEF Saved, Phases, Running
    <2>2. /\ userfile'.st \in {"whole", "torn"}
          /\ DOMAIN Bag' \subseteq recs /\ \A u \in DOMAIN Bag' : Bag'[u] = Written(u)
      BY <1>9, UserCut
    <2>3. /\ DOMAIN Bag' \subseteq User /\ \A u \in DOMAIN Bag' : Good(Bag'[u])
          /\ \A u \in DOMAIN Bag' : \A rc \in Bag'[u] : rc[2] < Saved.counter
          /\ ~ Owned("bear")'
          /\ \A c : Recorded(c)' <=> Recorded(c)
          /\ Recorded("key") \/ Owned("key")' => ~ Recorded("bear") /\ ~ Around("bear")
          /\ Recorded("cpu") \/ Owned("cpu")' => "dug" \in flags /\ "dug" \in Saved.flags
      BY <1>9, <2>1, <2>2, BagWritten
    <2>4. Files'
      BY <1>0, <1>9, <2>1, <2>2, <2>3 DEF Files
    <2>5. Kept'
      BY <1>6, <1>9 DEF Kept
    <2> QED
      BY <1>0, <1>3, <2>1, <2>3, <2>4, <2>5 DEF Numbered, Beasts, Cards
  <1>11. CASE pc \in {"world", "users"} /\ promise' = NoPromise /\ UNCHANGED <<worldfile, userfile>>
    <2>1. /\ Saved' = Saved /\ Bag' = Bag
          /\ \A c : (Recorded(c)' <=> Recorded(c)) /\ (Owned(c)' <=> Owned(c))
      BY <1>11 DEF Saved, Bag, Recorded, Owned
    <2>2. Files' /\ Kept'
      BY <1>0, <1>6, <1>11, <2>1 DEF Files, Kept
    <2> QED
      BY <1>0, <1>3, <2>1, <2>2 DEF Numbered, Beasts, Cards
  <1>10. CASE /\ pc = "world" /\ promise' = NoPromise /\ UNCHANGED userfile
              /\ \E k \in 0..Len(Order) :
                   worldfile' = [worldfile EXCEPT ![SaveDir] = WorldCut(@, WorldImage, k)]
    <2>1. PICK k \in 0..Len(Order) :
            worldfile' = [worldfile EXCEPT ![SaveDir] = WorldCut(@, WorldImage, k)]
      BY <1>10
    <2>2. SaveDir = "launch" /\ worldfile \in [Directory -> WorldFile] /\ Saved \in WorldFile
      BY <1>0 DEF SaveDir, Home, Files, Saved, Directory
    <2>3. Saved' = WorldCut(Saved, WorldImage, k) /\ Bag' = Bag
      BY <1>10, <2>1, <2>2 DEF Saved, Bag, Directory
    <2>4. Kept'
      BY <1>6, <1>10 DEF Kept
    <2>5. \A c : Owned(c)' <=> Owned(c)
      BY <2>3 DEF Owned
    <2>6. ASSUME Saved' = NoWorld("torn") PROVE Files' /\ Numbered' /\ Beasts' /\ Cards'
      <3>1. NoWorld("torn") \in WorldFile
        BY ObjectsAssumption DEF NoWorld, NoRooms, WorldFile, Flag
      <3>2. Saved'.st = "torn" /\ \A r \in Room : Saved'.rooms[r] = {}
        BY <2>6 DEF NoWorld, NoRooms
      <3>3. worldfile' \in [Directory -> WorldFile]
        BY <2>1, <2>2, <2>3, <2>6, <3>1 DEF Saved, Directory
      <3>4. Files'
        BY <1>0, <1>6, <1>10, <2>3, <3>2, <3>3 DEF Files, Good
      <3>5. \A c : ~ Recorded(c)'
        BY <3>2 DEF Recorded
      <3> QED
        BY <1>0, <1>3, <2>5, <3>2, <3>4, <3>5 DEF Numbered, Beasts, Cards
    <2>7. ASSUME Saved.st = "whole", NEW done \in SUBSET Room, Mixed(Saved', Saved, WorldImage, done)
          PROVE  Files' /\ Numbered' /\ Beasts' /\ Cards'
      <3>1. /\ Saved' \in WorldFile /\ Saved'.st = "whole" /\ Saved'.counter = Saved.counter
            /\ \A r \in Room : Saved'.rooms[r] = IF r \in done THEN Written(r) ELSE Saved.rooms[r]
            /\ \A f \in Flag : f \in Saved'.flags <=>
                 IF RoomOf(f) \in done THEN f \in flags ELSE f \in Saved.flags
        BY <1>0, <2>7, ImageIs DEF Mixed
      <3>2. ASSUME NEW r \in done, NEW rc \in Written(r)
            PROVE  /\ Recorded(rc[3]) /\ Around(rc[3])
                   /\ rc[2] < Saved.counter /\ rc[2] \in Has(r) /\ rc[3] = cls[rc[2]]
        <4>1. r \in Room /\ r \in Place
          BY DEF Place
        <4>2. /\ rc[2] \in Has(r) /\ rc[3] = cls[rc[2]] /\ Around(rc[3])
              /\ rc[2] \in Nat
          BY <1>0, <4>1, ImageIs
        <4>3. rc \in WorldImage.rooms[r]
          BY <1>0, <4>1, ImageIs
        <4>4. Recorded(rc[3])
          BY <2>7, <4>3 DEF Mixed, Recorded
        <4>5. ~ (rc[2] >= Saved.counter)
          BY <1>0, <1>1, <2>7, <4>1, <4>2, <4>4 DEF Later
        <4>6. Saved.counter \in Nat
          BY <2>2 DEF WorldFile
        <4> QED
          BY <4>2, <4>4, <4>5, <4>6
      <3>3. worldfile' \in [Directory -> WorldFile]
        BY <2>1, <2>2, <2>3, <3>1 DEF Saved, Directory
      <3>4. \A r \in Room : Good(Saved'.rooms[r])
        <4>1. \A r \in Room : Good(Written(r))
          <5>1. \A r \in Room : r \in Place
            BY DEF Place
          <5> QED
            BY <1>0, <5>1, WrittenHas DEF ObjectsInv
        <4> QED
          BY <1>0, <3>1, <4>1 DEF Files
      <3>5. Files'
        BY <1>0, <1>10, <2>3, <3>1, <3>3, <3>4 DEF Files
      <3>6. Numbered'
        <4>1. \A r \in Room : \A rc \in Saved'.rooms[r] : rc[2] < Saved.counter
          BY <1>0, <2>7, <3>1, <3>2 DEF Numbered
        <4> QED
          BY <1>0, <1>3, <2>3, <2>7, <3>1, <4>1 DEF Numbered
      <3>7. \A c : Recorded(c)' => Recorded(c)
        <4> SUFFICES ASSUME NEW c, NEW r \in Room, NEW rc \in Saved'.rooms[r], rc[3] = c
                     PROVE  Recorded(c)
          BY DEF Recorded
        <4>1. CASE r \in done
          BY <3>1, <3>2, <4>1
        <4>2. CASE r \notin done
          BY <3>1, <4>2 DEF Recorded
        <4> QED
          BY <4>1, <4>2
      <3>8. \A r \in Room : \A rc \in Saved'.rooms[r] : rc[3] = "bear" => r = HomeOf.bear
        BY <1>0, <3>1, <3>2 DEF Beasts, Tame, BearsHome
      <3>9. Beasts'
        BY <1>0, <1>3, <2>5, <3>7, <3>8 DEF Beasts
      <3>10. Cards'
        <4>1. Recorded("cpu") \/ Owned("cpu") => "dug" \in flags /\ "dug" \in Saved.flags
          BY <1>0, <1>1, <2>7 DEF Cards
        <4>2. "dug" \in Flag
          BY DEF Flag
        <4> QED
          BY <1>3, <2>5, <3>1, <3>7, <4>1, <4>2 DEF Cards
      <3> QED
        BY <3>5, <3>6, <3>9, <3>10
    <2>8. WorldImage \in WorldFile
      BY <1>0, ImageIs
    <2>9. \/ Saved' = NoWorld("torn")
          \/ Saved.st = "whole" /\ \E done \in SUBSET Room : Mixed(Saved', Saved, WorldImage, done)
      BY <2>2, <2>3, <2>8, CutIs
    <2> QED
      BY <2>4, <2>6, <2>7, <2>9
  <1> QED
    BY <1>8, <1>9, <1>10, <1>11 DEF Crash

LEMMA PersistNext == ASSUME ~ Prefix, PInv, [PNext]_allvars PROVE PInv'
  <1>1. CASE StartFresh
    BY <1>1, StartFreshKeeps
  <1>2. CASE StartLoad
    BY <1>2, StartLoadKeeps
  <1>3. CASE StartFails \/ UserdbFails
    BY <1>3, FailsKeep
  <1>4. CASE UserdbInit
    BY <1>4, UserdbInitKeeps
  <1>5. CASE \E u \in User : FirstRunSetup(u)
    BY <1>5, FirstRunKeeps
  <1>6. CASE Serve
    <2>1. pc = "up" /\ [Next]_vars /\ UNCHANGED <<pc, task, n, worldfile, userfile, promise>>
      BY <1>6 DEF Serve, Next, pvars
    <2>2. n' \in 0..SaveInterval - 1
      BY <2>1 DEF PInv, Phases
    <2> QED
      BY <2>1, <2>2, ServeKeeps
  <1>7. CASE SaveDue
    BY <1>7, SaveDueKeeps
  <1>8. CASE WorldSave
    BY <1>8, WorldSaveKeeps
  <1>9. CASE UserdbWrite
    BY <1>9, UserdbWriteKeeps
  <1>10. CASE Sigint
    BY <1>10, SigintKeeps
  <1>11. CASE Crash
    BY <1>11, CrashKeeps
  <1>12. CASE UNCHANGED allvars
    <2>1. UNCHANGED <<vars, worldfile, userfile, promise>> /\ UNCHANGED <<pc, task, n>>
      BY <1>12 DEF allvars, pvars
    <2>2. Phases /\ Current
      BY DEF PInv
    <2>3. UNCHANGED <<op, objects, cls, flags, idcounter, Saved>>
      BY <2>1 DEF vars, maps, heap, loop, world, Saved
    <2>4. Blank' <=> Blank
      BY <2>1 DEF vars, maps, heap, loop, world, Blank
    <2>5. Phases' /\ (Running' => Running)
      BY <2>1, <2>2, <2>3, <2>4 DEF Phases, Starting, Running
    <2>6. Current'
      <3>1. \A p : Written(p)' = Written(p)
        BY <2>3 DEF Written
      <3> QED
        BY <2>1, <2>2, <2>3, <3>1 DEF Current
    <2> QED
      BY <2>1, <2>5, <2>6, Still
  <1> QED
    BY <1>1, <1>2, <1>3, <1>4, <1>5, <1>6, <1>7, <1>8, <1>9, <1>10, <1>11, <1>12 DEF PNext

-----------------------------------------------------------------------------
(***************************************************************************)
(* What the files are for.                                                 *)
(***************************************************************************)
LEMMA PersistHolds == ASSUME ~ Prefix PROVE PSpec => []PInv
  <1> QED
    BY PersistInit, PersistNext, PTL DEF PSpec

\* Through any sequence of saves, signals, kills and restarts, memory and both
\* files stay well formed: world_load and userdb_init bring back objects whose
\* multimaps and reference counts are those of a server that never stopped.
THEOREM PersistTyped == ASSUME ~ Prefix PROVE PSpec => []PTypeOK
  <1>1. PInv => PTypeOK
    <2> SUFFICES ASSUME PInv PROVE PTypeOK
      OBVIOUS
    <2>1. ObjectsInv /\ Files /\ Phases
      BY DEF PInv
    <2>2. TypeOK
      BY <2>1, CountedNat DEF ObjectsInv, Typed, TypeOK
    <2>3. \A d \in Directory : /\ worldfile[d].st \in {"absent", "whole", "torn"}
                               /\ worldfile[d].rooms \in [Room -> SUBSET Record]
                               /\ worldfile[d].counter \in 1..MaxId + 1
      BY <2>1 DEF Files, WorldFile
    <2>4. \A u \in DOMAIN userfile.users : u \in User /\ userfile.users[u] \subseteq Record
      BY <2>1 DEF Files, Bag, Good
    <2> QED
      BY <2>1, <2>2, <2>3, <2>4 DEF PTypeOK, Files, Phases
  <1> QED
    BY <1>1, PersistHolds, PTL

\* The counter in the world file does its work: obj_new never hands out the id
\* of an object that exists, although world_save and userdb_write write at
\* different times, and a kill can leave either of them as it was, cut off or
\* complete.
THEOREM IdsStayFresh == ASSUME ~ Prefix PROVE PSpec => []IdsFresh
  <1>1. PInv => IdsFresh
    <2> SUFFICES ASSUME PInv, NEW i \in Id, Live(i) PROVE i < idcounter
      BY DEF IdsFresh
    <2>1. ObjectsInv /\ Typed /\ Fresh /\ Referred
      BY DEF PInv, ObjectsInv
    <2>2. i \in Nat /\ idcounter \in Nat /\ leaked[i] \in Nat
      BY <2>1 DEF Typed, Id
    <2>3. Held(i) \/ leaked[i] > 0
      BY <2>1, LiveHeld
    <2>4. ~ (i >= idcounter)
      BY <2>1, <2>2, <2>3 DEF Fresh, Held, Referred
    <2> QED
      BY <2>2, <2>4
  <1> QED
    BY <1>1, PersistHolds, PTL

\* The references that world_load and userdb_init take are those that takes,
\* drops and verbs will give back.
THEOREM BooksSurvive == ASSUME ~ Prefix PROVE PSpec => []RefBooks
  <1>1. PInv => RefBooks
    BY BooksKept DEF PInv
  <1> QED
    BY <1>1, PersistHolds, PTL

\* Some record of rs is one of object i.
Lists(rs, i) == \E rc \in rs : rc[2] = i

LEMMA WrittenLists ==
    ASSUME Typed, Exact, NEW p \in Place, NEW i
    PROVE  Lists(Written(p), i) <=> i \in Has(p)
  <1>1. ASSUME NEW rc \in Written(p), rc[2] = i PROVE i \in Has(p)
    BY <1>1, WrittenHas
  <1>2. ASSUME i \in Has(p) PROVE \E rc \in Written(p) : rc[2] = i
    <2> DEFINE rc == <<NameOf[cls[i]], i, cls[i]>>
    <2>1. rc \in Written(p) /\ rc[2] = i
      BY <1>2, WrittenHas
    <2> QED
      BY <2>1
  <1> QED
    BY <1>1, <1>2 DEF Lists

LEMMA LoadedLists ==
    ASSUME NEW rs, Good(rs), NEW i
    PROVE  Lists(rs, i) <=> \E pr \in Loaded(rs) : pr[2] = i
  <1>1. ASSUME NEW rc \in rs, rc[2] = i PROVE \E pr \in Loaded(rs) : pr[2] = i
    <2>1. <<rc[1], rc[2]>> \in Loaded(rs) /\ <<rc[1], rc[2]>>[2] = i
      BY <1>1, LoadedIs
    <2> QED
      BY <2>1
  <1>2. ASSUME NEW pr \in Loaded(rs), pr[2] = i PROVE \E rc \in rs : rc[2] = i
    BY <1>2, LoadedIs
  <1> QED
    BY <1>1, <1>2 DEF Lists

\* Files that have an object nowhere but at p have it once, or miss the user p.
LEMMA OneRecord ==
    ASSUME NEW w, NEW u, DOMAIN w.rooms = Room, DOMAIN u.users \subseteq User,
           NEW i, NEW p \in Place,
           \A r \in Room : Good(w.rooms[r]) /\ (Lists(w.rooms[r], i) <=> r = p),
           \A v \in DOMAIN u.users : Good(u.users[v]) /\ (Lists(u.users[v], i) <=> v = p)
    PROVE  \/ Cardinality(RecordsOf(i, w, u)) = 1
           \/ RecordsOf(i, w, u) = {} /\ p \in User \ DOMAIN u.users
  <1> DEFINE ts == RecordsOf(i, w, u)
  <1>1. \A t : t \in ts <=> \/ \E r \in Room : \E rc \in w.rooms[r] : t = <<r, rc>> /\ rc[2] = i
                          \/ \E v \in DOMAIN u.users : \E rc \in u.users[v] : t = <<v, rc>> /\ rc[2] = i
    <2>1. \A t : t \in Tagged(w.rooms) <=> \E r \in Room : \E rc \in w.rooms[r] : t = <<r, rc>>
      BY TaggedIs
    <2>2. \A t : t \in Tagged(u.users) <=>
                  \E v \in DOMAIN u.users : \E rc \in u.users[v] : t = <<v, rc>>
      BY TaggedIs
    <2>3. \A t : t \in ts <=> t \in Tagged(w.rooms) \cup Tagged(u.users) /\ t[2][2] = i
      BY DEF RecordsOf
    <2> HIDE DEF ts
    <2> QED
      BY <2>1, <2>2, <2>3
  <1>2. /\ \A r \in Room : \A rc \in w.rooms[r] : rc[2] = i => r = p
        /\ \A v \in DOMAIN u.users : \A rc \in u.users[v] : rc[2] = i => v = p
    BY DEF Lists
  <1> HIDE DEF ts
  <1>3. CASE p \in Room
    <2>1. p \notin DOMAIN u.users /\ Good(w.rooms[p]) /\ Lists(w.rooms[p], i)
      BY <1>3, ObjectsAssumption
    <2>2. PICK rc \in w.rooms[p] : rc[2] = i
      BY <2>1 DEF Lists
    <2>3. \A sc \in w.rooms[p] : sc[2] = i => sc = rc
      BY <2>1, <2>2 DEF Good
    <2>4. \A t : t \in ts <=> t = <<p, rc>>
      BY <1>1, <1>2, <1>3, <2>1, <2>2, <2>3
    <2>5. ts = {<<p, rc>>}
      BY <2>4
    <2> QED
      BY <2>5, FS_Singleton DEF ts
  <1>4. CASE p \in DOMAIN u.users
    <2>1. p \notin Room /\ Good(u.users[p]) /\ Lists(u.users[p], i)
      BY <1>4, ObjectsAssumption
    <2>2. PICK rc \in u.users[p] : rc[2] = i
      BY <2>1 DEF Lists
    <2>3. \A sc \in u.users[p] : sc[2] = i => sc = rc
      BY <2>1, <2>2 DEF Good
    <2>4. \A t : t \in ts <=> t = <<p, rc>>
      BY <1>1, <1>2, <1>4, <2>1, <2>2, <2>3
    <2>5. ts = {<<p, rc>>}
      BY <2>4
    <2> QED
      BY <2>5, FS_Singleton DEF ts
  <1>5. CASE p \notin Room /\ p \notin DOMAIN u.users
    <2>1. p \in User
      BY <1>5 DEF Place
    <2>2. \A t : t \notin ts
      BY <1>1, <1>2, <1>5
    <2>3. ts = {}
      BY <2>2
    <2> QED
      BY <1>5, <2>1, <2>3 DEF ts
  <1> QED
    BY <1>3, <1>4, <1>5

\* A kill at any point of server_save_state, or of the save of a shutdown, that
\* leaves a world that can be loaded: what has not moved since the last complete
\* save is in the files once, or gone with the account of its owner.
THEOREM KillsAreBounded == ASSUME ~ Prefix PROVE PSpec => KillRisksMoved
  <1>1. ASSUME PInv, [PNext]_allvars, pc \in {"world", "users"}, pc' = "down", task # "start",
               promise.st = "kept", worldfile'[Home].st = "whole",
               NEW i \in Id, NEW p \in Place, Unmoved(i, p)
        PROVE  \/ Cardinality(RecordsOf(i, worldfile'[Home], userfile')) = 1
               \/ /\ RecordsOf(i, worldfile'[Home], userfile') = {}
                  /\ p \in User \ DOMAIN userfile'.users
    <2>1. ObjectsInv /\ Typed /\ Exact /\ Files /\ Kept /\ Current
      BY <1>1 DEF PInv, ObjectsInv
    <2>2. Files' /\ worldfile'[Home] = Saved'
      <3>1. PInv'
        BY <1>1, PersistNext
      <3> QED
        BY <3>1 DEF PInv, Home, Saved
    <2>3. (\A r \in Room : r \in Place) /\ \A u \in User : u \in Place
      BY DEF Place
    \* Where the old files, the memory and so the new files have the object.
    <2>4. \A q \in Place : Lists(Written(q), i) <=> q = p
      <3>1. \A q \in Place : i \in Has(q) <=> q = p
        BY <1>1, HoldersAre DEF Unmoved
      <3> QED
        BY <2>1, <3>1, WrittenLists
    <2>5. \A q \in Place : (\E pr \in promise.objects[q] : pr[2] = i) <=> q = p
      BY <1>1 DEF Unmoved
    <2>6. \A r \in Room : Lists(Saved.rooms[r], i) <=> r = p
      <3>1. CASE NewRooms
        BY <2>3, <2>4, <3>1 DEF NewRooms
      <3>2. CASE KeptRooms
        <4>1. \A r \in Room : Good(Saved.rooms[r]) /\ Loaded(Saved.rooms[r]) = promise.objects[r]
          BY <2>1, <3>2 DEF KeptRooms, Files
        <4> QED
          BY <2>3, <2>5, <4>1, LoadedLists
      <3>3. NewRooms \/ KeptRooms
        BY <1>1, <2>1 DEF Kept, Current, NewRooms
      <3> QED
        BY <3>1, <3>2, <3>3
    <2>7. \A u \in DOMAIN Bag : Lists(Bag[u], i) <=> u = p
      <3>0. \A u \in DOMAIN Bag : u \in User /\ u \in Place /\ Good(Bag[u])
        BY <2>1, <2>3 DEF Files
      <3>1. CASE NewUsers
        BY <2>4, <3>0, <3>1 DEF NewUsers
      <3>2. CASE KeptUsers
        <4>1. \A u \in DOMAIN Bag : promise.objects[u] = Loaded(Bag[u])
          BY <3>0, <3>2 DEF KeptUsers
        <4> QED
          BY <2>5, <3>0, <4>1, LoadedLists
      <3>3. NewUsers \/ KeptUsers
        BY <1>1, <2>1 DEF Kept
      <3> QED
        BY <3>1, <3>2, <3>3
    <2>8. /\ \A r \in Room : Lists(Saved'.rooms[r], i) <=> r = p
          /\ \A u \in DOMAIN Bag' : Lists(Bag'[u], i) <=> u = p
      <3>1. CASE UserdbWrite
        <4>1. Saved' = Saved /\ DOMAIN Bag' = recs /\ \A u \in recs : Bag'[u] = Written(u)
          BY <3>1 DEF UserdbWrite, UserImage, Saved, Bag
        <4>2. \A u \in recs : u \in Place
          BY <2>1, <2>3 DEF Typed
        <4> QED
          BY <2>4, <2>6, <4>1, <4>2
      <3>2. CASE Crash /\ pc = "users"
        <4>1. Saved' = Saved /\ userfile' \in UserCuts(userfile, UserImage)
          BY <3>2 DEF Crash, Saved
        <4>2. CASE userfile' = userfile
          BY <2>6, <2>7, <4>1, <4>2 DEF Bag
        <4>3. CASE userfile' # userfile
          <5>1. DOMAIN Bag' \subseteq recs /\ \A u \in DOMAIN Bag' : Bag'[u] = Written(u)
            BY <4>1, <4>3, UserCut
          <5>2. \A u \in DOMAIN Bag' : u \in Place
            BY <2>1, <2>3, <5>1 DEF Typed
          <5> QED
            BY <2>4, <2>6, <4>1, <5>1, <5>2
        <4> QED
          BY <4>2, <4>3
      <3>3. CASE Crash /\ pc = "world"
        <4>0. CASE UNCHANGED worldfile
          BY <2>6, <2>7, <3>3, <4>0 DEF Crash, Saved, Bag
        <4> SUFFICES ASSUME ~ UNCHANGED worldfile
                     PROVE  /\ \A r \in Room : Lists(Saved'.rooms[r], i) <=> r = p
                            /\ \A u \in DOMAIN Bag' : Lists(Bag'[u], i) <=> u = p
          BY <4>0
        <4>1. PICK k \in 0..Len(Order) :
                worldfile' = [worldfile EXCEPT ![SaveDir] = WorldCut(@, WorldImage, k)]
          BY <3>3 DEF Crash
        <4>2. SaveDir = "launch" /\ worldfile \in [Directory -> WorldFile] /\ Saved \in WorldFile
          BY <2>1 DEF SaveDir, Home, Files, Saved, Directory
        <4>3. Saved' = WorldCut(Saved, WorldImage, k) /\ Bag' = Bag
          BY <3>3, <4>1, <4>2 DEF Crash, Saved, Bag, Directory
        <4>4. WorldImage \in WorldFile /\ \A r \in Room : WorldImage.rooms[r] = Written(r)
          BY <2>1, ImageIs
        <4>5. Saved' # NoWorld("torn")
          BY <1>1, <2>2 DEF NoWorld
        <4>6. PICK done \in SUBSET Room : Mixed(Saved', Saved, WorldImage, done)
          BY <4>2, <4>3, <4>4, <4>5, CutIs
        <4>7. \A r \in Room : Saved'.rooms[r] = IF r \in done THEN Written(r) ELSE Saved.rooms[r]
          BY <4>4, <4>6 DEF Mixed
        <4> QED
          BY <2>3, <2>4, <2>6, <2>7, <4>3, <4>7
      <3>4. UserdbWrite \/ Crash
        BY <1>1 DEF PNext, StartFresh, StartLoad, StartFails, UserdbInit, UserdbFails,
                    FirstRunSetup, Serve, SaveDue, WorldSave, Sigint, allvars, pvars
      <3> QED
        BY <1>1, <3>1, <3>2, <3>3, <3>4
    <2>9. /\ DOMAIN Saved'.rooms = Room /\ \A r \in Room : Good(Saved'.rooms[r])
          /\ DOMAIN Bag' \subseteq User /\ \A u \in DOMAIN Bag' : Good(Bag'[u])
      <3>1. Saved' \in WorldFile
        BY <2>2 DEF Files, Saved, Directory
      <3> QED
        BY <2>2, <3>1 DEF Files, WorldFile
    <2> QED
      BY <2>2, <2>8, <2>9, OneRecord DEF Bag
  <1>2. ASSUME PInv, [PNext]_allvars
        PROVE  [ /\ pc \in {"world", "users"} /\ pc' = "down" /\ task # "start"
                 /\ promise.st = "kept" /\ worldfile'[Home].st = "whole"
                 => \A i \in Id, p \in Place :
                       Unmoved(i, p) =>
                          \/ Cardinality(RecordsOf(i, worldfile'[Home], userfile')) = 1
                          \/ /\ RecordsOf(i, worldfile'[Home], userfile') = {}
                             /\ p \in User \ DOMAIN userfile'.users]_allvars
    BY <1>1, <1>2
  <1> QED
    BY <1>2, PersistHolds, PTL DEF PSpec, KillRisksMoved

\* server_main brings back exactly what the last complete save has written, and
\* refuses none of it.
THEOREM BootBringsBack == ASSUME ~ Prefix PROVE PSpec => BootRestores
  <1>1. ASSUME PInv, [PNext]_allvars,
               pc = "userdb", pc' # "down", promise.st = "kept", promise.recs # {}
        PROVE  (pc' = "up" /\ Now' = promise) \/ UNCHANGED allvars
    <2>0. ObjectsInv /\ Typed /\ Exact /\ Files /\ Phases /\ Current /\ Kept
      BY <1>1 DEF PInv, ObjectsInv
    <2>1. /\ userfile.st = "whole" /\ DOMAIN Bag = promise.recs /\ DOMAIN Bag \subseteq User
          /\ promise \in Promise /\ Saved.flags = promise.flags /\ Saved.flags = flags
          /\ \A u \in User : promise.objects[u] = IF u \in DOMAIN Bag THEN Loaded(Bag[u]) ELSE {}
          /\ \A p, q \in Place : \A a \in promise.objects[p], b \in promise.objects[q] :
               a[2] = b[2] => p = q
          /\ \A u \in User : objects[u] = {}
      BY <1>1, <2>0 DEF Kept, KeptUsers, Current, Files, Phases, Starting
    <2>2. \A r \in Room : r \in Place /\ promise.objects[r] = objects[r]
      <3> SUFFICES ASSUME NEW r \in Room PROVE r \in Place /\ promise.objects[r] = objects[r]
        OBVIOUS
      <3>1. r \in Place /\ Saved.rooms[r] = Written(r) /\ promise.objects[r] = Loaded(Saved.rooms[r])
        BY <1>1, <2>0 DEF Place, Current, Kept, KeptRooms, Phases
      <3> QED
        BY <2>0, <3>1, RoundTrip
    <2>3. ASSUME UserdbInit PROVE pc' = "up" /\ Now' = promise
      <3>1. /\ pc' = "up" /\ recs' = promise.recs /\ flags' = promise.flags
            /\ objects' = [p \in Place |-> objects[p] \cup
                             IF p \in DOMAIN Bag THEN Loaded(Bag[p]) ELSE {}]
        BY <2>1, <2>3 DEF UserdbInit, Bag
      <3>2. promise.objects \in [Place -> SUBSET (Key \X Id)]
        BY <2>1 DEF Promise
      <3>3. \A p \in Place : objects'[p] = promise.objects[p]
        <4> SUFFICES ASSUME NEW p \in Place PROVE objects'[p] = promise.objects[p]
          OBVIOUS
        <4>1. CASE p \in Room
          BY <2>1, <2>2, <3>1, <4>1, ObjectsAssumption
        <4>2. CASE p \in User
          BY <2>1, <3>1, <4>2
        <4> QED
          BY <4>1, <4>2 DEF Place
      <3>4. objects' = promise.objects
        BY <3>1, <3>2, <3>3
      <3>5. promise = [st |-> "kept", objects |-> promise.objects, recs |-> promise.recs,
                       flags |-> promise.flags]
        BY <1>1, <2>1 DEF Promise
      <3> QED
        BY <3>1, <3>4, <3>5 DEF Now
    <2>4. ~ UserdbFails
      <3> SUFFICES ASSUME Doubled(Tagged(Bag) \cup InRooms) PROVE FALSE
        BY <2>1 DEF UserdbFails, Bag
      <3>1. ASSUME NEW t \in Tagged(Bag) \cup InRooms
            PROVE  \E p \in Place : \E rc : /\ t = <<p, rc>> /\ <<rc[1], rc[2]>> \in promise.objects[p]
                                            /\ IF p \in Room THEN rc \in Written(p)
                                               ELSE p \in DOMAIN Bag /\ rc \in Bag[p]
        <4>1. CASE t \in Tagged(Bag)
          <5>1. PICK u \in DOMAIN Bag : \E rc \in Bag[u] : t = <<u, rc>>
            BY <4>1, TaggedIs
          <5>2. PICK rc \in Bag[u] : t = <<u, rc>>
            BY <5>1
          <5>3. u \in Place /\ u \notin Room /\ u \in User
            BY <2>1, ObjectsAssumption DEF Place
          <5>4. <<rc[1], rc[2]>> \in Loaded(Bag[u])
            BY <2>0, LoadedIs DEF Files
          <5> QED
            BY <2>1, <5>2, <5>3, <5>4
        <4>2. CASE t \in InRooms
          <5>1. PICK r \in Room : \E rc \in Written(r) : t = <<r, rc>>
            BY <4>2 DEF InRooms
          <5>2. PICK rc \in Written(r) : t = <<r, rc>>
            BY <5>1
          <5>3. Good(Written(r)) /\ Loaded(Written(r)) = objects[r]
            BY <2>0, <2>2, WrittenHas, RoundTrip
          <5>4. <<rc[1], rc[2]>> \in objects[r]
            BY <5>3, LoadedIs
          <5> QED
            BY <2>2, <5>2, <5>4
        <4> QED
          BY <4>1, <4>2
      <3>2. PICK t \in Tagged(Bag) \cup InRooms, v \in Tagged(Bag) \cup InRooms :
              t # v /\ t[2][2] = v[2][2]
        BY DEF Doubled
      <3>3. PICK p \in Place : \E rc : /\ t = <<p, rc>> /\ <<rc[1], rc[2]>> \in promise.objects[p]
                                       /\ IF p \in Room THEN rc \in Written(p)
                                          ELSE p \in DOMAIN Bag /\ rc \in Bag[p]
        BY <3>1
      <3>4. PICK rc : /\ t = <<p, rc>> /\ <<rc[1], rc[2]>> \in promise.objects[p]
                      /\ IF p \in Room THEN rc \in Written(p)
                         ELSE p \in DOMAIN Bag /\ rc \in Bag[p]
        BY <3>3
      <3>5. PICK q \in Place : \E sc : /\ v = <<q, sc>> /\ <<sc[1], sc[2]>> \in promise.objects[q]
                                       /\ IF q \in Room THEN sc \in Written(q)
                                          ELSE q \in DOMAIN Bag /\ sc \in Bag[q]
        BY <3>1
      <3>6. PICK sc : /\ v = <<q, sc>> /\ <<sc[1], sc[2]>> \in promise.objects[q]
                      /\ IF q \in Room THEN sc \in Written(q)
                         ELSE q \in DOMAIN Bag /\ sc \in Bag[q]
        BY <3>5
      <3>7. rc[2] = sc[2]
        BY <3>2, <3>4, <3>6
      <3>8. p = q
        <4>1. <<rc[1], rc[2]>>[2] = <<sc[1], sc[2]>>[2]
          BY <3>7
        <4> QED
          BY <2>1, <3>4, <3>6, <4>1
      <3>9. rc = sc
        <4>1. p \in Room => Good(Written(p))
          BY <2>0, WrittenHas
        <4>2. p \in DOMAIN Bag => Good(Bag[p])
          BY <2>0 DEF Files
        <4> QED
          BY <3>4, <3>6, <3>7, <3>8, <4>1, <4>2 DEF Good
      <3> QED
        BY <3>2, <3>4, <3>6, <3>8, <3>9
    <2>5. \A u \in User : ~ FirstRunSetup(u)
      BY <1>1, <2>1 DEF FirstRunSetup, Bag
    <2>6. /\ ~ StartFresh /\ ~ StartLoad /\ ~ StartFails /\ ~ Serve /\ ~ SaveDue
          /\ ~ WorldSave /\ ~ UserdbWrite /\ ~ Sigint /\ ~ Crash
      BY <1>1, <2>0
      DEF StartFresh, StartLoad, StartFails, Serve, SaveDue, WorldSave, UserdbWrite, Sigint,
          Crash, Phases
    <2> QED
      BY <1>1, <2>3, <2>4, <2>5, <2>6 DEF PNext
  \* world_load does not refuse a world that was saved.
  <1>3. ASSUME PInv, [PNext]_allvars,
               pc = "down", pc' # "down", promise.st = "kept", promise.recs # {}
        PROVE  pc' = "userdb"
    <2>0. Files /\ Phases /\ Kept
      BY <1>3 DEF PInv
    <2>1. /\ userfile.st = "whole" /\ KeptRooms
          /\ \A p, q \in Place : \A a \in promise.objects[p], b \in promise.objects[q] :
               a[2] = b[2] => p = q
      BY <1>3, <2>0 DEF Kept, KeptUsers, Phases
    <2>2. Saved \in WorldFile /\ Saved.st \in {"absent", "whole", "torn"} /\ Saved.st # "absent"
      BY <2>0, <2>1 DEF Files, Saved, Directory, WorldFile
    <2>3. Saved.st # "torn"
      BY <1>3, <2>0 DEF Files
    <2>4. ~ Doubled(Tagged(Saved.rooms))
      <3>1. \A r \in Room : /\ r \in Place /\ Good(Saved.rooms[r])
                            /\ Loaded(Saved.rooms[r]) = promise.objects[r]
        BY <2>0, <2>1 DEF Files, KeptRooms, Place
      <3>2. SUFFICES ASSUME NEW t \in Tagged(Saved.rooms), NEW v \in Tagged(Saved.rooms),
                            t[2][2] = v[2][2]
                     PROVE  t = v
        BY DEF Doubled
      <3>3. DOMAIN Saved.rooms = Room
        BY <2>2 DEF WorldFile
      <3>4. PICK r \in Room : \E rc \in Saved.rooms[r] : t = <<r, rc>>
        BY <3>2, <3>3, TaggedIs
      <3>5. PICK rc \in Saved.rooms[r] : t = <<r, rc>>
        BY <3>4
      <3>6. PICK q \in Room : \E sc \in Saved.rooms[q] : v = <<q, sc>>
        BY <3>2, <3>3, TaggedIs
      <3>7. PICK sc \in Saved.rooms[q] : v = <<q, sc>>
        BY <3>6
      <3>8. rc[2] = sc[2]
        BY <3>2, <3>5, <3>7
      <3>9. <<rc[1], rc[2]>> \in promise.objects[r] /\ <<sc[1], sc[2]>> \in promise.objects[q]
        BY <3>1, LoadedIs
      <3>10. r = q
        <4>1. <<rc[1], rc[2]>>[2] = <<sc[1], sc[2]>>[2]
          BY <3>8
        <4> QED
          BY <2>1, <3>1, <3>9, <4>1
      <3>11. rc = sc
        BY <3>1, <3>8, <3>10 DEF Good
      <3> QED
        BY <3>5, <3>7, <3>10, <3>11
    <2>5. ~ StartFresh /\ ~ StartFails
      BY <2>2, <2>3, <2>4 DEF StartFresh, StartFails, Saved
    <2>6. StartLoad
      BY <1>3, <2>5
      DEF PNext, UserdbInit, UserdbFails, FirstRunSetup, Serve, SaveDue, WorldSave,
          UserdbWrite, Sigint, Crash, allvars, pvars
    <2> QED
      BY <2>6 DEF StartLoad
  <1>2. ASSUME PInv, [PNext]_allvars
        PROVE  [promise.st = "kept" /\ promise.recs # {} =>
                  /\ pc = "down" /\ pc' # "down" => pc' = "userdb"
                  /\ pc = "userdb" /\ pc' # "down" => pc' = "up" /\ Now' = promise]_allvars
    BY <1>1, <1>2, <1>3
  <1> QED
    BY <1>2, PersistHolds, PTL DEF PSpec, BootRestores
=============================================================================
