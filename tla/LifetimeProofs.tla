--------------------------- MODULE LifetimeProofs ---------------------------
(***************************************************************************)
(* More about Objects: what is made in the course of the game is made once,*)
(* and the strings that serve as keys of multimaps outlive their nodes.    *)
(*                                                                         *)
(* Both rest on objects of one class staying together: they start in one   *)
(* room, TAKE, DROP and eat work on all objects of a name, and the names   *)
(* of two classes never overlap.                                           *)
(***************************************************************************)
EXTENDS ObjectsProofs

\* No two classes of dunnet share a name or an alias.
LEMMA OneName ==
    ASSUME NEW c \in Class, NEW d \in Class, NEW k \in Names(c), k \in Names(d)
    PROVE  c = d
  <1>1. Names("shovel") = {"shovel"}
    BY DEF Names, NamesOf, NameOf, AliasesOf, Class
  <1>2. Names("trees") = {"trees", "tree", "palm", "palm tree"}
    BY DEF Names, NamesOf, NameOf, AliasesOf, Class
  <1>3. Names("boulder") = {"large boulder", "boulder", "rock"}
    BY DEF Names, NamesOf, NameOf, AliasesOf, Class
  <1>4. Names("food") = {"some food", "food", "meat"}
    BY DEF Names, NamesOf, NameOf, AliasesOf, Class
  <1>5. Names("bear") = {"ferocious bear", "bear"}
    BY DEF Names, NamesOf, NameOf, AliasesOf, Class
  <1>6. Names("bracelet") = {"emerald bracelet", "bracelet"}
    BY DEF Names, NamesOf, NameOf, AliasesOf, Class
  <1>7. Names("bins") = {"bins", "mail bins"}
    BY DEF Names, NamesOf, NameOf, AliasesOf, Class
  <1>8. Names("computer") = {"computer", "vax", "pokey"}
    BY DEF Names, NamesOf, NameOf, AliasesOf, Class
  <1>9. Names("key") = {"shiny brass key", "key", "shiny key", "brass key"}
    BY DEF Names, NamesOf, NameOf, AliasesOf, Class
  <1>10. Names("cpu") = {"CPU card", "cpu", "chip", "card"}
    BY DEF Names, NamesOf, NameOf, AliasesOf, Class
  <1>11. CASE c = "shovel"
    BY <1>1, <1>2, <1>3, <1>4, <1>5, <1>6, <1>7, <1>8, <1>9, <1>10,
       <1>11, ZenonT(60) DEF Class
  <1>12. CASE c = "trees"
    BY <1>1, <1>2, <1>3, <1>4, <1>5, <1>6, <1>7, <1>8, <1>9, <1>10,
       <1>12, ZenonT(60) DEF Class
  <1>13. CASE c = "boulder"
    BY <1>1, <1>2, <1>3, <1>4, <1>5, <1>6, <1>7, <1>8, <1>9, <1>10,
       <1>13, ZenonT(60) DEF Class
  <1>14. CASE c = "food"
    BY <1>1, <1>2, <1>3, <1>4, <1>5, <1>6, <1>7, <1>8, <1>9, <1>10,
       <1>14, ZenonT(60) DEF Class
  <1>15. CASE c = "bear"
    BY <1>1, <1>2, <1>3, <1>4, <1>5, <1>6, <1>7, <1>8, <1>9, <1>10,
       <1>15, ZenonT(60) DEF Class
  <1>16. CASE c = "bracelet"
    BY <1>1, <1>2, <1>3, <1>4, <1>5, <1>6, <1>7, <1>8, <1>9, <1>10,
       <1>16, ZenonT(60) DEF Class
  <1>17. CASE c = "bins"
    BY <1>1, <1>2, <1>3, <1>4, <1>5, <1>6, <1>7, <1>8, <1>9, <1>10,
       <1>17, ZenonT(60) DEF Class
  <1>18. CASE c = "computer"
    BY <1>1, <1>2, <1>3, <1>4, <1>5, <1>6, <1>7, <1>8, <1>9, <1>10,
       <1>18, ZenonT(60) DEF Class
  <1>19. CASE c = "key"
    BY <1>1, <1>2, <1>3, <1>4, <1>5, <1>6, <1>7, <1>8, <1>9, <1>10,
       <1>19, ZenonT(60) DEF Class
  <1>20. CASE c = "cpu"
    BY <1>1, <1>2, <1>3, <1>4, <1>5, <1>6, <1>7, <1>8, <1>9, <1>10,
       <1>20, ZenonT(60) DEF Class
  <1> QED
    BY <1>11, <1>12, <1>13, <1>14, <1>15, <1>16, <1>17, <1>18, <1>19, <1>20 DEF Class

\* multimap_lookup by one name of an object finds all objects of its class.
LEMMA ListAll ==
    ASSUME Typed, Exact, NEW p \in Place, NEW k, NEW i \in List(p, k)
    PROVE  /\ i \in Has(p)
           /\ \A j \in Has(p) : cls[i] = cls[j] => j \in List(p, k)
  <1>1. i \in Has(p) /\ <<k, i>> \in objects[p]
    BY DEF List, Has, Typed
  <1>2. k \in Names(cls[i])
    BY <1>1 DEF Exact
  <1>3. \A j \in Has(p) : cls[i] = cls[j] => <<k, j>> \in objects[p]
    BY <1>2 DEF Exact
  <1>4. \A j : <<k, j>> \in objects[p] => j \in List(p, k)
    BY DEF List
  <1> QED
    BY <1>1, <1>3, <1>4


-----------------------------------------------------------------------------
(***************************************************************************)
(* What the actions do to the objects of the maps.                         *)
(***************************************************************************)
LEMMA TakeAddHas ==
    ASSUME ObjectsInv, NEW i \in Id, TakeAdd(i), actor \in recs
    PROVE  /\ actor \in User /\ Here \in Room /\ i \in Id /\ i \in Has(Here)
           /\ Insert(actor, i) /\ cls' = cls /\ actor' = actor /\ where' = where
           /\ \A q \in Place : Has(q)' = IF q = actor THEN Has(q) \cup {i} ELSE Has(q)
  <1>0. Typed /\ Exact /\ Apart /\ Moving
    BY DEF ObjectsInv
  <1>1. /\ actor \in Place /\ Here \in Place /\ i \in Id /\ cls[i] \in Class
        /\ i \in Has(Here) /\ Insert(actor, i) /\ cls' = cls
    BY <1>0, Apartness, HasType
    DEF TakeAdd, world, Exact, Moving, Between, Taking, Dropping, Dropped
  <1>2. actor \in User /\ Here \in Room /\ actor' = actor /\ where' = where
    BY <1>0 DEF TakeAdd, world, Moving, Taking, Dropping, Dropped, Here
  <1>3. \A q \in Place : Has(q)' = IF q = actor THEN Has(q) \cup {i} ELSE Has(q)
    BY <1>0, <1>1, InsertHas
  <1> QED
    BY <1>1, <1>2, <1>3

LEMMA DropAddHas ==
    ASSUME ObjectsInv, NEW i \in Id, DropAdd(i)
    PROVE  /\ actor \in User /\ Here \in Room /\ i \in Id /\ i \in Has(actor)
           /\ Insert(Here, i) /\ cls' = cls /\ actor' = actor /\ where' = where
           /\ \A q \in Place : Has(q)' = IF q = Here THEN Has(q) \cup {i} ELSE Has(q)
  <1>0. Typed /\ Exact /\ Apart /\ Moving
    BY DEF ObjectsInv
  <1>1. /\ actor \in Place /\ Here \in Place /\ i \in Id /\ cls[i] \in Class
        /\ i \in Has(actor) /\ Insert(Here, i) /\ cls' = cls
    BY <1>0, Apartness, HasType
    DEF DropAdd, world, Exact, Moving, Between, Taking, Dropping, Dropped
  <1>2. actor \in User /\ Here \in Room /\ actor' = actor /\ where' = where
    BY <1>0 DEF DropAdd, world, Moving, Taking, Dropping, Dropped, Here
  <1>3. \A q \in Place : Has(q)' = IF q = Here THEN Has(q) \cup {i} ELSE Has(q)
    BY <1>0, <1>1, InsertHas
  <1> QED
    BY <1>1, <1>2, <1>3

LEMMA DropRefusedHas ==
    ASSUME ObjectsInv, DropRefused
    PROVE  /\ actor \in User /\ Here \in Room /\ cur \in Id /\ cur \in Has(Here)
           /\ Insert(actor, cur) /\ cls' = cls /\ actor' = actor /\ where' = where
           /\ \A q \in Place : Has(q)' = IF q = actor THEN Has(q) \cup {cur} ELSE Has(q)
  <1>0. Typed /\ Exact /\ Apart /\ Moving
    BY DEF ObjectsInv
  <1>1. /\ actor \in Place /\ Here \in Place /\ cur \in Id /\ cls[cur] \in Class
        /\ cur \in Has(Here) /\ Insert(actor, cur) /\ cls' = cls
    BY <1>0, Apartness, HasType
    DEF DropRefused, world, Exact, Moving, Between, Taking, Dropping, Dropped
  <1>2. actor \in User /\ Here \in Room /\ actor' = actor /\ where' = where
    BY <1>0 DEF DropRefused, world, Moving, Taking, Dropping, Dropped, Here
  <1>3. \A q \in Place : Has(q)' = IF q = actor THEN Has(q) \cup {cur} ELSE Has(q)
    BY <1>0, <1>1, InsertHas
  <1> QED
    BY <1>1, <1>2, <1>3

LEMMA TakeDelHas ==
    ASSUME ObjectsInv, TakeDel
    PROVE  /\ actor \in User /\ Here \in Room /\ cur \in Id /\ cur \in Has(Here) /\ cur \in Has(actor)
           /\ Delete(Here, PairsOf(Here, {cur})) /\ cls' = cls /\ actor' = actor /\ where' = where
           /\ \A q \in Place : Has(q)' = IF q = Here THEN Has(q) \ {cur} ELSE Has(q)
  <1>0. Typed /\ Exact /\ Apart /\ Moving
    BY DEF ObjectsInv
  <1>1. actor \in User /\ Here \in Room /\ actor' = actor /\ where' = where /\ cls' = cls
    BY <1>0 DEF TakeDel, world, Moving, Taking, Dropping, Dropped, Here
  <1>2. actor \in Place /\ Here \in Place /\ cur \in Has(Here) /\ cur \in Has(actor) /\ cur \in Id
    BY <1>0, <1>1, HasType DEF TakeDel, Moving, Between, Place
  <1>3. Mine(Here, cur) = {pr \in objects[Here] : pr[2] \in {cur}}
    BY <1>0, <1>2, MineIs
  <1>4. Delete(Here, {pr \in objects[Here] : pr[2] \in {cur}})
    BY <1>3 DEF TakeDel
  <1>5. \A q \in Place : Has(q)' = IF q = Here THEN Has(q) \ {cur} ELSE Has(q)
    BY <1>0, <1>1, <1>2, <1>4, DeleteHas
  <1> QED
    BY <1>1, <1>2, <1>4, <1>5 DEF PairsOf

LEMMA DropDelHas ==
    ASSUME ObjectsInv, DropDel
    PROVE  /\ actor \in User /\ Here \in Room /\ cur \in Id /\ cur \in Has(actor) /\ cur \in Has(Here)
           /\ Delete(actor, PairsOf(actor, {cur})) /\ cls' = cls /\ actor' = actor /\ where' = where
           /\ \A q \in Place : Has(q)' = IF q = actor THEN Has(q) \ {cur} ELSE Has(q)
  <1>0. Typed /\ Exact /\ Apart /\ Moving
    BY DEF ObjectsInv
  <1>1. actor \in User /\ Here \in Room /\ actor' = actor /\ where' = where /\ cls' = cls
    BY <1>0 DEF DropDel, world, Moving, Taking, Dropping, Dropped, Here
  <1>2. actor \in Place /\ Here \in Place /\ cur \in Has(actor) /\ cur \in Has(Here) /\ cur \in Id
    BY <1>0, <1>1, HasType DEF DropDel, Moving, Between, Place
  <1>3. Mine(actor, cur) = {pr \in objects[actor] : pr[2] \in {cur}}
    BY <1>0, <1>2, MineIs
  <1>4. Delete(actor, {pr \in objects[actor] : pr[2] \in {cur}})
    BY <1>3 DEF DropDel
  <1>5. \A q \in Place : Has(q)' = IF q = actor THEN Has(q) \ {cur} ELSE Has(q)
    BY <1>0, <1>1, <1>2, <1>4, DeleteHas
  <1> QED
    BY <1>1, <1>2, <1>4, <1>5 DEF PairsOf

LEMMA UndoDelHas ==
    ASSUME ObjectsInv, UndoDel
    PROVE  /\ actor \in User /\ Here \in Room /\ cur \in Id /\ cur \in Has(Here) /\ cur \in Has(actor)
           /\ Delete(Here, PairsOf(Here, {cur})) /\ cls' = cls /\ actor' = actor /\ where' = where
           /\ \A q \in Place : Has(q)' = IF q = Here THEN Has(q) \ {cur} ELSE Has(q)
  <1>0. Typed /\ Exact /\ Apart /\ Moving
    BY DEF ObjectsInv
  <1>1. actor \in User /\ Here \in Room /\ actor' = actor /\ where' = where /\ cls' = cls
    BY <1>0 DEF UndoDel, NextDrop, world, Moving, Taking, Dropping, Dropped, Here
  <1>2. actor \in Place /\ Here \in Place /\ cur \in Has(Here) /\ cur \in Has(actor) /\ cur \in Id
    BY <1>0, <1>1, HasType DEF UndoDel, Moving, Between, Place
  <1>3. Mine(Here, cur) = {pr \in objects[Here] : pr[2] \in {cur}}
    BY <1>0, <1>2, MineIs
  <1>4. Delete(Here, {pr \in objects[Here] : pr[2] \in {cur}})
    BY <1>3 DEF UndoDel
  <1>5. \A q \in Place : Has(q)' = IF q = Here THEN Has(q) \ {cur} ELSE Has(q)
    BY <1>0, <1>1, <1>2, <1>4, DeleteHas
  <1> QED
    BY <1>1, <1>2, <1>4, <1>5 DEF PairsOf

LEMMA UserdbRemoveHas ==
    ASSUME ObjectsInv, NEW u \in User, UserdbRemove(u)
    PROVE  /\ Has(u) \in SUBSET Has(u) /\ Delete(u, PairsOf(u, Has(u))) /\ cls' = cls
           /\ \A q \in Place : Has(q)' = IF q = u THEN Has(q) \ Has(u) ELSE Has(q)
  <1>0. Typed /\ Exact
    BY DEF ObjectsInv
  <1>1. u \in Place /\ cls' = cls /\ Has(u) \in SUBSET Has(u)
    BY <1>0, ListHas DEF UserdbRemove, Place, List, Has
  <1>2. objects[u] = {pr \in objects[u] : pr[2] \in Has(u)}
    BY <1>0, <1>1, MinesAre, MineIs DEF Has
  <1>3. Delete(u, {pr \in objects[u] : pr[2] \in Has(u)})
    BY <1>2 DEF UserdbRemove
  <1>4. \A q \in Place : Has(q)' = IF q = u THEN Has(q) \ Has(u) ELSE Has(q)
    BY <1>0, <1>1, <1>3, DeleteHas
  <1> QED
    BY <1>1, <1>3, <1>4 DEF PairsOf

LEMMA PutHas ==
    ASSUME ObjectsInv, NEW u \in User, NEW i \in Id, Put(u, i)
    PROVE  /\ {i} \in SUBSET Has(u) /\ Delete(u, PairsOf(u, {i})) /\ cls' = cls
           /\ \A q \in Place : Has(q)' = IF q = u THEN Has(q) \ {i} ELSE Has(q)
  <1>0. Typed /\ Exact
    BY DEF ObjectsInv
  <1>1. u \in Place /\ cls' = cls /\ {i} \in SUBSET Has(u)
    BY <1>0, ListHas DEF Put, Place, List, Has
  <1>2. Mine(u, i) = {pr \in objects[u] : pr[2] \in {i}}
    BY <1>0, <1>1, MinesAre, MineIs DEF Has
  <1>3. Delete(u, {pr \in objects[u] : pr[2] \in {i}})
    BY <1>2 DEF Put
  <1>4. \A q \in Place : Has(q)' = IF q = u THEN Has(q) \ {i} ELSE Has(q)
    BY <1>0, <1>1, <1>3, DeleteHas
  <1> QED
    BY <1>1, <1>3, <1>4 DEF PairsOf

LEMMA EatHas ==
    ASSUME ObjectsInv, NEW u \in User, NEW k, Eat(u, k)
    PROVE  /\ List(u, k) \in SUBSET Has(u) /\ Delete(u, PairsOf(u, List(u, k))) /\ cls' = cls
           /\ \A q \in Place : Has(q)' = IF q = u THEN Has(q) \ List(u, k) ELSE Has(q)
  <1>0. Typed /\ Exact
    BY DEF ObjectsInv
  <1>1. u \in Place /\ cls' = cls /\ List(u, k) \in SUBSET Has(u)
    BY <1>0, ListHas DEF Eat, Place, List, Has
  <1>2. UNION {Mine(u, i) : i \in List(u, k)} = {pr \in objects[u] : pr[2] \in List(u, k)}
    BY <1>0, <1>1, MinesAre, MineIs DEF Has
  <1>3. Delete(u, {pr \in objects[u] : pr[2] \in List(u, k)})
    BY <1>2 DEF Eat
  <1>4. \A q \in Place : Has(q)' = IF q = u THEN Has(q) \ List(u, k) ELSE Has(q)
    BY <1>0, <1>1, <1>3, DeleteHas
  <1> QED
    BY <1>1, <1>3, <1>4 DEF PairsOf

LEMMA DigHas ==
    ASSUME ObjectsInv, NEW u \in User, Dig(u)
    PROVE  /\ Create("fork", idcounter, "cpu", PairsOf("fork", {}))
           /\ "fork" \in Room /\ "cpu" \in Class /\ idcounter \in Id
           /\ \A p \in Place : idcounter \notin Has(p)
           /\ cls' = [cls EXCEPT ![idcounter] = "cpu"]
           /\ \A q \in Place : Has(q)' = IF q = "fork" THEN Has(q) \cup {idcounter} ELSE Has(q)
  <1>0. Typed /\ Exact /\ Fresh
    BY DEF ObjectsInv
  <1>1. "fork" \in Room /\ "cpu" \in Class /\ idcounter \in Id
    BY ObjectsAssumption DEF Class, Dig, Create
  <1>2. Create("fork", idcounter, "cpu", PairsOf("fork", {}))
    <2>1. {pr \in objects["fork"] : pr[2] \in {}} = {}
      OBVIOUS
    <2> QED
      BY <2>1 DEF Dig, PairsOf
  <1>3. \A q \in Place : Has(q)' = IF q = "fork" THEN (Has(q) \ {}) \cup {idcounter} ELSE Has(q)
    BY <1>0, <1>1, <1>2, CreateAll
  <1>4. \A p \in Place : idcounter \notin Has(p)
    BY <1>0, <1>1 DEF Fresh, Id
  <1>5. cls' = [cls EXCEPT ![idcounter] = "cpu"]
    BY <1>2 DEF Create
  <1> QED
    BY <1>1, <1>2, <1>3, <1>4, <1>5

\* The food that is dropped and every bear of the room.
Fed == {cur} \cup List(Here, NameOf.bear)

LEMMA DropFedHas ==
    ASSUME ObjectsInv, DropFed
    PROVE  /\ Create(Here, idcounter, "key", PairsOf(Here, Fed))
           /\ actor \in User /\ Here \in Room /\ idcounter \in Id /\ Fed \in SUBSET Has(Here)
           /\ actor' = actor /\ where' = where
           /\ \A p \in Place : idcounter \notin Has(p)
           /\ cls' = [cls EXCEPT ![idcounter] = "key"]
           /\ \A q \in Place :
                Has(q)' = IF q = Here THEN (Has(q) \ Fed) \cup {idcounter} ELSE Has(q)
  <1>0. Typed /\ Exact /\ Fresh /\ Moving
    BY DEF ObjectsInv
  <1>1. /\ "key" \in Class /\ actor \in User /\ Here \in Room /\ idcounter \in Id
        /\ actor' = actor /\ where' = where
    BY <1>0 DEF Class, DropFed, Create, world, Moving, Dropped, Here
  <1>2. Here \in Place
    BY <1>1 DEF Place
  <1>3. Fed \in SUBSET Has(Here)
    BY <1>0, <1>2, ListHas DEF DropFed, Moving, Fed
  <1>4. Mine(Here, cur) \cup UNION {Mine(Here, i) : i \in List(Here, NameOf.bear)}
          = {pr \in objects[Here] : pr[2] \in Fed}
    <2>1. UNION {Mine(Here, i) : i \in Fed} = {pr \in objects[Here] : pr[2] \in Fed}
      BY <1>0, <1>2, <1>3, MinesAre
    <2> QED
      BY <2>1 DEF Fed
  <1>5. Create(Here, idcounter, "key", PairsOf(Here, Fed))
    BY <1>4 DEF DropFed, PairsOf
  <1>6. \A q \in Place :
          Has(q)' = IF q = Here THEN (Has(q) \ Fed) \cup {idcounter} ELSE Has(q)
    BY <1>0, <1>1, <1>3, <1>5, CreateAll
  <1>7. \A p \in Place : idcounter \notin Has(p)
    BY <1>0, <1>1 DEF Fresh, Id
  <1>8. cls' = [cls EXCEPT ![idcounter] = "key"]
    BY <1>5 DEF Create
  <1> QED
    BY <1>1, <1>3, <1>5, <1>6, <1>7, <1>8

-----------------------------------------------------------------------------
(***************************************************************************)
(* Objects of one class stay together.                                     *)
(***************************************************************************)
Busy == Taking \/ Dropping \/ Dropped

\* The loops have no current object between two rounds, and the one they are at
\* is not yet done; only a refusal puts one back.
Visiting ==
    /\ op \in {"take", "drop"} => cur = 0
    /\ op \in {"taking", "dropping", "hook", "undrop"} => cur \in todo
    /\ op = "undrop" => cls[cur] \in Stubborn

\* What cannot be taken is in no inventory, and never dropped.
Untaken ==
    /\ \A u \in User : \A i \in Has(u) : cls[i] \notin NoTake
    /\ (Dropping \/ Dropped) /\ cur # 0 => cls[cur] \notin NoTake

\* Objects of one class are in two maps only while a loop moves them.
Together ==
    \A p, q \in Place : \A i \in Has(p), j \in Has(q) :
        cls[i] = cls[j] /\ p # q => Busy /\ p \in {actor, Here} /\ q \in {actor, Here}

\* A loop will visit all that is left of a class it can move.
Batch ==
    /\ Taking => \A i \in todo : \A j \in Has(Here) :
                    cls[i] = cls[j] /\ cls[i] \notin NoTake => j \in todo
    /\ Dropping \/ Dropped => \A i \in todo : \A j \in Has(actor) :
                    cls[i] = cls[j] /\ cls[i] \notin Stubborn => j \in todo

\* A class that is in both maps of a loop is the one it moves.
Divided ==
    /\ Taking => \A i \in Has(Here) : \A j \in Has(actor) : cls[i] = cls[j] => i \in todo
    /\ Dropping \/ Dropped => \A i \in Has(actor) : \A j \in Has(Here) :
          cls[i] = cls[j] => IF cls[i] \in Stubborn THEN j = cur ELSE i \in todo
    /\ Dropped /\ cls[cur] \in Stubborn => \A j \in Has(Here) : cls[j] = cls[cur] => j = cur

\* What was made so far: the stock, and later a key, when the bears had gone,
\* and a card, when the hole had been dug.
Kinds ==
    /\ \A i \in Id : i \in Made => cls[i] = Stock[i]
    /\ \A i \in Id : i \notin Made => cls[i] \in {"key", "cpu", NoClass}
    /\ \A i \in Id : i >= idcounter => cls[i] = NoClass
    /\ idcounter > Len(Stock)
    /\ \A i \in Id : leaked[i] > 0 => cls[i] \in Class

Once ==
    /\ \A i \in Id : cls[i] = "cpu" => "dug" \in flags
    /\ \A i \in Id : cls[i] = "key" => \A p \in Place : \A j \in Has(p) : cls[j] # "bear"
    /\ \A i, j \in Id : cls[i] = cls[j] /\ cls[i] \in {"key", "cpu"} => i = j

Flock == Visiting /\ Untaken /\ Together /\ Batch /\ Divided /\ Kinds /\ Once

LEMMA FlockInit == Init => Flock
  <1> SUFFICES ASSUME Init PROVE Flock
    OBVIOUS
  <1>1. op = "idle" /\ idcounter = Len(Stock) + 1 /\ cls = MadeCls
    BY DEF Init
  <1>2. \A p \in Place : \A i \in Has(p) : i \in Made /\ HomeOf[Stock[i]] = p
    BY DEF Init, Has, MadeObjects, MadeAt
  <1>3. \A i \in Made : i \in Id /\ Stock[i] \in Class /\ HomeOf[Stock[i]] \in Room
                        /\ Stock[i] \notin {"key", "cpu"}
    BY StockClass, ObjectsAssumption DEF Made, HomeOf
  <1>4. \A i \in Id : cls[i] = IF i \in Made THEN Stock[i] ELSE NoClass
    BY <1>1 DEF MadeCls
  <1>5. Visiting /\ Batch /\ Divided
    BY <1>1 DEF Visiting, Batch, Divided, Taking, Dropping, Dropped
  <1>6. Untaken
    <2>1. \A u \in User : u \in Place /\ u \notin Room
      BY ObjectsAssumption DEF Place
    <2> QED
      BY <1>1, <1>2, <1>3, <2>1 DEF Untaken, Dropping, Dropped
  <1>7. Together
    BY <1>2, <1>3, <1>4 DEF Together
  <1>8. Kinds
    <2>1. leaked = [i \in Id |-> 0]
      BY DEF Init
    <2>2. Len(Stock) \in Nat
      BY ObjectsAssumption
    <2> QED
      BY <1>1, <1>3, <1>4, <2>1, <2>2 DEF Kinds, Made, Id
  <1>9. Once
    <2>1. \A i \in Id : cls[i] \notin {"key", "cpu"}
      BY <1>3, <1>4 DEF NoClass
    <2> QED
      BY <2>1 DEF Once
  <1> QED
    BY <1>5, <1>6, <1>7, <1>8, <1>9 DEF Flock

\* Outside the loops nothing can go wrong but by moving or making something.
LEMMA AtRest ==
    ASSUME Flock, ~ Busy, op' \in {"idle", "save"}, cls' = cls, leaked' = leaked,
           idcounter' = idcounter, flags \subseteq flags',
           \A q \in Place : Has(q)' \subseteq Has(q)
    PROVE  Flock'
  <1>0. Untaken /\ Together /\ Kinds /\ Once
    BY DEF Flock
  <1>1. ~ Taking' /\ ~ Dropping' /\ ~ Dropped'
    BY DEF Taking, Dropping, Dropped
  <1>2. Visiting' /\ Batch' /\ Divided'
    BY <1>1 DEF Visiting, Batch, Divided
  <1>3. Untaken'
    BY <1>0, <1>1 DEF Untaken, Place
  <1>4. Together'
    BY <1>0 DEF Together
  <1>5. Kinds'
    BY <1>0 DEF Kinds, Made
  <1>6. Once'
    BY <1>0 DEF Once
  <1> QED
    BY <1>2, <1>3, <1>4, <1>5, <1>6 DEF Flock

\* A step of a loop that leaves the maps alone.
LEMMA SameKinds ==
    ASSUME Flock, UNCHANGED <<cls, leaked, idcounter, flags>>,
           \A q \in Place : \A j \in Has(q)' : \E p \in Place : j \in Has(p)
    PROVE  Kinds' /\ Once'
  <1>0. Kinds /\ Once
    BY DEF Flock
  <1>1. Kinds'
    BY <1>0 DEF Kinds, Made
  <1>2. Once'
    BY <1>0 DEF Once
  <1> QED
    BY <1>1, <1>2

LEMMA FlockNext == ObjectsInv /\ Flock /\ [Next]_vars => Flock'
  <1> SUFFICES ASSUME ObjectsInv, Flock, [Next]_vars PROVE Flock'
    OBVIOUS
  <1>0. Typed /\ Exact /\ Fresh /\ Apart /\ Moving
    BY DEF ObjectsInv
  <1>1. Visiting /\ Untaken /\ Together /\ Batch /\ Divided /\ Kinds /\ Once
    BY DEF Flock
  <1>2. \A q \in Place : Has(q) \subseteq Id
    BY <1>0, HasType
  <1>3. UNCHANGED <<maps, heap>> => \A q \in Place : Has(q)' = Has(q)
    BY SameMaps DEF maps, heap
  <1>4. \A u \in User : u \in Place /\ u \notin Room
    BY ObjectsAssumption DEF Place
  <1>5. \A r \in Room : r \in Place /\ r \notin User
    BY ObjectsAssumption DEF Place
  <1>6. 0 \notin Id
    BY DEF Id
  <1>7. ASSUME NEW u \in User, UserdbAdd(u) PROVE Flock'
    BY <1>7, <1>3, AtRest
    DEF UserdbAdd, ThenSave, Ready, maps, heap, Busy, Taking, Dropping, Dropped
  <1>8. ASSUME NEW u \in User, Enter(u) PROVE Flock'
    BY <1>8, <1>3, AtRest
    DEF Enter, loop, Ready, maps, heap, Busy, Taking, Dropping, Dropped
  <1>9. ASSUME NEW u \in User, Leave(u) PROVE Flock'
    BY <1>9, <1>3, AtRest
    DEF Leave, Asks, loop, Ready, maps, heap, Busy, Taking, Dropping, Dropped
  <1>10. ASSUME NEW u \in User, NEW r \in Room, Walk(u, r) PROVE Flock'
    BY <1>10, <1>3, AtRest
    DEF Walk, Asks, loop, Ready, maps, heap, Busy, Taking, Dropping, Dropped
  <1>11. ASSUME NEW u \in User, LookupFails(u) PROVE Flock'
    BY <1>11, <1>3, AtRest
    DEF LookupFails, Asks, Segfault, loop, Ready, maps, heap, Busy, Taking, Dropping, Dropped
  <1>12. ASSUME SaveState PROVE Flock'
    BY <1>12, <1>3, AtRest
    DEF SaveState, Idle, world, maps, heap, Busy, Taking, Dropping, Dropped
  <1>13. ASSUME NEW u \in User, UserdbRemove(u) PROVE Flock'
    <2>1. cls' = cls /\ \A q \in Place : Has(q)' \subseteq Has(q)
      BY <1>13, UserdbRemoveHas
    <2> QED
      BY <1>13, <2>1, AtRest DEF UserdbRemove, ThenSave, Ready, Busy, Taking, Dropping, Dropped
  <1>14. ASSUME NEW u \in User, NEW i \in Id, Put(u, i) PROVE Flock'
    <2>1. cls' = cls /\ \A q \in Place : Has(q)' \subseteq Has(q)
      BY <1>14, PutHas
    <2> QED
      BY <1>14, <2>1, AtRest DEF Put, Asks, loop, Ready, Busy, Taking, Dropping, Dropped
  <1>15. ASSUME NEW u \in User, NEW k, Eat(u, k) PROVE Flock'
    <2>1. cls' = cls /\ \A q \in Place : Has(q)' \subseteq Has(q)
      BY <1>15, EatHas
    <2> QED
      BY <1>15, <2>1, AtRest DEF Eat, Asks, loop, world, Ready, Busy, Taking, Dropping, Dropped
  <1>16. ASSUME NEW u \in User, NEW k, ReqTake(u, k) PROVE Flock'
    <2>1. UNCHANGED <<cls, leaked, idcounter, flags, where>> /\ \A q \in Place : Has(q)' = Has(q)
      BY <1>16, <1>3 DEF ReqTake, Asks, Ready, world, maps, heap
    <2>10. where[u] \in Place /\ where[u] \in Room
      BY <1>16, <1>0, <1>5 DEF ReqTake, Asks, Typed
    <2>11. \A i \in List(where[u], k) : i \in Has(where[u])
             /\ \A j \in Has(where[u]) : cls[i] = cls[j] => j \in List(where[u], k)
      BY <1>0, <2>10, ListAll
    <2>2. Visiting'
      BY <1>16, <1>0, <1>1, <2>1 DEF ReqTake, Asks, Ready, Visiting
    <2>3. Untaken'
      BY <1>16, <1>0, <1>1, <1>2, <1>4, <2>1
      DEF ReqTake, Asks, Ready, Untaken, Busy, Taking, Dropping, Dropped
    <2>4. Together'
      BY <1>16, <1>0, <1>1, <1>2, <1>4, <1>5, <1>6, <2>1, <2>10, <2>11
      DEF ReqTake, Asks, Ready, Together, Divided, Visiting, Moving, Here, Busy, Taking,
          Dropping, Dropped
    <2>5. Batch'
      BY <1>16, <1>0, <1>1, <1>2, <1>4, <1>5, <2>1, <2>10, <2>11
      DEF ReqTake, Asks, Ready, Batch, Visiting, Apart, Between, Moving, Here, Busy, Taking,
          Dropping, Dropped
    <2>6. Divided'
      BY <1>16, <1>0, <1>1, <1>2, <1>4, <1>5, <2>1, <2>10, <2>11
      DEF ReqTake, Asks, Ready, Divided, Together, Untaken, Visiting, Apart, Between, Moving,
          Here, Busy, Taking, Dropping, Dropped
    <2>7. Kinds' /\ Once'
      BY <2>1, SameKinds
    <2> QED
      BY <2>2, <2>3, <2>4, <2>5, <2>6, <2>7 DEF Flock
  <1>17. ASSUME NEW u \in User, NEW k, ReqDrop(u, k) PROVE Flock'
    <2>1. UNCHANGED <<cls, leaked, idcounter, flags, where>> /\ \A q \in Place : Has(q)' = Has(q)
      BY <1>17, <1>3 DEF ReqDrop, Asks, Ready, world, maps, heap
    <2>10. where[u] \in Place /\ where[u] \in Room /\ u \in Place
      BY <1>17, <1>0, <1>4, <1>5 DEF ReqDrop, Asks, Typed
    <2>11. \A i \in List(u, k) : i \in Has(u)
             /\ \A j \in Has(u) : cls[i] = cls[j] => j \in List(u, k)
      BY <1>0, <2>10, ListAll
    <2>2. Visiting'
      BY <1>17, <1>0, <1>1, <2>1 DEF ReqDrop, Asks, Ready, Visiting
    <2>3. Untaken'
      BY <1>17, <1>0, <1>1, <1>2, <1>4, <2>1
      DEF ReqDrop, Asks, Ready, Untaken, Busy, Taking, Dropping, Dropped
    <2>4. Together'
      BY <1>17, <1>0, <1>1, <1>2, <1>4, <1>5, <1>6, <2>1, <2>10, <2>11
      DEF ReqDrop, Asks, Ready, Together, Divided, Visiting, Moving, Here, Busy, Taking,
          Dropping, Dropped
    <2>5. Batch'
      BY <1>17, <1>0, <1>1, <1>2, <1>4, <1>5, <2>1, <2>10, <2>11
      DEF ReqDrop, Asks, Ready, Batch, Visiting, Apart, Between, Moving, Here, Busy, Taking,
          Dropping, Dropped
    <2>6. Divided'
      BY <1>17, <1>0, <1>1, <1>2, <1>4, <1>5, <2>1, <2>10, <2>11
      DEF ReqDrop, Asks, Ready, Divided, Together, Untaken, Visiting, Apart, Between, Moving,
          Here, Busy, Taking, Dropping, Dropped
    <2>7. Kinds' /\ Once'
      BY <2>1, SameKinds
    <2> QED
      BY <2>2, <2>3, <2>4, <2>5, <2>6, <2>7 DEF Flock
  <1>18. ASSUME NEW i \in Id, TakeRefused(i) PROVE Flock'
    <2>1. UNCHANGED <<cls, leaked, idcounter, flags, where>> /\ \A q \in Place : Has(q)' = Has(q)
      BY <1>18, <1>3 DEF TakeRefused, world, world, maps, heap
    <2>2. Visiting'
      BY <1>18, <1>0, <1>1, <2>1 DEF TakeRefused, world, Visiting
    <2>3. Untaken'
      BY <1>18, <1>0, <1>1, <1>2, <1>4, <2>1
      DEF TakeRefused, world, Untaken, Busy, Taking, Dropping, Dropped
    <2>4. Together'
      BY <1>18, <1>0, <1>1, <1>2, <1>4, <1>5, <1>6, <2>1
      DEF TakeRefused, world, Together, Divided, Visiting, Moving, Here, Busy, Taking,
          Dropping, Dropped
    <2>5. Batch'
      BY <1>18, <1>0, <1>1, <1>2, <1>4, <1>5, <2>1
      DEF TakeRefused, world, Batch, Visiting, Apart, Between, Moving, Here, Busy, Taking,
          Dropping, Dropped
    <2>6. Divided'
      BY <1>18, <1>0, <1>1, <1>2, <1>4, <1>5, <2>1
      DEF TakeRefused, world, Divided, Together, Untaken, Visiting, Apart, Between, Moving,
          Here, Busy, Taking, Dropping, Dropped
    <2>7. Kinds' /\ Once'
      BY <2>1, SameKinds
    <2> QED
      BY <2>2, <2>3, <2>4, <2>5, <2>6, <2>7 DEF Flock
  <1>19. ASSUME NEW i \in Id, TakeAdd(i), actor \notin recs PROVE Flock'
    <2>1. UNCHANGED <<cls, leaked, idcounter, flags, where>> /\ \A q \in Place : Has(q)' = Has(q)
      BY <1>19, <1>3 DEF TakeAdd, Segfault, loop, world, maps, heap
    <2>2. Visiting'
      BY <1>19, <1>0, <1>1, <2>1 DEF TakeAdd, Segfault, loop, Visiting
    <2>3. Untaken'
      BY <1>19, <1>0, <1>1, <1>2, <1>4, <2>1
      DEF TakeAdd, Segfault, loop, Untaken, Busy, Taking, Dropping, Dropped
    <2>4. Together'
      BY <1>19, <1>0, <1>1, <1>2, <1>4, <1>5, <1>6, <2>1
      DEF TakeAdd, Segfault, loop, Together, Divided, Visiting, Moving, Here, Busy, Taking,
          Dropping, Dropped
    <2>5. Batch'
      BY <1>19, <1>0, <1>1, <1>2, <1>4, <1>5, <2>1
      DEF TakeAdd, Segfault, loop, Batch, Visiting, Apart, Between, Moving, Here, Busy,
          Taking, Dropping, Dropped
    <2>6. Divided'
      BY <1>19, <1>0, <1>1, <1>2, <1>4, <1>5, <2>1
      DEF TakeAdd, Segfault, loop, Divided, Together, Untaken, Visiting, Apart, Between,
          Moving, Here, Busy, Taking, Dropping, Dropped
    <2>7. Kinds' /\ Once'
      BY <2>1, SameKinds
    <2> QED
      BY <2>2, <2>3, <2>4, <2>5, <2>6, <2>7 DEF Flock
  <1>20. ASSUME LoopDone PROVE Flock'
    <2>1. UNCHANGED <<cls, leaked, idcounter, flags, where>> /\ \A q \in Place : Has(q)' = Has(q)
      BY <1>20, <1>3 DEF LoopDone, world, world, maps, heap
    <2>2. Visiting'
      BY <1>20, <1>0, <1>1, <2>1 DEF LoopDone, world, Visiting
    <2>3. Untaken'
      BY <1>20, <1>0, <1>1, <1>2, <1>4, <2>1
      DEF LoopDone, world, Untaken, Busy, Taking, Dropping, Dropped
    <2>4. Together'
      BY <1>20, <1>0, <1>1, <1>2, <1>4, <1>5, <1>6, <2>1
      DEF LoopDone, world, Together, Divided, Visiting, Moving, Here, Busy, Taking, Dropping,
          Dropped
    <2>5. Batch'
      BY <1>20, <1>0, <1>1, <1>2, <1>4, <1>5, <2>1
      DEF LoopDone, world, Batch, Visiting, Apart, Between, Moving, Here, Busy, Taking,
          Dropping, Dropped
    <2>6. Divided'
      BY <1>20, <1>0, <1>1, <1>2, <1>4, <1>5, <2>1
      DEF LoopDone, world, Divided, Together, Untaken, Visiting, Apart, Between, Moving,
          Here, Busy, Taking, Dropping, Dropped
    <2>7. Kinds' /\ Once'
      BY <2>1, SameKinds
    <2> QED
      BY <2>2, <2>3, <2>4, <2>5, <2>6, <2>7 DEF Flock
  <1>21. ASSUME DropKept PROVE Flock'
    <2>1. UNCHANGED <<cls, leaked, idcounter, flags, where>> /\ \A q \in Place : Has(q)' = Has(q)
      BY <1>21, <1>3 DEF DropKept, NextDrop, world, maps, heap
    <2>2. Visiting'
      BY <1>21, <1>0, <1>1, <2>1 DEF DropKept, NextDrop, Visiting
    <2>3. Untaken'
      BY <1>21, <1>0, <1>1, <1>2, <1>4, <2>1
      DEF DropKept, NextDrop, Untaken, Busy, Taking, Dropping, Dropped
    <2>4. Together'
      BY <1>21, <1>0, <1>1, <1>2, <1>4, <1>5, <1>6, <2>1
      DEF DropKept, NextDrop, Together, Divided, Visiting, Moving, Here, Busy, Taking,
          Dropping, Dropped
    <2>5. Batch'
      BY <1>21, <1>0, <1>1, <1>2, <1>4, <1>5, <2>1
      DEF DropKept, NextDrop, Batch, Visiting, Apart, Between, Moving, Here, Busy, Taking,
          Dropping, Dropped
    <2>6. Divided'
      BY <1>21, <1>0, <1>1, <1>2, <1>4, <1>5, <2>1
      DEF DropKept, NextDrop, Divided, Together, Untaken, Visiting, Apart, Between, Moving,
          Here, Busy, Taking, Dropping, Dropped
    <2>7. Kinds' /\ Once'
      BY <2>1, SameKinds
    <2> QED
      BY <2>2, <2>3, <2>4, <2>5, <2>6, <2>7 DEF Flock
  <1>22. ASSUME NEW i \in Id, TakeAdd(i), actor \in recs PROVE Flock'
    <2> USE DEF TakeAdd
    <2>1. /\ actor \in User /\ Here \in Room
          /\ cls' = cls /\ actor' = actor /\ where' = where
      BY <1>22, TakeAddHas
    <2>2. actor \in Place /\ Here \in Place /\ actor # Here /\ Here' = Here
      BY <1>4, <1>5, <2>1 DEF Here
    <2>3. /\ i \in Id /\ i \in Has(Here)
          /\ \A q \in Place : Has(q)' = IF q = actor THEN Has(q) \cup {i} ELSE Has(q)
      BY <1>22, TakeAddHas
    <2>4. UNCHANGED <<idcounter, flags>>
      BY <1>22 DEF world
    <2>5. Visiting'
      BY <1>22, <1>1, <2>1 DEF Visiting
    <2>6. Untaken'
      BY <1>22, <1>1, <1>4, <1>6, <2>1, <2>2, <2>3
      DEF Untaken, Visiting, Busy, Taking, Dropping, Dropped
    <2>7. Together'
      BY <1>22, <1>0, <1>1, <2>1, <2>2, <2>3 DEF Together, Busy, Taking, Dropping, Dropped
    <2>8. Batch'
      BY <1>22, <1>0, <1>1, <2>1, <2>2, <2>3
      DEF Batch, Moving, Divided, Visiting, Apart, Between, Busy, Taking, Dropping, Dropped
    <2>9. Divided'
      BY <1>22, <1>0, <1>1, <1>2, <1>6, <2>1, <2>2, <2>3
      DEF Divided, Batch, Moving, Untaken, Visiting, Apart, Between, Busy, Taking, Dropping,
          Dropped
    <2>10. Kinds' /\ Once'
      BY <1>22, <1>0, <1>1, <2>1, <2>2, <2>3, <2>4, SameKinds
    <2> QED
      BY <2>5, <2>6, <2>7, <2>8, <2>9, <2>10 DEF Flock
  <1>23. ASSUME NEW i \in Id, DropAdd(i) PROVE Flock'
    <2> USE DEF DropAdd
    <2>1. /\ actor \in User /\ Here \in Room
          /\ cls' = cls /\ actor' = actor /\ where' = where
      BY <1>23, DropAddHas
    <2>2. actor \in Place /\ Here \in Place /\ actor # Here /\ Here' = Here
      BY <1>4, <1>5, <2>1 DEF Here
    <2>3. /\ i \in Id /\ i \in Has(actor)
          /\ \A q \in Place : Has(q)' = IF q = Here THEN Has(q) \cup {i} ELSE Has(q)
      BY <1>23, DropAddHas
    <2>4. UNCHANGED <<idcounter, flags>>
      BY <1>23 DEF world
    <2>5. Visiting'
      BY <1>23, <1>1, <2>1 DEF Visiting
    <2>6. Untaken'
      BY <1>23, <1>1, <1>4, <1>6, <2>1, <2>2, <2>3
      DEF Untaken, Visiting, Busy, Taking, Dropping, Dropped
    <2>7. Together'
      BY <1>23, <1>0, <1>1, <2>1, <2>2, <2>3 DEF Together, Busy, Taking, Dropping, Dropped
    <2>8. Batch'
      BY <1>23, <1>0, <1>1, <2>1, <2>2, <2>3
      DEF Batch, Moving, Divided, Visiting, Apart, Between, Busy, Taking, Dropping, Dropped
    <2>9. Divided'
      BY <1>23, <1>0, <1>1, <1>2, <1>6, <2>1, <2>2, <2>3
      DEF Divided, Batch, Moving, Untaken, Visiting, Apart, Between, Busy, Taking, Dropping,
          Dropped
    <2>10. Kinds' /\ Once'
      BY <1>23, <1>0, <1>1, <2>1, <2>2, <2>3, <2>4, SameKinds
    <2> QED
      BY <2>5, <2>6, <2>7, <2>8, <2>9, <2>10 DEF Flock
  <1>24. ASSUME DropRefused PROVE Flock'
    <2> USE DEF DropRefused
    <2>1. /\ actor \in User /\ Here \in Room
          /\ cls' = cls /\ actor' = actor /\ where' = where
      BY <1>24, DropRefusedHas
    <2>2. actor \in Place /\ Here \in Place /\ actor # Here /\ Here' = Here
      BY <1>4, <1>5, <2>1 DEF Here
    <2>3. /\ cur \in Id /\ cur \in Has(Here)
          /\ \A q \in Place : Has(q)' = IF q = actor THEN Has(q) \cup {cur} ELSE Has(q)
      BY <1>24, DropRefusedHas
    <2>4. UNCHANGED <<idcounter, flags>>
      BY <1>24 DEF world
    <2>5. Visiting'
      BY <1>24, <1>1, <2>1 DEF Visiting
    <2>6. Untaken'
      BY <1>24, <1>1, <1>4, <1>6, <2>1, <2>2, <2>3
      DEF Untaken, Visiting, Busy, Taking, Dropping, Dropped
    <2>7. Together'
      BY <1>24, <1>0, <1>1, <2>1, <2>2, <2>3 DEF Together, Busy, Taking, Dropping, Dropped
    <2>8. Batch'
      BY <1>24, <1>0, <1>1, <2>1, <2>2, <2>3
      DEF Batch, Moving, Divided, Visiting, Apart, Between, Busy, Taking, Dropping, Dropped
    <2>9. Divided'
      BY <1>24, <1>0, <1>1, <1>2, <1>6, <2>1, <2>2, <2>3
      DEF Divided, Batch, Moving, Untaken, Visiting, Apart, Between, Busy, Taking, Dropping,
          Dropped
    <2>10. Kinds' /\ Once'
      <3>1. leaked' = [leaked EXCEPT ![cur] = leaked[cur] + 1] /\ leaked \in [Id -> Nat] /\ cls[cur] \in Class
        BY <1>24, <1>0, <2>2, <2>3 DEF Typed, Exact
      <3>2. Kinds'
        BY <1>1, <2>1, <2>4, <3>1 DEF Kinds, Made
      <3>3. Once'
        BY <1>1, <2>1, <2>2, <2>3, <2>4 DEF Once
      <3> QED
        BY <3>2, <3>3
    <2> QED
      BY <2>5, <2>6, <2>7, <2>8, <2>9, <2>10 DEF Flock
  <1>25. ASSUME TakeDel PROVE Flock'
    <2> USE DEF TakeDel
    <2>1. /\ actor \in User /\ Here \in Room
          /\ cls' = cls /\ actor' = actor /\ where' = where
      BY <1>25, TakeDelHas
    <2>2. actor \in Place /\ Here \in Place /\ actor # Here /\ Here' = Here
      BY <1>4, <1>5, <2>1 DEF Here
    <2>3. /\ cur \in Id /\ cur \in Has(Here) /\ cur \in Has(actor)
          /\ \A q \in Place : Has(q)' = IF q = Here THEN Has(q) \ {cur} ELSE Has(q)
      BY <1>25, TakeDelHas
    <2>4. UNCHANGED <<idcounter, flags>>
      BY <1>25 DEF world
    <2>5. Visiting'
      BY <1>25, <1>1, <2>1 DEF Visiting
    <2>6. Untaken'
      BY <1>25, <1>1, <1>4, <1>6, <2>1, <2>2, <2>3
      DEF Untaken, Visiting, Busy, Taking, Dropping, Dropped
    <2>7. Together'
      BY <1>25, <1>0, <1>1, <2>1, <2>2, <2>3 DEF Together, Busy, Taking, Dropping, Dropped
    <2>8. Batch'
      BY <1>25, <1>0, <1>1, <2>1, <2>2, <2>3
      DEF Batch, Moving, Divided, Visiting, Apart, Between, Busy, Taking, Dropping, Dropped
    <2>9. Divided'
      BY <1>25, <1>0, <1>1, <1>2, <1>6, <2>1, <2>2, <2>3
      DEF Divided, Batch, Moving, Untaken, Visiting, Apart, Between, Busy, Taking, Dropping,
          Dropped
    <2>10. Kinds' /\ Once'
      BY <1>25, <1>0, <1>1, <2>1, <2>2, <2>3, <2>4, SameKinds
    <2> QED
      BY <2>5, <2>6, <2>7, <2>8, <2>9, <2>10 DEF Flock
  <1>26. ASSUME DropDel PROVE Flock'
    <2> USE DEF DropDel
    <2>1. /\ actor \in User /\ Here \in Room
          /\ cls' = cls /\ actor' = actor /\ where' = where
      BY <1>26, DropDelHas
    <2>2. actor \in Place /\ Here \in Place /\ actor # Here /\ Here' = Here
      BY <1>4, <1>5, <2>1 DEF Here
    <2>3. /\ cur \in Id /\ cur \in Has(Here) /\ cur \in Has(actor)
          /\ \A q \in Place : Has(q)' = IF q = actor THEN Has(q) \ {cur} ELSE Has(q)
      BY <1>26, DropDelHas
    <2>4. UNCHANGED <<idcounter, flags>>
      BY <1>26 DEF world
    <2>5. Visiting'
      BY <1>26, <1>1, <2>1 DEF Visiting
    <2>6. Untaken'
      BY <1>26, <1>1, <1>4, <1>6, <2>1, <2>2, <2>3
      DEF Untaken, Visiting, Busy, Taking, Dropping, Dropped
    <2>7. Together'
      BY <1>26, <1>0, <1>1, <2>1, <2>2, <2>3 DEF Together, Busy, Taking, Dropping, Dropped
    <2>8. Batch'
      BY <1>26, <1>0, <1>1, <2>1, <2>2, <2>3
      DEF Batch, Moving, Divided, Visiting, Apart, Between, Busy, Taking, Dropping, Dropped
    <2>9. Divided'
      BY <1>26, <1>0, <1>1, <1>2, <1>6, <2>1, <2>2, <2>3
      DEF Divided, Batch, Moving, Untaken, Visiting, Apart, Between, Busy, Taking, Dropping,
          Dropped
    <2>10. Kinds' /\ Once'
      BY <1>26, <1>0, <1>1, <2>1, <2>2, <2>3, <2>4, SameKinds
    <2> QED
      BY <2>5, <2>6, <2>7, <2>8, <2>9, <2>10 DEF Flock
  <1>27. ASSUME UndoDel PROVE Flock'
    <2> USE DEF UndoDel, NextDrop
    <2>1. /\ actor \in User /\ Here \in Room
          /\ cls' = cls /\ actor' = actor /\ where' = where
      BY <1>27, UndoDelHas
    <2>2. actor \in Place /\ Here \in Place /\ actor # Here /\ Here' = Here
      BY <1>4, <1>5, <2>1 DEF Here
    <2>3. /\ cur \in Id /\ cur \in Has(Here) /\ cur \in Has(actor)
          /\ \A q \in Place : Has(q)' = IF q = Here THEN Has(q) \ {cur} ELSE Has(q)
      BY <1>27, UndoDelHas
    <2>4. UNCHANGED <<idcounter, flags>>
      BY <1>27 DEF world
    <2>5. Visiting'
      BY <1>27, <1>1, <2>1 DEF Visiting
    <2>6. Untaken'
      BY <1>27, <1>1, <1>4, <1>6, <2>1, <2>2, <2>3
      DEF Untaken, Visiting, Busy, Taking, Dropping, Dropped
    <2>7. Together'
      BY <1>27, <1>0, <1>1, <2>1, <2>2, <2>3 DEF Together, Busy, Taking, Dropping, Dropped
    <2>8. Batch'
      BY <1>27, <1>0, <1>1, <2>1, <2>2, <2>3
      DEF Batch, Moving, Divided, Visiting, Apart, Between, Busy, Taking, Dropping, Dropped
    <2>9. Divided'
      BY <1>27, <1>0, <1>1, <1>2, <1>6, <2>1, <2>2, <2>3
      DEF Divided, Batch, Moving, Untaken, Visiting, Apart, Between, Busy, Taking, Dropping,
          Dropped
    <2>10. Kinds' /\ Once'
      BY <1>27, <1>0, <1>1, <2>1, <2>2, <2>3, <2>4, SameKinds
    <2> QED
      BY <2>5, <2>6, <2>7, <2>8, <2>9, <2>10 DEF Flock
  <1>30. ASSUME NEW u \in User, Dig(u) PROVE Flock'
    <2>1. /\ "fork" \in Room /\ idcounter \in Id
          /\ \A p \in Place : idcounter \notin Has(p)
          /\ cls' = [cls EXCEPT ![idcounter] = "cpu"]
          /\ \A q \in Place : Has(q)' = IF q = "fork" THEN Has(q) \cup {idcounter} ELSE Has(q)
      BY <1>30, DigHas
    <2>2. /\ \A j \in Id : cls'[j] = IF j = idcounter THEN "cpu" ELSE cls[j]
          /\ \A j \in Id : cls[j] # "cpu"
      BY <1>0, <1>1, <1>30, <2>1 DEF Typed, Once, Dig
    <2>3. /\ ~ Busy /\ ~ Busy' /\ leaked' = leaked /\ "dug" \in flags' /\ op' = "idle"
          /\ idcounter' = idcounter + 1
      BY <1>30 DEF Dig, Asks, Ready, loop, Busy, Taking, Dropping, Dropped, Create
    <2>4. Visiting' /\ Batch' /\ Divided'
      BY <2>3 DEF Visiting, Batch, Divided, Busy
    <2>5. Untaken'
      BY <1>1, <1>2, <1>4, <2>1, <2>2, <2>3 DEF Untaken, Busy
    <2>6. Together'
      BY <1>1, <1>2, <2>1, <2>2, <2>3 DEF Together
    <2>7. Kinds'
      BY <1>0, <1>1, <2>1, <2>2, <2>3, ObjectsAssumption DEF Kinds, Made, Id, Typed, Class
    <2>8. Once'
      <3>1. \A i \in Id : cls'[i] = "key" => \A p \in Place : \A j \in Has(p)' : cls'[j] # "bear"
        BY <1>1, <1>2, <2>1, <2>2 DEF Once
      <3> QED
        BY <1>1, <2>2, <2>3, <3>1 DEF Once
    <2> QED
      BY <2>4, <2>5, <2>6, <2>7, <2>8 DEF Flock
  <1>31. ASSUME DropFed PROVE Flock'
    <2>1. /\ actor \in User /\ Here \in Room /\ idcounter \in Id /\ Fed \in SUBSET Has(Here)
          /\ actor' = actor /\ where' = where
          /\ \A p \in Place : idcounter \notin Has(p)
          /\ cls' = [cls EXCEPT ![idcounter] = "key"]
          /\ \A q \in Place :
               Has(q)' = IF q = Here THEN (Has(q) \ Fed) \cup {idcounter} ELSE Has(q)
      BY <1>31, DropFedHas
    <2>2. actor \in Place /\ Here \in Place /\ actor # Here /\ Here' = Here
      BY <1>4, <1>5, <2>1 DEF Here
    <2>3. /\ op = "hook" /\ op' = "drop" /\ todo' = todo \ {cur} /\ cur' = 0
          /\ leaked' = leaked /\ flags' = flags /\ idcounter' = idcounter + 1
      BY <1>31 DEF DropFed, NextDrop, world, Create
    <2>4. PICK b \in List(Here, "bear") : TRUE
      BY <1>31 DEF DropFed, Feeds
    <2>5. b \in Has(Here) /\ cls[b] = "bear"
      <3>1. b \in Has(Here) /\ <<"bear", b>> \in objects[Here]
        BY <1>0, <2>2 DEF List, Has, Typed
      <3>2. "bear" \in Names(cls[b]) /\ cls[b] \in Class
        BY <1>0, <2>2, <3>1 DEF Exact
      <3>3. "bear" \in Class /\ "bear" \in Names("bear")
        BY DEF Class, Names, NamesOf, AliasesOf
      <3> QED
        BY <3>1, <3>2, <3>3, OneName
    <2>6. \A p \in Place : \A j \in Has(p) : cls[j] = "bear" => p = Here /\ j \in Fed
      <3> SUFFICES ASSUME NEW p \in Place, NEW j \in Has(p), cls[j] = "bear"
                   PROVE  p = Here /\ j \in Fed
        OBVIOUS
      <3>1. "bear" \in NoTake
        BY DEF NoTake
      <3>2. p # actor
        BY <1>1, <2>1, <3>1 DEF Untaken
      <3>3. p = Here
        BY <1>1, <2>2, <2>5, <3>2 DEF Together
      <3>4. j \in List(Here, NameOf.bear)
        <4>1. NameOf.bear \in Names("bear") /\ "bear" \in Class
          BY NamesType DEF Class
        <4>2. <<NameOf.bear, j>> \in objects[Here]
          BY <1>0, <2>2, <3>3, <4>1 DEF Exact
        <4> QED
          BY <4>2 DEF List
      <3> QED
        BY <3>3, <3>4 DEF Fed
    <2>7. /\ \A j \in Id : cls'[j] = IF j = idcounter THEN "key" ELSE cls[j]
          /\ \A j \in Id : cls[j] # "key"
      BY <1>0, <1>1, <2>1, <2>2, <2>5 DEF Typed, Once
    <2>8. Visiting'
      BY <2>3 DEF Visiting
    <2>9. Untaken'
      BY <1>1, <1>2, <1>4, <1>5, <2>1, <2>2, <2>3, <2>7 DEF Untaken
    <2>10. Together'
      BY <1>1, <1>2, <2>1, <2>2, <2>3, <2>7 DEF Together, Busy, Taking, Dropping, Dropped
    <2>11. cur \notin Has(actor) /\ todo \subseteq Id
      BY <1>0, <1>2, <2>1, <2>2, <2>3 DEF Apart, Between, Typed, Moving
    <2>12. \A i \in todo \ {cur} : i \in Has(actor) /\ i # idcounter
      BY <1>0, <2>1, <2>2, <2>3 DEF Moving, Dropped
    <2>13. ~ Taking' /\ Dropping' /\ ~ Dropped' /\ Dropped /\ ~ Taking
      BY <2>3 DEF Taking, Dropping, Dropped
    <2>14. Batch'
      BY <1>1, <1>2, <2>1, <2>2, <2>3, <2>7, <2>11, <2>12, <2>13 DEF Batch
    <2>15. Divided'
      <3> SUFFICES ASSUME NEW i \in Has(actor), NEW j \in Has(Here)', cls'[i] = cls'[j]
                   PROVE  IF cls'[i] \in Stubborn THEN j = cur' ELSE i \in todo'
        BY <2>1, <2>2, <2>13 DEF Divided
      <3>1. i # idcounter /\ i \in Id /\ cls'[i] = cls[i]
        BY <1>2, <2>1, <2>2, <2>7
      <3>2. j # idcounter /\ j \in Has(Here) /\ j \notin Fed /\ cls'[j] = cls[j]
        BY <1>2, <2>1, <2>2, <2>7, <3>1
      <3>3. IF cls[i] \in Stubborn THEN j = cur ELSE i \in todo
        BY <1>1, <2>13, <3>1, <3>2 DEF Divided
      <3>4. j # cur
        BY <3>2 DEF Fed
      <3> QED
        BY <2>3, <2>11, <3>1, <3>3, <3>4
    <2>16. Kinds'
      BY <1>0, <1>1, <2>1, <2>3, <2>7, ObjectsAssumption DEF Kinds, Made, Id, Typed, Class
    <2>17. Once'
      <3>1. \A p \in Place : \A j \in Has(p)' : cls'[j] # "bear"
        BY <1>2, <2>1, <2>6, <2>7
      <3> QED
        BY <1>1, <2>3, <2>7, <3>1 DEF Once
    <2> QED
      BY <2>8, <2>9, <2>10, <2>14, <2>15, <2>16, <2>17 DEF Flock
  <1>32. CASE UNCHANGED vars
    <2>1. UNCHANGED <<cls, leaked, idcounter, flags, where, op, actor, todo, cur>>
          /\ \A q \in Place : Has(q)' = Has(q)
      BY <1>3, <1>32 DEF vars, maps, heap, loop, world
    <2>2. Visiting' /\ Untaken'
      BY <1>1, <1>4, <2>1 DEF Visiting, Untaken, Dropping, Dropped
    <2>3. Here' = Here /\ (Taking' <=> Taking) /\ (Dropping' <=> Dropping) /\ (Dropped' <=> Dropped)
      BY <2>1 DEF Here, Taking, Dropping, Dropped
    <2>4. Together'
      BY <1>1, <2>1, <2>3 DEF Together, Busy
    <2>5. Batch' /\ Divided'
      <3>1. Taking \/ Dropping \/ Dropped => actor \in Place /\ Here \in Place
        BY <1>0, Apartness
      <3> QED
        BY <1>1, <2>1, <2>3, <3>1 DEF Batch, Divided
    <2>6. Kinds' /\ Once'
      BY <2>1, SameKinds
    <2> QED
      BY <2>2, <2>4, <2>5, <2>6 DEF Flock
  <1> QED
    BY <1>7, <1>8, <1>9, <1>10, <1>11, <1>12, <1>13, <1>14, <1>15, <1>16, <1>17, <1>18,
       <1>19, <1>20, <1>21, <1>22, <1>23, <1>24, <1>25, <1>26, <1>27, <1>30, <1>31, <1>32
    DEF Next, Work, TakeStep, DropStep, HookStep

LEMMA FlockHolds == Spec => [](ObjectsInv /\ Flock)
  <1> QED
    BY ObjectsInit, ObjectsNext, FlockInit, FlockNext, PTL DEF Spec

LEMMA HeldLive ==
    ASSUME ObjectsInv, NEW i \in Id, Held(i)
    PROVE  Live(i)
  <1>1. Typed /\ Exact /\ Referred
    BY DEF ObjectsInv
  <1>2. cls[i] \in Class /\ Size(i) \in Nat
    BY <1>1, HeldSize
  <1>3. Cardinality(AliasesOf[cls[i]]) \in Nat
    BY <1>2, Aliases, FS_CardinalityType
  <1>4. Size(i) > 0
    BY <1>2, <1>3, NamesType DEF Size
  <1>5. leaked[i] \in Nat
    BY <1>1 DEF Typed
  <1> QED
    BY <1>1, <1>2, <1>4, <1>5 DEF Referred, Share, Live

LEMMA LiveHeld ==
    ASSUME ObjectsInv, NEW i \in Id, Live(i)
    PROVE  Held(i) \/ leaked[i] > 0
  <1>1. Typed /\ Moving /\ Referred
    BY DEF ObjectsInv
  <1>2. Between /\ cur = i => Held(i)
    <2>1. Between => actor \in Place
      BY <1>1, Apartness DEF Between, Taking, Dropping, Dropped
    <2> QED
      BY <1>1, <2>1 DEF Moving, Held
  <1>3. leaked[i] \in Nat
    BY <1>1 DEF Typed
  <1> QED
    BY <1>1, <1>2, <1>3 DEF Referred, Share, Live

\* The bear is fed once and the hole is dug once, whoever tries and in whatever
\* order (food_drop, dig_exec): there is never a second key or card.
THEOREM NothingMadeTwice == Spec => []MadeOnce
  <1>1. ObjectsInv /\ Flock => MadeOnce
    <2> SUFFICES ASSUME ObjectsInv, Flock, NEW i \in Id \ Made, NEW j \in Id \ Made,
                        Live(i), Live(j), cls[i] = cls[j]
                 PROVE  i = j
      BY DEF MadeOnce
    <2>1. Kinds /\ Once /\ Exact
      BY DEF Flock, ObjectsInv
    <2>2. Held(i) \/ leaked[i] > 0
      BY LiveHeld
    <2>3. cls[i] \in Class
      BY <2>1, <2>2 DEF Held, Exact, Kinds
    <2>4. cls[i] # NoClass
      BY <2>3 DEF Class, NoClass
    <2> QED
      BY <2>1, <2>4 DEF Kinds, Once
  <1> QED
    BY <1>1, FlockHolds, PTL

-----------------------------------------------------------------------------
(***************************************************************************)
(* The strings that nodes of multimaps use as keys.                        *)
(***************************************************************************)

\* Dunnet makes one object called food.  With two, feeding the bear would free
\* the first while the inventory still uses its name for the second.
OneFood == \A i, j \in Made : Stock[i] = "food" /\ Stock[j] = "food" => i = j

\* What leaves all maps takes every object of its class with it.
Departs ==
    \A o \in Id : Held(o) /\ ~ Held(o)' => \A q \in Place : \A j \in Has(q)' : cls'[j] # cls[o]

\* multimap_delete: a node has pairs.
Backed == \A p \in Place : \A kn \in strings[p] : \E j \in Id : <<kn[1], j>> \in objects[p]

\* A key that is not a literal is a name of a live object.
Keyed ==
    \A p \in Place : \A kn \in strings[p] :
        kn[2] # Literal => cls[kn[2]] \in Class /\ kn[1] \in Names(cls[kn[2]]) /\ Live(kn[2])

\* The nodes of a map after a step are old ones, or have names of new objects
\* for keys.
Grown ==
    \A p \in Place : \A kn \in strings'[p] :
        kn[2] # Literal =>
            kn \in strings[p] \/ (kn[2] \in Has(p)' /\ kn[1] \in Names(cls'[kn[2]]))

LEMMA InsertNodes ==
    ASSUME Typed, Typed', Backed, NEW p \in Place, NEW i \in Id, cls[i] \in Class,
           Insert(p, i), cls' = cls
    PROVE  Backed' /\ Grown
  <1>1. \A q \in Place : q # p => objects'[q] = objects[q] /\ strings'[q] = strings[q]
    BY DEF Insert, Typed
  <1>2. objects'[p] = objects[p] \cup Pairs(i) /\ strings'[p] = NodesWith(strings[p], Pairs(i), i)
    BY DEF Insert, Typed
  <1>3. \A pr \in Pairs(i) : pr = <<pr[1], i>> /\ pr[1] \in Names(cls[i])
    BY DEF Pairs
  <1>4. \A kn \in strings'[p] :
          kn \in strings[p] \/ (kn[2] = i /\ <<kn[1], i>> \in Pairs(i) /\ kn[1] \in Names(cls[i]))
    BY <1>2, <1>3 DEF NodesWith
  <1>5. Backed'
    <2> SUFFICES ASSUME NEW q \in Place, NEW kn \in strings'[q]
                 PROVE  \E j \in Id : <<kn[1], j>> \in objects'[q]
      BY DEF Backed
    <2> QED
      BY <1>1, <1>2, <1>4 DEF Backed
  <1>6. \A kn : kn[2] = i /\ <<kn[1], i>> \in Pairs(i) => kn[2] \in Has(p)'
    BY <1>2 DEF Has
  <1>7. Grown
    BY <1>1, <1>4, <1>6 DEF Grown
  <1> QED
    BY <1>5, <1>7

LEMMA DeleteNodes ==
    ASSUME Typed, Backed, NEW p \in Place, NEW G, Delete(p, G)
    PROVE  Backed' /\ Grown
  <1>1. \A q \in Place : q # p => objects'[q] = objects[q] /\ strings'[q] = strings[q]
    BY DEF Delete, Typed
  <1>2. objects'[p] = objects[p] \ G /\ strings'[p] = NodesLeft(strings[p], objects[p] \ G)
    BY DEF Delete, Typed
  <1>3. \A pr \in objects[p] : pr = <<pr[1], pr[2]>> /\ pr[2] \in Id
    BY DEF Typed
  <1>4. \A kn \in strings'[p] : kn \in strings[p] /\ \E pr \in objects'[p] : pr[1] = kn[1]
    BY <1>2 DEF NodesLeft
  <1>5. Backed'
    <2> SUFFICES ASSUME NEW q \in Place, NEW kn \in strings'[q]
                 PROVE  \E j \in Id : <<kn[1], j>> \in objects'[q]
      BY DEF Backed
    <2>1. CASE q # p
      BY <1>1, <2>1 DEF Backed
    <2>2. CASE q = p
      <3>1. PICK pr \in objects'[p] : pr[1] = kn[1]
        BY <1>4, <2>2
      <3>2. pr = <<kn[1], pr[2]>> /\ pr[2] \in Id
        BY <1>2, <1>3, <3>1
      <3> QED
        BY <2>2, <3>1, <3>2
    <2> QED
      BY <2>1, <2>2
  <1>6. Grown
    BY <1>1, <1>4 DEF Grown
  <1> QED
    BY <1>5, <1>6

LEMMA CreateNodes ==
    ASSUME Typed, Backed, NEW r \in Room, NEW i \in Id, NEW c \in Class, NEW gone,
           Create(r, i, c, gone)
    PROVE  Backed' /\ Grown
  <1> DEFINE kept == objects[r] \ gone
             nodes == NodesLeft(strings[r], kept)
             named == NodesWith(nodes, {<<NameOf[c], i>>}, i)
             alias == AliasesOf[c] \X {i}
  <1>1. r \in Place
    BY DEF Place
  <1>2. /\ objects'[r] = kept \cup {<<NameOf[c], i>>} \cup alias
        /\ strings'[r] = NodesWith(named, alias, Literal)
        /\ cls'[i] = c
    BY <1>1 DEF Create, Typed
  <1>3. \A q \in Place : q # r => objects'[q] = objects[q] /\ strings'[q] = strings[q]
    BY DEF Create, Typed
  <1>4. \A pr \in kept : pr = <<pr[1], pr[2]>> /\ pr[2] \in Id
    BY <1>1 DEF Typed
  <1>5. \A kn \in nodes : kn \in strings[r] /\ \E pr \in kept : pr[1] = kn[1]
    BY DEF NodesLeft
  <1>6. \A kn \in named : kn \in nodes \/ kn = <<NameOf[c], i>>
    <2> HIDE DEF nodes
    <2> QED
      BY DEF NodesWith
  <1>7. \A kn \in strings'[r] : kn \in named \/ (kn[2] = Literal /\ kn[1] \in AliasesOf[c])
    <2> HIDE DEF named
    <2> QED
      BY <1>2 DEF NodesWith
  <1> HIDE DEF nodes, named, kept
  <1>8. \A k \in AliasesOf[c] : <<k, i>> \in objects'[r]
    BY <1>2
  <1>9. <<NameOf[c], i>> \in objects'[r] /\ \A pr \in kept : pr \in objects'[r]
    BY <1>2
  <1>10. Backed'
    <2> SUFFICES ASSUME NEW q \in Place, NEW kn \in strings'[q]
                 PROVE  \E j \in Id : <<kn[1], j>> \in objects'[q]
      BY DEF Backed
    <2>1. CASE q # r
      BY <1>3, <2>1 DEF Backed
    <2>2. CASE q = r /\ kn \in nodes
      <3>1. PICK pr \in kept : pr[1] = kn[1]
        BY <1>5, <2>2
      <3>2. <<kn[1], pr[2]>> \in objects'[r] /\ pr[2] \in Id
        BY <1>4, <1>9, <3>1
      <3> QED
        BY <2>2, <3>2
    <2>3. CASE q = r /\ kn = <<NameOf[c], i>>
      BY <1>9, <2>3
    <2>4. CASE q = r /\ kn[1] \in AliasesOf[c]
      BY <1>8, <2>4
    <2> QED
      BY <1>6, <1>7, <2>1, <2>2, <2>3, <2>4
  <1>11. i \in Has(r)' /\ NameOf[c] \in Names(cls'[i])
    <2>1. <<NameOf[c], i>>[2] = i
      OBVIOUS
    <2>2. i \in Has(r)'
      BY <1>9, <2>1 DEF Has
    <2> QED
      BY <1>2, <2>2, NamesType
  <1>12. Grown
    <2> SUFFICES ASSUME NEW q \in Place, NEW kn \in strings'[q], kn[2] # Literal
                 PROVE  kn \in strings[q] \/ (kn[2] \in Has(q)' /\ kn[1] \in Names(cls'[kn[2]]))
      BY DEF Grown
    <2>1. CASE q # r
      BY <1>3, <2>1
    <2>2. CASE q = r
      <3>1. kn \in strings[r] \/ kn = <<NameOf[c], i>>
        BY <1>5, <1>6, <1>7, <2>2
      <3> QED
        BY <1>11, <2>2, <3>1
    <2> QED
      BY <2>1, <2>2
  <1> QED
    BY <1>10, <1>12

LEMMA KeyedStep ==
    ASSUME ObjectsInv, ObjectsInv', Departs, Keyed, Backed', Grown,
           \A i \in Id : cls[i] \in Class => cls'[i] = cls[i],
           \A i \in Id : leaked[i] > 0 => leaked'[i] > 0
    PROVE  Keyed'
  <1>0. Typed /\ Typed' /\ Exact' /\ Referred'
    BY DEF ObjectsInv
  <1> SUFFICES ASSUME NEW p \in Place, NEW kn \in strings'[p], kn[2] # Literal
               PROVE  cls'[kn[2]] \in Class /\ kn[1] \in Names(cls'[kn[2]]) /\ Live(kn[2])'
    BY DEF Keyed, Names
  <1>1. kn[2] \in Id
    BY <1>0 DEF Typed
  <1>2. PICK o \in Id : o = kn[2]
    BY <1>1
  <1>3. ASSUME Held(o)' PROVE Live(o)'
    <2>1. (Typed /\ Exact /\ Referred)'
      BY <1>0
    <2>2. cls'[o] \in Class
      BY <1>0, <1>3 DEF Exact, Held
    <2>3. /\ Cardinality(AliasesOf[cls'[o]]) \in Nat
          /\ Cardinality(Names(cls'[o])) = 1 + Cardinality(AliasesOf[cls'[o]])
      BY <2>2, Aliases, FS_CardinalityType, NamesType
    <2>4. Size(o)' \in Nat /\ Size(o)' > 0
      BY <2>3 DEF Size, Names
    <2>5. leaked'[o] \in Nat /\ ref'[o] = leaked'[o] + Share(o)'
      BY <1>0 DEF Typed, Referred
    <2>6. Share(o)' > 0 /\ Share(o)' \in Nat
      BY <1>3, <2>4 DEF Share
    <2> QED
      BY <2>5, <2>6 DEF Live
  <1>4. CASE kn[2] \in Has(p)' /\ kn[1] \in Names(cls'[kn[2]])
    <2>1. Held(o)'
      BY <1>2, <1>4 DEF Held
    <2> QED
      BY <1>0, <1>2, <1>3, <1>4, <2>1 DEF Exact
  <1>5. CASE kn \in strings[p]
    <2>1. cls[o] \in Class /\ kn[1] \in Names(cls[o]) /\ Live(o)
      BY <1>2, <1>5 DEF Keyed
    <2>2. cls'[o] = cls[o]
      BY <2>1
    <2>3. PICK j \in Id : <<kn[1], j>> \in objects'[p]
      BY DEF Backed
    <2>4. j \in Has(p)' /\ cls'[j] \in Class /\ kn[1] \in Names(cls'[j])
      BY <1>0, <2>3 DEF Has, Exact, Names
    <2>5. cls'[j] = cls[o]
      BY <2>1, <2>4, OneName
    <2>6. Live(o)'
      <3>1. CASE Held(o)
        BY <1>3, <2>4, <2>5, <3>1 DEF Departs
      <3>2. CASE leaked[o] > 0
        <4>1. leaked'[o] > 0 /\ leaked'[o] \in Nat /\ ref'[o] \in Int
              /\ ref'[o] = leaked'[o] + Share(o)'
          BY <1>0, <3>2 DEF Typed, Referred
        <4>2. CASE Held(o)'
          BY <1>3, <4>2
        <4>3. CASE ~ Held(o)'
          <5>1. Moving' /\ Typed'
            BY DEF ObjectsInv
          <5>2. Between' => actor' \in Place
            BY <5>1, ObjectsAssumption DEF Moving, Between, Taking, Dropping, Dropped, Place
          <5>3. ~ (Between' /\ cur' = o)
            BY <4>3, <5>1, <5>2 DEF Moving, Held
          <5> QED
            BY <4>1, <4>3, <5>3 DEF Share, Live
        <4> QED
          BY <4>2, <4>3
      <3> QED
        BY <2>1, <3>1, <3>2, LiveHeld
    <2> QED
      BY <1>2, <2>1, <2>2, <2>6
  <1> QED
    BY <1>4, <1>5 DEF Grown

LEMMA KeyedInit == Init => Backed /\ Keyed
  <1> SUFFICES ASSUME Init PROVE Backed /\ Keyed
    OBVIOUS
  <1>1. ObjectsInv
    BY ObjectsInit
  <1>2. \A p \in Place : \A kn \in strings[p] : \E i \in MadeAt(p) :
          kn \in {<<NameOf[Stock[i]], i>>} \cup AliasesOf[Stock[i]] \X {Literal}
    BY DEF Init, MadeStrings
  <1>3. \A p \in Place : \A i \in MadeAt(p) : \A k \in Names(Stock[i]) : <<k, i>> \in objects[p]
    BY DEF Init, MadeObjects
  <1>4. \A i \in Made : i \in Id /\ Stock[i] \in Class /\ cls[i] = Stock[i]
    BY StockClass DEF Init, MadeCls
  <1> SUFFICES ASSUME NEW p \in Place, NEW kn \in strings[p]
               PROVE  /\ \E j \in Id : <<kn[1], j>> \in objects[p]
                      /\ kn[2] # Literal =>
                           cls[kn[2]] \in Class /\ kn[1] \in Names(cls[kn[2]]) /\ Live(kn[2])
    BY DEF Backed, Keyed
  <1>5. PICK i \in MadeAt(p) :
          kn \in {<<NameOf[Stock[i]], i>>} \cup AliasesOf[Stock[i]] \X {Literal}
    BY <1>2
  <1>6. i \in Made
    BY DEF MadeAt
  <1>7. Names(Stock[i]) = {NameOf[Stock[i]]} \cup AliasesOf[Stock[i]]
    BY <1>4, <1>6, NamesType
  <1>8. kn[1] \in Names(Stock[i]) /\ (kn[2] # Literal => kn[2] = i)
    BY <1>5, <1>7
  <1>9. <<kn[1], i>> \in objects[p] /\ i \in Id
    BY <1>3, <1>4, <1>6, <1>8
  <1>10. Held(i)
    BY <1>9 DEF Held, Has
  <1>11. Live(i)
    BY <1>1, <1>9, <1>10, HeldLive
  <1> QED
    BY <1>4, <1>6, <1>8, <1>9, <1>11

\* An object that leaves all maps leaves none of its class behind.
LEMMA AllLeave ==
    ASSUME ObjectsInv, Flock, OneFood, [Next]_vars
    PROVE  Departs
  <1>0. Typed /\ Exact /\ Fresh /\ Apart /\ Moving
    BY DEF ObjectsInv
  <1>1. Visiting /\ Untaken /\ Together /\ Batch /\ Divided /\ Kinds /\ Once
    BY DEF Flock
  <1>2. \A q \in Place : Has(q) \subseteq Id
    BY <1>0, HasType
  <1>3. ASSUME \A q \in Place : Has(q) \subseteq Has(q)' PROVE Departs
    BY <1>3 DEF Departs, Held
  <1>4. UNCHANGED <<objects, cls>> => Departs
    BY <1>3, SameMaps
  <1>5. \A u \in User : u \in Place /\ u \notin Room
    BY ObjectsAssumption DEF Place
  <1>6. \A r \in Room : r \in Place /\ r \notin User
    BY ObjectsAssumption DEF Place
  <1>7. ASSUME NEW u \in User, UserdbRemove(u) PROVE Departs
    <2>1. cls' = cls /\ \A q \in Place : Has(q)' = IF q = u THEN Has(q) \ Has(u) ELSE Has(q)
      BY <1>7, UserdbRemoveHas
    <2>2. ~ Busy
      BY <1>7 DEF UserdbRemove, Ready, Busy, Taking, Dropping, Dropped
    <2> QED
      BY <1>1, <1>5, <2>1, <2>2 DEF Departs, Held, Together
  <1>8. ASSUME NEW u \in User, NEW i \in Id, Put(u, i) PROVE Departs
    <2>1. cls' = cls /\ \A q \in Place : Has(q)' = IF q = u THEN Has(q) \ {i} ELSE Has(q)
      BY <1>8, PutHas
    <2>2. ~ Busy /\ cls[i] = "cpu"
      BY <1>8 DEF Put, Asks, Ready, Busy, Taking, Dropping, Dropped
    <2> QED
      BY <1>1, <1>2, <1>5, <2>1, <2>2 DEF Departs, Held, Together, Once
  <1>9. ASSUME NEW u \in User, NEW k, Eat(u, k) PROVE Departs
    <2>1. cls' = cls /\ \A q \in Place : Has(q)' = IF q = u THEN Has(q) \ List(u, k) ELSE Has(q)
      BY <1>9, EatHas
    <2>2. ~ Busy
      BY <1>9 DEF Eat, Asks, Ready, Busy, Taking, Dropping, Dropped
    <2>3. \A i \in List(u, k) : i \in Has(u)
            /\ \A j \in Has(u) : cls[i] = cls[j] => j \in List(u, k)
      BY <1>0, <1>5, ListAll
    <2> QED
      BY <1>1, <1>5, <2>1, <2>2, <2>3 DEF Departs, Held, Together
  <1>10. ASSUME NEW i \in Id, TakeAdd(i), actor \in recs PROVE Departs
    BY <1>3, <1>10, TakeAddHas
  <1>11. ASSUME NEW i \in Id, DropAdd(i) PROVE Departs
    BY <1>3, <1>11, DropAddHas
  <1>12. ASSUME DropRefused PROVE Departs
    BY <1>3, <1>12, DropRefusedHas
  <1>13. ASSUME TakeDel \/ DropDel \/ UndoDel PROVE Departs
    <2>1. PICK p \in Place, r \in Place :
            /\ p # r /\ cur \in Has(r)
            /\ \A q \in Place : Has(q)' = IF q = p THEN Has(q) \ {cur} ELSE Has(q)
      BY <1>5, <1>6, <1>13, TakeDelHas, DropDelHas, UndoDelHas
    <2> QED
      BY <2>1 DEF Departs, Held
  <1>14. ASSUME NEW u \in User, Dig(u) PROVE Departs
    BY <1>3, <1>14, DigHas
  <1>15. ASSUME DropFed PROVE Departs
    <2>1. /\ actor \in User /\ Here \in Room /\ idcounter \in Id /\ Fed \in SUBSET Has(Here)
          /\ \A p \in Place : idcounter \notin Has(p)
          /\ cls' = [cls EXCEPT ![idcounter] = "key"]
          /\ \A q \in Place :
               Has(q)' = IF q = Here THEN (Has(q) \ Fed) \cup {idcounter} ELSE Has(q)
      BY <1>15, DropFedHas
    <2>2. actor \in Place /\ Here \in Place /\ actor # Here /\ op = "hook" /\ cls[cur] = "food"
      BY <1>5, <1>6, <1>15, <2>1 DEF DropFed, Feeds
    <2>3. \A j \in Id : cls'[j] = IF j = idcounter THEN "key" ELSE cls[j]
      BY <1>0, <2>1 DEF Typed
    <2>4. \A i, j \in Id : cls[i] = "food" /\ cls[j] = "food" => i = j
      <3>1. \A i \in Id : cls[i] = "food" => i \in Made /\ Stock[i] = "food"
        BY <1>1 DEF Kinds, NoClass
      <3> QED
        BY <3>1 DEF OneFood
    <2>5. \A i \in List(Here, NameOf.bear) :
            cls[i] = "bear" /\ \A j \in Has(Here) : cls[j] = "bear" => j \in List(Here, NameOf.bear)
      <3> SUFFICES ASSUME NEW i \in List(Here, NameOf.bear)
                   PROVE  cls[i] = "bear" /\ \A j \in Has(Here) : cls[j] = "bear"
                                                => j \in List(Here, NameOf.bear)
        OBVIOUS
      <3>1. <<NameOf.bear, i>> \in objects[Here] /\ i \in Has(Here)
        BY <1>0, <2>2 DEF List, Has, Typed
      <3>2. NameOf.bear \in Names(cls[i]) /\ cls[i] \in Class
        BY <1>0, <2>2, <3>1 DEF Exact
      <3>3. "bear" \in Class /\ NameOf.bear \in Names("bear")
        BY NamesType DEF Class
      <3>4. cls[i] = "bear"
        BY <3>2, <3>3, OneName
      <3> QED
        BY <1>0, <2>2, <3>4, ListAll
    <2> SUFFICES ASSUME NEW o \in Id, NEW p \in Place, o \in Has(p), ~ Held(o)',
                        NEW q \in Place, NEW j \in Has(q)', cls'[j] = cls[o]
                 PROVE  FALSE
      BY DEF Departs, Held
    <2>6. p = Here /\ o \in Fed /\ o # idcounter
      BY <2>1 DEF Held
    <2>7. cls[o] \in {"food", "bear"} /\ cls[o] # "key"
      BY <2>2, <2>5, <2>6 DEF Fed
    <2>8. j # idcounter /\ j \in Has(q) /\ (j \notin Fed \/ q # Here)
      BY <2>1, <2>2, <2>3, <2>7
    <2>9. cls[j] = cls[o] /\ j \in Id /\ j \in Has(q) /\ (q # Here \/ j \notin Fed)
      BY <1>2, <2>3, <2>8
    <2>10. CASE cls[o] = "food"
      <3>1. j = o /\ o = cur
        BY <1>2, <2>1, <2>2, <2>4, <2>9, <2>10 DEF Fed
      <3> QED
        BY <1>0, <2>2, <2>6, <2>9, <3>1 DEF Apart, Between
    <2>11. CASE cls[o] = "bear"
      <3>1. o \in List(Here, NameOf.bear)
        BY <2>2, <2>6, <2>11 DEF Fed
      <3>2. q = actor \/ q = Here
        BY <1>1, <2>1, <2>2, <2>6, <2>9 DEF Together
      <3>3. q # actor
        BY <1>1, <2>1, <2>9, <2>11 DEF Untaken, NoTake
      <3> QED
        BY <2>5, <2>9, <2>11, <3>1, <3>2, <3>3 DEF Fed
    <2> QED
      BY <2>7, <2>10, <2>11
  <1>16. CASE UNCHANGED vars
    BY <1>4, <1>16 DEF vars, maps, heap
  <1>17. ASSUME NEW u \in User,
                UserdbAdd(u) \/ Enter(u) \/ Leave(u) \/ LookupFails(u) \/ (\E r \in Room : Walk(u, r))
                  \/ (\E k \in Words : ReqTake(u, k) \/ ReqDrop(u, k))
         PROVE  Departs
    BY <1>4, <1>17
    DEF UserdbAdd, Enter, Leave, LookupFails, Segfault, Walk, ReqTake, ReqDrop, maps, heap
  <1>18. ASSUME LoopDone \/ SaveState \/ DropKept
                  \/ \E i \in Id : TakeRefused(i) \/ (TakeAdd(i) /\ actor \notin recs)
         PROVE  Departs
    BY <1>4, <1>18
    DEF LoopDone, SaveState, DropKept, TakeRefused, TakeAdd, Segfault, maps, heap
  <1> QED
    BY <1>7, <1>8, <1>9, <1>10, <1>11, <1>12, <1>13, <1>14, <1>15, <1>16, <1>17, <1>18
    DEF Next, Work, TakeStep, DropStep, HookStep

\* What a step does to the nodes, to classes and to leaked references.
LEMMA NodesNext ==
    ASSUME ObjectsInv, ObjectsInv', Flock, Backed, [Next]_vars
    PROVE  /\ Backed' /\ Grown
           /\ \A i \in Id : cls[i] \in Class => cls'[i] = cls[i]
           /\ \A i \in Id : leaked[i] > 0 => leaked'[i] > 0
  <1> DEFINE Goal == /\ Backed' /\ Grown
                     /\ \A i \in Id : cls[i] \in Class => cls'[i] = cls[i]
                     /\ \A i \in Id : leaked[i] > 0 => leaked'[i] > 0
  <1>0. Typed /\ Typed' /\ Exact /\ Kinds
    BY DEF ObjectsInv, Flock
  <1>1. \A q \in Place : Has(q) \subseteq Id
    BY <1>0, HasType
  <1>2. \A u \in User : u \in Place
    BY DEF Place
  <1>3. \A r \in Room : r \in Place
    BY DEF Place
  <1>4. ASSUME UNCHANGED <<maps, heap>> PROVE Goal
    <2>1. UNCHANGED <<objects, strings, cls, leaked>>
      BY <1>4 DEF maps, heap
    <2> QED
      BY <2>1 DEF Backed, Grown
  <1>5. ASSUME NEW p \in Place, NEW G, Delete(p, G), UNCHANGED <<cls, leaked>> PROVE Goal
    BY <1>0, <1>5, DeleteNodes
  <1>6. ASSUME NEW p \in Place, NEW r \in Place, NEW i \in Has(r), Insert(p, i), cls' = cls,
               \A j \in Id : leaked[j] > 0 => leaked'[j] > 0
        PROVE  Goal
    <2>1. cls[i] \in Class /\ i \in Id
      BY <1>0, <1>1 DEF Exact
    <2> QED
      BY <1>0, <1>6, <2>1, InsertNodes
  <1>7. ASSUME NEW r \in Room, NEW c \in Class, NEW gone, Create(r, idcounter, c, gone),
               leaked' = leaked
        PROVE  Goal
    <2>1. idcounter \in Id /\ cls' = [cls EXCEPT ![idcounter] = c]
      BY <1>7 DEF Create
    <2>2. PICK i \in Id : i = idcounter
      BY <2>1
    <2>3. Create(r, i, c, gone)
      BY <1>7, <2>2
    <2>4. Backed' /\ Grown
      BY <1>0, <2>3, CreateNodes
    <2>5. cls[idcounter] = NoClass /\ NoClass \notin Class
      BY <1>0, <2>1 DEF Kinds, NoClass, Class, Id
    <2>6. \A j \in Id : cls[j] \in Class => cls'[j] = cls[j]
      BY <1>0, <2>1, <2>5 DEF Typed
    <2> QED
      BY <1>7, <2>4, <2>6
  <1> HIDE DEF Goal
  <1>8. ASSUME NEW u \in User, UserdbRemove(u) PROVE Goal
    BY <1>2, <1>5, <1>8, UserdbRemoveHas DEF UserdbRemove
  <1>9. ASSUME NEW u \in User, NEW i \in Id, Put(u, i) PROVE Goal
    BY <1>2, <1>5, <1>9, PutHas DEF Put
  <1>10. ASSUME NEW u \in User, NEW k, Eat(u, k) PROVE Goal
    BY <1>2, <1>5, <1>10, EatHas DEF Eat
  <1>11. ASSUME NEW i \in Id, TakeAdd(i), actor \in recs PROVE Goal
    BY <1>2, <1>3, <1>6, <1>11, TakeAddHas DEF TakeAdd
  <1>12. ASSUME NEW i \in Id, DropAdd(i) PROVE Goal
    BY <1>2, <1>3, <1>6, <1>12, DropAddHas DEF DropAdd
  <1>13. ASSUME DropRefused PROVE Goal
    <2>1. \A j \in Id : leaked[j] > 0 => leaked'[j] > 0
      BY <1>0, <1>13 DEF DropRefused, Typed
    <2> QED
      BY <1>2, <1>3, <1>6, <1>13, <2>1, DropRefusedHas
  <1>14. ASSUME TakeDel PROVE Goal
    BY <1>3, <1>5, <1>14, TakeDelHas DEF TakeDel
  <1>15. ASSUME DropDel PROVE Goal
    BY <1>2, <1>5, <1>15, DropDelHas DEF DropDel
  <1>16. ASSUME UndoDel PROVE Goal
    BY <1>3, <1>5, <1>16, UndoDelHas DEF UndoDel
  <1>17. ASSUME NEW u \in User, Dig(u) PROVE Goal
    BY <1>7, <1>17, DigHas DEF Dig
  <1>18. ASSUME DropFed PROVE Goal
    <2>1. "key" \in Class
      BY DEF Class
    <2> QED
      BY <1>7, <1>18, <2>1, DropFedHas DEF DropFed
  <1>19. ASSUME UNCHANGED vars PROVE Goal
    <2>1. UNCHANGED <<maps, heap>>
      BY <1>19 DEF vars, maps, heap, loop, world
    <2> QED
      BY <1>4, <2>1
  <1>20. ASSUME NEW u \in User,
                UserdbAdd(u) \/ Enter(u) \/ Leave(u) \/ LookupFails(u) \/ (\E r \in Room : Walk(u, r))
                  \/ (\E k \in Words : ReqTake(u, k) \/ ReqDrop(u, k))
         PROVE  Goal
    BY <1>4, <1>20
    DEF UserdbAdd, Enter, Leave, LookupFails, Segfault, Walk, ReqTake, ReqDrop
  <1>21. ASSUME LoopDone \/ SaveState \/ DropKept PROVE Goal
    BY <1>4, <1>21 DEF LoopDone, SaveState, DropKept
  <1>22. ASSUME NEW i \in Id, TakeRefused(i) \/ (TakeAdd(i) /\ actor \notin recs) PROVE Goal
    BY <1>4, <1>22 DEF TakeRefused, TakeAdd, Segfault
  <1>23. Goal
    BY <1>8, <1>9, <1>10, <1>11, <1>12, <1>13, <1>14, <1>15, <1>16, <1>17, <1>18, <1>19,
       <1>20, <1>21,
       <1>22
    DEF Next, Work, TakeStep, DropStep, HookStep
  <1> QED
    BY <1>23 DEF Goal

\* Where there is one food, as in dunnet, no node of room->objects or of
\* user->objects has a freed string for its key, although multimap_insert keeps
\* the name of whichever object came first and obj_free frees it with that one.
THEOREM KeysOutliveNodes ==
    ASSUME OneFood
    PROVE  Spec => []KeysAlive
  <1>1. Init => ObjectsInv /\ Flock /\ Backed /\ Keyed
    BY ObjectsInit, FlockInit, KeyedInit
  <1>2. ObjectsInv /\ Flock /\ Backed /\ Keyed /\ [Next]_vars
          => (ObjectsInv /\ Flock /\ Backed /\ Keyed)'
    <2> SUFFICES ASSUME ObjectsInv, Flock, Backed, Keyed, [Next]_vars
                 PROVE  (ObjectsInv /\ Flock /\ Backed /\ Keyed)'
      OBVIOUS
    <2>1. ObjectsInv' /\ Flock'
      BY ObjectsNext, FlockNext
    <2>2. Departs
      BY AllLeave
    <2>3. /\ Backed' /\ Grown
          /\ \A i \in Id : cls[i] \in Class => cls'[i] = cls[i]
          /\ \A i \in Id : leaked[i] > 0 => leaked'[i] > 0
      BY <2>1, NodesNext
    <2>4. Keyed'
      BY <2>1, <2>2, <2>3, KeyedStep
    <2> QED
      BY <2>1, <2>3, <2>4
  <1>3. Keyed => KeysAlive
    BY DEF Keyed, KeysAlive
  <1> QED
    BY <1>1, <1>2, <1>3, PTL DEF Spec
=============================================================================
