--------------------------- MODULE ObjectsProofs ---------------------------
(***************************************************************************)
(* Machine-checked proofs about Objects, for every set of users and rooms, *)
(* every stock of objects, every choice of stubborn classes and every      *)
(* bound.                                                                  *)
(***************************************************************************)
EXTENDS Objects, FiniteSetTheorems, TLAPS

-----------------------------------------------------------------------------
(***************************************************************************)
(* The tables of dunnet.                                                   *)
(***************************************************************************)

\* Every class has finitely many aliases, and its name is none of them.
LEMMA Aliases ==
    ASSUME NEW c \in Class
    PROVE  IsFiniteSet(AliasesOf[c]) /\ NameOf[c] \notin AliasesOf[c]
  <1>1. \A x, y, z : IsFiniteSet({x}) /\ IsFiniteSet({x, y}) /\ IsFiniteSet({x, y, z})
    <2> SUFFICES ASSUME NEW x, NEW y, NEW z
                 PROVE  IsFiniteSet({x}) /\ IsFiniteSet({x, y}) /\ IsFiniteSet({x, y, z})
      OBVIOUS
    <2>1. IsFiniteSet({x}) /\ IsFiniteSet({y}) /\ IsFiniteSet({z})
      BY FS_Singleton
    <2>2. IsFiniteSet({x} \cup {y})
      BY <2>1, FS_Union
    <2>3. IsFiniteSet({x} \cup {y} \cup {z})
      BY <2>1, <2>2, FS_Union
    <2>4. {x, y} = {x} \cup {y} /\ {x, y, z} = {x} \cup {y} \cup {z}
      OBVIOUS
    <2> QED
      BY <2>1, <2>2, <2>3, <2>4
  <1>2. IsFiniteSet({})
    BY FS_EmptySet
  <1>3. CASE c = "shovel"
    BY <1>1, <1>2, <1>3 DEF AliasesOf, NameOf
  <1>4. CASE c = "trees"
    BY <1>1, <1>2, <1>4 DEF AliasesOf, NameOf
  <1>5. CASE c = "boulder"
    BY <1>1, <1>2, <1>5 DEF AliasesOf, NameOf
  <1>6. CASE c = "food"
    BY <1>1, <1>2, <1>6 DEF AliasesOf, NameOf
  <1>7. CASE c = "bear"
    BY <1>1, <1>2, <1>7 DEF AliasesOf, NameOf
  <1>8. CASE c = "bracelet"
    BY <1>1, <1>2, <1>8 DEF AliasesOf, NameOf
  <1>9. CASE c = "bins"
    BY <1>1, <1>2, <1>9 DEF AliasesOf, NameOf
  <1>10. CASE c = "computer"
    BY <1>1, <1>2, <1>10 DEF AliasesOf, NameOf
  <1>11. CASE c = "key"
    BY <1>1, <1>2, <1>11 DEF AliasesOf, NameOf
  <1>12. CASE c = "cpu"
    BY <1>1, <1>2, <1>12 DEF AliasesOf, NameOf
  <1> QED
    BY <1>3, <1>4, <1>5, <1>6, <1>7, <1>8, <1>9, <1>10, <1>11, <1>12 DEF Class

LEMMA NamesType ==
    ASSUME NEW c \in Class
    PROVE  /\ IsFiniteSet(Names(c))
           /\ Cardinality(Names(c)) = 1 + Cardinality(AliasesOf[c])
           /\ Names(c) \subseteq Key
           /\ NameOf[c] \in Names(c)
           /\ Names(c) = {NameOf[c]} \cup AliasesOf[c]
  <1>1. Names(c) = AliasesOf[c] \cup {NameOf[c]}
    BY DEF Names, NamesOf
  <1> QED
    BY <1>1, Aliases, FS_AddElement, FS_CardinalityType DEF Key

\* There are finitely many keys, so every set of pairs is finite.
LEMMA PairsFinite ==
    ASSUME NEW ps \in SUBSET (Key \X Id)
    PROVE  IsFiniteSet(ps) /\ Cardinality(ps) \in Nat
  <1>1. IsFiniteSet(Class)
    <2>1. \A x, y : IsFiniteSet({x, y})
      <3> SUFFICES ASSUME NEW x, NEW y PROVE IsFiniteSet({x, y})
        OBVIOUS
      <3>1. {x, y} = {x} \cup {y}
        OBVIOUS
      <3>2. IsFiniteSet({x}) /\ IsFiniteSet({y})
        BY FS_Singleton
      <3>3. IsFiniteSet({x} \cup {y})
        BY <3>2, FS_Union
      <3> QED
        BY <3>1, <3>3
    <2> DEFINE A == {"shovel", "trees"} B == {"boulder", "food"} C == {"bear", "bracelet"}
               D == {"bins", "computer"} E == {"key", "cpu"}
    <2>2. IsFiniteSet(A) /\ IsFiniteSet(B) /\ IsFiniteSet(C) /\ IsFiniteSet(D) /\ IsFiniteSet(E)
      BY <2>1
    <2>3. Class = A \cup B \cup C \cup D \cup E
      BY DEF Class
    <2> HIDE DEF A, B, C, D, E
    <2>4. IsFiniteSet(A \cup B)
      BY <2>2, FS_Union
    <2>5. IsFiniteSet(A \cup B \cup C)
      BY <2>2, <2>4, FS_Union
    <2>6. IsFiniteSet(A \cup B \cup C \cup D)
      BY <2>2, <2>5, FS_Union
    <2> QED
      BY <2>2, <2>3, <2>6, FS_Union
  <1>2. IsFiniteSet({Names(c) : c \in Class})
    <2>1. NamesOf \in Surjection(Class, {Names(c) : c \in Class})
      BY DEF Surjection, NamesOf, Names
    <2> QED
      BY <1>1, <2>1, FS_Surjection
  <1>3. IsFiniteSet(Key)
    BY <1>2, NamesType, FS_UNION DEF Key
  <1>4. IsFiniteSet(Id)
    BY ObjectsAssumption, FS_Interval DEF Id
  <1>5. IsFiniteSet(Key \X Id)
    BY <1>3, <1>4, FS_Product
  <1> QED
    BY <1>5, FS_Subset, FS_CardinalityType

-----------------------------------------------------------------------------
(***************************************************************************)
(* Multimaps as sets of objects.  Exact says that an object is in a map    *)
(* under its names, all of them and no others; then what a map holds is a  *)
(* set of objects, and insertion, deletion and creation act on that set.   *)
(***************************************************************************)

\* TypeOK, but for reference counts that might be negative.
Typed ==
    /\ ref \in [Id -> Int] /\ leaked \in [Id -> Nat]
    /\ cls \in [Id -> Class \cup {NoClass}]
    /\ idcounter \in 1..MaxId + 1
    /\ objects \in [Place -> SUBSET (Key \X Id)]
    /\ strings \in [Place -> SUBSET (Key \X (Id \cup {Literal}))]
    /\ recs \subseteq User
    /\ where \in [User -> Room \cup {Nowhere}]
    /\ flags \subseteq {"dug", "running"}
    /\ op \in Ops /\ actor \in User \cup {NoUser}
    /\ todo \subseteq Id /\ cur \in Id \cup {0}
    /\ master \in {"up", "dead"}

\* The objects of a map.
Has(p) == {pr[2] : pr \in objects[p]}

Exact ==
    \A p \in Place : \A i \in Has(p) :
        cls[i] \in Class /\ \A k : <<k, i>> \in objects[p] <=> k \in Names(cls[i])

LEMMA HasType ==
    ASSUME Typed, NEW p \in Place
    PROVE  Has(p) \subseteq Id
  BY DEF Typed, Has

LEMMA PairsType ==
    ASSUME NEW i \in Id, cls[i] \in Class
    PROVE  /\ Pairs(i) \in SUBSET (Key \X Id)
           /\ \A pr \in Pairs(i) : pr[2] = i
           /\ \A k, j : <<k, j>> \in Pairs(i) <=> j = i /\ k \in Names(cls[i])
           /\ \E pr \in Pairs(i) : pr[2] = i
  <1>1. Names(cls[i]) \subseteq Key /\ NameOf[cls[i]] \in Names(cls[i])
    BY NamesType
  <1>2. <<NameOf[cls[i]], i>> \in Pairs(i)
    BY <1>1 DEF Pairs
  <1> QED
    BY <1>1, <1>2 DEF Pairs

\* What deleting an object removes.
LEMMA MineIs ==
    ASSUME Typed, Exact, NEW p \in Place, NEW i \in Has(p)
    PROVE  Mine(p, i) = {pr \in objects[p] : pr[2] = i} /\ Mine(p, i) = Pairs(i)
  <1>1. i \in Id /\ cls[i] \in Class /\ objects[p] \in SUBSET (Key \X Id)
    BY HasType DEF Typed, Exact
  <1>2. \A pr \in objects[p] : pr = <<pr[1], pr[2]>>
    BY <1>1
  <1>3. \A pr \in Pairs(i) : pr = <<pr[1], pr[2]>> /\ pr[2] = i
    BY <1>1, PairsType
  <1>4. \A k : <<k, i>> \in objects[p] <=> <<k, i>> \in Pairs(i)
    BY <1>1, PairsType DEF Exact
  <1> QED
    BY <1>2, <1>3, <1>4 DEF Mine

LEMMA InsertHas ==
    ASSUME Typed, Exact, NEW p \in Place, NEW i \in Id, cls[i] \in Class,
           Insert(p, i), cls' = cls
    PROVE  /\ Exact'
           /\ objects' \in [Place -> SUBSET (Key \X Id)]
           /\ \A q \in Place : Has(q)' = IF q = p THEN Has(q) \cup {i} ELSE Has(q)
  <1>1. Pairs(i) \in SUBSET (Key \X Id)
    BY PairsType
  <1>2. \A q \in Place : objects'[q] = IF q = p THEN objects[q] \cup Pairs(i) ELSE objects[q]
    BY DEF Insert, Typed
  <1>3. objects' \in [Place -> SUBSET (Key \X Id)]
    BY <1>1 DEF Insert, Typed
  <1>4. \A q \in Place : Has(q)' = IF q = p THEN Has(q) \cup {i} ELSE Has(q)
    <2>1. /\ \A pr \in Pairs(i) : pr[2] = i
          /\ \E pr \in Pairs(i) : pr[2] = i
      BY PairsType
    <2>2. ASSUME NEW q \in Place PROVE Has(q)' = IF q = p THEN Has(q) \cup {i} ELSE Has(q)
      <3>1. CASE q # p
        BY <1>2, <3>1 DEF Has
      <3>2. CASE q = p
        <4>1. objects'[p] = objects[p] \cup Pairs(i)
          BY <1>2
        <4>2. {pr[2] : pr \in objects[p] \cup Pairs(i)} = {pr[2] : pr \in objects[p]} \cup {i}
          BY <2>1
        <4> QED
          BY <3>2, <4>1, <4>2 DEF Has
      <3> QED
        BY <3>1, <3>2
    <2> QED
      BY <2>2
  <1>5. Exact'
    <2> SUFFICES ASSUME NEW q \in Place, NEW j \in Has(q)'
                 PROVE  /\ cls[j] \in Class
                        /\ \A k : <<k, j>> \in objects'[q] <=> k \in Names(cls[j])
      BY DEF Exact, Names
    <2>1. CASE q # p
      BY <1>2, <1>4, <2>1 DEF Exact
    <2>2. CASE q = p /\ j = i
      <3>1. \A k : <<k, i>> \in objects[p] => k \in Names(cls[i])
        BY DEF Exact, Has
      <3>2. \A k : <<k, i>> \in Pairs(i) <=> k \in Names(cls[i])
        BY PairsType
      <3> QED
        BY <1>2, <2>2, <3>1, <3>2
    <2>3. CASE q = p /\ j # i
      <3>1. \A k : <<k, j>> \notin Pairs(i)
        BY <2>3, PairsType
      <3>2. j \in Has(p)
        BY <1>4, <2>3
      <3>3. \A k : <<k, j>> \in objects'[p] <=> <<k, j>> \in objects[p]
        BY <1>2, <3>1
      <3> QED
        BY <2>3, <3>2, <3>3 DEF Exact
    <2> QED
      BY <2>1, <2>2, <2>3
  <1> QED
    BY <1>3, <1>4, <1>5

LEMMA DeleteHas ==
    ASSUME Typed, Exact, NEW p \in Place, NEW G,
           Delete(p, {pr \in objects[p] : pr[2] \in G}), cls' = cls
    PROVE  /\ Exact'
           /\ objects' \in [Place -> SUBSET (Key \X Id)]
           /\ \A q \in Place : Has(q)' = IF q = p THEN Has(q) \ G ELSE Has(q)
  <1>1. \A q \in Place : objects'[q] =
            IF q = p THEN objects[q] \ {pr \in objects[p] : pr[2] \in G} ELSE objects[q]
    BY DEF Delete, Typed
  <1>2. objects' \in [Place -> SUBSET (Key \X Id)]
    BY DEF Delete, Typed
  <1>3. \A q \in Place : Has(q)' = IF q = p THEN Has(q) \ G ELSE Has(q)
    BY <1>1 DEF Has
  <1>4. Exact'
    <2> SUFFICES ASSUME NEW q \in Place, NEW j \in Has(q)'
                 PROVE  /\ cls[j] \in Class
                        /\ \A k : <<k, j>> \in objects'[q] <=> k \in Names(cls[j])
      BY DEF Exact, Names
    <2>1. CASE q # p
      BY <1>1, <1>3, <2>1 DEF Exact
    <2>2. CASE q = p
      BY <1>1, <1>3, <2>2 DEF Exact
    <2> QED
      BY <2>1, <2>2
  <1> QED
    BY <1>2, <1>3, <1>4

\* The pairs of the objects G in a map.
PairsOf(p, G) == {pr \in objects[p] : pr[2] \in G}

LEMMA CreateHas ==
    ASSUME Typed, Exact, NEW r \in Room, NEW i \in Id, NEW c \in Class, NEW G,
           \A p \in Place : i \notin Has(p),
           Create(r, i, c, PairsOf(r, G))
    PROVE  /\ Exact'
           /\ objects' \in [Place -> SUBSET (Key \X Id)]
           /\ \A q \in Place : Has(q)' = IF q = r THEN (Has(q) \ G) \cup {i} ELSE Has(q)
  <1> DEFINE gone == PairsOf(r, G)
             new == {<<NameOf[c], i>>} \cup AliasesOf[c] \X {i}
  <1>1. \A k, j : <<k, j>> \in new <=> j = i /\ k \in Names(c)
    BY NamesType
  <1>2. new \in SUBSET (Key \X Id) /\ \A pr \in new : pr[2] = i
    BY NamesType
  <1>3. <<NameOf[c], i>> \in new
    OBVIOUS
  <1> HIDE DEF new
  <1>4. r \in Place
    BY DEF Place
  <1>5. objects' = [objects EXCEPT ![r] = (objects[r] \ gone) \cup new]
    BY DEF Create, new
  <1>6. \A q \in Place : objects'[q] = IF q = r THEN (objects[r] \ gone) \cup new ELSE objects[q]
    BY <1>5 DEF Typed
  <1>7. objects' \in [Place -> SUBSET (Key \X Id)]
    BY <1>2, <1>4, <1>5 DEF Typed
  <1>8. cls' = [cls EXCEPT ![i] = c]
    BY DEF Create
  <1>9. \A q \in Place : Has(q)' = IF q = r THEN (Has(q) \ G) \cup {i} ELSE Has(q)
    <2>1. {pr[2] : pr \in (objects[r] \ gone) \cup new} = ({pr[2] : pr \in objects[r]} \ G) \cup {i}
      BY <1>2, <1>3 DEF PairsOf
    <2>2. objects'[r] = (objects[r] \ gone) \cup new
      BY <1>4, <1>6
    <2>3. Has(r)' = (Has(r) \ G) \cup {i}
      BY <2>1, <2>2 DEF Has
    <2>4. \A q \in Place : q # r => Has(q)' = Has(q)
      BY <1>6 DEF Has
    <2> QED
      BY <2>3, <2>4
  <1>10. Exact'
    <2> SUFFICES ASSUME NEW q \in Place, NEW j \in Has(q)'
                 PROVE  /\ cls'[j] \in Class
                        /\ \A k : <<k, j>> \in objects'[q] <=> k \in Names(cls'[j])
      BY DEF Exact, Names
    <2>1. j # i => cls'[j] = cls[j]
      BY <1>8 DEF Typed
    <2>2. cls'[i] = c
      BY <1>8 DEF Typed
    <2>3. CASE q # r
      <3>1. j \in Has(q) /\ j # i /\ objects'[q] = objects[q]
        BY <1>6, <1>9, <2>3
      <3> QED
        BY <2>1, <3>1 DEF Exact
    <2>4. CASE q = r /\ j = i
      <3>1. \A k : <<k, i>> \notin objects[r]
        BY <1>4 DEF Has
      <3> QED
        BY <1>1, <1>6, <2>2, <2>4, <3>1
    <2>5. CASE q = r /\ j # i
      <3>1. j \in Has(r) /\ j \notin G
        BY <1>9, <2>5
      <3>2. \A k : <<k, j>> \notin new /\ <<k, j>> \notin gone
        BY <1>1, <2>5, <3>1 DEF PairsOf
      <3>3. objects'[r] = (objects[r] \ gone) \cup new
        BY <1>4, <1>6
      <3>4. \A k : <<k, j>> \in objects'[r] <=> <<k, j>> \in objects[r]
        BY <3>2, <3>3
      <3> QED
        BY <1>4, <2>1, <2>5, <3>1, <3>4 DEF Exact
    <2> QED
      BY <2>3, <2>4, <2>5
  <1> QED
    BY <1>7, <1>9, <1>10

\* The keys of nodes are keys, and belong to objects or to the world module.
Node == Key \X (Id \cup {Literal})

LEMMA NodesWithType ==
    ASSUME NEW ks \in SUBSET Node, NEW new \in SUBSET (Key \X Id), NEW o \in Id \cup {Literal}
    PROVE  NodesWith(ks, new, o) \in SUBSET Node
  BY DEF NodesWith, Node

LEMMA InsertType ==
    ASSUME Typed, NEW p \in Place, NEW i \in Id, cls[i] \in Class, Insert(p, i)
    PROVE  strings' \in [Place -> SUBSET Node]
  <1>1. NodesWith(strings[p], Pairs(i), i) \in SUBSET Node
    BY NodesWithType, PairsType DEF Typed, Node
  <1> QED
    BY <1>1 DEF Insert, Typed, Node

LEMMA DeleteType ==
    ASSUME Typed, NEW p \in Place, NEW ps, Delete(p, ps)
    PROVE  strings' \in [Place -> SUBSET Node]
  BY DEF Delete, Typed, NodesLeft, Node

LEMMA CreateType ==
    ASSUME Typed, NEW r \in Room, NEW i \in Id, NEW c \in Class, NEW gone, Create(r, i, c, gone)
    PROVE  strings' \in [Place -> SUBSET Node] /\ cls' \in [Id -> Class \cup {NoClass}]
  <1> DEFINE nodes == NodesLeft(strings[r], objects[r] \ gone)
             named == NodesWith(nodes, {<<NameOf[c], i>>}, i)
             all == NodesWith(named, AliasesOf[c] \X {i}, Literal)
  <1>1. nodes \in SUBSET Node
    BY DEF Typed, Node, NodesLeft, Place
  <1> HIDE DEF nodes
  <1>2. named \in SUBSET Node
    <2>1. {<<NameOf[c], i>>} \in SUBSET (Key \X Id)
      BY NamesType
    <2> QED
      BY <1>1, <2>1, NodesWithType
  <1> HIDE DEF named
  <1>3. all \in SUBSET Node
    <2>1. AliasesOf[c] \X {i} \in SUBSET (Key \X Id)
      BY NamesType
    <2> QED
      BY <1>2, <2>1, NodesWithType
  <1>4. strings' = [strings EXCEPT ![r] = all]
    BY DEF Create, named, nodes
  <1> HIDE DEF all
  <1>5. strings \in [Place -> SUBSET Node] /\ cls \in [Id -> Class \cup {NoClass}]
    BY DEF Typed, Node
  <1>6. cls' = [cls EXCEPT ![i] = c]
    BY DEF Create
  <1>7. strings' \in [Place -> SUBSET Node]
    BY <1>3, <1>4, <1>5
  <1>8. cls' \in [Id -> Class \cup {NoClass}]
    BY <1>5, <1>6
  <1> QED
    BY <1>7, <1>8

-----------------------------------------------------------------------------
(***************************************************************************)
(* Where objects are, at each point of the handlers.                       *)
(***************************************************************************)
Taking == op \in {"take", "taking"}
Dropping == op \in {"drop", "dropping"}
Dropped == op \in {"hook", "undrop"}

\* Ids not yet handed out are nowhere.
Fresh == \A i \in Id : i >= idcounter => \A p \in Place : i \notin Has(p)

\* Only the object that a handler moves is in two maps.
Apart ==
    \A i \in Id : \A p, q \in Place :
        i \in Has(p) /\ i \in Has(q) /\ p # q
          => Between /\ cur = i /\ p \in {actor, Here} /\ q \in {actor, Here}

\* What the handlers know of the object they are at and of those to come.
Moving ==
    /\ Between => cur \in Has(actor) /\ cur \in Has(Here)
    /\ op = "hook" => cur \in Has(Here)
    /\ Taking \/ Dropping \/ Dropped => actor \in User /\ where[actor] \in Room
    /\ Taking => todo \subseteq Has(Here)
    /\ Dropping => todo \subseteq Has(actor)
    /\ Dropped => todo \ {cur} \subseteq Has(actor)

\* Each map that holds an object holds as many references as it has names.
Size(i) == Cardinality(Names(cls[i]))
Held(i) == \E p \in Place : i \in Has(p)
Share(i) == IF Between /\ cur = i THEN Size(i) + Size(i) ELSE IF Held(i) THEN Size(i) ELSE 0

Referred ==
    \A i \in Id : ref[i] = leaked[i] + Share(i) /\ (i >= idcounter => leaked[i] = 0)

ObjectsInv == Typed /\ Exact /\ Fresh /\ Apart /\ Moving /\ Referred

LEMMA StockClass ==
    ASSUME NEW i \in Made
    PROVE  i \in Id /\ Stock[i] \in Class /\ HomeOf[Stock[i]] \in Room
  <1>1. DOMAIN HomeOf \subseteq Class
    BY DEF HomeOf, Class
  <1> QED
    BY <1>1, ObjectsAssumption DEF Made, Id

LEMMA ObjectsInit == Init => ObjectsInv
  <1> SUFFICES ASSUME Init PROVE ObjectsInv
    OBVIOUS
  <1> USE DEF Init
  <1>1. MadeCls \in [Id -> Class \cup {NoClass}]
    BY StockClass DEF MadeCls
  <1>2. ASSUME NEW i \in Made
        PROVE  IsFiniteSet(Names(Stock[i])) /\ Names(Stock[i]) \subseteq Key
    BY StockClass, NamesType
  <1>3. MadeRef \in [Id -> Int]
    BY <1>2, FS_CardinalityType DEF MadeRef
  <1>4. \A p \in Place : \A pr : pr \in MadeObjects[p] <=>
          \E i \in MadeAt(p) : pr \in Names(Stock[i]) \X {i}
    BY DEF MadeObjects
  <1>5. MadeObjects \in [Place -> SUBSET (Key \X Id)]
    <2>1. ASSUME NEW p \in Place, NEW i \in MadeAt(p)
          PROVE  Names(Stock[i]) \X {i} \in SUBSET (Key \X Id)
      BY <1>2, StockClass DEF MadeAt
    <2> QED
      BY <2>1 DEF MadeObjects
  <1>6. MadeStrings \in [Place -> SUBSET (Key \X (Id \cup {Literal}))]
    <2>1. ASSUME NEW p \in Place, NEW i \in MadeAt(p)
          PROVE  {<<NameOf[Stock[i]], i>>} \cup AliasesOf[Stock[i]] \X {Literal}
                   \in SUBSET (Key \X (Id \cup {Literal}))
      <3>1. i \in Id /\ Stock[i] \in Class
        BY StockClass DEF MadeAt
      <3> QED
        BY <3>1, NamesType
    <2> QED
      BY <2>1 DEF MadeStrings
  <1>7. \A p \in Place : \A i \in Has(p) : i \in MadeAt(p)
    BY <1>4 DEF Has
  <1>8. Exact
    <2> SUFFICES ASSUME NEW p \in Place, NEW i \in Has(p)
                 PROVE  /\ cls[i] \in Class
                        /\ \A k : <<k, i>> \in objects[p] <=> k \in Names(cls[i])
      BY DEF Exact
    <2>1. i \in MadeAt(p) /\ i \in Made
      BY <1>7 DEF MadeAt
    <2>2. cls[i] = Stock[i]
      BY <2>1, StockClass DEF MadeCls
    <2>3. \A k : <<k, i>> \in objects[p] <=> k \in Names(Stock[i])
      BY <1>4, <2>1
    <2> QED
      BY <2>1, <2>2, <2>3, StockClass
  <1>9. Typed
    BY <1>1, <1>3, <1>5, <1>6, ObjectsAssumption DEF Typed, Ops
  <1>10. \A i \in Id : i >= idcounter => \A p \in Place : i \notin Has(p)
    BY <1>7, ObjectsAssumption DEF MadeAt, Made, Id
  <1>11. \A i \in Id : \A p, q \in Place : i \in Has(p) /\ i \in Has(q) => p = q
    BY <1>7 DEF MadeAt
  <1>12. op = "idle"
    OBVIOUS
  <1>13. Referred
    <2>1. leaked = [i \in Id |-> 0]
      OBVIOUS
    <2>2. ASSUME NEW i \in Made PROVE Held(i) /\ ref[i] = Size(i) /\ Size(i) \in Nat
      <3>1. i \in Id /\ Stock[i] \in Class /\ HomeOf[Stock[i]] \in Place
        BY StockClass DEF Place
      <3>2. <<NameOf[Stock[i]], i>> \in objects[HomeOf[Stock[i]]]
        BY <1>4, <3>1, NamesType DEF MadeAt
      <3>3. i \in Has(HomeOf[Stock[i]])
        BY <3>2 DEF Has
      <3>4. ref[i] = Size(i) /\ Size(i) \in Nat
        BY <1>2, <3>1, FS_CardinalityType DEF MadeRef, MadeCls, Size
      <3> QED
        BY <3>1, <3>3, <3>4 DEF Held
    <2>3. ASSUME NEW i \in Id \ Made PROVE ~ Held(i) /\ ref[i] = 0
      BY <1>7 DEF Held, MadeAt, MadeRef
    <2>4. ~ Between
      BY <1>12 DEF Between
    <2> HIDE DEF Init
    <2> QED
      BY <2>1, <2>2, <2>3, <2>4 DEF Referred, Share
  <1> HIDE DEF Init
  <1> QED
    BY <1>8, <1>9, <1>10, <1>11, <1>12, <1>13
    DEF ObjectsInv, Fresh, Apart, Moving, Between, Taking, Dropping, Dropped

LEMMA CountType ==
    ASSUME Typed, NEW ps \in SUBSET (Key \X Id)
    PROVE  Dup(ref, ps) \in [Id -> Int] /\ Free(ref, ps) \in [Id -> Int]
  <1>1. \A i \in Id : Cardinality({pr \in ps : pr[2] = i}) \in Nat
    BY PairsFinite
  <1> QED
    BY <1>1 DEF Typed, Dup, Free

LEMMA SizeType ==
    ASSUME NEW i \in Id, cls[i] \in Class
    PROVE  Size(i) \in Nat /\ IsFiniteSet(Pairs(i)) /\ Cardinality(Pairs(i)) = Size(i)
  <1>1. IsFiniteSet(Names(cls[i])) /\ Cardinality(Names(cls[i])) \in Nat
    BY NamesType, FS_CardinalityType
  <1>2. IsFiniteSet({i}) /\ Cardinality({i}) = 1
    BY FS_Singleton
  <1>3. /\ IsFiniteSet(Names(cls[i]) \X {i})
        /\ Cardinality(Names(cls[i]) \X {i}) = Cardinality(Names(cls[i])) * Cardinality({i})
    BY <1>1, <1>2, FS_Product
  <1> QED
    BY <1>1, <1>2, <1>3 DEF Size, Pairs

\* What the references of an insertion and of a deletion come to.
LEMMA DupIs ==
    ASSUME NEW i \in Id, cls[i] \in Class
    PROVE  \A j \in Id : Dup(ref, Pairs(i))[j] = ref[j] + IF j = i THEN Size(i) ELSE 0
  <1> SUFFICES ASSUME NEW j \in Id
               PROVE  Cardinality({pr \in Pairs(i) : pr[2] = j}) = IF j = i THEN Size(i) ELSE 0
    BY DEF Dup
  <1>1. CASE j = i
    <2>1. {pr \in Pairs(i) : pr[2] = i} = Pairs(i)
      BY PairsType
    <2> QED
      BY <1>1, <2>1, SizeType
  <1>2. CASE j # i
    <2>1. {pr \in Pairs(i) : pr[2] = j} = {}
      BY <1>2, PairsType
    <2> QED
      BY <1>2, <2>1, FS_EmptySet
  <1> QED
    BY <1>1, <1>2

LEMMA FreeIs ==
    ASSUME Typed, Exact, NEW p \in Place, NEW G \in SUBSET Has(p)
    PROVE  \A j \in Id :
             Free(ref, PairsOf(p, G))[j] = ref[j] - IF j \in G THEN Size(j) ELSE 0
  <1> SUFFICES ASSUME NEW j \in Id
               PROVE  Cardinality({pr \in PairsOf(p, G) : pr[2] = j})
                        = IF j \in G THEN Size(j) ELSE 0
    BY DEF Free
  <1>1. CASE j \in G
    <2>1. {pr \in PairsOf(p, G) : pr[2] = j} = Mine(p, j) /\ Mine(p, j) = Pairs(j)
      BY <1>1, MineIs DEF PairsOf
    <2>2. cls[j] \in Class
      BY <1>1 DEF Exact
    <2> QED
      BY <1>1, <2>1, <2>2, SizeType
  <1>2. CASE j \notin G
    <2>1. {pr \in PairsOf(p, G) : pr[2] = j} = {}
      BY <1>2 DEF PairsOf
    <2> QED
      BY <1>2, <2>1, FS_EmptySet
  <1> QED
    BY <1>1, <1>2

\* What is held has a class, and a size that is a number.
LEMMA HeldSize ==
    ASSUME Typed, Exact, NEW i \in Id, Held(i)
    PROVE  cls[i] \in Class /\ Size(i) \in Nat
  <1>1. cls[i] \in Class
    BY DEF Exact, Held
  <1> QED
    BY <1>1, SizeType

\* An action that leaves the maps alone.
LEMMA SameMaps ==
    ASSUME UNCHANGED <<objects, cls>>
    PROVE  (Exact => Exact') /\ \A p \in Place : Has(p)' = Has(p)
  BY DEF Exact, Has, Names

\* What deleting the objects G from a map removes.
LEMMA MinesAre ==
    ASSUME Typed, Exact, NEW p \in Place, NEW G \in SUBSET Has(p)
    PROVE  UNION {Mine(p, i) : i \in G} = {pr \in objects[p] : pr[2] \in G}
  <1>1. \A i \in G : Mine(p, i) = {pr \in objects[p] : pr[2] = i}
    BY MineIs
  <1> QED
    BY <1>1

LEMMA ListHas ==
    ASSUME Typed, NEW p \in Place, NEW k
    PROVE  List(p, k) \subseteq Has(p)
  BY DEF List, Has

\* The two maps of a handler.
LEMMA Apartness ==
    ASSUME Typed, Moving, Taking \/ Dropping \/ Dropped
    PROVE  actor \in Place /\ Here \in Place /\ Here \in Room /\ actor # Here
  BY ObjectsAssumption DEF Moving, Place, Here

\* A new object takes an id that is nowhere, and the next one is fresh again.
LEMMA CreateAll ==
    ASSUME Typed, Exact, Fresh, NEW r \in Room, NEW c \in Class, NEW G \in SUBSET Has(r),
           Create(r, idcounter, c, PairsOf(r, G))
    PROVE  /\ Exact' /\ Fresh'
           /\ objects' \in [Place -> SUBSET (Key \X Id)]
           /\ strings' \in [Place -> SUBSET Node]
           /\ cls' \in [Id -> Class \cup {NoClass}]
           /\ ref' \in [Id -> Int]
           /\ idcounter' \in 1..MaxId + 1
           /\ \A q \in Place :
                Has(q)' = IF q = r THEN (Has(q) \ G) \cup {idcounter} ELSE Has(q)
           /\ \A j \in Id :
                ref'[j] = IF j = idcounter THEN Cardinality(Names(cls'[j]))
                          ELSE ref[j] - IF j \in G THEN Size(j) ELSE 0
           /\ \A j \in Id : j # idcounter => cls'[j] = cls[j]
           /\ Cardinality(Names(cls'[idcounter])) \in Nat
  <1> DEFINE gone == PairsOf(r, G)
  <1>1. idcounter \in Id /\ idcounter' = idcounter + 1
    BY DEF Create
  <1>2. \A p \in Place : idcounter \notin Has(p)
    BY <1>1 DEF Fresh, Id
  <1>3. /\ Exact' /\ objects' \in [Place -> SUBSET (Key \X Id)]
        /\ \A q \in Place :
             Has(q)' = IF q = r THEN (Has(q) \ G) \cup {idcounter} ELSE Has(q)
    <2>1. PICK i \in Id : i = idcounter
      BY <1>1
    <2>2. Create(r, i, c, PairsOf(r, G)) /\ \A p \in Place : i \notin Has(p)
      BY <1>2, <2>1
    <2>3. /\ Exact' /\ objects' \in [Place -> SUBSET (Key \X Id)]
          /\ \A q \in Place : Has(q)' = IF q = r THEN (Has(q) \ G) \cup {i} ELSE Has(q)
      BY <2>1, <2>2, CreateHas
    <2> QED
      BY <2>1, <2>3
  <1>4. strings' \in [Place -> SUBSET Node] /\ cls' \in [Id -> Class \cup {NoClass}]
    BY <1>1, CreateType
  <1>5. ref' \in [Id -> Int]
    <2>1. gone \in SUBSET (Key \X Id)
      BY DEF Typed, Place, PairsOf
    <2>2. Free(ref, gone) \in [Id -> Int]
      BY <2>1, CountType
    <2>3. Cardinality(AliasesOf[c] \X {idcounter}) \in Nat
      <3>1. AliasesOf[c] \X {idcounter} \in SUBSET (Key \X Id)
        BY <1>1, NamesType
      <3> QED
        BY <3>1, PairsFinite
    <2> QED
      BY <2>2, <2>3 DEF Create
  <1>6. Fresh'
    BY <1>1, <1>3 DEF Fresh, Id
  <1>7. idcounter' \in 1..MaxId + 1
    BY <1>1, ObjectsAssumption DEF Id
  <1>8. \A j \in Id : j # idcounter =>
          /\ ref'[j] = ref[j] - IF j \in G THEN Size(j) ELSE 0
          /\ cls'[j] = cls[j]
    <2>1. \A j \in Id : Free(ref, gone)[j] = ref[j] - IF j \in G THEN Size(j) ELSE 0
      BY FreeIs DEF Place
    <2>2. Free(ref, gone) \in [Id -> Int]
      <3>1. gone \in SUBSET (Key \X Id)
        BY DEF Typed, Place, PairsOf
      <3> QED
        BY <3>1, CountType
    <2> QED
      BY <1>1, <2>1, <2>2 DEF Create, Typed
  <1>9. /\ ref'[idcounter] = Cardinality(Names(cls'[idcounter]))
        /\ Cardinality(Names(cls'[idcounter])) \in Nat
    <2>1. cls'[idcounter] = c
      BY <1>1 DEF Create, Typed
    <2>2. ref'[idcounter] = 1 + Cardinality(AliasesOf[c] \X {idcounter})
      <3>1. DOMAIN Free(ref, gone) = Id
        BY DEF Free
      <3> QED
        BY <1>1, <3>1 DEF Create, Free
    <2>3. IsFiniteSet(AliasesOf[c]) /\ Cardinality(AliasesOf[c]) \in Nat
      BY Aliases, FS_CardinalityType
    <2>4. Cardinality(AliasesOf[c] \X {idcounter}) = Cardinality(AliasesOf[c])
      <3>1. IsFiniteSet({idcounter}) /\ Cardinality({idcounter}) = 1
        BY FS_Singleton
      <3>2. Cardinality(AliasesOf[c] \X {idcounter})
              = Cardinality(AliasesOf[c]) * Cardinality({idcounter})
        BY <2>3, <3>1, FS_Product
      <3> QED
        BY <2>3, <3>1, <3>2
    <2>5. Cardinality(Names(c)) = 1 + Cardinality(AliasesOf[c])
      BY NamesType
    <2> QED
      BY <2>1, <2>2, <2>3, <2>4, <2>5
  <1> QED
    BY <1>1, <1>3, <1>4, <1>5, <1>6, <1>7, <1>8, <1>9

LEMMA ObjectsNext == ObjectsInv /\ [Next]_vars => ObjectsInv'
  <1> SUFFICES ASSUME ObjectsInv, [Next]_vars PROVE ObjectsInv'
    OBVIOUS
  <1>0. Typed /\ Exact /\ Fresh /\ Apart /\ Moving /\ Referred
    BY DEF ObjectsInv
  <1> DEFINE Goal == Typed' /\ Exact' /\ Fresh' /\ Apart' /\ Moving' /\ Referred'
  <1>1. ASSUME NEW u \in User, UserdbAdd(u) PROVE Goal
    <2>1. UNCHANGED <<objects, cls>>
      BY <1>1 DEF UserdbAdd, maps, heap
    <2>2. Exact' /\ \A p \in Place : Has(p)' = Has(p)
      BY <1>0, <2>1, SameMaps
    <2>3. Typed'
      BY <1>0, <1>1 DEF Typed, UserdbAdd, ThenSave, maps, heap, Ops
    <2>4. Fresh' /\ Apart' /\ Moving'
      BY <1>0, <1>1, <2>2 DEF UserdbAdd, Ready, ThenSave, maps, heap, Fresh, Apart, Moving, Between, Taking, Dropping, Dropped
    <2>20. Referred'
      BY <1>0, <2>2, <1>1, <2>1 DEF UserdbAdd, Ready, ThenSave, maps, heap, Between, Referred, Share, Held, Size
    <2> QED
      BY <2>2, <2>3, <2>4, <2>20
  <1>2. ASSUME NEW u \in User, UserdbRemove(u) PROVE Goal
    <2>1. u \in Place /\ objects[u] = {pr \in objects[u] : pr[2] \in Has(u)}
      BY DEF Place, Has
    <2>2. cls' = cls /\ Delete(u, {pr \in objects[u] : pr[2] \in Has(u)})
      BY <1>2, <2>1 DEF UserdbRemove
    <2>3. /\ Exact' /\ objects' \in [Place -> SUBSET (Key \X Id)]
          /\ \A q \in Place : Has(q)' = IF q = u THEN Has(q) \ Has(u) ELSE Has(q)
      BY <1>0, <2>1, <2>2, DeleteHas
    <2>4. ref' \in [Id -> Int]
      <3>1. objects[u] \in SUBSET (Key \X Id)
        BY <1>0, <2>1 DEF Typed
      <3> QED
        BY <1>0, <1>2, <3>1, CountType DEF UserdbRemove
    <2>5. strings' \in [Place -> SUBSET Node]
      BY <1>0, <2>1, <2>2, DeleteType
    <2>6. Typed'
      BY <1>0, <1>2, <2>3, <2>4, <2>5 DEF Typed, UserdbRemove, ThenSave, Ops, Node
    <2>7. Fresh' /\ Apart' /\ Moving'
      BY <1>0, <1>2, <2>3 DEF UserdbRemove, Ready, ThenSave, Fresh, Apart, Moving, Between, Taking, Dropping, Dropped
    <2>17. ref' = Free(ref, PairsOf(u, Has(u)))
      BY <1>2, <2>1 DEF UserdbRemove, Ready, ThenSave, PairsOf
    <2>18. \A j \in Id : ref'[j] = ref[j] - IF j \in Has(u) THEN Size(j) ELSE 0
      BY <1>0, <2>1, <2>17, FreeIs
    <2>19. \A j \in Id : Held(j) => Size(j) \in Nat
      BY <1>0, HeldSize
    <2>20. Referred'
      BY <1>0, <1>2, <2>1, <2>3, <2>18, <2>19 DEF Typed, UserdbRemove, Ready, ThenSave, Apart, Moving, Between, Referred, Share, Held, Size
    <2> QED
      BY <2>3, <2>6, <2>7, <2>20
  <1>3. UNCHANGED <<maps, heap>> => Exact' /\ Fresh' /\ \A p \in Place : Has(p)' = Has(p)
    <2> SUFFICES ASSUME UNCHANGED <<maps, heap>>
                 PROVE  Exact' /\ Fresh' /\ \A p \in Place : Has(p)' = Has(p)
      OBVIOUS
    <2>1. UNCHANGED <<objects, cls, idcounter>>
      BY DEF maps, heap
    <2>2. Exact' /\ \A p \in Place : Has(p)' = Has(p)
      BY <1>0, <2>1, SameMaps
    <2> QED
      BY <1>0, <2>1, <2>2 DEF Fresh
  <1>4. ASSUME NEW u \in User, Enter(u) PROVE Goal
    <2>1. UNCHANGED <<maps, heap>>
      BY <1>4 DEF Enter, Ready, loop
    <2>2. Typed'
      BY <1>0, <1>4, <2>1, ObjectsAssumption DEF Typed, Enter, Ready, loop, maps, heap, Ops
    <2>3. Apart' /\ Moving'
      BY <1>0, <1>3, <1>4, <2>1 DEF Enter, Ready, loop, Apart, Moving, Between, Taking, Dropping, Dropped, Here, Place
    <2>20. Referred'
      BY <1>0, <1>3, <1>4, <2>1 DEF Enter, Ready, loop, maps, heap, Between, Referred, Share, Held, Size
    <2> QED
      BY <1>3, <2>1, <2>2, <2>3, <2>20
  <1>5. ASSUME NEW u \in User, Leave(u) PROVE Goal
    <2>1. UNCHANGED <<maps, heap>>
      BY <1>5 DEF Leave, Asks, Ready, loop
    <2>2. Typed'
      BY <1>0, <1>5, <2>1 DEF Typed, Leave, Asks, Ready, loop, maps, heap, Ops
    <2>3. Apart' /\ Moving'
      BY <1>0, <1>3, <1>5, <2>1 DEF Leave, Asks, Ready, loop, Apart, Moving, Between, Taking, Dropping, Dropped, Here, Place
    <2>20. Referred'
      BY <1>0, <1>3, <1>5, <2>1 DEF Leave, Asks, Ready, loop, maps, heap, Between, Referred, Share, Held, Size
    <2> QED
      BY <1>3, <2>1, <2>2, <2>3, <2>20
  <1>6. ASSUME NEW u \in User, LookupFails(u) PROVE Goal
    <2>1. UNCHANGED <<maps, heap>>
      BY <1>6 DEF LookupFails, Asks, Ready, Segfault, loop, world
    <2>2. Typed'
      BY <1>0, <1>6, <2>1 DEF Typed, LookupFails, Asks, Ready, Segfault, loop, world, maps, heap, Ops
    <2>3. Apart' /\ Moving'
      BY <1>0, <1>3, <1>6, <2>1 DEF LookupFails, Asks, Ready, Segfault, loop, world, Apart, Moving, Between, Taking, Dropping, Dropped, Here, Place
    <2>20. Referred'
      BY <1>0, <1>3, <1>6, <2>1 DEF LookupFails, Asks, Ready, Segfault, loop, world, maps, heap, Between, Referred, Share, Held, Size
    <2> QED
      BY <1>3, <2>1, <2>2, <2>3, <2>20
  <1>7. ASSUME NEW u \in User, NEW r \in Room, Walk(u, r) PROVE Goal
    <2>1. UNCHANGED <<maps, heap>>
      BY <1>7 DEF Walk, Asks, Ready, loop
    <2>2. Typed'
      BY <1>0, <1>7, <2>1 DEF Typed, Walk, Asks, Ready, loop, maps, heap, Ops
    <2>3. Apart' /\ Moving'
      BY <1>0, <1>3, <1>7, <2>1 DEF Walk, Asks, Ready, loop, Apart, Moving, Between, Taking, Dropping, Dropped, Here, Place
    <2>20. Referred'
      BY <1>0, <1>3, <1>7, <2>1 DEF Walk, Asks, Ready, loop, maps, heap, Between, Referred, Share, Held, Size
    <2> QED
      BY <1>3, <2>1, <2>2, <2>3, <2>20
  <1>8. ASSUME NEW u \in User, NEW k, ReqTake(u, k) PROVE Goal
    <2>0. where[u] \in Room /\ where[u] \in Place /\ List(where[u], k) \subseteq Has(where[u]) /\ Has(where[u]) \subseteq Id
      BY <1>0, <1>8, ListHas, HasType DEF Typed, ReqTake, Asks, Place
    <2>1. UNCHANGED <<maps, heap>>
      BY <1>8 DEF ReqTake, Asks, Ready, world
    <2>2. Typed'
      BY <1>0, <1>8, <2>0, <2>1 DEF Typed, ReqTake, Asks, Ready, world, maps, heap, Ops
    <2>3. Apart' /\ Moving'
      BY <1>0, <1>3, <1>8, <2>0, <2>1 DEF ReqTake, Asks, Ready, world, Apart, Moving, Between, Taking, Dropping, Dropped, Here, Place
    <2>20. Referred'
      BY <1>0, <1>3, <1>8, <2>1 DEF ReqTake, Asks, Ready, world, maps, heap, Between, Referred, Share, Held, Size
    <2> QED
      BY <1>3, <2>1, <2>2, <2>3, <2>20
  <1>9. ASSUME NEW u \in User, NEW k, ReqDrop(u, k) PROVE Goal
    <2>0. where[u] \in Room /\ u \in Place /\ List(u, k) \subseteq Has(u) /\ Has(u) \subseteq Id
      BY <1>0, <1>9, ListHas, HasType DEF Typed, ReqDrop, Asks, Place
    <2>1. UNCHANGED <<maps, heap>>
      BY <1>9 DEF ReqDrop, Asks, Ready, world
    <2>2. Typed'
      BY <1>0, <1>9, <2>0, <2>1 DEF Typed, ReqDrop, Asks, Ready, world, maps, heap, Ops
    <2>3. Apart' /\ Moving'
      BY <1>0, <1>3, <1>9, <2>0, <2>1 DEF ReqDrop, Asks, Ready, world, Apart, Moving, Between, Taking, Dropping, Dropped, Here, Place
    <2>20. Referred'
      BY <1>0, <1>3, <1>9, <2>1 DEF ReqDrop, Asks, Ready, world, maps, heap, Between, Referred, Share, Held, Size
    <2> QED
      BY <1>3, <2>1, <2>2, <2>3, <2>20
  <1>10. ASSUME NEW i \in Id, TakeRefused(i) PROVE Goal
    <2>1. UNCHANGED <<maps, heap>>
      BY <1>10 DEF TakeRefused, world
    <2>2. Typed'
      BY <1>0, <1>10, <2>1 DEF Typed, TakeRefused, world, maps, heap, Ops
    <2>3. Apart' /\ Moving'
      BY <1>0, <1>3, <1>10, <2>1 DEF TakeRefused, world, Apart, Moving, Between, Taking, Dropping, Dropped, Here, Place
    <2>20. Referred'
      BY <1>0, <1>3, <1>10, <2>1 DEF TakeRefused, world, maps, heap, Between, Referred, Share, Held, Size
    <2> QED
      BY <1>3, <2>1, <2>2, <2>3, <2>20
  <1>11. ASSUME LoopDone PROVE Goal
    <2>1. UNCHANGED <<maps, heap>>
      BY <1>11 DEF LoopDone, world
    <2>2. Typed'
      BY <1>0, <1>11, <2>1 DEF Typed, LoopDone, world, maps, heap, Ops
    <2>3. Apart' /\ Moving'
      BY <1>0, <1>3, <1>11, <2>1 DEF LoopDone, world, Apart, Moving, Between, Taking, Dropping, Dropped, Here, Place
    <2>20. Referred'
      BY <1>0, <1>3, <1>11, <2>1 DEF LoopDone, world, maps, heap, Between, Referred, Share, Held, Size
    <2> QED
      BY <1>3, <2>1, <2>2, <2>3, <2>20
  <1>12. ASSUME SaveState PROVE Goal
    <2>1. UNCHANGED <<maps, heap>>
      BY <1>12 DEF SaveState, Idle, world
    <2>2. Typed'
      BY <1>0, <1>12, <2>1 DEF Typed, SaveState, Idle, world, maps, heap, Ops
    <2>3. Apart' /\ Moving'
      BY <1>0, <1>3, <1>12, <2>1 DEF SaveState, Idle, world, Apart, Moving, Between, Taking, Dropping, Dropped, Here, Place
    <2>20. Referred'
      BY <1>0, <1>3, <1>12, <2>1 DEF SaveState, Idle, world, maps, heap, Between, Referred, Share, Held, Size
    <2> QED
      BY <1>3, <2>1, <2>2, <2>3, <2>20
  <1>13. ASSUME DropKept PROVE Goal
    <2>1. UNCHANGED <<maps, heap>>
      BY <1>13 DEF DropKept, NextDrop, world
    <2>2. Typed'
      BY <1>0, <1>13, <2>1 DEF Typed, DropKept, NextDrop, world, maps, heap, Ops
    <2>3. Apart' /\ Moving'
      BY <1>0, <1>3, <1>13, <2>1 DEF DropKept, NextDrop, world, Apart, Moving, Between, Taking, Dropping, Dropped, Here, Place
    <2>20. Referred'
      BY <1>0, <1>3, <1>13, <2>1 DEF DropKept, NextDrop, world, maps, heap, Between, Referred, Share, Held, Size
    <2> QED
      BY <1>3, <2>1, <2>2, <2>3, <2>20
  <1>14. ASSUME UNCHANGED vars PROVE Goal
    <2>1. UNCHANGED <<maps, heap>>
      BY <1>14 DEF vars, loop, world
    <2>2. Typed'
      BY <1>0, <1>14, <2>1 DEF Typed, vars, loop, world, maps, heap, Ops
    <2>3. Apart' /\ Moving'
      BY <1>0, <1>3, <1>14, <2>1 DEF vars, loop, world, Apart, Moving, Between, Taking, Dropping, Dropped, Here, Place
    <2>20. Referred'
      BY <1>0, <1>3, <1>14, <2>1 DEF vars, loop, world, maps, heap, Between, Referred, Share, Held, Size
    <2> QED
      BY <1>3, <2>1, <2>2, <2>3, <2>20
  <1>15. ASSUME NEW i \in Id, TakeAdd(i), actor \notin recs PROVE Goal
    <2>1. UNCHANGED <<maps, heap>>
      BY <1>15 DEF TakeAdd, Segfault
    <2>2. Typed'
      BY <1>0, <1>15, <2>1 DEF Typed, TakeAdd, Segfault, loop, maps, heap
    <2>3. Apart' /\ Moving'
      BY <1>0, <1>3, <1>15, <2>1 DEF TakeAdd, Segfault, loop, Apart, Moving, Between, Taking, Dropping, Dropped, Here, Place
    <2>20. Referred'
      BY <1>0, <1>3, <1>15, <2>1 DEF TakeAdd, Segfault, loop, maps, heap, Between, Referred, Share, Held, Size
    <2> QED
      BY <1>3, <2>1, <2>2, <2>3, <2>20
  <1>16. ASSUME NEW i \in Id, TakeAdd(i), actor \in recs PROVE Goal
    <2>1. /\ actor \in Place /\ Here \in Place /\ actor # Here
          /\ i \in Id /\ cls[i] \in Class
          /\ Insert(actor, i) /\ cls' = cls
      BY <1>0, <1>16, Apartness, HasType DEF TakeAdd, world, Exact, Apart, Moving, Between, Taking, Dropping, Dropped
    <2>2. /\ Exact' /\ objects' \in [Place -> SUBSET (Key \X Id)]
          /\ \A q \in Place : Has(q)' = IF q = actor THEN Has(q) \cup {i} ELSE Has(q)
      BY <1>0, <2>1, InsertHas
    <2>3. ref' \in [Id -> Int]
      <3>1. Pairs(i) \in SUBSET (Key \X Id)
        BY <2>1, PairsType
      <3>2. Dup(ref, Pairs(i)) \in [Id -> Int]
        BY <1>0, <3>1, CountType
      <3> QED
        BY <1>16, <2>1, <3>2 DEF TakeAdd, world
    <2>4. strings' \in [Place -> SUBSET Node]
      BY <1>0, <2>1, InsertType
    <2>5. Typed'
      BY <1>0, <1>16, <2>1, <2>2, <2>3, <2>4 DEF Typed, TakeAdd, world, Ops, Node
    <2>6. Fresh'
      BY <1>0, <1>16, <2>1, <2>2, Apartness DEF TakeAdd, world, Fresh, Moving, Taking, Dropping, Dropped, Between
    <2>7. Apart' /\ Moving'
      BY <1>0, <1>16, <2>1, <2>2 DEF TakeAdd, world, Apart, Moving, Between, Taking, Dropping, Dropped, Here
    <2>18. \A j \in Id : Dup(ref, Pairs(i))[j] = ref[j] + IF j = i THEN Size(i) ELSE 0
      BY <2>1, DupIs
    <2>19. Size(i) \in Nat /\ Held(i) /\ ~ Between
      BY <1>0, <1>16, <2>1, SizeType DEF TakeAdd, world, Held, Moving, Between, Taking, Dropping, Dropped
    <2>20. Referred'
      BY <1>0, <1>16, <2>1, <2>2, <2>18, <2>19 DEF Typed, TakeAdd, world, Between, Referred, Share, Held, Size
    <2> QED
      BY <2>2, <2>5, <2>6, <2>7, <2>20
  <1>17. ASSUME NEW i \in Id, DropAdd(i) PROVE Goal
    <2>1. /\ actor \in Place /\ Here \in Place /\ Here # actor
          /\ i \in Id /\ cls[i] \in Class
          /\ Insert(Here, i) /\ cls' = cls
      BY <1>0, <1>17, Apartness, HasType DEF DropAdd, world, Exact, Apart, Moving, Between, Taking, Dropping, Dropped
    <2>2. /\ Exact' /\ objects' \in [Place -> SUBSET (Key \X Id)]
          /\ \A q \in Place : Has(q)' = IF q = Here THEN Has(q) \cup {i} ELSE Has(q)
      BY <1>0, <2>1, InsertHas
    <2>3. ref' \in [Id -> Int]
      <3>1. Pairs(i) \in SUBSET (Key \X Id)
        BY <2>1, PairsType
      <3>2. Dup(ref, Pairs(i)) \in [Id -> Int]
        BY <1>0, <3>1, CountType
      <3> QED
        BY <1>17, <2>1, <3>2 DEF DropAdd, world
    <2>4. strings' \in [Place -> SUBSET Node]
      BY <1>0, <2>1, InsertType
    <2>5. Typed'
      BY <1>0, <1>17, <2>1, <2>2, <2>3, <2>4 DEF Typed, DropAdd, world, Ops, Node
    <2>6. Fresh'
      BY <1>0, <1>17, <2>1, <2>2, Apartness DEF DropAdd, world, Fresh, Moving, Taking, Dropping, Dropped, Between
    <2>7. Apart' /\ Moving'
      BY <1>0, <1>17, <2>1, <2>2 DEF DropAdd, world, Apart, Moving, Between, Taking, Dropping, Dropped, Here
    <2>18. \A j \in Id : Dup(ref, Pairs(i))[j] = ref[j] + IF j = i THEN Size(i) ELSE 0
      BY <2>1, DupIs
    <2>19. Size(i) \in Nat /\ Held(i) /\ ~ Between
      BY <1>0, <1>17, <2>1, SizeType DEF DropAdd, world, Held, Moving, Between, Taking, Dropping, Dropped
    <2>20. Referred'
      BY <1>0, <1>17, <2>1, <2>2, <2>18, <2>19 DEF Typed, DropAdd, world, Between, Referred, Share, Held, Size
    <2> QED
      BY <2>2, <2>5, <2>6, <2>7, <2>20
  <1>18. ASSUME DropRefused PROVE Goal
    <2>1. /\ actor \in Place /\ Here \in Place /\ actor # Here
          /\ cur \in Id /\ cls[cur] \in Class
          /\ Insert(actor, cur) /\ cls' = cls
      BY <1>0, <1>18, Apartness, HasType DEF DropRefused, world, Exact, Apart, Moving, Between, Taking, Dropping, Dropped
    <2>2. /\ Exact' /\ objects' \in [Place -> SUBSET (Key \X Id)]
          /\ \A q \in Place : Has(q)' = IF q = actor THEN Has(q) \cup {cur} ELSE Has(q)
      BY <1>0, <2>1, InsertHas
    <2>3. ref' \in [Id -> Int]
      <3>1. Pairs(cur) \in SUBSET (Key \X Id)
        BY <2>1, PairsType
      <3>2. Dup(ref, Pairs(cur)) \in [Id -> Int]
        BY <1>0, <3>1, CountType
      <3> QED
        BY <1>18, <2>1, <3>2 DEF DropRefused, world
    <2>4. strings' \in [Place -> SUBSET Node]
      BY <1>0, <2>1, InsertType
    <2>5. Typed'
      BY <1>0, <1>18, <2>1, <2>2, <2>3, <2>4 DEF Typed, DropRefused, world, Ops, Node
    <2>6. Fresh'
      BY <1>0, <1>18, <2>1, <2>2, Apartness DEF DropRefused, world, Fresh, Moving, Taking, Dropping, Dropped, Between
    <2>7. Apart' /\ Moving'
      BY <1>0, <1>18, <2>1, <2>2 DEF DropRefused, world, Apart, Moving, Between, Taking, Dropping, Dropped, Here
    <2>18. \A j \in Id : Dup(ref, Pairs(cur))[j] = ref[j] + IF j = cur THEN Size(cur) ELSE 0
      BY <2>1, DupIs
    <2>19. Size(cur) \in Nat /\ Held(cur) /\ ~ Between
      BY <1>0, <1>18, <2>1, SizeType DEF DropRefused, world, Held, Moving, Between, Taking, Dropping, Dropped
    <2>20. Referred'
      <3> DEFINE one(j) == IF j = cur THEN 1 ELSE 0
      <3>1. \A j \in Id : ref'[j] = ref[j] + (IF j = cur THEN Size(cur) ELSE 0) + one(j)
        <4>1. Pairs(cur) \in SUBSET (Key \X Id)
          BY <2>1, PairsType
        <4>2. Dup(ref, Pairs(cur)) \in [Id -> Int]
          BY <1>0, <4>1, CountType
        <4>3. ref' = [Dup(ref, Pairs(cur)) EXCEPT ![cur] = @ + 1]
          BY <1>18 DEF DropRefused
        <4> QED
          BY <2>1, <2>18, <4>2, <4>3
      <3>2. \A j \in Id : leaked'[j] = leaked[j] + one(j)
        BY <1>0, <1>18, <2>1 DEF Typed, DropRefused
      <3>3. ~ (cur >= idcounter) /\ idcounter' = idcounter
        BY <1>0, <1>18, <2>1, <2>19 DEF Fresh, Held, DropRefused
      <3>4. Between' /\ cur' = cur
        BY <1>18 DEF DropRefused, Between
      <3>5. \A j \in Id : j # cur => (Held(j)' <=> Held(j))
        BY <2>2 DEF Held
      <3> QED
        BY <1>0, <2>1, <2>19, <3>1, <3>2, <3>3, <3>4, <3>5 DEF Typed, Referred, Share, Size
    <2> QED
      BY <2>2, <2>5, <2>6, <2>7, <2>20
  <1>19. ASSUME TakeDel PROVE Goal
    <2>1. Here \in Place /\ {cur} \in SUBSET Has(Here) /\ actor \in Place /\ actor # Here
      BY <1>0, <1>19, Apartness, ListHas DEF TakeDel, Moving, Between, Taking
    <2>2. Mine(Here, cur) = {pr \in objects[Here] : pr[2] \in {cur}}
      BY <1>0, <2>1, MinesAre, MineIs
    <2>3. cls' = cls /\ Delete(Here, {pr \in objects[Here] : pr[2] \in {cur}})
      BY <1>19, <2>2 DEF TakeDel, world
    <2>4. /\ Exact' /\ objects' \in [Place -> SUBSET (Key \X Id)]
          /\ \A q \in Place : Has(q)' = IF q = Here THEN Has(q) \ {cur} ELSE Has(q)
      BY <1>0, <2>1, <2>3, DeleteHas
    <2>5. ref' \in [Id -> Int]
      <3>1. Mine(Here, cur) \in SUBSET (Key \X Id)
        BY <1>0, <2>1, <2>2 DEF Typed
      <3>2. Free(ref, Mine(Here, cur)) \in [Id -> Int]
        BY <1>0, <3>1, CountType
      <3> QED
        BY <1>19, <3>2 DEF TakeDel, world
    <2>6. strings' \in [Place -> SUBSET Node]
      BY <1>0, <2>1, <2>3, DeleteType
    <2>7. Typed'
      BY <1>0, <1>19, <2>4, <2>5, <2>6 DEF Typed, TakeDel, world, Ops, Node
    <2>8. Fresh' /\ Apart' /\ Moving'
      BY <1>0, <1>19, <2>1, <2>4 DEF TakeDel, world, Fresh, Apart, Moving, Between, Taking, Dropping, Dropped, Here
    <2>17. ref' = Free(ref, PairsOf(Here, {cur}))
      BY <1>19, <2>2 DEF TakeDel, world, PairsOf
    <2>18. \A j \in Id : ref'[j] = ref[j] - IF j \in {cur} THEN Size(j) ELSE 0
      BY <1>0, <2>1, <2>17, FreeIs
    <2>19. \A j \in Id : Held(j) => Size(j) \in Nat
      BY <1>0, HeldSize
    <2>20. Referred'
      BY <1>0, <1>19, <2>1, <2>4, <2>18, <2>19 DEF Typed, TakeDel, world, Apart, Moving, Between, Referred, Share, Held, Size
    <2> QED
      BY <2>4, <2>7, <2>8, <2>20
  <1>20. ASSUME DropDel PROVE Goal
    <2>1. actor \in Place /\ {cur} \in SUBSET Has(actor) /\ Here \in Place /\ actor # Here
      BY <1>0, <1>20, Apartness, ListHas DEF DropDel, Moving, Between, Dropping
    <2>2. Mine(actor, cur) = {pr \in objects[actor] : pr[2] \in {cur}}
      BY <1>0, <2>1, MinesAre, MineIs
    <2>3. cls' = cls /\ Delete(actor, {pr \in objects[actor] : pr[2] \in {cur}})
      BY <1>20, <2>2 DEF DropDel, world
    <2>4. /\ Exact' /\ objects' \in [Place -> SUBSET (Key \X Id)]
          /\ \A q \in Place : Has(q)' = IF q = actor THEN Has(q) \ {cur} ELSE Has(q)
      BY <1>0, <2>1, <2>3, DeleteHas
    <2>5. ref' \in [Id -> Int]
      <3>1. Mine(actor, cur) \in SUBSET (Key \X Id)
        BY <1>0, <2>1, <2>2 DEF Typed
      <3>2. Free(ref, Mine(actor, cur)) \in [Id -> Int]
        BY <1>0, <3>1, CountType
      <3> QED
        BY <1>20, <3>2 DEF DropDel, world
    <2>6. strings' \in [Place -> SUBSET Node]
      BY <1>0, <2>1, <2>3, DeleteType
    <2>7. Typed'
      BY <1>0, <1>20, <2>4, <2>5, <2>6 DEF Typed, DropDel, world, Ops, Node
    <2>8. Fresh' /\ Apart' /\ Moving'
      BY <1>0, <1>20, <2>1, <2>4 DEF DropDel, world, Fresh, Apart, Moving, Between, Taking, Dropping, Dropped, Here
    <2>17. ref' = Free(ref, PairsOf(actor, {cur}))
      BY <1>20, <2>2 DEF DropDel, world, PairsOf
    <2>18. \A j \in Id : ref'[j] = ref[j] - IF j \in {cur} THEN Size(j) ELSE 0
      BY <1>0, <2>1, <2>17, FreeIs
    <2>19. \A j \in Id : Held(j) => Size(j) \in Nat
      BY <1>0, HeldSize
    <2>20. Referred'
      BY <1>0, <1>20, <2>1, <2>4, <2>18, <2>19 DEF Typed, DropDel, world, Apart, Moving, Between, Referred, Share, Held, Size
    <2> QED
      BY <2>4, <2>7, <2>8, <2>20
  <1>21. ASSUME UndoDel PROVE Goal
    <2>1. Here \in Place /\ {cur} \in SUBSET Has(Here) /\ actor \in Place /\ actor # Here
      BY <1>0, <1>21, Apartness, ListHas DEF UndoDel, Moving, Between, Dropped
    <2>2. Mine(Here, cur) = {pr \in objects[Here] : pr[2] \in {cur}}
      BY <1>0, <2>1, MinesAre, MineIs
    <2>3. cls' = cls /\ Delete(Here, {pr \in objects[Here] : pr[2] \in {cur}})
      BY <1>21, <2>2 DEF UndoDel, NextDrop, world
    <2>4. /\ Exact' /\ objects' \in [Place -> SUBSET (Key \X Id)]
          /\ \A q \in Place : Has(q)' = IF q = Here THEN Has(q) \ {cur} ELSE Has(q)
      BY <1>0, <2>1, <2>3, DeleteHas
    <2>5. ref' \in [Id -> Int]
      <3>1. Mine(Here, cur) \in SUBSET (Key \X Id)
        BY <1>0, <2>1, <2>2 DEF Typed
      <3>2. Free(ref, Mine(Here, cur)) \in [Id -> Int]
        BY <1>0, <3>1, CountType
      <3> QED
        BY <1>21, <3>2 DEF UndoDel, NextDrop, world
    <2>6. strings' \in [Place -> SUBSET Node]
      BY <1>0, <2>1, <2>3, DeleteType
    <2>7. Typed'
      BY <1>0, <1>21, <2>4, <2>5, <2>6 DEF Typed, UndoDel, NextDrop, world, Ops, Node
    <2>8. Fresh' /\ Apart' /\ Moving'
      BY <1>0, <1>21, <2>1, <2>4 DEF UndoDel, NextDrop, world, Fresh, Apart, Moving, Between, Taking, Dropping, Dropped, Here
    <2>17. ref' = Free(ref, PairsOf(Here, {cur}))
      BY <1>21, <2>2 DEF UndoDel, NextDrop, world, PairsOf
    <2>18. \A j \in Id : ref'[j] = ref[j] - IF j \in {cur} THEN Size(j) ELSE 0
      BY <1>0, <2>1, <2>17, FreeIs
    <2>19. \A j \in Id : Held(j) => Size(j) \in Nat
      BY <1>0, HeldSize
    <2>20. Referred'
      BY <1>0, <1>21, <2>1, <2>4, <2>18, <2>19 DEF Typed, UndoDel, NextDrop, world, Apart, Moving, Between, Referred, Share, Held, Size
    <2> QED
      BY <2>4, <2>7, <2>8, <2>20
  <1>22. ASSUME NEW u \in User, NEW i \in Id, Put(u, i) PROVE Goal
    <2>1. u \in Place /\ {i} \in SUBSET Has(u)
      BY <1>0, <1>22, Apartness, ListHas DEF Put, Asks, Ready, Place, List, Has
    <2>2. Mine(u, i) = {pr \in objects[u] : pr[2] \in {i}}
      BY <1>0, <2>1, MinesAre, MineIs
    <2>3. cls' = cls /\ Delete(u, {pr \in objects[u] : pr[2] \in {i}})
      BY <1>22, <2>2 DEF Put, Asks, Ready, loop
    <2>4. /\ Exact' /\ objects' \in [Place -> SUBSET (Key \X Id)]
          /\ \A q \in Place : Has(q)' = IF q = u THEN Has(q) \ {i} ELSE Has(q)
      BY <1>0, <2>1, <2>3, DeleteHas
    <2>5. ref' \in [Id -> Int]
      <3>1. Mine(u, i) \in SUBSET (Key \X Id)
        BY <1>0, <2>1, <2>2 DEF Typed
      <3>2. Free(ref, Mine(u, i)) \in [Id -> Int]
        BY <1>0, <3>1, CountType
      <3> QED
        BY <1>22, <3>2 DEF Put, Asks, Ready, loop
    <2>6. strings' \in [Place -> SUBSET Node]
      BY <1>0, <2>1, <2>3, DeleteType
    <2>7. Typed'
      BY <1>0, <1>22, <2>4, <2>5, <2>6 DEF Typed, Put, Asks, Ready, loop, Ops, Node
    <2>8. Fresh' /\ Apart' /\ Moving'
      BY <1>0, <1>22, <2>1, <2>4 DEF Put, Asks, Ready, loop, Fresh, Apart, Moving, Between, Taking, Dropping, Dropped, Here
    <2>17. ref' = Free(ref, PairsOf(u, {i}))
      BY <1>22, <2>2 DEF Put, Asks, Ready, loop, PairsOf
    <2>18. \A j \in Id : ref'[j] = ref[j] - IF j \in {i} THEN Size(j) ELSE 0
      BY <1>0, <2>1, <2>17, FreeIs
    <2>19. \A j \in Id : Held(j) => Size(j) \in Nat
      BY <1>0, HeldSize
    <2>20. Referred'
      BY <1>0, <1>22, <2>1, <2>4, <2>18, <2>19 DEF Typed, Put, Asks, Ready, loop, Apart, Moving, Between, Referred, Share, Held, Size
    <2> QED
      BY <2>4, <2>7, <2>8, <2>20
  <1>23. ASSUME NEW u \in User, NEW k, Eat(u, k) PROVE Goal
    <2>1. u \in Place /\ List(u, k) \in SUBSET Has(u)
      BY <1>0, <1>23, Apartness, ListHas DEF Eat, Place
    <2>2. UNION {Mine(u, i) : i \in List(u, k)} = {pr \in objects[u] : pr[2] \in List(u, k)}
      BY <1>0, <2>1, MinesAre, MineIs
    <2>3. cls' = cls /\ Delete(u, {pr \in objects[u] : pr[2] \in List(u, k)})
      BY <1>23, <2>2 DEF Eat, Asks, Ready, loop, world
    <2>4. /\ Exact' /\ objects' \in [Place -> SUBSET (Key \X Id)]
          /\ \A q \in Place : Has(q)' = IF q = u THEN Has(q) \ List(u, k) ELSE Has(q)
      BY <1>0, <2>1, <2>3, DeleteHas
    <2>5. ref' \in [Id -> Int]
      <3>1. UNION {Mine(u, i) : i \in List(u, k)} \in SUBSET (Key \X Id)
        BY <1>0, <2>1, <2>2 DEF Typed
      <3>2. Free(ref, UNION {Mine(u, i) : i \in List(u, k)}) \in [Id -> Int]
        BY <1>0, <3>1, CountType
      <3> QED
        BY <1>23, <3>2 DEF Eat, Asks, Ready, loop, world
    <2>6. strings' \in [Place -> SUBSET Node]
      BY <1>0, <2>1, <2>3, DeleteType
    <2>7. Typed'
      BY <1>0, <1>23, <2>4, <2>5, <2>6 DEF Typed, Eat, Asks, Ready, loop, world, Ops, Node
    <2>8. Fresh' /\ Apart' /\ Moving'
      BY <1>0, <1>23, <2>1, <2>4 DEF Eat, Asks, Ready, loop, world, Fresh, Apart, Moving, Between, Taking, Dropping, Dropped, Here
    <2>17. ref' = Free(ref, PairsOf(u, List(u, k)))
      BY <1>23, <2>2 DEF Eat, Asks, Ready, loop, world, PairsOf
    <2>18. \A j \in Id : ref'[j] = ref[j] - IF j \in List(u, k) THEN Size(j) ELSE 0
      BY <1>0, <2>1, <2>17, FreeIs
    <2>19. \A j \in Id : Held(j) => Size(j) \in Nat
      BY <1>0, HeldSize
    <2>20. Referred'
      BY <1>0, <1>23, <2>1, <2>4, <2>18, <2>19 DEF Typed, Eat, Asks, Ready, loop, world, Apart, Moving, Between, Referred, Share, Held, Size
    <2> QED
      BY <2>4, <2>7, <2>8, <2>20
  <1>24. ASSUME NEW u \in User, Dig(u) PROVE Goal
    <2>1. "fork" \in Room /\ "cpu" \in Class
      BY ObjectsAssumption DEF Class
    <2>2. Create("fork", idcounter, "cpu", PairsOf("fork", {}))
      <3>1. {pr \in objects["fork"] : pr[2] \in {}} = {}
        OBVIOUS
      <3> QED
        BY <1>24, <3>1 DEF Dig, PairsOf
    <2>3. /\ Exact' /\ Fresh'
          /\ objects' \in [Place -> SUBSET (Key \X Id)]
          /\ strings' \in [Place -> SUBSET Node]
          /\ cls' \in [Id -> Class \cup {NoClass}]
          /\ ref' \in [Id -> Int]
          /\ idcounter' \in 1..MaxId + 1
          /\ \A q \in Place :
               Has(q)' = IF q = "fork" THEN (Has(q) \ {}) \cup {idcounter} ELSE Has(q)
          /\ \A j \in Id :
               ref'[j] = IF j = idcounter THEN Cardinality(Names(cls'[j]))
                         ELSE ref[j] - IF j \in {} THEN Size(j) ELSE 0
          /\ \A j \in Id : j # idcounter => cls'[j] = cls[j]
          /\ Cardinality(Names(cls'[idcounter])) \in Nat
      BY <1>0, <2>1, <2>2, CreateAll
    <2>4. Typed'
      BY <1>0, <1>24, <2>3 DEF Typed, Dig, loop, Node
    <2>5. idcounter \in Id
      BY <2>2 DEF Create
    <2>6. Apart' /\ Moving'
      BY <1>0, <1>24, <2>3, <2>5 DEF Dig, Asks, Ready, loop, Fresh, Id, Apart, Moving, Between, Taking, Dropping, Dropped
    <2>7. idcounter' = idcounter + 1
      BY <2>2 DEF Create
    <2>8. \A j \in Id : Held(j) => Size(j) \in Nat
      BY <1>0, HeldSize
    <2>9. "fork" \in Place /\ ~ Between /\ ~ Between' /\ leaked' = leaked
      BY <1>24, <2>1 DEF Dig, Asks, Ready, loop, Between, Held, Place
    <2>10. Referred'
      <3> SUFFICES ASSUME NEW j \in Id
                   PROVE  ref'[j] = leaked'[j] + Share(j)' /\ (j >= idcounter' => leaked'[j] = 0)
        BY DEF Referred
      <3>1. ref[j] = leaked[j] + Share(j) /\ (j >= idcounter => leaked[j] = 0)
        BY <1>0 DEF Referred
      <3>2. j >= idcounter' => j >= idcounter /\ leaked'[j] = 0
        BY <2>5, <2>7, <2>9, <3>1 DEF Id
      <3>3. CASE j = idcounter
        <4>1. leaked[j] = 0 /\ Held(j)'
          BY <2>3, <2>5, <2>9, <3>1, <3>3 DEF Held, Id
        <4> QED
          BY <2>3, <2>9, <3>2, <3>3, <4>1 DEF Share, Size
      <3>4. CASE j # idcounter
        <4>1. Held(j)' <=> Held(j)
          BY <2>3, <3>4 DEF Held
        <4>2. Size(j)' = Size(j) /\ ref'[j] = ref[j]
          BY <1>0, <2>3, <3>4 DEF Size, Typed
        <4> QED
          BY <2>9, <3>1, <3>2, <4>1, <4>2 DEF Share
      <3> QED
        BY <3>3, <3>4
    <2> QED
      BY <2>3, <2>4, <2>6, <2>10
  <1>25. ASSUME DropFed PROVE Goal
    <2> DEFINE G == {cur} \cup List(Here, NameOf.bear)
    <2>1. "key" \in Class /\ Here \in Room /\ Here \in Place /\ actor \in Place /\ actor # Here
      BY <1>0, <1>25, Apartness DEF DropFed, Class, Dropped
    <2>2. G \in SUBSET Has(Here)
      BY <1>0, <1>25, <2>1, ListHas DEF DropFed, Moving
    <2>3. Mine(Here, cur) \cup UNION {Mine(Here, i) : i \in List(Here, NameOf.bear)}
            = {pr \in objects[Here] : pr[2] \in G}
      <3>1. UNION {Mine(Here, i) : i \in G} = {pr \in objects[Here] : pr[2] \in G}
        BY <1>0, <2>1, <2>2, MinesAre
      <3> QED
        BY <3>1
    <2>4. Create(Here, idcounter, "key", PairsOf(Here, G))
      BY <1>25, <2>3 DEF DropFed, PairsOf
    <2> HIDE DEF G
    <2>5. /\ Exact' /\ Fresh'
          /\ objects' \in [Place -> SUBSET (Key \X Id)]
          /\ strings' \in [Place -> SUBSET Node]
          /\ cls' \in [Id -> Class \cup {NoClass}]
          /\ ref' \in [Id -> Int]
          /\ idcounter' \in 1..MaxId + 1
          /\ \A q \in Place :
               Has(q)' = IF q = Here THEN (Has(q) \ G) \cup {idcounter} ELSE Has(q)
          /\ \A j \in Id :
               ref'[j] = IF j = idcounter THEN Cardinality(Names(cls'[j]))
                         ELSE ref[j] - IF j \in G THEN Size(j) ELSE 0
          /\ \A j \in Id : j # idcounter => cls'[j] = cls[j]
          /\ Cardinality(Names(cls'[idcounter])) \in Nat
      BY <1>0, <2>1, <2>2, <2>4, CreateAll
    <2>6. idcounter \in Id
      BY <2>4 DEF Create
    <2>7. Typed'
      BY <1>0, <1>25, <2>5 DEF Typed, DropFed, NextDrop, world, Ops, Node
    <2>8. Apart' /\ Moving'
      BY <1>0, <1>25, <2>1, <2>5, <2>6
      DEF DropFed, NextDrop, world, Fresh, Id, Apart, Moving, Between, Taking, Dropping, Dropped, Here
    <2>9. idcounter' = idcounter + 1
      BY <2>4 DEF Create
    <2>10. \A j \in Id : Held(j) => Size(j) \in Nat
      BY <1>0, HeldSize
    <2>11. ~ Between /\ ~ Between' /\ leaked' = leaked
      BY <1>25 DEF DropFed, NextDrop, Between
    <2>12. Referred'
      <3> SUFFICES ASSUME NEW j \in Id
                   PROVE  ref'[j] = leaked'[j] + Share(j)' /\ (j >= idcounter' => leaked'[j] = 0)
        BY DEF Referred
      <3>1. ref[j] = leaked[j] + Share(j) /\ (j >= idcounter => leaked[j] = 0)
        BY <1>0 DEF Referred
      <3>2. j >= idcounter' => j >= idcounter /\ leaked'[j] = 0
        BY <2>6, <2>9, <2>11, <3>1 DEF Id
      <3>3. CASE j = idcounter
        <4>1. leaked[j] = 0 /\ Held(j)'
          BY <2>1, <2>5, <2>6, <2>11, <3>1, <3>3 DEF Held, Id
        <4> QED
          BY <2>5, <2>11, <3>2, <3>3, <4>1 DEF Share, Size
      <3>4. CASE j # idcounter /\ j \in G
        <4>1. Held(j)
          BY <2>1, <2>2, <3>4 DEF Held
        <4>2. \A p \in Place : j \in Has(p) => p = Here
          BY <1>0, <2>1, <2>2, <2>11, <3>4 DEF Apart
        <4>3. ~ Held(j)'
          BY <2>5, <3>4, <4>2 DEF Held
        <4>4. Size(j) \in Nat /\ ref'[j] = ref[j] - Size(j)
          BY <2>5, <2>10, <3>4, <4>1
        <4>5. ref[j] = leaked[j] + Size(j) /\ leaked[j] \in Nat
          BY <1>0, <2>11, <3>1, <4>1 DEF Share, Typed
        <4> QED
          BY <2>11, <3>2, <4>3, <4>4, <4>5 DEF Share
      <3>5. CASE j # idcounter /\ j \notin G
        <4>1. Held(j)' <=> Held(j)
          BY <2>5, <3>5 DEF Held
        <4>2. Size(j)' = Size(j) /\ ref'[j] = ref[j]
          BY <1>0, <2>5, <3>5 DEF Size, Typed
        <4> QED
          BY <2>11, <3>1, <3>2, <4>1, <4>2 DEF Share
      <3> QED
        BY <3>3, <3>4, <3>5
    <2> QED
      BY <2>5, <2>7, <2>8, <2>12
  <1>26. Goal
    BY <1>1, <1>2, <1>4, <1>5, <1>6, <1>7, <1>8, <1>9, <1>10, <1>11, <1>12, <1>13, <1>14,
       <1>15, <1>16, <1>17, <1>18, <1>19, <1>20, <1>21, <1>22, <1>23, <1>24, <1>25
    DEF Next, Work, TakeStep, DropStep, HookStep
  <1> QED
    BY <1>26 DEF ObjectsInv

LEMMA ObjectsHold == Spec => []ObjectsInv
  <1> QED
    BY ObjectsInit, ObjectsNext, PTL DEF Spec

LEMMA HoldersAre ==
    ASSUME NEW i
    PROVE  Holders(i) = {p \in Place : i \in Has(p)}
  BY DEF Holders, Has

LEMMA PlacedNow == ObjectsInv => OnePlace
  <1> SUFFICES ASSUME ObjectsInv, NEW i \in Id
               PROVE  /\ IF Between /\ cur = i
                         THEN Holders(i) = {actor, Here}
                         ELSE \A p, q \in Holders(i) : p = q
                      /\ \A p \in Holders(i) : Pairs(i) \subseteq objects[p]
    BY DEF OnePlace
  <1>1. Typed /\ Exact /\ Apart /\ Moving
    BY DEF ObjectsInv
  <1>2. \A p \in Holders(i) : Pairs(i) \subseteq objects[p]
    <2> SUFFICES ASSUME NEW p \in Place, i \in Has(p)
                 PROVE  Pairs(i) \subseteq objects[p]
      BY HoldersAre
    <2>1. Mine(p, i) = Pairs(i)
      BY <1>1, MineIs
    <2> QED
      BY <2>1 DEF Mine
  <1>3. CASE Between /\ cur = i
    <2>1. actor \in Place /\ Here \in Place /\ actor # Here
      BY <1>1, <1>3, Apartness DEF Between, Taking, Dropping, Dropped
    <2>2. i \in Has(actor) /\ i \in Has(Here)
      BY <1>1, <1>3 DEF Moving
    <2>3. \A p \in Place : i \in Has(p) => p \in {actor, Here}
      BY <1>1, <2>1, <2>2 DEF Apart
    <2>4. Holders(i) = {actor, Here}
      BY <2>1, <2>2, <2>3, HoldersAre
    <2> QED
      BY <1>2, <1>3, <2>4
  <1>4. CASE ~ (Between /\ cur = i)
    <2>1. \A p, q \in Holders(i) : p = q
      BY <1>1, <1>4, HoldersAre DEF Apart
    <2> QED
      BY <1>2, <1>4, <2>1
  <1> QED
    BY <1>3, <1>4

\* Whatever the order of takes, drops, refusals and verbs (req_take, req_drop,
\* eat, put, dig and food_drop), an object is in one map at most, in the two of
\* its handler while that is between two calls, and always under all its names.
THEOREM Placed == Spec => []OnePlace
  <1> QED
    BY PlacedNow, ObjectsHold, PTL

\* The loops of req_take and req_drop never meet an object that has left the
\* map they walk, hooks and refusals included.
THEOREM TodoLives == Spec => []TodoLive
  <1>1. ObjectsInv => TodoLive
    <2> SUFFICES ASSUME ObjectsInv PROVE TodoLive
      OBVIOUS
    <2>1. Typed /\ Moving
      BY DEF ObjectsInv
    <2>2. Taking \/ Dropping \/ Dropped => actor \in Place /\ Here \in Place
      BY <2>1, Apartness
    <2> QED
      BY <2>1, <2>2, HoldersAre DEF TodoLive, Moving, Taking, Dropping, Dropped
  <1> QED
    BY <1>1, ObjectsHold, PTL

LEMMA CountedNat == ObjectsInv => ref \in [Id -> Nat]
  <1> SUFFICES ASSUME ObjectsInv, NEW i \in Id PROVE ref[i] \in Nat
    BY DEF ObjectsInv, Typed
  <1>1. Typed /\ Exact /\ Moving /\ Referred
    BY DEF ObjectsInv
  <1>2. Between /\ cur = i => Held(i)
    <2>1. Between => actor \in Place
      BY <1>1, Apartness DEF Between, Taking, Dropping, Dropped
    <2> QED
      BY <1>1, <2>1 DEF Held, Moving
  <1>3. Held(i) => Size(i) \in Nat
    BY <1>1, HeldSize
  <1> QED
    BY <1>1, <1>2, <1>3 DEF Referred, Share, Typed

\* Every handler and verb keeps the state well formed; no reference count
\* (obj_dup, obj_free) ever falls below zero.
THEOREM ObjectsTyped == Spec => []TypeOK
  <1>1. ObjectsInv => TypeOK
    BY CountedNat DEF ObjectsInv, Typed, TypeOK
  <1> QED
    BY <1>1, ObjectsHold, PTL

LEMMA BooksKept == ObjectsInv => RefBooks
  <1> SUFFICES ASSUME ObjectsInv, NEW i \in Id
               PROVE  ref[i] = leaked[i] +
                        Cardinality(UNION {{p} \X {pr \in objects[p] : pr[2] = i} : p \in Place})
    BY DEF RefBooks
  <1> DEFINE All == UNION {{p} \X {pr \in objects[p] : pr[2] = i} : p \in Place}
  <1>1. Typed /\ Exact /\ Apart /\ Moving /\ Referred
    BY DEF ObjectsInv
  <1>2. \A p \in Holders(i) : {pr \in objects[p] : pr[2] = i} = Pairs(i)
    BY <1>1, MineIs, HoldersAre
  <1>3. \A p \in Place \ Holders(i) : {pr \in objects[p] : pr[2] = i} = {}
    BY DEF Holders
  <1>4. All = Holders(i) \X Pairs(i)
    <2>1. Holders(i) \subseteq Place
      BY DEF Holders
    <2>2. All = UNION {{p} \X {pr \in objects[p] : pr[2] = i} : p \in Holders(i)}
      BY <1>3, <2>1
    <2>3. \A p \in Holders(i) : {p} \X {pr \in objects[p] : pr[2] = i} = {p} \X Pairs(i)
      BY <1>2
    <2>4. UNION {{p} \X {pr \in objects[p] : pr[2] = i} : p \in Holders(i)}
            = UNION {{p} \X Pairs(i) : p \in Holders(i)}
      BY <2>3
    <2>5. UNION {{p} \X Pairs(i) : p \in Holders(i)} = Holders(i) \X Pairs(i)
      OBVIOUS
    <2> QED
      BY <2>2, <2>4, <2>5
  <1>5. Held(i) <=> Holders(i) # {}
    BY HoldersAre DEF Held
  <1>6. OnePlace
    BY PlacedNow
  <1>7. Held(i) => cls[i] \in Class /\ Size(i) \in Nat
    BY <1>1, HeldSize
  <1> HIDE DEF All
  <1>8. CASE Between /\ cur = i
    <2>1. actor \in Place /\ Here \in Place /\ actor # Here
      BY <1>1, <1>8, Apartness DEF Between, Taking, Dropping, Dropped
    <2>2. Holders(i) = {actor, Here} /\ Held(i)
      BY <1>5, <1>6, <1>8 DEF OnePlace
    <2>3. IsFiniteSet(Holders(i)) /\ Cardinality(Holders(i)) = 2
      <3>1. IsFiniteSet({actor}) /\ Cardinality({actor}) = 1
        BY FS_Singleton
      <3>2. IsFiniteSet({actor} \cup {Here}) /\ Cardinality({actor} \cup {Here}) = 2
        <4>1. Here \notin {actor}
          BY <2>1
        <4>2. /\ IsFiniteSet({actor} \cup {Here})
              /\ Cardinality({actor} \cup {Here}) =
                   IF Here \in {actor} THEN Cardinality({actor}) ELSE Cardinality({actor}) + 1
          BY <3>1, FS_AddElement
        <4> QED
          BY <3>1, <4>1, <4>2
      <3>3. Holders(i) = {actor} \cup {Here}
        BY <2>2
      <3> QED
        BY <3>2, <3>3
    <2>4. IsFiniteSet(Pairs(i)) /\ Cardinality(Pairs(i)) = Size(i)
      BY <1>7, <2>2, SizeType
    <2>5. Cardinality(All) = Cardinality(Holders(i)) * Cardinality(Pairs(i))
      BY <1>4, <2>3, <2>4, FS_Product
    <2>6. Cardinality(All) = Size(i) + Size(i)
      BY <1>7, <2>2, <2>3, <2>4, <2>5
    <2> QED
      BY <1>1, <1>8, <2>6 DEF Referred, Share, All
  <1>9. CASE ~ (Between /\ cur = i) /\ Held(i)
    <2>1. PICK p : Holders(i) = {p}
      BY <1>5, <1>6, <1>9 DEF OnePlace
    <2>2. IsFiniteSet(Holders(i)) /\ Cardinality(Holders(i)) = 1
      BY <2>1, FS_Singleton
    <2>4. IsFiniteSet(Pairs(i)) /\ Cardinality(Pairs(i)) = Size(i)
      BY <1>7, <1>9, SizeType
    <2>5. Cardinality(All) = Cardinality(Holders(i)) * Cardinality(Pairs(i))
      BY <1>4, <2>2, <2>4, FS_Product
    <2>6. Cardinality(All) = Size(i)
      BY <1>7, <1>9, <2>2, <2>4, <2>5
    <2> QED
      BY <1>1, <1>9, <2>6 DEF Referred, Share, All
  <1>10. CASE ~ Held(i) /\ ~ (Between /\ cur = i)
    <2>1. All = {}
      BY <1>4, <1>5, <1>10
    <2>2. Cardinality(All) = 0
      BY <2>1, FS_EmptySet
    <2> QED
      BY <1>1, <1>10, <2>2 DEF Referred, Share, All
  <1> QED
    BY <1>8, <1>9, <1>10

\* obj_dup and obj_free keep the books: an object is counted once for each pair
\* of a multimap that points to it and once for each drop that was refused, so
\* nothing reachable is freed.
THEOREM Referenced == Spec => []RefBooks
  <1> QED
    BY BooksKept, ObjectsHold, PTL
=============================================================================
