------------------------------ MODULE Objects ------------------------------
(***************************************************************************)
(* Objects: where they are, under which names, and who counts them.        *)
(*                                                                         *)
(*   obj.c          reference counts and ids                               *)
(*   multimap.c     room->objects and user->objects                        *)
(*   room.c         room_obj_add, room_obj_add_alias, room_obj_del         *)
(*   userdb.c       userdb_add_obj, userdb_del_obj, userdb_add, _remove    *)
(*   server_reqs.c  req_take, req_drop, req_inventory, req_look_at         *)
(*   dunnet.c       food_drop, dig, put, eat and building_enter            *)
(*                                                                         *)
(* All of it runs in the master, one request at a time.  TAKE and DROP are *)
(* split where an object is in two maps at once: nothing but a signal gets *)
(* in between (module Persist).  An object is its id; a multimap is the    *)
(* set of its pairs, the order of pairs under one key being left out.      *)
(* Every key of the world is spelt in one way.                             *)
(***************************************************************************)
EXTENDS Dunnet, Naturals, Sequences, FiniteSets

CONSTANTS
    User,           \* login names
    Room,           \* the rooms considered, by uniq_id
    Stock,          \* the classes world_init makes an object of, in its order
    Stubborn,       \* classes whose hook_drop refuses (none in dunnet)
    MaxId,          \* bound: objects that are ever made
    MaxRefused      \* bound: drops that are refused

NoUser == "none"
Nowhere == "nowhere"
NoClass == "none"
Literal == 0        \* the owner of a string constant of the world module

Id == 1..MaxId
Place == Room \cup User

ASSUME ObjectsAssumption ==
    /\ NoUser \notin User /\ Nowhere \notin Room
    /\ Room \cap User = {}
    /\ {"dead_end", "fork", "computer_room"} \subseteq Room
    /\ Stock \in Seq(DOMAIN HomeOf) /\ Len(Stock) < MaxId
    /\ \A i \in 1..Len(Stock) : HomeOf[Stock[i]] \in Room
    /\ Stubborn \subseteq Class
    /\ MaxId \in Nat /\ MaxRefused \in Nat

VARIABLES
    ref,            \* obj->refcount; 0 for what is freed or not yet made
    cls,            \* obj->class
    idcounter,      \* of obj.c
    objects,        \* the pairs of room->objects and user->objects
    strings,        \* key of every node of those maps and whose memory it is
    recs,           \* users that have a record in the user database
    where,          \* sender->room of the session of a user
    flags,          \* userdata of the rooms fork ("dug") and computer_room ("running")
    op,             \* what the master is doing
    actor,          \* sender of the request in progress
    todo,           \* objects of the list that its loop has yet to visit
    cur,            \* the object it is at, or 0
    master,         \* "up", or "dead" after a NULL pointer was followed
    leaked          \* history: references that nobody will give back

maps == <<objects, strings>>
heap == <<ref, cls, idcounter, leaked>>
loop == <<op, actor, todo, cur>>
world == <<recs, where, flags, master>>
vars == <<maps, heap, loop, world>>

\* The handlers between two of their calls.  taking, dropping and undrop are
\* the places where cur is in two maps.
Ops == {"idle", "take", "taking", "drop", "dropping", "hook", "undrop", "save"}

TypeOK ==
    /\ ref \in [Id -> Nat] /\ leaked \in [Id -> Nat]
    /\ cls \in [Id -> Class \cup {NoClass}]
    /\ idcounter \in 1..MaxId + 1
    /\ objects \in [Place -> SUBSET (Key \X Id)]
    /\ strings \in [Place -> SUBSET (Key \X (Id \cup {Literal}))]
    /\ recs \subseteq User
    /\ where \in [User -> Room \cup {Nowhere}]
    /\ flags \subseteq {"dug", "running"}
    /\ op \in Ops /\ actor \in User \cup {NoUser}
    /\ todo \subseteq Id /\ cur \in Id \cup {0}
    /\ master \in {"up", "dead"}

-----------------------------------------------------------------------------
(***************************************************************************)
(* multimap.c and obj.c.                                                   *)
(***************************************************************************)

\* multimap_lookup.
List(p, k) == {pr[2] : pr \in {q \in objects[p] : q[1] = k}}

\* The pairs of object i: its name and each of its aliases.
Pairs(i) == Names(cls[i]) \X {i}

\* multimap_insert: the first pair of a key makes a node, whose key is the
\* string that was passed.  The strings are those of object o, or literals.
NodesWith(ks, new, o) ==
    ks \cup {<<pr[1], o>> : pr \in {q \in new : \A kn \in ks : kn[1] # q[1]}}

\* Mutant of NodesLeft: n_pairs is not looked at.
NodesKept(ks, pairs) == ks

\* multimap_delete: a node goes with its last pair.
NodesLeft(ks, pairs) == {kn \in ks : \E pr \in pairs : pr[1] = kn[1]}

\* obj_dup for each pair that is inserted, obj_free for each one deleted.
Dup(rc, ps) == [i \in Id |-> rc[i] + Cardinality({pr \in ps : pr[2] = i})]
Free(rc, ps) == [i \in Id |-> rc[i] - Cardinality({pr \in ps : pr[2] = i})]

\* room_obj_add and userdb_add_obj: object i under all its names, whose
\* strings become keys.
Insert(p, i) ==
    /\ objects' = [objects EXCEPT ![p] = @ \cup Pairs(i)]
    /\ strings' = [strings EXCEPT ![p] = NodesWith(@, Pairs(i), i)]

\* The loop of room_obj_del_by_ptr, userdb_del_obj_by_ptr and multimap_free.
Delete(p, ps) ==
    /\ objects' = [objects EXCEPT ![p] = @ \ ps]
    /\ strings' = [strings EXCEPT ![p] = NodesLeft(@, objects[p] \ ps)]

\* obj_new, room_obj_add, and room_obj_add_alias for each alias: object i of
\* class c comes into a room that has lost the pairs gone.  The keys of aliases
\* are literals.
Create(r, i, c, gone) ==
    LET kept == objects[r] \ gone
        nodes == NodesLeft(strings[r], kept)
        alias == AliasesOf[c] \X {i}
    IN  /\ i \in Id
        /\ idcounter' = i + 1
        /\ cls' = [cls EXCEPT ![i] = c]
        /\ ref' = [Free(ref, gone) EXCEPT ![i] = 1 + Cardinality(alias)]
        /\ objects' = [objects EXCEPT ![r] = kept \cup {<<NameOf[c], i>>} \cup alias]
        /\ strings' = [strings EXCEPT ![r] =
                         NodesWith(NodesWith(nodes, {<<NameOf[c], i>>}, i), alias, Literal)]

\* What world_init and the hook_init of the rooms make.
Made == 1..Len(Stock)
MadeCls == [i \in Id |-> IF i \in Made THEN Stock[i] ELSE NoClass]
MadeRef == [i \in Id |-> IF i \in Made THEN Cardinality(Names(Stock[i])) ELSE 0]
MadeAt(p) == {i \in Made : HomeOf[Stock[i]] = p}
MadeObjects == [p \in Place |-> UNION {Names(Stock[i]) \X {i} : i \in MadeAt(p)}]
MadeStrings ==
    [p \in Place |-> UNION {{<<NameOf[Stock[i]], i>>} \cup AliasesOf[Stock[i]] \X {Literal} :
                           i \in MadeAt(p)}]

Idle == op' = "idle" /\ actor' = NoUser /\ todo' = {} /\ cur' = 0

Init ==
    /\ idcounter = Len(Stock) + 1 /\ cls = MadeCls /\ ref = MadeRef
    /\ objects = MadeObjects /\ strings = MadeStrings
    /\ leaked = [i \in Id |-> 0]
    /\ recs = {} /\ flags = {} /\ master = "up"
    /\ where = [u \in User |-> Nowhere]
    /\ op = "idle" /\ actor = NoUser /\ todo = {} /\ cur = 0

-----------------------------------------------------------------------------
(***************************************************************************)
(* Users.                                                                  *)
(***************************************************************************)
Ready == master = "up" /\ op = "idle"

\* A request of the session of u is being served.
Asks(u) == Ready /\ where[u] # Nowhere

\* userdb_lookup returned NULL and the result is dereferenced.
Segfault == master' = "dead" /\ UNCHANGED <<maps, heap, loop, recs, where, flags>>

\* server_save_state(false), which every change but those of verbs ends with.
ThenSave == op' = "save" /\ UNCHANGED <<actor, todo, cur>>

\* userdb_add: a new record has an empty inventory, an old one keeps its own
\* (multimap_dup, then the free_userdata of the overwritten record).
UserdbAdd(u) ==
    /\ Ready
    /\ recs' = recs \cup {u}
    /\ ThenSave
    /\ UNCHANGED <<maps, heap, where, flags, master>>

\* Mutant of UserdbRemove: the objects are freed but stay in the map.
UserdbRemoveKeeps(u) ==
    /\ Ready /\ u \in recs
    /\ recs' = recs \ {u}
    /\ ref' = Free(ref, objects[u])
    /\ ThenSave
    /\ UNCHANGED <<maps, cls, idcounter, leaked, where, flags, master>>

\* userdb_remove: free_userdata, multimap_free and obj_free for every pair.
\* A session of the user goes on.
UserdbRemove(u) ==
    /\ Ready /\ u \in recs
    /\ recs' = recs \ {u}
    /\ Delete(u, objects[u])
    /\ ref' = Free(ref, objects[u])
    /\ ThenSave
    /\ UNCHANGED <<cls, idcounter, leaked, where, flags, master>>

\* Login, which ends with SETROOM to room 0, and the end of a session.
Enter(u) ==
    /\ Ready /\ where[u] = Nowhere /\ u \in recs
    /\ where' = [where EXCEPT ![u] = "dead_end"]
    /\ UNCHANGED <<maps, heap, loop, recs, flags, master>>

Leave(u) ==
    /\ Asks(u)
    /\ where' = [where EXCEPT ![u] = Nowhere]
    /\ UNCHANGED <<maps, heap, loop, recs, flags, master>>

\* A walk from room to room, through any that are not modelled; building_enter
\* looks for the key.
Walk(u, r) ==
    /\ Asks(u) /\ where[u] # r
    /\ PassesHallway(where[u], r) => u \in recs /\ List(u, NameOf.key) # {}
    /\ where' = [where EXCEPT ![u] = r]
    /\ UNCHANGED <<maps, heap, loop, recs, flags, master>>

\* A session without a record: req_inventory, req_look_at, building_enter and
\* the verbs that look for something in the inventory.
LookupFails(u) ==
    /\ Asks(u) /\ u \notin recs
    /\ Segfault

-----------------------------------------------------------------------------
(***************************************************************************)
(* req_take.                                                               *)
(***************************************************************************)
Here == where[actor]

ReqTake(u, k) ==
    /\ Asks(u)
    /\ List(where[u], k) # {}
    /\ op' = "take" /\ actor' = u /\ todo' = List(where[u], k) /\ cur' = 0
    /\ UNCHANGED <<maps, heap, world>>

\* hook_take refuses.
TakeRefused(i) ==
    /\ op = "take" /\ master = "up" /\ i \in todo /\ cls[i] \in NoTake
    /\ todo' = todo \ {i}
    /\ UNCHANGED <<maps, heap, op, actor, cur, world>>

\* userdb_add_obj, which needs the record.
TakeAdd(i) ==
    /\ op = "take" /\ master = "up" /\ i \in todo /\ cls[i] \notin NoTake
    /\ IF actor \notin recs
       THEN Segfault
       ELSE /\ Insert(actor, i)
            /\ ref' = Dup(ref, Pairs(i))
            /\ op' = "taking" /\ cur' = i
            /\ UNCHANGED <<cls, idcounter, leaked, actor, todo, world>>

\* The pairs that deleting object i from a map removes.
Mine(p, i) == objects[p] \cap Pairs(i)

\* Mutant of TakeDel: everything under the names of the object is deleted.
TakeDelAll ==
    LET gone == {pr \in objects[Here] : pr[1] \in Names(cls[cur])}
    IN  /\ op = "taking"
        /\ Delete(Here, gone)
        /\ ref' = Free(ref, gone)
        /\ op' = "take" /\ todo' = todo \ {cur} /\ cur' = 0
        /\ UNCHANGED <<cls, idcounter, leaked, actor, world>>

\* room_obj_del_by_ptr.
TakeDel ==
    /\ op = "taking"
    /\ Delete(Here, Mine(Here, cur))
    /\ ref' = Free(ref, Mine(Here, cur))
    /\ op' = "take" /\ todo' = todo \ {cur} /\ cur' = 0
    /\ UNCHANGED <<cls, idcounter, leaked, actor, world>>

\* The end of the loop of either handler.
LoopDone ==
    /\ op \in {"take", "drop"} /\ master = "up" /\ todo = {}
    /\ op' = "save" /\ actor' = NoUser
    /\ UNCHANGED <<maps, heap, todo, cur, world>>

\* server_save_state: what it writes is in Persist.
SaveState ==
    /\ op = "save"
    /\ Idle
    /\ UNCHANGED <<maps, heap, world>>

-----------------------------------------------------------------------------
(***************************************************************************)
(* req_drop.                                                               *)
(***************************************************************************)
ReqDrop(u, k) ==
    /\ Asks(u) /\ u \in recs
    /\ List(u, k) # {}
    /\ \A i \in List(u, k) : cls[i] \in Stubborn => leaked[i] < MaxRefused
    /\ op' = "drop" /\ actor' = u /\ todo' = List(u, k) /\ cur' = 0
    /\ UNCHANGED <<maps, heap, world>>

\* room_obj_add(obj_dup(obj)).
DropAdd(i) ==
    /\ op = "drop" /\ i \in todo
    /\ Insert(Here, i)
    /\ ref' = Dup(ref, Pairs(i))
    /\ op' = "dropping" /\ cur' = i
    /\ UNCHANGED <<cls, idcounter, leaked, actor, todo, world>>

\* Mutant of DropDel: only the pair of the name is deleted.
DropDelName ==
    /\ op = "dropping"
    /\ Delete(actor, {<<NameOf[cls[cur]], cur>>})
    /\ ref' = Free(ref, {<<NameOf[cls[cur]], cur>>})
    /\ op' = "hook"
    /\ UNCHANGED <<cls, idcounter, leaked, actor, todo, cur, world>>

\* userdb_del_obj_by_ptr.
DropDel ==
    /\ op = "dropping"
    /\ Delete(actor, Mine(actor, cur))
    /\ ref' = Free(ref, Mine(actor, cur))
    /\ op' = "hook"
    /\ UNCHANGED <<cls, idcounter, leaked, actor, todo, cur, world>>

NextDrop == op' = "drop" /\ todo' = todo \ {cur} /\ cur' = 0

\* food_drop does more than agree.
Feeds == cls[cur] = "food" /\ List(Here, "bear") # {}

\* No hook_drop, or one that agrees.
DropKept ==
    /\ op = "hook" /\ cls[cur] \notin Stubborn /\ ~ Feeds
    /\ NextDrop
    /\ UNCHANGED <<maps, heap, actor, world>>

\* food_drop: bear and food go, the key comes.
DropFed ==
    /\ op = "hook" /\ cls[cur] \notin Stubborn /\ Feeds
    /\ Create(Here, idcounter, "key",
              Mine(Here, cur) \cup UNION {Mine(Here, i) : i \in List(Here, NameOf.bear)})
    /\ NextDrop
    /\ UNCHANGED <<leaked, actor, world>>

\* Mutant of DropRefused: as if userdb_add_obj took no references of its own.
DropRefusedOnce ==
    /\ op = "hook" /\ cls[cur] \in Stubborn
    /\ Insert(actor, cur)
    /\ ref' = [ref EXCEPT ![cur] = @ + 1]
    /\ leaked' = [leaked EXCEPT ![cur] = @ + 1]
    /\ op' = "undrop"
    /\ UNCHANGED <<cls, idcounter, actor, todo, cur, world>>

\* hook_drop refuses: userdb_add_obj(obj_dup(obj)).  userdb_add_obj takes a
\* reference for every pair itself, so the one that is passed is never freed.
DropRefused ==
    /\ op = "hook" /\ cls[cur] \in Stubborn
    /\ Insert(actor, cur)
    /\ ref' = [Dup(ref, Pairs(cur)) EXCEPT ![cur] = @ + 1]
    /\ leaked' = [leaked EXCEPT ![cur] = @ + 1]
    /\ op' = "undrop"
    /\ UNCHANGED <<cls, idcounter, actor, todo, cur, world>>

\* room_obj_del_by_ptr after the refusal.
UndoDel ==
    /\ op = "undrop"
    /\ Delete(Here, Mine(Here, cur))
    /\ ref' = Free(ref, Mine(Here, cur))
    /\ NextDrop
    /\ UNCHANGED <<cls, idcounter, leaked, actor, world>>

-----------------------------------------------------------------------------
(***************************************************************************)
(* Verbs of dunnet.  None of them calls server_save_state.                 *)
(***************************************************************************)

\* Mutant of Dig: the flag of the room is not set.
DigAgain(u) ==
    /\ Asks(u) /\ u \in recs
    /\ List(u, NameOf.shovel) # {}
    /\ where[u] = "fork" /\ "dug" \notin flags
    /\ Create("fork", idcounter, "cpu", {})
    /\ UNCHANGED <<leaked, loop, world>>

\* dig_exec with a shovel, in the room "Fork", for the first time.
Dig(u) ==
    /\ Asks(u) /\ u \in recs
    /\ List(u, NameOf.shovel) # {}
    /\ where[u] = "fork" /\ "dug" \notin flags
    /\ flags' = flags \cup {"dug"}
    /\ Create("fork", idcounter, "cpu", {})
    /\ UNCHANGED <<leaked, loop, recs, where, master>>

\* put_exec with the CPU card and the computer.
Put(u, i) ==
    /\ Asks(u) /\ u \in recs
    /\ \E k \in Key : i \in List(u, k)
    /\ cls[i] = "cpu"
    /\ where[u] = "computer_room"
    /\ \E k \in Key : \E j \in List("computer_room", k) : cls[j] = "computer"
    /\ Delete(u, Mine(u, i))
    /\ ref' = Free(ref, Mine(u, i))
    /\ flags' = flags \cup {"running"}
    /\ UNCHANGED <<cls, idcounter, leaked, loop, recs, where, master>>

\* eat_exec and userdb_del_obj: every object of that name is gone.
Eat(u, k) ==
    /\ Asks(u) /\ u \in recs
    /\ List(u, k) # {}
    /\ LET eaten == UNION {Mine(u, i) : i \in List(u, k)}
       IN  Delete(u, eaten) /\ ref' = Free(ref, eaten)
    /\ UNCHANGED <<cls, idcounter, leaked, loop, world>>

-----------------------------------------------------------------------------
TakeStep == \E i \in Id : TakeRefused(i) \/ TakeAdd(i)
DropStep == \E i \in Id : DropAdd(i)
HookStep == DropKept \/ DropFed \/ DropRefused

\* The words a request can be about: others have no effect.
Words == {kn[1] : kn \in UNION {strings[p] : p \in Place}}

\* Everything but server_save_state.
Work ==
    \/ \E u \in User :
        \/ UserdbAdd(u) \/ UserdbRemove(u)
        \/ Enter(u) \/ Leave(u) \/ LookupFails(u)
        \/ \E r \in Room : Walk(u, r)
        \/ \E k \in Words : ReqTake(u, k) \/ ReqDrop(u, k) \/ Eat(u, k)
        \/ Dig(u)
        \/ \E i \in Id : Put(u, i)
    \/ TakeStep \/ TakeDel
    \/ DropStep \/ DropDel \/ HookStep \/ UndoDel
    \/ LoopDone

Next == Work \/ SaveState

Spec == Init /\ [][Next]_vars

-----------------------------------------------------------------------------
(***************************************************************************)
(* Properties.                                                             *)
(***************************************************************************)
Live(i) == ref[i] > 0
Holders(i) == {p \in Place : \E pr \in objects[p] : pr[2] = i}
Between == op \in {"taking", "dropping", "undrop"}

\* Whatever the order of takes, drops, refusals and verbs, an object is in at
\* most one map, or while its handler is between two calls in the two it moves
\* between; and where it is, it is under its name and all of its aliases.
OnePlace ==
    \A i \in Id :
        /\ IF Between /\ cur = i
           THEN Holders(i) = {actor, Here}
           ELSE \A p, q \in Holders(i) : p = q
        /\ \A p \in Holders(i) : Pairs(i) \subseteq objects[p]

\* The reference count of an object (obj_dup, obj_free) is the number of pairs
\* that point to it, plus one for every drop that was refused: nothing that is
\* reachable is freed, and nothing else is kept.
RefBooks ==
    \A i \in Id :
        ref[i] = leaked[i] + Cardinality(UNION {{p} \X {pr \in objects[p] : pr[2] = i} : p \in Place})

\* A node of a multimap uses the name of the first object inserted under it as
\* its key.  The object outlives the node: objects that share one name share
\* them all, so they move together and are freed together.
KeysAlive ==
    \A p \in Place : \A kn \in strings[p] : kn[2] = Literal \/ Live(kn[2])

\* The bear is fed once and the hole is dug once, whoever tries: there is never
\* more than one key and one card.
MadeOnce ==
    \A i, j \in Id \ Made : Live(i) /\ Live(j) /\ cls[i] = cls[j] => i = j

\* The loops of req_take and req_drop read the next pair before they delete the
\* current one: what they have yet to visit is still in the map they walk.
TodoLive ==
    /\ op \in {"take", "taking"} => \A i \in todo : Here \in Holders(i)
    /\ op \in {"drop", "dropping"} => \A i \in todo : actor \in Holders(i)
    /\ op \in {"hook", "undrop"} => \A i \in todo \ {cur} : actor \in Holders(i)
=============================================================================
