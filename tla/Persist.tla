------------------------------ MODULE Persist ------------------------------
(***************************************************************************)
(* What survives the process: the world file and the user file.            *)
(*                                                                         *)
(*   server.c  server_save_state, sigint_handler, server_shutdown,         *)
(*             load_worldfile, check_userfile, server_main                 *)
(*   world.c   world_save, world_load                                      *)
(*   userdb.c  userdb_write, userdb_init                                   *)
(*   obj.c     obj_write, obj_read                                         *)
(*                                                                         *)
(* The server of Objects with its SaveState replaced by the writing of two *)
(* files, one after the other, neither of them atomic.  The process can be *)
(* killed at any point, and SIGINT saves from whatever point of a handler  *)
(* it interrupts.                                                          *)
(***************************************************************************)
EXTENDS Objects

CONSTANTS
    Order,          \* the rooms in the order of netcosm_world
    Prefix,         \* whether the server is started with -d
    SaveInterval    \* SAVE_INTERVAL

ASSUME PersistAssumption ==
    /\ Order \in Seq(Room) /\ {Order[k] : k \in 1..Len(Order)} = Room
    /\ Prefix \in BOOLEAN
    /\ SaveInterval \in Nat \ {0, 1}

Directory == {"launch", "prefix"}

\* The directory the server works in once it is started.
Home == IF Prefix THEN "prefix" ELSE "launch"

VARIABLES
    pc,             \* where the process is
    task,           \* why it writes: it starts, serves or exits
    n,              \* static n of server_save_state
    worldfile,      \* WORLDFILE of each directory
    userfile,       \* USERFILE of Home
    promise         \* history: what the last complete save has written

pvars == <<pc, task, n, worldfile, userfile, promise>>
allvars == <<vars, pvars>>

\* world and users: in the middle of world_save, of userdb_write.  twins and
\* refused end a behaviour: the files hold two objects with one id, which is
\* not followed further, or one of them cannot be read.
Pc == {"down", "world", "userdb", "users", "up", "twins", "refused"}

\* An object as obj_write has it, with the key of the pair it was reached by.
Record == Key \X Id \X Class

NoRooms == [r \in Room |-> {}]
NoWorld(st) == [st |-> st, rooms |-> NoRooms, flags |-> {}, counter |-> 1]
NoUsers(st) == [st |-> st, users |-> [u \in {} |-> {}]]

\* The state of the world, as far as the files hold it.
Now == [st |-> "kept", objects |-> objects, recs |-> recs, flags |-> flags]
NoPromise == [st |-> "none", objects |-> [p \in Place |-> {}], recs |-> {}, flags |-> {}]

-----------------------------------------------------------------------------
(***************************************************************************)
(* What is written.                                                        *)
(***************************************************************************)

\* Mutant of Written: aliases are not skipped.
WrittenAll(p) == {<<pr[1], pr[2], cls[pr[2]]>> : pr \in objects[p]}

\* The loops of world_save and userdb_write over a multimap: an object is
\* written where its key is its name.
Written(p) ==
    {<<pr[1], pr[2], cls[pr[2]]>> : pr \in {q \in objects[p] : q[1] = NameOf[cls[q[2]]]}}

\* world_save, with the hook_serialize of the rooms and the object counter.
WorldImage ==
    [st |-> "whole", rooms |-> [r \in Room |-> Written(r)], flags |-> flags,
     counter |-> idcounter]

\* userdb_write.
UserImage == [st |-> "whole", users |-> [u \in recs |-> Written(u)]]

\* The room whose hook_serialize writes the flag.
RoomOf(f) == IF f = "dug" THEN "fork" ELSE "computer_room"

\* How many objects of class c a file has in its first k rooms.
Amount(f, k, c) ==
    Cardinality(UNION {{<<j, rc>> : rc \in {x \in f.rooms[Order[j]] : x[3] = c}} : j \in 1..k})

\* What world_save leaves if it gets no further than k rooms.  It does not
\* truncate, so the old bytes stay behind the new ones.  They fit if both have
\* the same length, which is that of the objects; otherwise, and without an old
\* file, the result is no world.
WorldCut(old, new, k) ==
    LET done == {Order[j] : j \in 1..k}
    IN  IF old.st = "whole" /\ \A c \in Class : Amount(old, k, c) = Amount(new, k, c)
        THEN [old EXCEPT
                !.rooms = [r \in Room |-> IF r \in done THEN new.rooms[r] ELSE @[r]],
                !.flags = {f \in new.flags : RoomOf(f) \in done}
                            \cup {f \in @ : RoomOf(f) \notin done}]
        ELSE NoWorld("torn")

\* What userdb_write leaves if it gets no further: the old file before it is
\* opened, which truncates it; then some users, in an order that only the hash
\* function knows.
UserCuts(old, new) ==
    {old, NoUsers("torn")}
        \cup {[new EXCEPT !.users = [u \in done |-> @[u]]] : done \in SUBSET DOMAIN new.users}

-----------------------------------------------------------------------------
(***************************************************************************)
(* What is read.                                                           *)
(***************************************************************************)

\* Mutant of Loaded: the loop over the aliases of userdb_init is missing.
LoadedName(rs) == {<<rc[1], rc[2]>> : rc \in rs}

\* obj_read and room_obj_add, and the insertions of userdb_init: each record is
\* an object again, under its name and all its aliases.
Loaded(rs) == UNION {Names(rc[3]) \X {rc[2]} : rc \in rs}

\* The classes of the objects of rs.
Classes(cl, rs) ==
    [i \in Id |-> IF \E rc \in rs : rc[2] = i
                  THEN (CHOOSE rc \in rs : rc[2] = i)[3] ELSE cl[i]]

\* Mutant of Counted: as if aliases took no reference.
CountedOnce(rc, pairs) == [i \in Id |-> rc[i] + IF \E pr \in pairs : pr[2] = i THEN 1 ELSE 0]

\* The references of loaded objects: the one of obj_new for the name, and an
\* obj_dup for each alias.
Counted(rc, pairs) == Dup(rc, pairs)

\* Keys of the nodes: the strings of the objects that are read first.
Leads(pairs, lead) ==
    /\ \A pr \in pairs : \E h \in pairs : h[1] = pr[1] /\ h[2] \in lead
    /\ \A g, h \in pairs : g[1] = h[1] /\ {g[2], h[2]} \subseteq lead => g = h
Headed(pairs, lead) == {pr \in pairs : pr[2] \in lead}

\* The records of a file, tagged with their place: an object with two of them
\* is read as two objects.
Tagged(f) == UNION {{<<p, rc>> : rc \in f[p]} : p \in DOMAIN f}
Ids(ts) == {t[2][2] : t \in ts}
Doubled(ts) == \E t, v \in ts : t # v /\ t[2][2] = v[2][2]

\* Mutant of Counter: the counter of the file is not read.
CounterOfObjects(w) == 1 + Cardinality(Tagged(w.rooms))

\* world_load sets the counter to 1, each obj_new counts, and the counter of the
\* file has the last word.
Counter(w) == w.counter

-----------------------------------------------------------------------------
(***************************************************************************)
(* The life of the process.                                                *)
(***************************************************************************)

\* The memory of the process is gone.
Gone ==
    /\ ref' = [i \in Id |-> 0] /\ cls' = [i \in Id |-> NoClass]
    /\ leaked' = [i \in Id |-> 0] /\ idcounter' = 1
    /\ objects' = [p \in Place |-> {}] /\ strings' = [p \in Place |-> {}]
    /\ recs' = {} /\ flags' = {} /\ master' = "up"
    /\ where' = [u \in User |-> Nowhere]
    /\ Idle

PInit ==
    /\ ref = [i \in Id |-> 0] /\ cls = [i \in Id |-> NoClass]
    /\ leaked = [i \in Id |-> 0] /\ idcounter = 1
    /\ objects = [p \in Place |-> {}] /\ strings = [p \in Place |-> {}]
    /\ recs = {} /\ flags = {} /\ master = "up"
    /\ where = [u \in User |-> Nowhere]
    /\ op = "idle" /\ actor = NoUser /\ todo = {} /\ cur = 0
    /\ pc = "down" /\ task = "start" /\ n = 0
    /\ worldfile = [d \in Directory |-> NoWorld("absent")]
    /\ userfile = NoUsers("absent")
    /\ promise = NoPromise

\* Mutant of Bumped: the counter is not reset.
BumpedOn == n + 1

\* The static counter of server_save_state.
Bumped == (n + 1) % SaveInterval

\* load_worldfile without a file: world_init, then world_save.  It comes before
\* the chdir to the prefix.
StartFresh ==
    /\ pc = "down" /\ worldfile["launch"].st = "absent"
    /\ idcounter' = Len(Stock) + 1 /\ cls' = MadeCls /\ ref' = MadeRef
    /\ objects' = MadeObjects /\ strings' = MadeStrings
    /\ pc' = "world" /\ task' = "start"
    /\ UNCHANGED <<leaked, loop, world, n, worldfile, userfile, promise>>

\* load_worldfile and world_load.
StartLoad ==
    LET w == worldfile["launch"]
        ts == Tagged(w.rooms)
        rs == {t[2] : t \in ts}
        pairs == Loaded(rs)
    IN  /\ pc = "down" /\ w.st = "whole" /\ ~ Doubled(ts)
        /\ cls' = Classes(cls, rs)
        /\ ref' = Counted(ref, pairs)
        /\ objects' = [p \in Place |-> IF p \in Room THEN Loaded(w.rooms[p]) ELSE {}]
        /\ \E lead \in SUBSET Ids(ts) :
             /\ \A r \in Room : Leads(Loaded(w.rooms[r]), lead)
             /\ strings' = [p \in Place |->
                              IF p \in Room THEN Headed(Loaded(w.rooms[p]), lead) ELSE {}]
        /\ idcounter' = Counter(w)
        /\ flags' = w.flags
        /\ pc' = "userdb" /\ task' = "start"
        /\ UNCHANGED <<leaked, loop, recs, where, master, n, worldfile, userfile, promise>>

\* world_load gives up, or has read one object twice.
StartFails ==
    LET w == worldfile["launch"]
        twins == Doubled(Tagged(w.rooms))
    IN  /\ pc = "down"
        /\ w.st = "torn" \/ twins
        /\ pc' = IF twins THEN "twins" ELSE "refused"
        /\ UNCHANGED <<vars, task, n, worldfile, userfile, promise>>

\* The objects in the rooms, tagged as if they were read.
InRooms == UNION {{<<r, rc>> : rc \in Written(r)} : r \in Room}

\* userdb_init: inventories come after the counter has been set, and each of
\* their objects counts.
UserdbInit ==
    LET ts == Tagged(userfile.users)
        rs == {t[2] : t \in ts}
        inv(p) == IF p \in DOMAIN userfile.users THEN Loaded(userfile.users[p]) ELSE {}
    IN  /\ pc = "userdb" /\ userfile.st = "whole" /\ DOMAIN userfile.users # {}
        /\ ~ Doubled(ts \cup InRooms)
        /\ idcounter + Cardinality(ts) <= MaxId + 1
        /\ cls' = Classes(cls, rs)
        /\ ref' = Counted(ref, Loaded(rs))
        /\ objects' = [p \in Place |-> objects[p] \cup inv(p)]
        /\ \E lead \in SUBSET Ids(ts) :
             /\ \A u \in User : Leads(inv(u), lead)
             /\ strings' = [p \in Place |-> strings[p] \cup Headed(inv(p), lead)]
        /\ idcounter' = idcounter + Cardinality(ts)
        /\ recs' = DOMAIN userfile.users
        /\ pc' = "up"
        /\ UNCHANGED <<leaked, loop, where, flags, master, task, n, worldfile, userfile, promise>>

\* check_userfile: no user file, or one without users.  userdb_add calls
\* server_save_state, then the user file is written.
FirstRunSetup(u) ==
    /\ pc = "userdb"
    /\ userfile.st # "torn" /\ DOMAIN userfile.users = {}
    /\ recs' = {u}
    /\ n' = Bumped
    /\ pc' = "users"
    /\ UNCHANGED <<maps, heap, loop, where, flags, master, task, worldfile, userfile, promise>>

\* userdb_init gives up, or an object is in a room and in an inventory.
UserdbFails ==
    LET twins == Doubled(Tagged(userfile.users) \cup InRooms)
    IN  /\ pc = "userdb"
        /\ userfile.st = "torn" \/ twins
        /\ pc' = IF twins THEN "twins" ELSE "refused"
        /\ UNCHANGED <<vars, task, n, worldfile, userfile, promise>>

\* A step of the server that is none of the save.
Serve ==
    /\ pc = "up"
    /\ Work
    /\ UNCHANGED pvars

\* server_save_state(false).
SaveDue ==
    /\ pc = "up" /\ op = "save"
    /\ n' = Bumped
    /\ IF n' = 0
       THEN pc' = "world" /\ task' = "serve" /\ UNCHANGED vars
       ELSE Idle /\ UNCHANGED <<maps, heap, world, pc, task>>
    /\ UNCHANGED <<worldfile, userfile, promise>>

\* The directory of the next world_save.
SaveDir == IF task = "start" THEN "launch" ELSE Home

\* The end of world_save.
WorldSave ==
    /\ pc = "world"
    /\ worldfile' = [worldfile EXCEPT ![SaveDir] = WorldImage]
    /\ pc' = IF task = "start" THEN "userdb" ELSE "users"
    /\ UNCHANGED <<vars, task, n, userfile, promise>>

\* The end of userdb_write: the server goes on, or the process ends.
UserdbWrite ==
    /\ pc = "users"
    /\ userfile' = UserImage
    /\ promise' = IF Between THEN NoPromise ELSE Now
    /\ IF task = "exit"
       THEN pc' = "down" /\ n' = 0 /\ Gone
       ELSE pc' = "up" /\ Idle /\ UNCHANGED <<n, maps, heap, world>>
    /\ task' = "start"
    /\ UNCHANGED worldfile

\* SIGINT or SIGTERM, once init_signals has run: sigint_handler, exit and
\* server_shutdown save from where the signal came, also from within a save,
\* which gets no further.  (The world file that a first world_save has cut is
\* written again from its start, with the same bytes.)
Sigint ==
    /\ master = "up"
    /\ \/ pc = "up" /\ UNCHANGED userfile
       \/ task = "serve" /\ pc = "world" /\ UNCHANGED userfile
       \/ task = "serve" /\ pc = "users" /\ userfile' \in UserCuts(userfile, UserImage)
    /\ pc' = "world" /\ task' = "exit"
    /\ UNCHANGED <<vars, n, worldfile, promise>>

\* The process is killed, by SIGKILL or by its own NULL pointer: before it opens
\* the file it is to write, or in the middle of it, which is cut off.
Crash ==
    /\ pc \in {"world", "userdb", "users", "up"}
    /\ \/ /\ pc = "world"
          /\ \/ UNCHANGED worldfile
             \/ \E k \in 0..Len(Order) :
                   worldfile' = [worldfile EXCEPT ![SaveDir] = WorldCut(@, WorldImage, k)]
          /\ promise' = NoPromise /\ UNCHANGED userfile
       \/ /\ pc = "users"
          /\ userfile' \in UserCuts(userfile, UserImage)
          /\ promise' = NoPromise /\ UNCHANGED worldfile
       \/ pc \in {"userdb", "up"} /\ UNCHANGED <<worldfile, userfile, promise>>
    /\ pc' = "down" /\ task' = "start" /\ n' = 0
    /\ Gone

PNext ==
    \/ StartFresh \/ StartLoad \/ StartFails
    \/ UserdbInit \/ UserdbFails
    \/ \E u \in User : FirstRunSetup(u)
    \/ Serve \/ SaveDue
    \/ WorldSave \/ UserdbWrite
    \/ Sigint \/ Crash

PSpec == PInit /\ [][PNext]_allvars

-----------------------------------------------------------------------------
(***************************************************************************)
(* Properties.                                                             *)
(***************************************************************************)
PTypeOK ==
    /\ TypeOK
    /\ pc \in Pc /\ task \in {"start", "serve", "exit"}
    /\ n \in 0..SaveInterval - 1
    /\ \A d \in Directory :
         /\ worldfile[d].st \in {"absent", "whole", "torn"}
         /\ worldfile[d].rooms \in [Room -> SUBSET Record]
         /\ worldfile[d].counter \in 1..MaxId + 1
    /\ userfile.st \in {"absent", "whole", "torn"}
    /\ \A u \in DOMAIN userfile.users : u \in User /\ userfile.users[u] \subseteq Record

\* server_main brings back what the last complete save has written, object by
\* object, under all their names, with accounts and flags: after a SIGINT at any
\* point but the middle of a move, and also when the process is killed while it
\* writes nothing.
BootRestores ==
    [][promise.st = "kept" /\ promise.recs # {} =>
         /\ pc = "down" /\ pc' # "down" => pc' = "userdb"
         /\ pc = "userdb" /\ pc' # "down" => pc' = "up" /\ Now' = promise]_allvars

\* A new object never gets the id of one that exists (obj_new, and the counter
\* in the world file), through any sequence of saves, cuts, kills and restarts.
IdsFresh == pc = "up" => \A i \in Id : Live(i) => i < idcounter

\* Object i has been at p all the time since the last complete save, as far as
\* that save and the memory tell; its records in a world file and a user file.
Unmoved(i, p) ==
    /\ Holders(i) = {p}
    /\ {q \in Place : \E pr \in promise.objects[q] : pr[2] = i} = {p}
RecordsOf(i, w, u) == {t \in Tagged(w.rooms) \cup Tagged(u.users) : t[2][2] = i}

\* A kill at any point of a save, as long as the world can be loaded again: an
\* object that has not moved since the last complete save is not doubled by it,
\* and is lost only from an inventory, with the account of its owner, which
\* userdb_write has truncated away.  What else can go wrong happens to objects
\* that moved: between the two saves, or while the first rooms are written over
\* the old world.
KillRisksMoved ==
    [][ /\ pc \in {"world", "users"} /\ pc' = "down" /\ task # "start"
        /\ promise.st = "kept" /\ worldfile'[Home].st = "whole"
        => \A i \in Id, p \in Place :
              Unmoved(i, p) =>
                 \/ Cardinality(RecordsOf(i, worldfile'[Home], userfile')) = 1
                 \/ /\ RecordsOf(i, worldfile'[Home], userfile') = {}
                    /\ p \in User \ DOMAIN userfile'.users]_allvars
=============================================================================
