# A TLA+ specification of NetCosm

NetCosm is a server for multi-user dungeons written in C.  This directory holds
TLA+ models of its core, the TLC configurations that check them, and proofs that
TLAPS checks.  Paths are relative to the repository (`src/src/server.c` is the
file `src/server.c` of NetCosm).

## 1. The system

One **master** process accepts connections and keeps the whole game state.  For
every connection it forks a **child** that talks to the client and keeps nothing
but its own session.  Child and master are joined by two pipes in packet mode: a
child sends one request at a time (`send_master`) and then reads packets until
it gets `REQ_ALLDONE` (`poll_requests`).  The master is a single-threaded libev
loop; a request is read and executed in the callback of the child's pipe.

| component | state | operations | interacts with |
|---|---|---|---|
| event loop (`server.c`) | `child_map`, `num_clients`, `reap_children`, watchers | `new_connection_cb`, `childreq_cb`, `sigchld_handler`, `handle_disconnects`, shutdown | forks children, calls `handle_child_req` |
| request dispatch (`server_reqs.c`) | the table `requests[]`, `raw_mode_cb` and the other fields of an entry | `handle_child_req`, one handler per request, `send_packet`, `child_toggle_rawmode` | writes to pipes of any child; users, rooms, objects |
| child side (`client_reqs.c`, `client.c`) | `reqdata_type`, `returned_reqdata`, `reqs_since_ts`, `child_rawmode`, `are_admin`, `current_user` | `send_master`, `poll_requests`, `client_read`, `client_main`, commands | pipe to the master, telnet |
| users (`userdb.c`, `auth.c`) | map of user records | lookup, add, remove; login, CHPASS, USER ... | requests GET/ADD/DELUSERDATA, inventories, user file |
| rooms (`room.c`, `world.c`) | `room->users`, `room->objects`, `room->verbs`, adjacency | add, delete, teleport, move | `child->room`, world hooks |
| objects (`obj.c`, `multimap.c`) | reference counts, aliases | take, drop, look | room and user maps |
| hash table (`hash.c`) | buckets, `n_entries`, `used_buckets` | insert, overwrite, remove, delete node, resize, duplicate | underlies all of the above |
| persistence (`server_save_state`, `world_save`, `userdb_write`) | two files | save, load | run from handlers and from the SIGINT handler |
| telnet (`telnet.c`), verbs (`verb.c`), world modules (`worlds/`) | terminal size, tables of callbacks | parse, execute | called by the child, by the master |

What is hard here, and what would make each part correct:

- **IPC.**  Children and master interleave freely, a broadcast puts packets into
  pipes of children that are in the middle of something else, children die at any
  point, and both sides write with blocking writes.  Correct means: the master's
  books match the processes that exist, no freed entry is used, nobody waits for a
  packet that does not come, nobody waits in a circle, and a request that returns
  has been executed.  (The last two hold only as long as nobody broadcasts.)
- **Hash table.**  Growth, collisions and two counters kept by hand.  Correct
  means: it is a dictionary, and the counters say what the table holds.
- **Sessions, rooms.**  Login is a read-modify-write over two requests; a user can
  be deleted, changed or online twice.  Correct means: `room->users` and
  `child->room` agree and no change is undone by a stale copy.
- **Objects.**  Correct means: every object is in one place and its reference count
  is the number of references.
- **Persistence.**  Correct means: a restart brings back what was saved, and a crash
  in the middle of a save does limited harm.  (The two files do not describe one state
  after it.)

The list `hazards` of `PROJECT.json` names the lines where these bite and the
properties that watch them.

## 2. Modules

| module | what it is |
|---|---|
| `Ipc` | the protocol between children and master |
| `Rpc` | what `send_master` promises: an abstract remote procedure call |
| `MCIpc` | `Ipc` for TLC (symmetry sets) |
| `IpcProofs`, `RpcProofs` | theorems about `Ipc`, and about `Ipc` as an implementation of `Rpc`, with their proofs |
| `Hash` | the hash table |
| `Dict` | what `hash.h` promises: a dictionary |
| `MCHash` | `Hash` for TLC (hash and compare functions) |
| `HashProofs` | theorems about `Hash`, and about `Hash` as an implementation of `Dict`, with their proofs |
| `Presence` | who is where: names and rooms of sessions, `room->users` |
| `Accounts` | the user database and the sessions that read and write it |
| `MCPresence`, `MCAccounts` | the two for TLC (symmetry sets) |
| `PresenceProofs`, `AccountsProofs` | theorems about the two and their proofs |
| `Dunnet` | the tables of the world module dunnet: classes, names, aliases, homes |
| `Objects` | where objects are, under which names, and who counts them |
| `Persist` | `Objects` with its save replaced by the writing of the two files |
| `MCObjects`, `MCPersist` | the two for TLC (the stock of objects, the order of rooms) |
| `ObjectsProofs`, `LifetimeProofs` | theorems about `Objects` and their proofs: places and references; what lives how long |
| `PersistProofs` | theorems about `Persist` and their proofs |

Operators whose comment starts with *Mutant* are not part of a specification.  Each
is a definition with a plausible bug in it, and shows that the property it is made
for can fail.

### Ipc

The state of a child is `pc` (where it is), `cur` (the request `send_master` is
working on), `reqdata` (`reqdata_type` and `returned_reqdata` in one value),
`child_rawmode` and `reqs_since_ts`.  The pipes are `readpipe` and `outpipe`, as in
`struct child_data`, bounded by `PipeCap`.  The master has `mpc` (where the loop
is), `child_map`, `num_clients`, `raw_mode_cb`, `reap_children`, `pending` (the
watchers libev still has to run in this round), `job` (the request being executed)
and `queue` (the packets the current handler has yet to write).

| action | code |
|---|---|
| `SendMaster`, `WriteRequest` | `send_master`: rate limit; the write, which blocks |
| `ClientRead` | `client_read` finds its pipe readable and calls `poll_requests` |
| `PollRequests` | one turn of the loop in `poll_requests` |
| `Exit`, `SigChld` | the process ends; it becomes waitable |
| `Tick` | `time(NULL)` changes |
| `EvPoll`, `EndRound` | one round of `ev_run` (external) |
| `Fork`, `InsertChild` | `new_connection_cb` before and after the fork |
| `ReadRequest`, `VisitChild`, `Finalize`, `Finish` | `handle_child_req` and the end of `childreq_cb` |
| `ReadEof` | `handle_child_req` returns false |
| `SendPacket` | one write of `send_packet`, which blocks on a full pipe and fails silently on a dead child |
| `ReapChild`, `ReapDone` | the loop of `handle_disconnects` with `free_child_data` |

Each blocking call is an action boundary, since another process may run there; what
the master does between two of its system calls is one step.  A pid is free again
when it has been reaped.  Packets that print are all `BCASTMSG`: what is printed is
abstracted away, and so are the effects of handlers on users, rooms and objects,
whose outcome (`Answers`) is a free choice.  Who is an administrator is fixed by
`Admins` and not learnt by logging in.  A packet that prints ends in `out()`, a blocking
write to the socket of the client: `PollRequests` is then the step at which the client
has read enough, and may never come (see Fairness).

### Hash

`map` is `struct hash_map`: `table`, from bucket number to the chain of nodes,
`n_entries` and `used_buckets`; `size_t` is arithmetic modulo `Word`.  The hash and
the compare function are constants, as in the code they are arguments.  `owner`
tells the two uses of the table apart: a plain map is changed with `hash_insert`,
`hash_overwrite` and `hash_remove`; a multimap removes nodes with
`hash_get_internal_node` and `hash_del_internal_node`.  `hash_resize` relinks every
node at the head of its new chain; `aborted` records that its assert has failed.

### Presence

Each request is one step, which `Rpc` justifies as long as no broadcast crosses it.
A child is at the login prompt, between login and CHANGEUSER, between CHANGEUSER and
SETROOM, in the game, or dead and not reaped.  `user` and `room` are the fields of
`struct child_data`, `users` is `room->users` of every room.  An entry of that map
carries whether its key is still allocated: the key is the string `child->user`
itself, `req_change_user` and `free_child_data` free it, and a comparison with a
freed string may go either way (`Added` and `Deleted` are sets of outcomes).

| action | code |
|---|---|
| `Connect`, `Login` | `new_connection_cb`; a successful round of the auth loop |
| `ChangeUser`, `SetRoom`, `Limited` | the two requests that end a login, served or dropped by the rate limit (after a LOGOUT only: before, too few requests have been sent) |
| `Move` | `req_move_room` with an exit and consent of the hooks; its refusal changes nothing |
| `Teleport` | `room_user_teleport`, which leaves `child->room` alone |
| `Logout`, `Exit`, `Reap` | `logout_cb`; the process ends; `handle_disconnects` |

### Accounts

`userdb` is the map of records, each a name, a password (standing for salt and hash)
and a privilege.  `n` is the counter of `server_save_state`, `file` what USERFILE
holds.  Of a child there are `current_user`, `failures`, `are_admin` and `held`: the
record in `returned_reqdata`, or none if `reqdata_type` is something else.  An answer
to GO, ADDUSERDATA or DELUSERDATA clears it, an unanswered lookup does not.  Login is
the steps `Login` (or `LoginFails`) and `Store`, CHPASS is `Chpass` and `ChpassStore`
(or `ChpassCancel`); between them other sessions act.  `UserAdd` is USER ADD and USER
MODIFY.  `WorldChange` stands for the other handlers that call `server_save_state`,
`Chatter` for commands that use up the rate limit.  `Restart` is a crash or a
shutdown of the master followed by a new start, from the file as it was, or, if the
crash falls into `userdb_write`, which truncates, from any part of the database.

A request can be dropped only if the child is no administrator and has sent commands
since it connected or slept in `auth_check`: a login sends nine requests at most,
which is below the limit.

### Dunnet and Objects

Everything here runs in the master, one request at a time.  An object is its id, and
`ref`, `cls` and `idcounter` are `obj->refcount`, `obj->class` and the counter of
`obj.c`.  `objects` holds, for every room and every user, the pairs (key, object) of
`room->objects` or of the inventory; `strings` holds the nodes of those multimaps,
each with the object whose `name` is its key, or `Literal` if the key is a string
constant of the world module.  `leaked` counts the references that nobody will give
back.  `Dunnet` has the tables of `worlds/dunnet.c`; the stock of a run is a sequence
of its classes.

| action | code |
|---|---|
| `UserdbAdd`, `UserdbRemove` | `userdb_add` keeps an inventory that exists; `userdb_remove` frees it, whether its user is online or not |
| `Enter`, `Leave`, `Walk` | a session begins in room 0, ends, or moves; `building_enter` looks for the key |
| `LookupFails` | inventory, look and verbs of a session whose record is gone: the NULL pointer of `userdb_lookup` is dereferenced, and the master dies |
| `ReqTake`, `TakeAdd`, `TakeDel`, `TakeRefused` | `req_take`: the list under the name; per object `userdb_add_obj`, then `room_obj_del_by_ptr`; `hook_take` refuses |
| `ReqDrop`, `DropAdd`, `DropDel` | `req_drop`: the list; per object `room_obj_add`, then `userdb_del_obj_by_ptr` |
| `DropKept`, `DropFed` | no `hook_drop` or one that agrees; `food_drop` with the bear in the room |
| `DropRefused`, `UndoDel` | `hook_drop` refuses: the object goes back |
| `LoopDone`, `SaveState` | the end of either handler, `server_save_state` |
| `Dig`, `Put`, `Eat` | the verbs of dunnet that make or destroy objects, none of which saves |

TAKE and DROP are split only where an object is in two maps at once: nothing can run
there but a signal handler, which is what `Persist` adds.  The order of objects under
one key is left out, as are keys in two spellings.  A walk leads from any room to any
other and stands for all the moves on the way; the map of the world only restricts it.
The key is asked for on entering `building_hallway`, and so on every walk from elsewhere
to or from the two rooms whose only exit it is.  A user has one session here, as what
the handlers do to objects depends on the record of the sender and not on the child.
No hook of dunnet refuses a drop, so `Stubborn` is a parameter for world modules that
have one.  The master dies for good in `LookupFails`.  That it can also abort when the
table under a multimap grows is in `Hash` and left out here.

### Persist

`pc` says where the process is, `task` why it writes: at its start, while it serves,
or because it exits.  `n` is the static counter of `server_save_state`.  `worldfile`
has the world file of both directories, since `load_worldfile` runs before the
`chdir` of `-d`; `userfile` is the user file.  `promise` remembers what the last
complete save wrote.  A record of a file is the key, id and class that `obj_write` is
called with.

| action | code |
|---|---|
| `StartFresh`, `StartLoad`, `StartFails` | `load_worldfile`: `world_init` and a first save, `world_load`, or neither |
| `UserdbInit`, `FirstRunSetup`, `UserdbFails` | `userdb_init`, the administrator of `check_userfile`, or neither |
| `Serve` | any step of `Objects` but the save |
| `SaveDue` | `server_save_state(false)`: every `SaveInterval`th call writes |
| `WorldSave`, `UserdbWrite` | the end of each file |
| `Sigint` | SIGINT or SIGTERM at any point: the handler saves from the state it finds, then the process ends; a user file it interrupts stays cut until it is written again |
| `Crash` | the process is killed at any point: before it opens the file it is to write, which is then the old one, or within it, which cuts it |

Cuts fall between rooms (the world file) or records (the user file), or leave a file
that cannot be read.  `world_save` does not truncate: a cut keeps the rest of the old
file, which fits if the new part has the length of the old; the length is compared by
the number of objects of each class.  `userdb_write` truncates, so a cut leaves the
records that were written first, in an order that is left open.  A kill after
`world_save` and before that truncation leaves the whole new world beside the old
user file.  A behaviour ends
where the two files hold an object twice (`twins`) or cannot be read (`refused`).  A
second signal during the shutdown and an operator who edits the files are left out.

## 3. What TLC checks

| run | instance | result |
|---|---|---|
| `core` | an administrator and a limited child, broadcasts, 2 slots per pipe, 1 request per second, 2 seconds, death at any point, fair scheduling | holds: `TypeOK`, `Entered`, `ClientCount`, `NoFreedEntry`, `NoStrandedChild`, `WithinAllowance`, `EveryPollReturns`, `EveryDeathIsReaped` |
| `rpc` | 2 administrators, lookups, verbs, kick and kick-all, fair scheduling | holds: `ImplementsRpc`, `RawModeAgrees`, `ReturnsServed`, `NoCircularWait` |
| `early` | broadcasts | **fails**: `ReturnsServed` |
| `stale` | lookups | **fails**: `LookupOfName` |
| `dict` | 4 keys, growth from 1 to 8 buckets, plain map or multimap | holds: `TypeOK`, `NoDuplicateKeys`, `Reachable`, `SizeIsCount`, `AssertHolds`, `DupIsCopy`, `ImplementsDict` |
| `abort` | the same, multimap | **fails**: `AssertNeverFails` |
| `rooms` | 3 children, 2 names, 2 rooms, 1 LOGOUT, 1 teleport | holds: `TypeOK`, `OrderlyEntriesTrue`, `SessionsListed` |
| `logout` | 2 children, 1 LOGOUT | **fails**: `EntriesTrue` |
| `users` | 2 children, 2 names, 2 passwords, 2 edits, 1 dropped request, 2 failed logins, every second change saved | holds: `TypeOK`, `PrivGranted`, `ChpassOwn`, `UnsavedFew` |
| `objects` | 2 users, 5 rooms, two shovels, food, bear and computer; a stubborn CPU card, 1 refused drop, 7 ids | holds: `TypeOK`, `OnePlace`, `RefBooks`, `KeysAlive`, `MadeOnce`, `TodoLive` |
| `persist` | 1 user, 3 rooms, two shovels, 4 ids, every second change saved, SIGINT and kills everywhere | holds: `PTypeOK`, `IdsFresh`, `KillRisksMoved`, `RefBooks`, `BootRestores` |
| `prefix` | the same with `-d` | **fails**: `BootRestores` |

`Entered` and `NoFreedEntry` are what `handle_disconnects` and `handle_child_req`
rely on when they dereference an entry.  The fork is safe although the child can
die before it is in the map, because only the loop itself reaps.  `NoStrandedChild`
says that every child in a blocking read has a final packet (ALLDONE or KICK)
ahead of it: in its pipe, in the queue of a handler, or due at the end of the
request the master is executing.  It is why `req_pass_msg` must send ALLDONE to the
children it broadcasts to, and `early` shows the price: a child that is waiting for
the answer to its own request takes that ALLDONE for it.  Its `send_master` returns
early, and whatever it does next happens before its request is executed; if it
quits, the request is never executed, since reaping it stops its watcher.

`rpc` is the other side of it: without broadcasts `send_master` is a remote procedure
call, and `ReturnsServed`, the property that `early` refutes, holds.

The early return has a second price.  A child that does not wait for its own ALLDONE
can have more than one request in its pipe, up to what the rate limit allows
(`WithinAllowance`).  That is more than a pipe holds: 11 requests per second for 16
slots, and no limit for an administrator.  Then the server can wedge: the master
blocks writing to a child that blocks writing to the master (`CircularWait`), and
neither moves again.  `core` reaches this.  `EveryPollReturns` and `EveryDeathIsReaped`
say that it is the only way to hang: if clients read, every read of `poll_requests`
ends, and every dead child is reaped, unless the server is `Wedged`.  Without
broadcasts there is no such state (`NoCircularWait` in `rpc`, with administrators and
without any limit), because a child that writes has nothing in its pipe.

`stale`: for an unknown user the master sends no packet, and nothing in the child
resets `reqdata_type`, so the lookup returns what the previous one found.

`AssertHolds` says that the assert of `hash_resize` (`src/src/hash.c:526`) never fails
in a plain map.  In a multimap it does (`abort`), and such a behaviour of `dict` ends
there: `hash_del_internal_node` does not decrement `n_entries`.  The
multimaps of objects start with at most 8 buckets, so after an object has been taken
the next growth aborts the master.  `used_buckets`, which removal decrements once too
often whenever a chain goes on behind its head, is harmless by itself: it wraps around,
the table grows early, and the run shows that nothing else happens.

`rooms`: sessions that share a name share one entry of `room->users`, and the first
to leave takes it away; so does a dead child that is reaped after its user has logged
in again.  No entry is ever false, though, and a session that has its name to itself
is always found.  Both end with the first LOGOUT or teleport: `logout` shows an entry
whose key has been freed by the second login of the same connection.  A teleport is
counted like a LOGOUT because it leaves the child's own room unchanged; no world in
the repository uses it.

`users`: a login writes back the record it has read, and that record may be of
another name (`stale`).  A change made in between is undone, a deleted account comes
back, and so it does after a crash; the repository promises nothing else.  What does
hold is that every record has a privilege that was once given to that name.  It
depends on the answer to that same write: the boolean takes the place of the record
in `returned_reqdata`, so that a later CHPASS cannot find a foreign one.  Once the
rate limit has dropped a write, both properties fail, which is why they are stated
for executions without a drop.  `UnsavedFew` makes the comment "save after
every X changes" precise: the user file is never behind for more accounts than changes
have been counted, and that is what a crash between two saves takes back.  A crash
within a save takes back more: the file has been truncated, and any account can be
missing from what is left.  The run includes such starts; the bound is counted from the
file that was found.

`objects`: takes and drops, whole lists at a time, hooks that refuse, hooks and verbs
that make or destroy objects, and accounts that are deleted while their objects are
in use.  `OnePlace` says that no order of these loses or doubles an object or leaves
it without one of its aliases.  `RefBooks` is exact: a reference count is the number
of pairs that point to the object, plus one for every refused drop, because
`req_drop` passes `obj_dup(obj)` to a function that takes references of its own.
`KeysAlive` is about the other half of memory: a multimap node keeps the string of
the first object inserted under it as its key, and that object may be gone before the
node.  It holds as long as objects that share a name leave a map together, as they do
with one food in the world: `food_drop` destroys only the food that was dropped, so a
world with two of them would not have it.  `TodoLive` is why the loops, which read the
next element before the current one is deleted, are safe although hooks change the
maps underneath.  What the run does not rule out is `LookupFails`: a request of a
session whose account was deleted kills the master.

`persist`: as long as no move is in progress, SIGINT at any point, also from within a
save, brings the next start back to the state of the signal, and so does a kill while
nothing is written to what the last save wrote (`BootRestores`).  In the middle of a
move the object is in two maps, is written twice and read as two objects with one id;
that is where the property makes no claim.  What a kill can do in the middle of a save
is bounded by `KillRisksMoved`, as long as the world can still be loaded.  Objects that moved since the last complete save can be
lost or doubled.  An object that did not move is never doubled; it can be lost, but only
from an inventory and together with the account that owns it, when `userdb_write` has
truncated the file and not yet come to that user.  A cut user file is accepted without
the users behind the cut.  New objects get fresh ids through all of it (`IdsFresh`): the
counter of the world file overwrites what the loading of rooms has counted, and
inventories come on top, which is too much and never too little.  The verbs of dunnet
do not count for `server_save_state`; their effects are saved with the next change
that does.

`prefix`: the program looks for the world in the directory it was started in, then
changes to the one named by `-d` and saves there.  After a restart the world is that
of the launch directory and the inventories are those of the prefix: a shovel taken
before the restart is in a room and in the inventory, with one id, and new objects
get ids that are in use.

### Bounds

`MaxText`, `MaxTime`, `MaxSz`, `MaxDrift`, `MaxId` and `MaxRefused` cut off what is
unbounded in the code;
`PipeCap` and `RateLimit` are parameters of the code with smaller values.  Two
children give a sender and one that is visited, and that dies or is reaped meanwhile;
the handlers treat all others alike, and the proofs of the invariants are for any
number.  Two slots are the least that let a pipe hold the text and the ALLDONE of a
broadcast; a pipe fills up in all runs, and that `core` wedges shows that its bounds do
not hide that case.  Four keys give a chain of three nodes and three growths.
`MaxDrift = 3` takes `used_buckets` past zero.  `MaxLogouts` and `MaxTeleports` are
1: the properties of `rooms` speak of executions without any, and one is enough for
`logout`.  Three children give two that share a name and a third that does not.
`MaxEdits = 2` lets an account be added and then changed, deleted or given a new
password while its user is between two requests; `MaxDrops = 1` makes the condition
of `PrivGranted` matter.

Two users give one who deletes or takes and one whose objects are concerned.  Two
shovels make lists of two objects, so that a loop is interrupted by its own hooks or
by a signal halfway; food, bear and computer are what the hook and the verbs need,
and `MaxId` leaves room for the key and the card, and in `persist` for the ids that
loading skips (it bounds the counter in `UserdbInit`).  `SaveInterval = 2` gives a
change that is saved and one that is not.  Deadlock is not checked in these two runs:
the master may die, and behaviours end in `twins` and `refused` and at the bounds.
The proofs have no bounds on the numbers of children, users, rooms or objects.

### Fairness

`FairSpec` assumes that the kernel schedules the processes: weak fairness of the master,
whose steps are disabled while it blocks on a full pipe, and of the steps of a child that
wait for nothing but the kernel and the master (`Scheduled`).  Clients need not type,
leave or connect, and `Tick` is not fair.  The order of watchers within a round is free,
but a round is finite, so every readable pipe has its turn.

It assumes nothing of a child that prints.  `out()` (`src/src/client.c:60`) writes to the
socket of the client with a blocking write, so a client that stops reading stops its
child, then the pipe of that child fills up and the master stops as well: TLC finds this
when the liveness properties are checked under `FairSpec` alone.  Nothing in the program
rules it out.  `ClientsRead` states what it depends on, and it is the hypothesis of
`EveryPollReturns`, `EveryDeathIsReaped` and the liveness half of `ImplementsRpc`; the
safety properties have no hypothesis.

## 4. What is proved

`IpcProofs` proves for every set of children, every pipe size, rate limit and choice
of commands:

- `TypeCorrect`: `TypeOK`, which includes the capacity of the pipes.
- `BooksCorrect`, and from it `ClientsCounted` and `NothingFreed`: `Entered`,
  `ClientCount` and `NoFreedEntry`.  The inductive
  invariant `Books` adds where the master is: between two requests there is no job,
  and the child being inserted is not yet in the map.
- `NobodyStranded`: `NoStrandedChild`.  It is not inductive: whether the last packet
  of a pipe is final depends on the packets the current handler has yet to write.
  `Frames` adds that the queue of a handler ends with a final packet for every child
  it writes to other than the sender, that the sender is owed one until its own
  ALLDONE is queued, and that pipes of dead and free pids are quiet.
- `AllowanceKept`: `WithinAllowance`, from `Frames` (the pipe of a new child is
  empty).

`RpcProofs` continues from there, for every set of children and every pipe size:

- `RawModeKept`: `RawModeAgrees`, broadcasts included.  `Agreed` makes it
  inductive: a child outside of `child_map` is not in raw mode and has nothing in its
  pipe, and a toggle in the queue of a handler looks like one in a pipe.
- `SendMasterIsCall`: if no child may broadcast, `Spec => R!Spec`, every step of `Ipc` is
  a step of `Rpc` or a stutter.  This is the safety half of `ImplementsRpc`.  `Silent`
  says that there is no broadcast in any request, `OneCall` that the call of a waiting
  child is in exactly one place (its pipe, the hands of the master, or an ALLDONE on
  its way) and that a child which does not wait has none.
- `ReturnsOnlyServed`: `ReturnsServed` under the same hypothesis.  The hypothesis is
  needed: `early` is the counterexample with broadcasts.
- `OnlyBroadcastsWedge`: `NoCircularWait` under the same hypothesis, whatever the rate
  limit and however many administrators there are: `OneCall` leaves nothing in the pipe
  of a child that is about to write.  With broadcasts `core` reaches the wedge.

The assumptions on the constants are those named in the modules: finitely many
children, a pipe with at least one slot, a save interval of at least two, at least
one failure allowed.

`PresenceProofs` proves for every set of children, names and rooms:

- `TypeCorrect`: `TypeOK`, with `NamesSet`: a session acts under a name.
- `EntriesCorrect` and `SessionsFound`: `OrderlyEntriesTrue` and `SessionsListed`.
  True entries are not inductive by themselves: that removal by name takes out the
  child's own entry rests on names being unique in a map, that SETROOM leaves none
  behind rests on a new session being in the start room already, and that nobody
  else takes an entry away rests on `shared` knowing every name used twice.
  `PresenceInv` adds these.

`AccountsProofs` proves for every set of children, names and passwords and every
interval:

- `TypeCorrect` and `LittleUnsaved`: `TypeOK` and `UnsavedFew`.  Each change of the
  database touches one name and counts (`SaveInv`), and a start, from a cut file too, has
  file and database agree.
- `PrivilegesGranted` and `ChpassOnOwnRecord`: `PrivGranted` and `ChpassOwn`.  The
  invariant `Grants` extends the claim from the database to every record a child
  holds, and says that in the game a child holds only the record of its own user.

`ObjectsProofs` proves for every set of users and rooms, every stock of objects of
dunnet's classes, every choice of stubborn classes and every number of ids:

- `Placed` and `TodoLives`: `OnePlace` and `TodoLive`.  The invariant `ObjectsInv` is
  about the set of objects a map has (`Has`): under `Exact`, which says that an object
  is in a map under its names, all of them and no others, insertion, deletion and
  creation act on that set (`InsertHas`, `DeleteHas`, `CreateHas`).  `Apart` says which
  object may be in two maps, `Moving` what each handler knows of the object it is at
  and of those to come, `Fresh` that ids not handed out are nowhere.
- `Referenced` and `ObjectsTyped`: `RefBooks` and `TypeOK`.  `Referred` gives each
  object the size of its name set once per map that has it, plus its leaks; that counts
  never fall below zero follows from it.

The proofs rest on `ObjectsAssumption`: names of users and rooms differ, the stock
consists of classes whose home is a room.

`LifetimeProofs` adds to `ObjectsInv` that objects of one class stay together (`Flock`):
they are in two maps only while a loop moves them, the loop will visit all that are
left of a class it has started on, and a key or a card is one of its kind and
replaces the bears or the hole it came from:

- `NothingMadeTwice`: `MadeOnce`, for every stock.
- `KeysOutliveNodes`: `KeysAlive`, if the stock has at most one food (`OneFood`), as
  dunnet's has.  Without that it is false: `food_drop` destroys the food that was
  dropped and leaves its name as the key of the node of the others.  `Backed` says
  that every node has a pair, `Keyed` that a key is a name of a live object; what keeps
  them is that an object that leaves all maps takes its class with it (`Departs`).

`PersistProofs` proves for every set of users and rooms, every stock and every save
interval, for a server that is started without `-d` (`~ Prefix`; with it `prefix` is the
counterexample):

- `PersistTyped`, `IdsStayFresh`, `BooksSurvive`: `PTypeOK`, `IdsFresh` and `RefBooks`.
- `KillsAreBounded` and `BootBringsBack`: the action properties `KillRisksMoved` and
  `BootRestores`.  Whatever mixture of the old and the new files a kill leaves, each room
  and each account in it is as it was or as it is, so that an object that was and is at
  one place only has one record there (`OneRecord`), unless its account is missing.
- The inductive invariant `PInv` is `ObjectsInv`, which therefore survives restarts, with
  what the files say.  `Files` and `Phases` are well-formedness; `Current` says that in
  the middle of a save the file already written is the state in memory, `Kept` that each
  file is what the promise says, or what a shutdown is writing, `Numbered` that the
  counter of the world file is above every id in it.  The other parts are about files of
  different age, which is what a kill leaves: `Later` says that an object which is newer
  than the world file is of a class the file does not have, and `Beasts` and `Cards`
  why: it is the key of a bear or the card of a hole that the file knows as unfed or
  undug.
- The lemmas it rests on: `RoundTrip`, what is loaded from what was written are the pairs
  of the map (a record has the aliases of its object, and loading inserts it under all
  of them); `Mixed`, an overwritten world file that can still be read has no classes
  other than those of the old one; `Births`, what a step creates is a key or a card.

`HashProofs` proves for every set of keys and values, every initial size and every
bound on growth and drift:

- `HashTyped`, `AllReachable`, `SizeCounts`, `NeverAborts`, `DupCopies`: `TypeOK`,
  `Reachable`, `SizeIsCount`, `AssertHolds` and `DupIsCopy`, whatever the hash and the
  compare function are, and so for the maps of objects as well.
- `NoDoubles` and `TableIsDict`: `NoDuplicateKeys` and `ImplementsDict`, the refinement
  of `Dict` and what each call does to the dictionary.  They assume `Fits`: keys that
  compare equal have the same hash.  `hash_djb` with `compare_strings` has it, and so
  have the functions that go with pids and request codes; `hash_djb` with
  `compare_strings_nocase`, of the maps of objects, has not (plan, 7), and
  then two keys that compare equal can both be in the table.
- The inductive invariant `HashInv` is about positions, pairs of a bucket and a place in
  its chain (`Pos`): every node is in the chain that its key hashes to (`Homed`), no two
  nodes of one chain have keys that compare equal (`Unique`), and in a plain map
  `n_entries` is the number of positions (`Counting`).  That growth never brings two
  such nodes together is arithmetic: what is equal modulo the new size is equal modulo
  the old one, which divides it (`ModSame`, `MovedUnique`).  It says nothing of
  `used_buckets` but that it is a word: what removal does to that counter cannot hurt.
  In the copy that `hash_dup` makes the counter is exact, since only insertions have
  touched it.
- Growth and duplication go over all nodes, by `FlattenSeq` and `FoldLeft`.  Theorems
  of the library that take a predicate cannot be used here, so induction is stated for
  a set of numbers (`Least`, `Induct`): that the recursive functions behind the two
  operators exist (`FlattenExists`, `FoldExists`), what they return (`IterateLists`,
  `FoldSteps`), and that the copy is right after every number of nodes (`CopiesAll`).
  Each list of nodes is related to the table by a bijection with its positions
  (`Lists`, `Moved`), from which the counts follow.
- `HashAssumption` says that there are fewer keys than words: each has an address.
  That is why the number of nodes never wraps.

Only model-checked: liveness, that is `EveryPollReturns`, `EveryDeathIsReaped`, and the
fairness part of `ImplementsRpc`.

## 5. Plan

1. `Ipc`, `Rpc`, `Hash`, `Dict` and the theorems above: done.
2. `Presence` and `Accounts` and their theorems: done.
3. `Objects` and its theorems: done.
4. `Persist`: done.
5. The safety part of the refinement of `Rpc` for commands without broadcast, the
   lifetimes of objects and keys, `Persist`, and `Hash` as a dictionary, proved: done.
6. Shutdown of the master in `Ipc` (end of file in the children, descriptors that
   later children inherit), and the descriptors that reaping does not close.
7. Objects under keys in two spellings: the hash of object maps tells them apart and
   the comparison does not.

## 6. Not modelled

Besides what the plan lists:

- the text of messages and its formatting, telnet option parsing and line editing,
  which keep little state and touch none of what is shared;
- the pokey console, `shake` and the descriptions of dunnet, the template world and
  the world generator: data, and code that changes no object;
- the bytes of the files: a record is read as it was written or the file is refused;
- password hashing, option parsing and the setup of sockets, which run before the
  first connection or keep no state.

`REQ_WAIT` is modelled as a request without effect: it only delays the master.
