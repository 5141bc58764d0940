------------------------------ MODULE Presence ------------------------------
(***************************************************************************)
(* Who is where: the room and the user name that the master keeps for each *)
(* child, and the hash map room->users of each room.                       *)
(*                                                                         *)
(*   room.c          room_user_add, room_user_del, room_user_teleport      *)
(*   server_reqs.c   req_change_user, req_set_room, req_move_room          *)
(*   server.c        new connections, handle_disconnects                   *)
(*   client.c        client_main: login, LOGOUT, QUIT                      *)
(*                                                                         *)
(* A request is one step (Ipc shows when that is sound).  Whether a        *)
(* password is right is the business of Accounts: any login may succeed.   *)
(*                                                                         *)
(* The key of an entry of room->users is not a copy: it is the string      *)
(* child->user itself.  Once that string is freed the bytes of the key are *)
(* undefined, and a comparison with it may go either way.                  *)
(***************************************************************************)
EXTENDS Naturals, FiniteSets

CONSTANTS
    Child,      \* entries of child_map: one for each connected process
    User,       \* names that clients log in with
    Room,       \* rooms of the world
    Start,      \* the room of a new connection and of a login: room 0
    MaxLogouts,     \* bound: LOGOUT commands
    MaxTeleports    \* bound: calls of room_user_teleport

NoUser == "none"

ASSUME PresenceAssumption ==
    /\ IsFiniteSet(Child)
    /\ NoUser \notin User
    /\ Start \in Room
    /\ MaxLogouts \in Nat
    /\ MaxTeleports \in Nat

VARIABLES
    pc,         \* where client_main of the child is
    name,       \* current_user of the child
    user,       \* child->user in the master
    room,       \* child->room in the master
    users,      \* room->users of each room
    again,      \* connections that have used LOGOUT: the rate limit may bite
    logouts,    \* history: how often LOGOUT was used
    teleports,  \* history: how often a verb teleported somebody
    shared      \* history: names that two entries of child_map ever had at once

vars == <<pc, name, user, room, users, again, logouts, teleports, shared>>

\* An entry of room->users: the name it was inserted under, the child_data it
\* points to, and whether the string that is its key is still allocated.
Entry == [name : User, of : Child, key : {"live", "freed"}]

Stage == {"free", "auth", "user", "room", "game", "gone"}

\* Each room has its own users; pc, name, user and room belong to the child.
TypeOK ==
    /\ pc \in [Child -> Stage]
    /\ name \in [Child -> User \cup {NoUser}]
    /\ user \in [Child -> User \cup {NoUser}]
    /\ room \in [Child -> Room]
    /\ users \in [Room -> SUBSET Entry]
    /\ again \subseteq Child
    /\ logouts \in 0..MaxLogouts
    /\ teleports \in 0..MaxTeleports
    /\ shared \subseteq User

Init ==
    /\ pc = [c \in Child |-> "free"]
    /\ name = [c \in Child |-> NoUser]
    /\ user = [c \in Child |-> NoUser]
    /\ room = [c \in Child |-> Start]
    /\ users = [r \in Room |-> {}]
    /\ again = {}
    /\ logouts = 0
    /\ teleports = 0
    /\ shared = {}

-----------------------------------------------------------------------------
(***************************************************************************)
(* room_user_add and room_user_del.  hash_insert fails if the name is      *)
(* there already and hash_remove takes one entry out; a freed key that     *)
(* happens to compare equal is taken for the name that is looked for.      *)
(***************************************************************************)
Named(S, u) == {e \in S : e.key = "live" /\ e.name = u}
Freed(S) == {e \in S : e.key = "freed"}

Fresh(u, c) == [name |-> u, of |-> c, key |-> "live"]

\* The values room->users may have after room_user_add for child c as user u.
Added(S, u, c) ==
    {T \in {S \cup {Fresh(u, c)}, S} :
        /\ T = S => Named(S, u) \cup Freed(S) # {}
        /\ Named(S, u) # {} => T = S}

\* The values room->users may have after room_user_del as user u.
Deleted(S, u) ==
    {S \ {e} : e \in Named(S, u) \cup Freed(S)}
        \cup {T \in {S} : Named(S, u) = {}}

\* free(child->user): the keys of the entries child c made are gone.
Free(S, c) ==
    {e \in S : e.of # c}
        \cup {[name |-> e.name, of |-> c, key |-> "freed"] : e \in {f \in S : f.of = c}}

-----------------------------------------------------------------------------
(***************************************************************************)
(* Connections and logins.                                                 *)
(***************************************************************************)

\* new_connection_cb: a zeroed child_data.
Connect(c) ==
    /\ pc[c] = "free"
    /\ pc' = [pc EXCEPT ![c] = "auth"]
    /\ UNCHANGED <<name, user, room, users, again, logouts, teleports, shared>>

\* client_main, the auth loop: a successful login as u.
Login(c, u) ==
    /\ pc[c] = "auth"
    /\ pc' = [pc EXCEPT ![c] = "user"]
    /\ name' = [name EXCEPT ![c] = u]
    /\ UNCHANGED <<user, room, users, again, logouts, teleports, shared>>

\* client_change_user and req_change_user.
ChangeUser(c) ==
    /\ pc[c] = "user"
    /\ pc' = [pc EXCEPT ![c] = "room"]
    /\ user' = [user EXCEPT ![c] = name[c]]
    /\ users' = [r \in Room |-> Free(users[r], c)]
    /\ shared' = shared \cup {u \in {name[c]} : \E d \in Child \ {c} : user[d] = u}
    /\ UNCHANGED <<name, room, again, logouts, teleports>>

\* client_change_room(0) and req_set_room: child_set_room adds to the new room
\* and takes nothing out of the old one.
SetRoom(c) ==
    /\ pc[c] = "room"
    /\ pc' = [pc EXCEPT ![c] = "game"]
    /\ room' = [room EXCEPT ![c] = Start]
    /\ \E T \in Added(users[Start], user[c], c) : users' = [users EXCEPT ![Start] = T]
    /\ UNCHANGED <<name, user, again, logouts, teleports, shared>>

\* "Rate limit exceeded": send_master of a session that has sent enough
\* requests in this second returns without sending, and client_main goes on.
Limited(c) ==
    /\ c \in again
    /\ \/ pc[c] = "user" /\ pc' = [pc EXCEPT ![c] = "room"]
       \/ pc[c] = "room" /\ pc' = [pc EXCEPT ![c] = "game"]
    /\ UNCHANGED <<name, user, room, users, again, logouts, teleports, shared>>

-----------------------------------------------------------------------------
(***************************************************************************)
(* Commands of a session.                                                  *)
(***************************************************************************)

\* Mutant of Move: without the test for ROOM_NONE the child ends up nowhere.
MoveUnchecked(c, r) ==
    /\ pc[c] = "game"
    /\ \E S \in Deleted(users[room[c]], user[c]) : users' = [users EXCEPT ![room[c]] = S]
    /\ room' = [room EXCEPT ![c] = "ROOM_NONE"]
    /\ UNCHANGED <<pc, name, user, again, logouts, teleports, shared>>

\* Mutant of Move: child->room is set but room_user_add is forgotten.
MoveNotAdded(c, r) ==
    /\ pc[c] = "game"
    /\ \E S \in Deleted(users[room[c]], user[c]) : users' = [users EXCEPT ![room[c]] = S]
    /\ room' = [room EXCEPT ![c] = r]
    /\ UNCHANGED <<pc, name, user, again, logouts, teleports, shared>>

\* GO: req_move_room, when there is an exit and the hooks agree; otherwise
\* nothing changes.  An exit may lead back to the room itself.
Move(c, r) ==
    /\ pc[c] = "game"
    /\ \E S \in Deleted(users[room[c]], user[c]) :
         LET left == [users EXCEPT ![room[c]] = S]
         IN  \E T \in Added(left[r], user[c], c) : users' = [left EXCEPT ![r] = T]
    /\ room' = [room EXCEPT ![c] = r]
    /\ UNCHANGED <<pc, name, user, again, logouts, teleports, shared>>

\* room_user_teleport, for a verb of a world module: child->room stays.
Teleport(c, r) ==
    /\ pc[c] = "game"
    /\ room[c] # r
    /\ teleports < MaxTeleports
    /\ \E S \in Deleted(users[room[c]], user[c]), T \in Added(users[r], user[c], c) :
         users' = [users EXCEPT ![room[c]] = S, ![r] = T]
    /\ teleports' = teleports + 1
    /\ UNCHANGED <<pc, name, user, room, again, logouts, shared>>

\* LOGOUT: back to the login prompt; the master is not told.
Logout(c) ==
    /\ pc[c] = "game"
    /\ logouts < MaxLogouts
    /\ pc' = [pc EXCEPT ![c] = "auth"]
    /\ again' = again \cup {c}
    /\ logouts' = logouts + 1
    /\ UNCHANGED <<name, user, room, users, teleports, shared>>

\* QUIT, a lost connection, a kick, or too many failed logins.
Exit(c) ==
    /\ pc[c] \in {"auth", "user", "room", "game"}
    /\ pc' = [pc EXCEPT ![c] = "gone"]
    /\ UNCHANGED <<name, user, room, users, again, logouts, teleports, shared>>

\* Mutant of Reap: handle_disconnects without room_user_del.
ReapKeepsEntry(c) ==
    /\ pc[c] = "gone"
    /\ users' = [r \in Room |-> Free(users[r], c)]
    /\ pc' = [pc EXCEPT ![c] = "free"]
    /\ name' = [name EXCEPT ![c] = NoUser]
    /\ user' = [user EXCEPT ![c] = NoUser]
    /\ room' = [room EXCEPT ![c] = Start]
    /\ again' = again \ {c}
    /\ UNCHANGED <<logouts, teleports, shared>>

\* handle_disconnects for one child: room_user_del, then free_child_data.
Reap(c) ==
    /\ pc[c] = "gone"
    /\ \E S \in IF user[c] = NoUser THEN {users[room[c]]}
                                    ELSE Deleted(users[room[c]], user[c]) :
         users' = [r \in Room |-> Free(IF r = room[c] THEN S ELSE users[r], c)]
    /\ pc' = [pc EXCEPT ![c] = "free"]
    /\ name' = [name EXCEPT ![c] = NoUser]
    /\ user' = [user EXCEPT ![c] = NoUser]
    /\ room' = [room EXCEPT ![c] = Start]
    /\ again' = again \ {c}
    /\ UNCHANGED <<logouts, teleports, shared>>

Next ==
    \E c \in Child :
        \/ Connect(c)
        \/ \E u \in User : Login(c, u)
        \/ ChangeUser(c)
        \/ SetRoom(c)
        \/ Limited(c)
        \/ \E r \in Room : Move(c, r)
        \/ \E r \in Room : Teleport(c, r)
        \/ Logout(c)
        \/ Exit(c)
        \/ Reap(c)

Spec == Init /\ [][Next]_vars

-----------------------------------------------------------------------------
(***************************************************************************)
(* Properties.                                                             *)
(***************************************************************************)

\* room->users is what its declaration calls it, "username -> child_data"
\* (room.h): a key is a string that is still allocated, and the child it leads
\* to is connected under that name and in that room.
EntriesTrue ==
    \A r \in Room : \A e \in users[r] :
        /\ e.key = "live"
        /\ user[e.of] = e.name
        /\ room[e.of] = r

Orderly == logouts = 0 /\ teleports = 0

\* As long as nobody has used LOGOUT and no verb has teleported anybody, every
\* entry of every room->users is true, whatever logins under the same name,
\* moves, deaths and late reaping do to the maps.
OrderlyEntriesTrue == Orderly => EntriesTrue

\* Under the same condition room->users is complete as well: a session that is
\* in the game is listed in its room, unless its name was ever in use by two
\* children at once (a second login, or one before the old child was reaped).
SessionsListed ==
    Orderly =>
        \A c \in Child :
            pc[c] = "game" /\ user[c] \notin shared
                => Fresh(user[c], c) \in users[room[c]]
=============================================================================
