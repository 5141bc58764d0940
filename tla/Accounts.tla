------------------------------ MODULE Accounts ------------------------------
(***************************************************************************)
(* The user database and the sessions that read and write it.              *)
(*                                                                         *)
(*   userdb.c        userdb_lookup, _remove, _add and the request wrappers *)
(*   auth.c          auth_check, auth_user_add, auth_user_del              *)
(*   client.c        the login loop, USER, CHPASS, LOGOUT                  *)
(*   client_reqs.c   what poll_requests leaves in returned_reqdata         *)
(*   server.c        server_save_state                                     *)
(*                                                                         *)
(* A request is one step (Ipc shows when that is sound); a login and a     *)
(* CHPASS are two requests each, and other sessions act between them.      *)
(* Salt and hash are abstracted to the password they stand for, equal      *)
(* hashes meaning equal passwords; the time of the last login, inventories *)
(* and the data of the world module are left out.                          *)
(***************************************************************************)
EXTENDS Naturals, FiniteSets

CONSTANTS
    Child,          \* client processes
    User,           \* valid login names
    Pass,           \* passwords
    Root,           \* the account made by first_run_setup
    MaxFailures,    \* MAX_FAILURES (3)
    SaveInterval,   \* SAVE_INTERVAL (10)
    MaxEdits,       \* bound: USER and CHPASS commands that change the map
    MaxDrops        \* bound: requests that the rate limit drops

NoUser == "none"
Priv == {"USER", "ADMIN"}

ASSUME AccountsAssumption ==
    /\ NoUser \notin User
    /\ Root \in User
    /\ MaxFailures \in Nat \ {0}
    /\ SaveInterval \in Nat \ {0, 1}
    /\ MaxEdits \in Nat
    /\ MaxDrops \in Nat

\* struct userdata_t.
Record == [name : User, pass : Pass, priv : Priv]

VARIABLES
    userdb,         \* map of userdb.c, a set of records
    n,              \* the counter of server_save_state
    file,           \* the records in USERFILE
    pc,             \* where client_main of the child is
    current_user,   \* the name the child goes by
    held,           \* the record in returned_reqdata, if reqdata_type is TYPE_USERDATA
    failures,       \* failed logins
    are_admin,      \* children with are_admin set
    paced,          \* children that cannot have used up the rate limit
    granted,        \* history: privileges given by setup, USER ADD or USER MODIFY
    edits,          \* history: changes made by USER and CHPASS
    drops           \* history: lookups and writes that the rate limit dropped

dbvars == <<userdb, n, file>>
childvars == <<pc, current_user, held, failures, are_admin, paced>>
history == <<granted, edits, drops>>
vars == <<dbvars, childvars, history>>

\* One record or none is held; n stays below the interval.
TypeOK ==
    /\ userdb \subseteq Record
    /\ file \subseteq Record
    /\ n \in 0..SaveInterval - 1
    /\ pc \in [Child -> {"free", "auth", "store", "game", "chpass"}]
    /\ current_user \in [Child -> User \cup {NoUser}]
    /\ held \in [Child -> SUBSET Record]
    /\ \A c \in Child : \A r, s \in held[c] : r = s
    /\ failures \in [Child -> 0..MaxFailures - 1]
    /\ are_admin \subseteq Child
    /\ paced \subseteq Child
    /\ granted \subseteq User \X Priv
    /\ edits \in 0..MaxEdits
    /\ drops \in 0..MaxDrops

\* first_run_setup, or the user and password of the command line.
Setup(p) == [name |-> Root, pass |-> p, priv |-> "ADMIN"]

\* userdb_init and check_userfile: what USERFILE holds is read; if that is
\* nothing an administrator is set up, which counts as one change, and USERFILE
\* is written.
Boot(saved) ==
    IF saved # {}
    THEN {[map |-> saved, n |-> 0]}
    ELSE {[map |-> {Setup(p)}, n |-> 1] : p \in Pass}

\* The first start of the server.
Init ==
    /\ \E b \in Boot({}) : userdb = b.map /\ file = b.map /\ n = b.n
    /\ pc = [c \in Child |-> "free"]
    /\ current_user = [c \in Child |-> NoUser]
    /\ held = [c \in Child |-> {}]
    /\ failures = [c \in Child |-> 0]
    /\ are_admin = {}
    /\ paced = {}
    /\ granted = {<<Root, "ADMIN">>}
    /\ edits = 0
    /\ drops = 0

-----------------------------------------------------------------------------
(***************************************************************************)
(* The master: userdb_lookup, and changes of the map, each of which ends   *)
(* with server_save_state(false).                                          *)
(***************************************************************************)
Lookup(u) == {r \in userdb : r.name = u}

\* server_save_state(false) after a change that leaves db in the map.
Save(db) ==
    /\ n' = (n + 1) % SaveInterval
    /\ file' = IF n' = 0 THEN db ELSE file

\* userdb_add: hash_overwrite, whatever was there under the name.
UserdbAdd(r) ==
    LET db == {s \in userdb : s.name # r.name} \cup {r}
    IN  userdb' = db /\ Save(db)

\* Mutant of UserdbRemove: without server_save_state.
UserdbRemoveQuiet(u) == userdb' = userdb \ Lookup(u) /\ UNCHANGED <<n, file>>

\* userdb_remove: saves only if there was something to remove.
UserdbRemove(u) ==
    IF Lookup(u) = {}
    THEN UNCHANGED dbvars
    ELSE LET db == userdb \ Lookup(u)
         IN  userdb' = db /\ Save(db)

-----------------------------------------------------------------------------
(***************************************************************************)
(* The child: requests and what they leave in returned_reqdata.            *)
(***************************************************************************)

\* The rate limit can drop a request of a child that is no administrator and
\* has sent commands since it connected or last slept in auth_check.
MayDrop(c) == c \notin are_admin /\ c \notin paced /\ drops < MaxDrops

\* userdb_request_lookup: an unknown name is not answered, and then (as when
\* the request is dropped) the record of an earlier lookup stays.
Answer(c, u) == IF Lookup(u) # {} THEN Lookup(u) ELSE held[c]

\* A lookup of u by child c leaves h held.
Ask(c, u, h) ==
    \/ h = Answer(c, u) /\ drops' = drops
    \/ MayDrop(c) /\ h = held[c] /\ drops' = drops + 1

\* auth_check: the password is that of the record held.
Right(h, p) == \E r \in h : r.pass = p

Connect(c) ==
    /\ pc[c] = "free"
    /\ pc' = [pc EXCEPT ![c] = "auth"]
    /\ paced' = paced \cup {c}
    /\ UNCHANGED <<dbvars, current_user, held, failures, are_admin, history>>

\* The process ends and takes its variables with it.
Leave(c) ==
    /\ pc' = [pc EXCEPT ![c] = "free"]
    /\ current_user' = [current_user EXCEPT ![c] = NoUser]
    /\ held' = [held EXCEPT ![c] = {}]
    /\ failures' = [failures EXCEPT ![c] = 0]
    /\ are_admin' = are_admin \ {c}
    /\ paced' = paced \ {c}

\* QUIT, a lost connection or a kick.
Exit(c) ==
    /\ pc[c] # "free"
    /\ Leave(c)
    /\ UNCHANGED <<dbvars, history>>

\* client_main, one round of the auth loop with a right password.
Login(c, u, p) ==
    /\ pc[c] = "auth"
    /\ \E h \in {Answer(c, u), held[c]} :
         /\ Ask(c, u, h)
         /\ Right(h, p)
         /\ held' = [held EXCEPT ![c] = h]
    /\ pc' = [pc EXCEPT ![c] = "store"]
    /\ current_user' = [current_user EXCEPT ![c] = u]
    /\ UNCHANGED <<dbvars, failures, are_admin, paced, granted, edits>>

\* Mutant of LoginFails: MAX_FAILURES is compared before it is counted.
LoginFailsLate(c, u, p) ==
    /\ pc[c] = "auth"
    /\ \E h \in {Answer(c, u), held[c]} :
         /\ Ask(c, u, h)
         /\ ~ Right(h, p)
         /\ IF failures[c] >= MaxFailures
            THEN Leave(c)
            ELSE /\ failures' = [failures EXCEPT ![c] = @ + 1]
                 /\ held' = [held EXCEPT ![c] = h]
                 /\ paced' = paced \cup {c}
                 /\ current_user' = [current_user EXCEPT ![c] = NoUser]
                 /\ UNCHANGED <<pc, are_admin>>
    /\ UNCHANGED <<dbvars, granted, edits>>

\* The same with a wrong one: auth_check sleeps; the last failure ends it.
LoginFails(c, u, p) ==
    /\ pc[c] = "auth"
    /\ \E h \in {Answer(c, u), held[c]} :
         /\ Ask(c, u, h)
         /\ ~ Right(h, p)
         /\ IF failures[c] + 1 >= MaxFailures
            THEN Leave(c)
            ELSE /\ failures' = [failures EXCEPT ![c] = @ + 1]
                 /\ held' = [held EXCEPT ![c] = h]
                 /\ paced' = paced \cup {c}
                 /\ current_user' = [current_user EXCEPT ![c] = NoUser]
                 /\ UNCHANGED <<pc, are_admin>>
    /\ UNCHANGED <<dbvars, granted, edits>>

\* The privilege of the record that was held when the login succeeded.
Level(c) == IF \E r \in held[c] : r.priv = "ADMIN" THEN are_admin \cup {c} ELSE are_admin \ {c}

\* Mutant of Store: the record is not written back, so it stays held.
StoreForgotten(c) ==
    /\ pc[c] = "store"
    /\ pc' = [pc EXCEPT ![c] = "game"]
    /\ are_admin' = Level(c)
    /\ UNCHANGED <<dbvars, current_user, held, failures, paced, history>>

\* userdb_request_add of the login: the record that was looked up is written
\* back (with a new last_login); the answer is a boolean.
Store(c) ==
    /\ pc[c] = "store"
    /\ pc' = [pc EXCEPT ![c] = "game"]
    /\ \E r \in held[c] : UserdbAdd(r)
    /\ held' = [held EXCEPT ![c] = {}]
    /\ are_admin' = Level(c)
    /\ UNCHANGED <<current_user, failures, paced, history>>

\* The same when the rate limit drops the request.
StoreDropped(c) ==
    /\ pc[c] = "store"
    /\ MayDrop(c)
    /\ pc' = [pc EXCEPT ![c] = "game"]
    /\ are_admin' = Level(c)
    /\ drops' = drops + 1
    /\ UNCHANGED <<dbvars, current_user, held, failures, paced, granted, edits>>
-----------------------------------------------------------------------------
(***************************************************************************)
(* Commands of a session.                                                  *)
(***************************************************************************)

\* Commands that only print, as many as it takes to reach the rate limit.
Chatter(c) ==
    /\ pc[c] = "game"
    /\ c \in paced
    /\ paced' = paced \ {c}
    /\ UNCHANGED <<dbvars, pc, current_user, held, failures, are_admin, history>>

\* GO: the answer is a boolean.
Go(c) ==
    /\ pc[c] = "game"
    /\ held' = [held EXCEPT ![c] = {}]
    /\ UNCHANGED <<dbvars, pc, current_user, failures, are_admin, paced, history>>

\* TAKE and DROP: the world changes, which counts for server_save_state.
WorldChange(c) ==
    /\ pc[c] = "game"
    /\ Save(userdb)
    /\ UNCHANGED <<userdb, childvars, history>>

\* The bound on changes.
Edit == edits < MaxEdits /\ edits' = edits + 1

\* USER ADD and USER MODIFY, for administrators and not on oneself.
UserAdd(c, u, p, priv) ==
    /\ pc[c] = "game" /\ c \in are_admin
    /\ u # current_user[c]
    /\ UserdbAdd([name |-> u, pass |-> p, priv |-> priv])
    /\ held' = [held EXCEPT ![c] = {}]
    /\ granted' = granted \cup {<<u, priv>>}
    /\ Edit
    /\ UNCHANGED <<pc, current_user, failures, are_admin, paced, drops>>

\* USER DEL, likewise.
UserDel(c, u) ==
    /\ pc[c] = "game" /\ c \in are_admin
    /\ u # current_user[c]
    /\ UserdbRemove(u)
    /\ held' = [held EXCEPT ![c] = {}]
    /\ Edit
    /\ UNCHANGED <<pc, current_user, failures, are_admin, paced, granted, drops>>

\* CHPASS up to the question for the new password.
Chpass(c, p) ==
    /\ pc[c] = "game"
    /\ \E h \in {Answer(c, current_user[c]), held[c]} :
         /\ Ask(c, current_user[c], h)
         /\ held' = [held EXCEPT ![c] = h]
         /\ IF Right(h, p)
            THEN pc' = [pc EXCEPT ![c] = "chpass"] /\ paced' = paced
            ELSE pc' = pc /\ paced' = paced \cup {c}
    /\ UNCHANGED <<dbvars, current_user, failures, are_admin, granted, edits>>

\* Mutant of ChpassStore: the privilege is taken from the session.
ChpassStoreOfSession(c, p) ==
    /\ pc[c] = "chpass"
    /\ pc' = [pc EXCEPT ![c] = "game"]
    /\ UserdbAdd([name |-> current_user[c], pass |-> p,
                  priv |-> IF c \in are_admin THEN "ADMIN" ELSE "USER"])
    /\ held' = [held EXCEPT ![c] = {}]
    /\ Edit
    /\ UNCHANGED <<current_user, failures, are_admin, paced, granted, drops>>

\* CHPASS, the new password: the privilege is that of the record held.
ChpassStore(c, p) ==
    /\ pc[c] = "chpass"
    /\ pc' = [pc EXCEPT ![c] = "game"]
    /\ \E r \in held[c] :
         UserdbAdd([name |-> current_user[c], pass |-> p, priv |-> r.priv])
    /\ held' = [held EXCEPT ![c] = {}]
    /\ Edit
    /\ UNCHANGED <<current_user, failures, are_admin, paced, granted, drops>>

\* The two new passwords differ, or the rate limit drops the request.
ChpassCancel(c) ==
    /\ pc[c] = "chpass"
    /\ pc' = [pc EXCEPT ![c] = "game"]
    /\ UNCHANGED <<dbvars, current_user, held, failures, are_admin, paced, history>>

\* LOGOUT: goto auth, with a new count of failures and nothing else changed.
Logout(c) ==
    /\ pc[c] = "game"
    /\ pc' = [pc EXCEPT ![c] = "auth"]
    /\ failures' = [failures EXCEPT ![c] = 0]
    /\ UNCHANGED <<dbvars, current_user, held, are_admin, paced, history>>

\* The master dies and is started again; the children exit when they find their
\* pipe closed.  A kill outside of userdb_write leaves USERFILE as it is.
\* userdb_write truncates it first and runs in server_save_state, also in that
\* of a shutdown: killed in there it leaves some of the records, in an order
\* that only the hash function knows, and all of them when it ends.  A file cut
\* in its magic or in a record is refused at the start: nothing happens until
\* somebody has mended it, which is left out.
Restart ==
    /\ \E saved \in {file} \cup SUBSET userdb : \E b \in Boot(saved) :
         userdb' = b.map /\ file' = b.map /\ n' = b.n
    /\ pc' = [c \in Child |-> "free"]
    /\ current_user' = [c \in Child |-> NoUser]
    /\ held' = [c \in Child |-> {}]
    /\ failures' = [c \in Child |-> 0]
    /\ are_admin' = {}
    /\ paced' = {}
    /\ UNCHANGED <<history>>

Next ==
    \/ \E c \in Child :
        \/ Connect(c) \/ Exit(c)
        \/ \E u \in User, p \in Pass : Login(c, u, p)
        \/ \E u \in User, p \in Pass : LoginFails(c, u, p)
        \/ Store(c) \/ StoreDropped(c)
        \/ Chatter(c) \/ Go(c) \/ WorldChange(c)
        \/ \E u \in User, p \in Pass, priv \in Priv : UserAdd(c, u, p, priv)
        \/ \E u \in User : UserDel(c, u)
        \/ \E p \in Pass : Chpass(c, p)
        \/ \E p \in Pass : ChpassStore(c, p)
        \/ ChpassCancel(c)
        \/ Logout(c)
    \/ Restart

Spec == Init /\ [][Next]_vars

-----------------------------------------------------------------------------
(***************************************************************************)
(* Properties.                                                             *)
(***************************************************************************)

\* Nobody comes by a privilege that was not given: as long as the rate limit
\* has dropped no lookup or write, every record has a privilege that setup,
\* USER ADD or USER MODIFY gave to that name, although CHPASS and logins
\* write back records they have read earlier, and may have read under another
\* name.
PrivGranted ==
    drops = 0 => \A r \in userdb \cup file : <<r.name, r.priv>> \in granted

\* Under the same condition the record that CHPASS has checked the password
\* against, and takes the privilege from, is that of the user it changes.
ChpassOwn ==
    drops = 0 =>
        \A c \in Child : pc[c] = "chpass" => \E r \in held[c] : r.name = current_user[c]

\* What USERFILE holds of u, and the users it is not up to date about.
Stored(u) == {r \in file : r.name = u}
Unsaved == {u \in User : Lookup(u) # Stored(u)}

\* "save after every X changes to the world state" (server.c): every change of
\* the map counts, whoever makes it, so that USERFILE is never behind for more
\* users than changes were counted since it was written, which is fewer than
\* SAVE_INTERVAL.  This is what a kill outside of userdb_write takes back; one
\* inside it, where the file has been truncated, can take any account.
UnsavedFew == Cardinality(Unsaved) <= n
=============================================================================
