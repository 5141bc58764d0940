------------------------------- MODULE Hash --------------------------------
(***************************************************************************)
(* hash.c: the chained hash table behind child_map, the user database, the *)
(* rooms' users and verbs and, one level down, the multimaps of objects.   *)
(* A bucket is the sequence of its nodes from the head of the chain.  A    *)
(* table is told its hash and compare functions by its owner, and nothing  *)
(* makes the owner pick two that fit.                                      *)
(***************************************************************************)
EXTENDS Integers, Sequences, FiniteSets, SequencesExt

CONSTANTS
    Key, Val,
    NoVal,      \* the NULL pointer
    HashOf,     \* the hash function, before the reduction to the table size
    Fold,       \* compare(a, b) = 0 iff Fold[a] = Fold[b]
    Owners,     \* who may own the table: a plain "map" or a "multimap"
    InitSz,     \* tabsz of hash_init
    MaxSz,      \* bound: the table does not grow beyond this size
    MaxDrift,   \* bound: how far a counter is off the truth
    Word        \* 2^w for counters of w bits (size_t has 64)

ASSUME HashAssumption ==
    /\ NoVal \notin Val
    /\ HashOf \in [Key -> Nat]
    /\ DOMAIN Fold = Key
    /\ Owners \subseteq {"map", "multimap"}
    /\ InitSz \in Nat /\ MaxSz \in Nat /\ MaxDrift \in Nat /\ Word \in Nat
    /\ MaxSz > 0 /\ InitSz <= MaxSz
    /\ 2 * MaxSz + MaxDrift < Word
    /\ IsFiniteSet(Key) /\ Cardinality(Key) < Word     \* each key has an address

VARIABLES
    owner,      \* who uses the table
    map,        \* struct hash_map: the table and its two counters
    ret,        \* what the last call returned
    aborted     \* the assert in hash_resize has failed

vars == <<owner, map, ret, aborted>>

Node == [key : Key, data : Val]

\* Mutant: the counters are signed.
DecSigned(n) == n - 1

\* size_t arithmetic
Inc(n) == (n + 1) % Word
Dec(n) == (n - 1 + Word) % Word

Empty(sz) == [table |-> [b \in 0..sz - 1 |-> <<>>],
              n_entries |-> 0, used_buckets |-> 0]

Init ==
    /\ owner \in Owners
    /\ map = Empty(IF InitSz = 0 THEN 1 ELSE InitSz)
    /\ ret = NoVal
    /\ aborted = FALSE

Size(m) == Cardinality(DOMAIN m.table)
Bucket(m, k) == HashOf[k] % Size(m)
Chain(m, k) == m.table[Bucket(m, k)]

\* The walk along the chain of k: 0 if no node compares equal.
Find(m, k) == SelectInSeq(Chain(m, k), LAMBDA n : Fold[n.key] = Fold[k])
Found(m, k) == Find(m, k) # 0

hash_lookup(m, k) == IF Found(m, k) THEN Chain(m, k)[Find(m, k)].data ELSE NoVal

\* All nodes, in the order in which hash_iterate returns them.
hash_iterate(m) == FlattenSeq([i \in 1..Size(m) |-> m.table[i - 1]])

Used(t) == Cardinality({b \in DOMAIN t : t[b] # <<>>})

-----------------------------------------------------------------------------
(***************************************************************************)
(* Insertion and growth.                                                   *)
(***************************************************************************)

\* The load factor reaches 75%: (used << 16) / size >= 2^15 + 2^14.
Overloaded(m) == 4 * m.used_buckets >= 3 * Size(m)

\* Mutant: the nodes stay in the buckets they are in.
hash_resizeInPlace(m, sz) ==
    [m EXCEPT !.table = [b \in 0..sz - 1 |-> IF b < Size(m) THEN m.table[b] ELSE <<>>]]

\* The nodes of s that belong into bucket b of sz, in the order of s.
Falling(s, sz, b) ==
    LET I == {i \in 1..Len(s) : HashOf[s[i].key] % sz = b}
    IN  [n \in 1..Cardinality(I) |-> s[CHOOSE i \in I : Cardinality({j \in I : j <= i}) = n]]

\* hash_resize puts every node at the head of its new chain and counts anew.
hash_resize(m, sz) ==
    LET t == [b \in 0..sz - 1 |-> Falling(Reverse(hash_iterate(m)), sz, b)]
    IN  [table |-> t, n_entries |-> Len(hash_iterate(m)), used_buckets |-> Used(t)]

\* hash_internal_insert_new: at the end of the chain.
Linked(m, k, v) ==
    [table        |-> [m.table EXCEPT ![Bucket(m, k)] =
                         Append(@, [key |-> k, data |-> v])],
     n_entries    |-> Inc(m.n_entries),
     used_buckets |-> IF Chain(m, k) = <<>> THEN Inc(m.used_buckets)
                      ELSE m.used_buckets]

\* Only an insertion into an empty bucket looks at the load.
Grows(m, k, v) == Chain(m, k) = <<>> /\ Overloaded(Linked(m, k, v))

InsertNew(m, k, v) ==
    IF Grows(m, k, v) THEN hash_resize(Linked(m, k, v), 2 * Size(m))
                      ELSE Linked(m, k, v)

\* The step that links a new node.  hash_resize asserts that it has met as
\* many nodes as n_entries says.
Link(k, v) ==
    /\ map' = InsertNew(map, k, v)
    /\ Size(map') <= MaxSz
    /\ aborted' = (map'.n_entries # Inc(map.n_entries))

\* Mutant: the key is not looked up first.
HashInsertBlind(k, v) ==
    /\ ret' = hash_lookup(map, k)
    /\ Link(k, v)

HashInsert(k, v) ==
    /\ ret' = hash_lookup(map, k)
    /\ \/ Found(map, k) /\ UNCHANGED <<map, aborted>>
       \/ ~Found(map, k) /\ Link(k, v)

\* Mutant: an existing pair is kept.
HashOverwriteKeeps(k, v) ==
    /\ owner = "map"
    /\ ret' = NoVal
    /\ \/ Found(map, k) /\ UNCHANGED <<map, aborted>>
       \/ ~Found(map, k) /\ Link(k, v)

\* The node keeps its place; key and data are replaced.
HashOverwrite(k, v) ==
    /\ owner = "map"
    /\ ret' = NoVal
    /\ \/ /\ Found(map, k)
          /\ map' = [map EXCEPT !.table[Bucket(map, k)][Find(map, k)] =
                                [key |-> k, data |-> v]]
          /\ UNCHANGED aborted
       \/ ~Found(map, k) /\ Link(k, v)

\* Mutant: the counters are copied along with the rest of the struct.
hash_dupCopiesCounts(m) ==
    FoldLeft(LAMBDA copy, n : IF Found(copy, n.key) THEN copy
                              ELSE InsertNew(copy, n.key, n.data),
             [m EXCEPT !.table = Empty(Size(m)).table], hash_iterate(m))

\* The copy has a table of the same size to begin with, and may grow.
hash_dup(m) ==
    FoldLeft(LAMBDA copy, n : IF Found(copy, n.key) THEN copy
                              ELSE InsertNew(copy, n.key, n.data),
             Empty(Size(m)), hash_iterate(m))

-----------------------------------------------------------------------------
(***************************************************************************)
(* Removal.  Both ways of it take one off used_buckets when they unlink    *)
(* the head of a chain, even if the chain goes on.                         *)
(***************************************************************************)
\* So used_buckets falls behind, and n_entries, which hash_del_internal_node
\* leaves as it is, runs ahead.
WithinDrift(m) ==
    /\ (Used(m.table) - m.used_buckets + Word) % Word <= MaxDrift
    /\ m.n_entries - Len(hash_iterate(m)) <= MaxDrift

Unlinked(m, k) ==
    [m EXCEPT !.table[Bucket(m, k)] = RemoveAt(@, Find(m, k)),
              !.used_buckets = IF Find(m, k) = 1 THEN Dec(@) ELSE @]

\* Mutant: n_entries is not decremented.
HashRemoveUncounted(k) ==
    /\ ret' = Found(map, k)
    /\ \/ Found(map, k) /\ map' = Unlinked(map, k)
       \/ ~Found(map, k) /\ UNCHANGED map
    /\ WithinDrift(map')
    /\ UNCHANGED aborted

HashRemove(k) ==
    /\ ret' = Found(map, k)
    /\ \/ /\ Found(map, k)
          /\ map' = [Unlinked(map, k) EXCEPT !.n_entries = Dec(@)]
       \/ ~Found(map, k) /\ UNCHANGED map
    /\ WithinDrift(map')
    /\ UNCHANGED aborted

\* hash_get_internal_node and hash_del_internal_node, which multimap_delete
\* calls when the last pair of a key is gone.
HashDelInternalNode(k) ==
    /\ owner = "multimap"
    /\ Found(map, k)
    /\ map' = Unlinked(map, k)
    /\ WithinDrift(map')
    /\ UNCHANGED <<ret, aborted>>

Next ==
    /\ ~aborted
    /\ \E k \in Key : \/ HashRemove(k)
                      \/ HashDelInternalNode(k)
                      \/ \E v \in Val : HashInsert(k, v) \/ HashOverwrite(k, v)
    /\ UNCHANGED owner

Spec == Init /\ [][Next]_vars
-----------------------------------------------------------------------------
PairsOf(m) == UNION {ToSet(m.table[b]) : b \in DOMAIN m.table}

\* Types; the counters are words.
TypeOK ==
    /\ owner \in Owners
    /\ DOMAIN map = {"table", "n_entries", "used_buckets"}
    /\ Size(map) \in 1..MaxSz /\ DOMAIN map.table = 0..Size(map) - 1
    /\ \A b \in DOMAIN map.table : map.table[b] \in Seq(Node)
    /\ map.n_entries \in 0..Word - 1 /\ map.used_buckets \in 0..Word - 1
    /\ ret \in Val \cup {NoVal} \cup BOOLEAN
    /\ aborted \in BOOLEAN

\* Every pair that hash_iterate visits is the one that a lookup of its key
\* finds, also after the table has grown.
Reachable ==
    \A p \in PairsOf(map) : Found(map, p.key) /\ hash_lookup(map, p.key) = p.data

\* "No duplicate keys are allowed": two names that compare equal are never
\* both in the table.
NoDuplicateKeys ==
    Cardinality({Fold[p.key] : p \in PairsOf(map)}) = Len(hash_iterate(map))

\* hash_size of a plain map is the number of pairs that hash_iterate visits:
\* userdb_write stores the one as the length of the list that it takes from
\* the other.
SizeIsCount == owner = "map" => map.n_entries = Len(hash_iterate(map))

\* assert(old_entries == map->n_entries) in hash_resize, for a table that only
\* hash_insert, hash_overwrite and hash_remove have changed.
AssertHolds == owner = "map" => ~aborted

\* assert(old_entries == map->n_entries) in hash_resize, for every table: what
\* the assertion says of the program.
AssertNeverFails == ~aborted

\* hash_dup: the copy holds the pairs of the original and is sane, whatever
\* state the counters of the original are in.
DupIsCopy ==
    LET copy == hash_dup(map) IN
    /\ PairsOf(copy) = PairsOf(map)
    /\ copy.n_entries = Cardinality(PairsOf(map))
    /\ copy.used_buckets = Used(copy.table)
-----------------------------------------------------------------------------
D == INSTANCE Dict WITH
        dict <- [c \in {Fold[p.key] : p \in PairsOf(map)} |->
                   CHOOSE p \in PairsOf(map) : Fold[p.key] = c]

\* With a compare function that fits the hash function, the table is a
\* dictionary: every call returns and leaves behind what hash.h says.
ImplementsDict ==
    /\ D!Spec
    /\ [][\A k \in Key :
            /\ HashRemove(k) => D!Remove(k)
            /\ HashDelInternalNode(k) => D!Discard(k)
            /\ \A v \in Val : /\ HashInsert(k, v) => D!Insert(k, v)
                              /\ HashOverwrite(k, v) => D!Overwrite(k, v)]_vars
=============================================================================
