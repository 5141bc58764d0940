------------------------------- MODULE Dict --------------------------------
(***************************************************************************)
(* What hash.h promises: a dictionary without duplicate keys, where two    *)
(* keys are the same when compare says so.  ret is what the last call      *)
(* returned.                                                               *)
(***************************************************************************)
CONSTANTS Key, Val, Fold, NoVal

VARIABLES dict, ret     \* dict: from the class of a key to its pair

Pair(k, v) == [key |-> k, data |-> v]

Init == dict = <<>> /\ ret = NoVal

Put(k, v) ==
    dict' = [c \in DOMAIN dict \cup {Fold[k]} |->
               IF c = Fold[k] THEN Pair(k, v) ELSE dict[c]]

Insert(k, v) ==
    \/ Fold[k] \in DOMAIN dict /\ ret' = dict[Fold[k]].data /\ UNCHANGED dict
    \/ Fold[k] \notin DOMAIN dict /\ ret' = NoVal /\ Put(k, v)

Overwrite(k, v) == Put(k, v) /\ ret' = NoVal

Remove(k) ==
    /\ ret' = (Fold[k] \in DOMAIN dict)
    /\ dict' = [c \in DOMAIN dict \ {Fold[k]} |-> dict[c]]

\* Nothing is returned.
Discard(k) ==
    /\ dict' = [c \in DOMAIN dict \ {Fold[k]} |-> dict[c]]
    /\ UNCHANGED ret

Next == \E k \in Key : \/ Remove(k) \/ Discard(k)
                       \/ \E v \in Val : Insert(k, v) \/ Overwrite(k, v)

Spec == Init /\ [][Next]_<<dict, ret>>
=============================================================================
