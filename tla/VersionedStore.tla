--------------------------- MODULE VersionedStore ---------------------------
(***************************************************************************)
(* What the hash table of a node promises (comments of Node::put and set):  *)
(* a value appears under a key, is replaced only by a more recent version   *)
(* of the same object, and may be erased.                                   *)
(***************************************************************************)
EXTENDS Integers

CONSTANTS
    Keys,
    Values,
    OwnerOf,    \* value -> its immutable fields: metadata, ids, owner
    StampOf,    \* value -> its last_updated time, 0 when it has none
    None        \* no value

VARIABLE store

Supersedes(v, w) ==
    /\ OwnerOf[v] = OwnerOf[w]
    /\ StampOf[v] > StampOf[w] \/ StampOf[w] = 0

Init == store = [k \in Keys |-> None]

Store(k, v) ==
    /\ store[k] # None => Supersedes(v, store[k])
    /\ store' = [store EXCEPT ![k] = v]

Erase(K) == store' = [k \in Keys |-> IF k \in K THEN None ELSE store[k]]

Next ==
    \/ \E k \in Keys, v \in Values : Store(k, v)
    \/ \E K \in SUBSET Keys : Erase(K)

Spec == Init /\ [][Next]_store
=============================================================================
