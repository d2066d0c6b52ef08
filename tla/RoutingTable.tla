---------------------------- MODULE RoutingTable ----------------------------
(***************************************************************************)
(* The routing table of a node as a value, and the operations on it         *)
(* (routing_table.hpp, routing_table.cpp).                                  *)
(*                                                                          *)
(* A table maps a bucket index to the sequence of nodes of that bucket.     *)
(* Nodes are named by their address: a node id is the SHA3-256 hash of the  *)
(* address (Node::generate_node_id), kept abstract as IdOf.  Every member   *)
(* function takes the lock of one bucket for its whole body, so one         *)
(* application of an operator below is atomic in the code as well.          *)
(***************************************************************************)
EXTENDS Integers, Sequences, FiniteSets

CONSTANTS
    Addresses,      \* the addresses of the other nodes
    Self,           \* this node's own address
    Bits,           \* length of an id: NEROSHOP_DHT_ROUTING_TABLE_BUCKETS
    IdOf,           \* address -> id, an id being a function 1..Bits -> {0,1}
    BucketSize      \* NEROSHOP_DHT_NODES_PER_BUCKET

Ids == [1..Bits -> {0, 1}]

ASSUME TableAssumption ==
    /\ Self \notin Addresses
    /\ Bits \in Nat \ {0}
    /\ IdOf \in [Addresses \cup {Self} -> Ids]
    /\ BucketSize \in Nat \ {0}

Buckets == 0..(Bits - 1)

Tables == [Buckets -> Seq(Addresses)]

EmptyTable == [b \in Buckets |-> <<>>]

\* xor_distance_bit_index: the index of the most significant set bit of a XOR b,
\* which is the length of the common prefix; Bits when the ids are equal.  The
\* LARGER the index, the CLOSER the ids.
BitIndex(a, b) == Cardinality({i \in 1..Bits : \A j \in 1..i : a[j] = b[j]})

BucketOf(n) == BitIndex(IdOf[Self], IdOf[n])

InBucket(t, b) == {t[b][i] : i \in DOMAIN t[b]}

Nodes(t) == UNION {InBucket(t, b) : b \in DOMAIN t}

\* get_node_count: over all buckets.
NodeCount(t) == Cardinality(Nodes(t))

\* has_node(id) and get_node(id) index the bucket array with the bit index of
\* the id, unchecked: this node's own id has index Bits, one past the end.
IndexInRange(n) == BucketOf(n) \in Buckets

HasNode(t, n) == IndexInRange(n) /\ n \in InBucket(t, BucketOf(n))

\* add_node inserts only when these hold: not this node, an existing bucket, no
\* node with that id in the bucket, a free slot.
CanAdd(t, n) ==
    /\ n # Self
    /\ BucketOf(n) \in Buckets
    /\ n \notin InBucket(t, BucketOf(n))
    /\ Len(t[BucketOf(n)]) < BucketSize

\* Variant: the caller's has_node check is trusted and not repeated.
AddUnchecked(t, n) ==
    IF n # Self /\ BucketOf(n) \in Buckets /\ Len(t[BucketOf(n)]) < BucketSize
    THEN [t EXCEPT ![BucketOf(n)] = Append(@, n)]
    ELSE t

\* add_node: the table after the call.  A node of a full bucket is rejected.
AddNode(t, n) ==
    IF CanAdd(t, n) THEN [t EXCEPT ![BucketOf(n)] = Append(@, n)] ELSE t

Without(s, n) ==
    LET i == CHOOSE i \in DOMAIN s : s[i] = n
    IN SubSeq(s, 1, i - 1) \o SubSeq(s, i + 1, Len(s))

\* remove_node(id): erases one node from the bucket its id belongs to.
RemoveNode(t, n) ==
    IF HasNode(t, n) THEN [t EXCEPT ![BucketOf(n)] = Without(@, n)] ELSE t

\* find_closest_nodes: every node whose id is not the target is scored with its
\* bit index, the scores are sorted in ASCENDING order (std::sort, ties in any
\* order) and the first `count' are returned: the possible result sets.
FindClosest(t, target, count) ==
    LET score(n) == BitIndex(target, IdOf[n])
        scored == {n \in Nodes(t) : score(n) # Bits}
        size == IF count < Cardinality(scored) THEN count ELSE Cardinality(scored)
    IN {S \in SUBSET scored :
           /\ Cardinality(S) = size
           /\ \A n \in S, m \in scored \ S : score(n) <= score(m)}

\* generate_random_node_id(b): this node's id with bit b flipped and the less
\* significant bits random.
RandomIds(b) == {id \in Ids : BitIndex(IdOf[Self], id) = b}

----------------------------------------------------------------------------

\* What a routing table promises: a node is in the one bucket its id belongs
\* to, once, no bucket exceeds its size, and the node itself is in none.
WellFormed(t) ==
    \A b \in Buckets :
        /\ Len(t[b]) <= BucketSize
        /\ \A i \in DOMAIN t[b] : BucketOf(t[b][i]) = b /\ t[b][i] # Self
        /\ \A i, j \in DOMAIN t[b] : t[b][i] = t[b][j] => i = j

\* The answer find_node's callers ask for: no node left out shares a longer
\* prefix with the target than a node that is returned.
IsClosest(t, target, S) ==
    \A n \in S, m \in Nodes(t) \ S :
        BitIndex(target, IdOf[m]) # Bits
            => BitIndex(target, IdOf[m]) <= BitIndex(target, IdOf[n])
=============================================================================
