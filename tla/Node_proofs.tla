----------------------------- MODULE Node_proofs -----------------------------
(***************************************************************************)
(* Proofs about the inside of a node.                                       *)
(*                                                                          *)
(* Maintenance, for any ids, any number of peers, buckets and lookup        *)
(* threads: the lemmas on tables say what add_node and remove_node do to a  *)
(* well formed table.  RefreshPointersLive rests on mutual exclusion: a     *)
(* thread that is in its round holds cv_mutex, so that the table cannot     *)
(* lose a node while refresh holds pointers (IInv).                         *)
(*                                                                          *)
(* RoutingTable, for ids of any length: which index a pair of ids has, and  *)
(* which nodes the refresh of a bucket asks.                                 *)
(*                                                                          *)
(* NodeStore, for any number of threads, keys and values:                   *)
(*   - type correctness;                                                    *)
(*   - the hash table implements VersionedStore;                            *)
(*   - the index never gets more rows for an entry than there are threads;  *)
(*   - a call of add that runs alone indexes all of its entries.            *)
(***************************************************************************)
EXTENDS MCNode, SequenceTheorems, FiniteSetTheorems, WellFoundedInduction, TLAPS

\* A thread is in its round exactly while it holds cv_mutex, and refresh holds
\* pointers to live nodes only, during its round; a verdict is about the node pinged last.
RoundsExclude ==
    /\ hb.at \in {"round", "verdict"} <=> cvMutex = "heartbeat"
    /\ rf.at = "round" <=> cvMutex = "refresh"
    /\ rf.near # {} => rf.at = "round"
    /\ hb.at = "verdict" => hb.todo # <<>>

\* The inductive invariant.
IInv ==
    /\ TypeOK
    /\ TableWellFormed
    /\ RoundsExclude
    /\ RefreshPointersLive

----------------------------------------------------------------------------
(* Tables.                                                                  *)

\* The table before anything is added holds no node.
LEMMA EmptyTableWellFormed == EmptyTable \in Tables /\ WellFormed(EmptyTable)
  BY TableAssumption DEF EmptyTable, Tables, WellFormed, Buckets

\* Without removes one occurrence and keeps the others in their order.
LEMMA WithoutElements ==
  ASSUME NEW s \in Seq(Addresses), NEW n \in Addresses,
         \E i \in DOMAIN s : s[i] = n
  PROVE  \E k \in 1..Len(s) :
            /\ s[k] = n
            /\ Without(s, n) \in Seq(Addresses)
            /\ Len(Without(s, n)) = Len(s) - 1
            /\ \A j \in 1..(Len(s) - 1) :
                  Without(s, n)[j] = IF j < k THEN s[j] ELSE s[j + 1]
  <1> DEFINE k == CHOOSE i \in DOMAIN s : s[i] = n
             front == SubSeq(s, 1, k - 1)
             back == SubSeq(s, k + 1, Len(s))
  <1>1. k \in 1..Len(s) /\ s[k] = n
    OBVIOUS
  <1>2. Without(s, n) = front \o back
    BY DEF Without
  <1> HIDE DEF k
  <1>3. /\ front \in Seq(Addresses)
        /\ Len(front) = k - 1
        /\ \A j \in 1..(k - 1) : front[j] = s[j]
    BY <1>1, SubSeqProperties
  <1>4. /\ back \in Seq(Addresses)
        /\ Len(back) = Len(s) - k
        /\ \A j \in 1..(Len(s) - k) : back[j] = s[k + j]
    BY <1>1, SubSeqProperties
  <1> HIDE DEF front, back
  <1>5. /\ front \o back \in Seq(Addresses)
        /\ Len(front \o back) = Len(front) + Len(back)
        /\ \A j \in 1..(Len(front) + Len(back)) :
              (front \o back)[j] = IF j <= Len(front) THEN front[j]
                                   ELSE back[j - Len(front)]
    <2>1. front \in Seq(Addresses) /\ back \in Seq(Addresses)
      BY <1>3, <1>4
    <2> QED
      BY ONLY <2>1, ConcatProperties
  <1>6. Len(s) \in Nat /\ Len(front) + Len(back) = Len(s) - 1
    BY <1>1, <1>3, <1>4
  <1>7. ASSUME NEW j \in 1..(Len(s) - 1)
        PROVE  (front \o back)[j] = IF j < k THEN s[j] ELSE s[j + 1]
    <2>1. CASE j < k
      BY <1>1, <1>3, <1>5, <1>6, <2>1
    <2>2. CASE ~(j < k)
      <3>1. j - (k - 1) \in 1..(Len(s) - k)
        BY <1>1, <1>6, <2>2
      <3>2. (front \o back)[j] = back[j - (k - 1)]
        BY <1>1, <1>3, <1>5, <1>6, <2>2
      <3>3. back[j - (k - 1)] = s[k + (j - (k - 1))]
        BY <1>4, <3>1
      <3>4. k + (j - (k - 1)) = j + 1
        BY <1>1
      <3> QED
        BY <2>2, <3>2, <3>3, <3>4
    <2> QED
      BY <2>1, <2>2
  <1> QED
    BY <1>1, <1>2, <1>5, <1>6, <1>7

\* add_node keeps the table well formed, and every node in it.
LEMMA AddNodeKeeps ==
  ASSUME NEW t \in Tables, WellFormed(t), NEW a \in Addresses
  PROVE  /\ AddNode(t, a) \in Tables
         /\ WellFormed(AddNode(t, a))
         /\ Nodes(t) \subseteq Nodes(AddNode(t, a))
  <1>1. CASE ~CanAdd(t, a)
    BY <1>1 DEF AddNode
  <1>2. CASE CanAdd(t, a)
    <2> DEFINE b == BucketOf(a)
               u == [t EXCEPT ![b] = Append(@, a)]
    <2>1. AddNode(t, a) = u /\ b \in Buckets /\ Len(t[b]) < BucketSize
      BY <1>2 DEF AddNode, CanAdd
    <2>2. t[b] \in Seq(Addresses) /\ a \notin InBucket(t, b) /\ a # Self
      BY <1>2, <2>1 DEF Tables, CanAdd
    <2>2a. BucketOf(a) = b
      OBVIOUS
    <2> HIDE DEF b
    <2>3. u \in Tables /\ u[b] = Append(t[b], a)
      BY <2>1, <2>2 DEF Tables
    <2>4. \A c \in Buckets \ {b} : u[c] = t[c]
      BY <2>1 DEF Tables
    <2> HIDE DEF u
    <2>5. WellFormed(u)
      <3> SUFFICES ASSUME NEW c \in Buckets
                   PROVE  /\ Len(u[c]) <= BucketSize
                          /\ \A i \in DOMAIN u[c] :
                                BucketOf(u[c][i]) = c /\ u[c][i] # Self
                          /\ \A i, j \in DOMAIN u[c] :
                                u[c][i] = u[c][j] => i = j
        BY DEF WellFormed
      <3>1. CASE c # b
        BY <2>4, <3>1 DEF WellFormed
      <3>2. CASE c = b
        <4>1. /\ DOMAIN u[b] = 1..(Len(t[b]) + 1)
              /\ \A i \in 1..Len(t[b]) : u[b][i] = t[b][i]
              /\ u[b][Len(t[b]) + 1] = a
              /\ Len(u[b]) = Len(t[b]) + 1
          BY <2>2, <2>3
        <4>2. \A i \in 1..Len(t[b]) : t[b][i] # a
          BY <2>2 DEF InBucket
        <4>3. /\ \A i \in 1..Len(t[b]) : BucketOf(t[b][i]) = b /\ t[b][i] # Self
              /\ \A i, j \in 1..Len(t[b]) : t[b][i] = t[b][j] => i = j
          BY <2>1, <2>2 DEF WellFormed
        <4> HIDE DEF WellFormed
        <4>4. Len(u[b]) <= BucketSize
          BY <2>1, <2>2, <4>1, TableAssumption
        <4>5. \A i \in DOMAIN u[b] : BucketOf(u[b][i]) = b /\ u[b][i] # Self
          BY <2>2, <2>2a, <4>1, <4>3
        <4>6. \A i, j \in DOMAIN u[b] : u[b][i] = u[b][j] => i = j
          BY <2>2, <4>1, <4>2, <4>3
        <4> QED
          BY <3>2, <4>2, <4>4, <4>5, <4>6
      <3> QED
        BY <3>1, <3>2
    <2>6. Nodes(t) \subseteq Nodes(u)
      <3> SUFFICES ASSUME NEW c \in Buckets, NEW i \in DOMAIN t[c]
                   PROVE  \E j \in DOMAIN u[c] : u[c][j] = t[c][i]
        BY <2>3 DEF Nodes, InBucket, Tables
      <3>1. CASE c # b
        BY <2>4, <3>1
      <3>2. CASE c = b
        BY <2>2, <2>3, <3>2
      <3> QED
        BY <3>1, <3>2
    <2> QED
      BY <2>1, <2>3, <2>5, <2>6
  <1> QED
    BY <1>1, <1>2

\* remove_node keeps the table well formed.
LEMMA RemoveNodeKeeps ==
  ASSUME NEW t \in Tables, WellFormed(t), NEW a \in Addresses
  PROVE  RemoveNode(t, a) \in Tables /\ WellFormed(RemoveNode(t, a))
  <1>1. CASE ~HasNode(t, a)
    BY <1>1 DEF RemoveNode
  <1>2. CASE HasNode(t, a)
    <2> DEFINE b == BucketOf(a)
               u == [t EXCEPT ![b] = Without(@, a)]
    <2>1. RemoveNode(t, a) = u /\ b \in Buckets /\ a \in InBucket(t, b)
      BY <1>2 DEF RemoveNode, HasNode, IndexInRange
    <2> HIDE DEF b
    <2>2. t[b] \in Seq(Addresses)
      BY <2>1 DEF Tables
    <2>3. PICK k \in 1..Len(t[b]) :
            /\ Without(t[b], a) \in Seq(Addresses)
            /\ Len(Without(t[b], a)) = Len(t[b]) - 1
            /\ \A j \in 1..(Len(t[b]) - 1) :
                  Without(t[b], a)[j] = IF j < k THEN t[b][j] ELSE t[b][j + 1]
      <3>1. \E i \in DOMAIN t[b] : t[b][i] = a
        BY <2>1 DEF InBucket
      <3> QED
        BY <2>2, <3>1, WithoutElements
    <2>4. u \in Tables /\ u[b] = Without(t[b], a)
      BY <2>1, <2>3 DEF Tables
    <2>5. \A c \in Buckets \ {b} : u[c] = t[c]
      BY <2>1 DEF Tables
    <2> HIDE DEF u
    <2>6. ASSUME NEW c \in Buckets
          PROVE  /\ Len(u[c]) <= BucketSize
                 /\ \A i \in DOMAIN u[c] : BucketOf(u[c][i]) = c /\ u[c][i] # Self
                 /\ \A i, j \in DOMAIN u[c] : u[c][i] = u[c][j] => i = j
      <3>1. CASE c # b
        BY <2>5, <3>1 DEF WellFormed
      <3>2. CASE c = b
        <4>1. /\ Len(t[b]) <= BucketSize
              /\ \A i \in 1..Len(t[b]) : BucketOf(t[b][i]) = b /\ t[b][i] # Self
              /\ \A i, j \in 1..Len(t[b]) : t[b][i] = t[b][j] => i = j
          BY <2>1, <2>2 DEF WellFormed
        <4>2. DOMAIN u[b] = 1..(Len(t[b]) - 1)
          BY <2>2, <2>3, <2>4
        <4>3. /\ Len(t[b]) \in Nat
              /\ Len(u[b]) = Len(t[b]) - 1
              /\ \A j \in 1..(Len(t[b]) - 1) :
                    u[b][j] = t[b][IF j < k THEN j ELSE j + 1]
          BY <2>2, <2>3, <2>4
        <4>4. Len(u[b]) <= BucketSize
          BY <4>1, <4>3, TableAssumption
        <4>5. \A i \in DOMAIN u[b] : BucketOf(u[b][i]) = b /\ u[b][i] # Self
          BY <4>1, <4>2, <4>3
        <4>6. ASSUME NEW i \in 1..(Len(t[b]) - 1), NEW j \in 1..(Len(t[b]) - 1),
                     u[b][i] = u[b][j]
              PROVE  i = j
          <5> DEFINE was(n) == IF n < k THEN n ELSE n + 1
          <5>1. /\ was(i) \in 1..Len(t[b]) /\ was(j) \in 1..Len(t[b])
                /\ was(i) = was(j) => i = j
            BY <4>3
          <5>2. t[b][was(i)] = t[b][was(j)]
            BY <4>3, <4>6
          <5> HIDE DEF was
          <5> QED
            BY <4>1, <5>1, <5>2
        <4> QED
          BY <3>2, <4>2, <4>4, <4>5, <4>6
      <3> QED
        BY <3>1, <3>2
    <2> QED
      BY <2>1, <2>4, <2>6 DEF WellFormed
  <1> QED
    BY <1>1, <1>2

\* find_closest_nodes returns nodes of the table.
LEMMA ClosestAreNodes ==
  ASSUME NEW t, NEW target, NEW count, NEW S \in FindClosest(t, target, count)
  PROVE  S \subseteq Nodes(t)
  BY DEF FindClosest

\* The nodes of a table are addresses.
LEMMA NodesTyped ==
  ASSUME NEW t \in Tables
  PROVE  Nodes(t) \subseteq Addresses
  <1> SUFFICES ASSUME NEW b \in Buckets, NEW i \in DOMAIN t[b]
               PROVE  t[b][i] \in Addresses
    BY DEF Nodes, InBucket, Tables
  <1> QED
    BY DEF Tables

----------------------------------------------------------------------------
(* Bit indexes, and the nodes that are closest.                              *)

\* A nonempty set of natural numbers has a least element: induction without an operator parameter.
LEMMA LeastNat ==
    ASSUME NEW T \in SUBSET Nat, T # {}
    PROVE  \E n \in T : \A m \in T : n <= m
<1> DEFINE R == {s \in Nat \X Nat : s[1] < s[2]}
<1>1. IsWellFoundedOn(R, Nat)
  BY NatLessThanWellFounded DEF OpToRel
<1>2. ASSUME NEW Q, IsWellFoundedOn(Q, Nat) PROVE \E n \in T : \A m \in T : ~(<<m, n>> \in Q)
  BY <1>2, WFMin, Zenon
<1>3. PICK n \in T : \A m \in T : ~(<<m, n>> \in R)
  BY <1>1, <1>2
<1>4. \A m, k \in Nat : <<m, k>> \in R <=> m < k
  OBVIOUS
<1> HIDE DEF R
<1>5. ASSUME NEW m \in T PROVE n <= m
  <2>1. ~(m < n)
    BY <1>3, <1>4, Zenon
  <2> QED BY <2>1
<1> QED BY <1>5

\* The bit index is the place of the first bit that differs (xor_distance_bit_index).
LEMMA BitIndexIs ==
  ASSUME NEW a \in Ids, NEW b \in Ids
  PROVE  /\ BitIndex(a, b) \in 0..Bits
         /\ \A j \in 1..BitIndex(a, b) : a[j] = b[j]
         /\ BitIndex(a, b) < Bits => a[BitIndex(a, b) + 1] # b[BitIndex(a, b) + 1]
  <1> DEFINE common == {i \in 1..Bits : \A j \in 1..i : a[j] = b[j]}
             differ == {i \in 1..Bits : a[i] # b[i]}
  <1>1. \A k \in Nat : Cardinality(1..k) = k
    BY FS_Interval
  <1>2. Bits \in Nat \ {0}
    BY TableAssumption
  <1>3. CASE differ = {}
    <2>1. \A j \in 1..Bits : a[j] = b[j]
      BY <1>3
    <2>2. common = 1..Bits
      BY <1>2, <2>1
    <2>3. BitIndex(a, b) = Bits
      BY <1>1, <1>2, <2>2 DEF BitIndex
    <2> QED
      BY <1>2, <2>1, <2>3
  <1>4. CASE differ # {}
    <2>0. differ \in SUBSET Nat
      BY <1>2
    <2>1. PICK d \in differ : \A i \in differ : d <= i
      <3> HIDE DEF differ
      <3> QED
        BY <1>4, <2>0, LeastNat
    <2>2. /\ d \in 1..Bits /\ a[d] # b[d]
          /\ \A j \in 1..(d - 1) : a[j] = b[j]
      BY <1>2, <2>1
    <2>3. common = 1..(d - 1)
      BY <1>2, <2>2
    <2>4. BitIndex(a, b) = d - 1
      <3>1. d - 1 \in Nat
        BY <1>2, <2>2
      <3>2. Cardinality(common) = d - 1
        BY <1>1, <2>3, <3>1
      <3> QED
        BY <3>2 DEF BitIndex
    <2> QED
      BY <1>2, <2>2, <2>4
  <1> QED
    BY <1>3, <1>4

\* No other number is (xor_distance_bit_index).
LEMMA BitIndexUnique ==
  ASSUME NEW a \in Ids, NEW b \in Ids, NEW k \in 0..Bits,
         \A j \in 1..k : a[j] = b[j],
         k < Bits => a[k + 1] # b[k + 1]
  PROVE  BitIndex(a, b) = k
  <1>1. PICK m \in 0..Bits : m = BitIndex(a, b)
    BY BitIndexIs
  <1>2. /\ \A j \in 1..m : a[j] = b[j]
        /\ m < Bits => a[m + 1] # b[m + 1]
    BY <1>1, BitIndexIs
  <1>3. ~(m < k) /\ ~(k < m)
    BY <1>2, TableAssumption
  <1> QED
    BY <1>1, <1>3

\* has_node indexes the buckets with an index that is not there exactly when it is asked
\* about an id equal to this node's own (has_node, get_node, xor_distance_bit_index).
THEOREM IndexFailsForOwnIdOnly ==
  ASSUME NEW n \in Addresses \cup {Self}
  PROVE  IndexInRange(n) <=> IdOf[n] # IdOf[Self]
  <1>1. IdOf[Self] \in Ids /\ IdOf[n] \in Ids /\ Bits \in Nat \ {0}
    BY TableAssumption
  <1>2. PICK m \in 0..Bits : m = BucketOf(n)
    BY <1>1, BitIndexIs DEF BucketOf
  <1>3. /\ \A j \in 1..m : IdOf[Self][j] = IdOf[n][j]
        /\ m < Bits => IdOf[Self][m + 1] # IdOf[n][m + 1]
    BY <1>1, <1>2, BitIndexIs DEF BucketOf
  <1>4. CASE m = Bits
    <2>1. \A j \in 1..Bits : IdOf[Self][j] = IdOf[n][j]
      BY <1>3, <1>4
    <2>2. IdOf[n] = IdOf[Self]
      BY <1>1, <2>1 DEF Ids
    <2> QED
      BY <1>1, <1>2, <1>4, <2>2 DEF IndexInRange, Buckets
  <1>5. CASE m < Bits
    BY <1>1, <1>2, <1>3, <1>5 DEF IndexInRange, Buckets
  <1> QED
    BY <1>1, <1>2, <1>4, <1>5

\* A random id of a bucket is one with a bit of this node's id flipped, the bits before it
\* kept and those after it free (generate_random_node_id).
THEOREM RandomIdsAre ==
  ASSUME NEW b \in Buckets
  PROVE  RandomIds(b) = {id \in Ids : /\ \A j \in 1..b : id[j] = IdOf[Self][j]
                                      /\ id[b + 1] # IdOf[Self][b + 1]}
  <1>1. IdOf[Self] \in Ids /\ Bits \in Nat \ {0}
    BY TableAssumption
  <1>2. b \in 0..Bits /\ b < Bits
    BY <1>1 DEF Buckets
  <1>3. ASSUME NEW id \in Ids, BitIndex(IdOf[Self], id) = b
        PROVE  /\ \A j \in 1..b : id[j] = IdOf[Self][j]
               /\ id[b + 1] # IdOf[Self][b + 1]
    BY <1>1, <1>2, <1>3, BitIndexIs
  <1>4. ASSUME NEW id \in Ids, \A j \in 1..b : id[j] = IdOf[Self][j],
               id[b + 1] # IdOf[Self][b + 1]
        PROVE  BitIndex(IdOf[Self], id) = b
    BY <1>1, <1>2, <1>4, BitIndexUnique
  <1> QED
    BY <1>3, <1>4 DEF RandomIds

\* To a random id of a bucket, the nodes of this bucket are closer than all others.
LEMMA BucketIsClosest ==
  ASSUME NEW b \in Buckets, NEW id \in RandomIds(b), NEW n \in Addresses
  PROVE  /\ BitIndex(id, IdOf[n]) \in 0..Bits
         /\ BucketOf(n) = b => BitIndex(id, IdOf[n]) > b
         /\ BucketOf(n) # b => BitIndex(id, IdOf[n]) <= b
  <1> DEFINE own == IdOf[Self]
             its == IdOf[n]
  <1>1. own \in Ids /\ its \in Ids /\ id \in Ids /\ Bits \in Nat \ {0} /\ b \in 0..(Bits - 1)
    BY TableAssumption DEF RandomIds, Buckets
  <1>2. (\A j \in 1..b : id[j] = own[j]) /\ id[b + 1] # own[b + 1]
    BY RandomIdsAre
  <1>3. PICK c \in 0..Bits : /\ c = BucketOf(n)
                             /\ \A j \in 1..c : own[j] = its[j]
                             /\ c < Bits => own[c + 1] # its[c + 1]
    BY <1>1, BitIndexIs DEF BucketOf
  <1>4. PICK m \in 0..Bits : /\ m = BitIndex(id, its)
                             /\ \A j \in 1..m : id[j] = its[j]
                             /\ m < Bits => id[m + 1] # its[m + 1]
    BY <1>1, BitIndexIs
  <1> HIDE DEF own, its
  <1>5. \A i \in 1..Bits : own[i] \in {0, 1} /\ its[i] \in {0, 1} /\ id[i] \in {0, 1}
    BY <1>1 DEF Ids
  <1>6. CASE c = b
    <2>1. \A j \in 1..(b + 1) : id[j] = its[j]
      <3>1. ASSUME NEW j \in 1..b PROVE id[j] = its[j]
        BY <1>2, <1>3, <1>6
      <3>2. id[b + 1] = its[b + 1]
        BY <1>1, <1>2, <1>3, <1>5, <1>6
      <3> QED
        BY <1>1, <3>1, <3>2
    <2>2. m > b
      BY <1>1, <1>4, <2>1
    <2> QED
      BY <1>3, <1>4, <1>6, <2>2 DEF its
  <1>7. CASE c < b
    <2>1. id[c + 1] # its[c + 1]
      BY <1>1, <1>2, <1>3, <1>7
    <2>2. m <= b
      BY <1>1, <1>4, <1>7, <2>1
    <2> QED
      BY <1>3, <1>4, <1>7, <2>2 DEF its
  <1>8. CASE c > b
    <2>1. id[b + 1] # its[b + 1]
      BY <1>1, <1>2, <1>3, <1>8
    <2>2. m <= b
      BY <1>1, <1>4, <2>1
    <2> QED
      BY <1>3, <1>4, <1>8, <2>2 DEF its
  <1> QED
    BY <1>1, <1>3, <1>6, <1>7, <1>8

\* Because the scores are sorted in ascending order, the refresh of a bucket asks one of its
\* nodes only if it asks every node of the other buckets too (refresh, find_closest_nodes).
THEOREM RefreshAsksOthersFirst ==
  ASSUME NEW t \in Tables, NEW b \in Buckets, NEW id \in RandomIds(b), NEW count \in Nat,
         NEW S \in FindClosest(t, id, count),
         NEW n \in S, BucketOf(n) = b,
         NEW m \in Nodes(t), BucketOf(m) # b
  PROVE  m \in S
  <1>1. n \in Addresses /\ m \in Addresses
    BY ClosestAreNodes, NodesTyped
  <1>2. PICK x \in 0..Bits : x = BitIndex(id, IdOf[n]) /\ x > b
    BY <1>1, BucketIsClosest
  <1>3. PICK y \in 0..Bits : y = BitIndex(id, IdOf[m]) /\ y <= b
    BY <1>1, BucketIsClosest
  <1>4. b \in 0..(Bits - 1) /\ Bits \in Nat
    BY TableAssumption DEF Buckets
  <1>5. y # Bits /\ ~(x <= y)
    BY <1>2, <1>3, <1>4
  <1> QED
    BY <1>2, <1>3, <1>5 DEF FindClosest

----------------------------------------------------------------------------
(* The threads.                                                             *)

\* The initial states satisfy the invariant.
LEMMA InitIInv == Init => IInv
  <1> SUFFICES ASSUME Init
               PROVE  IInv
    OBVIOUS
  <1>1. TypeOK
    BY EmptyTableWellFormed, TableAssumption, MaintenanceAssumption
    DEF Init, TypeOK, Sleeping
  <1>2. TableWellFormed
    BY EmptyTableWellFormed DEF Init, TableWellFormed
  <1>3. RoundsExclude /\ RefreshPointersLive
    BY MaintenanceAssumption DEF Init, RoundsExclude, RefreshPointersLive
  <1> QED
    BY <1>1, <1>2, <1>3 DEF IInv

\* A step that inserts a peer changes the table alone, besides what the thread
\* that inserts it changes in rf.found or joining.
LEMMA InsertKeeps ==
  ASSUME IInv, NEW a \in Addresses, InsertNode(a)
  PROVE  /\ table' \in Tables
         /\ TableWellFormed'
         /\ Nodes(table) \subseteq Nodes(table')
  BY AddNodeKeeps DEF IInv, TypeOK, TableWellFormed, InsertNode

\* A counter that is increased stays in its range.
LEMMA BumpTyped ==
  ASSUME TypeOK, NEW a \in Addresses
  PROVE  Bump(a) \in [Addresses -> 0..MaxHealthChecks]
  BY MaintenanceAssumption DEF TypeOK, Bump

\* So does a counter that is reset.
LEMMA ResetTyped ==
  ASSUME TypeOK, NEW a
  PROVE  [check EXCEPT ![a] = 0] \in [Addresses -> 0..MaxHealthChecks]
  <1>1. 0 \in 0..MaxHealthChecks
    BY MaintenanceAssumption
  <1>2. check \in [Addresses -> 0..MaxHealthChecks]
    BY DEF TypeOK
  <1> QED
    BY ONLY <1>1, <1>2

\* Every step of the heartbeat thread preserves the invariant.
LEMMA HeartbeatKeeps ==
  ASSUME IInv, Heartbeat
  PROVE  IInv'
  <1> USE DEF env
  <1>1. CASE HeartbeatWait
    <2>1. TypeOK'
      BY <1>1 DEF IInv, TypeOK, HeartbeatWait, Sleeping
    <2>2. (TableWellFormed /\ RoundsExclude /\ RefreshPointersLive)'
      BY <1>1 DEF IInv, TypeOK, HeartbeatWait, TableWellFormed, RoundsExclude,
                  RefreshPointersLive
    <2> QED
      BY <2>1, <2>2 DEF IInv
  <1>2. CASE HeartbeatWake
    <2>1. TypeOK'
      BY <1>2 DEF IInv, TypeOK, HeartbeatWake, Sleeping
    <2>2. (TableWellFormed /\ RoundsExclude /\ RefreshPointersLive)'
      BY <1>2, MaintenanceAssumption
      DEF IInv, TypeOK, HeartbeatWake, TableWellFormed, RoundsExclude,
          RefreshPointersLive
    <2> QED
      BY <2>1, <2>2 DEF IInv
  <1>3. CASE HeartbeatScan
    <2> DEFINE b == hb.bucket
    <2>1. TypeOK'
      <3>1. b \in Buckets => table[b] \in Seq(Addresses) /\ b + 1 \in 0..Bits
        BY TableAssumption DEF IInv, TypeOK, Tables, Buckets
      <3>2. hb' \in [at : Sleeping \cup {"round", "verdict"},
                     bucket : 0..Bits, todo : Seq(Addresses)]
        <4>1. hb \in [at : Sleeping \cup {"round", "verdict"},
                      bucket : 0..Bits, todo : Seq(Addresses)]
          BY DEF IInv, TypeOK
        <4>2. CASE b \in Buckets
          <5>1. hb' = [hb EXCEPT !.bucket = b + 1, !.todo = table[b]]
            BY <1>3, <4>2 DEF HeartbeatScan
          <5> QED
            BY ONLY <3>1, <4>1, <4>2, <5>1
        <4>3. CASE b \notin Buckets
          <5>1. hb' = [hb EXCEPT !.at = "top", !.bucket = 0] /\ 0 \in 0..Bits
            BY <1>3, <4>3, TableAssumption DEF HeartbeatScan
          <5> QED
            BY ONLY <4>1, <5>1 DEF Sleeping
        <4> QED
          BY <4>2, <4>3
      <3> QED
        BY <1>3, <3>2 DEF IInv, TypeOK, HeartbeatScan
    <2>2. (TableWellFormed /\ RoundsExclude /\ RefreshPointersLive)'
      BY <1>3, MaintenanceAssumption
      DEF IInv, TypeOK, HeartbeatScan, TableWellFormed, RoundsExclude,
          RefreshPointersLive
    <2> QED
      BY <2>1, <2>2 DEF IInv
  <1>4. CASE HeartbeatPing
    <2> DEFINE a == Head(hb.todo)
    <2>1. a \in Addresses /\ Tail(hb.todo) \in Seq(Addresses)
      BY <1>4 DEF IInv, TypeOK, HeartbeatPing
    <2>2. check' \in [Addresses -> 0..MaxHealthChecks]
      <3>1. Bump(a) \in [Addresses -> 0..MaxHealthChecks]
        BY <2>1, BumpTyped DEF IInv
      <3>2. [check EXCEPT ![a] = 0] \in [Addresses -> 0..MaxHealthChecks]
        BY ResetTyped DEF IInv
      <3> QED
        BY <1>4, <3>1, <3>2 DEF IInv, TypeOK, HeartbeatPing
    <2>3. TypeOK'
      BY <1>4, <2>1, <2>2 DEF IInv, TypeOK, HeartbeatPing, Sleeping
    <2>4. (TableWellFormed /\ RoundsExclude /\ RefreshPointersLive)'
      BY <1>4 DEF IInv, TypeOK, HeartbeatPing, TableWellFormed, RoundsExclude,
                  RefreshPointersLive
    <2> QED
      BY <2>3, <2>4 DEF IInv
  <1>5. CASE HeartbeatVerdict
    <2> DEFINE a == Head(hb.todo)
    <2>1. a \in Addresses /\ Tail(hb.todo) \in Seq(Addresses)
      BY <1>5 DEF IInv, TypeOK, RoundsExclude, HeartbeatVerdict
    <2>2. /\ table' \in Tables /\ TableWellFormed'
          /\ check' \in [Addresses -> 0..MaxHealthChecks]
          /\ freed' \in [Lookups -> SUBSET Addresses]
      <3>1. CASE Evict(a)
        <4>1. table' \in Tables /\ TableWellFormed'
          BY <2>1, <3>1, RemoveNodeKeeps
          DEF Evict, IInv, TypeOK, TableWellFormed
        <4>2. check' \in [Addresses -> 0..MaxHealthChecks]
          BY <3>1, ResetTyped DEF Evict, IInv
        <4>3. freed' \in [Lookups -> SUBSET Addresses]
          BY <2>1, <3>1 DEF Evict, IInv, TypeOK
        <4> QED
          BY <4>1, <4>2, <4>3
      <3>2. CASE UNCHANGED <<table, check, freed>>
        BY <3>2 DEF IInv, TypeOK, TableWellFormed
      <3> QED
        BY <1>5, <3>1, <3>2 DEF HeartbeatVerdict
    <2>3. TypeOK'
      BY <1>5, <2>1, <2>2 DEF IInv, TypeOK, HeartbeatVerdict, Sleeping
    <2>4. RoundsExclude' /\ rf.near = {}
      BY <1>5 DEF IInv, TypeOK, RoundsExclude, HeartbeatVerdict
    <2>5. RefreshPointersLive'
      BY <1>5, <2>4 DEF RefreshPointersLive, HeartbeatVerdict
    <2> QED
      BY <2>2, <2>3, <2>4, <2>5 DEF IInv
  <1> QED
    BY <1>1, <1>2, <1>3, <1>4, <1>5 DEF Heartbeat
\* Every step of the refresh thread preserves the invariant.
LEMMA RefreshKeeps ==
  ASSUME IInv, Refresh
  PROVE  IInv'
  <1> USE DEF env
  <1>1. CASE RefreshWait
    <2>1. TypeOK'
      BY <1>1 DEF IInv, TypeOK, RefreshWait, Sleeping
    <2>2. (TableWellFormed /\ RoundsExclude /\ RefreshPointersLive)'
      BY <1>1 DEF IInv, TypeOK, RefreshWait, TableWellFormed, RoundsExclude,
                  RefreshPointersLive
    <2> QED
      BY <2>1, <2>2 DEF IInv
  <1>2. CASE RefreshWake
    <2>1. TypeOK'
      BY <1>2 DEF IInv, TypeOK, RefreshWake, Sleeping
    <2>2. (TableWellFormed /\ RoundsExclude /\ RefreshPointersLive)'
      BY <1>2, MaintenanceAssumption
      DEF IInv, TypeOK, RefreshWake, TableWellFormed, RoundsExclude,
          RefreshPointersLive
    <2> QED
      BY <2>1, <2>2 DEF IInv
  <1>3. CASE RefreshScan
    <2> DEFINE b == rf.bucket
    <2>1. b \in Buckets => b + 1 \in 0..Bits
      BY TableAssumption DEF IInv, TypeOK, Buckets
    <2>2. ASSUME NEW id \in RandomIds(b), NEW S \in FindClosest(table, id, MaxClosest)
          PROVE  S \subseteq Nodes(table) /\ S \subseteq Addresses
      BY ClosestAreNodes, NodesTyped DEF IInv, TypeOK
    <2>3. /\ rf' \in [at : Sleeping \cup {"round"}, bucket : 0..Bits,
                      near : SUBSET Addresses,
                      found : SUBSET (Addresses \cup {Self})]
          /\ rf'.near \subseteq Nodes(table)
      <3>1. /\ rf \in [at : Sleeping \cup {"round"}, bucket : 0..Bits,
                       near : SUBSET Addresses,
                       found : SUBSET (Addresses \cup {Self})]
            /\ rf.near = {}
        BY <1>3 DEF IInv, TypeOK, RefreshScan
      <3>0. 0 \in 0..Bits
        BY TableAssumption
      <3>2. CASE rf' = [rf EXCEPT !.at = "top", !.bucket = 0]
        BY ONLY <3>0, <3>1, <3>2 DEF Sleeping
      <3>3. CASE b \in Buckets /\ rf' = [rf EXCEPT !.bucket = b + 1]
        BY ONLY <2>1, <3>1, <3>3 DEF Sleeping
      <3>4. ASSUME b \in Buckets,
                   NEW id \in RandomIds(b),
                   NEW S \in FindClosest(table, id, MaxClosest),
                   rf' = [rf EXCEPT !.bucket = b + 1, !.near = S]
            PROVE  <2>3!1 /\ <2>3!2
        <4>1. S \subseteq Nodes(table) /\ S \subseteq Addresses
          BY <2>2
        <4> QED
          BY ONLY <2>1, <3>1, <3>4, <4>1 DEF Sleeping
      <3> QED
        BY <1>3, <3>2, <3>3, <3>4 DEF RefreshScan
    <2>4. TypeOK' /\ RefreshPointersLive'
      BY <1>3, <2>3 DEF IInv, TypeOK, RefreshScan, RefreshPointersLive
    <2>5. TableWellFormed' /\ RoundsExclude'
      BY <1>3, MaintenanceAssumption
      DEF IInv, TypeOK, RefreshScan, TableWellFormed, RoundsExclude
    <2> QED
      BY <2>3, <2>4, <2>5 DEF IInv
  <1>4. CASE RefreshAsk
    <2>1. /\ rf \in [at : Sleeping \cup {"round"}, bucket : 0..Bits,
                     near : SUBSET Addresses,
                     found : SUBSET (Addresses \cup {Self})]
          /\ rf.near \subseteq Nodes(table)
          /\ rf.at = "round"
      BY <1>4 DEF IInv, TypeOK, RefreshPointersLive, RefreshAsk
    <2>2. \E a \in rf.near, F \in SUBSET (Addresses \cup {Self}) :
             rf' = [rf EXCEPT !.near = @ \ {a}, !.found = F]
      <3>1. PICK a \in rf.near :
               \/ rf' = [rf EXCEPT !.near = @ \ {a}]
               \/ \E F \in FindNodeReply :
                     rf' = [rf EXCEPT !.near = @ \ {a}, !.found = F]
        BY <1>4 DEF RefreshAsk
      <3>2. CASE rf' = [rf EXCEPT !.near = @ \ {a}]
        <4>1. rf' = [rf EXCEPT !.near = @ \ {a}, !.found = rf.found]
          BY ONLY <2>1, <3>2
        <4> QED
          BY <2>1, <4>1
      <3>3. \A F \in FindNodeReply : F \in SUBSET (Addresses \cup {Self})
        BY DEF FindNodeReply
      <3> QED
        BY <3>1, <3>2, <3>3
    <2>3. /\ rf' \in [at : Sleeping \cup {"round"}, bucket : 0..Bits,
                      near : SUBSET Addresses,
                      found : SUBSET (Addresses \cup {Self})]
          /\ rf'.near \subseteq Nodes(table)
          /\ rf'.at = "round"
      BY ONLY <2>1, <2>2
    <2>4. TypeOK'
      BY <1>4, <2>3 DEF IInv, TypeOK, RefreshAsk
    <2>5. (TableWellFormed /\ RoundsExclude /\ RefreshPointersLive)'
      BY <1>4, <2>3 DEF IInv, RefreshAsk, TableWellFormed, RoundsExclude,
                        RefreshPointersLive
    <2> QED
      BY <2>4, <2>5 DEF IInv
  <1>5. CASE RefreshInsert
    <2>1. PICK a \in rf.found :
            /\ rf' = [rf EXCEPT !.found = @ \ {a}]
            /\ (a \notin silent /\ InsertNode(a)) \/ UNCHANGED table
      BY <1>5 DEF RefreshInsert
    <2>2. Nodes(table) \subseteq Nodes(table') /\ table' \in Tables /\ TableWellFormed'
      <3>1. CASE UNCHANGED table
        BY <3>1 DEF IInv, TypeOK, TableWellFormed
      <3>2. CASE InsertNode(a) /\ a \in Addresses
        BY <3>2, InsertKeeps
      <3>3. CASE InsertNode(a) /\ a = Self
        <4>1. UNCHANGED table
          BY <3>3 DEF InsertNode, AddNode, CanAdd
        <4> QED
          BY <3>1, <4>1
      <3> QED
        BY <2>1, <3>1, <3>2, <3>3 DEF IInv, TypeOK
    <2>3. TypeOK'
      BY <1>5, <2>1, <2>2 DEF IInv, TypeOK, RefreshInsert, Sleeping
    <2>4. RoundsExclude' /\ RefreshPointersLive'
      BY <1>5, <2>1, <2>2
      DEF IInv, TypeOK, RefreshInsert, RoundsExclude, RefreshPointersLive
    <2> QED
      BY <2>2, <2>3, <2>4 DEF IInv
  <1> QED
    BY <1>1, <1>2, <1>3, <1>4, <1>5 DEF Refresh
\* Every step of join, of the listener's handlers and of the environment
\* preserves the invariant.
LEMMA OthersKeep ==
  ASSUME IInv,
         \/ JoinReturns
         \/ \E a \in Addresses : JoinInsert(a) \/ OnPing(a) \/ PeerDiscovered(a)
         \/ Environment
  PROVE  IInv'
  <1> USE DEF env
  <1>1. CASE JoinReturns
    BY <1>1 DEF JoinReturns, IInv, TypeOK, TableWellFormed, RoundsExclude,
                RefreshPointersLive
  <1>2. ASSUME NEW a \in Addresses,
               JoinInsert(a) \/ OnPing(a) \/ PeerDiscovered(a)
        PROVE  IInv'
    <2>1. InsertNode(a) /\ UNCHANGED <<check, cvMutex, hb, rf, joining, look, freed, env>>
      BY <1>2 DEF JoinInsert, OnPing, PeerDiscovered
    <2>2. /\ table' \in Tables /\ TableWellFormed'
          /\ Nodes(table) \subseteq Nodes(table')
      BY <2>1, InsertKeeps
    <2>3. TypeOK'
      BY <2>1, <2>2 DEF IInv, TypeOK
    <2>4. RoundsExclude' /\ RefreshPointersLive'
      BY <2>1, <2>2 DEF IInv, RoundsExclude, RefreshPointersLive
    <2> QED
      BY <2>2, <2>3, <2>4 DEF IInv
  <1>3. CASE StopThreads
    BY <1>3 DEF StopThreads, IInv, TypeOK, TableWellFormed, RoundsExclude,
                RefreshPointersLive
  <1>4. ASSUME NEW a \in Mortal, PeerFallsSilent(a)
        PROVE  IInv'
    BY <1>4, MaintenanceAssumption
    DEF PeerFallsSilent, IInv, TypeOK, TableWellFormed, RoundsExclude,
        RefreshPointersLive
  <1> QED
    BY <1>1, <1>2, <1>3, <1>4 DEF Environment

\* Every step of a lookup thread preserves the invariant: it changes only what
\* belongs to the thread and the counters.
LEMMA LookupKeeps ==
  ASSUME IInv, NEW s \in Lookups, Lookup(s)
  PROVE  IInv'
  <1> USE DEF env
  <1>1. UNCHANGED <<table, silent, running, cvMutex, hb, rf, joining>>
    BY DEF Lookup, LookupStart, LookupAsk, LookupReply, LookupTimeout
  <1> DEFINE LookType == [at : {"idle", "loop", "wait"},
                          near : SUBSET Addresses,
                          node : Addresses \cup {Nobody}]
  <1>2. /\ look \in [Lookups -> LookType]
        /\ freed \in [Lookups -> SUBSET Addresses]
        /\ check \in [Addresses -> 0..MaxHealthChecks]
    BY DEF IInv, TypeOK
  <1>3. \A near \in SUBSET Addresses : Rest(near) \in LookType
    BY DEF Rest
  <1>4. look' \in [Lookups -> LookType]
    <2>1. CASE LookupStart(s)
      <3>1. PICK target \in Ids : \E S \in FindClosest(table, target, MaxClosest) :
               look' = [look EXCEPT ![s] = Rest(S)]
        BY <2>1 DEF LookupStart
      <3>2. PICK S \in FindClosest(table, target, MaxClosest) :
               look' = [look EXCEPT ![s] = Rest(S)]
        BY <3>1
      <3>3. S \in SUBSET Addresses
        BY ClosestAreNodes, NodesTyped DEF IInv, TypeOK
      <3>4. Rest(S) \in LookType
        BY <1>3, <3>3
      <3> QED
        BY <1>2, <3>2, <3>4
    <2>2. CASE LookupAsk(s)
      <3>1. PICK a \in look[s].near, active \in BOOLEAN :
               look' = [look EXCEPT ![s] =
                  IF active
                  THEN [at |-> "wait", near |-> @.near \ {a}, node |-> a]
                  ELSE Rest(@.near \ {a})]
        BY <2>2 DEF LookupAsk
      <3>2. a \in Addresses /\ look[s].near \ {a} \in SUBSET Addresses
        BY <1>2
      <3>3. /\ Rest(look[s].near \ {a}) \in LookType
            /\ [at |-> "wait", near |-> look[s].near \ {a}, node |-> a] \in LookType
        BY <1>3, <3>2
      <3> QED
        BY <1>2, <3>1, <3>3
    <2>3. CASE LookupReply(s) \/ LookupTimeout(s)
      <3>1. look' = [look EXCEPT ![s] = Rest(look[s].near)]
        BY <2>3 DEF LookupReply, LookupTimeout
      <3>2. Rest(look[s].near) \in LookType
        BY <1>2, <1>3
      <3> QED
        BY <1>2, <3>1, <3>2
    <2> QED
      BY <2>1, <2>2, <2>3 DEF Lookup
  <1>5. freed' \in [Lookups -> SUBSET Addresses]
    BY <1>2 DEF Lookup, LookupStart, LookupAsk, LookupReply, LookupTimeout
  <1>6. check' \in [Addresses -> 0..MaxHealthChecks]
    <2>1. CASE UNCHANGED check
      BY <1>2, <2>1
    <2>2. CASE LookupTimeout(s)
      <3>1. look[s].node \in Addresses => Bump(look[s].node) \in [Addresses -> 0..MaxHealthChecks]
        BY BumpTyped DEF IInv
      <3>2. look[s].node \notin Addresses => Bump(look[s].node) = check
        BY <1>2 DEF Bump
      <3> QED
        BY <1>2, <2>2, <3>1, <3>2 DEF LookupTimeout
    <2> QED
      BY <2>1, <2>2 DEF Lookup, LookupStart, LookupAsk, LookupReply
  <1>7. TypeOK'
    BY <1>1, <1>4, <1>5, <1>6 DEF IInv, TypeOK
  <1>8. TableWellFormed' /\ RoundsExclude' /\ RefreshPointersLive'
    BY <1>1 DEF IInv, TableWellFormed, RoundsExclude, RefreshPointersLive
  <1> QED
    BY <1>7, <1>8 DEF IInv

----------------------------------------------------------------------------

\* The invariant holds in every reachable state.
THEOREM Inductive == Init /\ [][Next]_vars => []IInv
  <1>1. Init => IInv
    BY InitIInv
  <1>2. IInv /\ [Next]_vars => IInv'
    <2> SUFFICES ASSUME IInv, [Next]_vars
                 PROVE  IInv'
      OBVIOUS
    <2>1. CASE UNCHANGED vars
      BY <2>1 DEF vars, IInv, TypeOK, TableWellFormed, RoundsExclude,
                  RefreshPointersLive
    <2>2. CASE Next
      BY <2>2, HeartbeatKeeps, RefreshKeeps, OthersKeep, LookupKeeps DEF Next
    <2> QED
      BY <2>1, <2>2
  <1> QED
    BY <1>1, <1>2, PTL

\* Type correctness.
THEOREM TypeCorrect == Init /\ [][Next]_vars => []TypeOK
  <1>1. IInv => TypeOK
    BY DEF IInv
  <1> QED
    BY <1>1, Inductive, PTL

\* Concurrent insertions by join, refresh, on_ping and peer discovery, and the
\* heartbeat's removals, keep the table well formed: no duplicate, no overfull
\* bucket, no node in a foreign bucket, although every has_node test is stale.
THEOREM TableStaysWellFormed == Init /\ [][Next]_vars => []TableWellFormed
  <1>1. IInv => TableWellFormed
    BY DEF IInv
  <1> QED
    BY <1>1, Inductive, PTL

\* The pointers refresh() keeps across its waits never dangle.
THEOREM RefreshIsSafe == Init /\ [][Next]_vars => []RefreshPointersLive
  <1>1. IInv => RefreshPointersLive
    BY DEF IInv
  <1> QED
    BY <1>1, Inductive, PTL

\* heartbeat() and refresh() are never in their rounds at the same time.
THEOREM RoundsNeverOverlap ==
  Init /\ [][Next]_vars => [](~(hb.at \in {"round", "verdict"} /\ rf.at = "round"))
  <1>1. IInv => ~(hb.at \in {"round", "verdict"} /\ rf.at = "round")
    BY DEF IInv, RoundsExclude
  <1> QED
    BY <1>1, Inductive, PTL

----------------------------------------------------------------------------
(* The requests on the tables of the node.                                  *)

\* The threads that are about to insert a row of entry e: their SELECT has found
\* none.
Inserting(e) == {t \in Threads : mapper[t].at = "insert" /\ e \in mapper[t].next}

\* A thread in a request has its key and, until it only erases, its value.
RequestsFormed ==
    \A t \in Threads :
        /\ th[t].at # "idle" => th[t].key \in Keys
        /\ th[t].at \in {"validate", "write", "cache", "map", "sync"}
               => th[t].value \in Values

\* The rows of an entry and the INSERTs already decided on never exceed the
\* number of threads: DuplicatesBounded alone says nothing of the latter.
RowsCovered ==
    \A e \in Entries : rows[e] + Cardinality(Inserting(e)) <= Cardinality(Threads)

\* A quiet call is the only one in add; its entries are in the maps until it has
\* copied them, and from then on each is in the copy or has a row.
QuietProgress ==
    \A t \in Threads :
        (mapper[t].at # "off" /\ mapper[t].quiet) =>
            /\ \A u \in Threads \ {t} : mapper[u].at = "off"
            /\ mapper[t].at = "copy" => mapper[t].own \subseteq pending
            /\ mapper[t].at \in {"select", "insert"} =>
                  \A e \in mapper[t].own : rows[e] > 0 \/ e \in mapper[t].todo

\* The state changes of the mapper, whoever makes them.
MapStep ==
    \/ \E t \in Threads, k \in Keys, v \in Values : Add(t, k, v)
    \/ \E t \in Threads :
          Copy(t) \/ Select(t) \/ Insert(t) \/ InsertFails(t) \/ ClearCache(t)
    \/ \E k \in Keys : DeleteRows(k)
    \/ /\ pending' = {}
       /\ mapper' = [t \in Threads |-> Off]
       /\ UNCHANGED rows
    \/ UNCHANGED mapVars

----------------------------------------------------------------------------
(* Type correctness.                                                        *)

\* A value's entries are entries.
LEMMA EntriesTyped ==
    ASSUME NEW k \in Keys, NEW v \in Values
    PROVE  EntriesOf(k, v) \subseteq Entries
  BY MapperAssumption DEF EntriesOf, Entries

\* The initial state is well typed.
LEMMA StoreInitTyped == StoreInit => StoreTypeOK /\ RequestsFormed
  BY DEF StoreInit, MapInit, StoreTypeOK, RequestsFormed, Idle, Off

\* The type of the variables of the index.
MapTyped ==
    /\ pending \subseteq Entries
    /\ rows \in [Entries -> Nat]
    /\ mapper \in [Threads -> [at : {"off", "copy", "select", "insert"},
                               todo : SUBSET Entries, next : SUBSET Entries,
                               own : SUBSET Entries, quiet : BOOLEAN]]

\* Every step on the index keeps its types.
LEMMA MapStepTyped == MapTyped /\ MapStep => MapTyped'
<1> SUFFICES ASSUME MapTyped, MapStep PROVE MapTyped'
  OBVIOUS
<1> DEFINE Rec == [at : {"off", "copy", "select", "insert"},
                   todo : SUBSET Entries, next : SUBSET Entries,
                   own : SUBSET Entries, quiet : BOOLEAN]
<1>0. pending \subseteq Entries /\ rows \in [Entries -> Nat] /\ mapper \in [Threads -> Rec]
  BY DEF MapTyped
<1>r. \A t \in Threads : mapper[t] \in Rec
  BY <1>0
<1>1. ASSUME NEW t \in Threads, NEW k \in Keys, NEW v \in Values, Add(t, k, v)
      PROVE  MapTyped'
  <2>1. pending' \subseteq Entries /\ rows' \in [Entries -> Nat]
    BY <1>0, <1>1, EntriesTyped DEF Add
  <2>2. [at |-> "copy", todo |-> {}, next |-> {}, own |-> EntriesOf(k, v),
         quiet |-> Mapping = {}] \in Rec
    BY EntriesTyped
  <2>3. \A u \in Threads :
           [mapper[u] EXCEPT !.quiet = @ /\ mapper[u].at = "off"] \in Rec
    BY <1>r
  <2>4. mapper' \in [Threads -> Rec]
    BY <1>1, <2>2, <2>3 DEF Add
  <2> QED BY <2>1, <2>4 DEF MapTyped
<1>2. ASSUME NEW t \in Threads, Copy(t) PROVE MapTyped'
  BY <1>0, <1>2, ZenonT(30) DEF Copy, MapTyped
<1>3. ASSUME NEW t \in Threads, Select(t) PROVE MapTyped'
  <2>1. PICK e \in mapper[t].todo :
           mapper' = IF rows[e] > 0
                     THEN [mapper EXCEPT ![t].todo = @ \ {e}]
                     ELSE [mapper EXCEPT ![t].at = "insert", ![t].next = {e}]
    BY <1>3 DEF Select
  <2>2. e \in Entries
    BY <1>r, <2>1
  <2>3. mapper' \in [Threads -> Rec]
    BY <1>0, <2>1, <2>2, ZenonT(30)
  <2> QED BY <1>0, <1>3, <2>3 DEF MapTyped, Select
<1>4. ASSUME NEW t \in Threads, Insert(t) PROVE MapTyped'
  <2>1. rows' \in [Entries -> Nat]
    BY <1>0, <1>4 DEF Insert
  <2>2. mapper' \in [Threads -> Rec]
    BY <1>0, <1>r, <1>4, ZenonT(30) DEF Insert
  <2> QED BY <1>0, <1>4, <2>1, <2>2 DEF MapTyped, Insert
<1>5. ASSUME NEW t \in Threads, ClearCache(t) PROVE MapTyped'
  BY <1>0, <1>5 DEF ClearCache, Off, MapTyped
<1>6. ASSUME NEW k \in Keys, DeleteRows(k) PROVE MapTyped'
  <2>1. rows' \in [Entries -> Nat]
    BY <1>0, <1>6 DEF DeleteRows
  <2>2. mapper' \in [Threads -> Rec]
    BY <1>r, <1>6 DEF DeleteRows
  <2> QED BY <1>0, <1>6, <2>1, <2>2 DEF MapTyped, DeleteRows
<1>7. CASE pending' = {} /\ mapper' = [t \in Threads |-> Off] /\ UNCHANGED rows
  BY <1>0, <1>7 DEF Off, MapTyped
<1>8. CASE UNCHANGED mapVars
  BY <1>0, <1>8 DEF mapVars, MapTyped
<1>9. ASSUME NEW t \in Threads, InsertFails(t) PROVE MapTyped'
  <2> DEFINE r == [mapper[t] EXCEPT !.at = "select", !.next = {}, !.quiet = FALSE,
                                    !.todo = @ \ mapper[t].next]
  <2>1. r \in Rec
    BY <1>r
  <2>2. mapper' = [mapper EXCEPT ![t] = r]
    BY <1>0, <1>9 DEF InsertFails
  <2>3. mapper' \in [Threads -> Rec]
    BY <1>0, <2>1, <2>2
  <2> QED BY <1>0, <1>9, <2>3 DEF MapTyped, InsertFails
<1> QED BY <1>1, <1>2, <1>3, <1>4, <1>5, <1>6, <1>7, <1>8, <1>9 DEF MapStep

\* Every step of the node is a step on the index, as far as the index goes.
LEMMA NextIsMapStep == RequestsFormed /\ [StoreNext]_storeVars => MapStep
<1> SUFFICES ASSUME RequestsFormed, [StoreNext]_storeVars PROVE MapStep
  OBVIOUS
<1> USE DEF MapStep
<1>1. ASSUME NEW t \in Threads, Begin(t) PROVE MapStep
  BY <1>1 DEF Begin, PutBegin, MapBegin, Clear, RemoveBegin
<1>2. ASSUME NEW t \in Threads, Continue(t) PROVE MapStep
  <2>1. CASE MapAdd(t)
    BY <2>1 DEF MapAdd, RequestsFormed
  <2>2. CASE MapSync(t)
    BY <2>2 DEF MapSync
  <2>3. CASE EraseRows(t)
    BY <2>3 DEF EraseRows, RequestsFormed
  <2>4. CASE Validate(t) \/ Write(t) \/ Cache(t) \/ EraseData(t) \/ EraseCached(t)
    BY <2>4 DEF Validate, Write, Cache, EraseData, EraseCached
  <2> QED BY <1>2, <2>1, <2>2, <2>3, <2>4 DEF Continue
<1>3. CASE \E k \in Expiring : Expire(k)
  BY <1>3 DEF Expire
<1>4. CASE Restart
  BY <1>4 DEF Restart
<1>5. CASE UNCHANGED storeVars
  BY <1>5 DEF storeVars
<1> QED BY <1>1, <1>2, <1>3, <1>4, <1>5 DEF StoreNext

\* Every step keeps the types, and the requests well formed.
LEMMA StoreNextTyped ==
    ASSUME StoreTypeOK, RequestsFormed, [StoreNext]_storeVars
    PROVE  StoreTypeOK' /\ RequestsFormed'
<1> USE NodeStoreAssumption
<1>1. MapTyped'
  <2>1. MapTyped
    BY DEF StoreTypeOK, MapTyped
  <2> QED BY <2>1, MapStepTyped, NextIsMapStep
<1> DEFINE NodeTyped ==
      /\ data \in [Keys -> Values \cup {None}]
      /\ cached \in [Keys -> Values \cup {None}]
      /\ expired \subseteq Expiring
      /\ th \in [Threads -> [at : {"idle", "validate", "write", "cache", "map", "sync",
                                   "eraseData", "eraseCached", "eraseRows"},
                             op : {"none", "put", "ipcput", "map", "remove"},
                             key : Keys \cup {None},
                             value : Values \cup {None}]]
      /\ RequestsFormed
<1>2. NodeTyped
  BY DEF StoreTypeOK
<1>3. ASSUME NEW t \in Threads, Begin(t) PROVE NodeTyped'
  <2>1. ASSUME NEW k \in Keys, NEW v \in Values, PutBegin(t, k, v) PROVE NodeTyped'
    BY <1>2, <2>1 DEF PutBegin, RequestsFormed
  <2>2. ASSUME NEW k \in Keys, NEW v \in Values, MapBegin(t, k, v) PROVE NodeTyped'
    BY <1>2, <2>2 DEF MapBegin, RequestsFormed
  <2>3. ASSUME NEW k \in Keys, RemoveBegin(k) PROVE NodeTyped'
    BY <1>2, <2>3 DEF RemoveBegin, RequestsFormed
  <2>4. CASE Clear
    BY <1>2, <2>4 DEF Clear, RequestsFormed
  <2> QED BY <1>3, <2>1, <2>2, <2>3, <2>4 DEF Begin
<1>4. ASSUME NEW t \in Threads, Continue(t) PROVE NodeTyped'
  <2> USE <1>2 DEF RequestsFormed, GoTo, Finish, Idle
  <2>1. CASE Validate(t)
    <3>1. UNCHANGED <<data, cached, expired>>
      BY <2>1 DEF Validate
    <3>2. CASE Finish(t)
      BY <3>1, <3>2
    <3>3. ASSUME NEW place \in {"eraseData", "map", "write"}, GoTo(t, place),
                 th[t].at = "validate"
          PROVE  NodeTyped'
      BY <3>1, <3>3
    <3> QED BY <2>1, <3>2, <3>3 DEF Validate
  <2>2. CASE Write(t)
    BY <2>2 DEF Write
  <2>3. CASE Cache(t)
    BY <2>3 DEF Cache
  <2>4. CASE MapAdd(t)
    BY <2>4 DEF MapAdd
  <2>5. CASE MapSync(t)
    BY <2>5 DEF MapSync
  <2>6. CASE EraseData(t)
    BY <2>6 DEF EraseData
  <2>7. CASE EraseCached(t)
    BY <2>7 DEF EraseCached
  <2>8. CASE EraseRows(t)
    BY <2>8 DEF EraseRows
  <2> QED BY <1>4, <2>1, <2>2, <2>3, <2>4, <2>5, <2>6, <2>7, <2>8 DEF Continue
<1>5. ASSUME \E k \in Expiring : Expire(k) PROVE NodeTyped'
  BY <1>2, <1>5 DEF Expire, RequestsFormed
<1>6. ASSUME Restart PROVE NodeTyped'
  BY <1>2, <1>6 DEF Restart, RequestsFormed, Idle
<1>7. ASSUME UNCHANGED storeVars PROVE NodeTyped'
  BY <1>2, <1>7 DEF storeVars, RequestsFormed
<1>8. NodeTyped'
  BY <1>3, <1>4, <1>5, <1>6, <1>7 DEF StoreNext
<1> QED BY <1>1, <1>8 DEF StoreTypeOK, MapTyped

\* The variables keep their types through every interleaving, expiry and
\* restart.
THEOREM StoreTypeCorrect == StoreInit /\ [][StoreNext]_storeVars => [](StoreTypeOK /\ RequestsFormed)
<1>1. StoreInit => StoreTypeOK /\ RequestsFormed
  BY StoreInitTyped
<1>2. (StoreTypeOK /\ RequestsFormed) /\ [StoreNext]_storeVars => (StoreTypeOK /\ RequestsFormed)'
  BY StoreNextTyped
<1> QED BY <1>1, <1>2, PTL

----------------------------------------------------------------------------
(* The hash table is a versioned store.                                     *)

\* The critical section of put stores a first value, a successor of the present
\* one, or nothing.
LEMMA WriteRefines ==
    ASSUME StoreTypeOK, RequestsFormed, NEW t \in Threads, Write(t)
    PROVE  Versioned!Next \/ UNCHANGED data
<1> DEFINE k == th[t].key
           v == th[t].value
<1>1. k \in Keys /\ v \in Values
  BY DEF RequestsFormed, Write
<1>2. data[k] \in Values \cup {None}
  BY <1>1 DEF StoreTypeOK
<1>3. CASE data[k] = v
  <2>1. data' = data
    BY <1>3, <1>1 DEF Write, StoreTypeOK, Verdict
  <2> QED BY <2>1
<1>4. CASE data[k] # v /\ data' = [data EXCEPT ![k] = v]
  <2>1. data[k] # None /\ data' # data => Versioned!Supersedes(v, data[k])
    <3> SUFFICES ASSUME data[k] # None, data' # data
                 PROVE  Versioned!Supersedes(v, data[k])
      OBVIOUS
    <3>1. Verdict(v, data[k]) = "stored"
      BY <1>4 DEF Write
    <3>2. OwnerOf[v] = OwnerOf[data[k]]
      BY <3>1 DEF Verdict
    <3>3. ~(StampOf[data[k]] > 0 /\ StampOf[v] <= StampOf[data[k]])
      BY <3>1, <3>2 DEF Verdict
    <3>4. StampOf[v] \in Nat /\ StampOf[data[k]] \in Nat
      BY <1>1, <1>2, NodeStoreAssumption
    <3> QED BY <3>2, <3>3, <3>4 DEF Versioned!Supersedes
  <2>2. data' # data => Versioned!Store(k, v)
    BY <1>4, <2>1 DEF Versioned!Store
  <2> QED BY <1>1, <2>2 DEF Versioned!Next
<1>5. data' = data \/ data' = [data EXCEPT ![k] = v]
  BY DEF Write
<1> QED BY <1>3, <1>4, <1>5

\* Erasing the keys K is a step of the versioned store.
LEMMA EraseRefines ==
    ASSUME NEW K \in SUBSET Keys,
           data' = [k \in Keys |-> IF k \in K THEN None ELSE data[k]]
    PROVE  Versioned!Next
  BY DEF Versioned!Next, Versioned!Erase

\* Every step of the node is a step of the versioned store or leaves it alone.
LEMMA StepRefines ==
    ASSUME StoreTypeOK, RequestsFormed, [StoreNext]_storeVars
    PROVE  Versioned!Next \/ UNCHANGED data
<1>1. ASSUME NEW t \in Threads, Begin(t) PROVE Versioned!Next \/ UNCHANGED data
  <2>1. CASE Clear
    BY <2>1, EraseRefines DEF Clear
  <2>2. CASE \E k \in Keys, v \in Values : PutBegin(t, k, v) \/ MapBegin(t, k, v)
    BY <2>2 DEF PutBegin, MapBegin
  <2>3. CASE \E k \in Keys : RemoveBegin(k)
    BY <2>3 DEF RemoveBegin
  <2> QED BY <1>1, <2>1, <2>2, <2>3 DEF Begin
<1>2. ASSUME NEW t \in Threads, Continue(t) PROVE Versioned!Next \/ UNCHANGED data
  <2>1. CASE Write(t)
    BY <2>1, WriteRefines
  <2>2. CASE EraseData(t)
    <3>1. th[t].key \in Keys
      BY <2>2 DEF EraseData, RequestsFormed
    <3>2. data' = [k \in Keys |-> IF k \in {th[t].key} THEN None ELSE data[k]]
      BY <2>2 DEF EraseData, StoreTypeOK
    <3> QED BY <3>1, <3>2, EraseRefines
  <2>3. CASE Validate(t) \/ Cache(t) \/ MapAdd(t) \/ MapSync(t)
             \/ EraseCached(t) \/ EraseRows(t)
    BY <2>3 DEF Validate, Cache, MapAdd, MapSync, EraseCached, EraseRows
  <2> QED BY <1>2, <2>1, <2>2, <2>3 DEF Continue
<1>3. CASE \E k \in Expiring : Expire(k)
  BY <1>3 DEF Expire
<1>4. CASE Restart
  BY <1>4, EraseRefines DEF Restart
<1>5. CASE UNCHANGED storeVars
  BY <1>5 DEF storeVars
<1> QED BY <1>1, <1>2, <1>3, <1>4, <1>5 DEF StoreNext

\* NodeStore implements VersionedStore: however the critical sections of
\* concurrent puts interleave with removals, expiry and restarts, a stored value
\* is replaced only by a more recent version of the same object (put, set).
THEOREM Refinement == StoreInit /\ [][StoreNext]_storeVars => StoreIsVersioned
<1>1. StoreInit => Versioned!Init
  BY DEF StoreInit, Versioned!Init
<1>2. StoreTypeOK /\ RequestsFormed /\ [StoreNext]_storeVars => [Versioned!Next]_data
  BY StepRefines
<1> QED BY <1>1, <1>2, StoreTypeCorrect, PTL DEF StoreIsVersioned, Versioned!Spec

----------------------------------------------------------------------------
(* The rows of an entry are bounded by the number of threads.               *)

\* The threads about to insert an entry are some of the threads.
LEMMA InsertingFinite ==
    ASSUME NEW e \in Entries
    PROVE  /\ IsFiniteSet(Inserting(e))
           /\ Cardinality(Inserting(e)) \in Nat
           /\ Cardinality(Threads) \in Nat
           /\ Cardinality(Inserting(e)) <= Cardinality(Threads)
  BY MapperAssumption, FS_Subset, FS_CardinalityType DEF Inserting

\* The same of the next state.
LEMMA InsertingFiniteNext ==
    ASSUME NEW e \in Entries
    PROVE  /\ IsFiniteSet(Inserting(e)')
           /\ Cardinality(Inserting(e)') \in Nat
           /\ Cardinality(Inserting(e)') <= Cardinality(Threads)
  BY MapperAssumption, FS_Subset, FS_CardinalityType DEF Inserting

\* A step after which an entry has no more rows and no more threads about to
\* insert it than before keeps the bound for that entry.
LEMMA NoMoreInserting ==
    ASSUME MapTyped, MapTyped', RowsCovered, NEW e \in Entries,
           rows'[e] = rows[e], Inserting(e)' \subseteq Inserting(e)
    PROVE  rows'[e] + Cardinality(Inserting(e)') <= Cardinality(Threads)
<1>1. Cardinality(Inserting(e)') <= Cardinality(Inserting(e))
  BY InsertingFinite, FS_Subset
<1>2. rows[e] \in Nat
  BY DEF MapTyped
<1> QED BY <1>1, <1>2, InsertingFinite, InsertingFiniteNext DEF RowsCovered

\* An entry without rows is within the bound whoever is about to insert it.
LEMMA NoRows ==
    ASSUME NEW e \in Entries, rows'[e] = 0
    PROVE  rows'[e] + Cardinality(Inserting(e)') <= Cardinality(Threads)
  BY InsertingFinite, InsertingFiniteNext

\* Every step on the index keeps the bound: only Select adds a thread, and only
\* for an entry without rows; Insert turns one thread into one row.
LEMMA RowsCoveredKept ==
    ASSUME MapTyped, MapTyped', RowsCovered, MapStep
    PROVE  RowsCovered'
<1> SUFFICES ASSUME NEW e \in Entries
             PROVE  rows'[e] + Cardinality(Inserting(e)') <= Cardinality(Threads)
  BY DEF RowsCovered
<1> DEFINE Goal == rows'[e] + Cardinality(Inserting(e)') <= Cardinality(Threads)
<1>r. /\ rows[e] \in Nat
      /\ \A u \in Threads : DOMAIN mapper[u] = {"at", "todo", "next", "own", "quiet"}
  BY DEF MapTyped
<1>1. ASSUME NEW t \in Threads, NEW k \in Keys, NEW v \in Values, Add(t, k, v)
      PROVE  Goal
  <2>1. rows'[e] = rows[e]
    BY <1>1 DEF Add
  <2>2. Inserting(e)' \subseteq Inserting(e)
    BY <1>1, <1>r DEF Add, Inserting
  <2> QED BY <2>1, <2>2, NoMoreInserting
<1>2. ASSUME NEW t \in Threads, Copy(t) PROVE Goal
  <2>1. rows'[e] = rows[e]
    BY <1>2 DEF Copy
  <2>2. Inserting(e)' \subseteq Inserting(e)
    BY <1>2 DEF Copy, Inserting, MapTyped
  <2> QED BY <2>1, <2>2, NoMoreInserting
<1>3. ASSUME NEW t \in Threads, Select(t) PROVE Goal
  <2>1. PICK f \in mapper[t].todo :
           mapper' = IF rows[f] > 0
                     THEN [mapper EXCEPT ![t].todo = @ \ {f}]
                     ELSE [mapper EXCEPT ![t].at = "insert", ![t].next = {f}]
    BY <1>3 DEF Select
  <2>2. rows' = rows
    BY <1>3 DEF Select
  <2>3. CASE e = f /\ ~(rows[f] > 0)
    BY <2>2, <2>3, <1>r, NoRows
  <2>4. CASE ~(e = f /\ ~(rows[f] > 0))
    <3>1. Inserting(e)' \subseteq Inserting(e)
      BY <1>3, <2>1, <2>4 DEF Select, Inserting, MapTyped
    <3> QED BY <2>2, <3>1, NoMoreInserting
  <2> QED BY <2>3, <2>4
<1>4. ASSUME NEW t \in Threads, Insert(t) PROVE Goal
  <2>1. CASE e \in mapper[t].next
    <3>1. rows'[e] = rows[e] + 1
      BY <1>4, <2>1 DEF Insert
    <3>2. t \in Inserting(e)
      BY <1>4, <2>1 DEF Insert, Inserting
    <3>3. Inserting(e)' = Inserting(e) \ {t}
      BY <1>4 DEF Insert, Inserting, MapTyped
    <3>4. Cardinality(Inserting(e)') = Cardinality(Inserting(e)) - 1
      BY <3>2, <3>3, InsertingFinite, FS_RemoveElement
    <3>5. rows[e] + Cardinality(Inserting(e)) <= Cardinality(Threads)
      BY DEF RowsCovered
    <3> QED BY <1>r, <3>1, <3>4, <3>5, InsertingFinite
  <2>2. CASE e \notin mapper[t].next
    <3>1. rows'[e] = rows[e]
      BY <1>4, <2>2 DEF Insert
    <3>2. Inserting(e)' \subseteq Inserting(e)
      BY <1>4 DEF Insert, Inserting, MapTyped
    <3> QED BY <3>1, <3>2, NoMoreInserting
  <2> QED BY <2>1, <2>2
<1>5. ASSUME NEW t \in Threads, ClearCache(t) PROVE Goal
  <2>1. rows'[e] = rows[e]
    BY <1>5 DEF ClearCache
  <2>2. Inserting(e)' \subseteq Inserting(e)
    BY <1>5 DEF ClearCache, Off, Inserting, MapTyped
  <2> QED BY <2>1, <2>2, NoMoreInserting
<1>6. ASSUME NEW k \in Keys, DeleteRows(k) PROVE Goal
  <2>1. CASE e[2] = k
    BY <1>6, <2>1, NoRows DEF DeleteRows
  <2>2. CASE e[2] # k
    <3>1. rows'[e] = rows[e]
      BY <1>6, <2>2 DEF DeleteRows
    <3>2. Inserting(e)' \subseteq Inserting(e)
      BY <1>6, <1>r DEF DeleteRows, Inserting
    <3> QED BY <3>1, <3>2, NoMoreInserting
  <2> QED BY <2>1, <2>2
<1>7. CASE pending' = {} /\ mapper' = [t \in Threads |-> Off] /\ UNCHANGED rows
  <2>1. Inserting(e)' \subseteq Inserting(e)
    BY <1>7 DEF Off, Inserting
  <2> QED BY <1>7, <2>1, NoMoreInserting
<1>8. CASE UNCHANGED mapVars
  <2>1. Inserting(e)' \subseteq Inserting(e)
    BY <1>8 DEF mapVars, Inserting
  <2> QED BY <1>8, <2>1, NoMoreInserting DEF mapVars
<1>9. ASSUME NEW t \in Threads, InsertFails(t) PROVE Goal
  <2>1. rows'[e] = rows[e]
    BY <1>9 DEF InsertFails
  <2>2. Inserting(e)' \subseteq Inserting(e)
    BY <1>9 DEF InsertFails, Inserting, MapTyped
  <2> QED BY <2>1, <2>2, NoMoreInserting
<1> QED BY <1>1, <1>2, <1>3, <1>4, <1>5, <1>6, <1>7, <1>8, <1>9 DEF MapStep

\* sync's separate SELECT and INSERT give an entry at most one row per thread,
\* over any number of calls, deletions and restarts.
THEOREM DuplicatesStayBounded == StoreInit /\ [][StoreNext]_storeVars => []DuplicatesBounded
<1>1. StoreInit => RowsCovered
  <2> SUFFICES ASSUME StoreInit, NEW e \in Entries
               PROVE  rows[e] + Cardinality(Inserting(e)) <= Cardinality(Threads)
    BY DEF RowsCovered
  <2>1. rows[e] = 0
    BY DEF StoreInit, MapInit
  <2> QED BY <2>1, InsertingFinite
<1>2. StoreTypeOK => MapTyped
  BY DEF StoreTypeOK, MapTyped
<1>3. StoreTypeOK /\ RequestsFormed /\ StoreTypeOK' /\ RowsCovered /\ [StoreNext]_storeVars => RowsCovered'
  <2> SUFFICES ASSUME StoreTypeOK, RequestsFormed, StoreTypeOK', RowsCovered, [StoreNext]_storeVars
               PROVE  RowsCovered'
    OBVIOUS
  <2>1. MapTyped'
    BY DEF StoreTypeOK, MapTyped
  <2> QED BY <1>2, <2>1, NextIsMapStep, RowsCoveredKept
<1>4. StoreTypeOK /\ RowsCovered => DuplicatesBounded
  <2> SUFFICES ASSUME StoreTypeOK, RowsCovered, NEW e \in Entries
               PROVE  rows[e] <= Cardinality(Threads)
    BY DEF DuplicatesBounded
  <2>1. rows[e] \in Nat /\ rows[e] + Cardinality(Inserting(e)) <= Cardinality(Threads)
    BY DEF StoreTypeOK, RowsCovered
  <2> QED BY <2>1, InsertingFinite
<1> QED BY <1>1, <1>3, <1>4, StoreTypeCorrect, PTL

----------------------------------------------------------------------------
(* A call that runs alone indexes its entries.                              *)

\* The record of a thread in the mapper.
MapperRec == [at : {"off", "copy", "select", "insert"},
              todo : SUBSET Entries, next : SUBSET Entries,
              own : SUBSET Entries, quiet : BOOLEAN]

\* A call that another one, or a deletion, disturbs is no longer quiet.
LEMMA Disturbed ==
    ASSUME NEW r \in MapperRec, NEW s, s = [r EXCEPT !.quiet = @ /\ r.at = "off"]
    PROVE  s.at = r.at /\ (s.quiet => s.at = "off")
<1>1. s.at = r.at
  BY DEF MapperRec
<1>2. s.quiet => r.at = "off"
  BY DEF MapperRec
<1> QED BY <1>1, <1>2

\* Every step on the index keeps QuietProgress: whoever begins a call or deletes
\* rows ends the quiet of every call under way.
LEMMA QuietProgressKept ==
    ASSUME MapTyped, QuietProgress, MapStep
    PROVE  QuietProgress'
<1> USE DEF QuietProgress
<1>0. \A u \in Threads : mapper[u] \in MapperRec
  BY DEF MapTyped, MapperRec
<1>1. ASSUME NEW t \in Threads, NEW k \in Keys, NEW v \in Values, Add(t, k, v)
      PROVE  QuietProgress'
  <2>1. \A u \in Threads \ {t} :
           mapper'[u] = [mapper[u] EXCEPT !.quiet = @ /\ mapper[u].at = "off"]
    BY <1>1 DEF Add
  <2>2. \A u \in Threads \ {t} :
           /\ mapper'[u].at = mapper[u].at
           /\ mapper'[u].quiet => mapper'[u].at = "off"
    BY <2>1, <1>0, Disturbed
  <2>4. mapper'[t] = [at |-> "copy", todo |-> {}, next |-> {},
                      own |-> EntriesOf(k, v), quiet |-> Mapping = {}]
    BY <1>1 DEF Add
  <2>3. mapper'[t].quiet => Mapping = {}
    <3>1. CASE Mapping = {}
      BY <3>1
    <3>2. CASE Mapping # {}
      <4>1. mapper'[t] = [at |-> "copy", todo |-> {}, next |-> {},
                          own |-> EntriesOf(k, v), quiet |-> FALSE]
        BY <2>4, <3>2
      <4> QED BY <4>1
    <3> QED BY <3>1, <3>2
  <2>5. mapper'[t].quiet => \A u \in Threads \ {t} : mapper'[u].at = "off"
    <3> SUFFICES ASSUME mapper'[t].quiet, NEW u \in Threads \ {t}
                 PROVE  mapper'[u].at = "off"
      OBVIOUS
    <3>1. mapper[u].at = "off"
      BY <2>3 DEF Mapping
    <3> QED BY <2>2, <3>1
  <2>6. mapper'[t].at = "copy" /\ mapper'[t].own \subseteq pending'
    BY <1>1, <2>4 DEF Add
  <2> SUFFICES ASSUME NEW u \in Threads, mapper'[u].at # "off", mapper'[u].quiet
               PROVE  /\ \A w \in Threads \ {u} : mapper'[w].at = "off"
                      /\ mapper'[u].at = "copy" /\ mapper'[u].own \subseteq pending'
    BY Zenon
  <2>7. u = t
    BY <2>2
  <2> QED BY <2>5, <2>6, <2>7
<1>2. ASSUME NEW t \in Threads, Copy(t) PROVE QuietProgress'
  BY <1>2 DEF Copy, MapTyped
<1>3. ASSUME NEW t \in Threads, Select(t) PROVE QuietProgress'
  BY <1>3 DEF Select, MapTyped
<1>4. ASSUME NEW t \in Threads, Insert(t) PROVE QuietProgress'
  BY <1>4 DEF Insert, MapTyped
<1>5. ASSUME NEW t \in Threads, ClearCache(t) PROVE QuietProgress'
  BY <1>5 DEF ClearCache, MapTyped, Off
<1>6. ASSUME NEW k \in Keys, DeleteRows(k) PROVE QuietProgress'
  <2>1. \A u \in Threads :
           mapper'[u] = [mapper[u] EXCEPT !.quiet = @ /\ mapper[u].at = "off"]
    BY <1>6 DEF DeleteRows
  <2>2. \A u \in Threads : mapper'[u].quiet => mapper'[u].at = "off"
    BY <2>1, <1>0, Disturbed
  <2> QED BY <2>2
<1>7. CASE pending' = {} /\ mapper' = [t \in Threads |-> Off] /\ UNCHANGED rows
  BY <1>7 DEF Off
<1>8. CASE UNCHANGED mapVars
  BY <1>8 DEF mapVars
<1>9. ASSUME NEW t \in Threads, InsertFails(t) PROVE QuietProgress'
  BY <1>9 DEF InsertFails, MapTyped
<1> QED BY <1>1, <1>2, <1>3, <1>4, <1>5, <1>6, <1>7, <1>8, <1>9 DEF MapStep

\* Whatever earlier calls have left in the maps, a call of add that nothing
\* overlaps with leaves a row for each of its entries.
THEOREM QuietCallsIndex == StoreInit /\ [][StoreNext]_storeVars => []MappedWhenQuiet
<1>1. StoreInit => QuietProgress
  BY DEF StoreInit, MapInit, QuietProgress, Off
<1>2. StoreTypeOK /\ RequestsFormed /\ QuietProgress /\ [StoreNext]_storeVars => QuietProgress'
  BY NextIsMapStep, QuietProgressKept DEF StoreTypeOK, MapTyped
<1>3. QuietProgress => MappedWhenQuiet
  BY DEF QuietProgress, MappedWhenQuiet
<1> QED BY <1>1, <1>2, <1>3, StoreTypeCorrect, PTL

----------------------------------------------------------------------------
(* The composition.                                                         *)

\* Of the two machines one runs, and both have begun.
LEMMA NodeParts ==
    NodeInit /\ [][NodeNext]_nodeVars => Init /\ [][Next]_vars /\ StoreInit /\ [][StoreNext]_storeVars
<1>1. NodeInit => Init /\ StoreInit
  BY DEF NodeInit
<1>2. [NodeNext]_nodeVars => [Next]_vars /\ [StoreNext]_storeVars
  BY DEF NodeNext, nodeVars, Maintain, Store
<1> QED BY <1>1, <1>2, PTL

\* The table stays well formed and the pointers of refresh live, the index is bounded and
\* complete when it is quiet, and the hash table implements the versioned store, in every
\* behaviour of a node (Node::heartbeat, Node::refresh, Node::put, KeyMapper::add).
THEOREM NodeIsSafe ==
    NodeSpec => /\ [](TableWellFormed /\ RefreshPointersLive)
                /\ [](DuplicatesBounded /\ MappedWhenQuiet)
                /\ StoreIsVersioned
<1>1. NodeSpec => NodeInit /\ [][NodeNext]_nodeVars
  BY PTL DEF NodeSpec
<1> QED BY <1>1, NodeParts, TableStaysWellFormed, RefreshIsSafe, DuplicatesStayBounded, QuietCallsIndex,
           Refinement, PTL
=============================================================================
