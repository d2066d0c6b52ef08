------------------------- MODULE Replication_proofs -------------------------
(***************************************************************************)
(* Proofs about Replication, for any peers, versions and factor:            *)
(*   - type correctness;                                                    *)
(*   - a peer that has answered a put keeps that version or a newer one;    *)
(*   - send_put counts each node that answered once, up to the factor;      *)
(*   - send_get gives up only on peers it has not heard.                    *)
(***************************************************************************)
EXTENDS Replication, TLAPS, FiniteSetTheorems

PutType == [at : {"idle", "ask", "wait", "done"},
            version : Versions \cup {0}, stage : {"first", "second"},
            todo : SUBSET Peers, peer : Peers \cup {Nobody},
            flying : BOOLEAN, answered : BOOLEAN, full : BOOLEAN,
            near : SUBSET Peers, gone : SUBSET Peers, count : Nat,
            acked : SUBSET Peers, lost : SUBSET Peers, steady : BOOLEAN]

GetType == [at : {"idle", "ours", "lookup", "theirs", "missing"},
            todo : SUBSET Peers, found : SUBSET Peers, owed : SUBSET Peers]

\* A send_put under way has a version, and a peer while it waits.
PutFormed ==
    /\ put.at # "idle" => put.version \in Versions
    /\ put.at = "wait" => put.peer \in Peers

Typed ==
    /\ data \in [Peers -> Versions \cup {0}]
    /\ table \subseteq Peers
    /\ providers \subseteq Peers
    /\ latePuts \subseteq [peer : Peers, version : Versions]
    /\ put \in PutType
    /\ get \in GetType
    /\ PutFormed

----------------------------------------------------------------------------
(* Type correctness.                                                        *)

\* The initial state is well typed.
LEMMA InitTyped == ReplicationInit => Typed
  BY DEF ReplicationInit, Typed, PutFormed, NoPut, NoGet, PutType, GetType

\* The steps of send_put keep the types.
LEMMA PutStepTyped == Typed /\ PutStep => Typed'
<1> SUFFICES ASSUME Typed, PutStep PROVE Typed'
  OBVIOUS
<1> USE DEF Typed, PutType, PutFormed
<1>1. ASSUME NEW v \in Versions, PutBegin(v) PROVE Typed'
  <2>1. PICK C \in FindNode(Factor) :
           put' = [NoPut EXCEPT !.at = "ask", !.version = v, !.todo = C, !.near = C,
                                !.full = (Cardinality(C) = Factor)]
    BY <1>1 DEF PutBegin
  <2>2. put' \in PutType /\ put'.version = v /\ put'.at = "ask"
    BY <2>1, ZenonT(30) DEF NoPut, FindNode
  <2> QED BY <1>1, <2>2 DEF PutBegin
<1>2. CASE Ask
  BY <1>2, ZenonT(30) DEF Ask
<1>3. CASE PeerPuts
  BY <1>3 DEF PeerPuts, Newest
<1>4. CASE PutAnswered
  <2>1. put.peer \in Peers
    BY <1>4 DEF PutAnswered
  <2> DEFINE heard == put.acked \cup {put.peer}
  <2>4. /\ put' = [put EXCEPT !.at = "ask", !.peer = Nobody, !.answered = FALSE,
                              !.count = put.count + 1, !.acked = heard]
        /\ put.count + 1 \in Nat /\ heard \in SUBSET Peers
    BY <1>4, <2>1 DEF PutAnswered
  <2> HIDE DEF heard
  <2>2. put' \in PutType /\ put'.version = put.version /\ put'.at = "ask"
    BY <2>4
  <2>3. providers' \subseteq Peers
    BY <1>4, <2>1 DEF PutAnswered
  <2> QED BY <1>4, <2>2, <2>3 DEF PutAnswered
<1>5. CASE PutTimesOut
  <2>1. [peer |-> put.peer, version |-> put.version] \in [peer : Peers, version : Versions]
    BY <1>5 DEF PutTimesOut
  <2>2. put' \in PutType /\ put'.version = put.version /\ put'.at = "ask"
    BY <1>5 DEF PutTimesOut
  <2>3. latePuts' \subseteq [peer : Peers, version : Versions]
    BY <1>5, <2>1 DEF PutTimesOut
  <2> QED BY <1>5, <2>2, <2>3 DEF PutTimesOut
<1>6. CASE Replace
  BY <1>6, ZenonT(30) DEF Replace, Replacements
<1>7. CASE PutReturns
  BY <1>7 DEF PutReturns
<1>8. CASE PutEnds
  BY <1>8 DEF PutEnds, NoPut
<1> QED BY <1>1, <1>2, <1>3, <1>4, <1>5, <1>6, <1>7, <1>8 DEF PutStep

\* The steps of send_get keep the types.
LEMMA GetStepTyped == Typed /\ GetStep => Typed'
<1> SUFFICES ASSUME Typed, GetStep PROVE Typed'
  OBVIOUS
<1> USE DEF Typed, GetType, PutFormed
<1>1. CASE GetBegin
  BY <1>1 DEF GetBegin, NoGet, Holders
<1>2. CASE GetAnswered \/ GetEnds
  BY <1>2 DEF GetAnswered, GetEnds, NoGet
<1>3. CASE GetUnanswered
  BY <1>3 DEF GetUnanswered
<1>4. CASE AskForProviders
  BY <1>4 DEF AskForProviders, FindNode
<1>5. CASE LookupPeers
  BY <1>5 DEF LookupPeers, ProvidersReply
<1>6. CASE FetchFromFound
  BY <1>6 DEF FetchFromFound
<1>7. CASE GetFails
  BY <1>7 DEF GetFails
<1> QED BY <1>1, <1>2, <1>3, <1>4, <1>5, <1>6, <1>7 DEF GetStep

\* The steps of the other threads and of the peers keep the types.
LEMMA OthersTyped == Typed /\ Others => Typed'
<1> SUFFICES ASSUME Typed, Others PROVE Typed'
  OBVIOUS
<1> USE DEF Typed, PutFormed
<1>1. CASE PeerPutsLate
  BY <1>1 DEF PeerPutsLate, Newest
<1>2. ASSUME NEW p \in Peers, NodeAdded(p) PROVE Typed'
  BY <1>2 DEF NodeAdded, PutType
<1>3. ASSUME NEW p \in Peers, NodeEvicted(p) PROVE Typed'
  BY <1>3 DEF NodeEvicted, PutType, GetType
<1>4. ASSUME NEW p \in Peers, Announced(p) PROVE Typed'
  BY <1>4 DEF Announced
<1>5. ASSUME NEW p \in Peers, NEW v \in Versions, StoredAtPeer(p, v) PROVE Typed'
  BY <1>5 DEF StoredAtPeer, Newest
<1>6. ASSUME NEW p \in Peers, LostByPeer(p) PROVE Typed'
  BY <1>6 DEF LostByPeer, Answerer, PutType, GetType
<1>7. CASE Restart
  BY <1>7 DEF Restart, NoPut, NoGet, PutType, GetType
<1> QED
  BY <1>1, <1>2, <1>3, <1>4, <1>5, <1>6, <1>7, ReplicationAssumption DEF Others

\* Every step keeps the types.
LEMMA NextTyped == Typed /\ [ReplicationNext]_replicationVars => Typed'
<1>1. Typed /\ UNCHANGED replicationVars => Typed'
  BY DEF Typed, PutFormed, replicationVars
<1> QED BY <1>1, PutStepTyped, GetStepTyped, OthersTyped DEF ReplicationNext

\* Every variable of the node and of its peers keeps its type.
THEOREM TypeCorrect == ReplicationSpec => []ReplicationTypeOK
<1>1. Typed => ReplicationTypeOK
  BY DEF Typed, ReplicationTypeOK, PutType, GetType
<1> QED BY InitTyped, NextTyped, <1>1, PTL DEF ReplicationSpec

\* The same with the facts ReplicationTypeOK leaves out.
LEMMA AlwaysTyped == ReplicationSpec => []Typed
  BY InitTyped, NextTyped, PTL DEF ReplicationSpec

----------------------------------------------------------------------------
(* What a peer has answered it holds.                                       *)

\* AnsweredPeersHold says nothing of a peer whose answer is on its way: that one
\* is the next to be counted.
Held ==
    /\ AnsweredPeersHold
    /\ put.answered => /\ put.at = "wait"
                       /\ put.peer \notin put.lost => data[put.peer] >= put.version
    /\ put.at = "idle" => put.acked = {}

\* What a peer holds and what a call puts are numbers.
LEMMA VersionsAreNumbers ==
    ASSUME Typed
    PROVE  /\ put.version \in Nat /\ put.acked \subseteq Peers
           /\ \A q \in Peers : data[q] \in Nat /\ data[q] \in Versions \cup {0}
<1>1. Versions \cup {0} \subseteq Nat
  BY ReplicationAssumption
<1>2. put.version \in Versions \cup {0} /\ put.acked \subseteq Peers
  BY DEF Typed, PutType
<1>3. \A q \in Peers : data[q] \in Versions \cup {0}
  BY DEF Typed
<1> QED BY <1>1, <1>2, <1>3

\* A put at a peer never takes it back to an older version.
LEMMA NewestBounds ==
    ASSUME NEW v \in Versions, NEW w \in Versions \cup {0}
    PROVE  Newest(v, w) \in Nat /\ Newest(v, w) >= v /\ Newest(v, w) >= w
  BY ReplicationAssumption DEF Newest

\* A step on data that takes no peer back keeps Held while the call stays as it is.
LEMMA GrowthHolds ==
    ASSUME Typed, Held, UNCHANGED put,
           NEW p \in Peers, NEW v \in Versions,
           data' = [data EXCEPT ![p] = Newest(v, @)]
    PROVE  Held'
<1>2. put.version \in Nat /\ put.acked \subseteq Peers
  BY VersionsAreNumbers
<1>1. \A q \in Peers : data[q] \in Nat /\ data'[q] \in Nat /\ data'[q] >= data[q]
  <2>1. Newest(v, data[p]) \in Nat /\ Newest(v, data[p]) >= data[p]
    BY VersionsAreNumbers, NewestBounds
  <2>2. data' = [q \in Peers |-> IF q = p THEN Newest(v, data[p]) ELSE data[q]]
    BY DEF Typed
  <2> QED BY <2>1, <2>2, VersionsAreNumbers
<1>3. \A q \in put.acked \ put.lost : data'[q] >= put.version
  BY <1>1, <1>2 DEF Held, AnsweredPeersHold
<1>4. put.answered /\ put.peer \notin put.lost => data'[put.peer] >= put.version
  BY <1>1, <1>2 DEF Held, Typed, PutFormed
<1> QED BY <1>3, <1>4 DEF Held, AnsweredPeersHold

\* Every step keeps Held.
LEMMA NextHolds == Typed /\ Held /\ [ReplicationNext]_replicationVars => Held'
<1> SUFFICES ASSUME Typed, Held, [ReplicationNext]_replicationVars PROVE Held'
  OBVIOUS
<1> USE DEF Held, AnsweredPeersHold
<1>0. put \in PutType /\ PutFormed
  BY DEF Typed
<1>1. ASSUME NEW v \in Versions, PutBegin(v) PROVE Held'
  BY <1>1 DEF PutBegin, NoPut
<1>2. CASE Ask
  BY <1>0, <1>2 DEF Ask, PutType
<1>3. CASE PeerPuts
  <2>1. /\ put.peer \in Peers /\ put.version \in Versions /\ put.at = "wait"
        /\ put' = [put EXCEPT !.flying = FALSE, !.answered = TRUE]
        /\ data' = [data EXCEPT ![put.peer] = Newest(put.version, @)]
    BY <1>0, <1>3 DEF PeerPuts, PutFormed
  <2> DEFINE new == Newest(put.version, data[put.peer])
  <2>7. new \in Nat /\ new >= put.version /\ new >= data[put.peer]
    BY <2>1, VersionsAreNumbers, NewestBounds
  <2>8. data' = [q \in Peers |-> IF q = put.peer THEN new ELSE data[q]]
    BY <2>1 DEF Typed
  <2> HIDE DEF new
  <2>2. \A q \in Peers : data[q] \in Nat /\ data'[q] \in Nat /\ data'[q] >= data[q]
    BY <2>7, <2>8, VersionsAreNumbers
  <2>3. data'[put.peer] >= put.version
    BY <2>1, <2>7, <2>8
  <2>4. /\ put'.acked = put.acked /\ put'.lost = put.lost /\ put'.at = "wait"
        /\ put'.version = put.version /\ put'.peer = put.peer
    BY <2>1, <1>0 DEF PutType
  <2>5. put.version \in Nat /\ put.acked \subseteq Peers
    BY VersionsAreNumbers
  <2>6. \A q \in put.acked \ put.lost : data'[q] >= put.version
    BY <2>2, <2>5
  <2> QED BY <2>3, <2>4, <2>6
<1>4. CASE PutAnswered
  BY <1>0, <1>4 DEF PutAnswered, PutType
<1>5. CASE PutTimesOut
  BY <1>0, <1>5 DEF PutTimesOut, PutType
<1>6. CASE Replace
  BY <1>0, <1>6 DEF Replace, PutType
<1>7. CASE PutReturns
  BY <1>0, <1>7 DEF PutReturns, PutType
<1>8. CASE PutEnds \/ Restart
  BY <1>8 DEF PutEnds, Restart, NoPut
<1>9. CASE GetStep
  BY <1>9 DEF GetStep, GetBegin, GetAnswered, GetUnanswered, AskForProviders,
              LookupPeers, FetchFromFound, GetFails, GetEnds
<1>10. CASE PeerPutsLate
  <2>1. PICK q \in latePuts : data' = [data EXCEPT ![q.peer] = Newest(q.version, @)]
    BY <1>10 DEF PeerPutsLate
  <2>2. q.peer \in Peers /\ q.version \in Versions
    BY DEF Typed
  <2> QED BY <1>10, <2>1, <2>2, GrowthHolds DEF PeerPutsLate
<1>11. ASSUME NEW p \in Peers, NEW v \in Versions, StoredAtPeer(p, v) PROVE Held'
  BY <1>11, GrowthHolds DEF StoredAtPeer
<1>12. ASSUME NEW p \in Peers, NodeAdded(p) PROVE Held'
  BY <1>0, <1>12 DEF NodeAdded, PutType
<1>13. ASSUME NEW p \in Peers, NodeEvicted(p) PROVE Held'
  BY <1>0, <1>13 DEF NodeEvicted, PutType
<1>14. ASSUME NEW p \in Peers, Announced(p) PROVE Held'
  BY <1>14 DEF Announced
<1>15. ASSUME NEW p \in Peers, LostByPeer(p) PROVE Held'
  BY <1>0, <1>15 DEF LostByPeer, Answerer, PutType, Typed
<1>16. CASE UNCHANGED replicationVars
  BY <1>16 DEF replicationVars
<1> QED
  BY <1>1, <1>2, <1>3, <1>4, <1>5, <1>6, <1>7, <1>8, <1>9, <1>10, <1>11, <1>12,
     <1>13, <1>14, <1>15, <1>16, ReplicationAssumption DEF ReplicationNext, PutStep, Others

\* A peer that has answered a put holds that version or a newer one until it loses
\* the value, however late the queries of earlier calls reach it.
THEOREM AnswersHold == ReplicationSpec => []AnsweredPeersHold
<1>1. ReplicationInit => Held
  BY DEF ReplicationInit, NoPut, Held, AnsweredPeersHold
<1>2. Held => AnsweredPeersHold
  BY DEF Held
<1> QED BY <1>1, <1>2, NextHolds, AlwaysTyped, PTL DEF ReplicationSpec

----------------------------------------------------------------------------
(* Whom a get gives up on.                                                  *)

\* The peers that are owed an answer have the value, and the call still has to ask
\* them: as a provider, as a node of the table, as a provider received.
Owing ==
    /\ get.owed \subseteq Holders
    /\ get.at \in {"idle", "missing"} => get.owed = {}
    /\ get.at = "ours" => get.owed \subseteq get.todo \cup table
    /\ get.at = "lookup" => get.owed \subseteq get.todo \cup get.found
    /\ get.at = "theirs" => get.owed \subseteq get.todo

\* A put takes the value from no peer.
LEMMA GrowthKeepsHolders ==
    ASSUME Typed, NEW p \in Peers, NEW v \in Versions,
           data' = [data EXCEPT ![p] = Newest(v, @)]
    PROVE  Holders \subseteq Holders'
<1>1. Newest(v, data[p]) # 0
  BY VersionsAreNumbers, ReplicationAssumption DEF Newest
<1>2. data' = [q \in Peers |-> IF q = p THEN Newest(v, data[p]) ELSE data[q]]
  BY DEF Typed
<1> HIDE DEF Newest
<1> QED BY <1>1, <1>2 DEF Holders

\* Every step keeps Owing.
LEMMA NextOwes == Typed /\ Owing /\ [ReplicationNext]_replicationVars => Owing'
<1> SUFFICES ASSUME Typed, Owing, [ReplicationNext]_replicationVars PROVE Owing'
  OBVIOUS
<1>0. get \in GetType
  BY DEF Typed
<1> USE DEF Owing
<1>1. CASE PutStep /\ ~PeerPuts
  <2>1. UNCHANGED <<data, table, get>>
    BY <1>1 DEF PutStep, PutBegin, Ask, PutAnswered, PutTimesOut, Replace,
                PutReturns, PutEnds
  <2> QED BY <2>1 DEF Holders
<1>2. CASE PeerPuts
  <2>1. put.peer \in Peers /\ put.version \in Versions
    BY <1>2 DEF PeerPuts, Typed, PutFormed
  <2>2. Holders \subseteq Holders' /\ UNCHANGED <<table, get>>
    BY <1>2, <2>1, GrowthKeepsHolders DEF PeerPuts
  <2> QED BY <2>2
<1>3. CASE GetBegin
  BY <1>3 DEF GetBegin, NoGet, Holders
<1>4. CASE GetAnswered \/ GetEnds \/ Restart
  BY <1>4 DEF GetAnswered, GetEnds, Restart, NoGet
<1>5. CASE GetUnanswered
  BY <1>0, <1>5 DEF GetUnanswered, Fetching, GetType, Holders
<1>6. CASE AskForProviders
  BY <1>0, <1>6 DEF AskForProviders, GetType, Holders
<1>7. CASE LookupPeers
  <2>1. PICK p \in get.todo :
           \/ \E S \in ProvidersReply(p) :
                 get' = [get EXCEPT !.todo = @ \ {p}, !.found = @ \cup S]
           \/ get' = [get EXCEPT !.todo = @ \ {p}, !.owed = @ \ {p}]
    BY <1>7 DEF LookupPeers
  <2>2. get.at = "lookup" /\ UNCHANGED <<data, table>>
    BY <1>7 DEF LookupPeers
  <2>3. ASSUME NEW S \in ProvidersReply(p),
               get' = [get EXCEPT !.todo = @ \ {p}, !.found = @ \cup S]
        PROVE  Owing'
    <3>1. p \in get.owed => p \in S
      BY <2>3 DEF ProvidersReply
    <3>2. get'.owed = get.owed /\ get'.at = "lookup"
      BY <1>0, <2>2, <2>3 DEF GetType
    <3>3. get.owed \subseteq get'.todo \cup get'.found
      BY <1>0, <2>2, <2>3, <3>1 DEF GetType
    <3> QED BY <2>2, <3>2, <3>3 DEF Holders
  <2>4. CASE get' = [get EXCEPT !.todo = @ \ {p}, !.owed = @ \ {p}]
    BY <1>0, <2>2, <2>4 DEF GetType, Holders
  <2> QED BY <2>1, <2>3, <2>4
<1>8. CASE FetchFromFound
  BY <1>0, <1>8 DEF FetchFromFound, GetType, Holders
<1>9. CASE GetFails
  BY <1>0, <1>9 DEF GetFails, GetType, Holders
<1>10. CASE PeerPutsLate
  <2>1. PICK q \in latePuts : data' = [data EXCEPT ![q.peer] = Newest(q.version, @)]
    BY <1>10 DEF PeerPutsLate
  <2>2. q.peer \in Peers /\ q.version \in Versions
    BY DEF Typed
  <2>3. Holders \subseteq Holders'
    BY <2>1, <2>2, GrowthKeepsHolders
  <2> QED BY <1>10, <2>3 DEF PeerPutsLate
<1>11. ASSUME NEW p \in Peers, NEW v \in Versions, StoredAtPeer(p, v) PROVE Owing'
  <2>1. Holders \subseteq Holders'
    BY <1>11, GrowthKeepsHolders DEF StoredAtPeer
  <2> QED BY <1>11, <2>1 DEF StoredAtPeer
<1>12. ASSUME NEW p \in Peers, NodeAdded(p) PROVE Owing'
  BY <1>12 DEF NodeAdded, Holders
<1>13. ASSUME NEW p \in Peers, NodeEvicted(p) PROVE Owing'
  BY <1>0, <1>13 DEF NodeEvicted, GetType, Holders
<1>14. ASSUME NEW p \in Peers, Announced(p) PROVE Owing'
  BY <1>14 DEF Announced, Holders
<1>15. ASSUME NEW p \in Peers, LostByPeer(p) PROVE Owing'
  BY <1>0, <1>15 DEF LostByPeer, GetType, Holders, Typed
<1>16. CASE UNCHANGED replicationVars
  BY <1>16 DEF replicationVars, Holders
<1> QED
  BY <1>1, <1>2, <1>3, <1>4, <1>5, <1>6, <1>7, <1>8, <1>9, <1>10, <1>11, <1>12,
     <1>13, <1>14, <1>15, <1>16, ReplicationAssumption
  DEF ReplicationNext, PutStep, GetStep, Others

\* send_get returns nothing only when every peer that held the value all along, and
\* that it knew as a provider or as a node, has left the table, is ranked too low,
\* is not Active, or has failed to answer with a valid value.
THEOREM NothingFoundNothingHeard == ReplicationSpec => []NotFoundMeansUnheard
<1>1. ReplicationInit => Owing
  BY DEF ReplicationInit, NoGet, Owing
<1>2. Owing => NotFoundMeansUnheard
  BY DEF Owing, NotFoundMeansUnheard
<1> QED BY <1>1, <1>2, NextOwes, AlwaysTyped, PTL DEF ReplicationSpec

----------------------------------------------------------------------------
(* What send_put counts.                                                    *)

InFlight == IF put.at = "wait" THEN 1 ELSE 0

\* While no node is evicted, the nodes counted, the one being asked and those still
\* to be asked are different, the replacements are none of the closest, and all of
\* them together are at most Factor.  Providers are dropped by send_get only, which
\* does not run at the same time.
Counted ==
    /\ put.at # "idle" => get.at = "idle"
    /\ put.at = "idle" => put = NoPut
    /\ put.steady =>
          /\ CopiesCounted
          /\ put.gone = {}
          /\ put.acked \cap put.todo = {}
          /\ put.at = "wait" => put.peer \notin put.acked \cup put.todo
          /\ put.stage = "first" =>
                /\ put.todo \cup put.acked \subseteq put.near
                /\ put.at = "wait" => put.peer \in put.near
          /\ put.count + Cardinality(put.todo) + InFlight <= Factor

\* Sets of peers are finite.
LEMMA PeersFinite ==
    ASSUME NEW S \in SUBSET Peers
    PROVE  IsFiniteSet(S) /\ Cardinality(S) \in Nat
  BY FS_Subset, FS_CardinalityType, ReplicationAssumption

\* One peer more, one peer less.
LEMMA OneMoreOneLess ==
    ASSUME NEW S \in SUBSET Peers, NEW p \in Peers
    PROVE  /\ p \notin S => Cardinality(S \cup {p}) = Cardinality(S) + 1
           /\ p \in S => Cardinality(S \ {p}) = Cardinality(S) - 1
  BY PeersFinite, FS_AddElement, FS_RemoveElement

\* Every step keeps Counted.
LEMMA NextCounts == Typed /\ Counted /\ [ReplicationNext]_replicationVars => Counted'
<1> SUFFICES ASSUME Typed, Counted, [ReplicationNext]_replicationVars PROVE Counted'
  OBVIOUS
<1> USE DEF Counted, CopiesCounted, InFlight
<1>0. put \in PutType /\ get \in GetType /\ PutFormed /\ Factor \in Nat
  BY ReplicationAssumption DEF Typed
<1>c. /\ put.count \in Nat /\ put.todo \in SUBSET Peers /\ put.acked \in SUBSET Peers
      /\ Cardinality(put.todo) \in Nat /\ Cardinality(put.acked) \in Nat
  BY <1>0, PeersFinite DEF PutType
<1>1. ASSUME NEW v \in Versions, PutBegin(v) PROVE Counted'
  <2>1. PICK C \in FindNode(Factor) :
           put' = [NoPut EXCEPT !.at = "ask", !.version = v, !.todo = C,
                                !.near = C, !.full = (Cardinality(C) = Factor)]
    BY <1>1 DEF PutBegin
  <2>2. Cardinality(C) \in Nat /\ Cardinality(C) <= Factor
    BY <1>0, PeersFinite DEF Typed, FindNode
  <2>3. /\ put'.at = "ask" /\ put'.acked = {} /\ put'.count = 0 /\ put'.gone = {}
        /\ put'.todo = C /\ put'.near = C
    BY <2>1 DEF NoPut
  <2>4. get.at = "idle" /\ get' = get
    BY <1>1 DEF PutBegin, Free
  <2>5. Cardinality({}) = 0
    BY FS_EmptySet
  <2> QED BY <1>0, <2>2, <2>3, <2>4, <2>5
<1>2. CASE Ask
  <2>1. PICK p \in put.todo :
           \/ put' = [put EXCEPT !.at = "wait", !.todo = @ \ {p}, !.peer = p,
                                 !.flying = TRUE, !.answered = FALSE]
           \/ put' = [put EXCEPT !.todo = @ \ {p}]
    BY <1>2 DEF Ask
  <2>2. /\ put'.todo = put.todo \ {p} /\ put'.count = put.count
        /\ put'.acked = put.acked /\ put'.steady = put.steady /\ put'.gone = put.gone
        /\ put'.near = put.near /\ put'.stage = put.stage
        /\ put'.at \in {"wait", "ask"} /\ (put'.at = "wait" => put'.peer = p)
    BY <1>0, <1>2, <2>1 DEF PutType, Ask
  <2>3. Cardinality(put.todo \ {p}) = Cardinality(put.todo) - 1
    BY <1>c, OneMoreOneLess
  <2>4. put.at = "ask" /\ UNCHANGED <<get, providers>>
    BY <1>2 DEF Ask
  <2> QED BY <1>0, <1>c, <2>2, <2>3, <2>4
<1>3. CASE PeerPuts
  <2>1. /\ put'.todo = put.todo /\ put'.count = put.count /\ put'.peer = put.peer
        /\ put'.acked = put.acked /\ put'.steady = put.steady /\ put'.gone = put.gone
        /\ put'.near = put.near /\ put'.stage = put.stage /\ put'.at = "wait"
        /\ put.at = "wait" /\ UNCHANGED <<get, providers>>
    BY <1>0, <1>3 DEF PeerPuts, PutType
  <2> QED BY <2>1
<1>4. CASE PutAnswered
  <2>1. /\ put'.todo = put.todo /\ put'.count = put.count + 1
        /\ put'.acked = put.acked \cup {put.peer} /\ put'.steady = put.steady
        /\ put'.gone = put.gone /\ put'.near = put.near /\ put'.stage = put.stage
        /\ put'.at = "ask" /\ put.at = "wait" /\ get' = get
    BY <1>0, <1>4 DEF PutAnswered, PutType
  <2>2. put.peer \in Peers
    BY <1>0, <2>1 DEF PutFormed
  <2>3. put.gone = {} => providers' = providers \cup {put.peer}
    BY <1>4 DEF PutAnswered
  <2>4. put.peer \notin put.acked =>
           Cardinality(put'.acked) = Cardinality(put.acked) + 1
    BY <1>c, <2>1, <2>2, OneMoreOneLess
  <2> QED BY <1>0, <1>c, <2>1, <2>2, <2>3, <2>4
<1>5. CASE PutTimesOut
  <2>1. /\ put'.todo = put.todo /\ put'.count = put.count /\ put'.at = "ask"
        /\ put'.acked = put.acked /\ put'.steady = put.steady /\ put'.gone = put.gone
        /\ put'.near = put.near /\ put'.stage = put.stage
        /\ put.at = "wait" /\ UNCHANGED <<get, providers>>
    BY <1>0, <1>5 DEF PutTimesOut, PutType
  <2> QED BY <1>0, <1>c, <2>1
<1>6. CASE Replace
  <2>1. PICK S \in SUBSET Replacements :
           /\ Cardinality(S) = Missing
           /\ put' = [put EXCEPT !.stage = "second", !.todo = S, !.gone = {}]
    BY <1>6 DEF Replace
  <2>2. /\ put.at = "ask" /\ put.stage = "first" /\ put.todo = {}
        /\ UNCHANGED <<get, providers>>
    BY <1>6 DEF Replace
  <2>3. /\ put'.todo = S /\ put'.count = put.count /\ put'.at = "ask"
        /\ put'.acked = put.acked /\ put'.steady = put.steady /\ put'.gone = {}
        /\ put'.stage = "second"
    BY <1>0, <2>1, <2>2 DEF PutType
  <2>4. put.steady => put.acked \cap S = {}
    BY <2>2 DEF Replacements
  <2>5. put.count + Cardinality(S) = Factor
    BY <1>0, <1>c, <2>1 DEF Missing
  <2> QED BY <1>0, <1>c, <2>2, <2>3, <2>4, <2>5
<1>7. CASE PutReturns
  <2>1. /\ put'.todo = put.todo /\ put'.count = put.count /\ put'.at = "done"
        /\ put'.acked = put.acked /\ put'.steady = put.steady /\ put'.gone = put.gone
        /\ put'.near = put.near /\ put'.stage = put.stage
        /\ put.at = "ask" /\ UNCHANGED <<get, providers>>
    BY <1>0, <1>7 DEF PutReturns, PutType
  <2> QED BY <2>1
<1>9. CASE PutEnds \/ Restart
  <2>1. put' = NoPut /\ Cardinality({}) = 0
    BY <1>9, FS_EmptySet DEF PutEnds, Restart
  <2> QED BY <1>0, <2>1 DEF NoPut
<1>10. CASE GetStep
  <2>1. put' = put /\ put.at = "idle"
    BY <1>0, <1>10
    DEF GetStep, GetBegin, GetAnswered, GetUnanswered, AskForProviders, LookupPeers,
        FetchFromFound, GetFails, GetEnds, Fetching, Free
  <2>2. put = NoPut /\ Cardinality({}) = 0
    BY <2>1, FS_EmptySet
  <2> QED BY <1>0, <2>1, <2>2 DEF NoPut
<1>11. CASE PeerPutsLate
  BY <1>11 DEF PeerPutsLate
<1>12. ASSUME NEW p \in Peers, NEW v \in Versions, StoredAtPeer(p, v) PROVE Counted'
  BY <1>12 DEF StoredAtPeer
<1>13. ASSUME NEW p \in Peers, NodeAdded(p) PROVE Counted'
  <2>1. CASE put' = put
    BY <1>13, <2>1 DEF NodeAdded
  <2>2. CASE ~put.steady /\ put' = [put EXCEPT !.near = @ \cup {p}]
    BY <1>0, <1>13, <2>2 DEF NodeAdded, PutType, NoPut
  <2> QED BY <1>13, <2>1, <2>2 DEF NodeAdded
<1>14. ASSUME NEW p \in Peers, NodeEvicted(p) PROVE Counted'
  BY <1>0, <1>14 DEF NodeEvicted, PutType, GetType
<1>15. ASSUME NEW p \in Peers, Announced(p) PROVE Counted'
  BY <1>15 DEF Announced
<1>16. ASSUME NEW p \in Peers, LostByPeer(p) PROVE Counted'
  BY <1>0, <1>16 DEF LostByPeer, PutType, GetType
<1>17. CASE UNCHANGED replicationVars
  BY <1>17 DEF replicationVars
<1> QED
  BY <1>1, <1>2, <1>3, <1>4, <1>5, <1>6, <1>7, <1>9, <1>10, <1>11, <1>12,
     <1>13, <1>14, <1>15, <1>16, <1>17, ReplicationAssumption
  DEF ReplicationNext, PutStep, Others

\* Unless a node is evicted during the call, send_put counts every node that answers
\* once, makes each a provider and never exceeds the replication factor.
THEOREM CountsCopies == ReplicationSpec => []CopiesCounted
<1>1. ReplicationInit => Counted
  BY FS_EmptySet, ReplicationAssumption
  DEF ReplicationInit, NoPut, NoGet, Counted, CopiesCounted, InFlight
<1>2. Counted => CopiesCounted
  BY DEF Counted, CopiesCounted
<1> QED BY <1>1, <1>2, NextCounts, AlwaysTyped, PTL DEF ReplicationSpec
=============================================================================
