---------------------------- MODULE Maintenance ----------------------------
(***************************************************************************)
(* The threads that read and change the routing table of a running node:    *)
(*                                                                          *)
(*   heartbeat   pings every node of the table and evicts the dead ones;    *)
(*   refresh     looks for new nodes for buckets unchanged for an hour;     *)
(*   join        the dht thread of the daemon asking the bootstrap nodes;   *)
(*   listener    on_ping and the Reticulum discovery handler add nodes;     *)
(*   lookups     IPC and pool threads in send_get_providers, which keep the *)
(*               raw pointers find_node returned across network waits.      *)
(*                                                                          *)
(* heartbeat and refresh hold cv_mutex during a whole round and release it  *)
(* only inside cv.wait_for.  A ping takes as long as it likes and may fail  *)
(* although the peer is up; a `silent' peer never answers again.  The clock *)
(* is abstracted: a wait may end, and a bucket may be an hour old, at any   *)
(* time.  A Node object lives as long as the shared_ptr of its bucket.      *)
(***************************************************************************)
EXTENDS RoutingTable

CONSTANTS
    Hardcoded,          \* the bootstrap nodes among Addresses
    Mortal,             \* the peers that may fall silent
    Lookups,            \* the threads running send_get_providers
    MaxClosest,         \* NEROSHOP_DHT_MAX_CLOSEST_NODES
    MaxHealthChecks,    \* NEROSHOP_DHT_MAX_HEALTH_CHECKS
    MaxReply,           \* bound: nodes in a find_node reply
    Nobody              \* no thread, no node

ASSUME MaintenanceAssumption ==
    /\ Hardcoded \subseteq Addresses
    /\ Mortal \subseteq Addresses
    /\ MaxClosest \in Nat
    /\ MaxHealthChecks \in Nat \ {0}
    /\ MaxReply \in Nat
    /\ Nobody \notin Addresses \cup {Self, "heartbeat", "refresh"}

VARIABLES
    table,      \* routing_table->buckets
    check,      \* check_counter of each node's object
    silent,     \* the peers that have stopped answering for good (environment)
    running,    \* Node::running
    cvMutex,    \* holder of cv_mutex
    hb,         \* the heartbeat thread: at, bucket, todo (the snapshot)
    rf,         \* the refresh thread: at, bucket, near (Node*), found
    joining,    \* join() has not returned
    look,       \* each lookup thread: at, near (Node*), node (the one asked)
    freed       \* each lookup thread: pointers whose object was destroyed

vars == <<table, check, silent, running, cvMutex, hb, rf, joining, look, freed>>
env == <<silent, running>>

Init ==
    /\ table = EmptyTable
    /\ check = [a \in Addresses |-> 0]
    /\ silent = {}
    /\ running = TRUE
    /\ cvMutex = Nobody
    /\ hb = [at |-> "top", bucket |-> 0, todo |-> <<>>]
    /\ rf = [at |-> "top", bucket |-> 0, near |-> {}, found |-> {}]
    /\ joining = TRUE
    /\ look = [s \in Lookups |-> [at |-> "idle", near |-> {}, node |-> Nobody]]
    /\ freed = [s \in Lookups |-> {}]

----------------------------------------------------------------------------
(* Shared operations.                                                       *)

\* routing_table->add_node(std::make_unique<Node>(a, port)): a new object, whose
\* counter is zero.
InsertNode(a) == table' = AddNode(table, a)

\* routing_table->remove_node(id): the object and its counter are destroyed, and
\* every raw pointer to it dangles.
Evict(a) ==
    /\ table' = RemoveNode(table, a)
    /\ check' = [check EXCEPT ![a] = 0]
    /\ freed' = [s \in Lookups |->
                    freed[s] \cup ({a} \cap (look[s].near \cup {look[s].node}))]

\* check_counter.fetch_add(1).  Values of MaxHealthChecks and above all mean
\* dead, so the counter saturates there.
Bump(a) == [check EXCEPT ![a] = IF @ < MaxHealthChecks THEN @ + 1 ELSE @]

\* What send_find_node may return: the nodes of the reply that has_node does not
\* find.  For this node's own id has_node reads past the end of the array, so
\* that it may answer either way.
FindNodeReply ==
    {reply \in SUBSET ({a \in Addresses : ~HasNode(table, a)} \cup {Self}) :
        Cardinality(reply) <= MaxReply}

----------------------------------------------------------------------------
(* heartbeat()                                                              *)

\* while (running) { lock(cv_mutex); cv.wait_for(...): the mutex is taken and
\* given back to the wait.
HeartbeatWait ==
    /\ hb.at = "top"
    /\ IF running
       THEN /\ cvMutex = Nobody
            /\ hb' = [hb EXCEPT !.at = "asleep"]
       ELSE hb' = [hb EXCEPT !.at = "gone"]
    /\ UNCHANGED <<table, check, cvMutex, rf, joining, look, freed, env>>

\* Variant: the mutex is not reacquired when the wait ends.
HeartbeatWakeUnlocked ==
    /\ hb.at = "asleep"
    /\ hb' = [hb EXCEPT !.at = IF running THEN "round" ELSE "gone"]
    /\ UNCHANGED <<table, check, cvMutex, rf, joining, look, freed, env>>

\* The wait ends (timeout, notify_all or spuriously) and reacquires the mutex.
HeartbeatWake ==
    /\ hb.at = "asleep"
    /\ cvMutex = Nobody
    /\ IF running
       THEN /\ cvMutex' = "heartbeat"
            /\ hb' = [hb EXCEPT !.at = "round"]
       ELSE /\ hb' = [hb EXCEPT !.at = "gone"]
            /\ UNCHANGED cvMutex
    /\ UNCHANGED <<table, check, rf, joining, look, freed, env>>

\* Variant: the end of a round does not release the mutex.
HeartbeatScanHolding ==
    /\ hb.at = "round"
    /\ hb.todo = <<>>
    /\ hb' = IF hb.bucket \in Buckets
             THEN [hb EXCEPT !.bucket = @ + 1, !.todo = table[hb.bucket]]
             ELSE [hb EXCEPT !.at = "top", !.bucket = 0]
    /\ UNCHANGED <<table, check, cvMutex, rf, joining, look, freed, env>>

\* The next bucket's weak_ptr snapshot, or the end of the round.
HeartbeatScan ==
    /\ hb.at = "round"
    /\ hb.todo = <<>>
    /\ IF hb.bucket \in Buckets
       THEN /\ hb' = [hb EXCEPT !.bucket = @ + 1, !.todo = table[hb.bucket]]
            /\ UNCHANGED cvMutex
       ELSE /\ hb' = [hb EXCEPT !.at = "top", !.bucket = 0]
            /\ cvMutex' = Nobody
    /\ UNCHANGED <<table, check, rf, joining, look, freed, env>>

\* One node of the snapshot: skipped when its object is gone or hardcoded,
\* otherwise pinged and its counter reset or increased.
HeartbeatPing ==
    /\ hb.at = "round"
    /\ hb.todo # <<>>
    /\ LET a == Head(hb.todo) IN
       IF a \notin Nodes(table) \/ a \in Hardcoded
       THEN /\ hb' = [hb EXCEPT !.todo = Tail(@)]
            /\ UNCHANGED check
       ELSE /\ \/ a \notin silent /\ check' = [check EXCEPT ![a] = 0]
               \/ check' = Bump(a)
            /\ hb' = [hb EXCEPT !.at = "verdict"]
    /\ UNCHANGED <<table, cvMutex, rf, joining, look, freed, env>>

\* Variant: the verdict is taken without removing the node.
HeartbeatSpare ==
    /\ hb.at = "verdict"
    /\ hb' = [hb EXCEPT !.at = "round", !.todo = Tail(@)]
    /\ UNCHANGED <<table, check, cvMutex, rf, joining, look, freed, env>>

\* if (node->is_dead()) remove_node: the counter is read again, lookups may
\* have increased it since.
HeartbeatVerdict ==
    /\ hb.at = "verdict"
    /\ hb' = [hb EXCEPT !.at = "round", !.todo = Tail(@)]
    /\ IF check[Head(hb.todo)] >= MaxHealthChecks
       THEN Evict(Head(hb.todo))
       ELSE UNCHANGED <<table, check, freed>>
    /\ UNCHANGED <<cvMutex, rf, joining, look, env>>

Heartbeat ==
    \/ HeartbeatWait \/ HeartbeatWake \/ HeartbeatScan \/ HeartbeatPing
    \/ HeartbeatVerdict

----------------------------------------------------------------------------
(* refresh()                                                                *)

RefreshWait ==
    /\ rf.at = "top"
    /\ IF running
       THEN /\ cvMutex = Nobody
            /\ rf' = [rf EXCEPT !.at = "asleep"]
       ELSE rf' = [rf EXCEPT !.at = "gone"]
    /\ UNCHANGED <<table, check, cvMutex, hb, joining, look, freed, env>>

RefreshWake ==
    /\ rf.at = "asleep"
    /\ cvMutex = Nobody
    /\ IF running
       THEN /\ cvMutex' = "refresh"
            /\ rf' = [rf EXCEPT !.at = "round"]
       ELSE /\ rf' = [rf EXCEPT !.at = "gone"]
            /\ UNCHANGED cvMutex
    /\ UNCHANGED <<table, check, hb, joining, look, freed, env>>

\* The next bucket: skipped when empty or fresh; otherwise find_node on a
\* random id of the bucket's range gives the neighbours to ask.
RefreshScan ==
    /\ rf.at = "round"
    /\ rf.near = {}
    /\ rf.found = {}
    /\ \/ /\ rf.bucket \notin Buckets
          /\ rf' = [rf EXCEPT !.at = "top", !.bucket = 0]
          /\ cvMutex' = Nobody
       \/ /\ rf.bucket \in Buckets
          /\ rf' = [rf EXCEPT !.bucket = @ + 1]
          /\ UNCHANGED cvMutex
       \/ /\ rf.bucket \in Buckets
          /\ table[rf.bucket] # <<>>
          /\ \E id \in RandomIds(rf.bucket) :
             \E S \in FindClosest(table, id, MaxClosest) :
                rf' = [rf EXCEPT !.bucket = @ + 1, !.near = S]
          /\ UNCHANGED cvMutex
    /\ UNCHANGED <<table, check, hb, joining, look, freed, env>>

\* send_find_node to one neighbour: no reply, or some nodes the peer knows, this
\* node perhaps among them.
RefreshAsk ==
    /\ rf.at = "round"
    /\ rf.found = {}
    /\ \E a \in rf.near :
       \/ rf' = [rf EXCEPT !.near = @ \ {a}]
       \/ /\ a \notin silent
          /\ \E reply \in FindNodeReply :
                rf' = [rf EXCEPT !.near = @ \ {a}, !.found = reply]
    /\ UNCHANGED <<table, check, cvMutex, hb, joining, look, freed, env>>

\* A received node is pinged and added if it answers; it may have been added by
\* another thread since the reply was filtered.
RefreshInsert ==
    /\ rf.at = "round"
    /\ \E a \in rf.found :
          /\ rf' = [rf EXCEPT !.found = @ \ {a}]
          /\ \/ a \notin silent /\ InsertNode(a)
             \/ UNCHANGED table
    /\ UNCHANGED <<check, cvMutex, hb, joining, look, freed, env>>

Refresh ==
    \/ RefreshWait \/ RefreshWake \/ RefreshScan \/ RefreshAsk
    \/ RefreshInsert

----------------------------------------------------------------------------
(* join(), on_ping(), the Reticulum discovery handler.  Each tests has_node,  *)
(* or filters a reply with it, some time before it calls add_node, which does *)
(* not trust the test: only the outcome of add_node matters.  Only a peer     *)
(* that is not silent answers a ping, sends one or announces itself.          *)

\* join adds a node a bootstrap node sent, after pinging it.
JoinInsert(a) ==
    /\ joining
    /\ a \notin silent
    /\ InsertNode(a)
    /\ UNCHANGED <<check, cvMutex, hb, rf, joining, look, freed, env>>

\* All bootstrap nodes have been asked.
JoinReturns ==
    /\ joining
    /\ joining' = FALSE
    /\ UNCHANGED <<table, check, cvMutex, hb, rf, look, freed, env>>

\* A ping query, from any node but a bootstrap node.
OnPing(a) ==
    /\ a \notin silent
    /\ a \notin Hardcoded
    /\ InsertNode(a)
    /\ UNCHANGED <<check, cvMutex, hb, rf, joining, look, freed, env>>

\* handle_reticulum_peer_discovered: added without a ping.
PeerDiscovered(a) ==
    /\ a \notin silent
    /\ InsertNode(a)
    /\ UNCHANGED <<check, cvMutex, hb, rf, joining, look, freed, env>>

----------------------------------------------------------------------------
(* send_get_providers()                                                     *)

\* After a step that leaves no node to ask the call returns.
Rest(near) == [at |-> IF near = {} THEN "idle" ELSE "loop", near |-> near,
               node |-> Nobody]

\* find_node: the weak pointers are locked one by one and raw pointers are
\* returned.
LookupStart(s) ==
    /\ look[s].at = "idle"
    /\ \E target \in Ids : \E S \in FindClosest(table, target, MaxClosest) :
          look' = [look EXCEPT ![s] = Rest(S)]
    /\ freed' = [freed EXCEPT ![s] = {}]
    /\ UNCHANGED <<table, check, cvMutex, hb, rf, joining, env>>

\* The next node of the shuffled vector: skipped unless Active, else asked.
\* get_status and get_address read through the pointer.
LookupAsk(s) ==
    /\ look[s].at = "loop"
    /\ \E a \in look[s].near, active \in BOOLEAN :
          /\ a \notin freed[s] => (active <=> check[a] = 0)
          /\ look' = [look EXCEPT ![s] =
                IF active
                THEN [at |-> "wait", near |-> @.near \ {a}, node |-> a]
                ELSE Rest(@.near \ {a})]
    /\ UNCHANGED <<table, check, cvMutex, hb, rf, joining, freed, env>>

\* The peer replied in time.
LookupReply(s) ==
    /\ look[s].at = "wait"
    /\ look[s].node \notin silent
    /\ look' = [look EXCEPT ![s] = Rest(@.near)]
    /\ UNCHANGED <<table, check, cvMutex, hb, rf, joining, freed, env>>

\* No reply: the counter of the node is increased through the pointer.  A write
\* to a destroyed object is not seen by the model.
LookupTimeout(s) ==
    /\ look[s].at = "wait"
    /\ look' = [look EXCEPT ![s] = Rest(@.near)]
    /\ check' = IF look[s].node \in freed[s] THEN check ELSE Bump(look[s].node)
    /\ UNCHANGED <<table, cvMutex, hb, rf, joining, freed, env>>

Lookup(s) ==
    LookupStart(s) \/ LookupAsk(s) \/ LookupReply(s) \/ LookupTimeout(s)

----------------------------------------------------------------------------
(* The environment.                                                         *)

PeerFallsSilent(a) ==
    /\ silent' = silent \cup {a}
    /\ UNCHANGED <<table, check, running, cvMutex, hb, rf, joining, look, freed>>

\* stop_threads(), from the signal handler: it takes no lock.
StopThreads ==
    /\ running' = FALSE
    /\ UNCHANGED <<table, check, silent, cvMutex, hb, rf, joining, look, freed>>

Environment == StopThreads \/ \E a \in Mortal : PeerFallsSilent(a)

Next ==
    \/ Heartbeat
    \/ Refresh
    \/ JoinReturns
    \/ \E a \in Addresses : JoinInsert(a) \/ OnPing(a) \/ PeerDiscovered(a)
    \/ \E s \in Lookups : Lookup(s)
    \/ Environment

\* The two threads are scheduled.  refresh sleeps for an hour with cv_mutex
\* released, so the heartbeat, due every five minutes, gets the mutex again and
\* again: strong fairness of its lock acquisitions.
Fairness ==
    /\ WF_vars(Heartbeat)
    /\ SF_vars(HeartbeatWait)
    /\ SF_vars(HeartbeatWake)
    /\ WF_vars(Refresh)

Spec == Init /\ [][Next]_vars /\ Fairness

----------------------------------------------------------------------------
(* Properties.                                                              *)

Sleeping == {"top", "asleep", "gone"}

\* The variables keep their types.
TypeOK ==
    /\ table \in Tables
    /\ check \in [Addresses -> 0..MaxHealthChecks]
    /\ silent \subseteq Addresses
    /\ running \in BOOLEAN
    /\ cvMutex \in {Nobody, "heartbeat", "refresh"}
    /\ hb \in [at : Sleeping \cup {"round", "verdict"},
               bucket : 0..Bits, todo : Seq(Addresses)]
    /\ rf \in [at : Sleeping \cup {"round"}, bucket : 0..Bits,
               near : SUBSET Addresses, found : SUBSET (Addresses \cup {Self})]
    /\ joining \in BOOLEAN
    /\ look \in [Lookups -> [at : {"idle", "loop", "wait"},
                             near : SUBSET Addresses,
                             node : Addresses \cup {Nobody}]]
    /\ freed \in [Lookups -> SUBSET Addresses]

\* Whatever the threads that insert and remove do, and although callers check
\* has_node long before they add, the table stays well formed.
TableWellFormed == WellFormed(table)

\* The raw Node pointers refresh keeps across its network waits are alive: the
\* only thread that destroys nodes, the heartbeat, is kept out of its round by
\* cv_mutex, which refresh holds although no condition needs it.
RefreshPointersLive == rf.near \subseteq Nodes(table)

\* A node that has fallen silent is evicted while the node runs, also when
\* refresh, join and incoming pings keep changing the table and holding the
\* mutex.  Bootstrap nodes are exempt.
SilentPeerEvicted ==
    \A a \in Mortal \ Hardcoded :
        (a \in silent /\ running) ~> (a \notin Nodes(table) \/ ~running)

\* After stop_threads both background threads leave their loops, so the joins
\* at the end of run() return, although notify_all is called without the mutex.
ThreadsStop == ~running ~> (hb.at = "gone" /\ rf.at = "gone")

\* "Safe: avoids dangling pointers" (find_node): a pointer find_node returned is
\* dereferenced only while its object lives.
NoDanglingDereference ==
    [][\A s \in Lookups :
          /\ LookupAsk(s) => (look[s].near \ look'[s].near) \cap freed[s] = {}
          /\ LookupTimeout(s) => look[s].node \notin freed[s]]_vars

\* "Get the nodes from the routing table that are closest to the target".
FindNodeReturnsClosest ==
    \A target \in Ids : \A S \in FindClosest(table, target, 1) :
        IsClosest(table, target, S)

\* "256 = matching node IDs which is invalid": has_node indexes the bucket array
\* only inside its bounds, for the nodes of a reply too.
BucketIndexValid == \A a \in rf.found : IndexInRange(a)
=============================================================================
