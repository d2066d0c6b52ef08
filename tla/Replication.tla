----------------------------- MODULE Replication -----------------------------
(***************************************************************************)
(* How a node spreads one key over its peers and finds it again: send_put,  *)
(* republish_once, send_get, send_get_providers and the list of providers   *)
(* (node.cpp), and the requests put, get and get_providers at the peers     *)
(* (protobuf.cpp).                                                          *)
(*                                                                          *)
(* send_put and send_get run on the IPC thread, one call at a time.  While  *)
(* a call waits for an answer the pool threads, the heartbeat and the peers *)
(* go on.  Routing-table nodes are told apart by the address of the Node    *)
(* OBJECT (std::find on pointers): a node evicted and added again is        *)
(* another object.                                                          *)
(*                                                                          *)
(* The value of the key is an object of one owner; its versions are numbers *)
(* ordered like their last_updated stamps, 0 stands for no value.  What the *)
(* node itself holds is the subject of NodeStore: here it may put any       *)
(* version, and look for the key at any time.  A reply reaches the call     *)
(* that asked or nobody (PendingRequests); an error reply carries no tid,   *)
(* so that to the caller a refusal is a timeout.                            *)
(***************************************************************************)
EXTENDS Integers, FiniteSets

CONSTANTS
    Peers,      \* the other nodes
    Versions,   \* the versions of the value
    Factor,     \* NEROSHOP_DHT_REPLICATION_FACTOR
    MaxClosest, \* NEROSHOP_DHT_MAX_CLOSEST_NODES
    Busy,       \* bound: the peers that may be evicted, announce themselves,
                \* get values from other nodes and lose them
    MaxLate,    \* bound: queries on their way that nobody waits for any more
    Nobody      \* no peer

ASSUME ReplicationAssumption ==
    /\ IsFiniteSet(Peers)
    /\ Versions \subseteq Nat \ {0}
    /\ Factor \in Nat \ {0}
    /\ MaxClosest \in Nat \ {0}
    /\ Busy \subseteq Peers
    /\ MaxLate \in Nat
    /\ Nobody \notin Peers

VARIABLES
    data,       \* what each peer holds, in its memory or its database
    table,      \* the nodes of the routing table
    providers,  \* providers[key]
    latePuts,   \* put queries that are still on their way after a timeout
    put,        \* the send_put under way: at, version, stage, todo, peer,
                \* flying (query not handled yet), answered, full (Factor nodes
                \* were found), near (nodes whose object is in closest_nodes),
                \* gone (destroyed objects still to be used), count; history:
                \* acked, lost (peers that lost the value), steady
    get         \* the send_get under way: at, todo, found; history: owed, the
                \* peers that held the value from the start and have answered
                \* every query

replicationVars == <<data, table, providers, latePuts, put, get>>

NoPut == [at |-> "idle", version |-> 0, stage |-> "first",
          todo |-> {}, peer |-> Nobody, flying |-> FALSE, answered |-> FALSE,
          full |-> FALSE, near |-> {}, gone |-> {}, count |-> 0,
          acked |-> {}, lost |-> {}, steady |-> TRUE]

NoGet == [at |-> "idle", todo |-> {}, found |-> {}, owed |-> {}]

ReplicationInit ==
    /\ data = [p \in Peers |-> 0]
    /\ table = {}
    /\ providers = {}
    /\ latePuts = {}
    /\ put = NoPut
    /\ get = NoGet

Free == put.at = "idle" /\ get.at = "idle"

\* Node::set and Node::put on versions of one object: an older one is accepted
\* and discarded.
Newest(v, w) == IF v > w THEN v ELSE w

\* find_node(key, n): the nodes the table ranks first for the key, any nodes as far
\* as this module can tell.
FindNode(n) ==
    {C \in SUBSET table :
        Cardinality(C) = IF n < Cardinality(table) THEN n ELSE Cardinality(table)}

----------------------------------------------------------------------------
(* send_put().                                                              *)

\* A put of the client, or republish_once after the client has gone, with a value
\* this node holds.
PutBegin(v) ==
    /\ Free
    /\ \E C \in FindNode(Factor) :
          put' = [NoPut EXCEPT !.at = "ask", !.version = v,
                               !.todo = C, !.near = C,
                               !.full = (Cardinality(C) = Factor)]
    /\ UNCHANGED <<data, table, providers, latePuts, get>>

\* The next node: the query leaves, or send_query throws.  A destroyed object
\* may still have its address, or one nobody listens on.
Ask ==
    /\ put.at = "ask"
    /\ \E p \in put.todo :
          \/ put' = [put EXCEPT !.at = "wait", !.todo = @ \ {p}, !.peer = p,
                                !.flying = TRUE, !.answered = FALSE]
          \/ put' = [put EXCEPT !.todo = @ \ {p}]
    /\ UNCHANGED <<data, table, providers, latePuts, get>>

\* The peer handles the query (node.store) and answers.
PeerPuts ==
    /\ put.at = "wait"
    /\ put.flying
    /\ data' = [data EXCEPT ![put.peer] = Newest(put.version, @)]
    /\ put' = [put EXCEPT !.flying = FALSE, !.answered = TRUE]
    /\ UNCHANGED <<table, providers, latePuts, get>>

\* Variant: the value is stored whatever the peer holds by then.
PeerPutsLateBlindly ==
    \E q \in latePuts :
        /\ data' = [data EXCEPT ![q.peer] = q.version]
        /\ latePuts' = latePuts \ {q}
        /\ UNCHANGED <<table, providers, put, get>>

\* A peer handles a query whose caller has given up.
PeerPutsLate ==
    \E q \in latePuts :
        /\ data' = [data EXCEPT ![q.peer] = Newest(q.version, @)]
        /\ latePuts' = latePuts \ {q}
        /\ UNCHANGED <<table, providers, put, get>>

\* A "response" arrives in time.  The address is read from the Node again for
\* add_provider: from a destroyed one it may be garbage.
PutAnswered ==
    /\ put.at = "wait"
    /\ put.answered
    /\ put' = [put EXCEPT !.at = "ask", !.peer = Nobody, !.answered = FALSE,
                          !.count = @ + 1, !.acked = @ \cup {put.peer}]
    /\ \/ providers' = providers \cup {put.peer}
       \/ put.peer \in put.gone /\ UNCHANGED providers
    /\ UNCHANGED <<data, table, latePuts, get>>

\* wait_for times out: the query, or the reply, is lost, refused, or late.
PutTimesOut ==
    /\ put.at = "wait"
    /\ put' = [put EXCEPT !.at = "ask", !.peer = Nobody, !.answered = FALSE,
                          !.flying = FALSE]
    /\ \/ UNCHANGED latePuts
       \/ /\ put.flying
          /\ latePuts' = latePuts \cup {[peer |-> put.peer, version |-> put.version]}
          /\ Cardinality(latePuts') <= MaxLate
    /\ UNCHANGED <<data, table, providers, get>>

\* Variant: only the nodes that failed are left out.
AllThatAnswer == table \ (put.near \ put.acked)

\* The first nodes have been asked and too few have answered, although there were
\* enough of them: the nodes of the table whose object is not among the closest.
Replacements == table \ put.near

Missing == Factor - put.count

\* Exactly the missing number of replacements is asked.
Replace ==
    /\ put.at = "ask" /\ put.todo = {}
    /\ put.stage = "first" /\ put.full /\ Missing > 0
    /\ \E S \in SUBSET Replacements :
          /\ Cardinality(S) = Missing
          /\ put' = [put EXCEPT !.stage = "second", !.todo = S, !.gone = {}]
    /\ UNCHANGED <<data, table, providers, latePuts, get>>

\* send_put returns: enough answers, too small a table, too few replacements to
\* try any, or the replacements have been asked.
PutReturns ==
    /\ put.at = "ask" /\ put.todo = {}
    /\ \/ put.stage = "second"
       \/ ~put.full
       \/ Missing <= 0
       \/ Cardinality(Replacements) < Missing
    /\ put' = [put EXCEPT !.at = "done"]
    /\ UNCHANGED <<data, table, providers, latePuts, get>>

PutEnds ==
    /\ put.at = "done"
    /\ put' = NoPut
    /\ UNCHANGED <<data, table, providers, latePuts, get>>

----------------------------------------------------------------------------
(* send_get() and send_get_providers().                                     *)

Holders == {p \in Peers : data[p] # 0}

\* get of the client for a key this node neither holds nor has cached: the
\* providers it knows are asked.
GetBegin ==
    /\ Free
    /\ get' = [NoGet EXCEPT !.at = "ours", !.todo = providers,
                            !.owed = Holders \cap (providers \cup table)]
    /\ UNCHANGED <<data, table, providers, latePuts, put>>

Fetching == get.at \in {"ours", "theirs"}

\* A provider that holds the value returns it, and so does send_get.
GetAnswered ==
    /\ Fetching
    /\ get.todo \cap Holders # {}
    /\ get' = NoGet
    /\ UNCHANGED <<data, table, providers, latePuts, put>>

\* Nothing comes from a provider in time, as from one that has no value: it is
\* removed.  Or the query could not be sent, or validate refuses the value.
GetUnanswered ==
    /\ Fetching
    /\ \E p \in get.todo :
          /\ get' = [get EXCEPT !.todo = @ \ {p}, !.owed = @ \ {p}]
          /\ \/ providers' = providers \ {p}
             \/ UNCHANGED providers
    /\ UNCHANGED <<data, table, latePuts, put>>

\* The known providers are exhausted: the nodes ranked first are asked for theirs.
\* Those ranked behind are not.
AskForProviders ==
    /\ get.at = "ours" /\ get.todo = {}
    /\ \E C \in FindNode(MaxClosest) :
          get' = [get EXCEPT !.at = "lookup", !.todo = C, !.owed = @ \cap C]
    /\ UNCHANGED <<data, table, providers, latePuts, put>>

\* What a peer may answer to get_providers: whatever it has been told, and itself
\* when it holds the key.
ProvidersReply(p) == {S \in SUBSET Peers : p \in Holders => p \in S}

\* Variant: each answer replaces those before it.
LookupOverwriting ==
    /\ get.at = "lookup"
    /\ \E p \in get.todo :
          \/ \E S \in ProvidersReply(p) :
                get' = [get EXCEPT !.todo = @ \ {p}, !.found = S]
          \/ get' = [get EXCEPT !.todo = @ \ {p}, !.owed = @ \ {p}]
    /\ UNCHANGED <<data, table, providers, latePuts, put>>

\* The next node: its providers are added to those received, or it is not Active
\* or does not answer.
LookupPeers ==
    /\ get.at = "lookup"
    /\ \E p \in get.todo :
          \/ \E S \in ProvidersReply(p) :
                get' = [get EXCEPT !.todo = @ \ {p}, !.found = @ \cup S]
          \/ get' = [get EXCEPT !.todo = @ \ {p}, !.owed = @ \ {p}]
    /\ UNCHANGED <<data, table, providers, latePuts, put>>

\* All nodes have been asked: the providers received are asked for the value.
FetchFromFound ==
    /\ get.at = "lookup" /\ get.todo = {}
    /\ get' = [get EXCEPT !.at = "theirs", !.todo = get.found]
    /\ UNCHANGED <<data, table, providers, latePuts, put>>

\* send_get is about to return the empty string.
GetFails ==
    /\ get.at = "theirs" /\ get.todo = {}
    /\ get' = [get EXCEPT !.at = "missing"]
    /\ UNCHANGED <<data, table, providers, latePuts, put>>

GetEnds ==
    /\ get.at = "missing"
    /\ get' = NoGet
    /\ UNCHANGED <<data, table, providers, latePuts, put>>

----------------------------------------------------------------------------
(* The other threads of this node, and the peers.                           *)

\* A node is added to the table.  Its object may be allocated where one of
\* closest_nodes has been destroyed, and then passes for it.
NodeAdded(p) ==
    /\ p \notin table
    /\ table' = table \cup {p}
    /\ \/ UNCHANGED put
       \/ ~put.steady /\ put' = [put EXCEPT !.near = @ \cup {p}]
    /\ UNCHANGED <<data, providers, latePuts, get>>

\* heartbeat evicts a node: its object is destroyed.
NodeEvicted(p) ==
    /\ p \in table
    /\ table' = table \ {p}
    /\ put' = IF put.at = "idle" THEN put
              ELSE [put EXCEPT !.near = @ \ {p}, !.steady = FALSE,
                               !.gone = @ \cup ({p} \cap (put.todo \cup {put.peer}))]
    /\ get' = [get EXCEPT !.owed = @ \ {p}]
    /\ UNCHANGED <<data, providers, latePuts>>

\* on_map: any node whose id matches its address becomes a provider.
Announced(p) ==
    /\ providers' = providers \cup {p}
    /\ UNCHANGED <<data, table, latePuts, put, get>>

\* Another node puts the value at a peer.
StoredAtPeer(p, v) ==
    /\ data' = [data EXCEPT ![p] = Newest(v, @)]
    /\ UNCHANGED <<table, providers, latePuts, put, get>>

Answerer == IF put.answered THEN {put.peer} ELSE {}

\* A peer loses the value: restart, expiry, removal by its client.
LostByPeer(p) ==
    /\ data' = [data EXCEPT ![p] = 0]
    /\ put' = IF put.at = "idle" THEN put ELSE [put EXCEPT !.lost =
                         @ \cup ({p} \cap (put.acked \cup Answerer))]
    /\ get' = [get EXCEPT !.owed = @ \ {p}]
    /\ UNCHANGED <<table, providers, latePuts>>

\* The daemon is restarted: calls, table and providers are gone.
Restart ==
    /\ table' = {}
    /\ providers' = {}
    /\ put' = NoPut
    /\ get' = NoGet
    /\ UNCHANGED <<data, latePuts>>

PutStep ==
    \/ \E v \in Versions : PutBegin(v)
    \/ Ask \/ PeerPuts \/ PutAnswered \/ PutTimesOut
    \/ Replace \/ PutReturns \/ PutEnds

GetStep ==
    \/ GetBegin \/ GetAnswered \/ GetUnanswered \/ AskForProviders \/ LookupPeers
    \/ FetchFromFound \/ GetFails \/ GetEnds

Others ==
    \/ PeerPutsLate
    \/ \E p \in Peers : NodeAdded(p)
    \/ \E p \in Busy : NodeEvicted(p) \/ Announced(p) \/ LostByPeer(p)
    \/ \E p \in Busy, v \in Versions : StoredAtPeer(p, v)
    \/ Restart

ReplicationNext == PutStep \/ GetStep \/ Others

ReplicationSpec == ReplicationInit /\ [][ReplicationNext]_replicationVars

----------------------------------------------------------------------------
(* Properties.                                                              *)

\* The variables keep their types.
ReplicationTypeOK ==
    /\ data \in [Peers -> Versions \cup {0}]
    /\ table \subseteq Peers
    /\ providers \subseteq Peers
    /\ latePuts \subseteq [peer : Peers, version : Versions]
    /\ put \in [at : {"idle", "ask", "wait", "done"},
                version : Versions \cup {0}, stage : {"first", "second"},
                todo : SUBSET Peers, peer : Peers \cup {Nobody},
                flying : BOOLEAN, answered : BOOLEAN, full : BOOLEAN,
                near : SUBSET Peers, gone : SUBSET Peers, count : Nat,
                acked : SUBSET Peers, lost : SUBSET Peers, steady : BOOLEAN]
    /\ get \in [at : {"idle", "ours", "lookup", "theirs", "missing"},
                todo : SUBSET Peers, found : SUBSET Peers, owed : SUBSET Peers]

\* A peer that has answered a put holds that version or a newer one until it
\* loses the value, although older queries still arrive after newer ones.
AnsweredPeersHold ==
    \A p \in put.acked \ put.lost : data[p] >= put.version

\* As long as no node is evicted during the call, the count send_put returns, from
\* which the client learns how many copies there are, is the number of different
\* nodes that answered, never more than the replication factor, and each of them
\* has become a provider.
CopiesCounted ==
    put.steady => /\ put.count = Cardinality(put.acked)
                  /\ put.count <= Factor
                  /\ put.acked \subseteq providers

\* send_get returns nothing only if every peer that held the value all along, and
\* that was a known provider or in the table, has left the table, is ranked too
\* low, is not Active, or has failed to answer a query with a valid value.
NotFoundMeansUnheard == get.at = "missing" => get.owed = {}

\* "returns number of nodes that responded to PUT" (republish_once): the number is
\* one of nodes, whatever happens to the table during the call.
CountIsOfNodes == put.at = "done" => put.count = Cardinality(put.acked)
=============================================================================
