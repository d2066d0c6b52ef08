------------------------------ MODULE Datagrams ------------------------------
(***************************************************************************)
(* The main loop of a node on the two networks without connections:         *)
(* Node::run_i2p, which reads datagrams from the SAM bridge and leaves them  *)
(* to a pool of threads, and Node::run_reticulum, whose one thread handles   *)
(* the packets itself (handle_reticulum_message).  Both answer a query       *)
(* before its callbacks, on_ping and on_map, run.                            *)
(*                                                                          *)
(* The waits inside send_map_v2 are those of PendingRequests, of which only  *)
(* the ids in pending_requests and the outcome are kept here.                *)
(***************************************************************************)
EXTENDS Integers, Sequences, FiniteSets, SequencesExt

CONSTANTS
    Nodes,       \* the other nodes
    Workers,     \* the threads of the pool
    CachedKeys,  \* how many keys send_map_v2 finds in the cache
    MaxQueries,  \* bound on the queries that arrive
    MaxMaps,     \* bound on the map queries this node sends
    MaxWaiting,  \* bound on the messages that wait
    NoNode

ASSUME DatagramAssumption ==
    /\ Workers # {}
    /\ CachedKeys \in Nat
    /\ MaxQueries \in Nat
    /\ MaxMaps \in Nat
    /\ MaxWaiting \in Nat
    /\ NoNode \notin Nodes

VARIABLES
    medium,     \* Node::network_type_
    up,         \* Node::running
    ended,      \* "no", or the process "died"
    loop,       \* where the thread of Node::run is
    socket,     \* the datagrams or packets that wait to be read
    queue,      \* ThreadPool::tasks
    busy,       \* what each thread that handles messages is at
    promises,   \* pending_requests
    table,      \* routing_table
    providers,  \* who has said that it stores a key
    owes,       \* the map queries sent to the other nodes, who may answer at any time
    arrived,    \* how many queries have arrived
    taken,      \* ghost: the queries that were read from the socket
    served      \* ghost: those to which a response was sent

handlerVars == <<busy, promises, table, providers, owes, served>>
datagramVars == <<medium, up, ended, loop, socket, queue, handlerVars, arrived, taken>>

\* A query is addressed when it has the argument "address", the sender's.
Queries == [kind : {"ping", "map"}, from : Nodes, no : 1..MaxQueries, addressed : BOOLEAN]
Responses == [kind : {"response"}, from : Nodes, no : 1..MaxMaps]
Junk == [kind |-> "junk", from |-> NoNode, no |-> 0]
Messages == Queries \cup Responses \cup {Junk}

Resting == [at |-> "rest", msg |-> Junk, left |-> 0, id |-> 0]

\* run_reticulum has no pool: its thread is the one that handles.
Handlers == IF medium = "i2p" THEN Workers ELSE {CHOOSE w \in Workers : TRUE}

DatagramInit ==
    /\ medium \in {"i2p", "reticulum"}
    /\ up = TRUE
    /\ ended = "no"
    /\ loop = "running"
    /\ socket = <<>>
    /\ queue = <<>>
    /\ busy = [w \in Workers |-> Resting]
    /\ promises = {}
    /\ table = {}
    /\ providers = {}
    /\ owes = {}
    /\ arrived = 0
    /\ taken = {}
    /\ served = {}

----------------------------------------------------------------------------
(* The loops.                                                               *)

\* select and recvfrom; a task for the pool.
ReceiveDatagram ==
    /\ medium = "i2p"
    /\ loop = "running"
    /\ socket # <<>>
    /\ socket' = Tail(socket)
    /\ queue' = Append(queue, Head(socket))
    /\ taken' = taken \cup ({Head(socket)} \cap Queries)
    /\ UNCHANGED <<medium, up, ended, loop, handlerVars, arrived>>

\* recvfrom fails otherwise than for want of data: a string of -1 bytes.
ReceiveFails ==
    /\ medium = "i2p"
    /\ loop = "running"
    /\ ended' = "died"
    /\ loop' = "stopped"
    /\ up' = FALSE
    /\ queue' = <<>>
    /\ busy' = [w \in Workers |-> Resting]
    /\ UNCHANGED <<medium, socket, promises, table, providers, owes, served, arrived, taken>>

\* The loop ends, or select fails; the destructor of the pool lets the threads
\* finish their tasks.
LeaveLoop ==
    /\ loop = "running"
    /\ up => medium = "i2p"
    /\ medium = "reticulum" => \A w \in Handlers : busy[w].at = "rest"
    /\ loop' = "closing"
    /\ UNCHANGED <<medium, up, ended, socket, queue, handlerVars, arrived, taken>>

\* Variant: the tasks nobody has taken are dropped.
JoinWorkersDropping ==
    /\ loop = "closing"
    /\ \A w \in Workers : busy[w].at = "rest"
    /\ queue' = <<>>
    /\ loop' = "stopped"
    /\ UNCHANGED <<medium, up, ended, socket, handlerVars, arrived, taken>>

JoinWorkers ==
    /\ loop = "closing"
    /\ queue = <<>>
    /\ \A w \in Workers : busy[w].at = "rest"
    /\ loop' = "stopped"
    /\ UNCHANGED <<medium, up, ended, socket, queue, handlerVars, arrived, taken>>

\* handle_reticulum_peer_discovered: an announce is heard.
PeerDiscovered ==
    /\ medium = "reticulum"
    /\ loop = "running"
    /\ \A w \in Handlers : busy[w].at = "rest"
    /\ \E n \in Nodes : table' = table \cup {n}
    /\ UNCHANGED <<medium, up, ended, loop, socket, queue, busy, promises, providers, owes, served,
                   arrived, taken>>

----------------------------------------------------------------------------
(* A message is handled.                                                    *)

\* A packet of Reticulum does not tell who sent it: a query that does not either is
\* dropped.  A datagram of I2P comes with its sender.
Answerable(m) == medium = "i2p" \/ m.addressed

\* A response fulfils the promise that waits for it.
Begin(w, m) ==
    /\ busy' = [busy EXCEPT ![w] = IF m \in Queries /\ Answerable(m)
                                   THEN [Resting EXCEPT !.at = "answer", !.msg = m]
                                   ELSE Resting]
    /\ promises' = IF m \in Responses THEN promises \ {m.no} ELSE promises
    /\ UNCHANGED <<table, providers, owes, served>>

\* A thread of the pool takes a task.
TakeTask(w) ==
    /\ medium = "i2p"
    /\ busy[w].at = "rest"
    /\ queue # <<>>
    /\ queue' = Tail(queue)
    /\ Begin(w, Head(queue))
    /\ UNCHANGED <<medium, up, ended, loop, socket, arrived, taken>>

\* reticulum_client->loop hands a packet to handle_reticulum_message.
TakePacket(w) ==
    /\ medium = "reticulum"
    /\ w \in Handlers
    /\ loop = "running"
    /\ busy[w].at = "rest"
    /\ socket # <<>>
    /\ socket' = Tail(socket)
    /\ Begin(w, Head(socket))
    /\ taken' = taken \cup ({Head(socket)} \cap Queries)
    /\ UNCHANGED <<medium, up, ended, loop, queue, arrived>>

\* protobuf_process, and the response to where the query came from.
Answer(w) ==
    /\ busy[w].at = "answer"
    /\ served' = served \cup {busy[w].msg}
    /\ busy' = [busy EXCEPT ![w].at = "callbacks"]
    /\ UNCHANGED <<medium, up, ended, loop, socket, queue, promises, table, providers, owes, arrived, taken>>

\* on_ping and on_map compare the id in the query with that of the sender's
\* address, which neither of them knows on Reticulum.
Callbacks(w) ==
    LET m == busy[w].msg
        Newcomer == medium = "i2p" /\ m.kind = "ping" /\ m.from \notin table
    IN /\ busy[w].at = "callbacks"
       /\ table' = IF Newcomer THEN table \cup {m.from} ELSE table
       /\ providers' = IF medium = "i2p" /\ m.kind = "map" THEN providers \cup {m.from} ELSE providers
       /\ busy' = [busy EXCEPT ![w] = IF Newcomer THEN [@ EXCEPT !.at = "mapping", !.left = CachedKeys]
                                      ELSE Resting]
       /\ UNCHANGED <<medium, up, ended, loop, socket, queue, promises, owes, served, arrived, taken>>

(* send_map_v2: a query for each key, and up to five seconds for the reply.   *)

\* send_query throws, or the query is on its way.
SendMap(w) ==
    /\ busy[w].at = "mapping"
    /\ IF busy[w].left > 0 /\ Cardinality(owes) < MaxMaps
       THEN LET id == Cardinality(owes) + 1
            IN \/ /\ owes' = owes \cup {[from |-> busy[w].msg.from, no |-> id]}
                  /\ promises' = promises \cup {id}
                  /\ busy' = [busy EXCEPT ![w].at = "waiting", ![w].left = @ - 1, ![w].id = id]
               \/ busy' = [busy EXCEPT ![w].left = @ - 1] /\ UNCHANGED <<owes, promises>>
       ELSE busy' = [busy EXCEPT ![w] = Resting] /\ UNCHANGED <<owes, promises>>
    /\ UNCHANGED <<medium, up, ended, loop, socket, queue, table, providers, served, arrived, taken>>

\* The reply is there, or the time is up and the promise is erased.
WaitOver(w) ==
    /\ busy[w].at = "waiting"
    /\ promises' = promises \ {busy[w].id}
    /\ busy' = [busy EXCEPT ![w].at = "mapping", ![w].id = 0]
    /\ UNCHANGED <<medium, up, ended, loop, socket, queue, table, providers, owes, served, arrived, taken>>

----------------------------------------------------------------------------
(* SIGINT, and the other nodes, external: what they send may be lost, repeated  *)
(* and overtaken.                                                            *)

Interrupt ==
    /\ up
    /\ up' = FALSE
    /\ UNCHANGED <<medium, ended, loop, socket, queue, handlerVars, arrived, taken>>

Room == Len(socket) + Len(queue) < MaxWaiting

\* No query of this program is addressed; on Reticulum those of other programs may be.
QueryArrives ==
    /\ Room
    /\ arrived < MaxQueries
    /\ arrived' = arrived + 1
    /\ \E m \in Queries :
          /\ m.no = arrived + 1
          /\ m.addressed => medium = "reticulum"
          /\ socket' = Append(socket, m)
    /\ UNCHANGED <<medium, up, ended, loop, queue, handlerVars, taken>>

ResponseArrives ==
    /\ Room
    /\ \E o \in owes : socket' = Append(socket, [kind |-> "response", from |-> o.from, no |-> o.no])
    /\ UNCHANGED <<medium, up, ended, loop, queue, handlerVars, arrived, taken>>

JunkArrives ==
    /\ Room
    /\ socket' = Append(socket, Junk)
    /\ UNCHANGED <<medium, up, ended, loop, queue, handlerVars, arrived, taken>>

----------------------------------------------------------------------------
Handle(w) ==
    TakeTask(w) \/ TakePacket(w) \/ Answer(w) \/ Callbacks(w) \/ SendMap(w) \/ WaitOver(w)

RunLoop == ReceiveDatagram \/ LeaveLoop \/ JoinWorkers

DatagramNext ==
    \/ RunLoop \/ ReceiveFails \/ PeerDiscovered \/ Interrupt
    \/ \E w \in Workers : Handle(w)
    \/ QueryArrives \/ ResponseArrives \/ JunkArrives

\* Every thread runs on, and no wait is without a limit.
DatagramFairness ==
    /\ WF_datagramVars(RunLoop)
    /\ \A w \in Workers : WF_datagramVars(Handle(w))

DatagramSpec == DatagramInit /\ [][DatagramNext]_datagramVars /\ DatagramFairness

----------------------------------------------------------------------------
(* Properties.                                                              *)

\* The shape of the state (run_i2p, ThreadPool and pending_requests).
DatagramTypeOK ==
    /\ medium \in {"i2p", "reticulum"}
    /\ up \in BOOLEAN
    /\ ended \in {"no", "died"}
    /\ loop \in {"running", "closing", "stopped"}
    /\ socket \in Seq(Messages)
    /\ queue \in Seq(Messages)
    /\ busy \in [Workers -> [at : {"rest", "answer", "callbacks", "mapping", "waiting"},
                             msg : Messages, left : 0..CachedKeys, id : 0..MaxMaps]]
    /\ promises \subseteq 1..MaxMaps
    /\ table \subseteq Nodes
    /\ providers \subseteq Nodes
    /\ owes \subseteq [from : Nodes, no : 1..MaxMaps]
    /\ arrived \in 0..MaxQueries
    /\ taken \subseteq Queries
    /\ served \subseteq taken

Served(q) ==
    Answerable(q) => /\ q \in served
                     /\ medium = "i2p" /\ q.kind = "map" => q.from \in providers

\* Every query that was read, and that says on Reticulum who sent it, is answered and, on
\* I2P, has its effect on the providers, although threads wait in on_ping and SIGINT may
\* come at any time (run_i2p and handle_reticulum_message answer before the callbacks).
QueriesServed ==
    (\E q \in taken : ~Served(q)) ~> (\A q \in taken : Served(q)) \/ ended = "died"
=============================================================================
