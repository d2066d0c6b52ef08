------------------------------ MODULE TorPeers ------------------------------
(***************************************************************************)
(* The node's Tor connections (Node::run_tor, send_query,                   *)
(* handle_tor_message, classes Socks5Client and ThreadPool): the listener   *)
(* polls the sockets of tor_peers and hands complete messages to the pool,  *)
(* whose workers answer queries over connections of their own.              *)
(*                                                                          *)
(* Every node answers on a connection it opens itself: data arrives only on *)
(* the accepted ones, which tor_peers calls "incoming_<descriptor>".        *)
(*                                                                          *)
(* tor_peers_mutex is held during each use of tor_peers, by the listener    *)
(* during the whole loop that reads.  Sockets are opened and connected, and *)
(* select runs, without it.  A socket that someone closes without owning it *)
(* ends the model: the program goes on with descriptors that mean something *)
(* else than it believes.                                                   *)
(***************************************************************************)
EXTENDS Integers, Sequences, FiniteSets

CONSTANTS
    Peers,      \* the other nodes
    Workers,    \* the threads of the pool; those that send queries unasked are left out
    Fds,        \* the descriptors that sockets may get
    Keys,       \* how many keys the table hash_table has
    MaxPings,   \* bound on the pings received
    MaxAsked,   \* bound on the requests sent
    MaxUnread,  \* bound on the halves of messages that wait in a socket
    None

Names == Peers \cup Fds         \* the keys of tor_peers; f is "incoming_<f>"
Tids == 1..MaxAsked

Message == [kind : {"ping", "reply"}, from : Peers, tid : Tids \cup {None}]

ASSUME PeersAssumption ==
    /\ Fds \subseteq Nat
    /\ Peers \cap Fds = {}
    /\ Workers \cap Names = {}
    /\ None \notin Names \cup Workers \cup Nat \cup Message
    /\ Keys \in Nat
    /\ MaxPings \in Nat
    /\ MaxAsked \in Nat
    /\ MaxUnread \in Nat

VARIABLES
    running,    \* Node::running
    fate,       \* "up"; "died" of an exception or SIGPIPE; "wrecked"
    listener,   \* run_tor: at, the descriptors it polls or found ready, and
                \* the names still to read and those to remove
    peers,      \* tor_peers: the descriptor of each name
    buffers,    \* client_buffers
    owner,      \* who opened each descriptor: a name, a thread, or None
    link,       \* the socket behind it
    tasks,      \* ThreadPool::tasks
    threads,    \* what each thread is at
    pending,    \* pending_requests
    asked,      \* how many tids have been drawn
    owed,       \* the requests each peer has received and not answered
    pings,
    yanked      \* ghost: a polled socket was closed before select had run

poolVars == <<tasks, threads>>
socketVars == <<peers, buffers, owner, link>>
requestVars == <<pending, asked, owed>>
vars == <<running, fate, listener, socketVars, poolVars, requestVars, pings, yanked>>

NoLink == [peer |-> None, unread |-> <<>>, half |-> None, shut |-> FALSE]
Idle == [at |-> "idle", job |-> "none", to |-> None, tid |-> None, left |-> 0, fd |-> None]
Start == [at |-> "poll", set |-> {}, todo |-> {}, dead |-> {}]
Garbage == [kind |-> "garbage", from |-> None, tid |-> None]

Init ==
    /\ running = TRUE
    /\ fate = "up"
    /\ listener = Start
    /\ peers = [n \in Names |-> None]
    /\ buffers = [n \in Names |-> <<>>]
    /\ owner = [f \in Fds |-> None]
    /\ link = [f \in Fds |-> NoLink]
    /\ tasks = <<>>
    /\ threads = [t \in Workers |-> Idle]
    /\ pending = {}
    /\ asked = 0
    /\ owed = [p \in Peers |-> {}]
    /\ pings = 0
    /\ yanked = FALSE

----------------------------------------------------------------------------
(* Sockets.                                                                 *)

Free == {f \in Fds : owner[f] = None}

\* A new socket gets the lowest descriptor.
Lowest == {f \in Free : \A g \in Free : f <= g}

\* Descriptors S are closed by the holders they had: those already closed fail
\* without effect.
Close(S) ==
    /\ owner' = [f \in Fds |-> IF f \in S THEN None ELSE owner[f]]
    /\ link' = [f \in Fds |-> IF f \in S THEN NoLink ELSE link[f]]

\* A thread closes f, which the listener may be about to poll.
Yank(f) == yanked' = (yanked \/ (listener.at = "select" /\ f \in listener.set))

\* tor_peers_mutex is free.
Unlocked == listener.at # "reading"

\* The peer has gone: a send may fail, or raise SIGPIPE, which nobody handles.
Broken(f) == link[f].shut

\* A send that succeeds: the peer gets the request, unless it has gone.
Reach(f, tid) ==
    owed' = IF tid = None \/ Broken(f) THEN owed
            ELSE [owed EXCEPT ![link[f].peer] = @ \cup {tid}]

Becomes(t, thread) == threads' = [threads EXCEPT ![t] = thread]

Goto(t, at) == Becomes(t, [threads[t] EXCEPT !.at = at])

\* The process ends, and its sockets with it.
Die ==
    /\ fate' = "died"
    /\ running' = FALSE
    /\ listener' = Start
    /\ peers' = [n \in Names |-> None]
    /\ buffers' = [n \in Names |-> <<>>]
    /\ owner' = [f \in Fds |-> None]
    /\ link' = [f \in Fds |-> NoLink]
    /\ tasks' = <<>>
    /\ threads' = [t \in Workers |-> Idle]
    /\ pending' = {}
    /\ asked' = 0
    /\ owed' = [p \in Peers |-> {}]
    /\ pings' = 0
    /\ yanked' = FALSE

----------------------------------------------------------------------------
(* send_query, and what its callers do next.                                *)

\* It returns: the sender waits for the reply; a worker that has answered runs
\* on_ping, which sends the node's keys to a node that was not in the table.
Returns(t) ==
    LET me == threads[t]
    IN IF me.job = "ask"
       THEN Becomes(t, [me EXCEPT !.at = "wait", !.fd = None])
       ELSE \E next \in {Idle, [Idle EXCEPT !.at = "ask", !.job = "ask", !.to = me.to, !.left = Keys]} :
               Becomes(t, next)

\* It throws: who asks forgets the request.
Throws(t) ==
    /\ threads[t].job = "ask"
    /\ Becomes(t, [threads[t] EXCEPT !.at = "ask", !.fd = None, !.tid = None])
    /\ pending' = pending \ {threads[t].tid}

\* A connection to the destination is known.
Reuse(t) ==
    LET p == threads[t].to
        f == peers[p]
    IN /\ threads[t].at = "send"
       /\ Unlocked
       /\ f # None
       /\ \/ Reach(f, threads[t].tid) /\ Returns(t) /\ UNCHANGED <<socketVars, yanked>>
          \/ /\ peers' = [peers EXCEPT ![p] = None]
             /\ Close({f})
             /\ Yank(f)
             /\ Goto(t, "open")
             /\ UNCHANGED <<buffers, owed>>
       /\ UNCHANGED <<running, fate, listener, tasks, pending, asked, pings>>

NoConnection(t) ==
    /\ threads[t].at = "send"
    /\ Unlocked
    /\ peers[threads[t].to] = None
    /\ Goto(t, "open")
    /\ UNCHANGED <<running, fate, listener, socketVars, tasks, requestVars, pings, yanked>>

\* Socks5Client::connect gets a socket, or gives up.
Open(t) ==
    /\ threads[t].at = "open"
    /\ \/ \E f \in Lowest :
             /\ owner' = [owner EXCEPT ![f] = t]
             /\ link' = [link EXCEPT ![f] = [NoLink EXCEPT !.peer = threads[t].to]]
             /\ Becomes(t, [threads[t] EXCEPT !.at = "connect", !.fd = f])
       \/ Free = {} /\ Returns(t) /\ UNCHANGED <<owner, link>>
    /\ UNCHANGED <<running, fate, listener, peers, buffers, tasks, requestVars, pings, yanked>>

\* It connects, or throws, which send_query catches; then the message is sent
\* (Step 2).  Without the connection the socket is closed.
Connect(t) ==
    LET f == threads[t].fd
    IN /\ threads[t].at = "connect"
       /\ \/ Reach(f, threads[t].tid) /\ Goto(t, "store") /\ UNCHANGED <<owner, link, pending>>
          \/ Close({f}) /\ Returns(t) /\ UNCHANGED <<owed, pending>>
          \/ Close({f}) /\ Throws(t) /\ UNCHANGED owed
       /\ UNCHANGED <<running, fate, listener, peers, buffers, tasks, asked, pings, yanked>>

\* A send kills the process: with SIGPIPE, or because it throws while a worker
\* answers, which nobody catches.
SendKills(t) ==
    LET f == peers[threads[t].to]
    IN /\ \/ threads[t].at = "send" /\ Unlocked /\ f # None /\ Broken(f)
          \/ threads[t].at = "connect" /\ (Broken(threads[t].fd) \/ threads[t].job = "answer")
       /\ Die

\* Faulty: the connection made first stays, and the second one is forgotten.
StoreIfAbsent(t) ==
    LET p == threads[t].to
        f == threads[t].fd
    IN /\ threads[t].at = "store"
       /\ Unlocked
       /\ peers' = [peers EXCEPT ![p] = IF @ = None THEN f ELSE @]
       /\ owner' = [owner EXCEPT ![f] = p]
       /\ Returns(t)
       /\ UNCHANGED <<running, fate, listener, buffers, link, tasks, requestVars, pings, yanked>>

\* Step 3: a connection another thread has stored meanwhile is closed.
Store(t) ==
    LET p == threads[t].to
        f == threads[t].fd
        old == {peers[p]} \ {None}
    IN /\ threads[t].at = "store"
       /\ Unlocked
       /\ peers' = [peers EXCEPT ![p] = f]
       /\ owner' = [d \in Fds |-> IF d = f THEN p ELSE IF d \in old THEN None ELSE owner[d]]
       /\ link' = [d \in Fds |-> IF d \in old THEN NoLink ELSE link[d]]
       /\ IF old = {} THEN UNCHANGED yanked ELSE Yank(peers[p])
       /\ Returns(t)
       /\ UNCHANGED <<running, fate, listener, buffers, tasks, requestVars, pings>>

----------------------------------------------------------------------------
(* The threads.                                                             *)

\* send_map_v2 asks once for each key.
Ask(t) ==
    /\ threads[t].at = "ask"
    /\ IF threads[t].left > 0 /\ asked < MaxAsked
       THEN /\ asked' = asked + 1
            /\ pending' = pending \cup {asked + 1}
            /\ Becomes(t, [threads[t] EXCEPT !.at = "send", !.tid = asked + 1, !.left = @ - 1])
       ELSE /\ Becomes(t, Idle)
            /\ UNCHANGED <<pending, asked>>
    /\ UNCHANGED <<running, fate, listener, socketVars, tasks, owed, pings, yanked>>

\* Faulty: wait_for has no limit.
WaitForReply(t) ==
    /\ threads[t].at = "wait"
    /\ threads[t].tid \notin pending
    /\ Becomes(t, [threads[t] EXCEPT !.at = "ask", !.tid = None])
    /\ UNCHANGED <<running, fate, listener, socketVars, tasks, requestVars, pings, yanked>>

\* The reply has come, or the time is up.
WaitEnds(t) ==
    /\ threads[t].at = "wait"
    /\ pending' = pending \ {threads[t].tid}
    /\ Becomes(t, [threads[t] EXCEPT !.at = "ask", !.tid = None])
    /\ UNCHANGED <<running, fate, listener, socketVars, tasks, asked, owed, pings, yanked>>

\* A worker takes a task (handle_tor_message).
Take(t) ==
    /\ threads[t].at = "idle"
    /\ tasks # <<>>
    /\ tasks' = Tail(tasks)
    /\ LET m == Head(tasks)
       IN /\ IF m.kind = "ping"
             THEN Becomes(t, [Idle EXCEPT !.at = "send", !.job = "answer", !.to = m.from])
             ELSE UNCHANGED threads
          /\ pending' = pending \ {m.tid}
    /\ UNCHANGED <<running, fate, listener, socketVars, asked, owed, pings, yanked>>

----------------------------------------------------------------------------
(* The listener (run_tor).                                                  *)

Polled == {peers[n] : n \in Names} \ {None}

Poll ==
    /\ listener.at = "poll"
    /\ listener' = IF running THEN [listener EXCEPT !.at = "select", !.set = Polled]
                   ELSE [listener EXCEPT !.at = "closing"]
    /\ yanked' = FALSE
    /\ UNCHANGED <<running, fate, socketVars, poolVars, requestVars, pings>>

Readable(f) == link[f].unread # <<>> \/ link[f].shut

\* select fails when a socket is closed; otherwise it finds those that can be
\* read, and perhaps a new connection.
Select ==
    /\ listener.at = "select"
    /\ LET ready == {f \in listener.set : Readable(f)}
       IN IF \E f \in listener.set : owner[f] = None
          THEN listener' = [listener EXCEPT !.at = "closing", !.set = {}]
          ELSE \/ listener' = [listener EXCEPT !.at = "accept", !.set = ready]
               \/ listener' = [listener EXCEPT !.at = IF ready = {} THEN "poll" ELSE "read", !.set = ready]
    /\ UNCHANGED <<running, fate, socketVars, poolVars, requestVars, pings, yanked>>

Accept ==
    /\ listener.at = "accept"
    /\ \/ \E f \in Lowest, p \in Peers :
             /\ peers' = [peers EXCEPT ![f] = f]
             /\ buffers' = [buffers EXCEPT ![f] = <<>>]
             /\ owner' = [owner EXCEPT ![f] = f]
             /\ link' = [link EXCEPT ![f] = [NoLink EXCEPT !.peer = p]]
             /\ listener' = [listener EXCEPT !.at = "read"]
       \/ Free = {} /\ listener' = [listener EXCEPT !.at = "poll", !.set = {}] /\ UNCHANGED socketVars
    /\ UNCHANGED <<running, fate, poolVars, requestVars, pings, yanked>>

\* The mutex is taken.
Lock ==
    /\ listener.at = "read"
    /\ listener' = [at |-> "reading", set |-> {}, dead |-> {},
                    todo |-> {n \in Names : peers[n] \in listener.set}]
    /\ UNCHANGED <<running, fate, socketVars, poolVars, requestVars, pings, yanked>>

\* The complete messages in a buffer: two halves are one message when they are
\* the first and the second of the same.
Frames(s) ==
    [i \in 1..(Len(s) \div 2) |->
        IF s[2 * i - 1].msg = s[2 * i].msg /\ s[2 * i - 1].part = 1 /\ s[2 * i].part = 2
        THEN s[2 * i].msg
        ELSE Garbage]

Rest(s) == IF Len(s) % 2 = 0 THEN <<>> ELSE <<s[Len(s)]>>

\* Faulty: one buffer for all connections.
ReceiveInOne(n) ==
    LET f == peers[n]
        all == buffers[CHOOSE x \in Fds : TRUE] \o link[f].unread
    IN /\ link[f].unread # <<>>
       /\ buffers' = [buffers EXCEPT ![CHOOSE x \in Fds : TRUE] = Rest(all)]
       /\ tasks' = tasks \o Frames(all)
       /\ link' = [link EXCEPT ![f].unread = <<>>]
       /\ listener' = [listener EXCEPT !.todo = @ \ {n}]
       /\ UNCHANGED owner

Receive(n) ==
    LET f == peers[n]
        all == buffers[n] \o link[f].unread
    IN /\ link[f].unread # <<>>
       /\ buffers' = [buffers EXCEPT ![n] = Rest(all)]
       /\ tasks' = tasks \o Frames(all)
       /\ link' = [link EXCEPT ![f].unread = <<>>]
       /\ listener' = [listener EXCEPT !.todo = @ \ {n}]
       /\ UNCHANGED owner

\* recv returns nothing: the connection has been closed, or it is a new one with
\* the descriptor of an old one and nothing came in time.  An accepted socket
\* has no limit to the time.
Lose(n) ==
    LET f == peers[n]
    IN /\ link[f].unread = <<>>
       /\ link[f].shut \/ n \in Peers
       /\ Close({f})
       /\ listener' = [listener EXCEPT !.todo = @ \ {n}, !.dead = @ \cup {n}]
       /\ UNCHANGED <<buffers, tasks>>

Read(n) ==
    /\ listener.at = "reading"
    /\ n \in listener.todo
    /\ Receive(n) \/ Lose(n)
    /\ UNCHANGED <<running, fate, peers, threads, requestVars, pings, yanked>>

\* Faulty: disconnected peers stay in tor_peers.
RemoveBuffers ==
    /\ listener.at = "reading"
    /\ listener.todo = {}
    /\ buffers' = [n \in Names |-> IF n \in listener.dead THEN <<>> ELSE buffers[n]]
    /\ listener' = [listener EXCEPT !.at = "poll", !.dead = {}]
    /\ UNCHANGED <<running, fate, peers, owner, link, poolVars, requestVars, pings, yanked>>

\* Disconnected peers are erased, and their sockets closed once more: one that
\* another thread has opened meanwhile under the same descriptor is closed.
Remove ==
    /\ listener.at = "reading"
    /\ listener.todo = {}
    /\ LET dead == listener.dead
       IN IF \E n \in dead : owner[peers[n]] \notin {None, n}
          THEN fate' = "wrecked" /\ UNCHANGED <<listener, peers, buffers>>
          ELSE /\ peers' = [n \in Names |-> IF n \in dead THEN None ELSE peers[n]]
               /\ buffers' = [n \in Names |-> IF n \in dead THEN <<>> ELSE buffers[n]]
               /\ listener' = [listener EXCEPT !.at = "poll", !.dead = {}]
               /\ UNCHANGED fate
    /\ UNCHANGED <<running, owner, link, poolVars, requestVars, pings, yanked>>

\* ~ThreadPool: the workers finish the tasks and end.
Return ==
    /\ listener.at = "closing"
    /\ tasks = <<>>
    /\ \A w \in Workers : threads[w].at = "idle"
    /\ listener' = [listener EXCEPT !.at = "returned"]
    /\ UNCHANGED <<running, fate, socketVars, poolVars, requestVars, pings, yanked>>

\* stop_threads.
Stop ==
    /\ running
    /\ running' = FALSE
    /\ UNCHANGED <<fate, listener, socketVars, poolVars, requestVars, pings, yanked>>

----------------------------------------------------------------------------
(* The peers.                                                               *)

\* Half a message arrives on a connection that the peer has opened: a ping, or
\* the reply to a request that has reached it.
Deliver(f) ==
    /\ owner[f] = f
    /\ ~link[f].shut
    /\ Len(link[f].unread) < MaxUnread
    /\ IF link[f].half # None
       THEN /\ link' = [link EXCEPT ![f].unread = Append(@, [msg |-> link[f].half, part |-> 2]),
                                    ![f].half = None]
            /\ UNCHANGED <<owed, pings>>
       ELSE LET p == link[f].peer
                Halves(m) == link' = [link EXCEPT ![f].unread = Append(@, [msg |-> m, part |-> 1]),
                                                  ![f].half = m]
            IN \/ /\ pings < MaxPings
                  /\ pings' = pings + 1
                  /\ Halves([kind |-> "ping", from |-> p, tid |-> None])
                  /\ UNCHANGED owed
               \/ \E tid \in owed[p] :
                     /\ owed' = [owed EXCEPT ![p] = @ \ {tid}]
                     /\ Halves([kind |-> "reply", from |-> p, tid |-> tid])
                     /\ UNCHANGED pings
    /\ UNCHANGED <<running, fate, listener, peers, buffers, owner, poolVars, pending, asked, yanked>>

\* A connection is closed at the other end, by the peer or by Tor.
HangUp(f) ==
    /\ owner[f] # None
    /\ ~link[f].shut
    /\ link' = [link EXCEPT ![f].shut = TRUE, ![f].half = None]
    /\ UNCHANGED <<running, fate, listener, peers, buffers, owner, poolVars, requestVars, pings, yanked>>

----------------------------------------------------------------------------
ThreadStep(t) ==
    /\ fate = "up"
    /\ \/ Reuse(t) \/ NoConnection(t) \/ Open(t) \/ Connect(t) \/ SendKills(t) \/ Store(t)
       \/ Ask(t) \/ WaitEnds(t) \/ Take(t)

ListenerStep ==
    /\ fate = "up"
    /\ \/ Poll \/ Select \/ Accept \/ Lock \/ Remove \/ Return
       \/ \E n \in Names : Read(n)

PeerStep(f) == fate = "up" /\ (Deliver(f) \/ HangUp(f))

Stops == fate = "up" /\ Stop

\* The program has ended, or run_tor has and no thread has anything to do.
Finished ==
    /\ \/ fate # "up"
       \/ listener.at = "returned" /\ \A t \in Workers : threads[t].at = "idle"
    /\ UNCHANGED vars

Next ==
    \/ \E t \in Workers : ThreadStep(t)
    \/ ListenerStep
    \/ \E f \in Fds : PeerStep(f)
    \/ Stops \/ Finished

\* The threads are scheduled, calls and waits that have a time limit end.  A peer
\* that has connected sends something or goes: it connects in order to send.
Fairness ==
    /\ WF_vars(ListenerStep)
    /\ \A t \in Workers : WF_vars(ThreadStep(t))
    /\ \A f \in Fds : WF_vars(PeerStep(f) /\ owner[f] = f)

Spec == Init /\ [][Next]_vars /\ Fairness

----------------------------------------------------------------------------
(* Properties.                                                              *)

Half == [msg : Message, part : {1, 2}]
Link == [peer : Peers \cup {None}, unread : Seq(Half), half : Message \cup {None}, shut : BOOLEAN]
Thread == [at : {"idle", "send", "open", "connect", "store", "ask", "wait"},
           job : {"none", "answer", "ask"}, to : Peers \cup {None}, tid : Tids \cup {None},
           left : 0..Keys, fd : Fds \cup {None}]
Listener == [at : {"poll", "select", "accept", "read", "reading", "closing", "returned"},
             set : SUBSET Fds, todo : SUBSET Names, dead : SUBSET Names]

\* The shape of the state (the members of Node, ThreadPool and the locals of run_tor).
TypeOK ==
    /\ running \in BOOLEAN
    /\ fate \in {"up", "died", "wrecked"}
    /\ listener \in Listener
    /\ peers \in [Names -> Fds \cup {None}]
    /\ buffers \in [Names -> Seq(Half)]
    /\ owner \in [Fds -> Names \cup Workers \cup {None}]
    /\ link \in [Fds -> Link]
    /\ tasks \in Seq(Message \cup {Garbage})
    /\ threads \in [Workers -> Thread]
    /\ pending \subseteq Tids
    /\ asked \in 0..MaxAsked
    /\ owed \in [Peers -> SUBSET Tids]
    /\ pings \in 0..MaxPings
    /\ yanked \in BOOLEAN

Dead == listener.dead

\* Nobody's socket is closed by another, and no socket is left open that nobody
\* knows: each open descriptor is that of exactly one entry of tor_peers or of
\* one thread that connects.  The model ends where this ceases, and it ceases
\* only when the listener removes the disconnected peers (run_tor closes their
\* sockets before it erases them, send_query opens sockets without the mutex).
DescriptorsExclusive ==
    /\ \A n \in Names : peers[n] # None /\ n \notin Dead => owner[peers[n]] = n
    /\ \A t \in Workers : threads[t].fd # None => owner[threads[t].fd] = t
    /\ \A f \in Fds : /\ owner[f] \in Names => peers[owner[f]] = f
                      /\ owner[f] \in Workers => threads[owner[f]].fd = f
    /\ fate = "wrecked" => Dead # {}

\* What the pool is given was sent so by a peer: the bytes of two connections
\* never come together in a buffer, although names and descriptors are used
\* again (client_buffers in run_tor, tor_peers in send_query).
WholeMessages == \A i \in DOMAIN tasks : tasks[i].kind # "garbage"

\* The listener stops unasked only when a thread closes a socket that it is
\* about to poll: one whose send failed, or the first of two connections to the
\* same node (the break after select in run_tor).
ListensUnlessYanked == listener.at \in {"closing", "returned"} => ~running \/ yanked

\* A node that is told to stop does: the workers, all of which may be waiting for
\* replies that wait behind them in the queue, finish what is in it (~ThreadPool,
\* send_map_v2 called from on_ping on a worker).
RunReturns == ~running ~> listener.at = "returned" \/ fate # "up"
=============================================================================
