-------------------------- MODULE TorPeers_proofs --------------------------
(***************************************************************************)
(* Proofs about TorPeers, for any peers, workers and descriptors.           *)
(***************************************************************************)
EXTENDS TorPeers, TLAPS, SequenceTheorems

----------------------------------------------------------------------------
(* Streams of halves, and the frames cut from them.                         *)

\* A sequence is a function from 1 to its length.
LEMMA SeqIs ==
    ASSUME NEW S, NEW s \in Seq(S)
    PROVE  /\ Len(s) \in Nat
           /\ DOMAIN s = 1..Len(s)
           /\ \A i \in 1..Len(s) : s[i] \in S
           /\ s # <<>> => Len(s) \in Nat \ {0}
<1>1. Len(s) \in Nat /\ DOMAIN s = 1..Len(s)
  BY LenProperties
<1>2. \A i \in 1..Len(s) : s[i] \in S
  BY <1>1, ElementOfSeq
<1>3. s # <<>> => Len(s) \in Nat \ {0}
  BY EmptySeq
<1> QED BY <1>1, <1>2, <1>3

\* What is received after what was left.
LEMMA Joined ==
    ASSUME NEW S, NEW s \in Seq(S), NEW t \in Seq(S)
    PROVE  /\ s \o t \in Seq(S)
           /\ Len(s \o t) = Len(s) + Len(t)
           /\ \A i \in 1..(Len(s) + Len(t)) :
                (s \o t)[i] = IF i <= Len(s) THEN s[i] ELSE t[i - Len(s)]
  BY ConcatProperties

\* A function from 1 to n is a sequence.
LEMMA IsSeq ==
    ASSUME NEW S, NEW n \in Nat, NEW f \in [1..n -> S]
    PROVE  f \in Seq(S) /\ Len(f) = n
  BY SeqDef, LenProperties

LEMMA Halves ==
    ASSUME NEW n \in Nat
    PROVE  /\ n \div 2 \in Nat
           /\ \A i \in 1..(n \div 2) : 2 * i \in 1..n /\ 2 * i - 1 \in 1..n
           /\ n % 2 \in {0, 1}
           /\ n % 2 = 0 => n = 2 * (n \div 2)
           /\ n % 2 = 1 => n = 2 * (n \div 2) + 1
  BY SMT

LEMMA FramesAre ==
    ASSUME NEW s \in Seq(Half)
    PROVE  Frames(s) \in Seq(Message \cup {Garbage}) /\ Len(Frames(s)) = Len(s) \div 2
<1> DEFINE n == Len(s) \div 2
<1>1. n \in Nat /\ Len(s) \in Nat
  BY SeqIs, Halves
<1>2. ASSUME NEW i \in 1..n PROVE s[2 * i].msg \in Message
  <2>1. 2 * i \in 1..Len(s)
    BY <1>1, Halves
  <2>2. s[2 * i] \in Half
    BY <2>1, SeqIs
  <2> QED BY <2>2 DEF Half
<1>3. Frames(s) \in [1..n -> Message \cup {Garbage}]
  BY <1>2 DEF Frames
<1> QED BY <1>1, <1>3, IsSeq

LEMMA RestIs ==
    ASSUME NEW s \in Seq(Half)
    PROVE  Rest(s) \in Seq(Half)
<1>1. CASE Len(s) % 2 = 0
  BY <1>1 DEF Rest
<1>2. CASE Len(s) % 2 # 0
  <2>1. Len(s) \in 1..Len(s)
    BY <1>2, SeqIs, Halves, SMT
  <2>2. s[Len(s)] \in Half
    BY <2>1, SeqIs
  <2> QED BY <1>2, <2>2 DEF Rest
<1> QED BY <1>1, <1>2

----------------------------------------------------------------------------
(* Type correctness.                                                        *)

\* The listener has something to read or to remove only while it holds the
\* mutex, and reads only what is in tor_peers; a thread that is not idle has a
\* node to deal with, and a socket the node at its other end.
Known ==
    /\ listener.at # "reading" => listener.todo = {} /\ listener.dead = {}
    /\ \A n \in listener.todo : peers[n] # None
    /\ \A t \in Workers : threads[t].at # "idle" => threads[t].to \in Peers
    /\ \A f \in Fds : owner[f] # None => link[f].peer \in Peers

\* Who holds which descriptor.  The sockets of the names to remove are closed,
\* and until they are removed only threads can have opened them again.
Owned ==
    /\ \A n \in Names : peers[n] # None /\ n \notin listener.dead => owner[peers[n]] = n
    /\ \A n \in listener.dead : peers[n] # None /\ owner[peers[n]] \notin Names
    /\ \A f \in Fds : owner[f] \in Names => peers[owner[f]] = f
    /\ \A t \in Workers : threads[t].fd # None => owner[threads[t].fd] = t
    /\ \A f \in Fds : owner[f] \in Workers => threads[owner[f]].fd = f
    /\ \A t \in Workers : threads[t].fd # None <=> threads[t].at \in {"connect", "store"}
    /\ \A f \in Fds : peers[f] \in {None, f}
    /\ listener.todo \cap listener.dead = {}
    /\ fate = "wrecked" => listener.dead # {}

LEMMA ThreadIs ==
    ASSUME NEW me \in Thread
    PROVE  /\ me.at \in {"idle", "send", "open", "connect", "store", "ask", "wait"}
           /\ me.job \in {"none", "answer", "ask"}
           /\ me.to \in Peers \cup {None}
           /\ me.tid \in Tids \cup {None}
           /\ me.left \in 0..Keys
           /\ me.fd \in Fds \cup {None}
  BY DEF Thread

LEMMA LinkIs ==
    ASSUME NEW l \in Link
    PROVE  /\ l.peer \in Peers \cup {None}
           /\ l.unread \in Seq(Half)
           /\ l.half \in Message \cup {None}
           /\ l.shut \in BOOLEAN
  BY DEF Link

LEMMA IdleTyped == Idle \in Thread /\ NoLink \in Link /\ Start \in Listener
  BY PeersAssumption, EmptySeq DEF Idle, Thread, NoLink, Link, Start, Listener

LEMMA InitTyped == Init => TypeOK
<1> SUFFICES ASSUME Init PROVE TypeOK
  OBVIOUS
<1>1. owner \in [Fds -> Names \cup Workers \cup {None}] /\ link \in [Fds -> Link]
      /\ listener \in Listener /\ threads \in [Workers -> Thread]
  BY IdleTyped DEF Init
<1>2. tasks \in Seq(Message \cup {Garbage}) /\ buffers \in [Names -> Seq(Half)]
  BY EmptySeq DEF Init
<1>3. /\ running \in BOOLEAN /\ yanked \in BOOLEAN /\ pending \subseteq Tids
      /\ fate \in {"up", "died", "wrecked"}
  BY DEF Init
<1>5. asked \in 0..MaxAsked /\ pings \in 0..MaxPings
  <2>1. 0 \in 0..MaxAsked /\ 0 \in 0..MaxPings
    BY PeersAssumption
  <2> QED BY <2>1 DEF Init
<1>4. peers \in [Names -> Fds \cup {None}] /\ owed \in [Peers -> SUBSET Tids]
  BY DEF Init
<1> QED BY <1>1, <1>2, <1>3, <1>4, <1>5 DEF TypeOK

LEMMA DieTyped == Die => TypeOK'
<1> SUFFICES ASSUME Die PROVE TypeOK'
  OBVIOUS
<1>1. owner' \in [Fds -> Names \cup Workers \cup {None}] /\ link' \in [Fds -> Link]
      /\ listener' \in Listener /\ threads' \in [Workers -> Thread]
  BY IdleTyped DEF Die
<1>2. tasks' \in Seq(Message \cup {Garbage}) /\ buffers' \in [Names -> Seq(Half)]
  BY EmptySeq DEF Die
<1>3. /\ running' \in BOOLEAN /\ yanked' \in BOOLEAN /\ pending' \subseteq Tids
      /\ fate' \in {"up", "died", "wrecked"}
  BY DEF Die
<1>5. asked' \in 0..MaxAsked /\ pings' \in 0..MaxPings
  <2>1. 0 \in 0..MaxAsked /\ 0 \in 0..MaxPings
    BY PeersAssumption
  <2> QED BY <2>1 DEF Die
<1>4. peers' \in [Names -> Fds \cup {None}] /\ owed' \in [Peers -> SUBSET Tids]
  BY DEF Die
<1> QED BY <1>1, <1>2, <1>3, <1>4, <1>5 DEF TypeOK

\* What sending does to the types.
LEMMA ReturnsTyped ==
    ASSUME TypeOK, NEW t \in Workers, Returns(t)
    PROVE  threads' \in [Workers -> Thread]
<1>1. threads \in [Workers -> Thread] /\ threads[t] \in Thread /\ Keys \in Nat
  BY PeersAssumption DEF TypeOK
<1>2. [threads[t] EXCEPT !.at = "wait", !.fd = None] \in Thread
  BY <1>1 DEF Thread
<1>3. [Idle EXCEPT !.at = "ask", !.job = "ask", !.to = threads[t].to, !.left = Keys] \in Thread
  <2>1. threads[t].to \in Peers \cup {None} /\ Keys \in 0..Keys
    BY <1>1, ThreadIs
  <2> QED BY <2>1, IdleTyped DEF Thread, Idle
<1> QED BY <1>1, <1>2, <1>3, IdleTyped DEF Returns, Becomes

LEMMA ThrowsTyped ==
    ASSUME TypeOK, NEW t \in Workers, Throws(t)
    PROVE  threads' \in [Workers -> Thread] /\ pending' \subseteq Tids
<1>1. threads \in [Workers -> Thread] /\ threads[t] \in Thread
  BY DEF TypeOK
<1>2. [threads[t] EXCEPT !.at = "ask", !.fd = None, !.tid = None] \in Thread
  BY <1>1 DEF Thread
<1> QED BY <1>1, <1>2 DEF Throws, Becomes, TypeOK

LEMMA ReachTyped ==
    ASSUME TypeOK, NEW f, NEW tid \in Tids \cup {None}, Reach(f, tid)
    PROVE  owed' \in [Peers -> SUBSET Tids]
<1>1. owed \in [Peers -> SUBSET Tids]
  BY DEF TypeOK
<1>2. CASE tid = None \/ Broken(f)
  BY <1>1, <1>2 DEF Reach
<1>3. CASE ~(tid = None \/ Broken(f))
  <2>1. owed' = [owed EXCEPT ![link[f].peer] = owed[link[f].peer] \cup {tid}] /\ tid \in Tids
    BY <1>3 DEF Reach
  <2> QED BY <1>1, <2>1
<1> QED BY <1>2, <1>3

LEMMA CloseTyped ==
    ASSUME TypeOK, NEW S, Close(S)
    PROVE  owner' \in [Fds -> Names \cup Workers \cup {None}] /\ link' \in [Fds -> Link]
  BY IdleTyped DEF Close, TypeOK

LEMMA ThreadTyped ==
    ASSUME TypeOK, NEW t \in Workers, ThreadStep(t)
    PROVE  TypeOK'
<1> USE PeersAssumption
<1> DEFINE me == threads[t]
<1>0. /\ threads \in [Workers -> Thread] /\ me \in Thread
      /\ me.to \in Peers \cup {None} /\ me.tid \in Tids \cup {None} /\ me.fd \in Fds \cup {None}
      /\ peers \in [Names -> Fds \cup {None}] /\ Peers \subseteq Names
  BY ThreadIs DEF TypeOK, Names
<1>1. ASSUME NEW at \in {"send", "open", "store", "connect"}, Goto(t, at)
      PROVE  threads' \in [Workers -> Thread]
  <2>1. [me EXCEPT !.at = at] \in Thread
    BY <1>0 DEF Thread
  <2> QED BY <1>0, <2>1, <1>1 DEF Goto, Becomes
<1>2. CASE Reuse(t)
  <2>1. CASE Reach(peers[me.to], me.tid) /\ Returns(t) /\ UNCHANGED <<socketVars, yanked>>
    BY <1>0, <1>2, <2>1, ReturnsTyped, ReachTyped DEF Reuse, TypeOK, socketVars
  <2>2. CASE /\ peers' = [peers EXCEPT ![me.to] = None] /\ Close({peers[me.to]})
             /\ Yank(peers[me.to]) /\ Goto(t, "open") /\ UNCHANGED <<buffers, owed>>
    BY <1>0, <1>1, <1>2, <2>2, CloseTyped DEF Reuse, TypeOK, Yank
  <2> QED BY <1>2, <2>1, <2>2 DEF Reuse
<1>3. CASE NoConnection(t)
  BY <1>1, <1>3 DEF NoConnection, TypeOK, socketVars, requestVars
<1>4. CASE Open(t)
  <2>1. ASSUME NEW f \in Lowest, owner' = [owner EXCEPT ![f] = t],
               link' = [link EXCEPT ![f] = [NoLink EXCEPT !.peer = me.to]],
               Becomes(t, [me EXCEPT !.at = "connect", !.fd = f])
        PROVE  /\ owner' \in [Fds -> Names \cup Workers \cup {None}] /\ link' \in [Fds -> Link]
               /\ threads' \in [Workers -> Thread]
    <3>1. f \in Fds /\ [NoLink EXCEPT !.peer = me.to] \in Link
      BY <1>0, <2>1, IdleTyped DEF Lowest, Free, NoLink, Link
    <3>2. [me EXCEPT !.at = "connect", !.fd = f] \in Thread
      BY <1>0, <3>1 DEF Thread
    <3> QED BY <1>0, <2>1, <3>1, <3>2 DEF TypeOK, Becomes
  <2> QED BY <1>0, <1>4, <2>1, ReturnsTyped DEF Open, TypeOK, requestVars
<1>5. CASE Connect(t)
  <2>1. CASE Reach(me.fd, me.tid) /\ Goto(t, "store") /\ UNCHANGED <<owner, link, pending>>
    BY <1>0, <1>1, <1>5, <2>1, ReachTyped DEF Connect, TypeOK
  <2>2. CASE Close({me.fd}) /\ Returns(t) /\ UNCHANGED <<owed, pending>>
    BY <1>5, <2>2, CloseTyped, ReturnsTyped DEF Connect, TypeOK
  <2>3. CASE Close({me.fd}) /\ Throws(t) /\ UNCHANGED owed
    BY <1>5, <2>3, CloseTyped, ThrowsTyped DEF Connect, TypeOK
  <2> QED BY <1>5, <2>1, <2>2, <2>3 DEF Connect
<1>6. CASE SendKills(t)
  BY <1>6, DieTyped DEF SendKills
<1>7. CASE Store(t)
  <2>1. threads' \in [Workers -> Thread] /\ link' \in [Fds -> Link] /\ yanked' \in BOOLEAN
    BY <1>7, ReturnsTyped, IdleTyped DEF Store, TypeOK, Yank
  <2>2. owner' \in [Fds -> Names \cup Workers \cup {None}]
    BY <1>0, <1>7 DEF Store, TypeOK
  <2>3. peers' \in [Names -> Fds \cup {None}]
    BY <1>0, <1>7 DEF Store
  <2> QED BY <1>7, <2>1, <2>2, <2>3 DEF Store, TypeOK, requestVars
<1>8. CASE Ask(t)
  <2>1. CASE me.left > 0 /\ asked < MaxAsked
    <3>1. asked + 1 \in Tids /\ asked + 1 \in 0..MaxAsked /\ me.left - 1 \in 0..Keys
      BY <1>0, <2>1, ThreadIs DEF TypeOK, Tids
    <3>2. [me EXCEPT !.at = "send", !.tid = asked + 1, !.left = @ - 1] \in Thread
      BY <1>0, <3>1 DEF Thread
    <3>3. threads' \in [Workers -> Thread]
      BY <1>0, <1>8, <2>1, <3>2 DEF Ask, Becomes
    <3>4. pending' \subseteq Tids /\ asked' \in 0..MaxAsked
      BY <1>8, <2>1, <3>1 DEF Ask, TypeOK
    <3> QED BY <1>8, <3>3, <3>4 DEF Ask, TypeOK, socketVars
  <2>2. CASE ~(me.left > 0 /\ asked < MaxAsked)
    <3>1. threads' \in [Workers -> Thread] /\ pending' = pending /\ asked' = asked
      BY <1>0, <1>8, <2>2, IdleTyped DEF Ask, Becomes
    <3> QED BY <1>8, <3>1 DEF Ask, TypeOK, socketVars
  <2> QED BY <2>1, <2>2
<1>9. CASE WaitEnds(t)
  <2>1. [me EXCEPT !.at = "ask", !.tid = None] \in Thread
    BY <1>0 DEF Thread
  <2> QED BY <1>0, <1>9, <2>1 DEF WaitEnds, Becomes, TypeOK, socketVars
<1>10. CASE Take(t)
  <2> DEFINE m == Head(tasks)
  <2>1. m \in Message \cup {Garbage} /\ tasks' \in Seq(Message \cup {Garbage})
    BY <1>10, HeadTailProperties DEF Take, TypeOK
  <2>2. m.kind = "ping" => m.from \in Peers
    BY <2>1 DEF Message, Garbage
  <2>3. m.kind = "ping" => [Idle EXCEPT !.at = "send", !.job = "answer", !.to = m.from] \in Thread
    BY <2>2, IdleTyped DEF Thread, Idle
  <2>4. threads' \in [Workers -> Thread]
    BY <1>0, <1>10, <2>3 DEF Take, Becomes
  <2>5. pending' \subseteq Tids
    BY <1>10 DEF Take, TypeOK
  <2> QED BY <1>10, <2>1, <2>4, <2>5 DEF Take, TypeOK, socketVars
<1> QED BY <1>2, <1>3, <1>4, <1>5, <1>6, <1>7, <1>8, <1>9, <1>10 DEF ThreadStep

LEMMA ListenerIs ==
    ASSUME NEW l \in Listener
    PROVE  /\ l.set \subseteq Fds /\ l.todo \subseteq Names /\ l.dead \subseteq Names
           /\ \A at \in {"poll", "select", "accept", "read", "reading", "closing", "returned"},
                 set \in SUBSET Fds : [l EXCEPT !.at = at, !.set = set] \in Listener
           /\ \A at \in {"poll", "accept", "read", "closing", "returned"} : [l EXCEPT !.at = at] \in Listener
           /\ \A todo \in SUBSET Names, dead \in SUBSET Names :
                 /\ [l EXCEPT !.todo = todo, !.dead = dead] \in Listener
                 /\ [l EXCEPT !.todo = todo] \in Listener
                 /\ [l EXCEPT !.at = "poll", !.dead = dead] \in Listener
  BY DEF Listener

LEMMA ListenerTyped ==
    ASSUME TypeOK, Known, ListenerStep
    PROVE  TypeOK'
<1>0. /\ listener \in Listener /\ peers \in [Names -> Fds \cup {None}]
      /\ buffers \in [Names -> Seq(Half)] /\ link \in [Fds -> Link]
      /\ owner \in [Fds -> Names \cup Workers \cup {None}]
      /\ tasks \in Seq(Message \cup {Garbage})
      /\ Fds \subseteq Names /\ None \notin Fds
  BY PeersAssumption DEF TypeOK, Names
<1>1. CASE Poll
  <2>1. Polled \subseteq Fds
    BY <1>0 DEF Polled
  <2>2. listener' \in Listener
    BY <1>0, <1>1, <2>1, ListenerIs DEF Poll
  <2> QED BY <1>1, <2>2 DEF Poll, TypeOK, socketVars, poolVars, requestVars
<1>2. CASE Select
  <2> DEFINE ready == {f \in listener.set : Readable(f)}
  <2>1. {} \in SUBSET Fds /\ ready \in SUBSET Fds
    BY <1>0, ListenerIs
  <2>2. \E at \in {"closing", "accept", "poll", "read"}, set \in {{}, ready} :
          listener' = [listener EXCEPT !.at = at, !.set = set]
    BY <1>2 DEF Select
  <2>3. listener' \in Listener
    <3> HIDE DEF ready
    <3> QED BY <1>0, <2>1, <2>2 DEF Listener
  <2> QED BY <1>2, <2>3 DEF Select, TypeOK, socketVars, poolVars, requestVars
<1>3. CASE Accept
  <2>1. ASSUME NEW f \in Lowest, NEW p \in Peers,
               peers' = [peers EXCEPT ![f] = f], buffers' = [buffers EXCEPT ![f] = <<>>],
               owner' = [owner EXCEPT ![f] = f], link' = [link EXCEPT ![f] = [NoLink EXCEPT !.peer = p]],
               listener' = [listener EXCEPT !.at = "read"]
        PROVE  TypeOK'
    <3>1. f \in Fds /\ f \in Names /\ [NoLink EXCEPT !.peer = p] \in Link /\ <<>> \in Seq(Half)
      BY <1>0, IdleTyped, EmptySeq DEF Lowest, Free, NoLink, Link
    <3>2. listener' \in Listener
      BY <1>0, <2>1, ListenerIs
    <3>3. peers' \in [Names -> Fds \cup {None}] /\ buffers' \in [Names -> Seq(Half)]
      BY <1>0, <2>1, <3>1
    <3>4. owner' \in [Fds -> Names \cup Workers \cup {None}] /\ link' \in [Fds -> Link]
      BY <1>0, <2>1, <3>1
    <3> QED BY <1>3, <3>2, <3>3, <3>4 DEF Accept, TypeOK, poolVars, requestVars
  <2>2. CASE listener' = [listener EXCEPT !.at = "poll", !.set = {}] /\ UNCHANGED socketVars
    <3>1. listener' \in Listener
      BY <1>0, <2>2, ListenerIs
    <3> QED BY <1>3, <2>2, <3>1 DEF Accept, TypeOK, socketVars, poolVars, requestVars
  <2> QED BY <1>3, <2>1, <2>2 DEF Accept
<1>4. CASE Lock
  <2>1. listener' \in Listener
    BY <1>0, <1>4 DEF Lock, Listener
  <2> QED BY <1>4, <2>1 DEF Lock, TypeOK, socketVars, poolVars, requestVars
<1>5. CASE Remove
  <2>1. CASE fate' = "wrecked" /\ UNCHANGED <<listener, peers, buffers>>
    BY <1>5, <2>1 DEF Remove, TypeOK, poolVars, requestVars
  <2>2. CASE /\ peers' = [n \in Names |-> IF n \in listener.dead THEN None ELSE peers[n]]
             /\ buffers' = [n \in Names |-> IF n \in listener.dead THEN <<>> ELSE buffers[n]]
             /\ listener' = [listener EXCEPT !.at = "poll", !.dead = {}]
             /\ UNCHANGED fate
    <3>1. listener' \in Listener
      BY <1>0, <2>2, ListenerIs
    <3>2. peers' \in [Names -> Fds \cup {None}] /\ buffers' \in [Names -> Seq(Half)]
      BY <1>0, <2>2, EmptySeq
    <3> QED BY <1>5, <2>2, <3>1, <3>2 DEF Remove, TypeOK, poolVars, requestVars
  <2> QED BY <1>5, <2>1, <2>2 DEF Remove
<1>6. CASE Return
  <2>1. listener' \in Listener
    BY <1>0, <1>6, ListenerIs DEF Return
  <2> QED BY <1>6, <2>1 DEF Return, TypeOK, socketVars, poolVars, requestVars
<1>7. ASSUME NEW n \in Names, Read(n)
      PROVE  TypeOK'
  <2> DEFINE f == peers[n]
             all == buffers[n] \o link[f].unread
  <2>1. f \in Fds
    BY <1>0, <1>7 DEF Read, Known
  <2>2. /\ listener.todo \ {n} \subseteq Names /\ listener.dead \cup {n} \subseteq Names
    BY <1>0, ListenerIs
  <2>3. link[f] \in Link /\ link[f].unread \in Seq(Half) /\ buffers[n] \in Seq(Half)
    BY <1>0, <2>1, LinkIs
  <2>4. CASE Receive(n)
    <3>1. link' \in [Fds -> Link]
      <4>1. [link[f] EXCEPT !.unread = <<>>] \in Link
        BY <2>3, EmptySeq DEF Link
      <4> QED BY <1>0, <2>1, <2>4, <4>1 DEF Receive
    <3>2. all \in Seq(Half)
      BY <2>3, Joined
    <3>3. buffers' \in [Names -> Seq(Half)]
      BY <1>0, <2>4, <3>2, RestIs DEF Receive
    <3>4. tasks' \in Seq(Message \cup {Garbage})
      BY <1>0, <2>4, <3>2, FramesAre, Joined DEF Receive
    <3>5. listener' \in Listener
      BY <1>0, <2>2, <2>4, ListenerIs DEF Receive
    <3> QED BY <1>7, <2>4, <3>1, <3>3, <3>4, <3>5 DEF Read, Receive, TypeOK, requestVars
  <2>5. CASE Lose(n)
    <3>1. listener' \in Listener
      BY <1>0, <2>2, <2>5, ListenerIs DEF Lose
    <3> QED BY <1>7, <2>5, <3>1, CloseTyped DEF Read, Lose, TypeOK, requestVars
  <2> QED BY <1>7, <2>4, <2>5 DEF Read
<1> QED BY <1>1, <1>2, <1>3, <1>4, <1>5, <1>6, <1>7 DEF ListenerStep

LEMMA PeerTyped ==
    ASSUME TypeOK, Known, NEW f \in Fds, PeerStep(f)
    PROVE  TypeOK'
<1>0. /\ link \in [Fds -> Link] /\ link[f] \in Link
      /\ link[f].unread \in Seq(Half) /\ link[f].half \in Message \cup {None}
  BY LinkIs DEF TypeOK
<1>1. ASSUME NEW m \in Message, NEW part \in {1, 2}, NEW half \in Message \cup {None},
             link' = [link EXCEPT ![f].unread = Append(@, [msg |-> m, part |-> part]), ![f].half = half]
      PROVE  link' \in [Fds -> Link]
  <2>1. Append(link[f].unread, [msg |-> m, part |-> part]) \in Seq(Half)
    BY <1>0, AppendProperties DEF Half
  <2>2. [link[f] EXCEPT !.unread = Append(@, [msg |-> m, part |-> part]), !.half = half] \in Link
    BY <1>0, <2>1 DEF Link
  <2> QED BY <1>0, <1>1, <2>2
<1>2. CASE Deliver(f)
  <2> DEFINE l == link[f]
             Both(m) == link' = [link EXCEPT ![f].unread = Append(@, [msg |-> m, part |-> 1]), ![f].half = m]
  <2>1. CASE l.half # None
    <3>1. link' \in [Fds -> Link]
      BY <1>0, <1>1, <1>2, <2>1 DEF Deliver
    <3> QED BY <1>2, <2>1, <3>1 DEF Deliver, TypeOK, poolVars
  <2>2. CASE l.half = None
    <3>0. l.peer \in Peers
      BY <1>2, PeersAssumption DEF Deliver, Known, Names
    <3>1. ASSUME pings < MaxPings, pings' = pings + 1, UNCHANGED owed,
                 Both([kind |-> "ping", from |-> l.peer, tid |-> None])
          PROVE  TypeOK'
      <4>1. [kind |-> "ping", from |-> l.peer, tid |-> None] \in Message
        BY <3>0 DEF Message
      <4>2. link' \in [Fds -> Link]
        BY <1>1, <3>1, <4>1
      <4>3. pings' \in 0..MaxPings
        BY <3>1, PeersAssumption DEF TypeOK
      <4> QED BY <1>2, <3>1, <4>2, <4>3 DEF Deliver, TypeOK, poolVars
    <3>2. ASSUME NEW tid \in owed[l.peer], owed' = [owed EXCEPT ![l.peer] = @ \ {tid}], UNCHANGED pings,
                 Both([kind |-> "reply", from |-> l.peer, tid |-> tid])
          PROVE  TypeOK'
      <4>1. tid \in Tids
        BY <3>0, <3>2 DEF TypeOK
      <4>2. [kind |-> "reply", from |-> l.peer, tid |-> tid] \in Message
        BY <3>0, <4>1 DEF Message
      <4>3. link' \in [Fds -> Link]
        BY <1>1, <3>2, <4>2
      <4>4. owed' \in [Peers -> SUBSET Tids]
        BY <3>0, <3>2 DEF TypeOK
      <4> QED BY <1>2, <3>2, <4>3, <4>4 DEF Deliver, TypeOK, poolVars
    <3> QED BY <1>2, <2>2, <3>1, <3>2 DEF Deliver
  <2> QED BY <2>1, <2>2
<1>3. CASE HangUp(f)
  <2>1. [link[f] EXCEPT !.shut = TRUE, !.half = None] \in Link
    BY <1>0 DEF Link
  <2> QED BY <1>0, <1>3, <2>1 DEF HangUp, TypeOK, poolVars, requestVars
<1> QED BY <1>2, <1>3 DEF PeerStep

LEMMA StopTyped == TypeOK /\ Stop => TypeOK'
  BY DEF Stop, TypeOK, socketVars, poolVars, requestVars

----------------------------------------------------------------------------
(* What is known of the nodes.                                              *)

LEMMA Distinct ==
    /\ None \notin Names /\ None \notin Workers /\ None \notin Fds /\ None \notin Peers
    /\ Names \cap Workers = {} /\ Peers \cap Fds = {}
    /\ Peers \subseteq Names /\ Fds \subseteq Names
  BY PeersAssumption DEF Names

\* What a thread is at after each part of send_query.
LEMMA Moves ==
    ASSUME TypeOK, NEW t \in Workers
    PROVE  /\ \A at : Goto(t, at) =>
                 /\ threads' = [threads EXCEPT ![t] = threads'[t]]
                 /\ threads'[t].at = at
                 /\ threads'[t].to = threads[t].to
                 /\ threads'[t].fd = threads[t].fd
           /\ Returns(t) \/ Throws(t) =>
                 /\ threads' = [threads EXCEPT ![t] = threads'[t]]
                 /\ threads'[t].at \in {"wait", "idle", "ask"}
                 /\ threads'[t].to = threads[t].to \/ threads'[t].at = "idle"
                 /\ threads'[t].fd = None
<1>1. threads \in [Workers -> Thread] /\ threads[t] \in Thread
  BY DEF TypeOK
<1>2. \A r : Becomes(t, r) => threads' = [threads EXCEPT ![t] = threads'[t]] /\ threads'[t] = r
  BY <1>1 DEF Becomes
<1>3. ASSUME NEW at, Goto(t, at)
      PROVE  /\ threads' = [threads EXCEPT ![t] = threads'[t]] /\ threads'[t].at = at
             /\ threads'[t].to = threads[t].to /\ threads'[t].fd = threads[t].fd
  BY <1>1, <1>2, <1>3 DEF Goto, Thread
<1>4. ASSUME Returns(t) \/ Throws(t)
      PROVE  /\ threads' = [threads EXCEPT ![t] = threads'[t]]
             /\ threads'[t].at \in {"wait", "idle", "ask"}
             /\ threads'[t].to = threads[t].to \/ threads'[t].at = "idle"
             /\ threads'[t].fd = None
  <2> DEFINE me == threads[t]
             Good(r) == /\ r.at \in {"wait", "idle", "ask"} /\ r.fd = None
                        /\ r.to = me.to \/ r.at = "idle"
  <2>1. Good([me EXCEPT !.at = "wait", !.fd = None])
    BY <1>1 DEF Thread
  <2>2. Good([me EXCEPT !.at = "ask", !.fd = None, !.tid = None])
    BY <1>1 DEF Thread
  <2>3. Good(Idle) /\ Good([Idle EXCEPT !.at = "ask", !.job = "ask", !.to = me.to, !.left = Keys])
    BY DEF Idle
  <2>4. PICK r : Becomes(t, r) /\ Good(r)
    <3> HIDE DEF Good
    <3> QED BY <1>4, <2>1, <2>2, <2>3 DEF Returns, Throws
  <2> QED BY <1>2, <2>4
<1> QED BY <1>3, <1>4

LEMMA ThreadKnown ==
    ASSUME TypeOK, Known, Owned, NEW t \in Workers, ThreadStep(t)
    PROVE  Known'
<1> DEFINE me == threads[t]
<1>0. /\ threads \in [Workers -> Thread] /\ me \in Thread /\ link \in [Fds -> Link]
      /\ owner \in [Fds -> Names \cup Workers \cup {None}]
  BY DEF TypeOK
<1>1. ASSUME me.at # "idle", (\E at : Goto(t, at)) \/ Returns(t) \/ Throws(t)
      PROVE  \A u \in Workers : threads'[u].at # "idle" => threads'[u].to \in Peers
  BY <1>0, <1>1, Moves DEF Known
<1>2. ASSUME NEW S, Close(S)
      PROVE  \A f \in Fds : owner'[f] # None => link'[f].peer \in Peers
  BY <1>0, <1>2 DEF Known, Close
<1>12. ASSUME NEW r, Becomes(t, r), r.at # "idle" => r.to \in Peers
       PROVE  \A u \in Workers : threads'[u].at # "idle" => threads'[u].to \in Peers
  BY <1>0, <1>12 DEF Becomes, Known
<1>3. CASE Reuse(t)
  <2>1. listener' = listener /\ listener.at # "reading"
    BY <1>3 DEF Reuse, Unlocked
  <2>2. \A u \in Workers : threads'[u].at # "idle" => threads'[u].to \in Peers
    BY <1>1, <1>3 DEF Reuse
  <2>3. \A f \in Fds : owner'[f] # None => link'[f].peer \in Peers
    BY <1>2, <1>3 DEF Reuse, socketVars, Known
  <2> QED BY <2>1, <2>2, <2>3 DEF Known
<1>4. CASE NoConnection(t)
  <2>1. \A u \in Workers : threads'[u].at # "idle" => threads'[u].to \in Peers
    BY <1>1, <1>4 DEF NoConnection
  <2> QED BY <1>4, <2>1 DEF NoConnection, Known, socketVars
<1>5. CASE Open(t)
  <2>1. \A u \in Workers : threads'[u].at # "idle" => threads'[u].to \in Peers
    <3>1. ASSUME NEW f, Becomes(t, [me EXCEPT !.at = "connect", !.fd = f])
          PROVE  \A u \in Workers : threads'[u].at # "idle" => threads'[u].to \in Peers
      <4>1. [me EXCEPT !.at = "connect", !.fd = f].to \in Peers
        BY <1>0, <1>5 DEF Open, Known, Thread
      <4> QED BY <1>12, <3>1, <4>1
    <3> QED BY <1>1, <1>5, <3>1 DEF Open
  <2>2. \A f \in Fds : owner'[f] # None => link'[f].peer \in Peers
    <3>1. me.to \in Peers
      BY <1>5 DEF Open, Known
    <3> QED BY <1>0, <1>5, <3>1, ZenonT(30) DEF Open, Known, NoLink
  <2> QED BY <1>5, <2>1, <2>2 DEF Open, Known
<1>6. CASE Connect(t)
  <2>1. \A u \in Workers : threads'[u].at # "idle" => threads'[u].to \in Peers
    BY <1>1, <1>6 DEF Connect
  <2>2. \A f \in Fds : owner'[f] # None => link'[f].peer \in Peers
    BY <1>2, <1>6 DEF Connect, Known
  <2> QED BY <1>6, <2>1, <2>2 DEF Connect, Known
<1>7. CASE SendKills(t)
  BY <1>0, <1>7 DEF SendKills, Die, Known, Start, Idle, NoLink
<1>8. CASE Store(t)
  <2>1. \A u \in Workers : threads'[u].at # "idle" => threads'[u].to \in Peers
    BY <1>1, <1>8 DEF Store
  <2>2. listener' = listener /\ listener.at # "reading"
    BY <1>8 DEF Store, Unlocked
  <2>3. \A f \in Fds : owner'[f] # None => link'[f].peer \in Peers
    <3>1. me.fd \in Fds /\ owner[me.fd] # None
      BY <1>0, <1>8, ThreadIs, Distinct DEF Store, Owned
    <3>2. ASSUME NEW f \in Fds, owner'[f] # None
          PROVE  owner[f] # None /\ link'[f] = link[f]
      <4>1. me.to \in Names /\ (peers[me.to] # None => owner[peers[me.to]] = me.to) /\ owner[me.fd] = t
        BY <1>8, Distinct, <2>2 DEF Store, Owned, Known
      <4>2. me.fd # peers[me.to]
        BY <3>1, <4>1, Distinct
      <4>3. link'[f] = IF f \in {peers[me.to]} \ {None} THEN NoLink ELSE link[f]
        BY <1>8 DEF Store
      <4>4. owner'[f] = IF f = me.fd THEN me.to ELSE IF f \in {peers[me.to]} \ {None} THEN None ELSE owner[f]
        BY <1>8 DEF Store
      <4> QED BY <3>1, <3>2, <4>2, <4>3, <4>4
    <3> QED BY <3>2 DEF Known
  <2> QED BY <2>1, <2>2, <2>3 DEF Known
<1>9. CASE Ask(t)
  <2>1. \A u \in Workers : threads'[u].at # "idle" => threads'[u].to \in Peers
    <3>1. [me EXCEPT !.at = "send", !.tid = asked + 1, !.left = @ - 1].to \in Peers
      BY <1>0, <1>9 DEF Ask, Known, Thread
    <3>2. Idle.at = "idle"
      BY DEF Idle
    <3> QED BY <1>9, <1>12, <3>1, <3>2 DEF Ask
  <2> QED BY <1>9, <2>1 DEF Ask, Known, socketVars
<1>10. CASE WaitEnds(t)
  <2>1. \A u \in Workers : threads'[u].at # "idle" => threads'[u].to \in Peers
    BY <1>0, <1>10 DEF WaitEnds, Known, Becomes, Thread
  <2> QED BY <1>10, <2>1 DEF WaitEnds, Known, socketVars
<1>11. CASE Take(t)
  <2> DEFINE m == Head(tasks)
  <2>1. m.kind = "ping" => m.from \in Peers
    <3>1. m \in Message \cup {Garbage}
      BY <1>11, HeadTailProperties DEF Take, TypeOK
    <3> QED BY <3>1 DEF Message, Garbage
  <2>2. \A u \in Workers : threads'[u].at # "idle" => threads'[u].to \in Peers
    <3>1. CASE m.kind = "ping"
      <4> DEFINE r == [Idle EXCEPT !.at = "send", !.job = "answer", !.to = m.from]
      <4>1. r.to = m.from
        BY DEF Idle
      <4>2. Becomes(t, r)
        BY <1>11, <3>1 DEF Take
      <4> HIDE DEF r
      <4> QED BY <1>12, <2>1, <3>1, <4>1, <4>2
    <3>2. CASE m.kind # "ping"
      <4>1. UNCHANGED threads
        BY <1>11, <3>2 DEF Take
      <4> QED BY <4>1 DEF Known
    <3> QED BY <3>1, <3>2
  <2> QED BY <1>11, <2>2 DEF Take, Known, socketVars
<1> QED BY <1>3, <1>4, <1>5, <1>6, <1>7, <1>8, <1>9, <1>10, <1>11 DEF ThreadStep

\* The other end of a socket stays, whatever has come from it.
LEMMA SameEnd ==
    ASSUME TypeOK, NEW f
    PROVE  /\ \A u : link' = [link EXCEPT ![f].unread = u] => \A g \in Fds : link'[g].peer = link[g].peer
           /\ \A u, h : link' = [link EXCEPT ![f].unread = u, ![f].half = h] =>
                 \A g \in Fds : link'[g].peer = link[g].peer
           /\ link' = [link EXCEPT ![f].shut = TRUE, ![f].half = None] =>
                 \A g \in Fds : link'[g].peer = link[g].peer
<1>1. link \in [Fds -> Link] /\ \A g \in Fds : link[g] \in Link
  BY DEF TypeOK
<1>2. \A l \in Link : /\ \A u : [l EXCEPT !.unread = u].peer = l.peer
                      /\ \A u, h : [l EXCEPT !.unread = u, !.half = h].peer = l.peer
                      /\ [l EXCEPT !.shut = TRUE, !.half = None].peer = l.peer
  BY DEF Link
<1>3. ASSUME NEW u, link' = [link EXCEPT ![f].unread = u], NEW g \in Fds
      PROVE  link'[g].peer = link[g].peer
  BY <1>1, <1>2, <1>3
<1>4. ASSUME NEW u, NEW h, link' = [link EXCEPT ![f].unread = u, ![f].half = h], NEW g \in Fds
      PROVE  link'[g].peer = link[g].peer
  BY <1>1, <1>2, <1>4
<1>5. ASSUME link' = [link EXCEPT ![f].shut = TRUE, ![f].half = None], NEW g \in Fds
      PROVE  link'[g].peer = link[g].peer
  BY <1>1, <1>2, <1>5
<1> QED BY <1>3, <1>4, <1>5

LEMMA ListenerKnown ==
    ASSUME TypeOK, Known, Owned, ListenerStep
    PROVE  Known'
<1>0. /\ listener \in Listener /\ owner \in [Fds -> Names \cup Workers \cup {None}]
      /\ link \in [Fds -> Link] /\ peers \in [Names -> Fds \cup {None}]
  BY DEF TypeOK
<1>1. CASE Poll \/ Select \/ Return
  <2>1. /\ listener'.at # "reading" /\ listener'.todo = {} /\ listener'.dead = {}
        /\ UNCHANGED <<threads, owner, link>>
    BY <1>0, <1>1 DEF Poll, Select, Return, Known, Listener, socketVars, poolVars
  <2> QED BY <2>1 DEF Known
<1>2. CASE Accept
  <2>1. listener'.at # "reading" /\ listener'.todo = {} /\ listener'.dead = {} /\ UNCHANGED threads
    BY <1>0, <1>2 DEF Accept, Known, Listener, poolVars
  <2>2. \A f \in Fds : owner'[f] # None => link'[f].peer \in Peers
    BY <1>0, <1>2 DEF Accept, Known, NoLink, socketVars
  <2> QED BY <2>1, <2>2 DEF Known
<1>3. CASE Lock
  BY <1>0, <1>3, Distinct DEF Lock, Known, Listener, socketVars, poolVars
<1>4. CASE Remove
  <2>1. listener'.todo = {} /\ UNCHANGED <<threads, owner, link>>
    BY <1>0, <1>4 DEF Remove, Listener, poolVars
  <2>2. listener'.at # "reading" => listener'.dead = {}
    BY <1>0, <1>4 DEF Remove, Listener
  <2> QED BY <2>1, <2>2 DEF Known
<1>5. ASSUME NEW n \in Names, Read(n)
      PROVE  Known'
  <2>1. listener'.at = "reading" /\ listener'.todo = listener.todo \ {n} /\ UNCHANGED <<peers, threads>>
    BY <1>0, <1>5 DEF Read, Receive, Lose, Listener
  <2>2. \A f \in Fds : owner'[f] # None => link'[f].peer \in Peers
    <3>1. CASE Receive(n)
      <4>1. \A f \in Fds : link'[f].peer = link[f].peer
        BY <3>1, SameEnd DEF Receive
      <4> QED BY <3>1, <4>1 DEF Receive, Known
    <3>2. CASE Lose(n)
      BY <1>0, <3>2 DEF Lose, Close, Known
    <3> QED BY <1>5, <3>1, <3>2 DEF Read
  <2> QED BY <2>1, <2>2 DEF Known
<1> QED BY <1>1, <1>2, <1>3, <1>4, <1>5 DEF ListenerStep

LEMMA PeerKnown ==
    ASSUME TypeOK, Known, NEW f \in Fds, PeerStep(f)
    PROVE  Known'
<1>1. link \in [Fds -> Link]
  BY DEF TypeOK
<1>2. UNCHANGED <<listener, peers, threads, owner>> /\ \A g \in Fds : link'[g].peer = link[g].peer
  <2>1. CASE Deliver(f)
    <3>1. UNCHANGED <<listener, peers, threads, owner>>
      BY <2>1 DEF Deliver, poolVars
    <3>2. \E u, h : link' = [link EXCEPT ![f].unread = u, ![f].half = h]
      BY <2>1 DEF Deliver
    <3> QED BY <3>1, <3>2, SameEnd
  <2>2. CASE HangUp(f)
    BY <2>2, SameEnd DEF HangUp, poolVars
  <2> QED BY <2>1, <2>2 DEF PeerStep
<1> QED BY <1>2 DEF Known

----------------------------------------------------------------------------
(* Nobody closes the socket of another.                                     *)

LEMMA ThreadOwned ==
    ASSUME TypeOK, Known, Owned, NEW t \in Workers, ThreadStep(t)
    PROVE  Owned'
<1> DEFINE me == threads[t]
<1>0. /\ threads \in [Workers -> Thread] /\ me \in Thread /\ me.fd \in Fds \cup {None}
      /\ owner \in [Fds -> Names \cup Workers \cup {None}] /\ peers \in [Names -> Fds \cup {None}]
      /\ fate = "up" /\ listener \in Listener /\ listener.dead \subseteq Names
  BY ThreadIs, ListenerIs DEF TypeOK, ThreadStep
<1>1. CASE Reuse(t)
  <2> DEFINE p == me.to
             f == peers[p]
  <2>1. /\ p \in Peers /\ p \in Names /\ f \in Fds /\ owner[f] = p
        /\ listener' = listener /\ listener.dead = {} /\ listener.todo = {} /\ fate' = "up"
        /\ me.at = "send" /\ me.fd = None
    BY <1>0, <1>1, Distinct DEF Reuse, Unlocked, Known, Owned
  <2>2. CASE Returns(t) /\ UNCHANGED <<socketVars, yanked>>
    <3>1. /\ threads' = [threads EXCEPT ![t] = threads'[t]] /\ threads'[t].fd = None
          /\ threads'[t].at \notin {"connect", "store"}
      BY <2>2, Moves
    <3> QED BY <1>0, <2>1, <2>2, <3>1, Distinct DEF Owned, socketVars
  <2>3. CASE /\ peers' = [peers EXCEPT ![p] = None] /\ Close({f}) /\ Goto(t, "open")
    <3>1. /\ threads' = [threads EXCEPT ![t] = threads'[t]] /\ threads'[t].fd = None
          /\ threads'[t].at \notin {"connect", "store"}
      BY <2>1, <2>3, Moves
    <3>2. owner' = [owner EXCEPT ![f] = None]
      BY <1>0, <2>1, <2>3 DEF Close
    <3> QED BY <1>0, <2>1, <2>3, <3>1, <3>2, Distinct DEF Owned
  <2> QED BY <1>1, <2>2, <2>3 DEF Reuse
<1>2. CASE NoConnection(t) \/ Ask(t) \/ WaitEnds(t) \/ Take(t)
  <2>1. /\ UNCHANGED <<listener, fate, owner, peers>>
        /\ \A u \in Workers : threads'[u].fd = threads[u].fd
        /\ \A u \in Workers : threads'[u].at \in {"connect", "store"} <=> threads[u].at \in {"connect", "store"}
    <3>1. CASE NoConnection(t)
      <4>1. threads' = [threads EXCEPT ![t] = threads'[t]] /\ threads'[t].fd = me.fd
            /\ threads'[t].at = "open" /\ me.at = "send"
        BY <3>1, Moves DEF NoConnection
      <4> QED BY <1>0, <3>1, <4>1 DEF NoConnection, socketVars
    <3>2. CASE Ask(t)
      <4>1. me.at = "ask" /\ me.fd = None
        BY <3>2 DEF Ask, Owned
      <4>2. threads' = [threads EXCEPT ![t] = threads'[t]] /\ threads'[t].fd = None
            /\ threads'[t].at \in {"send", "idle"}
        <5>1. CASE Becomes(t, [me EXCEPT !.at = "send", !.tid = asked + 1, !.left = @ - 1])
          BY <1>0, <4>1, <5>1 DEF Becomes, Thread
        <5>2. CASE Becomes(t, Idle)
          BY <1>0, <5>2 DEF Becomes, Idle
        <5> QED BY <3>2, <5>1, <5>2 DEF Ask
      <4> QED BY <1>0, <3>2, <4>1, <4>2 DEF Ask, socketVars
    <3>3. CASE WaitEnds(t)
      <4>1. me.at = "wait" /\ threads' = [threads EXCEPT ![t] = threads'[t]] /\ threads'[t].fd = me.fd
            /\ threads'[t].at = "ask"
        BY <1>0, <3>3 DEF WaitEnds, Becomes, Thread
      <4> QED BY <1>0, <3>3, <4>1 DEF WaitEnds, socketVars
    <3>4. CASE Take(t)
      <4>1. me.at = "idle" /\ me.fd = None
        BY <3>4 DEF Take, Owned
      <4>2. threads' = [threads EXCEPT ![t] = threads'[t]] /\ threads'[t].fd = None
            /\ threads'[t].at \in {"send", "idle"}
        BY <1>0, <3>4, <4>1, ZenonT(30) DEF Take, Becomes, Idle
      <4> QED BY <1>0, <3>4, <4>1, <4>2 DEF Take, socketVars
    <3> QED BY <1>2, <3>1, <3>2, <3>3, <3>4
  <2> QED BY <2>1 DEF Owned
<1>3. CASE Open(t)
  <2>1. ASSUME NEW f \in Lowest, owner' = [owner EXCEPT ![f] = t],
               Becomes(t, [me EXCEPT !.at = "connect", !.fd = f])
        PROVE  Owned'
    <3>1. f \in Fds /\ owner[f] = None /\ me.fd = None /\ me.at = "open"
      BY <1>3, <2>1 DEF Lowest, Free, Open, Owned
    <3>2. threads' = [threads EXCEPT ![t] = threads'[t]] /\ threads'[t].fd = f /\ threads'[t].at = "connect"
      BY <1>0, <2>1 DEF Becomes, Thread
    <3>3. UNCHANGED <<peers, listener, fate>>
      BY <1>3 DEF Open
    <3> QED BY <1>0, <2>1, <3>1, <3>2, <3>3, Distinct DEF Owned
  <2>2. CASE Returns(t) /\ UNCHANGED <<owner, link>>
    <3>1. /\ threads' = [threads EXCEPT ![t] = threads'[t]] /\ threads'[t].fd = None
          /\ threads'[t].at \notin {"connect", "store"} /\ me.fd = None
      BY <1>3, <2>2, Moves DEF Open, Owned
    <3> QED BY <1>0, <1>3, <2>2, <3>1, Distinct DEF Owned, Open
  <2> QED BY <1>3, <2>1, <2>2 DEF Open
<1>4. CASE Connect(t)
  <2>1. /\ me.fd \in Fds /\ owner[me.fd] = t /\ UNCHANGED <<peers, listener, fate>>
    BY <1>0, <1>4 DEF Connect, Owned
  <2>2. CASE Goto(t, "store") /\ UNCHANGED <<owner, link, pending>>
    <3>1. /\ threads' = [threads EXCEPT ![t] = threads'[t]] /\ threads'[t].fd = me.fd
          /\ threads'[t].at = "store"
      BY <2>2, Moves
    <3> QED BY <1>0, <2>1, <2>2, <3>1, Distinct DEF Owned
  <2>3. CASE Close({me.fd}) /\ (Returns(t) \/ Throws(t))
    <3>1. /\ threads' = [threads EXCEPT ![t] = threads'[t]] /\ threads'[t].fd = None
          /\ threads'[t].at \notin {"connect", "store"}
      BY <2>3, Moves
    <3>2. owner' = [owner EXCEPT ![me.fd] = None]
      BY <1>0, <2>1, <2>3 DEF Close
    <3> QED BY <1>0, <2>1, <3>1, <3>2, Distinct DEF Owned
  <2> QED BY <1>4, <2>2, <2>3 DEF Connect
<1>5. CASE SendKills(t)
  BY <1>5, Distinct DEF SendKills, Die, Owned, Start, Idle
<1>6. CASE Store(t)
  <2> DEFINE p == me.to
             f == me.fd
             old == {peers[p]} \ {None}
  <2>1. /\ p \in Peers /\ p \in Names /\ f \in Fds /\ owner[f] = t /\ f \notin old
        /\ listener' = listener /\ listener.dead = {} /\ listener.todo = {} /\ fate' = "up"
        /\ peers[p] # None => owner[peers[p]] = p
    BY <1>0, <1>6, Distinct DEF Store, Unlocked, Known, Owned
  <2>2. /\ peers' = [peers EXCEPT ![p] = f]
        /\ owner' = [d \in Fds |-> IF d = f THEN p ELSE IF d \in old THEN None ELSE owner[d]]
    BY <1>6 DEF Store
  <2>3. /\ threads' = [threads EXCEPT ![t] = threads'[t]] /\ threads'[t].fd = None
        /\ threads'[t].at \notin {"connect", "store"}
    BY <1>6, Moves DEF Store
  <2>4. /\ peers'[p] = f /\ \A n \in Names : n # p => peers'[n] = peers[n]
        /\ owner'[f] = p /\ \A d \in Fds : d \in old => owner'[d] = None
        /\ \A d \in Fds : d # f /\ d \notin old => owner'[d] = owner[d]
    BY <1>0, <2>1, <2>2
  <2>5. \A d \in old : d = peers[p] /\ owner[d] = p
    BY <2>1
  <2> HIDE DEF old
  <2>6. \A n \in Names : peers'[n] # None => owner'[peers'[n]] = n
    <3>1. ASSUME NEW n \in Names, n # p, peers[n] # None
          PROVE  peers[n] # f /\ peers[n] \notin old /\ owner[peers[n]] = n
      BY <2>1, <2>5, <3>1, Distinct DEF Owned
    <3> QED BY <1>0, <2>1, <2>4, <3>1
  <2>7. \A d \in Fds : owner'[d] \in Names => peers'[owner'[d]] = d
    <3>1. ASSUME NEW d \in Fds, d # f, d \notin old, owner[d] \in Names
          PROVE  owner[d] # p /\ peers[owner[d]] = d
      <4>1. peers[owner[d]] = d
        BY <3>1 DEF Owned
      <4>2. owner[d] = p => d \in {peers[p]} \ {None}
        BY <4>1, Distinct
      <4> QED BY <3>1, <4>1, <4>2 DEF old
    <3> QED BY <2>1, <2>4, <3>1, Distinct
  <2>8. \A u \in Workers : threads'[u].fd # None => owner'[threads'[u].fd] = u
    <3>1. ASSUME NEW u \in Workers, u # t, threads[u].fd # None
          PROVE  /\ threads[u].fd \in Fds /\ threads[u].fd # f
                 /\ threads[u].fd \notin old /\ owner[threads[u].fd] = u
      <4>1. threads[u].fd \in Fds /\ owner[threads[u].fd] = u
        BY <1>0, <3>1, ThreadIs DEF Owned
      <4> QED BY <2>1, <2>5, <3>1, <4>1, Distinct
    <3> QED BY <1>0, <2>3, <2>4, <3>1
  <2>9. \A d \in Fds : owner'[d] \in Workers => threads'[owner'[d]].fd = d
    <3>1. ASSUME NEW d \in Fds, d # f, owner[d] \in Workers
          PROVE  owner[d] # t /\ threads[owner[d]].fd = d
      BY <3>1 DEF Owned
    <3> QED BY <1>0, <2>1, <2>3, <2>4, <3>1, Distinct
  <2>10. \A u \in Workers : threads'[u].fd # None <=> threads'[u].at \in {"connect", "store"}
    BY <1>0, <2>3 DEF Owned
  <2>11. \A d \in Fds : peers'[d] \in {None, d}
    BY <2>1, <2>4, Distinct DEF Owned
  <2> QED BY <2>1, <2>6, <2>7, <2>8, <2>9, <2>10, <2>11 DEF Owned
<1> QED BY <1>1, <1>2, <1>3, <1>4, <1>5, <1>6 DEF ThreadStep

LEMMA ListenerOwned ==
    ASSUME TypeOK, Known, Owned, ListenerStep
    PROVE  Owned'
<1>0. /\ listener \in Listener /\ owner \in [Fds -> Names \cup Workers \cup {None}]
      /\ peers \in [Names -> Fds \cup {None}] /\ listener.dead \subseteq Names /\ fate = "up"
  BY ListenerIs DEF TypeOK, ListenerStep
<1>1. CASE Poll \/ Select \/ Lock \/ Return
  <2>1. /\ UNCHANGED <<threads, owner, peers, fate>>
        /\ listener'.dead = {} /\ listener.dead = {}
    <3>1. listener.dead = {} /\ UNCHANGED <<threads, owner, peers, fate>>
      BY <1>1 DEF Poll, Select, Lock, Return, Known, socketVars, poolVars
    <3>2. CASE Poll \/ Select \/ Return
      BY <1>0, <3>1, <3>2 DEF Poll, Select, Return, Listener
    <3>3. CASE Lock
      BY <3>1, <3>3 DEF Lock
    <3> QED BY <1>1, <3>1, <3>2, <3>3
  <2> QED BY <1>0, <2>1 DEF Owned
<1>2. CASE Accept
  <2>1. listener.dead = {} /\ listener'.dead = {} /\ UNCHANGED <<threads, fate>>
    BY <1>0, <1>2 DEF Accept, Known, Listener, poolVars
  <2>2. ASSUME NEW f \in Lowest, peers' = [peers EXCEPT ![f] = f], owner' = [owner EXCEPT ![f] = f]
        PROVE  Owned'
    <3>1. f \in Fds /\ f \in Names /\ owner[f] = None /\ peers[f] = None
      BY <1>0, <2>1, <2>2, Distinct DEF Lowest, Free, Owned
    <3> QED BY <1>0, <2>1, <2>2, <3>1, Distinct DEF Owned
  <2>3. CASE UNCHANGED socketVars
    BY <1>0, <2>1, <2>3 DEF Owned, socketVars
  <2> QED BY <1>2, <2>2, <2>3 DEF Accept
<1>3. CASE Remove
  <2>1. CASE (\E n \in listener.dead : owner[peers[n]] \notin {None, n}) /\ fate' = "wrecked"
             /\ UNCHANGED <<listener, peers, owner, threads>>
    BY <2>1 DEF Owned
  <2>2. CASE /\ ~(\E n \in listener.dead : owner[peers[n]] \notin {None, n})
             /\ peers' = [n \in Names |-> IF n \in listener.dead THEN None ELSE peers[n]]
             /\ listener' = [listener EXCEPT !.at = "poll", !.dead = {}]
             /\ UNCHANGED <<owner, threads, fate>>
    <3>1. listener'.dead = {} /\ fate' = "up"
      BY <1>0, <2>2 DEF Listener
    <3>2. \A n \in listener.dead : peers'[n] = None
      BY <1>0, <2>2
    <3>3. \A f \in Fds : owner[f] \in Names => owner[f] \notin listener.dead
      BY <1>0, Distinct DEF Owned
    <3> QED BY <1>0, <2>2, <3>1, <3>2, <3>3, Distinct DEF Owned
  <2> QED BY <1>3, <2>1, <2>2 DEF Remove, poolVars
<1>4. ASSUME NEW n \in Names, Read(n)
      PROVE  Owned'
  <2>1. CASE Receive(n)
    <3>1. listener'.dead = listener.dead /\ listener'.todo \subseteq listener.todo
          /\ UNCHANGED <<threads, fate, peers, owner>>
      BY <1>0, <1>4, <2>1 DEF Read, Receive, Listener
    <3> QED BY <3>1 DEF Owned
  <2>2. CASE Lose(n)
    <3> DEFINE f == peers[n]
    <3>1. n \in listener.todo /\ n \notin listener.dead /\ f \in Fds /\ owner[f] = n
      BY <1>0, <1>4 DEF Read, Known, Owned
    <3>2. listener'.dead = listener.dead \cup {n} /\ listener'.todo = listener.todo \ {n}
          /\ UNCHANGED <<threads, fate, peers>>
      BY <1>0, <1>4, <2>2 DEF Read, Lose, Listener
    <3>3. owner' = [owner EXCEPT ![f] = None]
      BY <1>0, <2>2, <3>1 DEF Lose, Close
    <3> QED BY <1>0, <3>1, <3>2, <3>3, Distinct DEF Owned
  <2> QED BY <1>4, <2>1, <2>2 DEF Read
<1> QED BY <1>1, <1>2, <1>3, <1>4 DEF ListenerStep

LEMMA PeerOwned ==
    ASSUME Owned, NEW f \in Fds, PeerStep(f)
    PROVE  Owned'
  BY DEF PeerStep, Deliver, HangUp, Owned, poolVars

----------------------------------------------------------------------------
(* The three together.                                                      *)

DescriptorsInv == TypeOK /\ Known /\ Owned

LEMMA DescriptorsInitially == Init => DescriptorsInv
<1> SUFFICES ASSUME Init PROVE Known /\ Owned
  BY InitTyped DEF DescriptorsInv
<1> QED BY Distinct DEF Init, Known, Owned, Start, Idle

LEMMA DescriptorsKept == DescriptorsInv /\ [Next]_vars => DescriptorsInv'
<1> SUFFICES ASSUME TypeOK, Known, Owned, [Next]_vars
             PROVE  TypeOK' /\ Known' /\ Owned'
  BY DEF DescriptorsInv
<1>1. ASSUME NEW t \in Workers, ThreadStep(t)
      PROVE  TypeOK' /\ Known' /\ Owned'
  BY <1>1, ThreadTyped, ThreadKnown, ThreadOwned
<1>2. CASE ListenerStep
  BY <1>2, ListenerTyped, ListenerKnown, ListenerOwned
<1>3. ASSUME NEW f \in Fds, PeerStep(f)
      PROVE  TypeOK' /\ Known' /\ Owned'
  BY <1>3, PeerTyped, PeerKnown, PeerOwned
<1>4. CASE Stops
  BY <1>4, StopTyped DEF Stops, Stop, Known, Owned, socketVars, poolVars
<1>5. CASE UNCHANGED vars
  BY <1>5 DEF vars, socketVars, poolVars, requestVars, TypeOK, Known, Owned
<1> QED BY <1>1, <1>2, <1>3, <1>4, <1>5 DEF Next, Finished

THEOREM DescriptorsInvariant == Spec => []DescriptorsInv
  BY DescriptorsInitially, DescriptorsKept, PTL DEF Spec

\* Every state has the shape that TypeOK says: members and locals of run_tor,
\* send_query and ThreadPool never hold anything else.
THEOREM TypeCorrect == Spec => []TypeOK
  BY DescriptorsInvariant, PTL DEF DescriptorsInv

\* As long as the model runs, nobody's socket has been closed by another, nor is
\* one left open that nobody knows (run_tor, send_query).
THEOREM SocketsExclusive == Spec => []DescriptorsExclusive
<1>1. DescriptorsInv => DescriptorsExclusive
  BY DEF DescriptorsInv, Owned, DescriptorsExclusive, Dead
<1> QED BY <1>1, DescriptorsInvariant, PTL

----------------------------------------------------------------------------
(* The listener.                                                            *)

\* A polled socket that is not in tor_peers any more was closed by a thread.
Listens ==
    /\ ListensUnlessYanked
    /\ listener.at = "select" => yanked \/ \A f \in listener.set : owner[f] \in Names

LEMMA ListensKept == DescriptorsInv /\ Listens /\ [Next]_vars => Listens'
<1> SUFFICES ASSUME TypeOK, Known, Owned, Listens, [Next]_vars
             PROVE  Listens'
  BY DEF DescriptorsInv
<1>0. /\ listener \in Listener /\ owner \in [Fds -> Names \cup Workers \cup {None}]
      /\ peers \in [Names -> Fds \cup {None}] /\ listener.set \subseteq Fds
      /\ threads \in [Workers -> Thread] /\ running \in BOOLEAN /\ yanked \in BOOLEAN
  BY ListenerIs DEF TypeOK
<1>1. ASSUME UNCHANGED <<listener, running>>, yanked => yanked',
             \A f \in Fds : owner[f] \in Names /\ owner'[f] \notin Names =>
                 yanked' \/ ~(listener.at = "select" /\ f \in listener.set)
      PROVE  Listens'
  BY <1>0, <1>1 DEF Listens, ListensUnlessYanked
<1>2. ASSUME NEW t \in Workers, ThreadStep(t)
      PROVE  Listens'
  <2> DEFINE me == threads[t]
  <2>0. me \in Thread /\ me.fd \in Fds \cup {None}
    BY <1>0, ThreadIs
  <2>1. CASE Reuse(t)
    <3> DEFINE f == peers[me.to]
    <3>1. UNCHANGED <<listener, running>> /\ yanked => yanked'
      BY <2>1 DEF Reuse, Yank
    <3>2. UNCHANGED owner \/ ((\A d \in Fds : d # f => owner'[d] = owner[d]) /\ Yank(f))
      BY <2>1 DEF Reuse, Close, socketVars
    <3> QED BY <1>1, <2>1, <3>1, <3>2 DEF Reuse, Yank
  <2>2. CASE NoConnection(t) \/ Ask(t) \/ WaitEnds(t) \/ Take(t)
    BY <1>1, <2>2 DEF NoConnection, Ask, WaitEnds, Take, socketVars
  <2>3. CASE Open(t)
    <3>1. \A f \in Fds : owner[f] \in Names => owner'[f] = owner[f]
      BY <1>0, <2>3, Distinct, ZenonT(30) DEF Open, Lowest, Free
    <3> QED BY <1>0, <1>1, <2>3, <3>1, Distinct DEF Open
  <2>4. CASE Connect(t)
    <3>1. me.fd \in Fds /\ owner[me.fd] = t
      BY <2>0, <2>4 DEF Connect, Owned
    <3>2. \A f \in Fds : owner[f] \in Names => owner'[f] = owner[f]
      BY <1>0, <2>4, <3>1, Distinct DEF Connect, Close
    <3> QED BY <1>0, <1>1, <2>4, <3>2, Distinct DEF Connect
  <2>5. CASE SendKills(t)
    BY <2>5 DEF SendKills, Die, Listens, ListensUnlessYanked, Start
  <2>6. CASE Store(t)
    <3>1. UNCHANGED <<listener, running>> /\ yanked => yanked'
      BY <2>6 DEF Store, Yank
    <3>2. \A d \in Fds : owner[d] \in Names /\ owner'[d] \notin Names => d = peers[me.to] /\ d # None
      BY <1>0, <2>6, Distinct DEF Store, Known
    <3>3. peers[me.to] # None => Yank(peers[me.to])
      BY <2>6 DEF Store
    <3> QED BY <1>1, <2>6, <3>1, <3>2, <3>3 DEF Store, Yank
  <2> QED BY <1>2, <2>1, <2>2, <2>3, <2>4, <2>5, <2>6 DEF ThreadStep
<1>3. CASE ListenerStep
  <2>1. CASE Poll
    <3>1. \A f \in Polled : owner[f] \in Names
      BY <1>0, <2>1, Distinct DEF Polled, Poll, Known, Owned
    <3> QED BY <1>0, <2>1, <3>1 DEF Poll, Listens, ListensUnlessYanked, Listener, socketVars
  <2>2. CASE Select
    BY <1>0, <2>2, Distinct DEF Select, Listens, ListensUnlessYanked, Listener, socketVars
  <2>3. CASE Accept
    BY <1>0, <2>3 DEF Accept, Listens, ListensUnlessYanked, Listener
  <2>4. CASE Lock
    BY <2>4 DEF Lock, Listens, ListensUnlessYanked
  <2>5. CASE Remove
    BY <1>0, <2>5 DEF Remove, Listens, ListensUnlessYanked, Listener
  <2>6. CASE Return
    BY <1>0, <2>6 DEF Return, Listens, ListensUnlessYanked, Listener
  <2>7. ASSUME NEW n \in Names, Read(n)
        PROVE  Listens'
    <3>1. listener.at = "reading" /\ listener'.at = "reading"
      BY <1>0, <2>7 DEF Read, Receive, Lose, Listener
    <3> QED BY <3>1 DEF Listens, ListensUnlessYanked
  <2> QED BY <1>3, <2>1, <2>2, <2>3, <2>4, <2>5, <2>6, <2>7 DEF ListenerStep
<1>4. ASSUME NEW f \in Fds, PeerStep(f)
      PROVE  Listens'
  BY <1>1, <1>4 DEF PeerStep, Deliver, HangUp
<1>5. CASE Stops
  BY <1>5 DEF Stops, Stop, Listens, ListensUnlessYanked, socketVars
<1>6. CASE UNCHANGED vars
  BY <1>1, <1>6 DEF vars, socketVars
<1> QED BY <1>2, <1>3, <1>4, <1>5, <1>6 DEF Next, Finished

\* run_tor does not return before the node is told to stop, unless a thread has
\* closed a socket that run_tor was about to poll (the break after select).
THEOREM ListensOtherwise == Spec => []ListensUnlessYanked
<1>1. Init => Listens
  BY DEF Init, Listens, ListensUnlessYanked, Start
<1>2. Listens => ListensUnlessYanked
  BY DEF Listens
<1> QED BY <1>1, <1>2, DescriptorsInvariant, ListensKept, PTL DEF Spec

----------------------------------------------------------------------------
(* The streams.                                                             *)

\* What has been received on an accepted connection and not yet been cut into
\* messages: pairs of halves, and perhaps a first half, of the message that the
\* peer is sending.
Whole(s, l) ==
    /\ \A i \in 1..Len(s) :
          i % 2 = 1 => /\ s[i].part = 1
                       /\ i < Len(s) => s[i + 1].part = 2 /\ s[i + 1].msg = s[i].msg
                       /\ i = Len(s) => l.shut \/ l.half = s[i].msg
    /\ ~l.shut => (l.half # None <=> Len(s) % 2 = 1)

Streams ==
    /\ tasks \in Seq(Message)
    /\ \A f \in Fds : owner[f] # f => link[f].unread = <<>> /\ link[f].half = None
    /\ \A f \in Fds : owner[f] = f => Whole(buffers[f] \o link[f].unread, link[f])

LEMMA FramesWhole ==
    ASSUME NEW s \in Seq(Half), NEW l, Whole(s, l)
    PROVE  Frames(s) \in Seq(Message)
<1> DEFINE n == Len(s) \div 2
<1>1. n \in Nat /\ Len(s) \in Nat
  BY SeqIs, Halves
<1>2. ASSUME NEW i \in 1..n
      PROVE  /\ s[2 * i - 1].part = 1 /\ s[2 * i].part = 2 /\ s[2 * i - 1].msg = s[2 * i].msg
             /\ s[2 * i].msg \in Message
  <2>1. 2 * i - 1 \in 1..Len(s) /\ 2 * i \in 1..Len(s)
    BY <1>1, Halves
  <2>2. (2 * i - 1) % 2 = 1 /\ 2 * i - 1 < Len(s) /\ (2 * i - 1) + 1 = 2 * i
    BY <1>1, <2>1, SMT
  <2>3. s[2 * i] \in Half
    BY <2>1, SeqIs
  <2> QED BY <2>1, <2>2, <2>3 DEF Whole, Half
<1>3. Frames(s) \in [1..n -> Message]
  BY <1>2 DEF Frames
<1> QED BY <1>1, <1>3, IsSeq

LEMMA RestWhole ==
    ASSUME NEW s \in Seq(Half), NEW l, NEW k, Whole(s, l), k.shut = l.shut, k.half = l.half
    PROVE  Whole(Rest(s) \o <<>>, k)
<1>1. Rest(s) \o <<>> = Rest(s)
  BY RestIs, ConcatEmptySeq
<1>2. CASE Len(s) % 2 = 0
  <2>1. Rest(s) = <<>> /\ Len(<<>>) = 0
    BY <1>2 DEF Rest
  <2> QED BY <1>1, <1>2, <2>1 DEF Whole
<1>3. CASE Len(s) % 2 # 0
  <2>1. Len(s) % 2 = 1 /\ Len(s) \in 1..Len(s)
    BY <1>3, SeqIs, Halves, SMT
  <2>2. Rest(s) = <<s[Len(s)]>>
    BY <1>3 DEF Rest
  <2>3. Len(<<s[Len(s)]>>) = 1 /\ <<s[Len(s)]>>[1] = s[Len(s)]
    OBVIOUS
  <2>4. s[Len(s)].part = 1 /\ (l.shut \/ l.half = s[Len(s)].msg)
    BY <2>1 DEF Whole
  <2>5. ~l.shut => l.half # None
    BY <2>1 DEF Whole
  <2> QED BY <1>1, <2>2, <2>3, <2>4, <2>5 DEF Whole
<1> QED BY <1>2, <1>3

\* What a half does to a stream.
LEMMA WholeGrows ==
    ASSUME NEW b \in Seq(Half), NEW u \in Seq(Half), NEW h \in Half, NEW l \in Link, NEW k,
           Whole(b \o u, l), ~l.shut, k.shut = l.shut,
           \/ l.half # None /\ h = [msg |-> l.half, part |-> 2] /\ k.half = None
           \/ l.half = None /\ h.part = 1 /\ k.half = h.msg
    PROVE  Whole(b \o Append(u, h), k)
<1> DEFINE s == b \o u
           t == b \o Append(u, h)
           n == Len(b) + Len(u)
<1>1. /\ Len(b) \in Nat /\ Len(u) \in Nat /\ Len(s) = n
      /\ \A i \in 1..n : s[i] = IF i <= Len(b) THEN b[i] ELSE u[i - Len(b)]
  BY Joined, SeqIs
<1>2. /\ Append(u, h) \in Seq(Half) /\ Len(Append(u, h)) = Len(u) + 1
      /\ Append(u, h)[Len(u) + 1] = h
      /\ \A i \in 1..Len(u) : Append(u, h)[i] = u[i]
  BY AppendProperties
<1>3. /\ Len(t) = n + 1
      /\ \A i \in 1..(n + 1) : t[i] = IF i <= Len(b) THEN b[i] ELSE Append(u, h)[i - Len(b)]
  <2>1. /\ Len(t) = Len(b) + Len(Append(u, h))
        /\ \A i \in 1..(Len(b) + Len(Append(u, h))) :
              t[i] = IF i <= Len(b) THEN b[i] ELSE Append(u, h)[i - Len(b)]
    BY <1>2, Joined
  <2>2. Len(b) + Len(Append(u, h)) = n + 1
    BY <1>1, <1>2
  <2> QED BY <2>1, <2>2
<1>4. t[n + 1] = h
  BY <1>1, <1>2, <1>3
<1>5. \A i \in 1..n : t[i] = s[i]
  BY <1>1, <1>2, <1>3
<1>6. n \in Nat /\ h.msg # None
  BY <1>1, PeersAssumption DEF Half
<1> HIDE DEF s, t, n
<1>7. CASE l.half # None
  <2>1. n % 2 = 1 /\ n \in 1..n /\ (n + 1) % 2 = 0
    BY <1>1, <1>6, <1>7, SMT DEF Whole, s
  <2>2. s[n].part = 1 /\ s[n].msg = l.half
    BY <1>1, <2>1 DEF Whole, s
  <2>3. h.part = 2 /\ h.msg = s[n].msg /\ k.half = None
    BY <1>7, <2>2
  <2>4. ASSUME NEW i \in 1..(n + 1), i % 2 = 1
        PROVE  i < n + 1 /\ i # n + 1 /\ t[i].part = 1 /\ t[i + 1].part = 2 /\ t[i + 1].msg = t[i].msg
    <3>1. i \in 1..n
      BY <1>6, <2>1, <2>4
    <3>2. CASE i = n
      BY <1>4, <1>5, <2>2, <2>3, <3>1, <3>2
    <3>3. CASE i # n
      <4>1. i < n /\ i + 1 \in 1..n
        BY <1>6, <3>1, <3>3
      <4>2. s[i].part = 1 /\ s[i + 1].part = 2 /\ s[i + 1].msg = s[i].msg
        BY <1>1, <2>4, <3>1, <4>1 DEF Whole, s
      <4> QED BY <1>5, <1>6, <3>1, <4>1, <4>2
    <3> QED BY <3>2, <3>3
  <2>5. k.half # None <=> (n + 1) % 2 = 1
    BY <2>1, <2>3
  <2>6. \A i \in 1..(n + 1) :
          i % 2 = 1 => /\ t[i].part = 1
                       /\ i < n + 1 => t[i + 1].part = 2 /\ t[i + 1].msg = t[i].msg
                       /\ i = n + 1 => k.shut \/ k.half = t[i].msg
    BY <2>4
  <2>7. Whole(t, k)
    BY <1>3, <2>5, <2>6 DEF Whole
  <2> QED BY <2>7 DEF t
<1>8. CASE l.half = None
  <2>1. n % 2 = 0 /\ (n + 1) % 2 = 1 /\ n + 1 \in 1..(n + 1)
    <3>1. n % 2 # 1
      BY <1>1, <1>8 DEF Whole, s
    <3> QED BY <1>6, <3>1, SMT
  <2>2. ASSUME NEW i \in 1..(n + 1), i % 2 = 1
        PROVE  /\ t[i].part = 1
               /\ i < n + 1 => t[i + 1].part = 2 /\ t[i + 1].msg = t[i].msg
               /\ i = n + 1 => k.half = t[i].msg
    <3>1. CASE i = n + 1
      BY <1>4, <1>6, <1>8, <3>1
    <3>2. CASE i # n + 1
      <4>1. i \in 1..n /\ i < n /\ i + 1 \in 1..n
        BY <1>6, <2>1, <2>2, <3>2, SMT
      <4>2. s[i].part = 1 /\ s[i + 1].part = 2 /\ s[i + 1].msg = s[i].msg
        BY <1>1, <2>2, <4>1 DEF Whole, s
      <4> QED BY <1>5, <1>6, <4>1, <4>2
    <3> QED BY <3>1, <3>2
  <2>3. k.half # None
    BY <1>6, <1>8
  <2>4. Whole(t, k)
    BY <1>3, <2>1, <2>2, <2>3 DEF Whole
  <2> QED BY <2>4 DEF t
<1> QED BY <1>7, <1>8

LEMMA WholeWhenShut ==
    ASSUME NEW s, NEW l, NEW k, Whole(s, l), k.shut = TRUE
    PROVE  Whole(s, k)
  BY DEF Whole

\* A socket that nothing has happened to, and one that is closed or new.
Same(f) ==
    /\ owner'[f] = owner[f]
    /\ link'[f] = link[f]
    /\ owner[f] = f => buffers'[f] = buffers[f]

Blank(f) == owner'[f] # f /\ link'[f].unread = <<>> /\ link'[f].half = None

LEMMA StreamsKept == DescriptorsInv /\ Streams /\ [Next]_vars => Streams'
<1> SUFFICES ASSUME TypeOK, Known, Owned, Streams, [Next]_vars
             PROVE  Streams'
  BY DEF DescriptorsInv
<1>0. /\ listener \in Listener /\ owner \in [Fds -> Names \cup Workers \cup {None}]
      /\ peers \in [Names -> Fds \cup {None}] /\ threads \in [Workers -> Thread]
      /\ link \in [Fds -> Link] /\ buffers \in [Names -> Seq(Half)]
      /\ \A f \in Fds : link[f] \in Link /\ link[f].unread \in Seq(Half) /\ buffers[f] \in Seq(Half)
  BY LinkIs, Distinct DEF TypeOK
<1>1. ASSUME tasks' \in Seq(Message), \A f \in Fds : Same(f) \/ Blank(f)
      PROVE  Streams'
  <2>1. ASSUME NEW f \in Fds, owner'[f] # f
        PROVE  link'[f].unread = <<>> /\ link'[f].half = None
    BY <1>1, <2>1 DEF Streams, Same, Blank
  <2>2. ASSUME NEW f \in Fds, owner'[f] = f
        PROVE  Whole(buffers'[f] \o link'[f].unread, link'[f])
    <3>1. link'[f] = link[f] /\ buffers'[f] = buffers[f] /\ owner[f] = f
      BY <1>1, <2>2 DEF Same, Blank
    <3>2. Whole(buffers[f] \o link[f].unread, link[f])
      BY <3>1 DEF Streams
    <3> QED BY <3>1, <3>2
  <2> QED BY <1>1, <2>1, <2>2 DEF Streams
<1>2. NoLink.unread = <<>> /\ NoLink.half = None /\ \A p : [NoLink EXCEPT !.peer = p].unread = <<>>
      /\ \A q : [NoLink EXCEPT !.peer = q].half = None
  BY DEF NoLink
<1>3. ASSUME NEW t \in Workers, ThreadStep(t)
      PROVE  Streams'
  <2> DEFINE me == threads[t]
  <2>0. me \in Thread /\ me.fd \in Fds \cup {None}
    BY <1>0, ThreadIs
  <2>1. CASE NoConnection(t) \/ Ask(t) \/ WaitEnds(t)
    BY <1>1, <2>1 DEF NoConnection, Ask, WaitEnds, socketVars, Streams, Same
  <2>2. CASE Take(t)
    <3>1. tasks' \in Seq(Message)
      BY <2>2, HeadTailProperties DEF Take, Streams
    <3>2. UNCHANGED <<owner, link, buffers>>
      BY <2>2 DEF Take, socketVars
    <3> QED BY <1>1, <3>1, <3>2 DEF Same
  <2>3. CASE Reuse(t)
    <3>1. tasks' \in Seq(Message) /\ buffers' = buffers
      BY <2>3 DEF Reuse, Streams, socketVars
    <3>2. UNCHANGED <<owner, link>> \/ Close({peers[me.to]})
      BY <2>3 DEF Reuse, socketVars
    <3>3. ASSUME NEW f \in Fds
          PROVE  Same(f) \/ Blank(f)
      <4>1. \/ owner'[f] = owner[f] /\ link'[f] = link[f]
            \/ owner'[f] = None /\ link'[f] = NoLink
        BY <3>2 DEF Close
      <4> QED BY <1>2, <3>1, <4>1, Distinct DEF Same, Blank
    <3> QED BY <1>1, <3>1, <3>3
  <2>4. CASE Open(t)
    <3>1. tasks' \in Seq(Message) /\ buffers' = buffers
      BY <2>4 DEF Open, Streams
    <3>2. ASSUME NEW f \in Fds
          PROVE  Same(f) \/ Blank(f)
      <4>1. \/ owner'[f] = owner[f] /\ link'[f] = link[f]
            \/ owner'[f] = t /\ link'[f] = [NoLink EXCEPT !.peer = me.to]
        BY <1>0, <2>4 DEF Open
      <4> QED BY <1>2, <3>1, <4>1, Distinct DEF Same, Blank
    <3> QED BY <1>1, <3>1, <3>2
  <2>5. CASE Connect(t)
    <3>1. tasks' \in Seq(Message) /\ buffers' = buffers
      BY <2>5 DEF Connect, Streams
    <3>2. ASSUME NEW f \in Fds
          PROVE  Same(f) \/ Blank(f)
      <4>1. \/ owner'[f] = owner[f] /\ link'[f] = link[f]
            \/ owner'[f] = None /\ link'[f] = NoLink
        BY <2>5 DEF Connect, Close
      <4> QED BY <1>2, <3>1, <4>1, Distinct DEF Same, Blank
    <3> QED BY <1>1, <3>1, <3>2
  <2>6. CASE SendKills(t)
    <3>1. Die /\ <<>> \in Seq(Message)
      BY <2>6, EmptySeq DEF SendKills
    <3> QED BY <1>2, <3>1, Distinct DEF Die, Streams
  <2>7. CASE Store(t)
    <3>1. tasks' \in Seq(Message) /\ buffers' = buffers
      BY <2>7 DEF Store, Streams
    <3>2. me.fd \in Fds /\ owner[me.fd] = t /\ me.to \in Peers
      BY <2>0, <2>7 DEF Store, Owned, Known
    <3>3. ASSUME NEW f \in Fds
          PROVE  Same(f) \/ Blank(f)
      <4>1. \/ owner'[f] = owner[f] /\ link'[f] = link[f]
            \/ owner'[f] = None /\ link'[f] = NoLink
            \/ owner'[f] = me.to /\ owner[f] = t /\ (link'[f] = link[f] \/ link'[f] = NoLink)
        BY <2>7, <3>2 DEF Store
      <4>2. owner[f] = t => link[f].unread = <<>> /\ link[f].half = None
        BY Distinct DEF Streams
      <4> QED BY <1>2, <3>1, <3>2, <4>1, <4>2, Distinct DEF Same, Blank
    <3> QED BY <1>1, <3>1, <3>3
  <2> QED BY <1>3, <2>1, <2>2, <2>3, <2>4, <2>5, <2>6, <2>7 DEF ThreadStep
<1>4. CASE ListenerStep
  <2>1. CASE Poll \/ Select \/ Lock \/ Return
    BY <1>1, <2>1 DEF Poll, Select, Lock, Return, socketVars, poolVars, Streams, Same
  <2>2. CASE Accept
    <3>1. ASSUME NEW f \in Lowest, NEW p \in Peers,
                 buffers' = [buffers EXCEPT ![f] = <<>>],
                 owner' = [owner EXCEPT ![f] = f],
                 link' = [link EXCEPT ![f] = [NoLink EXCEPT !.peer = p]]
          PROVE  Streams'
      <4>1. f \in Fds /\ f \in Names
        BY <3>1, Distinct DEF Lowest, Free
      <4>2. tasks' = tasks
        BY <2>2 DEF Accept, poolVars
      <4>3. Whole(buffers'[f] \o link'[f].unread, link'[f])
        <5>1. buffers'[f] = <<>> /\ link'[f].unread = <<>> /\ link'[f].half = None
          BY <1>0, <1>2, <3>1, <4>1
        <5>2. <<>> \o <<>> = <<>> /\ Len(<<>>) = 0
          BY EmptySeq, ConcatEmptySeq
        <5> QED BY <5>1, <5>2 DEF Whole
      <4>4. ASSUME NEW g \in Fds, g # f
            PROVE  owner'[g] = owner[g] /\ link'[g] = link[g] /\ buffers'[g] = buffers[g]
        BY <1>0, <3>1, <4>1, <4>4, Distinct
      <4>5. owner'[f] = f
        BY <1>0, <3>1, <4>1
      <4> QED BY <4>2, <4>3, <4>4, <4>5 DEF Streams
    <3>2. CASE UNCHANGED socketVars
      BY <1>1, <2>2, <3>2 DEF Accept, socketVars, poolVars, Streams, Same
    <3> QED BY <2>2, <3>1, <3>2 DEF Accept
  <2>3. CASE Remove
    <3>1. UNCHANGED <<owner, link, tasks>>
      BY <2>3 DEF Remove, poolVars
    <3>2. ASSUME NEW f \in Fds, owner[f] = f
          PROVE  buffers'[f] = buffers[f]
      <4>1. f \in Names /\ peers[f] = f
        BY <3>2, Distinct DEF Owned
      <4>2. f \notin listener.dead
        BY <3>2, <4>1 DEF Owned
      <4> QED BY <2>3, <4>1, <4>2 DEF Remove
    <3> QED BY <1>1, <3>1, <3>2 DEF Streams, Same
  <2>4. ASSUME NEW n \in Names, Read(n)
        PROVE  Streams'
    <3> DEFINE f == peers[n]
    <3>1. f \in Fds /\ owner[f] = n
      BY <1>0, <2>4 DEF Read, Known, Owned
    <3>2. CASE Receive(n)
      <4> DEFINE all == buffers[n] \o link[f].unread
      <4>1. n = f /\ owner' = owner
        BY <3>1, <3>2 DEF Receive, Streams
      <4>2. all \in Seq(Half) /\ Whole(all, link[f])
        BY <1>0, <3>1, <4>1, Joined DEF Streams
      <4>3. tasks' \in Seq(Message)
        <5>1. Frames(all) \in Seq(Message) /\ tasks \in Seq(Message)
          BY <4>2, FramesWhole DEF Streams
        <5> QED BY <3>2, <5>1, Joined DEF Receive
      <4>4. buffers'[f] = Rest(all) /\ link'[f] = [link[f] EXCEPT !.unread = <<>>]
        BY <1>0, <3>1, <3>2, <4>1 DEF Receive
      <4>5. link'[f].unread = <<>> /\ link'[f].shut = link[f].shut /\ link'[f].half = link[f].half
        BY <1>0, <3>1, <4>4 DEF Link
      <4>6. Whole(buffers'[f] \o link'[f].unread, link'[f])
        BY <4>2, <4>4, <4>5, RestWhole
      <4>7. ASSUME NEW g \in Fds, g # f
            PROVE  link'[g] = link[g] /\ buffers'[g] = buffers[g]
        BY <1>0, <3>1, <3>2, <4>1, <4>7, Distinct DEF Receive
      <4> QED BY <3>1, <4>1, <4>3, <4>6, <4>7 DEF Streams
    <3>3. CASE Lose(n)
      <4>1. tasks' \in Seq(Message) /\ buffers' = buffers
        BY <3>3 DEF Lose, Streams
      <4>2. ASSUME NEW g \in Fds
            PROVE  Same(g) \/ Blank(g)
        <5>1. \/ owner'[g] = owner[g] /\ link'[g] = link[g]
              \/ owner'[g] = None /\ link'[g] = NoLink
          BY <3>3 DEF Lose, Close
        <5> QED BY <1>2, <4>1, <5>1, Distinct DEF Same, Blank
      <4> QED BY <1>1, <4>1, <4>2
    <3> QED BY <2>4, <3>2, <3>3 DEF Read
  <2> QED BY <1>4, <2>1, <2>2, <2>3, <2>4 DEF ListenerStep
<1>5. ASSUME NEW f \in Fds, PeerStep(f)
      PROVE  Streams'
  <2>0. UNCHANGED <<tasks, owner, buffers>> /\ ~link[f].shut /\ \A g \in Fds : g # f => link'[g] = link[g]
    BY <1>0, <1>5 DEF PeerStep, Deliver, HangUp, poolVars
  <2>1. ASSUME owner[f] = f => Whole(buffers[f] \o link'[f].unread, link'[f]),
               owner[f] # f => link'[f].unread = <<>> /\ link'[f].half = None
        PROVE  Streams'
    BY <2>0, <2>1 DEF Streams
  <2>2. CASE Deliver(f)
    <3>1. owner[f] = f /\ Whole(buffers[f] \o link[f].unread, link[f])
      BY <2>2 DEF Deliver, Streams
    <3>2. ASSUME NEW h \in Half, NEW half, link' = [link EXCEPT ![f].unread = Append(@, h), ![f].half = half],
                 \/ link[f].half # None /\ h = [msg |-> link[f].half, part |-> 2] /\ half = None
                 \/ link[f].half = None /\ h.part = 1 /\ half = h.msg
          PROVE  Streams'
      <4>1. link'[f].unread = Append(link[f].unread, h) /\ link'[f].half = half /\ link'[f].shut = link[f].shut
        BY <1>0, <3>2 DEF Link
      <4>2. Whole(buffers[f] \o Append(link[f].unread, h), link'[f])
        <5>1. \/ link[f].half # None /\ h = [msg |-> link[f].half, part |-> 2] /\ link'[f].half = None
              \/ link[f].half = None /\ h.part = 1 /\ link'[f].half = h.msg
          BY <3>2, <4>1
        <5>2. buffers[f] \in Seq(Half) /\ link[f].unread \in Seq(Half) /\ link[f] \in Link
          BY <1>0
        <5> HIDE <3>2
        <5> QED BY <2>0, <3>1, <4>1, <5>1, <5>2, WholeGrows
      <4> QED BY <2>1, <3>1, <4>1, <4>2
    <3>3. CASE link[f].half # None
      <4>1. [msg |-> link[f].half, part |-> 2] \in Half
        BY <1>0, <3>3 DEF Link, Half
      <4> QED BY <2>2, <3>2, <3>3, <4>1 DEF Deliver
    <3>4. CASE link[f].half = None
      <4>1. PICK m : link' = [link EXCEPT ![f].unread = Append(@, [msg |-> m, part |-> 1]), ![f].half = m]
                     /\ m \in Message
        <5>1. link[f].peer \in Peers
          BY <3>1, Distinct DEF Known
        <5>2. [kind |-> "ping", from |-> link[f].peer, tid |-> None] \in Message
          BY <5>1 DEF Message
        <5>3. \A tid \in owed[link[f].peer] : [kind |-> "reply", from |-> link[f].peer, tid |-> tid] \in Message
          BY <5>1 DEF Message, TypeOK
        <5> QED BY <2>2, <3>4, <5>2, <5>3 DEF Deliver
      <4>2. [msg |-> m, part |-> 1] \in Half
        BY <4>1 DEF Half
      <4> QED BY <3>2, <3>4, <4>1, <4>2
    <3> QED BY <3>3, <3>4
  <2>3. CASE HangUp(f)
    <3>1. link'[f].unread = link[f].unread /\ link'[f].shut = TRUE /\ link'[f].half = None
      BY <1>0, <2>3 DEF HangUp, Link
    <3>2. owner[f] = f => Whole(buffers[f] \o link'[f].unread, link'[f])
      BY <3>1, WholeWhenShut DEF Streams
    <3> QED BY <2>1, <3>1, <3>2 DEF Streams
  <2> QED BY <1>5, <2>2, <2>3 DEF PeerStep
<1>6. CASE Stops
  BY <1>1, <1>6 DEF Stops, Stop, socketVars, poolVars, Streams, Same
<1>7. CASE UNCHANGED vars
  BY <1>1, <1>7 DEF vars, socketVars, poolVars, Streams, Same
<1> QED BY <1>3, <1>4, <1>5, <1>6, <1>7 DEF Next, Finished

\* The pool is only given what a peer has sent so: the bytes of two connections
\* never meet in a buffer (client_buffers in run_tor).
THEOREM MessagesWhole == Spec => []WholeMessages
<1>1. Init => Streams
  <2>1. NoLink.unread = <<>> /\ NoLink.half = None /\ <<>> \in Seq(Message)
    BY EmptySeq DEF NoLink
  <2> QED BY <2>1, Distinct DEF Init, Streams
<1>2. Streams => WholeMessages
  <2>1. ASSUME NEW s \in Seq(Message), NEW i \in DOMAIN s
        PROVE  s[i].kind # "garbage"
    <3>1. s[i] \in Message
      BY SeqIs
    <3> QED BY <3>1 DEF Message
  <2> QED BY <2>1 DEF Streams, WholeMessages
<1> QED BY <1>1, <1>2, DescriptorsInvariant, StreamsKept, PTL DEF Spec
=============================================================================
