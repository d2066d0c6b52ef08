--------------------------- MODULE Network_proofs ---------------------------
(***************************************************************************)
(* Proofs about the machines at the edge of a node, for any sets of calls,  *)
(* ids, daemons, ports, nodes and threads, and about their composition.     *)
(*                                                                          *)
(* PendingRequests: NoLeakedPromise and NoStrandedWaiter support each other: *)
(* the promise a map entry holds is always the one of a live call without a *)
(* reply, and a live call without a reply always owns the entry of its tid. *)
(* IInv adds what the history of a future allows (Provenance) and how the   *)
(* outcome of a call follows from it (OutcomeFollows).                      *)
(*                                                                          *)
(* NodeStart: one daemon starts at a time, unless the ghost says otherwise. *)
(* One with a Tor of its own has the first hidden service and the first     *)
(* port, one that found Tor running the second of both (OwnerOK, GuestOK),  *)
(* as the owner of Tor still serves when the other one looks for a port     *)
(* (StartOK).  With a key file, who generates a key finds no file, so that  *)
(* nobody serves until it is written (KeyInv).                              *)
(*                                                                          *)
(* Datagrams: what a thread works on was taken from the socket.             *)
(***************************************************************************)
EXTENDS MCNetwork, ReticulumLink_proofs, FiniteSetTheorems

(* The calls that wait for replies.                                         *)

\* A call that has not started has drawn no tid and got no reply, and only
\* started calls have queries on the network.
FreshCalls ==
    /\ \A r \in Requests :
          /\ pc[r] = "idle" => tid[r] = None /\ future[r] = Unset
          /\ pc[r] # "idle" => tid[r] \in Tids
          /\ r \in sent => pc[r] # "idle"
    /\ answered \subseteq sent

\* A reply in a future was sent and has the tid of the call; a broken promise
\* was broken by another call with the same tid.
Provenance ==
    \A r \in Requests :
        /\ future[r] \in Requests => /\ tid[future[r]] = tid[r]
                                     /\ future[r] \in answered
        /\ future[r] = Broken => SharesTid(r)

\* A call returns once, and "ok" and "threw" are what its future held.
OutcomeFollows ==
    \A r \in Requests :
        /\ pc[r] # "returned" => outcome[r] = None
        /\ outcome[r] = "ok" => future[r] \in Requests
        /\ outcome[r] = "threw" => future[r] = Broken

\* The inductive invariant.
IInv ==
    /\ TypeOK
    /\ NoLeakedPromise
    /\ NoStrandedWaiter
    /\ FreshCalls
    /\ Provenance
    /\ OutcomeFollows

----------------------------------------------------------------------------

\* Type correctness of the initial states and of every step.
LEMMA InitTyped == Init => TypeOK
  BY DEF Init, TypeOK, Places, Outcomes

\* Every step keeps the types.
LEMMA StepTyped == TypeOK /\ [Next]_vars => TypeOK'
  <1> SUFFICES ASSUME TypeOK, [Next]_vars
               PROVE  TypeOK'
    OBVIOUS
  <1> USE DEF TypeOK, Places, Outcomes, caller, network
  <1>1. ASSUME NEW r \in Requests, Register(r)
        PROVE  TypeOK'
    BY <1>1 DEF Register
  <1>2. ASSUME NEW r \in Requests, SendQuery(r)
        PROVE  TypeOK'
    BY <1>2 DEF SendQuery
  <1>3. ASSUME NEW r \in Requests, SendQueryThrows(r)
        PROVE  TypeOK'
    BY <1>3 DEF SendQueryThrows, Erase, Returns
  <1>4. ASSUME NEW r \in Requests, WaitExpires(r)
        PROVE  TypeOK'
    BY <1>4 DEF WaitExpires
  <1>5. ASSUME NEW r \in Requests, GiveUp(r)
        PROVE  TypeOK'
    BY <1>5 DEF GiveUp, Erase, Returns
  <1>6. ASSUME NEW r \in Requests, Collect(r)
        PROVE  TypeOK'
    BY <1>6 DEF Collect, Returns
  <1>7. ASSUME NEW r \in Requests, PeerResponds(r)
        PROVE  TypeOK'
    BY <1>7 DEF PeerResponds
  <1>8. ASSUME NEW r \in Requests, PeerRefuses(r)
        PROVE  TypeOK'
    BY <1>8 DEF PeerRefuses
  <1>9. ASSUME NEW r \in Requests, DeliverResponse(r)
        PROVE  TypeOK'
    BY <1>9 DEF DeliverResponse
  <1>10. CASE UNCHANGED vars
    BY <1>10 DEF vars
  <1>11. CASE Finished
    BY <1>11 DEF Finished, vars
  <1> QED
    BY <1>1, <1>2, <1>3, <1>4, <1>5, <1>6, <1>7, <1>8, <1>9, <1>10, <1>11
    DEF Next, Call, Remote

\* Type correctness: the variables of the matching protocol keep their types.
THEOREM TypeCorrect == Spec => []TypeOK
  <1>1. QED
    BY InitTyped, StepTyped, PTL DEF Spec

----------------------------------------------------------------------------

\* The inductive invariant holds before the first call.
LEMMA InitIInv == Init => IInv
  BY InitTyped, SentinelsDistinct
  DEF Init, IInv, NoLeakedPromise, NoStrandedWaiter, FreshCalls, Provenance,
      OutcomeFollows, SharesTid, TypeOK

\* erase(tid) by a call that leaves: the step shared by the timeout and by the
\* failed send.
LEMMA LeavingPreserves ==
  ASSUME IInv, NEW r \in Requests, NEW how \in {"timeout", "unsent"},
         pc[r] \in {"registered", "expired"},
         Erase(tid[r], r), Returns(r, how), UNCHANGED <<tid, network>>,
         TypeOK'
  PROVE  IInv'
  <1> USE SentinelsDistinct DEF IInv, TypeOK, network
  <1>0. tid[r] \in Tids /\ tid[r] # None
    BY DEF FreshCalls
  <1>1. NoLeakedPromise'
    BY <1>0 DEF NoLeakedPromise, Erase, Returns
  <1>2. NoStrandedWaiter'
    BY <1>0 DEF NoLeakedPromise, NoStrandedWaiter, FreshCalls, Erase, Returns
  <1>3. FreshCalls'
    BY <1>0 DEF NoLeakedPromise, FreshCalls, Erase, Returns
  <1>4. Provenance'
    BY <1>0 DEF NoLeakedPromise, Provenance, SharesTid, Erase, Returns
  <1>5. OutcomeFollows'
    BY <1>0 DEF NoLeakedPromise, OutcomeFollows, Erase, Returns
  <1> QED
    BY <1>1, <1>2, <1>3, <1>4, <1>5

\* Every step of a caller, a peer or the listener keeps the inductive invariant.
LEMMA StepIInv == IInv /\ [Next]_vars => IInv'
  <1> SUFFICES ASSUME IInv, [Next]_vars
               PROVE  IInv'
    OBVIOUS
  <1>0. TypeOK'
    BY StepTyped DEF IInv
  <1> USE <1>0, SentinelsDistinct DEF IInv, TypeOK, caller, network
  <1>1. ASSUME NEW r \in Requests, Register(r)
        PROVE  IInv'
    <2>1. PICK t \in Tids :
             /\ tid' = [tid EXCEPT ![r] = t]
             /\ pending' = [pending EXCEPT ![t] = r]
             /\ future' = [q \in Requests |->
                              IF pending[t] = q THEN Broken ELSE future[q]]
      BY <1>1 DEF Register
    <2>2. /\ pc[r] = "idle" /\ pc' = [pc EXCEPT ![r] = "registered"]
          /\ outcome' = outcome /\ sent' = sent /\ answered' = answered
      BY <1>1 DEF Register
    <2>3. tid[r] = None /\ future[r] = Unset /\ pending[t] # r
      BY <2>2 DEF FreshCalls, NoLeakedPromise
    <2>4. NoLeakedPromise'
      BY <2>1, <2>2, <2>3 DEF NoLeakedPromise
    <2>5. NoStrandedWaiter'
      BY <2>1, <2>2, <2>3 DEF NoLeakedPromise, NoStrandedWaiter, FreshCalls
    <2>6. FreshCalls'
      BY <2>1, <2>2, <2>3 DEF NoLeakedPromise, FreshCalls
    <2>7. Provenance'
      <3> SUFFICES ASSUME NEW p \in Requests
                   PROVE  /\ future'[p] \in Requests =>
                                 /\ tid'[future'[p]] = tid'[p]
                                 /\ future'[p] \in answered'
                          /\ future'[p] = Broken => SharesTid(p)'
        BY DEF Provenance
      <3>1. future[p] \in Requests /\ future'[p] \in Requests =>
               /\ tid'[future'[p]] = tid'[p]
               /\ future'[p] \in answered'
        BY <2>1, <2>2, <2>3 DEF Provenance, FreshCalls
      <3>2. future'[p] \in Requests => future[p] \in Requests
        BY <2>1
      <3>3. CASE pending[t] = p
        BY <3>3, <2>1, <2>2, <2>3, <3>1, <3>2 DEF NoLeakedPromise, SharesTid
      <3>4. CASE pending[t] # p /\ future[p] = Broken
        <4>1. PICK q \in Requests \ {p} : tid[q] = tid[p]
          BY <3>4 DEF Provenance, SharesTid
        <4>2. p # r /\ q # r
          BY <4>1, <3>4, <2>3 DEF FreshCalls
        <4> QED
          BY <4>1, <4>2, <3>1, <3>2, <2>1 DEF SharesTid
      <3> QED
        BY <3>1, <3>2, <3>3, <3>4, <2>1
    <2>8. OutcomeFollows'
      BY <2>1, <2>2, <2>3 DEF NoLeakedPromise, OutcomeFollows
    <2> QED
      BY <2>4, <2>5, <2>6, <2>7, <2>8
  <1>2. ASSUME NEW r \in Requests, SendQuery(r)
        PROVE  IInv'
    BY <1>2 DEF SendQuery, NoLeakedPromise, NoStrandedWaiter, FreshCalls,
                Provenance, OutcomeFollows, SharesTid
  <1>3. ASSUME NEW r \in Requests, SendQueryThrows(r)
        PROVE  IInv'
    BY <1>3, LeavingPreserves DEF SendQueryThrows
  <1>4. ASSUME NEW r \in Requests, WaitExpires(r)
        PROVE  IInv'
    BY <1>4 DEF WaitExpires, NoLeakedPromise, NoStrandedWaiter, FreshCalls,
                Provenance, OutcomeFollows, SharesTid
  <1>5. ASSUME NEW r \in Requests, GiveUp(r)
        PROVE  IInv'
    BY <1>5, LeavingPreserves DEF GiveUp
  <1>6. ASSUME NEW r \in Requests, Collect(r)
        PROVE  IInv'
    BY <1>6 DEF Collect, Returns, NoLeakedPromise, NoStrandedWaiter,
                FreshCalls, Provenance, OutcomeFollows, SharesTid
  <1>7. ASSUME NEW r \in Requests, PeerResponds(r)
        PROVE  IInv'
    BY <1>7 DEF PeerResponds, NoLeakedPromise, NoStrandedWaiter, FreshCalls,
                Provenance, OutcomeFollows, SharesTid
  <1>8. ASSUME NEW r \in Requests, PeerRefuses(r)
        PROVE  IInv'
    BY <1>8 DEF PeerRefuses, NoLeakedPromise, NoStrandedWaiter, FreshCalls,
                Provenance, OutcomeFollows, SharesTid
  <1>9. ASSUME NEW r \in Requests, DeliverResponse(r)
        PROVE  IInv'
    <2> DEFINE t == tid[r]
               w == pending[t]
    <2>1. /\ r \in answered /\ r \in sent /\ t \in Tids
          /\ w \in Requests /\ tid[w] = t
          /\ future' = [future EXCEPT ![w] = r]
          /\ pending' = [pending EXCEPT ![t] = None]
          /\ pc' = pc /\ outcome' = outcome /\ tid' = tid
          /\ sent' = sent /\ answered' = answered
      BY <1>9 DEF DeliverResponse, FreshCalls, NoLeakedPromise
    <2>2. future[w] = Unset /\ pc[w] \in {"registered", "waiting", "expired"}
      BY <2>1 DEF NoLeakedPromise
    <2>3. NoLeakedPromise'
      BY <2>1, <2>2 DEF NoLeakedPromise
    <2>4. NoStrandedWaiter'
      BY <2>1, <2>2 DEF NoLeakedPromise, NoStrandedWaiter, FreshCalls
    <2>5. FreshCalls'
      BY <2>1, <2>2 DEF FreshCalls
    <2>6. Provenance'
      BY <2>1, <2>2 DEF Provenance, SharesTid
    <2>7. OutcomeFollows'
      BY <2>1, <2>2 DEF OutcomeFollows
    <2> QED
      BY <2>3, <2>4, <2>5, <2>6, <2>7
  <1>10. CASE UNCHANGED vars
    BY <1>10 DEF vars, NoLeakedPromise, NoStrandedWaiter, FreshCalls,
                 Provenance, OutcomeFollows, SharesTid
  <1>11. CASE Finished
    BY <1>11 DEF Finished, vars, NoLeakedPromise, NoStrandedWaiter, FreshCalls,
                 Provenance, OutcomeFollows, SharesTid
  <1> QED
    BY <1>1, <1>2, <1>3, <1>4, <1>5, <1>6, <1>7, <1>8, <1>9, <1>10, <1>11
    DEF Next, Call, Remote

\* The matching protocol's inductive invariant holds in every reachable state.
THEOREM Inductive == Spec => []IInv
  <1>1. QED
    BY InitIInv, StepIInv, PTL DEF Spec

\* pending_requests never keeps the promise of a call that returned or was
\* answered, however the calls, the timeouts and the listener interleave.
THEOREM NoLeak == Spec => []NoLeakedPromise
  <1>1. IInv => NoLeakedPromise
    BY DEF IInv
  <1>2. QED
    BY <1>1, Inductive, PTL

\* A waiting call without a reply always owns the entry of its tid.
THEOREM NoStranding == Spec => []NoStrandedWaiter
  <1>1. IInv => NoStrandedWaiter
    BY DEF IInv
  <1>2. QED
    BY <1>1, Inductive, PTL

\* Late, duplicated and reordered replies never reach a call of another tid.
THEOREM RepliesMatch == Spec => []OwnReply
  <1>1. IInv => OwnReply
    <2> SUFFICES ASSUME IInv, NEW r \in Requests,
                        outcome[r] = "ok", ~SharesTid(r)
                 PROVE  future[r] = r /\ r \in answered \cap sent
      BY DEF OwnReply
    <2>1. future[r] \in Requests
      BY DEF IInv, OutcomeFollows
    <2>2. tid[future[r]] = tid[r] /\ future[r] \in answered
      BY <2>1 DEF IInv, Provenance
    <2>3. future[r] = r
      BY <2>1, <2>2 DEF SharesTid
    <2> QED
      BY <2>2, <2>3 DEF IInv, FreshCalls
  <1>2. QED
    BY <1>1, Inductive, PTL

\* std::future_error reaches a caller only through a shared tid.
THEOREM ThrowsExplained == Spec => []ThrowsOnlyOnSharedTid
  <1>1. IInv => ThrowsOnlyOnSharedTid
    BY DEF IInv, ThrowsOnlyOnSharedTid, OutcomeFollows, Provenance
  <1>2. QED
    BY <1>1, Inductive, PTL

\* The entries of pending_requests are the promises of the calls that wait.
THEOREM PromisesOfWaiters == Spec => []PromisesMatch
  <1>1. NoLeakedPromise /\ NoStrandedWaiter => PromisesMatch
    BY DEF PromisesMatch
  <1>2. QED
    BY <1>1, NoLeak, NoStranding, PTL

\* Whatever a call returns, a reply or an exception, is explained by its own query or
\* by a tid that another call has drawn too.
THEOREM OutcomesAreExplained == Spec => []OutcomesExplained
  <1>1. OwnReply /\ ThrowsOnlyOnSharedTid => OutcomesExplained
    BY DEF OutcomesExplained
  <1>2. QED
    BY <1>1, RepliesMatch, ThrowsExplained, PTL

----------------------------------------------------------------------------
(* The start of the daemons.                                                *)

\* The daemon has started a Tor process, or its Tor is up (TorManager without external_tor).
OwnTor(d) == ~external[d] /\ at[d] \in {"hostname", "reserve", "bind", "serving"}
\* The points that only the networks with a key file have.
KeyPoints == {"load", "exists", "open", "write", "create"}
\* The points that only Tor has; both ways end in bind.
TorPoints == {"check", "torrc", "spawn", "hostname", "reserve"}
\* One daemon starts at a time.
OneStarts == \A d, e \in Daemons : Starting(d) /\ Starting(e) => d = e

\* A daemon is at the points of its network.
Stages ==
    /\ overlay = "tor" => \A d \in Daemons : at[d] \notin KeyPoints
    /\ overlay # "tor" => \A d \in Daemons : at[d] \notin TorPoints

\* A daemon with a Tor of its own has the first hidden service and the first port.
OwnerOK(d) ==
    OwnTor(d) =>
        /\ (d \in born /\ tor = NoTor /\ torrc # Nil) \/ tor.of = d
        /\ \A e \in Daemons : OwnTor(e) => e = d
        /\ at[d] # "hostname" => self[d].addr = 0 /\ hostnames
        /\ at[d] \in {"bind", "serving"} => self[d].port = 0

\* One that found Tor running has the second service and the second port.
GuestOK(d) ==
    external[d] =>
        /\ at[d] \in {"reserve", "bind", "serving"}
        /\ self[d].addr = 1
        /\ at[d] \in {"bind", "serving"} => self[d].port = 1
        /\ Starting(d) => tor # NoTor

\* What a daemon that starts undisturbed finds: what it checked still holds.
StartOK(d) ==
    /\ at[d] = "check" => born = {} /\ (tor = NoTor \/ tor.socks = self[d].socks)
    /\ at[d] \in {"torrc", "spawn"} => born = {} /\ tor = NoTor /\ self[d].socks # Nil
    /\ at[d] \in {"check"} => self[d].socks # Nil
    /\ at[d] = "spawn" => torrc # Nil
    /\ Starting(d) =>
         /\ 0 \notin lingers
         /\ tor.of \notin {d, Nil} => lingers = {}

\* The inductive invariant of undisturbed starts on Tor.
TorInv ==
    /\ OneStarts
    /\ tor = NoTor \/ (tor.socks # Nil /\ tor.of \in Daemons /\ OwnTor(tor.of))
    /\ \A d \in born : OwnTor(d)
    /\ \A d \in Daemons : OwnerOK(d) /\ GuestOK(d) /\ StartOK(d)

\* The same for the key file: who generates a key is alone with it.
KeyInv ==
    /\ OneStarts
    /\ \A d \in Daemons :
         /\ at[d] \in {"exists", "open", "write"} => self[d].key # Nil
         /\ at[d] \in {"create", "bind", "serving"} => self[d].key = keyfile /\ keyfile # Nil
         /\ at[d] = "open" => keyfile = Nil
         /\ at[d] = "write" => keyfile = Half /\ \A e \in Daemons : ~Serves(e)

\* The values of a daemon's own state, and of the Tor process.
Selves == [socks : SocksPorts \cup {Nil}, addr : {0, 1, Nil}, port : Ports \cup {Nil},
           key : Keys \cup {Half, Nil}]
Tors == [socks : SocksPorts \cup {Nil}, of : Daemons \cup {Nil}]

\* An assignment to one field of one daemon.
LEMMA SetSocks ==
    ASSUME self \in [Daemons -> Selves], NEW d \in Daemons, NEW v \in SocksPorts \cup {Nil},
           self' = [self EXCEPT ![d].socks = v]
    PROVE  /\ self' \in [Daemons -> Selves]
           /\ self'[d].socks = v
           /\ self'[d].addr = self[d].addr /\ self'[d].port = self[d].port /\ self'[d].key = self[d].key
           /\ \A e \in Daemons \ {d} : self'[e] = self[e]
<1>1. PICK r : r = [self[d] EXCEPT !.socks = v]
  OBVIOUS
<1>2. self[d] \in Selves
  OBVIOUS
<1>3. r \in Selves /\ r.socks = v /\ r.addr = self[d].addr /\ r.port = self[d].port /\ r.key = self[d].key
  BY <1>1, <1>2 DEF Selves
<1>4. self' = [self EXCEPT ![d] = r]
  BY <1>1
<1> QED BY <1>3, <1>4

\* The same for the address.
LEMMA SetAddr ==
    ASSUME self \in [Daemons -> Selves], NEW d \in Daemons, NEW v \in {0, 1, Nil},
           self' = [self EXCEPT ![d].addr = v]
    PROVE  /\ self' \in [Daemons -> Selves]
           /\ self'[d].addr = v
           /\ self'[d].socks = self[d].socks /\ self'[d].port = self[d].port /\ self'[d].key = self[d].key
           /\ \A e \in Daemons \ {d} : self'[e] = self[e]
<1>1. PICK r : r = [self[d] EXCEPT !.addr = v]
  OBVIOUS
<1>2. self[d] \in Selves
  OBVIOUS
<1>3. r \in Selves /\ r.addr = v /\ r.socks = self[d].socks /\ r.port = self[d].port /\ r.key = self[d].key
  BY <1>1, <1>2 DEF Selves
<1>4. self' = [self EXCEPT ![d] = r]
  BY <1>1
<1> QED BY <1>3, <1>4

\* The same for the port.
LEMMA SetPort ==
    ASSUME self \in [Daemons -> Selves], NEW d \in Daemons, NEW v \in Ports \cup {Nil},
           self' = [self EXCEPT ![d].port = v]
    PROVE  /\ self' \in [Daemons -> Selves]
           /\ self'[d].port = v
           /\ self'[d].socks = self[d].socks /\ self'[d].addr = self[d].addr /\ self'[d].key = self[d].key
           /\ \A e \in Daemons \ {d} : self'[e] = self[e]
<1>1. PICK r : r = [self[d] EXCEPT !.port = v]
  OBVIOUS
<1>2. self[d] \in Selves
  OBVIOUS
<1>3. r \in Selves /\ r.port = v /\ r.socks = self[d].socks /\ r.addr = self[d].addr /\ r.key = self[d].key
  BY <1>1, <1>2 DEF Selves
<1>4. self' = [self EXCEPT ![d] = r]
  BY <1>1
<1> QED BY <1>3, <1>4

\* The same for the key.
LEMMA SetKey ==
    ASSUME self \in [Daemons -> Selves], NEW d \in Daemons, NEW v \in Keys \cup {Half, Nil},
           self' = [self EXCEPT ![d].key = v]
    PROVE  /\ self' \in [Daemons -> Selves]
           /\ self'[d].key = v
           /\ self'[d].socks = self[d].socks /\ self'[d].addr = self[d].addr /\ self'[d].port = self[d].port
           /\ \A e \in Daemons \ {d} : self'[e] = self[e]
<1>1. PICK r : r = [self[d] EXCEPT !.key = v]
  OBVIOUS
<1>2. self[d] \in Selves
  OBVIOUS
<1>3. r \in Selves /\ r.key = v /\ r.socks = self[d].socks /\ r.addr = self[d].addr /\ r.port = self[d].port
  BY <1>1, <1>2 DEF Selves
<1>4. self' = [self EXCEPT ![d] = r]
  BY <1>1
<1> QED BY <1>3, <1>4


\* The other daemons stay as they are.
Others(d) ==
    \A e \in Daemons \ {d} : at'[e] = at[e] /\ self'[e] = self[e] /\ external'[e] = external[e]

\* A daemon that is gone.
Gone(d) == /\ at'[d] = "off" /\ external'[d] = FALSE /\ Others(d)
           /\ self'[d].socks = Nil /\ self'[d].addr = Nil /\ self'[d].port = Nil /\ self'[d].key = Nil
           /\ self' \in [Daemons -> Selves] /\ external' \in [Daemons -> BOOLEAN]
           /\ at' \in [Daemons -> Points]

\* StartTypeOK, in these terms.
LEMMA TypesAre ==
    ASSUME StartTypeOK
    PROVE  /\ self \in [Daemons -> Selves] /\ tor \in Tors /\ at \in [Daemons -> Points]
           /\ external \in [Daemons -> BOOLEAN]
           /\ \A d \in Daemons : self[d] \in Selves
BY DEF StartTypeOK, Selves, Tors

\* A process that is gone has nothing.
LEMMA VanishIs ==
    ASSUME StartTypeOK, NEW d \in Daemons, Vanish(d)
    PROVE  Gone(d)
<1>1. self' = [self EXCEPT ![d] = Nothing] /\ Nothing \in Selves
      /\ Nothing.socks = Nil /\ Nothing.addr = Nil /\ Nothing.port = Nil /\ Nothing.key = Nil
  BY DEF Vanish, Nothing, Selves
<1>2. self' \in [Daemons -> Selves] /\ self'[d] = Nothing /\ \A e \in Daemons \ {d} : self'[e] = self[e]
  BY <1>1, TypesAre
<1>3. /\ at' \in [Daemons -> Points] /\ at'[d] = "off" /\ \A e \in Daemons \ {d} : at'[e] = at[e]
      /\ external' \in [Daemons -> BOOLEAN] /\ external'[d] = FALSE
      /\ \A e \in Daemons \ {d} : external'[e] = external[e]
  BY TypesAre DEF Vanish, Go, Points
<1> QED BY <1>1, <1>2, <1>3 DEF Gone, Others

\* A daemon that dies leaves its Tor process behind.
LEMMA DieIs ==
    ASSUME StartTypeOK, NEW d \in Daemons, NEW mark \in SUBSET {"killed"}, Die(d, mark)
    PROVE  /\ Gone(d)
           /\ tor' \in Tors /\ tor'.socks = tor.socks
           /\ tor'.of = IF tor.of = d THEN Nil ELSE tor.of
           /\ tor.of # d => tor' = tor
           /\ born' = born \ {d} /\ born' \subseteq Daemons
           /\ past \subseteq past' /\ past' \subseteq past \cup {"killed", "left"}
           /\ past' \subseteq {"raced", "killed", "left"}
           /\ (tor.of = d \/ d \in born \/ at[d] = "write") => "left" \in past'
<1>1. Gone(d)
  BY VanishIs DEF Die
<1>2. tor' \in Tors /\ tor'.socks = tor.socks /\ tor'.of = IF tor.of = d THEN Nil ELSE tor.of
  BY TypesAre DEF Die, Tors
<1>3. tor.of # d => tor' = tor
  BY DEF Die
<1>4. born' = born \ {d} /\ born' \subseteq Daemons
  BY DEF Die, StartTypeOK
<1>5. /\ past \subseteq past' /\ past' \subseteq past \cup {"killed", "left"}
      /\ past' \subseteq {"raced", "killed", "left"}
      /\ (tor.of = d \/ d \in born \/ at[d] = "write") => "left" \in past'
  BY DEF Die, StartTypeOK
<1> QED BY <1>1, <1>2, <1>3, <1>4, <1>5

\* What changes when a daemon goes on.
Moves(d, to) == /\ at'[d] = to /\ at' \in [Daemons -> Points]
                /\ \A e \in Daemons \ {d} : at'[e] = at[e]

\* A daemon goes on to a point that exists.
LEMMA GoIs ==
    ASSUME StartTypeOK, NEW d \in Daemons, NEW to \in Points, Go(d, to)
    PROVE  Moves(d, to)
BY TypesAre DEF Go, Moves

\* The types before the first start.
LEMMA StartInitTypes == StartInit => StartTypeOK
<1> SUFFICES ASSUME StartInit PROVE StartTypeOK
  OBVIOUS
<1>1. at \in [Daemons -> Points] /\ external \in [Daemons -> BOOLEAN]
  BY DEF StartInit, Points
<1>2. self \in [Daemons -> Selves]
  <2>1. Nothing \in Selves
    BY DEF Nothing, Selves
  <2> QED BY <2>1 DEF StartInit
<1>3. tor \in Tors
  BY DEF StartInit, Tors, NoTor
<1>4. starts \in 0..MaxStarts /\ drawn \in 0..MaxStarts
  BY StartAssumption DEF StartInit
<1>5. /\ torrc = Nil /\ hostnames = FALSE /\ born = {} /\ keyfile = Nil /\ lingers = {} /\ past = {}
      /\ overlay \in Networks /\ host \in [debug : BOOLEAN, seeds : {{}, {0}}]
  BY DEF StartInit
<1> QED BY <1>1, <1>2, <1>3, <1>4, <1>5 DEF StartTypeOK, Selves, Tors

\* The steps of one daemon, by their effects.
LEMMA LaunchIs ==
    ASSUME StartTypeOK, NEW d \in Daemons, Launch(d)
    PROVE  /\ at[d] = "off" /\ Moves(d, IF overlay = "tor" THEN "check" ELSE "load")
           /\ Others(d) /\ self' \in [Daemons -> Selves] /\ self'[d].socks \in SocksPorts
           /\ self'[d].key = self[d].key
           /\ torrc' \in SocksPorts \cup {Nil}
           /\ starts' \in 0..MaxStarts
           /\ UNCHANGED <<overlay, host, external, hostnames, tor, born, keyfile, drawn, lingers>>
           /\ past \subseteq past' /\ past' \subseteq past \cup {"raced"}
           /\ "raced" \notin past' => /\ born = {} /\ lingers = {} /\ \A e \in Daemons : ~Starting(e)
                                      /\ tor.socks \in {self'[d].socks, Nil}
           /\ past' \subseteq {"raced", "killed", "left"}
<1>1. PICK s \in SocksPorts : /\ self' = [self EXCEPT ![d].socks = s]
                              /\ torrc' = IF torrc = s THEN s ELSE Nil
                              /\ past' = IF Unsettled(s) THEN past \cup {"raced"} ELSE past
  BY DEF Launch
<1>2. s \in SocksPorts \cup {Nil}
  OBVIOUS
<1>3. /\ self' \in [Daemons -> Selves] /\ self'[d].socks = s /\ self'[d].key = self[d].key
      /\ \A e \in Daemons \ {d} : self'[e] = self[e]
  BY <1>1, <1>2, TypesAre, SetSocks
<1>4. PICK to : to = IF overlay = "tor" THEN "check" ELSE "load"
  OBVIOUS
<1>5. Go(d, to) /\ to \in Points
  BY <1>4 DEF Launch, Points
<1>6. Moves(d, to)
  BY <1>5, GoIs
<1>7. starts' \in 0..MaxStarts
  BY StartAssumption DEF Launch, StartTypeOK
<1>8. UNCHANGED <<overlay, host, external, hostnames, tor, born, keyfile, drawn, lingers>> /\ at[d] = "off"
  BY DEF Launch, keyVars
<1>9. Others(d)
  BY <1>3, <1>6, <1>8 DEF Others, Moves
<1>10. torrc' \in SocksPorts \cup {Nil}
  BY <1>1
<1>11. /\ past \subseteq past' /\ past' \subseteq past \cup {"raced"}
       /\ past' \subseteq {"raced", "killed", "left"}
       /\ "raced" \notin past' => ~Unsettled(s)
  BY <1>1 DEF StartTypeOK
<1>12. ~Unsettled(s) => /\ born = {} /\ lingers = {} /\ \A e \in Daemons : ~Starting(e)
                        /\ tor.socks \in {s, Nil}
  BY DEF Unsettled
<1> QED BY <1>3, <1>4, <1>6, <1>7, <1>8, <1>9, <1>10, <1>11, <1>12

\* The SocksPort is tried.
LEMMA CheckIs ==
    ASSUME StartTypeOK, NEW d \in Daemons, Check(d)
    PROVE  /\ at[d] = "check" /\ Others(d)
           /\ self' \in [Daemons -> Selves] /\ external' \in [Daemons -> BOOLEAN]
           /\ self'[d].socks = self[d].socks
           /\ \/ /\ tor.socks = self[d].socks /\ external'[d] = TRUE
                 /\ self'[d].addr = IF hostnames THEN 1 ELSE Nil
                 /\ Moves(d, "reserve")
              \/ /\ tor.socks # self[d].socks /\ Moves(d, "torrc")
                 /\ UNCHANGED <<self, external>>
           /\ UNCHANGED <<overlay, host, torrc, hostnames, tor, born, keyfile, drawn, lingers, starts, past>>
<1>1. UNCHANGED <<overlay, host, torrc, hostnames, tor, born, keyfile, drawn, lingers, starts, past>>
      /\ at[d] = "check"
  BY DEF Check, torVars, keyVars
<1>2. CASE tor.socks = self[d].socks
  <2>1. PICK v : v = IF hostnames THEN 1 ELSE Nil
    OBVIOUS
  <2>2. self' = [self EXCEPT ![d].addr = v] /\ v \in {0, 1, Nil}
    BY <1>2, <2>1 DEF Check
  <2>3. /\ self' \in [Daemons -> Selves] /\ self'[d].addr = v /\ self'[d].socks = self[d].socks
        /\ \A e \in Daemons \ {d} : self'[e] = self[e]
    BY <2>2, TypesAre, SetAddr
  <2>4. /\ external' \in [Daemons -> BOOLEAN] /\ external'[d] = TRUE
        /\ \A e \in Daemons \ {d} : external'[e] = external[e]
    BY <1>2, TypesAre DEF Check
  <2>5. Moves(d, "reserve")
    BY <1>2, GoIs DEF Check, Points
  <2>6. Others(d)
    BY <2>3, <2>4, <2>5 DEF Others, Moves
  <2> QED BY <1>1, <1>2, <2>1, <2>3, <2>4, <2>5, <2>6
<1>3. CASE tor.socks # self[d].socks
  <2>1. Moves(d, "torrc") /\ UNCHANGED <<self, external>>
    BY <1>3, GoIs DEF Check, Points
  <2>2. Others(d)
    BY <2>1 DEF Others, Moves
  <2> QED BY <1>1, <1>3, <2>1, <2>2, TypesAre
<1> QED BY <1>2, <1>3

\* torrc is written, or kept.
LEMMA TorrcIs ==
    ASSUME StartTypeOK, NEW d \in Daemons, CreateTorrc(d)
    PROVE  /\ at[d] = "torrc" /\ Moves(d, "spawn") /\ Others(d)
           /\ torrc' = IF torrc = Nil THEN self[d].socks ELSE torrc
           /\ torrc' \in SocksPorts \cup {Nil}
           /\ UNCHANGED <<overlay, host, self, external, hostnames, tor, born, keyfile, drawn, lingers,
                          starts, past>>
<1>1. /\ at[d] = "torrc" /\ torrc' = IF torrc = Nil THEN self[d].socks ELSE torrc
      /\ UNCHANGED <<overlay, host, self, external, hostnames, tor, born, keyfile, drawn, lingers,
                     starts, past>>
  BY DEF CreateTorrc, keyVars
<1>2. Moves(d, "spawn")
  BY GoIs DEF CreateTorrc, Points
<1>3. Others(d)
  BY <1>1, <1>2 DEF Others, Moves
<1>4. torrc' \in SocksPorts \cup {Nil}
  BY <1>1, TypesAre DEF Selves, StartTypeOK
<1> QED BY <1>1, <1>2, <1>3, <1>4

\* Tor is started.
LEMMA SpawnIs ==
    ASSUME StartTypeOK, NEW d \in Daemons, Spawn(d)
    PROVE  /\ at[d] = "spawn" /\ Moves(d, "hostname") /\ Others(d)
           /\ born' = born \cup {d} /\ born' \subseteq Daemons
           /\ UNCHANGED <<overlay, host, self, external, torrc, hostnames, tor, keyfile, drawn, lingers,
                          starts, past>>
<1>1. /\ at[d] = "spawn" /\ born' = born \cup {d} /\ born' \subseteq Daemons
      /\ UNCHANGED <<overlay, host, self, external, torrc, hostnames, tor, keyfile, drawn, lingers,
                     starts, past>>
  BY DEF Spawn, keyVars, StartTypeOK
<1>2. Moves(d, "hostname")
  BY GoIs DEF Spawn, Points
<1>3. Others(d)
  BY <1>1, <1>2 DEF Others, Moves
<1> QED BY <1>1, <1>2, <1>3

\* The first hidden service is read.
LEMMA HostnameIs ==
    ASSUME StartTypeOK, NEW d \in Daemons, ReadHostname(d)
    PROVE  /\ at[d] = "hostname" /\ hostnames /\ Moves(d, "reserve") /\ Others(d)
           /\ self' \in [Daemons -> Selves] /\ self'[d].addr = 0
           /\ UNCHANGED <<overlay, host, external, torrc, hostnames, tor, born, keyfile, drawn, lingers,
                          starts, past>>
<1>1. /\ at[d] = "hostname" /\ hostnames
      /\ UNCHANGED <<overlay, host, external, torrc, hostnames, tor, born, keyfile, drawn, lingers,
                     starts, past>>
  BY DEF ReadHostname, keyVars, torVars
<1>2. Moves(d, "reserve")
  BY GoIs DEF ReadHostname, Points
<1>3. PICK v \in {0, 1, Nil} : self' = [self EXCEPT ![d].addr = v] /\ v = 0
  BY DEF ReadHostname
<1>4. self' \in [Daemons -> Selves] /\ self'[d].addr = v /\ \A e \in Daemons \ {d} : self'[e] = self[e]
  BY <1>3, TypesAre, SetAddr
<1>5. Others(d)
  BY <1>1, <1>2, <1>4 DEF Others, Moves
<1> QED BY <1>1, <1>2, <1>3, <1>4, <1>5

\* The first port that is free, if there is one.
LEMMA ReserveIs ==
    ASSUME StartTypeOK, NEW d \in Daemons, ReservePort(d)
    PROVE  /\ at[d] = "reserve" /\ Moves(d, "bind") /\ Others(d)
           /\ self' \in [Daemons -> Selves] /\ self'[d].addr = self[d].addr /\ self'[d].key = self[d].key
           /\ self'[d].port = Nil => \A p \in Ports : ~Busy(p) => \E q \in Ports : q < p /\ ~Busy(q)
           /\ self'[d].port # Nil => /\ self'[d].port \in Ports /\ ~Busy(self'[d].port)
                                     /\ \A q \in Ports : q < self'[d].port => Busy(q)
           /\ UNCHANGED <<overlay, host, external, torrc, hostnames, tor, born, keyfile, drawn, lingers,
                          starts, past>>
<1>1. /\ at[d] = "reserve"
      /\ UNCHANGED <<overlay, host, external, torrc, hostnames, tor, born, keyfile, drawn, lingers,
                     starts, past>>
  BY DEF ReservePort, keyVars, torVars
<1>2. Moves(d, "bind")
  BY GoIs DEF ReservePort, Points
<1> DEFINE Found == {p \in Ports : ~Busy(p) /\ \A q \in Ports : q < p => Busy(q)}
           port == IF Found = {} THEN Nil ELSE CHOOSE p \in Found : TRUE
<1>3. self' = [self EXCEPT ![d].port = port]
  BY DEF ReservePort
<1>4. /\ port = Nil => Found = {}
      /\ port # Nil => port \in Found
      /\ port \in Ports \cup {Nil}
  BY StartAssumption DEF Ports
<1>5. \A p : p \in Found <=> p \in Ports /\ ~Busy(p) /\ \A q \in Ports : q < p => Busy(q)
  OBVIOUS
<1> HIDE DEF port, Found
<1>6. /\ self' \in [Daemons -> Selves] /\ self'[d].port = port /\ self'[d].addr = self[d].addr
      /\ self'[d].key = self[d].key
      /\ \A e \in Daemons \ {d} : self'[e] = self[e]
  BY <1>3, <1>4, TypesAre, SetPort
<1>7. Others(d)
  BY <1>1, <1>2, <1>6 DEF Others, Moves
<1>8. port = Nil => \A p \in Ports : ~Busy(p) => \E q \in Ports : q < p /\ ~Busy(q)
  BY <1>4, <1>5
<1>9. port # Nil => port \in Ports /\ ~Busy(port) /\ \A q \in Ports : q < port => Busy(q)
  BY <1>4, <1>5
<1> QED BY <1>1, <1>2, <1>6, <1>7, <1>8, <1>9

\* The listening sockets, or the end.
LEMMA BindIs ==
    ASSUME StartTypeOK, NEW d \in Daemons, Bind(d)
    PROVE  /\ at[d] = "bind"
           /\ \/ Die(d, {})
              \/ Moves(d, "serving") /\ Others(d) /\ UNCHANGED <<self, external, tor, born, past>>
           /\ UNCHANGED <<overlay, host, torrc, hostnames, keyfile, drawn, lingers, starts>>
<1>1. at[d] = "bind" /\ UNCHANGED <<overlay, host, torrc, hostnames, keyfile, drawn, lingers, starts>>
  BY DEF Bind, keyVars
<1>2. ASSUME Go(d, "serving"), UNCHANGED <<self, external, tor, born, past>>
      PROVE  Moves(d, "serving") /\ Others(d)
  <2>1. Moves(d, "serving")
    BY <1>2, GoIs DEF Points
  <2> QED BY <1>2, <2>1 DEF Others, Moves
<1>3. Die(d, {}) \/ (Go(d, "serving") /\ UNCHANGED <<self, external, tor, born, past>>)
  BY DEF Bind
<1> QED BY <1>1, <1>2, <1>3

\* A key is drawn, or that of the file is taken.
LEMMA LoadIs ==
    ASSUME StartTypeOK, drawn < MaxStarts, NEW d \in Daemons, LoadKey(d)
    PROVE  /\ at[d] = "load" /\ Others(d) /\ self' \in [Daemons -> Selves]
           /\ \/ /\ keyfile = Nil \/ (overlay = "i2p" /\ keyfile = Half)
                 /\ drawn' = drawn + 1 /\ self'[d].key = drawn + 1 /\ self'[d].key # Nil
                 /\ Moves(d, IF overlay = "i2p" THEN "exists" ELSE "open")
              \/ keyfile # Nil /\ self'[d].key = keyfile /\ Moves(d, "create") /\ drawn' = drawn
           /\ UNCHANGED <<overlay, host, external, torrc, hostnames, tor, born, keyfile, lingers, starts,
                          past>>
<1>1. /\ at[d] = "load"
      /\ UNCHANGED <<overlay, host, external, torrc, hostnames, tor, born, keyfile, lingers, starts, past>>
  BY DEF LoadKey, torVars
<1>2. CASE keyfile = Nil \/ (overlay = "i2p" /\ keyfile = Half)
  <2>1. PICK v : v = drawn + 1
    OBVIOUS
  <2>2. v \in Keys /\ v \in Keys \cup {Half, Nil} /\ v # Nil
    BY <2>1, StartAssumption DEF Keys, StartTypeOK
  <2>3. self' = [self EXCEPT ![d].key = v] /\ drawn' = drawn + 1
    BY <1>2, <2>1 DEF LoadKey
  <2>4. self' \in [Daemons -> Selves] /\ self'[d].key = v /\ \A e \in Daemons \ {d} : self'[e] = self[e]
    BY <2>2, <2>3, TypesAre, SetKey
  <2>5. PICK to : to = IF overlay = "i2p" THEN "exists" ELSE "open"
    OBVIOUS
  <2>6. Go(d, to) /\ to \in Points
    BY <1>2, <2>5 DEF LoadKey, Points
  <2>7. Moves(d, to)
    BY <2>6, GoIs
  <2>8. Others(d)
    BY <1>1, <2>4, <2>7 DEF Others, Moves
  <2> QED BY <1>1, <1>2, <2>1, <2>2, <2>3, <2>4, <2>5, <2>7, <2>8
<1>3. CASE ~(keyfile = Nil \/ (overlay = "i2p" /\ keyfile = Half))
  <2>1. self' = [self EXCEPT ![d].key = keyfile] /\ drawn' = drawn /\ Go(d, "create")
    BY <1>3 DEF LoadKey
  <2>2. keyfile \in Keys \cup {Half, Nil}
    BY DEF StartTypeOK
  <2>3. /\ self' \in [Daemons -> Selves] /\ self'[d].key = keyfile
        /\ \A e \in Daemons \ {d} : self'[e] = self[e]
    BY <2>1, <2>2, TypesAre, SetKey
  <2>4. Moves(d, "create")
    BY <2>1, GoIs DEF Points
  <2>5. Others(d)
    BY <1>1, <2>3, <2>4 DEF Others, Moves
  <2> QED BY <1>1, <1>3, <2>1, <2>3, <2>4, <2>5
<1> QED BY <1>2, <1>3

\* A file that exists is not overwritten.
LEMMA SaveIs ==
    ASSUME StartTypeOK, NEW d \in Daemons, SaveKey(d)
    PROVE  /\ at[d] = "exists"
           /\ \/ Die(d, {})
              \/ /\ keyfile = Nil /\ Moves(d, "open") /\ Others(d)
                 /\ UNCHANGED <<self, external, tor, born, past>>
           /\ UNCHANGED <<overlay, host, torrc, hostnames, keyfile, drawn, lingers, starts>>
<1>1. at[d] = "exists" /\ UNCHANGED <<overlay, host, torrc, hostnames, keyfile, drawn, lingers, starts>>
  BY DEF SaveKey, keyVars
<1>2. ASSUME Go(d, "open"), UNCHANGED <<self, external, tor, born, past>>
      PROVE  Moves(d, "open") /\ Others(d)
  <2>1. Moves(d, "open")
    BY <1>2, GoIs DEF Points
  <2> QED BY <1>2, <2>1 DEF Others, Moves
<1>3. Die(d, {}) \/ (keyfile = Nil /\ Go(d, "open") /\ UNCHANGED <<self, external, tor, born, past>>)
  BY DEF SaveKey
<1> QED BY <1>1, <1>2, <1>3

\* The file is emptied, then written.
LEMMA WriteIs ==
    ASSUME StartTypeOK, NEW d \in Daemons, OpenKeyFile(d) \/ WriteKey(d)
    PROVE  /\ \/ at[d] = "open" /\ keyfile' = Half /\ Moves(d, "write")
              \/ at[d] = "write" /\ keyfile' = self[d].key /\ Moves(d, "create")
           /\ Others(d) /\ keyfile' \in Keys \cup {Half, Nil}
           /\ UNCHANGED <<overlay, host, self, external, torrc, hostnames, tor, born, drawn, lingers,
                          starts, past>>
<1>1. UNCHANGED <<overlay, host, self, external, torrc, hostnames, tor, born, drawn, lingers, starts, past>>
  BY DEF OpenKeyFile, WriteKey, torVars
<1>2. self[d].key \in Keys \cup {Half, Nil}
  BY TypesAre DEF Selves
<1>3. CASE OpenKeyFile(d)
  <2>1. at[d] = "open" /\ keyfile' = Half /\ Moves(d, "write")
    BY <1>3, GoIs DEF OpenKeyFile, Points
  <2> QED BY <1>1, <2>1 DEF Others, Moves
<1>4. CASE WriteKey(d)
  <2>1. at[d] = "write" /\ keyfile' = self[d].key /\ Moves(d, "create")
    BY <1>4, GoIs DEF WriteKey, Points
  <2> QED BY <1>1, <1>2, <2>1 DEF Others, Moves
<1> QED BY <1>3, <1>4

\* The session, or the end.
LEMMA SessionIs ==
    ASSUME StartTypeOK, NEW d \in Daemons, CreateSession(d)
    PROVE  /\ at[d] = "create"
           /\ \/ Moves(d, "bind") /\ Others(d) /\ UNCHANGED <<self, external, tor, born, past>>
              \/ Gone(d) /\ UNCHANGED <<tor, born, past>>
              \/ Die(d, {})
           /\ UNCHANGED <<overlay, host, torrc, hostnames, keyfile, drawn, lingers, starts>>
<1>1. at[d] = "create" /\ UNCHANGED <<overlay, host, torrc, hostnames, keyfile, drawn, lingers, starts>>
  BY DEF CreateSession, keyVars
<1>2. ASSUME Go(d, "bind"), UNCHANGED <<self, external, tor, born, past>>
      PROVE  Moves(d, "bind") /\ Others(d)
  <2>1. Moves(d, "bind")
    BY <1>2, GoIs DEF Points
  <2> QED BY <1>2, <2>1 DEF Others, Moves
<1>3. \/ Go(d, "bind") /\ UNCHANGED <<self, external, tor, born, past>>
      \/ Vanish(d) /\ UNCHANGED <<tor, born, past>>
      \/ Die(d, {})
  BY DEF CreateSession
<1> QED BY <1>1, <1>2, <1>3, VanishIs

\* Only a daemon that serves leaves ports in TIME_WAIT.
LEMMA LingerIs ==
    ASSUME StartTypeOK, NEW d \in Daemons, Linger(d)
    PROVE  /\ lingers' \subseteq Ports \cup {Ipc} /\ lingers \subseteq lingers'
           /\ ~Serves(d) => lingers' = lingers
           /\ lingers' \subseteq lingers \cup {self[d].port, Ipc}
<1>1. self[d].port \in Ports \cup {Nil} /\ lingers \subseteq Ports \cup {Ipc}
  BY TypesAre DEF Selves, StartTypeOK
<1>2. PICK S : /\ S \subseteq (IF Serves(d)
                              THEN ({self[d].port} \ {Nil}) \cup (IF IsHardcoded(d) THEN {} ELSE {Ipc})
                              ELSE {})
               /\ lingers' = lingers \cup S
  BY DEF Linger
<1>3. S \subseteq ({self[d].port} \ {Nil}) \cup {Ipc} /\ (~Serves(d) => S = {})
  BY <1>2
<1> QED BY <1>1, <1>2, <1>3

\* The end of main.
LEMMA ExitIs ==
    ASSUME StartTypeOK, NEW d \in Daemons, Exit(d)
    PROVE  /\ Serves(d) /\ Gone(d) /\ Linger(d)
           /\ tor' \in Tors /\ tor' = IF tor.of = d THEN NoTor ELSE tor
           /\ born' = born \ {d} /\ born' \subseteq Daemons
           /\ past \subseteq past' /\ past' \subseteq past \cup {"raced"}
           /\ past' \subseteq {"raced", "killed", "left"}
           /\ "raced" \notin past' => \A e \in Daemons : ~Starting(e)
           /\ UNCHANGED <<overlay, host, torrc, hostnames, keyfile, drawn, starts>>
<1>1. Serves(d) /\ Gone(d) /\ Linger(d)
  BY VanishIs DEF Exit
<1>2. tor' \in Tors /\ tor' = IF tor.of = d THEN NoTor ELSE tor
  BY TypesAre DEF Exit, Tors, NoTor
<1>3. born' = born \ {d} /\ born' \subseteq Daemons
  BY DEF Exit, StartTypeOK
<1>4. /\ past \subseteq past' /\ past' \subseteq past \cup {"raced"}
      /\ past' \subseteq {"raced", "killed", "left"}
      /\ "raced" \notin past' => \A e \in Daemons : ~Starting(e)
  BY DEF Exit, StartTypeOK
<1>5. UNCHANGED <<overlay, host, torrc, hostnames, keyfile, drawn, starts>>
  BY DEF Exit, keyVars
<1> QED BY <1>1, <1>2, <1>3, <1>4, <1>5

\* A daemon that had started Tor does not end in a clean way.
LEMMA CrashIs ==
    ASSUME StartTypeOK, NEW d \in Daemons, Crash(d)
    PROVE  /\ at[d] # "off" /\ Gone(d) /\ Linger(d)
           /\ tor' \in Tors /\ (tor.of # d /\ d \notin born => tor' = tor)
           /\ born' = born \ {d} /\ born' \subseteq Daemons
           /\ past \subseteq past' /\ past' \subseteq past \cup {"killed", "left"}
           /\ past' \subseteq {"raced", "killed", "left"}
           /\ (tor.of = d \/ d \in born) => "left" \in past'
           /\ UNCHANGED <<overlay, host, torrc, hostnames, keyfile, drawn, starts>>
<1>1. /\ at[d] # "off" /\ Linger(d)
      /\ UNCHANGED <<overlay, host, torrc, hostnames, keyfile, drawn, starts>>
  BY DEF Crash, keyVars
<1>2. CASE Die(d, {"killed"})
  BY <1>1, <1>2, DieIs
<1>3. CASE /\ d \in born /\ torrc # Nil /\ tor = NoTor /\ Vanish(d)
           /\ tor' = [socks |-> torrc, of |-> Nil]
           /\ born' = born \ {d}
           /\ past' = past \cup {"killed", "left"}
  <2>1. Gone(d)
    BY <1>3, VanishIs
  <2>2. tor' \in Tors
    BY <1>3 DEF Tors, StartTypeOK
  <2> QED BY <1>1, <1>3, <2>1, <2>2 DEF StartTypeOK
<1> QED BY <1>2, <1>3 DEF Crash

\* The first Tor with a torrc comes up.
LEMMA TorUpIs ==
    ASSUME StartTypeOK, NEW d \in Daemons, TorUp(d)
    PROVE  /\ d \in born /\ born' = born \ {d} /\ born' \subseteq Daemons
           /\ tor' \in Tors
           /\ \/ torrc # Nil /\ tor = NoTor /\ tor'.of = d /\ tor'.socks = torrc
              \/ tor' = tor /\ ~(torrc # Nil /\ tor = NoTor)
           /\ UNCHANGED <<overlay, host, at, self, external, torrc, hostnames, keyfile, drawn, lingers,
                          starts, past>>
<1>1. /\ d \in born /\ born' = born \ {d} /\ born' \subseteq Daemons
      /\ UNCHANGED <<overlay, host, at, self, external, torrc, hostnames, keyfile, drawn, lingers,
                     starts, past>>
  BY DEF TorUp, StartTypeOK, meVars, keyVars
<1>2. CASE torrc # Nil /\ tor = NoTor
  <2>1. tor' = [socks |-> torrc, of |-> d]
    BY <1>2 DEF TorUp
  <2> QED BY <1>1, <1>2, <2>1 DEF Tors, StartTypeOK
<1>3. CASE ~(torrc # Nil /\ tor = NoTor)
  BY <1>1, <1>3, TypesAre DEF TorUp
<1> QED BY <1>2, <1>3

\* Every start draws one key at most.
Loading == {d \in Daemons : at[d] = "load"}
\* A draw for every start that has not come to it yet.
DrawInv == IsFiniteSet(Loading) /\ drawn + Cardinality(Loading) <= starts

\* Only the daemon that moves enters or leaves.
LEMMA LoadingIs ==
    ASSUME NEW d \in Daemons, \A e \in Daemons \ {d} : at'[e] = at[e]
    PROVE  Loading' = IF at'[d] = "load" THEN Loading \cup {d} ELSE Loading \ {d}
BY DEF Loading

\* The steps without a draw.
LEMMA NoDraw ==
    ASSUME StartTypeOK, DrawInv, NEW d \in Daemons, \A e \in Daemons \ {d} : at'[e] = at[e],
           at'[d] # "load", UNCHANGED <<drawn, starts>>
    PROVE  DrawInv'
<1>1. PICK L, M : L = Loading /\ M = Loading'
  OBVIOUS
<1>2. M = L \ {d}
  BY <1>1, LoadingIs
<1>3. IsFiniteSet(L) /\ Cardinality(L) \in Nat
  BY <1>1, FS_CardinalityType DEF DrawInv
<1>4. IsFiniteSet(M) /\ Cardinality(M) <= Cardinality(L) /\ Cardinality(M) \in Nat
  <2>1. CASE d \in L
    <3>1. IsFiniteSet(M) /\ Cardinality(M) = Cardinality(L) - 1
      BY <1>2, <1>3, <2>1, FS_RemoveElement
    <3>2. Cardinality(M) \in Nat
      BY <3>1, FS_CardinalityType
    <3> QED BY <1>3, <3>1, <3>2
  <2>2. CASE d \notin L
    <3>1. M = L
      BY <1>2, <2>2
    <3> QED BY <1>3, <3>1
  <2> QED BY <2>1, <2>2
<1>5. drawn \in Nat /\ starts \in Nat
  BY StartAssumption DEF StartTypeOK
<1>6. drawn' + Cardinality(M) <= starts'
  BY <1>1, <1>3, <1>4, <1>5 DEF DrawInv
<1> QED BY <1>1, <1>4, <1>6 DEF DrawInv

\* There is a key left to draw.
LEMMA MayDraw ==
    ASSUME StartTypeOK, DrawInv, NEW d \in Daemons, at[d] = "load"
    PROVE  drawn < starts /\ drawn < MaxStarts
<1>1. d \in Loading
  BY DEF Loading
<1>2. Cardinality(Loading) \in Nat /\ Cardinality(Loading) # 0
  BY <1>1, FS_EmptySet, FS_CardinalityType DEF DrawInv
<1>3. drawn \in Nat /\ starts \in Nat /\ starts <= MaxStarts /\ MaxStarts \in Nat
  BY StartAssumption DEF StartTypeOK
<1> QED BY <1>2, <1>3 DEF DrawInv

\* Every step keeps the types.
LEMMA StartTypes ==
    ASSUME StartTypeOK, DrawInv, [StartNext]_startVars
    PROVE  StartTypeOK' /\ DrawInv'
<1>1. ASSUME NEW d \in Daemons, Launch(d) PROVE StartTypeOK' /\ DrawInv'
  <2>1. DrawInv'
    <3>1. PICK L, M : L = Loading /\ M = Loading'
      OBVIOUS
    <3>2. M = L \/ M = L \cup {d} \/ M = L \ {d}
      BY <1>1, <3>1, LaunchIs, LoadingIs DEF Moves
    <3>3. IsFiniteSet(L) /\ Cardinality(L) \in Nat /\ drawn + Cardinality(L) <= starts
      BY <3>1, FS_CardinalityType DEF DrawInv
    <3>4. IsFiniteSet(M) /\ Cardinality(M) \in Nat /\ Cardinality(M) <= Cardinality(L) + 1
      BY <3>2, <3>3, FS_AddElement, FS_RemoveElement, FS_CardinalityType
    <3>5. drawn \in Nat /\ starts \in Nat /\ drawn' = drawn /\ starts' = starts + 1
      BY <1>1, StartAssumption DEF StartTypeOK, Launch, keyVars
    <3>6. drawn' + Cardinality(M) <= starts'
      BY <3>3, <3>4, <3>5
    <3> QED BY <3>1, <3>4, <3>6 DEF DrawInv
  <2>2. StartTypeOK'
    BY <1>1, LaunchIs DEF StartTypeOK, Selves, Moves
  <2> QED BY <2>1, <2>2
<1>2. ASSUME NEW d \in Daemons, Check(d) PROVE StartTypeOK' /\ DrawInv'
  <2>1. at' \in [Daemons -> Points] /\ at'[d] # "load" /\ \A e \in Daemons \ {d} : at'[e] = at[e]
    BY <1>2, CheckIs DEF Moves
  <2>2. DrawInv'
    BY <1>2, <2>1, CheckIs, NoDraw
  <2>3. StartTypeOK'
    BY <1>2, <2>1, CheckIs DEF StartTypeOK, Selves
  <2> QED BY <2>2, <2>3
<1>3. ASSUME NEW d \in Daemons, CreateTorrc(d) PROVE StartTypeOK' /\ DrawInv'
  <2>1. DrawInv'
    BY <1>3, TorrcIs, NoDraw DEF Moves
  <2>2. StartTypeOK'
    BY <1>3, TorrcIs DEF StartTypeOK, Moves
  <2> QED BY <2>1, <2>2
<1>4. ASSUME NEW d \in Daemons, Spawn(d) PROVE StartTypeOK' /\ DrawInv'
  <2>1. DrawInv'
    BY <1>4, SpawnIs, NoDraw DEF Moves
  <2>2. StartTypeOK'
    BY <1>4, SpawnIs DEF StartTypeOK, Moves
  <2> QED BY <2>1, <2>2
<1>5. ASSUME NEW d \in Daemons, ReadHostname(d) PROVE StartTypeOK' /\ DrawInv'
  <2>1. DrawInv'
    BY <1>5, HostnameIs, NoDraw DEF Moves
  <2>2. StartTypeOK'
    BY <1>5, HostnameIs, ZenonT(40) DEF StartTypeOK, Selves, Moves
  <2> QED BY <2>1, <2>2
<1>6. ASSUME NEW d \in Daemons, NEW mark \in SUBSET {"killed"}, Die(d, mark),
             UNCHANGED <<overlay, host, torrc, hostnames, keyfile, drawn, lingers, starts>>
      PROVE  StartTypeOK' /\ DrawInv'
  <2>1. DrawInv'
    BY <1>6, DieIs, NoDraw DEF Gone, Others
  <2>2. StartTypeOK'
    BY <1>6, DieIs DEF StartTypeOK, Selves, Tors, Gone
  <2> QED BY <2>1, <2>2
<1>7. ASSUME NEW d \in Daemons, HostnameTimeout(d) PROVE StartTypeOK' /\ DrawInv'
  <2>1. Die(d, {}) /\ UNCHANGED <<overlay, host, torrc, hostnames, keyfile, drawn, lingers, starts>>
    BY <1>7 DEF HostnameTimeout, keyVars
  <2> QED BY <1>6, <2>1
<1>8. ASSUME NEW d \in Daemons, ReservePort(d) PROVE StartTypeOK' /\ DrawInv'
  <2>1. DrawInv'
    BY <1>8, ReserveIs, NoDraw DEF Moves
  <2>2. /\ at' \in [Daemons -> Points] /\ self' \in [Daemons -> Selves]
        /\ UNCHANGED <<overlay, host, external, torrc, hostnames, tor, born, keyfile, drawn, lingers,
                       starts, past>>
    BY <1>8, ReserveIs DEF Moves
  <2>3. StartTypeOK'
    BY <2>2 DEF StartTypeOK, Selves
  <2> QED BY <2>1, <2>3
<1>9. ASSUME NEW d \in Daemons, NEW to \in Points, to # "load", Moves(d, to),
             UNCHANGED <<overlay, host, self, external, tor, born, past,
                         torrc, hostnames, keyfile, drawn, lingers, starts>>
      PROVE  StartTypeOK' /\ DrawInv'
  <2>1. DrawInv'
    BY <1>9, NoDraw DEF Moves
  <2>2. StartTypeOK'
    BY <1>9 DEF StartTypeOK, Moves
  <2> QED BY <2>1, <2>2
<1>10. ASSUME NEW d \in Daemons, Bind(d) PROVE StartTypeOK' /\ DrawInv'
  <2>1. CASE Die(d, {})
    BY <1>6, <1>10, <2>1, BindIs
  <2>2. CASE Moves(d, "serving") /\ UNCHANGED <<self, external, tor, born, past>>
    BY <1>9, <1>10, <2>2, BindIs DEF Points
  <2> QED BY <1>10, <2>1, <2>2, BindIs
<1>11. ASSUME NEW d \in Daemons, LoadKey(d) PROVE StartTypeOK' /\ DrawInv'
  <2>1. at[d] = "load"
    BY <1>11 DEF LoadKey
  <2>2. drawn < starts /\ drawn < MaxStarts
    BY <2>1, MayDraw
  <2>3. /\ Others(d) /\ self' \in [Daemons -> Selves]
        /\ (drawn' = drawn + 1 \/ drawn' = drawn)
        /\ at' \in [Daemons -> Points] /\ at'[d] # "load"
        /\ \A e \in Daemons \ {d} : at'[e] = at[e]
        /\ UNCHANGED <<overlay, host, external, torrc, hostnames, tor, born, keyfile, lingers, starts,
                       past>>
    BY <1>11, <2>2, LoadIs DEF Moves
  <2>4. DrawInv'
    <3>1. PICK L, M : L = Loading /\ M = Loading'
      OBVIOUS
    <3>2. M = L \ {d} /\ d \in L
      BY <2>1, <2>3, <3>1, LoadingIs DEF Loading
    <3>3. IsFiniteSet(L) /\ Cardinality(L) \in Nat /\ drawn + Cardinality(L) <= starts
      BY <3>1, FS_CardinalityType DEF DrawInv
    <3>4. IsFiniteSet(M) /\ Cardinality(M) = Cardinality(L) - 1
      BY <3>2, <3>3, FS_RemoveElement
    <3>5. drawn \in Nat /\ starts \in Nat
      BY StartAssumption DEF StartTypeOK
    <3>6. drawn' + Cardinality(M) <= starts'
      BY <2>3, <3>3, <3>4, <3>5
    <3> QED BY <3>1, <3>4, <3>6 DEF DrawInv
  <2>5. drawn' \in 0..MaxStarts
    BY <2>2, <2>3, StartAssumption DEF StartTypeOK
  <2>6. StartTypeOK'
    BY <2>3, <2>5 DEF StartTypeOK, Selves
  <2> QED BY <2>4, <2>6
<1>12. ASSUME NEW d \in Daemons, SaveKey(d) PROVE StartTypeOK' /\ DrawInv'
  <2>1. CASE Die(d, {})
    BY <1>6, <1>12, <2>1, SaveIs
  <2>2. CASE Moves(d, "open") /\ UNCHANGED <<self, external, tor, born, past>>
    BY <1>9, <1>12, <2>2, SaveIs DEF Points
  <2> QED BY <1>12, <2>1, <2>2, SaveIs
<1>13. ASSUME NEW d \in Daemons, OpenKeyFile(d) \/ WriteKey(d) PROVE StartTypeOK' /\ DrawInv'
  <2>1. at' \in [Daemons -> Points] /\ at'[d] # "load" /\ \A e \in Daemons \ {d} : at'[e] = at[e]
    BY <1>13, WriteIs DEF Moves
  <2>2. DrawInv'
    BY <1>13, <2>1, WriteIs, NoDraw
  <2>3. StartTypeOK'
    BY <1>13, <2>1, WriteIs DEF StartTypeOK
  <2> QED BY <2>2, <2>3
<1>14. ASSUME NEW d \in Daemons, CreateSession(d) PROVE StartTypeOK' /\ DrawInv'
  <2>1. CASE Die(d, {})
    BY <1>6, <1>14, <2>1, SessionIs
  <2>2. CASE Moves(d, "bind") /\ UNCHANGED <<self, external, tor, born, past>>
    BY <1>9, <1>14, <2>2, SessionIs DEF Points
  <2>3. CASE Gone(d) /\ UNCHANGED <<tor, born, past>>
    <3>1. DrawInv'
      BY <1>14, <2>3, SessionIs, NoDraw DEF Gone, Others
    <3>2. StartTypeOK'
      BY <1>14, <2>3, SessionIs DEF StartTypeOK, Selves, Gone
    <3> QED BY <3>1, <3>2
  <2> QED BY <1>14, <2>1, <2>2, <2>3, SessionIs
<1>15. ASSUME NEW d \in Daemons, TorUp(d) PROVE StartTypeOK' /\ DrawInv'
  <2>1. StartTypeOK'
    BY <1>15, TorUpIs DEF StartTypeOK, Tors
  <2>2. DrawInv'
    BY <1>15, TorUpIs DEF DrawInv, Loading
  <2> QED BY <2>1, <2>2
<1>16. ASSUME NEW d \in Daemons, Exit(d) PROVE StartTypeOK' /\ DrawInv'
  <2>1. DrawInv'
    <3>1. Gone(d) /\ UNCHANGED <<drawn, starts>>
      BY <1>16, ExitIs
    <3>2. at'[d] # "load" /\ \A e \in Daemons \ {d} : at'[e] = at[e]
      BY <3>1 DEF Gone, Others
    <3> QED BY <3>1, <3>2, NoDraw
  <2>2. lingers' \subseteq Ports \cup {Ipc}
    BY <1>16, ExitIs, LingerIs
  <2>3. StartTypeOK'
    BY <1>16, <2>2, ExitIs, ZenonT(40) DEF StartTypeOK, Selves, Tors, Gone
  <2> QED BY <2>1, <2>3
<1>17. ASSUME NEW d \in Daemons, Crash(d) PROVE StartTypeOK' /\ DrawInv'
  <2>1. DrawInv'
    BY <1>17, CrashIs, NoDraw DEF Gone, Others
  <2>2. lingers' \subseteq Ports \cup {Ipc}
    BY <1>17, CrashIs, LingerIs
  <2>3. StartTypeOK'
    BY <1>17, <2>2, CrashIs DEF StartTypeOK, Selves, Tors, Gone
  <2> QED BY <2>1, <2>3
<1>18. CASE TorWrites
  BY <1>18 DEF TorWrites, StartTypeOK, DrawInv, Loading, meVars, keyVars
<1>19. CASE TorKilled
  <2>1. tor' \in Tors /\ UNCHANGED <<overlay, host, at, self, external, torrc, hostnames, born, keyfile,
                                     drawn, lingers, starts, past>>
    BY <1>19 DEF TorKilled, Tors, NoTor, meVars, keyVars
  <2> QED BY <2>1 DEF StartTypeOK, DrawInv, Loading, Tors
<1>20. CASE \E p \in Ports \cup {Ipc} : Expire(p)
  <2>1. lingers' \subseteq lingers /\ UNCHANGED <<overlay, host, at, self, external, torrc, hostnames,
                                                  tor, born, keyfile, drawn, starts, past>>
    BY <1>20 DEF Expire, meVars, torVars, keyVars
  <2> QED BY <2>1 DEF StartTypeOK, DrawInv, Loading
<1>21. CASE UNCHANGED startVars
  BY <1>21 DEF startVars, StartTypeOK, DrawInv, Loading, meVars, torVars, keyVars
<1> QED BY <1>1, <1>2, <1>3, <1>4, <1>5, <1>7, <1>8, <1>10, <1>11, <1>12, <1>13, <1>14, <1>15, <1>16,
           <1>17, <1>18, <1>19, <1>20, <1>21
        DEF StartNext, StartStep

\* The network stays as it is, and each of the two ways to start has its own points.
LEMMA StagesStay ==
    ASSUME StartTypeOK, Stages, NEW d \in Daemons, Others(d), overlay' = overlay,
           overlay = "tor" => at'[d] \notin KeyPoints,
           overlay # "tor" => at'[d] \notin TorPoints
    PROVE  Stages'
BY DEF Stages, Others

\* Every step keeps the daemons at the points of their network.
LEMMA StagesStep ==
    ASSUME StartTypeOK, Stages, DrawInv, [StartNext]_startVars
    PROVE  Stages' /\ overlay' = overlay
<1> USE DEF KeyPoints, TorPoints
<1>1. ASSUME NEW d \in Daemons, Launch(d) PROVE Stages' /\ overlay' = overlay
  BY <1>1, LaunchIs, StagesStay DEF Moves
<1>2. ASSUME NEW d \in Daemons, Gone(d), overlay' = overlay PROVE Stages' /\ overlay' = overlay
  BY <1>2, StagesStay DEF Gone
<1>3. ASSUME NEW d \in Daemons, Check(d) PROVE Stages' /\ overlay' = overlay
  <2>1. overlay = "tor" BY <1>3, CheckIs DEF Stages
  <2> QED BY <1>3, <2>1, CheckIs, StagesStay DEF Moves
<1>4. ASSUME NEW d \in Daemons, CreateTorrc(d) PROVE Stages' /\ overlay' = overlay
  <2>1. overlay = "tor" BY <1>4, TorrcIs DEF Stages
  <2> QED BY <1>4, <2>1, TorrcIs, StagesStay DEF Moves
<1>5. ASSUME NEW d \in Daemons, Spawn(d) PROVE Stages' /\ overlay' = overlay
  <2>1. overlay = "tor" BY <1>5, SpawnIs DEF Stages
  <2> QED BY <1>5, <2>1, SpawnIs, StagesStay DEF Moves
<1>6. ASSUME NEW d \in Daemons, ReadHostname(d) PROVE Stages' /\ overlay' = overlay
  <2>1. overlay = "tor" BY <1>6, HostnameIs DEF Stages
  <2> QED BY <1>6, <2>1, HostnameIs, StagesStay DEF Moves
<1>7. ASSUME NEW d \in Daemons, HostnameTimeout(d) PROVE Stages' /\ overlay' = overlay
  <2>1. Die(d, {}) /\ overlay' = overlay
    BY <1>7 DEF HostnameTimeout
  <2> QED BY <1>2, <2>1, DieIs
<1>8. ASSUME NEW d \in Daemons, ReservePort(d) PROVE Stages' /\ overlay' = overlay
  BY <1>8, ReserveIs, StagesStay DEF Moves
<1>9. ASSUME NEW d \in Daemons, Bind(d) PROVE Stages' /\ overlay' = overlay
  <2>1. CASE Die(d, {})
    BY <1>2, <1>9, <2>1, BindIs, DieIs
  <2>2. CASE Moves(d, "serving") /\ Others(d)
    BY <1>9, <2>2, BindIs, StagesStay DEF Moves
  <2> QED BY <1>9, <2>1, <2>2, BindIs
<1>10. ASSUME NEW d \in Daemons, LoadKey(d) PROVE Stages' /\ overlay' = overlay
  <2>1. at[d] = "load"
    BY <1>10 DEF LoadKey
  <2>2. overlay # "tor" /\ drawn < MaxStarts
    BY <2>1, MayDraw DEF Stages
  <2> QED BY <1>10, <2>2, LoadIs, StagesStay DEF Moves
<1>11. ASSUME NEW d \in Daemons, SaveKey(d) PROVE Stages' /\ overlay' = overlay
  <2>1. overlay # "tor" BY <1>11, SaveIs DEF Stages
  <2>2. CASE Die(d, {})
    BY <1>2, <1>11, <2>2, SaveIs, DieIs
  <2>3. CASE Moves(d, "open") /\ Others(d)
    BY <1>11, <2>1, <2>3, SaveIs, StagesStay DEF Moves
  <2> QED BY <1>11, <2>2, <2>3, SaveIs
<1>12. ASSUME NEW d \in Daemons, OpenKeyFile(d) \/ WriteKey(d) PROVE Stages' /\ overlay' = overlay
  <2>1. overlay # "tor" BY <1>12, WriteIs DEF Stages
  <2> QED BY <1>12, <2>1, WriteIs, StagesStay DEF Moves
<1>13. ASSUME NEW d \in Daemons, CreateSession(d) PROVE Stages' /\ overlay' = overlay
  <2>1. CASE Die(d, {})
    BY <1>2, <1>13, <2>1, SessionIs, DieIs
  <2>2. CASE Moves(d, "bind") /\ Others(d)
    BY <1>13, <2>2, SessionIs, StagesStay DEF Moves
  <2>3. CASE Gone(d)
    BY <1>2, <1>13, <2>3, SessionIs
  <2> QED BY <1>13, <2>1, <2>2, <2>3, SessionIs
<1>14. ASSUME NEW d \in Daemons, Exit(d) PROVE Stages' /\ overlay' = overlay
  BY <1>2, <1>14, ExitIs
<1>15. ASSUME NEW d \in Daemons, Crash(d) PROVE Stages' /\ overlay' = overlay
  BY <1>2, <1>15, CrashIs
<1>16. ASSUME UNCHANGED <<at, overlay>> PROVE Stages' /\ overlay' = overlay
  BY <1>16 DEF Stages
<1>17. ASSUME NEW d \in Daemons, TorUp(d) PROVE UNCHANGED <<at, overlay>>
  BY <1>17, TorUpIs
<1>18. TorWrites \/ TorKilled \/ (\E p \in Ports \cup {Ipc} : Expire(p)) \/ UNCHANGED startVars
       => UNCHANGED <<at, overlay>>
  BY DEF TorWrites, TorKilled, Expire, startVars, meVars
<1> QED BY <1>1, <1>3, <1>4, <1>5, <1>6, <1>7, <1>8, <1>9, <1>10, <1>11, <1>12, <1>13, <1>14,
           <1>15, <1>16, <1>17, <1>18
        DEF StartNext, StartStep

----------------------------------------------------------------------------
\* KeyInv, for one daemon.
KeyOK(d) ==
    /\ at[d] \in {"exists", "open", "write"} => self[d].key # Nil
    /\ at[d] \in {"create", "bind", "serving"} => self[d].key = keyfile /\ keyfile # Nil
    /\ at[d] = "open" => keyfile = Nil
    /\ at[d] = "write" => keyfile = Half /\ \A e \in Daemons : ~Serves(e)

\* A daemon that starts goes on, or one is gone.
LEMMA KeyFrame ==
    ASSUME KeyInv, NEW d \in Daemons, Others(d), keyfile' = keyfile,
           Starting(d) \/ at'[d] = "off",
           at'[d] \in {"exists", "open", "write"} => self'[d].key # Nil,
           at'[d] \in {"create", "bind", "serving"} => self'[d].key = keyfile /\ keyfile # Nil,
           at'[d] = "open" => keyfile = Nil,
           at'[d] # "write"
    PROVE  KeyInv'
<1>1. OneStarts'
  BY DEF KeyInv, OneStarts, Starting, Others
<1>2. ASSUME NEW e \in Daemons, e # d PROVE KeyOK(e)'
  <2>1. /\ at'[e] \in {"exists", "open", "write"} => self'[e].key # Nil
        /\ at'[e] \in {"create", "bind", "serving"} => self'[e].key = keyfile' /\ keyfile' # Nil
        /\ at'[e] = "open" => keyfile' = Nil
        /\ at'[e] = "write" => keyfile' = Half
    BY <1>2 DEF KeyInv, Others
  <2>2. at'[e] = "write" => \A f \in Daemons : ~Serves(f)'
    <3> SUFFICES ASSUME at'[e] = "write", NEW f \in Daemons PROVE at'[f] # "serving"
      BY DEF Serves
    <3>1. at[e] = "write" /\ Starting(e) /\ \A g \in Daemons : at[g] # "serving"
      BY <1>2 DEF Others, Starting, KeyInv, Serves
    <3>2. ~Starting(d)
      BY <1>2, <3>1 DEF KeyInv, OneStarts
    <3> QED BY <3>1, <3>2 DEF Others
  <2> QED BY <2>1, <2>2 DEF KeyOK
<1>3. KeyOK(d)'
  BY DEF KeyOK
<1> QED BY <1>1, <1>2, <1>3 DEF KeyInv, KeyOK

\* Every step keeps KeyInv, unless two starts have met.
LEMMA KeyStep ==
    ASSUME StartTypeOK, Stages, DrawInv, KeyInv, overlay # "tor", "raced" \notin past',
           [StartNext]_startVars
    PROVE  KeyInv'
<1>1. ASSUME NEW d \in Daemons, Launch(d) PROVE KeyInv'
  <2>1. /\ Others(d) /\ at'[d] = "load" /\ keyfile' = keyfile /\ at[d] = "off"
        /\ \A e \in Daemons : ~Starting(e)
    BY <1>1, LaunchIs DEF Moves
  <2>2. OneStarts'
    BY <2>1 DEF OneStarts, Starting, Others
  <2>3. ASSUME NEW e \in Daemons PROVE KeyOK(e)'
    <3>1. CASE e = d
      BY <2>1, <3>1 DEF KeyOK
    <3>2. CASE e # d
      <4>1. at'[e] = at[e] /\ self'[e] = self[e] /\ at[e] \in {"off", "serving"}
        BY <2>1, <3>2 DEF Others, Starting
      <4> QED BY <2>1, <4>1 DEF KeyOK, KeyInv
    <3> QED BY <3>1, <3>2
  <2> QED BY <2>2, <2>3 DEF KeyInv, KeyOK
<1>2. ASSUME NEW d \in Daemons, Gone(d), keyfile' = keyfile PROVE KeyInv'
  BY <1>2, KeyFrame DEF Gone
<1>3. ASSUME NEW d \in Daemons, Check(d) \/ CreateTorrc(d) \/ Spawn(d) \/ ReadHostname(d)
                                \/ HostnameTimeout(d) PROVE FALSE
  <2>1. at[d] \in TorPoints
    BY <1>3 DEF Check, CreateTorrc, Spawn, ReadHostname, HostnameTimeout, TorPoints
  <2> QED BY <2>1 DEF Stages
<1>4. ASSUME NEW d \in Daemons, ReservePort(d) PROVE FALSE
  <2>1. at[d] \in TorPoints
    BY <1>4 DEF ReservePort, TorPoints
  <2> QED BY <2>1 DEF Stages
<1>5. ASSUME NEW d \in Daemons, Bind(d) PROVE KeyInv'
  <2>1. CASE Die(d, {})
    BY <1>2, <1>5, <2>1, BindIs, DieIs
  <2>2. CASE Moves(d, "serving") /\ Others(d) /\ UNCHANGED self
    <3>1. at[d] = "bind" /\ keyfile' = keyfile /\ at'[d] = "serving" /\ Starting(d)
      BY <1>5, <2>2, BindIs DEF Moves, Starting
    <3>2. self'[d].key = keyfile /\ keyfile # Nil
      BY <2>2, <3>1 DEF KeyInv
    <3> QED BY <2>2, <3>1, <3>2, KeyFrame
  <2> QED BY <1>5, <2>1, <2>2, BindIs
<1>6. ASSUME NEW d \in Daemons, LoadKey(d) PROVE KeyInv'
  <2>1. at[d] = "load" /\ Starting(d)
    BY <1>6 DEF LoadKey, Starting
  <2>2. /\ Others(d) /\ keyfile' = keyfile
        /\ \/ /\ keyfile = Nil \/ (overlay = "i2p" /\ keyfile = Half)
              /\ self'[d].key # Nil
              /\ at'[d] = IF overlay = "i2p" THEN "exists" ELSE "open"
           \/ keyfile # Nil /\ self'[d].key = keyfile /\ at'[d] = "create"
    BY <1>6, <2>1, LoadIs, MayDraw DEF Moves
  <2> QED BY <2>1, <2>2, KeyFrame
<1>7. ASSUME NEW d \in Daemons, SaveKey(d) PROVE KeyInv'
  <2>1. CASE Die(d, {})
    BY <1>2, <1>7, <2>1, SaveIs, DieIs
  <2>2. CASE Go(d, "open") /\ keyfile = Nil /\ UNCHANGED <<self, external>>
    <3>1. at[d] = "exists" /\ Starting(d) /\ keyfile' = keyfile
      BY <1>7, SaveIs DEF Starting
    <3>2. Moves(d, "open") /\ Others(d)
      BY <2>2, GoIs DEF Points, Others, Moves
    <3>3. self'[d].key # Nil
      BY <2>2, <3>1 DEF KeyInv
    <3> QED BY <2>2, <3>1, <3>2, <3>3, KeyFrame DEF Moves
  <2> QED BY <1>7, <2>1, <2>2 DEF SaveKey
<1>8. ASSUME NEW d \in Daemons, OpenKeyFile(d) PROVE KeyInv'
  <2>1. at[d] = "open" /\ at'[d] = "write" /\ Others(d) /\ keyfile' = Half /\ self' = self
    BY <1>8, WriteIs, GoIs DEF OpenKeyFile, Moves, Points
  <2>2. /\ keyfile = Nil /\ Starting(d) /\ self'[d].key # Nil
        /\ \A e \in Daemons : e # d => ~Starting(e)
    BY <2>1 DEF KeyInv, OneStarts, Starting
  <2>3. \A e \in Daemons : at[e] # "serving"
    BY <2>2 DEF KeyInv
  <2>4. \A e \in Daemons : e # d => at'[e] = "off"
    BY <2>1, <2>2, <2>3 DEF Others, Starting
  <2> QED BY <2>1, <2>2, <2>4 DEF KeyInv, OneStarts, Starting, Serves
<1>9. ASSUME NEW d \in Daemons, WriteKey(d) PROVE KeyInv'
  <2>1. at[d] = "write" /\ at'[d] = "create" /\ Others(d) /\ keyfile' = self[d].key /\ self' = self
    BY <1>9, WriteIs, GoIs DEF WriteKey, Moves, Points
  <2>2. /\ Starting(d) /\ self[d].key # Nil
        /\ \A e \in Daemons : e # d => ~Starting(e)
        /\ \A e \in Daemons : at[e] # "serving"
    BY <2>1 DEF KeyInv, OneStarts, Starting, Serves
  <2>3. \A e \in Daemons : e # d => at'[e] = "off"
    BY <2>1, <2>2 DEF Others, Starting
  <2> QED BY <2>1, <2>2, <2>3 DEF KeyInv, OneStarts, Starting, Serves
<1>10. ASSUME NEW d \in Daemons, CreateSession(d) PROVE KeyInv'
  <2>1. CASE Die(d, {})
    BY <1>2, <1>10, <2>1, SessionIs, DieIs
  <2>2. CASE Moves(d, "bind") /\ Others(d) /\ UNCHANGED self
    <3>1. at[d] = "create" /\ keyfile' = keyfile /\ at'[d] = "bind" /\ Starting(d)
      BY <1>10, <2>2, SessionIs DEF Moves, Starting
    <3>2. self'[d].key = keyfile /\ keyfile # Nil
      BY <2>2, <3>1 DEF KeyInv
    <3> QED BY <2>2, <3>1, <3>2, KeyFrame
  <2>3. CASE Gone(d)
    BY <1>2, <1>10, <2>3, SessionIs
  <2> QED BY <1>10, <2>1, <2>2, <2>3, SessionIs
<1>11. ASSUME NEW d \in Daemons, Exit(d) PROVE KeyInv'
  BY <1>2, <1>11, ExitIs
<1>12. ASSUME NEW d \in Daemons, Crash(d) PROVE KeyInv'
  BY <1>2, <1>12, CrashIs
<1>13. ASSUME UNCHANGED <<at, self, keyfile>> PROVE KeyInv'
  BY <1>13 DEF KeyInv, OneStarts, Starting, Serves
<1>14. ASSUME NEW d \in Daemons, TorUp(d) PROVE UNCHANGED <<at, self, keyfile>>
  BY <1>14, TorUpIs
<1>15. TorWrites \/ TorKilled \/ (\E p \in Ports \cup {Ipc} : Expire(p)) \/ UNCHANGED startVars
       => UNCHANGED <<at, self, keyfile>>
  BY DEF TorWrites, TorKilled, Expire, startVars, meVars, keyVars
<1> QED BY <1>1, <1>3, <1>4, <1>5, <1>6, <1>7, <1>8, <1>9, <1>10, <1>11, <1>12, <1>13, <1>14, <1>15
        DEF StartNext, StartStep

\* One daemon moves, and the Tor processes stay as they are.
LEMMA TorFrame ==
    ASSUME StartTypeOK, TorInv, NEW d \in Daemons, Others(d),
           UNCHANGED <<hostnames, tor, born, lingers>>,
           torrc' = torrc \/ (born = {} /\ Starting(d)),
           Starting(d) \/ at'[d] = "off",
           OwnTor(d)' <=> OwnTor(d),
           OwnTor(d) /\ at'[d] # "hostname" => self'[d].addr = 0 /\ hostnames,
           OwnTor(d) /\ at'[d] \in {"bind", "serving"} => self'[d].port = 0,
           GuestOK(d)', StartOK(d)'
    PROVE  TorInv'
<1>1. OneStarts'
  BY DEF TorInv, OneStarts, Starting, Others
<1>2. \A e \in Daemons : OwnTor(e)' <=> OwnTor(e)
  BY DEF OwnTor, Others
<1>3. (tor = NoTor \/ (tor.socks # Nil /\ tor.of \in Daemons /\ OwnTor(tor.of)))'
  <2>1. CASE tor = NoTor
    BY <2>1 DEF NoTor
  <2>2. CASE tor # NoTor
    <3>1. PICK o \in Daemons : o = tor.of /\ OwnTor(o) /\ tor.socks # Nil
      BY <2>2 DEF TorInv
    <3>2. OwnTor(o)'
      BY <1>2, <3>1
    <3> QED BY <3>1, <3>2 DEF OwnTor
  <2> QED BY <2>1, <2>2
<1>4. \A e \in born' : OwnTor(e)'
  BY <1>2 DEF TorInv, StartTypeOK
<1>5. ASSUME NEW e \in Daemons PROVE OwnerOK(e)'
  <2>1. CASE e = d
    BY <1>2, <2>1 DEF TorInv, OwnerOK
  <2>2. CASE e # d
    BY <1>2, <2>2 DEF TorInv, OwnerOK, Others
  <2> QED BY <2>1, <2>2
<1>6. ASSUME NEW e \in Daemons, e # d PROVE GuestOK(e)'
  BY <1>6 DEF TorInv, GuestOK, Others, Starting
<1>7. ASSUME NEW e \in Daemons, e # d PROVE StartOK(e)'
  <2>1. CASE Starting(e)
    <3>1. at'[d] = "off" /\ at'[e] = at[e] /\ self'[e] = self[e] /\ torrc' = torrc
      BY <1>7, <2>1 DEF TorInv, OneStarts, Others
    <3>2. StartOK(e)
      BY DEF TorInv
    <3> QED BY <2>1, <3>1, <3>2 DEF StartOK, Starting
  <2>2. CASE ~Starting(e)
    BY <1>7, <2>2 DEF StartOK, Starting, Others
  <2> QED BY <2>1, <2>2
<1> QED BY <1>1, <1>3, <1>4, <1>5, <1>6, <1>7 DEF TorInv

\* The host has two daemons at most.
AtMostTwo == \A d, e, f \in Daemons : d = e \/ d = f \/ e = f

\* A daemon without a Tor of its own goes.
LEMMA GuestGoes ==
    ASSUME StartTypeOK, TorInv, NEW d \in Daemons, Gone(d), ~OwnTor(d),
           UNCHANGED <<torrc, hostnames, tor, born, lingers>>
    PROVE  TorInv'
<1>1. at'[d] = "off" /\ Others(d) /\ external'[d] = FALSE
  BY DEF Gone
<1>2. ~OwnTor(d)' /\ GuestOK(d)' /\ StartOK(d)'
  BY <1>1 DEF OwnTor, GuestOK, StartOK, Starting
<1> QED BY <1>1, <1>2, TorFrame

\* A daemon that dies without a trace had no Tor of its own.
LEMMA OwnersTor ==
    ASSUME StartTypeOK, TorInv, NEW d \in Daemons, Die(d, {}), past' \subseteq {"killed"}
    PROVE  ~OwnTor(d)
<1>1. tor.of # d /\ d \notin born
  BY DieIs
<1> QED BY <1>1 DEF TorInv, OwnerOK

\* TorInv when a daemon dies without a trace.
LEMMA DiesAsGuest ==
    ASSUME StartTypeOK, TorInv, NEW d \in Daemons, Die(d, {}), past' \subseteq {"killed"},
           UNCHANGED <<torrc, hostnames, lingers>>
    PROVE  TorInv'
<1>1. ~OwnTor(d)
  BY OwnersTor
<1>2. Gone(d) /\ tor' = tor /\ born' = born
  <2>1. tor.of # d /\ d \notin born
    BY DieIs
  <2> QED BY <2>1, DieIs
<1> QED BY <1>1, <1>2, GuestGoes

\* TorInv when a daemon is started.
LEMMA TorLaunch ==
    ASSUME StartTypeOK, overlay = "tor", TorInv, NEW d \in Daemons, Launch(d), past' \subseteq {"killed"}
    PROVE  TorInv'
<1>1. /\ at[d] = "off" /\ at'[d] = "check" /\ Others(d)
      /\ self' \in [Daemons -> Selves] /\ self'[d].socks \in SocksPorts
      /\ UNCHANGED <<external, hostnames, tor, born, lingers>>
      /\ born = {} /\ lingers = {} /\ \A e \in Daemons : ~Starting(e)
      /\ tor.socks \in {self'[d].socks, Nil}
  BY LaunchIs DEF Moves
<1>2. OneStarts'
  BY <1>1 DEF OneStarts, Starting, Others
<1>3. \A e \in Daemons : OwnTor(e)' <=> OwnTor(e)
  BY <1>1 DEF OwnTor, Others
<1>4. (tor = NoTor \/ (tor.socks # Nil /\ tor.of \in Daemons /\ OwnTor(tor.of)))'
  <2>1. CASE tor = NoTor
    BY <1>1, <2>1 DEF NoTor
  <2>2. CASE tor # NoTor
    <3>1. PICK o \in Daemons : o = tor.of /\ OwnTor(o) /\ tor.socks # Nil
      BY <2>2 DEF TorInv
    <3>2. OwnTor(o)'
      BY <1>3, <3>1
    <3> QED BY <1>1, <3>1, <3>2 DEF OwnTor
  <2> QED BY <2>1, <2>2
<1>5. \A e \in born' : OwnTor(e)'
  BY <1>1
<1>6. ASSUME NEW e \in Daemons PROVE OwnerOK(e)'
  <2>1. CASE e = d
    BY <1>1, <2>1 DEF OwnerOK, OwnTor
  <2>2. CASE e # d
    <3>1. OwnerOK(e)
      BY DEF TorInv
    <3> QED BY <1>1, <1>3, <2>2, <3>1 DEF OwnerOK, Others
  <2> QED BY <2>1, <2>2
<1>7. ASSUME NEW e \in Daemons PROVE GuestOK(e)' /\ StartOK(e)'
  <2>1. CASE e = d
    <3>1. ~external'[d]
      BY <1>1 DEF TorInv, GuestOK
    <3>2. self'[d].socks # Nil
      BY <1>1, StartAssumption
    <3>3. tor = NoTor \/ tor.socks = self'[d].socks
      BY <1>1 DEF TorInv
    <3>4. 0 \notin lingers' /\ (tor'.of \notin {d, Nil} => lingers' = {})
      BY <1>1
    <3> QED BY <1>1, <2>1, <3>1, <3>2, <3>3, <3>4 DEF GuestOK, StartOK, NoTor
  <2>2. CASE e # d
    <3>1. GuestOK(e) /\ ~Starting(e)
      BY <1>1 DEF TorInv
    <3> QED BY <1>1, <2>2, <3>1 DEF GuestOK, StartOK, Starting, Others
  <2> QED BY <2>1, <2>2
<1> QED BY <1>2, <1>4, <1>5, <1>6, <1>7 DEF TorInv

\* A daemon that starts finds the Tor of one that serves.
LEMMA OwnerServes ==
    ASSUME StartTypeOK, overlay = "tor", TorInv, NEW d \in Daemons, Starting(d), ~OwnTor(d), tor # NoTor
    PROVE  \E o \in Daemons : o # d /\ o = tor.of /\ OwnTor(o) /\ at[o] = "serving" /\ self[o].port = 0
                              /\ hostnames /\ tor.of \notin {d, Nil}
<1>1. PICK o \in Daemons : o = tor.of /\ OwnTor(o)
  BY DEF TorInv
<1>2. o # d /\ at[o] = "serving"
  BY <1>1 DEF TorInv, OneStarts, Starting, OwnTor
<1>3. OwnerOK(o)
  BY DEF TorInv
<1>4. self[o].port = 0 /\ hostnames
  BY <1>1, <1>2, <1>3 DEF OwnerOK
<1>5. o # Nil
  BY StartAssumption
<1> QED BY <1>1, <1>2, <1>4, <1>5

\* TorInv when the SocksPort is tried: the second service is taken if Tor runs.
LEMMA TorCheck ==
    ASSUME StartTypeOK, overlay = "tor", TorInv, NEW d \in Daemons, Check(d)
    PROVE  TorInv'
<1>1. /\ at[d] = "check" /\ Others(d) /\ self'[d].socks = self[d].socks
      /\ UNCHANGED <<torrc, hostnames, tor, born, lingers>>
  BY CheckIs
<1>2. Starting(d) /\ ~OwnTor(d) /\ ~external[d] /\ StartOK(d)
  BY <1>1 DEF Starting, OwnTor, TorInv, GuestOK
<1>3. self[d].socks # Nil /\ born = {} /\ (tor = NoTor \/ tor.socks = self[d].socks)
  BY <1>1, <1>2 DEF StartOK
<1>4. CASE tor.socks = self[d].socks /\ external'[d] = TRUE
           /\ self'[d].addr = (IF hostnames THEN 1 ELSE Nil) /\ Moves(d, "reserve")
  <2>1. tor # NoTor
    BY <1>3, <1>4 DEF NoTor
  <2>2. hostnames
    BY <1>2, <2>1, OwnerServes
  <2>3. at'[d] = "reserve" /\ self'[d].addr = 1
    BY <1>4, <2>2 DEF Moves
  <2>4. ~OwnTor(d)'
    BY <1>4 DEF OwnTor
  <2>5. GuestOK(d)'
    BY <1>1, <2>1, <2>3 DEF GuestOK, NoTor
  <2>6. StartOK(d)'
    BY <1>1, <1>2, <2>3 DEF StartOK, Starting
  <2> QED BY <1>1, <1>2, <2>3, <2>4, <2>5, <2>6, TorFrame
<1>5. CASE tor.socks # self[d].socks /\ Moves(d, "torrc") /\ UNCHANGED <<self, external>>
  <2>1. at'[d] = "torrc" /\ tor = NoTor
    BY <1>3, <1>5 DEF Moves
  <2>2. ~OwnTor(d)' /\ GuestOK(d)'
    BY <1>2, <1>5, <2>1 DEF OwnTor, GuestOK
  <2>3. StartOK(d)'
    BY <1>1, <1>2, <1>3, <1>5, <2>1 DEF StartOK, Starting, NoTor
  <2> QED BY <1>1, <1>2, <2>1, <2>2, <2>3, TorFrame
<1> QED BY <1>4, <1>5, CheckIs

\* TorInv when torrc is written.
LEMMA TorTorrc ==
    ASSUME StartTypeOK, overlay = "tor", TorInv, NEW d \in Daemons, CreateTorrc(d)
    PROVE  TorInv'
<1>1. /\ at[d] = "torrc" /\ at'[d] = "spawn" /\ Others(d)
      /\ torrc' = (IF torrc = Nil THEN self[d].socks ELSE torrc)
      /\ UNCHANGED <<self, external, hostnames, tor, born, lingers>>
  BY TorrcIs DEF Moves
<1>2. Starting(d) /\ ~OwnTor(d) /\ ~OwnTor(d)' /\ ~external[d] /\ StartOK(d)
  BY <1>1 DEF Starting, OwnTor, TorInv, GuestOK
<1>3. self[d].socks # Nil /\ born = {} /\ tor = NoTor /\ torrc' # Nil
  BY <1>1, <1>2 DEF StartOK
<1>4. GuestOK(d)'
  BY <1>1, <1>2 DEF GuestOK
<1>5. StartOK(d)'
  BY <1>1, <1>2, <1>3 DEF StartOK, Starting, NoTor
<1> QED BY <1>1, <1>2, <1>3, <1>4, <1>5, TorFrame

\* TorInv when Tor is started.
LEMMA TorSpawn ==
    ASSUME StartTypeOK, overlay = "tor", TorInv, NEW d \in Daemons, Spawn(d)
    PROVE  TorInv'
<1>1. /\ at[d] = "spawn" /\ at'[d] = "hostname" /\ Others(d) /\ born' = born \cup {d}
      /\ UNCHANGED <<self, external, torrc, hostnames, tor, lingers>>
  BY SpawnIs DEF Moves
<1>2. Starting(d) /\ ~OwnTor(d) /\ ~external[d] /\ StartOK(d) /\ OwnTor(d)'
  BY <1>1 DEF Starting, OwnTor, TorInv, GuestOK
<1>3. born = {} /\ tor = NoTor /\ torrc # Nil /\ tor.of = Nil
  BY <1>1, <1>2 DEF StartOK, NoTor
<1>4. \A e \in Daemons : ~OwnTor(e)
  BY <1>3, StartAssumption DEF TorInv, OwnerOK
<1>5. \A e \in Daemons : OwnTor(e)' => e = d
  BY <1>1, <1>4 DEF OwnTor, Others
<1>6. OneStarts'
  BY <1>1, <1>2 DEF TorInv, OneStarts, Starting, Others
<1>7. tor' = NoTor
  BY <1>1, <1>3
<1>8. \A e \in born' : OwnTor(e)'
  BY <1>1, <1>2, <1>3
<1>9. ASSUME NEW e \in Daemons PROVE OwnerOK(e)'
  BY <1>1, <1>3, <1>5 DEF OwnerOK, NoTor
<1>10. ASSUME NEW e \in Daemons PROVE GuestOK(e)' /\ StartOK(e)'
  <2>1. CASE e = d
    BY <1>1, <1>2, <2>1 DEF GuestOK, StartOK, Starting
  <2>2. CASE e # d
    <3>1. GuestOK(e) /\ ~Starting(e)
      BY <1>2, <2>2 DEF TorInv, OneStarts
    <3> QED BY <1>1, <2>2, <3>1 DEF GuestOK, StartOK, Starting, Others
  <2> QED BY <2>1, <2>2
<1> QED BY <1>6, <1>7, <1>8, <1>9, <1>10 DEF TorInv, NoTor

\* TorInv when the first hidden service is read.
LEMMA TorHostname ==
    ASSUME StartTypeOK, overlay = "tor", TorInv, NEW d \in Daemons, ReadHostname(d)
    PROVE  TorInv'
<1>1. /\ at[d] = "hostname" /\ hostnames /\ at'[d] = "reserve" /\ Others(d) /\ self'[d].addr = 0
      /\ UNCHANGED <<external, torrc, hostnames, tor, born, lingers>>
  BY HostnameIs DEF Moves
<1>2. Starting(d) /\ ~external[d] /\ StartOK(d) /\ OwnTor(d) /\ OwnTor(d)'
  BY <1>1 DEF Starting, OwnTor, TorInv, GuestOK
<1>3. GuestOK(d)' /\ StartOK(d)'
  BY <1>1, <1>2 DEF GuestOK, StartOK, Starting
<1> QED BY <1>1, <1>2, <1>3, TorFrame

\* The first daemon gets the first port, and the second one the second.
LEMMA TorReserve ==
    ASSUME StartTypeOK, overlay = "tor", TorInv, NEW d \in Daemons, ReservePort(d),
           AtMostTwo, LastPort >= 1
    PROVE  TorInv'
<1>1. /\ at[d] = "reserve" /\ at'[d] = "bind" /\ Others(d) /\ self'[d].addr = self[d].addr
      /\ self'[d].port = Nil => \A p \in Ports : ~Busy(p) => \E q \in Ports : q < p /\ ~Busy(q)
      /\ self'[d].port # Nil => /\ self'[d].port \in Ports /\ ~Busy(self'[d].port)
                                /\ \A q \in Ports : q < self'[d].port => Busy(q)
      /\ UNCHANGED <<external, torrc, hostnames, tor, born, lingers>>
  BY ReserveIs DEF Moves
<1>2. 0 \in Ports /\ 1 \in Ports /\ \A p \in Ports : p \in Int /\ p >= 0
  BY StartAssumption DEF Ports
<1>3. Starting(d) /\ StartOK(d) /\ GuestOK(d) /\ OwnerOK(d)
  BY <1>1 DEF Starting, TorInv
<1>4. 0 \notin lingers /\ (tor.of \notin {d, Nil} => lingers = {})
  BY <1>3 DEF StartOK
<1>5. OwnTor(d)' <=> OwnTor(d)
  BY <1>1 DEF OwnTor
<1>6. StartOK(d)'
  BY <1>1, <1>4 DEF StartOK, Starting
<1>7. ASSUME NEW e \in Daemons, Serves(e) PROVE OwnTor(e) \/ external[e]
  BY <1>7 DEF OwnTor, Serves
<1>8. CASE external[d]
  <2>1. ~OwnTor(d) /\ tor # NoTor /\ self[d].addr = 1
    BY <1>3, <1>8 DEF OwnTor, GuestOK
  <2>2. PICK o \in Daemons : /\ o # d /\ o = tor.of /\ OwnTor(o) /\ at[o] = "serving" /\ self[o].port = 0
                             /\ tor.of \notin {d, Nil}
    BY <1>3, <2>1, OwnerServes
  <2>3. lingers = {}
    BY <1>4, <2>2
  <2>4. Busy(0)
    BY <2>2 DEF Busy, Listens, Serves
  <2>5. ~Busy(1)
    <3> SUFFICES ASSUME NEW e \in Daemons, Serves(e), self[e].port = 1 PROVE FALSE
      BY <2>3 DEF Busy, Listens
    <3>1. e # d
      BY <1>1 DEF Serves
    <3>2. e = o
      BY <2>2, <3>1 DEF AtMostTwo
    <3> QED BY <2>2, <3>2
  <2>6. self'[d].port = 1
    <3>1. CASE self'[d].port = Nil
      <4>1. PICK q \in Ports : q < 1 /\ ~Busy(q)
        BY <1>1, <1>2, <2>5, <3>1
      <4>2. q = 0
        BY <1>2, <4>1
      <4> QED BY <2>4, <4>1, <4>2
    <3>2. CASE self'[d].port # Nil
      <4>1. PICK p \in Ports : p = self'[d].port /\ ~Busy(p) /\ \A q \in Ports : q < p => Busy(q)
        BY <1>1, <3>2
      <4>2. p # 0 /\ ~(1 < p)
        BY <1>2, <2>4, <2>5, <4>1
      <4>3. p = 1
        BY <1>2, <4>2
      <4> QED BY <4>1, <4>3
    <3> QED BY <3>1, <3>2
  <2>7. GuestOK(d)'
    BY <1>1, <2>1, <2>6 DEF GuestOK, NoTor
  <2> QED BY <1>1, <1>3, <1>5, <1>6, <2>1, <2>7, TorFrame
<1>9. CASE ~external[d]
  <2>1. OwnTor(d)
    BY <1>1, <1>9 DEF OwnTor
  <2>2. self[d].addr = 0 /\ hostnames /\ \A e \in Daemons : OwnTor(e) => e = d
    BY <1>1, <1>3, <2>1 DEF OwnerOK
  <2>3. ~Busy(0)
    <3> SUFFICES ASSUME NEW e \in Daemons, Serves(e), self[e].port = 0 PROVE FALSE
      BY <1>4 DEF Busy, Listens
    <3>1. e # d
      BY <1>1 DEF Serves
    <3>2. external[e] /\ GuestOK(e)
      BY <1>7, <2>2, <3>1 DEF TorInv
    <3> QED BY <3>2 DEF GuestOK, Serves
  <2>4. self'[d].port = 0
    <3>1. CASE self'[d].port = Nil
      <4>1. PICK q \in Ports : q < 0
        BY <1>1, <1>2, <2>3, <3>1
      <4> QED BY <1>2, <4>1
    <3>2. CASE self'[d].port # Nil
      <4>1. PICK p \in Ports : p = self'[d].port /\ \A q \in Ports : q < p => Busy(q)
        BY <1>1, <3>2
      <4>2. ~(0 < p)
        BY <1>2, <2>3, <4>1
      <4>3. p = 0
        BY <1>2, <4>2
      <4> QED BY <4>1, <4>3
    <3> QED BY <3>1, <3>2
  <2>5. GuestOK(d)'
    BY <1>1, <1>9 DEF GuestOK
  <2> QED BY <1>1, <1>3, <1>5, <1>6, <2>2, <2>4, <2>5, TorFrame
<1> QED BY <1>8, <1>9

\* TorInv when the sockets are opened.
LEMMA TorBind ==
    ASSUME StartTypeOK, overlay = "tor", TorInv, NEW d \in Daemons, Bind(d), past' \subseteq {"killed"}
    PROVE  TorInv'
<1>1. UNCHANGED <<torrc, hostnames, lingers>> /\ at[d] = "bind"
  BY BindIs
<1>2. CASE Die(d, {})
  BY <1>1, <1>2, DiesAsGuest
<1>3. CASE Moves(d, "serving") /\ Others(d) /\ UNCHANGED <<self, external, tor, born, past>>
  <2>1. at'[d] = "serving" /\ Starting(d) /\ GuestOK(d) /\ OwnerOK(d)
    BY <1>1, <1>3 DEF Moves, Starting, TorInv
  <2>2. OwnTor(d)' <=> OwnTor(d)
    BY <1>1, <1>3, <2>1 DEF OwnTor
  <2>3. GuestOK(d)' /\ StartOK(d)'
    BY <1>1, <1>3, <2>1 DEF GuestOK, StartOK, Starting
  <2>4. OwnTor(d) => self'[d].addr = 0 /\ hostnames /\ self'[d].port = 0
    BY <1>1, <1>3, <2>1 DEF OwnerOK
  <2> QED BY <1>1, <1>3, <2>1, <2>2, <2>3, <2>4, TorFrame
<1> QED BY <1>2, <1>3, BindIs

\* TorInv when Tor comes up.
LEMMA TorComesUp ==
    ASSUME StartTypeOK, Stages, overlay = "tor", TorInv, NEW d \in Daemons, TorUp(d)
    PROVE  TorInv'
<1>1. /\ d \in born /\ born' = born \ {d} /\ UNCHANGED <<at, self, external, torrc, hostnames, lingers>>
      /\ \/ torrc # Nil /\ tor = NoTor /\ tor'.of = d /\ tor'.socks = torrc
         \/ tor' = tor /\ ~(torrc # Nil /\ tor = NoTor)
  BY TorUpIs
<1>2. OwnTor(d) /\ OwnerOK(d)
  BY <1>1 DEF TorInv
<1>3. (\A e \in Daemons : OwnTor(e)' <=> OwnTor(e)) /\ \A e \in Daemons : OwnTor(e) => e = d
  BY <1>1, <1>2 DEF OwnTor, OwnerOK
<1>4. tor'.of = d /\ tor'.socks # Nil
  <2>1. CASE tor = NoTor /\ torrc # Nil
    BY <1>1, <2>1
  <2>2. CASE tor.of = d
    <3>1. tor # NoTor
      BY <2>2, StartAssumption DEF NoTor
    <3> QED BY <1>1, <2>2, <3>1 DEF TorInv
  <2> QED BY <1>2, <2>1, <2>2 DEF OwnerOK
<1>5. OneStarts'
  BY <1>1 DEF TorInv, OneStarts, Starting
<1>6. (tor = NoTor \/ (tor.socks # Nil /\ tor.of \in Daemons /\ OwnTor(tor.of)))'
  BY <1>2, <1>3, <1>4 DEF OwnTor
<1>7. \A e \in born' : OwnTor(e)'
  BY <1>1, <1>3 DEF TorInv, StartTypeOK
<1>8. tor' # NoTor
  BY <1>4 DEF NoTor
<1>9. ASSUME NEW e \in Daemons PROVE OwnerOK(e)'
  <2>1. CASE e = d
    BY <1>1, <1>2, <1>3, <1>4, <2>1 DEF OwnerOK
  <2>2. CASE e # d
    BY <1>3, <2>2 DEF OwnerOK
  <2> QED BY <2>1, <2>2
<1>10. ASSUME NEW e \in Daemons PROVE GuestOK(e)'
  BY <1>1, <1>8 DEF TorInv, GuestOK, Starting, NoTor
<1>11. ASSUME NEW e \in Daemons PROVE StartOK(e)'
  <2>1. CASE Starting(e)
    <3>1. StartOK(e) /\ GuestOK(e)
      BY DEF TorInv
    <3>2. at[e] \notin {"check", "torrc", "spawn"}
      BY <1>1, <3>1 DEF StartOK
    <3>3. at[e] \in {"hostname", "reserve", "bind"}
      BY <2>1, <3>2 DEF Starting, Stages, KeyPoints, StartTypeOK, Points
    <3>4. CASE e = d
      BY <1>1, <1>4, <3>1, <3>3, <3>4 DEF StartOK, Starting
    <3>5. CASE e # d
      <4>1. external[e]
        BY <1>3, <3>3, <3>5 DEF OwnTor
      <4>2. tor # NoTor
        BY <2>1, <3>1, <4>1 DEF GuestOK
      <4>3. tor' = tor
        BY <1>1, <4>2
      <4> QED BY <1>1, <3>1, <3>3, <4>3 DEF StartOK, Starting
    <3> QED BY <3>4, <3>5
  <2>2. CASE ~Starting(e)
    BY <1>1, <2>2 DEF StartOK, Starting
  <2> QED BY <2>1, <2>2
<1> QED BY <1>5, <1>6, <1>7, <1>9, <1>10, <1>11 DEF TorInv

\* TorInv when a daemon ends.
LEMMA TorExit ==
    ASSUME StartTypeOK, overlay = "tor", TorInv, NEW d \in Daemons, Exit(d), past' \subseteq {"killed"}
    PROVE  TorInv'
<1>1. /\ Serves(d) /\ Gone(d) /\ born' = born \ {d}
      /\ tor' = IF tor.of = d THEN NoTor ELSE tor
      /\ \A e \in Daemons : ~Starting(e)
      /\ UNCHANGED <<torrc, hostnames>>
  BY ExitIs
<1>2. \A e \in Daemons : ~Starting(e)'
  BY <1>1 DEF Gone, Others, Starting
<1>3. /\ OneStarts'
      /\ \A e \in Daemons : StartOK(e)'
  BY <1>2 DEF OneStarts, StartOK, Starting
<1>4. \A e \in Daemons : OwnTor(e)' <=> OwnTor(e) /\ e # d
  BY <1>1 DEF OwnTor, Gone, Others
<1>5. \A e \in born' : OwnTor(e)'
  BY <1>1, <1>4 DEF TorInv, StartTypeOK
<1>6. (tor = NoTor \/ (tor.socks # Nil /\ tor.of \in Daemons /\ OwnTor(tor.of)))'
  <2>1. CASE tor' = NoTor
    BY <2>1 DEF NoTor
  <2>2. CASE tor' # NoTor
    <3>1. tor' = tor /\ tor.of # d
      BY <1>1, <2>2
    <3>2. PICK o \in Daemons : o = tor.of /\ OwnTor(o) /\ tor.socks # Nil
      BY <2>2, <3>1 DEF TorInv
    <3>3. OwnTor(o)'
      BY <1>4, <3>1, <3>2
    <3> QED BY <3>1, <3>2, <3>3 DEF OwnTor
  <2> QED BY <2>1, <2>2
<1>7. ASSUME NEW e \in Daemons PROVE OwnerOK(e)' /\ GuestOK(e)'
  <2>1. CASE e = d
    BY <1>1, <1>4, <2>1 DEF OwnerOK, GuestOK, Gone
  <2>2. CASE e # d
    <3>1. OwnerOK(e) /\ GuestOK(e) /\ at'[e] = at[e] /\ self'[e] = self[e] /\ external'[e] = external[e]
      BY <1>1, <2>2 DEF TorInv, Gone, Others
    <3>2. GuestOK(e)'
      BY <1>2, <3>1 DEF GuestOK
    <3>3. OwnerOK(e)'
      BY <1>1, <1>4, <2>2, <3>1 DEF OwnerOK
    <3> QED BY <3>2, <3>3
  <2> QED BY <2>1, <2>2
<1> QED BY <1>3, <1>5, <1>6, <1>7 DEF TorInv

\* Whoever is killed and leaves nothing behind is a guest, on the second port.
LEMMA TorCrash ==
    ASSUME StartTypeOK, overlay = "tor", TorInv, NEW d \in Daemons, Crash(d), past' \subseteq {"killed"},
           AtMostTwo
    PROVE  TorInv'
<1>1. /\ at[d] # "off" /\ Gone(d) /\ tor.of # d /\ d \notin born
      /\ tor' = tor /\ born' = born /\ UNCHANGED <<torrc, hostnames>>
  BY CrashIs
<1>2. /\ ~Serves(d) => lingers' = lingers
      /\ lingers' \subseteq lingers \cup {self[d].port, Ipc}
  BY CrashIs, LingerIs
<1>3. ~OwnTor(d)
  BY <1>1 DEF TorInv, OwnerOK
<1>4. Serves(d) => self[d].port = 1
  BY <1>3 DEF TorInv, GuestOK, OwnTor, Serves
<1>5. 0 \notin lingers => 0 \notin lingers'
  BY <1>2, <1>4, StartAssumption
<1>6. OneStarts'
  BY <1>1 DEF TorInv, OneStarts, Starting, Gone, Others
<1>7. \A e \in Daemons : OwnTor(e)' <=> OwnTor(e)
  BY <1>1, <1>3 DEF OwnTor, Gone, Others
<1>8. (tor = NoTor \/ (tor.socks # Nil /\ tor.of \in Daemons /\ OwnTor(tor.of)))'
  <2>1. CASE tor = NoTor
    BY <1>1, <2>1 DEF NoTor
  <2>2. CASE tor # NoTor
    <3>1. PICK o \in Daemons : o = tor.of /\ OwnTor(o) /\ tor.socks # Nil
      BY <2>2 DEF TorInv
    <3>2. OwnTor(o)'
      BY <1>7, <3>1
    <3> QED BY <1>1, <3>1, <3>2 DEF OwnTor
  <2> QED BY <2>1, <2>2
<1>9. \A e \in born' : OwnTor(e)'
  BY <1>1, <1>7 DEF TorInv, StartTypeOK
<1>10. ASSUME NEW e \in Daemons PROVE OwnerOK(e)' /\ GuestOK(e)' /\ StartOK(e)'
  <2>1. CASE e = d
    BY <1>1, <1>3, <1>7, <2>1 DEF OwnerOK, GuestOK, StartOK, Starting, Gone
  <2>2. CASE e # d
    <3>1. /\ OwnerOK(e) /\ GuestOK(e) /\ StartOK(e)
          /\ at'[e] = at[e] /\ self'[e] = self[e] /\ external'[e] = external[e]
      BY <1>1, <2>2 DEF TorInv, Gone, Others
    <3>2. OwnerOK(e)' /\ GuestOK(e)'
      BY <1>1, <1>7, <3>1 DEF OwnerOK, GuestOK, Starting
    <3>3. Starting(e) /\ tor.of \notin {e, Nil} => lingers' = {}
      <4> SUFFICES ASSUME Starting(e), tor.of \notin {e, Nil} PROVE lingers' = {}
        OBVIOUS
      <4>1. tor.of \in Daemons
        BY TypesAre DEF Tors
      <4>2. FALSE
        BY <1>1, <2>2, <4>1 DEF AtMostTwo
      <4> QED BY <4>2
    <3>4. StartOK(e)'
      BY <1>1, <1>5, <3>1, <3>3 DEF StartOK, Starting
    <3> QED BY <3>2, <3>4
  <2> QED BY <2>1, <2>2
<1> QED BY <1>6, <1>8, <1>9, <1>10 DEF TorInv

\* What has happened stays.
LEMMA PastStays ==
    ASSUME StartTypeOK, DrawInv, [StartNext]_startVars
    PROVE  past \subseteq past'
<1>1. ASSUME NEW d \in Daemons, Launch(d) PROVE past \subseteq past'
  BY <1>1, LaunchIs
<1>2. ASSUME NEW d \in Daemons, Exit(d) PROVE past \subseteq past'
  BY <1>2, ExitIs
<1>3. ASSUME NEW d \in Daemons, Crash(d) PROVE past \subseteq past'
  BY <1>3, CrashIs
<1>4. ASSUME NEW d \in Daemons, Die(d, {}) PROVE past \subseteq past'
  BY <1>4, DieIs
<1>5. ASSUME NEW d \in Daemons, StartStep(d) PROVE past \subseteq past'
  BY <1>4, <1>5 DEF StartStep, Check, CreateTorrc, Spawn, ReadHostname, HostnameTimeout, ReservePort,
       Bind, LoadKey, SaveKey, OpenKeyFile, WriteKey, CreateSession
<1>6. ASSUME NEW d \in Daemons, TorUp(d) PROVE past \subseteq past'
  BY <1>6, TorUpIs
<1>7. TorWrites \/ TorKilled \/ (\E p \in Ports \cup {Ipc} : Expire(p)) \/ UNCHANGED startVars
      => past' = past
  BY DEF TorWrites, TorKilled, Expire, startVars
<1> QED BY <1>1, <1>2, <1>3, <1>5, <1>6, <1>7 DEF StartNext

\* Every step keeps TorInv, if nothing was left behind and no two starts have met.
LEMMA TorStep ==
    ASSUME StartTypeOK, Stages, overlay = "tor", TorInv, past' \subseteq {"killed"}, [StartNext]_startVars,
           AtMostTwo, LastPort >= 1
    PROVE  TorInv'
<1>1. ASSUME NEW d \in Daemons, Launch(d) PROVE TorInv'
  BY <1>1, TorLaunch
<1>2. ASSUME NEW d \in Daemons, Check(d) PROVE TorInv'
  BY <1>2, TorCheck
<1>3. ASSUME NEW d \in Daemons, CreateTorrc(d) PROVE TorInv'
  BY <1>3, TorTorrc
<1>4. ASSUME NEW d \in Daemons, Spawn(d) PROVE TorInv'
  BY <1>4, TorSpawn
<1>5. ASSUME NEW d \in Daemons, ReadHostname(d) PROVE TorInv'
  BY <1>5, TorHostname
<1>6. ASSUME NEW d \in Daemons, HostnameTimeout(d) PROVE TorInv'
  <2>1. Die(d, {}) /\ UNCHANGED <<torrc, hostnames, lingers>>
    BY <1>6 DEF HostnameTimeout
  <2> QED BY <2>1, DiesAsGuest
<1>7. ASSUME NEW d \in Daemons, ReservePort(d) PROVE TorInv'
  BY <1>7, TorReserve
<1>8. ASSUME NEW d \in Daemons, Bind(d) PROVE TorInv'
  BY <1>8, TorBind
<1>9. ASSUME NEW d \in Daemons,
             LoadKey(d) \/ SaveKey(d) \/ OpenKeyFile(d) \/ WriteKey(d) \/ CreateSession(d) PROVE FALSE
  <2>1. at[d] \in KeyPoints
    BY <1>9 DEF LoadKey, SaveKey, OpenKeyFile, WriteKey, CreateSession, KeyPoints
  <2> QED BY <2>1 DEF Stages
<1>10. ASSUME NEW d \in Daemons, TorUp(d) PROVE TorInv'
  BY <1>10, TorComesUp
<1>11. ASSUME NEW d \in Daemons, Exit(d) PROVE TorInv'
  BY <1>11, TorExit
<1>12. ASSUME NEW d \in Daemons, Crash(d) PROVE TorInv'
  BY <1>12, TorCrash
<1>13. CASE TorWrites
  <2>1. hostnames' = TRUE /\ UNCHANGED <<at, self, external, torrc, tor, born, lingers>>
    BY <1>13 DEF TorWrites, meVars
  <2> QED BY <2>1 DEF TorInv, OneStarts, Starting, OwnTor, OwnerOK, GuestOK, StartOK, NoTor
<1>14. CASE TorKilled
  BY <1>14, StartAssumption DEF TorKilled, TorInv
<1>15. CASE \E p \in Ports \cup {Ipc} : Expire(p)
  <2>1. lingers' \subseteq lingers /\ UNCHANGED <<at, self, external, torrc, hostnames, tor, born>>
    BY <1>15 DEF Expire, meVars, torVars
  <2>2. lingers = {} => lingers' = {}
    BY <2>1
  <2> QED BY <2>1, <2>2 DEF TorInv, OneStarts, Starting, OwnTor, OwnerOK, GuestOK, StartOK, NoTor
<1>16. CASE UNCHANGED startVars
  <2>1. UNCHANGED <<at, self, external, torrc, hostnames, tor, born, lingers>>
    BY <1>16 DEF startVars, meVars, torVars
  <2> QED BY <2>1 DEF TorInv, OneStarts, Starting, OwnTor, OwnerOK, GuestOK, StartOK, NoTor
<1> QED BY <1>1, <1>2, <1>3, <1>4, <1>5, <1>6, <1>7, <1>8, <1>9, <1>10, <1>11, <1>12, <1>13, <1>14,
           <1>15, <1>16
        DEF StartNext, StartStep

\* The inductive invariant for any number of daemons, and what two of them add.
StartParts ==
    /\ StartTypeOK
    /\ DrawInv
    /\ Stages
    /\ overlay # "tor" /\ "raced" \notin past => KeyInv
TorSettled == overlay = "tor" /\ past \subseteq {"killed"} => TorInv

\* Both hold before the first start.
LEMMA StartInitParts == StartInit => StartParts /\ TorSettled
<1> SUFFICES ASSUME StartInit PROVE StartParts /\ TorSettled
  OBVIOUS
<1>1. \A d \in Daemons : at[d] = "off" /\ external[d] = FALSE
  BY DEF StartInit
<1>2. StartTypeOK
  BY StartInitTypes
<1>3. DrawInv
  <2>1. Loading = {}
    BY <1>1 DEF Loading
  <2>2. drawn = 0 /\ starts = 0 /\ IsFiniteSet({}) /\ Cardinality({}) = 0
    BY FS_EmptySet DEF StartInit
  <2> QED BY <2>1, <2>2 DEF DrawInv
<1>4. Stages
  BY <1>1 DEF Stages, KeyPoints, TorPoints
<1>5. OneStarts
  BY <1>1 DEF OneStarts, Starting
<1>6. KeyInv
  BY <1>1, <1>5 DEF KeyInv
<1>7. TorInv
  <2>1. tor = NoTor /\ born = {}
    BY DEF StartInit
  <2> QED BY <1>1, <1>5, <2>1 DEF TorInv, OwnTor, OwnerOK, GuestOK, StartOK, Starting
<1> QED BY <1>2, <1>3, <1>4, <1>6, <1>7 DEF StartParts, TorSettled

\* Every step keeps the first part.
LEMMA StartPartsStep ==
    ASSUME StartParts, [StartNext]_startVars
    PROVE  StartParts'
<1>1. StartTypeOK' /\ DrawInv'
  BY StartTypes DEF StartParts
<1>2. Stages' /\ overlay' = overlay
  BY StagesStep DEF StartParts
<1>3. past \subseteq past'
  BY PastStays DEF StartParts
<1>4. overlay' # "tor" /\ "raced" \notin past' => KeyInv'
  BY <1>2, <1>3, KeyStep DEF StartParts
<1> QED BY <1>1, <1>2, <1>4 DEF StartParts

\* Every step keeps the second part, with two daemons.
LEMMA TorSettledStep ==
    ASSUME StartParts, TorSettled, [StartNext]_startVars, AtMostTwo, LastPort >= 1
    PROVE  TorSettled'
<1>1. overlay' = overlay /\ past \subseteq past'
  BY StagesStep, PastStays DEF StartParts
<1> QED BY <1>1, TorStep DEF StartParts, TorSettled

\* The variables of the start keep their types (main, TorManager, SamClient).
THEOREM StartTypesKept == StartInit /\ [][StartNext]_startVars => []StartTypeOK
<1>1. StartInit => StartParts
  BY StartInitParts
<1>2. StartParts /\ [StartNext]_startVars => StartParts'
  BY StartPartsStep
<1>3. StartParts => StartTypeOK
  BY DEF StartParts
<1> QED BY <1>1, <1>2, <1>3, PTL

\* IdentityKept follows.
LEMMA PartsKeepIdentity == StartParts => IdentityKept
BY DEF StartParts, IdentityKept, KeyInv, Serves

\* ReachedAtAddress follows.
LEMMA SettledIsReached == StartParts /\ TorSettled => ReachedAtAddress
<1> SUFFICES ASSUME StartParts, TorSettled, overlay = "tor", past \subseteq {"killed"},
                    NEW d \in Daemons, Serves(d)
             PROVE  self[d].addr # Nil /\ self[d].addr = self[d].port
  BY DEF ReachedAtAddress
<1>1. at[d] = "serving" /\ OwnerOK(d) /\ GuestOK(d)
  BY DEF TorSettled, TorInv, Serves
<1>2. 0 # Nil /\ 1 # Nil
  BY StartAssumption
<1>3. CASE external[d]
  BY <1>1, <1>2, <1>3 DEF GuestOK
<1>4. CASE ~external[d]
  BY <1>1, <1>2, <1>4 DEF OwnerOK, OwnTor
<1> QED BY <1>3, <1>4

\* Any number of daemons serve under the identity in the key file, unless two starts have
\* met (save_key, load_key and create_identity).
THEOREM IdentityStays == StartInit /\ [][StartNext]_startVars => []IdentityKept
<1>1. StartInit => StartParts
  BY StartInitParts
<1>2. StartParts /\ [StartNext]_startVars => StartParts'
  BY StartPartsStep
<1> QED BY <1>1, <1>2, PartsKeepIdentity, PTL

\* Two daemons on one host are reached at their addresses, whoever of them ends, is killed
\* without leaving Tor, and starts again (start_tor and reserve_available_port).
THEOREM AddressesAreRight ==
    ASSUME AtMostTwo, LastPort >= 1
    PROVE  StartInit /\ [][StartNext]_startVars => []SameAddress
<1>1. StartInit => StartParts /\ TorSettled
  BY StartInitParts
<1>2. StartParts /\ TorSettled /\ [StartNext]_startVars => StartParts' /\ TorSettled'
  BY StartPartsStep, TorSettledStep
<1>3. StartParts /\ TorSettled => SameAddress
  BY PartsKeepIdentity, SettledIsReached DEF SameAddress
<1> QED BY <1>1, <1>2, <1>3, PTL

----------------------------------------------------------------------------
(* The loops that take datagrams.                                           *)

\* What a thread that handles messages may be at, and what the other nodes may answer.
Tasks == [at : {"rest", "answer", "callbacks", "mapping", "waiting"},
          msg : Messages, left : 0..CachedKeys, id : 0..MaxMaps]
Owed == [from : Nodes, no : 1..MaxMaps]

\* What a thread works on has been taken, and so have the queries in the queue.
DatagramInv ==
    /\ DatagramTypeOK
    /\ IsFiniteSet(owes)
    /\ \A i \in 1..Len(queue) : queue[i] \in Queries => queue[i] \in taken
    /\ \A w \in Workers : busy[w].at # "rest" => busy[w].msg \in taken

\* A thread at rest.
LEMMA RestingIs == Resting \in Tasks /\ Resting.at = "rest" /\ Resting.msg = Junk
BY DatagramAssumption DEF Resting, Tasks, Messages, Junk

\* The threads, in these terms.
LEMMA BusyIs == DatagramTypeOK => busy \in [Workers -> Tasks]
BY DEF DatagramTypeOK, Tasks

\* A query is taken.
LEMMA BeginSets ==
    ASSUME NEW m \in Messages, NEW r, r = [Resting EXCEPT !.at = "answer", !.msg = m]
    PROVE  r \in Tasks /\ r.at = "answer" /\ r.msg = m
BY RestingIs DEF Tasks

\* A map query is on its way.
LEMMA MapSets ==
    ASSUME busy \in [Workers -> Tasks], NEW w \in Workers, busy[w].left > 0, NEW id \in 0..MaxMaps,
           busy' = [busy EXCEPT ![w].at = "waiting", ![w].left = @ - 1, ![w].id = id]
    PROVE  /\ busy' \in [Workers -> Tasks] /\ busy'[w].msg = busy[w].msg
           /\ \A v \in Workers \ {w} : busy'[v] = busy[v]
BY DatagramAssumption DEF Tasks

\* A wait is over.
LEMMA WaitSets ==
    ASSUME busy \in [Workers -> Tasks], NEW w \in Workers, NEW id \in 0..MaxMaps,
           busy' = [busy EXCEPT ![w].at = "mapping", ![w].id = id]
    PROVE  /\ busy' \in [Workers -> Tasks] /\ busy'[w].msg = busy[w].msg
           /\ \A v \in Workers \ {w} : busy'[v] = busy[v]
BY DEF Tasks

\* A map query was not sent.
LEMMA LeftSets ==
    ASSUME busy \in [Workers -> Tasks], NEW w \in Workers, busy[w].left > 0,
           busy' = [busy EXCEPT ![w].left = @ - 1]
    PROVE  /\ busy' \in [Workers -> Tasks] /\ busy'[w].msg = busy[w].msg
           /\ \A v \in Workers \ {w} : busy'[v] = busy[v]
BY DatagramAssumption DEF Tasks

\* The response was sent.
LEMMA AtSets ==
    ASSUME busy \in [Workers -> Tasks], NEW w \in Workers, NEW a \in {"callbacks"},
           busy' = [busy EXCEPT ![w].at = a]
    PROVE  /\ busy' \in [Workers -> Tasks] /\ busy'[w].msg = busy[w].msg
           /\ \A v \in Workers \ {w} : busy'[v] = busy[v]
BY DEF Tasks

\* A thread gets a task, or none.
LEMMA RestSets ==
    ASSUME busy \in [Workers -> Tasks], NEW w \in Workers, NEW r \in Tasks,
           busy' = [busy EXCEPT ![w] = r]
    PROVE  /\ busy' \in [Workers -> Tasks] /\ busy'[w] = r
           /\ \A v \in Workers \ {w} : busy'[v] = busy[v]
OBVIOUS

\* A query comes from a node.
LEMMA TypedMessages == \A m \in Queries : m.from \in Nodes
BY DEF Queries

\* The step of a thread that leaves the queue alone.
LEMMA ThreadStep ==
    ASSUME DatagramInv, NEW w \in Workers,
           busy' \in [Workers -> Tasks], \A v \in Workers \ {w} : busy'[v] = busy[v],
           busy'[w].msg \in taken' \/ busy'[w].at = "rest",
           taken \subseteq taken', taken' \subseteq Queries,
           UNCHANGED <<medium, up, ended, loop, arrived>>,
           socket' \in Seq(Messages), queue' \in Seq(Messages),
           \A i \in 1..Len(queue') : queue'[i] \in Queries => queue'[i] \in taken',
           promises' \subseteq 1..MaxMaps, table' \subseteq Nodes, providers' \subseteq Nodes,
           owes' \subseteq Owed, IsFiniteSet(owes'), served' \subseteq taken'
    PROVE  DatagramInv'
<1>1. \A v \in Workers : busy'[v].at # "rest" => busy'[v].msg \in taken'
  BY DEF DatagramInv
<1> QED BY <1>1 DEF DatagramInv, DatagramTypeOK, Tasks, Owed

\* The step of a thread that takes a message.
LEMMA BeginStep ==
    ASSUME DatagramInv, NEW w \in Workers, NEW m \in Messages, Begin(w, m),
           m \in Queries => m \in taken',
           taken \subseteq taken', taken' \subseteq Queries,
           UNCHANGED <<medium, up, ended, loop, arrived>>,
           socket' \in Seq(Messages), queue' \in Seq(Messages),
           \A i \in 1..Len(queue') : queue'[i] \in Queries => queue'[i] \in taken'
    PROVE  DatagramInv'
<1>1. PICK q : q = [Resting EXCEPT !.at = "answer", !.msg = m]
  OBVIOUS
<1>2. q \in Tasks /\ q.at = "answer" /\ q.msg = m
  BY <1>1, BeginSets
<1>3. PICK r : r = IF m \in Queries /\ Answerable(m) THEN q ELSE Resting
  OBVIOUS
<1>4. r \in Tasks /\ (r.at = "rest" \/ r.msg \in taken')
  BY <1>2, <1>3, RestingIs
<1>5. busy' = [busy EXCEPT ![w] = r]
  BY <1>1, <1>3 DEF Begin
<1>6. busy' \in [Workers -> Tasks] /\ busy'[w] = r /\ \A v \in Workers \ {w} : busy'[v] = busy[v]
  BY <1>4, <1>5, RestSets, BusyIs DEF DatagramInv
<1>7. promises' \subseteq 1..MaxMaps
  BY DEF Begin, DatagramInv, DatagramTypeOK
<1>8. /\ table' \subseteq Nodes /\ providers' \subseteq Nodes
      /\ owes' \subseteq Owed /\ IsFiniteSet(owes') /\ served' \subseteq taken'
  BY DEF Begin, DatagramInv, DatagramTypeOK, Owed
<1> QED BY <1>4, <1>6, <1>7, <1>8, ThreadStep

\* What waits is typed when a message is taken away or added.
LEMMA TakeTyped ==
    ASSUME NEW S, NEW s \in Seq(S), s # <<>>
    PROVE  /\ Head(s) \in S /\ Tail(s) \in Seq(S) /\ Len(s) \in Nat /\ Len(s) > 0
           /\ Head(s) = s[1] /\ Len(Tail(s)) = Len(s) - 1
           /\ \A i \in 1..Len(Tail(s)) : Tail(s)[i] = s[i + 1] /\ i + 1 \in 1..Len(s)
<1>1. Len(s) \in Nat /\ Len(s) > 0
  BY EmptySeq
<1>2. Len(Tail(s)) = Len(s) - 1
  BY HeadTailProperties
<1>3. \A i \in 1..Len(Tail(s)) : i + 1 \in 1..Len(s)
  BY <1>1, <1>2
<1> QED BY <1>1, <1>2, <1>3, HeadTailProperties

\* What waits is typed when a message is added.
LEMMA AddTyped ==
    ASSUME NEW S, NEW s \in Seq(S), NEW m \in S
    PROVE  /\ Append(s, m) \in Seq(S) /\ Len(s) \in Nat /\ Len(Append(s, m)) = Len(s) + 1
           /\ \A i \in 1..Len(Append(s, m)) : Append(s, m)[i] = IF i = Len(s) + 1 THEN m ELSE s[i]
           /\ \A i \in 1..Len(Append(s, m)) : i # Len(s) + 1 => i \in 1..Len(s)
<1>1. Len(s) \in Nat /\ Append(s, m) \in Seq(S) /\ Len(Append(s, m)) = Len(s) + 1
  BY AppendProperties
<1>2. \A i \in 1..Len(Append(s, m)) : i # Len(s) + 1 => i \in 1..Len(s)
  BY <1>1
<1>3. \A i \in 1..Len(Append(s, m)) : Append(s, m)[i] = IF i = Len(s) + 1 THEN m ELSE s[i]
  BY <1>1, <1>2, AppendProperties
<1> QED BY <1>1, <1>2, <1>3

\* Nothing is taken at the beginning.
LEMMA DatagramInitInv == DatagramInit => DatagramInv
<1> SUFFICES ASSUME DatagramInit PROVE DatagramInv
  OBVIOUS
<1>1. busy \in [Workers -> Tasks] /\ \A w \in Workers : busy[w].at = "rest"
  BY RestingIs DEF DatagramInit
<1>2. /\ socket = <<>> /\ queue = <<>> /\ owes = {} /\ promises = {} /\ table = {} /\ providers = {}
      /\ taken = {} /\ served = {} /\ arrived = 0 /\ up = TRUE /\ ended = "no" /\ loop = "running"
      /\ medium \in {"i2p", "reticulum"}
  BY DEF DatagramInit
<1>3. IsFiniteSet({}) /\ <<>> \in Seq(Messages) /\ Len(<<>>) = 0 /\ 0 \in 0..MaxQueries
  BY FS_EmptySet, DatagramAssumption
<1>4. \A i \in 1..Len(queue) : FALSE
  BY <1>2, <1>3
<1> QED BY <1>1, <1>2, <1>3, <1>4 DEF DatagramInv, DatagramTypeOK, Tasks

\* A thread works on what was taken.
LEMMA DatagramHandles ==
    ASSUME DatagramInv, NEW w \in Workers, Handle(w)
    PROVE  DatagramInv'
<1>1. /\ busy \in [Workers -> Tasks] /\ socket \in Seq(Messages) /\ queue \in Seq(Messages)
      /\ promises \subseteq 1..MaxMaps /\ table \subseteq Nodes /\ providers \subseteq Nodes
      /\ owes \subseteq Owed /\ IsFiniteSet(owes) /\ served \subseteq taken /\ taken \subseteq Queries
      /\ \A i \in 1..Len(queue) : queue[i] \in Queries => queue[i] \in taken
  BY BusyIs DEF DatagramInv, DatagramTypeOK, Owed
<1>2. CASE TakeTask(w)
  <2>1. PICK m : m = Head(queue)
    OBVIOUS
  <2>2. queue # <<>> /\ queue' = Tail(queue) /\ Begin(w, m)
        /\ UNCHANGED <<medium, up, ended, loop, socket, arrived, taken>>
    BY <1>2, <2>1 DEF TakeTask
  <2>3. m \in Messages /\ queue' \in Seq(Messages) /\ (m \in Queries => m \in taken)
    BY <1>1, <2>1, <2>2, TakeTyped
  <2>4. \A i \in 1..Len(queue') : queue'[i] \in Queries => queue'[i] \in taken'
    BY <1>1, <2>2, TakeTyped
  <2>5. /\ taken \subseteq taken' /\ taken' \subseteq Queries /\ socket' \in Seq(Messages)
        /\ (m \in Queries => m \in taken') /\ UNCHANGED <<medium, up, ended, loop, arrived>>
    BY <1>1, <2>2, <2>3
  <2> QED BY <2>2, <2>3, <2>4, <2>5, BeginStep
<1>3. CASE TakePacket(w)
  <2>1. PICK m : m = Head(socket)
    OBVIOUS
  <2>2. socket # <<>> /\ socket' = Tail(socket) /\ Begin(w, m) /\ taken' = taken \cup ({m} \cap Queries)
        /\ UNCHANGED <<medium, up, ended, loop, queue, arrived>>
    BY <1>3, <2>1 DEF TakePacket
  <2>3. m \in Messages /\ socket' \in Seq(Messages)
    BY <1>1, <2>1, <2>2, TakeTyped
  <2>4. (m \in Queries => m \in taken') /\ taken \subseteq taken' /\ taken' \subseteq Queries
    BY <1>1, <2>2
  <2>5. queue' \in Seq(Messages) /\ \A i \in 1..Len(queue') : queue'[i] \in Queries => queue'[i] \in taken'
    BY <1>1, <2>2, <2>4
  <2> QED BY <2>2, <2>3, <2>4, <2>5, BeginStep
<1>4. CASE Answer(w)
  <2>1. /\ busy[w].at = "answer" /\ served' = served \cup {busy[w].msg}
        /\ busy' = [busy EXCEPT ![w].at = "callbacks"]
        /\ UNCHANGED <<medium, up, ended, loop, socket, queue, promises, table, providers, owes,
                       arrived, taken>>
    BY <1>4 DEF Answer
  <2>2. busy[w].msg \in taken
    BY <2>1 DEF DatagramInv
  <2>3. busy' \in [Workers -> Tasks] /\ busy'[w].msg = busy[w].msg
        /\ \A v \in Workers \ {w} : busy'[v] = busy[v]
    BY <1>1, <2>1, AtSets
  <2> QED BY <1>1, <2>1, <2>2, <2>3, ThreadStep
<1>5. CASE Callbacks(w)
  <2>1. busy[w].msg \in taken /\ busy[w].msg.from \in Nodes
    BY <1>1, <1>5, TypedMessages DEF Callbacks, DatagramInv
  <2>2. PICK r : r = [busy[w] EXCEPT !.at = "mapping", !.left = CachedKeys]
    OBVIOUS
  <2>3. r \in Tasks /\ r.msg = busy[w].msg
    <3>1. PICK b \in Tasks : b = busy[w]
      BY <1>1
    <3>2. CachedKeys \in 0..CachedKeys
      BY DatagramAssumption
    <3>3. r = [b EXCEPT !.at = "mapping", !.left = CachedKeys]
      BY <2>2, <3>1
    <3> QED BY <3>1, <3>2, <3>3 DEF Tasks
  <2>4. PICK q \in Tasks : busy' = [busy EXCEPT ![w] = q] /\ (q.at = "rest" \/ q.msg = busy[w].msg)
    <3>1. CASE medium = "i2p" /\ busy[w].msg.kind = "ping" /\ busy[w].msg.from \notin table
      <4>1. busy' = [busy EXCEPT ![w] = r]
        BY <1>1, <1>5, <2>2, <3>1 DEF Callbacks
      <4> QED BY <2>3, <4>1
    <3>2. CASE ~(medium = "i2p" /\ busy[w].msg.kind = "ping" /\ busy[w].msg.from \notin table)
      <4>1. busy' = [busy EXCEPT ![w] = Resting]
        BY <1>5, <3>2 DEF Callbacks
      <4> QED BY <4>1, RestingIs
    <3> QED BY <3>1, <3>2
  <2>5. busy' \in [Workers -> Tasks] /\ busy'[w] = q /\ \A v \in Workers \ {w} : busy'[v] = busy[v]
    BY <1>1, <2>4, RestSets
  <2>6. table' \subseteq Nodes /\ providers' \subseteq Nodes
    BY <1>1, <1>5, <2>1 DEF Callbacks
  <2>7. UNCHANGED <<medium, up, ended, loop, socket, queue, promises, owes, served, arrived, taken>>
    BY <1>5 DEF Callbacks
  <2> QED BY <1>1, <2>1, <2>4, <2>5, <2>6, <2>7, ThreadStep
<1>6. CASE SendMap(w)
  <2>1. /\ busy[w].at = "mapping" /\ busy[w].msg \in taken /\ busy[w].msg.from \in Nodes
        /\ UNCHANGED <<medium, up, ended, loop, socket, queue, table, providers, served, arrived, taken>>
    BY <1>1, <1>6, TypedMessages DEF SendMap, DatagramInv
  <2>2. CASE busy[w].left > 0 /\ Cardinality(owes) < MaxMaps
    <3>1. PICK id : id = Cardinality(owes) + 1
      OBVIOUS
    <3>2. id \in 1..MaxMaps /\ id \in 0..MaxMaps
      BY <1>1, <2>2, <3>1, FS_CardinalityType, DatagramAssumption
    <3>3. CASE /\ owes' = owes \cup {[from |-> busy[w].msg.from, no |-> id]}
               /\ promises' = promises \cup {id}
               /\ busy' = [busy EXCEPT ![w].at = "waiting", ![w].left = @ - 1, ![w].id = id]
      <4>1. /\ busy' \in [Workers -> Tasks] /\ busy'[w].msg = busy[w].msg
            /\ \A v \in Workers \ {w} : busy'[v] = busy[v]
        BY <1>1, <2>2, <3>2, <3>3, MapSets
      <4>2. PICK o : o = [from |-> busy[w].msg.from, no |-> id]
        OBVIOUS
      <4>3. o \in Owed
        BY <2>1, <3>2, <4>2 DEF Owed
      <4>4. owes' = owes \cup {o} /\ owes' \subseteq Owed
        BY <1>1, <3>3, <4>2, <4>3
      <4>5. IsFiniteSet(owes')
        BY <1>1, <4>4, FS_AddElement
      <4>6. promises' \subseteq 1..MaxMaps
        BY <1>1, <3>2, <3>3
      <4> QED BY <1>1, <2>1, <4>1, <4>4, <4>5, <4>6, ThreadStep
    <3>4. CASE busy' = [busy EXCEPT ![w].left = @ - 1] /\ UNCHANGED <<owes, promises>>
      <4>1. /\ busy' \in [Workers -> Tasks] /\ busy'[w].msg = busy[w].msg
            /\ \A v \in Workers \ {w} : busy'[v] = busy[v]
        BY <1>1, <2>2, <3>4, LeftSets
      <4>2. owes' \subseteq Owed /\ IsFiniteSet(owes') /\ promises' \subseteq 1..MaxMaps
        BY <1>1, <3>4
      <4> QED BY <1>1, <2>1, <4>1, <4>2, ThreadStep
    <3> QED BY <1>6, <2>2, <3>1, <3>3, <3>4 DEF SendMap
  <2>3. CASE ~(busy[w].left > 0 /\ Cardinality(owes) < MaxMaps)
    <3>1. busy' = [busy EXCEPT ![w] = Resting] /\ UNCHANGED <<owes, promises>>
      BY <1>6, <2>3 DEF SendMap
    <3>2. /\ busy' \in [Workers -> Tasks] /\ busy'[w] = Resting
          /\ \A v \in Workers \ {w} : busy'[v] = busy[v]
      BY <1>1, <3>1, RestSets, RestingIs
    <3> QED BY <1>1, <2>1, <3>1, <3>2, RestingIs, ThreadStep
  <2> QED BY <2>2, <2>3
<1>7. CASE WaitOver(w)
  <2>1. /\ busy[w].at = "waiting" /\ busy[w].msg \in taken
        /\ promises' = promises \ {busy[w].id} /\ busy' = [busy EXCEPT ![w].at = "mapping", ![w].id = 0]
        /\ UNCHANGED <<medium, up, ended, loop, socket, queue, table, providers, owes, served, arrived,
                       taken>>
    BY <1>7 DEF WaitOver, DatagramInv
  <2>2. PICK id \in 0..MaxMaps : id = 0
    BY DatagramAssumption
  <2>3. /\ busy' \in [Workers -> Tasks] /\ busy'[w].msg = busy[w].msg
        /\ \A v \in Workers \ {w} : busy'[v] = busy[v]
    BY <1>1, <2>1, <2>2, WaitSets
  <2>4. promises' \subseteq 1..MaxMaps
    BY <1>1, <2>1
  <2> QED BY <1>1, <2>1, <2>3, <2>4, ThreadStep
<1> QED BY <1>2, <1>3, <1>4, <1>5, <1>6, <1>7 DEF Handle

\* Every step keeps the invariant of the loops.
LEMMA DatagramStep ==
    ASSUME DatagramInv, [DatagramNext]_datagramVars
    PROVE  DatagramInv'
<1> USE DEF handlerVars
<1>1. /\ busy \in [Workers -> Tasks] /\ socket \in Seq(Messages) /\ queue \in Seq(Messages)
      /\ taken \subseteq Queries
      /\ \A i \in 1..Len(queue) : queue[i] \in Queries => queue[i] \in taken
  BY BusyIs DEF DatagramInv, DatagramTypeOK
<1>2. CASE ReceiveDatagram
  <2>1. PICK m : m = Head(socket)
    OBVIOUS
  <2>2. /\ socket # <<>> /\ socket' = Tail(socket) /\ queue' = Append(queue, m)
        /\ taken' = taken \cup ({m} \cap Queries)
        /\ UNCHANGED <<medium, up, ended, loop, busy, promises, table, providers, owes, served, arrived>>
    BY <1>2, <2>1 DEF ReceiveDatagram
  <2>3. m \in Messages /\ socket' \in Seq(Messages)
    BY <1>1, <2>1, <2>2, TakeTyped
  <2>4. queue' \in Seq(Messages) /\ \A i \in 1..Len(queue') : queue'[i] \in Queries => queue'[i] \in taken'
    BY <1>1, <2>2, <2>3, AddTyped
  <2>5. taken \subseteq taken' /\ taken' \subseteq Queries
    BY <1>1, <2>2
  <2> QED BY <2>2, <2>3, <2>4, <2>5 DEF DatagramInv, DatagramTypeOK
<1>3. CASE ReceiveFails
  <2>1. busy' \in [Workers -> Tasks] /\ \A w \in Workers : busy'[w].at = "rest"
    BY <1>3, RestingIs DEF ReceiveFails
  <2>2. /\ ended' = "died" /\ loop' = "stopped" /\ up' = FALSE /\ queue' = <<>>
        /\ UNCHANGED <<medium, socket, promises, table, providers, owes, served, arrived, taken>>
    BY <1>3 DEF ReceiveFails
  <2>3. queue' \in Seq(Messages) /\ \A i \in 1..Len(queue') : FALSE
    BY <2>2
  <2> QED BY <2>1, <2>2, <2>3 DEF DatagramInv, DatagramTypeOK, Tasks
<1>4. CASE LeaveLoop
  BY <1>4 DEF LeaveLoop, DatagramInv, DatagramTypeOK
<1>5. CASE JoinWorkers
  BY <1>5 DEF JoinWorkers, DatagramInv, DatagramTypeOK
<1>6. CASE PeerDiscovered
  BY <1>6 DEF PeerDiscovered, DatagramInv, DatagramTypeOK
<1>7. CASE Interrupt
  BY <1>7 DEF Interrupt, DatagramInv, DatagramTypeOK
<1>8. ASSUME NEW m \in Messages, socket' = Append(socket, m), arrived' \in 0..MaxQueries,
             UNCHANGED <<medium, up, ended, loop, queue, handlerVars, taken>>
      PROVE  DatagramInv'
  <2>1. socket' \in Seq(Messages)
    BY <1>1, <1>8, AddTyped
  <2> QED BY <1>8, <2>1 DEF DatagramInv, DatagramTypeOK
<1>9. CASE QueryArrives
  <2>1. PICK m \in Queries : socket' = Append(socket, m)
    BY <1>9 DEF QueryArrives
  <2>2. m \in Messages
    BY DEF Messages
  <2>3. arrived' \in 0..MaxQueries
    BY <1>9, DatagramAssumption DEF QueryArrives, DatagramInv, DatagramTypeOK
  <2> QED BY <1>8, <1>9, <2>1, <2>2, <2>3 DEF QueryArrives
<1>10. CASE ResponseArrives
  <2>1. PICK o \in owes : socket' = Append(socket, [kind |-> "response", from |-> o.from, no |-> o.no])
    BY <1>10 DEF ResponseArrives
  <2>2. PICK m : m = [kind |-> "response", from |-> o.from, no |-> o.no]
    OBVIOUS
  <2>3. m \in Messages
    BY <2>2 DEF Messages, Responses, DatagramInv, DatagramTypeOK
  <2>4. arrived' \in 0..MaxQueries /\ UNCHANGED <<medium, up, ended, loop, queue, handlerVars, taken>>
    BY <1>10 DEF ResponseArrives, DatagramInv, DatagramTypeOK
  <2> QED BY <1>8, <2>1, <2>2, <2>3, <2>4
<1>11. CASE JunkArrives
  <2>1. Junk \in Messages
    BY DEF Messages
  <2>2. arrived' \in 0..MaxQueries /\ UNCHANGED <<medium, up, ended, loop, queue, handlerVars, taken>>
        /\ socket' = Append(socket, Junk)
    BY <1>11 DEF JunkArrives, DatagramInv, DatagramTypeOK
  <2> QED BY <1>8, <2>1, <2>2
<1>12. CASE UNCHANGED datagramVars
  BY <1>12 DEF datagramVars, DatagramInv, DatagramTypeOK
<1> QED BY <1>2, <1>3, <1>4, <1>5, <1>6, <1>7, <1>9, <1>10, <1>11, <1>12, DatagramHandles
        DEF DatagramNext, RunLoop

\* What is served was taken, and the loops keep their types (run_i2p and
\* handle_reticulum_message).
THEOREM DatagramInvariant == DatagramInit /\ [][DatagramNext]_datagramVars => []DatagramInv
BY DatagramInitInv, DatagramStep, PTL

----------------------------------------------------------------------------
(* The composition.                                                         *)

\* Of the four machines one runs, and all have begun.
LEMMA NetworkParts ==
    NetworkSpec => /\ Spec
                   /\ StartInit /\ [][StartNext]_startVars
                   /\ LinkInit /\ [][LinkNext]_linkVars
                   /\ DatagramInit /\ [][DatagramNext]_datagramVars
<1>1. NetworkInit => Init /\ StartInit /\ LinkInit /\ DatagramInit
  BY DEF NetworkInit
<1>2. [NetworkNext]_allVars => /\ [Next]_vars /\ [StartNext]_startVars
                               /\ [LinkNext]_linkVars /\ [DatagramNext]_datagramVars
  BY DEF NetworkNext, allVars, Calls, Starts, Link, Datagram
<1>3. NetworkFairness => Fairness
  BY PTL DEF NetworkFairness
<1> QED BY <1>1, <1>2, <1>3, PTL DEF NetworkSpec, Spec

\* The machines at the edge of a node keep their types, whichever of them runs
\* (PendingRequests, NodeStart, ReticulumLink and Datagrams).
THEOREM NetworkTypeCorrect == NetworkSpec => []NetworkTypeOK
<1>1. DatagramInv => DatagramTypeOK
  BY DEF DatagramInv
<1>2. TypeOK /\ StartTypeOK /\ LinkTypeOK /\ DatagramTypeOK => NetworkTypeOK
  BY DEF NetworkTypeOK
<1> QED BY <1>1, <1>2, NetworkParts, TypeCorrect, StartTypesKept, LinkTypeCorrect, DatagramInvariant, PTL

\* What a connection hands on first was sent whole (begin_read).
THEOREM NetworkFirstFrame == NetworkSpec => []FirstFrameExact
BY NetworkParts, FirstFrameIsExact, PTL

\* Two daemons on one host are reached at their addresses, and any number of them keep
\* the identity of the key file (the start of the daemon).
THEOREM NetworkSameAddress ==
    ASSUME AtMostTwo, LastPort >= 1
    PROVE  NetworkSpec => []SameAddress
<1>1. StartInit /\ [][StartNext]_startVars => []SameAddress
  BY AddressesAreRight
<1> QED BY <1>1, NetworkParts, PTL
=============================================================================
