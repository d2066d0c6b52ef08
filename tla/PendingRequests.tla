-------------------------- MODULE PendingRequests --------------------------
(***************************************************************************)
(* How a node matches DHT replies to the calls that wait for them           *)
(* (node.cpp: generate_transaction_id, send_query, the send_* functions and *)
(* the reply branch of handle_tor_message, handle_reticulum_message and     *)
(* run_i2p).                                                                *)
(*                                                                          *)
(* A send_* call draws a transaction id, stores a std::promise under it in  *)
(* pending_requests, sends the query and waits on the future for            *)
(* NEROSHOP_DHT_RECV_TIMEOUT (or PING_TIMEOUT).  The listener fulfils the   *)
(* promise it finds under the tid of a reply and erases the entry.  All     *)
(* accesses to pending_requests are under pending_mutex; everything between *)
(* two critical sections may interleave.                                    *)
(*                                                                          *)
(* A member of Requests is one call of a send_* function.  The network      *)
(* loses, delays, reorders and duplicates messages: a reply that was sent   *)
(* may be delivered never, late, or more than once.                         *)
(***************************************************************************)
CONSTANTS
    Requests,   \* the calls of send_ping, send_find_node, send_put, ...
    Tids,       \* the transaction ids generate_transaction_id can draw
    None,       \* no entry / no tid / no outcome
    Unset,      \* a shared state without a value
    Broken      \* a shared state holding std::future_errc::broken_promise

ASSUME SentinelsDistinct ==
    /\ {None, Unset, Broken} \cap Requests = {}
    /\ None \notin Tids \cup {"ok", "timeout", "unsent", "threw"}
    /\ Unset # Broken

VARIABLES
    pc,         \* where each call is
    tid,        \* its transaction_id
    pending,    \* pending_requests: tid -> the call whose promise is stored
    future,     \* its future: Unset, Broken, or the call whose reply it holds
    outcome,    \* how the call returned
    sent,       \* queries that reached the network
    answered,   \* calls for which some peer sent a "response" message
    refused     \* calls for which the peer sent an "error" message

vars == <<pc, tid, pending, future, outcome, sent, answered, refused>>
caller == <<pc, outcome>>
network == <<sent, answered, refused>>

Places == {"idle", "registered", "waiting", "expired", "returned"}
Outcomes == {"ok", "timeout", "unsent", "threw"}

Init ==
    /\ pc = [r \in Requests |-> "idle"]
    /\ tid = [r \in Requests |-> None]
    /\ pending = [t \in Tids |-> None]
    /\ future = [r \in Requests |-> Unset]
    /\ outcome = [r \in Requests |-> None]
    /\ sent = {}
    /\ answered = {}
    /\ refused = {}

----------------------------------------------------------------------------
(* The calling thread.                                                      *)

\* Variant for the sensitivity of the properties: no erase on the way out.
EraseNothing(t, owner) == UNCHANGED <<pending, future>>

\* Variant: pending_requests.clear() in place of erase(tid).
EraseAll(t, owner) ==
    /\ pending' = [u \in Tids |-> None]
    /\ future' = [r \in Requests |->
                     IF r # owner /\ \E u \in Tids : pending[u] = r
                     THEN Broken ELSE future[r]]

\* pending_requests.erase(t): the promise stored there, if any, is destroyed.
\* Destroying an unfulfilled promise stores broken_promise in its future.
\* The caller's own future (owner) is dropped with the call.
Erase(t, owner) ==
    /\ pending' = [pending EXCEPT ![t] = None]
    /\ future' = [r \in Requests |->
                     IF pending[t] = r /\ r # owner THEN Broken ELSE future[r]]

Returns(r, how) ==
    /\ pc' = [pc EXCEPT ![r] = "returned"]
    /\ outcome' = [outcome EXCEPT ![r] = how]

\* Variant: emplace in place of operator[], an entry in use is kept.
RegisterKeepingOld(r) ==
    /\ pc[r] = "idle"
    /\ \E t \in Tids :
          /\ tid' = [tid EXCEPT ![r] = t]
          /\ pending' = [pending EXCEPT ![t] = IF @ = None THEN r ELSE @]
    /\ pc' = [pc EXCEPT ![r] = "registered"]
    /\ UNCHANGED <<future, outcome, network>>

\* pending_requests[transaction_id] = std::move(promise).  The tid is drawn at
\* random and never compared with the ids in use: assigning over an entry
\* abandons the promise stored there.
Register(r) ==
    /\ pc[r] = "idle"
    /\ \E t \in Tids :
          /\ tid' = [tid EXCEPT ![r] = t]
          /\ pending' = [pending EXCEPT ![t] = r]
          /\ future' = [q \in Requests |->
                           IF pending[t] = q THEN Broken ELSE future[q]]
    /\ pc' = [pc EXCEPT ![r] = "registered"]
    /\ UNCHANGED <<outcome, network>>

\* send_query returned.  A datagram may be lost, and for Tor a failed connect
\* is logged and swallowed: the caller goes on to wait either way.
SendQuery(r) ==
    /\ pc[r] = "registered"
    /\ pc' = [pc EXCEPT ![r] = "waiting"]
    /\ \/ sent' = sent \cup {r}
       \/ UNCHANGED sent
    /\ UNCHANGED <<tid, pending, future, outcome, answered, refused>>

\* send_query threw: the entry under the tid is erased and the call returns.
SendQueryThrows(r) ==
    /\ pc[r] = "registered"
    /\ Erase(tid[r], r)
    /\ Returns(r, "unsent")
    /\ UNCHANGED <<tid, network>>

\* future.wait_for returned timeout; the lock is not yet taken.
WaitExpires(r) ==
    /\ pc[r] = "waiting"
    /\ future[r] = Unset
    /\ pc' = [pc EXCEPT ![r] = "expired"]
    /\ UNCHANGED <<tid, pending, future, outcome, network>>

\* The erase after the timeout, and the return.  A reply may have been stored
\* since; it is dropped with the future.
GiveUp(r) ==
    /\ pc[r] = "expired"
    /\ Erase(tid[r], r)
    /\ Returns(r, "timeout")
    /\ UNCHANGED <<tid, network>>

\* Variant: only a broken promise ends the wait.
CollectBrokenOnly(r) ==
    /\ pc[r] = "waiting"
    /\ future[r] = Broken
    /\ Returns(r, "threw")
    /\ UNCHANGED <<tid, pending, future, network>>

\* future.get() after wait_for returned ready: the reply, or future_error.
Collect(r) ==
    /\ pc[r] = "waiting"
    /\ future[r] # Unset
    /\ Returns(r, IF future[r] = Broken THEN "threw" ELSE "ok")
    /\ UNCHANGED <<tid, pending, future, network>>

----------------------------------------------------------------------------
(* The peer and the listener.                                               *)

PeerResponds(r) ==
    /\ r \in sent \ (answered \cup refused)
    /\ answered' = answered \cup {r}
    /\ UNCHANGED <<caller, tid, pending, future, sent, refused>>

\* protobuf_process ends in an error message, which carries no tid: the
\* listener prints it and touches no promise.
PeerRefuses(r) ==
    /\ r \in sent \ (answered \cup refused)
    /\ refused' = refused \cup {r}
    /\ UNCHANGED <<caller, tid, pending, future, sent, answered>>

\* Variant: the listener fulfils some waiting promise whatever its tid.
DeliverToAnyone(q) ==
    /\ q \in answered
    /\ \E t \in Tids :
          /\ pending[t] # None
          /\ future' = [future EXCEPT ![pending[t]] = q]
          /\ pending' = [pending EXCEPT ![t] = None]
    /\ UNCHANGED <<caller, tid, network>>

\* The listener receives the reply to q: under pending_mutex it looks the tid
\* up, fulfils the promise it finds and erases the entry.
DeliverResponse(q) ==
    /\ q \in answered
    /\ LET t == tid[q] IN
          /\ pending[t] # None
          /\ future' = [future EXCEPT ![pending[t]] = q]
          /\ pending' = [pending EXCEPT ![t] = None]
    /\ UNCHANGED <<caller, tid, network>>

\* Every call has returned.
Finished ==
    /\ \A r \in Requests : pc[r] = "returned"
    /\ UNCHANGED vars

Call(r) == \/ Register(r) \/ SendQuery(r) \/ SendQueryThrows(r)
           \/ WaitExpires(r) \/ GiveUp(r) \/ Collect(r)

Remote(r) == PeerResponds(r) \/ PeerRefuses(r) \/ DeliverResponse(r)

Next == (\E r \in Requests : Call(r) \/ Remote(r)) \/ Finished

\* The waiting thread is always scheduled, and wait_for always ends; nothing is
\* assumed of the network.
Fairness ==
    \A r \in Requests :
        WF_vars(SendQuery(r) \/ SendQueryThrows(r)
                \/ WaitExpires(r) \/ GiveUp(r) \/ Collect(r))

Spec == Init /\ [][Next]_vars /\ Fairness

----------------------------------------------------------------------------
(* Properties.                                                              *)

\* The variables keep their types.
TypeOK ==
    /\ pc \in [Requests -> Places]
    /\ tid \in [Requests -> Tids \cup {None}]
    /\ pending \in [Tids -> Requests \cup {None}]
    /\ future \in [Requests -> Requests \cup {Unset, Broken}]
    /\ outcome \in [Requests -> Outcomes \cup {None}]
    /\ sent \in SUBSET Requests
    /\ answered \in SUBSET Requests
    /\ refused \in SUBSET Requests

\* pending_requests never keeps the promise of a call that has returned or that
\* already holds a reply: send_* erases on every early return, the listener on
\* every delivery.
NoLeakedPromise ==
    \A t \in Tids : \A r \in Requests :
        pending[t] = r => /\ tid[r] = t
                          /\ future[r] = Unset
                          /\ pc[r] \in {"registered", "waiting", "expired"}

\* A call that still waits without a reply can be reached by the listener: no
\* interleaving of other calls' inserts and erases strands it silently.
NoStrandedWaiter ==
    \A r \in Requests :
        pc[r] \in {"registered", "waiting"} /\ future[r] = Unset
            => pending[tid[r]] = r

\* The promises in pending_requests are those of the calls that wait, and all of them.
PromisesMatch == NoLeakedPromise /\ NoStrandedWaiter

SharesTid(r) == \E q \in Requests \ {r} : tid[q] = tid[r]

\* As long as no other call drew the same tid, what send_* parses is the reply
\* to its own query, sent by a peer that received it, whatever replies arrive
\* late or twice.
OwnReply ==
    \A r \in Requests :
        outcome[r] = "ok" /\ ~SharesTid(r)
            => future[r] = r /\ r \in answered \cap sent

\* future.get() throws only when another call drew the same tid: the erase of a
\* timed-out call never destroys the promise of a call with another tid.
ThrowsOnlyOnSharedTid ==
    \A r \in Requests :
        (outcome[r] = "threw" \/ future[r] = Broken) => SharesTid(r)

\* What a call returns is due to its own query or to a tid that was drawn twice.
OutcomesExplained == OwnReply /\ ThrowsOnlyOnSharedTid

Waiting == {r \in Requests : pc[r] \notin {"idle", "returned"}}

\* The calls that have stored their promises all return (wait_for in send_*).
EveryCallReturns == Waiting # {} ~> Waiting = {}
=============================================================================
