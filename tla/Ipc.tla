-------------------------------- MODULE Ipc --------------------------------
(***************************************************************************)
(* The local connection of the application (class Client, one thread) to    *)
(* the IPC thread of the daemon (ipc_server, class Server).                 *)
(*                                                                          *)
(* The connection is a byte stream and neither side frames its messages:    *)
(* each takes what one recv of a 4096-byte buffer returns for a message.    *)
(* A stream is a sequence of parts.  A message that fits in the buffer is   *)
(* one "whole" part; a longer one is a "head" that fills the buffer and a   *)
(* "tail" (lengths that are multiples of the buffer are left out).  A recv  *)
(* takes everything that has arrived, up to the first head.  Protocol       *)
(* Buffers parses a concatenation of whole messages as its last message,    *)
(* and rejects a part of one.                                               *)
(*                                                                          *)
(* The client waits at most five seconds (SO_RCVTIMEO) for a reply, the     *)
(* daemon takes as long as the network takes: whether a reply is in time is *)
(* a choice.  A call that gives up leaves its reply to a later call.        *)
(*                                                                          *)
(* Sending to a side that has gone draws a reset, and sending on a reset    *)
(* connection raises SIGPIPE, which neither program handles.  A side that   *)
(* goes with bytes unread, without shutdown, resets the connection at once. *)
(***************************************************************************)
EXTENDS Integers, Sequences

CONSTANTS
    Keys,           \* the keys that are indexed in the local database
    MaxCalls,       \* bound on the calls of the application
    MaxSessions,    \* bound on the connections accepted
    None

ASSUME IpcAssumption ==
    /\ MaxCalls \in Nat
    /\ MaxSessions \in Nat
    /\ None \notin Keys

Methods == {"get", "put", "remove", "set"}
\* What the daemon answers.  Of these only "error" is one to the client: a bare
\* response says nothing although nothing was done, and a partial one nothing of a
\* statement that failed.
Verdicts == {"none", "done", "partial", "bare", "error"}
Outcomes == {"pending", "replied", "nothing"}
Gone == {"closed", "crashed", "reset"}

VARIABLES
    calls,      \* every call so far: what was asked, what became of it
    cl,         \* the client's thread: at, the key it must remove next, and the
                \* call whose reply it got last while it waits for more
    clientEnd,  \* the client's end of the connection
    clientRst,  \* the client's socket has been reset
    d,          \* the IPC thread: at, the parts it received, the call it answers
    serverRst,  \* the daemon's socket has been reset
    toServer,   \* the stream of requests
    toClient,   \* the stream of replies
    sessions,   \* connections made
    handler,    \* whose signal handler is installed: main's or the node's
    running,    \* Node::running
    left,       \* ghost: a republish has run, an interrupt has come, a daemon crash
    index       \* the keys of the mappings table

vars == <<calls, cl, clientEnd, clientRst, d, serverRst, toServer, toClient,
          sessions, handler, running, left, index>>
clientVars == <<cl, clientEnd, clientRst>>
daemonVars == <<d, serverRst, handler, running, left, index>>

\* Only a get and a remove depend on the key they name.
Call(op, k, size) ==
    [op |-> op, key |-> IF op \in {"get", "remove"} THEN k ELSE None, size |-> size,
     verdict |-> "none", outcome |-> "pending", answer |-> 0]

Init ==
    /\ calls = <<>>
    /\ cl = [at |-> "idle", must |-> None, got |-> 0]
    /\ clientEnd = "none"
    /\ clientRst = FALSE
    /\ d = [at |-> "accept", batch |-> <<>>, call |-> 0]
    /\ serverRst = FALSE
    /\ toServer = <<>>
    /\ toClient = <<>>
    /\ sessions = 0
    /\ handler = "main"
    /\ running = TRUE
    /\ left = {}
    /\ index = Keys

Parts(c, size) ==
    IF size = "short" THEN << [call |-> c, part |-> "whole"] >>
    ELSE << [call |-> c, part |-> "head"], [call |-> c, part |-> "tail"] >>

\* One recv takes the first n parts of a stream: all of it, or up to the first head.
Takes(s, n) ==
    /\ \A i \in 1..(n - 1) : s[i].part # "head"
    /\ s[n].part = "head" \/ n = Len(s)

\* Faulty: the last part taken stays in the stream.
RestAndLast(s, n) == SubSeq(s, n, Len(s))

Rest(s, n) == SubSeq(s, n + 1, Len(s))

Intact(batch) == batch # <<>> /\ \A i \in DOMAIN batch : batch[i].part = "whole"

----------------------------------------------------------------------------
(* The client.                                                              *)

DaemonGone == d.at \in {"stopped", "killed"}

\* DaemonManager::connectToDaemon, and accept of the server.
Connect ==
    /\ clientEnd # "open"
    /\ cl.at = "idle"
    /\ sessions < MaxSessions
    /\ d.at = "accept"
    /\ clientEnd' = "open"
    /\ clientRst' = FALSE
    /\ serverRst' = FALSE
    /\ sessions' = sessions + 1
    /\ d' = [d EXCEPT !.at = IF running THEN "receive" ELSE "stopped"]
    /\ toServer' = <<>>
    /\ toClient' = <<>>
    /\ UNCHANGED <<calls, cl, handler, running, left, index>>

\* A call of the client sends its request.  After a get that was answered with
\* an error the application removes the key (get_listing_object and the scans
\* of the index); otherwise it may call anything.
Send(op, k, size) ==
    /\ cl.at = "idle"
    /\ clientEnd = "open"
    /\ Len(calls) < MaxCalls
    /\ cl.must # None => op = "remove" /\ k = cl.must
    /\ cl.must = None => op # "remove"
    /\ size = "long" => op = "put"
    /\ IF clientRst
       THEN \* SIGPIPE
            /\ cl' = [at |-> "killed", must |-> None, got |-> 0]
            /\ clientEnd' = "crashed"
            /\ UNCHANGED <<calls, clientRst, toServer>>
       ELSE /\ calls' = Append(calls, Call(op, k, size))
            /\ cl' = [at |-> "waiting", must |-> None, got |-> 0]
            /\ clientRst' = DaemonGone
            /\ toServer' = IF DaemonGone THEN toServer
                           ELSE toServer \o Parts(Len(calls) + 1, size)
            /\ UNCHANGED clientEnd
    /\ UNCHANGED <<daemonVars, toClient, sessions>>

\* The end of a call: the caller gets the reply to call c, or nothing (0).
Return(c, must) ==
    /\ calls' = [calls EXCEPT ![Len(calls)].outcome = IF c = 0 THEN "nothing" ELSE "replied",
                             ![Len(calls)].answer = c]
    /\ cl' = [at |-> "idle", must |-> must, got |-> 0]

\* Faulty: no reply counts as an error.
ReturnReplyOrNothing(c) ==
    LET me == calls[Len(calls)]
    IN Return(c, IF me.op = "get" /\ (c = 0 \/ calls[c].verdict = "error") THEN me.key ELSE None)

\* An error in the reply to a get makes the application remove the key.
ReturnReply(c) ==
    LET me == calls[Len(calls)]
    IN Return(c, IF me.op = "get" /\ c # 0 /\ calls[c].verdict = "error" THEN me.key ELSE None)

\* Client::receive and the parsing of what it got: the reply parsed is the
\* last one, whichever call it answers.  A full buffer makes receive wait for more.
Receive ==
    /\ cl.at = "waiting"
    /\ \E n \in DOMAIN toClient :
          /\ Takes(toClient, n)
          /\ toClient' = Rest(toClient, n)
          /\ IF toClient[n].part = "head"
             THEN /\ cl' = [cl EXCEPT !.at = "filling", !.got = toClient[n].call]
                  /\ UNCHANGED calls
             ELSE ReturnReply(toClient[n].call)
    /\ UNCHANGED <<clientEnd, clientRst, daemonVars, toServer, sessions>>

\* While it waits for more it swallows whatever arrives.
Fill ==
    /\ cl.at = "filling"
    /\ toClient # <<>>
    /\ toClient' = <<>>
    /\ cl' = [cl EXCEPT !.got = toClient[Len(toClient)].call]
    /\ UNCHANGED <<calls, clientEnd, clientRst, daemonVars, toServer, sessions>>

\* Faulty: no receive timeout.
GiveUpWhenGone ==
    /\ cl.at \in {"waiting", "filling"}
    /\ toClient = <<>>
    /\ DaemonGone
    /\ Return(0, None)
    /\ UNCHANGED <<clientEnd, clientRst, daemonVars, toServer, toClient, sessions>>

\* Nothing arrives within five seconds, or the daemon has gone: the caller
\* gets an empty reply.  Only when the daemon has closed the connection does a
\* client that waits for more make do with what it has.
GiveUp ==
    /\ cl.at \in {"waiting", "filling"}
    /\ toClient = <<>>
    /\ IF DaemonGone /\ ~clientRst THEN ReturnReply(cl.got) ELSE ReturnReply(0)
    /\ UNCHANGED <<clientEnd, clientRst, daemonVars, toServer, toClient, sessions>>

\* DaemonManager::disconnect: shutdown, then close.
Disconnect ==
    /\ clientEnd = "open"
    /\ cl.at = "idle"
    /\ clientEnd' = "closed"
    /\ cl' = [at |-> "idle", must |-> None, got |-> 0]
    /\ UNCHANGED <<calls, clientRst, daemonVars, toServer, toClient, sessions>>

\* The application dies; bytes it has not read make the kernel reset the
\* connection instead of closing it.
ClientCrash ==
    /\ clientEnd = "open"
    /\ clientEnd' = IF toClient = <<>> THEN "crashed" ELSE "reset"
    /\ serverRst' = (serverRst \/ toClient # <<>>)
    /\ calls' = [i \in DOMAIN calls |->
                   IF calls[i].outcome = "pending"
                   THEN [calls[i] EXCEPT !.outcome = "nothing"] ELSE calls[i]]
    /\ cl' = [at |-> "idle", must |-> None, got |-> 0]
    /\ UNCHANGED <<clientRst, d, handler, running, left, index, toServer, toClient, sessions>>

----------------------------------------------------------------------------
(* The IPC thread of the daemon.                                            *)

\* The thread ends: its sockets are closed, which resets the connection when
\* a request is left unread.
Ends(place) ==
    /\ d' = [at |-> place, batch |-> <<>>, call |-> 0]
    /\ clientRst' = (clientRst \/ toServer # <<>>)

\* Faulty: the request is read and left in the stream.
TakeRequestPeeking ==
    /\ d.at = "receive"
    /\ \E n \in DOMAIN toServer :
          /\ Takes(toServer, n)
          /\ d' = [at |-> "process", batch |-> SubSeq(toServer, 1, n), call |-> toServer[n].call]
    /\ UNCHANGED <<calls, clientVars, serverRst, toServer, toClient, sessions, handler, running,
                   left, index>>

\* recv returns bytes.
TakeRequest ==
    /\ d.at = "receive"
    /\ \E n \in DOMAIN toServer :
          /\ Takes(toServer, n)
          /\ d' = [at |-> "process", batch |-> SubSeq(toServer, 1, n), call |-> toServer[n].call]
          /\ toServer' = Rest(toServer, n)
    /\ UNCHANGED <<calls, clientVars, serverRst, toClient, sessions, handler, running,
                   left, index>>

\* recv fails with ECONNRESET: only EAGAIN is handled, and an empty request
\* is processed.
RecvFails ==
    /\ d.at = "receive"
    /\ toServer = <<>>
    /\ clientEnd = "reset"
    /\ d' = [at |-> "process", batch |-> <<>>, call |-> 0]
    /\ UNCHANGED <<calls, clientVars, serverRst, toServer, toClient, sessions, handler,
                   running, left, index>>

\* protobuf_process ends with this reply.
Reply(verdict, size) ==
    /\ d' = [d EXCEPT !.at = "send", !.batch = Parts(d.call, size)]
    /\ calls' = IF d.call = 0 THEN calls ELSE [calls EXCEPT ![d.call].verdict = verdict]

\* The early returns: what does not parse, or holds no query, is answered by a
\* response that carries no error.
ProcessGarbage ==
    /\ d.at = "process"
    /\ ~Intact(d.batch)
    /\ Reply("bare", "short")
    /\ UNCHANGED <<clientVars, serverRst, toServer, toClient, sessions, handler, running,
                   left, index>>

\* get: the value, however long, or an error, when no peer has it or answers.
ProcessGet ==
    /\ d.at = "process"
    /\ Intact(d.batch)
    /\ calls[d.call].op = "get"
    /\ \/ \E size \in {"short", "long"} : Reply("done", size)
       \/ Reply("error", "short")
    /\ UNCHANGED <<clientVars, serverRst, toServer, toClient, sessions, handler, running,
                   left, index>>

\* put: enough peers took the value, or there was nothing to publish; or an
\* error, also when some peers or the daemon itself keep it (StorePartial and
\* StoreToSelf are errors for the client).
ProcessPut ==
    /\ d.at = "process"
    /\ Intact(d.batch)
    /\ calls[d.call].op = "put"
    /\ \E verdict \in {"done", "error"} : Reply(verdict, "short")
    /\ UNCHANGED <<clientVars, serverRst, toServer, toClient, sessions, handler, running,
                   left, index>>

\* remove: the rows of hash_table, then those of the index, each looked for by a
\* SELECT and deleted when it finds them.  The code of the last DELETE replaces
\* what was before it, and a SELECT that fails counts as one that finds nothing:
\* so the index may keep the key, or the other table its row, without an error.
ProcessRemove ==
    /\ d.at = "process"
    /\ Intact(d.batch)
    /\ calls[d.call].op = "remove"
    /\ LET k == calls[d.call].key
       IN \/ \* deleted from the index, whatever became of hash_table
             /\ k \in index
             /\ index' = index \ {k}
             /\ \E verdict \in {"done", "partial"} : Reply(verdict, "short")
          \/ \* nothing to delete, or a statement failed: the SELECT, or a DELETE,
             \* of the index or, where the index has nothing to say, of hash_table
             /\ UNCHANGED index
             /\ \/ \E verdict \in {"partial", "error"} : Reply(verdict, "short")
                \/ k \notin index /\ Reply("done", "short")
    /\ UNCHANGED <<clientVars, serverRst, toServer, toClient, sessions, handler, running, left>>

\* set: protobuf_process has no such method.
ProcessSet ==
    /\ d.at = "process"
    /\ Intact(d.batch)
    /\ calls[d.call].op = "set"
    /\ Reply("error", "short")
    /\ UNCHANGED <<clientVars, serverRst, toServer, toClient, sessions, handler, running,
                   left, index>>

\* Server::send, and the test of is_running before the next receive.
SendReply ==
    /\ d.at = "send"
    /\ \/ \* SIGPIPE
          /\ serverRst
          /\ Ends("killed")
          /\ UNCHANGED <<toClient, serverRst>>
       \/ /\ ~serverRst
          /\ serverRst' = (clientEnd \in Gone)
          /\ toClient' = IF clientEnd \in Gone THEN toClient ELSE toClient \o d.batch
          /\ IF running
             THEN d' = [at |-> "receive", batch |-> <<>>, call |-> 0] /\ UNCHANGED clientRst
             ELSE Ends("stopped")
    /\ UNCHANGED <<calls, cl, clientEnd, toServer, sessions, handler, running, left, index>>

\* Faulty: the signal is raised without a republish.
EndOfStreamUnsaved ==
    /\ d.at = "receive" /\ toServer = <<>> /\ clientEnd \in {"closed", "crashed"}
    /\ running' = (running /\ handler = "main")
    /\ IF running' THEN d' = [d EXCEPT !.at = "accept"] /\ UNCHANGED clientRst
       ELSE Ends("stopped")
    /\ UNCHANGED <<calls, cl, clientEnd, serverRst, toServer, toClient, sessions, handler,
                   left, index>>

\* Faulty: no signal is raised.
EndOfStreamQuietly ==
    /\ d.at = "receive" /\ toServer = <<>> /\ clientEnd \in {"closed", "crashed"}
    /\ left' = left \cup {"republished"}
    /\ d' = [d EXCEPT !.at = "accept"]
    /\ UNCHANGED <<calls, clientVars, serverRst, toServer, toClient, sessions, handler,
                   running, index>>

\* recv returns 0: the client has gone.  republish_once, raise(SIGINT), and back
\* to the outer loop.  Node's handler stops the node; main's only sets a flag
\* that this thread does not look at.
EndOfStream ==
    /\ d.at = "receive"
    /\ toServer = <<>>
    /\ clientEnd \in {"closed", "crashed"}
    /\ left' = left \cup {"republished"}
    /\ running' = (running /\ handler = "main")
    /\ IF running' THEN d' = [d EXCEPT !.at = "accept"] /\ UNCHANGED clientRst
       ELSE Ends("stopped")
    /\ UNCHANGED <<calls, cl, clientEnd, serverRst, toServer, toClient, sessions, handler,
                   index>>

\* Node::run, on the DHT thread, takes over the signal.
InstallHandler ==
    /\ handler = "main"
    /\ handler' = "node"
    /\ UNCHANGED <<calls, clientVars, d, serverRst, toServer, toClient, sessions, running,
                   left, index>>

\* Ctrl+C, once Node::run has the signal: Node::signal_handler stops the node,
\* once.  A blocked accept or recv is restarted.
Interrupt ==
    /\ ~DaemonGone
    /\ handler = "node"
    /\ running
    /\ running' = FALSE
    /\ left' = left \cup {"interrupted"}
    /\ UNCHANGED <<calls, clientVars, d, serverRst, toServer, toClient, sessions, handler, index>>

\* The daemon dies.
DaemonFails ==
    /\ ~DaemonGone
    /\ Ends("killed")
    /\ left' = left \cup {"failed"}
    /\ UNCHANGED <<calls, cl, clientEnd, serverRst, toServer, toClient, sessions, handler,
                   running, index>>

ClientStep == Receive \/ Fill \/ GiveUp

DaemonStep ==
    \/ TakeRequest \/ EndOfStream \/ RecvFails \/ ProcessGarbage \/ ProcessGet
    \/ ProcessPut \/ ProcessRemove \/ ProcessSet \/ SendReply

Next ==
    \/ Connect \/ Disconnect \/ ClientCrash \/ InstallHandler \/ Interrupt \/ DaemonFails
    \/ \E op \in Methods, k \in Keys, size \in {"short", "long"} : Send(op, k, size)
    \/ ClientStep
    \/ DaemonStep

\* The threads are scheduled; a receive of the client ends after five seconds.
Spec == Init /\ [][Next]_vars /\ WF_vars(ClientStep) /\ WF_vars(DaemonStep)

----------------------------------------------------------------------------
(* Properties.                                                              *)

Part == [call : 0..MaxCalls, part : {"whole", "head", "tail"}]

\* The shape of the state (the members of Client, Server and ipc_server).
TypeOK ==
    /\ calls \in Seq([op : Methods, key : Keys \cup {None}, size : {"short", "long"},
                      verdict : Verdicts, outcome : Outcomes,
                      answer : 0..MaxCalls])
    /\ Len(calls) \in 0..MaxCalls
    /\ cl \in [at : {"idle", "waiting", "filling", "killed"}, must : Keys \cup {None},
              got : 0..MaxCalls]
    /\ clientEnd \in {"none", "open"} \cup Gone
    /\ clientRst \in BOOLEAN
    /\ d \in [at : {"accept", "receive", "process", "send", "stopped",
                     "killed"},
              batch : Seq(Part), call : 0..MaxCalls]
    /\ serverRst \in BOOLEAN
    /\ toServer \in Seq(Part)
    /\ toClient \in Seq(Part)
    /\ sessions \in 0..MaxSessions
    /\ handler \in {"main", "node"}
    /\ running \in BOOLEAN
    /\ left \subseteq {"republished", "interrupted", "failed"}
    /\ index \subseteq Keys

\* Call i may have put the two streams out of step.
Skews(i) == calls[i].outcome = "nothing" \/ calls[i].size = "long"

\* Replies are taken in the order of the requests they answer, none before its
\* request, and only a request longer than the buffer has more than one
\* (Client::receive reads whatever the stream holds next).
RepliesInOrder ==
    \A j \in DOMAIN calls :
       LET c == calls[j].answer
       IN c # 0 =>
            /\ c <= j
            /\ \A i \in 1..(j - 1) :
                  calls[i].answer < c \/ (calls[i].answer = c /\ calls[c].size = "long")

\* A call returns the reply to another call only when an earlier call gave up
\* or had a request longer than the buffer of Server::receive.
OwnReplyUnlessSkewed ==
    \A j \in DOMAIN calls :
       calls[j].answer \notin {0, j} => \E i \in 1..(j - 1) : Skews(i)

\* What a call returns is the reply to it, in order and unless the streams are out of
\* step (Client::receive).
RepliesExplained == RepliesInOrder /\ OwnReplyUnlessSkewed

\* A call that returns its own reply has it from the method it named, unless a
\* request longer than the buffer came before it or was it: only then may a response
\* without an error mean that nothing was done.  So a put without an error is done; of
\* a remove without an error the key may still be left (see ProcessRemove).
AnsweredByMethod ==
    \A j \in DOMAIN calls :
       calls[j].answer = j /\ calls[j].verdict = "bare" => \E i \in 1..j : calls[i].size = "long"

\* A key leaves the index only after a get of that key returned an error, its
\* own or, when the streams were out of step, one that answers another call:
\* the scans remove what they take for obsolete keys.  A get that returned
\* nothing removes nothing.
RemovalsExplained ==
    \A k \in Keys \ index :
       \E j \in DOMAIN calls :
          /\ calls[j].op = "get" /\ calls[j].key = k
          /\ calls[j].answer # 0
          /\ calls[calls[j].answer].verdict = "error"
          /\ calls[j].answer = j \/ \E i \in 1..(j - 1) : Skews(i)

\* What the application makes of a reply is right: it is that of its method, and keys are
\* removed that were refused (the callers of Client::put and get).
RepliesMeanIt == AnsweredByMethod /\ RemovalsExplained

\* The daemon ends by itself only after republish_once, or when it was
\* interrupted; and it is killed by a signal only when a client has left with
\* a reply unread or a call unanswered (ipc_server).
ExitsRepublished ==
    /\ d.at = "stopped" => left \cap {"republished", "interrupted"} # {}
    /\ d.at = "killed" =>
          \/ "failed" \in left
          \/ clientEnd \in Gone /\ (clientEnd = "reset" \/ \E i \in DOMAIN calls : Skews(i))

\* Every call of the client returns, whatever the daemon does.
CallsReturn == (cl.at \in {"waiting", "filling"}) ~> (cl.at \in {"idle", "killed"})

\* When its client leaves, the daemon ends, provided that Node::run has
\* installed its handler before the thread raises the signal.
DisconnectEndsDaemon ==
    (clientEnd \in Gone /\ handler = "node" /\ d.at # "accept") ~> DaemonGone
=============================================================================
