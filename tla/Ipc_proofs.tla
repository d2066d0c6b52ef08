---------------------------- MODULE Ipc_proofs ----------------------------
(***************************************************************************)
(* Proofs about Ipc, for any keys and any number of calls and connections.  *)
(***************************************************************************)
EXTENDS Ipc, TLAPS, SequenceTheorems

Sizes == {"short", "long"}

CallRec == [op : Methods, key : Keys \cup {None}, size : Sizes, verdict : Verdicts,
            outcome : Outcomes, answer : 0..MaxCalls]

ClientType == [at : {"idle", "waiting", "filling", "killed"}, must : Keys \cup {None},
               got : 0..MaxCalls]

DaemonType == [at : {"accept", "receive", "process", "send", "stopped", "killed"},
               batch : Seq(Part), call : 0..MaxCalls]

Busy == d.at \in {"process", "send"}
InCall == cl.at \in {"waiting", "filling"}

Typed ==
    /\ calls \in Seq(CallRec)
    /\ Len(calls) \in 0..MaxCalls
    /\ cl \in ClientType
    /\ clientEnd \in {"none", "open"} \cup Gone
    /\ clientRst \in BOOLEAN
    /\ d \in DaemonType
    /\ serverRst \in BOOLEAN
    /\ toServer \in Seq(Part)
    /\ toClient \in Seq(Part)
    /\ sessions \in 0..MaxSessions
    /\ handler \in {"main", "node"}
    /\ running \in BOOLEAN
    /\ left \subseteq {"republished", "interrupted", "failed"}
    /\ index \subseteq Keys

\* A daemon that is between requests holds none; a client in a call has made one.
Shape ==
    /\ ~Busy => d.batch = <<>> /\ d.call = 0
    /\ d.call \in 0..Len(calls)
    /\ d.at = "process" /\ d.batch # <<>> => d.call \in DOMAIN calls
    /\ \A i \in DOMAIN toServer : toServer[i].call \in DOMAIN calls
    /\ InCall => calls # <<>> /\ clientEnd = "open"

----------------------------------------------------------------------------
(* Streams.                                                                 *)

\* A stream is a function from 1 to its length.
LEMMA StreamIs ==
    ASSUME NEW s \in Seq(Part)
    PROVE  /\ Len(s) \in Nat
           /\ DOMAIN s = 1..Len(s)
           /\ \A i \in DOMAIN s : /\ s[i] \in Part
                                /\ s[i].call \in 0..MaxCalls
                                /\ s[i].part \in {"whole", "head", "tail"}
           /\ s # <<>> => Len(s) \in DOMAIN s
           /\ s = <<>> => DOMAIN s = {}
<1>1. Len(s) \in Nat /\ DOMAIN s = 1..Len(s)
  BY LenProperties
<1>2. \A i \in DOMAIN s : s[i] \in Part
  BY <1>1, ElementOfSeq
<1>3. s # <<>> => Len(s) \in Nat \ {0}
  BY EmptySeq
<1> QED BY <1>1, <1>2, <1>3 DEF Part

\* The records of the calls.
LEMMA CallsAre ==
    ASSUME NEW s \in Seq(CallRec)
    PROVE  /\ Len(s) \in Nat
           /\ DOMAIN s = 1..Len(s)
           /\ \A i \in DOMAIN s : s[i] \in CallRec
           /\ s # <<>> => Len(s) \in DOMAIN s
<1>1. Len(s) \in Nat /\ DOMAIN s = 1..Len(s)
  BY LenProperties
<1>2. \A i \in DOMAIN s : s[i] \in CallRec
  BY <1>1, ElementOfSeq
<1>3. s # <<>> => Len(s) \in Nat \ {0}
  BY EmptySeq
<1> QED BY <1>1, <1>2, <1>3

\* What is left of a stream after the first n parts.
LEMMA RestOf ==
    ASSUME NEW s \in Seq(Part), NEW n \in DOMAIN s
    PROVE  /\ Rest(s, n) \in Seq(Part)
           /\ Len(Rest(s, n)) = Len(s) - n
           /\ \A i \in DOMAIN Rest(s, n) : n + i \in DOMAIN s /\ Rest(s, n)[i] = s[n + i]
<1>1. n \in 1..Len(s) /\ DOMAIN s = 1..Len(s) /\ Len(s) \in Nat
  BY LenProperties
<1>2. \A i \in (n + 1)..Len(s) : s[i] \in Part
  BY <1>1, ElementOfSeq
<1>3. /\ SubSeq(s, n + 1, Len(s)) \in Seq(Part)
      /\ Len(SubSeq(s, n + 1, Len(s))) = IF n + 1 <= Len(s) THEN Len(s) - (n + 1) + 1 ELSE 0
      /\ \A i \in 1..(Len(s) - (n + 1) + 1) :
            SubSeq(s, n + 1, Len(s))[i] = s[(n + 1) + i - 1]
  BY <1>1, <1>2, SubSeqProperties
<1> QED BY <1>1, <1>3, LenProperties DEF Rest

\* The first n parts of a stream.
LEMMA FrontOf ==
    ASSUME NEW s \in Seq(Part), NEW n \in DOMAIN s
    PROVE  /\ SubSeq(s, 1, n) \in Seq(Part)
           /\ Len(SubSeq(s, 1, n)) = n
           /\ DOMAIN SubSeq(s, 1, n) = 1..n
           /\ n \in 1..Len(s)
           /\ \A i \in 1..n : i \in DOMAIN s /\ SubSeq(s, 1, n)[i] = s[i]
<1>1. n \in 1..Len(s) /\ DOMAIN s = 1..Len(s) /\ Len(s) \in Nat
  BY LenProperties
<1>2. \A i \in 1..n : s[i] \in Part
  BY <1>1, ElementOfSeq
<1>3. /\ SubSeq(s, 1, n) \in Seq(Part)
      /\ Len(SubSeq(s, 1, n)) = IF 1 <= n THEN n - 1 + 1 ELSE 0
      /\ \A i \in 1..(n - 1 + 1) : SubSeq(s, 1, n)[i] = s[1 + i - 1]
  BY <1>1, <1>2, SubSeqProperties
<1> QED BY <1>1, <1>3, LenProperties

\* The parts of a message.
LEMMA PartsOf ==
    ASSUME NEW c \in 0..MaxCalls, NEW size \in Sizes
    PROVE  /\ Parts(c, size) \in Seq(Part)
           /\ Len(Parts(c, size)) \in 1..2
           /\ DOMAIN Parts(c, size) = 1..Len(Parts(c, size))
           /\ size = "short" => /\ Len(Parts(c, size)) = 1
                                /\ Parts(c, size)[1].part = "whole"
           /\ size = "long" => /\ Len(Parts(c, size)) = 2
                               /\ Parts(c, size)[1].part = "head"
                               /\ Parts(c, size)[2].part = "tail"
           /\ \A i \in DOMAIN Parts(c, size) : Parts(c, size)[i].call = c
<1>1. CASE size = "short"
  <2>1. [call |-> c, part |-> "whole"] \in Part
    BY DEF Part
  <2>2. Parts(c, size) = << [call |-> c, part |-> "whole"] >>
    BY <1>1 DEF Parts
  <2>3. Parts(c, size) \in Seq(Part)
    BY <2>1, <2>2
  <2>4. Len(Parts(c, size)) = 1 /\ Parts(c, size)[1] = [call |-> c, part |-> "whole"]
    BY <2>2
  <2>5. DOMAIN Parts(c, size) = 1..1
    BY <2>3, <2>4, StreamIs
  <2> QED BY <1>1, <2>3, <2>4, <2>5
<1>2. CASE size = "long"
  <2>1. [call |-> c, part |-> "head"] \in Part /\ [call |-> c, part |-> "tail"] \in Part
    BY DEF Part
  <2>2. Parts(c, size) = << [call |-> c, part |-> "head"], [call |-> c, part |-> "tail"] >>
    BY <1>2 DEF Parts
  <2>3. Parts(c, size) \in Seq(Part)
    BY <2>1, <2>2
  <2>4. /\ Len(Parts(c, size)) = 2
        /\ Parts(c, size)[1] = [call |-> c, part |-> "head"]
        /\ Parts(c, size)[2] = [call |-> c, part |-> "tail"]
    BY <2>2
  <2>5. DOMAIN Parts(c, size) = 1..2
    BY <2>3, <2>4, StreamIs
  <2> QED BY <1>2, <2>3, <2>4, <2>5
<1> QED BY <1>1, <1>2 DEF Sizes

\* A stream to which a message is added.
LEMMA AddedTo ==
    ASSUME NEW s \in Seq(Part), NEW t \in Seq(Part)
    PROVE  /\ s \o t \in Seq(Part)
           /\ Len(s \o t) = Len(s) + Len(t)
           /\ DOMAIN (s \o t) = 1..(Len(s) + Len(t))
           /\ \A i \in DOMAIN s : i \in DOMAIN (s \o t) /\ (s \o t)[i] = s[i]
           /\ \A i \in DOMAIN (s \o t) :
                 \/ i \in DOMAIN s /\ (s \o t)[i] = s[i]
                 \/ i > Len(s) /\ i - Len(s) \in DOMAIN t /\ (s \o t)[i] = t[i - Len(s)]
<1>1. /\ s \o t \in Seq(Part)
      /\ Len(s \o t) = Len(s) + Len(t)
      /\ \A i \in 1..(Len(s) + Len(t)) :
            (s \o t)[i] = IF i <= Len(s) THEN s[i] ELSE t[i - Len(s)]
  BY ConcatProperties
<1>2. /\ DOMAIN s = 1..Len(s) /\ Len(s) \in Nat
      /\ DOMAIN t = 1..Len(t) /\ Len(t) \in Nat
      /\ DOMAIN (s \o t) = 1..Len(s \o t)
  BY <1>1, LenProperties
<1> QED BY <1>1, <1>2

\* What a test of one call's record leaves alone.
LEMMA OneCall ==
    ASSUME NEW s \in Seq(CallRec), NEW c \in DOMAIN s, NEW r \in CallRec
    PROVE  /\ [s EXCEPT ![c] = r] \in Seq(CallRec)
           /\ Len([s EXCEPT ![c] = r]) = Len(s)
           /\ DOMAIN [s EXCEPT ![c] = r] = DOMAIN s
           /\ \A i \in DOMAIN s : [s EXCEPT ![c] = r][i] = IF i = c THEN r ELSE s[i]
  BY ExceptSeq, LenProperties

----------------------------------------------------------------------------
(* Type correctness.                                                        *)

\* The initial state is well typed.
LEMMA InitTyped == Init => Typed /\ Shape
<1> SUFFICES ASSUME Init PROVE Typed /\ Shape
  OBVIOUS
<1>1. calls = <<>> /\ calls \in Seq(CallRec) /\ Len(calls) = 0
  BY EmptySeq DEF Init
<1>2. toServer \in Seq(Part) /\ toClient \in Seq(Part) /\ <<>> \in Seq(Part)
  BY EmptySeq DEF Init
<1>3. cl \in ClientType /\ d \in DaemonType
  BY <1>2, IpcAssumption DEF Init, ClientType, DaemonType
<1>4. /\ clientEnd \in {"none", "open"} \cup Gone /\ clientRst \in BOOLEAN
      /\ serverRst \in BOOLEAN /\ sessions \in 0..MaxSessions
      /\ handler \in {"main", "node"} /\ running \in BOOLEAN
      /\ left \subseteq {"republished", "interrupted", "failed"} /\ index \subseteq Keys
  <2>1. /\ clientEnd = "none" /\ clientRst = FALSE /\ serverRst = FALSE /\ sessions = 0
        /\ handler = "main" /\ running = TRUE /\ left = {} /\ index = Keys
    BY DEF Init
  <2>2. 0 \in 0..MaxSessions
    BY IpcAssumption
  <2> QED BY <2>1, <2>2
<1>5. Len(calls) \in 0..MaxCalls
  BY <1>1, IpcAssumption
<1>6. Typed
  BY <1>1, <1>2, <1>3, <1>4, <1>5 DEF Typed
<1>7. Shape
  BY <1>1 DEF Init, Shape, Busy, InCall
<1> QED BY <1>6, <1>7

\* The end of a call keeps the types.
LEMMA ReturnTyped ==
    ASSUME Typed, Shape, InCall, NEW c \in 0..MaxCalls, ReturnReply(c)
    PROVE  /\ calls' \in Seq(CallRec) /\ Len(calls') = Len(calls)
           /\ cl' \in ClientType /\ cl'.at = "idle" /\ cl'.got = 0
<1>1. Len(calls) \in DOMAIN calls /\ calls[Len(calls)] \in CallRec /\ Len(calls) \in Nat
  BY LenProperties, EmptySeq, ElementOfSeq DEF Typed, Shape
<1> DEFINE r == [calls[Len(calls)] EXCEPT !.outcome = IF c = 0 THEN "nothing" ELSE "replied",
                                         !.answer = c]
<1>2. r \in CallRec
  BY <1>1 DEF CallRec, Outcomes
<1>3. calls' = [calls EXCEPT ![Len(calls)] = r]
  BY DEF ReturnReply, Return
<1>4. PICK must \in {calls[Len(calls)].key, None} :
        cl' = [at |-> "idle", must |-> must, got |-> 0]
  BY DEF ReturnReply, Return
<1>5. must \in Keys \cup {None}
  BY <1>1, <1>4 DEF CallRec
<1> QED BY <1>1, <1>2, <1>3, <1>4, <1>5, OneCall, IpcAssumption DEF Typed, ClientType

\* The steps of the client keep the types.
LEMMA ClientTyped ==
    ASSUME Typed, Shape,
           Receive \/ Fill \/ GiveUp \/ Disconnect \/ ClientCrash \/ Connect
    PROVE  Typed' /\ Shape'
<1> USE DEF Typed
<1>0. Len(calls) \in Nat /\ DOMAIN calls = 1..Len(calls) /\ <<>> \in Seq(Part)
  BY LenProperties, EmptySeq
<1>1. CASE Receive
  <2>1. PICK n \in DOMAIN toClient :
          /\ toClient' = Rest(toClient, n)
          /\ IF toClient[n].part = "head"
             THEN /\ cl' = [cl EXCEPT !.at = "filling", !.got = toClient[n].call]
                  /\ UNCHANGED calls
             ELSE ReturnReply(toClient[n].call)
    BY <1>1 DEF Receive
  <2>2. toClient' \in Seq(Part) /\ toClient[n] \in Part /\ toClient[n].call \in 0..MaxCalls
    BY <2>1, RestOf, StreamIs
  <2>3. CASE toClient[n].part = "head"
    BY <1>1, <2>1, <2>2, <2>3
    DEF Receive, ClientType, daemonVars, Shape, Busy, InCall
  <2>4. CASE toClient[n].part # "head"
    <3>1. /\ calls' \in Seq(CallRec) /\ Len(calls') = Len(calls)
          /\ cl' \in ClientType /\ cl'.at = "idle"
      BY <1>1, <2>1, <2>2, <2>4, ReturnTyped DEF Receive, InCall
    <3>2. Typed'
      BY <1>1, <2>2, <3>1 DEF Receive, daemonVars
    <3>3. Shape'
      BY <1>0, <1>1, <3>1, CallsAre DEF Receive, daemonVars, Shape, Busy, InCall
    <3> QED BY <3>2, <3>3
  <2> QED BY <2>3, <2>4
<1>2. CASE Fill
  <2>1. Len(toClient) \in 1..Len(toClient) /\ toClient[Len(toClient)] \in Part
    BY <1>2, LenProperties, ElementOfSeq, EmptySeq DEF Fill
  <2> QED BY <1>0, <1>2, <2>1 DEF Fill, Part, ClientType, daemonVars, Shape, Busy, InCall
<1>3. CASE GiveUp
  <2>1. cl.got \in 0..MaxCalls /\ 0 \in 0..MaxCalls
    BY IpcAssumption DEF ClientType
  <2>2. ReturnReply(cl.got) \/ ReturnReply(0)
    BY <1>3 DEF GiveUp
  <2> QED BY <1>0, <1>3, <2>1, <2>2, ReturnTyped DEF GiveUp, daemonVars, Shape, Busy, InCall
<1>4. CASE Disconnect
  BY <1>0, <1>4, IpcAssumption DEF Disconnect, daemonVars, ClientType, Gone, Shape, Busy, InCall
<1>5. CASE ClientCrash
  <2>1. calls' = [i \in DOMAIN calls |-> IF calls[i].outcome = "pending"
                                        THEN [calls[i] EXCEPT !.outcome = "nothing"] ELSE calls[i]]
    BY <1>5 DEF ClientCrash
  <2>2. \A i \in 1..Len(calls) : calls'[i] \in CallRec
    BY <1>0, <2>1, CallsAre, ZenonT(30) DEF CallRec, Outcomes
  <2>3. calls' \in Seq(CallRec) /\ Len(calls') = Len(calls)
    BY <1>0, <2>1, <2>2
  <2> QED BY <1>0, <1>5, <2>3, IpcAssumption
          DEF ClientCrash, ClientType, Gone, Shape, Busy, InCall
<1>6. CASE Connect
  <2>1. d' \in DaemonType /\ d'.batch = d.batch /\ d'.call = d.call
        /\ d'.at \in {"receive", "stopped"} /\ d.at = "accept"
    BY <1>6 DEF Connect, DaemonType
  <2>2. /\ sessions' \in 0..MaxSessions /\ toServer' \in Seq(Part) /\ toClient' \in Seq(Part)
        /\ clientEnd' = "open" /\ clientRst' = FALSE /\ serverRst' = FALSE
        /\ UNCHANGED <<calls, cl, handler, running, left, index>>
    BY <1>0, <1>6, IpcAssumption DEF Connect
  <2>3. Typed'
    BY <2>1, <2>2
  <2>4. Shape'
    BY <1>6, <2>1 DEF Connect, Shape, Busy, InCall
  <2> QED BY <2>3, <2>4
<1> QED BY <1>1, <1>2, <1>3, <1>4, <1>5, <1>6

\* Sending a request keeps the types.
LEMMA SendTyped ==
    ASSUME Typed, Shape, NEW op \in Methods, NEW k \in Keys, NEW size \in Sizes,
           Send(op, k, size)
    PROVE  Typed' /\ Shape'
<1> USE DEF Typed
<1>0. Len(calls) \in Nat /\ DOMAIN calls = 1..Len(calls)
  BY LenProperties
<1>1. CASE clientRst
  BY <1>1, IpcAssumption DEF Send, ClientType, daemonVars, Gone, Shape, Busy, InCall
<1>2. CASE ~clientRst
  <2>1. Call(op, k, size) \in CallRec
    BY IpcAssumption DEF Call, CallRec, Verdicts, Outcomes
  <2>2. calls' = Append(calls, Call(op, k, size)) /\ Len(calls) < MaxCalls
    BY <1>2 DEF Send
  <2>3. calls' \in Seq(CallRec) /\ Len(calls') = Len(calls) + 1 /\ calls' # <<>>
    BY <2>1, <2>2
  <2>4. Len(calls) + 1 \in 0..MaxCalls
    BY <1>0, <2>2, IpcAssumption
  <2>5. toServer' \in Seq(Part)
    <3>1. Parts(Len(calls) + 1, size) \in Seq(Part)
      BY <2>4, PartsOf
    <3>2. toServer \o Parts(Len(calls) + 1, size) \in Seq(Part)
      BY <3>1, AddedTo
    <3> QED BY <1>2, <3>2 DEF Send
  <2>11. \A i \in DOMAIN toServer' : toServer'[i].call \in 1..(Len(calls) + 1)
    <3>1. CASE DaemonGone
      BY <1>0, <1>2, <3>1 DEF Send, Shape
    <3>2. CASE ~DaemonGone
      <4>1. toServer' = toServer \o Parts(Len(calls) + 1, size)
        BY <1>2, <3>2 DEF Send
      <4>2. /\ Parts(Len(calls) + 1, size) \in Seq(Part)
            /\ \A i \in DOMAIN Parts(Len(calls) + 1, size) :
                  Parts(Len(calls) + 1, size)[i].call = Len(calls) + 1
        BY <2>4, PartsOf
      <4>3. \A i \in DOMAIN toServer' :
               \/ i \in DOMAIN toServer /\ toServer'[i] = toServer[i]
               \/ toServer'[i].call = Len(calls) + 1
        BY <4>1, <4>2, AddedTo
      <4> QED BY <1>0, <4>3 DEF Shape
    <3> QED BY <3>1, <3>2
  <2>6. cl' \in ClientType /\ clientRst' \in BOOLEAN /\ clientEnd' = "open"
    BY <1>2, IpcAssumption DEF Send, ClientType, DaemonGone
  <2>7. UNCHANGED <<daemonVars, toClient, sessions>>
    BY DEF Send
  <2>8. DOMAIN calls' = 1..(Len(calls) + 1)
    BY <2>3, LenProperties
  <2>9. Typed'
    BY <2>3, <2>4, <2>5, <2>6, <2>7 DEF daemonVars
  <2>10. Shape'
    BY <1>0, <2>3, <2>6, <2>7, <2>8, <2>11 DEF Shape, Busy, InCall, daemonVars
  <2> QED BY <2>9, <2>10
<1> QED BY <1>1, <1>2

\* The daemon's steps that take a request or lose their client keep the types.
LEMMA TakingTyped ==
    ASSUME Typed, Shape,
           TakeRequest \/ RecvFails \/ EndOfStream \/ InstallHandler \/ Interrupt \/ DaemonFails
    PROVE  Typed' /\ Shape'
<1>0. Len(calls) \in Nat /\ DOMAIN calls = 1..Len(calls) /\ <<>> \in Seq(Part) /\ 0 \in 0..MaxCalls
  BY LenProperties, EmptySeq, IpcAssumption DEF Typed
<1>1. CASE TakeRequest
  <2>1. PICK n \in DOMAIN toServer :
          /\ d' = [at |-> "process", batch |-> SubSeq(toServer, 1, n), call |-> toServer[n].call]
          /\ toServer' = Rest(toServer, n)
    BY <1>1 DEF TakeRequest
  <2>2. /\ toServer' \in Seq(Part)
        /\ \A i \in DOMAIN toServer' : n + i \in DOMAIN toServer /\ toServer'[i] = toServer[n + i]
    BY <2>1, RestOf DEF Typed
  <2>3. SubSeq(toServer, 1, n) \in Seq(Part) /\ toServer[n].call \in 0..MaxCalls
    BY <2>1, FrontOf, StreamIs DEF Typed
  <2>4. d' \in DaemonType
    BY <2>1, <2>3 DEF DaemonType
  <2>5. Typed'
    BY <1>1, <2>2, <2>4 DEF TakeRequest, Typed, clientVars
  <2>6. Shape'
    BY <1>0, <1>1, <2>1, <2>2 DEF TakeRequest, Shape, clientVars, Busy, InCall
  <2> QED BY <2>5, <2>6
<1>2. CASE RecvFails
  BY <1>0, <1>2 DEF RecvFails, Typed, Shape, clientVars, DaemonType, Busy, InCall
<1>3. CASE EndOfStream
  BY <1>0, <1>3 DEF EndOfStream, Ends, Typed, Shape, clientVars, DaemonType, Busy, InCall
<1>4. CASE InstallHandler
  BY <1>4 DEF InstallHandler, Typed, Shape, clientVars, Busy, InCall
<1>5. CASE Interrupt
  BY <1>5 DEF Interrupt, Typed, Shape, clientVars, Busy, InCall
<1>6. CASE DaemonFails
  BY <1>0, <1>6 DEF DaemonFails, Ends, Typed, Shape, DaemonType, Busy, InCall
<1> QED BY <1>1, <1>2, <1>3, <1>4, <1>5, <1>6

\* What protobuf_process leaves behind, whatever the method.
LEMMA ReplyTyped ==
    ASSUME Typed, Shape, d.at = "process", NEW verdict \in Verdicts, NEW size \in Sizes,
           Reply(verdict, size)
    PROVE  /\ calls' \in Seq(CallRec) /\ Len(calls') = Len(calls) /\ DOMAIN calls' = DOMAIN calls
           /\ d' = [at |-> "send", batch |-> Parts(d.call, size), call |-> d.call]
           /\ d' \in DaemonType
           /\ \A i \in DOMAIN calls :
                 calls'[i] = IF i = d.call THEN [calls[i] EXCEPT !.verdict = verdict] ELSE calls[i]
<1>1. d.call \in 0..MaxCalls /\ Parts(d.call, size) \in Seq(Part)
  BY PartsOf DEF Typed, DaemonType
<1>2. d' = [at |-> "send", batch |-> Parts(d.call, size), call |-> d.call] /\ d' \in DaemonType
  BY <1>1 DEF Reply, Typed, DaemonType
<1>3. CASE d.call = 0
  <2>1. calls' = calls
    BY <1>3 DEF Reply
  <2>2. calls \in Seq(CallRec) /\ \A i \in DOMAIN calls : i # d.call
    BY <1>3, CallsAre DEF Typed
  <2> QED BY <1>2, <2>1, <2>2
<1>4. CASE d.call # 0
  <2>1. d.call \in DOMAIN calls
    BY <1>4, CallsAre DEF Shape, Typed
  <2>2. [calls[d.call] EXCEPT !.verdict = verdict] \in CallRec
    BY <2>1, CallsAre, ZenonT(30) DEF CallRec, Typed
  <2>3. calls' = [calls EXCEPT ![d.call] = [calls[d.call] EXCEPT !.verdict = verdict]]
    BY <1>4 DEF Reply
  <2>4. calls \in Seq(CallRec)
    BY DEF Typed
  <2>5. /\ calls' \in Seq(CallRec) /\ Len(calls') = Len(calls) /\ DOMAIN calls' = DOMAIN calls
        /\ \A i \in DOMAIN calls :
              calls'[i] = IF i = d.call THEN [calls[d.call] EXCEPT !.verdict = verdict]
                          ELSE calls[i]
    BY <2>1, <2>2, <2>3, <2>4, OneCall
  <2> QED BY <1>2, <2>5
<1> QED BY <1>3, <1>4

\* Every request is answered by one of these.
LEMMA ProcessIsReply ==
    ASSUME Typed, Shape,
           ProcessGarbage \/ ProcessGet \/ ProcessPut \/ ProcessRemove \/ ProcessSet
    PROVE  \E verdict \in {"done", "partial", "bare", "error"}, size \in Sizes :
              /\ Reply(verdict, size)
              /\ d.at = "process"
              /\ verdict = "bare" <=> ~Intact(d.batch)
              /\ index' \subseteq index
  BY DEF ProcessGarbage, ProcessGet, ProcessPut, ProcessRemove, ProcessSet, Sizes

\* Processing and answering a request keep the types.
LEMMA AnsweringTyped ==
    ASSUME Typed, Shape,
           \/ ProcessGarbage \/ ProcessGet \/ ProcessPut \/ ProcessRemove \/ ProcessSet
           \/ SendReply
    PROVE  Typed' /\ Shape'
<1>1. CASE ProcessGarbage \/ ProcessGet \/ ProcessPut \/ ProcessRemove \/ ProcessSet
  <2>1. PICK verdict \in Verdicts, size \in Sizes :
          Reply(verdict, size) /\ d.at = "process" /\ index' \subseteq index
    BY <1>1, ProcessIsReply DEF Verdicts
  <2>2. /\ calls' \in Seq(CallRec) /\ Len(calls') = Len(calls) /\ DOMAIN calls' = DOMAIN calls
        /\ d' \in DaemonType /\ d'.at = "send" /\ d'.call = d.call
    BY <2>1, ReplyTyped
  <2>3. UNCHANGED <<clientVars, serverRst, toServer, toClient, sessions, handler, running, left>>
    BY <1>1 DEF ProcessGarbage, ProcessGet, ProcessPut, ProcessRemove, ProcessSet
  <2>4. Typed'
    BY <2>1, <2>2, <2>3 DEF Typed, clientVars
  <2>5. calls # <<>> => calls' # <<>>
    BY <2>2, CallsAre DEF Typed
  <2>6. Shape'
    BY <2>2, <2>3, <2>5 DEF Shape, Busy, InCall, clientVars
  <2> QED BY <2>4, <2>6
<1>2. CASE SendReply
  <2>1. toClient \o d.batch \in Seq(Part) /\ <<>> \in Seq(Part) /\ 0 \in 0..MaxCalls
    BY AddedTo, EmptySeq, IpcAssumption DEF Typed, DaemonType
  <2>2. PICK at \in {"receive", "stopped", "killed"} :
           d' = [at |-> at, batch |-> <<>>, call |-> 0]
    BY <1>2 DEF SendReply, Ends
  <2>3. d' \in DaemonType /\ d'.batch = <<>> /\ d'.call = 0 /\ d'.at \notin {"process", "send"}
    BY <2>1, <2>2 DEF DaemonType
  <2>6. toClient' \in {toClient, toClient \o d.batch}
    BY <1>2 DEF SendReply
  <2>7. toClient' \in Seq(Part)
    BY <2>1, <2>6 DEF Typed
  <2>8. serverRst' \in BOOLEAN /\ clientRst' \in BOOLEAN
    <3>3. serverRst' = serverRst \/ serverRst' = (clientEnd \in Gone)
      BY <1>2, Zenon DEF SendReply
    <3>4. (clientEnd \in Gone) \in BOOLEAN
      OBVIOUS
    <3>1. serverRst' \in BOOLEAN
      BY <3>3, <3>4 DEF Typed
    <3>2. clientRst' \in {clientRst, TRUE, FALSE}
      BY <1>2 DEF SendReply, Ends
    <3> QED BY <3>1, <3>2 DEF Typed
  <2>4. Typed'
    BY <1>2, <2>3, <2>7, <2>8 DEF SendReply, Typed
  <2>5. Shape'
    BY <1>2, <2>3, CallsAre DEF SendReply, Shape, Busy, InCall, Typed
  <2> QED BY <2>4, <2>5
<1> QED BY <1>1, <1>2

\* Every step keeps the types.
LEMMA StepTyped == Typed /\ Shape /\ [Next]_vars => Typed' /\ Shape'
<1> SUFFICES ASSUME Typed, Shape, [Next]_vars PROVE Typed' /\ Shape'
  OBVIOUS
<1>1. CASE UNCHANGED vars
  BY <1>1 DEF vars, Typed, Shape, Busy, InCall
<1>2. CASE Next
  BY <1>2, ClientTyped, SendTyped, TakingTyped, AnsweringTyped
  DEF Next, ClientStep, DaemonStep, Sizes
<1> QED BY <1>1, <1>2

\* Type correctness: the variables of the connection keep their types, for any
\* number of calls and connections (Client, Server, ipc_server).
THEOREM TypeCorrect == Spec => []TypeOK
<1>1. Typed => TypeOK
  BY DEF Typed, TypeOK, CallRec, ClientType, DaemonType, Sizes
<1>2. Init => Typed /\ Shape
  BY InitTyped
<1>3. Typed /\ Shape /\ [Next]_vars => Typed' /\ Shape'
  BY StepTyped
<1> QED BY <1>1, <1>2, <1>3, PTL DEF Spec


----------------------------------------------------------------------------
(* The strengthening.                                                       *)

\* p is taken from the stream of requests before q.
Precedes(p, q) ==
    p.call < q.call \/ (p.call = q.call /\ p.part = "head" /\ q.part = "tail")

Sorted(s) == \A i, j \in DOMAIN s : i < j => Precedes(s[i], s[j])

\* A part of a request that is still to be answered: only the tail of a long one
\* belongs to a call that has had a reply.
Due(p) ==
    /\ p.call \in DOMAIN calls
    /\ p.part = "whole" <=> calls[p.call].size = "short"
    /\ calls[p.call].verdict = "none" \/ (p.part = "tail" /\ calls[p.call].verdict = "bare")

ReplyShape(s) ==
    \/ Len(s) = 1 /\ s[1].part = "whole"
    \/ Len(s) = 2 /\ s[1].part = "head" /\ s[2].part = "tail"

\* The requests in the stream and in the hands of the daemon.
Queued ==
    /\ \A i \in DOMAIN toServer : Due(toServer[i])
    /\ Sorted(toServer)
    /\ d.at = "process" =>
         /\ \A i \in DOMAIN d.batch : Due(d.batch[i])
         /\ Sorted(d.batch)
         /\ \A i \in DOMAIN d.batch, j \in DOMAIN toServer : Precedes(d.batch[i], toServer[j])
         /\ d.batch # <<>> => d.call = d.batch[Len(d.batch)].call
         /\ d.batch = <<>> => d.call = 0 /\ clientEnd = "reset"
    /\ d.at = "send" =>
         /\ d.call = 0 => clientEnd = "reset"
         /\ d.call # 0 => calls[d.call].verdict # "none"
         /\ ReplyShape(d.batch)
         /\ \A i \in DOMAIN d.batch : d.batch[i].call = d.call

\* The replies in the stream and in the hands of the client.
Answered ==
    /\ \A i \in DOMAIN toClient :
          toClient[i].call \in DOMAIN calls /\ calls[toClient[i].call].verdict # "none"
    /\ cl.got # 0 => cl.got \in DOMAIN calls /\ calls[cl.got].verdict # "none"
    /\ cl.at # "filling" => cl.got = 0
    /\ \A j \in DOMAIN calls :
          /\ calls[j].outcome = "pending" <=> j = Len(calls) /\ InCall
          /\ calls[j].outcome = "replied" <=> calls[j].answer # 0
          /\ calls[j].answer # 0 =>
                calls[j].answer \in DOMAIN calls /\ calls[calls[j].answer].verdict # "none"
          /\ calls[j].verdict = "bare" => \E i \in 1..j : calls[i].size = "long"

Refused(j, k) ==
    /\ calls[j].op = "get"
    /\ calls[j].key = k
    /\ calls[j].answer # 0
    /\ calls[calls[j].answer].verdict = "error"

\* The removes of the application.
Removes ==
    /\ cl.must # None => cl.at = "idle" /\ calls # <<>> /\ Refused(Len(calls), cl.must)
    /\ \A j \in DOMAIN calls :
          calls[j].op = "remove" => j - 1 \in DOMAIN calls /\ Refused(j - 1, calls[j].key)
    /\ \A k \in Keys \ index :
          \E j \in DOMAIN calls : calls[j].op = "remove" /\ calls[j].key = k

\* None of the first n calls has put the streams out of step.
Calm(n) == \A i \in 1..n : ~Skews(i)

\* While that is so, there is at most one message under way, and it is the last call's.
InStep ==
    /\ Calm(Len(calls) - 1) =>
         /\ \A i \in DOMAIN toServer : toServer[i].call = Len(calls)
         /\ \A i \in DOMAIN toClient : toClient[i].call = Len(calls)
         /\ d.call \in {0, Len(calls)}
         /\ cl.got \in {0, Len(calls)}
    /\ Calm(Len(calls)) /\ ~InCall =>
         toServer = <<>> /\ toClient = <<>> /\ ~Busy /\ clientEnd # "reset"
    /\ Calm(Len(calls)) /\ InCall =>
         /\ toServer # <<>> =>
               Len(toServer) = 1 /\ toClient = <<>> /\ ~Busy /\ cl.at = "waiting"
         /\ Busy => toServer = <<>> /\ toClient = <<>> /\ cl.at = "waiting"
         /\ toClient # <<>> /\ cl.at = "waiting" => ReplyShape(toClient)
    /\ \A j \in DOMAIN calls : calls[j].answer \notin {0, j} => ~Calm(j - 1)

\* How the daemon ends.
Exits ==
    /\ ~running => left \cap {"republished", "interrupted"} # {}
    /\ d.at = "stopped" => ~running
    /\ serverRst => clientEnd \in Gone /\ ~Calm(Len(calls))
    /\ d.at = "killed" => "failed" \in left \/ (clientEnd \in Gone /\ ~Calm(Len(calls)))

\* A reply to c may come before a reply to e; the calls of the set long had requests
\* longer than the buffer.
Earlier(long, c, e) == c < e \/ (c = e /\ c \in long)

\* The replies taken come before a reply to e.
TakenBefore(long, answers, e) ==
    \A j \in DOMAIN answers : answers[j] # 0 => Earlier(long, answers[j], e)

\* So do the one that is held and those under way.
AllBefore(long, answers, got, replies, e) ==
    /\ TakenBefore(long, answers, e)
    /\ got # 0 => Earlier(long, got, e)
    /\ \A i \in DOMAIN replies : Earlier(long, replies[i].call, e)

\* Replies taken, the reply held, replies under way, the request being answered, and
\* requests under way: in this order they are to ever later calls.
InLine(long, answers, got, replies, answering, requests) ==
    /\ \A j \in DOMAIN answers :
          /\ answers[j] <= j
          /\ answers[j] # 0 =>
                \A i \in DOMAIN answers : i < j => Earlier(long, answers[i], answers[j])
    /\ got # 0 => TakenBefore(long, answers, got)
    /\ \A i \in DOMAIN replies :
          /\ TakenBefore(long, answers, replies[i].call)
          /\ got # 0 => Earlier(long, got, replies[i].call) \/ got = replies[i].call
    /\ \A i, j \in DOMAIN replies :
          i < j => \/ Earlier(long, replies[i].call, replies[j].call)
                   \/ replies[i].call = replies[j].call /\ replies[i].part = "head"
    /\ answering # 0 => AllBefore(long, answers, got, replies, answering)
    /\ \A i \in DOMAIN requests :
          /\ AllBefore(long, answers, got, replies, requests[i].call)
          /\ answering # 0 => Earlier(long, answering, requests[i].call)

Long == {i \in DOMAIN calls : calls[i].size = "long"}
Answers == [i \in DOMAIN calls |-> calls[i].answer]

\* The request the daemon answers.
Answering == IF Busy THEN d.call ELSE 0

Pipeline == InLine(Long, Answers, cl.got, toClient, Answering, toServer)

IInv == Typed /\ Shape /\ Queued /\ Answered /\ Removes /\ InStep /\ Exits


\* The domains and ranges of the sequences of the state.
LEMMA Bounds ==
    ASSUME Typed
    PROVE  /\ Len(calls) \in Nat /\ DOMAIN calls = 1..Len(calls)
           /\ \A i \in DOMAIN calls :
                 /\ calls[i] \in CallRec
                 /\ calls[i].answer \in Nat
                 /\ calls[i].size \in Sizes
                 /\ calls[i].outcome \in Outcomes
           /\ calls # <<>> <=> Len(calls) # 0
           /\ Len(toServer) \in Nat /\ DOMAIN toServer = 1..Len(toServer)
           /\ Len(toClient) \in Nat /\ DOMAIN toClient = 1..Len(toClient)
           /\ Len(d.batch) \in Nat /\ DOMAIN d.batch = 1..Len(d.batch)
           /\ \A i \in DOMAIN toServer : toServer[i].call \in Nat
           /\ \A i \in DOMAIN toClient : toClient[i].call \in Nat
           /\ \A i \in DOMAIN d.batch : d.batch[i].call \in Nat
           /\ d.call \in Nat /\ cl.got \in Nat
           /\ toServer # <<>> <=> Len(toServer) # 0
           /\ toClient # <<>> <=> Len(toClient) # 0
           /\ d.batch # <<>> <=> Len(d.batch) # 0
<1>1. calls \in Seq(CallRec) /\ toServer \in Seq(Part) /\ toClient \in Seq(Part)
      /\ d.batch \in Seq(Part) /\ d.call \in 0..MaxCalls /\ cl.got \in 0..MaxCalls
  BY DEF Typed, DaemonType, ClientType
<1>2. /\ Len(calls) \in Nat /\ DOMAIN calls = 1..Len(calls)
      /\ \A i \in DOMAIN calls : calls[i] \in CallRec
      /\ calls # <<>> <=> Len(calls) # 0
  BY <1>1, CallsAre
<1>3. \A i \in DOMAIN calls : /\ calls[i].answer \in Nat /\ calls[i].size \in Sizes
                             /\ calls[i].outcome \in Outcomes
  BY <1>2, IpcAssumption DEF CallRec
<1>4. /\ Len(toServer) \in Nat /\ DOMAIN toServer = 1..Len(toServer)
      /\ \A i \in DOMAIN toServer : toServer[i].call \in Nat
      /\ toServer # <<>> <=> Len(toServer) # 0
  BY <1>1, StreamIs, IpcAssumption
<1>5. /\ Len(toClient) \in Nat /\ DOMAIN toClient = 1..Len(toClient)
      /\ \A i \in DOMAIN toClient : toClient[i].call \in Nat
      /\ toClient # <<>> <=> Len(toClient) # 0
  BY <1>1, StreamIs, IpcAssumption
<1>6. /\ Len(d.batch) \in Nat /\ DOMAIN d.batch = 1..Len(d.batch)
      /\ \A i \in DOMAIN d.batch : d.batch[i].call \in Nat
      /\ d.batch # <<>> <=> Len(d.batch) # 0
  BY <1>1, StreamIs, IpcAssumption
<1>7. d.call \in Nat /\ cl.got \in Nat
  BY <1>1, IpcAssumption
<1> QED BY <1>2, <1>3, <1>4, <1>5, <1>6, <1>7

\* Initially nothing is under way.
LEMMA InitIInv == Init => IInv /\ Pipeline
<1> SUFFICES ASSUME Init PROVE IInv /\ Pipeline
  OBVIOUS
<1>1. Typed /\ Shape
  BY InitTyped
<1>2. DOMAIN calls = {} /\ DOMAIN toServer = {} /\ DOMAIN toClient = {} /\ Len(calls) = 0
  BY <1>1, Bounds DEF Init
<1>3. cl.at = "idle" /\ cl.must = None /\ cl.got = 0 /\ d.at = "accept" /\ d.call = 0
      /\ toServer = <<>> /\ toClient = <<>> /\ clientEnd = "none" /\ running /\ ~serverRst
      /\ index = Keys
  BY DEF Init
<1>4. Queued
  BY <1>2, <1>3 DEF Queued, Sorted
<1>5. Answered
  BY <1>2, <1>3 DEF Answered
<1>6. Removes
  BY <1>2, <1>3 DEF Removes
<1>7. InStep
  BY <1>2, <1>3 DEF InStep, Busy, InCall
<1>8. Exits
  BY <1>3 DEF Exits
<1>9. Pipeline
  <2>1. DOMAIN Answers = {} /\ Answering = 0
    BY <1>2, <1>3 DEF Answers, Answering, Busy
  <2> QED BY <1>2, <1>3, <2>1 DEF Pipeline, InLine
<1> QED BY <1>1, <1>4, <1>5, <1>6, <1>7, <1>8, <1>9 DEF IInv

\* The records of the calls when the last one has returned with the reply c.
Returned(c) ==
    /\ Len(calls') = Len(calls) /\ DOMAIN calls' = DOMAIN calls
    /\ Len(calls) \in DOMAIN calls
    /\ \A i \in DOMAIN calls :
          /\ calls'[i].op = calls[i].op
          /\ calls'[i].key = calls[i].key
          /\ calls'[i].size = calls[i].size
          /\ calls'[i].verdict = calls[i].verdict
          /\ calls'[i].answer = IF i = Len(calls) THEN c ELSE calls[i].answer
          /\ calls'[i].outcome = IF i # Len(calls) THEN calls[i].outcome
                                 ELSE IF c = 0 THEN "nothing" ELSE "replied"
    /\ cl'.at = "idle"
    /\ cl'.got = 0
    /\ cl'.must # None => /\ calls[Len(calls)].op = "get"
                          /\ calls[Len(calls)].key = cl'.must
                          /\ c # 0
                          /\ calls[c].verdict = "error"

\* The end of a call, in the terms of the invariant.
LEMMA Returning ==
    ASSUME Typed, Shape, InCall, NEW c \in 0..MaxCalls, ReturnReply(c)
    PROVE  Returned(c)
<1> DEFINE n == Len(calls)
<1>1. n \in DOMAIN calls /\ calls \in Seq(CallRec) /\ calls[n] \in CallRec
  BY CallsAre DEF Typed, Shape
<1> DEFINE r == [calls[n] EXCEPT !.outcome = IF c = 0 THEN "nothing" ELSE "replied", !.answer = c]
<1>2. r \in CallRec
  BY <1>1 DEF CallRec, Outcomes
<1>3. calls' = [calls EXCEPT ![n] = r]
  BY DEF ReturnReply, Return
<1>4. /\ Len(calls') = n /\ DOMAIN calls' = DOMAIN calls
      /\ \A i \in DOMAIN calls : calls'[i] = IF i = n THEN r ELSE calls[i]
  BY <1>1, <1>2, <1>3, OneCall
<1>5. /\ r.op = calls[n].op /\ r.key = calls[n].key /\ r.size = calls[n].size
      /\ r.verdict = calls[n].verdict /\ r.answer = c
      /\ r.outcome = IF c = 0 THEN "nothing" ELSE "replied"
  BY <1>1 DEF CallRec
<1>6. /\ cl'.at = "idle" /\ cl'.got = 0
      /\ cl'.must # None => /\ calls[n].op = "get" /\ calls[n].key = cl'.must
                            /\ c # 0 /\ calls[c].verdict = "error"
  BY DEF ReturnReply, Return
<1> QED BY <1>1, <1>4, <1>5, <1>6 DEF Returned

\* A call that has skewed the streams has done so for good.
LEMMA StaysSkewed ==
    ASSUME Typed, NEW m \in Nat,
           DOMAIN calls \subseteq DOMAIN calls',
           m <= Len(calls),
           \A i \in DOMAIN calls :
              /\ calls'[i].size = calls[i].size
              /\ calls[i].outcome = "nothing" => calls'[i].outcome = "nothing"
    PROVE  Calm(m)' => Calm(m)
  BY Bounds DEF Calm, Skews

\* The end of a call with the reply c, or with nothing: what the streams owe it.
ReturnStep(c) ==
    /\ UNCHANGED <<clientEnd, clientRst, daemonVars, toServer, sessions>>
    /\ c # 0 => c \in DOMAIN calls /\ calls[c].verdict # "none"
    /\ \A i \in DOMAIN toClient' :
          \E j \in DOMAIN toClient : toClient'[i].call = toClient[j].call
    /\ c # 0 /\ Calm(Len(calls)) => toServer = <<>> /\ ~Busy /\ toClient' = <<>>
    /\ Calm(Len(calls) - 1) => c \in {0, Len(calls)}

\* The records of the calls but for the last one's outcome.
LEMMA ReturnedFacts ==
    ASSUME IInv, InCall, NEW c \in 0..MaxCalls, Returned(c)
    PROVE  /\ Len(calls) \in Nat \ {0} /\ DOMAIN calls = 1..Len(calls) /\ c \in Nat
           /\ DOMAIN calls' = 1..Len(calls) /\ Len(calls') = Len(calls)
           /\ calls[Len(calls)].outcome = "pending"
           /\ calls[Len(calls)].answer = 0
           /\ ~InCall'
           /\ \A i \in 1..(Len(calls) - 1) : Skews(i)' <=> Skews(i)
           /\ Skews(Len(calls)) => Skews(Len(calls))'
           /\ c = 0 => Skews(Len(calls))'
<1>1. Len(calls) \in Nat \ {0} /\ DOMAIN calls = 1..Len(calls) /\ c \in Nat
  BY Bounds, IpcAssumption DEF IInv, Returned
<1>2. calls[Len(calls)].outcome = "pending" /\ calls[Len(calls)].answer = 0
  BY DEF IInv, Answered, Returned
<1>3. ~InCall'
  BY DEF Returned, InCall
<1>4. \A i \in 1..(Len(calls) - 1) : Skews(i)' <=> Skews(i)
  BY <1>1 DEF Returned, Skews
<1>5. (Skews(Len(calls)) => Skews(Len(calls))') /\ (c = 0 => Skews(Len(calls))')
  BY <1>2 DEF Returned, Skews
<1> QED BY <1>1, <1>2, <1>3, <1>4, <1>5 DEF Returned

LEMMA ReturnIInv ==
    ASSUME IInv, Typed', Shape', InCall, NEW c \in 0..MaxCalls, Returned(c), ReturnStep(c)
    PROVE  IInv'
<1>1. /\ Len(calls) \in Nat \ {0} /\ DOMAIN calls = 1..Len(calls) /\ c \in Nat
      /\ DOMAIN calls' = 1..Len(calls) /\ Len(calls') = Len(calls)
      /\ calls[Len(calls)].outcome = "pending"
      /\ calls[Len(calls)].answer = 0
      /\ ~InCall'
  BY ReturnedFacts
<1>2. UNCHANGED <<clientEnd, clientRst, d, serverRst, handler, running, left, index, toServer>>
  BY DEF ReturnStep, daemonVars
<1>3. \A i \in DOMAIN calls :
         /\ calls'[i].op = calls[i].op /\ calls'[i].key = calls[i].key
         /\ calls'[i].size = calls[i].size /\ calls'[i].verdict = calls[i].verdict
  BY DEF Returned
<1>4. Queued'
  <2>1. \A p : Due(p) => Due(p)'
    BY <1>1, <1>3 DEF Due
  <2>2. d.at = "send" /\ d.call # 0 => calls'[d.call].verdict # "none"
    <3>1. d.call \in 0..Len(calls)
      BY DEF IInv, Shape
    <3>2. d.call # 0 => d.call \in DOMAIN calls
      BY <1>1, <3>1
    <3> QED BY <1>3, <3>2 DEF IInv, Queued
  <2>3. Queued
    BY DEF IInv
  <2> QED BY <1>2, <2>1, <2>2, <2>3 DEF Queued, Sorted
<1>5. Answered'
  <2>1. ASSUME NEW i \in DOMAIN toClient'
        PROVE  toClient'[i].call \in DOMAIN calls' /\ calls'[toClient'[i].call].verdict # "none"
    <3>1. PICK j \in DOMAIN toClient : toClient'[i].call = toClient[j].call
      BY <2>1 DEF ReturnStep
    <3> QED BY <1>1, <1>3, <3>1 DEF IInv, Answered
  <2>2. ASSUME NEW j \in DOMAIN calls'
        PROVE  /\ calls'[j].outcome = "pending" <=> j = Len(calls') /\ InCall'
               /\ calls'[j].outcome = "replied" <=> calls'[j].answer # 0
               /\ calls'[j].answer # 0 =>
                     calls'[j].answer \in DOMAIN calls' /\ calls'[calls'[j].answer].verdict # "none"
    <3>1. CASE j = Len(calls)
      BY <1>1, <1>3, <3>1 DEF Returned, ReturnStep
    <3>2. CASE j # Len(calls)
      <4>1. calls'[j].answer = calls[j].answer /\ calls'[j].outcome = calls[j].outcome
        BY <1>1, <3>2 DEF Returned
      <4> QED BY <1>1, <1>3, <3>2, <4>1 DEF IInv, Answered
    <3> QED BY <3>1, <3>2
  <2>3. ASSUME NEW j \in DOMAIN calls', calls'[j].verdict = "bare"
        PROVE  \E i \in 1..j : calls'[i].size = "long"
    <3>1. PICK i \in 1..j : calls[i].size = "long"
      BY <1>1, <1>3, <2>3 DEF IInv, Answered
    <3>2. i \in DOMAIN calls
      BY <1>1
    <3> QED BY <1>3, <3>1, <3>2
  <2>4. cl'.got = 0
    BY DEF Returned
  <2> QED BY <2>1, <2>2, <2>3, <2>4 DEF Answered
<1>6. Removes'
  <2>1. ASSUME NEW j \in DOMAIN calls, NEW k, Refused(j, k) PROVE Refused(j, k)'
    <3>1. j # Len(calls) /\ calls[j].answer \in DOMAIN calls
      BY <1>1, <2>1 DEF Refused, IInv, Answered
    <3> QED BY <1>1, <1>3, <2>1, <3>1 DEF Refused, Returned
  <2>2. cl'.must # None => Refused(Len(calls), cl.must)'
    BY <1>1, <1>3 DEF Refused, Returned, ReturnStep
  <2>3. ASSUME NEW j \in DOMAIN calls', calls'[j].op = "remove"
        PROVE  j - 1 \in DOMAIN calls' /\ Refused(j - 1, calls[j].key)'
    <3>1. j \in DOMAIN calls /\ calls[j].op = "remove" /\ calls'[j].key = calls[j].key
      BY <1>1, <1>3, <2>3
    <3>2. j - 1 \in DOMAIN calls /\ Refused(j - 1, calls[j].key)
      BY <3>1 DEF IInv, Removes
    <3>3. Refused(j - 1, calls[j].key)
            => (/\ calls'[j - 1].op = "get" /\ calls'[j - 1].key = calls'[j].key
                /\ calls'[j - 1].answer # 0 /\ calls'[calls'[j - 1].answer].verdict = "error")
      <4>1. SUFFICES ASSUME Refused(j - 1, calls[j].key)
                     PROVE  /\ calls'[j - 1].op = "get" /\ calls'[j - 1].key = calls'[j].key
                            /\ calls'[j - 1].answer # 0
                            /\ calls'[calls'[j - 1].answer].verdict = "error"
        OBVIOUS
      <4>2. j - 1 # Len(calls) /\ calls[j - 1].answer \in DOMAIN calls
        BY <1>1, <3>2, <4>1 DEF Refused, IInv, Answered
      <4> QED BY <1>1, <1>3, <3>1, <3>2, <4>1, <4>2 DEF Refused, Returned
    <3> QED BY <1>1, <3>2, <3>3 DEF Refused
  <2>4. ASSUME NEW k \in Keys \ index'
        PROVE  \E j \in DOMAIN calls' : calls'[j].op = "remove" /\ calls'[j].key = k
    <3>1. PICK j \in DOMAIN calls : calls[j].op = "remove" /\ calls[j].key = k
      BY <1>2, <2>4 DEF IInv, Removes
    <3> QED BY <1>1, <1>3, <3>1
  <2>5. cl'.at = "idle" /\ calls' # <<>> /\ Len(calls') = Len(calls)
    BY <1>1 DEF Returned
  <2> QED BY <2>2, <2>3, <2>4, <2>5 DEF Removes, Refused
<1>7. ASSUME NEW m \in 0..(Len(calls) - 1) PROVE Calm(m)' <=> Calm(m)
  BY <1>1, ReturnedFacts DEF Calm
<1>8. Calm(Len(calls))' => Calm(Len(calls)) /\ c # 0
  <2>1. \A i \in 1..Len(calls) : Skews(i) => Skews(i)'
    <3>1. /\ \A i \in 1..(Len(calls) - 1) : Skews(i)' <=> Skews(i)
          /\ Skews(Len(calls)) => Skews(Len(calls))'
      BY ReturnedFacts
    <3> QED BY <1>1, <3>1
  <2>2. c = 0 => Skews(Len(calls))'
    BY ReturnedFacts
  <2>3. Calm(Len(calls))' => \A i \in 1..Len(calls) : ~Skews(i)'
    BY <1>1 DEF Calm
  <2> QED BY <1>1, <2>1, <2>2, <2>3 DEF Calm
<1>9. InStep'
  <2>1. Calm(Len(calls) - 1)' => Calm(Len(calls) - 1)
    BY <1>1, <1>7
  <2>2. (Calm(Len(calls) - 1) =>
           /\ \A i \in DOMAIN toServer : toServer[i].call = Len(calls)
           /\ \A i \in DOMAIN toClient : toClient[i].call = Len(calls)
           /\ d.call \in {0, Len(calls)}
           /\ cl.got \in {0, Len(calls)})'
    BY <1>1, <1>2, <2>1, ZenonT(30) DEF IInv, InStep, ReturnStep, Returned
  <2>3. (Calm(Len(calls)) /\ ~InCall =>
           toServer = <<>> /\ toClient = <<>> /\ ~Busy /\ clientEnd # "reset")'
    <3>1. clientEnd = "open"
      BY DEF IInv, Shape
    <3> QED BY <1>1, <1>2, <1>8, <3>1 DEF Busy, ReturnStep
  <2>4. ASSUME NEW j \in DOMAIN calls', calls'[j].answer \notin {0, j}
        PROVE  ~Calm(j - 1)'
    <3>1. j - 1 \in 0..(Len(calls) - 1)
      BY <1>1
    <3>2. ~Calm(j - 1)
      <4>1. CASE j = Len(calls)
        BY <1>1, <2>4, <4>1 DEF Returned, ReturnStep
      <4>2. CASE j # Len(calls)
        BY <1>1, <2>4, <4>2 DEF Returned, IInv, InStep
      <4> QED BY <4>1, <4>2
    <3> QED BY <1>7, <3>1, <3>2
  <2> QED BY <1>1, <2>2, <2>3, <2>4 DEF InStep
<1>10. Exits'
  BY <1>1, <1>2, <1>8 DEF IInv, Exits
<1> QED BY <1>4, <1>5, <1>6, <1>9, <1>10 DEF IInv

\* A reply is returned to the caller.
LEMMA ReceiveIInv ==
    ASSUME IInv, Typed', Shape', Receive
    PROVE  IInv'
<1> DEFINE n == Len(calls)
<1>0. Typed /\ Shape /\ InCall /\ cl.at = "waiting"
  BY DEF IInv, Receive, InCall
<1>1. PICK k \in DOMAIN toClient :
        /\ Takes(toClient, k)
        /\ toClient' = Rest(toClient, k)
        /\ IF toClient[k].part = "head"
           THEN /\ cl' = [cl EXCEPT !.at = "filling", !.got = toClient[k].call]
                /\ UNCHANGED calls
           ELSE ReturnReply(toClient[k].call)
  BY DEF Receive
<1> DEFINE c == toClient[k].call
<1>2. /\ Len(toClient') = Len(toClient) - k
      /\ \A i \in DOMAIN toClient' : k + i \in DOMAIN toClient /\ toClient'[i] = toClient[k + i]
      /\ c \in 0..MaxCalls
  BY <1>0, <1>1, RestOf, StreamIs DEF Typed
<1>3. UNCHANGED <<clientEnd, clientRst, daemonVars, toServer, sessions>>
  BY DEF Receive
<1>4. c \in DOMAIN calls /\ calls[c].verdict # "none"
  BY <1>1 DEF IInv, Answered
<1>5. CASE toClient[k].part = "head"
  <2>1. /\ cl'.at = "filling" /\ cl'.got = c /\ cl'.must = cl.must /\ UNCHANGED calls
        /\ InCall'
    BY <1>0, <1>1, <1>5 DEF Typed, ClientType, InCall
  <2>2. Queued'
    BY <1>3, <2>1 DEF IInv, Queued, Sorted, Due, daemonVars
  <2>3. Answered'
    BY <1>0, <1>2, <1>3, <1>4, <2>1 DEF IInv, Answered
  <2>4. Removes'
    BY <1>0, <1>3, <2>1 DEF IInv, Removes, Refused, daemonVars
  <2>5. Calm(Len(calls)) /\ toClient # <<>> => toServer = <<>> /\ ~Busy
    BY <1>0 DEF IInv, InStep, InCall
  <2>6. InStep'
    <3>1. (Calm(Len(calls) - 1) =>
             /\ \A i \in DOMAIN toServer : toServer[i].call = Len(calls)
             /\ \A i \in DOMAIN toClient : toClient[i].call = Len(calls)
             /\ d.call \in {0, Len(calls)}
             /\ cl.got \in {0, Len(calls)})'
      BY <1>1, <1>2, <1>3, <2>1 DEF IInv, InStep, Calm, Skews, daemonVars
    <3>2. toClient # <<>>
      BY <1>0, <1>1, Bounds
    <3>3. (Calm(Len(calls)) /\ InCall =>
             /\ toServer # <<>> =>
                   Len(toServer) = 1 /\ toClient = <<>> /\ ~Busy /\ cl.at = "waiting"
             /\ Busy => toServer = <<>> /\ toClient = <<>> /\ cl.at = "waiting"
             /\ toClient # <<>> /\ cl.at = "waiting" => ReplyShape(toClient))'
      BY <1>3, <2>1, <2>5, <3>2 DEF Calm, Skews, Busy, daemonVars
    <3> QED BY <2>1, <3>1, <3>3 DEF IInv, InStep, Calm, Skews
  <2>7. Exits'
    BY <1>3, <2>1 DEF IInv, Exits, Calm, Skews, daemonVars
  <2> QED BY <2>2, <2>3, <2>4, <2>6, <2>7 DEF IInv
<1>6. CASE toClient[k].part # "head"
  <2>1. ReturnReply(c)
    BY <1>1, <1>6
  <2>2. c \in Nat /\ c # 0 /\ k \in 1..Len(toClient) /\ Len(toClient) \in Nat
    BY <1>0, <1>1, <1>4, Bounds
  <2>3. Calm(n) => toServer = <<>> /\ ~Busy /\ toClient' = <<>>
    <3>1. SUFFICES ASSUME Calm(n) PROVE toServer = <<>> /\ ~Busy /\ toClient' = <<>>
      OBVIOUS
    <3>2. toClient # <<>>
      BY <1>0, <1>1, Bounds
    <3>3. toServer = <<>> /\ ~Busy /\ ReplyShape(toClient)
      BY <1>0, <3>1, <3>2 DEF IInv, InStep
    <3>4. k = Len(toClient)
      BY <1>1, <1>6, <2>2, <3>3 DEF ReplyShape, Takes
    <3>5. Len(toClient') = 0
      BY <1>2, <2>2, <3>4
    <3> QED BY <3>3, <3>5, Bounds, EmptySeq DEF Typed
  <2>4. Calm(Len(calls) - 1) => c \in {0, Len(calls)}
    BY <1>1 DEF IInv, InStep
  <2>5. \A i \in DOMAIN toClient' :
           \E j \in DOMAIN toClient : toClient'[i].call = toClient[j].call
    BY <1>2
  <2>6. Returned(c)
    BY <1>0, <1>2, <2>1, Returning
  <2>7. ReturnStep(c)
    BY <1>3, <1>4, <2>3, <2>4, <2>5 DEF ReturnStep
  <2> QED BY <1>0, <1>2, <2>6, <2>7, ReturnIInv
<1> QED BY <1>5, <1>6

\* A client that fills its buffer keeps the last reply of the stream.
LEMMA FillIInv ==
    ASSUME IInv, Typed', Shape', Fill
    PROVE  IInv'
<1>0. Typed /\ Shape /\ InCall /\ cl.at = "filling" /\ toClient # <<>>
  BY DEF IInv, Fill, InCall
<1>1. Len(toClient) \in DOMAIN toClient
  BY <1>0, Bounds
<1> DEFINE c == toClient[Len(toClient)].call
<1>2. /\ UNCHANGED <<calls, clientEnd, clientRst, daemonVars, toServer, sessions>>
      /\ toClient' = <<>> /\ cl'.got = c /\ cl'.at = "filling" /\ cl'.must = cl.must
  BY <1>0 DEF Fill, Typed, ClientType
<1>3. DOMAIN toClient' = {} /\ InCall'
  BY <1>2, EmptySeq DEF InCall
<1>4. Queued'
  BY <1>2 DEF IInv, Queued, Sorted, Due, daemonVars
<1>5. Answered'
  BY <1>0, <1>1, <1>2, <1>3 DEF IInv, Answered
<1>6. Removes'
  BY <1>0, <1>2 DEF IInv, Removes, Refused, daemonVars
<1>7. InStep'
  <2>1. Calm(Len(calls)) => toServer = <<>> /\ ~Busy
    BY <1>0 DEF IInv, InStep
  <2>2. (Calm(Len(calls) - 1) =>
           /\ \A i \in DOMAIN toServer : toServer[i].call = Len(calls)
           /\ \A i \in DOMAIN toClient : toClient[i].call = Len(calls)
           /\ d.call \in {0, Len(calls)}
           /\ cl.got \in {0, Len(calls)})'
    BY <1>1, <1>2, <1>3 DEF IInv, InStep, Calm, Skews, daemonVars
  <2>3. (Calm(Len(calls)) /\ InCall =>
           /\ toServer # <<>> =>
                 Len(toServer) = 1 /\ toClient = <<>> /\ ~Busy /\ cl.at = "waiting"
           /\ Busy => toServer = <<>> /\ toClient = <<>> /\ cl.at = "waiting"
           /\ toClient # <<>> /\ cl.at = "waiting" => ReplyShape(toClient))'
    BY <1>2, <2>1 DEF Calm, Skews, Busy, daemonVars
  <2> QED BY <1>2, <1>3, <2>2, <2>3 DEF IInv, InStep, Calm, Skews
<1>8. Exits'
  BY <1>2 DEF IInv, Exits, Calm, Skews, daemonVars
<1> QED BY <1>4, <1>5, <1>6, <1>7, <1>8 DEF IInv

\* A call that gives up returns what the client holds, or nothing.
LEMMA GiveUpReturns ==
    ASSUME IInv, GiveUp
    PROVE  /\ InCall
           /\ \E c \in {0, cl.got} : c \in 0..MaxCalls /\ Returned(c) /\ ReturnStep(c)
<1>0. Typed /\ Shape /\ InCall /\ toClient = <<>> /\ UNCHANGED toClient
  BY DEF IInv, GiveUp, InCall
<1>1. PICK c \in {0, cl.got} : ReturnReply(c)
  BY DEF GiveUp
<1>2. c \in 0..MaxCalls /\ c \in Nat
  BY <1>0, <1>1, IpcAssumption DEF Typed, ClientType
<1>3. Returned(c)
  BY <1>0, <1>1, <1>2, Returning
<1>4. UNCHANGED <<clientEnd, clientRst, daemonVars, toServer, sessions>>
  BY DEF GiveUp
<1>5. c # 0 => c = cl.got /\ cl.at = "filling" /\ c \in DOMAIN calls /\ calls[c].verdict # "none"
  BY <1>1 DEF IInv, Answered
<1>6. DOMAIN toClient' = {}
  BY <1>0, EmptySeq
<1>7. c # 0 /\ Calm(Len(calls)) => toServer = <<>> /\ ~Busy /\ toClient' = <<>>
  BY <1>0, <1>5 DEF IInv, InStep
<1>8. Calm(Len(calls) - 1) => c \in {0, Len(calls)}
  BY <1>1 DEF IInv, InStep
<1>9. ReturnStep(c)
  BY <1>4, <1>5, <1>6, <1>7, <1>8 DEF ReturnStep
<1> QED BY <1>0, <1>2, <1>3, <1>9

\* A step that leaves the calls, and what the streams owe them, alone.
LEMMA CallsAlone ==
    ASSUME UNCHANGED calls
    PROVE  /\ \A n : Calm(n)' <=> Calm(n)
           /\ \A p : Due(p)' <=> Due(p)
           /\ \A j, k : Refused(j, k)' <=> Refused(j, k)
  BY DEF Calm, Skews, Due, Refused

\* The client leaves.
LEMMA LeavingIInv ==
    ASSUME IInv, Typed', Shape', Disconnect \/ ClientCrash
    PROVE  IInv'
<1>0. Typed /\ Shape /\ clientEnd = "open" /\ Len(calls) \in Nat /\ DOMAIN calls = 1..Len(calls)
  BY Bounds DEF IInv, Disconnect, ClientCrash
<1>1. CASE Disconnect
  <2>1. /\ UNCHANGED <<calls, clientRst, daemonVars, toServer, toClient, sessions>>
        /\ cl'.at = "idle" /\ cl'.must = None /\ cl'.got = 0 /\ clientEnd' = "closed"
        /\ ~InCall /\ ~InCall'
    BY <1>1 DEF Disconnect, InCall
  <2>2. Queued'
    BY <1>0, <2>1, CallsAlone DEF IInv, Queued, Sorted, daemonVars, Shape, Busy
  <2>3. Answered'
    BY <2>1 DEF IInv, Answered
  <2>4. Removes'
    BY <2>1, CallsAlone DEF IInv, Removes, daemonVars
  <2>5. InStep'
    BY <2>1, CallsAlone DEF IInv, InStep, Busy, daemonVars
  <2>6. Exits'
    BY <1>0, <2>1, CallsAlone DEF IInv, Exits, daemonVars, Gone
  <2> QED BY <2>2, <2>3, <2>4, <2>5, <2>6 DEF IInv
<1>2. CASE ClientCrash
  <2>1. /\ UNCHANGED <<clientRst, d, handler, running, left, index, toServer, toClient, sessions>>
        /\ cl'.at = "idle" /\ cl'.must = None /\ cl'.got = 0
        /\ clientEnd' = IF toClient = <<>> THEN "crashed" ELSE "reset"
        /\ serverRst' = (serverRst \/ toClient # <<>>)
        /\ ~InCall' /\ clientEnd' \in Gone
    BY <1>2 DEF ClientCrash, InCall, Gone
  <2>2. calls' = [i \in DOMAIN calls |->
                    IF calls[i].outcome = "pending"
                    THEN [calls[i] EXCEPT !.outcome = "nothing"] ELSE calls[i]]
    BY <1>2 DEF ClientCrash
  <2>3. DOMAIN calls' = DOMAIN calls /\ Len(calls') = Len(calls)
    <3>1. DOMAIN calls' = 1..Len(calls)
      BY <1>0, <2>2
    <3>2. calls' \in Seq(CallRec)
      BY DEF Typed
    <3> QED BY <1>0, <3>1, <3>2, LenProperties
  <2>4. \A i \in DOMAIN calls :
           /\ calls'[i].op = calls[i].op /\ calls'[i].key = calls[i].key
           /\ calls'[i].size = calls[i].size /\ calls'[i].verdict = calls[i].verdict
           /\ calls'[i].answer = calls[i].answer
           /\ calls'[i].outcome = IF calls[i].outcome = "pending" THEN "nothing"
                                  ELSE calls[i].outcome
    <3>1. \A i \in DOMAIN calls : calls[i] \in CallRec
      BY <1>0, Bounds
    <3> QED BY <2>2, <3>1 DEF CallRec
  <2>5. \A i \in DOMAIN calls : Skews(i) => Skews(i)'
    BY <2>4 DEF Skews
  <2>6. \A i \in DOMAIN calls : calls[i].outcome = "pending" => Skews(i)'
    BY <2>4 DEF Skews
  <2>7. \A i \in 1..(Len(calls) - 1) : Skews(i)' => Skews(i)
    <3>1. \A i \in 1..(Len(calls) - 1) : i \in DOMAIN calls /\ calls[i].outcome # "pending"
      BY <1>0 DEF IInv, Answered
    <3> QED BY <2>4, <3>1 DEF Skews
  <2>8. \A m \in 0..Len(calls) : Calm(m)' => Calm(m)
    BY <1>0, <2>5 DEF Calm
  <2>9. \A m \in 0..(Len(calls) - 1) : Calm(m) => Calm(m)'
    BY <1>0, <2>7 DEF Calm
  <2>10. Calm(Len(calls))' => ~InCall /\ Calm(Len(calls))
    <3>1. InCall => Len(calls) \in DOMAIN calls /\ calls[Len(calls)].outcome = "pending"
      BY <1>0, Bounds DEF IInv, Answered, Shape
    <3>2. Calm(Len(calls))' => Calm(Len(calls))
      BY <1>0, <2>3, <2>8
    <3>3. Calm(Len(calls))' => \A i \in 1..Len(calls) : ~Skews(i)'
      BY <2>3 DEF Calm
    <3> QED BY <1>0, <2>6, <3>1, <3>2, <3>3
  <2>11. \A p : Due(p)' <=> Due(p)
    BY <2>3, <2>4 DEF Due
  <2>12. Queued'
    <3>1. d.at = "send" /\ d.call # 0 => d.call \in DOMAIN calls
      BY <1>0 DEF Shape
    <3>2. d.at = "process" => d.batch # <<>>
      BY <1>0 DEF IInv, Queued
    <3>3. d.at = "send" => d.call # 0
      BY <1>0 DEF IInv, Queued
    <3> QED BY <2>1, <2>4, <2>11, <3>1, <3>2, <3>3 DEF IInv, Queued, Sorted
  <2>13. Answered'
    <3>1. \A j \in DOMAIN calls : calls'[j].outcome # "pending"
      BY <2>4
    <3>2. \A j \in DOMAIN calls : calls'[j].outcome = "replied" <=> calls'[j].answer # 0
      BY <2>4 DEF IInv, Answered
    <3>3. \A j \in DOMAIN calls :
             calls'[j].answer # 0 =>
                calls'[j].answer \in DOMAIN calls' /\ calls'[calls'[j].answer].verdict # "none"
      BY <2>3, <2>4 DEF IInv, Answered
    <3>4. ASSUME NEW j \in DOMAIN calls, calls'[j].verdict = "bare"
          PROVE  \E i \in 1..j : calls'[i].size = "long"
      <4>1. PICK i \in 1..j : calls[i].size = "long"
        BY <2>4, <3>4 DEF IInv, Answered
      <4> QED BY <1>0, <2>4, <4>1
    <3>5. \A i \in DOMAIN toClient' :
             toClient'[i].call \in DOMAIN calls' /\ calls'[toClient'[i].call].verdict # "none"
      BY <2>1, <2>3, <2>4 DEF IInv, Answered
    <3> QED BY <2>1, <2>3, <3>1, <3>2, <3>3, <3>4, <3>5 DEF Answered
  <2>14. Removes'
    <3>1. \A j \in DOMAIN calls, k \in Keys \cup {None} : Refused(j, k) => Refused(j, k)'
      BY <2>3, <2>4 DEF IInv, Refused, Answered
    <3>2. ASSUME NEW j \in DOMAIN calls', calls'[j].op = "remove"
          PROVE  j - 1 \in DOMAIN calls' /\ Refused(j - 1, calls[j].key)'
      <4>1. j - 1 \in DOMAIN calls /\ Refused(j - 1, calls[j].key)
        BY <2>3, <2>4, <3>2 DEF IInv, Removes
      <4>2. calls[j - 1].op = "get" /\ calls[j - 1].key = calls[j].key
            /\ calls[j - 1].answer \in DOMAIN calls
            /\ calls[calls[j - 1].answer].verdict = "error" /\ calls[j - 1].answer # 0
        BY <4>1 DEF Refused, IInv, Answered
      <4> QED BY <2>3, <2>4, <3>2, <4>1, <4>2 DEF Refused
    <3>3. ASSUME NEW k \in Keys \ index
          PROVE  \E j \in DOMAIN calls' : calls'[j].op = "remove" /\ calls'[j].key = k
      <4>1. PICK j \in DOMAIN calls : calls[j].op = "remove" /\ calls[j].key = k
        BY <3>3 DEF IInv, Removes
      <4> QED BY <2>3, <2>4, <4>1
    <3> QED BY <2>1, <3>2, <3>3 DEF Removes, Refused
  <2>15. InStep'
    <3>1. (Calm(Len(calls) - 1) =>
             /\ \A i \in DOMAIN toServer : toServer[i].call = Len(calls)
             /\ \A i \in DOMAIN toClient : toClient[i].call = Len(calls)
             /\ d.call \in {0, Len(calls)}
             /\ cl.got \in {0, Len(calls)})'
      <4>1. CASE Len(calls) = 0
        <5>1. Calm(Len(calls) - 1)
          BY <4>1 DEF Calm
        <5> QED BY <2>1, <2>3, <5>1 DEF IInv, InStep
      <4>2. CASE Len(calls) # 0
        <5>1. Calm(Len(calls) - 1)' => Calm(Len(calls) - 1)
          BY <1>0, <2>3, <2>8, <4>2
        <5> QED BY <2>1, <2>3, <5>1 DEF IInv, InStep
      <4> QED BY <4>1, <4>2
    <3>2. (Calm(Len(calls)) /\ ~InCall =>
             toServer = <<>> /\ toClient = <<>> /\ ~Busy /\ clientEnd # "reset")'
      BY <2>1, <2>3, <2>10 DEF IInv, InStep, Busy
    <3>3. ASSUME NEW j \in DOMAIN calls', calls'[j].answer \notin {0, j} PROVE ~Calm(j - 1)'
      <4>1. ~Calm(j - 1) /\ j - 1 \in 0..Len(calls)
        BY <1>0, <2>3, <2>4, <3>3 DEF IInv, InStep
      <4> QED BY <2>8, <4>1
    <3> QED BY <2>1, <3>1, <3>2, <3>3 DEF InStep
  <2>16. Exits'
    <3>1. toClient # <<>> => ~Calm(Len(calls))'
      BY <2>10 DEF IInv, InStep
    <3>2. serverRst' => ~Calm(Len(calls))'
      BY <2>1, <2>10, <3>1 DEF IInv, Exits
    <3>3. d.at = "killed" => "failed" \in left \/ ~Calm(Len(calls))'
      BY <2>10 DEF IInv, Exits
    <3> QED BY <2>1, <3>2, <3>3 DEF IInv, Exits
  <2> QED BY <2>12, <2>13, <2>14, <2>15, <2>16 DEF IInv
<1> QED BY <1>1, <1>2

\* A new connection: both streams are empty.
LEMMA ConnectIInv ==
    ASSUME IInv, Typed', Shape', Connect
    PROVE  IInv'
<1>1. /\ UNCHANGED <<calls, cl, handler, running, left, index>>
      /\ toServer' = <<>> /\ toClient' = <<>> /\ clientEnd' = "open" /\ serverRst' = FALSE
      /\ d.at = "accept" /\ cl.at = "idle" /\ clientEnd # "open"
  BY DEF Connect
<1>2. /\ d'.at = IF running THEN "receive" ELSE "stopped"
      /\ d'.call = d.call /\ d'.batch = d.batch
  BY DEF Connect, IInv, Typed, DaemonType
<1>3. DOMAIN toServer' = {} /\ DOMAIN toClient' = {} /\ ~InCall /\ ~InCall' /\ ~Busy /\ ~Busy'
  BY <1>1, <1>2, EmptySeq DEF InCall, Busy
<1>4. Queued'
  BY <1>1, <1>2, <1>3 DEF Queued, Sorted
<1>5. Answered'
  BY <1>1, <1>3 DEF IInv, Answered
<1>6. Removes'
  BY <1>1, CallsAlone DEF IInv, Removes
<1>7. InStep'
  BY <1>1, <1>2, <1>3, CallsAlone DEF IInv, InStep
<1>8. Exits'
  BY <1>1, <1>2 DEF IInv, Exits
<1> QED BY <1>4, <1>5, <1>6, <1>7, <1>8 DEF IInv

\* A request enters the stream behind all others.
LEMMA RequestIInv ==
    ASSUME IInv, Typed', Shape', NEW op \in Methods, NEW k \in Keys, NEW size \in Sizes,
           Send(op, k, size), ~clientRst, NEW n \in Nat, n = Len(calls) + 1
    PROVE  IInv'
<1>0. /\ Typed /\ Shape /\ Len(calls) \in Nat /\ DOMAIN calls = 1..Len(calls)
      /\ cl.at = "idle" /\ clientEnd = "open"
  BY Bounds DEF IInv, Send
<1>1. /\ calls' = Append(calls, Call(op, k, size)) /\ Len(calls) < MaxCalls
      /\ cl' = [at |-> "waiting", must |-> None, got |-> 0]
      /\ toServer' = IF DaemonGone THEN toServer ELSE toServer \o Parts(n, size)
      /\ UNCHANGED <<clientEnd, daemonVars, toClient, sessions>>
      /\ cl.must # None => op = "remove" /\ k = cl.must
      /\ cl.must = None => op # "remove"
  BY DEF Send
<1>2. /\ Len(calls') = n /\ DOMAIN calls' = 1..n /\ calls'[n] = Call(op, k, size)
      /\ \A i \in DOMAIN calls : calls'[i] = calls[i]
  <2>1. calls \in Seq(CallRec) /\ Call(op, k, size) \in CallRec
    BY <1>0, IpcAssumption DEF Typed, Call, CallRec, Verdicts, Outcomes
  <2> QED BY <1>0, <1>1, <2>1, AppendProperties, LenProperties
<1>3. /\ calls'[n].op = op /\ calls'[n].size = size /\ calls'[n].verdict = "none"
      /\ calls'[n].outcome = "pending" /\ calls'[n].answer = 0
      /\ op \in {"get", "remove"} => calls'[n].key = k
  BY <1>2 DEF Call
<1>4. cl'.at = "waiting" /\ cl'.must = None /\ cl'.got = 0 /\ InCall' /\ ~InCall
  BY <1>0, <1>1 DEF InCall
<1>5. \A m \in 0..Len(calls) : Calm(m)' <=> Calm(m)
  BY <1>0, <1>2 DEF Calm, Skews
<1>6. Calm(n)' => size = "short" /\ Calm(Len(calls))
  <2>1. Calm(n)' => ~Skews(n)'
    BY <1>0 DEF Calm
  <2>2. ~Skews(n)' => size # "long"
    BY <1>3 DEF Skews
  <2>3. Len(calls) = n - 1 /\ n - 1 \in 0..Len(calls)
    BY <1>0
  <2>4. Calm(n)' => Calm(n - 1)'
    BY <1>0 DEF Calm
  <2> QED BY <1>5, <2>1, <2>2, <2>3, <2>4 DEF Sizes
<1>7. \A p : p.call \in DOMAIN calls => (Due(p)' <=> Due(p))
  BY <1>0, <1>2 DEF Due
<1>8. /\ Parts(n, size) \in Seq(Part) /\ Len(Parts(n, size)) \in 1..2
      /\ DOMAIN Parts(n, size) = 1..Len(Parts(n, size))
      /\ size = "short" => Len(Parts(n, size)) = 1 /\ Parts(n, size)[1].part = "whole"
      /\ size = "long" => /\ Len(Parts(n, size)) = 2
                          /\ Parts(n, size)[1].part = "head"
                          /\ Parts(n, size)[2].part = "tail"
      /\ \A i \in DOMAIN Parts(n, size) : Parts(n, size)[i].call = n
  <2>1. n \in 0..MaxCalls
    BY <1>0, <1>1, IpcAssumption
  <2> QED BY <2>1, PartsOf
<1>9. \A i \in DOMAIN toServer : toServer[i].call \in DOMAIN calls /\ toServer[i].call < n
  BY <1>0 DEF Shape
\* The stream: what was there, and perhaps the parts of the new request behind it.
<1>10. \A i \in DOMAIN toServer' :
          \/ i \in DOMAIN toServer /\ toServer'[i] = toServer[i]
          \/ /\ i > Len(toServer) /\ i - Len(toServer) \in DOMAIN Parts(n, size)
             /\ toServer'[i] = Parts(n, size)[i - Len(toServer)]
  <2>1. CASE DaemonGone
    BY <1>1, <2>1
  <2>2. CASE ~DaemonGone
    <3>1. toServer' = toServer \o Parts(n, size) /\ toServer \in Seq(Part)
      BY <1>0, <1>1, <2>2 DEF Typed
    <3> QED BY <1>8, <3>1, AddedTo
  <2> QED BY <2>1, <2>2
<1>11. \A i \in DOMAIN Parts(n, size) : Due(Parts(n, size)[i])'
  BY <1>0, <1>2, <1>3, <1>8 DEF Due, Sizes
<1>12. (\A i \in DOMAIN toServer : Due(toServer[i]))'
  <2> SUFFICES ASSUME NEW i \in DOMAIN toServer' PROVE Due(toServer[i])'
    OBVIOUS
  <2>1. CASE i \in DOMAIN toServer /\ toServer'[i] = toServer[i]
    <3>1. Due(toServer[i])
      BY <2>1 DEF IInv, Queued
    <3> QED BY <1>0, <1>2, <2>1, <3>1 DEF Due
  <2>2. CASE /\ i - Len(toServer) \in DOMAIN Parts(n, size)
             /\ toServer'[i] = Parts(n, size)[i - Len(toServer)]
    BY <1>11, <2>2 DEF Due
  <2> QED BY <1>10, <2>1, <2>2
<1>13. Sorted(toServer)'
  <2> SUFFICES ASSUME NEW i \in DOMAIN toServer', NEW j \in DOMAIN toServer', i < j
               PROVE  Precedes(toServer'[i], toServer'[j])
    BY DEF Sorted
  <2>0. i \in Nat /\ j \in Nat /\ Len(toServer) \in Nat /\ DOMAIN toServer = 1..Len(toServer)
    <3>1. toServer' \in Seq(Part)
      BY DEF Typed
    <3> QED BY <1>0, <3>1, Bounds, LenProperties
  <2>1. CASE j \in DOMAIN toServer
    BY <1>10, <2>0, <2>1 DEF IInv, Queued, Sorted
  <2>2. CASE j \notin DOMAIN toServer
    <3>1. /\ j - Len(toServer) \in DOMAIN Parts(n, size)
          /\ toServer'[j] = Parts(n, size)[j - Len(toServer)] /\ toServer'[j].call = n
      BY <1>8, <1>10, <2>2
    <3>2. CASE i \in DOMAIN toServer
      BY <1>9, <1>10, <2>0, <3>1, <3>2 DEF Precedes
    <3>3. CASE i \notin DOMAIN toServer
      <4>1. /\ i - Len(toServer) \in DOMAIN Parts(n, size)
            /\ toServer'[i] = Parts(n, size)[i - Len(toServer)] /\ toServer'[i].call = n
        BY <1>8, <1>10, <3>3
      <4>2. i - Len(toServer) = 1 /\ j - Len(toServer) = 2 /\ size = "long"
        BY <1>8, <2>0, <3>1, <4>1 DEF Sizes
      <4> QED BY <1>8, <3>1, <4>1, <4>2 DEF Precedes
    <3> QED BY <3>2, <3>3
  <2> QED BY <2>1, <2>2
<1>14. Queued'
  <2>1. UNCHANGED <<d, clientEnd>>
    BY <1>1 DEF daemonVars
  <2>2. d.at = "send" /\ d.call # 0 => calls'[d.call].verdict # "none"
    BY <1>0, <1>2 DEF IInv, Queued, Shape
  <2>3. ASSUME d.at = "process"
        PROVE  /\ (\A i \in DOMAIN d.batch : Due(d.batch[i]))'
               /\ \A i \in DOMAIN d.batch, j \in DOMAIN toServer' :
                     Precedes(d.batch[i], toServer'[j])
    <3>1. \A i \in DOMAIN d.batch : Due(d.batch[i]) /\ d.batch[i].call \in DOMAIN calls
      BY <2>3 DEF IInv, Queued, Due
    <3>2. ASSUME NEW i \in DOMAIN d.batch, NEW j \in DOMAIN toServer'
          PROVE  Precedes(d.batch[i], toServer'[j])
      <4>1. CASE j \in DOMAIN toServer /\ toServer'[j] = toServer[j]
        BY <2>3, <4>1 DEF IInv, Queued
      <4>2. CASE toServer'[j].call = n
        BY <1>0, <3>1, <4>2 DEF Precedes
      <4> QED BY <1>8, <1>10, <4>1, <4>2
    <3>3. ASSUME NEW i \in DOMAIN d.batch PROVE Due(d.batch[i])'
      BY <1>0, <1>2, <2>1, <3>1 DEF Due
    <3> QED BY <2>1, <3>2, <3>3
  <2> QED BY <1>12, <1>13, <2>1, <2>2, <2>3 DEF IInv, Queued, Sorted
<1>15. Answered'
  <2>1. ASSUME NEW j \in DOMAIN calls
        PROVE  /\ calls'[j].outcome # "pending"
               /\ calls'[j].outcome = "replied" <=> calls'[j].answer # 0
               /\ calls'[j].answer # 0 =>
                     calls'[j].answer \in DOMAIN calls' /\ calls'[calls'[j].answer].verdict # "none"
               /\ calls'[j].verdict = "bare" => \E i \in 1..j : calls'[i].size = "long"
    <3>1. calls'[j] = calls[j] /\ j \in 1..Len(calls)
      BY <1>0, <1>2
    <3>2. calls[j].outcome # "pending" /\ (calls[j].outcome = "replied" <=> calls[j].answer # 0)
      BY <1>4 DEF IInv, Answered
    <3>3. calls[j].answer # 0 =>
             calls[j].answer \in DOMAIN calls /\ calls[calls[j].answer].verdict # "none"
      BY DEF IInv, Answered
    <3>4. calls[j].verdict = "bare" => \E i \in 1..j : calls[i].size = "long"
      BY DEF IInv, Answered
    <3>5. calls[j].verdict = "bare" => \E i \in 1..j : calls'[i].size = "long"
      <4>1. \A i \in 1..j : calls'[i] = calls[i]
        BY <1>0, <1>2, <3>1
      <4> QED BY <3>4, <4>1
    <3> QED BY <1>0, <1>2, <3>1, <3>2, <3>3, <3>5
  <2>2. \A i \in DOMAIN toClient :
           toClient[i].call \in DOMAIN calls' /\ calls'[toClient[i].call].verdict # "none"
    BY <1>0, <1>2 DEF IInv, Answered
  <2>3. \A j \in DOMAIN calls' : j = n \/ j \in DOMAIN calls
    BY <1>0, <1>2
  <2>4. \A j \in DOMAIN calls : j # n
    BY <1>0
  <2> QED BY <1>1, <1>2, <1>3, <1>4, <2>1, <2>2, <2>3, <2>4 DEF Answered
<1>16. Removes'
  <2>1. ASSUME NEW j \in DOMAIN calls, NEW x, Refused(j, x) PROVE Refused(j, x)'
    <3>1. calls[j].answer \in DOMAIN calls
      BY <2>1 DEF IInv, Answered, Refused
    <3> QED BY <1>2, <2>1, <3>1 DEF Refused
  <2>2. ASSUME NEW j \in DOMAIN calls', calls'[j].op = "remove"
        PROVE  j - 1 \in DOMAIN calls' /\ Refused(j - 1, calls[j].key)'
    <3>1. CASE j = n
      <4>1. cl.must # None /\ k = cl.must /\ calls'[n].key = k
        BY <1>1, <1>3, <2>2, <3>1
      <4>2. n - 1 = Len(calls) /\ n - 1 \in DOMAIN calls /\ Refused(n - 1, k)
        BY <1>0, <4>1, Bounds DEF IInv, Removes
      <4>3. Refused(n - 1, k)'
        BY <2>1, <4>2
      <4> QED BY <1>0, <1>2, <3>1, <4>1, <4>2, <4>3 DEF Refused
    <3>2. CASE j # n
      <4>1. j \in DOMAIN calls /\ calls'[j] = calls[j]
        BY <1>0, <1>2, <3>2
      <4>2. j - 1 \in DOMAIN calls /\ Refused(j - 1, calls[j].key)
        BY <2>2, <4>1 DEF IInv, Removes
      <4>3. Refused(j - 1, calls[j].key) => calls[j - 1].answer \in DOMAIN calls
        BY <4>2 DEF IInv, Answered, Refused
      <4> QED BY <1>0, <1>2, <4>1, <4>2, <4>3 DEF Refused
    <3> QED BY <3>1, <3>2
  <2>3. ASSUME NEW x \in Keys \ index
        PROVE  \E j \in DOMAIN calls' : calls'[j].op = "remove" /\ calls'[j].key = x
    <3>1. PICK j \in DOMAIN calls : calls[j].op = "remove" /\ calls[j].key = x
      BY <2>3 DEF IInv, Removes
    <3> QED BY <1>0, <1>2, <3>1
  <2>4. index' = index
    BY <1>1 DEF daemonVars
  <2> QED BY <1>4, <2>2, <2>3, <2>4 DEF Removes
<1>17. InStep'
  <2>1. Calm(Len(calls)) => toServer = <<>> /\ toClient = <<>> /\ ~Busy
    BY <1>4 DEF IInv, InStep
  <2>2. Calm(Len(calls)) =>
           DOMAIN toServer = {} /\ DOMAIN toClient = {} /\ Len(toServer) = 0 /\ d.call = 0
    BY <1>0, <2>1, EmptySeq DEF Shape
  <2>3. Calm(Len(calls)) => \A i \in DOMAIN toServer' : toServer'[i].call = n
    BY <1>8, <1>10, <2>2
  <2>4. (Calm(Len(calls) - 1) =>
           /\ \A i \in DOMAIN toServer : toServer[i].call = Len(calls)
           /\ \A i \in DOMAIN toClient : toClient[i].call = Len(calls)
           /\ d.call \in {0, Len(calls)}
           /\ cl.got \in {0, Len(calls)})'
    <3>1. Calm(Len(calls) - 1)' => Calm(Len(calls))
      <4>1. Len(calls') - 1 = Len(calls)
        BY <1>0, <1>2
      <4> QED BY <1>0, <1>5, <4>1
    <3> QED BY <1>1, <1>2, <1>4, <2>2, <2>3, <3>1 DEF daemonVars
  <2>5. Calm(Len(calls))' => Calm(Len(calls)) /\ size = "short"
    BY <1>2, <1>6
  <2>6. Calm(Len(calls)) /\ size = "short" => Len(toServer') \in 0..1
    <3>1. CASE DaemonGone
      BY <1>1, <2>2, <3>1
    <3>2. CASE ~DaemonGone
      <4>1. toServer' = toServer \o Parts(n, size) /\ toServer \in Seq(Part)
        BY <1>0, <1>1, <3>2 DEF Typed
      <4>2. Len(toServer') = Len(toServer) + Len(Parts(n, size))
        BY <1>8, <4>1, AddedTo
      <4> QED BY <1>8, <2>2, <4>2
    <3> QED BY <3>1, <3>2
  <2>7. toServer' # <<>> => Len(toServer') # 0
    BY EmptySeq DEF Typed
  <2>8. (Calm(Len(calls)) /\ InCall =>
           /\ toServer # <<>> =>
                 Len(toServer) = 1 /\ toClient = <<>> /\ ~Busy /\ cl.at = "waiting"
           /\ Busy => toServer = <<>> /\ toClient = <<>> /\ cl.at = "waiting"
           /\ toClient # <<>> /\ cl.at = "waiting" => ReplyShape(toClient))'
    BY <1>1, <1>4, <2>1, <2>5, <2>6, <2>7 DEF Busy, daemonVars
  <2>9. ASSUME NEW j \in DOMAIN calls', calls'[j].answer \notin {0, j} PROVE ~Calm(j - 1)'
    <3>1. j \in DOMAIN calls /\ calls'[j] = calls[j] /\ j - 1 \in 0..Len(calls)
      BY <1>0, <1>2, <1>3, <2>9
    <3> QED BY <1>5, <2>9, <3>1 DEF IInv, InStep
  <2> QED BY <1>4, <2>4, <2>8, <2>9 DEF InStep
<1>18. Exits'
  BY <1>0, <1>1, <1>2, <1>6 DEF IInv, Exits, daemonVars, Gone
<1> QED BY <1>14, <1>15, <1>16, <1>17, <1>18 DEF IInv

LEMMA SendIInv ==
    ASSUME IInv, Typed', Shape', NEW op \in Methods, NEW k \in Keys, NEW size \in Sizes,
           Send(op, k, size)
    PROVE  IInv'
<1>1. CASE clientRst
  <2>1. /\ UNCHANGED <<calls, toServer, daemonVars, toClient, sessions>>
        /\ cl'.at = "killed" /\ cl'.must = None /\ cl'.got = 0 /\ clientEnd' = "crashed"
        /\ ~InCall /\ ~InCall' /\ clientEnd = "open"
    BY <1>1 DEF Send, InCall
  <2>2. Queued'
    BY <2>1, CallsAlone DEF IInv, Queued, Sorted, daemonVars, Shape, Busy
  <2>3. Answered'
    BY <2>1 DEF IInv, Answered
  <2>4. Removes'
    BY <2>1, CallsAlone DEF IInv, Removes, daemonVars
  <2>5. InStep'
    BY <2>1, CallsAlone DEF IInv, InStep, Busy, daemonVars
  <2>6. Exits'
    BY <2>1, CallsAlone DEF IInv, Exits, daemonVars, Gone
  <2> QED BY <2>2, <2>3, <2>4, <2>5, <2>6 DEF IInv
<1>2. CASE ~clientRst
  <2>1. Len(calls) + 1 \in Nat
    BY Bounds DEF IInv
  <2> QED BY <1>2, <2>1, RequestIInv
<1> QED BY <1>1, <1>2

\* The daemon takes the first parts of the stream.
LEMMA TakeIInv ==
    ASSUME IInv, Typed', Shape', TakeRequest
    PROVE  IInv'
<1>0. Typed /\ Shape /\ d.at = "receive" /\ ~Busy
  BY DEF IInv, TakeRequest, Busy
<1>1. PICK k \in DOMAIN toServer :
        /\ Takes(toServer, k)
        /\ d' = [at |-> "process", batch |-> SubSeq(toServer, 1, k), call |-> toServer[k].call]
        /\ toServer' = Rest(toServer, k)
  BY DEF TakeRequest
<1>2. UNCHANGED <<calls, clientVars, serverRst, toClient, sessions, handler, running, left, index>>
  BY DEF TakeRequest
<1>3. /\ d'.at = "process" /\ d'.call = toServer[k].call /\ Busy'
      /\ DOMAIN d'.batch = 1..k /\ Len(d'.batch) = k /\ d'.batch # <<>>
      /\ \A i \in DOMAIN d'.batch : i \in DOMAIN toServer /\ d'.batch[i] = toServer[i]
      /\ k \in 1..Len(toServer)
  <2>1. toServer \in Seq(Part)
    BY <1>0 DEF Typed
  <2>2. /\ Len(SubSeq(toServer, 1, k)) = k
        /\ DOMAIN SubSeq(toServer, 1, k) = 1..k
        /\ k \in 1..Len(toServer) /\ Len(toServer) \in Nat
        /\ \A i \in 1..k : i \in DOMAIN toServer /\ SubSeq(toServer, 1, k)[i] = toServer[i]
        /\ SubSeq(toServer, 1, k) \in Seq(Part)
    BY <1>0, <2>1, FrontOf, Bounds
  <2>3. SubSeq(toServer, 1, k) # <<>>
    BY <2>2, EmptySeq
  <2> QED BY <1>1, <2>2, <2>3 DEF Busy
<1>4. /\ Len(toServer') = Len(toServer) - k /\ Len(toServer) \in Nat
      /\ DOMAIN toServer' = 1..Len(toServer')
      /\ \A i \in DOMAIN toServer' : k + i \in DOMAIN toServer /\ toServer'[i] = toServer[k + i]
  <2>1. toServer \in Seq(Part) /\ toServer' \in Seq(Part)
    BY <1>0 DEF Typed
  <2> QED BY <1>0, <1>1, <2>1, RestOf, Bounds, LenProperties
<1>5. Queued'
  <2>1. (\A i \in DOMAIN toServer : Due(toServer[i]))'
    BY <1>2, <1>4 DEF IInv, Queued, Due
  <2>2. (\A i \in DOMAIN d.batch : Due(d.batch[i]))'
    BY <1>2, <1>3 DEF IInv, Queued, Due
  <2>3. Sorted(toServer)'
    BY <1>3, <1>4 DEF IInv, Queued, Sorted
  <2>4. Sorted(d.batch)'
    BY <1>3 DEF IInv, Queued, Sorted
  <2>5. \A i \in DOMAIN d'.batch, j \in DOMAIN toServer' : Precedes(d'.batch[i], toServer'[j])
    <3> SUFFICES ASSUME NEW i \in DOMAIN d'.batch, NEW j \in DOMAIN toServer'
                 PROVE  Precedes(d'.batch[i], toServer'[j])
      OBVIOUS
    <3>1. i \in DOMAIN toServer /\ k + j \in DOMAIN toServer /\ i < k + j
      BY <1>3, <1>4
    <3> QED BY <1>3, <1>4, <3>1 DEF IInv, Queued, Sorted
  <2>6. d'.call = d'.batch[Len(d'.batch)].call
    BY <1>3
  <2> QED BY <1>3, <2>1, <2>2, <2>3, <2>4, <2>5, <2>6 DEF Queued
<1>6. Answered' /\ Removes'
  BY <1>2, CallsAlone DEF IInv, Answered, Removes, clientVars, InCall
<1>7. InStep'
  <2>1. toServer # <<>>
    BY <1>0, <1>1, Bounds
  <2>2. Calm(Len(calls)) => InCall /\ Len(toServer) = 1 /\ toClient = <<>> /\ cl.at = "waiting"
    BY <2>1 DEF IInv, InStep
  <2>3. Len(toServer) = 1 => toServer' = <<>>
    <3>1. toServer' \in Seq(Part)
      BY DEF Typed
    <3> QED BY <1>3, <1>4, <3>1, EmptySeq
  <2>4. (Calm(Len(calls) - 1) =>
           /\ \A i \in DOMAIN toServer : toServer[i].call = Len(calls)
           /\ \A i \in DOMAIN toClient : toClient[i].call = Len(calls)
           /\ d.call \in {0, Len(calls)}
           /\ cl.got \in {0, Len(calls)})'
    BY <1>2, <1>3, <1>4, CallsAlone DEF IInv, InStep, clientVars
  <2> QED BY <1>2, <2>2, <2>3, <2>4, CallsAlone DEF IInv, InStep, clientVars, InCall
<1>8. Exits'
  BY <1>2, <1>3, CallsAlone DEF IInv, Exits, clientVars
<1> QED BY <1>5, <1>6, <1>7, <1>8 DEF IInv

\* The other steps of the daemon's threads that leave the calls and the streams alone.
LEMMA LosingIInv ==
    ASSUME IInv, Typed', Shape',
           RecvFails \/ EndOfStream \/ InstallHandler \/ Interrupt \/ DaemonFails
    PROVE  IInv'
<1>0. UNCHANGED <<calls, cl, clientEnd, serverRst, toServer, toClient, sessions, index>>
  BY DEF RecvFails, EndOfStream, InstallHandler, Interrupt, DaemonFails, clientVars
<1>1. Answered' /\ Removes'
  BY <1>0, CallsAlone DEF IInv, Answered, Removes, InCall
<1>2. CASE RecvFails
  <2>1. /\ d' = [at |-> "process", batch |-> <<>>, call |-> 0] /\ clientEnd = "reset"
        /\ UNCHANGED <<running, left>> /\ toServer = <<>> /\ d.at = "receive"
    BY <1>2 DEF RecvFails
  <2>2. DOMAIN toServer = {} /\ DOMAIN d'.batch = {}
    BY <2>1, EmptySeq
  <2>3. ~InCall
    BY <2>1 DEF IInv, Shape
  <2>4. ~Calm(Len(calls))
    BY <2>1, <2>3 DEF IInv, InStep
  <2>5. Queued'
    BY <1>0, <2>1, <2>2 DEF Queued, Sorted
  <2>6. InStep'
    BY <1>0, <2>1, <2>3, <2>4, CallsAlone DEF IInv, InStep, InCall
  <2>7. Exits'
    BY <1>0, <2>1, CallsAlone DEF IInv, Exits
  <2> QED BY <1>1, <2>5, <2>6, <2>7 DEF IInv
<1>3. CASE EndOfStream \/ DaemonFails
  <2>1. d'.at \in {"accept", "stopped", "killed"} /\ d'.call \in {0, d.call}
    BY <1>3 DEF EndOfStream, DaemonFails, Ends, IInv, Typed, DaemonType
  <2>2. Queued'
    BY <1>0, <2>1, CallsAlone DEF IInv, Queued, Sorted, Due
  <2>3. InStep'
    BY <1>0, <2>1, CallsAlone DEF IInv, InStep, InCall, Busy
  <2>4. Exits'
    <3>1. CASE EndOfStream
      <4>1. /\ left' = left \cup {"republished"} /\ running' = (running /\ handler = "main")
            /\ d'.at = IF running' THEN "accept" ELSE "stopped"
        BY <3>1 DEF EndOfStream, Ends, IInv, Typed, DaemonType
      <4> QED BY <1>0, <4>1, CallsAlone DEF IInv, Exits
    <3>2. CASE DaemonFails
      <4>1. left' = left \cup {"failed"} /\ UNCHANGED running /\ d'.at = "killed"
        BY <3>2 DEF DaemonFails, Ends
      <4> QED BY <1>0, <4>1, CallsAlone DEF IInv, Exits
    <3> QED BY <1>3, <3>1, <3>2
  <2> QED BY <1>1, <2>2, <2>3, <2>4 DEF IInv
<1>4. CASE InstallHandler \/ Interrupt
  <2>1. /\ UNCHANGED d /\ left \subseteq left'
        /\ ~running' => ~running \/ "interrupted" \in left'
        /\ d.at = "stopped" => UNCHANGED running
    BY <1>4 DEF InstallHandler, Interrupt, DaemonGone
  <2>2. Queued'
    BY <1>0, <2>1, CallsAlone DEF IInv, Queued, Sorted, Due
  <2>3. InStep'
    BY <1>0, <2>1, CallsAlone DEF IInv, InStep, InCall, Busy
  <2>4. Exits'
    BY <1>0, <2>1, CallsAlone DEF IInv, Exits
  <2> QED BY <1>1, <2>2, <2>3, <2>4 DEF IInv
<1> QED BY <1>2, <1>3, <1>4

\* What a message that is not whole says of its call.
LEMMA Garbled ==
    ASSUME IInv, d.at = "process", ~Intact(d.batch), d.call # 0
    PROVE  \E i \in 1..d.call : calls[i].size = "long"
<1>0. Typed /\ Shape
  BY DEF IInv
<1>1. d.batch # <<>> /\ d.call = d.batch[Len(d.batch)].call
      /\ Len(d.batch) \in Nat \ {0} /\ DOMAIN d.batch = 1..Len(d.batch)
  BY <1>0, Bounds DEF IInv, Queued
<1>2. PICK i \in DOMAIN d.batch : d.batch[i].part # "whole"
  BY <1>1 DEF Intact
<1>3. Due(d.batch[i]) /\ Sorted(d.batch)
  BY DEF IInv, Queued
<1>4. d.batch[i].call \in DOMAIN calls /\ calls[d.batch[i].call].size = "long"
  <2>1. calls[d.batch[i].call].size # "short"
    BY <1>2, <1>3 DEF Due
  <2> QED BY <1>0, <1>3, <2>1, Bounds DEF Due, Sizes
<1>5. d.batch[i].call <= d.call
  <2>1. CASE i = Len(d.batch)
    BY <1>0, <1>1, <2>1, Bounds
  <2>2. CASE i # Len(d.batch)
    <3>1. Precedes(d.batch[i], d.batch[Len(d.batch)])
      BY <1>1, <1>3, <2>2 DEF Sorted
    <3> QED BY <1>0, <1>1, <3>1, Bounds DEF Precedes
  <2> QED BY <2>1, <2>2
<1> QED BY <1>0, <1>4, <1>5, Bounds

\* A request is processed: its call gets a verdict, and the daemon a reply to send.
LEMMA ProcessIInv ==
    ASSUME IInv, Typed', Shape',
           ProcessGarbage \/ ProcessGet \/ ProcessPut \/ ProcessRemove \/ ProcessSet
    PROVE  IInv'
<1>0. Typed /\ Shape /\ Len(calls) \in Nat /\ DOMAIN calls = 1..Len(calls)
  BY Bounds DEF IInv
<1>1. PICK verdict \in {"done", "partial", "bare", "error"}, size \in Sizes :
         /\ Reply(verdict, size) /\ d.at = "process"
         /\ verdict = "bare" <=> ~Intact(d.batch)
         /\ index' \subseteq index
  BY <1>0, ProcessIsReply
<1>2. /\ Len(calls') = Len(calls) /\ DOMAIN calls' = DOMAIN calls
      /\ d' = [at |-> "send", batch |-> Parts(d.call, size), call |-> d.call]
      /\ \A i \in DOMAIN calls :
            calls'[i] = IF i = d.call THEN [calls[i] EXCEPT !.verdict = verdict] ELSE calls[i]
  BY <1>0, <1>1, ReplyTyped DEF Verdicts
<1>3. \A i \in DOMAIN calls :
         /\ calls'[i].op = calls[i].op /\ calls'[i].key = calls[i].key
         /\ calls'[i].size = calls[i].size /\ calls'[i].outcome = calls[i].outcome
         /\ calls'[i].answer = calls[i].answer
         /\ calls'[i].verdict = IF i = d.call THEN verdict ELSE calls[i].verdict
  <2>1. \A i \in DOMAIN calls : calls[i] \in CallRec
    BY <1>0, Bounds
  <2> QED BY <1>2, <2>1 DEF CallRec
<1>4. UNCHANGED <<clientVars, serverRst, toServer, toClient, sessions, handler, running, left>>
  BY DEF ProcessGarbage, ProcessGet, ProcessPut, ProcessRemove, ProcessSet
<1>5. Busy /\ Busy' /\ d'.call = d.call /\ d'.at = "send" /\ (InCall' <=> InCall)
  BY <1>1, <1>2, <1>4 DEF Busy, InCall, clientVars
<1>6. d.batch # <<>> => d.call \in DOMAIN calls /\ Len(d.batch) \in DOMAIN d.batch
  BY <1>0, <1>1, Bounds DEF Shape
<1>7. d.batch = <<>> => d.call = 0 /\ clientEnd = "reset"
  BY <1>1 DEF IInv, Queued
\* The call had no reply, or an empty one to the first part of its request.
<1>8. d.call # 0 => calls[d.call].verdict \in {"none", "bare"}
  <2>1. d.call # 0 => Due(d.batch[Len(d.batch)]) /\ d.call = d.batch[Len(d.batch)].call
    BY <1>1, <1>6, <1>7 DEF IInv, Queued
  <2> QED BY <2>1 DEF Due
<1>9. \A i \in DOMAIN calls : calls'[i].verdict # "none" \/ calls[i].verdict = "none"
  BY <1>3
<1>10. \A n : Calm(n)' <=> Calm(n)
  <2>1. ASSUME NEW i \in DOMAIN calls PROVE Skews(i)' <=> Skews(i)
    BY <1>3 DEF Skews
  <2>2. ASSUME NEW i, i \notin DOMAIN calls PROVE calls'[i] = calls[i]
    BY <1>1, <1>6, <1>7, <2>2 DEF Reply
  <2> QED BY <2>1, <2>2 DEF Calm, Skews
<1>11. Queued'
  <2>1. ASSUME NEW j \in DOMAIN toServer PROVE Due(toServer[j])'
    <3>1. Due(toServer[j]) /\ toServer[j].call \in DOMAIN calls
      BY DEF IInv, Queued, Due
    <3>2. CASE toServer[j].call # d.call
      BY <1>2, <1>3, <1>4, <3>1, <3>2 DEF Due
    <3>3. CASE toServer[j].call = d.call
      <4>1. d.batch # <<>>
        BY <1>0, <1>7, <3>1, <3>3
      <4> DEFINE p == d.batch[Len(d.batch)]
      <4>2. Precedes(p, toServer[j]) /\ p.call = d.call /\ p.call \in Nat
        BY <1>0, <1>1, <1>6, <4>1, Bounds DEF IInv, Queued
      <4>3. p.part = "head" /\ toServer[j].part = "tail"
        BY <3>3, <4>2 DEF Precedes
      <4>4. verdict = "bare"
        BY <1>1, <1>6, <4>1, <4>3 DEF Intact
      <4> QED BY <1>2, <1>3, <1>4, <3>1, <3>3, <4>3, <4>4 DEF Due
    <3> QED BY <3>2, <3>3
  <2>2. d.call # 0 => calls'[d.call].verdict # "none"
    BY <1>3, <1>6, <1>7
  <2>3. d.call = 0 => clientEnd = "reset"
    BY <1>0, <1>6, <1>7
  <2>4. ReplyShape(d'.batch) /\ \A i \in DOMAIN d'.batch : d'.batch[i].call = d.call
    <3>1. d.call \in 0..MaxCalls /\ d'.batch = Parts(d.call, size)
      BY <1>0, <1>2 DEF Typed, DaemonType
    <3> QED BY <3>1, PartsOf DEF ReplyShape, Sizes
  <2> QED BY <1>4, <1>5, <2>1, <2>2, <2>3, <2>4 DEF IInv, Queued, Sorted, clientVars
<1>12. Answered'
  <2>1. ASSUME NEW j \in DOMAIN calls, calls'[j].verdict = "bare"
        PROVE  \E i \in 1..j : calls'[i].size = "long"
    <3>1. \E i \in 1..j : calls[i].size = "long"
      <4>1. CASE j = d.call
        BY <1>0, <1>1, <1>3, <2>1, <4>1, Garbled
      <4>2. CASE j # d.call
        BY <1>3, <2>1, <4>2 DEF IInv, Answered
      <4> QED BY <4>1, <4>2
    <3>2. PICK i \in 1..j : calls[i].size = "long"
      BY <3>1
    <3> QED BY <1>0, <1>3, <3>2
  <2>2. \A j \in DOMAIN calls :
           /\ calls'[j].outcome = "pending" <=> j = Len(calls) /\ InCall
           /\ calls'[j].outcome = "replied" <=> calls'[j].answer # 0
           /\ calls'[j].answer # 0 =>
                 calls'[j].answer \in DOMAIN calls /\ calls'[calls'[j].answer].verdict # "none"
    BY <1>3, <1>9 DEF IInv, Answered
  <2>3. \A i \in DOMAIN toClient :
           toClient[i].call \in DOMAIN calls /\ calls'[toClient[i].call].verdict # "none"
    BY <1>9 DEF IInv, Answered
  <2>4. cl.got # 0 => cl.got \in DOMAIN calls /\ calls'[cl.got].verdict # "none"
    BY <1>9 DEF IInv, Answered
  <2>5. UNCHANGED <<cl, toClient>> /\ (cl.at # "filling" => cl.got = 0)
    BY <1>4 DEF clientVars, IInv, Answered
  <2> QED BY <1>2, <1>5, <2>1, <2>2, <2>3, <2>4, <2>5 DEF Answered
<1>13. Removes'
  <2>1. ASSUME NEW j \in DOMAIN calls, NEW k, Refused(j, k) PROVE Refused(j, k)'
    <3>1. calls[j].answer \in DOMAIN calls /\ calls[calls[j].answer].verdict = "error"
      BY <2>1 DEF IInv, Answered, Refused
    <3>2. calls[j].answer # d.call
      BY <1>8, <3>1, <2>1 DEF Refused
    <3> QED BY <1>3, <2>1, <3>1, <3>2 DEF Refused
  <2>2. cl'.must # None => cl'.at = "idle" /\ calls' # <<>> /\ Refused(Len(calls), cl.must)'
    <3>1. cl.must # None => cl.at = "idle" /\ Len(calls) \in DOMAIN calls
                            /\ Refused(Len(calls), cl.must)
      BY <1>0, Bounds DEF IInv, Removes
    <3>2. cl.must # None => Len(calls') # 0
      BY <1>0, <1>2, <3>1
    <3>3. ASSUME cl.must # None PROVE calls' # <<>>
      BY <3>2, <3>3, EmptySeq
    <3>4. ASSUME cl.must # None
          PROVE  /\ calls'[Len(calls)].op = "get" /\ calls'[Len(calls)].key = cl.must
                 /\ calls'[Len(calls)].answer # 0
                 /\ calls'[calls'[Len(calls)].answer].verdict = "error"
      <4>1. /\ calls[Len(calls)].op = "get" /\ calls[Len(calls)].key = cl.must
            /\ calls[Len(calls)].answer # 0
            /\ calls[calls[Len(calls)].answer].verdict = "error"
            /\ calls[Len(calls)].answer \in DOMAIN calls /\ Len(calls) \in DOMAIN calls
        BY <3>1, <3>4 DEF Refused, IInv, Answered
      <4>2. calls[Len(calls)].answer # d.call
        BY <1>8, <4>1
      <4> QED BY <1>3, <4>1, <4>2
    <3>5. cl' = cl
      BY <1>4 DEF clientVars
    <3> QED BY <1>2, <3>1, <3>3, <3>4, <3>5 DEF Refused
  <2>3. ASSUME NEW j \in DOMAIN calls, calls'[j].op = "remove"
        PROVE  j - 1 \in DOMAIN calls /\ Refused(j - 1, calls[j].key)'
    <3>1. j - 1 \in DOMAIN calls /\ Refused(j - 1, calls[j].key) /\ calls'[j].key = calls[j].key
      BY <1>3, <2>3 DEF IInv, Removes
    <3>2. /\ calls[j - 1].op = "get" /\ calls[j - 1].key = calls[j].key
          /\ calls[j - 1].answer # 0 /\ calls[calls[j - 1].answer].verdict = "error"
          /\ calls[j - 1].answer \in DOMAIN calls
      BY <3>1 DEF Refused, IInv, Answered
    <3>3. calls[j - 1].answer # d.call
      BY <1>8, <3>2
    <3> QED BY <1>3, <3>1, <3>2, <3>3 DEF Refused
  <2>4. ASSUME NEW k \in Keys \ index'
        PROVE  \E j \in DOMAIN calls : calls'[j].op = "remove" /\ calls'[j].key = k
    <3>1. \E j \in DOMAIN calls : calls[j].op = "remove" /\ calls[j].key = k
      <4>1. CASE k \notin index
        BY <4>1 DEF IInv, Removes
      <4>2. CASE k \in index
        <5>1. ProcessRemove
          BY <2>4, <4>2 DEF ProcessGarbage, ProcessGet, ProcessPut, ProcessRemove, ProcessSet
        <5>2. /\ d.batch # <<>> /\ calls[d.call].op = "remove"
              /\ index' = index \ {calls[d.call].key}
          BY <2>4, <4>2, <5>1 DEF ProcessRemove, Intact
        <5> QED BY <1>6, <2>4, <4>2, <5>2
      <4> QED BY <4>1, <4>2
    <3> QED BY <1>3, <3>1
  <2> QED BY <1>2, <2>2, <2>3, <2>4 DEF Removes
<1>14. InStep'
  BY <1>2, <1>3, <1>4, <1>5, <1>10 DEF IInv, InStep, clientVars
<1>15. Exits'
  BY <1>1, <1>2, <1>4, <1>5, <1>10 DEF IInv, Exits, clientVars
<1> QED BY <1>11, <1>12, <1>13, <1>14, <1>15 DEF IInv

\* The reply goes out, or the daemon is killed by the attempt.
LEMMA SendReplyIInv ==
    ASSUME IInv, Typed', Shape', SendReply
    PROVE  IInv'
<1>0. Typed /\ Shape /\ d.at = "send" /\ Busy
  BY DEF IInv, SendReply, Busy
<1>1. UNCHANGED <<calls, cl, clientEnd, toServer, sessions, handler, running, left, index>>
  BY DEF SendReply
<1>2. d'.at \in {"receive", "stopped", "killed"} /\ d'.batch = <<>> /\ d'.call = 0 /\ ~Busy'
  BY DEF SendReply, Ends, Busy
<1>3. \/ toClient' = toClient
      \/ toClient' = toClient \o d.batch /\ clientEnd \notin Gone
  BY DEF SendReply
<1>4. /\ ReplyShape(d.batch) /\ \A i \in DOMAIN d.batch : d.batch[i].call = d.call
      /\ d.call = 0 => clientEnd = "reset"
      /\ d.call # 0 => calls[d.call].verdict # "none"
      /\ d.call # 0 => d.call \in DOMAIN calls
  BY <1>0, Bounds DEF IInv, Queued, Shape
\* What is in the stream of replies has been there, or is the reply just sent.
<1>5. \A i \in DOMAIN toClient' :
         \/ i \in DOMAIN toClient /\ toClient'[i] = toClient[i]
         \/ /\ clientEnd \notin Gone /\ i - Len(toClient) \in DOMAIN d.batch
            /\ toClient'[i] = d.batch[i - Len(toClient)] /\ toClient'[i].call = d.call
  <2>1. toClient \in Seq(Part) /\ d.batch \in Seq(Part)
    BY <1>0 DEF Typed, DaemonType
  <2>2. \A i \in DOMAIN (toClient \o d.batch) :
           \/ i \in DOMAIN toClient /\ (toClient \o d.batch)[i] = toClient[i]
           \/ /\ i - Len(toClient) \in DOMAIN d.batch
              /\ (toClient \o d.batch)[i] = d.batch[i - Len(toClient)]
    BY <2>1, AddedTo
  <2>3. CASE toClient' = toClient
    BY <2>3
  <2>4. CASE toClient' = toClient \o d.batch /\ clientEnd \notin Gone
    BY <1>4, <2>2, <2>4
  <2> QED BY <1>3, <2>3, <2>4
<1>6. Queued'
  BY <1>1, <1>2, CallsAlone DEF IInv, Queued, Sorted, Due
<1>7. Answered'
  <2>1. \A i \in DOMAIN toClient' :
           toClient'[i].call \in DOMAIN calls /\ calls[toClient'[i].call].verdict # "none"
    BY <1>4, <1>5 DEF IInv, Answered, Gone
  <2> QED BY <1>1, <2>1 DEF IInv, Answered, InCall
<1>8. Removes'
  BY <1>1, CallsAlone DEF IInv, Removes
<1>9. InCall => clientEnd = "open"
  BY <1>0 DEF Shape
<1>10. Calm(Len(calls)) => InCall /\ toServer = <<>> /\ toClient = <<>> /\ cl.at = "waiting"
  BY <1>0 DEF IInv, InStep
<1>11. InStep'
  <2>1. (Calm(Len(calls) - 1) =>
           /\ \A i \in DOMAIN toServer : toServer[i].call = Len(calls)
           /\ \A i \in DOMAIN toClient : toClient[i].call = Len(calls)
           /\ d.call \in {0, Len(calls)}
           /\ cl.got \in {0, Len(calls)})'
    <3>1. Calm(Len(calls) - 1) => \A i \in DOMAIN toClient' : toClient'[i].call = Len(calls)
      BY <1>4, <1>5 DEF IInv, InStep, Gone
    <3> QED BY <1>1, <1>2, <3>1, CallsAlone DEF IInv, InStep
  <2>2. Calm(Len(calls)) /\ toClient' # <<>> => ReplyShape(toClient')
    <3>1. toClient = <<>> => toClient \o d.batch = d.batch
      BY <1>0 DEF Typed, DaemonType
    <3> QED BY <1>3, <1>4, <1>10, <3>1
  <2>3. (Calm(Len(calls)) /\ InCall =>
           /\ toServer # <<>> =>
                 Len(toServer) = 1 /\ toClient = <<>> /\ ~Busy /\ cl.at = "waiting"
           /\ Busy => toServer = <<>> /\ toClient = <<>> /\ cl.at = "waiting"
           /\ toClient # <<>> /\ cl.at = "waiting" => ReplyShape(toClient))'
    BY <1>1, <1>2, <1>10, <2>2, CallsAlone
  <2>4. InCall' <=> InCall
    BY <1>1 DEF InCall
  <2> QED BY <1>1, <1>10, <2>1, <2>3, <2>4, CallsAlone DEF IInv, InStep
<1>12. Exits'
  <2>1. clientEnd \in Gone => ~Calm(Len(calls))
    BY <1>9, <1>10 DEF Gone
  <2>2. serverRst' => clientEnd \in Gone
    BY DEF SendReply, IInv, Exits
  <2>3. d'.at = "killed" => clientEnd \in Gone
    BY DEF SendReply, Ends, IInv, Exits
  <2>4. d'.at = "stopped" => ~running
    BY DEF SendReply, Ends
  <2> QED BY <1>1, <2>1, <2>2, <2>3, <2>4, CallsAlone DEF IInv, Exits
<1> QED BY <1>6, <1>7, <1>8, <1>11, <1>12 DEF IInv

\* Every step keeps the invariant.
LEMMA StepIInv == IInv /\ [Next]_vars => IInv'
<1> SUFFICES ASSUME IInv, [Next]_vars PROVE IInv'
  OBVIOUS
<1>0. Typed' /\ Shape'
  BY StepTyped DEF IInv
<1>1. CASE Receive
  BY <1>0, <1>1, ReceiveIInv
<1>2. CASE Fill
  BY <1>0, <1>2, FillIInv
<1>3. CASE GiveUp
  <2>1. PICK c \in {0, cl.got} : c \in 0..MaxCalls /\ Returned(c) /\ ReturnStep(c)
    BY <1>3, GiveUpReturns
  <2>2. InCall
    BY <1>3, GiveUpReturns
  <2>3. c \in 0..MaxCalls
    BY <2>1
  <2> QED BY <1>0, <2>1, <2>2, <2>3, ReturnIInv
<1>4. CASE Disconnect \/ ClientCrash
  BY <1>0, <1>4, LeavingIInv
<1>5. CASE Connect
  BY <1>0, <1>5, ConnectIInv
<1>6. ASSUME NEW op \in Methods, NEW k \in Keys, NEW size \in Sizes, Send(op, k, size)
      PROVE  IInv'
  BY <1>0, <1>6, SendIInv
<1>7. CASE TakeRequest
  BY <1>0, <1>7, TakeIInv
<1>8. CASE RecvFails \/ EndOfStream \/ InstallHandler \/ Interrupt \/ DaemonFails
  BY <1>0, <1>8, LosingIInv
<1>9. CASE ProcessGarbage \/ ProcessGet \/ ProcessPut \/ ProcessRemove \/ ProcessSet
  BY <1>0, <1>9, ProcessIInv
<1>10. CASE SendReply
  BY <1>0, <1>10, SendReplyIInv
<1>11. CASE UNCHANGED vars
  BY <1>11, CallsAlone DEF vars, IInv, Typed, Shape, Queued, Sorted, Answered, Removes, InStep,
                           Exits, Busy, InCall
<1> QED BY <1>1, <1>2, <1>3, <1>4, <1>5, <1>6, <1>7, <1>8, <1>9, <1>10, <1>11
        DEF Next, ClientStep, DaemonStep, Sizes

\* The invariant of the connection (Client, Server, ipc_server).
THEOREM Inductive == Spec => []IInv
<1>1. Init => IInv
  BY InitIInv
<1> QED BY <1>1, StepIInv, PTL DEF Spec

\* The daemon does not go silently: it has republished or was interrupted, and a
\* signal kills it only after a client that left a reply unread (ipc_server).
THEOREM DaemonLeavesNothingBehind == Spec => []ExitsRepublished
<1>1. IInv => ExitsRepublished
  <2> SUFFICES ASSUME IInv PROVE ExitsRepublished
    OBVIOUS
  <2>1. Typed /\ Len(calls) \in Nat /\ DOMAIN calls = 1..Len(calls)
    BY Bounds DEF IInv
  <2>2. ~Calm(Len(calls)) => \E i \in DOMAIN calls : Skews(i)
    BY <2>1 DEF Calm
  <2> QED BY <2>2 DEF IInv, Exits, ExitsRepublished
<1> QED BY <1>1, Inductive, PTL

\* What the application makes of a reply is right: a reply of its own is that of the method
\* it named, and keys removed were refused (the callers of Client::put and get).
THEOREM RepliesAreMeant == Spec => []RepliesMeanIt
<1>1. IInv => RepliesMeanIt
  <2> SUFFICES ASSUME IInv PROVE RepliesMeanIt
    OBVIOUS
  <2>0. Typed /\ DOMAIN calls = 1..Len(calls) /\ Len(calls) \in Nat
    BY Bounds DEF IInv
  <2>1. AnsweredByMethod
    <3> SUFFICES ASSUME NEW j \in DOMAIN calls, calls[j].answer = j, calls[j].verdict = "bare"
                 PROVE  \E i \in 1..j : calls[i].size = "long"
      BY DEF AnsweredByMethod
    <3> QED BY DEF IInv, Answered
  <2>2. RemovalsExplained
    <3> SUFFICES ASSUME NEW k \in Keys \ index
                 PROVE  \E j \in DOMAIN calls :
                           /\ calls[j].op = "get" /\ calls[j].key = k
                           /\ calls[j].answer # 0
                           /\ calls[calls[j].answer].verdict = "error"
                           /\ calls[j].answer = j \/ \E i \in 1..(j - 1) : Skews(i)
      BY DEF RemovalsExplained
    <3>1. PICK j \in DOMAIN calls : calls[j].op = "remove" /\ calls[j].key = k
      BY DEF IInv, Removes
    <3>2. j - 1 \in DOMAIN calls /\ Refused(j - 1, k)
      BY <3>1 DEF IInv, Removes
    <3>3. calls[j - 1].answer = j - 1 \/ ~Calm((j - 1) - 1)
      BY <3>2 DEF IInv, InStep, Refused
    <3> QED BY <3>2, <3>3 DEF Refused, Calm
  <2> QED BY <2>1, <2>2 DEF RepliesMeanIt
<1> QED BY <1>1, Inductive, PTL

----------------------------------------------------------------------------
(* The order of replies.                                                    *)

\* Something leaves the line, or nothing moves.
LEMMA LineDropped ==
    ASSUME NEW L, NEW a, NEW g, NEW rs, NEW n, NEW qs, InLine(L, a, g, rs, n, qs),
           NEW g2 \in {0, g}, NEW n2 \in {0, n},
           NEW rs2, rs2 = rs \/ DOMAIN rs2 = {},
           NEW qs2, qs2 = qs \/ DOMAIN qs2 = {}
    PROVE  InLine(L, a, g2, rs2, n2, qs2)
BY DEF InLine, AllBefore

\* A request is taken, and with it those that came with it (Server::receive).
LEMMA LineTaken ==
    ASSUME NEW L, NEW a, NEW g, NEW rs, NEW qs, InLine(L, a, g, rs, 0, qs),
           NEW k \in DOMAIN qs, NEW qs2,
           \A i \in DOMAIN qs2 :
              \E j \in DOMAIN qs : qs2[i] = qs[j] /\ Earlier(L, qs[k].call, qs[j].call)
    PROVE  InLine(L, a, g, rs, qs[k].call, qs2)
BY DEF InLine

\* The reply goes out (Server::send).
LEMMA LineReplied ==
    ASSUME NEW L, NEW a, NEW g, NEW rs \in Seq(Part), NEW n \in Nat \ {0}, NEW qs,
           InLine(L, a, g, rs, n, qs),
           NEW b \in Seq(Part), ReplyShape(b), \A i \in DOMAIN b : b[i].call = n
    PROVE  InLine(L, a, g, rs \o b, 0, qs)
<1>1. /\ DOMAIN rs = 1..Len(rs) /\ Len(rs) \in Nat
      /\ DOMAIN b = 1..Len(b) /\ Len(b) \in Nat
  BY LenProperties
<1>2. \A i \in DOMAIN (rs \o b) :
         \/ i \in DOMAIN rs /\ (rs \o b)[i] = rs[i]
         \/ i > Len(rs) /\ i - Len(rs) \in DOMAIN b /\ (rs \o b)[i] = b[i - Len(rs)]
  BY AddedTo
<1> DEFINE all == rs \o b
<1> HIDE DEF all
<1>3. \A i \in DOMAIN all : (i \in DOMAIN rs /\ all[i] = rs[i]) \/ all[i].call = n
  BY <1>2 DEF all
<1>4. AllBefore(L, a, g, rs, n)
  BY DEF InLine
<1>5. \A i \in DOMAIN all :
         /\ TakenBefore(L, a, all[i].call)
         /\ g # 0 => Earlier(L, g, all[i].call) \/ g = all[i].call
  BY <1>3, <1>4 DEF InLine, AllBefore
<1>6. ASSUME NEW i \in DOMAIN all, NEW j \in DOMAIN all, i < j
      PROVE  \/ Earlier(L, all[i].call, all[j].call)
             \/ all[i].call = all[j].call /\ all[i].part = "head"
  <2>1. i \in Nat /\ j \in Nat
    BY <1>1, <1>2 DEF all
  <2>2. CASE j \in DOMAIN rs
    <3>1. i \in DOMAIN rs /\ all[i] = rs[i] /\ all[j] = rs[j]
      BY <1>1, <1>2, <1>6, <2>1, <2>2 DEF all
    <3>2. \A x, y \in DOMAIN rs :
             x < y => \/ Earlier(L, rs[x].call, rs[y].call)
                      \/ rs[x].call = rs[y].call /\ rs[x].part = "head"
      BY DEF InLine
    <3> QED BY <1>6, <2>2, <3>1, <3>2
  <2>3. CASE i \in DOMAIN rs /\ j \notin DOMAIN rs
    <3>1. all[i] = rs[i]
      BY <1>1, <1>2, <2>3 DEF all
    <3>2. all[j].call = n
      BY <1>3, <2>3
    <3> QED BY <1>4, <2>3, <3>1, <3>2 DEF AllBefore
  <2>4. CASE i \notin DOMAIN rs /\ j \notin DOMAIN rs
    <3>1. /\ i - Len(rs) \in DOMAIN b /\ all[i] = b[i - Len(rs)]
          /\ j - Len(rs) \in DOMAIN b /\ all[j] = b[j - Len(rs)]
      BY <1>2, <2>4 DEF all
    <3>2. Len(b) = 2 /\ b[1].part = "head" /\ i - Len(rs) = 1
      BY <1>1, <1>6, <2>1, <3>1 DEF ReplyShape
    <3> QED BY <3>1, <3>2
  <2> QED BY <2>2, <2>3, <2>4, <1>1, <1>6, <2>1
<1>7. \A i \in DOMAIN qs : AllBefore(L, a, g, all, qs[i].call)
  BY <1>3 DEF InLine, AllBefore
<1>8. InLine(L, a, g, all, 0, qs)
  BY <1>5, <1>6, <1>7 DEF InLine
<1> QED BY <1>8 DEF all

\* A reply is taken and held (Client::receive).
LEMMA LineHeld ==
    ASSUME NEW L, NEW a, NEW rs, NEW n, NEW qs, InLine(L, a, 0, rs, n, qs),
           NEW k \in DOMAIN rs, rs[k].call # 0, NEW rs2,
           \A i \in DOMAIN rs2 : \E j \in DOMAIN rs : k < j /\ rs2[i] = rs[j],
           \A i, j \in DOMAIN rs2 :
              i < j => \E x, y \in DOMAIN rs : x < y /\ rs2[i] = rs[x] /\ rs2[j] = rs[y]
    PROVE  /\ InLine(L, a, rs[k].call, rs2, n, qs)
           /\ rs[k].part # "head" =>
                 \A i \in DOMAIN rs2 : Earlier(L, rs[k].call, rs2[i].call)
BY DEF InLine, AllBefore

\* The last reply under way is held instead of the one that was.
LEMMA LineFilled ==
    ASSUME NEW L, NEW a, NEW g, NEW rs, NEW n, NEW qs, InLine(L, a, g, rs, n, qs),
           NEW k \in DOMAIN rs, NEW rs2, DOMAIN rs2 = {}
    PROVE  InLine(L, a, rs[k].call, rs2, n, qs)
BY DEF InLine, AllBefore

\* The last call returns with what is held.
LEMMA LineReturned ==
    ASSUME NEW L, NEW m \in Nat, NEW a, DOMAIN a = 1..m, \A i \in 1..m : a[i] \in Nat,
           m # 0, a[m] = 0,
           NEW g \in 0..m, NEW rs, NEW n, NEW qs, InLine(L, a, g, rs, n, qs),
           \A i \in DOMAIN rs : g # 0 => Earlier(L, g, rs[i].call),
           NEW a2, DOMAIN a2 = 1..m, \A i \in 1..m : a2[i] = IF i = m THEN g ELSE a[i]
    PROVE  InLine(L, a2, 0, rs, n, qs)
<1>1. \A e : TakenBefore(L, a, e) /\ (g # 0 => Earlier(L, g, e)) => TakenBefore(L, a2, e)
  BY DEF TakenBefore
<1>2. \A i \in 1..m : a2[i] <= i
  BY DEF InLine
<1>3. ASSUME NEW j \in 1..m, a2[j] # 0, NEW i \in 1..m, i < j
      PROVE  Earlier(L, a2[i], a2[j])
  <2>1. CASE j = m
    <3>1. a2[j] = g /\ a2[i] = a[i] /\ g # 0
      BY <1>3, <2>1
    <3>2. a[i] # 0 => Earlier(L, a[i], g)
      BY <3>1 DEF InLine, TakenBefore
    <3>3. a[i] = 0 => Earlier(L, a[i], g)
      BY <3>1 DEF Earlier
    <3> QED BY <3>1, <3>2, <3>3
  <2>2. CASE j # m
    <3>1. a2[j] = a[j] /\ a2[i] = a[i]
      BY <1>3, <2>2
    <3> QED BY <1>3, <3>1 DEF InLine
  <2> QED BY <2>1, <2>2
<1>4. \A i \in DOMAIN rs : TakenBefore(L, a2, rs[i].call)
  BY <1>1 DEF InLine
<1>5. \A e : AllBefore(L, a, g, rs, e) => AllBefore(L, a2, 0, rs, e)
  BY <1>1 DEF AllBefore
<1> QED BY <1>2, <1>3, <1>4, <1>5 DEF InLine

\* A new call is made.
LEMMA LineGrown ==
    ASSUME NEW m \in Nat, NEW L, NEW a, DOMAIN a = 1..m,
           NEW g, NEW rs, NEW n, NEW qs, InLine(L, a, g, rs, n, qs),
           NEW L2, L \subseteq L2,
           NEW a2, DOMAIN a2 = 1..(m + 1), a2[m + 1] = 0, \A i \in 1..m : a2[i] = a[i]
    PROVE  InLine(L2, a2, g, rs, n, qs)
<1>1. \A c, e : Earlier(L, c, e) => Earlier(L2, c, e)
  BY DEF Earlier
<1>2. \A e : TakenBefore(L, a, e) => TakenBefore(L2, a2, e)
  BY <1>1 DEF TakenBefore
<1>3. \A e : AllBefore(L, a, g, rs, e) => AllBefore(L2, a2, g, rs, e)
  BY <1>1, <1>2 DEF AllBefore
<1>4. ASSUME NEW j \in 1..(m + 1)
      PROVE  /\ a2[j] <= j
             /\ a2[j] # 0 => \A i \in 1..(m + 1) : i < j => Earlier(L2, a2[i], a2[j])
  <2>1. CASE j = m + 1
    BY <2>1
  <2>2. CASE j # m + 1
    <3>1. j \in 1..m /\ a2[j] = a[j]
      BY <2>2
    <3>2. \A i \in 1..(m + 1) : i < j => i \in 1..m /\ a2[i] = a[i]
      BY <3>1
    <3> QED BY <1>1, <3>1, <3>2 DEF InLine
  <2> QED BY <2>1, <2>2
<1> QED BY <1>1, <1>2, <1>3, <1>4 DEF InLine

\* Its request joins the line.
LEMMA LineJoined ==
    ASSUME NEW m \in Nat, NEW L, NEW a, \A i \in DOMAIN a : a[i] \in 0..m,
           NEW g \in 0..m, NEW rs, \A i \in DOMAIN rs : rs[i].call \in 1..m,
           NEW n \in 0..m, NEW qs, InLine(L, a, g, rs, n, qs),
           NEW qs2,
           \A i \in DOMAIN qs2 :
              (\E j \in DOMAIN qs : qs2[i] = qs[j]) \/ qs2[i].call = m + 1
    PROVE  InLine(L, a, g, rs, n, qs2)
<1>1. TakenBefore(L, a, m + 1)
  BY DEF TakenBefore, Earlier
<1>2. AllBefore(L, a, g, rs, m + 1)
  BY <1>1 DEF AllBefore, Earlier
<1>3. ASSUME NEW i \in DOMAIN qs2
      PROVE  /\ AllBefore(L, a, g, rs, qs2[i].call)
             /\ n # 0 => Earlier(L, n, qs2[i].call)
  <2>1. CASE \E j \in DOMAIN qs : qs2[i] = qs[j]
    BY <2>1 DEF InLine
  <2>2. CASE qs2[i].call = m + 1
    BY <1>2, <2>2 DEF Earlier
  <2> QED BY <2>1, <2>2
<1> QED BY <1>3 DEF InLine

\* The line after a step.
LEMMA LineNext ==
    ASSUME NEW L, NEW a, NEW g, NEW rs, NEW n, NEW qs, InLine(L, a, g, rs, n, qs),
           L = Long', a = Answers', g = cl.got', rs = toClient', n = Answering', qs = toServer'
    PROVE  Pipeline'
BY DEF Pipeline, InLine, AllBefore, TakenBefore, Earlier

\* What the line consists of.
LEMMA LineFacts ==
    ASSUME IInv
    PROVE  /\ Len(calls) \in Nat /\ DOMAIN calls = 1..Len(calls)
           /\ DOMAIN Answers = 1..Len(calls)
           /\ \A i \in 1..Len(calls) : Answers[i] = calls[i].answer /\ Answers[i] \in 0..Len(calls)
           /\ cl.got \in 0..Len(calls)
           /\ \A i \in DOMAIN toClient : toClient[i].call \in 1..Len(calls)
           /\ Answering \in 0..Len(calls)
           /\ \A i \in DOMAIN toServer : toServer[i].call \in 1..Len(calls)
<1>1. Typed /\ Shape /\ Len(calls) \in Nat /\ DOMAIN calls = 1..Len(calls)
  BY Bounds DEF IInv
<1>2. \A j \in DOMAIN calls : calls[j].answer # 0 => calls[j].answer \in DOMAIN calls
  BY DEF IInv, Answered
<1>3. \A j \in DOMAIN calls : calls[j].answer \in 0..Len(calls)
  BY <1>1, <1>2
<1>4. DOMAIN Answers = 1..Len(calls) /\ \A i \in 1..Len(calls) : Answers[i] = calls[i].answer
  BY <1>1 DEF Answers
<1>5. cl.got \in 0..Len(calls) /\ Answering \in 0..Len(calls)
  BY <1>1 DEF Answering, Shape, IInv, Answered
<1>6. \A i \in DOMAIN toClient : toClient[i].call \in 1..Len(calls)
  BY <1>1 DEF IInv, Answered
<1>7. \A i \in DOMAIN toServer : toServer[i].call \in 1..Len(calls)
  BY <1>1 DEF Shape
<1> QED BY <1>1, <1>3, <1>4, <1>5, <1>6, <1>7

\* The calls keep their sizes and answers.
LEMMA SameLine ==
    ASSUME DOMAIN calls' = DOMAIN calls,
           \A i \in DOMAIN calls : calls'[i].size = calls[i].size /\ calls'[i].answer = calls[i].answer
    PROVE  Long' = Long /\ Answers' = Answers
<1>1. Long' = {i \in DOMAIN calls' : calls'[i].size = "long"}
  BY DEF Long
<1>2. Answers' = [i \in DOMAIN calls' |-> calls'[i].answer]
  BY DEF Answers
<1> QED BY <1>1, <1>2 DEF Long, Answers

\* A step that takes nothing, adds nothing and answers nothing keeps the order.
LEMMA PipelineDropped ==
    ASSUME Pipeline, Long' = Long, Answers' = Answers,
           cl'.got \in {0, cl.got}, Answering' \in {0, Answering},
           toClient' = toClient \/ DOMAIN toClient' = {},
           toServer' = toServer \/ DOMAIN toServer' = {}
    PROVE  Pipeline'
<1>1. InLine(Long, Answers, cl.got, toClient, Answering, toServer)
  BY DEF Pipeline
<1>2. ASSUME NEW g, g = cl'.got, NEW n, n = Answering', NEW rs, rs = toClient',
             NEW qs, qs = toServer', NEW L, L = Long', NEW a, a = Answers'
      PROVE  Pipeline'
  <2>1. InLine(L, a, g, rs, n, qs)
    BY <1>1, <1>2, LineDropped
  <2> QED BY <1>2, <2>1, LineNext
<1> QED BY <1>2

\* The end of a call with the reply that is held, or with nothing.
LEMMA PipelineReturned ==
    ASSUME IInv, NEW g \in 0..Len(calls), NEW rs, Returned(g), InCall, calls[Len(calls)].answer = 0,
           InLine(Long, Answers, g, rs, Answering, toServer),
           g # 0 => \A i \in DOMAIN rs : Earlier(Long, g, rs[i].call),
           toClient' = rs, UNCHANGED <<d, toServer>>
    PROVE  Pipeline'
<1> DEFINE m == Len(calls)
<1>1. /\ m \in Nat /\ DOMAIN Answers = 1..m /\ DOMAIN calls = 1..m
      /\ \A i \in 1..m : Answers[i] = calls[i].answer /\ Answers[i] \in 0..m
  BY LineFacts
<1>2. m # 0 /\ Answers[m] = 0
  BY <1>1 DEF Returned
<1>3. Long' = Long
  BY DEF Long, Returned
<1>4. DOMAIN Answers' = 1..m /\ \A i \in 1..m : Answers'[i] = IF i = m THEN g ELSE Answers[i]
  <2>1. Answers' = [i \in DOMAIN calls' |-> calls'[i].answer]
    BY DEF Answers
  <2> QED BY <1>1, <2>1 DEF Returned
<1>5. Answering' = Answering /\ cl'.got = 0
  BY DEF Returned, Answering, Busy
<1>6. InLine(Long, Answers', 0, rs, Answering, toServer)
  <2>1. ASSUME NEW a2, a2 = Answers' PROVE InLine(Long, a2, 0, rs, Answering, toServer)
    <3>1. DOMAIN a2 = 1..m /\ \A i \in 1..m : a2[i] = IF i = m THEN g ELSE Answers[i]
      BY <1>4, <2>1
    <3>2. g \in 0..m /\ \A i \in DOMAIN rs : g # 0 => Earlier(Long, g, rs[i].call)
      OBVIOUS
    <3> HIDE DEF m
    <3>3. \A i \in 1..m : Answers[i] \in Nat
      BY <1>1
    <3> QED BY <1>1, <1>2, <3>1, <3>2, <3>3, LineReturned
  <2> QED BY <2>1
<1>7. ASSUME NEW a2, a2 = Answers', NEW L, L = Long', NEW n, n = Answering', NEW qs, qs = toServer',
             NEW g2, g2 = cl'.got
      PROVE  Pipeline'
  <2>1. InLine(L, a2, g2, rs, n, qs)
    BY <1>3, <1>5, <1>6, <1>7
  <2> QED BY <1>7, <2>1, LineNext
<1> QED BY <1>7

\* The daemon takes a request.
LEMMA PipelineTaken ==
    ASSUME IInv, Pipeline, TakeRequest
    PROVE  Pipeline'
<1>0. Typed /\ ~Busy /\ Answering = 0 /\ Sorted(toServer)
  BY DEF TakeRequest, IInv, Queued, Answering, Busy
<1>1. PICK k \in DOMAIN toServer :
         /\ d' = [at |-> "process", batch |-> SubSeq(toServer, 1, k), call |-> toServer[k].call]
         /\ toServer' = Rest(toServer, k)
  BY DEF TakeRequest
<1>2. Long' = Long /\ Answers' = Answers /\ cl'.got = cl.got /\ toClient' = toClient
  BY SameLine DEF TakeRequest, clientVars
<1>3. Answering' = toServer[k].call
  BY <1>1 DEF Answering, Busy
<1>4. ASSUME NEW qs, qs = toServer', NEW i \in DOMAIN qs
      PROVE  \E j \in DOMAIN toServer :
                qs[i] = toServer[j] /\ Earlier(Long, toServer[k].call, toServer[j].call)
  <2>1. k + i \in DOMAIN toServer /\ qs[i] = toServer[k + i] /\ k < k + i
    <3>1. qs = Rest(toServer, k) /\ toServer \in Seq(Part)
      BY <1>0, <1>1, <1>4 DEF Typed
    <3>2. qs \in Seq(Part) /\ k + i \in DOMAIN toServer /\ qs[i] = toServer[k + i]
      BY <1>4, <3>1, RestOf
    <3>3. i \in Nat \ {0} /\ k \in Nat
      BY <1>0, <1>4, <3>2, Bounds, StreamIs
    <3> QED BY <3>2, <3>3
  <2>2. Precedes(toServer[k], toServer[k + i])
    BY <1>0, <2>1 DEF Sorted
  <2>3. toServer[k].part = "head" => toServer[k].call \in Long
    <3>1. Due(toServer[k])
      BY DEF IInv, Queued
    <3>2. toServer[k].call \in DOMAIN calls /\ calls[toServer[k].call].size \in Sizes
      BY <1>0, <3>1, Bounds DEF Due
    <3> QED BY <3>1, <3>2 DEF Due, Long, Sizes
  <2>4. Earlier(Long, toServer[k].call, toServer[k + i].call)
    BY <2>2, <2>3 DEF Precedes, Earlier
  <2> QED BY <2>1, <2>4
<1>5. InLine(Long, Answers, cl.got, toClient, 0, toServer)
  BY <1>0 DEF Pipeline
<1>6. ASSUME NEW qs, qs = toServer', NEW L, L = Long', NEW a, a = Answers', NEW g, g = cl'.got,
             NEW rs, rs = toClient', NEW n, n = Answering'
      PROVE  Pipeline'
  <2>1. InLine(Long, Answers, cl.got, toClient, toServer[k].call, qs)
    BY <1>4, <1>5, <1>6, LineTaken
  <2>2. InLine(L, a, g, rs, n, qs)
    BY <1>2, <1>3, <1>6, <2>1
  <2> QED BY <1>6, <2>2, LineNext
<1> QED BY <1>6

\* The daemon sends its reply.
LEMMA PipelineSent ==
    ASSUME IInv, Pipeline, SendReply
    PROVE  Pipeline'
<1>0. Typed /\ Shape /\ d.at = "send" /\ Answering = d.call /\ d.batch \in Seq(Part)
      /\ toClient \in Seq(Part)
  BY DEF SendReply, IInv, Answering, Busy, Typed, DaemonType
<1>1. Long' = Long /\ Answers' = Answers /\ cl'.got = cl.got /\ toServer' = toServer
  BY SameLine DEF SendReply
<1>2. Answering' = 0
  BY DEF SendReply, Ends, Answering, Busy
<1>3. CASE toClient' = toClient
  BY <1>1, <1>2, <1>3, PipelineDropped
<1>4. CASE toClient' # toClient
  <2>1. toClient' = toClient \o d.batch /\ clientEnd \notin Gone
    BY <1>4 DEF SendReply
  <2>2. d.call \in Nat \ {0} /\ ReplyShape(d.batch) /\ \A i \in DOMAIN d.batch : d.batch[i].call = d.call
    BY <1>0, <2>1, Bounds DEF IInv, Queued, Gone
  <2>3. InLine(Long, Answers, cl.got, toClient \o d.batch, 0, toServer)
    BY <1>0, <2>2, LineReplied DEF Pipeline
  <2>4. ASSUME NEW qs, qs = toServer', NEW L, L = Long', NEW a, a = Answers', NEW g, g = cl'.got,
               NEW rs, rs = toClient', NEW n, n = Answering'
        PROVE  Pipeline'
    <3>1. InLine(L, a, g, rs, n, qs)
      BY <1>1, <1>2, <2>1, <2>3, <2>4
    <3> QED BY <2>4, <3>1, LineNext
  <2> QED BY <2>4
<1> QED BY <1>3, <1>4

\* The client takes a reply.
LEMMA PipelineReceived ==
    ASSUME IInv, Pipeline, Receive
    PROVE  Pipeline'
<1>0. Typed /\ Shape /\ InCall /\ cl.got = 0 /\ toClient \in Seq(Part) /\ UNCHANGED <<d, toServer>>
  BY DEF Receive, IInv, InCall, Answered, Typed, daemonVars
<1>1. PICK k \in DOMAIN toClient :
         /\ toClient' = Rest(toClient, k)
         /\ IF toClient[k].part = "head"
            THEN /\ cl' = [cl EXCEPT !.at = "filling", !.got = toClient[k].call]
                 /\ UNCHANGED calls
            ELSE ReturnReply(toClient[k].call)
  BY DEF Receive
<1>2. toClient[k].call \in 1..Len(calls) /\ toClient[k].call # 0 /\ toClient[k].call \in 0..Len(calls)
  BY LineFacts
<1>3. ASSUME NEW rs, rs = toClient'
      PROVE  /\ InLine(Long, Answers, toClient[k].call, rs, Answering, toServer)
             /\ toClient[k].part # "head" =>
                   \A i \in DOMAIN rs : Earlier(Long, toClient[k].call, rs[i].call)
  <2>1. InLine(Long, Answers, 0, toClient, Answering, toServer)
    BY <1>0 DEF Pipeline
  <2>2. /\ rs \in Seq(Part) /\ \A i \in DOMAIN rs : k + i \in DOMAIN toClient /\ rs[i] = toClient[k + i]
    BY <1>0, <1>1, <1>3, RestOf
  <2>3. k \in Nat /\ \A i \in DOMAIN rs : i \in Nat \ {0}
    BY <1>0, <2>2, StreamIs, Bounds
  <2>4. \A i \in DOMAIN rs : \E j \in DOMAIN toClient : k < j /\ rs[i] = toClient[j]
    <3> SUFFICES ASSUME NEW i \in DOMAIN rs
                 PROVE  \E j \in DOMAIN toClient : k < j /\ rs[i] = toClient[j]
      OBVIOUS
    <3>1. k < k + i
      BY <2>3
    <3> QED BY <2>2, <3>1
  <2>5. \A i, j \in DOMAIN rs :
           i < j => \E x, y \in DOMAIN toClient : x < y /\ rs[i] = toClient[x] /\ rs[j] = toClient[y]
    <3> SUFFICES ASSUME NEW i \in DOMAIN rs, NEW j \in DOMAIN rs, i < j
                 PROVE  \E x, y \in DOMAIN toClient :
                           x < y /\ rs[i] = toClient[x] /\ rs[j] = toClient[y]
      OBVIOUS
    <3>1. k + i < k + j
      BY <2>3
    <3> QED BY <2>2, <3>1
  <2> QED BY <1>2, <2>1, <2>4, <2>5, LineHeld
<1>4. CASE toClient[k].part = "head"
  <2>1. Long' = Long /\ Answers' = Answers
    BY <1>1, <1>4, SameLine
  <2>2. cl'.got = toClient[k].call /\ Answering' = Answering
    BY <1>0, <1>1, <1>4 DEF Answering, Busy, Typed, ClientType
  <2>3. ASSUME NEW qs, qs = toServer', NEW L, L = Long', NEW a, a = Answers', NEW g, g = cl'.got,
               NEW rs, rs = toClient', NEW n, n = Answering'
        PROVE  Pipeline'
    <3>1. InLine(Long, Answers, toClient[k].call, rs, Answering, toServer)
      BY <1>3, <2>3
    <3>2. InLine(L, a, g, rs, n, qs)
      BY <1>0, <2>1, <2>2, <2>3, <3>1
    <3> QED BY <2>3, <3>2, LineNext
  <2> QED BY <2>3
<1>5. CASE toClient[k].part # "head"
  <2>1. ReturnReply(toClient[k].call) /\ toClient[k].call \in 0..MaxCalls
    BY <1>0, <1>1, <1>5, StreamIs
  <2>2. Returned(toClient[k].call)
    BY <1>0, <2>1, Returning
  <2>3. calls[Len(calls)].answer = 0
    BY <1>0, <2>2 DEF IInv, Answered, Returned
  <2>4. ASSUME NEW rs, rs = toClient', NEW g, g = toClient[k].call
        PROVE  Pipeline'
    <3>1. /\ InLine(Long, Answers, g, rs, Answering, toServer)
          /\ g # 0 => \A i \in DOMAIN rs : Earlier(Long, g, rs[i].call)
          /\ g \in 0..Len(calls) /\ Returned(g)
      BY <1>2, <1>3, <1>5, <2>2, <2>4
    <3> QED BY <1>0, <2>3, <2>4, <3>1, PipelineReturned
  <2> QED BY <2>4
<1> QED BY <1>4, <1>5

\* The client takes what arrives while it waits for more, or makes do with what it has.
LEMMA PipelineEnded ==
    ASSUME IInv, Pipeline, Fill \/ GiveUp
    PROVE  Pipeline'
<1>0. Typed /\ Shape /\ InCall /\ UNCHANGED <<d, toServer>> /\ Answering' = Answering
  BY DEF Fill, GiveUp, IInv, InCall, daemonVars, Answering, Busy
<1>1. CASE Fill
  <2> DEFINE k == Len(toClient)
  <2>1. k \in DOMAIN toClient /\ DOMAIN toClient' = {}
    BY <1>0, <1>1, StreamIs, EmptySeq DEF Fill, Typed
  <2>2. Long' = Long /\ Answers' = Answers /\ cl'.got = toClient[k].call
    BY <1>0, <1>1, SameLine DEF Fill, Typed, ClientType
  <2>3. ASSUME NEW qs, qs = toServer', NEW L, L = Long', NEW a, a = Answers', NEW g, g = cl'.got,
               NEW rs, rs = toClient', NEW n, n = Answering'
        PROVE  Pipeline'
    <3>1. InLine(Long, Answers, toClient[k].call, rs, Answering, toServer)
      BY <2>1, <2>3, LineFilled DEF Pipeline
    <3>2. InLine(L, a, g, rs, n, qs)
      BY <1>0, <2>2, <2>3, <3>1
    <3> QED BY <2>3, <3>2, LineNext
  <2> QED BY <2>3
<1>2. CASE GiveUp
  <2>1. PICK c \in {0, cl.got} : c \in 0..MaxCalls /\ Returned(c)
    BY <1>2, GiveUpReturns
  <2>2. toClient' = toClient /\ DOMAIN toClient = {}
    BY <1>0, <1>2, StreamIs DEF GiveUp, Typed
  <2>3. InLine(Long, Answers, c, toClient, Answering, toServer)
    BY <2>1, LineDropped DEF Pipeline
  <2>4. c \in 0..Len(calls)
    BY <2>1, LineFacts
  <2>5. calls[Len(calls)].answer = 0
    BY <1>0, <2>1 DEF IInv, Answered, Returned
  <2>6. ASSUME NEW rs, rs = toClient' PROVE Pipeline'
    <3>1. /\ InLine(Long, Answers, c, rs, Answering, toServer)
          /\ c # 0 => \A i \in DOMAIN rs : Earlier(Long, c, rs[i].call)
      BY <2>2, <2>3, <2>6
    <3> QED BY <1>0, <2>1, <2>4, <2>5, <2>6, <3>1, PipelineReturned
  <2> QED BY <2>6
<1> QED BY <1>1, <1>2

\* The client sends a request.
LEMMA PipelineRequested ==
    ASSUME IInv, Pipeline, NEW op \in Methods, NEW k \in Keys, NEW size \in Sizes, Send(op, k, size)
    PROVE  Pipeline'
<1> DEFINE m == Len(calls)
<1>0. /\ Typed /\ Shape /\ UNCHANGED <<d, toClient>> /\ Answering' = Answering
      /\ cl.got = 0 /\ cl'.got = 0
  BY DEF Send, IInv, daemonVars, Answering, Busy, Answered
<1>1. CASE clientRst
  <2>1. UNCHANGED <<calls, toServer>>
    BY <1>1 DEF Send
  <2>2. Long' = Long /\ Answers' = Answers
    BY <2>1, SameLine
  <2> QED BY <1>0, <2>1, <2>2, PipelineDropped
<1>2. CASE ~clientRst
  <2>1. calls' = Append(calls, Call(op, k, size)) /\ m < MaxCalls /\ m + 1 \in 0..MaxCalls
    BY <1>0, <1>2, Bounds, IpcAssumption DEF Send
  <2>2. /\ m \in Nat /\ DOMAIN calls = 1..m /\ DOMAIN calls' = 1..(m + 1)
        /\ \A i \in 1..m : calls'[i] = calls[i]
        /\ calls'[m + 1] = Call(op, k, size)
    <3>1. Call(op, k, size) \in CallRec
      BY IpcAssumption DEF Call, CallRec, Verdicts, Outcomes, Sizes
    <3> QED BY <1>0, <2>1, <3>1, Bounds, AppendProperties, LenProperties DEF Typed
  <2>3. calls'[m + 1].answer = 0
    BY <2>2 DEF Call
  <2>4. Long \subseteq Long'
    BY <2>2 DEF Long
  <2>5. /\ DOMAIN Answers' = 1..(m + 1) /\ Answers'[m + 1] = 0
        /\ \A i \in 1..m : Answers'[i] = Answers[i]
    <3>1. Answers' = [i \in DOMAIN calls' |-> calls'[i].answer]
      BY DEF Answers
    <3> QED BY <2>2, <2>3, <3>1 DEF Answers
  <2>6. ASSUME NEW qs, qs = toServer', NEW i \in DOMAIN qs
        PROVE  (\E j \in DOMAIN toServer : qs[i] = toServer[j]) \/ qs[i].call = m + 1
    <3>1. CASE DaemonGone
      BY <1>2, <2>6, <3>1 DEF Send
    <3>2. CASE ~DaemonGone
      <4>1. qs = toServer \o Parts(m + 1, size)
        BY <1>2, <2>6, <3>2 DEF Send
      <4>2. /\ Parts(m + 1, size) \in Seq(Part)
            /\ \A j \in DOMAIN Parts(m + 1, size) : Parts(m + 1, size)[j].call = m + 1
        BY <2>1, PartsOf
      <4> QED BY <1>0, <2>6, <4>1, <4>2, AddedTo DEF Typed
    <3> QED BY <3>1, <3>2
  <2>7. ASSUME NEW qs, qs = toServer', NEW L, L = Long', NEW a, a = Answers', NEW g, g = cl'.got,
               NEW rs, rs = toClient', NEW n, n = Answering'
        PROVE  Pipeline'
    <3>1. InLine(Long, Answers, cl.got, toClient, Answering, toServer)
      BY DEF Pipeline
    <3>2. /\ DOMAIN Answers = 1..m /\ \A i \in 1..m : Answers[i] \in 0..m
          /\ cl.got \in 0..m
          /\ \A i \in DOMAIN toClient : toClient[i].call \in 1..m
          /\ Answering \in 0..m
          /\ \A i \in DOMAIN toServer : toServer[i].call \in 1..m
      BY LineFacts
    <3>3. DOMAIN a = 1..(m + 1) /\ a[m + 1] = 0 /\ \A i \in 1..m : a[i] = Answers[i]
      BY <2>5, <2>7
    <3>4. \A i \in DOMAIN qs : (\E j \in DOMAIN toServer : qs[i] = toServer[j]) \/ qs[i].call = m + 1
      BY <2>6, <2>7
    <3>5. InLine(L, a, cl.got, toClient, Answering, qs)
      <4>1. Long \subseteq L /\ m \in Nat
        BY <2>2, <2>4, <2>7
      <4> HIDE DEF m
      <4>2. InLine(L, a, cl.got, toClient, Answering, toServer)
        BY <3>1, <3>2, <3>3, <4>1, LineGrown
      <4>3. \A i \in DOMAIN a : a[i] \in 0..m
        BY <3>2, <3>3, <4>1
      <4> QED BY <3>2, <3>4, <4>1, <4>2, <4>3, LineJoined
    <3>6. InLine(L, a, g, rs, n, qs)
      BY <1>0, <2>7, <3>5
    <3> QED BY <2>7, <3>6, LineNext
  <2> QED BY <2>7
<1> QED BY <1>1, <1>2

\* The other steps of the client and the daemon.
LEMMA PipelineRest ==
    ASSUME IInv, Pipeline,
           \/ Disconnect \/ ClientCrash \/ Connect
           \/ RecvFails \/ EndOfStream \/ InstallHandler \/ Interrupt \/ DaemonFails
           \/ ProcessGarbage \/ ProcessGet \/ ProcessPut \/ ProcessRemove \/ ProcessSet
    PROVE  Pipeline'
<1>0. Typed /\ Shape /\ (~Busy => d.call = 0) /\ (cl.at # "filling" => cl.got = 0)
  BY DEF IInv, Shape, Answered
<1>1. CASE Disconnect \/ Connect \/ RecvFails \/ EndOfStream \/ InstallHandler \/ Interrupt \/ DaemonFails
  <2>1. UNCHANGED calls
    BY <1>1 DEF Disconnect, Connect, RecvFails, EndOfStream, InstallHandler, Interrupt, DaemonFails
  <2>2. Long' = Long /\ Answers' = Answers
    BY <2>1, SameLine
  <2>3. cl'.got \in {0, cl.got}
    BY <1>1 DEF Disconnect, Connect, RecvFails, EndOfStream, InstallHandler, Interrupt, DaemonFails,
                clientVars
  <2>4. Answering' \in {0, Answering}
    <3>1. CASE RecvFails
      BY <3>1 DEF RecvFails, Answering
    <3>2. CASE EndOfStream \/ DaemonFails
      <4>1. d' = [d EXCEPT !.at = "accept"] \/ Ends("stopped") \/ Ends("killed")
        BY <3>2 DEF EndOfStream, DaemonFails
      <4>2. d \in DaemonType
        BY <1>0 DEF Typed
      <4>3. d'.at \notin {"process", "send"}
        BY <4>1, <4>2 DEF Ends, DaemonType
      <4> QED BY <4>3 DEF Answering, Busy
    <3>3. CASE Connect
      <4>1. d' = [d EXCEPT !.at = IF running THEN "receive" ELSE "stopped"] /\ d \in DaemonType
        BY <1>0, <3>3 DEF Connect, Typed
      <4>2. d'.at \notin {"process", "send"}
        BY <4>1 DEF DaemonType
      <4> QED BY <4>2 DEF Answering, Busy
    <3>4. CASE Disconnect \/ InstallHandler \/ Interrupt
      BY <3>4 DEF Disconnect, InstallHandler, Interrupt, daemonVars, Answering, Busy
    <3> QED BY <1>1, <3>1, <3>2, <3>3, <3>4
  <2>5. /\ toClient' = toClient \/ DOMAIN toClient' = {}
        /\ toServer' = toServer \/ DOMAIN toServer' = {}
    BY <1>1, EmptySeq
    DEF Disconnect, Connect, RecvFails, EndOfStream, InstallHandler, Interrupt, DaemonFails
  <2> QED BY <2>2, <2>3, <2>4, <2>5, PipelineDropped
<1>2. CASE ClientCrash
  <2>1. /\ DOMAIN calls' = DOMAIN calls
        /\ \A i \in DOMAIN calls :
              calls'[i].size = calls[i].size /\ calls'[i].answer = calls[i].answer
    <3>1. /\ calls' = [i \in DOMAIN calls |-> IF calls[i].outcome = "pending"
                                              THEN [calls[i] EXCEPT !.outcome = "nothing"] ELSE calls[i]]
          /\ \A i \in DOMAIN calls : calls[i] \in CallRec
      BY <1>0, <1>2, Bounds DEF ClientCrash
    <3> QED BY <3>1 DEF CallRec
  <2>2. Long' = Long /\ Answers' = Answers
    BY <2>1, SameLine
  <2>3. cl'.got = 0 /\ UNCHANGED <<d, toServer, toClient>>
    BY <1>2 DEF ClientCrash
  <2> QED BY <2>2, <2>3, PipelineDropped DEF Answering, Busy
<1>3. CASE ProcessGarbage \/ ProcessGet \/ ProcessPut \/ ProcessRemove \/ ProcessSet
  <2>1. PICK verdict \in Verdicts, size \in Sizes : Reply(verdict, size) /\ d.at = "process"
    BY <1>0, <1>3, ProcessIsReply DEF Verdicts
  <2>2. /\ DOMAIN calls' = DOMAIN calls
        /\ d' = [at |-> "send", batch |-> Parts(d.call, size), call |-> d.call]
        /\ \A i \in DOMAIN calls :
              calls'[i] = IF i = d.call THEN [calls[i] EXCEPT !.verdict = verdict] ELSE calls[i]
    BY <1>0, <2>1, ReplyTyped
  <2>3. \A i \in DOMAIN calls :
           calls'[i].size = calls[i].size /\ calls'[i].answer = calls[i].answer
    BY <1>0, <2>2, Bounds DEF CallRec
  <2>4. Long' = Long /\ Answers' = Answers
    BY <2>2, <2>3, SameLine
  <2>5. UNCHANGED <<clientVars, toServer, toClient>>
    BY <1>3 DEF ProcessGarbage, ProcessGet, ProcessPut, ProcessRemove, ProcessSet
  <2>6. Answering' = Answering
    BY <2>1, <2>2 DEF Answering, Busy
  <2> QED BY <2>4, <2>5, <2>6, PipelineDropped DEF clientVars
<1> QED BY <1>1, <1>2, <1>3

\* Every step keeps the order.
LEMMA StepPipeline == IInv /\ Pipeline /\ [Next]_vars => Pipeline'
<1> SUFFICES ASSUME IInv, Pipeline, [Next]_vars PROVE Pipeline'
  OBVIOUS
<1>1. CASE UNCHANGED vars
  <2>1. UNCHANGED <<calls, cl, d, toClient, toServer>>
    BY <1>1 DEF vars
  <2>2. Long' = Long /\ Answers' = Answers
    BY <2>1, SameLine
  <2> QED BY <2>1, <2>2, PipelineDropped DEF Answering, Busy
<1>2. ASSUME NEW op \in Methods, NEW k \in Keys, NEW size \in Sizes, Send(op, k, size)
      PROVE  Pipeline'
  BY <1>2, PipelineRequested
<1> QED BY <1>1, <1>2, PipelineTaken, PipelineSent, PipelineReceived, PipelineEnded, PipelineRest
        DEF Next, ClientStep, DaemonStep, Sizes

\* Replies are taken in the order of the requests they answer, and a call gets another
\* call's reply only after one that skewed the streams (Client::receive).
THEOREM RepliesAreExplained == Spec => []RepliesExplained
<1>1. IInv /\ Pipeline => RepliesExplained
  <2> SUFFICES ASSUME IInv, Pipeline PROVE RepliesExplained
    OBVIOUS
  <2>1. /\ DOMAIN calls = 1..Len(calls) /\ Len(calls) \in Nat /\ DOMAIN Answers = 1..Len(calls)
        /\ \A i \in 1..Len(calls) : Answers[i] = calls[i].answer
    BY LineFacts
  <2>2. RepliesInOrder
    <3> SUFFICES ASSUME NEW j \in DOMAIN calls, calls[j].answer # 0
                 PROVE  /\ calls[j].answer <= j
                        /\ \A i \in 1..(j - 1) :
                              \/ calls[i].answer < calls[j].answer
                              \/ /\ calls[i].answer = calls[j].answer
                                 /\ calls[calls[j].answer].size = "long"
      BY DEF RepliesInOrder
    <3>1. /\ Answers[j] <= j
          /\ \A i \in 1..Len(calls) : i < j => Earlier(Long, Answers[i], Answers[j])
      BY <2>1 DEF Pipeline, InLine
    <3> QED BY <2>1, <3>1 DEF Earlier, Long
  <2>3. OwnReplyUnlessSkewed
    BY DEF IInv, InStep, Calm, OwnReplyUnlessSkewed
  <2> QED BY <2>2, <2>3 DEF RepliesExplained
<1>2. Init => Pipeline
  BY InitIInv
<1> QED BY <1>1, <1>2, StepPipeline, Inductive, PTL DEF Spec

=============================================================================
