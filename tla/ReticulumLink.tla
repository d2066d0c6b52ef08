---------------------------- MODULE ReticulumLink ----------------------------
(***************************************************************************)
(* The interfaces that carry Reticulum: class TCPInterface, a connection to *)
(* a seed that is made again whenever it fails, and class UDPInterface.     *)
(* Their loops are called by one thread, that of Node::run_reticulum; the   *)
(* transport that receives the frames, and the seed, are external.          *)
(*                                                                          *)
(* Bytes are the numbers they are: a frame that holds 0x7E or 0x7D is       *)
(* escaped by the sender and unescaped here, wherever the stream is cut.    *)
(***************************************************************************)
EXTENDS Integers, Sequences, SequencesExt

CONSTANTS
    Payloads,     \* what the seed may send: sequences of bytes
    RxFrameMax,   \* RX_FRAME_MAX
    MaxFrames,    \* bound on the frames sent on a connection
    MaxLinks,     \* bound on the connections
    Datagrams     \* bound on the datagrams that arrive

FRAME_START == 126
FRAME_ESC == 125

ASSUME LinkAssumption ==
    /\ Payloads \subseteq Seq(0..255)
    /\ RxFrameMax \in Nat \ {0}
    /\ MaxFrames \in Nat
    /\ MaxLinks \in Nat
    /\ Datagrams \in Nat

VARIABLES
    tcp,        \* the fields of TCPInterface that its state machine consists of
    rx,         \* those of its parser: inFrame, escaped, frameBuf
    draining,   \* the loop is reading frames
    stream,     \* what the seed has sent and recv has not returned
    hungUp,     \* the seed has closed the connection
    framed,     \* ghost: the frames sent on this connection
    received,   \* the frames handed to the transport on this connection
    links,      \* how many connections have been made
    udp,        \* UDPInterface::_online and the lengths of the datagrams that wait
    heard       \* how many datagrams have been read

seedVars == <<stream, hungUp, framed>>
udpVars == <<udp, heard>>
linkVars == <<tcp, rx, draining, seedVars, received, links, udpVars>>

Fresh == [inFrame |-> FALSE, escaped |-> FALSE, frameBuf |-> <<>>]

\* add_tcp_client calls start, which begins to connect at the first tick here;
\* nobody asks whether udp_interface.start has succeeded.
LinkInit ==
    /\ tcp = [state |-> "idle", socket |-> FALSE, attempt |-> "due", lastRx |-> "never"]
    /\ rx = Fresh
    /\ draining = FALSE
    /\ stream = <<>>
    /\ hungUp = FALSE
    /\ framed = <<>>
    /\ received = <<>>
    /\ links = 0
    /\ udp \in [online : BOOLEAN, inbox : {<<>>}]
    /\ heard = 0

----------------------------------------------------------------------------
(* Framing: sendFrame on one side, readFrame on the other.                  *)

Xor(b) == IF (b \div 32) % 2 = 1 THEN b - 32 ELSE b + 32      \* FRAME_XOR

Escaped(b) ==
    IF b \in {FRAME_START, FRAME_ESC} THEN <<FRAME_ESC, Xor(b)>> ELSE <<b>>

Framed(payload) ==
    <<FRAME_START>> \o FlattenSeq([i \in DOMAIN payload |-> Escaped(payload[i])])
                    \o <<FRAME_START>>

\* One byte of the chunk. A frame that is complete ends the call: the rest of the
\* chunk is lost, and the parser is left as it is.
AtFlag(p) ==
    IF p.inFrame /\ p.frameBuf # <<>>
    THEN [p EXCEPT !.done = TRUE]
    ELSE [p EXCEPT !.inFrame = TRUE, !.frameBuf = <<>>, !.escaped = FALSE]

AtData(p, b) ==
    IF Len(p.frameBuf) >= RxFrameMax
    THEN [p EXCEPT !.inFrame = FALSE, !.frameBuf = <<>>, !.escaped = FALSE]
    ELSE [p EXCEPT !.frameBuf = Append(@, IF p.escaped THEN Xor(b) ELSE b), !.escaped = FALSE]

ReadByte(p, b) ==
    CASE p.done -> p
      [] ~p.done /\ b = FRAME_START -> AtFlag(p)
      [] ~p.done /\ b = FRAME_ESC /\ p.inFrame -> [p EXCEPT !.escaped = TRUE]
      [] ~p.done /\ b \notin {FRAME_START, FRAME_ESC} /\ p.inFrame -> AtData(p, b)
      [] OTHER -> p

\* The parser after these bytes, if it was p before them.
Parse(p, bytes) ==
    LET read[n \in 0..Len(bytes)] == IF n = 0 THEN p ELSE ReadByte(read[n - 1], bytes[n])
    IN read[Len(bytes)]

Parsed(chunk) ==
    Parse([inFrame |-> rx.inFrame, escaped |-> rx.escaped, frameBuf |-> rx.frameBuf,
           done |-> FALSE], chunk)

----------------------------------------------------------------------------
(* TCPInterface::loop.                                                      *)

\* Variant: the socket is not closed.
HangUpLeaking ==
    /\ tcp' = [tcp EXCEPT !.state = "idle", !.attempt = "fresh"]
    /\ rx' = Fresh
    /\ draining' = FALSE
    /\ stream' = <<>>
    /\ UNCHANGED <<hungUp, framed, received, links, udpVars>>

\* Variant: the parser is left as it is.
HangUpMidFrame ==
    /\ tcp' = [tcp EXCEPT !.state = "idle", !.socket = FALSE, !.attempt = "fresh"]
    /\ draining' = FALSE
    /\ stream' = <<>>
    /\ UNCHANGED <<rx, hungUp, framed, received, links, udpVars>>

\* The connection is closed and tried again after the interval.
HangUp ==
    /\ tcp' = [tcp EXCEPT !.state = "idle", !.socket = FALSE, !.attempt = "fresh"]
    /\ rx' = Fresh
    /\ draining' = FALSE
    /\ stream' = <<>>
    /\ UNCHANGED <<hungUp, framed, received, links, udpVars>>

\* What the seed sent on the last connection is gone with it.
NewStream ==
    /\ stream' = <<>>
    /\ hungUp' = FALSE
    /\ framed' = <<>>
    /\ received' = <<>>

\* beginConnect: the name is not resolved or connect fails; the answer is
\* outstanding; or connected at once.
BeginConnect ==
    \/ /\ tcp' = [tcp EXCEPT !.state = "failed", !.socket = FALSE, !.attempt = "fresh"]
       /\ UNCHANGED <<seedVars, received, links>>
    \/ /\ links < MaxLinks
       /\ links' = links + 1
       /\ \E s \in {"connecting", "connected"} :
             tcp' = [tcp EXCEPT !.state = s, !.socket = TRUE, !.attempt = "fresh"]
       /\ NewStream

\* The idle interface waits for TCP_RECONNECT_INTERVAL_MS; a failed one is idle.
TickIdle ==
    /\ ~draining
    /\ tcp.state \in {"idle", "failed"}
    /\ IF tcp.attempt = "due"
       THEN BeginConnect
       ELSE tcp' = [tcp EXCEPT !.state = "idle"] /\ UNCHANGED <<seedVars, received, links>>
    /\ UNCHANGED <<rx, draining, udpVars>>

\* pollConnect: connected or refused; or too late, and then the interval is over
\* as well and the same call begins again.
TickConnecting ==
    /\ ~draining
    /\ tcp.state = "connecting"
    /\ \/ /\ tcp.attempt = "fresh"
          /\ tcp' \in {[tcp EXCEPT !.state = "connected"],
                       [tcp EXCEPT !.state = "idle", !.socket = FALSE]}
          /\ UNCHANGED <<seedVars, received, links>>
       \/ tcp.attempt = "due" /\ BeginConnect
    /\ UNCHANGED <<rx, draining, udpVars>>

\* _lastRxTime is that of the last frame, of whatever connection.
TickConnected ==
    /\ ~draining
    /\ tcp.state = "connected"
    /\ IF tcp.lastRx = "old"
       THEN HangUp
       ELSE draining' = TRUE /\ UNCHANGED <<tcp, rx, seedVars, received, links, udpVars>>

\* recv returns some of what has come.
ReadFrame ==
    /\ draining
    /\ \E n \in 1..Len(stream) :
          LET p == Parsed(SubSeq(stream, 1, n))
          IN /\ stream' = SubSeq(stream, n + 1, Len(stream))
             /\ rx' = [inFrame |-> p.inFrame, escaped |-> p.escaped, frameBuf |-> p.frameBuf]
             /\ draining' = p.done
             /\ IF p.done
                THEN /\ received' = Append(received, p.frameBuf)
                     /\ tcp' = [tcp EXCEPT !.lastRx = "fresh"]
                ELSE UNCHANGED <<received, tcp>>
    /\ UNCHANGED <<hungUp, framed, links, udpVars>>

NothingToRead ==
    /\ draining
    /\ stream = <<>>
    /\ ~hungUp
    /\ draining' = FALSE
    /\ UNCHANGED <<tcp, rx, seedVars, received, links, udpVars>>

ConnectionLost ==
    /\ draining
    /\ stream = <<>>
    /\ hungUp
    /\ HangUp

----------------------------------------------------------------------------
(* UDPInterface::loop: a datagram is read whole, and one without a byte ends *)
(* the call like an empty queue.                                             *)

UdpLoop ==
    /\ udp.online
    /\ udp.inbox # <<>>
    /\ LET Stops == {i \in DOMAIN udp.inbox : udp.inbox[i] = 0}
           k == IF Stops = {} THEN Len(udp.inbox) ELSE CHOOSE i \in Stops : \A j \in Stops : i <= j
       IN /\ udp' = [udp EXCEPT !.inbox = SubSeq(@, k + 1, Len(@))]
          /\ heard' = heard + k
    /\ UNCHANGED <<tcp, rx, draining, seedVars, received, links>>

----------------------------------------------------------------------------
(* The seed and the network, external, and time.                             *)

SeedSends ==
    /\ tcp.state = "connected"
    /\ ~hungUp
    /\ Len(framed) < MaxFrames
    /\ \E payload \in Payloads :
          /\ stream' = stream \o Framed(payload)
          /\ framed' = Append(framed, payload)
    /\ UNCHANGED <<tcp, rx, draining, hungUp, received, links, udpVars>>

\* In an orderly way, or with the loss of what has not been read.
SeedHangsUp ==
    /\ tcp.state = "connected"
    /\ ~hungUp
    /\ hungUp' = TRUE
    /\ stream' \in {stream, <<>>}
    /\ UNCHANGED <<tcp, rx, draining, framed, received, links, udpVars>>

DatagramArrives ==
    /\ udp.online
    /\ heard + Len(udp.inbox) < Datagrams
    /\ \E len \in {0, 1} : udp' = [udp EXCEPT !.inbox = Append(@, len)]
    /\ UNCHANGED <<tcp, rx, draining, seedVars, received, links, heard>>

\* TCP_CONNECT_TIMEOUT_MS and TCP_RECONNECT_INTERVAL_MS are the same five seconds.
IntervalPasses ==
    /\ tcp.attempt = "fresh"
    /\ tcp' = [tcp EXCEPT !.attempt = "due"]
    /\ UNCHANGED <<rx, draining, seedVars, received, links, udpVars>>

KeepalivePasses ==
    /\ tcp.lastRx = "fresh"
    /\ tcp' = [tcp EXCEPT !.lastRx = "old"]
    /\ UNCHANGED <<rx, draining, seedVars, received, links, udpVars>>

----------------------------------------------------------------------------
Loop ==
    \/ TickIdle \/ TickConnecting \/ TickConnected
    \/ ReadFrame \/ NothingToRead \/ ConnectionLost

LinkNext ==
    \/ Loop \/ UdpLoop
    \/ SeedSends \/ SeedHangsUp \/ DatagramArrives
    \/ IntervalPasses \/ KeepalivePasses

LinkSpec == LinkInit /\ [][LinkNext]_linkVars

----------------------------------------------------------------------------
(* Properties.                                                              *)

\* The shape of the state; the socket is open exactly while there is, or may be,
\* a connection, so that select, recv and send never get a closed descriptor.
LinkTypeOK ==
    /\ tcp \in [state : {"idle", "connecting", "connected", "failed"}, socket : BOOLEAN,
                attempt : {"fresh", "due"}, lastRx : {"never", "fresh", "old"}]
    /\ tcp.socket <=> tcp.state \in {"connecting", "connected"}
    /\ rx \in [inFrame : BOOLEAN, escaped : BOOLEAN, frameBuf : Seq(0..255)]
    /\ Len(rx.frameBuf) <= RxFrameMax
    /\ draining => tcp.state = "connected"
    /\ stream \in Seq(0..255)
    /\ hungUp \in BOOLEAN
    /\ framed \in Seq(Payloads)
    /\ received \in Seq(Seq(0..255))
    /\ links \in 0..MaxLinks
    /\ udp \in [online : BOOLEAN, inbox : Seq({0, 1})]
    /\ heard \in 0..Datagrams

\* The first frame a connection hands to the transport is the first one the seed
\* has sent on it that readFrame has room for: escapes are undone across the
\* boundaries of the chunks, and nothing of an earlier connection is left in the
\* parser (sendFrame, readFrame, and the resets in loop).
FirstFrameExact ==
    received # <<>> =>
        \E i \in DOMAIN framed :
            /\ received[1] = framed[i]
            /\ \A j \in 1..(i - 1) : framed[j] = <<>> \/ Len(framed[j]) > RxFrameMax
=============================================================================
