----------------------------- MODULE MCNetwork -----------------------------
(* The four machines at the edge of a node, which share no state: the calls  *)
(* that wait for replies, the start of the daemons of a host, the interfaces *)
(* that carry Reticulum, and the loops that take datagrams.  A behaviour is  *)
(* that of one of them, while the others stay where they begin.              *)
EXTENDS PendingRequests, NodeStart, ReticulumLink, Datagrams

VARIABLE machine

allVars == <<machine, vars, startVars, linkVars, datagramVars>>

NetworkInit ==
    /\ machine \in {"calls", "start", "link", "datagrams"}
    /\ Init /\ StartInit /\ LinkInit /\ DatagramInit
    \* where the choices at the beginning make a difference: two daemons can serve
    \* on one host if it is a debug build, or if the first one is a seed
    /\ machine # "start" => overlay = "tor"
    /\ IF machine = "start"
       THEN host.seeds = IF overlay = "tor" /\ ~host.debug THEN {0} ELSE {}
       ELSE host = [debug |-> FALSE, seeds |-> {}]
    /\ machine # "link" => udp.online
    /\ machine # "datagrams" => medium = "i2p"

Calls == machine = "calls" /\ Next /\ UNCHANGED <<machine, startVars, linkVars, datagramVars>>
Starts == machine = "start" /\ StartNext /\ UNCHANGED <<machine, vars, linkVars, datagramVars>>
Link == machine = "link" /\ LinkNext /\ UNCHANGED <<machine, vars, startVars, datagramVars>>
Datagram == machine = "datagrams" /\ DatagramNext /\ UNCHANGED <<machine, vars, startVars, linkVars>>

NetworkNext == Calls \/ Starts \/ Link \/ Datagram

\* That of each machine; of those that do not run, only the thread of run_i2p
\* could take a step.
NetworkFairness ==
    /\ Fairness
    /\ StartFairness
    /\ WF_datagramVars(machine = "datagrams" /\ RunLoop)
    /\ \A w \in Workers : WF_datagramVars(Handle(w))

NetworkSpec == NetworkInit /\ [][NetworkNext]_allVars /\ NetworkFairness

\* The machines keep their types (PendingRequests, NodeStart, ReticulumLink, and
\* Datagrams state each its own).
NetworkTypeOK == TypeOK /\ StartTypeOK /\ LinkTypeOK /\ DatagramTypeOK

MCPayloads == {<<1>>, <<126, 1>>, <<1, 1, 1>>}
=============================================================================
