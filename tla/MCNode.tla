------------------------------ MODULE MCNode -------------------------------
(* The two machines inside a node that share no state: the threads that keep *)
(* its routing table, and the requests on its tables.  A behaviour is that   *)
(* of one of them, while the other stays where it begins.                    *)
EXTENDS MCMaintenance, MCNodeStore

VARIABLE machine

nodeVars == <<machine, vars, storeVars>>

NodeInit == machine \in {"maintenance", "store"} /\ Init /\ StoreInit

Maintain == machine = "maintenance" /\ Next /\ UNCHANGED <<machine, storeVars>>
Store == machine = "store" /\ StoreNext /\ UNCHANGED <<machine, vars>>

NodeNext == Maintain \/ Store

\* That of each machine: the threads of Maintenance would never stop stepping.
NodeFairness ==
    /\ WF_vars(machine = "maintenance" /\ Heartbeat)
    /\ SF_vars(machine = "maintenance" /\ HeartbeatWait)
    /\ SF_vars(machine = "maintenance" /\ HeartbeatWake)
    /\ WF_vars(machine = "maintenance" /\ Refresh)
    /\ \A t \in Threads : WF_storeVars(machine = "store" /\ Continue(t))

NodeSpec == NodeInit /\ [][NodeNext]_nodeVars /\ NodeFairness
=============================================================================
