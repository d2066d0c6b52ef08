------------------------------ MODULE MCMarket ------------------------------
(* The two machines above a node's store, which share no state: the key that  *)
(* a node spreads over its peers, and the shop of the user.  A behaviour is   *)
(* that of one of them, while the other stays where it begins.                *)
EXTENDS MCReplication, MCShop

VARIABLE machine

marketVars == <<machine, replicationVars, vars>>

MarketInit ==
    /\ machine \in {"replication", "shop"}
    /\ ReplicationInit
    /\ Init
    /\ machine # "shop" => mapped = {}

Replicates ==
    /\ machine = "replication"
    /\ ReplicationNext
    /\ UNCHANGED <<machine, vars>>

Shops ==
    /\ machine = "shop"
    /\ Next
    /\ UNCHANGED <<machine, replicationVars>>

MarketNext == Replicates \/ Shops

MarketSpec == MarketInit /\ [][MarketNext]_marketVars

\* The two peers may be swapped, and the two listings with their sellers; one swap of
\* all does: the machine that stays where it begins is the same after it.
MarketSymmetry ==
    {p @@ q : <<p, q>> \in {r \in MCSymmetry \X Symmetry : r[1][p2] = p2 <=> r[2][l1] = l1}}
=============================================================================
