--------------------------- MODULE MCReplication ---------------------------
(* Three peers and two copies to make, so that a replacement may be found, or *)
(* too few.  Two peers are interchangeable; the third is evicted, announces   *)
(* itself, gains and loses values.                                            *)
EXTENDS Replication, TLC

CONSTANTS p1, p2, p3

MCPeers == {p1, p2, p3}
MCSymmetry == Permutations({p2, p3})
=============================================================================
