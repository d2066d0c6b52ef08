----------------------------- MODULE MCTorPeers -----------------------------
(* A small instance of TorPeers: a peer, two workers, two descriptors.  *)
EXTENDS TorPeers

CONSTANTS p1, w1, w2
=============================================================================
