------------------------------- MODULE MCIpc -------------------------------
(* Two keys and three calls: a late error reply has a get of another key to   *)
(* be taken by, and that get's remove to follow it.                           *)
EXTENDS Ipc

CONSTANTS k1, k2
=============================================================================
