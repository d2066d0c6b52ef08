--------------------------- MODULE MCMaintenance ---------------------------
(* Three-bit ids: all the peers belong to bucket 0, which has room for two    *)
(* of them, so that duplicates, a full bucket and evictions meet; the other   *)
(* buckets stay empty.                                                        *)
EXTENDS Maintenance, TLC

CONSTANTS a1, a2, s1, me

MCAddresses == {a1, a2, s1}

MCIdOf == (me :> <<0, 0, 0>>) @@ (a1 :> <<1, 0, 0>>) @@ (a2 :> <<1, 0, 1>>)
             @@ (s1 :> <<1, 1, 0>>)
=============================================================================
