------------------------------- MODULE MCShop -------------------------------
(* A small instance of Shop: one account of this computer, one of another,   *)
(* two listings of other sellers and one of the user.                        *)
EXTENDS Shop

CONSTANTS a1, a2, s1, s2, l1, l2, l3

MCSellerOf == (l1 :> s1) @@ (l2 :> s2) @@ (l3 :> a1)

\* The two sellers elsewhere, each with its listing, may be swapped.
Symmetry ==
    {p \in Permutations({l1, l2, s1, s2}) :
        \A l \in {l1, l2} : p[l] \in {l1, l2} /\ p[MCSellerOf[l]] = MCSellerOf[p[l]]}
=============================================================================
