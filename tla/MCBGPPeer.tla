----------------------------- MODULE MCBGPPeer -----------------------------
(***************************************************************************)
(* Instances of BGPPeer.  Routers 1 and 2 belong to AS 10, router 3 to AS  *)
(* 20.  Two prefixes of AS 40.                                             *)
(***************************************************************************)
EXTENDS BGPPeer, TLC

CONSTANTS p1, p2, v1

MCPaths == {<<10, 40>>, <<10, 30, 40>>, <<20, 40>>, <<20, 50, 40>>, <<20, 30, 40>>}

Offer(n, path, med, vmac) ==
    [neighbor |-> n, as_path |-> path, med |-> med, vmac |-> vmac]

\* Encoded and not encoded, shorter and longer, two MEDs within AS 10, and two
\* different paths of router 3 that tie.
MixedOffers ==
    {Offer(1, <<10, 30, 40>>, 0, v1), Offer(1, <<10, 30, 40>>, 0, NoVmac),
     Offer(2, <<10, 30, 40>>, 1, v1), Offer(2, <<10, 40>>, 0, NoVmac),
     Offer(3, <<20, 50, 40>>, 0, v1), Offer(3, <<20, 30, 40>>, 0, v1),
     Offer(3, <<20, 40>>, 0, NoVmac), Offer(3, <<20, 30, 40>>, 0, NoVmac)}

Symmetry == Permutations({p1, p2})
=============================================================================
