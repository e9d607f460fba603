-------------------------- MODULE MCEncodedRoutes --------------------------
(* Four prefixes; two of the paths share the AS at depth 4 but not the link. *)
EXTENDS EncodedRoutes, TLC

CONSTANTS p1, p2, p3, p4

MCPaths == {<<1, 2, 3, 4>>, <<1, 2, 3, 5>>, <<1, 2, 8, 6>>, <<1, 2, 8, 7>>}

Symmetry == Permutations(Prefixes)
=============================================================================
