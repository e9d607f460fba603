----------------------------- MODULE MCEncoding -----------------------------
(* Four prefixes, whose paths differ in the AS at depth 4, so that its three *)
(* codes are used up; one path has a link of another one at another depth.   *)
EXTENDS Encoding, TLC

CONSTANTS p1, p2, p3, p4

MCPaths == {<<1, 2, 3, 4>>, <<1, 2, 3, 5>>, <<1, 2, 3, 6>>, <<1, 2, 3, 7>>, <<1, 3, 4>>}

Symmetry == Permutations(Prefixes)
=============================================================================
