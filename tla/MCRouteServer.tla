--------------------------- MODULE MCRouteServer ---------------------------
(* Participant A advertises through port a1; B and C listen, and only B     *)
(* peers with A.  The runs choose who may connect and how often.            *)
EXTENDS RouteServer, TLC

CONSTANTS pA, pB, pC, a1, ca1, ca2, cb1, cc1, x, y

MCConnOf == [c \in Conns |-> IF c \in {ca1, ca2} THEN pA
                             ELSE IF c = cb1 THEN pB ELSE pC]
MCOwnerOf == [k \in Ports |-> pA]
MCPeersIn == [p \in Participants |-> IF p = pB THEN {pA} ELSE {}]
MCPeersOut == [p \in Participants |-> IF p = pA THEN {pB, pC} \cap Participants ELSE {}]

Symmetry == Permutations(Prefixes)
=============================================================================
