------------------------------ MODULE MCBurst -------------------------------
(* All paths begin in AS 1, the participant; <<1, 2, 2, 5>> is prepended.   *)
(* The link from 1 to 2 has no codes, as depth 1 never has.                 *)
EXTENDS Burst, TLC

MCPaths == {<<1, 2, 3>>, <<1, 2, 4>>, <<1, 2, 2, 5>>}
MCEncoded == {[link |-> <<2, 3>>, depth |-> 2], [link |-> <<2, 5>>, depth |-> 3]}
MCSymmetry == Permutations(Prefixes)
=============================================================================
