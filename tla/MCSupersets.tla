---------------------------- MODULE MCSupersets ----------------------------
(* Three prefixes that are all alike, three participants, one of which is  *)
(* not a peer; room for supersets of two, or of one if there are three.    *)
EXTENDS Supersets, TLC

To(c, q) == [cookie |-> c, fwd |-> q]

MCPolicies == {To(1, 1), To(2, 2), To(3, 2), To(4, 3)}

MCChanges ==
    {[removed |-> {2}, added |-> {}], [removed |-> {1}, added |-> {To(4, 1)}]}

Alike == Permutations(Prefixes)
=============================================================================
