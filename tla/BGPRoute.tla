------------------------------ MODULE BGPRoute ------------------------------
(***************************************************************************)
(* BGP routes as a participant controller stores them, and the order its   *)
(* decision process sorts them by (pctrl/bgp_route.py; xrs/bgp_route.py is *)
(* the same class on the route server).                                    *)
(*                                                                         *)
(* Kept: the attributes __cmp__ reads and the SWIFT encoding of the AS     *)
(* path (as_path_vmac), absent (None) until the route server has built an  *)
(* encoding.  Left out: origin, communities, atomic_aggregate, which       *)
(* nothing compares, and next_hop, which an eBGP speaker at the exchange   *)
(* sets to its own address, here the neighbor.                             *)
(***************************************************************************)
EXTENDS Integers, Sequences

CONSTANTS
    Prefixes,    \* IP prefixes
    Neighbors,   \* router addresses; the code orders them as strings, here as numbers
    Paths,       \* AS paths, nonempty sequences of AS numbers
    Meds,        \* multi-exit discriminators
    Vmacs,       \* encodings of an AS path
    NoVmac,      \* as_path_vmac is None
    NoRoute      \* the result of a lookup that finds nothing

ASSUME RouteAssumption ==
    /\ Neighbors \subseteq Nat
    /\ Paths \subseteq Seq(Nat) \ {<<>>}
    /\ Meds \subseteq Nat
    /\ NoVmac \notin Vmacs

Route == [neighbor : Neighbors, as_path : Paths, med : Meds,
          vmac : Vmacs \cup {NoVmac}]

ASSUME NoRouteAssumption == NoRoute \notin Route

-----------------------------------------------------------------------------

\* a > b in the code.  The MED is compared only between routes that enter through
\* the same AS, and there the HIGHER one wins; ties go to the lower neighbor address.
Better(a, b) ==
    \/ Len(a.as_path) < Len(b.as_path)
    \/ /\ Len(a.as_path) = Len(b.as_path)
       /\ \/ /\ a.as_path[1] = b.as_path[1]
             /\ a.med > b.med
          \/ /\ a.as_path[1] = b.as_path[1] => a.med = b.med
             /\ a.neighbor < b.neighbor

\* The order as the comment above __cmp__ lists it: the LOWEST MED wins.
BetterAsDocumented(a, b) ==
    \/ Len(a.as_path) < Len(b.as_path)
    \/ /\ Len(a.as_path) = Len(b.as_path)
       /\ \/ /\ a.as_path[1] = b.as_path[1]
             /\ a.med < b.med
          \/ /\ a.as_path[1] = b.as_path[1] => a.med = b.med
             /\ a.neighbor < b.neighbor

\* The routes `routes.sort(reverse=True); routes[0]` may return.  MEDs make the order
\* intransitive, so the result depends on the order of the list, which comes from a
\* Python set.  A list that insertion sort leaves alone is one where no element is
\* worse than its successor; its head is a route from which every other one is
\* reached along such steps: no set that contains it, short of all of them, fails
\* to have a member that beats an outsider.
TopRoutes(S) ==
    {r \in S : \A T \in SUBSET S :
        (r \in T /\ T # S) => \E t \in T, s \in S \ T : ~Better(s, t)}
=============================================================================
