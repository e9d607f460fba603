---------------------- MODULE MCParticipantController ----------------------
(***************************************************************************)
(* Instances of ParticipantController.  Routers 1 and 4 are participant    *)
(* B's, 2 is C's and 3 is D's; all of them reach AS 40.                    *)
(***************************************************************************)
EXTENDS ParticipantController, TLC

CONSTANTS p1, p2, v1, v2, B, C, D

MCPartOf == [n \in Neighbors |-> CASE n \in {1, 4} -> B [] n = 2 -> C [] n = 3 -> D]

MCPaths == {<<10, 30, 40>>, <<10, 60, 40>>, <<10, 40>>, <<20, 30, 40>>, <<20, 40>>,
            <<50, 60, 40>>}

Offer(n, path, vmac) ==
    [neighbor |-> n, as_path |-> path, med |-> 0, vmac |-> vmac]

\* B's paths share a link each with C's and D's, and B changes to a shorter one.
EncodedOffers ==
    {Offer(1, <<10, 30, 40>>, v1), Offer(1, <<10, 40>>, v2),
     Offer(2, <<20, 30, 40>>, v1), Offer(3, <<50, 60, 40>>, v1)}

\* B's other router announces a route without an encoding.
MixedOffers ==
    {Offer(1, <<10, 30, 40>>, v1), Offer(2, <<20, 30, 40>>, v1),
     Offer(3, <<50, 60, 40>>, v1), Offer(4, <<10, 60, 40>>, NoVmac)}

\* A prefix that both advertise may be in no superset.
MCMisfits == {{C, D}}

Symmetry == Permutations({p1, p2})
=============================================================================
