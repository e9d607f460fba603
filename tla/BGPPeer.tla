------------------------------ MODULE BGPPeer ------------------------------
(***************************************************************************)
(* The BGP speaker of one participant controller (pctrl/peer.py) over its  *)
(* three tables (pctrl/rib.py): `input`, every route heard, one per prefix *)
(* and neighbor; `local`, the best route per prefix; `output`, what the    *)
(* participant's own border routers were last told.                        *)
(*                                                                         *)
(* The controller's xrs thread handles one event at a time.  The failure   *)
(* of a neighbor is handled in steps: the routes of the neighbor leave     *)
(* `input` at once (participant_controller.py:694-698), then every one of  *)
(* them is processed as a withdrawal, in the order of a Python set; the    *)
(* tables are visible to other threads in between.                         *)
(***************************************************************************)
EXTENDS BGPRoute, FiniteSets

CONSTANTS
    Offers,      \* the routes neighbors announce
    NoNeighbor   \* no failure is being handled

ASSUME PeerAssumption ==
    /\ Offers \subseteq Route
    /\ NoNeighbor \notin Neighbors

VARIABLES
    input,       \* [Prefixes -> [Neighbors -> route or NoRoute]]
    local,       \* [Prefixes -> route or NoRoute]
    output,      \* [Prefixes -> route or NoRoute]
    downPeer,    \* the failed neighbor being handled, or NoNeighbor
    routeList    \* prefixes whose withdrawal is still to be processed for it

vars == <<input, local, output, downPeer, routeList>>

RoutesTo(p, in) == {in[p][n] : n \in Neighbors} \ {NoRoute}

TypeOK ==
    /\ input \in [Prefixes -> [Neighbors -> Offers \cup {NoRoute}]]
    /\ local \in [Prefixes -> Offers \cup {NoRoute}]
    /\ output \in [Prefixes -> Offers \cup {NoRoute}]
    /\ downPeer \in Neighbors \cup {NoNeighbor}
    /\ routeList \subseteq Prefixes

Init ==
    /\ input = [p \in Prefixes |-> [n \in Neighbors |-> NoRoute]]
    /\ local = [p \in Prefixes |-> NoRoute]
    /\ output = [p \in Prefixes |-> NoRoute]
    /\ downPeer = NoNeighbor
    /\ routeList = {}

-----------------------------------------------------------------------------

\* Slips a maintainer could make in decision_process: the rerun ignores who
\* re-announced; any encoded route replaces the best one; the best route is only
\* ever replaced by a better one.
BestAfterAnnounceNoRerun(p, r, in) ==
    LET best == local[p] IN
    IF best = NoRoute \/ Better(r, best) THEN {r} ELSE {best}

BestAfterAnnounceAnyVmac(p, r, in) ==
    LET best == local[p] IN
    IF best = NoRoute \/ Better(r, best) \/ r.vmac # NoVmac THEN {r} ELSE {best}

\* decision_process for an announcement r, `in` being the input table that already
\* holds it: the routes that may be best now.  While the best route carries no
\* encoding the third branch is never considered (`elif` binds to the second `if`).
BestAfterAnnounce(p, r, in) ==
    LET best == local[p] IN
    IF \/ best = NoRoute
       \/ Better(r, best)
       \/ best.vmac = NoVmac /\ r.vmac # NoVmac
    THEN {r}
    ELSE IF /\ best.vmac # NoVmac
            /\ Better(best, r)
            /\ best.neighbor = r.neighbor
         THEN TopRoutes(RoutesTo(p, in))
         ELSE {best}

\* Slip: a withdrawn best route is kept if there is no other.
BestAfterWithdrawUnlessGone(p, n, in) ==
    IF local[p] # NoRoute /\ local[p].neighbor = n /\ RoutesTo(p, in) # {}
    THEN TopRoutes(RoutesTo(p, in))
    ELSE {local[p]}

\* decision_process for a withdrawal by n.
BestAfterWithdraw(p, n, in) ==
    IF local[p] # NoRoute /\ local[p].neighbor = n
    THEN IF RoutesTo(p, in) = {} THEN {NoRoute} ELSE TopRoutes(RoutesTo(p, in))
    ELSE {local[p]}

-----------------------------------------------------------------------------

\* bgp_update_peer: the new best route is stored and announced, or the prefix is
\* cleared and withdrawn from the routers that had been told of it.
OutputAfter(p, best) ==
    output' = [output EXCEPT ![p] = best]

Idle == downPeer = NoNeighbor

\* {'bgp': {'announce': r}}
Announce(p, r) ==
    /\ Idle
    /\ input' = [input EXCEPT ![p][r.neighbor] = r]
    /\ \E best \in BestAfterAnnounce(p, r, input') :
        /\ local' = [local EXCEPT ![p] = best]
        /\ OutputAfter(p, best)
    /\ UNCHANGED <<downPeer, routeList>>

\* {'bgp': {'withdraw': route of n}}.  For a prefix that was never announced the
\* controller dies in vnh_assignment (module ParticipantController); here the event
\* only has to find something in `input` or `local`.
Withdraw(p, n) ==
    /\ Idle
    /\ RoutesTo(p, input) # {}
    /\ input' = [input EXCEPT ![p][n] = NoRoute]
    /\ \E best \in BestAfterWithdraw(p, n, input') :
        /\ local' = [local EXCEPT ![p] = best]
        /\ OutputAfter(p, best)
    /\ UNCHANGED <<downPeer, routeList>>

\* deal_with_local_failure collects the routes after deleting them: none is left to
\* process.
PeerDownDeleteFirst(n) ==
    /\ Idle
    /\ \E p \in Prefixes : input[p][n] # NoRoute
    /\ input' = [p \in Prefixes |-> [input[p] EXCEPT ![n] = NoRoute]]
    /\ UNCHANGED <<local, output, downPeer, routeList>>

\* {'down': n}: deal_with_local_failure collects and deletes n's routes.
PeerDown(n) ==
    /\ Idle
    /\ \E p \in Prefixes : input[p][n] # NoRoute
    /\ downPeer' = n
    /\ routeList' = {p \in Prefixes : input[p][n] # NoRoute}
    /\ input' = [p \in Prefixes |-> [input[p] EXCEPT ![n] = NoRoute]]
    /\ UNCHANGED <<local, output>>

\* ... and processes a withdrawal for one of them; the last one ends the event.
ProcessDownRoute(p) ==
    /\ p \in routeList
    /\ \E best \in BestAfterWithdraw(p, downPeer, input) :
        /\ local' = [local EXCEPT ![p] = best]
        /\ OutputAfter(p, best)
    /\ routeList' = routeList \ {p}
    /\ downPeer' = IF routeList = {p} THEN NoNeighbor ELSE downPeer
    /\ UNCHANGED input

Next ==
    \/ \E p \in Prefixes, r \in Offers : Announce(p, r)
    \/ \E p \in Prefixes, n \in Neighbors : Withdraw(p, n)
    \/ \E n \in Neighbors : PeerDown(n)
    \/ \E p \in Prefixes : ProcessDownRoute(p)

Spec == Init /\ [][Next]_vars

FairSpec == Spec /\ WF_vars(\E p \in Prefixes : ProcessDownRoute(p))

-----------------------------------------------------------------------------

Best(p) == local[p]
HasBest(p) == local[p] # NoRoute
\* What the neighbor of the best route now advertises.
Current(p) == input[p][local[p].neighbor]

(***************************************************************************)
(* A prefix is only ever routed through a neighbor that still advertises   *)
(* it, except while the failure of that neighbor is being worked off.      *)
(***************************************************************************)
BestIsAdvertised ==
    \A p \in Prefixes : HasBest(p) =>
        \/ Current(p) # NoRoute
        \/ p \in routeList /\ Best(p).neighbor = downPeer

(***************************************************************************)
(* A prefix some neighbor advertises is never left without a best route,   *)
(* not even between two steps of a failure (the input table shrinks for    *)
(* every prefix before the first one is repaired).                         *)
(***************************************************************************)
AdvertisedIsRouted ==
    \A p \in Prefixes : RoutesTo(p, input) # {} => HasBest(p)

(***************************************************************************)
(* The border routers have been told exactly the best routes: announced    *)
(* when there is one, withdrawn when the last one went.                    *)
(***************************************************************************)
RoutersKnowBest ==
    \A p \in Prefixes : output[p] = local[p]

(***************************************************************************)
(* decision_process may leave a best route its neighbor has since          *)
(* replaced.  How stale it can be is bounded: what the neighbor advertises *)
(* now is never better; it ties with the stored route if that one is       *)
(* encoded, and if it is not, the replacement is not encoded either.       *)
(***************************************************************************)
StaleBestIsBounded ==
    \A p \in Prefixes :
        HasBest(p) /\ Current(p) # NoRoute /\ Current(p) # Best(p) =>
            /\ ~Better(Current(p), Best(p))
            /\ Best(p).vmac # NoVmac => ~Better(Best(p), Current(p))
            /\ Best(p).vmac = NoVmac => Current(p).vmac = NoVmac

(***************************************************************************)
(* Every input route sits under its own neighbor, a failure is in progress *)
(* exactly as long as withdrawals are pending for it, and the failed       *)
(* neighbor has no input route while it lasts.                             *)
(***************************************************************************)
Keyed ==
    \A p \in Prefixes, n \in Neighbors :
        input[p][n] # NoRoute => input[p][n].neighbor = n

FailureInProgress ==
    /\ downPeer = NoNeighbor <=> routeList = {}
    /\ downPeer # NoNeighbor => \A p \in Prefixes : input[p][downPeer] = NoRoute

(***************************************************************************)
(* The inductive invariant behind the theorems of BGPPeer_proofs.          *)
(***************************************************************************)
IInv ==
    /\ TypeOK
    /\ Keyed
    /\ FailureInProgress
    /\ BestIsAdvertised
    /\ AdvertisedIsRouted
    /\ RoutersKnowBest
    /\ StaleBestIsBounded

(***************************************************************************)
(* Once the failure of a neighbor has been handled, no best route and no   *)
(* route told to the border routers goes through it.                       *)
(***************************************************************************)
NoRouteSurvivesFailure ==
    [][\A p \in Prefixes :
        downPeer # NoNeighbor /\ downPeer' = NoNeighbor =>
            \A r \in {local'[p], output'[p]} : r # NoRoute => r.neighbor # downPeer]_vars

(***************************************************************************)
(* A best route that is still on offer gives way only to one that __cmp__  *)
(* ranks higher, or, when it has no encoding, to one that has.  The ranking *)
(* is the code's, where the HIGHER MED wins (bgp_route.py:36-40); what the *)
(* comment above it says is DisplacedAsDocumented.                         *)
(***************************************************************************)
DisplacedForCause ==
    [][\A p \in Prefixes :
        /\ HasBest(p)
        /\ input'[p][local[p].neighbor] = local[p]
        /\ local'[p] # local[p]
        => /\ local'[p] # NoRoute
           /\ \/ Better(local'[p], local[p])
              \/ local[p].vmac = NoVmac /\ local'[p].vmac # NoVmac]_vars

(***************************************************************************)
(* The same by the decision process as the comment states it: "2. Lowest   *)
(* AS Path Length", "4. Lowest  MED", "7. Lowest Router ID"                *)
(* (bgp_route.py:17-24), the MED "only when advertised by the same AS"     *)
(* (bgp_route.py:35).  The code does otherwise.                            *)
(***************************************************************************)
DisplacedAsDocumented ==
    [][\A p \in Prefixes :
        /\ HasBest(p)
        /\ input'[p][local[p].neighbor] = local[p]
        /\ local'[p] # local[p]
        => /\ local'[p] # NoRoute
           /\ \/ BetterAsDocumented(local'[p], local[p])
              \/ local[p].vmac = NoVmac /\ local'[p].vmac # NoVmac]_vars

=============================================================================
