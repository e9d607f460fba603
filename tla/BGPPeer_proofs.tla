--------------------------- MODULE BGPPeer_proofs ---------------------------
(***************************************************************************)
(* Proofs that IInv of BGPPeer is inductive, and the invariants and action *)
(* properties that follow, for every set of prefixes, neighbors and routes.*)
(***************************************************************************)
EXTENDS BGPPeer, TLAPS

LEMMA TopRoutesSubset ==
    ASSUME NEW S
    PROVE  TopRoutes(S) \subseteq S
BY DEF TopRoutes

\* A best route found by a rerun is what its own neighbor advertises.
LEMMA RoutesToKeyed ==
    ASSUME NEW p \in Prefixes,
           NEW in,
           \A n \in Neighbors : in[p][n] # NoRoute => in[p][n].neighbor = n,
           NEW r \in RoutesTo(p, in)
    PROVE  /\ r # NoRoute
           /\ r.neighbor \in Neighbors
           /\ r = in[p][r.neighbor]
BY DEF RoutesTo

LEMMA OfferType ==
    ASSUME NEW r \in Offers
    PROVE  /\ r \in Route
           /\ r # NoRoute
           /\ r.neighbor \in Neighbors
           /\ r.vmac \in Vmacs \cup {NoVmac}
BY PeerAssumption, NoRouteAssumption DEF Route

\* No route is better than itself.
LEMMA BetterIrreflexive ==
    ASSUME NEW r \in Route
    PROVE  ~Better(r, r)
<1>0. /\ r.as_path \in Seq(Nat)
      /\ r.med \in Nat
      /\ r.neighbor \in Nat
  BY RouteAssumption DEF Route
<1>1. Len(r.as_path) \in Nat
  BY <1>0
<1> QED
  BY <1>0, <1>1 DEF Better

LEMMA InitIInv == Init => IInv
<1> SUFFICES ASSUME Init PROVE IInv
  OBVIOUS
<1>1. TypeOK
  BY DEF Init, TypeOK
<1>2. Keyed /\ FailureInProgress
  BY PeerAssumption DEF Init, Keyed, FailureInProgress
<1>3. BestIsAdvertised /\ RoutersKnowBest /\ StaleBestIsBounded
  BY DEF Init, BestIsAdvertised, RoutersKnowBest, StaleBestIsBounded, HasBest
<1>4. AdvertisedIsRouted
  BY DEF Init, AdvertisedIsRouted, RoutesTo
<1> QED
  BY <1>1, <1>2, <1>3, <1>4 DEF IInv

-----------------------------------------------------------------------------

\* What a rerun over the input table yields: an offer, the one its neighbor makes.
LEMMA RerunYieldsCurrent ==
    ASSUME NEW p \in Prefixes,
           NEW in \in [Prefixes -> [Neighbors -> Offers \cup {NoRoute}]],
           \A n \in Neighbors : in[p][n] # NoRoute => in[p][n].neighbor = n,
           NEW best \in TopRoutes(RoutesTo(p, in))
    PROVE  /\ best \in Offers
           /\ best.neighbor \in Neighbors
           /\ in[p][best.neighbor] = best
<1>1. best \in RoutesTo(p, in)
  BY TopRoutesSubset
<1>2. best \in Offers
  BY <1>1 DEF RoutesTo
<1> QED
  BY <1>1, <1>2, RoutesToKeyed

\* What a withdrawal handled for p and n may leave as the best route, the input table
\* being `in`: nothing, an offer on the table, or the old route if not n's.
Repaired(p, n, in, best) ==
    \/ /\ best = NoRoute
       /\ \A m \in Neighbors : in[p][m] = NoRoute
    \/ /\ best \in Offers
       /\ best.neighbor \in Neighbors
       /\ in[p][best.neighbor] = best
    \/ /\ best = local[p]
       /\ best # NoRoute => best.neighbor # n

LEMMA WithdrawOutcome ==
    ASSUME NEW p \in Prefixes, NEW n \in Neighbors,
           NEW in \in [Prefixes -> [Neighbors -> Offers \cup {NoRoute}]],
           \A m \in Neighbors : in[p][m] # NoRoute => in[p][m].neighbor = m,
           NEW best \in BestAfterWithdraw(p, n, in)
    PROVE  Repaired(p, n, in, best)
<1>1. CASE local[p] # NoRoute /\ local[p].neighbor = n
  <2>1. CASE RoutesTo(p, in) = {}
    BY <1>1, <2>1 DEF BestAfterWithdraw, RoutesTo, Repaired
  <2>2. CASE RoutesTo(p, in) # {}
    <3>1. best \in TopRoutes(RoutesTo(p, in))
      BY <1>1, <2>2 DEF BestAfterWithdraw
    <3> QED
      BY <3>1, RerunYieldsCurrent DEF Repaired
  <2> QED
    BY <2>1, <2>2
<1>2. CASE ~(local[p] # NoRoute /\ local[p].neighbor = n)
  BY <1>2 DEF BestAfterWithdraw, Repaired
<1> QED
  BY <1>1, <1>2

\* An announcement of r for p, `in` holding it.
LEMMA AnnounceOutcome ==
    ASSUME NEW p \in Prefixes, NEW r \in Offers,
           NEW in \in [Prefixes -> [Neighbors -> Offers \cup {NoRoute}]],
           \A n \in Neighbors : in[p][n] # NoRoute => in[p][n].neighbor = n,
           in[p][r.neighbor] = r,
           NEW best \in BestAfterAnnounce(p, r, in)
    PROVE  \/ /\ best \in Offers
              /\ best.neighbor \in Neighbors
              /\ in[p][best.neighbor] = best
           \/ /\ best = local[p]
              /\ best # NoRoute
              /\ ~Better(r, best)
              /\ best.vmac = NoVmac => r.vmac = NoVmac
              /\ best.vmac # NoVmac /\ best.neighbor = r.neighbor => ~Better(best, r)
<1>1. CASE best = r
  BY <1>1, OfferType
<1>2. CASE best \in TopRoutes(RoutesTo(p, in))
  BY <1>2, RerunYieldsCurrent
<1>3. CASE best # r /\ best \notin TopRoutes(RoutesTo(p, in))
  BY <1>3 DEF BestAfterAnnounce
<1> QED
  BY <1>1, <1>2, <1>3

-----------------------------------------------------------------------------

LEMMA AnnounceIInv ==
    ASSUME IInv,
           NEW p \in Prefixes, NEW r \in Offers,
           Announce(p, r)
    PROVE  IInv'
<1> USE DEF IInv
<1>1. r.neighbor \in Neighbors /\ r \in Offers /\ r # NoRoute
  BY OfferType
<1>2. /\ input' = [input EXCEPT ![p][r.neighbor] = r]
      /\ downPeer = NoNeighbor /\ downPeer' = downPeer
      /\ routeList = {} /\ routeList' = routeList
  BY DEF Announce, Idle, FailureInProgress
<1>3. input' \in [Prefixes -> [Neighbors -> Offers \cup {NoRoute}]]
  BY <1>1, <1>2 DEF TypeOK
<1>4. Keyed'
  BY <1>1, <1>2 DEF TypeOK, Keyed
<1>5. input'[p][r.neighbor] = r
  BY <1>1, <1>2 DEF TypeOK
<1>6. \A q \in Prefixes, n \in Neighbors :
          q # p \/ n # r.neighbor => input'[q][n] = input[q][n]
  BY <1>1, <1>2 DEF TypeOK
<1>7. PICK best \in BestAfterAnnounce(p, r, input') :
          /\ local' = [local EXCEPT ![p] = best]
          /\ output' = [output EXCEPT ![p] = best]
  BY DEF Announce, OutputAfter
<1>8. \/ /\ best \in Offers
         /\ best.neighbor \in Neighbors
         /\ input'[p][best.neighbor] = best
      \/ /\ best = local[p]
         /\ best # NoRoute
         /\ ~Better(r, best)
         /\ best.vmac = NoVmac => r.vmac = NoVmac
         /\ best.vmac # NoVmac /\ best.neighbor = r.neighbor => ~Better(best, r)
  BY <1>3, <1>4, <1>5, AnnounceOutcome, Zenon DEF Keyed
<1>9. best \in Offers /\ best # NoRoute /\ best.neighbor \in Neighbors
  BY <1>8, OfferType DEF TypeOK
<1>10. /\ local'[p] = best
       /\ output'[p] = best
       /\ \A q \in Prefixes : q # p => local'[q] = local[q] /\ output'[q] = output[q]
  BY <1>7 DEF TypeOK
<1>11. TypeOK'
  BY <1>2, <1>3, <1>7, <1>9 DEF TypeOK
<1>12. FailureInProgress'
  BY <1>2 DEF FailureInProgress
<1>13. BestIsAdvertised'
  <2> SUFFICES ASSUME NEW q \in Prefixes, local'[q] # NoRoute
               PROVE  input'[q][local'[q].neighbor] # NoRoute
    BY DEF BestIsAdvertised, HasBest, Current, Best
  <2>1. local[q] # NoRoute => input[q][local[q].neighbor] # NoRoute
    BY <1>2 DEF BestIsAdvertised, HasBest, Current, Best
  <2>2. CASE q # p
    BY <1>6, <1>10, <2>1, <2>2, OfferType DEF TypeOK
  <2>3. CASE q = p
    BY <1>1, <1>5, <1>6, <1>8, <1>9, <1>10, <2>1, <2>3
  <2> QED
    BY <2>2, <2>3
<1>14. AdvertisedIsRouted'
  <2> SUFFICES ASSUME NEW q \in Prefixes, RoutesTo(q, input') # {}
               PROVE  local'[q] # NoRoute
    BY DEF AdvertisedIsRouted, HasBest
  <2>1. CASE q = p
    BY <1>9, <1>10, <2>1
  <2>2. CASE q # p
    <3>1. RoutesTo(q, input') = RoutesTo(q, input)
      BY <1>6, <2>2 DEF RoutesTo
    <3> QED
      BY <1>10, <2>2, <3>1 DEF AdvertisedIsRouted, HasBest
  <2> QED
    BY <2>1, <2>2
<1>15. RoutersKnowBest'
  BY <1>10 DEF RoutersKnowBest
<1>16. StaleBestIsBounded'
  <2> SUFFICES ASSUME NEW q \in Prefixes,
                      local'[q] # NoRoute,
                      input'[q][local'[q].neighbor] # NoRoute,
                      input'[q][local'[q].neighbor] # local'[q]
               PROVE  /\ ~Better(input'[q][local'[q].neighbor], local'[q])
                      /\ local'[q].vmac # NoVmac =>
                             ~Better(local'[q], input'[q][local'[q].neighbor])
                      /\ local'[q].vmac = NoVmac =>
                             input'[q][local'[q].neighbor].vmac = NoVmac
    BY Zenon DEF StaleBestIsBounded, HasBest, Current, Best
  <2>1. local[q] # NoRoute /\ input[q][local[q].neighbor] # NoRoute
        /\ input[q][local[q].neighbor] # local[q] =>
            /\ ~Better(input[q][local[q].neighbor], local[q])
            /\ local[q].vmac # NoVmac => ~Better(local[q], input[q][local[q].neighbor])
            /\ local[q].vmac = NoVmac => input[q][local[q].neighbor].vmac = NoVmac
    BY Zenon DEF StaleBestIsBounded, HasBest, Current, Best
  <2>2. CASE q # p
    <3>1. local'[q] = local[q] /\ local[q].neighbor \in Neighbors
      BY <1>10, <2>2, OfferType DEF TypeOK
    <3>2. input'[q][local[q].neighbor] = input[q][local[q].neighbor]
      BY <1>6, <2>2, <3>1
    <3> QED
      BY <2>1, <3>1, <3>2
  <2>3. CASE q = p /\ input'[p][best.neighbor] # best
    <3>1. /\ best = local[p]
          /\ ~Better(r, best)
          /\ best.vmac = NoVmac => r.vmac = NoVmac
          /\ best.vmac # NoVmac /\ best.neighbor = r.neighbor => ~Better(best, r)
      BY <1>8, <2>3
    <3>2. CASE best.neighbor = r.neighbor
      BY <1>5, <1>10, <2>3, <3>1, <3>2
    <3>3. CASE best.neighbor # r.neighbor
      <4>1. input'[p][best.neighbor] = input[p][best.neighbor]
        BY <1>6, <1>9, <3>3
      <4> QED
        BY <1>10, <2>1, <2>3, <3>1, <4>1
    <3> QED
      BY <3>2, <3>3
  <2>4. CASE q = p /\ input'[p][best.neighbor] = best
    BY <1>10, <2>4
  <2> QED
    BY <2>2, <2>3, <2>4
<1> QED
  BY <1>4, <1>11, <1>12, <1>13, <1>14, <1>15, <1>16

-----------------------------------------------------------------------------

\* A withdrawal by n, or the part of n's failure that concerns p: both leave n
\* without an input route for p and choose the best route among the others.
LEMMA RepairOne ==
    ASSUME IInv,
           NEW p \in Prefixes, NEW n \in Neighbors,
           routeList # {} => n = downPeer,
           input' = [input EXCEPT ![p][n] = NoRoute],
           NEW best,
           Repaired(p, n, input', best),
           local' = [local EXCEPT ![p] = best],
           output' = [output EXCEPT ![p] = best]
    PROVE  /\ input' \in [Prefixes -> [Neighbors -> Offers \cup {NoRoute}]]
           /\ local' \in [Prefixes -> Offers \cup {NoRoute}]
           /\ output' \in [Prefixes -> Offers \cup {NoRoute}]
           /\ Keyed'
           /\ AdvertisedIsRouted'
           /\ RoutersKnowBest'
           /\ StaleBestIsBounded'
           /\ \A q \in Prefixes : local'[q] # NoRoute =>
                  \/ input'[q][local'[q].neighbor] # NoRoute
                  \/ q # p /\ q \in routeList /\ local'[q].neighbor = downPeer
<1> USE DEF IInv
<1>1. /\ input' \in [Prefixes -> [Neighbors -> Offers \cup {NoRoute}]]
      /\ input'[p][n] = NoRoute
      /\ \A q \in Prefixes, m \in Neighbors :
             q # p \/ m # n => input'[q][m] = input[q][m]
  BY DEF TypeOK
<1>2. Keyed'
  BY <1>1 DEF Keyed
<1>3. \/ /\ best = NoRoute
         /\ \A m \in Neighbors : input'[p][m] = NoRoute
      \/ /\ best \in Offers
         /\ best.neighbor \in Neighbors
         /\ input'[p][best.neighbor] = best
      \/ /\ best = local[p]
         /\ best # NoRoute => best.neighbor # n
  BY DEF Repaired
<1>4. best \in Offers \cup {NoRoute}
  BY <1>3 DEF TypeOK
<1>5. /\ local' \in [Prefixes -> Offers \cup {NoRoute}]
      /\ output' \in [Prefixes -> Offers \cup {NoRoute}]
      /\ local'[p] = best
      /\ output'[p] = best
      /\ \A q \in Prefixes : q # p => local'[q] = local[q] /\ output'[q] = output[q]
  BY <1>4 DEF TypeOK
<1>6. AdvertisedIsRouted'
  <2> SUFFICES ASSUME NEW q \in Prefixes, RoutesTo(q, input') # {}
               PROVE  local'[q] # NoRoute
    BY DEF AdvertisedIsRouted, HasBest
  <2>1. RoutesTo(q, input') \subseteq RoutesTo(q, input)
    BY <1>1 DEF RoutesTo
  <2>2. local[q] # NoRoute
    BY <2>1 DEF AdvertisedIsRouted, HasBest
  <2>3. \E m \in Neighbors : input'[q][m] # NoRoute
    BY DEF RoutesTo
  <2> QED
    BY <1>3, <1>5, <2>2, <2>3, OfferType
<1>7. RoutersKnowBest'
  BY <1>5 DEF RoutersKnowBest
<1>8. \A q \in Prefixes : local[q] # NoRoute =>
          \/ input[q][local[q].neighbor] # NoRoute
          \/ q \in routeList /\ local[q].neighbor = downPeer
  BY DEF BestIsAdvertised, HasBest, Current, Best
<1>9. ASSUME NEW q \in Prefixes, local'[q] # NoRoute
      PROVE  \/ input'[q][local'[q].neighbor] # NoRoute
             \/ q # p /\ q \in routeList /\ local'[q].neighbor = downPeer
  <2>1. CASE q # p
    BY <1>1, <1>5, <1>8, <1>9, <2>1, OfferType DEF TypeOK
  <2>2. CASE q = p /\ best = local[p] /\ best.neighbor # n
    BY <1>1, <1>5, <1>8, <1>9, <2>2, OfferType DEF TypeOK
  <2>3. CASE q = p /\ input'[p][best.neighbor] = best
    BY <1>5, <1>9, <2>3
  <2> QED
    BY <1>3, <1>5, <1>9, <2>1, <2>2, <2>3
<1>10. StaleBestIsBounded'
  <2> SUFFICES ASSUME NEW q \in Prefixes,
                      local'[q] # NoRoute,
                      input'[q][local'[q].neighbor] # NoRoute,
                      input'[q][local'[q].neighbor] # local'[q]
               PROVE  /\ ~Better(input'[q][local'[q].neighbor], local'[q])
                      /\ local'[q].vmac # NoVmac =>
                             ~Better(local'[q], input'[q][local'[q].neighbor])
                      /\ local'[q].vmac = NoVmac =>
                             input'[q][local'[q].neighbor].vmac = NoVmac
    BY Zenon DEF StaleBestIsBounded, HasBest, Current, Best
  <2>1. local[q] # NoRoute /\ input[q][local[q].neighbor] # NoRoute
        /\ input[q][local[q].neighbor] # local[q] =>
            /\ ~Better(input[q][local[q].neighbor], local[q])
            /\ local[q].vmac # NoVmac => ~Better(local[q], input[q][local[q].neighbor])
            /\ local[q].vmac = NoVmac => input[q][local[q].neighbor].vmac = NoVmac
    BY Zenon DEF StaleBestIsBounded, HasBest, Current, Best
  <2>2. local'[q] = local[q]
    BY <1>3, <1>5
  <2>3. local[q].neighbor \in Neighbors
    BY <2>2, OfferType DEF TypeOK
  <2>4. input'[q][local[q].neighbor] = input[q][local[q].neighbor]
    BY <1>1, <2>2, <2>3
  <2> QED
    BY <2>1, <2>2, <2>4
<1> QED
  BY <1>1, <1>2, <1>5, <1>6, <1>7, <1>9, <1>10

LEMMA WithdrawIInv ==
    ASSUME IInv,
           NEW p \in Prefixes, NEW n \in Neighbors,
           Withdraw(p, n)
    PROVE  IInv'
<1>1. /\ input' = [input EXCEPT ![p][n] = NoRoute]
      /\ downPeer = NoNeighbor /\ downPeer' = downPeer
      /\ routeList = {} /\ routeList' = routeList
  BY DEF Withdraw, Idle, IInv, FailureInProgress
<1>2. PICK best \in BestAfterWithdraw(p, n, input') :
          /\ local' = [local EXCEPT ![p] = best]
          /\ output' = [output EXCEPT ![p] = best]
  BY DEF Withdraw, OutputAfter
<1>a. /\ input' \in [Prefixes -> [Neighbors -> Offers \cup {NoRoute}]]
      /\ \A m \in Neighbors : input'[p][m] # NoRoute => input'[p][m].neighbor = m
  BY <1>1 DEF IInv, TypeOK, Keyed
<1>b. Repaired(p, n, input', best)
  BY <1>a, WithdrawOutcome, Zenon
<1>3. /\ input' \in [Prefixes -> [Neighbors -> Offers \cup {NoRoute}]]
      /\ local' \in [Prefixes -> Offers \cup {NoRoute}]
      /\ output' \in [Prefixes -> Offers \cup {NoRoute}]
      /\ Keyed' /\ AdvertisedIsRouted' /\ RoutersKnowBest' /\ StaleBestIsBounded'
      /\ \A q \in Prefixes : local'[q] # NoRoute =>
             \/ input'[q][local'[q].neighbor] # NoRoute
             \/ q # p /\ q \in routeList /\ local'[q].neighbor = downPeer
  BY <1>1, <1>2, <1>b, RepairOne
<1>4. TypeOK'
  BY <1>1, <1>3 DEF TypeOK, IInv
<1>5. BestIsAdvertised'
  BY <1>1, <1>3 DEF BestIsAdvertised, HasBest, Current, Best
<1>6. FailureInProgress'
  BY <1>1 DEF FailureInProgress
<1> QED
  BY <1>3, <1>4, <1>5, <1>6 DEF IInv

LEMMA ProcessDownRouteIInv ==
    ASSUME IInv,
           NEW p \in Prefixes,
           ProcessDownRoute(p)
    PROVE  /\ IInv'
           /\ \A q \in Prefixes : local'[q] # NoRoute =>
                  \/ input'[q][local'[q].neighbor] # NoRoute
                  \/ q \in routeList' /\ local'[q].neighbor = downPeer
<1>1. /\ p \in routeList
      /\ downPeer \in Neighbors
      /\ \A q \in Prefixes : input[q][downPeer] = NoRoute
  BY DEF ProcessDownRoute, IInv, TypeOK, FailureInProgress
<1>2. input' = input /\ input = [input EXCEPT ![p][downPeer] = NoRoute]
  BY <1>1 DEF ProcessDownRoute, IInv, TypeOK
<1>3. PICK best \in BestAfterWithdraw(p, downPeer, input') :
          /\ local' = [local EXCEPT ![p] = best]
          /\ output' = [output EXCEPT ![p] = best]
  BY <1>2 DEF ProcessDownRoute, OutputAfter
<1>a. /\ input' \in [Prefixes -> [Neighbors -> Offers \cup {NoRoute}]]
      /\ \A m \in Neighbors : input'[p][m] # NoRoute => input'[p][m].neighbor = m
  BY <1>2 DEF IInv, TypeOK, Keyed
<1>b. Repaired(p, downPeer, input', best)
  BY <1>1, <1>a, WithdrawOutcome, Zenon
<1>4. /\ input' \in [Prefixes -> [Neighbors -> Offers \cup {NoRoute}]]
      /\ local' \in [Prefixes -> Offers \cup {NoRoute}]
      /\ output' \in [Prefixes -> Offers \cup {NoRoute}]
      /\ Keyed' /\ AdvertisedIsRouted' /\ RoutersKnowBest' /\ StaleBestIsBounded'
      /\ \A q \in Prefixes : local'[q] # NoRoute =>
             \/ input'[q][local'[q].neighbor] # NoRoute
             \/ q # p /\ q \in routeList /\ local'[q].neighbor = downPeer
  BY <1>1, <1>2, <1>3, <1>b, RepairOne
<1>5. /\ routeList' = routeList \ {p}
      /\ downPeer' = IF routeList = {p} THEN NoNeighbor ELSE downPeer
  BY DEF ProcessDownRoute
<1>6. TypeOK'
  BY <1>1, <1>4, <1>5 DEF TypeOK, IInv
<1>7. FailureInProgress'
  BY <1>1, <1>2, <1>5, PeerAssumption DEF FailureInProgress
<1>8. \A q \in Prefixes : local'[q] # NoRoute =>
          \/ input'[q][local'[q].neighbor] # NoRoute
          \/ q \in routeList' /\ local'[q].neighbor = downPeer
  BY <1>4, <1>5
<1>9. BestIsAdvertised'
  <2> SUFFICES ASSUME NEW q \in Prefixes, q \in routeList'
               PROVE  downPeer' = downPeer
    BY <1>8 DEF BestIsAdvertised, HasBest, Current, Best
  <2> QED
    BY <1>5
<1> QED
  BY <1>4, <1>6, <1>7, <1>8, <1>9 DEF IInv

LEMMA PeerDownIInv ==
    ASSUME IInv,
           NEW n \in Neighbors,
           PeerDown(n)
    PROVE  IInv'
<1> USE DEF IInv
<1>1. /\ downPeer = NoNeighbor /\ downPeer' = n
      /\ routeList = {}
      /\ routeList' = {p \in Prefixes : input[p][n] # NoRoute}
      /\ routeList' # {}
      /\ input' = [p \in Prefixes |-> [input[p] EXCEPT ![n] = NoRoute]]
      /\ local' = local /\ output' = output
  BY DEF PeerDown, Idle, FailureInProgress
<1>2. /\ input' \in [Prefixes -> [Neighbors -> Offers \cup {NoRoute}]]
      /\ \A p \in Prefixes : input'[p][n] = NoRoute
      /\ \A p \in Prefixes, m \in Neighbors : m # n => input'[p][m] = input[p][m]
  BY <1>1 DEF TypeOK
<1>3. TypeOK'
  BY <1>1, <1>2 DEF TypeOK
<1>4. Keyed'
  BY <1>2 DEF Keyed
<1>5. FailureInProgress'
  BY <1>1, <1>2, PeerAssumption DEF FailureInProgress
<1>6. \A p \in Prefixes : local[p] # NoRoute => local[p].neighbor \in Neighbors
  BY OfferType DEF TypeOK
<1>7. BestIsAdvertised'
  <2> SUFFICES ASSUME NEW p \in Prefixes, local[p] # NoRoute
               PROVE  \/ input'[p][local[p].neighbor] # NoRoute
                      \/ p \in routeList' /\ local[p].neighbor = n
    BY <1>1 DEF BestIsAdvertised, HasBest, Current, Best
  <2>1. input[p][local[p].neighbor] # NoRoute
    BY <1>1 DEF BestIsAdvertised, HasBest, Current, Best
  <2> QED
    BY <1>1, <1>2, <1>6, <2>1
<1>8. AdvertisedIsRouted'
  <2>1. \A p \in Prefixes : RoutesTo(p, input') \subseteq RoutesTo(p, input)
    BY <1>2 DEF RoutesTo
  <2> QED
    BY <1>1, <2>1 DEF AdvertisedIsRouted, HasBest
<1>9. RoutersKnowBest'
  BY <1>1 DEF RoutersKnowBest
<1>10. StaleBestIsBounded'
  <2> SUFFICES ASSUME NEW p \in Prefixes,
                      local[p] # NoRoute,
                      input'[p][local[p].neighbor] # NoRoute
               PROVE  input'[p][local[p].neighbor] = input[p][local[p].neighbor]
    BY <1>1 DEF StaleBestIsBounded, HasBest, Current, Best
  <2> QED
    BY <1>2, <1>6
<1> QED
  BY <1>3, <1>4, <1>5, <1>7, <1>8, <1>9, <1>10

-----------------------------------------------------------------------------

\* Every step, stuttering included, keeps IInv.
LEMMA NextIInv == IInv /\ [Next]_vars => IInv'
<1> SUFFICES ASSUME IInv, [Next]_vars PROVE IInv'
  OBVIOUS
<1>1. CASE \E p \in Prefixes, r \in Offers : Announce(p, r)
  BY <1>1, AnnounceIInv
<1>2. CASE \E p \in Prefixes, n \in Neighbors : Withdraw(p, n)
  BY <1>2, WithdrawIInv
<1>3. CASE \E n \in Neighbors : PeerDown(n)
  BY <1>3, PeerDownIInv
<1>4. CASE \E p \in Prefixes : ProcessDownRoute(p)
  BY <1>4, ProcessDownRouteIInv
<1>5. CASE UNCHANGED vars
  <2>1. /\ input' = input /\ local' = local /\ output' = output
        /\ downPeer' = downPeer /\ routeList' = routeList
    BY <1>5 DEF vars
  <2>2. TypeOK' /\ Keyed' /\ FailureInProgress'
    BY <2>1 DEF IInv, TypeOK, Keyed, FailureInProgress
  <2>3. BestIsAdvertised' /\ RoutersKnowBest'
    BY <2>1 DEF IInv, BestIsAdvertised, RoutersKnowBest, HasBest, Current, Best
  <2>4. AdvertisedIsRouted'
    BY <2>1 DEF IInv, AdvertisedIsRouted, HasBest, RoutesTo
  <2>5. StaleBestIsBounded'
    BY <2>1, Zenon DEF IInv, StaleBestIsBounded, HasBest, Current, Best
  <2> QED
    BY <2>2, <2>3, <2>4, <2>5 DEF IInv
<1> QED
  BY <1>1, <1>2, <1>3, <1>4, <1>5 DEF Next

(***************************************************************************)
(* The tables keep their shape and the five invariants of BGPPeer hold in  *)
(* every reachable state, whatever prefixes, neighbors and routes there    *)
(* are.                                                                    *)
(***************************************************************************)
THEOREM Inductive == Spec => []IInv
BY InitIInv, NextIInv, PTL DEF Spec

(***************************************************************************)
(* Type correctness of the three tables and the failure bookkeeping.       *)
(***************************************************************************)
THEOREM TypeCorrect == Spec => []TypeOK
<1>1. IInv => TypeOK
  BY DEF IInv
<1> QED
  BY <1>1, Inductive, PTL

(***************************************************************************)
(* A best route is one its neighbor advertises, or the failure of that     *)
(* neighbor is being worked off for this very prefix.                      *)
(***************************************************************************)
THEOREM BestAdvertised == Spec => []BestIsAdvertised
<1>1. IInv => BestIsAdvertised
  BY DEF IInv
<1> QED
  BY <1>1, Inductive, PTL

(***************************************************************************)
(* No advertised prefix is ever without a best route.                      *)
(***************************************************************************)
THEOREM Routed == Spec => []AdvertisedIsRouted
<1>1. IInv => AdvertisedIsRouted
  BY DEF IInv
<1> QED
  BY <1>1, Inductive, PTL

(***************************************************************************)
(* The staleness of a best route is bounded.                               *)
(***************************************************************************)
THEOREM StalenessBounded == Spec => []StaleBestIsBounded
<1>1. IInv => StaleBestIsBounded
  BY DEF IInv
<1> QED
  BY <1>1, Inductive, PTL

(***************************************************************************)
(* When the failure of a neighbor has been handled nothing goes through it *)
(* any more.                                                               *)
(***************************************************************************)
THEOREM FailureFlushes == Spec => NoRouteSurvivesFailure
<1>1. IInv /\ [Next]_vars =>
          [\A p \in Prefixes :
              downPeer # NoNeighbor /\ downPeer' = NoNeighbor =>
                  \A r \in {local'[p], output'[p]} :
                      r # NoRoute => r.neighbor # downPeer]_vars
  <2> SUFFICES ASSUME IInv, Next,
                      NEW p \in Prefixes,
                      downPeer # NoNeighbor, downPeer' = NoNeighbor,
                      NEW r \in {local'[p], output'[p]}, r # NoRoute
               PROVE  r.neighbor # downPeer
    BY DEF vars
  <2>1. PICK q \in Prefixes : ProcessDownRoute(q)
    BY PeerAssumption DEF Next, Announce, Withdraw, PeerDown, Idle
  <2>2. /\ IInv'
        /\ local'[p] # NoRoute =>
               \/ input'[p][local'[p].neighbor] # NoRoute
               \/ p \in routeList' /\ local'[p].neighbor = downPeer
    BY <2>1, ProcessDownRouteIInv
  <2>3. /\ routeList' = {}
        /\ output'[p] = local'[p]
    BY <2>2 DEF IInv, FailureInProgress, RoutersKnowBest
  <2>4. input'[p][downPeer] = NoRoute
    BY <2>1 DEF ProcessDownRoute, IInv, FailureInProgress
  <2> QED
    BY <2>2, <2>3, <2>4
<1> QED
  BY <1>1, Inductive, PTL DEF Spec, NoRouteSurvivesFailure

(***************************************************************************)
(* A best route still on offer is displaced only by a better or, if it is  *)
(* not encoded, by an encoded one: a withdrawal or failure of another      *)
(* neighbor, a rerun, a worse announcement never moves it.                 *)
(***************************************************************************)
THEOREM Displacement == Spec => DisplacedForCause
<1>1. IInv /\ [Next]_vars =>
          [\A p \in Prefixes :
              /\ HasBest(p)
              /\ input'[p][local[p].neighbor] = local[p]
              /\ local'[p] # local[p]
              => /\ local'[p] # NoRoute
                 /\ \/ Better(local'[p], local[p])
                    \/ local[p].vmac = NoVmac /\ local'[p].vmac # NoVmac]_vars
  <2> SUFFICES ASSUME IInv, Next,
                      NEW p \in Prefixes,
                      local[p] # NoRoute,
                      input'[p][local[p].neighbor] = local[p],
                      local'[p] # local[p]
               PROVE  /\ local'[p] # NoRoute
                      /\ \/ Better(local'[p], local[p])
                         \/ local[p].vmac = NoVmac /\ local'[p].vmac # NoVmac
    BY Zenon DEF vars, HasBest
  <2>1. local[p] \in Offers /\ local[p].neighbor \in Neighbors
    BY OfferType DEF IInv, TypeOK
  <2>2. ASSUME NEW q \in Prefixes, NEW r \in Offers, Announce(q, r)
        PROVE  /\ local'[p] # NoRoute
               /\ \/ Better(local'[p], local[p])
                  \/ local[p].vmac = NoVmac /\ local'[p].vmac # NoVmac
    <3>1. PICK best \in BestAfterAnnounce(q, r, input') :
              local' = [local EXCEPT ![q] = best]
      BY <2>2 DEF Announce
    <3>2. q = p /\ best = local'[p] /\ best # local[p]
      BY <3>1 DEF IInv, TypeOK
    <3>3. CASE local[p].neighbor = r.neighbor
      <4>1. input'[p][r.neighbor] = r
        BY <2>2, <3>2, OfferType DEF Announce, IInv, TypeOK
      <4>2. ~Better(local[p], r) /\ r = local[p]
        BY <3>3, <4>1, BetterIrreflexive, OfferType
      <4> QED
        BY <3>1, <3>2, <4>2 DEF BestAfterAnnounce
    <3>4. CASE local[p].neighbor # r.neighbor
      <4>1. /\ best = r
            /\ \/ Better(r, local[p])
               \/ local[p].vmac = NoVmac /\ r.vmac # NoVmac
        BY <3>1, <3>2, <3>4 DEF BestAfterAnnounce
      <4> QED
        BY <3>2, <4>1, OfferType
    <3> QED
      BY <3>3, <3>4
  <2>3. ASSUME NEW q \in Prefixes, NEW n \in Neighbors, NEW best,
               best \in BestAfterWithdraw(q, n, input'),
               local' = [local EXCEPT ![q] = best],
               input'[q][n] = NoRoute
        PROVE  FALSE
    <3>1. q = p /\ best # local[p]
      BY <2>3 DEF IInv, TypeOK
    <3>2. local[p].neighbor = n
      BY <2>3, <3>1 DEF BestAfterWithdraw
    <3> QED
      BY <2>3, <3>1, <3>2
  <2>4. ASSUME NEW q \in Prefixes, NEW n \in Neighbors, Withdraw(q, n)
        PROVE  FALSE
    <3>1. input'[q][n] = NoRoute
      BY <2>4 DEF Withdraw, IInv, TypeOK
    <3> QED
      BY <2>3, <2>4, <3>1 DEF Withdraw
  <2>5. ASSUME NEW q \in Prefixes, ProcessDownRoute(q)
        PROVE  FALSE
    <3>1. /\ downPeer \in Neighbors
          /\ input' = input
          /\ input'[q][downPeer] = NoRoute
      BY <2>5 DEF ProcessDownRoute, IInv, TypeOK, FailureInProgress
    <3> QED
      BY <2>3, <2>5, <3>1 DEF ProcessDownRoute
  <2>6. ASSUME NEW n \in Neighbors, PeerDown(n)
        PROVE  FALSE
    BY <2>6 DEF PeerDown
  <2> QED
    BY <2>2, <2>4, <2>5, <2>6 DEF Next
<1> QED
  BY <1>1, Inductive, PTL DEF Spec, DisplacedForCause
=============================================================================
