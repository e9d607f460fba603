-------------------- MODULE ParticipantController_proofs --------------------
(***************************************************************************)
(* Proofs about ParticipantController for every set of prefixes, routes,   *)
(* participants and VNHs: the controller implements the BGP speaker of     *)
(* BGPPeer as long as it lives, its routers reach the best next hop, the   *)
(* classes of a prefix describe its routes as of now, and the backups in   *)
(* its VMAC advertise it.  The invariant of BGPPeer is carried over        *)
(* through the first fact.                                                 *)
(***************************************************************************)
EXTENDS ParticipantController, BGPPeer_proofs, FiniteSetTheorems, WellFoundedInduction

-----------------------------------------------------------------------------
(* Orders of a set, and the backups of a prefix *)

\* A nonempty set of indices has a least one.
LEMMA LeastIndex ==
    ASSUME NEW T \in SUBSET Nat, T # {}
    PROVE  Sets!Min(T) \in T
<1> DEFINE R == OpToRel(<, Nat)
<1>1. IsWellFoundedOn(R, Nat)
  BY NatLessThanWellFounded
<1>2. PICK x \in T : \A y \in T : ~(<<y, x>> \in R)
  <2> HIDE DEF R
  <2> QED
    BY <1>1, WFMin
<1>3. \A y \in T : <<y, x>> \in R <=> y < x
  BY DEF OpToRel
<1> HIDE DEF R
<1>4. \A y \in T : ~(y < x)
  BY <1>2, <1>3
<1>5. \A y \in T : x <= y
  BY <1>4
<1> QED
  BY <1>5 DEF Sets!Min

LEMMA SameCardinality == ASSUME NEW S PROVE Seqs!Cardinality(S) = Cardinality(S)
BY DEF Cardinality, Seqs!Cardinality

\* The elements of a finite set in some order.
LEMMA OrderIs ==
    ASSUME NEW S, IsFiniteSet(S), NEW order \in Seqs!SetToSeqs(S)
    PROVE  /\ order \in [1..Cardinality(S) -> S]
           /\ \A i, j \in 1..Cardinality(S) : i # j => order[i] # order[j]
           /\ Seqs!ToSet(order) = S
<1> DEFINE D == 1..Cardinality(S)
<1>1. order \in [D -> S] /\ \A i, j \in D : i # j => order[i] # order[j]
  BY SameCardinality DEF Seqs!SetToSeqs
<1>2. Cardinality(S) \in Nat /\ IsFiniteSet(D) /\ Cardinality(D) = Cardinality(S)
  BY FS_CardinalityType, FS_Interval
<1> HIDE DEF D
<1>3. order \in Injection(D, S)
  BY <1>1 DEF Injection, IsInjective
<1>4. order \in Surjection(D, S)
  BY <1>2, <1>3, FS_Injection
<1>5. \A s \in S : \E i \in D : order[i] = s
  BY <1>4 DEF Surjection
<1>6. Seqs!ToSet(order) = {order[i] : i \in D}
  BY <1>1 DEF Seqs!ToSet
<1> QED
  BY <1>1, <1>5, <1>6 DEF D

Inputs == [Prefixes -> [Neighbors -> Offers \cup {NoRoute}]]

\* The routes to a prefix are finitely many offers of participants.
LEMMA RoutesAre ==
    ASSUME NEW p \in Prefixes, NEW in \in Inputs
    PROVE  /\ IsFiniteSet(RoutesTo(p, in)) /\ RoutesTo(p, in) \subseteq Offers
           /\ \A r \in Offers : PartOf[r.neighbor] \in Parts
           /\ Advertisers(p, in) \subseteq Parts
<1> DEFINE heard == {in[p][n] : n \in Neighbors}
           f == [n \in Neighbors |-> in[p][n]]
<1>1. f \in Surjection(Neighbors, heard)
  BY DEF Surjection
<1>2. IsFiniteSet(heard)
  <2> HIDE DEF f, heard
  <2> QED
    BY <1>1, ControllerAssumption, FS_Surjection
<1>3. RoutesTo(p, in) = heard \ {NoRoute}
  BY DEF RoutesTo
<1>4. IsFiniteSet(RoutesTo(p, in))
  <2> HIDE DEF heard
  <2> QED
    BY <1>2, <1>3, FS_Difference
<1>5. RoutesTo(p, in) \subseteq Offers
  BY DEF RoutesTo, Inputs
<1>6. \A r \in Offers : PartOf[r.neighbor] \in Parts
  BY OfferType, ControllerAssumption
<1> QED
  BY <1>4, <1>5, <1>6 DEF Advertisers

\* What get_backup_avoiding_as_link returns, whatever the order of the routes.
LEMMA BackupIs ==
    ASSUME NEW p \in Prefixes, NEW in \in Inputs, NEW best, NEW a, NEW b,
           NEW routes \in Seqs!SetToSeqs(RoutesTo(p, in))
    PROVE  LET others == {r \in RoutesTo(p, in) : PartOf[r.neighbor] # PartOf[best.neighbor]}
           IN IF others = {} THEN Backup(routes, best, a, b) = NoPart
              ELSE \E r \in others :
                    /\ Backup(routes, best, a, b) = PartOf[r.neighbor]
                    /\ Traverses(r, a, b) =>
                         \A t \in others : ~Traverses(t, a, b) => ~Taggable(t)
<1> DEFINE all == RoutesTo(p, in)
           D == 1..Cardinality(all)
           others == {r \in all : PartOf[r.neighbor] # PartOf[best.neighbor]}
           at == {i \in DOMAIN routes : PartOf[routes[i].neighbor] # PartOf[best.neighbor]}
           good == {i \in at : ~Traverses(routes[i], a, b) /\ Taggable(routes[i])}
           least == Sets!Min(IF good = {} THEN at ELSE good)
<1>1. /\ routes \in [D -> all] /\ D \subseteq Nat
      /\ \A r \in all : \E i \in D : routes[i] = r
  <2>1. IsFiniteSet(all) /\ Cardinality(all) \in Nat
    BY RoutesAre, FS_CardinalityType
  <2>2. routes \in [D -> all] /\ Seqs!ToSet(routes) = all
    BY <2>1, OrderIs
  <2> QED
    BY <2>1, <2>2 DEF Seqs!ToSet
<1>2. DOMAIN routes = D
  BY <1>1
<1>3. Backup(routes, best, a, b) = IF at = {} THEN NoPart ELSE PartOf[routes[least].neighbor]
  BY DEF Backup
<1> HIDE DEF D, all
<1>4. \A r \in others : \E i \in at : routes[i] = r
  BY <1>1, <1>2
<1>5. \A i \in at : routes[i] \in others /\ i \in Nat
  BY <1>1, <1>2
<1>6. CASE others = {}
  BY <1>3, <1>5, <1>6 DEF all
<1>7. CASE others # {}
  <2>1. at # {}
    BY <1>4, <1>7
  <2>2. least \in at /\ (good # {} => least \in good)
    <3>1. good \subseteq at /\ at \in SUBSET Nat
      BY <1>5
    <3> HIDE DEF good, at
    <3> QED
      BY <2>1, <3>1, LeastIndex
  <2>3. Traverses(routes[least], a, b) => good = {}
    BY <2>2
  <2>4. good = {} => \A t \in others : ~Traverses(t, a, b) => ~Taggable(t)
    BY <1>4
  <2>5. /\ routes[least] \in others
        /\ Backup(routes, best, a, b) = PartOf[routes[least].neighbor]
    BY <1>3, <1>5, <2>1, <2>2
  <2>6. \E r \in others :
            /\ Backup(routes, best, a, b) = PartOf[r.neighbor]
            /\ Traverses(r, a, b) => \A t \in others : ~Traverses(t, a, b) => ~Taggable(t)
    <3> HIDE DEF others, least, good, at
    <3> QED
      BY <2>3, <2>4, <2>5
  <2> QED
    BY <1>7, <2>6 DEF all
<1> QED
  BY <1>6, <1>7

\* What is encoded of a path is a path.
LEMMA EncodedPathIs ==
    ASSUME NEW best \in Offers
    PROVE  EncodedPath(best) \in Seq(Nat) /\ Len(EncodedPath(best)) >= 1
<1>1. best.as_path \in Seq(Nat) /\ best.as_path # <<>>
  BY OfferType, RouteAssumption DEF Route
<1>2. Len(best.as_path) \in Nat /\ Len(best.as_path) >= 1
  BY <1>1
<1> DEFINE n == IF Len(best.as_path) <= MaxDepth THEN Len(best.as_path) ELSE MaxDepth + 1
<1>3. n \in 1..Len(best.as_path)
  BY <1>2, ControllerAssumption
<1>4. EncodedPath(best) = SubSeq(best.as_path, 1, n)
  BY DEF EncodedPath
<1> HIDE DEF n
<1>5. SubSeq(best.as_path, 1, n) \in Seq(Nat) /\ Len(SubSeq(best.as_path, 1, n)) = n
  BY <1>1, <1>3
<1> QED
  BY <1>3, <1>4, <1>5

\* The BEC of a prefix whose routes come in the order `routes`: well typed, for the
\* path of the best route, with a backup for each link.
LEMMA BECForIs ==
    ASSUME NEW p \in Prefixes, NEW in \in Inputs, NEW best \in Offers,
           NEW announced \in BOOLEAN, NEW routes \in Seqs!SetToSeqs(RoutesTo(p, in)),
           IsFiniteSet(BEC_list), BEC_list \subseteq BECType
    PROVE  LET bec == BECFor(routes, best, announced)
           IN /\ bec \in BECType
              /\ \/ bec = DefaultBEC /\ best.vmac = NoVmac
                 \/ /\ bec.as_path = EncodedPath(best)
                    /\ Len(bec.backup_nbs) = Len(bec.as_path) - 1
              /\ \A d \in DOMAIN bec.backup_nbs :
                    bec.backup_nbs[d] = Backup(routes, best, bec.as_path[d], bec.as_path[d+1])
<1> DEFINE path == EncodedPath(best)
           backups == [d \in 1..(Len(path) - 1) |-> Backup(routes, best, path[d], path[d+1])]
           known == {b \in BEC_list : b.as_path = path /\ b.backup_nbs = backups}
           made == [id |-> Cardinality(BEC_list) + 1, as_path |-> path,
                    backup_nbs |-> backups, as_path_vmac |-> best.vmac]
           bec == BECFor(routes, best, announced)
<1>1. path \in Seq(Nat) /\ Len(path) - 1 \in Nat
  <2> HIDE DEF path
  <2> QED
    BY EncodedPathIs DEF path
<1>2. \A a, b : Backup(routes, best, a, b) \in Parts \cup {NoPart}
  <2> TAKE a, b
  <2> QED
    BY BackupIs, RoutesAre
<1>3. backups \in Seq(Parts \cup {NoPart}) /\ Len(backups) = Len(path) - 1
  <2> HIDE DEF path
  <2> QED
    BY <1>1, <1>2
<1>4. bec = IF announced /\ best.vmac = NoVmac THEN DefaultBEC
            ELSE IF known # {} THEN CHOOSE b \in known : TRUE ELSE made
  BY DEF BECFor
<1>5. \/ bec = DefaultBEC /\ best.vmac = NoVmac
      \/ bec \in BECType /\ bec.as_path = path /\ bec.backup_nbs = backups
  <2>1. CASE announced /\ best.vmac = NoVmac
    BY <1>4, <2>1
  <2>2. CASE ~(announced /\ best.vmac = NoVmac) /\ known # {}
    <3>1. (CHOOSE b \in known : TRUE) \in known
      BY <2>2
    <3> QED
      BY <1>4, <2>2, <3>1
  <2>3. CASE ~(announced /\ best.vmac = NoVmac) /\ known = {}
    <3>1. Cardinality(BEC_list) + 1 \in Nat
      BY FS_CardinalityType
    <3>2. best.vmac \in Vmacs \cup {NoVmac}
      BY OfferType
    <3>3. bec = made
      BY <1>4, <2>3
    <3> HIDE DEF path, backups
    <3> QED
      BY <1>1, <1>3, <3>1, <3>2, <3>3 DEF BECType
  <2> QED
    BY <2>1, <2>2, <2>3
<1>6. \A d \in DOMAIN backups : backups[d] = Backup(routes, best, path[d], path[d+1])
  OBVIOUS
<1>7. DefaultBEC \in BECType /\ DOMAIN DefaultBEC.backup_nbs = {}
  BY DEF DefaultBEC, BECType
<1> SUFFICES /\ bec \in BECType
             /\ \/ bec = DefaultBEC /\ best.vmac = NoVmac
                \/ /\ bec.as_path = EncodedPath(best)
                   /\ Len(bec.backup_nbs) = Len(bec.as_path) - 1
             /\ \A d \in DOMAIN bec.backup_nbs :
                    bec.backup_nbs[d] = Backup(routes, best, bec.as_path[d], bec.as_path[d+1])
  OBVIOUS
<1> HIDE DEF backups, bec
<1> QED
  BY <1>3, <1>5, <1>6, <1>7

-----------------------------------------------------------------------------

\* The classes of p describe its routes in `in`, the best being `best`; whether a
\* backup was passed over because the tag table was full is told by `late`.
Describes(group, p, best, in, late) ==
    LET fec == group.fec
        bec == group.bec
        others == {r \in RoutesTo(p, in) : PartOf[r.neighbor] # fec.next_hop_part}
    IN /\ fec.next_hop_part = PartOf[best.neighbor]
       /\ fec.part_set = Advertisers(p, in)
       /\ \/ bec = DefaultBEC /\ best.vmac = NoVmac
          \/ /\ bec.as_path = EncodedPath(best)
             /\ Len(bec.backup_nbs) = Len(bec.as_path) - 1
       /\ \A d \in DOMAIN bec.backup_nbs :
            LET avoids(r) == ~Traverses(r, bec.as_path[d], bec.as_path[d+1])
            IN IF others = {} THEN bec.backup_nbs[d] = NoPart
               ELSE \E r \in others :
                    /\ bec.backup_nbs[d] = PartOf[r.neighbor]
                    /\ ~avoids(r) => \A t \in others : avoids(t) => t \in late

\* The class a prefix is put in names its best next hop and its advertisers; it is an
\* old one or has the next id.
LEMMA FECForNames ==
    ASSUME NEW p, NEW best, NEW in
    PROVE  /\ FECFor(p, best, in).next_hop_part = PartOf[best.neighbor]
           /\ FECFor(p, best, in).part_set = Advertisers(p, in)
           /\ \/ FECFor(p, best, in) \in FEC_list
              \/ FECFor(p, best, in) = [id |-> Cardinality(FEC_list) + Cardinality(strays) + 1,
                                        next_hop_part |-> PartOf[best.neighbor],
                                        part_set |-> Advertisers(p, in)]
<1> DEFINE known == {f \in FEC_list : /\ f.next_hop_part = PartOf[best.neighbor]
                                      /\ f.part_set = Advertisers(p, in)}
           made == [id |-> Cardinality(FEC_list) + Cardinality(strays) + 1,
                    next_hop_part |-> PartOf[best.neighbor],
                    part_set |-> Advertisers(p, in)]
<1>1. FECFor(p, best, in) = IF known # {} THEN CHOOSE f \in known : TRUE ELSE made
  BY DEF FECFor
<1>2. CASE known # {}
  <2>1. (CHOOSE f \in known : TRUE) \in known
    BY <1>2
  <2> QED
    BY <1>1, <1>2, <2>1
<1>3. CASE known = {}
  BY <1>1, <1>3
<1> QED
  BY <1>2, <1>3

\* Regrouping a prefix types its classes, and they describe its routes as of now.
LEMMA RegroupDescribes ==
    ASSUME NEW p \in Prefixes, NEW in \in Inputs, NEW best \in Offers,
           NEW announced \in BOOLEAN, ClassesTypeOK, ClassesAreDistinct,
           local' = [local EXCEPT ![p] = best], DOMAIN local = Prefixes,
           Regroup(p, best, in, announced)
    PROVE  /\ ClassesTypeOK'
           /\ prefix_2_BFEC'[p] \in GroupType
           /\ Describes(prefix_2_BFEC'[p], p, best, in, {t \in Offers : ~Taggable(t)})
<1>1. PICK routes \in Seqs!SetToSeqs(RoutesTo(p, in)) :
        LET fec == FECFor(p, best, in)
            bec == BECFor(routes, best, announced)
        IN /\ FEC_list' = FEC_list \cup {fec}
           /\ BEC_list' = IF announced THEN BEC_list \cup {bec} ELSE BEC_list
           /\ prefix_2_BFEC' = [prefix_2_BFEC EXCEPT ![p] = [fec |-> fec, bec |-> bec]]
           /\ UNCHANGED prefix_2_BFEC_nrfp
  BY DEF Regroup
<1> DEFINE fec == FECFor(p, best, in)
           bec == BECFor(routes, best, announced)
           others == {r \in RoutesTo(p, in) : PartOf[r.neighbor] # PartOf[best.neighbor]}
<1>2. /\ fec \in FECType
      /\ fec.next_hop_part = PartOf[best.neighbor]
      /\ fec.part_set = Advertisers(p, in)
  <2>1. /\ Cardinality(FEC_list) + Cardinality(strays) + 1 \in Nat
        /\ PartOf[best.neighbor] \in Parts /\ Advertisers(p, in) \in SUBSET Parts
    BY FS_CardinalityType, RoutesAre DEF ClassesAreDistinct
  <2> QED
    BY <2>1, FECForNames DEF ClassesTypeOK, FECType
<1>3. /\ bec \in BECType
      /\ \/ bec = DefaultBEC /\ best.vmac = NoVmac
         \/ /\ bec.as_path = EncodedPath(best)
            /\ Len(bec.backup_nbs) = Len(bec.as_path) - 1
      /\ \A d \in DOMAIN bec.backup_nbs :
            bec.backup_nbs[d] = Backup(routes, best, bec.as_path[d], bec.as_path[d+1])
  BY BECForIs DEF ClassesTypeOK
<1>4. \A a, b :
        IF others = {} THEN Backup(routes, best, a, b) = NoPart
        ELSE \E r \in others :
                /\ Backup(routes, best, a, b) = PartOf[r.neighbor]
                /\ Traverses(r, a, b) => \A t \in others : ~Traverses(t, a, b) => ~Taggable(t)
  <2> TAKE a, b
  <2> QED
    BY BackupIs
<1>5. others \subseteq Offers
  BY RoutesAre
<1>6. /\ FEC_list' = FEC_list \cup {fec}
      /\ BEC_list' = IF announced THEN BEC_list \cup {bec} ELSE BEC_list
      /\ prefix_2_BFEC' = [prefix_2_BFEC EXCEPT ![p] = [fec |-> fec, bec |-> bec]]
      /\ prefix_2_BFEC_nrfp' = prefix_2_BFEC_nrfp
  BY <1>1
<1> HIDE DEF fec, bec
<1>7. [fec |-> fec, bec |-> bec] \in GroupType
  BY <1>2, <1>3 DEF GroupType
<1>8. prefix_2_BFEC'[p] = [fec |-> fec, bec |-> bec]
  BY <1>6 DEF ClassesTypeOK
<1>9. ClassesTypeOK'
  <2>1. IsFiniteSet(BEC_list') /\ BEC_list' \subseteq BECType
    BY <1>3, <1>6, FS_AddElement DEF ClassesTypeOK
  <2> QED
    BY <1>2, <1>6, <1>7, <2>1, ControllerAssumption DEF ClassesTypeOK
<1>10. Describes([fec |-> fec, bec |-> bec], p, best, in, {t \in Offers : ~Taggable(t)})
  <2>1. \A d \in DOMAIN bec.backup_nbs :
          IF others = {} THEN bec.backup_nbs[d] = NoPart
          ELSE \E r \in others :
               /\ bec.backup_nbs[d] = PartOf[r.neighbor]
               /\ Traverses(r, bec.as_path[d], bec.as_path[d+1]) =>
                    \A t \in others : ~Traverses(t, bec.as_path[d], bec.as_path[d+1]) =>
                        t \in {u \in Offers : ~Taggable(u)}
    BY <1>3, <1>4, <1>5
  <2> QED
    BY <1>2, <1>3, <2>1 DEF Describes
<1> QED
  BY <1>7, <1>8, <1>9, <1>10

\* Regrouping a prefix keeps the ids of FECs distinct and touches no other prefix.
LEMMA RegroupStep ==
    ASSUME NEW p \in Prefixes, NEW best, NEW in, NEW announced,
           ClassesAreDistinct, DOMAIN prefix_2_BFEC = Prefixes,
           Regroup(p, best, in, announced)
    PROVE  /\ ClassesAreDistinct'
           /\ FEC_list \subseteq FEC_list'
           /\ FEC_list' = FEC_list \cup {prefix_2_BFEC'[p].fec}
           /\ DOMAIN prefix_2_BFEC' = Prefixes
           /\ \A q \in Prefixes \ {p} : prefix_2_BFEC'[q] = prefix_2_BFEC[q]
           /\ prefix_2_BFEC'[p].fec \in FEC_list'
           /\ prefix_2_BFEC'[p].fec.next_hop_part = PartOf[best.neighbor]
<1> DEFINE fec == FECFor(p, best, in)
<1>1. PICK bec, key :
          /\ FEC_list' = FEC_list \cup {fec}
          /\ \/ strays' = strays
             \/ strays' = strays \cup {key}
          /\ prefix_2_BFEC' = [prefix_2_BFEC EXCEPT ![p] = [fec |-> fec, bec |-> bec]]
  BY DEF Regroup
<1>2. /\ fec.next_hop_part = PartOf[best.neighbor]
      /\ \/ fec \in FEC_list
         \/ fec.id = Cardinality(FEC_list) + Cardinality(strays) + 1
  BY FECForNames
<1> HIDE DEF fec
<1>3. /\ IsFiniteSet(FEC_list') /\ IsFiniteSet(strays')
      /\ Cardinality(FEC_list) \in Nat /\ Cardinality(strays) \in Nat
      /\ Cardinality(FEC_list') = IF fec \in FEC_list THEN Cardinality(FEC_list)
                                  ELSE Cardinality(FEC_list) + 1
      /\ Cardinality(strays') \in Nat
      /\ Cardinality(strays') >= Cardinality(strays)
  <2>1. /\ IsFiniteSet(FEC_list) /\ IsFiniteSet(strays)
        /\ Cardinality(FEC_list) \in Nat /\ Cardinality(strays) \in Nat
    BY FS_CardinalityType DEF ClassesAreDistinct
  <2>2. /\ IsFiniteSet(FEC_list')
        /\ Cardinality(FEC_list') = IF fec \in FEC_list THEN Cardinality(FEC_list)
                                    ELSE Cardinality(FEC_list) + 1
    BY <1>1, <2>1, FS_AddElement
  <2>3. CASE strays' = strays
    BY <2>1, <2>2, <2>3
  <2>4. CASE strays' = strays \cup {key}
    <3>1. /\ IsFiniteSet(strays')
          /\ Cardinality(strays') = IF key \in strays THEN Cardinality(strays)
                                    ELSE Cardinality(strays) + 1
      BY <2>1, <2>4, FS_AddElement
    <3> QED
      BY <2>1, <2>2, <3>1
  <2> QED
    BY <1>1, <2>3, <2>4
<1>4. \A f \in FEC_list' : f.id \in 1..(Cardinality(FEC_list') + Cardinality(strays'))
  BY <1>1, <1>2, <1>3 DEF ClassesAreDistinct
<1>5. \A f, g \in FEC_list' : f.id = g.id => f = g
  BY <1>1, <1>2, <1>3 DEF ClassesAreDistinct
<1> QED
  BY <1>1, <1>2, <1>3, <1>4, <1>5 DEF ClassesAreDistinct

\* What a round of gratuitous ARPs does: those of G that are housed get the VMAC of their
\* group with the new tags, the others of G a bad one, for want of a superset.
GarpEffect(G, groups, housed) ==
    /\ housed \subseteq G
    /\ \A v \in G \ housed : part_advertising'[groups[v].fec] \in Misfits
    /\ VNH_2_vmac' = [v \in DOMAIN VNH_2_vmac \cup G |->
                        IF v \in housed THEN Vmac(groups[v], tag_dict')
                        ELSE IF v \in G THEN BadVmac ELSE VNH_2_vmac[v]]
    /\ \E order \in Seqs!SetToSeqs((UNION {Seqs!ToSet(groups[v].bec.backup_nbs) : v \in housed})
                                        \ (DOMAIN tag_dict \cup {NoPart})) :
            tag_dict' = TagsAfter(order)

LEMMA GarpHas ==
    ASSUME NEW G, NEW groups, Garp(G, groups)
    PROVE  /\ part_advertising' = Narrowed({groups[v].fec : v \in G})
           /\ \E housed : GarpEffect(G, groups, housed)
<1> DEFINE parts(v) == part_advertising'[groups[v].fec]
<1>1. PICK homeless \in SUBSET (Misfits \cap {parts(v) : v \in G}) :
            LET housed == {v \in G : parts(v) \notin homeless}
                backups == UNION {Seqs!ToSet(groups[v].bec.backup_nbs) : v \in housed}
            IN \E order \in Seqs!SetToSeqs(backups \ (DOMAIN tag_dict \cup {NoPart})) :
                /\ tag_dict' = TagsAfter(order)
                /\ VNH_2_vmac' = [v \in DOMAIN VNH_2_vmac \cup G |->
                                    IF v \in housed THEN Vmac(groups[v], tag_dict')
                                    ELSE IF v \in G THEN BadVmac ELSE VNH_2_vmac[v]]
  BY DEF Garp
<1> DEFINE housed == {v \in G : parts(v) \notin homeless}
<1>2. GarpEffect(G, groups, housed)
  <2>1. housed \subseteq G /\ \A v \in G \ housed : parts(v) \in Misfits
    OBVIOUS
  <2>2. VNH_2_vmac' = [v \in DOMAIN VNH_2_vmac \cup G |->
                        IF v \in housed THEN Vmac(groups[v], tag_dict')
                        ELSE IF v \in G THEN BadVmac ELSE VNH_2_vmac[v]]
    BY <1>1, Zenon
  <2>3. \E order \in Seqs!SetToSeqs((UNION {Seqs!ToSet(groups[v].bec.backup_nbs) : v \in housed})
                                        \ (DOMAIN tag_dict \cup {NoPart})) :
            tag_dict' = TagsAfter(order)
    BY <1>1, Zenon
  <2> QED
    BY <2>1, <2>2, <2>3 DEF GarpEffect
<1>3. part_advertising' = Narrowed({groups[v].fec : v \in G})
  BY DEF Garp
<1> HIDE DEF housed
<1> QED
  BY <1>2, <1>3

\* Deploying the class of a prefix gives its pair of ids a VNH, keeps those of the
\* others, and tells the routers.
LEMMA DeployStep ==
    ASSUME NEW p \in Prefixes, NEW best, NEW announced,
           VNHsKeepNextHop, FieldsAreNarrowed, DOMAIN routerVNH = Prefixes,
           ClassesAreDistinct', FEC_list \subseteq FEC_list',
           prefix_2_BFEC'[p].fec \in FEC_list',
           FEC_list' = FEC_list \cup {prefix_2_BFEC'[p].fec},
           Deploy(p, best, announced)
    PROVE  /\ VNHsKeepNextHop' /\ FieldsAreNarrowed'
           /\ \A v \in DOMAIN vnh_2_BFEC : vnh_2_BFEC'[v].fec = vnh_2_BFEC[v].fec
           /\ prefix_2_VNH_nrfp' = prefix_2_VNH_nrfp
           /\ DOMAIN routerVNH' = Prefixes
           /\ \A q \in Prefixes \ {p} : routerVNH'[q] = routerVNH[q]
           /\ \A ids \in DOMAIN BECid_FECid_2_VNH :
                /\ ids \in DOMAIN BECid_FECid_2_VNH'
                /\ BECid_FECid_2_VNH'[ids] = BECid_FECid_2_VNH[ids]
           /\ Ids(prefix_2_BFEC'[p]) \in DOMAIN BECid_FECid_2_VNH'
           /\ routerVNH'[p] = BECid_FECid_2_VNH'[Ids(prefix_2_BFEC'[p])]
<1> DEFINE group == prefix_2_BFEC'[p]
           ids0 == Ids(group)
           isNew == ids0 \notin DOMAIN BECid_FECid_2_VNH
           vnh == IF isNew THEN NextVNH ELSE BECid_FECid_2_VNH[ids0]
<1>1. /\ num_VNHs_in_use' = IF isNew THEN NextVNH ELSE num_VNHs_in_use
      /\ BECid_FECid_2_VNH' = With(BECid_FECid_2_VNH, ids0, vnh)
      /\ vnh_2_BFEC' = With(vnh_2_BFEC, vnh, group)
      /\ routerVNH' = [routerVNH EXCEPT ![p] = vnh]
  BY DEF Deploy
<1>2. PICK G, housed : /\ G \subseteq DOMAIN vnh_2_BFEC'
                       /\ vnh \notin DOMAIN VNH_2_vmac => vnh \in G
                       /\ part_advertising' = Narrowed({vnh_2_BFEC'[v].fec : v \in G})
                       /\ GarpEffect(G, vnh_2_BFEC', housed)
  <2>1. PICK recomputed \in BOOLEAN :
            Garp(VNHsToGarp(p, vnh, announced)
                    \cup IF recomputed THEN DOMAIN vnh_2_BFEC' ELSE {}, vnh_2_BFEC')
    BY DEF Deploy
  <2> DEFINE G == VNHsToGarp(p, vnh, announced)
                    \cup IF recomputed THEN DOMAIN vnh_2_BFEC' ELSE {}
  <2>2. /\ VNHsToGarp(p, vnh, announced) \subseteq {vnh}
        /\ vnh \notin DOMAIN VNH_2_vmac => vnh \in VNHsToGarp(p, vnh, announced)
    BY DEF VNHsToGarp
  <2>3. vnh \in DOMAIN vnh_2_BFEC'
    BY <1>1 DEF With
  <2>4. G \subseteq DOMAIN vnh_2_BFEC' /\ (vnh \notin DOMAIN VNH_2_vmac => vnh \in G)
    BY <2>2, <2>3
  <2>5. Garp(G, vnh_2_BFEC')
    BY <2>1
  <2> HIDE DEF G, vnh
  <2> QED
    BY <2>4, <2>5, GarpHas
<1>3. /\ num_VNHs_in_use \in Nat
      /\ NextVNH \in Nat /\ NextVNH > num_VNHs_in_use
  BY DEF VNHsKeepNextHop, NextVNH
<1>4. \A v : Vmac(vnh_2_BFEC'[v], tag_dict') # BadVmac =>
            Vmac(vnh_2_BFEC'[v], tag_dict').next_hop_part = vnh_2_BFEC'[v].fec.next_hop_part
  BY DEF Vmac
<1>5. /\ DOMAIN BECid_FECid_2_VNH' = DOMAIN BECid_FECid_2_VNH \cup {ids0}
      /\ \A ids \in DOMAIN BECid_FECid_2_VNH : BECid_FECid_2_VNH'[ids] = BECid_FECid_2_VNH[ids]
      /\ BECid_FECid_2_VNH'[ids0] = vnh
  BY <1>1 DEF With
<1>6. /\ DOMAIN vnh_2_BFEC' = DOMAIN vnh_2_BFEC \cup {vnh}
      /\ \A v \in DOMAIN vnh_2_BFEC \ {vnh} : vnh_2_BFEC'[v] = vnh_2_BFEC[v]
      /\ vnh_2_BFEC'[vnh] = group
  BY <1>1 DEF With
<1>7. ids0[2] = group.fec.id
  BY DEF Ids
\* A VNH in use keeps its FEC.
<1>8. \A v \in DOMAIN vnh_2_BFEC : vnh_2_BFEC'[v].fec = vnh_2_BFEC[v].fec
  <2>1. CASE isNew
    <3>1. vnh \notin DOMAIN vnh_2_BFEC
      BY <1>3, <2>1 DEF VNHsKeepNextHop
    <3> QED
      BY <1>6, <3>1
  <2>2. CASE ~isNew
    <3>1. /\ vnh \in DOMAIN vnh_2_BFEC
          /\ vnh_2_BFEC[vnh].fec.id = group.fec.id
      BY <1>7, <2>2 DEF VNHsKeepNextHop
    <3>2. vnh_2_BFEC[vnh].fec = group.fec
      BY <3>1 DEF VNHsKeepNextHop, ClassesAreDistinct
    <3> QED
      BY <1>6, <3>2
  <2> QED
    BY <2>1, <2>2
<1> HIDE DEF group, ids0, vnh
<1>9. VNHsKeepNextHop'
  <2>1. /\ num_VNHs_in_use' \in Nat
        /\ DOMAIN vnh_2_BFEC' \subseteq 1..num_VNHs_in_use'
    BY <1>1, <1>3, <1>6 DEF VNHsKeepNextHop, vnh
  <2>2. DOMAIN VNH_2_vmac' = DOMAIN vnh_2_BFEC'
    BY <1>2, <1>6 DEF VNHsKeepNextHop, GarpEffect
  <2>3. \A v \in DOMAIN vnh_2_BFEC' : vnh_2_BFEC'[v].fec \in FEC_list'
    BY <1>6, <1>8 DEF VNHsKeepNextHop, group
  <2>4. ASSUME NEW v \in DOMAIN vnh_2_BFEC', VNH_2_vmac'[v] # BadVmac
        PROVE  VNH_2_vmac'[v].next_hop_part = vnh_2_BFEC'[v].fec.next_hop_part
    <3>1. v \in housed \/ (v \notin G /\ v \in DOMAIN vnh_2_BFEC)
      BY <1>2, <1>6, <2>2, <2>4 DEF VNHsKeepNextHop, GarpEffect
    <3>2. CASE v \in housed
      BY <1>2, <1>4, <2>2, <2>4, <3>2 DEF GarpEffect
    <3>3. CASE v \notin G /\ v \in DOMAIN vnh_2_BFEC
      <4>1. VNH_2_vmac'[v] = VNH_2_vmac[v]
        BY <1>2, <2>2, <3>3 DEF GarpEffect
      <4> QED
        BY <1>8, <2>4, <3>3, <4>1 DEF VNHsKeepNextHop
    <3> QED
      BY <3>1, <3>2, <3>3
  <2>5. ASSUME NEW ids \in DOMAIN BECid_FECid_2_VNH'
        PROVE  /\ BECid_FECid_2_VNH'[ids] \in DOMAIN vnh_2_BFEC'
               /\ vnh_2_BFEC'[BECid_FECid_2_VNH'[ids]].fec.id = ids[2]
    BY <1>5, <1>6, <1>7, <1>8 DEF VNHsKeepNextHop
  <2> QED
    BY <2>1, <2>2, <2>3, <2>4, <2>5 DEF VNHsKeepNextHop
<1>10. prefix_2_VNH_nrfp' = prefix_2_VNH_nrfp
  BY DEF Deploy
\* A FEC is made with a VNH of its own, which is ARPed for.
<1>11. FieldsAreNarrowed'
  <2>1. group.fec \notin FEC_list => vnh \in G
    <3>1. ASSUME vnh \in DOMAIN VNH_2_vmac PROVE group.fec \in FEC_list
      BY <1>6, <1>8, <3>1 DEF VNHsKeepNextHop
    <3> QED
      BY <1>2, <3>1
  <2>2. \A f \in FEC_list' \ FEC_list : f \in {vnh_2_BFEC'[v].fec : v \in G}
    BY <1>6, <2>1 DEF group
  <2> QED
    BY <1>2, <2>2 DEF FieldsAreNarrowed, Narrowed
<1> QED
  BY <1>1, <1>5, <1>8, <1>9, <1>10, <1>11 DEF group, ids0

-----------------------------------------------------------------------------
(* Tags and backups of VMACs *)

\* Gratuitous ARPs give every backup of their groups a tag of its own, above all tags
\* there are, and change none.
LEMMA GarpTags ==
    ASSUME NEW G, NEW groups, NEW housed, TagsAreDistinct,
           \A v \in G : Seqs!ToSet(groups[v].bec.backup_nbs) \subseteq Parts \cup {NoPart},
           GarpEffect(G, groups, housed)
    PROVE  /\ TagsAreDistinct'
           /\ Cardinality(DOMAIN tag_dict) \in Nat
           /\ Cardinality((DOMAIN tag_dict)') \in Nat
           /\ Cardinality(DOMAIN tag_dict) <= Cardinality((DOMAIN tag_dict)')
           /\ \A a \in DOMAIN tag_dict : a \in DOMAIN tag_dict' /\ tag_dict'[a] = tag_dict[a]
           /\ \A a \in DOMAIN tag_dict' \ DOMAIN tag_dict :
                tag_dict'[a] \in Nat /\ tag_dict'[a] > Cardinality(DOMAIN tag_dict)
           /\ \A v \in housed : Seqs!ToSet(groups[v].bec.backup_nbs) \subseteq
                                     DOMAIN tag_dict' \cup {NoPart}
<1> DEFINE T == DOMAIN tag_dict
           backups == UNION {Seqs!ToSet(groups[v].bec.backup_nbs) : v \in housed}
           S == backups \ (T \cup {NoPart})
           n == Cardinality(T)
<1>1. PICK order \in Seqs!SetToSeqs(S) : tag_dict' = TagsAfter(order)
  BY Zenon DEF GarpEffect
<1>2. /\ S \subseteq Parts /\ T \subseteq Parts /\ S \cap T = {}
      /\ IsFiniteSet(S) /\ IsFiniteSet(T) /\ n \in Nat /\ Cardinality(S) \in Nat
  <2>1. S \subseteq Parts /\ T \subseteq Parts /\ S \cap T = {}
    BY DEF TagsAreDistinct, GarpEffect
  <2> QED
    BY <2>1, ControllerAssumption, FS_Subset, FS_CardinalityType
<1>3. /\ order \in [1..Cardinality(S) -> S] /\ Seqs!ToSet(order) = S
      /\ \A i, j \in 1..Cardinality(S) : i # j => order[i] # order[j]
  <2> HIDE DEF S
  <2> QED
    BY <1>1, <1>2, OrderIs
<1>4. \A v \in housed : Seqs!ToSet(groups[v].bec.backup_nbs) \subseteq T \cup S \cup {NoPart}
  OBVIOUS
<1>5. Cardinality(T \cup S) = n + Cardinality(S)
  <2> HIDE DEF S, T
  <2>1. T \cap S = {} /\ Cardinality({}) = 0
    BY <1>2, FS_EmptySet
  <2>2. Cardinality(T \cup S) = n + Cardinality(S) - Cardinality(T \cap S)
    BY <1>2, FS_Union
  <2>3. Cardinality(T \cap S) = 0
    BY <2>1
  <2> HIDE DEF n
  <2>4. n \in Nat /\ Cardinality(S) \in Nat
    BY <1>2
  <2> QED
    BY <2>2, <2>3, <2>4
<1> DEFINE at(a) == CHOOSE i \in DOMAIN order : order[i] = a
<1>6. \A a \in S : at(a) \in 1..Cardinality(S) /\ order[at(a)] = a
  <2> SUFFICES ASSUME NEW a \in S PROVE at(a) \in 1..Cardinality(S) /\ order[at(a)] = a
    OBVIOUS
  <2>1. \E i \in DOMAIN order : order[i] = a
    BY <1>3 DEF Seqs!ToSet
  <2> HIDE DEF S
  <2> QED
    BY <1>3, <2>1
<1>7. tag_dict' = [a \in T \cup S |-> IF a \in T THEN tag_dict[a] ELSE n + at(a)]
  BY <1>1, <1>3 DEF TagsAfter
<1> HIDE DEF S, at, n
<1>8. /\ DOMAIN tag_dict' = T \cup S
      /\ \A a \in T : tag_dict'[a] = tag_dict[a] /\ tag_dict'[a] \in 1..n
      /\ \A a \in S : tag_dict'[a] = n + at(a)
  BY <1>2, <1>7 DEF TagsAreDistinct, n
<1> HIDE DEF T
<1>9. \A a \in T \cup S : tag_dict'[a] \in 1..(n + Cardinality(S))
  BY <1>2, <1>6, <1>8
<1>10. \A a, b \in T \cup S : tag_dict'[a] = tag_dict'[b] => a = b
  <2> SUFFICES ASSUME NEW a \in T \cup S, NEW b \in T \cup S, tag_dict'[a] = tag_dict'[b]
               PROVE  a = b
    OBVIOUS
  <2>1. CASE a \in T /\ b \in T
    BY <1>8, <2>1 DEF TagsAreDistinct, T
  <2>2. CASE a \in S /\ b \in S
    <3>1. at(a) = at(b)
      BY <1>2, <1>6, <1>8, <2>2
    <3> QED
      BY <1>6, <2>2, <3>1
  <2>3. CASE a \in T /\ b \in S
    BY <1>2, <1>6, <1>8, <2>3
  <2>4. CASE a \in S /\ b \in T
    BY <1>2, <1>6, <1>8, <2>4
  <2> QED
    BY <2>1, <2>2, <2>3, <2>4
<1>11. TagsAreDistinct'
  BY <1>2, <1>5, <1>8, <1>9, <1>10 DEF TagsAreDistinct
<1>12. \A a \in DOMAIN tag_dict' \ T : tag_dict'[a] \in Nat /\ tag_dict'[a] > n
  BY <1>2, <1>6, <1>8
<1>13. /\ Cardinality((DOMAIN tag_dict)') \in Nat
       /\ n <= Cardinality((DOMAIN tag_dict)')
  BY <1>2, <1>5, <1>8
<1> QED
  BY <1>2, <1>4, <1>8, <1>11, <1>12, <1>13 DEF T, n

\* Who is too late for a tag stays so, and who is passed over is.
LEMMA LateStays ==
    ASSUME NEW r, TagsAreDistinct,
           Cardinality(DOMAIN tag_dict) \in Nat,
           Cardinality((DOMAIN tag_dict)') \in Nat,
           Cardinality(DOMAIN tag_dict) <= Cardinality((DOMAIN tag_dict)'),
           \A a \in DOMAIN tag_dict : a \in DOMAIN tag_dict' /\ tag_dict'[a] = tag_dict[a],
           \A a \in DOMAIN tag_dict' \ DOMAIN tag_dict :
                tag_dict'[a] \in Nat /\ tag_dict'[a] > Cardinality(DOMAIN tag_dict),
           ~Taggable(r) \/ TooLateForTag(r)
    PROVE  TooLateForTag(r)'
<1> DEFINE a == PartOf[r.neighbor]
<1>1. TagRoom \in Nat
  BY ControllerAssumption
<1>2. Cardinality(DOMAIN tag_dict) >= TagRoom
  BY <1>1 DEF Taggable, TooLateForTag
<1>3. a \in DOMAIN tag_dict => tag_dict[a] > TagRoom
  BY DEF Taggable, TooLateForTag
<1>4. Cardinality((DOMAIN tag_dict)') >= TagRoom
  BY <1>1, <1>2
<1>5. a \in DOMAIN tag_dict' => tag_dict'[a] > TagRoom
  <2>1. CASE a \in DOMAIN tag_dict
    BY <1>3, <2>1
  <2>2. CASE a \notin DOMAIN tag_dict
    BY <1>1, <1>2, <2>2
  <2> QED
    BY <2>1, <2>2
<1> QED
  BY <1>4, <1>5 DEF TooLateForTag, TagRoom

\* The backups of a group advertise the prefixes of its FEC and are not the next hop.
Usable(group) == group.fec.part_set \ {group.fec.next_hop_part}

BackupsUsable(group) == Seqs!ToSet(group.bec.backup_nbs) \subseteq Usable(group) \cup {NoPart}

LEMMA DescribedIsUsable ==
    ASSUME NEW group, NEW p, NEW best, NEW in, NEW late, Describes(group, p, best, in, late)
    PROVE  BackupsUsable(group)
<1> DEFINE others == {r \in RoutesTo(p, in) : PartOf[r.neighbor] # group.fec.next_hop_part}
<1>1. \A r \in others : PartOf[r.neighbor] \in Usable(group)
  BY DEF Describes, Advertisers, Usable
<1>2. \A d \in DOMAIN group.bec.backup_nbs :
        \/ group.bec.backup_nbs[d] = NoPart
        \/ \E r \in others : group.bec.backup_nbs[d] = PartOf[r.neighbor]
  BY DEF Describes
<1> QED
  BY <1>1, <1>2 DEF BackupsUsable, Seqs!ToSet

\* The backup bits of a VMAC are tags of its group's backups.
LEMMA BitsAreTags ==
    ASSUME NEW backups, NEW tags, BackupBits(backups, tags) # Spilled,
           NEW i \in DOMAIN BackupBits(backups, tags), BackupBits(backups, tags)[i] # 0
    PROVE  \E b \in Seqs!ToSet(backups) \ {NoPart} : BackupBits(backups, tags)[i] = tags[b]
<1> DEFINE real == Tagged(backups)
           place(d) == Len(backups) - Cardinality({e \in real : e > d})
           of == CHOOSE d \in real : place(d) = i
<1>1. /\ \E d \in real : place(d) = i
      /\ BackupBits(backups, tags)[i] = tags[backups[of]]
  BY DEF BackupBits
<1>2. of \in real
  BY <1>1
<1> QED
  BY <1>1, <1>2 DEF Seqs!ToSet, Tagged

\* A VMAC whose fields are pushed out holds a tag beyond the room for tags.
LEMMA BadIsFull ==
    ASSUME NEW group, NEW tags, group.fec.next_hop_part \in Parts,
           Vmac(group, tags) = BadVmac
    PROVE  \E b \in Seqs!ToSet(group.bec.backup_nbs) \ {NoPart} : tags[b] >= TagRoom
<1>1. group.fec.next_hop_part # NoPart
  BY ControllerAssumption
<1>2. Spills(group.bec.backup_nbs, tags)
  BY <1>1 DEF Vmac, BadVmac
<1> QED
  BY <1>2 DEF Spills, Tagged, Seqs!ToSet

LEMMA TagsOfVmac ==
    ASSUME VNHsKeepBackups, NEW v \in DOMAIN vnh_2_BFEC, VNH_2_vmac[v].backups # Spilled,
           NEW i \in DOMAIN VNH_2_vmac[v].backups, VNH_2_vmac[v].backups[i] # 0
    PROVE  \E b \in DOMAIN tag_dict \cap Usable(vnh_2_BFEC[v]) :
                VNH_2_vmac[v].backups[i] = tag_dict[b]
BY Zenon DEF VNHsKeepBackups, Usable

\* Deploying a group whose backups are usable keeps the backups of all VMACs usable.
LEMMA DeployBackups ==
    ASSUME NEW p \in Prefixes, NEW best, NEW announced,
           FEC_list' \subseteq FECType, VNHsKeepNextHop, VNHsKeepNextHop',
           FieldsAreNarrowed', TagsAreDistinct, VNHsKeepBackups,
           BackupsUsable(prefix_2_BFEC'[p]),
           \A v \in DOMAIN vnh_2_BFEC : vnh_2_BFEC'[v].fec = vnh_2_BFEC[v].fec,
           Deploy(p, best, announced)
    PROVE  /\ VNHsKeepBackups'
           /\ TagsAreDistinct'
           /\ Cardinality(DOMAIN tag_dict) \in Nat
           /\ Cardinality((DOMAIN tag_dict)') \in Nat
           /\ Cardinality(DOMAIN tag_dict) <= Cardinality((DOMAIN tag_dict)')
           /\ \A a \in DOMAIN tag_dict : a \in DOMAIN tag_dict' /\ tag_dict'[a] = tag_dict[a]
           /\ \A a \in DOMAIN tag_dict' \ DOMAIN tag_dict :
                tag_dict'[a] \in Nat /\ tag_dict'[a] > Cardinality(DOMAIN tag_dict)
<1>1. PICK vnh : /\ vnh_2_BFEC' = With(vnh_2_BFEC, vnh, prefix_2_BFEC'[p])
                 /\ \E recomputed \in BOOLEAN :
                        Garp(VNHsToGarp(p, vnh, announced)
                                \cup IF recomputed THEN DOMAIN vnh_2_BFEC' ELSE {}, vnh_2_BFEC')
  BY DEF Deploy
<1>2. PICK G, housed : G \subseteq DOMAIN vnh_2_BFEC' /\ GarpEffect(G, vnh_2_BFEC', housed)
  <2>1. vnh \in DOMAIN vnh_2_BFEC' /\ VNHsToGarp(p, vnh, announced) \subseteq {vnh}
    BY <1>1 DEF With, VNHsToGarp
  <2> QED
    BY <1>1, <2>1, GarpHas
<1>3. \A v \in DOMAIN vnh_2_BFEC' : BackupsUsable(vnh_2_BFEC'[v])
  <2>1. \A v \in DOMAIN vnh_2_BFEC : BackupsUsable(vnh_2_BFEC[v])
    BY DEF VNHsKeepBackups, BackupsUsable, Usable
  <2> QED
    BY <1>1, <2>1 DEF With
<1>4. \A v \in DOMAIN vnh_2_BFEC' : Usable(vnh_2_BFEC'[v]) \subseteq Parts
  BY DEF VNHsKeepNextHop, FECType, Usable
<1>5. \A v \in G : Seqs!ToSet(vnh_2_BFEC'[v].bec.backup_nbs) \subseteq Parts \cup {NoPart}
  BY <1>2, <1>3, <1>4 DEF BackupsUsable
<1>6. /\ TagsAreDistinct'
      /\ Cardinality(DOMAIN tag_dict) \in Nat
      /\ Cardinality((DOMAIN tag_dict)') \in Nat
      /\ Cardinality(DOMAIN tag_dict) <= Cardinality((DOMAIN tag_dict)')
      /\ \A a \in DOMAIN tag_dict : a \in DOMAIN tag_dict' /\ tag_dict'[a] = tag_dict[a]
      /\ \A a \in DOMAIN tag_dict' \ DOMAIN tag_dict :
            tag_dict'[a] \in Nat /\ tag_dict'[a] > Cardinality(DOMAIN tag_dict)
      /\ \A v \in housed : Seqs!ToSet(vnh_2_BFEC'[v].bec.backup_nbs) \subseteq
                                 DOMAIN tag_dict' \cup {NoPart}
  BY <1>2, <1>5, GarpTags
<1>7. /\ housed \subseteq G /\ G \subseteq DOMAIN vnh_2_BFEC'
      /\ \A v \in housed : VNH_2_vmac'[v] = Vmac(vnh_2_BFEC'[v], tag_dict')
      /\ \A v \in G \ housed : /\ VNH_2_vmac'[v] = BadVmac
                              /\ part_advertising'[vnh_2_BFEC'[v].fec] \in Misfits
      /\ \A v \in DOMAIN vnh_2_BFEC' \ G :
            /\ v \in DOMAIN vnh_2_BFEC
            /\ VNH_2_vmac'[v] = VNH_2_vmac[v]
  BY <1>2 DEF GarpEffect, VNHsKeepNextHop
<1>8. ASSUME NEW v \in DOMAIN vnh_2_BFEC', VNH_2_vmac'[v].backups # Spilled,
             NEW i \in DOMAIN VNH_2_vmac'[v].backups,
             VNH_2_vmac'[v].backups[i] # 0
      PROVE  \E b \in DOMAIN tag_dict' \cap Usable(vnh_2_BFEC'[v]) :
                VNH_2_vmac'[v].backups[i] = tag_dict'[b]
  <2>1. CASE v \in housed
    <3>1. VNH_2_vmac'[v].backups = BackupBits(vnh_2_BFEC'[v].bec.backup_nbs, tag_dict')
      <4>1. VNH_2_vmac'[v] = Vmac(vnh_2_BFEC'[v], tag_dict') /\ BadVmac.backups = Spilled
        BY <1>7, <2>1 DEF BadVmac
      <4>2. Vmac(vnh_2_BFEC'[v], tag_dict') # BadVmac
        BY <1>8, <4>1
      <4> HIDE DEF BadVmac
      <4>3. Vmac(vnh_2_BFEC'[v], tag_dict').backups =
                BackupBits(vnh_2_BFEC'[v].bec.backup_nbs, tag_dict')
        BY <4>2 DEF Vmac
      <4> QED
        BY <4>1, <4>3
    <3>2. PICK b \in Seqs!ToSet(vnh_2_BFEC'[v].bec.backup_nbs) \ {NoPart} :
                VNH_2_vmac'[v].backups[i] = tag_dict'[b]
      BY <1>8, <3>1, BitsAreTags
    <3>3. b \in DOMAIN tag_dict' /\ b \in Usable(vnh_2_BFEC'[v])
      BY <1>3, <1>6, <2>1, <3>2 DEF BackupsUsable
    <3> QED
      BY <3>2, <3>3
  <2>2. CASE v \in G \ housed
    BY <1>7, <1>8, <2>2 DEF BadVmac
  <2>3. CASE v \notin G
    <3>1. v \in DOMAIN vnh_2_BFEC
      BY <1>7, <2>3
    <3>2. VNH_2_vmac'[v] = VNH_2_vmac[v] /\ Usable(vnh_2_BFEC'[v]) = Usable(vnh_2_BFEC[v])
      BY <1>7, <2>3, <3>1 DEF Usable
    <3>3. PICK b \in DOMAIN tag_dict \cap Usable(vnh_2_BFEC[v]) :
                VNH_2_vmac[v].backups[i] = tag_dict[b]
      BY <1>8, <3>1, <3>2, TagsOfVmac
    <3> QED
      BY <1>6, <3>2, <3>3
  <2> QED
    BY <1>7, <2>1, <2>2, <2>3
\* A VMAC that goes bad has no superset or a tag too many; one that was bad stays so.
<1>10. ASSUME NEW v \in DOMAIN vnh_2_BFEC', VNH_2_vmac'[v] = BadVmac
       PROVE  \/ vnh_2_BFEC'[v].fec.part_set \cap ActiveParts \in Misfits
              \/ Cardinality((DOMAIN tag_dict)') >= TagRoom
  <2>0. TagRoom \in Nat
    BY ControllerAssumption
  <2>1. CASE v \in housed
    <3>1. vnh_2_BFEC'[v].fec.next_hop_part \in Parts
      BY DEF VNHsKeepNextHop, FECType
    <3>2. PICK b \in Seqs!ToSet(vnh_2_BFEC'[v].bec.backup_nbs) \ {NoPart} : tag_dict'[b] >= TagRoom
      BY <1>7, <1>10, <2>1, <3>1, BadIsFull
    <3>3. tag_dict'[b] \in 1..Cardinality((DOMAIN tag_dict)')
      BY <1>6, <2>1, <3>2 DEF TagsAreDistinct
    <3> QED
      BY <1>6, <2>0, <3>2, <3>3
  <2>2. CASE v \in G \ housed
    <3>1. vnh_2_BFEC'[v].fec \in FEC_list'
      BY DEF VNHsKeepNextHop
    <3> QED
      BY <1>7, <2>2, <3>1 DEF FieldsAreNarrowed
  <2>3. CASE v \notin G
    <3>1. /\ v \in DOMAIN vnh_2_BFEC /\ VNH_2_vmac[v] = BadVmac
          /\ vnh_2_BFEC'[v].fec = vnh_2_BFEC[v].fec
      BY <1>7, <1>10, <2>3
    <3>2. \/ vnh_2_BFEC[v].fec.part_set \cap ActiveParts \in Misfits
          \/ Cardinality(DOMAIN tag_dict) >= TagRoom
      BY <3>1 DEF VNHsKeepBackups
    <3> QED
      BY <1>6, <2>0, <3>1, <3>2
  <2> QED
    BY <1>7, <2>1, <2>2, <2>3
<1>9. VNHsKeepBackups'
  BY <1>3, <1>8, <1>10 DEF VNHsKeepBackups, BackupsUsable, Usable, TagRoom
<1> QED
  BY <1>6, <1>9

-----------------------------------------------------------------------------

CIndInv ==
    /\ IInv
    /\ ClassesTypeOK /\ ClassesAreDistinct /\ FieldsAreNarrowed
    /\ TagsAreDistinct
    /\ VNHsKeepNextHop /\ VNHsKeepBackups
    /\ GroupsAreAnnounced /\ GroupsAreCurrent

\* Processing a route of p, the rest of the event having set local'[p] to `best`.
LEMMA ProcessRouteStep ==
    ASSUME NEW p \in Prefixes, NEW best, NEW in, NEW announced,
           ClassesAreDistinct, FieldsAreNarrowed, VNHsKeepNextHop, GroupsAreAnnounced,
           local' = [local EXCEPT ![p] = best], DOMAIN local = Prefixes,
           alive, alive',
           ProcessRoute(p, best, in, announced)
    PROVE  /\ ClassesAreDistinct' /\ FieldsAreNarrowed'
           /\ VNHsKeepNextHop' /\ GroupsAreAnnounced'
           /\ output' = [output EXCEPT ![p] = best]
<1>1. CASE best # NoRoute
  <2>1. /\ Regroup(p, best, in, announced)
        /\ Deploy(p, best, announced)
    BY <1>1 DEF ProcessRoute, Die
  <2>2. /\ ClassesAreDistinct'
        /\ FEC_list \subseteq FEC_list'
        /\ FEC_list' = FEC_list \cup {prefix_2_BFEC'[p].fec}
        /\ DOMAIN prefix_2_BFEC' = Prefixes
        /\ \A q \in Prefixes \ {p} : prefix_2_BFEC'[q] = prefix_2_BFEC[q]
        /\ prefix_2_BFEC'[p].fec \in FEC_list'
        /\ prefix_2_BFEC'[p].fec.next_hop_part = PartOf[best.neighbor]
    BY <2>1, RegroupStep DEF GroupsAreAnnounced
  <2>3. /\ VNHsKeepNextHop' /\ FieldsAreNarrowed'
        /\ prefix_2_VNH_nrfp' = prefix_2_VNH_nrfp
        /\ DOMAIN routerVNH' = Prefixes
        /\ \A q \in Prefixes \ {p} : routerVNH'[q] = routerVNH[q]
        /\ \A ids \in DOMAIN BECid_FECid_2_VNH :
             /\ ids \in DOMAIN BECid_FECid_2_VNH'
             /\ BECid_FECid_2_VNH'[ids] = BECid_FECid_2_VNH[ids]
        /\ Ids(prefix_2_BFEC'[p]) \in DOMAIN BECid_FECid_2_VNH'
        /\ routerVNH'[p] = BECid_FECid_2_VNH'[Ids(prefix_2_BFEC'[p])]
    BY <2>1, <2>2, DeployStep DEF GroupsAreAnnounced
  <2>4. ASSUME NEW q \in Prefixes, local'[q] # NoRoute
        PROVE  /\ prefix_2_BFEC'[q].fec \in FEC_list'
               /\ prefix_2_BFEC'[q].fec.next_hop_part = PartOf[local'[q].neighbor]
               /\ Ids(prefix_2_BFEC'[q]) \in DOMAIN BECid_FECid_2_VNH'
               /\ routerVNH'[q] = BECid_FECid_2_VNH'[Ids(prefix_2_BFEC'[q])]
    <3>1. CASE q = p
      BY <2>2, <2>3, <3>1
    <3>2. CASE q # p
      <4>1. /\ local[q] = local'[q] /\ local[q] # NoRoute
            /\ prefix_2_BFEC'[q] = prefix_2_BFEC[q]
            /\ routerVNH'[q] = routerVNH[q]
        BY <2>2, <2>3, <2>4, <3>2
      <4>2. /\ prefix_2_BFEC[q].fec \in FEC_list
            /\ prefix_2_BFEC[q].fec.next_hop_part = PartOf[local[q].neighbor]
            /\ Ids(prefix_2_BFEC[q]) \in DOMAIN BECid_FECid_2_VNH
            /\ routerVNH[q] = BECid_FECid_2_VNH[Ids(prefix_2_BFEC[q])]
        BY <4>1 DEF GroupsAreAnnounced
      <4>3. Ids(prefix_2_BFEC'[q]) = Ids(prefix_2_BFEC[q])
        BY <4>1 DEF Ids
      <4> QED
        BY <2>2, <2>3, <4>1, <4>2, <4>3
    <3> QED
      BY <3>1, <3>2
  <2>5. output' = [output EXCEPT ![p] = best]
    BY <2>1 DEF Deploy, OutputAfter
  <2>6. GroupsAreAnnounced'
    BY <2>2, <2>3, <2>4, Zenon DEF GroupsAreAnnounced, Ids
  <2> QED
    BY <2>2, <2>3, <2>5, <2>6
<1>2. CASE best = NoRoute
  <2>1. Lose(p) /\ Retract(p)
    BY <1>2 DEF ProcessRoute, Die
  <2>2. /\ UNCHANGED <<FEC_list, strays, part_advertising, num_VNHs_in_use,
                       BECid_FECid_2_VNH, vnh_2_BFEC, VNH_2_vmac>>
        /\ prefix_2_BFEC' = [prefix_2_BFEC EXCEPT ![p] = NoGroup]
        /\ routerVNH' = [routerVNH EXCEPT ![p] = NoVNH]
        /\ DOMAIN prefix_2_VNH_nrfp' = DOMAIN prefix_2_VNH_nrfp
        /\ output' = [output EXCEPT ![p] = best]
    BY <1>2, <2>1 DEF Lose, Retract, OutputAfter
  <2>3. ClassesAreDistinct' /\ FieldsAreNarrowed'
    BY <2>2 DEF ClassesAreDistinct, FieldsAreNarrowed
  <2>4. VNHsKeepNextHop'
    BY <2>2 DEF VNHsKeepNextHop
  <2>5. GroupsAreAnnounced'
    BY <1>2, <2>2 DEF GroupsAreAnnounced, Ids
  <2> QED
    BY <2>2, <2>3, <2>4, <2>5
<1> QED
  BY <1>1, <1>2

\* A withdrawal of a prefix nobody advertises changes nothing the BGP speaker stores.
LEMMA UnknownWithdrawal ==
    ASSUME NEW p \in Prefixes, NEW n \in Neighbors,
           IInv, Idle, RoutesTo(p, input) = {}
    PROVE  local[p] = NoRoute /\ output[p] = NoRoute /\ input[p][n] = NoRoute
<1>1. \A m \in Neighbors : input[p][m] = NoRoute
  BY DEF RoutesTo
<1>2. routeList = {}
  BY DEF IInv, FailureInProgress, Idle
<1>3. local[p] # NoRoute => local[p].neighbor \in Neighbors
  BY OfferType DEF IInv, TypeOK
<1>4. local[p] = NoRoute
  BY <1>1, <1>2, <1>3 DEF IInv, BestIsAdvertised, HasBest, Current
<1> QED
  BY <1>1, <1>4 DEF IInv, RoutersKnowBest

\* Every step of a controller that survives it is a step of the BGP speaker, or the
\* withdrawal of a prefix nobody advertises.
LEMMA StepIsPeers ==
    ASSUME CIndInv, alive, alive', CNext
    PROVE  /\ Next \/ UNCHANGED vars
           /\ ClassesAreDistinct' /\ FieldsAreNarrowed' /\ VNHsKeepNextHop'
           /\ GroupsAreAnnounced'
<1>0. /\ IInv /\ ClassesAreDistinct /\ FieldsAreNarrowed
      /\ VNHsKeepNextHop /\ GroupsAreAnnounced
      /\ DOMAIN local = Prefixes /\ DOMAIN input = Prefixes /\ DOMAIN output = Prefixes
  BY DEF CIndInv, IInv, TypeOK
<1>1. ASSUME NEW p \in Prefixes, NEW r \in Offers, ReceiveAnnounce(p, r)
      PROVE  /\ Next
             /\ ClassesAreDistinct' /\ FieldsAreNarrowed' /\ VNHsKeepNextHop'
             /\ GroupsAreAnnounced'
  <2>1. PICK best \in BestAfterAnnounce(p, r, input') :
            /\ local' = [local EXCEPT ![p] = best]
            /\ ProcessRoute(p, best, input', TRUE)
    BY <1>1 DEF ReceiveAnnounce
  <2>2. /\ ClassesAreDistinct' /\ FieldsAreNarrowed' /\ VNHsKeepNextHop'
        /\ GroupsAreAnnounced'
        /\ OutputAfter(p, best)
    BY <1>0, <2>1, ProcessRouteStep DEF OutputAfter
  <2>3. Announce(p, r)
    BY <1>1, <2>1, <2>2 DEF ReceiveAnnounce, Announce
  <2> QED
    BY <2>2, <2>3 DEF Next
<1>2. ASSUME NEW p \in Prefixes, NEW n \in Neighbors, ReceiveWithdraw(p, n)
      PROVE  /\ Next \/ UNCHANGED vars
             /\ ClassesAreDistinct' /\ FieldsAreNarrowed' /\ VNHsKeepNextHop'
             /\ GroupsAreAnnounced'
  <2>1. PICK best \in BestAfterWithdraw(p, n, input') :
            /\ local' = [local EXCEPT ![p] = best]
            /\ ProcessRoute(p, best, input', FALSE)
    BY <1>2 DEF ReceiveWithdraw
  <2>2. /\ ClassesAreDistinct' /\ FieldsAreNarrowed' /\ VNHsKeepNextHop'
        /\ GroupsAreAnnounced'
        /\ output' = [output EXCEPT ![p] = best]
    BY <1>0, <2>1, ProcessRouteStep
  <2>3. CASE RoutesTo(p, input) # {}
    <3>1. Withdraw(p, n)
      BY <1>2, <2>1, <2>2, <2>3 DEF ReceiveWithdraw, Withdraw, OutputAfter
    <3> QED
      BY <2>2, <3>1 DEF Next
  <2>4. CASE RoutesTo(p, input) = {}
    <3>1. local[p] = NoRoute /\ output[p] = NoRoute /\ input[p][n] = NoRoute
      BY <1>0, <1>2, <2>4, UnknownWithdrawal DEF ReceiveWithdraw
    <3>2. best = NoRoute
      BY <2>1, <3>1 DEF BestAfterWithdraw
    <3>3. local' = local /\ output' = output
      BY <1>0, <2>1, <2>2, <3>1, <3>2 DEF IInv, TypeOK
    <3>4. input' = input
      BY <1>0, <1>2, <3>1 DEF ReceiveWithdraw, IInv, TypeOK
    <3> QED
      BY <1>2, <2>2, <3>3, <3>4 DEF ReceiveWithdraw, vars
  <2> QED
    BY <2>3, <2>4
<1>3. ASSUME NEW n \in Neighbors, ReceiveDown(n)
      PROVE  /\ Next
             /\ ClassesAreDistinct' /\ FieldsAreNarrowed' /\ VNHsKeepNextHop'
             /\ GroupsAreAnnounced'
  <2>1. /\ PeerDown(n) /\ local' = local
        /\ UNCHANGED <<FEC_list, strays, part_advertising, prefix_2_BFEC,
                       num_VNHs_in_use, BECid_FECid_2_VNH, vnh_2_BFEC, VNH_2_vmac, routerVNH, prefix_2_VNH_nrfp>>
    BY <1>3 DEF ReceiveDown, PeerDown, groupVars, vnhVars, arpVars
  <2>2. ClassesAreDistinct' /\ FieldsAreNarrowed'
    BY <1>0, <2>1 DEF ClassesAreDistinct, FieldsAreNarrowed
  <2>3. VNHsKeepNextHop'
    BY <1>0, <2>1 DEF VNHsKeepNextHop
  <2>4. GroupsAreAnnounced'
    BY <1>0, <2>1 DEF GroupsAreAnnounced, Ids
  <2> QED
    BY <2>1, <2>2, <2>3, <2>4 DEF Next
<1>4. ASSUME NEW p \in Prefixes, ContinueDown(p)
      PROVE  /\ Next
             /\ ClassesAreDistinct' /\ FieldsAreNarrowed' /\ VNHsKeepNextHop'
             /\ GroupsAreAnnounced'
  <2>1. PICK best \in BestAfterWithdraw(p, downPeer, input) :
            /\ local' = [local EXCEPT ![p] = best]
            /\ ProcessRoute(p, best, input, FALSE)
    BY <1>4 DEF ContinueDown
  <2>2. /\ ClassesAreDistinct' /\ FieldsAreNarrowed' /\ VNHsKeepNextHop'
        /\ GroupsAreAnnounced'
        /\ OutputAfter(p, best)
    BY <1>0, <2>1, ProcessRouteStep DEF OutputAfter
  <2>3. ProcessDownRoute(p)
    BY <1>4, <2>1, <2>2 DEF ContinueDown, ProcessDownRoute
  <2> QED
    BY <2>2, <2>3 DEF Next
<1> QED
  BY <1>1, <1>2, <1>3, <1>4 DEF CNext

-----------------------------------------------------------------------------

\* The FEC of a routed prefix lists its advertisers that policies forward to.
LEMMA FieldsHold ==
    ASSUME FieldsAreNarrowed', GroupsAreAnnounced'
    PROVE  \A q \in Prefixes : local'[q] # NoRoute =>
            part_advertising'[prefix_2_BFEC'[q].fec] = prefix_2_BFEC'[q].fec.part_set \cap ActiveParts
BY DEF FieldsAreNarrowed, GroupsAreAnnounced

\* A step that processes a route of p keeps the classes of all settled prefixes
\* current: those of p are made anew, and nothing others depend on changes.
LEMMA CurrentStep ==
    ASSUME NEW p \in Prefixes, NEW in \in Inputs, NEW best \in Offers \cup {NoRoute},
           input \in Inputs, input' = in, \A q \in Prefixes \ {p} : in[q] = input[q],
           \A q \in Prefixes \ {p} : q \in routeList => q \in routeList',
           DOMAIN local = Prefixes, local' = [local EXCEPT ![p] = best],
           DOMAIN prefix_2_BFEC = Prefixes,
           \A q \in Prefixes \ {p} : prefix_2_BFEC'[q] = prefix_2_BFEC[q],
           \A r \in Offers : ~Taggable(r) \/ TooLateForTag(r) => TooLateForTag(r)',
           best # NoRoute =>
                Describes(prefix_2_BFEC'[p], p, best, in, {t \in Offers : ~Taggable(t)}),
           alive, GroupsAreCurrent, FieldsAreNarrowed', GroupsAreAnnounced'
    PROVE  GroupsAreCurrent'
<1> SUFFICES ASSUME NEW q \in Prefixes, q \notin routeList', local'[q] # NoRoute
             PROVE  Describes(prefix_2_BFEC'[q], q, local'[q], in,
                              {t \in Offers : TooLateForTag(t)'})
  <2>1. \A q \in Prefixes : RoutesTo(q, in) \subseteq Offers
    BY RoutesAre
  <2>2. \A q \in Prefixes : local'[q] # NoRoute =>
            part_advertising'[prefix_2_BFEC'[q].fec] = prefix_2_BFEC'[q].fec.part_set \cap ActiveParts
    BY FieldsHold
  <2> QED
    BY <2>1, <2>2 DEF GroupsAreCurrent, Settled, Describes
<1>1. CASE q = p
  <2>1. Describes(prefix_2_BFEC'[p], p, best, in, {t \in Offers : ~Taggable(t)})
    BY <1>1
  <2>2. local'[p] = best
    OBVIOUS
  <2>3. {t \in Offers : ~Taggable(t)} \subseteq {t \in Offers : TooLateForTag(t)'}
    OBVIOUS
  <2> QED
    BY <1>1, <2>1, <2>2, <2>3 DEF Describes
<1>2. CASE q # p
  <2>1. /\ local'[q] = local[q] /\ prefix_2_BFEC'[q] = prefix_2_BFEC[q]
        /\ in[q] = input[q] /\ q \notin routeList
    BY <1>2
  <2>2. /\ RoutesTo(q, in) = RoutesTo(q, input) /\ RoutesTo(q, in) \subseteq Offers
        /\ Advertisers(q, in) = Advertisers(q, input)
    <3>1. RoutesTo(q, in) = RoutesTo(q, input)
      BY <2>1 DEF RoutesTo
    <3>2. RoutesTo(q, in) \subseteq Offers
      BY RoutesAre
    <3> QED
      BY <3>1, <3>2 DEF Advertisers
  <2>3. Describes(prefix_2_BFEC[q], q, local[q], in, {t \in Offers : TooLateForTag(t)})
    BY <2>1, <2>2 DEF GroupsAreCurrent, Settled, Describes
  <2>4. {t \in Offers : TooLateForTag(t)} \subseteq {t \in Offers : TooLateForTag(t)'}
    OBVIOUS
  <2> QED
    BY <2>1, <2>3, <2>4 DEF Describes
<1> QED
  BY <1>1, <1>2

\* Processing a route of p keeps classes, tags and backups in order.
LEMMA ProcessRouteClasses ==
    ASSUME NEW p \in Prefixes, NEW in \in Inputs, NEW best \in Offers \cup {NoRoute},
           NEW announced \in BOOLEAN,
           input \in Inputs, input' = in, \A q \in Prefixes \ {p} : in[q] = input[q],
           \A q \in Prefixes \ {p} : q \in routeList => q \in routeList',
           DOMAIN local = Prefixes, local' = [local EXCEPT ![p] = best],
           CIndInv, FieldsAreNarrowed', VNHsKeepNextHop', GroupsAreAnnounced', alive, alive',
           ProcessRoute(p, best, in, announced)
    PROVE  ClassesTypeOK' /\ TagsAreDistinct' /\ VNHsKeepBackups' /\ GroupsAreCurrent'
<1>0. /\ ClassesTypeOK /\ ClassesAreDistinct /\ FieldsAreNarrowed /\ TagsAreDistinct
      /\ VNHsKeepNextHop /\ VNHsKeepBackups /\ GroupsAreAnnounced /\ GroupsAreCurrent
      /\ DOMAIN prefix_2_BFEC = Prefixes /\ DOMAIN routerVNH = Prefixes
  BY DEF CIndInv, GroupsAreAnnounced
<1>1. CASE best # NoRoute
  <2>1. best \in Offers /\ Regroup(p, best, in, announced) /\ Deploy(p, best, announced)
    BY <1>1 DEF ProcessRoute, Die
  <2>2. /\ ClassesAreDistinct' /\ FEC_list \subseteq FEC_list'
        /\ FEC_list' = FEC_list \cup {prefix_2_BFEC'[p].fec}
        /\ \A q \in Prefixes \ {p} : prefix_2_BFEC'[q] = prefix_2_BFEC[q]
        /\ prefix_2_BFEC'[p].fec \in FEC_list'
    BY <1>0, <2>1, RegroupStep
  <2>3. /\ ClassesTypeOK'
        /\ Describes(prefix_2_BFEC'[p], p, best, in, {t \in Offers : ~Taggable(t)})
    BY <1>0, <2>1, RegroupDescribes
  <2>4. \A v \in DOMAIN vnh_2_BFEC : vnh_2_BFEC'[v].fec = vnh_2_BFEC[v].fec
    BY <1>0, <2>1, <2>2, DeployStep
  <2>5. BackupsUsable(prefix_2_BFEC'[p])
    BY <2>3, DescribedIsUsable
  <2>6. FEC_list' \subseteq FECType
    BY <2>3 DEF ClassesTypeOK
  <2>7. /\ VNHsKeepBackups' /\ TagsAreDistinct'
        /\ Cardinality(DOMAIN tag_dict) \in Nat
        /\ Cardinality((DOMAIN tag_dict)') \in Nat
        /\ Cardinality(DOMAIN tag_dict) <= Cardinality((DOMAIN tag_dict)')
        /\ \A a \in DOMAIN tag_dict : a \in DOMAIN tag_dict' /\ tag_dict'[a] = tag_dict[a]
        /\ \A a \in DOMAIN tag_dict' \ DOMAIN tag_dict :
             tag_dict'[a] \in Nat /\ tag_dict'[a] > Cardinality(DOMAIN tag_dict)
    BY <1>0, <2>1, <2>4, <2>5, <2>6, DeployBackups
  <2>8. \A r \in Offers : ~Taggable(r) \/ TooLateForTag(r) => TooLateForTag(r)'
    <3> SUFFICES ASSUME NEW r \in Offers, ~Taggable(r) \/ TooLateForTag(r)
                 PROVE  TooLateForTag(r)'
      OBVIOUS
    <3> QED
      BY <1>0, <2>7, LateStays
  <2>9. GroupsAreCurrent'
    BY <1>0, <2>2, <2>3, <2>8, CurrentStep
  <2> QED
    BY <2>3, <2>7, <2>9
<1>2. CASE best = NoRoute
  <2>1. Lose(p) /\ Retract(p)
    BY <1>2 DEF ProcessRoute, Die
  <2>2. /\ UNCHANGED <<FEC_list, strays, BEC_list, vnh_2_BFEC, VNH_2_vmac, tag_dict>>
        /\ prefix_2_BFEC' = [prefix_2_BFEC EXCEPT ![p] = NoGroup]
        /\ DOMAIN prefix_2_BFEC_nrfp' = DOMAIN prefix_2_BFEC_nrfp
    BY <2>1 DEF Lose, Retract
  <2>3. ClassesTypeOK'
    BY <1>0, <1>2, <2>2 DEF ClassesTypeOK
  <2>4. TagsAreDistinct' /\ VNHsKeepBackups'
    BY <1>0, <2>2 DEF TagsAreDistinct, VNHsKeepBackups
  <2>5. \A r \in Offers : ~Taggable(r) \/ TooLateForTag(r) => TooLateForTag(r)'
    <3> SUFFICES ASSUME NEW r \in Offers, ~Taggable(r) \/ TooLateForTag(r)
                 PROVE  TooLateForTag(r)'
      OBVIOUS
    <3>1. /\ Cardinality(DOMAIN tag_dict) \in Nat
          /\ tag_dict' = tag_dict
      BY <1>0, <2>2, ControllerAssumption, FS_Subset, FS_CardinalityType DEF TagsAreDistinct
    <3> QED
      BY <1>0, <3>1, LateStays
  <2>6. \A q \in Prefixes \ {p} : prefix_2_BFEC'[q] = prefix_2_BFEC[q]
    BY <1>0, <2>2
  <2>7. GroupsAreCurrent'
    BY <1>0, <1>2, <2>5, <2>6, CurrentStep
  <2> QED
    BY <2>3, <2>4, <2>7
<1> QED
  BY <1>1, <1>2

\* Every step of a controller that survives it keeps classes, tags and backups in
\* order.
LEMMA StepKeepsClasses ==
    ASSUME CIndInv, alive, alive', CNext, TypeOK', FieldsAreNarrowed', VNHsKeepNextHop',
           GroupsAreAnnounced'
    PROVE  ClassesTypeOK' /\ TagsAreDistinct' /\ VNHsKeepBackups' /\ GroupsAreCurrent'
<1>0. /\ DOMAIN local = Prefixes /\ input \in Inputs /\ input' \in Inputs
      /\ \A p \in Prefixes : local'[p] \in Offers \cup {NoRoute}
      /\ FailureInProgress
  BY DEF CIndInv, IInv, TypeOK, Inputs
<1>1. ASSUME NEW p \in Prefixes, NEW r \in Offers, ReceiveAnnounce(p, r)
      PROVE  ClassesTypeOK' /\ TagsAreDistinct' /\ VNHsKeepBackups' /\ GroupsAreCurrent'
  <2>1. PICK best : /\ local' = [local EXCEPT ![p] = best]
                    /\ ProcessRoute(p, best, input', TRUE)
    BY <1>1 DEF ReceiveAnnounce
  <2>2. best \in Offers \cup {NoRoute}
    BY <1>0, <2>1
  <2>3. /\ \A q \in Prefixes \ {p} : input'[q] = input[q]
        /\ routeList' = routeList
    BY <1>0, <1>1 DEF ReceiveAnnounce, Inputs
  <2> QED
    BY <1>0, <2>1, <2>2, <2>3, ProcessRouteClasses
<1>2. ASSUME NEW p \in Prefixes, NEW n \in Neighbors, ReceiveWithdraw(p, n)
      PROVE  ClassesTypeOK' /\ TagsAreDistinct' /\ VNHsKeepBackups' /\ GroupsAreCurrent'
  <2>1. PICK best : /\ local' = [local EXCEPT ![p] = best]
                    /\ ProcessRoute(p, best, input', FALSE)
    BY <1>2 DEF ReceiveWithdraw
  <2>2. best \in Offers \cup {NoRoute}
    BY <1>0, <2>1
  <2>3. /\ \A q \in Prefixes \ {p} : input'[q] = input[q]
        /\ routeList' = routeList
    BY <1>0, <1>2 DEF ReceiveWithdraw, Inputs
  <2> QED
    BY <1>0, <2>1, <2>2, <2>3, ProcessRouteClasses
<1>3. ASSUME NEW n \in Neighbors, ReceiveDown(n)
      PROVE  ClassesTypeOK' /\ TagsAreDistinct' /\ VNHsKeepBackups' /\ GroupsAreCurrent'
  <2>1. /\ PeerDown(n) /\ local' = local
        /\ UNCHANGED <<FEC_list, part_advertising, BEC_list, prefix_2_BFEC,
                       prefix_2_BFEC_nrfp, vnh_2_BFEC, VNH_2_vmac, tag_dict>>
    BY <1>3 DEF ReceiveDown, PeerDown, groupVars, vnhVars, arpVars
  <2>2. ClassesTypeOK'
    BY <2>1 DEF CIndInv, ClassesTypeOK
  <2>3. TagsAreDistinct' /\ VNHsKeepBackups'
    BY <2>1 DEF CIndInv, TagsAreDistinct, VNHsKeepBackups
  <2>4. \A p \in Prefixes : p \notin routeList' => input'[p] = input[p] /\ p \notin routeList
    <3> SUFFICES ASSUME NEW p \in Prefixes, p \notin routeList'
                 PROVE  input'[p] = input[p] /\ p \notin routeList
      OBVIOUS
    <3>1. input[p][n] = NoRoute /\ input'[p] = [input[p] EXCEPT ![n] = NoRoute]
      BY <2>1 DEF PeerDown
    <3>2. input[p] \in [Neighbors -> Offers \cup {NoRoute}]
      BY <1>0 DEF Inputs
    <3>3. routeList = {}
      BY <1>0, <2>1 DEF PeerDown, Idle, FailureInProgress
    <3> QED
      BY <3>1, <3>2, <3>3
  <2>5. GroupsAreCurrent'
    <3> SUFFICES ASSUME NEW p \in Prefixes, p \notin routeList', local[p] # NoRoute
                 PROVE  Describes(prefix_2_BFEC[p], p, local[p], input,
                                  {t \in Offers : TooLateForTag(t)})
      <4>1. \A q \in Prefixes : q \notin routeList' =>
                /\ RoutesTo(q, input') = RoutesTo(q, input)
                /\ RoutesTo(q, input) \subseteq Offers
                /\ Advertisers(q, input') = Advertisers(q, input)
        <5> SUFFICES ASSUME NEW q \in Prefixes, q \notin routeList'
                     PROVE  /\ RoutesTo(q, input') = RoutesTo(q, input)
                            /\ RoutesTo(q, input) \subseteq Offers
                            /\ Advertisers(q, input') = Advertisers(q, input)
          OBVIOUS
        <5>1. RoutesTo(q, input') = RoutesTo(q, input)
          BY <2>4 DEF RoutesTo
        <5>2. RoutesTo(q, input) \subseteq Offers
          BY <1>0, RoutesAre
        <5> QED
          BY <5>1, <5>2 DEF Advertisers
      <4>2. \A t : TooLateForTag(t)' = TooLateForTag(t)
        BY <2>1 DEF TooLateForTag, TagRoom
      <4>3. \A q \in Prefixes : local'[q] # NoRoute =>
              part_advertising'[prefix_2_BFEC'[q].fec] = prefix_2_BFEC'[q].fec.part_set \cap ActiveParts
        BY FieldsHold
      <4> QED
        BY <2>1, <4>1, <4>2, <4>3 DEF GroupsAreCurrent, Settled, Describes
    <3>1. p \notin routeList /\ RoutesTo(p, input) \subseteq Offers
      BY <1>0, <2>4, RoutesAre
    <3> QED
      BY <3>1 DEF CIndInv, GroupsAreCurrent, Settled, Describes
  <2> QED
    BY <2>2, <2>3, <2>5
<1>4. ASSUME NEW p \in Prefixes, ContinueDown(p)
      PROVE  ClassesTypeOK' /\ TagsAreDistinct' /\ VNHsKeepBackups' /\ GroupsAreCurrent'
  <2>1. PICK best : /\ local' = [local EXCEPT ![p] = best]
                    /\ ProcessRoute(p, best, input, FALSE)
    BY <1>4 DEF ContinueDown
  <2>2. best \in Offers \cup {NoRoute}
    BY <1>0, <2>1
  <2>3. input' = input /\ routeList' = routeList \ {p}
    BY <1>4 DEF ContinueDown
  <2> QED
    BY <1>0, <2>1, <2>2, <2>3, ProcessRouteClasses
<1> QED
  BY <1>1, <1>2, <1>3, <1>4 DEF CNext

-----------------------------------------------------------------------------

LEMMA CInitCInv == CInit => CInv
<1> SUFFICES ASSUME CInit PROVE CInv
  OBVIOUS
<1>1. IInv
  BY InitIInv DEF CInit
<1>2. ClassesAreDistinct /\ FieldsAreNarrowed
  BY FS_EmptySet DEF CInit, ClassesAreDistinct, FieldsAreNarrowed, Empty
<1>3. VNHsKeepNextHop /\ VNHsKeepBackups /\ TagsAreDistinct
  BY DEF CInit, VNHsKeepNextHop, VNHsKeepBackups, TagsAreDistinct, Empty
<1>4. GroupsAreAnnounced /\ GroupsAreCurrent
  BY DEF CInit, Init, GroupsAreAnnounced, GroupsAreCurrent
<1>5. ClassesTypeOK
  <2>1. DefaultBEC \in BECType
    BY DEF DefaultBEC, BECType
  <2>2. IsFiniteSet({DefaultBEC})
    BY FS_Singleton
  <2> QED
    BY <2>1, <2>2 DEF CInit, Init, ClassesTypeOK
<1> QED
  BY <1>1, <1>2, <1>3, <1>4, <1>5 DEF CInv

LEMMA CNextCInv == CInv /\ [CNext]_cvars => CInv'
<1> SUFFICES ASSUME CInv, [CNext]_cvars, alive' PROVE CInv'
  BY DEF CInv
<1>1. CASE CNext
  <2>1. alive
    BY <1>1 DEF CNext, ReceiveAnnounce, ReceiveWithdraw, ReceiveDown, ContinueDown
  <2>2. CIndInv
    BY <2>1 DEF CInv, CIndInv
  <2>3. /\ Next \/ UNCHANGED vars
        /\ ClassesAreDistinct' /\ FieldsAreNarrowed' /\ VNHsKeepNextHop'
        /\ GroupsAreAnnounced'
    BY <1>1, <2>1, <2>2, StepIsPeers
  <2>4. IInv'
    BY <2>2, <2>3, NextIInv DEF CIndInv
  <2>5. ClassesTypeOK' /\ TagsAreDistinct' /\ VNHsKeepBackups' /\ GroupsAreCurrent'
    BY <1>1, <2>1, <2>2, <2>3, <2>4, StepKeepsClasses DEF IInv
  <2> QED
    BY <2>3, <2>4, <2>5 DEF CInv
<1>2. CASE UNCHANGED cvars
  <2>1. UNCHANGED vars /\ alive
    BY <1>2 DEF cvars
  <2>2. IInv'
    BY <2>1, NextIInv DEF CInv
  <2>3. ClassesAreDistinct' /\ ClassesTypeOK' /\ FieldsAreNarrowed'
    BY <1>2, <2>1 DEF CInv, cvars, vars, groupVars, arpVars, ClassesAreDistinct, ClassesTypeOK,
                      FieldsAreNarrowed
  <2>4. VNHsKeepNextHop' /\ VNHsKeepBackups' /\ TagsAreDistinct'
    <3>1. UNCHANGED <<FEC_list, num_VNHs_in_use, BECid_FECid_2_VNH, vnh_2_BFEC, VNH_2_vmac,
                      tag_dict>>
      BY <1>2 DEF cvars, groupVars, vnhVars, arpVars
    <3>2. VNHsKeepNextHop'
      BY <2>1, <3>1 DEF CInv, VNHsKeepNextHop
    <3>3. VNHsKeepBackups'
      BY <2>1, <3>1 DEF CInv, VNHsKeepBackups
    <3>4. TagsAreDistinct'
      BY <2>1, <3>1 DEF CInv, TagsAreDistinct
    <3> QED
      BY <3>2, <3>3, <3>4
  <2>5. GroupsAreAnnounced'
    BY <1>2, <2>1 DEF CInv, cvars, vars, groupVars, vnhVars, arpVars, GroupsAreAnnounced, Ids
  <2>6. GroupsAreCurrent'
    <3>1. \A t : TooLateForTag(t)' = TooLateForTag(t)
      BY <1>2 DEF cvars, arpVars, TooLateForTag, TagRoom
    <3> QED
      BY <1>2, <2>1, <3>1 DEF CInv, cvars, vars, groupVars, arpVars, GroupsAreCurrent, Settled
  <2> QED
    BY <2>2, <2>3, <2>4, <2>5, <2>6 DEF CInv
<1> QED
  BY <1>1, <1>2

(***************************************************************************)
(* A live controller's classes, VNHs and VMACs fit together and its BGP    *)
(* speaker keeps the invariant of BGPPeer.                                 *)
(***************************************************************************)
THEOREM ControllerInductive == CSpec => []CInv
BY CInitCInv, CNextCInv, PTL DEF CSpec

\* The VNH the routers of a routed prefix were told, and its FEC.
LEMMA AnnouncedVNH ==
    ASSUME CInv, alive, NEW p \in Prefixes, local[p] # NoRoute
    PROVE  /\ prefix_2_BFEC[p].fec \in FEC_list
           /\ prefix_2_BFEC[p].fec.next_hop_part = PartOf[local[p].neighbor]
           /\ routerVNH[p] \in DOMAIN vnh_2_BFEC
           /\ routerVNH[p] \in DOMAIN VNH_2_vmac
           /\ vnh_2_BFEC[routerVNH[p]].fec = prefix_2_BFEC[p].fec
<1> DEFINE fec == prefix_2_BFEC[p].fec
<1>1. /\ fec \in FEC_list
      /\ fec.next_hop_part = PartOf[local[p].neighbor]
      /\ Ids(prefix_2_BFEC[p]) \in DOMAIN BECid_FECid_2_VNH
      /\ routerVNH[p] = BECid_FECid_2_VNH[Ids(prefix_2_BFEC[p])]
      /\ Ids(prefix_2_BFEC[p])[2] = fec.id
  BY DEF CInv, GroupsAreAnnounced, Ids
<1>2. /\ routerVNH[p] \in DOMAIN vnh_2_BFEC
      /\ routerVNH[p] \in DOMAIN VNH_2_vmac
      /\ vnh_2_BFEC[routerVNH[p]].fec.id = fec.id
      /\ vnh_2_BFEC[routerVNH[p]].fec \in FEC_list
  BY <1>1 DEF CInv, VNHsKeepNextHop
<1>3. vnh_2_BFEC[routerVNH[p]].fec = fec
  BY <1>1, <1>2 DEF CInv, ClassesAreDistinct
<1> QED
  BY <1>1, <1>2, <1>3

(***************************************************************************)
(* Whatever classes, VNHs and VMACs are shared, re-used or lost, a packet  *)
(* for a routed prefix reaches the participant the decision process chose, *)
(* or its VMAC was made without a superset for its class or with more tags *)
(* than fit their field.                                                   *)
(***************************************************************************)
THEOREM PacketsReachBest == CSpec => []RoutersReachBest
<1>1. CInv => RoutersReachBest
  <2> SUFFICES ASSUME CInv, alive, NEW p \in Prefixes, local[p] # NoRoute
               PROVE  /\ routerVNH[p] \in DOMAIN VNH_2_vmac
                      /\ IF VNH_2_vmac[routerVNH[p]] # BadVmac
                         THEN VNH_2_vmac[routerVNH[p]].next_hop_part = PartOf[local[p].neighbor]
                         ELSE \/ part_advertising[prefix_2_BFEC[p].fec] \in Misfits
                              \/ Cardinality(DOMAIN tag_dict) >= TagRoom
    BY DEF RoutersReachBest
  <2> DEFINE fec == prefix_2_BFEC[p].fec
             v == routerVNH[p]
  <2>1. /\ fec \in FEC_list /\ fec.next_hop_part = PartOf[local[p].neighbor]
        /\ v \in DOMAIN vnh_2_BFEC /\ v \in DOMAIN VNH_2_vmac /\ vnh_2_BFEC[v].fec = fec
    BY AnnouncedVNH
  <2>2. VNH_2_vmac[v] # BadVmac => VNH_2_vmac[v].next_hop_part = fec.next_hop_part
    BY <2>1 DEF CInv, VNHsKeepNextHop
  <2>3. VNH_2_vmac[v] = BadVmac => \/ part_advertising[fec] \in Misfits
                                  \/ Cardinality(DOMAIN tag_dict) >= TagRoom
    BY <2>1 DEF CInv, VNHsKeepBackups, FieldsAreNarrowed
  <2> QED
    BY <2>1, <2>2, <2>3
<1> QED
  BY <1>1, ControllerInductive, PTL

(***************************************************************************)
(* The controller implements the BGP speaker: a step it survives is one of *)
(* BGPPeer's, or leaves the three tables alone.                            *)
(***************************************************************************)
THEOREM ControllerRefinesPeer == CSpec => StepsOfPeer
<1>1. CInv /\ [CNext]_cvars => [alive' => Next \/ UNCHANGED vars]_cvars
  <2> SUFFICES ASSUME CInv, CNext, alive'
               PROVE  Next \/ UNCHANGED vars
    OBVIOUS
  <2>1. alive
    BY DEF CNext, ReceiveAnnounce, ReceiveWithdraw, ReceiveDown, ContinueDown
  <2>2. CIndInv
    BY <2>1 DEF CInv, CIndInv
  <2> QED
    BY <2>1, <2>2, StepIsPeers
<1> QED
  BY <1>1, ControllerInductive, PTL DEF CSpec, StepsOfPeer

(***************************************************************************)
(* The classes of a prefix describe its routes as they are now, the list   *)
(* in its FEC is that of the advertisers that policies forward to, and a   *)
(* backup that traverses the link it stands in for is only used when every *)
(* one that avoids it came too late for a tag.                             *)
(***************************************************************************)
THEOREM GroupsCurrent == CSpec => []GroupsAreCurrent
<1>1. CInv => GroupsAreCurrent
  BY DEF CInv, GroupsAreCurrent, Settled
<1> QED
  BY <1>1, ControllerInductive, PTL

(***************************************************************************)
(* Fast reroute only sends packets of a prefix to participants that        *)
(* advertise it and are not its next hop: the tags in its VMAC are theirs  *)
(* if all fit their fields, whichever group the VNH was last given to.     *)
(***************************************************************************)
THEOREM BackupsAdvertise == CSpec => []VmacBackupsAdvertise
<1>1. CInv => VmacBackupsAdvertise
  <2> SUFFICES ASSUME CInv, NEW p \in Prefixes, Settled(p), local[p] # NoRoute,
                      VNH_2_vmac[routerVNH[p]].backups # Spilled,
                      NEW part \in DOMAIN tag_dict,
                      tag_dict[part] \in Seqs!ToSet(VNH_2_vmac[routerVNH[p]].backups)
               PROVE  part \in Advertisers(p, input) \ {PartOf[local[p].neighbor]}
    BY DEF VmacBackupsAdvertise
  <2> DEFINE fec == prefix_2_BFEC[p].fec
             v == routerVNH[p]
  <2>1. /\ fec.next_hop_part = PartOf[local[p].neighbor]
        /\ fec.part_set = Advertisers(p, input)
    BY DEF CInv, GroupsAreCurrent, Settled
  <2>2. v \in DOMAIN vnh_2_BFEC /\ vnh_2_BFEC[v].fec = fec
    BY AnnouncedVNH DEF Settled
  <2>3. PICK i \in DOMAIN VNH_2_vmac[v].backups : VNH_2_vmac[v].backups[i] = tag_dict[part]
    BY DEF Seqs!ToSet
  <2>4. tag_dict[part] # 0
    BY DEF CInv, Settled, TagsAreDistinct
  <2>5. PICK b \in DOMAIN tag_dict \cap (fec.part_set \ {fec.next_hop_part}) :
            tag_dict[part] = tag_dict[b]
    BY <2>2, <2>3, <2>4, TagsOfVmac DEF CInv, Settled, Usable
  <2>6. part = b
    BY <2>5 DEF CInv, Settled, TagsAreDistinct
  <2> QED
    BY <2>1, <2>5, <2>6
<1> QED
  BY <1>1, ControllerInductive, PTL

(***************************************************************************)
(* The routers are told to drop a prefix by the VNH under which it was     *)
(* last announced to them.                                                 *)
(***************************************************************************)
THEOREM DroppedAsAnnounced == CSpec => WithdrawnAsAnnounced
<1>1. CInv /\ [CNext]_cvars =>
        [\A p \in Prefixes : output[p] # NoRoute /\ output'[p] = NoRoute =>
            prefix_2_VNH_nrfp'[p] = routerVNH[p]]_cvars
  <2> SUFFICES ASSUME CInv, CNext, NEW p \in Prefixes,
                      output[p] # NoRoute, output'[p] = NoRoute
               PROVE  prefix_2_VNH_nrfp'[p] = routerVNH[p]
    OBVIOUS
  <2>0. PICK q \in Prefixes : \E best, in, announced : ProcessRoute(q, best, in, announced)
    <3>1. \A n \in Neighbors : ~ReceiveDown(n)
      BY DEF ReceiveDown, PeerDown
    <3> QED
      BY <3>1 DEF CNext, ReceiveAnnounce, ReceiveWithdraw, ContinueDown
  <2>1. PICK best, in, announced : ProcessRoute(q, best, in, announced)
    BY <2>0
  <2>2. /\ IInv /\ ClassesTypeOK /\ GroupsAreAnnounced
        /\ DOMAIN output = Prefixes /\ DOMAIN prefix_2_VNH_nrfp = Prefixes
        /\ local[p] # NoRoute
    <3>1. alive
      BY DEF CNext, ReceiveAnnounce, ReceiveWithdraw, ReceiveDown, ContinueDown
    <3> QED
      BY <3>1 DEF CInv, IInv, TypeOK, RoutersKnowBest, GroupsAreAnnounced
  <2>3. Lose(p) /\ Retract(p)
    <3>1. CASE best # NoRoute /\ Deploy(q, best, announced)
      BY <2>2, <3>1 DEF Deploy, OutputAfter
    <3>2. CASE Die
      BY <3>2 DEF Die
    <3>3. CASE Lose(q) /\ Retract(q)
      <4>1. q = p
        BY <2>2, <3>3 DEF Retract, OutputAfter
      <4> QED
        BY <3>3, <4>1
    <3> QED
      BY <2>1, <3>1, <3>2, <3>3 DEF ProcessRoute
  <2>4. prefix_2_BFEC_nrfp'[p] = prefix_2_BFEC[p]
    BY <2>2, <2>3 DEF Lose, ClassesTypeOK
  <2>5. prefix_2_VNH_nrfp'[p] = BECid_FECid_2_VNH[Ids(prefix_2_BFEC[p])]
    BY <2>2, <2>3, <2>4 DEF Retract, Ids
  <2> QED
    BY <2>2, <2>5 DEF GroupsAreAnnounced, Ids
<1> QED
  BY <1>1, ControllerInductive, PTL DEF CSpec, WithdrawnAsAnnounced
=============================================================================
