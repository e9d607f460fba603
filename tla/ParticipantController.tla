----------------------- MODULE ParticipantController -----------------------
(***************************************************************************)
(* One participant controller in superset mode: what process_bgp_route     *)
(* does around the BGP speaker of module BGPPeer.  Every prefix with a     *)
(* best route is put in a forwarding equivalence class (FEC: the next hop  *)
(* participant and everybody who advertises the prefix, pctrl/FEC.py) and  *)
(* a backup equivalence class (BEC: the encoded AS path and a backup for   *)
(* each of its links, pctrl/BEC.py); the pair of ids gets a virtual next   *)
(* hop (VNH), the border routers are told the VNH, and gratuitous ARPs     *)
(* tell them the VNH's virtual MAC (VMAC).                                 *)
(*                                                                         *)
(* A prefix's BEC and FEC live in one record here (prefix_2_BEC and        *)
(* prefix_2_FEC are always changed together).  FEC_list finds a FEC by the *)
(* set of advertisers it was made for; its own field part_advertising is    *)
(* narrowed by every gratuitous ARP to those that policies forward to      *)
(* (supersets.py:244-248).  Left to other modules: the supersets, of which *)
(* only whether one holds the class is told apart here, the mask bits of   *)
(* the VMAC and the flow rules.  Policies do not change.                   *)
(***************************************************************************)
EXTENDS BGPPeer

Seqs == INSTANCE SequencesExt
Sets == INSTANCE FiniteSetsExt

CONSTANTS
    Parts,       \* participants of the exchange
    PartOf,      \* nexthop_2_part: [Neighbors -> Parts]
    NoPart,      \* -1: no backup
    ActiveParts, \* those the policies forward to
    Misfits,     \* sets of them that may be in no superset when a VMAC is made
    MaxDepth,    \* max_depth: links of the AS path that get a backup
    NbBits,      \* nexthops_nb_bits: bits of a backup's tag in the VMAC
    NumVNHs,     \* addresses of the VNH network after the first
    PortIPs,     \* those of them that are addresses of border routers
    Spilled,     \* backup bits with a tag wider than its field
    NoGroup, NoVNH

\* part_set is the set in the FEC's key, which stays.
FECType == [id : Nat, next_hop_part : Parts, part_set : SUBSET Parts]

BECType == [id : Nat, as_path : Seq(Nat), backup_nbs : Seq(Parts \cup {NoPart}),
            as_path_vmac : Vmacs \cup {NoVmac}]

GroupType == [fec : FECType, bec : BECType]

\* How many tags the tag table is meant to hold.
TagRoom == 2^NbBits

ASSUME ControllerAssumption ==
    /\ IsFiniteSet(Neighbors) /\ IsFiniteSet(Parts)
    /\ PartOf \in [Neighbors -> Parts]
    /\ ActiveParts \subseteq Parts /\ Misfits \subseteq SUBSET ActiveParts
    /\ NoPart \notin Parts /\ NoGroup \notin GroupType
    /\ MaxDepth \in Nat /\ NbBits \in Nat /\ NumVNHs \in Nat /\ TagRoom \in Nat
    /\ PortIPs \subseteq 1..NumVNHs
    /\ NoVNH \notin Nat

VARIABLES
    alive,               \* the xrs thread has not died of an exception
    FEC_list,            \* the FECs made so far
    part_advertising,    \* the field of that name: [FEC_list -> SUBSET Parts]
    strays,              \* keys of BECs that were stored in FEC_list by mistake
    BEC_list,            \* the BECs made so far, without the strays
    prefix_2_BFEC,       \* prefix_2_BEC and prefix_2_FEC: [bec, fec] or NoGroup
    prefix_2_BFEC_nrfp,  \* the same for prefixes that lost their last route
    prefix_2_VNH_nrfp,   \* and the VNH they had
    num_VNHs_in_use,
    BECid_FECid_2_VNH,   \* partial function from pairs of ids to VNHs
    vnh_2_BFEC,          \* the group a VNH was last assigned for
    VNH_2_vmac,          \* what the routers' ARP caches hold (last gratuitous ARP)
    tag_dict,            \* partial function from backups to tags
    routerVNH            \* next hop last announced to the border routers, or NoVNH

groupVars == <<FEC_list, strays, BEC_list, prefix_2_BFEC, prefix_2_BFEC_nrfp>>
vnhVars == <<prefix_2_VNH_nrfp, num_VNHs_in_use, BECid_FECid_2_VNH, vnh_2_BFEC>>
arpVars == <<part_advertising, VNH_2_vmac, tag_dict, routerVNH>>
cvars == <<vars, alive, groupVars, vnhVars, arpVars>>

DefaultBEC == [id |-> 1, as_path |-> <<>>, backup_nbs |-> <<>>, as_path_vmac |-> NoVmac]

Empty == [x \in {} |-> x]

\* f with f[k] set to v.
With(f, k, v) == [x \in DOMAIN f \cup {k} |-> IF x = k THEN v ELSE f[x]]

CInit ==
    /\ Init
    /\ alive = TRUE
    /\ FEC_list = {} /\ strays = {} /\ BEC_list = {DefaultBEC}
    /\ prefix_2_BFEC = [p \in Prefixes |-> NoGroup]
    /\ prefix_2_BFEC_nrfp = [p \in Prefixes |-> NoGroup]
    /\ prefix_2_VNH_nrfp = [p \in Prefixes |-> NoVNH]
    /\ num_VNHs_in_use = 0
    /\ BECid_FECid_2_VNH = Empty
    /\ vnh_2_BFEC = Empty
    /\ part_advertising = Empty
    /\ VNH_2_vmac = Empty
    /\ tag_dict = Empty
    /\ routerVNH = [p \in Prefixes |-> NoVNH]

-----------------------------------------------------------------------------
(* Equivalence classes *)

\* get_all_participants_advertising
Advertisers(p, in) == {PartOf[r.neighbor] : r \in RoutesTo(p, in)}

\* Slips: the FEC is looked up by its next hop alone; ids count the prefixes in use.
FECForNextHop(p, best, in) ==
    LET known == {f \in FEC_list : f.next_hop_part = PartOf[best.neighbor]}
    IN IF known # {} THEN CHOOSE f \in known : TRUE
       ELSE [id |-> Cardinality(FEC_list) + Cardinality(strays) + 1,
             next_hop_part |-> PartOf[best.neighbor],
             part_set |-> Advertisers(p, in)]

\* FEC.assignment for a prefix with best route `best`: the class with that key, or a
\* new one.  FEC_list also holds the stray BECs, which only skip ids.
FECFor(p, best, in) ==
    LET known == {f \in FEC_list : /\ f.next_hop_part = PartOf[best.neighbor]
                                   /\ f.part_set = Advertisers(p, in)}
    IN IF known # {} THEN CHOOSE f \in known : TRUE
       ELSE [id |-> Cardinality(FEC_list) + Cardinality(strays) + 1,
             next_hop_part |-> PartOf[best.neighbor],
             part_set |-> Advertisers(p, in)]

\* Links are compared in both directions.
Links(path) == {{<<path[i], path[i+1]>>, <<path[i+1], path[i]>>} : i \in 1..(Len(path) - 1)}

Traverses(r, a, b) == {<<a, b>>, <<b, a>>} \in Links(r.as_path)

\* A tag is left for the participant of route r, or it has one.
Taggable(r) ==
    \/ PartOf[r.neighbor] \in DOMAIN tag_dict
    \/ Cardinality(DOMAIN tag_dict) # TagRoom

\* Slip: any route but the best one counts, also one of the same participant.
BackupOtherRoute(routes, best, a, b) ==
    LET others == {i \in DOMAIN routes : routes[i] # best}
        good == {i \in others : ~Traverses(routes[i], a, b) /\ Taggable(routes[i])}
    IN IF others = {} THEN NoPart
       ELSE PartOf[routes[Sets!Min(IF good = {} THEN others ELSE good)].neighbor]

\* get_backup_avoiding_as_link, `routes` being the prefix's routes in the order of
\* the input table: the first one of another participant that avoids the link, or
\* just the first one of another participant.
Backup(routes, best, a, b) ==
    LET others == {i \in DOMAIN routes : PartOf[routes[i].neighbor] # PartOf[best.neighbor]}
        good == {i \in others : ~Traverses(routes[i], a, b) /\ Taggable(routes[i])}
    IN IF others = {} THEN NoPart
       ELSE PartOf[routes[Sets!Min(IF good = {} THEN others ELSE good)].neighbor]

EncodedPath(r) == SubSeq(r.as_path, 1, IF Len(r.as_path) <= MaxDepth THEN Len(r.as_path)
                                        ELSE MaxDepth + 1)

\* BEC.assignment.  On an announcement a best route without an encoding gets the
\* default class; on a withdrawal it is treated like any other.
BECFor(routes, best, announced) ==
    LET path == EncodedPath(best)
        backups == [d \in 1..(Len(path) - 1) |-> Backup(routes, best, path[d], path[d+1])]
        known == {b \in BEC_list : b.as_path = path /\ b.backup_nbs = backups}
    IN IF announced /\ best.vmac = NoVmac THEN DefaultBEC
       ELSE IF known # {} THEN CHOOSE b \in known : TRUE
       ELSE [id |-> Cardinality(BEC_list) + 1, as_path |-> path,
             backup_nbs |-> backups, as_path_vmac |-> best.vmac]

-----------------------------------------------------------------------------
(* Virtual MACs *)

\* Backups that have no tag get the next ones, here in the order `order`.
TagsAfter(order) ==
    [n \in DOMAIN tag_dict \cup Seqs!ToSet(order) |->
        IF n \in DOMAIN tag_dict THEN tag_dict[n]
        ELSE Cardinality(DOMAIN tag_dict) + (CHOOSE i \in DOMAIN order : order[i] = n)]

\* An empty address, or one whose fields are shifted: it names no participant for sure.
BadVmac == [next_hop_part |-> NoPart, backups |-> Spilled, as_path_vmac |-> NoVmac]

\* bin(tag)[2:].zfill(NbBits): never cut, so a tag from TagRoom on is wider.
TagWidth(tag) == Sets!Min({n \in NbBits..(NbBits + tag) : tag < 2^n})

Tagged(backups) == {d \in DOMAIN backups : backups[d] # NoPart}

Spills(backups, tags) == \E d \in Tagged(backups) : tags[backups[d]] >= TagRoom

\* The fields of a VMAC fill 48 bits exactly: wider backup bits push the rest out.
TooWide(backups, tags) ==
    Sets!MapThenSumSet(LAMBDA d : IF d \in Tagged(backups) THEN TagWidth(tags[backups[d]])
                                  ELSE NbBits, DOMAIN backups) > MaxDepth * NbBits

\* get_vmac, backup bits: the zeros of a missing backup go to the front, so that a tag
\* is only followed by those of later links; zeros fill the rest.
BackupBits(backups, tags) ==
    LET place(d) == Len(backups) - Cardinality({e \in Tagged(backups) : e > d})
    IN IF Spills(backups, tags) THEN Spilled
       ELSE [i \in 1..MaxDepth |-> IF \E d \in Tagged(backups) : place(d) = i
                                   THEN tags[backups[CHOOSE d \in Tagged(backups) : place(d) = i]]
                                   ELSE 0]

Vmac(group, tags) ==
    IF Spills(group.bec.backup_nbs, tags) /\ TooWide(group.bec.backup_nbs, tags) THEN BadVmac
    ELSE [next_hop_part |-> group.fec.next_hop_part,
          backups |-> BackupBits(group.bec.backup_nbs, tags),
          as_path_vmac |-> group.bec.as_path_vmac]

\* part_advertising, with new FECs as they are made, once those of `fecs` are narrowed.
Narrowed(fecs) ==
    LET made(f) == IF f \in DOMAIN part_advertising THEN part_advertising[f] ELSE f.part_set
    IN [f \in FEC_list' |-> IF f \in fecs THEN made(f) \cap ActiveParts ELSE made(f)]

\* Gratuitous ARPs for the VNHs of G (process_arp_request), in any order.  A VNH whose
\* narrowed class is `homeless`, in no superset, gets an empty VMAC and its backups no tags.
Garp(G, groups) ==
    LET parts(v) == part_advertising'[groups[v].fec]
    IN /\ part_advertising' = Narrowed({groups[v].fec : v \in G})
       /\ \E homeless \in SUBSET (Misfits \cap {parts(v) : v \in G}) :
            LET housed == {v \in G : parts(v) \notin homeless}
                backups == UNION {Seqs!ToSet(groups[v].bec.backup_nbs) : v \in housed}
            IN \E order \in Seqs!SetToSeqs(backups \ (DOMAIN tag_dict \cup {NoPart})) :
                /\ tag_dict' = TagsAfter(order)
                /\ VNH_2_vmac' = [v \in DOMAIN VNH_2_vmac \cup G |->
                                    IF v \in housed THEN Vmac(groups[v], tag_dict')
                                    ELSE IF v \in G THEN BadVmac ELSE VNH_2_vmac[v]]

-----------------------------------------------------------------------------
(* Events *)

\* Slip: a prefix that keeps its best route keeps its classes.
RegroupOnlyIfBestChanged(p, best, in, announced) ==
    IF best = local[p] /\ prefix_2_BFEC[p] # NoGroup
    THEN UNCHANGED groupVars
    ELSE \E routes \in Seqs!SetToSeqs(RoutesTo(p, in)) :
        LET fec == FECFor(p, best, in)
            bec == BECFor(routes, best, announced)
        IN /\ FEC_list' = FEC_list \cup {fec}
           /\ BEC_list' = IF announced THEN BEC_list \cup {bec} ELSE BEC_list
           /\ strays' = IF announced \/ bec \in BEC_list THEN strays
                        ELSE strays \cup {[as_path |-> bec.as_path, backup_nbs |-> bec.backup_nbs]}
           /\ prefix_2_BFEC' = [prefix_2_BFEC EXCEPT ![p] = [fec |-> fec, bec |-> bec]]
           /\ UNCHANGED prefix_2_BFEC_nrfp

\* FEC.assignment and BEC.assignment for a prefix that has a best route.  A BEC made
\* on a withdrawal is entered in FEC_list instead of BEC_list (BEC.py:93).
Regroup(p, best, in, announced) ==
    \E routes \in Seqs!SetToSeqs(RoutesTo(p, in)) :
        LET fec == FECFor(p, best, in)
            bec == BECFor(routes, best, announced)
        IN /\ FEC_list' = FEC_list \cup {fec}
           /\ BEC_list' = IF announced THEN BEC_list \cup {bec} ELSE BEC_list
           /\ strays' = IF announced \/ bec \in BEC_list THEN strays
                        ELSE strays \cup {[as_path |-> bec.as_path, backup_nbs |-> bec.backup_nbs]}
           /\ prefix_2_BFEC' = [prefix_2_BFEC EXCEPT ![p] = [fec |-> fec, bec |-> bec]]
           /\ UNCHANGED prefix_2_BFEC_nrfp

Ids(group) == <<group.bec.id, group.fec.id>>

\* The address vnh_assignment takes next.  It steps over one border router's address,
\* not over two in a row.
NextVNH == IF num_VNHs_in_use + 1 \in PortIPs THEN num_VNHs_in_use + 2 ELSE num_VNHs_in_use + 1

\* IndexError: the VNH network is used up, or no group was ever assigned (KeyError).
Die ==
    /\ alive' = FALSE
    /\ UNCHANGED <<output, vnhVars, arpVars>>

\* Slip: no gratuitous ARP for a VNH first used after a withdrawal.
VNHsToGarpOnAnnounceOnly(p, vnh, announced) ==
    IF announced /\ (vnh \notin DOMAIN VNH_2_vmac \/ (output[p] # NoRoute /\ output[p].vmac = NoVmac))
    THEN {vnh} ELSE {}

\* bgp_update_peer: VNHs the routers have no VMAC for, or, on an announcement, one
\* whose prefix had no encoding so far.
VNHsToGarp(p, vnh, announced) ==
    IF \/ vnh \notin DOMAIN VNH_2_vmac
       \/ announced /\ output[p] # NoRoute /\ output[p].vmac = NoVmac
    THEN {vnh} ELSE {}

\* vnh_assignment, update_supersets, bgp_update_peer and the ARPs, for a prefix with
\* a best route.  Supersets are computed at the first event and then recomputed if an
\* announcement under a new VNH needs it; then every VNH is re-ARPed.
Deploy(p, best, announced) ==
    LET group == prefix_2_BFEC'[p]
        isNew == Ids(group) \notin DOMAIN BECid_FECid_2_VNH
        vnh == IF isNew THEN NextVNH ELSE BECid_FECid_2_VNH[Ids(group)]
    IN /\ vnh <= NumVNHs
       /\ num_VNHs_in_use' = IF isNew THEN NextVNH ELSE num_VNHs_in_use
       /\ BECid_FECid_2_VNH' = With(BECid_FECid_2_VNH, Ids(group), vnh)
       /\ vnh_2_BFEC' = With(vnh_2_BFEC, vnh, group)
       /\ \E recomputed \in IF DOMAIN VNH_2_vmac = {} THEN {TRUE}
                            ELSE IF announced /\ vnh \notin DOMAIN VNH_2_vmac THEN BOOLEAN
                            ELSE {FALSE} :
            Garp(VNHsToGarp(p, vnh, announced)
                    \cup IF recomputed THEN DOMAIN vnh_2_BFEC' ELSE {}, vnh_2_BFEC')
       /\ routerVNH' = [routerVNH EXCEPT ![p] = vnh]
       /\ OutputAfter(p, best)
       /\ UNCHANGED <<alive, prefix_2_VNH_nrfp>>

OutOfVNHs(p) ==
    /\ Ids(prefix_2_BFEC'[p]) \notin DOMAIN BECid_FECid_2_VNH
    /\ NextVNH > NumVNHs

\* Slip: the group of an earlier loss of the prefix is kept.
LoseFirst(p) ==
    /\ prefix_2_BFEC_nrfp' = IF prefix_2_BFEC[p] # NoGroup /\ prefix_2_BFEC_nrfp[p] = NoGroup
                             THEN [prefix_2_BFEC_nrfp EXCEPT ![p] = prefix_2_BFEC[p]]
                             ELSE prefix_2_BFEC_nrfp
    /\ prefix_2_BFEC' = [prefix_2_BFEC EXCEPT ![p] = NoGroup]
    /\ UNCHANGED <<FEC_list, strays, BEC_list>>

\* FEC.assignment and BEC.assignment for a prefix that lost its best route.
Lose(p) ==
    /\ prefix_2_BFEC_nrfp' = IF prefix_2_BFEC[p] # NoGroup
                             THEN [prefix_2_BFEC_nrfp EXCEPT ![p] = prefix_2_BFEC[p]]
                             ELSE prefix_2_BFEC_nrfp
    /\ prefix_2_BFEC' = [prefix_2_BFEC EXCEPT ![p] = NoGroup]
    /\ UNCHANGED <<FEC_list, strays, BEC_list>>

\* ... and the rest of the event: routers that knew the prefix are told to drop it,
\* by the VNH the lost group had.  There are supersets since that group was made.
Retract(p) ==
    /\ prefix_2_BFEC_nrfp'[p] # NoGroup
    /\ prefix_2_VNH_nrfp' = [prefix_2_VNH_nrfp EXCEPT ![p] =
                                BECid_FECid_2_VNH[Ids(prefix_2_BFEC_nrfp'[p])]]
    /\ routerVNH' = [routerVNH EXCEPT ![p] = NoVNH]
    /\ OutputAfter(p, NoRoute)
    /\ UNCHANGED <<alive, part_advertising, num_VNHs_in_use, BECid_FECid_2_VNH, vnh_2_BFEC,
                   VNH_2_vmac, tag_dict>>

\* process_bgp_route after update and decision_process.
ProcessRoute(p, best, in, announced) ==
    \/ /\ best # NoRoute
       /\ Regroup(p, best, in, announced)
       /\ \/ Deploy(p, best, announced)
          \/ OutOfVNHs(p) /\ Die
    \/ /\ best = NoRoute
       /\ Lose(p)
       /\ \/ Retract(p)
          \/ prefix_2_BFEC_nrfp'[p] = NoGroup /\ Die

\* {'bgp': {'announce': r}}
ReceiveAnnounce(p, r) ==
    /\ alive /\ Idle
    /\ input' = [input EXCEPT ![p][r.neighbor] = r]
    /\ \E best \in BestAfterAnnounce(p, r, input') :
        /\ local' = [local EXCEPT ![p] = best]
        /\ ProcessRoute(p, best, input', TRUE)
    /\ UNCHANGED <<downPeer, routeList>>

\* {'bgp': {'withdraw': route of n}}, also for a prefix never heard of: a controller
\* that joins late gets the withdrawals of routes announced before it came.
ReceiveWithdraw(p, n) ==
    /\ alive /\ Idle
    /\ input' = [input EXCEPT ![p][n] = NoRoute]
    /\ \E best \in BestAfterWithdraw(p, n, input') :
        /\ local' = [local EXCEPT ![p] = best]
        /\ ProcessRoute(p, best, input', FALSE)
    /\ UNCHANGED <<downPeer, routeList>>

\* {'down': n}, as in BGPPeer
ReceiveDown(n) ==
    /\ alive
    /\ PeerDown(n)
    /\ UNCHANGED <<alive, groupVars, vnhVars, arpVars>>

\* Slip: the event ends after the first prefix.
ContinueDownOnce(p) ==
    /\ alive
    /\ p \in routeList
    /\ \E best \in BestAfterWithdraw(p, downPeer, input) :
        /\ local' = [local EXCEPT ![p] = best]
        /\ ProcessRoute(p, best, input, FALSE)
    /\ routeList' = {} /\ downPeer' = NoNeighbor
    /\ UNCHANGED input

\* ... and a withdrawal for every prefix the neighbor had announced.
ContinueDown(p) ==
    /\ alive
    /\ p \in routeList
    /\ \E best \in BestAfterWithdraw(p, downPeer, input) :
        /\ local' = [local EXCEPT ![p] = best]
        /\ ProcessRoute(p, best, input, FALSE)
    /\ routeList' = routeList \ {p}
    /\ downPeer' = IF routeList = {p} THEN NoNeighbor ELSE downPeer
    /\ UNCHANGED input

CNext ==
    \/ \E p \in Prefixes, r \in Offers : ReceiveAnnounce(p, r)
    \/ \E p \in Prefixes, n \in Neighbors : ReceiveWithdraw(p, n)
    \/ \E n \in Neighbors : ReceiveDown(n)
    \/ \E p \in Prefixes : ContinueDown(p)

CSpec == CInit /\ [][CNext]_cvars

-----------------------------------------------------------------------------

Settled(p) == alive /\ p \notin routeList

(***************************************************************************)
(* The path a packet takes: a border router sends a prefix to the VNH it   *)
(* was told, resolves it to the VMAC of the last gratuitous ARP, and the   *)
(* fabric forwards on the next hop in the VMAC.  That is the participant   *)
(* whose route the decision process chose, whatever was shared, re-used or *)
(* lost before.  The VMAC only fails to name it if no superset held the    *)
(* advertisers of the class that policies forward to, or if there are tags *)
(* that do not fit their field.                                            *)
(***************************************************************************)
RoutersReachBest ==
    alive => \A p \in Prefixes : local[p] # NoRoute =>
        LET v == routerVNH[p]
        IN /\ v \in DOMAIN VNH_2_vmac
           /\ IF VNH_2_vmac[v] # BadVmac
              THEN VNH_2_vmac[v].next_hop_part = PartOf[local[p].neighbor]
              ELSE \/ part_advertising[prefix_2_BFEC[p].fec] \in Misfits
                   \/ Cardinality(DOMAIN tag_dict) >= TagRoom

(***************************************************************************)
(* The classes of a prefix describe its routes as they are now, also when  *)
(* the event that changed them had no impact on the best route: the FEC is *)
(* the one made for everybody who advertises it and lists those of them    *)
(* that policies forward to, the BEC is that of the best route's path or   *)
(* the one for paths without an encoding, and every backup is one of the   *)
(* advertisers and not the next hop.  A backup whose route traverses the   *)
(* link it stands in for is only used when every one that avoids it came   *)
(* too late for a tag, and if one link has no backup, none has.            *)
(***************************************************************************)
TooLateForTag(r) ==
    /\ Cardinality(DOMAIN tag_dict) >= TagRoom
    /\ PartOf[r.neighbor] \in DOMAIN tag_dict => tag_dict[PartOf[r.neighbor]] > TagRoom

GroupsAreCurrent ==
    \A p \in Prefixes : Settled(p) /\ local[p] # NoRoute =>
        LET fec == prefix_2_BFEC[p].fec
            bec == prefix_2_BFEC[p].bec
            others == {r \in RoutesTo(p, input) : PartOf[r.neighbor] # fec.next_hop_part}
        IN /\ fec.next_hop_part = PartOf[local[p].neighbor]
           /\ fec.part_set = Advertisers(p, input)
           /\ part_advertising[fec] = Advertisers(p, input) \cap ActiveParts
           /\ \/ bec = DefaultBEC /\ local[p].vmac = NoVmac
              \/ /\ bec.as_path = EncodedPath(local[p])
                 /\ Len(bec.backup_nbs) = Len(bec.as_path) - 1
           /\ \A d \in DOMAIN bec.backup_nbs :
                LET avoids(r) == ~Traverses(r, bec.as_path[d], bec.as_path[d+1])
                IN IF others = {} THEN bec.backup_nbs[d] = NoPart
                   ELSE \E r \in others :
                        /\ bec.backup_nbs[d] = PartOf[r.neighbor]
                        /\ ~avoids(r) => \A t \in others : avoids(t) => TooLateForTag(t)

(***************************************************************************)
(* Fast reroute sends packets to the participants whose tags are in their  *)
(* VMAC.  If all of them fit their fields, those are neighbors that        *)
(* advertise the packet's prefix now, also when two BECs with one id share *)
(* the VNH and the VMAC is that of the other one.                          *)
(***************************************************************************)
VmacBackupsAdvertise ==
    \A p \in Prefixes : Settled(p) /\ local[p] # NoRoute =>
        LET backups == VNH_2_vmac[routerVNH[p]].backups
        IN backups # Spilled =>
            \A part \in DOMAIN tag_dict : tag_dict[part] \in Seqs!ToSet(backups) =>
                part \in Advertisers(p, input) \ {PartOf[local[p].neighbor]}

(***************************************************************************)
(* The withdrawal sent to the routers when a prefix is lost names the VNH  *)
(* under which the prefix was last announced to them.                      *)
(***************************************************************************)
WithdrawnAsAnnounced ==
    [][\A p \in Prefixes :
        output[p] # NoRoute /\ output'[p] = NoRoute =>
            prefix_2_VNH_nrfp'[p] = routerVNH[p]]_cvars

(***************************************************************************)
(* As long as the controller lives each of its steps is one of the BGP     *)
(* speaker's: grouping, VNHs and ARPs never swallow or change an update.   *)
(***************************************************************************)
StepsOfPeer ==
    [][alive' => Next \/ UNCHANGED vars]_cvars

(***************************************************************************)
(* The inductive invariant behind the properties above (theorems of module *)
(* ParticipantController_proofs).  A thread that died may have left its    *)
(* tables half changed, so all of it is about live controllers.            *)
(***************************************************************************)
ClassesTypeOK ==
    /\ FEC_list \subseteq FECType
    /\ IsFiniteSet(BEC_list) /\ BEC_list \subseteq BECType
    /\ prefix_2_BFEC \in [Prefixes -> GroupType \cup {NoGroup}]
    /\ \A p \in Prefixes : local[p] # NoRoute => prefix_2_BFEC[p] # NoGroup
    /\ DOMAIN prefix_2_BFEC_nrfp = Prefixes

\* Every FEC was narrowed by the ARP for the VNH it was made with.
FieldsAreNarrowed == part_advertising = [f \in FEC_list |-> f.part_set \cap ActiveParts]

\* FEC ids count the entries of FEC_list, stray BECs included: none is used twice.
ClassesAreDistinct ==
    /\ IsFiniteSet(FEC_list) /\ IsFiniteSet(strays)
    /\ \A f \in FEC_list : f.id \in 1..(Cardinality(FEC_list) + Cardinality(strays))
    /\ \A f, g \in FEC_list : f.id = g.id => f = g

\* The VNH of a pair of ids has a VMAC, and one with fields in their places names the
\* next hop of the FEC with that id, whichever BECs share the VNH.
VNHsKeepNextHop ==
    /\ num_VNHs_in_use \in Nat
    /\ DOMAIN vnh_2_BFEC \subseteq 1..num_VNHs_in_use
    /\ DOMAIN VNH_2_vmac = DOMAIN vnh_2_BFEC
    /\ \A v \in DOMAIN vnh_2_BFEC :
        /\ vnh_2_BFEC[v].fec \in FEC_list
        /\ VNH_2_vmac[v] # BadVmac =>
                VNH_2_vmac[v].next_hop_part = vnh_2_BFEC[v].fec.next_hop_part
    /\ \A ids \in DOMAIN BECid_FECid_2_VNH :
        /\ BECid_FECid_2_VNH[ids] \in DOMAIN vnh_2_BFEC
        /\ vnh_2_BFEC[BECid_FECid_2_VNH[ids]].fec.id = ids[2]

\* The class of a routed prefix names its next hop, and the routers were told the VNH
\* of its class.
GroupsAreAnnounced ==
    /\ DOMAIN prefix_2_BFEC = Prefixes
    /\ DOMAIN routerVNH = Prefixes
    /\ DOMAIN prefix_2_VNH_nrfp = Prefixes
    /\ \A p \in Prefixes : local[p] # NoRoute =>
        /\ prefix_2_BFEC[p].fec \in FEC_list
        /\ prefix_2_BFEC[p].fec.next_hop_part = PartOf[local[p].neighbor]
        /\ Ids(prefix_2_BFEC[p]) \in DOMAIN BECid_FECid_2_VNH
        /\ routerVNH[p] = BECid_FECid_2_VNH[Ids(prefix_2_BFEC[p])]

\* Tags count up and are never taken back.
TagsAreDistinct ==
    /\ DOMAIN tag_dict \subseteq Parts
    /\ \A a \in DOMAIN tag_dict : tag_dict[a] \in 1..Cardinality(DOMAIN tag_dict)
    /\ \A a, b \in DOMAIN tag_dict : tag_dict[a] = tag_dict[b] => a = b

\* The backups of a VNH's group, and those its VMAC names by their tags, advertise
\* the prefixes of its FEC and are not the next hop; a later group that is given the
\* VNH has another BEC but the same FEC.  A VMAC goes bad for one of two reasons.
VNHsKeepBackups ==
    \A v \in DOMAIN vnh_2_BFEC :
        LET fec == vnh_2_BFEC[v].fec
            usable == fec.part_set \ {fec.next_hop_part}
        IN /\ VNH_2_vmac[v] = BadVmac => \/ fec.part_set \cap ActiveParts \in Misfits
                                         \/ Cardinality(DOMAIN tag_dict) >= TagRoom
           /\ Seqs!ToSet(vnh_2_BFEC[v].bec.backup_nbs) \subseteq usable \cup {NoPart}
           /\ VNH_2_vmac[v].backups # Spilled =>
                \A i \in DOMAIN VNH_2_vmac[v].backups : VNH_2_vmac[v].backups[i] # 0 =>
                    \E b \in DOMAIN tag_dict \cap usable : VNH_2_vmac[v].backups[i] = tag_dict[b]

CInv ==
    alive => /\ IInv
             /\ ClassesTypeOK /\ ClassesAreDistinct /\ FieldsAreNarrowed
             /\ TagsAreDistinct
             /\ VNHsKeepNextHop /\ VNHsKeepBackups
             /\ GroupsAreAnnounced /\ GroupsAreCurrent

=============================================================================
