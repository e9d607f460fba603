----------------------------- MODULE Supersets -----------------------------
(***************************************************************************)
(* Policies of a participant controller: packets to a prefix may be        *)
(* diverted to another participant that advertises it.  The VMAC of an     *)
(* equivalence class (VNH) names a superset of participants and has a bit  *)
(* for each of them that advertises the class; an outbound rule matches    *)
(* one superset and one bit (pctrl/supersets.py, ss_rule_scheme.py).       *)
(*                                                                         *)
(* A VNH stands for a forwarding equivalence class, named by the set of    *)
(* its advertisers when it was made: next hop and backups follow from it   *)
(* as long as a participant's routes are alike and their paths encoded     *)
(* (FEC.py, BEC.py; ParticipantController has classes in detail).  Of the  *)
(* BECs that init_BEC_assignment makes only their defect is kept.          *)
(*                                                                         *)
(* A VMAC is the set of its one bits, of the MaxBits after the inbound     *)
(* bit: the superset's number in id_size bits, then the mask.  An event is *)
(* one step: routers see its rules and ARPs together.                      *)
(***************************************************************************)
EXTENDS SuperSetLib

CONSTANTS
    Prefixes, Parts,     \* participants are numbers
    PeersOut,            \* cfg.peers_out: those whose routes are used
    InitialPolicies,     \* outbound policies: [cookie, fwd]
    Changes,             \* what a policy change may bring: [removed, added]
    MaxBits,             \* max_bits: bits for superset and mask
    Spare,               \* bits left free when supersets are computed, 4 in the code
    MaxUpdates           \* bound: BGP updates

Policy == [cookie : Nat, fwd : Parts]

ASSUME SupersetsAssumption ==
    /\ Parts \subseteq Nat /\ PeersOut \subseteq Parts
    /\ InitialPolicies \subseteq Policy
    /\ \A c \in Changes : c.removed \subseteq Nat /\ c.added \subseteq Policy
    /\ IsFiniteSet(Parts) /\ IsFiniteSet(InitialPolicies)
    /\ \A c \in Changes : IsFiniteSet(c.added)
    /\ MaxBits \in Nat /\ Spare \in Nat /\ MaxUpdates \in Nat

VARIABLES
    advertising,   \* input RIB: the participants with a route to each prefix
    policies,
    serving,       \* the thread that takes policy changes is alive
    receiving,     \* the thread that takes BGP updates is alive
    spoiled,       \* some VNH has a BEC without 'as_path_vmac'
    ss,            \* the SuperSets instance: [supersets, id_size]
    FEC_list,      \* VNH |-> part_advertising
    VNH_2_vmac,    \* VNH |-> VMAC, or NoVmac
    rules,         \* outbound rules at the switch: [cookie, fwd, id, width, bit]
    updates,
    fresh          \* history: the VNHs whose VMAC is of the present supersets

vars == <<advertising, policies, serving, receiving, spoiled, ss, FEC_list, VNH_2_vmac,
          rules, updates, fresh>>

NoVmac == {0}

Known(adv) == {p \in Prefixes : adv[p] # {}}

Forwards(pol) == {x.fwd : x \in pol}
Cookies(pol) == {x.cookie : x \in pol}

\* recompute_rulecounts
RuleCounts(pol) == [q \in Parts |-> Cardinality({x \in pol : x.fwd = q})]

MaskSize(s) == MaxBits - s.id_size

\* The ones among the bits of a superset's number.
IdBits(i, width) == {b \in 1..width : ((i - 1) \div Pow2[width - b]) % 2 = 1}

-----------------------------------------------------------------------------
(* Supersets *)

\* The active advertisers of each prefix, packed.
Packed(pol, adv) ==
    Minimize(RemoveSubsets({adv[p] \cap Forwards(pol) : p \in Known(adv)}),
             RuleCounts(pol), MaxBits - Spare)

\* recompute_all_supersets
Recomputed(pol, adv) ==
    LET packed == Packed(pol, adv)
        ids == IdSize(Len(packed))
        cut(s) == SubSeq(s, 1, IF Len(s) < MaxBits - ids THEN Len(s) ELSE MaxBits - ids)
    IN [supersets |-> [i \in DOMAIN packed |-> cut(Listed(packed[i]))], id_size |-> ids]

\* The places of the supersets in is, from position k on.
Places(s, is, from) == UNION {{i} \X {k \in DOMAIN s.supersets[i] : k >= from} : i \in is}

-----------------------------------------------------------------------------
(* Rules *)

RuleFor(x, s, i, k) ==
    [cookie |-> x.cookie, fwd |-> x.fwd, id |-> IdBits(i, s.id_size), width |-> s.id_size,
     bit |-> s.id_size + k]

Matches(r, vmac) == vmac # NoVmac /\ vmac \cap (1..r.width) = r.id /\ r.bit \in vmac

\* Slip: only the first member of a superset gets its rules.
RulesOfFirstMember(pol, s, changed) ==
    UNION {{RuleFor(x, s, c[1], c[2]) : c \in
        {d \in changed : s.supersets[d[1]][d[2]] = x.fwd /\ d[2] = 1}} : x \in pol}

\* update_outbound_rules: all rules of a policy share one match, so they all get the
\* bits of the last change that concerns it.
RulesOf(pol, s, changed) ==
    LET target(c) == s.supersets[c[1]][c[2]]
        last(x) == {c \in changed :
            target(c) = x.fwd /\ \A e \in changed : target(e) = x.fwd => e[1] <= c[1]}
    IN UNION {{RuleFor(x, s, c[1], c[2]) : c \in last(x)} : x \in pol}

\* Slip: nothing is wiped.
WithoutNothing(rs, cookies) == rs

\* msg_clear_all_outbound, queue_flow_removals: rules go by cookie.
Without(rs, cookies) == {r \in rs : r.cookie \notin cookies}

-----------------------------------------------------------------------------
(* VMACs *)

\* get_vmac, its mask and superset.
Vmac(s, parts) ==
    LET covers == {i \in DOMAIN s.supersets : parts \subseteq Members(s.supersets[i])}
        first == CHOOSE i \in covers : \A j \in covers : i <= j
    IN IF covers = {} THEN NoVmac
       ELSE IdBits(first, s.id_size)
            \cup {s.id_size + k : k \in {l \in DOMAIN s.supersets[first] :
                                            s.supersets[first][l] \in parts \cap PeersOut}}

\* Slip: only VNHs without a VMAC get one.
SendGarpsOnce(vnhs, classes) ==
    /\ FEC_list' = classes
    /\ VNH_2_vmac' = [v \in DOMAIN VNH_2_vmac \cup vnhs |->
                        IF v \in DOMAIN VNH_2_vmac THEN VNH_2_vmac[v]
                        ELSE Vmac(ss', classes[v] \cap Forwards(policies))]

\* process_arp_request with no requester, for each of vnhs.  get_vmac leaves only
\* active participants in the class itself.
SendGarps(vnhs, classes) ==
    LET active(v) == classes[v] \cap Forwards(policies)
    IN /\ FEC_list' = [v \in DOMAIN classes |-> IF v \in vnhs THEN active(v) ELSE classes[v]]
       /\ VNH_2_vmac' = [v \in DOMAIN VNH_2_vmac \cup vnhs |->
                            IF v \in vnhs THEN Vmac(ss', active(v)) ELSE VNH_2_vmac[v]]

\* The ARPs after a recomputation, for every VNH.  A spoiled one raises a KeyError in
\* get_vmac, which ends the thread after some of the others.
SendAllGarps(classes) ==
    \/ /\ ~spoiled
       /\ SendGarps(DOMAIN classes, classes)
       /\ fresh' = DOMAIN classes
       /\ UNCHANGED receiving
    \/ /\ spoiled
       /\ \E sent \in SUBSET DOMAIN classes : SendGarps(sent, classes) /\ fresh' = sent
       /\ receiving' = FALSE

-----------------------------------------------------------------------------
(* BGP updates: process_bgp_route from the assignment of classes on.  adv are the  *)
(* routes after the update, v the VNH of the prefix, {} if it has no route left.   *)

\* FEC.assignment, vnh_assignment
Classes(v) ==
    [w \in DOMAIN FEC_list \cup ({v} \ {{}}) |-> IF w \in DOMAIN FEC_list THEN FEC_list[w] ELSE w]

\* bgp_update_peer: VNHs the routers are told about for the first time.
NewVNHs(v) == {v} \ ({{}} \cup DOMAIN VNH_2_vmac)

\* Nothing computed yet: initial_computation.
FirstSupersets(adv, v) ==
    /\ ss.supersets = <<>>
    /\ ss' = Recomputed(policies, adv)
    /\ rules' = Without(rules, Cookies(policies))
                \cup RulesOf(policies, ss', Places(ss', DOMAIN ss'.supersets, 1))
    /\ SendAllGarps(Classes(v))

\* A withdrawal, a VNH that has its VMAC, or advertisers some superset contains.
SameSupersets(v, announced) ==
    /\ ss.supersets # <<>>
    /\ \/ ~announced
       \/ v \in DOMAIN VNH_2_vmac
       \/ \E i \in DOMAIN ss.supersets : v \cap Forwards(policies) \subseteq Members(ss.supersets[i])
    /\ UNCHANGED <<ss, rules>>
    /\ SendGarps(NewVNHs(v), Classes(v))
    /\ fresh' = fresh \cup NewVNHs(v)
    /\ UNCHANGED receiving

NeedsRoom(v, announced) ==
    /\ ss.supersets # <<>> /\ announced /\ v \notin DOMAIN VNH_2_vmac
    /\ \A i \in DOMAIN ss.supersets : ~(v \cap Forwards(policies) \subseteq Members(ss.supersets[i]))

Expansion(v) ==
    BestToExpand(v \cap Forwards(policies), ss.supersets, RuleCounts(policies), MaskSize(ss))

\* The superset that grows cheapest does.
ExpandSuperset(v, announced) ==
    /\ NeedsRoom(v, announced) /\ Expansion(v) # 0
    /\ LET i == Expansion(v)
           old == ss.supersets[i]
           new == Listed((v \cap Forwards(policies)) \ Members(old))
       IN /\ ss' = [ss EXCEPT !.supersets[i] = old \o new]
          /\ rules' = rules \cup RulesOf(policies, ss', Places(ss', {i}, Len(old) + 1))
    /\ SendGarps({v}, Classes(v))
    /\ fresh' = fresh \cup {v}
    /\ UNCHANGED receiving

\* No superset has room: all anew.  The return is in the loop, so only the changes of
\* the first superset come back.
RecomputeSupersets(adv, v, announced) ==
    /\ NeedsRoom(v, announced) /\ Expansion(v) = 0
    /\ ss' = Recomputed(policies, adv)
    /\ rules' = Without(rules, Cookies(policies)) \cup RulesOf(policies, ss', Places(ss', {1}, 1))
    /\ SendAllGarps(Classes(v))

ProcessUpdate(adv, p, announced) ==
    /\ receiving
    /\ updates < MaxUpdates
    /\ updates' = updates + 1
    /\ advertising' = adv
    /\ \/ FirstSupersets(adv, adv[p])
       \/ SameSupersets(adv[p], announced)
       \/ ExpandSuperset(adv[p], announced)
       \/ RecomputeSupersets(adv, adv[p], announced)
    /\ UNCHANGED <<policies, serving, spoiled>>

Announce(p, q) == ProcessUpdate([advertising EXCEPT ![p] = @ \cup {q}], p, TRUE)

Withdraw(p, q) ==
    /\ q \in advertising[p]
    /\ ProcessUpdate([advertising EXCEPT ![p] = @ \ {q}], p, FALSE)

-----------------------------------------------------------------------------
(* Policy changes: process_policy_changes *)

\* Only removals.
RemovePolicies(c) ==
    /\ serving /\ c.added = {}
    /\ policies' = {x \in policies : x.cookie \notin c.removed}
    /\ rules' = Without(rules, c.removed \cap Cookies(policies))
    /\ UNCHANGED <<advertising, serving, receiving, spoiled, ss, FEC_list, VNH_2_vmac,
                  updates, fresh>>

\* New policies: wipe and start again.  init_BEC_assignment looks for a prefix's BEC by
\* the whole AS path and, if that is longer than what is encoded or has no encoding,
\* makes one with a misspelt key and (init_vnh_assignment) gives it a VNH of its own;
\* the routers are not told of it.  What was to send the ARPs raises a TypeError, which
\* ends the thread.
ReplacePolicies(c) ==
    LET kept == {x \in policies : x.cookie \notin c.removed}
    IN /\ serving /\ c.added # {}
       /\ policies' = {x \in kept : x.cookie \notin Cookies(c.added)} \cup c.added
       /\ ss' = Recomputed(policies', advertising)
       /\ rules' = Without(rules, Cookies(policies))
                   \cup RulesOf(policies', ss', Places(ss', DOMAIN ss'.supersets, 1))
       /\ spoiled' \in {spoiled, Known(advertising) # {}}
       /\ serving' = FALSE
       /\ fresh' = {}
       /\ UNCHANGED <<advertising, receiving, FEC_list, VNH_2_vmac, updates>>

-----------------------------------------------------------------------------

\* initialize_dataplane at the start, when there are no routes yet.
Init ==
    /\ advertising = [p \in Prefixes |-> {}]
    /\ policies = InitialPolicies
    /\ serving = TRUE /\ receiving = TRUE /\ spoiled = FALSE
    /\ ss = [supersets |-> <<>>, id_size |-> 1]
    /\ FEC_list = [v \in {} |-> {}]
    /\ VNH_2_vmac = [v \in {} |-> NoVmac]
    /\ rules = {}
    /\ updates = 0
    /\ fresh = {}

Next ==
    \/ \E p \in Prefixes, q \in Parts : Announce(p, q) \/ Withdraw(p, q)
    \/ \E c \in Changes : RemovePolicies(c) \/ ReplacePolicies(c)

Spec == Init /\ [][Next]_vars

-----------------------------------------------------------------------------

\* The VMAC the routers use for prefix p.
VmacOf(p) == VNH_2_vmac[advertising[p]]

\* The prefixes whose VMAC is of the present supersets.
Current == {p \in Known(advertising) : advertising[p] \in fresh}

(***************************************************************************)
(* A packet is diverted only to a participant that advertises its prefix   *)
(* and whose routes are accepted, whatever updates, expansions and         *)
(* recomputations came before, once its VMAC is of the present supersets.  *)
(***************************************************************************)
DivertsOnlyToAdvertisers ==
    \A p \in Current, r \in rules :
        Matches(r, VmacOf(p)) => r.fwd \in advertising[p] \cap PeersOut

(***************************************************************************)
(* Every rule at the switch belongs to a policy the participant still has  *)
(* and matches a place where its target is now: wiping by cookie leaves    *)
(* none of older supersets behind.                                         *)
(***************************************************************************)
RulesAreCurrent ==
    \A r \in rules : \E x \in policies, i \in DOMAIN ss.supersets :
        \E k \in DOMAIN ss.supersets[i] :
            r = RuleFor(x, ss, i, k) /\ ss.supersets[i][k] = x.fwd

(***************************************************************************)
(* Until policies are replaced, the policies for a prefix whose VMAC names *)
(* the first superset apply: there is a rule for every advertiser.         *)
(***************************************************************************)
FirstSupersetApplies ==
    serving => \A p \in Current, x \in policies :
        /\ VmacOf(p) # NoVmac /\ VmacOf(p) \cap (1..ss.id_size) = {}
        /\ x.fwd \in advertising[p] \cap PeersOut
        => \E r \in rules : r.cookie = x.cookie /\ r.fwd = x.fwd /\ Matches(r, VmacOf(p))

(***************************************************************************)
(* Whatever is advertised and however many bits there are, packing keeps   *)
(* the active advertisers of each prefix together in some superset and     *)
(* never needs more rules than the sets themselves would.  If it merged    *)
(* anything the result fits the bits, or needs one more if all became one: *)
(* that merge is thought to shorten the superset's number, but the number  *)
(* of a single superset has a bit too.                                     *)
(***************************************************************************)
PackingServesAll ==
    LET sets == RemoveSubsets({advertising[p] \cap Forwards(policies) : p \in Known(advertising)})
        weight == RuleCounts(policies)
    IN \A bits \in 0..(Cardinality(Parts) + 2) :
        LET packed == Minimize(sets, weight, bits)
        IN /\ \A p \in Known(advertising) : \E j \in DOMAIN packed :
                  advertising[p] \cap Forwards(policies) \subseteq packed[j]
           /\ RulesRequired(packed, weight) <= RulesRequired(sets, weight)
           /\ packed # sets =>
                  BitsRequired(packed) <= bits + (IF Len(packed) > 1 THEN 0 ELSE 1)

=============================================================================
