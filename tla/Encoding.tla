------------------------------ MODULE Encoding ------------------------------
(* The encoding of AS paths in the thread of one SWIFT participant          *)
(* (xrs/encoding.py, and the part of run_peer in xrs/participant_swift.py   *)
(* that feeds it).  An AS link at a depth of the path is encoded by codes   *)
(* for its two ends; an announcement carries the codes of the ASes of its   *)
(* path, and a fast reroute names a link by the codes of its ends.          *)
(*                                                                          *)
(* The thread handles one message after the other.  Its loops over links    *)
(* are steps here, one link at a time; pc says where it is.                 *)
EXTENDS Integers, Sequences, FiniteSets

CONSTANTS Prefixes, Paths,
          MaxDepth,            \* links up to this depth are encoded
          MaxBytes,            \* nb_bits_aspath: bits for a whole path
          MinPercentile,       \* of the weights of encoded links
          MaxFree,
          EncodingThreshold    \* more prefixes than this start the encoding

\* AS links at a depth: the first link of a path has depth 1.
LinksOf(path) ==
    {[depth |-> i, from |-> path[i], to |-> path[i + 1]] : i \in 1..(Len(path) - 1)}
Links == UNION {LinksOf(path) : path \in Paths}
ASes == UNION {{path[i] : i \in 1..Len(path)} : path \in Paths}

\* Mappings exist for the ends of links at depths 2..MaxDepth.
LinkDepths == 2..MaxDepth
Depths == 2..(MaxDepth + 1)

ASSUME EncodingAssumption ==
    /\ IsFiniteSet(Prefixes)
    /\ IsFiniteSet(Paths)
    /\ Paths \subseteq Seq(Nat \ {0}) \ {<<>>}
    /\ MaxDepth \in Nat /\ MaxBytes \in Nat /\ MaxFree \in Nat /\ EncodingThreshold \in Nat
    /\ MinPercentile \in 0..100

VARIABLES
    rib,         \* RIBPeer.rib: the path of a prefix, <<>> if there is none
    G,           \* the topology: prefixes per link and depth
    computed,    \* whether there is an encoding
    depths,      \* keys of Encoding.mapping
    mapping,     \* Encoding.mapping
    encoded,     \* encoded_aslinks
    minimum,     \* minimum weight per depth, in hundredths
    kept,        \* prefixes of routes_without_as_path_encoding
    died,        \* the exception that ended the thread
    pc, msg,     \* what the thread does, with which message
    total_bytes, \* bits compute_encoding has given to the mappings
    todo,        \* links compute_encoding has not looked at
    at,          \* position of the link in the path that is added
    refreshed,   \* depths refreshed for the link at that position
    target       \* depth that is refreshed

encodingVars == <<depths, mapping, encoded, minimum>>
loopVars == <<total_bytes, todo, at, refreshed, target>>
vars == <<rib, G, computed, encodingVars, kept, died, pc, msg, loopVars>>

INSTANCE Mapping

NoMinimum == -1
NoMsg == [kind |-> "none"]

Init ==
    /\ rib = [p \in Prefixes |-> <<>>]
    /\ G = [l \in Links |-> 0]
    /\ computed = FALSE
    /\ depths = {}
    /\ mapping = [d \in Depths |-> EmptyMapping]
    /\ encoded = {}
    /\ minimum = [d \in LinkDepths |-> NoMinimum]
    /\ kept = {}
    /\ died = "no"
    /\ pc = "idle" /\ msg = NoMsg
    /\ total_bytes = 0 /\ todo = {} /\ at = 1 /\ refreshed = {} /\ target = 2

(***************************************************************************)
(* Weights and the orders in which links are looked at.                    *)
(***************************************************************************)
\* sortedlist: links of one depth with the same weight go by their ASes.
Before(k, l) == k.from < l.from \/ (k.from = l.from /\ k.to < l.to)

\* compute_encoding pops the heaviest link; between depths the first one wins.
IsHeaviest(l, S) == \A k \in S \ {l} :
    \/ G[k] < G[l]
    \/ G[k] = G[l] /\ (l.depth < k.depth \/ (l.depth = k.depth /\ Before(k, l)))

\* refresh pops the lightest one.
IsLightest(l, S) == \A k \in S \ {l} :
    \/ G[l] < G[k]
    \/ G[k] = G[l] /\ (l.depth < k.depth \/ (l.depth = k.depth /\ Before(l, k)))

\* The k-th smallest weight of the links of S.
Kth(S, k) == CHOOSE w \in {G[l] : l \in S} :
    /\ Cardinality({l \in S : G[l] < w}) < k
    /\ Cardinality({l \in S : G[l] <= w}) >= k

\* np.percentile: linear between the two nearest weights, in hundredths.
Percentile(S) ==
    LET position == (Cardinality(S) - 1) * MinPercentile
        k == (position \div 100) + 1
        part == position % 100
    IN  100 * Kth(S, k) + (IF part = 0 THEN 0 ELSE part * (Kth(S, k + 1) - Kth(S, k)))

\* The minimum of every depth of ds that has an encoded link among S.
MinimumOf(ds, S) ==
    [d \in LinkDepths |-> LET T == {l \in S : l.depth = d}
                          IN  IF d \in ds /\ T # {} THEN Percentile(T) ELSE minimum[d]]

(***************************************************************************)
(* What a message leaves to do in an encoding that exists.                 *)
(***************************************************************************)
\* Encoding.withdraw: encoded links of the old path that no prefix uses any more.
Unused(old, g) == {l \in LinksOf(old) \cap encoded : g[l] = 0}

RefreshedFor(l) == IF l.depth = at THEN refreshed ELSE {}

\* Encoding.add looks at a link if its depth is encoded and one of its ends has no
\* code, which it does not ask again after a refresh.
Considered(new) ==
    {l \in LinksOf(new) :
        /\ l.depth >= at
        /\ {l.depth, l.depth + 1} \subseteq depths /\ minimum[l.depth] # NoMinimum
        /\ \/ RefreshedFor(l) # {}
           \/ mapping[l.depth].code[l.from] = 0
           \/ mapping[l.depth + 1].code[l.to] = 0}

\* The full depths of a link that are not behind a refresh already done for it: the
\* depth of its first end is looked at before that of its second one.
FullDepths(l) ==
    {d \in {l.depth, l.depth + 1} : mapping[d].free = {} /\ \A e \in RefreshedFor(l) : d > e}

\* A link is encoded if it is heavier than the minimum and both ends find a code.
Encodable(l, g) ==
    /\ 100 * g[l] > minimum[l.depth]
    /\ IsAvailable(mapping[l.depth], l.from, FALSE) = 0
    /\ IsAvailable(mapping[l.depth + 1], l.to, FALSE) = 0

\* The links of a path for which Encoding.add does something.
ToAdd(new, g) == {l \in Considered(new) : FullDepths(l) # {} \/ Encodable(l, g)}
IsFirst(l, S) == \A k \in S : l.depth <= k.depth

(***************************************************************************)
(* A message arrives.                                                      *)
(***************************************************************************)
\* A slip: a replaced path stays in the topology.
RegraphedKeepsOld(old, new) ==
    [l \in Links |-> G[l] + (IF l \in LinksOf(new) THEN 1 ELSE 0)]

\* ASTopology.remove of the old path and add of the new one.
Regraphed(old, new) ==
    [l \in Links |-> G[l] - (IF l \in LinksOf(old) THEN 1 ELSE 0)
                          + (IF l \in LinksOf(new) THEN 1 ELSE 0)]

InRib(r) == {p \in Prefixes : r[p] # <<>>}
Candidates(g) == {l \in Links : l.depth \in LinkDepths /\ g[l] > 0}
Message(kind, p, new) == [kind |-> kind, prefix |-> p, old |-> rib[p], new |-> new]

Idle == pc = "idle" /\ died = "no"

\* The encoding exists: the thread has to update it, or is done.
Proceed(m) ==
    IF Unused(m.old, G') = {} /\ ToAdd(m.new, G') = {}
    THEN UNCHANGED <<pc, msg>>
    ELSE pc' = "update" /\ msg' = m

\* run_peer, an announcement.  Without an encoding the route is passed on and
\* kept; the route that exceeds the threshold has the encoding computed.
Announce(p, path) ==
    /\ Idle
    /\ rib' = [rib EXCEPT ![p] = path]
    /\ G' = Regraphed(rib[p], path)
    /\ IF computed
       THEN Proceed(Message("announce", p, path)) /\ UNCHANGED <<kept, todo>>
       ELSE IF Cardinality(InRib(rib')) > EncodingThreshold
       THEN /\ pc' = "compute" /\ todo' = Candidates(G')
            /\ msg' = Message("announce", p, path) /\ UNCHANGED kept
       ELSE kept' = kept \cup {p} /\ UNCHANGED <<pc, msg, todo>>
    /\ UNCHANGED <<computed, encodingVars, died, total_bytes, at, refreshed, target>>

\* run_peer, a withdrawal.  The first message of this kind has the encoding
\* computed before the route leaves the topology.
Withdraw(p) ==
    /\ Idle
    /\ IF computed
       THEN /\ rib' = [rib EXCEPT ![p] = <<>>]
            /\ G' = Regraphed(rib[p], <<>>)
            /\ Proceed(Message("withdraw", p, <<>>)) /\ UNCHANGED todo
       ELSE /\ pc' = "compute" /\ todo' = Candidates(G)
            /\ msg' = Message("withdraw", p, <<>>) /\ UNCHANGED <<rib, G>>
    /\ UNCHANGED <<computed, encodingVars, kept, died, total_bytes, at, refreshed, target>>

(***************************************************************************)
(* compute_encoding: links by weight, while there are bits left.           *)
(***************************************************************************)
\* The heaviest remaining link: encoded if the bits it needs are there.  The
\* mappings of its two depths exist from now on in any case, and are blocked when
\* the bits are used up.
ConsiderLink(l) ==
    LET from == mapping[l.depth]
        to == mapping[l.depth + 1]
        newFrom == MappingAdd(from, l.from, "from", TRUE)
        newTo == MappingAdd(to, l.to, "to", TRUE)
        needed == IsAvailable(from, l.from, TRUE) + IsAvailable(to, l.to, TRUE)
        total == total_bytes + newFrom.nb_bytes - from.nb_bytes + newTo.nb_bytes - to.nb_bytes
        Block(m) == IF total >= MaxBytes - 2 THEN [m EXCEPT !.blocked = TRUE] ELSE m
    IN  /\ pc = "compute" /\ l \in todo /\ IsHeaviest(l, todo)
        /\ todo' = todo \ {l}
        /\ depths' = depths \cup {l.depth, l.depth + 1}
        /\ IF total_bytes + needed <= MaxBytes - 2
           THEN /\ encoded' = encoded \cup {l}
                /\ total_bytes' = total
                /\ mapping' = [mapping EXCEPT ![l.depth] = Block(newFrom),
                                              ![l.depth + 1] = Block(newTo)]
           ELSE UNCHANGED <<encoded, total_bytes, mapping>>
        /\ UNCHANGED <<rib, G, computed, minimum, kept, died, pc, msg, at, refreshed, target>>

\* All links are considered and bits are left: one goes to the mapping with the
\* fewest free codes, the first of them.
SpareBit(d) ==
    LET few(e) == Cardinality(mapping[e].free)
    IN  /\ pc = "compute" /\ todo = {} /\ total_bytes < MaxBytes - 2
        /\ d \in depths
        /\ \A e \in depths \ {d} : few(d) < few(e) \/ (few(d) = few(e) /\ d < e)
        /\ total_bytes' = total_bytes + 1
        /\ mapping' = [mapping EXCEPT ![d] = AddByte(@)]
        /\ UNCHANGED <<rib, G, computed, depths, encoded, minimum, kept, died, pc, msg,
                       todo, at, refreshed, target>>

\* One more bit for depths 2 and 3, and the minima.  An announcement is done, and
\* the kept routes are sent again; a withdrawal goes on with its route.
FinishCompute ==
    /\ pc = "compute" /\ todo = {} /\ (depths = {} \/ total_bytes >= MaxBytes - 2)
    /\ computed' = TRUE
    /\ mapping' = [d \in Depths |-> IF d \in depths \cap {2, 3} THEN AddByte(mapping[d])
                                    ELSE mapping[d]]
    /\ minimum' = MinimumOf(LinkDepths, encoded)
    /\ IF msg.kind = "withdraw"
       THEN /\ rib' = [rib EXCEPT ![msg.prefix] = <<>>]
            /\ G' = Regraphed(msg.old, <<>>)
            /\ pc' = "update" /\ UNCHANGED <<kept, msg>>
       ELSE pc' = "idle" /\ msg' = NoMsg /\ kept' = {} /\ UNCHANGED <<rib, G>>
    /\ UNCHANGED <<depths, encoded, died, loopVars>>

(***************************************************************************)
(* The encoding follows the message: Encoding.withdraw for the old path,   *)
(* then Encoding.add for each link of the new one.                         *)
(***************************************************************************)
Updating == pc = "update" /\ died = "no"

\* Encoding.remove of an encoded link.
Remove(l) ==
    /\ encoded' = encoded \ {l}
    /\ mapping' = [mapping EXCEPT ![l.depth] = MappingRemove(@, l.from, "from"),
                                  ![l.depth + 1] = MappingRemove(@, l.to, "to")]
    /\ died' = IF \/ Underflows(mapping[l.depth], l.from, "from")
                  \/ Underflows(mapping[l.depth + 1], l.to, "to")
               THEN "NameError" ELSE died

ReleaseLink(l) ==
    /\ Updating
    /\ l \in Unused(msg.old, G) /\ IsFirst(l, Unused(msg.old, G))
    /\ Remove(l)
    /\ UNCHANGED <<rib, G, computed, depths, minimum, kept, pc, msg, loopVars>>

\* The next link of the new path that Encoding.add has something to do for.
IsNext(l) == /\ Updating /\ Unused(msg.old, G) = {}
             /\ l \in ToAdd(msg.new, G) /\ IsFirst(l, ToAdd(msg.new, G))

StartRefresh(l) ==
    /\ IsNext(l) /\ FullDepths(l) # {}
    /\ target' = IF l.depth \in FullDepths(l) THEN l.depth ELSE l.depth + 1
    /\ at' = l.depth
    /\ refreshed' = RefreshedFor(l)
    /\ pc' = "refresh"
    /\ UNCHANGED <<rib, G, computed, encodingVars, kept, died, msg, total_bytes, todo>>

AddLink(l) ==
    /\ IsNext(l) /\ FullDepths(l) = {}
    /\ encoded' = encoded \cup {l}
    /\ mapping' = [mapping EXCEPT ![l.depth] = MappingAdd(@, l.from, "from", FALSE),
                                  ![l.depth + 1] = MappingAdd(@, l.to, "to", FALSE)]
    /\ at' = l.depth + 1 /\ refreshed' = {}
    /\ UNCHANGED <<rib, G, computed, depths, minimum, kept, died, pc, msg,
                   total_bytes, todo, target>>

\* The message is done.  If this is the withdrawal of a kept route, the thread ends
\* when it comes to that one (list.pop with a dictionary).
Finish ==
    /\ Updating /\ Unused(msg.old, G) = {} /\ ToAdd(msg.new, G) = {}
    /\ died' = IF msg.prefix \in kept THEN "TypeError" ELSE died
    /\ kept' = {}
    /\ pc' = "idle" /\ msg' = NoMsg
    /\ at' = 1 /\ refreshed' = {} /\ target' = 2
    /\ UNCHANGED <<rib, G, computed, encodingVars, total_bytes, todo>>

(***************************************************************************)
(* refresh of a full depth: the lightest links go until half of it is free. *)
(***************************************************************************)
\* A slip: links that end at the depth are forgotten.
HoldersThatBegin == {l \in encoded : l.depth = target}

\* Links that hold a code at the depth that is refreshed.
Holders == {l \in encoded : l.depth \in {target - 1, target}}

\* More than half of the depth is in use.
OverHalf == 2 * Size(mapping[target]) > mapping[target].capacity

RefreshLink(l) ==
    /\ pc = "refresh" /\ died = "no" /\ OverHalf
    /\ l \in Holders /\ IsLightest(l, Holders)
    /\ Remove(l)
    /\ UNCHANGED <<rib, G, computed, depths, minimum, kept, pc, msg, loopVars>>

\* The links that are left make the new minima.
Refreshed ==
    /\ pc = "refresh" /\ died = "no" /\ ~(OverHalf /\ Holders # {})
    /\ minimum' = MinimumOf({target - 1, target}, Holders)
    /\ refreshed' = refreshed \cup {target}
    /\ pc' = "update"
    /\ UNCHANGED <<rib, G, computed, depths, mapping, encoded, kept, died, msg,
                   total_bytes, todo, at, target>>

Step == \/ \E l \in Links : \/ ConsiderLink(l) \/ ReleaseLink(l) \/ RefreshLink(l)
                            \/ StartRefresh(l) \/ AddLink(l)
        \/ \E d \in Depths : SpareBit(d)
        \/ FinishCompute \/ Refreshed \/ Finish

Next == \/ \E p \in Prefixes, path \in Paths : Announce(p, path)
        \/ \E p \in Prefixes : Withdraw(p)
        \/ Step

Spec == Init /\ [][Next]_vars

\* Codes of a depth are never shared and never lost, through overprovisioning,
\* refreshes and removals (Mapping.add, remove, add_byte).
CodesAreKept == \A d \in Depths : CodesPartitioned(mapping[d])

\* An AS is counted once for every encoded link it begins or ends, so its code goes
\* with its last link and not before (Mapping.mapping[asn][1:3], encoded_aslinks).
UsesAreCounted ==
    \A d \in Depths, a \in ASes :
        /\ mapping[d].count["from"][a] = Cardinality({l \in encoded : l.depth = d /\ l.from = a})
        /\ mapping[d].count["to"][a] = Cardinality({l \in encoded : l.depth + 1 = d /\ l.to = a})
        /\ mapping[d].code[a] # 0 <=> \E s \in Sides : mapping[d].count[s][a] > 0

\* Between two messages an encoded link is on the path of some prefix, at the depth
\* it is encoded at (Encoding.withdraw against ASTopology).
EncodedIsTraversed ==
    pc = "idle" => \A l \in encoded : \E p \in Prefixes : l \in LinksOf(rib[p])

\* The codes of a path fit into the bits the VMAC has for it: the reserve of two bits
\* covers the extra ones of depths 2 and 3 (compute_encoding; string.ljust would not cut).
PathBits == UNION {{d} \X (1..mapping[d].nb_bytes) : d \in depths}
PathFits == Cardinality(PathBits) <= MaxBytes

\* No step of the computed encoding moves a field of the VMAC: routers hold VMACs
\* made with the old layout (add_byte only in compute_encoding).
LayoutIsFixed ==
    [][computed => \A d \in Depths : mapping'[d].nb_bytes = mapping[d].nb_bytes]_vars

\* A refresh ends with half of the depth free (comment of Encoding.refresh), so
\* that the link it was started for finds a code.
RefreshMakesRoom ==
    [][pc = "refresh" /\ pc' # "refresh" => 2 * Size(mapping[target]) <= mapping[target].capacity]_vars

\* The thread ends of nothing but the withdrawal of a kept route: no count below
\* zero, no link that is missing in the topology.
ThreadSurvives == died \in {"no", "TypeError"}

=============================================================================
