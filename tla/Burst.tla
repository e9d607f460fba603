------------------------------- MODULE Burst -------------------------------
(***************************************************************************)
(* Bursts of withdrawals in the thread of one SWIFT participant (run_peer  *)
(* of xrs/participant_swift.py, with xrs/bgp_messages.py, as_topology.py,  *)
(* bpa.py and burst.py).  Many withdrawals within a few seconds are a      *)
(* burst; while it lasts, the AS link whose failure explains it best is    *)
(* inferred, and the controllers are asked to reroute what traverses it.   *)
(*                                                                         *)
(* The thread handles one message after the other, each a step here.  The  *)
(* algorithm is bpa-single, and silent is on, as in examples/test-ms; what *)
(* has codes in the encoding is a constant (module Encoding), and messages *)
(* come with the time in seconds, which does not go back: if it did, or    *)
(* were no whole number of seconds, the loop over seconds would not end.   *)
(***************************************************************************)
EXTENDS Integers, Sequences, FiniteSets

LOCAL Seqs == INSTANCE SequencesExt

CONSTANTS
    Prefixes, Paths,
    WinSize,       \* win_size: seconds a withdrawal counts
    BurstStart,    \* nb_withdrawals_burst_start
    BurstEnd,      \* nb_withdrawals_burst_end
    MinBurst,      \* min_bpa_burst_size
    Cycle,         \* fm_freq: withdrawals from one inference to the next
    PW, RW,        \* weights of precision and recall
    Encoded,       \* links that have codes: [link, depth]
    MaxTime,       \* bound: seconds
    MaxCounted     \* bound: withdrawals that count at a time

ASSUME BurstAssumption ==
    /\ IsFiniteSet(Prefixes)
    /\ IsFiniteSet(Paths) /\ \A path \in Paths : path # <<>> /\ path \in Seq(Nat)
    /\ MaxTime \in Nat
    /\ WinSize \in Nat /\ BurstEnd \in Nat /\ BurstStart \in Nat \ {0} /\ BurstEnd <= BurstStart
    /\ MinBurst \in Nat /\ Cycle \in Nat /\ PW \in Nat \ {0} /\ RW \in Nat

VARIABLES
    rib,            \* RIBPeer.rib, <<>> for no path; G has the links of its paths
    last_ts,
    W_queue,        \* withdrawals within the window: [time, path]
    G_W,            \* prefix_counter of the links of withdrawn paths
    burst,          \* current_burst, or NoBurst
    best_edge_set,  \* links inferred in this step, at most one
    FR              \* FR messages of this step

vars == <<rib, last_ts, W_queue, G_W, burst, best_edge_set, FR>>

NoBurst == [on |-> FALSE]
Hops(path) == {<<path[i], path[i + 1]>> : i \in 1..(Len(path) - 1)}
Links == UNION {Hops(path) : path \in Paths}
Depths == UNION {1..(Len(path) - 1) : path \in Paths}

-----------------------------------------------------------------------------
(* AS topologies *)

\* prefix_counter: how often paths use a link, more than once per path if prepended.
Count(paths, l) ==
    Cardinality({x \in (DOMAIN paths) \X Depths :
                     x[2] < Len(paths[x[1]]) /\ <<paths[x[1]][x[2]], paths[x[1]][x[2] + 1]>> = l})

\* Uses of links from an AS, each link as often as its weight.
OutPrefixes(weights, a) ==
    Cardinality(UNION {{l} \X (1..weights[l]) : l \in {k \in Links : k[1] = a}})

\* nodes_forward: ASTopology.add and remove keep the ASes at or above w_threshold.
Forwarding(weights) == {a \in {l[1] : l \in Links} : OutPrefixes(weights, a) >= BurstStart}

Plus(weights, path) == [l \in Links |-> weights[l] + Count(<<path>>, l)]
Minus(weights, paths) == [l \in Links |-> weights[l] - Count(paths, l)]

-----------------------------------------------------------------------------
(* Inference *)

\* Links that withdrawn paths used, from ASes many of them went on from.
Candidates(weights) == {l \in Links : weights[l] > 0 /\ l[1] \in Forwarding(weights)}

Power(x) ==
    LET power[n \in Nat] == IF n = 0 THEN 1 ELSE x * power[n - 1]
    IN power

\* Of precision^PW * recall^RW; the root does not matter, nor do all withdrawals.
Better(weights, routes, k, l) ==
    Power(weights[k])[PW + RW] * Power(weights[l] + Count(routes, l))[PW]
        > Power(weights[l])[PW + RW] * Power(weights[k] + Count(routes, k))[PW]

\* Slip: routes that still use a link do not speak against it.
BestByRecall(weights, routes) ==
    LET candidates == Candidates(weights)
    IN {l \in candidates : \A k \in candidates : weights[k] <= weights[l]}

\* The links with the best score; the loop takes the first one it meets.
Best(weights, routes) ==
    LET candidates == Candidates(weights)
    IN {l \in candidates : \A k \in candidates : ~Better(weights, routes, k, l)}

\* FR messages: a link has codes at some of the depths where a path uses it.
Reroutes(l, paths) ==
    {e \in Encoded : e.link = l
                     /\ \E path \in paths : /\ e.depth < Len(path)
                                            /\ <<path[e.depth], path[e.depth + 1]>> = l}

-----------------------------------------------------------------------------
(* The window *)

\* How many withdrawals refresh pops: those before the first that still counts.
Popped(queue, s) ==
    Cardinality({i \in DOMAIN queue : \A j \in 1..i : s - queue[j].time > WinSize})

Expired(queue, s) == SubSeq(queue, 1, Popped(queue, s))
Within(queue, s) == SubSeq(queue, Popped(queue, s) + 1, Len(queue))
PathsOf(queue) == [i \in DOMAIN queue |-> queue[i].path]

\* Slip: what is in the window by the last message's time decides.
QuietBefore(queue, t) == Len(Within(queue, last_ts)) < BurstEnd

\* A burst is over at the first second with too few withdrawals in the window.
Quiet(queue, t) == \E s \in (last_ts + 1)..t : Len(Within(queue, s)) < BurstEnd

\* Slip: what expired during a burst is not removed after it.
ForgottenAtEndOnly(queue, t) ==
    IF burst.on /\ ~Quiet(queue, t) THEN <<>> ELSE PathsOf(Expired(queue, t))

\* Slip: a withdrawal that expires is forgotten, burst or not.
ForgottenInBurst(queue, t) == PathsOf(Expired(queue, t))

\* Withdrawals that count no more: none as long as a burst lasts.
Forgotten(queue, t) ==
    IF ~burst.on THEN PathsOf(Expired(queue, t))
    ELSE IF Quiet(queue, t) THEN burst.deleted \o PathsOf(Expired(queue, t))
    ELSE <<>>

\* The burst after a message at t; BurstStart withdrawals start one.
Continued(queue, t, withdrawn) ==
    IF burst.on /\ ~Quiet(queue, t)
    THEN [burst EXCEPT !.deleted = @ \o PathsOf(Expired(queue, t)),
                       !.real = @ \cup withdrawn]
    ELSE IF Len(Within(queue, t)) >= BurstStart
    THEN [on |-> TRUE, deleted |-> <<>>, real |-> {}, next |-> MinBurst]
    ELSE NoBurst

Size(b) == Cardinality(b.real) + BurstStart
Due(b) == b.on /\ Size(b) >= MinBurst /\ Size(b) > b.next

NeverAgain == 2147483647   \* stands for 999999999999

\* The next inference needs Cycle more withdrawals; there is none in a huge burst.
Rescheduled(b) ==
    [b EXCEPT !.next = IF Cycle > 0 /\ Size(b) < 12505 THEN @ + Cycle ELSE NeverAgain]

-----------------------------------------------------------------------------
(* Handling of one message *)

\* What run_peer does for either kind of message, once the graphs have it.
Handle(t, queue, weights, withdrawn) ==
    LET b == Continued(queue, t, withdrawn)
        counted == Minus(weights, Forgotten(queue, t))
        known == Seqs!ToSet(PathsOf(Within(queue, t)) \o (IF b.on THEN b.deleted ELSE <<>>))
                    \cup {rib'[p] : p \in Prefixes}
    IN /\ last_ts' = t
       /\ W_queue' = Within(queue, t)
       /\ G_W' = counted
       /\ burst' = IF Due(b) THEN Rescheduled(b) ELSE b
       /\ IF Due(b) /\ Best(counted, rib') # {}
          THEN \E l \in Best(counted, rib') :
                   best_edge_set' = {l} /\ FR' = Reroutes(l, known)
          ELSE best_edge_set' = {} /\ FR' = {}

Announce(p, path, t) ==
    /\ rib' = [rib EXCEPT ![p] = path]
    /\ Handle(t, W_queue, G_W, {})

\* A withdrawal of an unknown prefix still counts for the size of a burst.
Withdraw(p, t) ==
    /\ rib' = [rib EXCEPT ![p] = <<>>]
    /\ LET queue == IF rib[p] = <<>> THEN W_queue
                    ELSE Append(W_queue, [time |-> t, path |-> rib[p]])
       IN /\ Len(queue) + (IF burst.on THEN Len(burst.deleted) ELSE 0) <= MaxCounted
          /\ Handle(t, queue, Plus(G_W, rib[p]), {p})

Init ==
    /\ rib = [p \in Prefixes |-> <<>>]
    /\ last_ts = 0
    /\ W_queue = <<>>
    /\ G_W = [l \in Links |-> 0]
    /\ burst = NoBurst
    /\ best_edge_set = {} /\ FR = {}

Next ==
    \E p \in Prefixes, t \in last_ts..MaxTime :
        \/ \E path \in Paths : Announce(p, path, t)
        \/ Withdraw(p, t)

Spec == Init /\ [][Next]_vars

-----------------------------------------------------------------------------
(* Properties *)

Counted == PathsOf(W_queue) \o (IF burst.on THEN burst.deleted ELSE <<>>)

(***************************************************************************)
(* The counters that inference uses stand for exactly the withdrawals in   *)
(* the window and those that left it while the burst lasts, whatever order *)
(* withdrawals arrive, expire and bursts begin and end in                  *)
(* (participant_swift.py:288-362): nothing lingers from an earlier burst,  *)
(* and no counter gets below zero.                                         *)
(***************************************************************************)
WithdrawnAreCounted == \A l \in Links : G_W[l] = Count(Counted, l)

(***************************************************************************)
(* A burst lasts as long as the window is busy: never beyond a second with *)
(* fewer withdrawals than BurstEnd, and there is one whenever BurstStart   *)
(* of them are in the window (participant_swift.py:323-379), however far   *)
(* apart the messages that drive the clock are.                            *)
(***************************************************************************)
BurstIsBusy ==
    /\ burst.on => Len(W_queue) >= BurstEnd
    /\ ~burst.on => Len(W_queue) < BurstStart
    /\ \A i \in DOMAIN W_queue : last_ts - W_queue[i].time <= WinSize

\* A link that explains all counted withdrawals, and that no route uses any more.
Explains(l) ==
    /\ \A i \in DOMAIN Counted : l \in Hops(Counted[i])
    /\ \A p \in Prefixes : l \notin Hops(rib[p])

Prepended(path) == \E i, j \in DOMAIN path : i < j /\ path[i] = path[j]

\* The last step made an inference: it put off the next one.
Inferred == burst'.on /\ burst'.next # IF burst.on THEN burst.next ELSE MinBurst

(***************************************************************************)
(* If some link explains the whole burst, inference finds one that does,   *)
(* whatever withdrawals have left the window and whatever was announced    *)
(* again: no controller is told to reroute around a link that is in use    *)
(* while the failed one is known (participant_swift.py:389-434,            *)
(* bpa.py:50-84).  Paths must not be prepended: a link of an AS to itself  *)
(* counts several times per path, which is more than all withdrawals.      *)
(***************************************************************************)
OneFailureIsFound ==
    [][LET found == best_edge_set' IN
       Inferred /\ (\E l \in Links : Explains(l)') /\ ~(\E i \in DOMAIN Counted : Prepended(Counted[i]))'
       => found # {} /\ \A l \in found : Explains(l)']_vars
=============================================================================
