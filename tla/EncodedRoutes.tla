--------------------------- MODULE EncodedRoutes ---------------------------
(* What routes are told of an encoding: the codes an announcement carries   *)
(* on to the participants, which become bits of a VMAC, and the fast        *)
(* reroutes that name a link by its codes (xrs/participant_swift.py).       *)
EXTENDS Encoding

CONSTANT NoVmac

VARIABLE vmac   \* as_path_vmac of the last announcement of a prefix

routeVars == <<vars, vmac>>

RInit == Init /\ vmac = [p \in Prefixes |-> NoVmac]

\* add_as_path_encoding_to_route: the codes of the ASes of the path, depth by depth.
VmacOf(path) == [d \in Depths |-> IF d \in depths /\ d <= Len(path)
                                  THEN mapping[d].code[path[d]] ELSE 0]

\* The routes of ps are put on the way to the route server, encoded.
SendRoutes(ps) == vmac' = [p \in Prefixes |-> IF p \in ps THEN VmacOf(rib[p])' ELSE vmac[p]]

\* A route that finds an encoding and does not change it is sent at once; one that
\* finds no encoding goes without codes.
AnnounceRoute(p, path) ==
    /\ Announce(p, path)
    /\ SendRoutes(IF computed /\ pc' = "idle" THEN {p} ELSE {})

WithdrawRoute(p) == Withdraw(p) /\ vmac' = [vmac EXCEPT ![p] = NoVmac]

\* The encoding exists: the announcement, then the routes that were kept.
FinishComputeRoutes ==
    /\ FinishCompute
    /\ SendRoutes(IF msg.kind = "announce" THEN kept \cup {msg.prefix} ELSE {})

\* Kept routes that come before a withdrawn one are sent before the thread ends.
FinishRoutes ==
    /\ Finish
    /\ IF msg.kind = "announce" THEN SendRoutes({msg.prefix})
       ELSE IF msg.prefix \notin kept THEN SendRoutes(kept)
       ELSE \E before \in SUBSET (kept \ {msg.prefix}) : SendRoutes(before)

RNext == \/ \E p \in Prefixes, path \in Paths : AnnounceRoute(p, path)
         \/ \E p \in Prefixes : WithdrawRoute(p)
         \/ FinishComputeRoutes
         \/ FinishRoutes
         \/ /\ \/ \E l \in Links : \/ ConsiderLink(l) \/ ReleaseLink(l) \/ RefreshLink(l)
                                  \/ StartRefresh(l) \/ AddLink(l)
               \/ \E d \in Depths : SpareBit(d)
               \/ Refreshed
            /\ UNCHANGED vmac

RSpec == RInit /\ [][RNext]_routeVars

\* Encoding.is_encoded.
IsEncoded(l) == IF l.depth = 1 THEN 2 \in depths /\ mapping[2].code[l.to] # 0
                ELSE l \in encoded

\* The fast reroute run_peer asks for around an encoded link: every route that has
\* the codes of the link at its two depths.  The first AS of a path has no code.
Reroutes(l, p) ==
    /\ IsEncoded(l) /\ vmac[p] # NoVmac
    /\ l.depth > 1 => vmac[p][l.depth] = mapping[l.depth].code[l.from]
    /\ vmac[p][l.depth + 1] = mapping[l.depth + 1].code[l.to]

\* Only packets that traverse the failed link are rerouted (Encoding.refresh).
OthersAreNotRerouted ==
    pc = "idle" => \A p \in Prefixes : \A l \in Links : Reroutes(l, p) => l \in LinksOf(rib[p])
=============================================================================
