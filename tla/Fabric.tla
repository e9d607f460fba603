------------------------------- MODULE Fabric -------------------------------
(***************************************************************************)
(* The fabric in multi-switch mode: a packet goes from table to table      *)
(* while rules come and go.  The static rules are the ones xctrl installs  *)
(* at the start (xctrl/gss.py); participant controllers add outbound rules *)
(* for their policies (pctrl/ss_rule_scheme.py, module Supersets has how   *)
(* they come about), inbound rules, and for some time the rules of a fast  *)
(* reroute (process_FR).  ARP and BGP traffic has rules of its own above   *)
(* all these and is left out.                                              *)
(*                                                                         *)
(* An address is the set of the positions of its one bits, 1 to Size:      *)
(*                                                                         *)
(*     | 1 inbound | superset, mask | next hop | tags of backups | path |  *)
(*                 iSDX part, Isdx bits        |    MaxDepth     |         *)
(*                                                                         *)
(* and the address of a port, of a second kind, has the participant in the *)
(* last bits and the port's number before it.  MAC addresses of routers    *)
(* are pairs of participant and port.                                      *)
(***************************************************************************)
EXTENDS Integers, FiniteSets

CONSTANTS
    Parts,         \* participants, numbers from 1 on
    Ports,         \* number of ports of each; they are numbered from 0 on
    HasOutbound,   \* participants with outbound rules
    HasInbound,    \* participants with inbound rules
    WebPort,       \* their inbound policy: the port for web traffic
    Size, Isdx, NextHopBits, PortBits,
    MaxDepth, TagBits,
    Bits,          \* binary notation: Bits[n] is the places of n's ones, 0 the last
    Tags,          \* Tags[p][q]: tag of backup q in the tag_dict of p's controller
    Classes,       \* classes of prefixes: [bits, next_hop, backups, path]
    Policies,      \* outbound rules controllers may have: [part, to, mask, value]
    Failures,      \* what SWIFT may tell a controller: [part, peer, link], with the
                   \* link's depth and codes, [depth, mask, value]
    MaxReroutes    \* bound: rerouting rules at a time

\* Different numbers are written differently.
ASSUME NotationAssumption ==
    /\ DOMAIN Bits \subseteq Nat
    /\ \A n \in DOMAIN Bits : Bits[n] \subseteq Nat
    /\ \A m, n \in DOMAIN Bits : Bits[m] = Bits[n] => m = n
    /\ 0 \in DOMAIN Bits /\ Bits[0] = {}

\* The fields have room in an address: a bit and a next hop in the iSDX part, the tags
\* behind it, participant and port of a port's address behind the iSDX part.
ASSUME LayoutAssumption ==
    /\ {Size, Isdx, NextHopBits, PortBits, MaxDepth, TagBits} \subseteq Nat
    /\ NextHopBits < Isdx
    /\ Isdx + MaxDepth * TagBits <= Size
    /\ NextHopBits + PortBits <= Size - Isdx

\* The superset bits and the path in a VMAC.
SupersetBits == 2..(Isdx - NextHopBits)
PathBits == (Isdx + MaxDepth * TagBits + 1)..Size

\* Number n has room in `width` bits.
Fits(n, width) == n \in DOMAIN Bits /\ Bits[n] \subseteq 0..(width - 1)

ASSUME FabricAssumption ==
    /\ Parts \subseteq Nat \ {0} /\ HasOutbound \subseteq Parts /\ HasInbound \subseteq Parts
    /\ Ports \in [Parts -> Nat \ {0}]
    /\ \A p \in Parts : Fits(p, NextHopBits) /\ \A i \in 0..(Ports[p] - 1) : Fits(i, PortBits)
    /\ \A p \in HasInbound : WebPort[p] \in 0..(Ports[p] - 1)

ASSUME ControllersAssumption ==
    /\ \A p \in Parts : \A q \in Parts \ {p} :
          /\ Fits(Tags[p][q], TagBits) /\ Tags[p][q] # 0
          /\ \A r \in Parts \ {p, q} : Tags[p][q] # Tags[p][r]
    /\ \A c \in Classes :
          /\ Fits(c.next_hop, NextHopBits)
          /\ c.bits \subseteq SupersetBits /\ c.path \subseteq PathBits
          /\ DOMAIN c.backups \subseteq 1..MaxDepth /\ \A d \in DOMAIN c.backups : c.backups[d] \in Parts
    /\ \A x \in Policies :
          /\ x.part \in HasOutbound /\ x.to \in Parts
          /\ x.mask \subseteq SupersetBits /\ x.value # {} /\ x.value \subseteq x.mask
    /\ \A f \in Failures :
          /\ {f.part, f.peer} \subseteq Parts /\ f.link.depth \in 1..MaxDepth
          /\ f.link.mask \subseteq PathBits /\ f.link.value \subseteq f.link.mask

VARIABLES
    outbound,   \* the outbound rules at the switch
    reroutes,   \* rerouting rules: [part, port, peer, backup, link]
    packet      \* the packet in the fabric, or NoPacket

vars == <<outbound, reroutes, packet>>

Tables == {"main", "outbound", "inbound"}
Kinds == {"web", "other"}
NoPacket == [table |-> "none"]

-----------------------------------------------------------------------------
(* Addresses (pctrl/ss_lib.py) *)

\* Number n, with leading zeros, in the bits up to position `last`.
Field(last, n) == {last - b : b \in Bits[n]}

Ones(last, width) == (last - width + 1)..last

\* vmac_only_first_bit
InboundBit == {1}

\* vmac_next_hop_match_iSDXmac, vmac_next_hop_mask_iSDXmac
NextHop(q) == Field(Isdx, q)
NextHopMask == Ones(Isdx, NextHopBits)

\* vmac_part_port_match
PortAddress(q, i) == Field(Size - NextHopBits, i) \cup Field(Size, q)

\* Slip: the inbound bit is not looked at, as in the modes with one switch.
PortMaskLowOnly == Ones(Size, NextHopBits + PortBits)

\* vmac_part_port_mask with inbound bit
PortMask == Ones(Size, NextHopBits + PortBits) \cup InboundBit

Tag(d, t) == Field(Isdx + d * TagBits, t)
TagMask(d) == Ones(Isdx + d * TagBits, TagBits)

\* get_vmac at p's controller
Vmac(p, c) ==
    InboundBit \cup c.bits \cup NextHop(c.next_hop) \cup c.path
    \cup UNION {Tag(d, Tags[p][c.backups[d]]) : d \in DOMAIN c.backups}

-----------------------------------------------------------------------------
(* Rules *)

PortsOf(p) == {p} \X (0..(Ports[p] - 1))
AllPorts == UNION {PortsOf(p) : p \in Parts}

\* Ports between the switches.
FromSwitch == [main |-> <<0, 0>>, outbound |-> <<0, 1>>, inbound |-> <<0, 2>>]

\* A match: sets of input ports, sources and kinds of traffic, and a masked destination.
Packets(mask, value) ==
    [in_port |-> AllPorts \cup {FromSwitch[t] : t \in Tables}, src |-> AllPorts,
     kind |-> Kinds, mask |-> mask, value |-> value]
From(port) == [Packets({}, {}) EXCEPT !.in_port = {port}]

\* An action; what it does not set is {}.
Forward(table) == [fwd |-> table, dst |-> {}, src |-> {}, out |-> {}]
Rewrite(dst, table) == [Forward(table) EXCEPT !.dst = {dst}]
Output(p, i) == [Forward("out") EXCEPT !.out = {<<p, i>>}]
Drop == Forward("drop")

Rule(table, priority, match, action) ==
    [table |-> table, priority |-> priority, match |-> match, action |-> action]

\* handle_participant_with_outbound: the source becomes the first port's.
OutboundTraffic ==
    {Rule("main", 5, From(port), [Forward("outbound") EXCEPT !.src = {<<port[1], 0>>}]) :
        port \in {q \in AllPorts : q[1] \in HasOutbound}}

\* handle_participant_with_inbound, default_forwarding
OutputRules ==
    {Rule("main", 4, Packets(PortMask, PortAddress(port[1], port[2])), Output(port[1], port[2])) :
        port \in {q \in AllPorts : q[1] \in HasInbound}}
    \cup {Rule("main", 4, Packets(NextHopMask, NextHop(p)), Output(p, 0)) : p \in Parts \ HasInbound}

\* Slips: no such rule; the rule comes before those for output.
BreakLoopMissing == {}
BreakLoopFirst == {Rule("main", 5, From(FromSwitch.inbound), Drop)}

\* break_loop
BreakLoop == {Rule("main", 3, From(FromSwitch.inbound), Drop)}

\* handle_inbound
InboundTraffic == {Rule("main", 2, Packets(InboundBit, InboundBit), Forward("outbound"))}

\* match_any_fwd
Defaults == {Rule("outbound", 1, Packets({}, {}), Forward("inbound")),
             Rule("inbound", 1, Packets({}, {}), Forward("main"))}

\* default_forwarding_inbound
InboundRules ==
    {Rule("inbound", 2, Packets(NextHopMask, NextHop(p)), Rewrite(PortAddress(p, 0), "main")) :
        p \in HasInbound}

\* build_inbound_rules_for, for a policy on web traffic
InboundPolicies ==
    {Rule("inbound", 3, [Packets(NextHopMask, NextHop(p)) EXCEPT !.kind = {"web"}],
          Rewrite(PortAddress(p, WebPort[p]), "main")) : p \in HasInbound}

\* update_outbound_rules, for policies on web traffic
OutboundPolicies ==
    {Rule("outbound", 2, [Packets(x.mask, x.value) EXCEPT !.src = {<<x.part, 0>>}, !.kind = {"web"}],
          Rewrite(InboundBit \cup NextHop(x.to), "inbound")) : x \in outbound}

RerouteMatch(r) ==
    Packets(NextHopMask \cup TagMask(r.link.depth) \cup r.link.mask,
       NextHop(r.peer) \cup Tag(r.link.depth, Tags[r.part][r.backup]) \cup r.link.value)

RerouteAction(r) == Rewrite(InboundBit \cup NextHop(r.backup), "outbound")

\* Slip: a priority that the configuration of the switch does not know.
RerouteRuleDefaultPriority(r) ==
    Rule("main", 1, [RerouteMatch(r) EXCEPT !.src = {<<r.part, r.port>>}], RerouteAction(r))

\* The rule of process_FR for one backup and port.
RerouteRule(r) ==
    Rule("main", 6, [RerouteMatch(r) EXCEPT !.src = {<<r.part, r.port>>}], RerouteAction(r))

StaticRules ==
    OutboundTraffic \cup OutputRules \cup BreakLoop \cup InboundTraffic \cup Defaults
    \cup InboundRules \cup InboundPolicies

\* The rules of participants' controllers, by table.
DynamicRules(table) ==
    CASE table = "main" -> {RerouteRule(r) : r \in reroutes}
      [] table = "outbound" -> OutboundPolicies
      [] OTHER -> {}

-----------------------------------------------------------------------------
(* What should become of a packet, in terms of participants and links. *)

Concerns(r, p) ==
    /\ r.part = p.part /\ r.peer = p.class.next_hop
    /\ r.link.depth \in DOMAIN p.class.backups /\ p.class.backups[r.link.depth] = r.backup
    /\ p.class.path \cap r.link.mask = r.link.value

\* Who may get packet p while these rules are at the switch.
Receivers(p, out, re) ==
    {p.class.next_hop}
    \cup {x.to : x \in {y \in out : /\ y.part = p.part /\ p.kind = "web"
                                    /\ p.class.bits \cap y.mask = y.value}}
    \cup {r.backup : r \in {s \in re : Concerns(s, p)}}

InFlight == packet.table \in Tables

\* The packet when rules change under way.
Meanwhile(out, re) ==
    IF InFlight THEN [packet EXCEPT !.allowed = @ \cup Receivers(packet, out, re)] ELSE packet

-----------------------------------------------------------------------------
(* Steps *)

Init ==
    /\ outbound = {}
    /\ reroutes = {}
    /\ packet = NoPacket

\* A router sends to a prefix of class c: the VMAC is the one it has by ARP.
Send(port, kind, c) ==
    LET p == [part |-> port[1], kind |-> kind, class |-> c]
    IN /\ ~InFlight
       /\ port[1] # c.next_hop /\ \A d \in DOMAIN c.backups : c.backups[d] # port[1]
       /\ packet' = [table |-> "main", in_port |-> port, src |-> port, dst |-> Vmac(port[1], c),
                     part |-> port[1], kind |-> kind, class |-> c, visits |-> 1, out |-> {},
                     allowed |-> Receivers(p, outbound, reroutes), due |-> {}]
       /\ UNCHANGED <<outbound, reroutes>>

Matches(rule, p) ==
    /\ rule.table = p.table
    /\ p.in_port \in rule.match.in_port /\ p.src \in rule.match.src
    /\ p.kind \in rule.match.kind
    /\ p.dst \cap rule.match.mask = rule.match.value

Set(old, new) == IF new = {} THEN old ELSE CHOOSE x \in new : TRUE

\* The switch applies a matching rule of highest priority.  A packet no rule is for is
\* dropped.
Lookup ==
    /\ InFlight
    /\ LET found == {rule \in StaticRules : Matches(rule, packet)}
                    \cup {rule \in DynamicRules(packet.table) : Matches(rule, packet)}
           best == {rule \in found : \A other \in found : other.priority <= rule.priority}
           due == {r \in reroutes : Concerns(r, packet) /\ packet.in_port = <<r.part, r.port>>}
           Apply(a) == [packet EXCEPT
                            !.table = a.fwd,
                            !.in_port = FromSwitch[packet.table],
                            !.src = Set(@, a.src),
                            !.dst = Set(@, a.dst),
                            !.out = a.out,
                            !.due = IF packet.table = "main" /\ packet.visits = 1 THEN due ELSE @,
                            !.visits = IF a.fwd = "main" THEN @ + 1 ELSE @]
       IN \/ found = {} /\ packet' = Apply(Drop)
          \/ \E rule \in best : packet' = Apply(rule.action)
    /\ UNCHANGED <<outbound, reroutes>>

InstallPolicy(x) ==
    /\ x \notin outbound
    /\ outbound' = outbound \cup {x}
    /\ packet' = Meanwhile(outbound', reroutes)
    /\ UNCHANGED reroutes

RemovePolicy(x) ==
    /\ x \in outbound
    /\ outbound' = outbound \ {x}
    /\ UNCHANGED <<reroutes, packet>>

\* process_FR: a rule for every tagged backup and own port.
FastReroute(f) ==
    /\ reroutes' = reroutes \cup
           {[part |-> f.part, port |-> port[2], peer |-> f.peer, backup |-> b, link |-> f.link] :
               port \in PortsOf(f.part), b \in Parts \ {f.part, f.peer}}
    /\ reroutes' # reroutes
    /\ Cardinality(reroutes') <= MaxReroutes
    /\ packet' = Meanwhile(outbound, reroutes')
    /\ UNCHANGED outbound

\* hard_timeout of a rerouting rule
Expire(r) ==
    /\ r \in reroutes
    /\ reroutes' = reroutes \ {r}
    /\ UNCHANGED <<outbound, packet>>

Next ==
    \/ \E port \in AllPorts, kind \in Kinds, c \in Classes :
           Send(port, kind, c)
    \/ Lookup
    \/ \E x \in Policies : InstallPolicy(x) \/ RemovePolicy(x)
    \/ \E f \in Failures : FastReroute(f)
    \/ \E r \in reroutes : Expire(r)

Spec == Init /\ [][Next]_vars

-----------------------------------------------------------------------------

(***************************************************************************)
(* A packet only leaves at its next hop, at a participant one of the       *)
(* sender's policies diverts it to, or at its backup for a link whose      *)
(* failure was told to the sender's controller, whatever rules come and go *)
(* while it is under way: no bit of one field of a VMAC is taken for one   *)
(* of another field, or of the address of a port.  It leaves at the port   *)
(* of the receiver's inbound policy, if that is for it.                    *)
(***************************************************************************)
DeliveredAsIntended ==
    packet.table = "out" =>
        \E port \in packet.out :
            /\ port[1] \in packet.allowed
            /\ port[2] = IF port[1] \in HasInbound /\ packet.kind = "web" THEN WebPort[port[1]] ELSE 0

(***************************************************************************)
(* A packet that meets rerouting rules for it gets to one of their backups *)
(* and not to the next hop behind the failure, also if policies of sender  *)
(* or receiver are for it (priority fast_reroute above outbound).          *)
(***************************************************************************)
RerouteHolds ==
    packet.table = "out" /\ packet.due # {} =>
        \E port \in packet.out, r \in packet.due : port[1] = r.backup

(***************************************************************************)
(* A packet to a participant of the exchange is not dropped.  The rule     *)
(* that drops what comes from the inbound switch is for "packets with      *)
(* false VMACs" only (xctrl/gss.py:234).                                   *)
(***************************************************************************)
OnlyFalseIsDropped == packet.table = "drop" => packet.class.next_hop \notin Parts

(***************************************************************************)
(* No packet runs in circles: it sees the main switch at most twice, a     *)
(* packet that is rerouted on its way back once more.                      *)
(***************************************************************************)
NeverLoops ==
    packet # NoPacket => packet.visits <= 3
=============================================================================
