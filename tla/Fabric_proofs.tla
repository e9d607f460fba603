---------------------------- MODULE Fabric_proofs ----------------------------
(***************************************************************************)
(* Proofs about Fabric: where packets go while rules are installed,        *)
(* removed and expire, for any participants, ports, classes, policies and  *)
(* failures, and any sizes of the fields that have room for them.          *)
(***************************************************************************)
EXTENDS Fabric, TLAPS

-----------------------------------------------------------------------------
(* Addresses *)

\* A field takes the bits it has room in, and numbers that fit can be told apart by it.
LEMMA FieldRange ==
    ASSUME NEW last \in Int, NEW width \in Nat, NEW n, Fits(n, width)
    PROVE  Field(last, n) \subseteq Ones(last, width)
BY DEF Field, Fits, Ones

LEMMA FieldTells ==
    ASSUME NEW last \in Int, NEW w, NEW m, NEW n, Fits(m, w), Fits(n, w),
           Field(last, m) = Field(last, n)
    PROVE  m = n
<1>1. /\ Bits[m] \subseteq Nat /\ Bits[n] \subseteq Nat
      /\ m \in DOMAIN Bits /\ n \in DOMAIN Bits
  BY NotationAssumption DEF Fits
<1>2. ASSUME NEW i \in DOMAIN Bits, NEW j \in DOMAIN Bits, Field(last, i) = Field(last, j),
             NEW b \in Bits[i]
      PROVE  b \in Bits[j]
  <2>1. last - b \in Field(last, j)
    BY <1>2 DEF Field
  <2>2. PICK c \in Bits[j] : last - b = last - c
    BY <2>1 DEF Field
  <2>3. b \in Nat /\ c \in Nat
    BY NotationAssumption
  <2> QED BY <2>2, <2>3
<1>3. Bits[m] = Bits[n]
  BY <1>1, <1>2
<1> QED BY <1>1, <1>3, NotationAssumption

LEMMA FieldZero ==
    ASSUME NEW last \in Int, NEW w, NEW n, Fits(n, w), Field(last, n) = {}
    PROVE  n = 0
<1>1. Bits[n] = {}
  BY DEF Field
<1> QED BY <1>1, NotationAssumption DEF Fits

\* The blocks of the tags lie one after the other.
LEMMA Blocks ==
    ASSUME NEW d \in 1..MaxDepth, NEW e \in 1..MaxDepth
    PROVE  /\ d * TagBits \in Nat
           /\ TagBits <= d * TagBits /\ d * TagBits <= MaxDepth * TagBits
           /\ d < e => d * TagBits <= e * TagBits - TagBits
<1>1. MaxDepth \in Nat /\ TagBits \in Nat /\ d \in Nat /\ e \in Nat /\ 1 <= d /\ d <= MaxDepth
  BY LayoutAssumption
<1>2. \A a, b, t \in Nat : a <= b => a * t <= b * t
  <2> SUFFICES ASSUME NEW a \in Nat, NEW b \in Nat, NEW t \in Nat, a <= b
               PROVE  a * t <= b * t
    OBVIOUS
  <2>1. PICK k \in Nat : b = a + k
    <3>1. b - a \in Nat /\ b = a + (b - a)
      OBVIOUS
    <3> QED BY <3>1
  <2>2. b * t = a * t + k * t /\ k * t \in Nat /\ a * t \in Nat
    BY <2>1
  <2> QED BY <2>2
<1>3. 1 * TagBits = TagBits /\ d * TagBits \in Nat
  BY <1>1
<1>4. TagBits <= d * TagBits /\ d * TagBits <= MaxDepth * TagBits
  BY <1>1, <1>2, <1>3
<1>5. ASSUME d < e PROVE d * TagBits <= e * TagBits - TagBits
  <2>1. d + 1 <= e /\ d + 1 \in Nat
    BY <1>1, <1>5
  <2>2. (d + 1) * TagBits <= e * TagBits
    BY <1>1, <1>2, <2>1
  <2>3. (d + 1) * TagBits = d * TagBits + TagBits
    BY <1>1
  <2> QED BY <1>1, <1>3, <2>2, <2>3
<1> QED BY <1>3, <1>4, <1>5

\* Where the fields are.
LEMMA Regions ==
    /\ Isdx \in Nat /\ Isdx >= 1 /\ 1 \notin NextHopMask /\ NextHopMask \subseteq 1..Isdx
    /\ SupersetBits \subseteq 2..Isdx /\ SupersetBits \cap NextHopMask = {}
    /\ \A d \in 1..MaxDepth :
         /\ TagMask(d) \cap (1..Isdx) = {} /\ TagMask(d) \cap PathBits = {}
         /\ \A e \in 1..MaxDepth \ {d} : TagMask(d) \cap TagMask(e) = {}
    /\ PathBits \cap (1..Isdx) = {}
    /\ Ones(Size, NextHopBits + PortBits) \cap (1..Isdx) = {}
<1> USE LayoutAssumption
<1>1. MaxDepth * TagBits \in Nat
  OBVIOUS
<1>2. ASSUME NEW d \in 1..MaxDepth
      PROVE  /\ TagMask(d) \cap (1..Isdx) = {} /\ TagMask(d) \cap PathBits = {}
             /\ \A e \in 1..MaxDepth \ {d} : TagMask(d) \cap TagMask(e) = {}
  <2> DEFINE t(e) == e * TagBits
             M == MaxDepth * TagBits
  <2>0. Isdx \in Nat /\ TagBits \in Nat /\ M \in Nat /\ PathBits = (Isdx + M + 1)..Size /\ Size \in Nat
    BY <1>1 DEF PathBits
  <2>1. \A e \in 1..MaxDepth :
          /\ t(e) \in Nat /\ TagBits <= t(e) /\ t(e) <= M
          /\ TagMask(e) = (Isdx + t(e) - TagBits + 1)..(Isdx + t(e))
          /\ e < d => t(e) <= t(d) - TagBits
          /\ d < e => t(d) <= t(e) - TagBits
    BY Blocks DEF TagMask, Ones
  <2> HIDE DEF t, M
  <2>2. \A e \in 1..MaxDepth : \A b \in TagMask(e) :
          b \in Int /\ Isdx + t(e) - TagBits + 1 <= b /\ b <= Isdx + t(e)
    <3> SUFFICES ASSUME NEW e \in 1..MaxDepth, NEW b \in TagMask(e)
                 PROVE  b \in Int /\ Isdx + t(e) - TagBits + 1 <= b /\ b <= Isdx + t(e)
      OBVIOUS
    <3>1. b \in (Isdx + t(e) - TagBits + 1)..(Isdx + t(e)) /\ t(e) \in Nat
      BY <2>1
    <3> QED BY ONLY <2>0, <3>1, SMT
  <2>3. TagMask(d) \cap (1..Isdx) = {} /\ TagMask(d) \cap PathBits = {}
    <3>1. t(d) \in Nat /\ TagBits <= t(d) /\ t(d) <= M
      BY <2>1
    <3>2. \A b \in TagMask(d) : b \in Int /\ b > Isdx /\ b < Isdx + M + 1
      BY ONLY <2>0, <2>2, <3>1, d \in 1..MaxDepth, SMT
    <3> QED BY ONLY <2>0, <3>2, SMT
  <2>4. ASSUME NEW e \in 1..MaxDepth \ {d} PROVE TagMask(d) \cap TagMask(e) = {}
    <3>0. t(d) \in Nat /\ t(e) \in Nat /\ d \in Nat /\ e \in Nat /\ d # e
      BY <2>1
    <3>1. CASE e < d
      <4>1. t(e) <= t(d) - TagBits
        BY <2>1, <3>1
      <4>2. \A b \in TagMask(d) : b > Isdx + t(e) /\ b \in Int
        BY ONLY <2>0, <2>2, <3>0, <4>1, d \in 1..MaxDepth, SMT
      <4>3. \A b \in TagMask(e) : b <= Isdx + t(e)
        BY <2>2
      <4> QED BY ONLY <2>0, <3>0, <4>2, <4>3, SMT
    <3>2. CASE d < e
      <4>1. t(d) <= t(e) - TagBits
        BY <2>1, <3>2
      <4>2. \A b \in TagMask(e) : b > Isdx + t(d) /\ b \in Int
        BY ONLY <2>0, <2>2, <3>0, <4>1, e \in 1..MaxDepth, SMT
      <4>3. \A b \in TagMask(d) : b <= Isdx + t(d)
        BY <2>2
      <4> QED BY ONLY <2>0, <3>0, <4>2, <4>3, SMT
    <3>3. e < d \/ d < e
      BY ONLY <3>0, SMT
    <3> QED BY <3>1, <3>2, <3>3
  <2> QED BY <2>3, <2>4
<1>3. PathBits \cap (1..Isdx) = {}
  BY <1>1 DEF PathBits
<1>4. /\ Isdx \in Nat /\ Isdx >= 1 /\ 1 \notin NextHopMask /\ NextHopMask \subseteq 1..Isdx
      /\ SupersetBits \subseteq 2..Isdx /\ SupersetBits \cap NextHopMask = {}
      /\ Ones(Size, NextHopBits + PortBits) \cap (1..Isdx) = {}
  BY DEF NextHopMask, SupersetBits, Ones
<1> QED BY <1>2, <1>3, <1>4

\* The next hop of a participant is in its field, and not that of anybody else.
LEMMA NextHopFacts ==
    ASSUME NEW q, Fits(q, NextHopBits)
    PROVE  /\ NextHop(q) \subseteq NextHopMask
           /\ \A r \in Parts : NextHop(q) = NextHop(r) => q = r
           /\ q # 0 => NextHop(q) # {}
<1>1. Isdx \in Int /\ NextHopBits \in Nat
  BY LayoutAssumption
<1>2. NextHop(q) \subseteq NextHopMask
  BY <1>1, FieldRange DEF NextHop, NextHopMask
<1>3. ASSUME NEW r \in Parts, NextHop(q) = NextHop(r) PROVE q = r
  <2>1. Fits(r, NextHopBits)
    BY FabricAssumption
  <2> QED BY <1>1, <1>3, <2>1, FieldTells DEF NextHop
<1>4. NextHop(q) = {} => q = 0
  BY <1>1, FieldZero DEF NextHop
<1> QED BY <1>2, <1>3, <1>4

\* What a match on a field sees of a VMAC: that field and nothing else.
LEMMA VmacParts ==
    ASSUME NEW p \in Parts, NEW c \in Classes,
           \A d \in DOMAIN c.backups : c.backups[d] # p
    PROVE  /\ InboundBit \subseteq Vmac(p, c)
           /\ Vmac(p, c) \cap NextHopMask = NextHop(c.next_hop)
           /\ \A m \in SUBSET SupersetBits : Vmac(p, c) \cap m = c.bits \cap m
           /\ \A m \in SUBSET PathBits : Vmac(p, c) \cap m = c.path \cap m
           /\ \A d \in 1..MaxDepth : Vmac(p, c) \cap TagMask(d) =
                IF d \in DOMAIN c.backups THEN Tag(d, Tags[p][c.backups[d]]) ELSE {}
<1> DEFINE tags == UNION {Tag(d, Tags[p][c.backups[d]]) : d \in DOMAIN c.backups}
<1>1. /\ c.bits \subseteq SupersetBits /\ c.path \subseteq PathBits
      /\ DOMAIN c.backups \subseteq 1..MaxDepth
      /\ NextHop(c.next_hop) \subseteq NextHopMask
  BY ControllersAssumption, NextHopFacts
<1>2. ASSUME NEW d \in DOMAIN c.backups
      PROVE  Tag(d, Tags[p][c.backups[d]]) \subseteq TagMask(d)
  <2>1. Fits(Tags[p][c.backups[d]], TagBits)
    BY ControllersAssumption
  <2>2. Isdx + d * TagBits \in Int /\ TagBits \in Nat
    BY <1>1, LayoutAssumption
  <2> QED BY <2>1, <2>2, FieldRange DEF Tag, TagMask
<1>3. /\ \A b \in tags : \E d \in DOMAIN c.backups : b \in Tag(d, Tags[p][c.backups[d]]) /\ b \in TagMask(d)
      /\ \A d \in DOMAIN c.backups : Tag(d, Tags[p][c.backups[d]]) \subseteq tags
  BY <1>2
<1>4. Vmac(p, c) = InboundBit \cup c.bits \cup NextHop(c.next_hop) \cup c.path \cup tags
  BY DEF Vmac
<1> HIDE DEF tags
<1>5. tags \cap (1..Isdx) = {} /\ tags \cap PathBits = {}
  BY <1>1, <1>3, Regions
<1>6. ASSUME NEW d \in 1..MaxDepth
      PROVE  tags \cap TagMask(d) = IF d \in DOMAIN c.backups THEN Tag(d, Tags[p][c.backups[d]]) ELSE {}
  <2>1. \A b \in tags \cap TagMask(d) : d \in DOMAIN c.backups /\ b \in Tag(d, Tags[p][c.backups[d]])
    BY <1>1, <1>3, Regions
  <2>2. CASE d \in DOMAIN c.backups
    BY <1>2, <1>3, <2>1, <2>2
  <2>3. CASE d \notin DOMAIN c.backups
    BY <2>1, <2>3
  <2> QED BY <2>2, <2>3
<1>7. /\ InboundBit \subseteq 1..Isdx /\ InboundBit \cap NextHopMask = {}
      /\ InboundBit \cap SupersetBits = {}
  BY Regions DEF InboundBit
<1>8. /\ c.bits \subseteq 1..Isdx /\ NextHop(c.next_hop) \subseteq 1..Isdx
      /\ c.path \cap (1..Isdx) = {} /\ c.bits \cap NextHopMask = {}
      /\ NextHop(c.next_hop) \cap SupersetBits = {}
  <2>1. 2..Isdx \subseteq 1..Isdx
    OBVIOUS
  <2> QED BY <1>1, <2>1, Regions
<1>9. Vmac(p, c) \cap NextHopMask = NextHop(c.next_hop)
  <2>1. NextHopMask \subseteq 1..Isdx
    BY Regions
  <2> QED BY <1>1, <1>4, <1>5, <1>7, <1>8, <2>1
<1>10. ASSUME NEW m \in SUBSET SupersetBits PROVE Vmac(p, c) \cap m = c.bits \cap m
  <2>1. m \subseteq 1..Isdx
    <3>1. 2..Isdx \subseteq 1..Isdx
      OBVIOUS
    <3> QED BY <3>1, Regions
  <2> QED BY <1>4, <1>5, <1>7, <1>8, <2>1
<1>11. ASSUME NEW m \in SUBSET PathBits PROVE Vmac(p, c) \cap m = c.path \cap m
  <2>1. m \cap (1..Isdx) = {}
    BY Regions
  <2> QED BY <1>4, <1>5, <1>7, <1>8, <2>1
<1>12. ASSUME NEW d \in 1..MaxDepth PROVE Vmac(p, c) \cap TagMask(d) = tags \cap TagMask(d)
  <2>1. TagMask(d) \cap (1..Isdx) = {} /\ TagMask(d) \cap PathBits = {}
    BY Regions
  <2> QED BY <1>1, <1>4, <1>7, <1>8, <2>1
<1> QED BY <1>4, <1>6, <1>9, <1>10, <1>11, <1>12

\* What a match sees of the address of a port.
LEMMA PortAddressParts ==
    ASSUME NEW q \in Parts, NEW i \in 0..(Ports[q] - 1)
    PROVE  /\ 1 \notin PortAddress(q, i)
           /\ PortAddress(q, i) \cap NextHopMask = {}
           /\ PortAddress(q, i) \cap PortMask = PortAddress(q, i)
           /\ \A r \in Parts : \A j \in 0..(Ports[r] - 1) :
                PortAddress(q, i) = PortAddress(r, j) => q = r /\ i = j
<1> DEFINE low == Ones(Size, NextHopBits)
           high == Ones(Size - NextHopBits, PortBits)
<1>1. /\ Size \in Nat /\ Isdx \in Nat /\ NextHopBits \in Nat /\ PortBits \in Nat
      /\ Size - NextHopBits \in Int
  BY LayoutAssumption
<1>2. ASSUME NEW r \in Parts, NEW j \in 0..(Ports[r] - 1)
      PROVE  /\ Fits(r, NextHopBits) /\ Fits(j, PortBits)
             /\ Field(Size, r) \subseteq low /\ Field(Size - NextHopBits, j) \subseteq high
             /\ PortAddress(r, j) \cap low = Field(Size, r)
             /\ PortAddress(r, j) \cap high = Field(Size - NextHopBits, j)
  <2>1. Fits(r, NextHopBits) /\ Fits(j, PortBits)
    BY FabricAssumption
  <2>2. Field(Size, r) \subseteq low /\ Field(Size - NextHopBits, j) \subseteq high
    BY <1>1, <2>1, FieldRange
  <2>3. low \cap high = {}
    BY <1>1 DEF Ones
  <2> QED BY <2>1, <2>2, <2>3 DEF PortAddress
<1>3. /\ low \subseteq Ones(Size, NextHopBits + PortBits)
      /\ high \subseteq Ones(Size, NextHopBits + PortBits)
  BY <1>1 DEF Ones
<1>4. PortAddress(q, i) \subseteq Ones(Size, NextHopBits + PortBits)
  BY <1>2, <1>3 DEF PortAddress
<1>5. ASSUME NEW r \in Parts, NEW j \in 0..(Ports[r] - 1), PortAddress(q, i) = PortAddress(r, j)
      PROVE  q = r /\ i = j
  <2>0. /\ PortAddress(q, i) \cap low = Field(Size, q)
        /\ PortAddress(q, i) \cap high = Field(Size - NextHopBits, i)
        /\ PortAddress(r, j) \cap low = Field(Size, r)
        /\ PortAddress(r, j) \cap high = Field(Size - NextHopBits, j)
    BY <1>2
  <2>1. Field(Size, q) = Field(Size, r) /\ Field(Size - NextHopBits, i) = Field(Size - NextHopBits, j)
    BY ONLY <1>5, <2>0
  <2>2. q = r
    BY <1>1, <1>2, <2>1, FieldTells
  <2>3. i = j
    BY <1>1, <1>2, <2>1, FieldTells
  <2> QED BY <2>2, <2>3
<1>6. 1 \notin PortAddress(q, i) /\ PortAddress(q, i) \cap NextHopMask = {}
  <2>1. /\ 1 \in 1..Isdx /\ NextHopMask \subseteq 1..Isdx
        /\ Ones(Size, NextHopBits + PortBits) \cap (1..Isdx) = {}
    BY Regions
  <2> QED BY ONLY <1>4, <2>1
<1> QED BY <1>4, <1>5, <1>6 DEF PortMask

\* Whatever has the inbound bit is not taken for the address of a port.
LEMMA InboundIsNoPort ==
    ASSUME NEW q \in Parts, NEW i \in 0..(Ports[q] - 1), NEW dst, InboundBit \subseteq dst
    PROVE  dst \cap PortMask # PortAddress(q, i)
BY PortAddressParts DEF PortMask, InboundBit

-----------------------------------------------------------------------------
(* The inductive invariant *)

\* The address of a packet that an outbound or rerouting rule has sent to q.
Diverted(q) == InboundBit \cup NextHop(q)

\* What a match sees of it.
LEMMA DivertedParts ==
    ASSUME NEW q \in Parts
    PROVE  /\ InboundBit \subseteq Diverted(q)
           /\ Diverted(q) \cap NextHopMask = NextHop(q)
           /\ \A m \in SUBSET SupersetBits : Diverted(q) \cap m = {}
           /\ \A d \in 1..MaxDepth : Diverted(q) \cap TagMask(d) = {}
<1>1. NextHop(q) \subseteq NextHopMask
  BY NextHopFacts, FabricAssumption
<1>2. Diverted(q) \subseteq 1..Isdx /\ Diverted(q) \cap SupersetBits = {}
  <2>1. /\ 1 \in 1..Isdx /\ NextHopMask \subseteq 1..Isdx /\ 1 \notin SupersetBits
        /\ SupersetBits \cap NextHopMask = {}
    BY Regions
  <2> QED BY ONLY <1>1, <2>1 DEF Diverted, InboundBit
<1>3. Diverted(q) \cap NextHopMask = NextHop(q)
  BY <1>1, Regions DEF Diverted, InboundBit
<1>4. ASSUME NEW d \in 1..MaxDepth PROVE Diverted(q) \cap TagMask(d) = {}
  BY <1>2, Regions
<1> QED BY <1>2, <1>3, <1>4 DEF Diverted

\* q may get the packet, and is a backup if the packet was to be rerouted.
MayGet(q) ==
    /\ q \in Parts /\ q \in packet.allowed
    /\ packet.due # {} => \E r \in packet.due : r.backup = q

\* The port where the inbound policy of q wants the packet.
PortFor(q) == IF q \in HasInbound /\ packet.kind = "web" THEN WebPort[q] ELSE 0

\* The packet is as its sender addressed it, which it is not if it was to be rerouted.
AsSent == packet.dst = Vmac(packet.part, packet.class) /\ packet.due = {}

PacketTypes ==
    /\ DOMAIN packet = {"table", "in_port", "src", "dst", "part", "kind", "class", "visits",
                        "out", "allowed", "due"}
    /\ packet.table \in Tables \cup {"out", "drop"}
    /\ packet.part \in Parts /\ packet.kind \in Kinds /\ packet.class \in Classes
    /\ packet.in_port \in AllPorts \cup {FromSwitch[t] : t \in Tables}
    /\ packet.src \in PortsOf(packet.part)
    /\ packet.part # packet.class.next_hop
    /\ \A d \in DOMAIN packet.class.backups : packet.class.backups[d] # packet.part
    /\ packet.visits \in 1..3
    /\ packet.class.next_hop \in packet.allowed

\* On its first visit to the main switch.
Entering ==
    /\ packet.table = "main" /\ packet.visits = 1
    /\ AsSent /\ packet.in_port = packet.src

\* In the outbound or inbound table: on the way from the main switch, as it was sent or
\* diverted, for the second time only if it was rerouted on its way back.
Between ==
    /\ packet.table \in {"outbound", "inbound"} /\ packet.visits \in 1..2
    /\ \/ AsSent /\ packet.visits = 1
       \/ \E q \in Parts : packet.dst = Diverted(q) /\ MayGet(q)

\* Back at the main switch, with the address of a port if the receiver has inbound rules.
Returning ==
    /\ packet.table = "main" /\ packet.visits \in 2..3
    /\ packet.in_port = FromSwitch.inbound
    /\ \/ AsSent /\ packet.visits = 2 /\ packet.class.next_hop \notin HasInbound
       \/ \E q \in Parts \ HasInbound : packet.dst = Diverted(q) /\ MayGet(q)
       \/ \E q \in HasInbound : packet.dst = PortAddress(q, PortFor(q)) /\ MayGet(q)

Arrived ==
    /\ packet.table = "out"
    /\ \E q \in Parts : packet.out = {<<q, PortFor(q)>>} /\ MayGet(q)

ReroutesOK ==
    \A r \in reroutes :
        /\ {r.part, r.peer, r.backup} \subseteq Parts /\ r.backup \notin {r.part, r.peer}
        /\ r.link.depth \in 1..MaxDepth
        /\ r.link.mask \subseteq PathBits /\ r.link.value \subseteq r.link.mask

PacketOK ==
    /\ PacketTypes
    /\ InFlight => Receivers(packet, outbound, reroutes) \subseteq packet.allowed
    /\ \/ Entering \/ Between \/ Returning \/ Arrived
       \/ packet.table = "drop" /\ packet.class.next_hop \notin Parts

FabricInv == outbound \subseteq Policies /\ ReroutesOK /\ (packet = NoPacket \/ PacketOK)

-----------------------------------------------------------------------------
(* Which rules match *)

\* The rule of r is for the address of the packet.
Sees(r) == packet.dst \cap (NextHopMask \cup TagMask(r.link.depth) \cup r.link.mask) =
             NextHop(r.peer) \cup Tag(r.link.depth, Tags[r.part][r.backup]) \cup r.link.value

\* The rule is one of a kind and matches: what that says of the packet, and what the
\* rule does.
ByReroute(rule) ==
    /\ packet.table = "main" /\ rule.priority = 6
    /\ \E r \in reroutes :
         packet.src = <<r.part, r.port>> /\ Sees(r) /\ rule.action = RerouteAction(r)

ByOutboundTraffic(rule) ==
    /\ packet.table = "main" /\ rule.priority = 5
    /\ packet.in_port \in AllPorts
    /\ rule.action = [Forward("outbound") EXCEPT !.src = {<<packet.in_port[1], 0>>}]

ByPort(rule) ==
    /\ packet.table = "main" /\ rule.priority = 4
    /\ \E q \in HasInbound : \E i \in 0..(Ports[q] - 1) :
         packet.dst \cap PortMask = PortAddress(q, i) /\ rule.action = Output(q, i)

ByNextHop(rule) ==
    /\ packet.table = "main" /\ rule.priority = 4
    /\ \E q \in Parts \ HasInbound :
         packet.dst \cap NextHopMask = NextHop(q) /\ rule.action = Output(q, 0)

ByBreakLoop(rule) ==
    /\ packet.table = "main" /\ rule.priority = 3
    /\ packet.in_port = FromSwitch.inbound /\ rule.action = Drop

ByInboundBit(rule) ==
    packet.table = "main" /\ rule.priority = 2 /\ rule.action = Forward("outbound")

ByPolicy(rule) ==
    /\ packet.table = "outbound" /\ rule.priority = 2
    /\ \E x \in outbound :
         /\ packet.src = <<x.part, 0>> /\ packet.kind = "web" /\ packet.dst \cap x.mask = x.value
         /\ rule.action = Rewrite(Diverted(x.to), "inbound")

ByOutboundDefault(rule) ==
    packet.table = "outbound" /\ rule.priority = 1 /\ rule.action = Forward("inbound")

ByInboundPolicy(rule) ==
    /\ packet.table = "inbound" /\ rule.priority = 3
    /\ \E q \in HasInbound : /\ packet.kind = "web" /\ packet.dst \cap NextHopMask = NextHop(q)
                             /\ rule.action = Rewrite(PortAddress(q, WebPort[q]), "main")

ByInbound(rule) ==
    /\ packet.table = "inbound" /\ rule.priority = 2
    /\ \E q \in HasInbound : /\ packet.dst \cap NextHopMask = NextHop(q)
                             /\ rule.action = Rewrite(PortAddress(q, 0), "main")

ByInboundDefault(rule) ==
    packet.table = "inbound" /\ rule.priority = 1 /\ rule.action = Forward("main")

Found == {rule \in StaticRules \cup DynamicRules(packet.table) : Matches(rule, packet)}

LEMMA PortFacts ==
    /\ \A port \in AllPorts : /\ port[1] \in Parts /\ port[2] \in 0..(Ports[port[1]] - 1)
                              /\ port = <<port[1], port[2]>>
    /\ \A q \in Parts : \A i \in 0..(Ports[q] - 1) : <<q, i>> \in AllPorts
    /\ \A q \in Parts : 0 \in 0..(Ports[q] - 1)
<1>1. \A q \in Parts : 0 \in 0..(Ports[q] - 1)
  BY FabricAssumption
<1> QED BY <1>1 DEF AllPorts, PortsOf

\* A static rule that matches is one of these.
LEMMA StaticMatch ==
    ASSUME NEW rule \in StaticRules, Matches(rule, packet)
    PROVE  \/ ByOutboundTraffic(rule) \/ ByPort(rule) \/ ByNextHop(rule) \/ ByBreakLoop(rule)
           \/ ByInboundBit(rule) \/ ByOutboundDefault(rule) \/ ByInboundPolicy(rule)
           \/ ByInbound(rule) \/ ByInboundDefault(rule)
<1>1. CASE rule \in OutboundTraffic
  <2>1. PICK port \in AllPorts :
          rule = Rule("main", 5, From(port), [Forward("outbound") EXCEPT !.src = {<<port[1], 0>>}])
    BY <1>1 DEF OutboundTraffic
  <2>2. packet.in_port = port
    BY <2>1 DEF Matches, Rule, From, Packets
  <2> QED BY <2>1, <2>2 DEF ByOutboundTraffic, Rule, Matches
<1>2. CASE rule \in OutputRules
  <2>1. CASE \E port \in {q \in AllPorts : q[1] \in HasInbound} :
               rule = Rule("main", 4, Packets(PortMask, PortAddress(port[1], port[2])), Output(port[1], port[2]))
    <3>1. PICK port \in AllPorts : /\ port[1] \in HasInbound
             /\ rule = Rule("main", 4, Packets(PortMask, PortAddress(port[1], port[2])), Output(port[1], port[2]))
      BY <2>1
    <3>2. port[2] \in 0..(Ports[port[1]] - 1)
      BY PortFacts
    <3>3. packet.dst \cap PortMask = PortAddress(port[1], port[2]) /\ packet.table = "main"
      BY <3>1 DEF Matches, Rule, Packets
    <3> QED BY <3>1, <3>2, <3>3 DEF ByPort, Rule
  <2>2. CASE \E p \in Parts \ HasInbound :
               rule = Rule("main", 4, Packets(NextHopMask, NextHop(p)), Output(p, 0))
    BY <2>2 DEF ByNextHop, Matches, Rule, Packets
  <2> QED BY <1>2, <2>1, <2>2 DEF OutputRules
<1>3. CASE rule \in BreakLoop
  BY <1>3 DEF BreakLoop, ByBreakLoop, Matches, Rule, From, Packets
<1>4. CASE rule \in InboundTraffic
  <2>1. rule = Rule("main", 2, Packets(InboundBit, InboundBit), Forward("outbound"))
    BY <1>4 DEF InboundTraffic
  <2> QED BY <2>1 DEF ByInboundBit, Matches, Rule
<1>5. CASE rule \in Defaults
  BY <1>5 DEF Defaults, ByOutboundDefault, ByInboundDefault, Matches, Rule
<1>6. CASE rule \in InboundRules
  <2>1. PICK q \in HasInbound :
          rule = Rule("inbound", 2, Packets(NextHopMask, NextHop(q)), Rewrite(PortAddress(q, 0), "main"))
    BY <1>6 DEF InboundRules
  <2>2. /\ packet.table = "inbound" /\ rule.priority = 2 /\ packet.dst \cap NextHopMask = NextHop(q)
        /\ rule.action = Rewrite(PortAddress(q, 0), "main")
    BY <2>1 DEF Matches, Rule, Packets
  <2> QED BY <2>2 DEF ByInbound
<1>7. CASE rule \in InboundPolicies
  <2>1. PICK q \in HasInbound :
          rule = Rule("inbound", 3, [Packets(NextHopMask, NextHop(q)) EXCEPT !.kind = {"web"}],
                      Rewrite(PortAddress(q, WebPort[q]), "main"))
    BY <1>7 DEF InboundPolicies
  <2>2. /\ packet.table = "inbound" /\ rule.priority = 3 /\ packet.dst \cap NextHopMask = NextHop(q)
        /\ packet.kind = "web" /\ rule.action = Rewrite(PortAddress(q, WebPort[q]), "main")
    BY <2>1 DEF Matches, Rule, Packets
  <2> QED BY <2>2 DEF ByInboundPolicy
<1> QED BY <1>1, <1>2, <1>3, <1>4, <1>5, <1>6, <1>7 DEF StaticRules

\* So are the rules of controllers.
LEMMA FoundMatch ==
    ASSUME NEW rule \in Found
    PROVE  \/ ByReroute(rule) \/ ByOutboundTraffic(rule) \/ ByPort(rule) \/ ByNextHop(rule)
           \/ ByBreakLoop(rule) \/ ByInboundBit(rule) \/ ByPolicy(rule) \/ ByOutboundDefault(rule)
           \/ ByInboundPolicy(rule) \/ ByInbound(rule) \/ ByInboundDefault(rule)
<1>1. Matches(rule, packet)
  BY DEF Found
<1>2. CASE rule \in StaticRules
  BY <1>1, <1>2, StaticMatch
<1>3. CASE packet.table = "main" /\ rule \in DynamicRules("main")
  <2>1. PICK r \in reroutes : rule = RerouteRule(r)
    BY <1>3 DEF DynamicRules
  <2> QED BY <1>1, <1>3, <2>1 DEF ByReroute, Sees, RerouteRule, RerouteMatch, Rule, Matches, Packets
<1>4. CASE packet.table = "outbound" /\ rule \in DynamicRules("outbound")
  <2>1. PICK x \in outbound :
          rule = Rule("outbound", 2, [Packets(x.mask, x.value) EXCEPT !.src = {<<x.part, 0>>}, !.kind = {"web"}],
                      Rewrite(InboundBit \cup NextHop(x.to), "inbound"))
    BY <1>4 DEF DynamicRules, OutboundPolicies
  <2> QED BY <1>1, <1>4, <2>1 DEF ByPolicy, Diverted, Rule, Matches, Packets
<1>5. packet.table \notin {"main", "outbound"} => DynamicRules(packet.table) = {}
  BY DEF DynamicRules
<1> QED BY <1>2, <1>3, <1>4, <1>5 DEF Found
\* And these are found, whatever the packet is.
LEMMA Finds ==
    ASSUME PacketTypes
    PROVE  /\ packet.table = "main" =>
                /\ \A r \in reroutes :
                     packet.src = <<r.part, r.port>> /\ Sees(r) =>
                        \E rule \in Found : rule.priority = 6
                /\ \A q \in HasInbound : \A i \in 0..(Ports[q] - 1) :
                     packet.dst \cap PortMask = PortAddress(q, i) => \E rule \in Found : rule.priority = 4
                /\ \A q \in Parts \ HasInbound :
                     packet.dst \cap NextHopMask = NextHop(q) => \E rule \in Found : rule.priority = 4
                /\ packet.in_port = FromSwitch.inbound => \E rule \in Found : rule.priority = 3
                /\ InboundBit \subseteq packet.dst => \E rule \in Found : rule.priority = 2
           /\ packet.table = "outbound" => \E rule \in Found : rule.priority = 1
           /\ packet.table = "inbound" =>
                /\ \E rule \in Found : rule.priority = 1
                /\ \A q \in HasInbound : packet.dst \cap NextHopMask = NextHop(q) =>
                     /\ \E rule \in Found : rule.priority = 2
                     /\ packet.kind = "web" => \E rule \in Found : rule.priority = 3
<1>1. /\ packet.in_port \in AllPorts \cup {FromSwitch[t] : t \in Tables}
      /\ packet.src \in AllPorts /\ packet.kind \in Kinds
  BY DEF PacketTypes, AllPorts
<1>2. ASSUME NEW r \in reroutes, packet.table = "main", packet.src = <<r.part, r.port>>, Sees(r)
      PROVE  \E rule \in Found : rule.priority = 6
  <2>1. RerouteRule(r) \in DynamicRules(packet.table)
    BY <1>2 DEF DynamicRules
  <2>2. Matches(RerouteRule(r), packet) /\ RerouteRule(r).priority = 6
    BY <1>1, <1>2 DEF Sees, Matches, RerouteRule, RerouteMatch, Rule, Packets
  <2> QED BY <2>1, <2>2 DEF Found
<1>3. ASSUME NEW q \in HasInbound, NEW i \in 0..(Ports[q] - 1), packet.table = "main",
             packet.dst \cap PortMask = PortAddress(q, i)
      PROVE  \E rule \in Found : rule.priority = 4
  <2> DEFINE rule == Rule("main", 4, Packets(PortMask, PortAddress(q, i)), Output(q, i))
  <2>1. <<q, i>> \in AllPorts
    BY PortFacts, FabricAssumption
  <2>2. rule \in StaticRules
    BY <2>1 DEF StaticRules, OutputRules
  <2>3. Matches(rule, packet) /\ rule.priority = 4
    BY <1>1, <1>3 DEF Matches, Rule, Packets
  <2> QED BY <2>2, <2>3 DEF Found
<1>4. ASSUME NEW q \in Parts \ HasInbound, packet.table = "main", packet.dst \cap NextHopMask = NextHop(q)
      PROVE  \E rule \in Found : rule.priority = 4
  <2> DEFINE rule == Rule("main", 4, Packets(NextHopMask, NextHop(q)), Output(q, 0))
  <2>1. rule \in StaticRules
    BY DEF StaticRules, OutputRules
  <2>2. Matches(rule, packet) /\ rule.priority = 4
    BY <1>1, <1>4 DEF Matches, Rule, Packets
  <2> QED BY <2>1, <2>2 DEF Found
<1>5. ASSUME packet.table = "main", packet.in_port = FromSwitch.inbound
      PROVE  \E rule \in Found : rule.priority = 3
  <2> DEFINE rule == Rule("main", 3, From(FromSwitch.inbound), Drop)
  <2>1. rule \in StaticRules
    BY DEF StaticRules, BreakLoop
  <2>2. Matches(rule, packet) /\ rule.priority = 3
    BY <1>1, <1>5 DEF Matches, Rule, From, Packets
  <2> QED BY <2>1, <2>2 DEF Found
<1>6. ASSUME packet.table = "main", InboundBit \subseteq packet.dst
      PROVE  \E rule \in Found : rule.priority = 2
  <2> DEFINE rule == Rule("main", 2, Packets(InboundBit, InboundBit), Forward("outbound"))
  <2>1. rule \in StaticRules
    BY DEF StaticRules, InboundTraffic
  <2>2. Matches(rule, packet) /\ rule.priority = 2
    BY <1>1, <1>6 DEF Matches, Rule, Packets
  <2> QED BY <2>1, <2>2 DEF Found
<1>7. ASSUME NEW t \in {"outbound", "inbound"}, packet.table = t
      PROVE  \E rule \in Found : rule.priority = 1
  <2> DEFINE to == IF t = "outbound" THEN "inbound" ELSE "main"
             rule == Rule(t, 1, Packets({}, {}), Forward(to))
  <2>1. rule \in StaticRules
    BY DEF StaticRules, Defaults
  <2>2. Matches(rule, packet) /\ rule.priority = 1
    BY <1>1, <1>7 DEF Matches, Rule, Packets
  <2> QED BY <2>1, <2>2 DEF Found
<1>8. ASSUME NEW q \in HasInbound, packet.table = "inbound", packet.dst \cap NextHopMask = NextHop(q)
      PROVE  \E rule \in Found : rule.priority = 2
  <2> DEFINE rule == Rule("inbound", 2, Packets(NextHopMask, NextHop(q)), Rewrite(PortAddress(q, 0), "main"))
  <2>1. rule \in StaticRules
    BY DEF StaticRules, InboundRules
  <2>2. Matches(rule, packet) /\ rule.priority = 2
    BY <1>1, <1>8 DEF Matches, Rule, Packets
  <2> QED BY <2>1, <2>2 DEF Found
<1>9. ASSUME NEW q \in HasInbound, packet.table = "inbound", packet.dst \cap NextHopMask = NextHop(q),
             packet.kind = "web"
      PROVE  \E rule \in Found : rule.priority = 3
  <2> DEFINE rule == Rule("inbound", 3, [Packets(NextHopMask, NextHop(q)) EXCEPT !.kind = {"web"}],
                          Rewrite(PortAddress(q, WebPort[q]), "main"))
  <2>1. rule \in StaticRules
    BY DEF StaticRules, InboundPolicies
  <2>2. Matches(rule, packet) /\ rule.priority = 3
    BY <1>1, <1>9 DEF Matches, Rule, Packets
  <2> QED BY <2>1, <2>2 DEF Found
<1> QED BY <1>2, <1>3, <1>4, <1>5, <1>6, <1>7, <1>8, <1>9

\* What the chosen action makes of the packet.
Becomes(a) ==
    /\ DOMAIN packet' = DOMAIN packet
    /\ packet'.table = a.fwd
    /\ packet'.in_port = FromSwitch[packet.table]
    /\ packet'.src = Set(packet.src, a.src)
    /\ packet'.dst = Set(packet.dst, a.dst)
    /\ packet'.out = a.out
    /\ packet'.due = IF packet.table = "main" /\ packet.visits = 1
                     THEN {r \in reroutes : Concerns(r, packet) /\ packet.in_port = <<r.part, r.port>>}
                     ELSE packet.due
    /\ packet'.visits = IF a.fwd = "main" THEN packet.visits + 1 ELSE packet.visits
    /\ packet'.part = packet.part /\ packet'.kind = packet.kind /\ packet'.class = packet.class
    /\ packet'.allowed = packet.allowed

LEMMA LookupIs ==
    ASSUME PacketTypes, Lookup
    PROVE  /\ UNCHANGED <<outbound, reroutes>> /\ InFlight
           /\ \/ Found = {} /\ Becomes(Drop)
              \/ \E rule \in Found : /\ \A other \in Found : other.priority <= rule.priority
                                     /\ Becomes(rule.action)
<1> DEFINE due == {r \in reroutes : Concerns(r, packet) /\ packet.in_port = <<r.part, r.port>>}
           Apply(a) == [packet EXCEPT
                            !.table = a.fwd,
                            !.in_port = FromSwitch[packet.table],
                            !.src = Set(@, a.src),
                            !.dst = Set(@, a.dst),
                            !.out = a.out,
                            !.due = IF packet.table = "main" /\ packet.visits = 1 THEN due ELSE @,
                            !.visits = IF a.fwd = "main" THEN @ + 1 ELSE @]
<1>1. Found = {rule \in StaticRules : Matches(rule, packet)}
                \cup {rule \in DynamicRules(packet.table) : Matches(rule, packet)}
  BY DEF Found
<1>2. \/ Found = {} /\ packet' = Apply(Drop)
      \/ \E rule \in Found : /\ \A other \in Found : other.priority <= rule.priority
                             /\ packet' = Apply(rule.action)
  BY <1>1, Zenon DEF Lookup
<1>3. ASSUME NEW a, packet' = Apply(a) PROVE Becomes(a)
  <2>1. DOMAIN packet = {"table", "in_port", "src", "dst", "part", "kind", "class", "visits",
                         "out", "allowed", "due"}
    BY DEF PacketTypes
  <2> HIDE DEF due
  <2>2. /\ DOMAIN packet' = DOMAIN packet
        /\ packet'.table = a.fwd
        /\ packet'.in_port = FromSwitch[packet.table]
        /\ packet'.src = Set(packet.src, a.src)
        /\ packet'.dst = Set(packet.dst, a.dst)
        /\ packet'.out = a.out
        /\ packet'.due = IF packet.table = "main" /\ packet.visits = 1 THEN due ELSE packet.due
        /\ packet'.visits = IF a.fwd = "main" THEN packet.visits + 1 ELSE packet.visits
        /\ packet'.part = packet.part /\ packet'.kind = packet.kind /\ packet'.class = packet.class
        /\ packet'.allowed = packet.allowed
    BY <1>3, <2>1
  <2> QED BY <2>2 DEF Becomes, due
<1> QED BY <1>2, <1>3 DEF Lookup
-----------------------------------------------------------------------------
(* Rerouting rules *)

\* A match on three fields is a match on each.
LEMMA SeesFields ==
    ASSUME ReroutesOK, NEW r \in reroutes
    PROVE  /\ Sees(r) <=>
                /\ packet.dst \cap NextHopMask = NextHop(r.peer)
                /\ packet.dst \cap TagMask(r.link.depth) = Tag(r.link.depth, Tags[r.part][r.backup])
                /\ packet.dst \cap r.link.mask = r.link.value
           /\ NextHop(r.peer) # {} /\ Tag(r.link.depth, Tags[r.part][r.backup]) # {}
<1> DEFINE d == r.link.depth
           t == Tags[r.part][r.backup]
<1>1. /\ r.part \in Parts /\ r.peer \in Parts /\ r.backup \in Parts \ {r.part}
      /\ d \in 1..MaxDepth /\ r.link.mask \subseteq PathBits /\ r.link.value \subseteq r.link.mask
  BY DEF ReroutesOK
<1>2. Fits(t, TagBits) /\ t # 0
  BY <1>1, ControllersAssumption
<1>3. Isdx + d * TagBits \in Int /\ TagBits \in Nat
  BY <1>1, LayoutAssumption
<1>4. Tag(d, t) \subseteq TagMask(d) /\ Tag(d, t) # {}
  BY <1>2, <1>3, FieldRange, FieldZero DEF Tag, TagMask
<1>5. NextHop(r.peer) \subseteq NextHopMask /\ NextHop(r.peer) # {}
  BY <1>1, NextHopFacts, FabricAssumption
<1>6. /\ NextHopMask \cap TagMask(d) = {} /\ NextHopMask \cap r.link.mask = {}
      /\ TagMask(d) \cap r.link.mask = {}
  BY <1>1, Regions
<1> HIDE DEF d, t
<1>7. packet.dst \cap (NextHopMask \cup TagMask(d) \cup r.link.mask) = NextHop(r.peer) \cup Tag(d, t) \cup r.link.value
        <=> /\ packet.dst \cap NextHopMask = NextHop(r.peer)
            /\ packet.dst \cap TagMask(d) = Tag(d, t)
            /\ packet.dst \cap r.link.mask = r.link.value
  <2> DEFINE A == NextHopMask
             B == TagMask(d)
             C == r.link.mask
             x == NextHop(r.peer)
             y == Tag(d, t)
             z == r.link.value
             dst == packet.dst
  <2>1. /\ x \subseteq A /\ y \subseteq B /\ z \subseteq C
        /\ A \cap B = {} /\ A \cap C = {} /\ B \cap C = {}
    BY <1>1, <1>4, <1>5, <1>6
  <2> HIDE DEF A, B, C, x, y, z, dst
  <2>2. ASSUME dst \cap (A \cup B \cup C) = x \cup y \cup z
        PROVE  dst \cap A = x /\ dst \cap B = y /\ dst \cap C = z
    BY ONLY <2>1, <2>2
  <2>3. ASSUME dst \cap A = x, dst \cap B = y, dst \cap C = z
        PROVE  dst \cap (A \cup B \cup C) = x \cup y \cup z
    BY ONLY <2>3
  <2> QED BY <2>2, <2>3 DEF A, B, C, x, y, z, dst
<1> QED BY <1>4, <1>5, <1>7 DEF Sees, d, t

\* A rerouting rule sees the VMAC of exactly the packets of its participant that
\* it is about.
LEMMA SeesConcerned ==
    ASSUME ReroutesOK, PacketTypes, packet.dst = Vmac(packet.part, packet.class),
           NEW r \in reroutes, r.part = packet.part
    PROVE  Sees(r) <=> Concerns(r, packet)
<1> DEFINE d == r.link.depth
           c == packet.class
           t == Tags[r.part][r.backup]
<1>1. /\ r.part \in Parts /\ r.peer \in Parts /\ r.backup \in Parts \ {r.part}
      /\ d \in 1..MaxDepth /\ r.link.mask \subseteq PathBits
      /\ c \in Classes /\ packet.part \in Parts
  BY DEF ReroutesOK, PacketTypes
<1>2. /\ packet.dst \cap NextHopMask = NextHop(c.next_hop)
      /\ packet.dst \cap r.link.mask = c.path \cap r.link.mask
      /\ packet.dst \cap TagMask(d) = IF d \in DOMAIN c.backups THEN Tag(d, Tags[r.part][c.backups[d]]) ELSE {}
  BY <1>1, VmacParts DEF PacketTypes
<1>3. NextHop(c.next_hop) = NextHop(r.peer) <=> r.peer = c.next_hop
  BY <1>1, NextHopFacts, ControllersAssumption
<1>4. ASSUME d \in DOMAIN c.backups, Tag(d, Tags[r.part][c.backups[d]]) = Tag(d, t)
      PROVE  c.backups[d] = r.backup
  <2>1. c.backups[d] \in Parts \ {r.part}
    BY <1>1, <1>4, ControllersAssumption DEF PacketTypes
  <2>2. Fits(Tags[r.part][c.backups[d]], TagBits) /\ Fits(t, TagBits)
    BY <1>1, <2>1, ControllersAssumption
  <2>3. Isdx + d * TagBits \in Int
    BY <1>1, LayoutAssumption
  <2>4. Tags[r.part][c.backups[d]] = t
    BY <1>4, <2>2, <2>3, FieldTells DEF Tag
  <2> QED BY <1>1, <2>1, <2>4, ControllersAssumption
<1>5. /\ Sees(r) <=> /\ packet.dst \cap NextHopMask = NextHop(r.peer)
                     /\ packet.dst \cap TagMask(d) = Tag(d, t)
                     /\ packet.dst \cap r.link.mask = r.link.value
      /\ Tag(d, t) # {}
  BY SeesFields
<1> QED BY <1>2, <1>3, <1>4, <1>5 DEF Concerns

\* It sees no packet that was diverted or is on its way to a port.
LEMMA SeesNoOther ==
    ASSUME ReroutesOK, NEW r \in reroutes, NEW q \in Parts,
           \/ packet.dst = Diverted(q)
           \/ \E i \in 0..(Ports[q] - 1) : packet.dst = PortAddress(q, i)
    PROVE  ~Sees(r)
<1>1. r.link.depth \in 1..MaxDepth
  BY DEF ReroutesOK
<1>2. CASE packet.dst = Diverted(q)
  BY <1>1, <1>2, DivertedParts, SeesFields
<1>3. CASE \E i \in 0..(Ports[q] - 1) : packet.dst = PortAddress(q, i)
  BY <1>3, PortAddressParts, SeesFields
<1> QED BY <1>2, <1>3

-----------------------------------------------------------------------------
(* A packet goes on *)

\* The parts of a packet's record that an action does not set.
LEMMA KeptTypes ==
    ASSUME PacketTypes, NEW a, Becomes(a), a.fwd \in Tables \cup {"out", "drop"}, InFlight,
           a.src = {} \/ a.src = {<<packet.part, 0>>}, packet'.visits \in 1..3
    PROVE  PacketTypes'
<1>1. packet'.src \in PortsOf(packet.part)
  <2>1. <<packet.part, 0>> \in PortsOf(packet.part)
    BY PortFacts DEF PortsOf, PacketTypes
  <2> QED BY <2>1 DEF Becomes, Set, PacketTypes
<1>2. packet'.in_port \in {FromSwitch[t] : t \in Tables}
  BY DEF Becomes, InFlight
<1> QED BY <1>1, <1>2 DEF Becomes, PacketTypes

LEMMA Actions ==
    /\ \A t : Forward(t).fwd = t /\ Forward(t).dst = {} /\ Forward(t).src = {} /\ Forward(t).out = {}
    /\ \A dst, t : /\ Rewrite(dst, t).fwd = t /\ Rewrite(dst, t).dst = {dst}
                   /\ Rewrite(dst, t).src = {} /\ Rewrite(dst, t).out = {}
    /\ \A q, i : /\ Output(q, i).fwd = "out" /\ Output(q, i).dst = {}
                 /\ Output(q, i).src = {} /\ Output(q, i).out = {<<q, i>>}
    /\ Drop.fwd = "drop" /\ Drop.src = {} /\ Drop.dst = {}
    /\ \A t, x : LET a == [Forward(t) EXCEPT !.src = {x}] IN a.fwd = t /\ a.dst = {} /\ a.src = {x}
    /\ \A old : Set(old, {}) = old
    /\ \A old, x : Set(old, {x}) = x
BY DEF Forward, Rewrite, Output, Drop, Set

\* The action of a rule that rewrites the destination.
LEMMA RewriteBecomes ==
    ASSUME NEW action, NEW dst, NEW t, action = Rewrite(dst, t), Becomes(action)
    PROVE  /\ action.fwd = t /\ action.src = {}
           /\ packet'.table = t /\ packet'.dst = dst
           /\ packet'.visits = IF t = "main" THEN packet.visits + 1 ELSE packet.visits
<1>1. action.fwd = t /\ action.src = {} /\ action.dst = {dst}
  BY DEF Rewrite, Forward
<1>2. Set(packet.dst, {dst}) = dst
  BY DEF Set
<1> QED BY <1>1, <1>2 DEF Becomes

\* A packet that is new at the main switch.
LEMMA EnteringStep ==
    ASSUME FabricInv, PacketOK, Lookup, Entering
    PROVE  PacketTypes' /\ (Between' \/ Arrived')
<1> DEFINE D == {r \in reroutes : Concerns(r, packet) /\ packet.in_port = <<r.part, r.port>>}
           nh == packet.class.next_hop
<1>1. /\ PacketTypes /\ ReroutesOK /\ packet.table = "main" /\ packet.visits = 1
      /\ packet.dst = Vmac(packet.part, packet.class) /\ packet.due = {}
      /\ packet.in_port = packet.src /\ packet.part \in Parts /\ packet.class \in Classes
      /\ InFlight /\ Receivers(packet, outbound, reroutes) \subseteq packet.allowed
  BY DEF FabricInv, PacketOK, Entering, AsSent, PacketTypes, InFlight, Tables
<1>2. /\ InboundBit \subseteq packet.dst /\ packet.dst \cap NextHopMask = NextHop(nh)
      /\ Fits(nh, NextHopBits) /\ nh \in packet.allowed
  BY <1>1, VmacParts, ControllersAssumption DEF PacketTypes
<1>3. \E i \in 0..(Ports[packet.part] - 1) : packet.src = <<packet.part, i>>
  BY <1>1 DEF PacketTypes, PortsOf
<1>4. PICK rule \in Found : /\ \A other \in Found : other.priority <= rule.priority
                            /\ Becomes(rule.action)
  BY <1>1, <1>2, LookupIs, Finds
<1>5. /\ packet'.due = D
      /\ packet'.kind = packet.kind /\ packet'.part = packet.part /\ packet'.class = packet.class
      /\ packet'.allowed = packet.allowed
  BY <1>1, <1>4 DEF Becomes
<1>6. \A r \in reroutes : packet.src = <<r.part, r.port>> /\ Sees(r) => r \in D
  BY <1>1, <1>3, SeesConcerned
<1>7. \A r \in D : packet.src = <<r.part, r.port>> /\ Sees(r)
  BY <1>1, <1>3, SeesConcerned
<1>8. CASE ByReroute(rule)
  <2>1. PICK r \in reroutes : packet.src = <<r.part, r.port>> /\ Sees(r) /\ rule.action = RerouteAction(r)
    BY <1>8 DEF ByReroute
  <2>2. r \in D /\ Concerns(r, packet) /\ r.backup \in Parts
    BY <1>1, <1>6, <2>1 DEF ReroutesOK
  <2>3. r.backup \in packet.allowed
    BY <1>1, <2>2 DEF Receivers
  <2>4. rule.action = Rewrite(Diverted(r.backup), "outbound")
    BY <2>1 DEF RerouteAction, Diverted
  <2>5. /\ packet'.table = "outbound" /\ packet'.visits = 1 /\ packet'.dst = Diverted(r.backup)
    <3>1. Becomes(rule.action)
      BY <1>4
    <3> QED BY ONLY <1>1, <2>4, <3>1, RewriteBecomes
  <2>6. PacketTypes'
    <3>1. rule.action.fwd = "outbound" /\ rule.action.src = {}
      BY <1>4, <2>4, RewriteBecomes
    <3> QED BY <1>1, <1>4, <2>5, <3>1, KeptTypes DEF Tables
  <2>7. MayGet(r.backup)'
    BY <1>5, <2>2, <2>3 DEF MayGet
  <2> QED BY <2>2, <2>5, <2>6, <2>7 DEF Between
<1>9. ASSUME ~ByReroute(rule) PROVE D = {}
  <2> SUFFICES ASSUME NEW r \in D PROVE FALSE
    OBVIOUS
  <2>1. \E other \in Found : other.priority = 6
    BY <1>1, <1>7, Finds
  <2>2. rule.priority >= 6
    BY <1>4, <2>1, FoundMatch DEF ByOutboundTraffic, ByPort, ByNextHop, ByBreakLoop, ByInboundBit,
         ByPolicy, ByOutboundDefault, ByInboundPolicy, ByInbound, ByInboundDefault, ByReroute
  <2> QED BY <1>9, <2>2, FoundMatch DEF ByOutboundTraffic, ByPort, ByNextHop, ByBreakLoop,
         ByInboundBit, ByPolicy, ByOutboundDefault, ByInboundPolicy, ByInbound, ByInboundDefault
<1>10. CASE ByOutboundTraffic(rule) \/ ByInboundBit(rule)
  <2>1. rule.priority # 6 /\ D = {}
    BY <1>9, <1>10 DEF ByReroute, ByOutboundTraffic, ByInboundBit
  <2>2. /\ rule.action.fwd = "outbound" /\ rule.action.dst = {}
        /\ rule.action.src = {} \/ rule.action.src = {<<packet.part, 0>>}
    <3>1. CASE ByOutboundTraffic(rule)
      <4>1. packet.in_port[1] = packet.part
        BY <1>1, <1>3
      <4>2. rule.action = [Forward("outbound") EXCEPT !.src = {<<packet.part, 0>>}]
        BY <3>1, <4>1 DEF ByOutboundTraffic
      <4> QED BY ONLY <4>2, Actions
    <3>2. CASE ByInboundBit(rule)
      BY <3>2, Actions DEF ByInboundBit
    <3> QED BY <1>10, <3>1, <3>2
  <2>3. packet'.table = "outbound" /\ packet'.visits = 1 /\ packet'.dst = packet.dst
    BY <1>1, <1>4, <2>2, Actions DEF Becomes
  <2>4. PacketTypes'
    BY <1>1, <1>4, <2>2, <2>3, KeptTypes DEF Tables
  <2> QED BY <1>1, <1>5, <2>1, <2>3, <2>4 DEF Between, AsSent
<1>11. CASE ByPort(rule)
  BY <1>2, <1>11, InboundIsNoPort, FabricAssumption DEF ByPort
<1>12. CASE ByNextHop(rule)
  <2>1. PICK q \in Parts \ HasInbound : packet.dst \cap NextHopMask = NextHop(q) /\ rule.action = Output(q, 0)
    BY <1>12 DEF ByNextHop
  <2>2. q = nh /\ D = {}
    BY <1>2, <1>9, <1>12, <2>1, NextHopFacts DEF ByReroute, ByNextHop
  <2>3. packet'.table = "out" /\ packet'.visits = 1 /\ packet'.out = {<<q, 0>>}
    BY <1>1, <1>4, <2>1, Actions DEF Becomes
  <2>4. PacketTypes'
    BY <1>1, <1>4, <2>1, <2>3, Actions, KeptTypes
  <2>5. MayGet(q)' /\ PortFor(q)' = 0
    BY <1>2, <1>5, <2>1, <2>2 DEF MayGet, PortFor
  <2> QED BY <2>1, <2>3, <2>4, <2>5 DEF Arrived
<1>13. CASE ByBreakLoop(rule)
  <2>1. packet.src[1] = 0 /\ packet.src[1] \in Parts
    BY <1>1, <1>3, <1>13 DEF ByBreakLoop, FromSwitch
  <2> QED BY <2>1, FabricAssumption
<1>14. /\ ~ByPolicy(rule) /\ ~ByOutboundDefault(rule) /\ ~ByInboundPolicy(rule)
       /\ ~ByInbound(rule) /\ ~ByInboundDefault(rule)
  BY <1>1 DEF ByPolicy, ByOutboundDefault, ByInboundPolicy, ByInbound, ByInboundDefault
<1> QED BY <1>8, <1>10, <1>11, <1>12, <1>13, <1>14, FoundMatch
\* A packet in the outbound table.
LEMMA OutboundStep ==
    ASSUME FabricInv, PacketOK, Lookup, Between, packet.table = "outbound"
    PROVE  PacketTypes' /\ Between'
<1>1. /\ PacketTypes /\ packet.visits \in 1..2 /\ InFlight /\ outbound \subseteq Policies
      /\ Receivers(packet, outbound, reroutes) \subseteq packet.allowed
      /\ packet.part \in Parts /\ packet.class \in Classes
  BY DEF FabricInv, PacketOK, Between, PacketTypes, InFlight, Tables
<1>2. PICK rule \in Found : /\ \A other \in Found : other.priority <= rule.priority
                            /\ Becomes(rule.action)
  BY <1>1, LookupIs, Finds
<1>3. /\ packet'.due = packet.due /\ packet'.allowed = packet.allowed
      /\ packet'.kind = packet.kind /\ packet'.part = packet.part /\ packet'.class = packet.class
  BY <1>2 DEF Becomes
<1>4. CASE ByPolicy(rule)
  <2>1. PICK x \in outbound :
          /\ packet.src = <<x.part, 0>> /\ packet.kind = "web" /\ packet.dst \cap x.mask = x.value
          /\ rule.action = Rewrite(Diverted(x.to), "inbound")
    BY <1>4 DEF ByPolicy
  <2>2. /\ x \in Policies /\ x.to \in Parts
        /\ x.mask \in SUBSET SupersetBits /\ x.value # {}
    BY <1>1, ControllersAssumption
  <2>3. x.part = packet.part
    BY <1>1, <2>1 DEF PacketTypes, PortsOf
  <2>4. AsSent
    <3>1. ASSUME NEW q \in Parts, packet.dst = Diverted(q) PROVE FALSE
      BY <2>1, <2>2, <3>1, DivertedParts
    <3> QED BY <3>1 DEF Between
  <2>5. packet.class.bits \cap x.mask = x.value
    BY <1>1, <2>1, <2>2, <2>4, VmacParts DEF AsSent, PacketTypes
  <2>6. x.to \in packet.allowed
    BY <1>1, <2>1, <2>3, <2>5 DEF Receivers
  <2>7. /\ packet'.table = "inbound" /\ packet'.visits = packet.visits /\ packet'.dst = Diverted(x.to)
        /\ rule.action.fwd = "inbound" /\ rule.action.src = {}
    BY <1>2, <2>1, RewriteBecomes
  <2>8. PacketTypes'
    BY <1>1, <1>2, <2>7, KeptTypes DEF Tables
  <2>9. MayGet(x.to)'
    BY <1>3, <2>2, <2>4, <2>6 DEF MayGet, AsSent
  <2> QED BY <1>1, <2>2, <2>7, <2>8, <2>9 DEF Between
<1>5. CASE ByOutboundDefault(rule)
  <2>1. rule.action = Forward("inbound")
    BY <1>5 DEF ByOutboundDefault
  <2>2. /\ packet'.table = "inbound" /\ packet'.visits = packet.visits /\ packet'.dst = packet.dst
        /\ rule.action.fwd = "inbound" /\ rule.action.src = {}
    BY <1>2, <2>1 DEF Becomes, Forward, Set
  <2>3. PacketTypes'
    BY <1>1, <1>2, <2>2, KeptTypes DEF Tables
  <2>4. \A q : MayGet(q) => MayGet(q)'
    BY <1>3 DEF MayGet
  <2>5. AsSent => AsSent'
    BY <1>3, <2>2 DEF AsSent
  <2> QED BY <2>2, <2>3, <2>4, <2>5 DEF Between
<1>6. ~ByReroute(rule) /\ ~ByOutboundTraffic(rule) /\ ~ByPort(rule) /\ ~ByNextHop(rule)
      /\ ~ByBreakLoop(rule) /\ ~ByInboundBit(rule) /\ ~ByInboundPolicy(rule)
      /\ ~ByInbound(rule) /\ ~ByInboundDefault(rule)
  BY DEF ByReroute, ByOutboundTraffic, ByPort, ByNextHop, ByBreakLoop, ByInboundBit,
         ByInboundPolicy, ByInbound, ByInboundDefault
<1> QED BY <1>4, <1>5, <1>6, FoundMatch

\* The next hop in the address is that of one participant only, who may get the packet.
LEMMA AddressedTo ==
    ASSUME PacketTypes, NEW q \in Parts, packet.dst \cap NextHopMask = NextHop(q)
    PROVE  /\ AsSent => q = packet.class.next_hop /\ MayGet(q)
           /\ \A r \in Parts : packet.dst = Diverted(r) => q = r
           /\ \A r \in Parts : \A i \in 0..(Ports[r] - 1) : packet.dst # PortAddress(r, i)
<1>1. ASSUME AsSent PROVE q = packet.class.next_hop /\ MayGet(q)
  <2>1. packet.dst \cap NextHopMask = NextHop(packet.class.next_hop)
    BY <1>1, VmacParts DEF PacketTypes, AsSent
  <2>2. Fits(packet.class.next_hop, NextHopBits)
    BY ControllersAssumption DEF PacketTypes
  <2>3. q = packet.class.next_hop
    BY <2>1, <2>2, NextHopFacts
  <2> QED BY <1>1, <2>3 DEF MayGet, AsSent, PacketTypes
<1>2. ASSUME NEW r \in Parts, packet.dst = Diverted(r) PROVE q = r
  BY <1>2, DivertedParts, NextHopFacts, FabricAssumption
<1>3. NextHop(q) # {}
  BY NextHopFacts, FabricAssumption
<1>4. ASSUME NEW r \in Parts, NEW i \in 0..(Ports[r] - 1) PROVE packet.dst # PortAddress(r, i)
  BY <1>3, PortAddressParts
<1> QED BY <1>1, <1>2, <1>4

\* A packet in the inbound table.
LEMMA InboundStep ==
    ASSUME FabricInv, PacketOK, Lookup, Between, packet.table = "inbound"
    PROVE  PacketTypes' /\ Returning'
<1>1. PacketTypes /\ packet.visits \in 1..2 /\ InFlight
  BY DEF PacketOK, Between, InFlight, Tables
<1>2. PICK rule \in Found : /\ \A other \in Found : other.priority <= rule.priority
                            /\ Becomes(rule.action)
  BY <1>1, LookupIs, Finds
<1>3. /\ packet'.due = packet.due /\ packet'.allowed = packet.allowed
      /\ packet'.kind = packet.kind /\ packet'.part = packet.part /\ packet'.class = packet.class
      /\ packet'.in_port = FromSwitch.inbound
  BY <1>2 DEF Becomes, FromSwitch
<1>4. \A q : (MayGet(q) => MayGet(q)') /\ PortFor(q)' = PortFor(q)
  BY <1>3 DEF MayGet, PortFor
<1>5. ASSUME NEW q \in HasInbound, NEW i, packet.dst \cap NextHopMask = NextHop(q), i = PortFor(q),
             rule.action = Rewrite(PortAddress(q, i), "main")
      PROVE  PacketTypes' /\ Returning'
  <2>1. MayGet(q)
    BY <1>1, <1>5, AddressedTo, FabricAssumption DEF Between
  <2>2. /\ packet'.table = "main" /\ packet'.visits = packet.visits + 1
        /\ packet'.dst = PortAddress(q, i) /\ rule.action.fwd = "main" /\ rule.action.src = {}
    BY <1>2, <1>5, RewriteBecomes
  <2>3. PacketTypes'
    BY <1>1, <1>2, <2>2, KeptTypes DEF Tables
  <2>4. packet'.dst = PortAddress(q, PortFor(q)') /\ MayGet(q)'
    BY <1>4, <1>5, <2>1, <2>2
  <2> QED BY <1>1, <1>3, <2>2, <2>3, <2>4 DEF Returning
<1>6. CASE ByInboundPolicy(rule)
  <2>1. PICK q \in HasInbound : /\ packet.kind = "web" /\ packet.dst \cap NextHopMask = NextHop(q)
                                /\ rule.action = Rewrite(PortAddress(q, WebPort[q]), "main")
    BY <1>6 DEF ByInboundPolicy
  <2> QED BY <1>5, <2>1 DEF PortFor
<1>7. CASE ByInbound(rule)
  <2>1. PICK q \in HasInbound : /\ packet.dst \cap NextHopMask = NextHop(q)
                                /\ rule.action = Rewrite(PortAddress(q, 0), "main")
    BY <1>7 DEF ByInbound
  <2>2. packet.kind # "web"
    <3>1. rule.priority = 2
      BY <1>7 DEF ByInbound
    <3>2. ASSUME packet.kind = "web" PROVE \E other \in Found : other.priority = 3
      BY <1>1, <2>1, <3>2, Finds
    <3> QED BY <1>2, <3>1, <3>2
  <2> QED BY <1>5, <2>1, <2>2 DEF PortFor
<1>8. CASE ByInboundDefault(rule)
  <2>1. rule.action = Forward("main")
    BY <1>8 DEF ByInboundDefault
  <2>2. /\ packet'.table = "main" /\ packet'.visits = packet.visits + 1 /\ packet'.dst = packet.dst
        /\ rule.action.fwd = "main" /\ rule.action.src = {}
    BY <1>2, <2>1 DEF Becomes, Forward, Set
  <2>3. PacketTypes'
    BY <1>1, <1>2, <2>2, KeptTypes DEF Tables
  <2>4. \A q \in HasInbound : packet.dst \cap NextHopMask # NextHop(q)
    <3>1. rule.priority = 1
      BY <1>8 DEF ByInboundDefault
    <3>2. ASSUME NEW q \in HasInbound, packet.dst \cap NextHopMask = NextHop(q)
          PROVE  \E other \in Found : other.priority = 2
      BY <1>1, <3>2, Finds
    <3> QED BY <1>2, <3>1, <3>2
  <2>5. ASSUME AsSent, packet.visits = 1
        PROVE  AsSent' /\ packet'.visits = 2 /\ packet'.class.next_hop \notin HasInbound
    <3>1. packet.dst \cap NextHopMask = NextHop(packet.class.next_hop)
      BY <1>1, <2>5, VmacParts DEF PacketTypes, AsSent
    <3> QED BY <1>3, <2>2, <2>4, <2>5, <3>1 DEF AsSent
  <2>6. ASSUME NEW q \in Parts, packet.dst = Diverted(q), MayGet(q)
        PROVE  q \in Parts \ HasInbound /\ packet'.dst = Diverted(q) /\ MayGet(q)'
    BY <1>4, <2>2, <2>4, <2>6, DivertedParts
  <2>7. packet'.table = "main" /\ packet'.visits \in 2..3
    BY <1>1, <2>2
  <2> QED BY <1>3, <2>3, <2>5, <2>6, <2>7 DEF Returning, Between
<1>9. ~ByReroute(rule) /\ ~ByOutboundTraffic(rule) /\ ~ByPort(rule) /\ ~ByNextHop(rule)
      /\ ~ByBreakLoop(rule) /\ ~ByInboundBit(rule) /\ ~ByPolicy(rule) /\ ~ByOutboundDefault(rule)
  BY DEF ByReroute, ByOutboundTraffic, ByPort, ByNextHop, ByBreakLoop, ByInboundBit,
         ByPolicy, ByOutboundDefault
<1> QED BY <1>6, <1>7, <1>8, <1>9, FoundMatch
\* A packet that is back at the main switch.
LEMMA ReturningStep ==
    ASSUME FabricInv, PacketOK, Lookup, Returning
    PROVE  /\ PacketTypes'
           /\ Between' \/ Arrived' \/ (packet'.table = "drop" /\ packet'.class.next_hop \notin Parts)
<1>1. /\ PacketTypes /\ ReroutesOK /\ packet.table = "main" /\ packet.visits \in 2..3 /\ InFlight
      /\ packet.in_port = FromSwitch.inbound /\ FromSwitch.inbound = <<0, 2>>
      /\ Receivers(packet, outbound, reroutes) \subseteq packet.allowed
      /\ packet.part \in Parts /\ packet.class \in Classes
  BY DEF FabricInv, PacketOK, Returning, PacketTypes, InFlight, Tables, FromSwitch
<1>2. PICK rule \in Found : /\ \A other \in Found : other.priority <= rule.priority
                            /\ Becomes(rule.action)
  BY <1>1, LookupIs, Finds
<1>3. rule.priority >= 3
  BY <1>1, <1>2, Finds
<1>4. /\ packet'.due = packet.due /\ packet'.allowed = packet.allowed
      /\ packet'.kind = packet.kind /\ packet'.part = packet.part /\ packet'.class = packet.class
  BY <1>1, <1>2 DEF Becomes
<1>5. \A q : (MayGet(q) => MayGet(q)') /\ PortFor(q)' = PortFor(q)
  BY <1>4 DEF MayGet, PortFor
<1>6. \A q \in HasInbound : q \in Parts /\ PortFor(q) \in 0..(Ports[q] - 1)
  BY PortFacts, FabricAssumption DEF PortFor
<1>7. CASE ByReroute(rule)
  <2>1. PICK r \in reroutes : packet.src = <<r.part, r.port>> /\ Sees(r) /\ rule.action = RerouteAction(r)
    BY <1>7 DEF ByReroute
  <2>2. \A q \in Parts : /\ packet.dst # Diverted(q)
                         /\ \A i \in 0..(Ports[q] - 1) : packet.dst # PortAddress(q, i)
    BY <1>1, <2>1, SeesNoOther
  <2>3. AsSent /\ packet.visits = 2
    BY <1>6, <2>2 DEF Returning
  <2>4. r.part = packet.part /\ r.backup \in Parts
    BY <1>1, <2>1 DEF PacketTypes, PortsOf, ReroutesOK
  <2>5. Concerns(r, packet)
    BY <1>1, <2>1, <2>3, <2>4, SeesConcerned DEF AsSent
  <2>6. r.backup \in packet.allowed
    BY <1>1, <2>5 DEF Receivers
  <2>7. rule.action = Rewrite(Diverted(r.backup), "outbound")
    BY <2>1 DEF RerouteAction, Diverted
  <2>8. /\ packet'.table = "outbound" /\ packet'.visits = 2 /\ packet'.dst = Diverted(r.backup)
        /\ rule.action.fwd = "outbound" /\ rule.action.src = {}
    BY <1>2, <2>3, <2>7, RewriteBecomes
  <2>9. PacketTypes'
    BY <1>1, <1>2, <2>8, KeptTypes DEF Tables
  <2>10. MayGet(r.backup)'
    BY <1>4, <2>3, <2>4, <2>6 DEF MayGet, AsSent
  <2> QED BY <2>4, <2>8, <2>9, <2>10 DEF Between
<1>8. CASE ByOutboundTraffic(rule)
  <2>1. 0 \in Parts
    BY <1>1, <1>8, PortFacts DEF ByOutboundTraffic
  <2> QED BY <2>1, FabricAssumption
<1>9. ASSUME NEW q \in Parts, NEW i, i = PortFor(q), rule.action = Output(q, i), MayGet(q)
      PROVE  PacketTypes' /\ Arrived'
  <2>1. /\ rule.action.fwd = "out" /\ rule.action.src = {}
        /\ rule.action.dst = {} /\ rule.action.out = {<<q, i>>}
    BY <1>9 DEF Output, Forward
  <2>2. packet'.table = "out" /\ packet'.visits = packet.visits /\ packet'.out = {<<q, i>>}
    BY <1>2, <2>1 DEF Becomes
  <2>3. PacketTypes'
    BY <1>1, <1>2, <2>1, <2>2, KeptTypes
  <2>4. MayGet(q)' /\ PortFor(q)' = i
    BY <1>5, <1>9
  <2> QED BY <2>2, <2>3, <2>4 DEF Arrived
<1>10. CASE ByPort(rule)
  <2>0. PICK q \in HasInbound : \E i \in 0..(Ports[q] - 1) :
          packet.dst \cap PortMask = PortAddress(q, i) /\ rule.action = Output(q, i)
    BY <1>10 DEF ByPort
  <2>1. PICK i \in 0..(Ports[q] - 1) :
          packet.dst \cap PortMask = PortAddress(q, i) /\ rule.action = Output(q, i)
    BY <2>0
  <2>2. q \in Parts
    BY FabricAssumption
  <2>3. ~(InboundBit \subseteq packet.dst)
    BY <2>1, <2>2, InboundIsNoPort
  <2>4. ~AsSent /\ \A r \in Parts : packet.dst # Diverted(r)
    BY <1>1, <2>3, VmacParts, DivertedParts DEF AsSent, PacketTypes
  <2>5. PICK r \in HasInbound : packet.dst = PortAddress(r, PortFor(r)) /\ MayGet(r)
    BY <2>4 DEF Returning
  <2>6. q = r /\ i = PortFor(r)
    <3>1. packet.dst \cap PortMask = PortAddress(r, PortFor(r))
      BY <1>6, <2>5, PortAddressParts
    <3>2. PortAddress(q, i) = PortAddress(r, PortFor(r)) /\ r \in Parts
          /\ PortFor(r) \in 0..(Ports[r] - 1)
      BY <1>6, <2>1, <3>1
    <3>3. \A s \in Parts : \A j \in 0..(Ports[s] - 1) : PortAddress(q, i) = PortAddress(s, j) => q = s /\ i = j
      BY <2>2, PortAddressParts
    <3> QED BY ONLY <3>2, <3>3
  <2> QED BY <1>9, <2>1, <2>2, <2>5, <2>6
<1>11. CASE ByNextHop(rule)
  <2>1. PICK q \in Parts \ HasInbound : packet.dst \cap NextHopMask = NextHop(q) /\ rule.action = Output(q, 0)
    BY <1>11 DEF ByNextHop
  <2>2. MayGet(q)
    BY <1>1, <1>6, <2>1, AddressedTo DEF Returning
  <2> QED BY <1>9, <2>1, <2>2 DEF PortFor
<1>12. CASE ByBreakLoop(rule)
  <2>1. ASSUME NEW other \in Found PROVE other.priority # 4
    BY <1>2, <1>12, <2>1 DEF ByBreakLoop
  <2>2. \A q \in Parts \ HasInbound : packet.dst # Diverted(q)
    BY <1>1, <2>1, DivertedParts, Finds
  <2>3. \A q \in HasInbound : packet.dst # PortAddress(q, PortFor(q))
    BY <1>1, <1>6, <2>1, PortAddressParts, Finds
  <2>4. AsSent /\ packet.class.next_hop \notin HasInbound
    BY <2>2, <2>3 DEF Returning
  <2>5. packet.dst \cap NextHopMask = NextHop(packet.class.next_hop)
    BY <1>1, <2>4, VmacParts DEF AsSent, PacketTypes
  <2>6. packet.class.next_hop \notin Parts
    BY <1>1, <2>1, <2>4, <2>5, Finds
  <2>7. rule.action.fwd = "drop" /\ rule.action.src = {} /\ rule.action.dst = {}
    BY <1>12 DEF ByBreakLoop, Drop, Forward
  <2>8. packet'.table = "drop" /\ packet'.visits = packet.visits
    BY <1>2, <2>7 DEF Becomes
  <2>9. PacketTypes'
    BY <1>1, <1>2, <2>7, <2>8, KeptTypes
  <2> QED BY <1>4, <2>6, <2>8, <2>9
<1>13. /\ ~ByInboundBit(rule) /\ ~ByPolicy(rule) /\ ~ByOutboundDefault(rule)
       /\ ~ByInboundPolicy(rule) /\ ~ByInbound(rule) /\ ~ByInboundDefault(rule)
  BY <1>1, <1>3 DEF ByInboundBit, ByPolicy, ByOutboundDefault, ByInboundPolicy, ByInbound, ByInboundDefault
<1> QED BY <1>7, <1>8, <1>10, <1>11, <1>12, <1>13, FoundMatch
-----------------------------------------------------------------------------
(* Steps *)

\* Who may get a packet is a matter of its sender, kind and class, and of the rules.
LEMMA ReceiversSame ==
    ASSUME NEW p, NEW q, NEW out, NEW re, p.part = q.part, p.kind = q.kind, p.class = q.class
    PROVE  Receivers(p, out, re) = Receivers(q, out, re)
BY DEF Receivers, Concerns

LEMMA ReceiversFewer ==
    ASSUME NEW p, NEW out, NEW re, NEW less \in SUBSET out, NEW fewer \in SUBSET re
    PROVE  Receivers(p, less, fewer) \subseteq Receivers(p, out, re)
BY DEF Receivers

LEMMA LookupKeeps ==
    ASSUME FabricInv, Lookup
    PROVE  FabricInv'
<1>1. PacketOK /\ InFlight
  <2>1. InFlight
    BY DEF Lookup
  <2>2. packet # NoPacket
    BY <2>1 DEF InFlight, NoPacket, Tables
  <2> QED BY <2>1, <2>2 DEF FabricInv
<1>2. PacketTypes
  BY <1>1 DEF PacketOK
<1>3. UNCHANGED <<outbound, reroutes>>
  BY <1>2, LookupIs
<1>4. /\ packet'.allowed = packet.allowed /\ packet'.part = packet.part
      /\ packet'.kind = packet.kind /\ packet'.class = packet.class
  BY <1>2, LookupIs DEF Becomes
<1>5. Receivers(packet, outbound, reroutes)' \subseteq packet'.allowed
  <2>1. Receivers(packet', outbound, reroutes) = Receivers(packet, outbound, reroutes)
    BY <1>4, ReceiversSame
  <2> QED BY <1>1, <1>3, <1>4, <2>1 DEF PacketOK
<1>6. /\ PacketTypes'
      /\ \/ Between' \/ Returning' \/ Arrived'
         \/ packet'.table = "drop" /\ packet'.class.next_hop \notin Parts
  <2>1. CASE Entering
    BY <1>1, <2>1, EnteringStep
  <2>2. CASE Between /\ packet.table = "outbound"
    BY <1>1, <2>2, OutboundStep
  <2>3. CASE Between /\ packet.table = "inbound"
    BY <1>1, <2>3, InboundStep
  <2>4. CASE Returning
    BY <1>1, <2>4, ReturningStep
  <2>5. Entering \/ Between \/ Returning
    BY <1>1 DEF PacketOK, Arrived, InFlight, Tables
  <2>6. Between => packet.table \in {"outbound", "inbound"}
    BY DEF Between
  <2> QED BY <2>1, <2>2, <2>3, <2>4, <2>5, <2>6
<1>7. PacketOK'
  BY <1>5, <1>6 DEF PacketOK
<1> QED BY <1>3, <1>7 DEF FabricInv, ReroutesOK

\* A packet stays all right while only the rules, and who may get it, change.
LEMMA OnItsWay ==
    ASSUME PacketOK, DOMAIN packet' = DOMAIN packet,
           packet'.table = packet.table, packet'.in_port = packet.in_port, packet'.src = packet.src,
           packet'.dst = packet.dst, packet'.part = packet.part, packet'.kind = packet.kind,
           packet'.class = packet.class, packet'.visits = packet.visits, packet'.out = packet.out,
           packet'.due = packet.due, packet.allowed \subseteq packet'.allowed,
           InFlight => Receivers(packet, outbound', reroutes') \subseteq packet'.allowed
    PROVE  PacketOK'
<1>1. PacketTypes'
  BY DEF PacketOK, PacketTypes
<1>2. Receivers(packet, outbound, reroutes)' = Receivers(packet, outbound', reroutes')
  BY ReceiversSame
<1>3. /\ \A q : (MayGet(q) => MayGet(q)') /\ PortFor(q)' = PortFor(q)
      /\ AsSent => AsSent'
      /\ InFlight' <=> InFlight
  BY DEF MayGet, PortFor, AsSent, InFlight
<1>4. Entering => Entering'
  BY <1>3 DEF Entering
<1>5. Between => Between'
  BY <1>3 DEF Between
<1>6. Returning => Returning'
  BY <1>3 DEF Returning
<1>7. Arrived => Arrived'
  BY <1>3 DEF Arrived
<1> QED BY <1>1, <1>2, <1>3, <1>4, <1>5, <1>6, <1>7 DEF PacketOK

\* New rules.
LEMMA MeanwhileKeeps ==
    ASSUME FabricInv, outbound' \subseteq Policies, ReroutesOK',
           packet' = Meanwhile(outbound', reroutes')
    PROVE  FabricInv'
<1>1. CASE InFlight
  <2>1. PacketOK
    BY <1>1 DEF FabricInv, NoPacket, InFlight, Tables
  <2>2. packet' = [packet EXCEPT !.allowed = @ \cup Receivers(packet, outbound', reroutes')]
    BY <1>1 DEF Meanwhile
  <2>3. DOMAIN packet = {"table", "in_port", "src", "dst", "part", "kind", "class", "visits",
                         "out", "allowed", "due"}
    BY <2>1 DEF PacketOK, PacketTypes
  <2>4. /\ DOMAIN packet' = DOMAIN packet
        /\ packet'.table = packet.table /\ packet'.in_port = packet.in_port /\ packet'.src = packet.src
        /\ packet'.dst = packet.dst /\ packet'.part = packet.part /\ packet'.kind = packet.kind
        /\ packet'.class = packet.class /\ packet'.visits = packet.visits /\ packet'.out = packet.out
        /\ packet'.due = packet.due
        /\ packet'.allowed = packet.allowed \cup Receivers(packet, outbound', reroutes')
    BY ONLY <2>2, <2>3
  <2>5. PacketOK'
    BY <2>1, <2>4, OnItsWay
  <2> QED BY <2>5 DEF FabricInv
<1>2. CASE ~InFlight
  <2>1. packet' = packet
    BY <1>2 DEF Meanwhile
  <2>2. PacketOK => PacketOK'
    BY <1>2, <2>1, OnItsWay
  <2> QED BY <2>1, <2>2 DEF FabricInv, NoPacket
<1> QED BY <1>1, <1>2

\* Fewer rules.
LEMMA FewerKeeps ==
    ASSUME FabricInv, outbound' \subseteq outbound, reroutes' \subseteq reroutes, packet' = packet
    PROVE  FabricInv'
<1>1. ASSUME PacketOK PROVE PacketOK'
  <2>1. Receivers(packet, outbound', reroutes') \subseteq Receivers(packet, outbound, reroutes)
    BY ReceiversFewer
  <2>2. InFlight => Receivers(packet, outbound', reroutes') \subseteq packet'.allowed
    BY <1>1, <2>1 DEF PacketOK
  <2> QED BY <1>1, <2>2, OnItsWay
<1>2. ReroutesOK'
  BY DEF FabricInv, ReroutesOK
<1> QED BY <1>1, <1>2 DEF FabricInv, NoPacket

LEMMA SendKeeps ==
    ASSUME FabricInv, NEW port \in AllPorts, NEW kind \in Kinds, NEW c \in Classes, Send(port, kind, c)
    PROVE  FabricInv'
<1> DEFINE p == [part |-> port[1], kind |-> kind, class |-> c]
<1>1. /\ port[1] # c.next_hop /\ \A d \in DOMAIN c.backups : c.backups[d] # port[1]
      /\ packet' = [table |-> "main", in_port |-> port, src |-> port, dst |-> Vmac(port[1], c),
                    part |-> port[1], kind |-> kind, class |-> c, visits |-> 1, out |-> {},
                    allowed |-> Receivers(p, outbound, reroutes), due |-> {}]
      /\ UNCHANGED <<outbound, reroutes>>
  BY DEF Send
<1>2. port[1] \in Parts /\ port \in PortsOf(port[1])
  BY PortFacts DEF PortsOf
<1>3. /\ packet'.part = p.part /\ packet'.kind = p.kind /\ packet'.class = p.class
      /\ packet'.allowed = Receivers(p, outbound, reroutes) /\ c.next_hop \in packet'.allowed
  BY <1>1 DEF Receivers
<1>4. Receivers(packet, outbound, reroutes)' \subseteq packet'.allowed
  <2>1. Receivers(packet', outbound, reroutes) = Receivers(p, outbound, reroutes)
    BY ONLY <1>3, ReceiversSame
  <2> QED BY <1>1, <1>3, <2>1
<1>5. PacketTypes'
  BY <1>1, <1>2, <1>3 DEF PacketTypes, Tables
<1>6. Entering'
  BY <1>1 DEF Entering, AsSent
<1> QED BY <1>1, <1>4, <1>5, <1>6 DEF FabricInv, PacketOK, ReroutesOK

LEMMA FastRerouteKeeps ==
    ASSUME FabricInv, NEW f \in Failures, FastReroute(f)
    PROVE  FabricInv'
<1>1. ASSUME NEW r \in reroutes'
      PROVE  /\ {r.part, r.peer, r.backup} \subseteq Parts /\ r.backup \notin {r.part, r.peer}
             /\ r.link.depth \in 1..MaxDepth
             /\ r.link.mask \subseteq PathBits /\ r.link.value \subseteq r.link.mask
  <2>1. CASE r \in reroutes
    BY <2>1 DEF FabricInv, ReroutesOK
  <2>2. CASE r \notin reroutes
    <3>1. \E port \in PortsOf(f.part), b \in Parts \ {f.part, f.peer} :
            r = [part |-> f.part, port |-> port[2], peer |-> f.peer, backup |-> b, link |-> f.link]
      BY <2>2 DEF FastReroute
    <3>2. r.part = f.part /\ r.peer = f.peer /\ r.link = f.link /\ r.backup \in Parts \ {f.part, f.peer}
      BY <3>1
    <3> QED BY <3>2, ControllersAssumption
  <2> QED BY <2>1, <2>2
<1>2. ReroutesOK'
  BY <1>1 DEF ReroutesOK
<1> QED BY <1>2, MeanwhileKeeps DEF FastReroute, FabricInv

\* The inductive invariant.
THEOREM FabricInvariant == Spec => []FabricInv
<1>1. Init => FabricInv
  BY DEF Init, FabricInv, ReroutesOK
<1>2. FabricInv /\ [Next]_vars => FabricInv'
  <2> SUFFICES ASSUME FabricInv, [Next]_vars PROVE FabricInv'
    OBVIOUS
  <2>1. CASE \E port \in AllPorts, kind \in Kinds, c \in Classes : Send(port, kind, c)
    BY <2>1, SendKeeps
  <2>2. CASE Lookup
    BY <2>2, LookupKeeps
  <2>3. ASSUME NEW x \in Policies, InstallPolicy(x) PROVE FabricInv'
    BY <2>3, MeanwhileKeeps DEF InstallPolicy, FabricInv, ReroutesOK
  <2>4. ASSUME NEW x \in Policies, RemovePolicy(x) PROVE FabricInv'
    BY <2>4, FewerKeeps DEF RemovePolicy
  <2>5. CASE \E f \in Failures : FastReroute(f)
    BY <2>5, FastRerouteKeeps
  <2>6. CASE \E r \in reroutes : Expire(r)
    BY <2>6, FewerKeeps DEF Expire
  <2>7. CASE UNCHANGED vars
    BY <2>7, FewerKeeps DEF vars
  <2> QED BY <2>1, <2>2, <2>3, <2>4, <2>5, <2>6, <2>7 DEF Next
<1> QED BY <1>1, <1>2, PTL DEF Spec

\* A packet leaves, at the port the inbound policy chooses, at its next hop, where a
\* policy of the sender sends it, or at a backup for a failure its controller was told.
THEOREM PacketsArriveAsIntended == Spec => []DeliveredAsIntended
<1>1. FabricInv => DeliveredAsIntended
  <2> SUFFICES ASSUME FabricInv, packet.table = "out"
               PROVE  \E port \in packet.out :
                        /\ port[1] \in packet.allowed
                        /\ port[2] = IF port[1] \in HasInbound /\ packet.kind = "web" THEN WebPort[port[1]] ELSE 0
    BY DEF DeliveredAsIntended
  <2>1. Arrived
    BY DEF FabricInv, PacketOK, NoPacket, Entering, Between, Returning
  <2>2. PICK q \in Parts : packet.out = {<<q, PortFor(q)>>} /\ MayGet(q)
    BY <2>1 DEF Arrived
  <2> QED BY <2>2 DEF MayGet, PortFor
<1> QED BY <1>1, FabricInvariant, PTL

\* A packet that met rerouting rules for it gets to a backup of one of them, whatever
\* policies there are and whatever rules come and go behind its back.
THEOREM ReroutedPacketsArrive == Spec => []RerouteHolds
<1>1. FabricInv => RerouteHolds
  <2> SUFFICES ASSUME FabricInv, packet.table = "out", packet.due # {}
               PROVE  \E port \in packet.out, r \in packet.due : port[1] = r.backup
    BY DEF RerouteHolds
  <2>1. Arrived
    BY DEF FabricInv, PacketOK, NoPacket, Entering, Between, Returning
  <2>2. PICK q \in Parts : packet.out = {<<q, PortFor(q)>>} /\ MayGet(q)
    BY <2>1 DEF Arrived
  <2>3. PICK r \in packet.due : r.backup = q
    BY <2>2 DEF MayGet
  <2> QED BY <2>2, <2>3
<1> QED BY <1>1, FabricInvariant, PTL

\* Only packets to somebody who is not at the exchange are dropped: the rule against loops
\* and the lack of a rule hit no other.
THEOREM OnlyFalseAreDropped == Spec => []OnlyFalseIsDropped
<1>1. FabricInv => OnlyFalseIsDropped
  BY DEF FabricInv, PacketOK, NoPacket, Entering, Between, Returning, Arrived, OnlyFalseIsDropped
<1> QED BY <1>1, FabricInvariant, PTL

\* A packet sees the main switch three times at most, however many tables of other
\* participants' rules it passes.
THEOREM PacketsDoNotLoop == Spec => []NeverLoops
<1>1. FabricInv => NeverLoops
  BY DEF FabricInv, PacketOK, PacketTypes, NeverLoops
<1> QED BY <1>1, FabricInvariant, PTL
=============================================================================
