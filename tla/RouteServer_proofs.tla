------------------------- MODULE RouteServer_proofs -------------------------
(***************************************************************************)
(* Proofs about RouteServer: what the controllers hear, from whom and in   *)
(* which order, and that the sender thread survives what it is given, for  *)
(* any participants, peerings, ports, prefixes and connections, any        *)
(* encoding threshold and any number of updates, failures and reconnects;  *)
(* first, that the registration tables of Sessions stay consistent.        *)
(***************************************************************************)
EXTENDS RouteServer, SequenceTheorems, FiniteSetTheorems, TLAPS

-----------------------------------------------------------------------------
(* Sessions: the registration tables stay consistent *)

\* The connection the listener is admitting has no running thread yet.
AcceptorWaits == acceptor # NoConn => conn[acceptor] = "accepted"

\* The inductive invariant: the consistency of the tables needs to know that
\* starting a thread revives no finished connection.
Inv ==
    /\ TypeOK
    /\ AcceptorWaits
    /\ RepresentedByUncleaned
    /\ PortsOfRegistered
    /\ PortsLostOnlyToOldSession

LEMMA InitInv == Init => Inv
  BY SessionAssumption
     DEF Init, Inv, TypeOK, AcceptorWaits, RepresentedByUncleaned, PortsOfRegistered,
         PortsLostOnlyToOldSession, Broken

\* A step that only moves one connection through its life, to another state than
\* "gone" and from another state than that, leaves the tables as consistent as
\* they were.
LEMMA ConnStep ==
  ASSUME Inv,
         NEW c \in Conns,
         NEW s \in {"accepted", "open", "deaf", "broken", "closed", "retired", "lost"},
         conn[c] # "gone",
         s = "accepted" => conn[c] = "new",
         conn' = [conn EXCEPT ![c] = s],
         UNCHANGED <<helloed, participants, portip2participant>>
  PROVE  /\ RepresentedByUncleaned'
         /\ PortsOfRegistered'
         /\ PortsLostOnlyToOldSession'
  <1> USE DEF Inv
  <1>1. conn \in [Conns -> {"new", "accepted"} \cup Live \cup Broken]
    BY DEF TypeOK
  <1>2. conn'[c] = s /\ \A d \in Conns : d # c => conn'[d] = conn[d]
    BY <1>1
  <1>3. RepresentedByUncleaned'
    <2>1. SUFFICES ASSUME NEW p \in Participants, participants[p] # NoConn
                   PROVE  /\ ConnOf[participants[p]] = p
                          /\ participants[p] \in helloed
                          /\ conn'[participants[p]] \notin {"new", "accepted", "gone"}
      BY DEF RepresentedByUncleaned
    <2>2. /\ participants[p] \in Conns
          /\ ConnOf[participants[p]] = p
          /\ participants[p] \in helloed
          /\ conn[participants[p]] \notin {"new", "accepted", "gone"}
      BY <2>1 DEF TypeOK, RepresentedByUncleaned
    <2> QED BY <1>2, <2>2
  <1>4. PortsOfRegistered'
    BY DEF PortsOfRegistered
  <1>5. PortsLostOnlyToOldSession'
    BY <1>2 DEF PortsLostOnlyToOldSession, TypeOK
  <1> QED BY <1>3, <1>4, <1>5

LEMMA NextInv == Inv /\ [SessionNext]_sessionVars => Inv'
  <1> SUFFICES ASSUME Inv, [SessionNext]_sessionVars PROVE Inv'
    OBVIOUS
  <1> USE DEF Inv
  <1>1. CASE UNCHANGED sessionVars
    BY <1>1 DEF sessionVars, TypeOK, AcceptorWaits, RepresentedByUncleaned,
       PortsOfRegistered, PortsLostOnlyToOldSession
  <1>2. CASE StartThread
    <2>1. TypeOK' /\ AcceptorWaits'
      BY <1>2 DEF StartThread, TypeOK, AcceptorWaits, Live
    <2>2. /\ acceptor \in Conns /\ conn[acceptor] # "gone"
          /\ conn' = [conn EXCEPT ![acceptor] = "open"]
          /\ UNCHANGED <<helloed, participants, portip2participant>>
      BY <1>2 DEF StartThread, TypeOK, AcceptorWaits
    <2> QED BY <2>1, <2>2, ConnStep
  <1>3. ASSUME NEW c \in Conns, Accept(c) PROVE Inv'
    <2>1. TypeOK' /\ AcceptorWaits'
      BY <1>3 DEF Accept, TypeOK, AcceptorWaits
    <2>2. /\ conn[c] = "new"
          /\ conn' = [conn EXCEPT ![c] = "accepted"]
          /\ UNCHANGED <<helloed, participants, portip2participant>>
      BY <1>3 DEF Accept
    <2> QED BY <2>1, <2>2, ConnStep
  <1>4. ASSUME NEW c \in Conns, Crash(c) PROVE Inv'
    <2>1. TypeOK' /\ AcceptorWaits'
      BY <1>4 DEF Crash, TypeOK, AcceptorWaits, Broken, Live
    <2>2. /\ conn[c] # "gone"
          /\ conn' = [conn EXCEPT ![c] = "broken"]
          /\ UNCHANGED <<helloed, participants, portip2participant>>
      BY <1>4 DEF Crash, Live
    <2> QED BY <2>1, <2>2, ConnStep
  <1>9. ASSUME NEW c \in Conns, Hang(c) PROVE Inv'
    <2>1. TypeOK' /\ AcceptorWaits'
      BY <1>9 DEF Hang, TypeOK, AcceptorWaits, Live
    <2>2. /\ conn[c] # "gone"
          /\ conn' = [conn EXCEPT ![c] = "deaf"]
          /\ UNCHANGED <<helloed, participants, portip2participant>>
      BY <1>9 DEF Hang
    <2> QED BY <2>1, <2>2, ConnStep
  <1>10. ASSUME NEW c \in Conns, Abort(c) PROVE Inv'
    <2>1. TypeOK' /\ AcceptorWaits'
      BY <1>10 DEF Abort, TypeOK, AcceptorWaits, Broken
    <2>2. /\ conn[c] # "gone"
          /\ conn' = [conn EXCEPT ![c] = "lost"]
          /\ UNCHANGED <<helloed, participants, portip2participant>>
      BY <1>10 DEF Abort
    <2> QED BY <2>1, <2>2, ConnStep
  <1>5. ASSUME NEW c \in Conns, Close(c) PROVE Inv'
    <2>1. TypeOK' /\ AcceptorWaits'
      BY <1>5 DEF Close, TypeOK, AcceptorWaits, Broken
    <2>2. /\ conn[c] # "gone"
          /\ conn' = [conn EXCEPT ![c] = "closed"]
          /\ UNCHANGED <<helloed, participants, portip2participant>>
      BY <1>5 DEF Close
    <2> QED BY <2>1, <2>2, ConnStep
  <1>6. ASSUME NEW c \in Conns, Retire(c) PROVE Inv'
    <2>1. TypeOK' /\ AcceptorWaits'
      BY <1>6 DEF Retire, TypeOK, AcceptorWaits, Broken
    <2>2. /\ conn[c] # "gone"
          /\ conn' = [conn EXCEPT ![c] = "retired"]
          /\ UNCHANGED <<helloed, participants, portip2participant>>
      BY <1>6 DEF Retire
    <2> QED BY <2>1, <2>2, ConnStep
  <1>7. ASSUME NEW c \in Conns, Hello(c) PROVE Inv'
    <2>1. TypeOK'
      BY <1>7, SessionAssumption DEF Hello, TypeOK
    <2>2. AcceptorWaits'
      BY <1>7 DEF Hello, AcceptorWaits
    <2>3. /\ ConnOf[c] \in Participants
          /\ participants'[ConnOf[c]] = c
          /\ \A p \in Participants : p # ConnOf[c] => participants'[p] = participants[p]
      BY <1>7, SessionAssumption DEF Hello, TypeOK
    <2>4. RepresentedByUncleaned'
      BY <1>7, <2>3 DEF Hello, RepresentedByUncleaned, Live
    <2>5. PortsOfRegistered'
      BY <1>7, <2>3, SessionAssumption DEF Hello, PortsOfRegistered, TypeOK
    <2>6. PortsLostOnlyToOldSession'
      BY <1>7, <2>3, SessionAssumption DEF Hello, PortsLostOnlyToOldSession, TypeOK
    <2> QED BY <2>1, <2>2, <2>4, <2>5, <2>6
  <1>8. ASSUME NEW c \in Conns, Unregister(c) PROVE Inv'
    <2>1. TypeOK'
      BY <1>8 DEF Unregister, TypeOK, Broken
    <2>2. AcceptorWaits'
      BY <1>8 DEF Unregister, AcceptorWaits, TypeOK
    <2>3. /\ conn'[c] = "gone"
          /\ \A d \in Conns : d # c => conn'[d] = conn[d]
          /\ \A p \in Participants :
               participants'[p] = IF participants[p] = c THEN NoConn ELSE participants[p]
      BY <1>8 DEF Unregister, TypeOK
    <2>4. RepresentedByUncleaned'
      BY <1>8, <2>3 DEF Unregister, RepresentedByUncleaned, TypeOK
    <2>5. PortsOfRegistered'
      BY <1>8, <2>3, SessionAssumption DEF Unregister, PortsOfRegistered, RepresentedByUncleaned, TypeOK
    <2>6. PortsLostOnlyToOldSession'
      BY <1>8, <2>3, SessionAssumption
         DEF Unregister, PortsLostOnlyToOldSession, PortsOfRegistered, TypeOK
    <2> QED BY <2>1, <2>2, <2>4, <2>5, <2>6
  <1> QED
    BY <1>1, <1>2, <1>3, <1>4, <1>5, <1>6, <1>7, <1>8, <1>9, <1>10 DEF SessionNext

\* The inductive invariant holds in every reachable state.
THEOREM SessionsInductive == Spec => []Inv
  BY InitInv, NextInv, PTL DEF Spec

\* The registration tables and the connections keep their types.
THEOREM SessionsTypeOK == Spec => []TypeOK
  BY SessionsInductive, PTL DEF Inv

\* Whoever the sender finds in `participants` said hello and was not cleaned up.
THEOREM RepresentativesAreUncleaned == Spec => []RepresentedByUncleaned
  BY SessionsInductive, PTL DEF Inv

\* A known port always leads to a represented participant.
THEOREM LookupsAgree == Spec => []PortsOfRegistered
  BY SessionsInductive, PTL DEF Inv

\* Only the cleanup of an earlier session makes a represented participant's ports
\* unknown.
THEOREM LostPorts == Spec => []PortsLostOnlyToOldSession
  BY SessionsInductive, PTL DEF Inv

-----------------------------------------------------------------------------
(* Induction *)

\* A set that holds 0 and with a number the next one holds all of them: otherwise
\* the successor would map the members up to a missing one into fewer.
LEMMA NatSetInduction ==
    ASSUME NEW S, 0 \in S, \A n \in Nat : n \in S => n + 1 \in S
    PROVE  Nat \subseteq S
<1> SUFFICES ASSUME NEW n \in Nat, n \notin S PROVE FALSE OBVIOUS
<1> DEFINE B == {i \in 0..n : i \in S}
           f == [i \in B |-> i + 1]
<1>1. IsFiniteSet(B) /\ 0 \in B /\ n \notin B
  <2>1. IsFiniteSet(0..n) /\ B \subseteq 0..n
    BY FS_Interval
  <2> QED BY <2>1, FS_Subset
<1>2. f \in [B -> B \ {0}]
  BY <1>1
<1>3. IsFiniteSet(B \ {0}) /\ Cardinality(B \ {0}) < Cardinality(B)
  <2> HIDE DEF B
  <2>1. /\ IsFiniteSet(B \ {0}) /\ Cardinality(B \ {0}) = Cardinality(B) - 1
        /\ Cardinality(B) \in Nat
    BY <1>1, FS_RemoveElement, FS_CardinalityType
  <2> QED BY <2>1
<1>4. \E x, y \in B : x # y /\ f[x] = f[y]
  <2> HIDE DEF B, f
  <2> QED BY <1>1, <1>2, <1>3, FS_PigeonHole
<1> QED BY <1>4

LEMMA NatMinimum ==
    ASSUME NEW T \in SUBSET Nat, T # {}
    PROVE  \E x \in T : \A y \in T : x <= y
<1> SUFFICES ASSUME \A x \in T : \E y \in T : ~(x <= y) PROVE FALSE OBVIOUS
<1> DEFINE S == {n \in Nat : \A y \in T : n <= y}
<1>1. 0 \in S
  OBVIOUS
<1>2. \A n \in Nat : n \in S => n + 1 \in S
  <2> SUFFICES ASSUME NEW n \in Nat, n \in S, NEW y \in T PROVE n + 1 <= y
    OBVIOUS
  <2>1. n \notin T /\ n <= y /\ y \in Nat
    OBVIOUS
  <2> QED BY <2>1
<1>3. Nat \subseteq S
  <2> HIDE DEF S
  <2> QED BY <1>1, <1>2, NatSetInduction
<1>4. PICK t \in T : TRUE
  OBVIOUS
<1>5. t \in Nat /\ t + 1 \in S
  BY <1>3
<1> QED BY <1>5

LEMMA IntervalMaximum ==
    ASSUME NEW m \in Nat, NEW T \in SUBSET (1..m), T # {}
    PROVE  \E x \in T : \A y \in T : y <= x
<1> DEFINE D == {m - x : x \in T}
<1>0. \A x \in T : x \in Int /\ x <= m
  OBVIOUS
<1>1. D \in SUBSET Nat /\ D # {}
  <2>1. \A x \in T : m - x \in Nat
    BY <1>0
  <2> QED BY <2>1
<1>2. PICK d \in D : \A e \in D : d <= e
  <2> HIDE DEF D
  <2> QED BY <1>1, NatMinimum
<1>3. PICK x \in T : d = m - x
  OBVIOUS
<1>4. \A y \in T : m - x <= m - y
  BY <1>2, <1>3
<1>5. \A y \in T : y <= x
  BY <1>4
<1> QED BY <1>5

-----------------------------------------------------------------------------
(* Types *)

Routes == [kind : {"announce", "withdraw"}, port : Ports, prefix : Prefixes, n : Nat]
Downs == [kind : {"down"}, port : Ports, n : Nat]
FRs == [kind : {"FR"}, peer : Participants]
Messages == Routes \cup Downs \cup FRs
FromExaBGP == [port : Ports, state : {"up", "down"}, announce : SUBSET Prefixes,
               withdraw : SUBSET Prefixes, n : Nat]
SwiftThreads == [status : {"none", "running", "dead"}, rib : SUBSET Prefixes,
                 encoded : BOOLEAN, unsent : Seq(Routes), withdrawals : Nat,
                 out : Seq(Routes)]

\* The sender has a message in hand for the connections in sender.found.
Sending ==
    /\ sender = [status |-> "sending", route |-> sender.route, found |-> sender.found]
    /\ sender.route \in Messages
    /\ sender.found \subseteq Conns

PipelineTypeOK ==
    /\ issued \in Nat
    /\ advertised \in [Ports -> SUBSET Prefixes]
    /\ latest \in [Ports -> [Prefixes -> Nat]]
    /\ unread \in [Ports -> SUBSET Prefixes]
    /\ wentDown \in [Ports -> Nat]
    /\ receiver_queue \in Seq(FromExaBGP)
    /\ peer_queue_dict \in [Participants -> Seq(Routes)]
    /\ swift \in [Participants -> SwiftThreads]
    /\ peer_queue \in Seq(Routes \cup Downs)
    /\ FR_queue \in Seq(FRs)
    /\ sender \in {Idle, Dead} \/ Sending
    /\ inbox \in [Conns -> Seq(Messages)]
    /\ since \in [Participants -> Nat]

LEMMA SameCardinality == ASSUME NEW S PROVE Seqs!Cardinality(S) = Cardinality(S)
BY DEF Cardinality, Seqs!Cardinality

\* The routes of an UPDATE, by their fields; withdrawals are dropped when there are
\* announcements, nothing else is.
LEMMA UpdatesAre ==
    ASSUME NEW u \in FromExaBGP, NEW routes \in Updates(u)
    PROVE  /\ routes \in Seq(Routes)
           /\ \A i \in DOMAIN routes :
                /\ routes[i].port = u.port /\ routes[i].n = u.n
                /\ routes[i].prefix \in u.announce \cup u.withdraw
           /\ \A p \in Prefixes : p \in u.announce \/ (u.announce = {} /\ p \in u.withdraw) =>
                \E i \in DOMAIN routes : routes[i].prefix = p
<1> DEFINE A == IF u.announce # {} THEN u.announce ELSE u.withdraw
           D == 1..Cardinality(A)
<1>1. u.port \in Ports /\ u.n \in Nat /\ A \subseteq Prefixes
  BY DEF FromExaBGP
<1>2. IsFiniteSet(A) /\ Cardinality(A) \in Nat
  BY <1>1, PipelineAssumption, FS_Subset, FS_CardinalityType
<1>3. PICK s \in [D -> A] :
        /\ \A i, j \in D : i # j => s[i] # s[j]
        /\ DOMAIN routes = D
        /\ \/ \A i \in D : routes[i] = Announced(u.port, s[i], u.n)
           \/ \A i \in D : routes[i] = Withdrawn(u.port, s[i], u.n)
        /\ routes = [i \in D |-> routes[i]]
  <2>1. CASE u.announce # {}
    <3>1. PICK s \in Seqs!SetToSeqs(u.announce) :
             routes = [i \in DOMAIN s |-> Announced(u.port, s[i], u.n)]
      BY <2>1 DEF Updates
    <3>2. s \in [D -> A] /\ \A i, j \in D : i # j => s[i] # s[j]
      BY <2>1, <3>1, SameCardinality DEF Seqs!SetToSeqs
    <3> QED BY <3>1, <3>2
  <2>2. CASE u.announce = {}
    <3>1. PICK s \in Seqs!SetToSeqs(u.withdraw) :
             routes = [i \in DOMAIN s |-> Withdrawn(u.port, s[i], u.n)]
      BY <2>2 DEF Updates
    <3>2. s \in [D -> A] /\ \A i, j \in D : i # j => s[i] # s[j]
      BY <2>2, <3>1, SameCardinality DEF Seqs!SetToSeqs
    <3> QED BY <3>1, <3>2
  <2> QED BY <2>1, <2>2
<1>4. \A i \in D : /\ routes[i] \in Routes /\ routes[i].port = u.port /\ routes[i].n = u.n
                   /\ routes[i].prefix = s[i] /\ s[i] \in A
  BY <1>1, <1>3 DEF Routes, Announced, Withdrawn
<1>5. routes \in Seq(Routes)
  BY <1>2, <1>3, <1>4
<1>6. \A p \in A : \E i \in D : s[i] = p
  <2> HIDE DEF A
  <2>1. s \in Injection(D, A)
    BY <1>3 DEF Injection, IsInjective
  <2>2. IsFiniteSet(D) /\ Cardinality(D) = Cardinality(A)
    BY <1>2, FS_Interval
  <2>3. s \in Surjection(D, A)
    <3> HIDE DEF D
    <3> QED BY <1>2, <2>1, <2>2, FS_Injection
  <2> QED BY <2>3 DEF Surjection
<1>7. \A p \in Prefixes : p \in u.announce \/ (u.announce = {} /\ p \in u.withdraw) => p \in A
  OBVIOUS
<1>8. A \subseteq u.announce \cup u.withdraw
  OBVIOUS
<1> HIDE DEF A
<1> QED BY <1>3, <1>4, <1>5, <1>6, <1>7, <1>8


\* Who gets a message: nobody, or the connections that speak for the participants that
\* peer with its source both ways.
Source(r) == IF r.kind = "FR" THEN r.peer ELSE OwnerOf[r.port]

LEMMA LookupIs ==
    ASSUME Inv, NEW r \in Messages
    PROVE  /\ Source(r) \in Participants
           /\ \/ Lookup(r) = Idle
              \/ Lookup(r) = [status |-> "sending", route |-> r, found |-> Found(Source(r))]
           /\ \A c \in Found(Source(r)) :
                /\ c \in Conns /\ c \in helloed
                /\ ConnOf[c] \in PeersOut[Source(r)] /\ Source(r) \in PeersIn[ConnOf[c]]
<1>1. /\ Source(r) \in Participants
      /\ Advertiser(r) \in {Source(r), NoParticipant}
  BY SessionAssumption
     DEF Inv, Source, Advertiser, PortsOfRegistered, Messages, Routes, Downs, FRs, TypeOK
<1>2. Lookup(r) = Idle \/ Lookup(r) = [status |-> "sending", route |-> r, found |-> Found(Source(r))]
  BY <1>1 DEF Lookup
<1>3. ASSUME NEW c \in Found(Source(r))
      PROVE  /\ c \in Conns /\ c \in helloed
             /\ ConnOf[c] \in PeersOut[Source(r)] /\ Source(r) \in PeersIn[ConnOf[c]]
  <2>1. PICK id \in PeersOut[Source(r)] :
           c = participants[id] /\ participants[id] # NoConn /\ Source(r) \in PeersIn[id]
    BY DEF Found
  <2>2. id \in Participants
    BY <1>1, PipelineAssumption
  <2> QED BY <2>1, <2>2 DEF Inv, RepresentedByUncleaned, TypeOK
<1> QED BY <1>1, <1>2, <1>3

\* What a route is, and what it is not.
LEMMA MessageKinds ==
    /\ \A r \in Routes : /\ OnPrefix(r) /\ r.kind \in {"announce", "withdraw"}
                         /\ r.port \in Ports /\ r.prefix \in Prefixes /\ r.n \in Nat
    /\ \A r \in Downs : r.kind = "down" /\ r.port \in Ports /\ r.n \in Nat /\ ~OnPrefix(r)
    /\ \A r \in FRs : r.kind = "FR" /\ r.peer \in Participants /\ ~OnPrefix(r)
    /\ \A r \in Messages : OnPrefix(r) => r \in Routes
BY DEF Routes, Downs, FRs, Messages, OnPrefix

\* The head of a queue and the rest of it.
LEMMA QueueFacts ==
    ASSUME NEW S, NEW q \in Seq(S)
    PROVE  /\ Len(q) \in Nat /\ DOMAIN q = 1..Len(q)
           /\ \A i \in DOMAIN q : q[i] \in S
           /\ q # <<>> =>
                /\ 1 \in DOMAIN q /\ Head(q) = q[1] /\ Head(q) \in S
                /\ Tail(q) \in Seq(S) /\ DOMAIN Tail(q) = 1..(Len(q) - 1)
                /\ \A i \in DOMAIN Tail(q) : i + 1 \in DOMAIN q /\ Tail(q)[i] = q[i + 1]
                /\ \A i \in DOMAIN q : i # 1 => i - 1 \in DOMAIN Tail(q) /\ Tail(q)[i - 1] = q[i]
                /\ q = <<Head(q)>> \o Tail(q)
<1>1. Len(q) \in Nat /\ DOMAIN q = 1..Len(q) /\ \A i \in DOMAIN q : q[i] \in S
  BY LenProperties, ElementOfSeq
<1>2. ASSUME q # <<>>
      PROVE  /\ 1 \in DOMAIN q /\ Head(q) = q[1] /\ Head(q) \in S
             /\ Tail(q) \in Seq(S) /\ DOMAIN Tail(q) = 1..(Len(q) - 1)
             /\ \A i \in DOMAIN Tail(q) : i + 1 \in DOMAIN q /\ Tail(q)[i] = q[i + 1]
             /\ \A i \in DOMAIN q : i # 1 => i - 1 \in DOMAIN Tail(q) /\ Tail(q)[i - 1] = q[i]
             /\ q = <<Head(q)>> \o Tail(q)
  <2>1. /\ Len(q) \in Nat \ {0} /\ Head(q) = q[1] /\ Head(q) \in S
        /\ Tail(q) \in Seq(S) /\ Len(Tail(q)) = Len(q) - 1
        /\ \A i \in 1..Len(Tail(q)) : Tail(q)[i] = q[i + 1]
    BY <1>1, <1>2, HeadTailProperties, EmptySeq
  <2>2. DOMAIN Tail(q) = 1..(Len(q) - 1)
    BY <2>1, LenProperties
  <2>3. q = <<Head(q)>> \o Tail(q)
    <3> DEFINE w == <<Head(q)>> \o Tail(q)
    <3>1. <<Head(q)>> \in Seq(S) /\ Len(<<Head(q)>>) = 1 /\ <<Head(q)>>[1] = q[1]
      BY <2>1
    <3>2. /\ w \in Seq(S) /\ Len(w) = 1 + (Len(q) - 1)
          /\ \A i \in 1..(1 + (Len(q) - 1)) : w[i] = IF i <= 1 THEN <<Head(q)>>[i] ELSE Tail(q)[i - 1]
      BY <2>1, <3>1, ConcatProperties
    <3> HIDE DEF w
    <3>3. \A i \in 1..Len(q) : w[i] = q[i]
      <4> TAKE i \in 1..Len(q)
      <4>1. CASE i = 1 BY <4>1, <3>1, <3>2
      <4>2. CASE i # 1
        <5>1. i - 1 \in 1..Len(Tail(q)) /\ i - 1 + 1 = i /\ ~(i <= 1)
          BY <4>2, <2>1
        <5>2. Tail(q)[i - 1] = q[i]
          BY <5>1, <2>1
        <5> QED BY <5>1, <5>2, <3>2, <2>1
      <4> QED BY <4>1, <4>2
    <3>4. w = q
      BY <2>1, <3>2, <3>3, SeqEqual
    <3> QED BY <3>4 DEF w
  <2>4. \A i \in DOMAIN Tail(q) : i + 1 \in DOMAIN q /\ Tail(q)[i] = q[i + 1]
    BY <1>1, <2>1, <2>2
  <2>5. \A i \in DOMAIN q : i # 1 => i - 1 \in DOMAIN Tail(q) /\ Tail(q)[i - 1] = q[i]
    BY <1>1, <2>1, <2>2
  <2> QED BY <1>1, <2>1, <2>2, <2>3, <2>4, <2>5
<1> QED BY <1>1, <1>2

\* The elements of a concatenation.
LEMMA ConcatFacts ==
    ASSUME NEW S, NEW a \in Seq(S), NEW b \in Seq(S)
    PROVE  /\ a \o b \in Seq(S)
           /\ Len(a) \in Nat /\ DOMAIN a = 1..Len(a) /\ Len(b) \in Nat /\ DOMAIN b = 1..Len(b)
           /\ DOMAIN (a \o b) = 1..(Len(a) + Len(b))
           /\ \A i \in DOMAIN a : i \in DOMAIN (a \o b) /\ (a \o b)[i] = a[i]
           /\ \A i \in DOMAIN b : Len(a) + i \in DOMAIN (a \o b) /\ (a \o b)[Len(a) + i] = b[i]
           /\ \A i \in DOMAIN (a \o b) : i \in DOMAIN a \/ i - Len(a) \in DOMAIN b
<1> DEFINE w == a \o b
<1>1. /\ w \in Seq(S) /\ Len(w) = Len(a) + Len(b)
      /\ \A i \in 1..(Len(a) + Len(b)) : w[i] = IF i <= Len(a) THEN a[i] ELSE b[i - Len(a)]
  BY ConcatProperties
<1>2. /\ Len(a) \in Nat /\ DOMAIN a = 1..Len(a) /\ Len(b) \in Nat /\ DOMAIN b = 1..Len(b)
      /\ DOMAIN w = 1..Len(w)
  BY <1>1, LenProperties
<1> HIDE DEF w
<1>3. \A i \in DOMAIN a : i \in DOMAIN w /\ w[i] = a[i]
  BY <1>1, <1>2
<1>4. \A i \in DOMAIN b : Len(a) + i \in DOMAIN w /\ w[Len(a) + i] = b[i]
  BY <1>1, <1>2
<1>5. \A i \in DOMAIN w : i \in DOMAIN a \/ i - Len(a) \in DOMAIN b
  BY <1>1, <1>2
<1> QED BY <1>1, <1>2, <1>3, <1>4, <1>5 DEF w

-----------------------------------------------------------------------------
(* A step of a SWIFT thread *)

\* What thread id does with route r, from its state t to its state v: the announcement
\* is sent and kept; or the kept ones follow it; or the thread dies on the way.
Keeps(t, v, r) ==
    /\ r.kind = "announce" /\ ~t.encoded /\ ~v.encoded
    /\ v.status = t.status /\ v.rib = t.rib \cup {r.prefix}
    /\ v.unsent = Append(t.unsent, r) /\ v.out = <<r>>
    /\ ~(Cardinality(v.rib) > EncodingThreshold)

Replays(t, v, r) ==
    /\ v.encoded /\ v.status = t.status
    /\ v.unsent = <<>> /\ v.out = <<r>> \o t.unsent
    /\ \/ t.encoded
       \/ r.kind = "announce" /\ Cardinality(t.rib \cup {r.prefix}) > EncodingThreshold
       \/ r.kind = "withdraw" /\ \A i \in DOMAIN t.unsent : t.unsent[i].prefix # r.prefix

Dies(t, v, r) ==
    /\ r.kind = "withdraw"
    /\ v.encoded /\ v.status = "dead" /\ v.unsent = t.unsent
    /\ \E m \in DOMAIN t.unsent :
        /\ v.out = <<r>> \o SubSeq(t.unsent, 1, m - 1)
        /\ \A i \in 1..(m - 1) : t.unsent[i].prefix # r.prefix

\* Every step of a SWIFT thread is one of the three.
LEMMA SwiftStepIs ==
    ASSUME PipelineTypeOK, NEW id \in Participants, SwiftStep(id)
    PROVE  LET t == swift[id]  v == swift'[id]  q == peer_queue_dict[id] IN
           /\ q # <<>> /\ Head(q) \in Routes /\ t.status = "running" /\ t.out = <<>>
           /\ peer_queue_dict' = [peer_queue_dict EXCEPT ![id] = Tail(q)]
           /\ v \in SwiftThreads
           /\ swift' = [swift EXCEPT ![id] = v]
           /\ Keeps(t, v, Head(q)) \/ Replays(t, v, Head(q)) \/ Dies(t, v, Head(q))
           /\ UNCHANGED <<environment, receiver_queue, peer_queue, FR_queue, sender, inbox, since>>
<1> DEFINE t == swift[id]
           q == peer_queue_dict[id]
           r == Head(q)
           v == swift'[id]
<1>1. /\ q # <<>> /\ t.status = "running" /\ t.out = <<>>
      /\ peer_queue_dict' = [peer_queue_dict EXCEPT ![id] = Tail(q)]
      /\ UNCHANGED <<environment, receiver_queue, peer_queue, FR_queue, sender, inbox, since>>
  BY DEF SwiftStep, environment
<1>2. q \in Seq(Routes) /\ t \in SwiftThreads /\ r \in Routes
  BY <1>1, QueueFacts DEF PipelineTypeOK
<1>3. /\ t.status \in {"none", "running", "dead"} /\ t.rib \subseteq Prefixes
      /\ t.encoded \in BOOLEAN /\ t.unsent \in Seq(Routes) /\ t.withdrawals \in Nat
      /\ t.out \in Seq(Routes)
      /\ r.prefix \in Prefixes /\ r.kind \in {"announce", "withdraw"}
  BY <1>2 DEF SwiftThreads, Routes
<1>4. <<r>> \in Seq(Routes) /\ <<r>> \o t.unsent \in Seq(Routes) /\ Append(t.unsent, r) \in Seq(Routes)
  BY <1>2, <1>3, ConcatProperties, AppendProperties
<1>5. CASE r.kind = "announce" /\ (t.encoded \/ Cardinality(t.rib \cup {r.prefix}) > EncodingThreshold)
  <2> DEFINE w == [t EXCEPT !.rib = t.rib \cup {r.prefix}, !.encoded = TRUE, !.unsent = <<>>,
                            !.out = <<r>> \o t.unsent]
  <2>1. swift' = [swift EXCEPT ![id] = w]
    BY <1>5 DEF SwiftStep
  <2>2. w \in SwiftThreads /\ Replays(t, w, r)
    <3>1. <<>> \in Seq(Routes)
      BY EmptySeq
    <3> QED BY <1>2, <1>3, <1>4, <1>5, <3>1 DEF SwiftThreads, Replays
  <2>3. v = w
    BY <2>1 DEF PipelineTypeOK
  <2> QED BY <1>1, <1>2, <2>1, <2>2, <2>3
<1>6. CASE r.kind = "announce" /\ ~(t.encoded \/ Cardinality(t.rib \cup {r.prefix}) > EncodingThreshold)
  <2> DEFINE w == [t EXCEPT !.rib = t.rib \cup {r.prefix}, !.unsent = Append(@, r), !.out = <<r>>]
  <2>1. swift' = [swift EXCEPT ![id] = w]
    BY <1>6 DEF SwiftStep
  <2>2. w \in SwiftThreads /\ Keeps(t, w, r)
    BY <1>2, <1>3, <1>4, <1>6 DEF SwiftThreads, Keeps
  <2>3. v = w
    BY <2>1 DEF PipelineTypeOK
  <2> QED BY <1>1, <1>2, <2>1, <2>2, <2>3
<1>7. CASE r.kind = "withdraw"
  <2> DEFINE hit == {i \in DOMAIN t.unsent : t.unsent[i].prefix = r.prefix}
             u == [t EXCEPT !.rib = @ \ {r.prefix}, !.encoded = TRUE,
                     !.withdrawals = IF r.prefix \in t.rib /\ @ < BurstStart THEN @ + 1 ELSE @]
             first == CHOOSE i \in hit : \A j \in hit : i <= j
  <2>1. \/ hit = {} /\ swift' = [swift EXCEPT ![id] =
              [u EXCEPT !.unsent = <<>>, !.out = <<r>> \o t.unsent]]
        \/ hit # {} /\ swift' = [swift EXCEPT ![id] =
              [u EXCEPT !.status = "dead", !.out = <<r>> \o SubSeq(t.unsent, 1, first - 1)]]
    BY <1>7 DEF SwiftStep
  <2>2. /\ u \in SwiftThreads /\ u.status = t.status /\ u.encoded = TRUE /\ u.unsent = t.unsent
    <3> DEFINE wd == IF r.prefix \in t.rib /\ t.withdrawals < BurstStart
                     THEN t.withdrawals + 1 ELSE t.withdrawals
    <3>1. wd \in Nat
      BY <1>3, PipelineAssumption
    <3>2. u = [t EXCEPT !.rib = t.rib \ {r.prefix}, !.encoded = TRUE, !.withdrawals = wd]
      BY <1>2 DEF SwiftThreads
    <3> HIDE DEF wd, u
    <3> QED BY <1>2, <1>3, <3>1, <3>2 DEF SwiftThreads
  <2> HIDE DEF u
  <2>3. CASE hit = {}
    <3> DEFINE w == [u EXCEPT !.unsent = <<>>, !.out = <<r>> \o t.unsent]
    <3>1. swift' = [swift EXCEPT ![id] = w]
      BY <2>1, <2>3
    <3>2. <<>> \in Seq(Routes)
      BY EmptySeq
    <3>3. w \in SwiftThreads /\ Replays(t, w, r)
      BY <1>3, <1>4, <1>7, <2>2, <2>3, <3>2 DEF SwiftThreads, Replays
    <3>4. v = w
      BY <3>1 DEF PipelineTypeOK
    <3> QED BY <1>1, <1>2, <3>1, <3>3, <3>4
  <2>4. CASE hit # {}
    <3> DEFINE kept == SubSeq(t.unsent, 1, first - 1)
               w == [u EXCEPT !.status = "dead", !.out = <<r>> \o kept]
    <3>1. swift' = [swift EXCEPT ![id] = w]
      BY <2>1, <2>4
    <3>2. first \in hit /\ \A j \in hit : first <= j
      <4>1. hit \in SUBSET Nat
        BY <1>3, QueueFacts
      <4> HIDE DEF hit
      <4>2. \E i \in hit : \A j \in hit : i <= j
        BY <2>4, <4>1, NatMinimum
      <4> QED BY <4>2
    <3>3. /\ first \in DOMAIN t.unsent /\ first \in 1..Len(t.unsent) /\ Len(t.unsent) \in Nat
          /\ \A i \in 1..(first - 1) : i \in DOMAIN t.unsent /\ t.unsent[i].prefix # r.prefix
      <4>1. DOMAIN t.unsent = 1..Len(t.unsent) /\ Len(t.unsent) \in Nat
        BY <1>3, QueueFacts, Zenon
      <4>2. first \in DOMAIN t.unsent /\ \A j \in DOMAIN t.unsent : t.unsent[j].prefix = r.prefix => first <= j
        BY <3>2, Zenon
      <4> HIDE DEF first, hit
      <4> QED BY <4>1, <4>2
    <3> HIDE DEF first, hit
    <3>4. kept \in Seq(Routes)
      BY <1>3, <3>3, SubSeqProperties
    <3>5. w \in SwiftThreads
      <4>1. <<r>> \o kept \in Seq(Routes)
        BY <1>4, <3>4, ConcatProperties
      <4> HIDE DEF kept
      <4> QED BY <2>2, <4>1 DEF SwiftThreads
    <3>6. Dies(t, w, r)
      <4>1. w.status = "dead" /\ w.encoded /\ w.unsent = t.unsent /\ w.out = <<r>> \o SubSeq(t.unsent, 1, first - 1)
        BY <2>2 DEF SwiftThreads
      <4> HIDE DEF w, kept
      <4> QED BY <1>7, <3>3, <4>1 DEF Dies
    <3>7. v = w
      BY <3>1 DEF PipelineTypeOK
    <3> HIDE DEF w
    <3> QED BY <1>1, <1>2, <3>1, <3>5, <3>6, <3>7
  <2> QED BY <2>3, <2>4
<1> QED BY <1>3, <1>5, <1>6, <1>7

-----------------------------------------------------------------------------
(* Types are kept *)

LEMMA LookupTypes ==
    ASSUME Inv, NEW r \in Messages, sender' = Lookup(r)
    PROVE  sender' \in {Idle, Dead} \/ Sending'
<1>1. CASE Lookup(r) = Idle
  BY <1>1
<1>2. CASE Lookup(r) = [status |-> "sending", route |-> r, found |-> Found(Source(r))]
  <2>1. Found(Source(r)) \subseteq Conns
    BY LookupIs
  <2> QED BY <1>2, <2>1 DEF Sending
<1> QED BY <1>1, <1>2, LookupIs

\* What a sender that has a message in hand is.
LEMMA HandFacts ==
    ASSUME PipelineTypeOK
    PROVE  /\ sender.status = "sending" <=> sender \notin {Idle, Dead}
           /\ sender.status = "sending" =>
                Sending /\ sender.route \in Messages /\ sender.found \subseteq Conns
           /\ Idle # Dead
<1>1. Idle.status = "idle" /\ Dead.status = "dead"
  BY DEF Idle, Dead
<1>2. Sending => sender.status = "sending"
  BY DEF Sending
<1> QED BY <1>1, <1>2 DEF PipelineTypeOK, Sending

\* What a send does: the route reaches a controller that reads or the bytes are lost,
\* and c is served; or the thread dies over a broken connection.
LEMMA SendIs ==
    ASSUME PipelineTypeOK, NEW c \in Conns, Send(c)
    PROVE  /\ sender.status = "sending" /\ c \in sender.found /\ sender.route \in Messages
           /\ UNCHANGED <<environment, receiver_queue, peer_queue_dict, swift, peer_queue,
                          FR_queue, since>>
           /\ \/ /\ conn[c] = "open"
                 /\ inbox' = [inbox EXCEPT ![c] = Append(inbox[c], sender.route)]
              \/ inbox' = inbox /\ conn[c] # "open"
           /\ \/ sender' = Idle /\ sender.found = {c}
              \/ sender' = [status |-> "sending", route |-> sender.route,
                            found |-> sender.found \ {c}]
              \/ sender' = Dead /\ conn[c] \in Broken
<1>1. sender.status = "sending" /\ c \in sender.found /\ sender.route \in Messages /\ Sending
  BY HandFacts DEF Send
<1>2. [sender EXCEPT !.found = @ \ {c}] =
         [status |-> "sending", route |-> sender.route, found |-> sender.found \ {c}]
  BY <1>1 DEF Sending
<1>3. UNCHANGED <<environment, receiver_queue, peer_queue_dict, swift, peer_queue, FR_queue, since>>
  BY DEF Send
<1>4. \/ conn[c] = "open" /\ inbox' = [inbox EXCEPT ![c] = Append(inbox[c], sender.route)]
      \/ inbox' = inbox /\ conn[c] # "open"
  BY DEF Send, Broken, Live
<1>5. \/ sender' = Idle /\ sender.found = {c}
      \/ sender' = [sender EXCEPT !.found = @ \ {c}]
      \/ sender' = Dead /\ conn[c] \in Broken
  BY DEF Send
<1> QED BY <1>1, <1>2, <1>3, <1>4, <1>5

LEMMA InitTypes == PipelineInit => PipelineTypeOK
<1> SUFFICES ASSUME PipelineInit PROVE PipelineTypeOK OBVIOUS
<1>1. \A S : <<>> \in Seq(S)
  BY EmptySeq
<1>2. NoThread \in SwiftThreads
  BY <1>1, Zenon DEF NoThread, SwiftThreads
<1> QED BY <1>1, <1>2 DEF PipelineInit, PipelineTypeOK

\* What the listener does with the update it takes.
LEMMA ListenerIs ==
    ASSUME Inv, PipelineTypeOK, Listener
    PROVE  LET u == Head(receiver_queue)  id == OwnerOf[u.port] IN
           /\ receiver_queue # <<>> /\ u \in FromExaBGP /\ receiver_queue' = Tail(receiver_queue)
           /\ id \in Participants
           /\ UNCHANGED <<environment, FR_queue, sender, inbox, since>>
           /\ \/ /\ portip2participant[u.port] = NoParticipant
                 /\ UNCHANGED <<peer_queue_dict, swift, peer_queue>>
              \/ /\ portip2participant[u.port] = id /\ u.state = "down"
                 /\ peer_queue' = Append(peer_queue, DownOf(u.port, u.n))
                 /\ DownOf(u.port, u.n) \in Downs
                 /\ UNCHANGED <<peer_queue_dict, swift>>
              \/ /\ portip2participant[u.port] = id /\ u.state = "up"
                 /\ \E routes \in Updates(u) :
                        peer_queue_dict' = [peer_queue_dict EXCEPT ![id] = @ \o routes]
                 /\ \E st \in {"none", "running", "dead"} :
                        /\ swift' = [swift EXCEPT ![id].status = st]
                        /\ swift[id].status = "dead" => st = "dead"
                        /\ swift[id].status # "dead" => st = "running"
                 /\ UNCHANGED peer_queue
<1> DEFINE u == Head(receiver_queue)
           id == OwnerOf[u.port]
<1>1. receiver_queue # <<>> /\ receiver_queue' = Tail(receiver_queue)
  BY Zenon DEF Listener
<1>2. u \in FromExaBGP /\ u.port \in Ports /\ u.n \in Nat
  <2>1. u \in FromExaBGP
    BY <1>1, QueueFacts DEF PipelineTypeOK
  <2> QED BY <2>1 DEF FromExaBGP
<1>3. id \in Participants
  BY <1>2, SessionAssumption
<1>4. portip2participant[u.port] \in {NoParticipant, id} /\ NoParticipant # id
  BY <1>2, <1>3, SessionAssumption DEF Inv, PortsOfRegistered
<1>5. DownOf(u.port, u.n) \in Downs
  BY <1>2 DEF DownOf, Downs
<1>6. swift[id].status \in {"none", "running", "dead"}
  BY <1>3, Zenon DEF PipelineTypeOK, SwiftThreads
<1>7. UNCHANGED <<environment, FR_queue, sender, inbox, since>>
  BY Zenon DEF Listener
<1>8. \/ /\ portip2participant[u.port] = NoParticipant
         /\ UNCHANGED <<peer_queue_dict, swift, peer_queue>>
      \/ /\ portip2participant[u.port] = id /\ u.state = "down"
         /\ peer_queue' = Append(peer_queue, DownOf(u.port, u.n))
         /\ UNCHANGED <<peer_queue_dict, swift>>
      \/ /\ portip2participant[u.port] = id /\ u.state = "up"
         /\ \E routes \in Updates(u) :
                peer_queue_dict' = [peer_queue_dict EXCEPT ![id] = @ \o routes]
         /\ swift' = [swift EXCEPT ![id].status = IF @ = "none" THEN "running" ELSE @]
         /\ UNCHANGED peer_queue
  BY <1>4, Zenon DEF Listener
<1>9. ASSUME swift' = [swift EXCEPT ![id].status = IF @ = "none" THEN "running" ELSE @]
      PROVE  \E st \in {"none", "running", "dead"} :
                /\ swift' = [swift EXCEPT ![id].status = st]
                /\ swift[id].status = "dead" => st = "dead"
                /\ swift[id].status # "dead" => st = "running"
  <2> DEFINE st == IF swift[id].status = "none" THEN "running" ELSE swift[id].status
  <2>1. swift' = [swift EXCEPT ![id].status = st]
    BY <1>9
  <2> QED BY <1>6, <2>1, Zenon
<1> QED BY <1>1, <1>2, <1>3, <1>5, <1>7, <1>8, <1>9, Zenon

\* The sender takes a message, and has it in hand if somebody may hear it.
LEMMA SenderTakeIs ==
    ASSUME Inv, PipelineTypeOK, SenderTake
    PROVE  /\ sender = Idle
           /\ UNCHANGED <<environment, receiver_queue, peer_queue_dict, swift, inbox, since>>
           /\ sender' \in {Idle, Dead} \/ Sending'
           /\ sender' # Dead
           /\ \/ /\ FR_queue # <<>> /\ FR_queue' = Tail(FR_queue) /\ UNCHANGED peer_queue
                 /\ Head(FR_queue) \in FRs
                 /\ sender' = Lookup(Head(FR_queue))
              \/ /\ peer_queue # <<>> /\ peer_queue' = Tail(peer_queue) /\ UNCHANGED FR_queue
                 /\ Head(peer_queue) \in Routes \cup Downs
                 /\ sender' = Lookup(Head(peer_queue))
<1>1. \/ /\ FR_queue # <<>> /\ FR_queue' = Tail(FR_queue) /\ UNCHANGED peer_queue
         /\ sender' = Lookup(Head(FR_queue))
      \/ /\ peer_queue # <<>> /\ peer_queue' = Tail(peer_queue) /\ UNCHANGED FR_queue
         /\ sender' = Lookup(Head(peer_queue))
  BY DEF SenderTake
<1>2. sender = Idle /\ UNCHANGED <<environment, receiver_queue, peer_queue_dict, swift, inbox, since>>
  BY DEF SenderTake
<1>3. FR_queue # <<>> => Head(FR_queue) \in FRs
  BY QueueFacts DEF PipelineTypeOK
<1>4. peer_queue # <<>> => Head(peer_queue) \in Routes \cup Downs
  BY QueueFacts DEF PipelineTypeOK
<1>5. ASSUME NEW r \in Messages, sender' = Lookup(r)
      PROVE  (sender' \in {Idle, Dead} \/ Sending') /\ sender' # Dead
  <2>1. sender' = Idle \/ sender' = [status |-> "sending", route |-> r, found |-> Found(Source(r))]
    BY <1>5, LookupIs
  <2>2. sender' # Dead
    BY <2>1 DEF Idle, Dead
  <2> QED BY <1>5, <2>2, LookupTypes
<1> QED BY <1>1, <1>2, <1>3, <1>4, <1>5 DEF Messages

LEMMA PipelineTypes ==
    ASSUME Inv, PipelineTypeOK, [Next]_allVars
    PROVE  PipelineTypeOK'
<1> USE DEF PipelineTypeOK
<1>0. CASE UNCHANGED allVars
  BY <1>0 DEF allVars, pipelineVars, environment, Sending
<1>1. CASE SessionStep
  <2>1. since' \in [Participants -> Nat]
    BY <1>1 DEF SessionStep
  <2>2. UNCHANGED <<environment, receiver_queue, peer_queue_dict, swift, peer_queue, FR_queue, sender, inbox>>
    BY <1>1 DEF SessionStep
  <2> QED BY <2>1, <2>2 DEF environment, Sending
<1>2. CASE Listener
  <2> DEFINE u == Head(receiver_queue)  id == OwnerOf[u.port]
  <2>1. /\ receiver_queue' \in Seq(FromExaBGP) /\ u \in FromExaBGP /\ id \in Participants
        /\ UNCHANGED <<environment, FR_queue, sender, inbox, since>>
    <3>1. /\ receiver_queue # <<>> /\ receiver_queue' = Tail(receiver_queue)
          /\ u \in FromExaBGP /\ id \in Participants
          /\ UNCHANGED <<environment, FR_queue, sender, inbox, since>>
      BY <1>2, ListenerIs
    <3>2. receiver_queue' \in Seq(FromExaBGP)
      BY <3>1, QueueFacts, Zenon
    <3> QED BY <3>1, <3>2
  <2>2. peer_queue_dict' \in [Participants -> Seq(Routes)]
    <3>1. ASSUME NEW routes \in Updates(u), peer_queue_dict' = [peer_queue_dict EXCEPT ![id] = @ \o routes]
          PROVE  peer_queue_dict' \in [Participants -> Seq(Routes)]
      <4>1. peer_queue_dict[id] \o routes \in Seq(Routes)
        BY <2>1, UpdatesAre, ConcatProperties, ZenonT(30)
      <4> QED BY <3>1, <4>1
    <3> QED BY <1>2, <3>1, ListenerIs
  <2>3. swift' \in [Participants -> SwiftThreads]
    <3>1. ASSUME NEW st \in {"none", "running", "dead"}, swift' = [swift EXCEPT ![id].status = st]
          PROVE  swift' \in [Participants -> SwiftThreads]
      <4>1. [swift[id] EXCEPT !.status = st] \in SwiftThreads
        BY <2>1, ZenonT(30) DEF SwiftThreads
      <4> QED BY <3>1, <4>1
    <3> QED BY <1>2, <3>1, ListenerIs
  <2>4. peer_queue' \in Seq(Routes \cup Downs)
    <3>1. ASSUME NEW d \in Downs, peer_queue' = Append(peer_queue, d)
          PROVE  peer_queue' \in Seq(Routes \cup Downs)
      BY <3>1, AppendProperties
    <3> QED BY <1>2, <3>1, ListenerIs
  <2> QED BY <2>1, <2>2, <2>3, <2>4, Zenon DEF environment, Sending
<1>3. CASE SenderTake
  <2>1. peer_queue' \in Seq(Routes \cup Downs) /\ FR_queue' \in Seq(FRs)
    <3>1. FR_queue # <<>> => Tail(FR_queue) \in Seq(FRs)
      BY QueueFacts
    <3>2. peer_queue # <<>> => Tail(peer_queue) \in Seq(Routes \cup Downs)
      BY QueueFacts
    <3> QED BY <1>3, <3>1, <3>2, SenderTakeIs
  <2>2. sender' \in {Idle, Dead} \/ Sending'
    BY <1>3, SenderTakeIs
  <2>3. UNCHANGED <<environment, receiver_queue, peer_queue_dict, swift, inbox, since>>
    BY <1>3, SenderTakeIs
  <2> QED BY <2>1, <2>2, <2>3 DEF environment
<1>4. ASSUME NEW k \in Ports, Update(k) PROVE PipelineTypeOK'
  <2>1. PICK A \in SUBSET Prefixes, W \in SUBSET advertised[k] :
           /\ receiver_queue' = Append(receiver_queue,
                [port |-> k, state |-> "up", announce |-> A, withdraw |-> W, n |-> issued + 1])
           /\ advertised' = [advertised EXCEPT ![k] = (@ \cup A) \ W]
           /\ latest' = [latest EXCEPT ![k] =
                [p \in Prefixes |-> IF p \in A \cup W THEN issued + 1 ELSE @[p]]]
           /\ unread' = [unread EXCEPT ![k] =
                (@ \ (A \cup W)) \cup (IF A # {} THEN W ELSE {})]
    BY <1>4 DEF Update
  <2>2. W \subseteq Prefixes
    BY <2>1
  <2>3. [port |-> k, state |-> "up", announce |-> A, withdraw |-> W, n |-> issued + 1] \in FromExaBGP
    BY <2>2 DEF FromExaBGP
  <2>4. receiver_queue' \in Seq(FromExaBGP)
    <3> HIDE DEF FromExaBGP
    <3> QED BY <2>1, <2>3, AppendProperties
  <2>5. latest' \in [Ports -> [Prefixes -> Nat]] /\ unread' \in [Ports -> SUBSET Prefixes]
    BY <2>1, <2>2
  <2>6. advertised' \in [Ports -> SUBSET Prefixes]
    BY <2>1, <2>2
  <2>7. /\ issued' = issued + 1
        /\ UNCHANGED <<wentDown, peer_queue_dict, swift, peer_queue, FR_queue, sender, inbox, since>>
    BY <1>4 DEF Update
  <2> QED BY <2>4, <2>5, <2>6, <2>7 DEF Sending
<1>5. ASSUME NEW k \in Ports, PeerDown(k) PROVE PipelineTypeOK'
  <2>1. [port |-> k, state |-> "down", announce |-> {}, withdraw |-> {}, n |-> issued + 1] \in FromExaBGP
    BY DEF FromExaBGP
  <2>2. receiver_queue' \in Seq(FromExaBGP)
    <3> HIDE DEF FromExaBGP
    <3> QED BY <1>5, <2>1, AppendProperties DEF PeerDown
  <2>3. /\ issued' = issued + 1 /\ wentDown' = [wentDown EXCEPT ![k] = issued + 1]
        /\ advertised' = [advertised EXCEPT ![k] = {}]
        /\ UNCHANGED <<latest, unread, peer_queue_dict, swift, peer_queue, FR_queue, sender,
                       inbox, since>>
    BY <1>5 DEF PeerDown
  <2> QED BY <2>2, <2>3 DEF Sending
<1>6. ASSUME NEW id \in Participants, SwiftStep(id) PROVE PipelineTypeOK'
  <2>1. peer_queue_dict' \in [Participants -> Seq(Routes)]
    <3>1. /\ peer_queue_dict[id] # <<>>
          /\ peer_queue_dict' = [peer_queue_dict EXCEPT ![id] = Tail(peer_queue_dict[id])]
      BY <1>6, SwiftStepIs
    <3>2. Tail(peer_queue_dict[id]) \in Seq(Routes)
      BY <3>1, QueueFacts
    <3> QED BY <3>1, <3>2
  <2>2. swift' \in [Participants -> SwiftThreads]
    <3>1. swift'[id] \in SwiftThreads /\ swift' = [swift EXCEPT ![id] = swift'[id]]
      BY <1>6, SwiftStepIs
    <3> QED BY <3>1
  <2>3. UNCHANGED <<environment, receiver_queue, peer_queue, FR_queue, sender, inbox, since>>
    BY <1>6, SwiftStepIs
  <2> QED BY <2>1, <2>2, <2>3 DEF environment, Sending
<1>7. ASSUME NEW id \in Participants, SwiftPut(id) PROVE PipelineTypeOK'
  <2>1. /\ swift[id].out # <<>> /\ peer_queue' = Append(peer_queue, Head(swift[id].out))
        /\ swift' = [swift EXCEPT ![id].out = Tail(@)]
        /\ UNCHANGED <<environment, receiver_queue, peer_queue_dict, FR_queue, sender, inbox, since>>
    BY <1>7 DEF SwiftPut
  <2>2. swift[id] \in SwiftThreads /\ swift[id].out \in Seq(Routes)
    BY DEF SwiftThreads
  <2>3. Head(swift[id].out) \in Routes /\ Tail(swift[id].out) \in Seq(Routes)
    BY <2>1, <2>2, QueueFacts
  <2>4. peer_queue' \in Seq(Routes \cup Downs)
    BY <2>1, <2>3, AppendProperties
  <2>5. [swift[id] EXCEPT !.out = Tail(swift[id].out)] \in SwiftThreads
    BY <2>2, <2>3 DEF SwiftThreads
  <2>6. swift' \in [Participants -> SwiftThreads]
    BY <2>1, <2>5
  <2> QED BY <2>1, <2>4, <2>6 DEF environment, Sending
<1>8. ASSUME NEW id \in Participants, FastReroute(id) PROVE PipelineTypeOK'
  <2>1. PICK m \in 1..MaxFR : FR_queue' = FR_queue \o [i \in 1..m |-> FROf(id)]
    BY <1>8 DEF FastReroute
  <2>2. [i \in 1..m |-> FROf(id)] \in Seq(FRs)
    <3>1. FROf(id) \in FRs /\ m \in Nat
      BY PipelineAssumption DEF FROf, FRs
    <3> QED BY <3>1
  <2>3. FR_queue' \in Seq(FRs)
    BY <2>1, <2>2, ConcatProperties
  <2>4. swift' = [swift EXCEPT ![id].withdrawals = 0]
    BY <1>8 DEF FastReroute
  <2>5. [swift[id] EXCEPT !.withdrawals = 0] \in SwiftThreads
    BY DEF SwiftThreads
  <2>6. swift' \in [Participants -> SwiftThreads]
    BY <2>4, <2>5
  <2>7. UNCHANGED <<environment, receiver_queue, peer_queue_dict, peer_queue, sender, inbox, since>>
    BY <1>8 DEF FastReroute
  <2> QED BY <2>3, <2>6, <2>7 DEF environment, Sending
<1>9. ASSUME NEW c \in Conns, Send(c) PROVE PipelineTypeOK'
  <2>1. inbox' \in [Conns -> Seq(Messages)]
    <3>1. Append(inbox[c], sender.route) \in Seq(Messages)
      BY <1>9, SendIs, AppendProperties
    <3> QED BY <1>9, <3>1, SendIs
  <2>2. sender' \in {Idle, Dead} \/ Sending'
    <3>1. sender.route \in Messages /\ sender.found \subseteq Conns
      BY <1>9, SendIs, HandFacts
    <3> QED BY <1>9, <3>1, SendIs DEF Sending
  <2>3. UNCHANGED <<environment, receiver_queue, peer_queue_dict, swift, peer_queue, FR_queue, since>>
    BY <1>9, SendIs
  <2> QED BY <2>1, <2>2, <2>3 DEF environment
<1> QED BY <1>0, <1>1, <1>2, <1>3, <1>4, <1>5, <1>6, <1>7, <1>8, <1>9 DEF Next, PipelineStep

LEMMA NextTables == Inv /\ [Next]_allVars => Inv'
<1> SUFFICES ASSUME Inv, [Next]_allVars PROVE Inv' OBVIOUS
<1>1. SessionNext \/ UNCHANGED sessionVars
  BY DEF Next, SessionStep, allVars
<1> QED BY <1>1, NextInv

\* The tables and the types hold on the way, also while controllers come and go.
THEOREM PipelineTypeCorrect == PipelineSpec => [](Inv /\ PipelineTypeOK)
<1>1. PipelineInit => Inv /\ PipelineTypeOK
  BY InitInv, InitTypes DEF PipelineInit
<1>2. Inv /\ PipelineTypeOK /\ [Next]_allVars => (Inv /\ PipelineTypeOK)'
  BY NextTables, PipelineTypes
<1> QED BY <1>1, <1>2, PTL DEF PipelineSpec

-----------------------------------------------------------------------------
(* Who hears what, and what the sender dies of *)

\* What the sender has in hand serves connections that said hello and whose
\* participants peer with the source both ways, now that the lock is released as well.
HandsAreAllowed ==
    sender.status = "sending" =>
        \A c \in sender.found :
            /\ c \in helloed
            /\ ConnOf[c] \in PeersOut[Source(sender.route)]
            /\ Source(sender.route) \in PeersIn[ConnOf[c]]

PeeringInv == HandsAreAllowed /\ PeeringRespected /\ SenderSurvives

\* A connection that broke stays broken, one that hangs is not mended, and a hello is
\* not forgotten.
LEMMA BrokenStays ==
    ASSUME Inv, [Next]_allVars
    PROVE  /\ helloed \subseteq helloed'
           /\ \A c \in Conns : conn[c] \in Broken => conn'[c] \in Broken
           /\ \A c \in Conns : conn[c] = "deaf" => conn'[c] # "open"
<1>1. CASE SessionNext
  <2>1. CASE StartThread
    BY <2>1 DEF StartThread, Inv, TypeOK, AcceptorWaits, Broken
  <2>2. ASSUME NEW c \in Conns,
               \/ Accept(c) \/ Hello(c) \/ Hang(c) \/ Crash(c)
               \/ Close(c) \/ Abort(c) \/ Retire(c) \/ Unregister(c)
        PROVE  /\ helloed \subseteq helloed'
               /\ \A d \in Conns : conn[d] \in Broken => conn'[d] \in Broken
               /\ \A d \in Conns : conn[d] = "deaf" => conn'[d] # "open"
    BY <2>2 DEF Accept, Hello, Hang, Crash, Close, Abort, Retire, Unregister, Inv, TypeOK,
                Broken, Live
  <2> QED BY <1>1, <2>1, <2>2 DEF SessionNext
<1>2. CASE UNCHANGED sessionVars
  BY <1>2 DEF sessionVars
<1> QED BY <1>1, <1>2 DEF Next, SessionStep, allVars

LEMMA PeeringStep ==
    ASSUME Inv, PipelineTypeOK, PeeringInv, [Next]_allVars
    PROVE  PeeringInv'
<1> USE DEF PeeringInv
<1>0. /\ helloed \subseteq helloed'
      /\ \A c \in Conns : conn[c] \in Broken => conn'[c] \in Broken
  BY BrokenStays
<1>1. CASE sender' = sender /\ inbox' = inbox
  <2>1. HandsAreAllowed'
    BY <1>0, <1>1 DEF HandsAreAllowed, Source
  <2>2. PeeringRespected'
    BY <1>1 DEF PeeringRespected
  <2>3. SenderSurvives'
    <3> SUFFICES ASSUME sender' = Dead PROVE SenderSurvives' BY DEF SenderSurvives
    <3>1. PICK c \in helloed, adv \in Participants :
             conn[c] \in Broken /\ ConnOf[c] \in PeersOut[adv] /\ adv \in PeersIn[ConnOf[c]]
      BY <1>1 DEF SenderSurvives
    <3> QED BY <1>0, <3>1 DEF SenderSurvives, Inv, TypeOK
  <2> QED BY <2>1, <2>2, <2>3
<1>2. CASE SenderTake
  <2>1. sender' # Dead /\ inbox' = inbox
    BY <1>2, SenderTakeIs
  <2>2. PICK r \in Messages : sender' = Lookup(r)
    BY <1>2, SenderTakeIs DEF Messages
  <2>3. HandsAreAllowed'
    <3>1. CASE sender' = Idle
      BY <3>1 DEF HandsAreAllowed, Idle
    <3>2. CASE sender' = [status |-> "sending", route |-> r, found |-> Found(Source(r))]
      <4>1. sender'.route = r /\ sender'.found = Found(Source(r))
        BY <3>2
      <4>2. \A c \in Found(Source(r)) :
              c \in helloed /\ ConnOf[c] \in PeersOut[Source(r)] /\ Source(r) \in PeersIn[ConnOf[c]]
        BY LookupIs
      <4> QED BY <1>0, <4>1, <4>2 DEF HandsAreAllowed, Source
    <3> QED BY <2>2, <3>1, <3>2, LookupIs
  <2>4. PeeringRespected'
    BY <2>1 DEF PeeringRespected
  <2> QED BY <2>1, <2>3, <2>4 DEF SenderSurvives
<1>3. ASSUME NEW c \in Conns, Send(c) PROVE PeeringInv'
  <2>1. /\ c \in helloed /\ Source(sender.route) \in Participants
        /\ ConnOf[c] \in PeersOut[Source(sender.route)]
        /\ Source(sender.route) \in PeersIn[ConnOf[c]]
    BY <1>3, SendIs, LookupIs DEF HandsAreAllowed
  <2>2. HandsAreAllowed'
    <3>1. CASE sender' \in {Idle, Dead}
      BY <3>1 DEF HandsAreAllowed, Idle, Dead
    <3>2. CASE sender' = [status |-> "sending", route |-> sender.route, found |-> sender.found \ {c}]
      <4>1. sender'.route = sender.route /\ sender'.found = sender.found \ {c} /\ sender.status = "sending"
        BY <1>3, <3>2, SendIs
      <4> QED BY <1>0, <4>1 DEF HandsAreAllowed, Source
    <3> QED BY <1>3, <3>1, <3>2, SendIs
  <2>3. PeeringRespected'
    <3>1. CASE inbox' = inbox
      BY <3>1 DEF PeeringRespected
    <3>2. CASE inbox' = [inbox EXCEPT ![c] = Append(inbox[c], sender.route)]
      <4> SUFFICES ASSUME NEW d \in Conns, NEW i \in DOMAIN inbox'[d]
                   PROVE  LET r == inbox'[d][i] IN
                          ConnOf[d] \in PeersOut[Source(r)] /\ Source(r) \in PeersIn[ConnOf[d]]
        BY DEF PeeringRespected, Source
      <4>1. inbox[d] \in Seq(Messages) /\ sender.route \in Messages
        BY <1>3, SendIs DEF PipelineTypeOK
      <4>2. (i \in DOMAIN inbox[d] /\ inbox'[d][i] = inbox[d][i]) \/ (d = c /\ inbox'[d][i] = sender.route)
        <5>1. CASE d # c
          BY <3>2, <5>1 DEF PipelineTypeOK
        <5>2. CASE d = c
          <6>1. inbox'[d] = Append(inbox[d], sender.route)
            BY <3>2, <5>2 DEF PipelineTypeOK
          <6>2. /\ Len(Append(inbox[d], sender.route)) = Len(inbox[d]) + 1
                /\ \A j \in 1..Len(inbox[d]) : Append(inbox[d], sender.route)[j] = inbox[d][j]
                /\ Append(inbox[d], sender.route)[Len(inbox[d]) + 1] = sender.route
                /\ Append(inbox[d], sender.route) \in Seq(Messages)
            BY <4>1, AppendProperties
          <6>3. DOMAIN inbox'[d] = 1..(Len(inbox[d]) + 1) /\ DOMAIN inbox[d] = 1..Len(inbox[d]) /\ Len(inbox[d]) \in Nat
            BY <4>1, <6>1, <6>2, LenProperties
          <6> QED BY <5>2, <6>1, <6>2, <6>3
        <5> QED BY <5>1, <5>2
      <4> QED BY <2>1, <4>2 DEF PeeringRespected, Source
    <3> QED BY <1>3, <3>1, <3>2, SendIs
  <2>4. SenderSurvives'
    <3> SUFFICES ASSUME sender' = Dead PROVE SenderSurvives' BY DEF SenderSurvives
    <3>1. conn[c] \in Broken
      BY <1>3, SendIs, Zenon DEF Idle, Dead
    <3> QED BY <1>0, <2>1, <3>1 DEF SenderSurvives
  <2> QED BY <2>2, <2>3, <2>4
<1>4. (sender' = sender /\ inbox' = inbox) \/ SenderTake \/ \E c \in Conns : Send(c)
  BY Zenon DEF Next, SessionStep, PipelineStep, allVars, pipelineVars, Listener, Update, PeerDown,
         SwiftStep, SwiftPut, FastReroute
<1> QED BY <1>1, <1>2, <1>3, <1>4

LEMMA PeeringInvariant == PipelineSpec => []PeeringInv
<1>1. PipelineInit => PeeringInv
  <2> SUFFICES ASSUME PipelineInit PROVE PeeringInv OBVIOUS
  <2>1. sender = Idle /\ inbox = [c \in Conns |-> <<>>]
    BY DEF PipelineInit
  <2>2. \A c \in Conns : DOMAIN inbox[c] = {}
    BY <2>1, EmptySeq
  <2> QED BY <2>1, <2>2 DEF PeeringInv, HandsAreAllowed, PeeringRespected, SenderSurvives, Idle, Dead
<1>2. Inv /\ PipelineTypeOK /\ PeeringInv /\ [Next]_allVars => PeeringInv'
  BY PeeringStep
<1> QED BY <1>1, <1>2, PipelineTypeCorrect, PTL DEF PipelineSpec

\* A controller is told only about participants that peer with it both ways, although
\* the sends happen after the tables were read.
THEOREM OnlyPeersHear == PipelineSpec => []PeeringRespected
BY PeeringInvariant, PTL DEF PeeringInv

\* The sender is lost only over a broken connection of a controller that hears from
\* somebody, never over an update or an advertiser that is gone.
THEOREM SenderLostOnlyToBroken == PipelineSpec => []SenderSurvives
BY PeeringInvariant, PTL DEF PeeringInv

-----------------------------------------------------------------------------
(* Where messages are *)

Elems(s) == {s[i] : i \in DOMAIN s}

LEMMA ElemsFacts ==
    ASSUME NEW S, NEW s \in Seq(S)
    PROVE  /\ Elems(s) \subseteq S
           /\ Elems(<<>>) = {}
           /\ s # <<>> => Head(s) \in Elems(s) /\ Elems(s) = {Head(s)} \cup Elems(Tail(s))
<1>1. Elems(s) \subseteq S
  BY QueueFacts DEF Elems
<1>2. Elems(<<>>) = {}
  BY EmptySeq DEF Elems
<1>3. ASSUME s # <<>> PROVE Head(s) \in Elems(s) /\ Elems(s) = {Head(s)} \cup Elems(Tail(s))
  <2>1. /\ 1 \in DOMAIN s /\ Head(s) = s[1]
        /\ \A i \in DOMAIN Tail(s) : i + 1 \in DOMAIN s /\ Tail(s)[i] = s[i + 1]
        /\ \A i \in DOMAIN s : i # 1 => i - 1 \in DOMAIN Tail(s) /\ Tail(s)[i - 1] = s[i]
    BY <1>3, QueueFacts
  <2>2. Elems(Tail(s)) \subseteq Elems(s)
    BY <2>1 DEF Elems
  <2>3. Elems(s) \subseteq {Head(s)} \cup Elems(Tail(s))
    <3> SUFFICES ASSUME NEW i \in DOMAIN s PROVE s[i] \in {Head(s)} \cup Elems(Tail(s))
      BY DEF Elems
    <3>1. CASE i = 1
      BY <2>1, <3>1
    <3>2. CASE i # 1
      <4>1. i - 1 \in DOMAIN Tail(s) /\ Tail(s)[i - 1] = s[i]
        BY <2>1, <3>2
      <4> QED BY <4>1 DEF Elems
    <3> QED BY <3>1, <3>2
  <2> QED BY <2>1, <2>2, <2>3 DEF Elems
<1> QED BY <1>1, <1>2, <1>3

LEMMA AppendFacts ==
    ASSUME NEW S, NEW s \in Seq(S), NEW e \in S
    PROVE  /\ Append(s, e) \in Seq(S)
           /\ Len(s) \in Nat /\ DOMAIN s = 1..Len(s)
           /\ DOMAIN Append(s, e) = 1..(Len(s) + 1)
           /\ \A i \in DOMAIN s : i \in DOMAIN Append(s, e) /\ Append(s, e)[i] = s[i]
           /\ Append(s, e)[Len(s) + 1] = e
           /\ \A i \in DOMAIN Append(s, e) : i \in DOMAIN s \/ i = Len(s) + 1
           /\ Elems(Append(s, e)) = Elems(s) \cup {e}
<1> DEFINE w == Append(s, e)
<1>1. /\ w \in Seq(S) /\ Len(w) = Len(s) + 1
      /\ \A i \in 1..Len(s) : w[i] = s[i]
      /\ w[Len(s) + 1] = e
  BY AppendProperties
<1>2. Len(s) \in Nat /\ DOMAIN s = 1..Len(s) /\ DOMAIN w = 1..(Len(s) + 1)
  BY <1>1, LenProperties
<1> HIDE DEF w
<1>3. \A i \in DOMAIN s : i \in DOMAIN w /\ w[i] = s[i]
  BY <1>1, <1>2
<1>4. \A i \in DOMAIN w : i \in DOMAIN s \/ i = Len(s) + 1
  BY <1>1, <1>2
<1>5. Elems(w) = Elems(s) \cup {e}
  <2>1. Elems(w) \subseteq Elems(s) \cup {e}
    BY <1>1, <1>3, <1>4 DEF Elems
  <2>2. Elems(s) \cup {e} \subseteq Elems(w)
    BY <1>1, <1>2, <1>3 DEF Elems
  <2> QED BY <2>1, <2>2
<1> QED BY <1>1, <1>2, <1>3, <1>4, <1>5 DEF w

LEMMA OneElem == ASSUME NEW S, NEW r \in S PROVE <<r>> \in Seq(S) /\ Elems(<<r>>) = {r}
BY DEF Elems

LEMMA ConcatElems ==
    ASSUME NEW S, NEW a \in Seq(S), NEW b \in Seq(S)
    PROVE  Elems(a \o b) = Elems(a) \cup Elems(b)
<1>1. Elems(a \o b) \subseteq Elems(a) \cup Elems(b)
  <2> SUFFICES ASSUME NEW i \in DOMAIN (a \o b)
               PROVE  (a \o b)[i] \in Elems(a) \cup Elems(b)
    BY DEF Elems
  <2>1. CASE i \in DOMAIN a
    BY <2>1, ConcatFacts DEF Elems
  <2>2. CASE i - Len(a) \in DOMAIN b
    <3>1. Len(a) \in Nat /\ i \in Nat
      BY ConcatFacts
    <3>2. Len(a) + (i - Len(a)) = i
      BY <3>1
    <3>3. (a \o b)[i] = b[i - Len(a)]
      BY <2>2, <3>2, ConcatFacts
    <3> QED BY <2>2, <3>3 DEF Elems
  <2> QED BY <2>1, <2>2, ConcatFacts
<1>2. Elems(a) \cup Elems(b) \subseteq Elems(a \o b)
  <2>1. \A i \in DOMAIN a : i \in DOMAIN (a \o b) /\ (a \o b)[i] = a[i]
    BY ConcatFacts
  <2>2. \A i \in DOMAIN b : Len(a) + i \in DOMAIN (a \o b) /\ (a \o b)[Len(a) + i] = b[i]
    BY ConcatFacts
  <2> DEFINE w == a \o b
  <2> HIDE DEF w
  <2>3. /\ \A i \in DOMAIN a : i \in DOMAIN w /\ w[i] = a[i]
        /\ \A i \in DOMAIN b : Len(a) + i \in DOMAIN w /\ w[Len(a) + i] = b[i]
    BY <2>1, <2>2 DEF w
  <2>4. Elems(a) \cup Elems(b) \subseteq Elems(w)
    BY <2>3 DEF Elems
  <2> QED BY <2>4 DEF w
<1> QED BY <1>1, <1>2

LEMMA ConsElems ==
    ASSUME NEW S, NEW r \in S, NEW b \in Seq(S)
    PROVE  Elems(<<r>> \o b) = {r} \cup Elems(b)
<1> DEFINE one == <<r>>
<1>1. one \in Seq(S) /\ Elems(one) = {r}
  BY OneElem
<1> HIDE DEF one
<1>2. Elems(one \o b) = Elems(one) \cup Elems(b)
  BY <1>1, ConcatElems
<1> QED BY <1>1, <1>2 DEF one

\* Past the SWIFT thread, or past the listener if it is a failure; waiting for a SWIFT
\* thread; kept by one.
Passed(r) ==
    \/ \E c \in Conns : r \in Elems(inbox[c])
    \/ sender.status = "sending" /\ r = sender.route
    \/ r \in Elems(peer_queue)
    \/ \E id \in Participants : r \in Elems(swift[id].out)
Waits(r) == \E id \in Participants : r \in Elems(peer_queue_dict[id])
Kept(r) == \E id \in Participants : r \in Elems(swift[id].unsent)
Past(r) == r.kind # "FR" /\ (Passed(r) \/ Waits(r) \/ Kept(r))

LEMMA PassedTypes ==
    ASSUME PipelineTypeOK, NEW r, Past(r)
    PROVE  r \in Routes \cup Downs
<1>1. \A c \in Conns : Elems(inbox[c]) \subseteq Messages
  BY ElemsFacts DEF PipelineTypeOK
<1>2. Elems(peer_queue) \subseteq Routes \cup Downs
  BY ElemsFacts DEF PipelineTypeOK
<1>3. \A id \in Participants : /\ Elems(swift[id].out) \subseteq Routes
                               /\ Elems(swift[id].unsent) \subseteq Routes
                               /\ Elems(peer_queue_dict[id]) \subseteq Routes
  <2> TAKE id \in Participants
  <2>1. swift[id].out \in Seq(Routes) /\ swift[id].unsent \in Seq(Routes)
        /\ peer_queue_dict[id] \in Seq(Routes)
    BY DEF PipelineTypeOK, SwiftThreads
  <2> QED BY <2>1, ElemsFacts
<1>4. sender.status = "sending" => sender.route \in Messages
  BY HandFacts
<1>5. r \in Messages /\ r.kind # "FR"
  BY <1>1, <1>2, <1>3, <1>4 DEF Past, Passed, Waits, Kept, Messages
<1> QED BY <1>5, MessageKinds DEF Messages, FRs

\* What a step of a SWIFT thread sends is the route it took and routes it had kept.
LEMMA SwiftSends ==
    ASSUME PipelineTypeOK, NEW id \in Participants, SwiftStep(id)
    PROVE  LET t == swift[id]  v == swift'[id]  r == Head(peer_queue_dict[id]) IN
           /\ Elems(v.out) \subseteq {r} \cup Elems(t.unsent)
           /\ Elems(v.unsent) \subseteq {r} \cup Elems(t.unsent)
<1> DEFINE t == swift[id]
           v == swift'[id]
           r == Head(peer_queue_dict[id])
<1>1. r \in Routes /\ t.unsent \in Seq(Routes) /\ <<r>> \in Seq(Routes)
  <2>1. r \in Routes
    BY SwiftStepIs
  <2> QED BY <2>1 DEF PipelineTypeOK, SwiftThreads
<1>2. Elems(<<r>>) = {r}
  BY DEF Elems
<1>3. CASE Keeps(t, v, r)
  <2>1. Elems(Append(t.unsent, r)) = Elems(t.unsent) \cup {r}
    BY <1>1, AppendFacts
  <2> QED BY <1>2, <1>3, <2>1 DEF Keeps
<1>4. CASE Replays(t, v, r)
  <2>1. Elems(<<r>> \o t.unsent) = {r} \cup Elems(t.unsent)
    BY <1>1, ConsElems
  <2>2. Elems(<<>>) = {}
    BY DEF Elems
  <2> QED BY <1>4, <2>1, <2>2 DEF Replays
<1>5. CASE Dies(t, v, r)
  <2>1. PICK m \in DOMAIN t.unsent : v.out = <<r>> \o SubSeq(t.unsent, 1, m - 1)
    BY <1>5 DEF Dies
  <2>2. m \in 1..Len(t.unsent) /\ Len(t.unsent) \in Nat /\ DOMAIN t.unsent = 1..Len(t.unsent)
    BY <1>1, QueueFacts
  <2>3. /\ SubSeq(t.unsent, 1, m - 1) \in Seq(Routes)
        /\ Elems(SubSeq(t.unsent, 1, m - 1)) \subseteq Elems(t.unsent)
    <3> DEFINE w == SubSeq(t.unsent, 1, m - 1)
    <3>1. /\ w \in Seq(Routes) /\ Len(w) = IF 1 <= m - 1 THEN m - 1 - 1 + 1 ELSE 0
          /\ \A i \in 1..(m - 1 - 1 + 1) : w[i] = t.unsent[1 + i - 1]
      BY <1>1, <2>2, SubSeqProperties
    <3>2. DOMAIN w = 1..Len(w)
      BY <3>1, LenProperties
    <3> HIDE DEF w
    <3>3. \A i \in DOMAIN w : i \in DOMAIN t.unsent /\ w[i] = t.unsent[i]
      BY <2>2, <3>1, <3>2
    <3>4. Elems(w) \subseteq Elems(t.unsent)
      BY <3>3 DEF Elems
    <3> QED BY <3>1, <3>4 DEF w
  <2>4. Elems(v.out) = {r} \cup Elems(SubSeq(t.unsent, 1, m - 1))
    BY <1>1, <2>1, <2>3, ConsElems, ZenonT(30)
  <2> QED BY <1>5, <2>3, <2>4 DEF Dies
<1> QED BY <1>3, <1>4, <1>5, SwiftStepIs

\* How messages get on: a message is put in front of the sender by the listener or by a
\* step of a SWIFT thread, in front of a SWIFT thread by the listener, and is kept by
\* the thread that takes it; every other step only moves what is there.
LEMMA Moves ==
    ASSUME Inv, PipelineTypeOK, [Next]_allVars, NEW r, r.kind # "FR"
    PROVE  LET u == Head(receiver_queue) IN
           /\ Passed(r)' => \/ Passed(r)
                            \/ \E id \in Participants : SwiftStep(id) /\ r \in Elems(swift'[id].out)
                            \/ Listener /\ u.state = "down" /\ r = DownOf(u.port, u.n)
           /\ Waits(r)' => \/ Waits(r)
                           \/ /\ Listener /\ u.state = "up"
                              /\ \E routes \in Updates(u) : r \in Elems(routes)
           /\ Kept(r)' => \/ Kept(r)
                          \/ \E id \in Participants :
                                SwiftStep(id) /\ r = Head(peer_queue_dict[id])
<1> DEFINE u == Head(receiver_queue)
<1>1. CASE UNCHANGED <<sender, inbox, peer_queue, peer_queue_dict, swift>>
  BY <1>1 DEF Passed, Waits, Kept
<1>2. CASE Listener
  <2> DEFINE id == OwnerOf[u.port]
  <2>0. u \in FromExaBGP /\ id \in Participants /\ UNCHANGED <<sender, inbox>>
    BY <1>2, ListenerIs, Zenon
  <2>1. CASE UNCHANGED <<peer_queue_dict, swift, peer_queue>>
    BY <2>0, <2>1 DEF Passed, Waits, Kept
  <2>2. CASE /\ u.state = "down" /\ peer_queue' = Append(peer_queue, DownOf(u.port, u.n))
             /\ DownOf(u.port, u.n) \in Downs /\ UNCHANGED <<peer_queue_dict, swift>>
    <3>1. Elems(peer_queue') = Elems(peer_queue) \cup {DownOf(u.port, u.n)}
      <4>1. DownOf(u.port, u.n) \in Routes \cup Downs /\ peer_queue \in Seq(Routes \cup Downs)
        BY <2>2 DEF PipelineTypeOK
      <4> QED BY <2>2, <4>1, AppendFacts
    <3> QED BY <1>2, <2>0, <2>2, <3>1 DEF Passed, Waits, Kept
  <2>3. CASE /\ u.state = "up"
             /\ \E routes \in Updates(u) : peer_queue_dict' = [peer_queue_dict EXCEPT ![id] = @ \o routes]
             /\ \E st \in {"none", "running", "dead"} : swift' = [swift EXCEPT ![id].status = st]
             /\ UNCHANGED peer_queue
    <3>1. PICK routes \in Updates(u) : peer_queue_dict' = [peer_queue_dict EXCEPT ![id] = @ \o routes]
      BY <2>3, Zenon
    <3>2. PICK st \in {"none", "running", "dead"} : swift' = [swift EXCEPT ![id].status = st]
      BY <2>3, Zenon
    <3>3. \A j \in Participants : swift'[j].out = swift[j].out /\ swift'[j].unsent = swift[j].unsent
      BY <3>2 DEF PipelineTypeOK, SwiftThreads
    <3>4. Elems(peer_queue_dict[id] \o routes) = Elems(peer_queue_dict[id]) \cup Elems(routes)
      <4>1. routes \in Seq(Routes) /\ peer_queue_dict[id] \in Seq(Routes)
        BY <2>0, UpdatesAre DEF PipelineTypeOK
      <4> QED BY <4>1, ConcatElems
    <3>5. \A j \in Participants :
             Elems(peer_queue_dict'[j]) \subseteq Elems(peer_queue_dict[j]) \cup Elems(routes)
      BY <2>0, <3>1, <3>4 DEF PipelineTypeOK
    <3>6. Passed(r)' => Passed(r)
      BY <2>0, <2>3, <3>3 DEF Passed
    <3>7. Kept(r)' => Kept(r)
      BY <3>3 DEF Kept
    <3>8. Waits(r)' => Waits(r) \/ r \in Elems(routes)
      BY <3>5 DEF Waits
    <3> QED BY <1>2, <2>3, <3>6, <3>7, <3>8, Zenon
  <2> QED BY <1>2, <2>1, <2>2, <2>3, ListenerIs, Zenon
<1>3. CASE SenderTake
  <2>1. UNCHANGED <<peer_queue_dict, swift, inbox>>
    BY <1>3, SenderTakeIs
  <2>2. Passed(r)' => Passed(r)
    <3>1. CASE /\ FR_queue # <<>> /\ UNCHANGED peer_queue /\ Head(FR_queue) \in FRs
               /\ sender' = Lookup(Head(FR_queue))
      <4>1. sender' = Idle \/ sender'.route = Head(FR_queue)
        BY <3>1, LookupIs DEF Messages
      <4>2. ~(sender'.status = "sending" /\ r = sender'.route)
        BY <3>1, <4>1, MessageKinds DEF Idle
      <4> QED BY <2>1, <3>1, <4>2 DEF Passed
    <3>2. CASE /\ peer_queue # <<>> /\ peer_queue' = Tail(peer_queue)
               /\ Head(peer_queue) \in Routes \cup Downs /\ sender' = Lookup(Head(peer_queue))
      <4>1. sender' = Idle \/ sender'.route = Head(peer_queue)
        BY <3>2, LookupIs DEF Messages
      <4>2. Elems(peer_queue) = {Head(peer_queue)} \cup Elems(Tail(peer_queue))
        BY <3>2, ElemsFacts DEF PipelineTypeOK
      <4>3. sender'.status = "sending" /\ r = sender'.route => r \in Elems(peer_queue)
        BY <4>1, <4>2 DEF Idle
      <4> QED BY <2>1, <3>2, <4>2, <4>3 DEF Passed
    <3> QED BY <1>3, <3>1, <3>2, SenderTakeIs
  <2> QED BY <2>1, <2>2 DEF Waits, Kept
<1>4. ASSUME NEW id \in Participants, SwiftStep(id)
      PROVE  /\ Passed(r)' => Passed(r) \/ r \in Elems(swift'[id].out)
             /\ Waits(r)' => Waits(r)
             /\ Kept(r)' => Kept(r) \/ r = Head(peer_queue_dict[id])
  <2> DEFINE q == peer_queue_dict[id]
  <2>1. /\ q # <<>> /\ q \in Seq(Routes) /\ swift' = [swift EXCEPT ![id] = swift'[id]]
        /\ peer_queue_dict' = [peer_queue_dict EXCEPT ![id] = Tail(q)]
        /\ UNCHANGED <<peer_queue, sender, inbox>>
    BY <1>4, SwiftStepIs DEF PipelineTypeOK
  <2>2. \A j \in Participants : j # id => swift'[j] = swift[j]
    BY <2>1 DEF PipelineTypeOK
  <2>3. Elems(swift'[id].unsent) \subseteq {Head(q)} \cup Elems(swift[id].unsent)
    BY <1>4, SwiftSends
  <2>4. \A j \in Participants : Elems(peer_queue_dict'[j]) \subseteq Elems(peer_queue_dict[j])
    <3>1. Elems(Tail(q)) \subseteq Elems(q)
      BY <2>1, ElemsFacts
    <3> QED BY <2>1, <3>1 DEF PipelineTypeOK
  <2>5. Passed(r)' => Passed(r) \/ r \in Elems(swift'[id].out)
    BY <2>1, <2>2 DEF Passed
  <2>6. Kept(r)' => Kept(r) \/ r = Head(q)
    BY <2>2, <2>3 DEF Kept
  <2>7. Waits(r)' => Waits(r)
    BY <2>4 DEF Waits
  <2> QED BY <2>5, <2>6, <2>7
<1>5. ASSUME NEW id \in Participants, SwiftPut(id)
      PROVE  (Passed(r)' => Passed(r)) /\ (Waits(r)' => Waits(r)) /\ (Kept(r)' => Kept(r))
  <2> DEFINE o == swift[id].out
  <2>1. /\ o # <<>> /\ peer_queue' = Append(peer_queue, Head(o))
        /\ swift' = [swift EXCEPT ![id].out = Tail(@)]
        /\ UNCHANGED <<peer_queue_dict, sender, inbox>>
    BY <1>5 DEF SwiftPut
  <2>2. o \in Seq(Routes)
    BY DEF PipelineTypeOK, SwiftThreads
  <2>3. Head(o) \in Routes /\ Elems(o) = {Head(o)} \cup Elems(Tail(o))
    <3>1. Head(o) \in Routes
      BY <2>1, <2>2, QueueFacts
    <3>2. Elems(o) = {Head(o)} \cup Elems(Tail(o))
      BY <2>1, <2>2, ElemsFacts
    <3> QED BY <3>1, <3>2
  <2>4. Elems(peer_queue') = Elems(peer_queue) \cup {Head(o)}
    <3>1. Head(o) \in Routes \cup Downs /\ peer_queue \in Seq(Routes \cup Downs)
      BY <2>3 DEF PipelineTypeOK
    <3> QED BY <2>1, <3>1, AppendFacts
  <2>5. \A j \in Participants : /\ Elems(swift'[j].out) \subseteq Elems(swift[j].out)
                                /\ swift'[j].unsent = swift[j].unsent
    <3>1. \A j \in Participants : j # id => swift'[j] = swift[j]
      BY <2>1 DEF PipelineTypeOK
    <3>2. swift'[id].out = Tail(o) /\ swift'[id].unsent = swift[id].unsent
      BY <2>1 DEF PipelineTypeOK, SwiftThreads
    <3> QED BY <2>3, <3>1, <3>2
  <2>6. Passed(r)' => Passed(r)
    <3>1. Head(o) \in Elems(swift[id].out)
      BY <2>3
    <3> QED BY <2>1, <2>4, <2>5, <3>1 DEF Passed
  <2> QED BY <2>1, <2>5, <2>6 DEF Waits, Kept
<1>6. ASSUME NEW id \in Participants, FastReroute(id)
      PROVE  (Passed(r)' => Passed(r)) /\ (Waits(r)' => Waits(r)) /\ (Kept(r)' => Kept(r))
  <2>1. /\ swift' = [swift EXCEPT ![id].withdrawals = 0]
        /\ UNCHANGED <<peer_queue_dict, peer_queue, sender, inbox>>
    BY <1>6 DEF FastReroute
  <2>2. \A j \in Participants : swift'[j].out = swift[j].out /\ swift'[j].unsent = swift[j].unsent
    BY <2>1 DEF PipelineTypeOK, SwiftThreads
  <2> QED BY <2>1, <2>2 DEF Passed, Waits, Kept
<1>7. ASSUME NEW c \in Conns, Send(c)
      PROVE  (Passed(r)' => Passed(r)) /\ (Waits(r)' => Waits(r)) /\ (Kept(r)' => Kept(r))
  <2>1. /\ sender.status = "sending" /\ sender.route \in Messages
        /\ UNCHANGED <<peer_queue_dict, swift, peer_queue>>
        /\ \/ inbox' = [inbox EXCEPT ![c] = Append(inbox[c], sender.route)]
           \/ inbox' = inbox
    BY <1>7, SendIs
  <2>2. sender'.status = "sending" => sender'.route = sender.route
    BY <1>7, SendIs DEF Idle, Dead
  <2>3. \A d \in Conns : Elems(inbox'[d]) \subseteq Elems(inbox[d]) \cup {sender.route}
    <3>1. Elems(Append(inbox[c], sender.route)) = Elems(inbox[c]) \cup {sender.route}
      BY <2>1, AppendFacts DEF PipelineTypeOK
    <3> QED BY <2>1, <3>1 DEF PipelineTypeOK
  <2>4. Passed(r)' => Passed(r)
    BY <2>1, <2>2, <2>3 DEF Passed
  <2> QED BY <2>1, <2>4 DEF Waits, Kept
<1>8. \/ UNCHANGED <<sender, inbox, peer_queue, peer_queue_dict, swift>>
      \/ Listener \/ SenderTake
      \/ \E id \in Participants : SwiftStep(id) \/ SwiftPut(id) \/ FastReroute(id)
      \/ \E c \in Conns : Send(c)
  BY DEF Next, SessionStep, PipelineStep, allVars, pipelineVars, Update, PeerDown
<1> QED BY <1>1, <1>2, <1>3, <1>4, <1>5, <1>6, <1>7, <1>8

-----------------------------------------------------------------------------
(* Failures are not overtaken *)

\* Updates are numbered in the order in which they are issued, and what has passed
\* the listener is older than what waits for it.
NumbersAscend ==
    /\ \A i \in DOMAIN receiver_queue : receiver_queue[i].n <= issued
    /\ \A i, j \in DOMAIN receiver_queue : i < j => receiver_queue[i].n < receiver_queue[j].n
    /\ \A r \in Routes \cup Downs : Past(r) =>
          r.n <= issued /\ \A i \in DOMAIN receiver_queue : r.n < receiver_queue[i].n

\* A message is new only if the listener took its update in this step.
LEMMA PastMoves ==
    ASSUME Inv, PipelineTypeOK, [Next]_allVars, NEW r \in Routes \cup Downs, Past(r)'
    PROVE  \/ Past(r)
           \/ /\ Listener /\ r.n = Head(receiver_queue).n /\ r.port = Head(receiver_queue).port
              /\ r \in Routes => r.prefix \in Head(receiver_queue).announce \cup Head(receiver_queue).withdraw
<1>0. r.kind # "FR"
  BY MessageKinds
<1>1. ASSUME NEW id \in Participants, SwiftStep(id),
             r \in Elems(swift'[id].out) \/ r = Head(peer_queue_dict[id])
      PROVE  Past(r)
  <2>1. peer_queue_dict[id] # <<>> /\ peer_queue_dict[id] \in Seq(Routes)
    BY <1>1, SwiftStepIs DEF PipelineTypeOK
  <2>2. Head(peer_queue_dict[id]) \in Elems(peer_queue_dict[id])
    BY <2>1, ElemsFacts
  <2>3. Elems(swift'[id].out) \subseteq {Head(peer_queue_dict[id])} \cup Elems(swift[id].unsent)
    BY <1>1, SwiftSends
  <2> QED BY <1>0, <1>1, <2>2, <2>3 DEF Past, Waits, Kept
<1>2. ASSUME Listener, r = DownOf(Head(receiver_queue).port, Head(receiver_queue).n)
      PROVE  r.n = Head(receiver_queue).n /\ r.port = Head(receiver_queue).port /\ r \notin Routes
  <2>1. r.kind = "down"
    BY <1>2 DEF DownOf
  <2> QED BY <1>2, <2>1, MessageKinds DEF DownOf
<1>3. ASSUME Listener, NEW routes \in Updates(Head(receiver_queue)), r \in Elems(routes)
      PROVE  /\ r.n = Head(receiver_queue).n /\ r.port = Head(receiver_queue).port
             /\ r.prefix \in Head(receiver_queue).announce \cup Head(receiver_queue).withdraw
  <2>1. Head(receiver_queue) \in FromExaBGP
    BY <1>3, ListenerIs, Zenon
  <2> QED BY <1>3, <2>1, UpdatesAre DEF Elems
<1>4. Passed(r)' \/ Waits(r)' \/ Kept(r)'
  BY DEF Past
<1>5. CASE Passed(r)'
  BY <1>0, <1>1, <1>2, <1>5, Moves DEF Past
<1>6. CASE Waits(r)'
  BY <1>0, <1>3, <1>6, Moves DEF Past
<1>7. CASE Kept(r)'
  BY <1>0, <1>1, <1>7, Moves DEF Past
<1> QED BY <1>4, <1>5, <1>6, <1>7

LEMMA NumbersStep ==
    ASSUME Inv, PipelineTypeOK, NumbersAscend, [Next]_allVars
    PROVE  NumbersAscend'
<1>0. receiver_queue \in Seq(FromExaBGP) /\ issued \in Nat
  BY DEF PipelineTypeOK
<1>00. /\ \A u \in FromExaBGP : u.n \in Nat
       /\ \A r \in Routes \cup Downs : r.n \in Nat
  BY DEF FromExaBGP, Routes, Downs
<1>1. CASE Listener
  <2>1. /\ receiver_queue # <<>> /\ receiver_queue' = Tail(receiver_queue) /\ issued' = issued
    BY <1>1, ListenerIs, Zenon DEF environment
  <2>2. /\ 1 \in DOMAIN receiver_queue /\ Head(receiver_queue) = receiver_queue[1]
        /\ DOMAIN receiver_queue' = 1..(Len(receiver_queue) - 1)
        /\ \A i \in DOMAIN receiver_queue' :
             i + 1 \in DOMAIN receiver_queue /\ receiver_queue'[i] = receiver_queue[i + 1]
    BY <1>0, <2>1, QueueFacts
  <2>3. \A r \in Routes \cup Downs : Past(r)' =>
          r.n <= issued /\ \A i \in DOMAIN receiver_queue' : r.n < receiver_queue'[i].n
    <3> SUFFICES ASSUME NEW r \in Routes \cup Downs, Past(r)'
                 PROVE  r.n <= issued /\ \A i \in DOMAIN receiver_queue' : r.n < receiver_queue'[i].n
      OBVIOUS
    <3>1. CASE Past(r)
      BY <2>2, <3>1 DEF NumbersAscend
    <3>2. CASE r.n = receiver_queue[1].n
      BY <2>2, <3>2 DEF NumbersAscend
    <3> QED BY <2>2, <3>1, <3>2, PastMoves
  <2>4. \A i \in DOMAIN receiver_queue' : receiver_queue'[i].n <= issued
    BY <2>2 DEF NumbersAscend
  <2>5. \A i, j \in DOMAIN receiver_queue' : i < j => receiver_queue'[i].n < receiver_queue'[j].n
    <3> TAKE i, j \in DOMAIN receiver_queue'
    <3>1. i < j => i + 1 < j + 1
      BY <2>2
    <3> QED BY <2>2, <3>1 DEF NumbersAscend
  <2> QED BY <2>1, <2>3, <2>4, <2>5, Zenon DEF NumbersAscend
<1>2. ASSUME NEW u \in FromExaBGP, u.n = issued + 1, issued' = issued + 1,
             receiver_queue' = Append(receiver_queue, u), ~Listener
      PROVE  NumbersAscend'
  <2>1. /\ DOMAIN receiver_queue = 1..Len(receiver_queue) /\ Len(receiver_queue) \in Nat
        /\ DOMAIN receiver_queue' = 1..(Len(receiver_queue) + 1)
        /\ \A i \in DOMAIN receiver_queue : receiver_queue'[i] = receiver_queue[i]
        /\ receiver_queue'[Len(receiver_queue) + 1] = u
        /\ \A i \in DOMAIN receiver_queue' : i \in DOMAIN receiver_queue \/ i = Len(receiver_queue) + 1
    BY <1>0, <1>2, AppendFacts
  <2>2. \A i \in DOMAIN receiver_queue : receiver_queue[i].n \in Nat
    BY <1>0, <1>00, QueueFacts
  <2>3. \A i \in DOMAIN receiver_queue' : receiver_queue'[i].n <= issued'
    BY <1>0, <1>2, <2>1, <2>2 DEF NumbersAscend
  <2>4. \A i, j \in DOMAIN receiver_queue' : i < j => receiver_queue'[i].n < receiver_queue'[j].n
    <3> SUFFICES ASSUME NEW i \in DOMAIN receiver_queue', NEW j \in DOMAIN receiver_queue', i < j
                 PROVE  receiver_queue'[i].n < receiver_queue'[j].n
      OBVIOUS
    <3>1. i \in DOMAIN receiver_queue /\ receiver_queue'[i] = receiver_queue[i]
      BY <2>1
    <3>2. CASE j \in DOMAIN receiver_queue
      BY <2>1, <3>1, <3>2 DEF NumbersAscend
    <3>3. CASE j = Len(receiver_queue) + 1
      <4>1. receiver_queue'[j].n = issued + 1
        BY <1>2, <2>1, <3>3
      <4> QED BY <1>0, <2>2, <3>1, <4>1 DEF NumbersAscend
    <3> QED BY <2>1, <3>2, <3>3
  <2>5. \A r \in Routes \cup Downs : Past(r)' =>
          r.n <= issued' /\ \A i \in DOMAIN receiver_queue' : r.n < receiver_queue'[i].n
    <3> SUFFICES ASSUME NEW r \in Routes \cup Downs, Past(r)', NEW i \in DOMAIN receiver_queue'
                 PROVE  r.n <= issued' /\ r.n < receiver_queue'[i].n
      BY <1>0, <1>00, <1>2, PastMoves DEF NumbersAscend
    <3>1. Past(r)
      BY <1>2, PastMoves
    <3>2. r.n <= issued /\ \A l \in DOMAIN receiver_queue : r.n < receiver_queue[l].n /\ r.n \in Nat
      BY <1>00, <3>1 DEF NumbersAscend
    <3>3. CASE i \in DOMAIN receiver_queue
      BY <1>0, <1>00, <1>2, <2>1, <3>2, <3>3
    <3>4. CASE i = Len(receiver_queue) + 1
      BY <1>0, <1>00, <1>2, <2>1, <3>2, <3>4
    <3> QED BY <2>1, <3>3, <3>4
  <2> QED BY <2>3, <2>4, <2>5 DEF NumbersAscend
<1>3. CASE UNCHANGED <<issued, receiver_queue>> /\ ~Listener
  BY <1>3, PastMoves DEF NumbersAscend
<1>4. ASSUME NEW k \in Ports, Update(k) \/ PeerDown(k), ~Listener PROVE NumbersAscend'
  <2>1. CASE Update(k)
    <3>1. PICK A \in SUBSET Prefixes, W \in SUBSET advertised[k] :
             receiver_queue' = Append(receiver_queue,
                [port |-> k, state |-> "up", announce |-> A, withdraw |-> W, n |-> issued + 1])
      BY <2>1 DEF Update
    <3> DEFINE u == [port |-> k, state |-> "up", announce |-> A, withdraw |-> W, n |-> issued + 1]
    <3>2. u \in FromExaBGP /\ u.n = issued + 1
      BY <1>0 DEF FromExaBGP, PipelineTypeOK
    <3>3. issued' = issued + 1
      BY <2>1 DEF Update
    <3> HIDE DEF u
    <3> QED BY <1>2, <1>4, <3>1, <3>2, <3>3 DEF u
  <2>2. CASE PeerDown(k)
    <3> DEFINE u == [port |-> k, state |-> "down", announce |-> {}, withdraw |-> {}, n |-> issued + 1]
    <3>1. u \in FromExaBGP /\ u.n = issued + 1
      BY <1>0 DEF FromExaBGP
    <3>2. issued' = issued + 1 /\ receiver_queue' = Append(receiver_queue, u)
      BY <2>2, Zenon DEF PeerDown
    <3> HIDE DEF u
    <3> QED BY <1>2, <1>4, <3>1, <3>2
  <2> QED BY <1>4, <2>1, <2>2
<1>5. \/ UNCHANGED <<issued, receiver_queue>>
      \/ Listener
      \/ \E k \in Ports : Update(k) \/ PeerDown(k)
  BY Zenon DEF Next, SessionStep, PipelineStep, allVars, pipelineVars, environment,
         SenderTake, SwiftStep, SwiftPut, FastReroute, Send
<1> QED BY <1>1, <1>3, <1>4, <1>5

\* Where both are about one port, route r is older than failure d.
Older(r, d) == OnPrefix(r) /\ d.kind = "down" /\ r.port = d.port => r.n < d.n

\* No route of the port that is newer than a failure comes before it, from the inboxes
\* over the hand of the sender to the end of the peer queue.
DownsInOrder ==
    /\ \A i, j \in DOMAIN peer_queue : i < j => Older(peer_queue[i], peer_queue[j])
    /\ \A c \in Conns : \A r \in Elems(inbox[c]), d \in Elems(peer_queue) : Older(r, d)
    /\ sender.status = "sending" =>
         /\ \A d \in Elems(peer_queue) : Older(sender.route, d)
         /\ \A c \in Conns : \A r \in Elems(inbox[c]) : Older(r, sender.route)
    /\ \A c \in Conns : \A i, j \in DOMAIN inbox[c] : i < j => Older(inbox[c][i], inbox[c][j])

LEMMA DownsStep ==
    ASSUME Inv, PipelineTypeOK, NumbersAscend, DownsInOrder, [Next]_allVars
    PROVE  DownsInOrder'
<1>0. /\ \A c \in Conns : inbox[c] \in Seq(Messages)
      /\ peer_queue \in Seq(Routes \cup Downs)
  BY DEF PipelineTypeOK
<1>1. CASE UNCHANGED <<peer_queue, sender, inbox>>
  BY <1>1 DEF DownsInOrder
<1>2. ASSUME NEW m \in Routes \cup Downs, peer_queue' = Append(peer_queue, m),
             UNCHANGED <<sender, inbox>>,
             \A r \in Routes : Passed(r) => Older(r, m)
      PROVE  DownsInOrder'
  <2>1. /\ \A i \in DOMAIN peer_queue : peer_queue'[i] = peer_queue[i]
        /\ peer_queue'[Len(peer_queue) + 1] = m
        /\ DOMAIN peer_queue = 1..Len(peer_queue) /\ Len(peer_queue) \in Nat
        /\ DOMAIN peer_queue' = 1..(Len(peer_queue) + 1)
        /\ Elems(peer_queue') = Elems(peer_queue) \cup {m}
    BY <1>0, <1>2, AppendFacts
  <2>2. \A r \in Elems(peer_queue) : Older(r, m)
    <3> TAKE r \in Elems(peer_queue)
    <3>1. r \in Routes \cup Downs
      BY <1>0, ElemsFacts
    <3> QED BY <1>2, <3>1, MessageKinds DEF Older, Passed
  <2>3. \A c \in Conns : \A r \in Elems(inbox[c]) : Older(r, m)
    <3> TAKE c \in Conns
    <3> TAKE r \in Elems(inbox[c])
    <3>1. r \in Messages
      BY <1>0, ElemsFacts
    <3> QED BY <1>2, <3>1, MessageKinds DEF Older, Passed
  <2>4. sender.status = "sending" => Older(sender.route, m)
    <3> SUFFICES ASSUME sender.status = "sending" PROVE Older(sender.route, m) OBVIOUS
    <3>1. sender.route \in Messages
      BY HandFacts
    <3> QED BY <1>2, <3>1, MessageKinds DEF Older, Passed
  <2>5. \A i, j \in DOMAIN peer_queue' : i < j => Older(peer_queue'[i], peer_queue'[j])
    <3> SUFFICES ASSUME NEW i \in DOMAIN peer_queue', NEW j \in DOMAIN peer_queue', i < j
                 PROVE  Older(peer_queue'[i], peer_queue'[j])
      OBVIOUS
    <3>1. i \in DOMAIN peer_queue /\ peer_queue'[i] = peer_queue[i] /\ peer_queue[i] \in Elems(peer_queue)
      BY <2>1 DEF Elems
    <3>2. CASE j \in DOMAIN peer_queue
      BY <2>1, <3>1, <3>2 DEF DownsInOrder
    <3>3. CASE j = Len(peer_queue) + 1
      BY <2>1, <2>2, <3>1, <3>3, Zenon
    <3> QED BY <2>1, <3>2, <3>3
  <2> QED BY <1>2, <2>1, <2>3, <2>4, <2>5 DEF DownsInOrder
<1>3. CASE Listener
  <2> DEFINE u == Head(receiver_queue)
             d == DownOf(u.port, u.n)
  <2>1. CASE UNCHANGED peer_queue
    BY <1>1, <1>3, <2>1, ListenerIs, Zenon
  <2>2. CASE peer_queue' = Append(peer_queue, d) /\ d \in Downs
    <3>1. \A r \in Routes : Passed(r) => Older(r, d)
      <4> SUFFICES ASSUME NEW r \in Routes, Passed(r) PROVE r.n < d.n BY DEF Older
      <4>1. Past(r)
        BY MessageKinds, ZenonT(30) DEF Past
      <4>2. receiver_queue # <<>> /\ receiver_queue \in Seq(FromExaBGP)
        BY <1>3, ListenerIs DEF PipelineTypeOK
      <4>3. 1 \in DOMAIN receiver_queue /\ u = receiver_queue[1]
        BY <4>2, QueueFacts, Zenon
      <4> QED BY <4>1, <4>3 DEF NumbersAscend, DownOf
    <3>2. UNCHANGED <<sender, inbox>>
      BY <1>3, ListenerIs, Zenon
    <3> HIDE DEF d
    <3> QED BY <1>2, <2>2, <3>1, <3>2
  <2> QED BY <1>3, <2>1, <2>2, ListenerIs, Zenon
<1>4. ASSUME NEW id \in Participants, SwiftPut(id) PROVE DownsInOrder'
  <2>1. swift[id].out \in Seq(Routes) /\ swift[id].out # <<>>
    BY <1>4 DEF PipelineTypeOK, SwiftThreads, SwiftPut
  <2>2. Head(swift[id].out) \in Routes
    BY <2>1, QueueFacts
  <2>3. \A r \in Routes : Older(r, Head(swift[id].out))
    BY <2>2, MessageKinds DEF Older
  <2>4. peer_queue' = Append(peer_queue, Head(swift[id].out)) /\ UNCHANGED <<sender, inbox>>
    BY <1>4 DEF SwiftPut
  <2> QED BY <1>2, <2>2, <2>3, <2>4
<1>5. CASE SenderTake
  <2>1. inbox' = inbox
    BY <1>5, SenderTakeIs
  <2>2. CASE /\ FR_queue # <<>> /\ UNCHANGED peer_queue /\ Head(FR_queue) \in FRs
             /\ sender' = Lookup(Head(FR_queue))
    <3>1. sender'.status # "sending" \/ sender'.route = Head(FR_queue)
      BY <2>2, LookupIs DEF Messages, Idle
    <3>2. ~OnPrefix(Head(FR_queue)) /\ Head(FR_queue).kind = "FR"
      BY <2>2, MessageKinds
    <3> QED BY <2>1, <2>2, <3>1, <3>2 DEF DownsInOrder, Older
  <2>3. CASE /\ peer_queue # <<>> /\ peer_queue' = Tail(peer_queue)
             /\ Head(peer_queue) \in Routes \cup Downs /\ sender' = Lookup(Head(peer_queue))
    <3>1. sender'.status # "sending" \/ sender'.route = Head(peer_queue)
      BY <2>3, LookupIs DEF Messages, Idle
    <3>2. /\ 1 \in DOMAIN peer_queue /\ Head(peer_queue) = peer_queue[1]
          /\ DOMAIN peer_queue' = 1..(Len(peer_queue) - 1) /\ Len(peer_queue) \in Nat
          /\ \A i \in DOMAIN peer_queue' :
               i + 1 \in DOMAIN peer_queue /\ peer_queue'[i] = peer_queue[i + 1]
      BY <1>0, <2>3, QueueFacts
    <3>3. Elems(peer_queue) = {Head(peer_queue)} \cup Elems(peer_queue')
      BY <1>0, <2>3, ElemsFacts
    <3>4. \A i, j \in DOMAIN peer_queue' : i < j => Older(peer_queue'[i], peer_queue'[j])
      <4> SUFFICES ASSUME NEW i \in DOMAIN peer_queue', NEW j \in DOMAIN peer_queue', i < j
                   PROVE  Older(peer_queue[i + 1], peer_queue[j + 1])
        BY <3>2
      <4>1. i + 1 \in DOMAIN peer_queue /\ j + 1 \in DOMAIN peer_queue /\ i + 1 < j + 1
        BY <3>2
      <4> QED BY <4>1 DEF DownsInOrder
    <3>5. \A d \in Elems(peer_queue') : Older(Head(peer_queue), d)
      <4> SUFFICES ASSUME NEW i \in DOMAIN peer_queue'
                   PROVE  Older(peer_queue[1], peer_queue[i + 1])
        BY <3>2 DEF Elems
      <4>1. i + 1 \in DOMAIN peer_queue /\ 1 < i + 1
        BY <3>2
      <4> QED BY <3>2, <4>1 DEF DownsInOrder
    <3> QED BY <2>1, <3>1, <3>3, <3>4, <3>5 DEF DownsInOrder
  <2> QED BY <1>5, <2>2, <2>3, SenderTakeIs
<1>6. ASSUME NEW c \in Conns, Send(c) PROVE DownsInOrder'
  <2>1. /\ peer_queue' = peer_queue /\ sender.status = "sending" /\ sender.route \in Messages
        /\ sender'.status = "sending" => sender'.route = sender.route
    BY <1>6, SendIs DEF Idle, Dead
  <2>2. CASE inbox' = inbox
    BY <2>1, <2>2 DEF DownsInOrder
  <2>3. CASE inbox' = [inbox EXCEPT ![c] = Append(inbox[c], sender.route)]
    <3>1. /\ inbox'[c] = Append(inbox[c], sender.route)
          /\ \A d \in Conns : d # c => inbox'[d] = inbox[d]
      BY <2>3 DEF PipelineTypeOK
    <3>2. /\ \A i \in DOMAIN inbox[c] : inbox'[c][i] = inbox[c][i]
          /\ inbox'[c][Len(inbox[c]) + 1] = sender.route
          /\ DOMAIN inbox[c] = 1..Len(inbox[c]) /\ Len(inbox[c]) \in Nat
          /\ DOMAIN inbox'[c] = 1..(Len(inbox[c]) + 1)
          /\ Elems(inbox'[c]) = Elems(inbox[c]) \cup {sender.route}
      BY <1>0, <2>1, <3>1, AppendFacts
    <3>3. \A d \in Conns : Elems(inbox'[d]) \subseteq Elems(inbox[d]) \cup {sender.route}
      BY <3>1, <3>2
    <3>4. Older(sender.route, sender.route)
      BY <2>1 DEF Older, OnPrefix
    <3>5. \A i, j \in DOMAIN inbox'[c] : i < j => Older(inbox'[c][i], inbox'[c][j])
      <4> SUFFICES ASSUME NEW i \in DOMAIN inbox'[c], NEW j \in DOMAIN inbox'[c], i < j
                   PROVE  Older(inbox'[c][i], inbox'[c][j])
        OBVIOUS
      <4>1. i \in DOMAIN inbox[c] /\ inbox'[c][i] = inbox[c][i] /\ inbox[c][i] \in Elems(inbox[c])
        BY <3>2 DEF Elems
      <4>2. CASE j \in DOMAIN inbox[c]
        BY <3>2, <4>1, <4>2 DEF DownsInOrder
      <4>3. CASE j = Len(inbox[c]) + 1
        BY <2>1, <3>2, <4>1, <4>3 DEF DownsInOrder
      <4> QED BY <3>2, <4>2, <4>3
    <3>6. \A d \in Conns : \A i, j \in DOMAIN inbox'[d] : i < j => Older(inbox'[d][i], inbox'[d][j])
      BY <3>1, <3>5 DEF DownsInOrder
    <3>7. \A d \in Conns : \A r \in Elems(inbox'[d]), m \in Elems(peer_queue') : Older(r, m)
      BY <2>1, <3>3 DEF DownsInOrder
    <3>8. sender'.status = "sending" =>
             /\ \A m \in Elems(peer_queue') : Older(sender'.route, m)
             /\ \A d \in Conns : \A r \in Elems(inbox'[d]) : Older(r, sender'.route)
      BY <2>1, <3>3, <3>4 DEF DownsInOrder
    <3>9. \A i, j \in DOMAIN peer_queue' : i < j => Older(peer_queue'[i], peer_queue'[j])
      BY <2>1, Zenon DEF DownsInOrder
    <3> QED BY <3>6, <3>7, <3>8, <3>9 DEF DownsInOrder
  <2> QED BY <1>6, <2>2, <2>3, SendIs
<1>7. \/ UNCHANGED <<peer_queue, sender, inbox>>
      \/ Listener \/ SenderTake
      \/ \E id \in Participants : SwiftPut(id)
      \/ \E c \in Conns : Send(c)
  BY Zenon DEF Next, SessionStep, PipelineStep, allVars, pipelineVars, Update, PeerDown,
         SwiftStep, FastReroute
<1> QED BY <1>1, <1>3, <1>4, <1>5, <1>6, <1>7

LEMMA OrderInit == PipelineInit => NumbersAscend /\ DownsInOrder
<1> SUFFICES ASSUME PipelineInit PROVE NumbersAscend /\ DownsInOrder OBVIOUS
<1>1. DOMAIN <<>> = {} /\ Elems(<<>>) = {}
  BY EmptySeq DEF Elems
<1>2. /\ receiver_queue = <<>> /\ peer_queue = <<>> /\ sender.status # "sending"
      /\ \A c \in Conns : inbox[c] = <<>>
      /\ \A id \in Participants : swift[id].out = <<>> /\ swift[id].unsent = <<>>
                                  /\ peer_queue_dict[id] = <<>>
  BY DEF PipelineInit, Idle, NoThread
<1>3. \A r : ~Past(r)
  BY <1>1, <1>2 DEF Past, Passed, Waits, Kept
<1> QED BY <1>1, <1>2, <1>3 DEF NumbersAscend, DownsInOrder

LEMMA OrderInvariant == PipelineSpec => [](NumbersAscend /\ DownsInOrder)
<1>1. PipelineInit => NumbersAscend /\ DownsInOrder
  BY OrderInit
<1>2. Inv /\ PipelineTypeOK /\ NumbersAscend /\ DownsInOrder /\ [Next]_allVars
        => (NumbersAscend /\ DownsInOrder)'
  BY NumbersStep, DownsStep
<1> QED BY <1>1, <1>2, PipelineTypeCorrect, PTL DEF PipelineSpec

\* No update that was issued after a session failed reaches a controller before the
\* failure, although updates and failures take different ways to the sender.
THEOREM DownsStayInOrder == PipelineSpec => []DownIsNotOvertaken
<1>1. DownsInOrder => DownIsNotOvertaken
  BY DEF DownsInOrder, DownIsNotOvertaken, Older
<1> QED BY <1>1, OrderInvariant, PTL

-----------------------------------------------------------------------------
(* What comes last *)

About(r, k, p) == OnPrefix(r) /\ r.port = k /\ r.prefix = p

\* Nothing in s is about prefix p from port k; the last that is about it is r.
Quiet(s, k, p) == \A e \in Elems(s) : ~About(e, k, p)
Ends(s, k, p, r) ==
    \E i \in DOMAIN s : /\ s[i] = r /\ About(r, k, p)
                        /\ \A j \in DOMAIN s : j > i => ~About(s[j], k, p)

LEMMA EndsElem == ASSUME NEW s, NEW k, NEW p, NEW r, Ends(s, k, p, r)
                  PROVE  r \in Elems(s) /\ About(r, k, p) /\ ~Quiet(s, k, p)
BY DEF Ends, Elems, Quiet

\* The last of a concatenation is the last of its second part, unless that is silent.
LEMMA EndsConcat ==
    ASSUME NEW S, NEW a \in Seq(S), NEW b \in Seq(S), NEW k, NEW p, NEW r
    PROVE  Ends(a \o b, k, p, r) <=> Ends(b, k, p, r) \/ (Quiet(b, k, p) /\ Ends(a, k, p, r))
<1> DEFINE w == a \o b
<1>1. /\ Len(a) \in Nat /\ DOMAIN a = 1..Len(a) /\ Len(b) \in Nat /\ DOMAIN b = 1..Len(b)
      /\ DOMAIN w = 1..(Len(a) + Len(b))
      /\ \A i \in DOMAIN a : i \in DOMAIN w /\ w[i] = a[i]
      /\ \A i \in DOMAIN b : Len(a) + i \in DOMAIN w /\ w[Len(a) + i] = b[i]
      /\ \A i \in DOMAIN w : i \in DOMAIN a \/ i - Len(a) \in DOMAIN b
  BY ConcatFacts
<1> HIDE DEF w
<1>0. \A i \in DOMAIN w : i - Len(a) \in DOMAIN b => w[i] = b[i - Len(a)] /\ i > Len(a)
  <2> SUFFICES ASSUME NEW i \in DOMAIN w, i - Len(a) \in DOMAIN b
               PROVE  w[i] = b[i - Len(a)] /\ i > Len(a)
    OBVIOUS
  <2>1. Len(a) + (i - Len(a)) = i /\ i > Len(a)
    BY <1>1
  <2> QED BY <1>1, <2>1
<1>2. ASSUME Ends(b, k, p, r) PROVE Ends(w, k, p, r)
  <2>1. PICK i \in DOMAIN b : /\ b[i] = r /\ About(r, k, p)
                              /\ \A j \in DOMAIN b : j > i => ~About(b[j], k, p)
    BY <1>2 DEF Ends
  <2>2. Len(a) + i \in DOMAIN w /\ w[Len(a) + i] = r
    BY <1>1, <2>1
  <2>3. ASSUME NEW j \in DOMAIN w, j > Len(a) + i PROVE ~About(w[j], k, p)
    <3>1. j - Len(a) \in DOMAIN b /\ j - Len(a) > i
      BY <1>1, <2>3
    <3> QED BY <1>0, <2>1, <3>1
  <2> QED BY <2>1, <2>2, <2>3 DEF Ends
<1>3. ASSUME Quiet(b, k, p), Ends(a, k, p, r) PROVE Ends(w, k, p, r)
  <2>1. PICK i \in DOMAIN a : /\ a[i] = r /\ About(r, k, p)
                              /\ \A j \in DOMAIN a : j > i => ~About(a[j], k, p)
    BY <1>3 DEF Ends
  <2>2. ASSUME NEW j \in DOMAIN w, j > i PROVE ~About(w[j], k, p)
    <3>1. CASE j \in DOMAIN a
      BY <1>1, <2>1, <2>2, <3>1
    <3>2. CASE j - Len(a) \in DOMAIN b
      BY <1>0, <1>3, <3>2 DEF Quiet, Elems
    <3> QED BY <1>1, <3>1, <3>2
  <2> QED BY <1>1, <2>1, <2>2 DEF Ends
<1>4. ASSUME Ends(w, k, p, r)
      PROVE  Ends(b, k, p, r) \/ (Quiet(b, k, p) /\ Ends(a, k, p, r))
  <2>1. PICK i \in DOMAIN w : /\ w[i] = r /\ About(r, k, p)
                              /\ \A j \in DOMAIN w : j > i => ~About(w[j], k, p)
    BY <1>4 DEF Ends
  <2>2. CASE i - Len(a) \in DOMAIN b
    <3>1. b[i - Len(a)] = r
      BY <1>0, <2>1, <2>2
    <3>2. ASSUME NEW j \in DOMAIN b, j > i - Len(a) PROVE ~About(b[j], k, p)
      <4>1. Len(a) + j \in DOMAIN w /\ Len(a) + j > i /\ w[Len(a) + j] = b[j]
        BY <1>1, <2>2, <3>2
      <4> QED BY <2>1, <4>1
    <3> QED BY <2>1, <2>2, <3>1, <3>2 DEF Ends
  <2>3. CASE i \in DOMAIN a
    <3>1. Quiet(b, k, p)
      <4> SUFFICES ASSUME NEW j \in DOMAIN b PROVE ~About(b[j], k, p) BY DEF Quiet, Elems
      <4>1. Len(a) + j \in DOMAIN w /\ Len(a) + j > i /\ w[Len(a) + j] = b[j]
        BY <1>1, <2>3
      <4> QED BY <2>1, <4>1
    <3>2. \A j \in DOMAIN a : j > i => ~About(a[j], k, p)
      BY <1>1, <2>1
    <3>3. a[i] = r
      BY <1>1, <2>1, <2>3
    <3> QED BY <2>1, <2>3, <3>1, <3>2, <3>3 DEF Ends
  <2> QED BY <1>1, <2>1, <2>2, <2>3
<1> QED BY <1>2, <1>3, <1>4 DEF w

LEMMA EndsOne ==
    ASSUME NEW e, NEW k, NEW p, NEW r
    PROVE  /\ Ends(<<e>>, k, p, r) <=> r = e /\ About(e, k, p)
           /\ Quiet(<<e>>, k, p) <=> ~About(e, k, p)
           /\ ~Ends(<<>>, k, p, r)
           /\ Quiet(<<>>, k, p)
<1>1. DOMAIN <<e>> = {1} /\ <<e>>[1] = e /\ DOMAIN <<>> = {}
  OBVIOUS
<1> QED BY <1>1 DEF Ends, Quiet, Elems

LEMMA EmptyFacts ==
    ASSUME NEW s, s = <<>>
    PROVE  Elems(s) = {} /\ \A k, p : Quiet(s, k, p) /\ \A x : ~Ends(s, k, p, x)
<1>1. DOMAIN s = {}
  OBVIOUS
<1> QED BY <1>1 DEF Ends, Quiet, Elems

LEMMA OneFacts ==
    ASSUME NEW e, NEW s, s = <<e>>
    PROVE  /\ Elems(s) = {e}
           /\ \A k, p : /\ Quiet(s, k, p) <=> ~About(e, k, p)
                        /\ \A x : Ends(s, k, p, x) <=> x = e /\ About(e, k, p)
<1>1. DOMAIN s = {1} /\ s[1] = e
  OBVIOUS
<1> QED BY <1>1 DEF Ends, Quiet, Elems

LEMMA EndsCons ==
    ASSUME NEW S, NEW e \in S, NEW b \in Seq(S), NEW k, NEW p, NEW r
    PROVE  /\ Ends(<<e>> \o b, k, p, r) <=>
                Ends(b, k, p, r) \/ (Quiet(b, k, p) /\ r = e /\ About(e, k, p))
           /\ Quiet(<<e>> \o b, k, p) <=> Quiet(b, k, p) /\ ~About(e, k, p)
<1> DEFINE one == <<e>>
<1>1. one \in Seq(S) /\ (Ends(one, k, p, r) <=> r = e /\ About(e, k, p))
  BY EndsOne, OneElem
<1>2. Elems(<<e>> \o b) = {e} \cup Elems(b)
  BY ConsElems
<1> HIDE DEF one
<1>3. Ends(one \o b, k, p, r) <=> Ends(b, k, p, r) \/ (Quiet(b, k, p) /\ Ends(one, k, p, r))
  BY <1>1, EndsConcat
<1> QED BY <1>1, <1>2, <1>3 DEF one, Quiet

LEMMA EndsAppend ==
    ASSUME NEW S, NEW s \in Seq(S), NEW e \in S, NEW k, NEW p, NEW r
    PROVE  /\ Ends(Append(s, e), k, p, r) <=>
                (r = e /\ About(e, k, p)) \/ (~About(e, k, p) /\ Ends(s, k, p, r))
           /\ Quiet(Append(s, e), k, p) <=> Quiet(s, k, p) /\ ~About(e, k, p)
<1> DEFINE one == <<e>>
<1>1. /\ one \in Seq(S)
      /\ Ends(one, k, p, r) <=> r = e /\ About(e, k, p)
      /\ Quiet(one, k, p) <=> ~About(e, k, p)
  BY EndsOne, OneElem
<1>2. Append(s, e) = s \o one
  BY AppendIsConcat
<1>3. Elems(Append(s, e)) = Elems(s) \cup {e}
  BY AppendFacts
<1> HIDE DEF one
<1>4. Ends(s \o one, k, p, r) <=> Ends(one, k, p, r) \/ (Quiet(one, k, p) /\ Ends(s, k, p, r))
  BY <1>1, EndsConcat
<1> QED BY <1>1, <1>2, <1>3, <1>4 DEF Quiet

\* The message in the hand of the sender, if c gets it.
Hand(c) == IF sender.status = "sending" /\ c \in sender.found THEN <<sender.route>> ELSE <<>>

\* What is on the way to c past the SWIFT thread id, and the last of it that is about
\* prefix p from port k, piece by piece.
OnWay(c, id) ==
    Elems(inbox[c]) \cup Elems(Hand(c)) \cup Elems(peer_queue) \cup Elems(swift[id].out)
LastOnWay(c, id, k, p, r) ==
    \/ Ends(swift[id].out, k, p, r)
    \/ /\ Quiet(swift[id].out, k, p)
       /\ \/ Ends(peer_queue, k, p, r)
          \/ /\ Quiet(peer_queue, k, p)
             /\ \/ Ends(Hand(c), k, p, r)
                \/ Quiet(Hand(c), k, p) /\ Ends(inbox[c], k, p, r)

LEMMA PartsTypes ==
    ASSUME PipelineTypeOK, NEW c \in Conns, NEW id \in Participants
    PROVE  /\ inbox[c] \in Seq(Messages) /\ Hand(c) \in Seq(Messages)
           /\ peer_queue \in Seq(Messages) /\ swift[id].out \in Seq(Messages)
<1>1. inbox[c] \in Seq(Messages)
  BY DEF PipelineTypeOK
<1>2. Hand(c) \in Seq(Messages)
  <2>1. <<>> \in Seq(Messages) /\ (sender.status = "sending" => <<sender.route>> \in Seq(Messages))
    BY HandFacts
  <2> QED BY <2>1 DEF Hand
<1>3. peer_queue \in Seq(Messages)
  <2>1. peer_queue \in Seq(Routes \cup Downs) /\ Routes \cup Downs \subseteq Messages
    BY DEF PipelineTypeOK, Messages
  <2> HIDE DEF Messages
  <2> QED BY <2>1
<1>4. swift[id].out \in Seq(Messages)
  <2>1. swift[id].out \in Seq(Routes) /\ Routes \subseteq Messages
    BY DEF PipelineTypeOK, SwiftThreads, Messages
  <2> QED BY <2>1
<1> QED BY <1>1, <1>2, <1>3, <1>4

LEMMA WayIs ==
    ASSUME PipelineTypeOK, NEW c \in Conns, NEW id \in Participants, NEW k, NEW p, NEW r
    PROVE  /\ OnTheWay(c, id) \in Seq(Messages)
           /\ Elems(OnTheWay(c, id)) = OnWay(c, id)
           /\ Ends(OnTheWay(c, id), k, p, r) <=> LastOnWay(c, id, k, p, r)
<1> DEFINE a == inbox[c]  h == Hand(c)  q == peer_queue  o == swift[id].out
<1>5. OnTheWay(c, id) = ((a \o h) \o q) \o o
  BY DEF OnTheWay, Hand
<1>6. \A s : s \in {a, h, q, o} => s \in Seq(Messages)
  BY PartsTypes
<1> HIDE DEF a, h, q, o
<1> DEFINE ah == a \o h
<1>7. /\ ah \in Seq(Messages) /\ Elems(ah) = Elems(a) \cup Elems(h)
      /\ Ends(ah, k, p, r) <=> Ends(h, k, p, r) \/ (Quiet(h, k, p) /\ Ends(a, k, p, r))
  BY <1>6, ConcatProperties, ConcatElems, EndsConcat
<1> HIDE DEF ah
<1> DEFINE ahq == ah \o q
<1>8. /\ ahq \in Seq(Messages) /\ Elems(ahq) = Elems(ah) \cup Elems(q)
      /\ Ends(ahq, k, p, r) <=> Ends(q, k, p, r) \/ (Quiet(q, k, p) /\ Ends(ah, k, p, r))
  BY <1>6, <1>7, ConcatProperties, ConcatElems, EndsConcat
<1> HIDE DEF ahq
<1> DEFINE w == ahq \o o
<1>9. /\ w \in Seq(Messages) /\ Elems(w) = Elems(ahq) \cup Elems(o)
      /\ Ends(w, k, p, r) <=> Ends(o, k, p, r) \/ (Quiet(o, k, p) /\ Ends(ahq, k, p, r))
  BY <1>6, <1>8, ConcatProperties, ConcatElems, EndsConcat
<1>10. OnTheWay(c, id) = w
  BY <1>5 DEF ah, ahq
<1> HIDE DEF w
<1>11. Elems(w) = OnWay(c, id)
  BY <1>7, <1>8, <1>9 DEF OnWay, a, h, q, o
<1>12. Ends(w, k, p, r) <=> LastOnWay(c, id, k, p, r)
  BY <1>7, <1>8, <1>9 DEF LastOnWay, a, h, q, o
<1> QED BY <1>9, <1>10, <1>11, <1>12

-----------------------------------------------------------------------------
(* The order within a SWIFT thread *)

Ascends(s) == \A i, j \in DOMAIN s : i < j => s[i].n <= s[j].n

LEMMA AscendsTail ==
    ASSUME NEW s \in Seq(Routes), s # <<>>, Ascends(s)
    PROVE  Ascends(Tail(s)) /\ \A e \in Elems(s) : Head(s).n <= e.n
<1>1. /\ Len(s) \in Nat /\ DOMAIN s = 1..Len(s)
      /\ 1 \in DOMAIN s /\ Head(s) = s[1] /\ DOMAIN Tail(s) = 1..(Len(s) - 1)
      /\ \A i \in DOMAIN Tail(s) : i + 1 \in DOMAIN s /\ Tail(s)[i] = s[i + 1]
  BY QueueFacts
<1>2. Ascends(Tail(s))
  <2> SUFFICES ASSUME NEW i \in DOMAIN Tail(s), NEW j \in DOMAIN Tail(s), i < j
               PROVE  Tail(s)[i].n <= Tail(s)[j].n
    BY DEF Ascends
  <2>1. i + 1 \in DOMAIN s /\ j + 1 \in DOMAIN s /\ i + 1 < j + 1
    BY <1>1
  <2> QED BY <1>1, <2>1 DEF Ascends
<1>3. ASSUME NEW i \in DOMAIN s PROVE s[1].n <= s[i].n
  <2>1. CASE i = 1
    <3>1. s[1] \in Routes
      BY <1>1, QueueFacts
    <3> QED BY <2>1, <3>1, MessageKinds
  <2>2. CASE i # 1
    <3>1. 1 < i
      BY <1>1, <2>2
    <3> QED BY <1>1, <3>1 DEF Ascends
  <2> QED BY <2>1, <2>2
<1> QED BY <1>1, <1>2, <1>3 DEF Elems

LEMMA AscendsAppend ==
    ASSUME NEW s \in Seq(Routes), NEW e \in Routes, Ascends(s), \A x \in Elems(s) : x.n <= e.n
    PROVE  Ascends(Append(s, e))
<1>1. /\ Len(s) \in Nat /\ DOMAIN s = 1..Len(s)
      /\ DOMAIN Append(s, e) = 1..(Len(s) + 1)
      /\ \A i \in DOMAIN s : Append(s, e)[i] = s[i]
      /\ Append(s, e)[Len(s) + 1] = e
  BY AppendFacts
<1> DEFINE w == Append(s, e)
<1> HIDE DEF w
<1> SUFFICES ASSUME NEW i \in DOMAIN w, NEW j \in DOMAIN w, i < j PROVE w[i].n <= w[j].n
  BY DEF Ascends, w
<1>2. i \in DOMAIN s /\ w[i] = s[i] /\ s[i] \in Elems(s)
  BY <1>1 DEF Elems, w
<1>3. CASE j \in DOMAIN s
  BY <1>1, <1>2, <1>3 DEF Ascends, w
<1>4. CASE j = Len(s) + 1
  BY <1>1, <1>2, <1>4 DEF w
<1> QED BY <1>1, <1>3, <1>4 DEF w

LEMMA AscendsConcat ==
    ASSUME NEW a \in Seq(Routes), NEW b \in Seq(Routes), Ascends(a), Ascends(b),
           \A x \in Elems(a), y \in Elems(b) : x.n <= y.n
    PROVE  Ascends(a \o b)
<1> DEFINE w == a \o b
<1>1. /\ Len(a) \in Nat /\ DOMAIN a = 1..Len(a) /\ Len(b) \in Nat /\ DOMAIN b = 1..Len(b)
      /\ DOMAIN w = 1..(Len(a) + Len(b))
      /\ \A i \in DOMAIN a : w[i] = a[i]
      /\ \A i \in DOMAIN b : w[Len(a) + i] = b[i]
      /\ \A i \in DOMAIN w : i \in DOMAIN a \/ i - Len(a) \in DOMAIN b
  BY ConcatFacts
<1> HIDE DEF w
<1>2. \A i \in DOMAIN w : i - Len(a) \in DOMAIN b => w[i] = b[i - Len(a)]
  <2> SUFFICES ASSUME NEW i \in DOMAIN w, i - Len(a) \in DOMAIN b PROVE w[i] = b[i - Len(a)]
    OBVIOUS
  <2>1. Len(a) + (i - Len(a)) = i
    BY <1>1
  <2> QED BY <1>1, <2>1
<1> SUFFICES ASSUME NEW i \in DOMAIN w, NEW j \in DOMAIN w, i < j PROVE w[i].n <= w[j].n
  BY DEF Ascends, w
<1>3. CASE i \in DOMAIN a /\ j \in DOMAIN a
  BY <1>1, <1>3 DEF Ascends
<1>4. CASE i \in DOMAIN a /\ j - Len(a) \in DOMAIN b
  BY <1>1, <1>2, <1>4 DEF Elems
<1>5. CASE i - Len(a) \in DOMAIN b /\ j - Len(a) \in DOMAIN b
  <2>1. i - Len(a) < j - Len(a)
    BY <1>1
  <2> QED BY <1>2, <1>5, <2>1 DEF Ascends
<1>6. CASE i - Len(a) \in DOMAIN b /\ j \in DOMAIN a
  BY <1>1, <1>6
<1> QED BY <1>1, <1>3, <1>4, <1>5, <1>6

\* Thread id has state t and queue q: it is asked about ports of its own only; what it
\* keeps are announcements, in ascending order and older than what waits; once the
\* encoding exists nothing is kept; before, the RIB has not grown past the threshold and
\* holds every prefix of a kept announcement.
OrderOf(t, q, id) ==
    /\ \A e \in Elems(q) : OwnerOf[e.port] = id
    /\ \A e \in Elems(t.out) : OwnerOf[e.port] = id
    /\ \A e \in Elems(t.unsent) : OwnerOf[e.port] = id /\ e.kind = "announce"
    /\ Ascends(q) /\ Ascends(t.unsent)
    /\ \A e \in Elems(q), m \in Elems(t.unsent) : m.n <= e.n
    /\ t.encoded => t.unsent = <<>> \/ t.status = "dead"
    /\ ~t.encoded => /\ ~(Cardinality(t.rib) > EncodingThreshold)
                     /\ \A m \in Elems(t.unsent) : m.prefix \in t.rib

ThreadOrder == \A id \in Participants : OrderOf(swift[id], peer_queue_dict[id], id)

\* What has passed a SWIFT thread is older than what waits for it; until the encoding
\* exists only announcements pass, and of each an equally new one is kept.
PassedOrder ==
    \A r \in Routes : Passed(r) =>
        LET t == swift[OwnerOf[r.port]]  q == peer_queue_dict[OwnerOf[r.port]] IN
        /\ \A e \in Elems(q) : r.n <= e.n
        /\ ~t.encoded => /\ r.kind = "announce"
                         /\ \E m \in Elems(t.unsent) : About(m, r.port, r.prefix) /\ r.n <= m.n

LEMMA SwiftStepOrder ==
    ASSUME PipelineTypeOK, ThreadOrder, NEW id \in Participants, SwiftStep(id)
    PROVE  OrderOf(swift'[id], peer_queue_dict'[id], id)
<1> DEFINE t == swift[id]
           v == swift'[id]
           q == peer_queue_dict[id]
           r == Head(q)
<1>1. /\ q \in Seq(Routes) /\ q # <<>> /\ r \in Routes /\ t.status = "running"
      /\ peer_queue_dict'[id] = Tail(q)
      /\ Keeps(t, v, r) \/ Replays(t, v, r) \/ Dies(t, v, r)
      /\ t.unsent \in Seq(Routes)
  BY SwiftStepIs DEF PipelineTypeOK, SwiftThreads
<1>2. OrderOf(t, q, id)
  BY DEF ThreadOrder
<1>3. /\ Elems(q) = {r} \cup Elems(Tail(q)) /\ r \in Elems(q)
      /\ Ascends(Tail(q)) /\ \A e \in Elems(q) : r.n <= e.n
  BY <1>1, <1>2, ElemsFacts, AscendsTail DEF OrderOf
<1>4. /\ Elems(v.out) \subseteq {r} \cup Elems(t.unsent)
      /\ Elems(v.unsent) \subseteq {r} \cup Elems(t.unsent)
  BY SwiftSends
<1>5. /\ \A e \in Elems(Tail(q)) : OwnerOf[e.port] = id
      /\ \A e \in Elems(v.out) : OwnerOf[e.port] = id
      /\ \A e \in Elems(v.unsent) : OwnerOf[e.port] = id
      /\ \A e \in Elems(Tail(q)), m \in Elems(v.unsent) : m.n <= e.n
  BY <1>2, <1>3, <1>4 DEF OrderOf
<1> SUFFICES OrderOf(v, Tail(q), id)
  BY <1>1
<1> HIDE DEF t, v, q, r
<1>6. CASE Keeps(t, v, r)
  <2>1. Elems(v.unsent) = Elems(t.unsent) \cup {r}
    BY <1>1, <1>6, AppendFacts DEF Keeps
  <2>2. Ascends(v.unsent)
    BY <1>1, <1>2, <1>3, <1>6, AscendsAppend DEF OrderOf, Keeps
  <2>3. \A m \in Elems(v.unsent) : m.kind = "announce" /\ m.prefix \in v.rib
    BY <1>2, <1>6, <2>1 DEF OrderOf, Keeps
  <2> QED BY <1>3, <1>5, <1>6, <2>2, <2>3 DEF OrderOf, Keeps
<1>7. CASE Replays(t, v, r)
  <2>1. Elems(v.unsent) = {} /\ v.unsent = <<>> /\ v.encoded /\ Ascends(v.unsent)
    BY <1>7 DEF Replays, Elems, Ascends
  <2> QED BY <1>3, <1>5, <2>1 DEF OrderOf
<1>8. CASE Dies(t, v, r)
  <2>1. v.encoded /\ v.status = "dead" /\ v.unsent = t.unsent
    BY <1>8 DEF Dies
  <2>2. Ascends(t.unsent) /\ \A m \in Elems(t.unsent) : m.kind = "announce"
    BY <1>2 DEF OrderOf
  <2> QED BY <1>3, <1>5, <2>1, <2>2 DEF OrderOf
<1> QED BY <1>1, <1>6, <1>7, <1>8

LEMMA ThreadOrderStep ==
    ASSUME Inv, PipelineTypeOK, NumbersAscend, ThreadOrder, [Next]_allVars
    PROVE  ThreadOrder'
<1> SUFFICES ASSUME NEW j \in Participants PROVE OrderOf(swift'[j], peer_queue_dict'[j], j)
  BY DEF ThreadOrder
<1>0. OrderOf(swift[j], peer_queue_dict[j], j)
  BY DEF ThreadOrder
<1>00. swift[j] \in SwiftThreads /\ peer_queue_dict[j] \in Seq(Routes) /\ swift[j].out \in Seq(Routes)
  BY DEF PipelineTypeOK, SwiftThreads
<1>1. CASE UNCHANGED <<peer_queue_dict, swift>>
  BY <1>0, <1>1
\* The status, the withdrawals and what is sent do not matter to the order.
<1>2. ASSUME swift'[j].unsent = swift[j].unsent, swift'[j].encoded = swift[j].encoded,
             swift'[j].rib = swift[j].rib, Elems(swift'[j].out) \subseteq Elems(swift[j].out),
             swift[j].status = "dead" => swift'[j].status = "dead",
             peer_queue_dict'[j] = peer_queue_dict[j]
      PROVE  OrderOf(swift'[j], peer_queue_dict'[j], j)
  BY <1>0, <1>2, Zenon DEF OrderOf
<1>3. CASE Listener
  <2> DEFINE u == Head(receiver_queue)
             id == OwnerOf[u.port]
  <2>1. u \in FromExaBGP /\ id \in Participants
    BY <1>3, ListenerIs, Zenon
  <2>2. ASSUME NEW routes \in Updates(u), peer_queue_dict' = [peer_queue_dict EXCEPT ![id] = @ \o routes],
               NEW st, swift' = [swift EXCEPT ![id].status = st],
               swift[id].status = "dead" => st = "dead"
        PROVE  OrderOf(swift'[j], peer_queue_dict'[j], j)
    <3>1. /\ swift'[j].unsent = swift[j].unsent /\ swift'[j].encoded = swift[j].encoded
          /\ swift'[j].rib = swift[j].rib /\ swift'[j].out = swift[j].out
          /\ swift[j].status = "dead" => swift'[j].status = "dead"
      BY <2>2, ZenonT(30) DEF PipelineTypeOK, SwiftThreads
    <3>2. CASE j # id
      <4>1. peer_queue_dict'[j] = peer_queue_dict[j]
        BY <2>2, <3>2 DEF PipelineTypeOK
      <4> QED BY <1>2, <3>1, <4>1
    <3>3. CASE j = id
      <4>1. peer_queue_dict'[j] = peer_queue_dict[j] \o routes
        BY <2>1, <2>2, <3>3 DEF PipelineTypeOK
      <4>2. /\ routes \in Seq(Routes)
            /\ \A i \in DOMAIN routes : routes[i].port = u.port /\ routes[i].n = u.n
        BY <2>1, <2>2, UpdatesAre
      <4>3. \A e \in Elems(routes) : e.port = u.port /\ e.n = u.n /\ e.n \in Nat
        BY <2>1, <4>2 DEF Elems, FromExaBGP
      <4>4. Ascends(routes)
        BY <2>1, <4>2 DEF Ascends, FromExaBGP
      <4>5. receiver_queue # <<>> /\ receiver_queue \in Seq(FromExaBGP)
        BY <1>3, ListenerIs DEF PipelineTypeOK
      <4>6. 1 \in DOMAIN receiver_queue /\ u = receiver_queue[1]
        BY <4>5, QueueFacts
      <4>7. \A e \in Elems(peer_queue_dict[j]) \cup Elems(swift[j].unsent) : e.n <= u.n
        <5> TAKE e \in Elems(peer_queue_dict[j]) \cup Elems(swift[j].unsent)
        <5>1. e \in Routes
          <6>1. swift[j].unsent \in Seq(Routes)
            BY <1>00 DEF SwiftThreads
          <6> QED BY <1>00, <6>1, ElemsFacts
        <5>2. Past(e)
          BY <5>1, MessageKinds DEF Past, Waits, Kept
        <5>3. e.n < u.n /\ e.n \in Nat /\ u.n \in Nat
          BY <2>1, <4>6, <5>1, <5>2, MessageKinds DEF NumbersAscend, FromExaBGP
        <5> QED BY <5>3
      <4>8. Ascends(peer_queue_dict[j] \o routes)
        BY <1>0, <1>00, <4>2, <4>3, <4>4, <4>7, AscendsConcat DEF OrderOf
      <4>9. Elems(peer_queue_dict[j] \o routes) = Elems(peer_queue_dict[j]) \cup Elems(routes)
        BY <1>00, <4>2, ConcatElems
      <4>10. \A e \in Elems(peer_queue_dict'[j]) : OwnerOf[e.port] = j
        BY <1>0, <3>3, <4>1, <4>3, <4>9, Zenon DEF OrderOf
      <4>11. \A e \in Elems(peer_queue_dict'[j]), m \in Elems(swift[j].unsent) : m.n <= e.n
        BY <1>0, <4>1, <4>3, <4>7, <4>9 DEF OrderOf
      <4> QED BY <1>0, <3>1, <4>1, <4>8, <4>10, <4>11 DEF OrderOf
    <3> QED BY <3>2, <3>3
  <2> QED BY <1>1, <1>3, <2>2, ListenerIs, Zenon
<1>4. ASSUME NEW id \in Participants, SwiftStep(id) PROVE OrderOf(swift'[j], peer_queue_dict'[j], j)
  <2>1. CASE j = id
    BY <1>4, <2>1, SwiftStepOrder
  <2>2. CASE j # id
    <3>1. /\ swift' = [swift EXCEPT ![id] = swift'[id]]
          /\ peer_queue_dict' = [peer_queue_dict EXCEPT ![id] = Tail(peer_queue_dict[id])]
      BY <1>4, SwiftStepIs
    <3>2. swift'[j] = swift[j] /\ peer_queue_dict'[j] = peer_queue_dict[j]
      BY <2>2, <3>1 DEF PipelineTypeOK
    <3> QED BY <1>0, <3>2
  <2> QED BY <2>1, <2>2
<1>5. ASSUME NEW id \in Participants, SwiftPut(id) PROVE OrderOf(swift'[j], peer_queue_dict'[j], j)
  <2>1. /\ swift[id].out # <<>> /\ swift' = [swift EXCEPT ![id].out = Tail(@)]
        /\ peer_queue_dict' = peer_queue_dict
    BY <1>5 DEF SwiftPut
  <2>2. Elems(Tail(swift[id].out)) \subseteq Elems(swift[id].out)
    <3>1. swift[id].out \in Seq(Routes)
      BY DEF PipelineTypeOK, SwiftThreads
    <3> QED BY <2>1, <3>1, ElemsFacts
  <2>3. /\ swift'[j].unsent = swift[j].unsent /\ swift'[j].encoded = swift[j].encoded
        /\ swift'[j].rib = swift[j].rib /\ swift'[j].status = swift[j].status
        /\ Elems(swift'[j].out) \subseteq Elems(swift[j].out)
    BY <2>1, <2>2 DEF PipelineTypeOK, SwiftThreads
  <2> QED BY <1>2, <2>1, <2>3
<1>6. ASSUME NEW id \in Participants, FastReroute(id) PROVE OrderOf(swift'[j], peer_queue_dict'[j], j)
  <2>1. swift' = [swift EXCEPT ![id].withdrawals = 0] /\ peer_queue_dict' = peer_queue_dict
    BY <1>6 DEF FastReroute
  <2>2. /\ swift'[j].unsent = swift[j].unsent /\ swift'[j].encoded = swift[j].encoded
        /\ swift'[j].rib = swift[j].rib /\ swift'[j].status = swift[j].status
        /\ swift'[j].out = swift[j].out
    BY <2>1 DEF PipelineTypeOK, SwiftThreads
  <2> QED BY <1>2, <2>1, <2>2
<1>7. \/ UNCHANGED <<peer_queue_dict, swift>>
      \/ Listener
      \/ \E id \in Participants : SwiftStep(id) \/ SwiftPut(id) \/ FastReroute(id)
  BY DEF Next, SessionStep, PipelineStep, allVars, pipelineVars, Update, PeerDown, SenderTake, Send
<1> QED BY <1>1, <1>3, <1>4, <1>5, <1>6, <1>7

LEMMA PassedOrderStep ==
    ASSUME Inv, PipelineTypeOK, NumbersAscend, ThreadOrder, PassedOrder, [Next]_allVars
    PROVE  PassedOrder'
<1> SUFFICES ASSUME NEW r \in Routes, Passed(r)'
             PROVE  LET id == OwnerOf[r.port] IN
                    /\ \A e \in Elems(peer_queue_dict'[id]) : r.n <= e.n
                    /\ ~swift'[id].encoded =>
                         /\ r.kind = "announce"
                         /\ \E m \in Elems(swift'[id].unsent) :
                                About(m, r.port, r.prefix) /\ r.n <= m.n
  BY DEF PassedOrder
<1> DEFINE id == OwnerOf[r.port]
           t == swift[id]
           q == peer_queue_dict[id]
<1>0. /\ id \in Participants /\ r.kind \in {"announce", "withdraw"} /\ r.kind # "FR" /\ r.n \in Nat
      /\ r.port \in Ports /\ r.prefix \in Prefixes
  BY MessageKinds, SessionAssumption
<1>00. t \in SwiftThreads /\ q \in Seq(Routes) /\ t.unsent \in Seq(Routes)
  BY <1>0, Zenon DEF PipelineTypeOK, SwiftThreads
<1>1. ASSUME Passed(r)
      PROVE  /\ \A e \in Elems(q) : r.n <= e.n
             /\ ~t.encoded =>
                  /\ r.kind = "announce"
                  /\ \E m \in Elems(t.unsent) : About(m, r.port, r.prefix) /\ r.n <= m.n
  BY <1>1 DEF PassedOrder
<1>2. OrderOf(t, q, id)
  BY <1>0 DEF ThreadOrder
<1>3. CASE Listener
  <2> DEFINE u == Head(receiver_queue)
             own == OwnerOf[u.port]
  <2>1. u \in FromExaBGP /\ own \in Participants
    BY <1>3, ListenerIs, Zenon
  <2>2. Passed(r)
    <3>1. r # DownOf(u.port, u.n)
      BY <1>0 DEF DownOf
    <3>2. ~\E j \in Participants : SwiftStep(j)
      <4>1. receiver_queue # <<>> /\ receiver_queue' = Tail(receiver_queue) /\ receiver_queue \in Seq(FromExaBGP)
        BY <1>3, ListenerIs DEF PipelineTypeOK
      <4>2. receiver_queue' # receiver_queue
        <5>1. DOMAIN Tail(receiver_queue) = 1..(Len(receiver_queue) - 1) /\ 1 \in DOMAIN receiver_queue
              /\ DOMAIN receiver_queue = 1..Len(receiver_queue) /\ Len(receiver_queue) \in Nat
          BY <4>1, QueueFacts
        <5>2. Len(receiver_queue) \in DOMAIN receiver_queue /\ Len(receiver_queue) \notin DOMAIN Tail(receiver_queue)
          BY <5>1
        <5> QED BY <4>1, <5>2
      <4> QED BY <4>2, SwiftStepIs, ZenonT(30)
    <3> QED BY <1>0, <3>1, <3>2, Moves
  <2>3. CASE UNCHANGED <<peer_queue_dict, swift>>
    BY <1>1, <2>2, <2>3
  <2>4. ASSUME NEW routes \in Updates(u), peer_queue_dict' = [peer_queue_dict EXCEPT ![own] = @ \o routes],
               NEW st, swift' = [swift EXCEPT ![own].status = st]
        PROVE  /\ \A e \in Elems(peer_queue_dict'[id]) : r.n <= e.n
               /\ swift'[id].encoded = t.encoded /\ swift'[id].unsent = t.unsent
    <3>1. swift'[id].encoded = t.encoded /\ swift'[id].unsent = t.unsent
      BY <1>0, <2>4 DEF PipelineTypeOK, SwiftThreads
    <3>2. \A e \in Elems(peer_queue_dict'[id]) : e \in Elems(q) \/ e \in Elems(routes)
      <4>1. CASE own # id
        BY <1>0, <2>4, <4>1 DEF PipelineTypeOK
      <4>2. CASE own = id
        <5>1. peer_queue_dict'[id] = q \o routes
          BY <1>0, <2>4, <4>2 DEF PipelineTypeOK
        <5>2. routes \in Seq(Routes)
          BY <2>1, <2>4, UpdatesAre
        <5> QED BY <1>00, <5>1, <5>2, ConcatElems
      <4> QED BY <4>1, <4>2
    <3>3. \A e \in Elems(routes) : e.n = u.n
      BY <2>1, <2>4, UpdatesAre DEF Elems
    <3>4. r.n <= u.n
      <4>1. Past(r)
        BY <1>0, <2>2 DEF Past
      <4>2. receiver_queue # <<>> /\ receiver_queue \in Seq(FromExaBGP)
        BY <1>3, ListenerIs DEF PipelineTypeOK
      <4>3. 1 \in DOMAIN receiver_queue /\ u = receiver_queue[1]
        BY <4>2, QueueFacts
      <4>4. r.n < u.n /\ u.n \in Nat
        BY <2>1, <4>1, <4>3, Zenon DEF NumbersAscend, FromExaBGP
      <4> QED BY <1>0, <4>4
    <3> QED BY <1>1, <2>2, <3>1, <3>2, <3>3, <3>4
  <2>5. CASE \E routes \in Updates(u), st \in {"none", "running", "dead"} :
                /\ peer_queue_dict' = [peer_queue_dict EXCEPT ![own] = @ \o routes]
                /\ swift' = [swift EXCEPT ![own].status = st]
    BY <1>1, <2>2, <2>4, <2>5, Zenon
  <2> QED BY <1>3, <2>3, <2>5, ListenerIs, Zenon
<1>4. ASSUME NEW j \in Participants, SwiftStep(j)
      PROVE  /\ \A e \in Elems(peer_queue_dict'[id]) : r.n <= e.n
             /\ ~swift'[id].encoded =>
                  /\ r.kind = "announce"
                  /\ \E m \in Elems(swift'[id].unsent) : About(m, r.port, r.prefix) /\ r.n <= m.n
  <2>1. /\ swift' = [swift EXCEPT ![j] = swift'[j]]
        /\ peer_queue_dict' = [peer_queue_dict EXCEPT ![j] = Tail(peer_queue_dict[j])]
        /\ peer_queue_dict[j] # <<>> /\ peer_queue_dict[j] \in Seq(Routes)
        /\ UNCHANGED <<sender, inbox, peer_queue, receiver_queue>>
    BY <1>4, SwiftStepIs DEF PipelineTypeOK
  <2>2. Passed(r) \/ r \in Elems(swift'[j].out)
    <3>1. \A i \in Participants : i # j => swift'[i] = swift[i]
      BY <2>1 DEF PipelineTypeOK
    <3> QED BY <2>1, <3>1 DEF Passed
  <2>3. CASE j # id
    <3>1. swift'[id] = t /\ peer_queue_dict'[id] = q
      BY <1>0, <2>1, <2>3 DEF PipelineTypeOK
    <3>2. Passed(r)
      <4>1. SUFFICES ASSUME r \in Elems(swift'[j].out) PROVE FALSE
        BY <2>2
      <4>2. OrderOf(swift'[j], peer_queue_dict'[j], j)
        BY <1>4, SwiftStepOrder
      <4> QED BY <2>3, <4>1, <4>2 DEF OrderOf
    <3> QED BY <1>1, <3>1, <3>2
  <2>4. CASE j = id
    <3> DEFINE v == swift'[id]
               h == Head(q)
    <3>1. /\ h \in Routes /\ peer_queue_dict'[id] = Tail(q) /\ h.n \in Nat
          /\ Keeps(t, v, h) \/ Replays(t, v, h) \/ Dies(t, v, h)
      <4>1. LET x == Head(peer_queue_dict[j]) IN
            /\ x \in Routes
            /\ Keeps(swift[j], swift'[j], x) \/ Replays(swift[j], swift'[j], x)
                                             \/ Dies(swift[j], swift'[j], x)
        BY <1>4, SwiftStepIs
      <4>2. peer_queue_dict'[id] = Tail(q)
        BY <1>0, <2>1, <2>4 DEF PipelineTypeOK
      <4>3. h \in Routes /\ (Keeps(t, v, h) \/ Replays(t, v, h) \/ Dies(t, v, h))
        BY <2>4, <4>1
      <4>4. h.n \in Nat
        BY <4>3, MessageKinds
      <4> QED BY <4>2, <4>3, <4>4
    <3>2. /\ Elems(q) = {h} \cup Elems(Tail(q)) /\ \A e \in Elems(q) : h.n <= e.n
      BY <1>00, <1>2, <2>1, <2>4, ElemsFacts, AscendsTail DEF OrderOf
    <3>3. Elems(v.out) \subseteq {h} \cup Elems(t.unsent)
      BY <1>4, <2>4, SwiftSends
    <3> HIDE DEF v, h, t, q
    <3>4. \A e \in Elems(Tail(q)) : r.n <= e.n
      <4>1. CASE Passed(r)
        BY <1>1, <3>2, <4>1
      <4>2. CASE r \in Elems(v.out)
        BY <1>2, <3>2, <3>3, <4>2 DEF OrderOf
      <4> QED BY <2>2, <2>4, <4>1, <4>2 DEF v
    <3>5. ASSUME ~v.encoded
          PROVE  r.kind = "announce" /\ \E m \in Elems(v.unsent) : About(m, r.port, r.prefix) /\ r.n <= m.n
      <4>1. Keeps(t, v, h)
        BY <3>1, <3>5 DEF Replays, Dies
      <4>2. Elems(v.unsent) = Elems(t.unsent) \cup {h} /\ ~t.encoded
        BY <1>00, <3>1, <4>1, AppendFacts DEF Keeps
      <4>3. CASE Passed(r)
        BY <1>1, <4>2, <4>3
      <4>4. CASE r \in Elems(v.out)
        <5>1. r = h
          BY <4>1, <4>4, OneElem, <3>1 DEF Keeps
        <5>2. About(h, h.port, h.prefix) /\ h.kind = "announce" /\ h.n <= h.n
          BY <3>1, <4>1, MessageKinds DEF About, Keeps
        <5> QED BY <4>2, <5>1, <5>2
      <4> QED BY <2>2, <2>4, <4>3, <4>4 DEF v
    <3> QED BY <3>1, <3>4, <3>5 DEF v
  <2> QED BY <2>3, <2>4
<1>5. CASE /\ ~Listener /\ ~\E j \in Participants : SwiftStep(j)
           /\ peer_queue_dict' = peer_queue_dict
           /\ swift'[id].encoded = t.encoded /\ swift'[id].unsent = t.unsent
  <2>1. Passed(r)
    BY <1>0, <1>5, Moves
  <2> QED BY <1>1, <1>5, <2>1
<1>6. \/ UNCHANGED <<peer_queue_dict, swift>>
      \/ Listener
      \/ \E j \in Participants : SwiftStep(j) \/ SwiftPut(j) \/ FastReroute(j)
  BY DEF Next, SessionStep, PipelineStep, allVars, pipelineVars, Update, PeerDown, SenderTake, Send
<1>7. ASSUME NEW j \in Participants, SwiftPut(j) \/ FastReroute(j)
      PROVE  /\ peer_queue_dict' = peer_queue_dict
             /\ swift'[id].encoded = t.encoded /\ swift'[id].unsent = t.unsent
  <2>1. /\ peer_queue_dict' = peer_queue_dict
        /\ \/ swift' = [swift EXCEPT ![j].out = Tail(@)]
           \/ swift' = [swift EXCEPT ![j].withdrawals = 0]
    BY <1>7 DEF SwiftPut, FastReroute
  <2>2. swift \in [Participants -> SwiftThreads] /\ id \in Participants /\ t = swift[id]
    BY <1>0 DEF PipelineTypeOK
  <2>3. CASE swift' = [swift EXCEPT ![j].out = Tail(@)]
    <3>1. swift'[id].encoded = swift[id].encoded /\ swift'[id].unsent = swift[id].unsent
      BY ONLY <2>2, <2>3, <1>7 DEF SwiftThreads
    <3> QED BY ONLY <2>1, <2>2, <3>1
  <2>4. CASE swift' = [swift EXCEPT ![j].withdrawals = 0]
    <3>1. swift'[id].encoded = swift[id].encoded /\ swift'[id].unsent = swift[id].unsent
      BY ONLY <2>2, <2>4, <1>7 DEF SwiftThreads
    <3> QED BY ONLY <2>1, <2>2, <3>1
  <2> QED BY <2>1, <2>3, <2>4
<1> HIDE DEF t, q
<1>8. CASE UNCHANGED <<peer_queue_dict, swift>>
  BY <1>3, <1>4, <1>5, <1>8 DEF t, q
<1> QED BY <1>3, <1>4, <1>5, <1>6, <1>7, <1>8

LEMMA ThreadInit == PipelineInit => ThreadOrder /\ PassedOrder
<1> SUFFICES ASSUME PipelineInit PROVE ThreadOrder /\ PassedOrder OBVIOUS
<1>1. DOMAIN <<>> = {} /\ Elems(<<>>) = {} /\ Ascends(<<>>)
  BY EmptySeq DEF Elems, Ascends
<1>2. /\ peer_queue = <<>> /\ sender.status # "sending"
      /\ \A c \in Conns : inbox[c] = <<>>
      /\ \A id \in Participants : swift[id] = NoThread /\ peer_queue_dict[id] = <<>>
  BY DEF PipelineInit, Idle
<1>3. \A r : ~Passed(r)
  BY <1>1, <1>2 DEF Passed, NoThread
<1>4. ~(Cardinality({}) > EncodingThreshold)
  BY FS_EmptySet, PipelineAssumption
<1>5. OrderOf(NoThread, <<>>, 0) /\ \A id : OrderOf(NoThread, <<>>, id)
  BY <1>1, <1>4 DEF OrderOf, NoThread
<1> QED BY <1>2, <1>3, <1>5 DEF ThreadOrder, PassedOrder

LEMMA ThreadInvariant == PipelineSpec => [](ThreadOrder /\ PassedOrder)
<1>1. PipelineInit => ThreadOrder /\ PassedOrder
  BY ThreadInit
<1>2. Inv /\ PipelineTypeOK /\ NumbersAscend /\ ThreadOrder /\ PassedOrder /\ [Next]_allVars
        => (ThreadOrder /\ PassedOrder)'
  <2> SUFFICES ASSUME Inv, PipelineTypeOK, NumbersAscend, ThreadOrder, PassedOrder, [Next]_allVars
               PROVE  ThreadOrder' /\ PassedOrder'
    OBVIOUS
  <2>1. ThreadOrder'
    BY ThreadOrderStep
  <2>2. PassedOrder'
    BY PassedOrderStep
  <2> QED BY <2>1, <2>2
<1> QED BY <1>1, <1>2, PipelineTypeCorrect, OrderInvariant, PTL DEF PipelineSpec

-----------------------------------------------------------------------------
(* While nobody leaves *)

\* A participant has one connection that is not broken, and while no controller leaves
\* every connection that said hello speaks for its participant.
Attended ==
    /\ \A c \in Conns : conn[c] = "accepted" => acceptor = c
    /\ \A c \in helloed : conn[c] \notin {"new", "accepted"}
    /\ \A c, d \in Conns : (/\ ConnOf[c] = ConnOf[d]
                            /\ conn[c] \in {"accepted", "open", "deaf"}
                            /\ conn[d] \in {"accepted", "open", "deaf"}) => c = d
    /\ NobodyLeft => \A c \in helloed : participants[ConnOf[c]] = c

LEMMA StillNobodyLeft ==
    ASSUME Inv, Attended, [Next]_allVars, NobodyLeft'
    PROVE  NobodyLeft
<1> SUFFICES ASSUME NEW c \in helloed PROVE conn[c] = "open" BY DEF NobodyLeft
<1>1. c \in Conns /\ conn[c] \in {"open", "deaf"} \cup Broken
  BY DEF Inv, TypeOK, Attended, Live
<1>2. conn'[c] = "open"
  BY BrokenStays DEF NobodyLeft
<1> QED BY <1>1, <1>2, BrokenStays DEF Broken

LEMMA AttendedStep ==
    ASSUME Inv, Attended, [Next]_allVars
    PROVE  Attended'
<1> USE DEF Inv
<1>0. /\ conn \in [Conns -> {"new", "accepted"} \cup Live \cup Broken] /\ helloed \subseteq Conns
      /\ participants \in [Participants -> Conns \cup {NoConn}]
      /\ ConnOf \in [Conns -> Participants] /\ NoConn \notin Conns
  BY SessionAssumption DEF TypeOK
<1>1. NobodyLeft' => NobodyLeft
  BY StillNobodyLeft
\* Connections that only grow worse, as long as no table changes.
<1>2. ASSUME NEW c \in Conns, NEW s \in {"deaf", "broken", "closed", "retired", "lost"},
             conn[c] # "accepted", s = "deaf" => conn[c] = "open",
             conn' = [conn EXCEPT ![c] = s], UNCHANGED <<helloed, participants, acceptor>>
      PROVE  Attended'
  <2>1. conn'[c] = s /\ \A d \in Conns : d # c => conn'[d] = conn[d]
    BY <1>0, <1>2
  <2>2. \A d \in Conns : conn'[d] = "accepted" => acceptor' = d
    BY <1>2, <2>1 DEF Attended
  <2>3. \A d \in helloed' : conn'[d] \notin {"new", "accepted"}
    BY <1>0, <1>2, <2>1 DEF Attended
  <2>4. \A d, e \in Conns : (/\ ConnOf[d] = ConnOf[e] /\ conn'[d] \in {"accepted", "open", "deaf"}
                             /\ conn'[e] \in {"accepted", "open", "deaf"}) => d = e
    BY <1>2, <2>1 DEF Attended
  <2>5. NobodyLeft' => \A d \in helloed' : participants'[ConnOf[d]] = d
    BY <1>1, <1>2 DEF Attended
  <2> QED BY <2>2, <2>3, <2>4, <2>5 DEF Attended
<1>3. CASE SessionNext
  <2>1. CASE StartThread
    <3>1. /\ acceptor \in Conns /\ conn' = [conn EXCEPT ![acceptor] = "open"] /\ acceptor' = NoConn
          /\ conn[acceptor] = "accepted" /\ UNCHANGED <<helloed, participants>>
      BY <2>1 DEF StartThread, TypeOK, AcceptorWaits
    <3>2. conn'[acceptor] = "open" /\ \A d \in Conns : d # acceptor => conn'[d] = conn[d]
      BY <1>0, <3>1
    <3>3. \A d \in Conns : conn'[d] # "accepted"
      BY <3>1, <3>2 DEF Attended
    <3>4. \A d, e \in Conns : (/\ ConnOf[d] = ConnOf[e] /\ conn'[d] \in {"accepted", "open", "deaf"}
                               /\ conn'[e] \in {"accepted", "open", "deaf"}) => d = e
      BY <3>1, <3>2 DEF Attended
    <3>5. \A d \in helloed' : conn'[d] \notin {"new", "accepted"}
      BY <1>0, <3>1, <3>2 DEF Attended
    <3>6. NobodyLeft' => \A d \in helloed' : participants'[ConnOf[d]] = d
      BY <1>1, <3>1 DEF Attended
    <3> QED BY <3>3, <3>4, <3>5, <3>6 DEF Attended
  <2>2. ASSUME NEW c \in Conns, Accept(c) PROVE Attended'
    <3>1. /\ acceptor = NoConn /\ conn[c] = "new" /\ acceptor' = c
          /\ \A d \in Conns : ConnOf[d] = ConnOf[c] => conn[d] \notin {"open", "deaf"}
          /\ conn' = [conn EXCEPT ![c] = "accepted"] /\ UNCHANGED <<helloed, participants>>
      BY <2>2 DEF Accept, Live
    <3>2. conn'[c] = "accepted" /\ \A d \in Conns : d # c => conn'[d] = conn[d]
      BY <1>0, <3>1
    <3>3. \A d \in Conns : conn[d] # "accepted"
      BY <1>0, <3>1 DEF Attended
    <3>4. \A d, e \in Conns : (/\ ConnOf[d] = ConnOf[e] /\ conn'[d] \in {"accepted", "open", "deaf"}
                               /\ conn'[e] \in {"accepted", "open", "deaf"}) => d = e
      BY <3>1, <3>2, <3>3 DEF Attended
    <3>5. \A d \in helloed' : conn'[d] \notin {"new", "accepted"}
      BY <1>0, <3>1, <3>2 DEF Attended
    <3>6. \A d \in Conns : conn'[d] = "accepted" => acceptor' = d
      BY <3>1, <3>2, <3>3
    <3>7. NobodyLeft' => \A d \in helloed' : participants'[ConnOf[d]] = d
      BY <1>1, <3>1 DEF Attended
    <3> QED BY <3>4, <3>5, <3>6, <3>7 DEF Attended
  <2>3. ASSUME NEW c \in Conns, Hello(c) PROVE Attended'
    <3>1. /\ conn[c] \in {"open", "deaf", "broken"} /\ helloed' = helloed \cup {c}
          /\ participants' = [participants EXCEPT ![ConnOf[c]] = c] /\ UNCHANGED <<conn, acceptor>>
      BY <2>3 DEF Hello, Live
    <3>2. ASSUME NobodyLeft', NEW d \in helloed' PROVE participants'[ConnOf[d]] = d
      <4>1. conn[c] = "open" /\ conn[d] = "open" /\ d \in Conns
        BY <1>0, <3>1, <3>2 DEF NobodyLeft
      <4>2. CASE ConnOf[d] = ConnOf[c]
        <5>1. d = c
          BY <4>1, <4>2 DEF Attended
        <5> QED BY <1>0, <3>1, <4>2, <5>1
      <4>3. CASE ConnOf[d] # ConnOf[c]
        BY <1>0, <1>1, <3>1, <3>2, <4>1, <4>3 DEF Attended
      <4> QED BY <4>2, <4>3
    <3> QED BY <3>1, <3>2 DEF Attended
  <2>4. ASSUME NEW c \in Conns, Hang(c) \/ Crash(c) \/ Close(c) \/ Abort(c) \/ Retire(c)
        PROVE  Attended'
    BY <1>2, <2>4 DEF Hang, Crash, Close, Abort, Retire, Live
  <2>5. ASSUME NEW c \in Conns, Unregister(c) PROVE Attended'
    <3>1. /\ conn[c] = "retired" /\ conn' = [conn EXCEPT ![c] = "gone"]
          /\ participants' = [p \in Participants |->
                                IF participants[p] = c THEN NoConn ELSE participants[p]]
          /\ UNCHANGED <<helloed, acceptor>>
      BY <2>5 DEF Unregister
    <3>2. conn'[c] = "gone" /\ \A d \in Conns : d # c => conn'[d] = conn[d]
      BY <1>0, <3>1
    <3>3. ASSUME NobodyLeft', NEW d \in helloed' PROVE participants'[ConnOf[d]] = d
      <4>1. participants[ConnOf[d]] = d /\ d # c /\ ConnOf[d] \in Participants
        BY <1>0, <1>1, <3>1, <3>2, <3>3 DEF Attended, NobodyLeft
      <4> QED BY <3>1, <4>1
    <3>4. \A d, e \in Conns : (/\ ConnOf[d] = ConnOf[e] /\ conn'[d] \in {"accepted", "open", "deaf"}
                               /\ conn'[e] \in {"accepted", "open", "deaf"}) => d = e
      BY <3>2 DEF Attended
    <3>5. \A d \in helloed' : conn'[d] \notin {"new", "accepted"}
      BY <1>0, <3>1, <3>2 DEF Attended
    <3>6. \A d \in Conns : conn'[d] = "accepted" => acceptor' = d
      BY <3>1, <3>2 DEF Attended
    <3> QED BY <3>3, <3>4, <3>5, <3>6 DEF Attended
  <2> QED BY <1>3, <2>1, <2>2, <2>3, <2>4, <2>5 DEF SessionNext
<1>4. CASE UNCHANGED sessionVars
  BY <1>4 DEF sessionVars, Attended, NobodyLeft
<1> QED BY <1>3, <1>4 DEF Next, SessionStep, allVars

\* Who is heard of has said hello, and who has not said hello has been told nothing.
KnownSources ==
    /\ \A r \in Routes \cup Downs : Past(r) => \E d \in helloed : ConnOf[d] = OwnerOf[r.port]
    /\ \A c \in Conns : c \notin helloed => inbox[c] = <<>>

LEMMA KnownSourcesStep ==
    ASSUME Inv, PipelineTypeOK, HandsAreAllowed, KnownSources, [Next]_allVars
    PROVE  KnownSources'
<1>0. helloed \subseteq helloed'
  BY BrokenStays
<1>1. ASSUME NEW r \in Routes \cup Downs, Past(r)'
      PROVE  \E d \in helloed' : ConnOf[d] = OwnerOf[r.port]
  <2>1. CASE Past(r)
    BY <1>0, <2>1, Zenon DEF KnownSources
  <2>2. CASE ~Past(r)
    <3> DEFINE u == Head(receiver_queue)
               id == OwnerOf[u.port]
    <3>1. Listener /\ r.port = u.port
      BY <1>1, <2>2, PastMoves
    <3>2. CASE portip2participant[u.port] = NoParticipant
      <4>1. UNCHANGED <<peer_queue_dict, swift, peer_queue, sender, inbox>>
        <5>1. id \in Participants
          BY <3>1, ListenerIs, Zenon
        <5>2. id # NoParticipant
          BY <5>1, SessionAssumption
        <5> QED BY <3>1, <3>2, <5>2, ListenerIs, Zenon
      <4> QED BY <1>1, <2>2, <4>1, Zenon DEF Past, Passed, Waits, Kept
    <3>3. CASE portip2participant[u.port] = id
      <4>1. u \in FromExaBGP /\ id \in Participants
        BY <3>1, ListenerIs, Zenon
      <4>2. u.port \in Ports
        BY <4>1 DEF FromExaBGP
      <4>3. participants[id] # NoConn
        BY <3>3, <4>1, <4>2, SessionAssumption DEF Inv, PortsOfRegistered
      <4>4. ConnOf[participants[id]] = id /\ participants[id] \in helloed
        BY <4>1, <4>3 DEF Inv, RepresentedByUncleaned
      <4> QED BY <1>0, <3>1, <4>4, Zenon
    <3> QED BY <3>1, <3>2, <3>3, ListenerIs, Zenon
  <2> QED BY <2>1, <2>2
<1>2. ASSUME NEW c \in Conns, c \notin helloed' PROVE inbox'[c] = <<>>
  <2>1. inbox[c] = <<>>
    BY <1>0, <1>2, Zenon DEF KnownSources
  <2>2. inbox' = inbox \/ \E d \in Conns : Send(d)
    BY Zenon DEF Next, SessionStep, PipelineStep, allVars, pipelineVars, Listener, SenderTake, Update, PeerDown,
           SwiftStep, SwiftPut, FastReroute
  <2>3. ASSUME NEW d \in Conns, Send(d) PROVE inbox'[c] = inbox[c]
    <3>1. d # c
      BY <1>0, <1>2, <2>3, SendIs DEF HandsAreAllowed
    <3> QED BY <2>3, <3>1, SendIs DEF PipelineTypeOK
  <2> QED BY <2>1, <2>2, <2>3
<1> QED BY <1>1, <1>2 DEF KnownSources

LEMMA AttendedInvariant == PipelineSpec => [](Attended /\ KnownSources)
<1>1. PipelineInit => Attended /\ KnownSources
  <2> SUFFICES ASSUME PipelineInit PROVE Attended /\ KnownSources OBVIOUS
  <2>1. \A c \in Conns : conn[c] = "new"
    BY DEF PipelineInit, Init
  <2>2. helloed = {}
    BY DEF PipelineInit, Init
  <2>3. /\ Elems(<<>>) = {}
        /\ peer_queue = <<>> /\ sender.status # "sending"
        /\ \A c \in Conns : inbox[c] = <<>>
        /\ \A id \in Participants : swift[id] = NoThread /\ peer_queue_dict[id] = <<>>
    BY DEF PipelineInit, Idle, Elems
  <2>4. \A r : ~Past(r)
    BY <2>3 DEF Past, Passed, Waits, Kept, NoThread
  <2> QED BY <2>1, <2>2, <2>3, <2>4 DEF Attended, KnownSources
<1>2. Inv /\ PipelineTypeOK /\ PeeringInv /\ Attended /\ KnownSources /\ [Next]_allVars
        => (Attended /\ KnownSources)'
  <2> SUFFICES ASSUME Inv, PipelineTypeOK, PeeringInv, Attended, KnownSources, [Next]_allVars
               PROVE  Attended' /\ KnownSources'
    OBVIOUS
  <2>1. Attended'
    BY AttendedStep
  <2>2. KnownSources'
    BY KnownSourcesStep DEF PeeringInv
  <2> QED BY <2>1, <2>2
<1> QED BY <1>1, <1>2, PipelineTypeCorrect, PeeringInvariant, PTL DEF PipelineSpec

-----------------------------------------------------------------------------
(* The newest comes last *)

\* Message e is not newer than r, or the thread is dead and e is an announcement.
Within(e, r, dead) == e.n <= r.n \/ (dead /\ e.kind = "announce")

\* What a SWIFT thread sends last about a prefix is the newest there is, unless the
\* thread dies: then everything there is about other prefixes are announcements.
LEMMA SwiftNewest ==
    ASSUME PipelineTypeOK, ThreadOrder, PassedOrder, NEW id \in Participants, SwiftStep(id),
           NEW k \in Ports, OwnerOf[k] = id, NEW p \in Prefixes, NEW x,
           Ends(swift'[id].out, k, p, x),
           NEW e \in Messages, About(e, k, p), Passed(e) \/ e \in Elems(swift'[id].out)
    PROVE  Within(e, x, swift'[id].status = "dead")
<1> DEFINE t == swift[id]
           v == swift'[id]
           q == peer_queue_dict[id]
           r == Head(q)
<1>1. /\ q \in Seq(Routes) /\ q # <<>> /\ r \in Routes /\ t.status = "running"
      /\ Keeps(t, v, r) \/ Replays(t, v, r) \/ Dies(t, v, r)
      /\ t.unsent \in Seq(Routes)
  BY SwiftStepIs DEF PipelineTypeOK, SwiftThreads
<1>2. OrderOf(t, q, id) /\ r \in Elems(q)
  BY <1>1, ElemsFacts DEF ThreadOrder
<1>3. r.n \in Nat /\ OnPrefix(r) /\ r.kind \in {"announce", "withdraw"}
  BY <1>1, MessageKinds
<1>4. e \in Routes /\ e.n \in Nat /\ e.port = k /\ e.prefix = p
  <2>1. e \in Routes /\ e.port = k /\ e.prefix = p
    BY MessageKinds DEF About
  <2> QED BY <2>1, MessageKinds
<1>5. Passed(e) => /\ e.n <= r.n
                   /\ ~t.encoded => /\ e.kind = "announce"
                                    /\ \E m \in Elems(t.unsent) : About(m, k, p) /\ e.n <= m.n
  BY <1>2, <1>4 DEF PassedOrder
<1>6. \A m \in Elems(t.unsent) : m \in Routes /\ m.n \in Nat /\ m.n <= r.n /\ m.kind = "announce"
  BY <1>1, <1>2, ElemsFacts, MessageKinds DEF OrderOf
<1> SUFFICES ASSUME Ends(v.out, k, p, x), Passed(e) \/ e \in Elems(v.out)
             PROVE  Within(e, x, v.status = "dead")
  OBVIOUS
<1> HIDE DEF t, v, q, r
<1>7. ASSUME v.out = <<r>> PROVE e.n <= x.n
  <2>1. x = r /\ Elems(v.out) = {r}
    BY <1>1, <1>7, EndsOne, OneElem
  <2> QED BY <1>3, <1>5, <2>1
<1>8. CASE Keeps(t, v, r)
  BY <1>7, <1>8 DEF Keeps, Within
<1>9. CASE Replays(t, v, r)
  <2>0. v.out = <<r>> \o t.unsent /\ Elems(v.out) = {r} \cup Elems(t.unsent)
    BY <1>1, <1>9, ConsElems DEF Replays
  <2>1. CASE t.encoded
    <3>1. t.unsent = <<>>
      BY <1>1, <1>2, <2>1 DEF OrderOf
    <3>2. v.out = <<r>>
      BY <1>1, <2>0, <3>1, ConcatEmptySeq, OneElem
    <3> QED BY <1>7, <3>2 DEF Within
  <2>2. CASE ~t.encoded
    <3>1. Ends(t.unsent, k, p, x) \/ (Quiet(t.unsent, k, p) /\ x = r /\ About(r, k, p))
      BY <1>1, <2>0, EndsCons
    <3>2. CASE Quiet(t.unsent, k, p) /\ x = r
      BY <1>3, <1>5, <1>6, <2>0, <3>2 DEF Within
    <3>3. CASE Ends(t.unsent, k, p, x)
      <4>1. PICK i \in DOMAIN t.unsent : /\ t.unsent[i] = x /\ About(x, k, p)
                                         /\ \A j \in DOMAIN t.unsent : j > i => ~About(t.unsent[j], k, p)
        BY <3>3 DEF Ends
      <4>2. x \in Elems(t.unsent)
        BY <4>1 DEF Elems
      <4>3. ASSUME NEW m \in Elems(t.unsent), About(m, k, p) PROVE m.n <= x.n
        <5>1. PICK j \in DOMAIN t.unsent : m = t.unsent[j]
          BY DEF Elems
        <5>2. DOMAIN t.unsent = 1..Len(t.unsent) /\ Len(t.unsent) \in Nat
          BY <1>1, QueueFacts
        <5>3. CASE j = i
          BY <1>6, <4>1, <4>2, <5>1, <5>3
        <5>4. CASE j < i
          BY <1>2, <4>1, <5>1, <5>4 DEF OrderOf, Ascends
        <5>5. CASE j > i
          BY <4>1, <4>3, <5>1, <5>5
        <5> QED BY <5>2, <5>3, <5>4, <5>5
      <4>4. ~About(r, k, p)
        <5>1. x.prefix = p /\ x.prefix \in t.rib
          BY <1>2, <2>2, <4>1, <4>2 DEF OrderOf, About
        <5>2. CASE r.kind = "announce" /\ Cardinality(t.rib \cup {r.prefix}) > EncodingThreshold
          <6>1. r.prefix \in t.rib => t.rib \cup {r.prefix} = t.rib
            OBVIOUS
          <6>2. r.prefix \notin t.rib
            BY <1>2, <2>2, <5>2, <6>1 DEF OrderOf
          <6> QED BY <5>1, <6>2 DEF About
        <5>3. CASE \A j \in DOMAIN t.unsent : t.unsent[j].prefix # r.prefix
          BY <4>1, <5>3 DEF About
        <5> QED BY <1>9, <2>2, <5>2, <5>3 DEF Replays
      <4>5. CASE e \in Elems(v.out)
        <5>1. e \in Elems(t.unsent)
          BY <2>0, <4>4, <4>5
        <5> QED BY <4>3, <5>1 DEF Within
      <4>6. CASE Passed(e)
        <5>1. PICK m \in Elems(t.unsent) : About(m, k, p) /\ e.n <= m.n
          BY <1>5, <2>2, <4>6
        <5>2. m.n <= x.n /\ m.n \in Nat /\ x.n \in Nat
          BY <1>6, <4>2, <4>3, <5>1
        <5> QED BY <1>4, <5>1, <5>2 DEF Within
      <4> QED BY <4>5, <4>6
    <3> QED BY <3>1, <3>2, <3>3
  <2> QED BY <2>1, <2>2
<1>10. CASE Dies(t, v, r)
  <2>1. PICK m \in DOMAIN t.unsent :
           /\ v.out = <<r>> \o SubSeq(t.unsent, 1, m - 1)
           /\ \A i \in 1..(m - 1) : t.unsent[i].prefix # r.prefix
    BY <1>10 DEF Dies
  <2>2. v.status = "dead" /\ r.kind = "withdraw"
    BY <1>10 DEF Dies
  <2>3. ~t.encoded
    <3>1. t.unsent # <<>>
      BY <2>1, EmptySeq
    <3> QED BY <1>1, <1>2, <3>1 DEF OrderOf
  <2> DEFINE w == SubSeq(t.unsent, 1, m - 1)
  <2>4. /\ w \in Seq(Routes)
        /\ \A y \in Elems(w) : y \in Elems(t.unsent) /\ y.prefix # r.prefix
    <3>1. m \in 1..Len(t.unsent) /\ Len(t.unsent) \in Nat /\ DOMAIN t.unsent = 1..Len(t.unsent)
      BY <1>1, QueueFacts
    <3>2. /\ w \in Seq(Routes) /\ Len(w) = IF 1 <= m - 1 THEN m - 1 - 1 + 1 ELSE 0
          /\ \A i \in 1..(m - 1 - 1 + 1) : w[i] = t.unsent[1 + i - 1]
      BY <1>1, <3>1, SubSeqProperties
    <3>3. DOMAIN w = 1..Len(w)
      BY <3>2, LenProperties
    <3> HIDE DEF w
    <3>4. \A i \in DOMAIN w : i \in DOMAIN t.unsent /\ i \in 1..(m - 1) /\ w[i] = t.unsent[i]
      BY <3>1, <3>2, <3>3
    <3>5. ASSUME NEW y \in Elems(w) PROVE y \in Elems(t.unsent) /\ y.prefix # r.prefix
      <4>1. PICK i \in DOMAIN w : y = w[i]
        BY <3>5 DEF Elems
      <4>2. i \in DOMAIN t.unsent /\ i \in 1..(m - 1) /\ y = t.unsent[i]
        BY <3>4, <4>1
      <4> QED BY <2>1, <4>2 DEF Elems
    <3> QED BY <3>2, <3>5
  <2>9. v.out = <<r>> \o w
    BY <2>1
  <2> HIDE DEF w
  <2>5. /\ Elems(v.out) = {r} \cup Elems(w)
        /\ Ends(w, k, p, x) \/ (Quiet(w, k, p) /\ x = r /\ About(r, k, p))
    <3>1. Elems(<<r>> \o w) = {r} \cup Elems(w)
      BY <1>1, <2>4, ConsElems
    <3>2. Ends(<<r>> \o w, k, p, x) <=> Ends(w, k, p, x) \/ (Quiet(w, k, p) /\ x = r /\ About(r, k, p))
      BY <1>1, <2>4, EndsCons
    <3> QED BY <2>9, <3>1, <3>2
  <2>6. CASE e.kind = "announce"
    BY <2>2, <2>6 DEF Within
  <2>7. CASE e.kind # "announce"
    <3>1. e = r
      BY <1>5, <1>6, <2>3, <2>4, <2>5, <2>7
    <3>2. \A y \in Elems(w) : ~About(y, k, p)
      BY <1>4, <2>4, <3>1 DEF About
    <3>3. x = r
      BY <2>5, <3>2, EndsElem
    <3> QED BY <1>3, <3>1, <3>3 DEF Within
  <2> QED BY <2>6, <2>7
<1> QED BY <1>1, <1>8, <1>9, <1>10

\* Of all that is on the way to c from the owner of k and is about p, the last is the
\* newest.
NewestAt(c, k, p) ==
    LET id == OwnerOf[k] IN
    \A r : LastOnWay(c, id, k, p, r) =>
        \A e \in OnWay(c, id) : About(e, k, p) => Within(e, r, swift[id].status = "dead")

NewestInv == NobodyLeft => \A c \in Conns, k \in Ports, p \in Prefixes : NewestAt(c, k, p)

\* A message the sender takes reaches every controller that has been told about its
\* port before, while nobody leaves.
LEMMA HeardBefore ==
    ASSUME Inv, PipelineTypeOK, PeeringRespected, Attended, KnownSources, NobodyLeft,
           NEW r \in Routes, Past(r), NEW c \in Conns,
           NEW e \in Elems(inbox[c]), OnPrefix(e), e.port = r.port
    PROVE  Lookup(r) = [status |-> "sending", route |-> r, found |-> Found(OwnerOf[r.port])]
           /\ c \in Found(OwnerOf[r.port])
<1> DEFINE id == OwnerOf[r.port]
<1>1. r.port \in Ports /\ r.kind # "FR" /\ id \in Participants /\ id # NoParticipant
  BY MessageKinds, SessionAssumption
<1>2. c \in helloed
  <2>1. inbox[c] # <<>>
    BY EmptySeq DEF Elems
  <2> QED BY <2>1 DEF KnownSources
<1>3. participants[ConnOf[c]] = c /\ ConnOf[c] \in Participants /\ c # NoConn
  BY <1>2, SessionAssumption DEF Attended
<1>4. ConnOf[c] \in PeersOut[id] /\ id \in PeersIn[ConnOf[c]]
  BY MessageKinds DEF PeeringRespected, Elems, OnPrefix
<1>5. c \in Found(id)
  BY <1>3, <1>4 DEF Found
<1>6. participants[id] # NoConn
  <2>1. PICK d \in helloed : ConnOf[d] = id
    BY DEF KnownSources
  <2>2. participants[id] = d /\ d \in Conns
    BY <2>1 DEF Attended, Inv, TypeOK
  <2> QED BY <2>2, SessionAssumption
<1>7. portip2participant[r.port] = id
  <2>1. \A d \in helloed : conn[d] # "gone"
    BY DEF NobodyLeft
  <2>2. portip2participant[r.port] # NoParticipant
    BY <1>1, <1>6, <2>1 DEF Inv, PortsLostOnlyToOldSession
  <2> QED BY <1>1, <2>2 DEF Inv, PortsOfRegistered
<1>8. Advertiser(r) = id
  BY <1>1, <1>7 DEF Advertiser
<1> QED BY <1>1, <1>5, <1>6, <1>8 DEF Lookup

\* A step in which the owner of k hears nothing new leaves what is on the way to c and
\* about p as it is, provided the sender survives, c is there when it is served, and c
\* gets the message if the sender takes one that is about p.
LEMMA WayKept ==
    ASSUME Inv, PipelineTypeOK, ThreadOrder, [Next]_allVars,
           NEW c \in Conns, NEW k \in Ports, NEW p \in Prefixes,
           ~SwiftStep(OwnerOf[k]), sender' # Dead, Send(c) => conn[c] = "open",
           (/\ SenderTake /\ peer_queue # <<>> /\ peer_queue' = Tail(peer_queue)
            /\ About(Head(peer_queue), k, p)) => Hand(c)' # <<>>
    PROVE  LET id == OwnerOf[k] IN
           /\ \A e \in OnWay(c, id)' : About(e, k, p) => e \in OnWay(c, id)
           /\ \A x : LastOnWay(c, id, k, p, x)' <=> LastOnWay(c, id, k, p, x)
           /\ (swift'[id].status = "dead") = (swift[id].status = "dead")
<1> DEFINE id == OwnerOf[k]
           Same == /\ \A e \in OnWay(c, id)' : About(e, k, p) => e \in OnWay(c, id)
                   /\ \A x : LastOnWay(c, id, k, p, x)' <=> LastOnWay(c, id, k, p, x)
                   /\ (swift'[id].status = "dead") = (swift[id].status = "dead")
<1>1. id \in Participants
  BY SessionAssumption
<1>2. /\ inbox[c] \in Seq(Messages) /\ Hand(c) \in Seq(Messages)
      /\ peer_queue \in Seq(Messages) /\ swift[id].out \in Seq(Messages)
  BY <1>1, PartsTypes
\* Nothing moves.
<1>3. ASSUME UNCHANGED <<sender, inbox, peer_queue>>, swift'[id].out = swift[id].out,
             (swift'[id].status = "dead") = (swift[id].status = "dead")
      PROVE  Same
  BY <1>3 DEF LastOnWay, OnWay, Hand
\* Something about another prefix or port goes to the end of the peer queue.
<1>4. ASSUME NEW m \in Messages, ~About(m, k, p), peer_queue' = Append(peer_queue, m),
             UNCHANGED <<sender, inbox>>, swift'[id].out = swift[id].out,
             (swift'[id].status = "dead") = (swift[id].status = "dead")
      PROVE  Same
  <2>1. Elems(peer_queue') = Elems(peer_queue) \cup {m}
    BY <1>2, <1>4, AppendFacts
  <2>2. Quiet(peer_queue', k, p) <=> Quiet(peer_queue, k, p)
    BY <1>2, <1>4, EndsAppend
  <2>3. \A r : Ends(peer_queue', k, p, r) <=> Ends(peer_queue, k, p, r)
    BY <1>2, <1>4, EndsAppend
  <2>4. Hand(c)' = Hand(c)
    BY <1>4 DEF Hand
  <2>5. OnWay(c, id)' = OnWay(c, id) \cup {m}
    BY <1>4, <2>1, <2>4 DEF OnWay
  <2>6. \A r : LastOnWay(c, id, k, p, r)' <=> LastOnWay(c, id, k, p, r)
    BY <1>4, <2>2, <2>3, <2>4, Zenon DEF LastOnWay
  <2> QED BY <1>4, <2>5, <2>6
<1>5. CASE Listener
  <2> DEFINE u == Head(receiver_queue)
             own == OwnerOf[u.port]
  <2>1. UNCHANGED <<sender, inbox>>
    BY <1>5, ListenerIs, Zenon
  <2>2. CASE UNCHANGED <<peer_queue, swift>>
    BY <1>3, <2>1, <2>2
  <2>3. CASE peer_queue' = Append(peer_queue, DownOf(u.port, u.n)) /\ DownOf(u.port, u.n) \in Downs
             /\ swift' = swift
    <3>1. DownOf(u.port, u.n) \in Messages /\ ~About(DownOf(u.port, u.n), k, p)
      BY <2>3, MessageKinds DEF Messages, About
    <3> QED BY <1>4, <2>1, <2>3, <3>1
  <2>4. ASSUME NEW st \in {"none", "running", "dead"}, swift' = [swift EXCEPT ![own].status = st],
               swift[own].status = "dead" => st = "dead",
               swift[own].status # "dead" => st = "running", peer_queue' = peer_queue
        PROVE  Same
    <3>1. /\ swift'[id].out = swift[id].out
          /\ (swift'[id].status = "dead") = (swift[id].status = "dead")
      BY <1>1, <2>4 DEF PipelineTypeOK, SwiftThreads
    <3> QED BY <1>3, <2>1, <2>4, <3>1
  <2> QED BY <1>5, <2>2, <2>3, <2>4, ListenerIs, Zenon
<1>6. CASE SenderTake
  <2>1. /\ sender = Idle /\ inbox' = inbox /\ swift' = swift /\ Hand(c) = <<>>
        /\ sender' = Idle \/ sender'.status = "sending"
    <3>1. sender = Idle /\ inbox' = inbox /\ swift' = swift
      BY <1>6, SenderTakeIs
    <3>2. sender' = Idle \/ sender'.status = "sending"
      BY <1>6, SenderTakeIs DEF Sending
    <3> QED BY <3>1, <3>2 DEF Hand, Idle
  <2>2. Elems(Hand(c)) = {} /\ Quiet(Hand(c), k, p) /\ \A r : ~Ends(Hand(c), k, p, r)
    BY <2>1, EmptyFacts
  <2>3. ASSUME NEW r \in Messages, sender' = Lookup(r)
        PROVE  Hand(c)' = <<>> \/ Hand(c)' = <<r>>
    BY <2>3, LookupIs DEF Hand, Idle
  <2>4. CASE /\ FR_queue # <<>> /\ peer_queue' = peer_queue
             /\ Head(FR_queue) \in FRs /\ sender' = Lookup(Head(FR_queue))
    <3> DEFINE r == Head(FR_queue)
    <3>1. r \in Messages /\ ~About(r, k, p)
      BY <2>4, MessageKinds DEF Messages, About
    <3>2. Hand(c)' = <<>> \/ Hand(c)' = <<r>>
      BY <2>3, <2>4, <3>1
    <3> HIDE DEF r
    <3>3. /\ Quiet(Hand(c)', k, p) /\ \A x : ~Ends(Hand(c)', k, p, x)
          /\ Elems(Hand(c)') \subseteq {r}
      <4>1. CASE Hand(c)' = <<>>
        BY <4>1, EmptyFacts
      <4>2. CASE Hand(c)' = <<r>>
        BY <3>1, <4>2, OneFacts
      <4> QED BY <3>2, <4>1, <4>2
    <3>4. OnWay(c, id)' \subseteq OnWay(c, id) \cup {r}
      BY <2>1, <2>4, <3>3 DEF OnWay
    <3>5. \A x : LastOnWay(c, id, k, p, x)' <=> LastOnWay(c, id, k, p, x)
      BY <2>1, <2>2, <2>4, <3>3 DEF LastOnWay
    <3> QED BY <2>1, <3>1, <3>4, <3>5
  <2>5. CASE /\ peer_queue # <<>> /\ peer_queue' = Tail(peer_queue)
             /\ Head(peer_queue) \in Routes \cup Downs /\ sender' = Lookup(Head(peer_queue))
    <3> DEFINE r == Head(peer_queue)
               b == Tail(peer_queue)
    <3>1. r \in Messages /\ b \in Seq(Messages) /\ peer_queue = <<r>> \o b
      <4>1. r \in Messages
        BY <2>5 DEF Messages
      <4> QED BY <1>2, <2>5, <4>1, QueueFacts
    <3>2. Hand(c)' = <<>> \/ Hand(c)' = <<r>>
      BY <2>3, <2>5, <3>1
    <3>3. peer_queue' = b /\ swift' = swift /\ inbox' = inbox
      BY <2>1, <2>5
    <3>4. r \in Elems(peer_queue) /\ Elems(peer_queue) = {r} \cup Elems(b)
      BY <1>2, <2>5, ElemsFacts
    <3>0. About(r, k, p) => Hand(c)' = <<r>>
      BY <1>6, <2>5, <3>2
    <3> HIDE DEF r, b
    <3>5. /\ \A x : Ends(peer_queue, k, p, x) <=>
                Ends(b, k, p, x) \/ (Quiet(b, k, p) /\ x = r /\ About(r, k, p))
          /\ Quiet(peer_queue, k, p) <=> Quiet(b, k, p) /\ ~About(r, k, p)
      BY <3>1, EndsCons
    <3>6. CASE Hand(c)' = <<r>>
      <4>1. /\ Quiet(Hand(c)', k, p) <=> ~About(r, k, p)
            /\ \A x : Ends(Hand(c)', k, p, x) <=> x = r /\ About(r, k, p)
            /\ Elems(Hand(c)') = {r}
        BY <3>6, OneFacts
      <4>2. OnWay(c, id)' = OnWay(c, id)
        BY <2>2, <3>3, <3>4, <4>1 DEF OnWay
      <4>3. \A x : LastOnWay(c, id, k, p, x)' <=> LastOnWay(c, id, k, p, x)
        BY <2>2, <3>3, <3>5, <4>1 DEF LastOnWay
      <4> QED BY <3>3, <4>2, <4>3
    <3>7. CASE Hand(c)' = <<>>
      <4>1. Quiet(Hand(c)', k, p) /\ (\A x : ~Ends(Hand(c)', k, p, x)) /\ Elems(Hand(c)') = {}
        BY <3>7, EmptyFacts
      <4>2. OnWay(c, id)' \subseteq OnWay(c, id)
        BY <3>3, <3>4, <4>1 DEF OnWay
      <4>3. ~About(r, k, p)
        <5>1. <<r>> # <<>>
          OBVIOUS
        <5> QED BY <3>0, <3>7, <5>1
      <4>4. \A x : LastOnWay(c, id, k, p, x)' <=> LastOnWay(c, id, k, p, x)
        BY <2>2, <3>3, <3>5, <4>1, <4>3 DEF LastOnWay
      <4> QED BY <3>3, <4>2, <4>4
    <3> QED BY <3>2, <3>6, <3>7
  <2> QED BY <1>6, <2>4, <2>5, SenderTakeIs
<1>7. ASSUME NEW d \in Conns, Send(d) PROVE Same
  <2>1. /\ d \in sender.found /\ sender.status = "sending" /\ sender.route \in Messages
        /\ UNCHANGED <<peer_queue, swift>>
    BY <1>7, SendIs
  <2>2. /\ \/ inbox' = [inbox EXCEPT ![d] = Append(inbox[d], sender.route)]
           \/ inbox' = inbox /\ d # c
        /\ \/ sender' = Idle /\ sender.found = {d}
           \/ sender' = [status |-> "sending", route |-> sender.route, found |-> sender.found \ {d}]
    BY <1>7, SendIs DEF Broken
  <2>3. CASE d # c
    <3>1. inbox'[c] = inbox[c]
      BY <2>2, <2>3 DEF PipelineTypeOK
    <3>2. Hand(c)' = Hand(c)
      BY <2>1, <2>2, <2>3 DEF Hand, Idle
    <3> QED BY <2>1, <3>1, <3>2 DEF LastOnWay, OnWay
  <2>4. CASE d = c
    <3> DEFINE r == sender.route
    <3>1. inbox'[c] = Append(inbox[c], r)
      BY <2>2, <2>4 DEF PipelineTypeOK
    <3>2. Hand(c) = <<r>> /\ Hand(c)' = <<>>
      BY <2>1, <2>2, <2>4 DEF Hand, Idle
    <3>3. r \in Messages
      BY <2>1
    <3> HIDE DEF r
    <3>4. /\ Elems(inbox'[c]) = Elems(inbox[c]) \cup {r}
          /\ Elems(Hand(c)) = {r} /\ Elems(Hand(c)') = {}
      <4>1. Elems(inbox'[c]) = Elems(inbox[c]) \cup {r}
        BY <1>2, <3>1, <3>3, AppendFacts
      <4>2. Elems(Hand(c)) = {r}
        BY <3>2, <3>3, OneElem
      <4>3. Elems(Hand(c)') = {}
        BY <3>2, EmptyFacts
      <4> QED BY <4>1, <4>2, <4>3
    <3>5. /\ \A x : Ends(inbox'[c], k, p, x) <=>
                (x = r /\ About(r, k, p)) \/ (~About(r, k, p) /\ Ends(inbox[c], k, p, x))
          /\ \A x : Ends(Hand(c), k, p, x) <=> x = r /\ About(r, k, p)
          /\ Quiet(Hand(c), k, p) <=> ~About(r, k, p)
          /\ \A x : ~Ends(Hand(c)', k, p, x)
          /\ Quiet(Hand(c)', k, p)
      <4>1. \A x : Ends(inbox'[c], k, p, x) <=>
                (x = r /\ About(r, k, p)) \/ (~About(r, k, p) /\ Ends(inbox[c], k, p, x))
        BY <1>2, <3>1, <3>3, EndsAppend
      <4>2. /\ \A x : Ends(Hand(c), k, p, x) <=> x = r /\ About(r, k, p)
            /\ Quiet(Hand(c), k, p) <=> ~About(r, k, p)
        BY <3>2, EndsOne
      <4>3. (\A x : ~Ends(Hand(c)', k, p, x)) /\ Quiet(Hand(c)', k, p)
        BY <3>2, EndsOne
      <4> QED BY <4>1, <4>2, <4>3
    <3>6. OnWay(c, id)' = OnWay(c, id)
      BY <2>1, <3>4 DEF OnWay
    <3>7. \A x : LastOnWay(c, id, k, p, x)' <=> LastOnWay(c, id, k, p, x)
      BY <2>1, <3>5 DEF LastOnWay
    <3> QED BY <2>1, <3>6, <3>7
  <2> QED BY <2>3, <2>4
<1>8. ASSUME NEW j \in Participants, SwiftPut(j) PROVE Same
  <2> DEFINE h == Head(swift[j].out)
             b == Tail(swift[j].out)
  <2>1. /\ swift[j].out # <<>> /\ peer_queue' = Append(peer_queue, h)
        /\ swift' = [swift EXCEPT ![j].out = Tail(@)]
        /\ UNCHANGED <<sender, inbox>>
    BY <1>8 DEF SwiftPut
  <2>2. /\ h \in Routes /\ h \in Elems(swift[j].out)
        /\ b \in Seq(Routes) /\ swift[j].out = <<h>> \o b
    <3>1. swift[j].out \in Seq(Routes)
      BY DEF PipelineTypeOK, SwiftThreads
    <3>2. h \in Elems(swift[j].out)
      BY <2>1, <3>1, ElemsFacts
    <3>3. h \in Routes /\ b \in Seq(Routes) /\ swift[j].out = <<h>> \o b
      BY <2>1, <3>1, QueueFacts
    <3> QED BY <3>2, <3>3
  <2>3. CASE j # id
    <3>1. swift'[id] = swift[id]
      BY <1>1, <2>1, <2>3 DEF PipelineTypeOK
    <3>2. OwnerOf[h.port] = j
      BY <2>2 DEF ThreadOrder, OrderOf
    <3>3. ~About(h, k, p) /\ h \in Messages
      BY <2>2, <2>3, <3>2 DEF About, Messages
    <3> QED BY <1>4, <2>1, <3>1, <3>3
  <2>4. CASE j = id
    <3>1. swift'[id].out = b /\ swift'[id].status = swift[id].status
      BY <1>1, <2>1, <2>4 DEF PipelineTypeOK, SwiftThreads
    <3>2. swift[id].out = <<h>> \o b /\ h \in Messages
      BY <2>2, <2>4 DEF Messages
    <3> HIDE DEF h, b
    <3>3. /\ \A x : Ends(swift[id].out, k, p, x) <=>
                Ends(b, k, p, x) \/ (Quiet(b, k, p) /\ x = h /\ About(h, k, p))
          /\ Quiet(swift[id].out, k, p) <=> Quiet(b, k, p) /\ ~About(h, k, p)
          /\ Elems(swift[id].out) = {h} \cup Elems(b)
      BY <2>2, <3>2, EndsCons, ConsElems
    <3>4. /\ \A x : Ends(peer_queue', k, p, x) <=>
                (x = h /\ About(h, k, p)) \/ (~About(h, k, p) /\ Ends(peer_queue, k, p, x))
          /\ Quiet(peer_queue', k, p) <=> Quiet(peer_queue, k, p) /\ ~About(h, k, p)
          /\ Elems(peer_queue') = Elems(peer_queue) \cup {h}
      BY <1>2, <2>1, <3>2, EndsAppend, AppendFacts
    <3>5. Hand(c)' = Hand(c) /\ inbox' = inbox
      BY <2>1 DEF Hand
    <3>6. OnWay(c, id)' = OnWay(c, id)
      BY <3>1, <3>3, <3>4, <3>5 DEF OnWay
    <3>7. \A x : LastOnWay(c, id, k, p, x)' <=> LastOnWay(c, id, k, p, x)
      BY <3>1, <3>3, <3>4, <3>5 DEF LastOnWay
    <3> QED BY <3>1, <3>6, <3>7
  <2> QED BY <2>3, <2>4
<1>9. ASSUME NEW j \in Participants, FastReroute(j) PROVE Same
  <2>1. swift' = [swift EXCEPT ![j].withdrawals = 0] /\ UNCHANGED <<sender, inbox, peer_queue>>
    BY <1>9 DEF FastReroute
  <2>2. swift'[id].out = swift[id].out /\ swift'[id].status = swift[id].status
    BY <1>1, <2>1 DEF PipelineTypeOK, SwiftThreads
  <2> QED BY <1>3, <2>1, <2>2
<1>10. ASSUME NEW j \in Participants, SwiftStep(j) PROVE Same
  <2>1. /\ UNCHANGED <<sender, inbox, peer_queue>> /\ swift' = [swift EXCEPT ![j] = swift'[j]]
        /\ j # id
    BY <1>10, SwiftStepIs
  <2>2. swift'[id] = swift[id]
    BY <1>1, <2>1 DEF PipelineTypeOK
  <2> QED BY <1>3, <2>1, <2>2
<1>11. CASE UNCHANGED <<sender, inbox, peer_queue, swift>>
  BY <1>3, <1>11
<1>12. \/ UNCHANGED <<sender, inbox, peer_queue, swift>>
       \/ Listener \/ SenderTake
       \/ \E j \in Participants : SwiftStep(j) \/ SwiftPut(j) \/ FastReroute(j)
       \/ \E d \in Conns : Send(d)
  BY DEF Next, SessionStep, PipelineStep, allVars, pipelineVars, Update, PeerDown
<1>13. Same
  BY <1>5, <1>6, <1>7, <1>8, <1>9, <1>10, <1>11, <1>12
<1> QED BY <1>13

LEMMA NewestStep ==
    ASSUME Inv, PipelineTypeOK, PeeringInv, ThreadOrder, PassedOrder, Attended, KnownSources,
           NewestInv, [Next]_allVars
    PROVE  NewestInv'
<1> SUFFICES ASSUME NobodyLeft', NEW c \in Conns, NEW k \in Ports, NEW p \in Prefixes
             PROVE  NewestAt(c, k, p)'
  BY DEF NewestInv
<1> DEFINE id == OwnerOf[k]
<1>1. NobodyLeft /\ NewestAt(c, k, p) /\ id \in Participants
  BY StillNobodyLeft, SessionAssumption DEF NewestInv
<1>2. /\ inbox[c] \in Seq(Messages) /\ Hand(c) \in Seq(Messages)
      /\ peer_queue \in Seq(Messages) /\ swift[id].out \in Seq(Messages)
  BY <1>1, PartsTypes
<1>3. sender' # Dead /\ (Send(c) => conn[c] = "open")
  <2>1. PeeringInv'
    BY PeeringStep
  <2>2. sender' # Dead
    BY <2>1 DEF PeeringInv, SenderSurvives, NobodyLeft, Broken
  <2>3. Send(c) => c \in helloed
    BY SendIs DEF PeeringInv, HandsAreAllowed
  <2> QED BY <1>1, <2>2, <2>3 DEF NobodyLeft
<1>4. CASE SwiftStep(id)
  <2>1. /\ UNCHANGED <<sender, inbox, peer_queue>>
        /\ swift[id].out = <<>> /\ swift[id].status = "running"
    BY <1>1, <1>4, SwiftStepIs
  <2> SUFFICES ASSUME NEW x, LastOnWay(c, id, k, p, x)', NEW e \in OnWay(c, id)', About(e, k, p)
               PROVE  Within(e, x, swift'[id].status = "dead")
    BY DEF NewestAt
  <2>2. Hand(c)' = Hand(c) /\ inbox' = inbox /\ peer_queue' = peer_queue
    BY <2>1 DEF Hand
  <2>3. e \in OnWay(c, id) \/ e \in Elems(swift'[id].out)
    BY <2>2 DEF OnWay
  <2>4. Quiet(swift[id].out, k, p) /\ ~Ends(swift[id].out, k, p, x) /\ Elems(swift[id].out) = {}
    BY <2>1, EmptyFacts
  <2>5. CASE Ends(swift'[id].out, k, p, x)
    <3>1. e \in OnWay(c, id) => Passed(e)
      <4>1. e \in Elems(Hand(c)) => sender.status = "sending" /\ e = sender.route
        BY DEF Hand, Elems
      <4> QED BY <2>4, <4>1 DEF OnWay, Passed
    <3>2. e \in Messages
      <4>1. e \in Elems(swift'[id].out) => e \in Routes
        <5>1. swift'[id].out \in Seq(Routes)
          BY <1>1, <1>4, SwiftStepIs DEF SwiftThreads
        <5> QED BY <5>1, ElemsFacts
      <4>2. e \in OnWay(c, id) => e \in Messages
        BY <1>2, ElemsFacts DEF OnWay
      <4> QED BY <2>3, <4>1, <4>2 DEF Messages
    <3> QED BY <1>1, <1>4, <2>3, <2>5, <3>1, <3>2, SwiftNewest
  <2>6. CASE Quiet(swift'[id].out, k, p)
    <3>1. LastOnWay(c, id, k, p, x)
      <4>1. ~Ends(swift'[id].out, k, p, x)
        BY <2>6, EndsElem
      <4> QED BY <2>2, <2>4, <4>1 DEF LastOnWay
    <3>2. e \in OnWay(c, id)
      BY <2>3, <2>6 DEF Quiet
    <3>3. Within(e, x, swift[id].status = "dead") /\ swift[id].status # "dead"
      BY <1>1, <2>1, <3>1, <3>2 DEF NewestAt
    <3> QED BY <3>3 DEF Within
  <2> QED BY <2>5, <2>6 DEF LastOnWay
<1>5. CASE /\ SenderTake /\ peer_queue # <<>> /\ peer_queue' = Tail(peer_queue)
           /\ About(Head(peer_queue), k, p) /\ Hand(c)' = <<>>
  <2> DEFINE r == Head(peer_queue)
             b == Tail(peer_queue)
  <2>1. /\ UNCHANGED <<inbox, swift>> /\ Hand(c) = <<>> /\ peer_queue' = b
        /\ r \in Routes /\ r.port = k /\ sender' = Lookup(r)
    <3>1. sender = Idle /\ UNCHANGED <<inbox, swift>>
      BY <1>5, SenderTakeIs
    <3>2. r \in Routes \cup Downs
      BY <1>5, QueueFacts DEF PipelineTypeOK
    <3>3. r \in Routes /\ r.port = k
      BY <1>5, <3>2, MessageKinds DEF About
    <3>4. sender' = Lookup(r)
      <4>1. Tail(peer_queue) # peer_queue
        <5>1. /\ Len(peer_queue) \in Nat /\ DOMAIN peer_queue = 1..Len(peer_queue)
              /\ 1 \in DOMAIN peer_queue /\ DOMAIN Tail(peer_queue) = 1..(Len(peer_queue) - 1)
          BY <1>2, <1>5, QueueFacts
        <5>2. Len(peer_queue) \in DOMAIN peer_queue /\ Len(peer_queue) \notin DOMAIN Tail(peer_queue)
          BY <5>1
        <5> QED BY <5>2
      <4> QED BY <1>5, <4>1, SenderTakeIs
    <3> QED BY <1>5, <3>1, <3>3, <3>4 DEF Hand, Idle
  <2>2. r \in Elems(peer_queue) /\ Elems(peer_queue) = {r} \cup Elems(b)
    BY <1>2, <1>5, ElemsFacts
  <2>3. Quiet(inbox[c], k, p)
    <3> SUFFICES ASSUME NEW e \in Elems(inbox[c]), About(e, k, p) PROVE FALSE BY DEF Quiet
    <3>1. Past(r)
      BY <2>1, <2>2, MessageKinds DEF Past, Passed
    <3>2. /\ Lookup(r) = [status |-> "sending", route |-> r, found |-> Found(OwnerOf[r.port])]
          /\ c \in Found(OwnerOf[r.port])
      BY <1>1, <2>1, <3>1, HeardBefore DEF PeeringInv, About
    <3>3. Hand(c)' = <<r>>
      BY <2>1, <3>2 DEF Hand
    <3> QED BY <1>5, <3>3
  <2>4. /\ \A x : Ends(peer_queue, k, p, x) <=>
              Ends(b, k, p, x) \/ (Quiet(b, k, p) /\ x = r /\ About(r, k, p))
        /\ Quiet(peer_queue, k, p) <=> Quiet(b, k, p) /\ ~About(r, k, p)
    <3>1. r \in Messages /\ b \in Seq(Messages) /\ peer_queue = <<r>> \o b
      BY <1>2, <1>5, QueueFacts
    <3> HIDE DEF r, b
    <3> QED BY <3>1, EndsCons
  <2> HIDE DEF r, b
  <2>5. Quiet(Hand(c)', k, p) /\ (\A x : ~Ends(Hand(c)', k, p, x)) /\ Elems(Hand(c)') = {}
    BY <1>5, EmptyFacts
  <2>6. OnWay(c, id)' \subseteq OnWay(c, id)
    BY <2>1, <2>2, <2>5 DEF OnWay
  <2>7. ASSUME NEW x, LastOnWay(c, id, k, p, x)' PROVE LastOnWay(c, id, k, p, x)
    <3>1. ~Ends(inbox[c], k, p, x)
      BY <2>3, EndsElem
    <3>2. \/ Ends(swift[id].out, k, p, x)
          \/ Quiet(swift[id].out, k, p) /\ Ends(b, k, p, x)
      BY <2>1, <2>5, <2>7, <3>1 DEF LastOnWay
    <3> QED BY <2>4, <3>2 DEF LastOnWay
  <2> QED BY <1>1, <2>1, <2>6, <2>7 DEF NewestAt
<1>6. CASE /\ ~SwiftStep(id)
           /\ (/\ SenderTake /\ peer_queue # <<>> /\ peer_queue' = Tail(peer_queue)
               /\ About(Head(peer_queue), k, p)) => Hand(c)' # <<>>
  <2>1. /\ \A e \in OnWay(c, id)' : About(e, k, p) => e \in OnWay(c, id)
        /\ \A x : LastOnWay(c, id, k, p, x)' <=> LastOnWay(c, id, k, p, x)
        /\ (swift'[id].status = "dead") = (swift[id].status = "dead")
    BY <1>3, <1>6, WayKept
  <2> QED BY <1>1, <2>1 DEF NewestAt
<1> QED BY <1>4, <1>5, <1>6

LEMMA NewestInvariant == PipelineSpec => []NewestInv
<1>1. PipelineInit => NewestInv
  <2> SUFFICES ASSUME PipelineInit PROVE NewestInv OBVIOUS
  <2>1. /\ peer_queue = <<>> /\ sender.status # "sending"
        /\ \A c \in Conns : inbox[c] = <<>>
        /\ \A id \in Participants : swift[id].out = <<>>
    BY DEF PipelineInit, Idle, NoThread
  <2>2. \A c \in Conns : Hand(c) = <<>>
    BY <2>1 DEF Hand
  <2>3. \A c \in Conns, id \in Participants : OnWay(c, id) = {}
    BY <2>1, <2>2, EmptyFacts DEF OnWay
  <2> QED BY <2>3, SessionAssumption DEF NewestInv, NewestAt
<1>2. Inv /\ PipelineTypeOK /\ PeeringInv /\ ThreadOrder /\ PassedOrder /\ Attended
        /\ KnownSources /\ NewestInv /\ [Next]_allVars => NewestInv'
  <2> SUFFICES ASSUME Inv, PipelineTypeOK, PeeringInv, ThreadOrder, PassedOrder,
                      Attended, KnownSources, NewestInv, [Next]_allVars
               PROVE  NewestInv'
    OBVIOUS
  <2> QED BY NewestStep
<1> QED BY <1>1, <1>2, PipelineTypeCorrect, PeeringInvariant, ThreadInvariant,
           AttendedInvariant, PTL DEF PipelineSpec

\* Of all that a controller has heard or is about to hear of a prefix from a port the
\* newest comes last, however the threads interleave and whenever the kept routes are
\* sent again.
THEOREM NewestIsLast == PipelineSpec => []NewestComesLast
<1>1. Inv /\ PipelineTypeOK /\ NewestInv => NewestComesLast
  <2> SUFFICES ASSUME Inv, PipelineTypeOK, NewestInv, NobodyLeft,
                      NEW c \in helloed, NEW k \in Ports, NEW p \in Prefixes
               PROVE  LET s == OnTheWay(c, OwnerOf[k])
                          about == {i \in DOMAIN s : OnPrefix(s[i]) /\ s[i].port = k /\ s[i].prefix = p}
                      IN \A i \in about : (\A j \in about : j <= i) =>
                            \A j \in about : \/ s[j].n <= s[i].n
                                             \/ swift[OwnerOf[k]].status = "dead" /\ s[j].kind = "announce"
    BY DEF NewestComesLast
  <2> DEFINE s == OnTheWay(c, OwnerOf[k])
             about == {i \in DOMAIN s : OnPrefix(s[i]) /\ s[i].port = k /\ s[i].prefix = p}
  <2>1. c \in Conns /\ OwnerOf[k] \in Participants
    BY SessionAssumption DEF Inv, TypeOK
  <2>2. /\ s \in Seq(Messages) /\ Elems(s) = OnWay(c, OwnerOf[k])
        /\ \A x : Ends(s, k, p, x) <=> LastOnWay(c, OwnerOf[k], k, p, x)
    BY <2>1, WayIs
  <2>3. about = {i \in DOMAIN s : About(s[i], k, p)}
    BY DEF About
  <2>4. DOMAIN s = 1..Len(s) /\ Len(s) \in Nat
    BY <2>2, LenProperties
  <2> HIDE DEF s, about
  <2>5. ASSUME NEW i \in about, \A j \in about : j <= i, NEW j \in about
        PROVE  Within(s[j], s[i], swift[OwnerOf[k]].status = "dead")
    <3>1. \A l \in DOMAIN s : l > i => ~About(s[l], k, p)
      BY <2>3, <2>4, <2>5
    <3>2. Ends(s, k, p, s[i])
      BY <2>3, <3>1 DEF Ends
    <3>3. s[j] \in OnWay(c, OwnerOf[k]) /\ About(s[j], k, p)
      BY <2>2, <2>3 DEF Elems
    <3>4. NewestAt(c, k, p)
      BY <2>1 DEF NewestInv
    <3> QED BY <2>2, <3>2, <3>3, <3>4 DEF NewestAt
  <2> QED BY <2>5 DEF Within, s, about
<1> QED BY <1>1, NewestInvariant, PipelineTypeCorrect, PTL

-----------------------------------------------------------------------------
(* All routes are multiplexed *)

\* What ExaBGP last said bounds everything that is under way.
LatestKnown ==
    /\ \A k \in Ports, p \in Prefixes : latest[k][p] <= issued
    /\ \A r \in Routes : Past(r) => r.n <= latest[r.port][r.prefix]
    /\ \A u \in Elems(receiver_queue) :
         \A p \in u.announce \cup u.withdraw : u.n <= latest[u.port][p]

LEMMA LatestGrows ==
    ASSUME PipelineTypeOK, LatestKnown, [Next]_allVars
    PROVE  /\ issued <= issued'
           /\ \A k \in Ports, p \in Prefixes : latest[k][p] <= latest'[k][p]
           /\ \A k \in Ports, p \in Prefixes : latest'[k][p] <= issued'
<1>0. issued \in Nat /\ latest \in [Ports -> [Prefixes -> Nat]]
  BY DEF PipelineTypeOK
<1>1. CASE UNCHANGED environment
  BY <1>0, <1>1 DEF environment, LatestKnown
<1>2. ASSUME NEW j \in Ports, Update(j)
      PROVE  /\ issued' = issued + 1
             /\ \A k \in Ports, p \in Prefixes : latest'[k][p] \in {latest[k][p], issued + 1}
  BY <1>0, <1>2 DEF Update
<1>3. ASSUME NEW j \in Ports, PeerDown(j)
      PROVE  issued' = issued + 1 /\ latest' = latest
  BY <1>3 DEF PeerDown
<1>4. ASSUME NEW j \in Ports, Update(j) \/ PeerDown(j)
      PROVE  /\ issued <= issued'
             /\ \A k \in Ports, p \in Prefixes : latest[k][p] <= latest'[k][p]
             /\ \A k \in Ports, p \in Prefixes : latest'[k][p] <= issued'
  <2>1. /\ issued' = issued + 1
        /\ \A k \in Ports, p \in Prefixes : latest'[k][p] \in {latest[k][p], issued + 1}
    BY <1>2, <1>3, <1>4
  <2> SUFFICES ASSUME NEW k \in Ports, NEW p \in Prefixes
               PROVE  latest[k][p] <= latest'[k][p] /\ latest'[k][p] <= issued'
    BY <1>0, <2>1
  <2>2. latest[k][p] \in Nat /\ latest[k][p] <= issued
    BY <1>0, Zenon DEF LatestKnown
  <2> QED BY <1>0, <2>1, <2>2
<1>5. UNCHANGED environment \/ \E j \in Ports : Update(j) \/ PeerDown(j)
  BY Zenon DEF Next, SessionStep, PipelineStep, allVars, pipelineVars, Listener, SenderTake,
         SwiftStep, SwiftPut, FastReroute, Send
<1> QED BY <1>1, <1>4, <1>5

\* What stands in the queue to the listener after a step.
LEMMA ReceiverMoves ==
    ASSUME Inv, PipelineTypeOK, [Next]_allVars
    PROVE  \/ receiver_queue' = receiver_queue /\ UNCHANGED <<latest, unread, wentDown>>
           \/ Listener /\ Elems(receiver_queue) = {Head(receiver_queue)} \cup Elems(receiver_queue')
                /\ UNCHANGED <<latest, unread, wentDown>>
           \/ \E j \in Ports, u \in FromExaBGP :
                /\ u.port = j /\ u.n = issued + 1
                /\ Elems(receiver_queue') = Elems(receiver_queue) \cup {u}
                /\ \/ /\ u.state = "up" /\ wentDown' = wentDown
                      /\ latest' = [latest EXCEPT ![j] =
                            [p \in Prefixes |-> IF p \in u.announce \cup u.withdraw
                                                THEN issued + 1 ELSE @[p]]]
                      /\ unread' = [unread EXCEPT ![j] = (@ \ (u.announce \cup u.withdraw))
                            \cup (IF u.announce # {} THEN u.withdraw ELSE {})]
                   \/ /\ u.state = "down" /\ u.announce = {} /\ u.withdraw = {}
                      /\ wentDown' = [wentDown EXCEPT ![j] = issued + 1]
                      /\ latest' = latest /\ unread' = unread
<1>0. /\ receiver_queue \in Seq(FromExaBGP) /\ issued \in Nat
      /\ latest \in [Ports -> [Prefixes -> Nat]] /\ advertised \in [Ports -> SUBSET Prefixes]
  BY DEF PipelineTypeOK
<1>1. CASE Listener
  <2>1. receiver_queue # <<>> /\ receiver_queue' = Tail(receiver_queue) /\ UNCHANGED environment
    BY <1>1, ListenerIs, Zenon
  <2> QED BY <1>0, <1>1, <2>1, ElemsFacts, Zenon DEF environment
<1>2. ASSUME NEW j \in Ports, Update(j)
      PROVE  \E u \in FromExaBGP :
                /\ u.port = j /\ u.n = issued + 1
                /\ Elems(receiver_queue') = Elems(receiver_queue) \cup {u}
                /\ u.state = "up" /\ wentDown' = wentDown
                /\ latest' = [latest EXCEPT ![j] =
                      [p \in Prefixes |-> IF p \in u.announce \cup u.withdraw
                                          THEN issued + 1 ELSE @[p]]]
                /\ unread' = [unread EXCEPT ![j] = (@ \ (u.announce \cup u.withdraw))
                      \cup (IF u.announce # {} THEN u.withdraw ELSE {})]
  <2>1. PICK A \in SUBSET Prefixes, W \in SUBSET advertised[j] :
          /\ receiver_queue' = Append(receiver_queue,
                [port |-> j, state |-> "up", announce |-> A, withdraw |-> W, n |-> issued + 1])
          /\ latest' = [latest EXCEPT ![j] =
                [p \in Prefixes |-> IF p \in A \cup W THEN issued + 1 ELSE @[p]]]
          /\ unread' = [unread EXCEPT ![j] =
                (@ \ (A \cup W)) \cup (IF A # {} THEN W ELSE {})]
    BY <1>2 DEF Update
  <2> DEFINE u == [port |-> j, state |-> "up", announce |-> A, withdraw |-> W, n |-> issued + 1]
  <2>2. u \in FromExaBGP
    BY <1>0 DEF FromExaBGP
  <2>3. Elems(receiver_queue') = Elems(receiver_queue) \cup {u}
    BY <1>0, <2>1, <2>2, AppendFacts
  <2>4. wentDown' = wentDown
    BY <1>2 DEF Update
  <2> WITNESS u \in FromExaBGP
  <2> QED BY <2>1, <2>3, <2>4
<1>3. ASSUME NEW j \in Ports, PeerDown(j)
      PROVE  \E u \in FromExaBGP :
                /\ u.port = j /\ u.n = issued + 1
                /\ Elems(receiver_queue') = Elems(receiver_queue) \cup {u}
                /\ u.state = "down" /\ u.announce = {} /\ u.withdraw = {}
                /\ wentDown' = [wentDown EXCEPT ![j] = issued + 1]
                /\ latest' = latest /\ unread' = unread
  <2> DEFINE u == [port |-> j, state |-> "down", announce |-> {}, withdraw |-> {}, n |-> issued + 1]
  <2>1. receiver_queue' = Append(receiver_queue, u)
    BY <1>3 DEF PeerDown
  <2>2. u \in FromExaBGP
    BY <1>0 DEF FromExaBGP
  <2>3. Elems(receiver_queue') = Elems(receiver_queue) \cup {u}
    <3> HIDE DEF u
    <3> QED BY <1>0, <2>1, <2>2, AppendFacts
  <2>4. latest' = latest /\ unread' = unread /\ wentDown' = [wentDown EXCEPT ![j] = issued + 1]
    BY <1>3 DEF PeerDown
  <2> WITNESS u \in FromExaBGP
  <2> QED BY <2>3, <2>4
<1>4. \/ receiver_queue' = receiver_queue /\ UNCHANGED <<latest, unread, wentDown>>
      \/ Listener
      \/ \E j \in Ports : Update(j) \/ PeerDown(j)
  BY Zenon DEF Next, SessionStep, PipelineStep, allVars, pipelineVars, environment, SenderTake,
         SwiftStep, SwiftPut, FastReroute, Send
<1> QED BY <1>1, <1>2, <1>3, <1>4

LEMMA LatestStep ==
    ASSUME Inv, PipelineTypeOK, LatestKnown, [Next]_allVars
    PROVE  LatestKnown'
<1>0. /\ receiver_queue \in Seq(FromExaBGP) /\ issued \in Nat
      /\ latest \in [Ports -> [Prefixes -> Nat]] /\ latest' \in [Ports -> [Prefixes -> Nat]]
      /\ Elems(receiver_queue) \subseteq FromExaBGP
  BY PipelineTypes, ElemsFacts DEF PipelineTypeOK
<1>1. \A k \in Ports, p \in Prefixes :
        /\ latest[k][p] \in Nat /\ latest'[k][p] \in Nat
        /\ latest[k][p] <= latest'[k][p] /\ latest'[k][p] <= issued'
  BY <1>0, LatestGrows
<1>2. ASSUME NEW r \in Routes, Past(r)' PROVE r.n <= latest'[r.port][r.prefix]
  <2>1. r.port \in Ports /\ r.prefix \in Prefixes /\ r.n \in Nat
    BY MessageKinds
  <2>2. r.n <= latest[r.port][r.prefix]
    <3>1. CASE Past(r)
      BY <3>1 DEF LatestKnown
    <3>2. CASE ~Past(r)
      <4> DEFINE u == Head(receiver_queue)
      <4>1. /\ Listener /\ r.n = u.n /\ r.port = u.port
            /\ r.prefix \in u.announce \cup u.withdraw
        BY <1>2, <3>2, PastMoves, Zenon
      <4>2. receiver_queue # <<>>
        BY <4>1, ListenerIs, Zenon
      <4>3. u \in Elems(receiver_queue)
        BY <1>0, <4>2, ElemsFacts
      <4> HIDE DEF u
      <4> QED BY <4>1, <4>3 DEF LatestKnown
    <3> QED BY <3>1, <3>2
  <2> QED BY <1>1, <2>1, <2>2
<1>3. ASSUME NEW u \in Elems(receiver_queue'), NEW p \in u.announce \cup u.withdraw
      PROVE  u.n <= latest'[u.port][p]
  <2>1. CASE u \in Elems(receiver_queue)
    <3>1. u.n <= latest[u.port][p]
      BY <2>1 DEF LatestKnown
    <3>2. u.n \in Nat /\ u.port \in Ports /\ p \in Prefixes
      BY <1>0, <2>1 DEF FromExaBGP
    <3> QED BY <1>1, <3>1, <3>2
  <2>2. CASE u \notin Elems(receiver_queue)
    <3>1. /\ u.port \in Ports /\ u.n = issued + 1
          /\ latest' = [latest EXCEPT ![u.port] =
                [q \in Prefixes |-> IF q \in u.announce \cup u.withdraw
                                    THEN issued + 1 ELSE @[q]]]
          /\ p \in Prefixes
      BY <1>3, <2>2, ReceiverMoves DEF FromExaBGP
    <3>2. latest'[u.port][p] = issued + 1
      BY <1>0, <1>3, <3>1
    <3> QED BY <1>0, <3>1, <3>2
  <2> QED BY <2>1, <2>2
<1> QED BY <1>1, <1>2, <1>3 DEF LatestKnown

\* The update brings the listener a route for p from port k.
Brings(u, k, p) ==
    u.port = k /\ u.state = "up" /\ (p \in u.announce \/ (u.announce = {} /\ p \in u.withdraw))

\* Where the last update of p from port k is: before the listener, before the SWIFT
\* thread, or the last that is on the way to c.
RouteUnderway(c, k, p) ==
    \/ \E u \in Elems(receiver_queue) : Brings(u, k, p) /\ u.n = latest[k][p]
    \/ \E r \in Elems(peer_queue_dict[OwnerOf[k]]) : About(r, k, p) /\ r.n = latest[k][p]
    \/ \E r : LastOnWay(c, OwnerOf[k], k, p, r) /\ r.n = latest[k][p]

\* Where the last failure of the session of port k is: it skips the SWIFT thread.
DownUnderway(c, k) ==
    \/ \E u \in Elems(receiver_queue) : u.port = k /\ u.state = "down" /\ u.n = wentDown[k]
    \/ DownOf(k, wentDown[k]) \in Elems(peer_queue) \cup Elems(Hand(c)) \cup Elems(inbox[c])

Underway ==
    sender # Dead =>
        \A c \in Conns, k \in Ports : Hears(c, k) =>
            /\ swift[OwnerOf[k]].status # "dead" =>
                 \A p \in Prefixes \ unread[k] :
                    RegisteredBefore(c, k, latest[k][p]) => RouteUnderway(c, k, p)
            /\ RegisteredBefore(c, k, wentDown[k]) => DownUnderway(c, k)

\* Nothing waits for a SWIFT thread that was never launched.
Launched == \A id \in Participants : swift[id].status = "none" => peer_queue_dict[id] = <<>>

LEMMA LaunchedStep ==
    ASSUME Inv, PipelineTypeOK, Launched, [Next]_allVars
    PROVE  Launched'
<1> SUFFICES ASSUME NEW id \in Participants, swift'[id].status = "none"
             PROVE  peer_queue_dict'[id] = <<>>
  BY Zenon DEF Launched
<1>1. CASE Listener
  <2> DEFINE j == OwnerOf[Head(receiver_queue).port]
  <2>1. CASE UNCHANGED <<peer_queue_dict, swift>>
    BY <2>1 DEF Launched
  <2>2. CASE /\ \E routes \in Updates(Head(receiver_queue)) :
                    peer_queue_dict' = [peer_queue_dict EXCEPT ![j] = @ \o routes]
             /\ \E st \in {"none", "running", "dead"} :
                    /\ swift' = [swift EXCEPT ![j].status = st]
                    /\ swift[j].status = "dead" => st = "dead"
                    /\ swift[j].status # "dead" => st = "running"
    <3>1. id # j
      BY <2>2 DEF PipelineTypeOK, SwiftThreads
    <3>2. peer_queue_dict'[id] = peer_queue_dict[id] /\ swift'[id] = swift[id]
      BY <2>2, <3>1 DEF PipelineTypeOK
    <3> QED BY <3>2 DEF Launched
  <2> QED BY <1>1, <2>1, <2>2, ListenerIs, Zenon
<1>2. ASSUME NEW j \in Participants, SwiftStep(j) PROVE peer_queue_dict'[id] = <<>>
  <2>1. /\ swift[j].status = "running" /\ swift' = [swift EXCEPT ![j] = swift'[j]]
        /\ peer_queue_dict' = [peer_queue_dict EXCEPT ![j] = Tail(peer_queue_dict[j])]
        /\ swift'[j].status \in {"running", "dead"}
    <3>1. /\ swift[j].status = "running" /\ swift' = [swift EXCEPT ![j] = swift'[j]]
          /\ peer_queue_dict' = [peer_queue_dict EXCEPT ![j] = Tail(peer_queue_dict[j])]
          /\ \/ Keeps(swift[j], swift'[j], Head(peer_queue_dict[j]))
             \/ Replays(swift[j], swift'[j], Head(peer_queue_dict[j]))
             \/ Dies(swift[j], swift'[j], Head(peer_queue_dict[j]))
      BY <1>2, SwiftStepIs
    <3>2. swift'[j].status \in {"running", "dead"}
      BY <3>1 DEF Keeps, Replays, Dies
    <3> QED BY <3>1, <3>2
  <2>2. id # j
    BY <2>1
  <2>3. peer_queue_dict'[id] = peer_queue_dict[id] /\ swift'[id] = swift[id]
    BY <2>1, <2>2 DEF PipelineTypeOK
  <2> QED BY <2>3 DEF Launched
<1>3. ASSUME NEW j \in Participants, SwiftPut(j) \/ FastReroute(j)
      PROVE  peer_queue_dict'[id] = <<>>
  <2>1. UNCHANGED peer_queue_dict
    BY <1>3 DEF SwiftPut, FastReroute
  <2>2. \/ swift' = [swift EXCEPT ![j].out = Tail(@)]
        \/ swift' = [swift EXCEPT ![j].withdrawals = 0]
    BY <1>3 DEF SwiftPut, FastReroute
  <2>3. swift'[id].status = swift[id].status
    <3>1. swift \in [Participants -> SwiftThreads]
      BY DEF PipelineTypeOK
    <3>2. CASE id # j
      BY <2>2, <3>1, <3>2
    <3>3. CASE id = j
      BY <2>2, <3>1, <3>3 DEF SwiftThreads
    <3> QED BY <3>2, <3>3
  <2> QED BY <2>1, <2>3 DEF Launched
<1>4. CASE UNCHANGED <<peer_queue_dict, swift>>
  BY <1>4 DEF Launched
<1>5. \/ UNCHANGED <<peer_queue_dict, swift>>
      \/ Listener
      \/ \E j \in Participants : SwiftStep(j) \/ SwiftPut(j) \/ FastReroute(j)
  BY DEF Next, SessionStep, PipelineStep, allVars, pipelineVars, SenderTake, Update, PeerDown, Send
<1> QED BY <1>1, <1>2, <1>3, <1>4, <1>5

\* Who hears a port after a step in which its update is not yet too old heard it before.
LEMMA HearsStays ==
    ASSUME Inv, PipelineTypeOK, [Next]_allVars, NEW c \in Conns, NEW k \in Ports, Hears(c, k)',
           NEW n \in Nat, n > since'[ConnOf[c]], n > since'[OwnerOf[k]], n <= issued
    PROVE  Hears(c, k) /\ RegisteredBefore(c, k, n)
<1> DEFINE i == ConnOf[c]
           id == OwnerOf[k]
<1>0. i \in Participants /\ id \in Participants /\ c # NoConn /\ issued \in Nat
      /\ since \in [Participants -> Nat]
  BY SessionAssumption DEF PipelineTypeOK
<1>1. CASE UNCHANGED <<sessionVars, since>>
  BY <1>1 DEF sessionVars, Hears, Found, RegisteredBefore
<1>2. CASE SessionStep
  <2>1. /\ SessionNext
        /\ since' = [m \in Participants |->
                       IF \E d \in helloed' \ helloed : ConnOf[d] = m THEN issued ELSE since[m]]
    BY <1>2 DEF SessionStep
  <2>2. \A m \in {i, id} : /\ \A d \in helloed' \ helloed : ConnOf[d] # m
                           /\ since'[m] = since[m]
    BY <1>0, <2>1
  <2>3. RegisteredBefore(c, k, n)
    BY <2>2 DEF RegisteredBefore
  <2>4. participants'[i] = c /\ conn'[c] = "open" /\ portip2participant'[k] # NoParticipant
        /\ i \in PeersOut[id] /\ id \in PeersIn[i]
    <3>1. PICK m \in PeersOut[id] : participants'[m] = c /\ id \in PeersIn[m]
      BY DEF Hears, Found
    <3>2. m \in Participants
      BY <1>0, <3>1, PipelineAssumption
    <3>3. ConnOf[c] = m
      <4>1. Inv'
        BY NextTables
      <4> QED BY <1>0, <3>1, <3>2, <4>1 DEF Inv, RepresentedByUncleaned
    <3> QED BY <3>1, <3>3 DEF Hears
  <2>5. participants[i] = c /\ conn[c] = "open" /\ portip2participant[k] # NoParticipant
    <3>1. ASSUME NEW d \in Conns, Hello(d) PROVE ConnOf[d] \notin {i, id}
      BY <2>2, <3>1 DEF Hello
    <3>2. participants[i] = c
      <4>1. participants'[i] = participants[i] \/ participants'[i] = NoConn
        BY <1>0, <2>1, <3>1 DEF SessionNext, StartThread, Accept, Hello, Hang, Crash, Close,
              Abort, Retire, Unregister, Live, Inv, TypeOK
      <4> QED BY <1>0, <2>4, <4>1
    <3>3. portip2participant[k] # NoParticipant
      <4>1. \/ portip2participant'[k] = portip2participant[k]
            \/ portip2participant'[k] = NoParticipant
        BY <1>0, <2>1, <3>1 DEF SessionNext, StartThread, Accept, Hello, Hang, Crash, Close,
              Abort, Retire, Unregister, Live, Inv, TypeOK
      <4> QED BY <2>4, <4>1
    <3>4. conn[c] \notin {"new", "accepted"}
      BY <1>0, <3>2 DEF Inv, RepresentedByUncleaned
    <3>5. conn[c] = "open"
      BY <1>0, <2>1, <2>4, <3>4, Zenon DEF SessionNext, StartThread, Accept, Hello, Hang, Crash, Close,
              Abort, Retire, Unregister, Live, Inv, TypeOK, AcceptorWaits
    <3> QED BY <3>2, <3>3, <3>5
  <2>6. c \in Found(id)
    BY <1>0, <2>4, <2>5 DEF Found
  <2> QED BY <2>3, <2>5, <2>6 DEF Hears
<1>3. UNCHANGED <<sessionVars, since>> \/ SessionStep
  BY Zenon DEF Next, PipelineStep, allVars, pipelineVars, Listener, SenderTake, Update, PeerDown,
         SwiftStep, SwiftPut, FastReroute, Send
<1> QED BY <1>1, <1>2, <1>3

LEMMA DeadStays ==
    ASSUME Inv, PipelineTypeOK, [Next]_allVars, NEW id \in Participants
    PROVE  /\ sender' # Dead => sender # Dead
           /\ swift'[id].status # "dead" => swift[id].status # "dead"
<1>1. ASSUME sender = Dead PROVE sender' = Dead
  BY <1>1, Zenon DEF Dead, Idle, Next, SessionStep, PipelineStep, allVars, pipelineVars, Listener, SenderTake,
         Update, PeerDown, SwiftStep, SwiftPut, FastReroute, Send
<1>2. ASSUME swift[id].status = "dead" PROVE swift'[id].status = "dead"
  <2>1. ASSUME NEW j \in Participants, SwiftStep(j) PROVE swift'[id] = swift[id]
    <3>1. swift[j].status = "running" /\ swift' = [swift EXCEPT ![j] = swift'[j]]
      BY <2>1, SwiftStepIs
    <3> QED BY <1>2, <3>1 DEF PipelineTypeOK
  <2>2. ASSUME Listener PROVE swift'[id].status = "dead"
    <3> DEFINE j == OwnerOf[Head(receiver_queue).port]
    <3>1. CASE UNCHANGED swift
      BY <1>2, <3>1
    <3>2. ASSUME NEW st \in {"none", "running", "dead"}, swift' = [swift EXCEPT ![j].status = st],
                 swift[j].status = "dead" => st = "dead"
          PROVE  swift'[id].status = "dead"
      <4>1. CASE j # id
        BY <1>2, <3>2, <4>1 DEF PipelineTypeOK
      <4>2. CASE j = id
        BY <1>2, <3>2, <4>2 DEF PipelineTypeOK, SwiftThreads
      <4> QED BY <4>1, <4>2
    <3> QED BY <2>2, <3>1, <3>2, ListenerIs, Zenon
  <2>3. ASSUME NEW j \in Participants, SwiftPut(j) \/ FastReroute(j)
        PROVE  swift'[id].status = swift[id].status
    <3>1. CASE SwiftPut(j)
      <4>1. swift' = [swift EXCEPT ![j].out = Tail(@)]
        BY <3>1 DEF SwiftPut
      <4> QED BY <4>1 DEF PipelineTypeOK, SwiftThreads
    <3>2. CASE FastReroute(j)
      <4>1. swift' = [swift EXCEPT ![j].withdrawals = 0]
        BY <3>2 DEF FastReroute
      <4> QED BY <4>1 DEF PipelineTypeOK, SwiftThreads
    <3> QED BY <2>3, <3>1, <3>2
  <2>4. \/ UNCHANGED swift
        \/ Listener
        \/ \E j \in Participants : SwiftStep(j) \/ SwiftPut(j) \/ FastReroute(j)
    BY DEF Next, SessionStep, PipelineStep, allVars, pipelineVars, SenderTake, Update, PeerDown, Send
  <2> QED BY <1>2, <2>1, <2>2, <2>3, <2>4
<1> QED BY <1>1, <1>2

\* Of what the sender takes about a port everybody gets his copy who hears the port.
LEMMA TakenIsHeard ==
    ASSUME Inv, PipelineTypeOK, NEW c \in Conns, NEW k \in Ports, Hears(c, k),
           NEW r \in Routes \cup Downs, r.port = k, sender' = Lookup(r)
    PROVE  Hand(c)' = <<r>>
<1> DEFINE id == OwnerOf[k]
<1>1. portip2participant[k] = id /\ participants[id] # NoConn
  BY DEF Hears, Inv, PortsOfRegistered
<1>2. Advertiser(r) = id
  BY <1>1, MessageKinds DEF Advertiser
<1>3. id # NoParticipant
  BY SessionAssumption
<1>4. Lookup(r) = [status |-> "sending", route |-> r, found |-> Found(id)]
  BY <1>1, <1>2, <1>3 DEF Lookup, Hears
<1> QED BY <1>4 DEF Hand, Hears

\* A sequence of which something is about p has a last element about p.
LEMMA QuietOrEnds ==
    ASSUME NEW S, NEW s \in Seq(S), NEW k, NEW p, ~Quiet(s, k, p)
    PROVE  \E x : Ends(s, k, p, x)
<1> DEFINE T == {i \in DOMAIN s : About(s[i], k, p)}
<1>1. Len(s) \in Nat /\ DOMAIN s = 1..Len(s)
  BY QueueFacts
<1>2. T \in SUBSET (1..Len(s)) /\ T # {}
  BY <1>1 DEF Quiet, Elems
<1>3. PICK i \in T : \A j \in T : j <= i
  BY <1>1, <1>2, IntervalMaximum
<1>4. \A j \in DOMAIN s : j > i => ~About(s[j], k, p)
  BY <1>1, <1>3
<1>5. Ends(s, k, p, s[i])
  BY <1>3, <1>4 DEF Ends
<1> QED BY <1>5

\* What is last on the way to c is a route that has passed.
LEMMA LastHasPassed ==
    ASSUME PipelineTypeOK, NEW c \in Conns, NEW id \in Participants, NEW k, NEW p, NEW x,
           LastOnWay(c, id, k, p, x)
    PROVE  x \in Routes /\ About(x, k, p) /\ Passed(x) /\ Past(x)
<1>1. \/ Ends(swift[id].out, k, p, x) \/ Ends(peer_queue, k, p, x)
      \/ Ends(Hand(c), k, p, x) \/ Ends(inbox[c], k, p, x)
  BY DEF LastOnWay
<1>2. About(x, k, p) /\ x \in OnWay(c, id)
  BY <1>1, EndsElem DEF OnWay
<1>3. x \in Messages
  BY <1>2, PartsTypes, ElemsFacts DEF OnWay
<1>4. x \in Elems(Hand(c)) => sender.status = "sending" /\ x = sender.route
  BY DEF Hand, Elems
<1>5. Passed(x)
  BY <1>2, <1>4 DEF OnWay, Passed
<1>6. x \in Routes
  BY <1>2, <1>3, MessageKinds DEF About
<1> QED BY <1>2, <1>5, <1>6, MessageKinds DEF Past

\* The last update of a prefix stays under way: the listener hands it on, the SWIFT thread
\* sends it or something as new, and nothing about p overtakes it on the rest of the way.
LEMMA RouteStep ==
    ASSUME Inv, PipelineTypeOK, NumbersAscend, ThreadOrder, PassedOrder, LatestKnown, [Next]_allVars,
           NEW c \in Conns, NEW k \in Ports, NEW p \in Prefixes,
           latest'[k][p] = latest[k][p], Hears(c, k),
           sender' # Dead, swift'[OwnerOf[k]].status # "dead", RouteUnderway(c, k, p)
    PROVE  RouteUnderway(c, k, p)'
<1> DEFINE id == OwnerOf[k]
           last == latest[k][p]
<1>1. id \in Participants /\ id # NoParticipant /\ last \in Nat
  BY SessionAssumption DEF PipelineTypeOK
<1>2. CASE SwiftStep(id)
  <2> DEFINE h == Head(peer_queue_dict[id])
             q == Tail(peer_queue_dict[id])
             w == swift'[id].out
  <2>1. /\ UNCHANGED <<receiver_queue, peer_queue, sender, inbox>>
        /\ swift[id].out = <<>> /\ peer_queue_dict'[id] = q
        /\ w \in Seq(Routes) /\ h \in Routes
        /\ peer_queue_dict[id] \in Seq(Routes) /\ peer_queue_dict[id] # <<>>
        /\ w[1] = h /\ 1 \in DOMAIN w
    <3>1. /\ UNCHANGED <<receiver_queue, peer_queue, sender, inbox>>
          /\ swift[id].out = <<>> /\ peer_queue_dict'[id] = q
          /\ swift'[id] \in SwiftThreads /\ h \in Routes
          /\ peer_queue_dict[id] \in Seq(Routes) /\ peer_queue_dict[id] # <<>>
          /\ \/ Keeps(swift[id], swift'[id], h) \/ Replays(swift[id], swift'[id], h)
             \/ Dies(swift[id], swift'[id], h)
      BY <1>1, <1>2, SwiftStepIs DEF PipelineTypeOK
    <3>2. w \in Seq(Routes) /\ swift[id].unsent \in Seq(Routes)
      BY <1>1, <3>1 DEF SwiftThreads, PipelineTypeOK
    <3>3. w = <<h>> \/ w = <<h>> \o swift[id].unsent
      BY <3>1, DeadStays, <1>1, Zenon DEF Keeps, Replays, Dies
    <3>4. w[1] = h /\ 1 \in DOMAIN w
      <4> HIDE DEF h, w
      <4>1. <<h>> \in Seq(Routes) /\ 1 \in DOMAIN <<h>> /\ <<h>>[1] = h
        BY <3>1
      <4>2. (<<h>> \o swift[id].unsent)[1] = h /\ 1 \in DOMAIN (<<h>> \o swift[id].unsent)
        BY <3>2, <4>1, ConcatFacts
      <4> QED BY <3>3, <4>1, <4>2
    <3> QED BY <3>1, <3>2, <3>4
  <2>2. Hand(c)' = Hand(c)
    BY <2>1 DEF Hand
  \* Once something about p is sent, the newest is sent last.
  <2>3. ASSUME NEW e \in Routes, About(e, k, p), e.n = last,
               Passed(e) \/ e \in Elems(w), ~Quiet(w, k, p)
        PROVE  RouteUnderway(c, k, p)'
    <3>1. PICK x : Ends(w, k, p, x)
      BY <2>1, <2>3, QuietOrEnds
    <3>2. x \in Elems(w) /\ About(x, k, p)
      BY <3>1, EndsElem
    <3>3. x \in Routes
      BY <2>1, <3>2, ElemsFacts
    <3>4. Within(e, x, swift'[id].status = "dead")
      BY <1>1, <1>2, <2>3, <3>1, SwiftNewest DEF Messages
    <3>5. e.n <= x.n
      BY <3>4 DEF Within
    <3>6. x.n <= last
      <4>1. LatestKnown'
        BY LatestStep
      <4>2. Past(x)'
        BY <1>1, <3>2, <3>3, MessageKinds DEF Past, Passed
      <4> QED BY <3>2, <3>3, <4>1, <4>2 DEF LatestKnown, About
    <3>7. x.n = last
      BY <1>1, <2>3, <3>3, <3>5, <3>6, MessageKinds
    <3>8. LastOnWay(c, id, k, p, x)'
      BY <3>1 DEF LastOnWay
    <3> QED BY <3>7, <3>8 DEF RouteUnderway
  <2>4. CASE \E u \in Elems(receiver_queue) : Brings(u, k, p) /\ u.n = last
    BY <2>1, <2>4 DEF RouteUnderway
  <2>5. ASSUME NEW r \in Elems(peer_queue_dict[id]), About(r, k, p), r.n = last
        PROVE  RouteUnderway(c, k, p)'
    <3>1. r = h \/ r \in Elems(q)
      BY <2>1, ElemsFacts
    <3>2. CASE r = h
      <4>1. h \in Elems(w)
        BY <2>1 DEF Elems
      <4>2. ~Quiet(w, k, p)
        BY <2>5, <3>2, <4>1 DEF Quiet
      <4> QED BY <2>1, <2>3, <2>5, <3>2, <4>1, <4>2
    <3>3. CASE r \in Elems(q)
      BY <2>1, <2>5, <3>3 DEF RouteUnderway
    <3> QED BY <3>1, <3>2, <3>3
  <2>6. ASSUME NEW x, LastOnWay(c, id, k, p, x), x.n = last
        PROVE  RouteUnderway(c, k, p)'
    <3>1. x \in Routes /\ About(x, k, p) /\ Passed(x)
      BY <1>1, <2>6, LastHasPassed
    <3>2. CASE Quiet(w, k, p)
      <4>1. LastOnWay(c, id, k, p, x)'
        BY <2>1, <2>2, <2>6, <3>2, EmptyFacts DEF LastOnWay
      <4> QED BY <2>6, <4>1 DEF RouteUnderway
    <3>3. CASE ~Quiet(w, k, p)
      BY <2>3, <2>6, <3>1, <3>3
    <3> QED BY <3>2, <3>3
  <2> QED BY <2>4, <2>5, <2>6 DEF RouteUnderway
<1>3. CASE ~SwiftStep(id)
  <2>1. \A x : LastOnWay(c, id, k, p, x)' <=> LastOnWay(c, id, k, p, x)
    <3>1. Send(c) => conn[c] = "open"
      BY DEF Hears
    <3>2. ASSUME SenderTake, peer_queue # <<>>, peer_queue' = Tail(peer_queue),
                 About(Head(peer_queue), k, p)
          PROVE  Hand(c)' # <<>>
      <4> DEFINE r == Head(peer_queue)
      <4>1. peer_queue \in Seq(Routes \cup Downs) /\ r \in Routes \cup Downs
        BY <3>2, QueueFacts DEF PipelineTypeOK
      <4>2. r.port = k
        BY <3>2 DEF About
      <4>3. Tail(peer_queue) # peer_queue
        <5>1. /\ Len(peer_queue) \in Nat /\ DOMAIN peer_queue = 1..Len(peer_queue)
              /\ 1 \in DOMAIN peer_queue /\ DOMAIN Tail(peer_queue) = 1..(Len(peer_queue) - 1)
          BY <3>2, <4>1, QueueFacts
        <5>2. Len(peer_queue) \in DOMAIN peer_queue /\ Len(peer_queue) \notin DOMAIN Tail(peer_queue)
          BY <5>1
        <5> QED BY <5>2
      <4>4. sender' = Lookup(r)
        BY <3>2, <4>3, SenderTakeIs
      <4>5. Hand(c)' = <<r>>
        BY <4>1, <4>2, <4>4, TakenIsHeard
      <4> QED BY <4>5
    <3> QED BY <1>3, <3>1, <3>2, WayKept
  <2>2. \A r \in Elems(peer_queue_dict[id]) : r \in Elems(peer_queue_dict'[id])
    <3>1. CASE peer_queue_dict'[id] = peer_queue_dict[id]
      BY <3>1
    <3>2. ASSUME Listener, NEW routes \in Updates(Head(receiver_queue)),
                 peer_queue_dict'[id] = peer_queue_dict[id] \o routes
          PROVE  \A r \in Elems(peer_queue_dict[id]) : r \in Elems(peer_queue_dict'[id])
      <4>1. routes \in Seq(Routes) /\ peer_queue_dict[id] \in Seq(Routes)
        BY <1>1, <3>2, ListenerIs, UpdatesAre DEF PipelineTypeOK
      <4> QED BY <3>2, <4>1, ConcatElems
    <3>3. \/ peer_queue_dict'[id] = peer_queue_dict[id]
          \/ Listener /\ \E routes \in Updates(Head(receiver_queue)) :
                            peer_queue_dict'[id] = peer_queue_dict[id] \o routes
      <4>1. ASSUME NEW j \in Participants, SwiftStep(j) PROVE peer_queue_dict'[id] = peer_queue_dict[id]
        <5>1. j # id /\ peer_queue_dict' = [peer_queue_dict EXCEPT ![j] = Tail(peer_queue_dict[j])]
          BY <1>3, <4>1, SwiftStepIs
        <5> QED BY <1>1, <5>1, Zenon DEF PipelineTypeOK
      <4>2. ASSUME Listener
            PROVE  \/ peer_queue_dict'[id] = peer_queue_dict[id]
                   \/ \E routes \in Updates(Head(receiver_queue)) :
                            peer_queue_dict'[id] = peer_queue_dict[id] \o routes
        BY <1>1, <4>2, ListenerIs DEF PipelineTypeOK
      <4>3. \/ UNCHANGED peer_queue_dict
            \/ Listener
            \/ \E j \in Participants : SwiftStep(j)
        BY DEF Next, SessionStep, PipelineStep, allVars, pipelineVars, SenderTake, Update, PeerDown,
               SwiftPut, FastReroute, Send
      <4> QED BY <4>1, <4>2, <4>3
    <3> QED BY <3>1, <3>2, <3>3
  <2>3. CASE \E x : LastOnWay(c, id, k, p, x) /\ x.n = last
    BY <2>1, <2>3 DEF RouteUnderway
  <2>4. CASE \E r \in Elems(peer_queue_dict[id]) : About(r, k, p) /\ r.n = last
    BY <2>2, <2>4 DEF RouteUnderway
  <2>5. ASSUME NEW u \in Elems(receiver_queue), Brings(u, k, p), u.n = last
        PROVE  RouteUnderway(c, k, p)'
    <3>1. CASE u \in Elems(receiver_queue')
      BY <2>5, <3>1 DEF RouteUnderway
    <3>2. CASE u \notin Elems(receiver_queue')
      <4>1. Listener /\ u = Head(receiver_queue)
        BY <2>5, <3>2, ReceiverMoves, Zenon
      <4>2. /\ u \in FromExaBGP /\ u.state = "up" /\ u.port = k
            /\ portip2participant[k] # NoParticipant
        BY <2>5, <4>1, ListenerIs, Zenon DEF Brings, Hears
      <4>3. PICK routes \in Updates(u) : peer_queue_dict' = [peer_queue_dict EXCEPT ![id] = @ \o routes]
        BY <4>1, <4>2, ListenerIs, Zenon
      <4>4. /\ routes \in Seq(Routes) /\ peer_queue_dict[id] \in Seq(Routes)
            /\ \A i \in DOMAIN routes : routes[i].port = k /\ routes[i].n = last
            /\ \E i \in DOMAIN routes : routes[i].prefix = p
        BY <1>1, <2>5, <4>2, <4>3, UpdatesAre, ZenonT(30) DEF PipelineTypeOK, Brings
      <4>5. PICK i \in DOMAIN routes : routes[i].prefix = p
        BY <4>4
      <4>6. /\ routes[i] \in Elems(routes) /\ routes[i] \in Routes
            /\ routes[i].port = k /\ routes[i].n = last
        BY <4>4, <4>5, ElemsFacts DEF Elems
      <4>7. About(routes[i], k, p)
        BY <4>5, <4>6, MessageKinds DEF About
      <4>8. routes[i] \in Elems(peer_queue_dict'[id])
        <5>1. peer_queue_dict'[id] = peer_queue_dict[id] \o routes
          BY <1>1, <4>3 DEF PipelineTypeOK
        <5> QED BY <4>4, <4>6, <5>1, ConcatElems
      <4> QED BY <4>6, <4>7, <4>8 DEF RouteUnderway
    <3> QED BY <3>1, <3>2
  <2> QED BY <2>3, <2>4, <2>5 DEF RouteUnderway
<1> QED BY <1>2, <1>3

\* A failure in the way goes from the peer queue over the hand of the sender to the inbox.
LEMMA DownStep ==
    ASSUME Inv, PipelineTypeOK, [Next]_allVars, NEW c \in Conns, NEW k \in Ports,
           wentDown'[k] = wentDown[k], Hears(c, k), sender' # Dead, DownUnderway(c, k)
    PROVE  DownUnderway(c, k)'
<1> DEFINE d == DownOf(k, wentDown[k])
           On == Elems(peer_queue) \cup Elems(Hand(c)) \cup Elems(inbox[c])
<1>1. /\ d \in Downs /\ d.port = k /\ peer_queue \in Seq(Routes \cup Downs)
      /\ inbox[c] \in Seq(Messages) /\ Hand(c) \in Seq(Messages)
  <2>1. d \in Downs /\ d.port = k /\ peer_queue \in Seq(Routes \cup Downs)
    BY DEF PipelineTypeOK, DownOf, Downs
  <2>2. OwnerOf[k] \in Participants
    BY SessionAssumption
  <2> QED BY <2>1, <2>2, PartsTypes
<1>2. d' = d
  BY DEF DownOf
<1> SUFFICES ASSUME ~\E u \in Elems(receiver_queue') : u.port = k /\ u.state = "down" /\ u.n = wentDown[k]
             PROVE  d \in On'
  BY <1>2 DEF DownUnderway
<1> HIDE DEF d
<1>3. ASSUME UNCHANGED <<sender, inbox>>, Elems(peer_queue) \subseteq Elems(peer_queue'), d \in On
      PROVE  d \in On'
  BY <1>3 DEF Hand
<1>4. CASE d \notin On
  <2>1. PICK u \in Elems(receiver_queue) : u.port = k /\ u.state = "down" /\ u.n = wentDown[k]
    BY <1>4 DEF DownUnderway, d
  <2>2. Listener /\ u = Head(receiver_queue)
    BY <2>1, ReceiverMoves
  <2>3. peer_queue' = Append(peer_queue, d)
    BY <2>1, <2>2, ListenerIs, Zenon DEF Hears, d
  <2>4. d \in Elems(peer_queue')
    BY <1>1, <2>3, AppendFacts
  <2> QED BY <2>4
<1>5. CASE d \in On /\ Listener
  <2>1. UNCHANGED <<sender, inbox>>
    BY <1>5, ListenerIs, Zenon
  <2>2. \/ UNCHANGED peer_queue
        \/ \E m \in Downs : peer_queue' = Append(peer_queue, m)
    BY <1>5, ListenerIs, Zenon
  <2>3. Elems(peer_queue) \subseteq Elems(peer_queue')
    <3> SUFFICES ASSUME NEW m \in Downs, peer_queue' = Append(peer_queue, m)
                 PROVE  Elems(peer_queue) \subseteq Elems(peer_queue')
      BY <2>2
    <3>1. m \in Routes \cup Downs
      OBVIOUS
    <3> QED BY <1>1, <3>1, AppendFacts
  <2> QED BY <1>3, <1>5, <2>1, <2>3, Zenon
<1>6. ASSUME NEW j \in Participants, SwiftPut(j), d \in On PROVE d \in On'
  <2>1. /\ UNCHANGED <<sender, inbox>> /\ swift[j].out # <<>>
        /\ peer_queue' = Append(peer_queue, Head(swift[j].out))
    BY <1>6 DEF SwiftPut
  <2>2. Head(swift[j].out) \in Routes
    BY <2>1, QueueFacts DEF PipelineTypeOK, SwiftThreads
  <2>3. Elems(peer_queue) \subseteq Elems(peer_queue')
    BY <1>1, <2>1, <2>2, AppendFacts
  <2> QED BY <1>3, <1>6, <2>1, <2>3
<1>7. CASE d \in On /\ SenderTake
  <2>1. sender = Idle /\ UNCHANGED inbox /\ Hand(c) = <<>>
    BY <1>7, SenderTakeIs DEF Hand, Idle
  <2>2. CASE d \in Elems(inbox[c])
    BY <2>1, <2>2
  <2>3. CASE d \in Elems(peer_queue)
    <3>1. CASE UNCHANGED peer_queue
      BY <2>3, <3>1
    <3>2. CASE /\ peer_queue # <<>> /\ peer_queue' = Tail(peer_queue)
               /\ sender' = Lookup(Head(peer_queue))
      <4>1. d = Head(peer_queue) \/ d \in Elems(peer_queue')
        BY <1>1, <2>3, <3>2, ElemsFacts
      <4>2. ASSUME d = Head(peer_queue) PROVE d \in Elems(Hand(c)')
        <5>1. Hand(c)' = <<d>>
          BY <1>1, <3>2, <4>2, TakenIsHeard
        <5> QED BY <1>1, <5>1, OneElem
      <4> QED BY <4>1, <4>2
    <3> QED BY <1>7, <3>1, <3>2, SenderTakeIs
  <2>4. Elems(Hand(c)) = {}
    BY <2>1, EmptyFacts
  <2> QED BY <1>7, <2>2, <2>3, <2>4
<1>8. ASSUME NEW e \in Conns, Send(e), d \in On PROVE d \in On'
  <2>1. /\ sender.status = "sending" /\ e \in sender.found /\ sender.route \in Messages
        /\ UNCHANGED peer_queue
        /\ \/ conn[e] = "open" /\ inbox' = [inbox EXCEPT ![e] = Append(inbox[e], sender.route)]
           \/ inbox' = inbox /\ conn[e] # "open"
        /\ \/ sender' = Idle /\ sender.found = {e}
           \/ sender' = [status |-> "sending", route |-> sender.route, found |-> sender.found \ {e}]
    BY <1>8, SendIs
  <2>2. CASE e # c
    <3>1. inbox'[c] = inbox[c]
      BY <2>1, <2>2 DEF PipelineTypeOK
    <3>2. Hand(c)' = Hand(c)
      BY <2>1, <2>2 DEF Hand, Idle
    <3> QED BY <1>8, <2>1, <3>1, <3>2
  <2>3. CASE e = c
    <3>1. inbox'[c] = Append(inbox[c], sender.route)
      BY <2>1, <2>3 DEF PipelineTypeOK, Hears, Broken
    <3>2. Elems(inbox'[c]) = Elems(inbox[c]) \cup {sender.route}
      BY <1>1, <2>1, <3>1, AppendFacts
    <3>3. Elems(Hand(c)) = {sender.route}
      BY <2>1, <2>3, OneElem DEF Hand
    <3> QED BY <1>8, <2>1, <3>2, <3>3
  <2> QED BY <2>2, <2>3
<1>9. CASE d \in On /\ UNCHANGED <<sender, inbox, peer_queue>>
  BY <1>3, <1>9, Zenon
<1>10. \/ UNCHANGED <<sender, inbox, peer_queue>>
       \/ Listener \/ SenderTake
       \/ \E j \in Participants : SwiftPut(j)
       \/ \E e \in Conns : Send(e)
  BY Zenon DEF Next, SessionStep, PipelineStep, allVars, pipelineVars, Update, PeerDown, SwiftStep, FastReroute
<1> QED BY <1>4, <1>5, <1>6, <1>7, <1>8, <1>9, <1>10

FailuresKnown == \A k \in Ports : wentDown[k] <= issued

LEMMA FailuresStep ==
    ASSUME Inv, PipelineTypeOK, FailuresKnown, LatestKnown, [Next]_allVars
    PROVE  FailuresKnown'
<1>1. issued \in Nat /\ wentDown \in [Ports -> Nat] /\ issued' \in Nat
  BY PipelineTypes DEF PipelineTypeOK
<1>2. CASE wentDown' = wentDown
  BY <1>1, <1>2, LatestGrows DEF FailuresKnown
<1>3. ASSUME NEW j \in Ports, PeerDown(j) PROVE FailuresKnown'
  BY <1>1, <1>3 DEF FailuresKnown, PeerDown
<1>4. wentDown' = wentDown \/ \E j \in Ports : PeerDown(j)
  BY Zenon DEF Next, SessionStep, PipelineStep, allVars, pipelineVars, environment, Listener, SenderTake,
         Update, SwiftStep, SwiftPut, FastReroute, Send
<1> QED BY <1>2, <1>3, <1>4

LEMMA UnderwayStep ==
    ASSUME Inv, PipelineTypeOK, NumbersAscend, ThreadOrder, PassedOrder, LatestKnown,
           FailuresKnown, Underway, [Next]_allVars
    PROVE  Underway'
<1> SUFFICES ASSUME sender' # Dead, NEW c \in Conns, NEW k \in Ports, Hears(c, k)'
             PROVE  /\ swift'[OwnerOf[k]].status # "dead" =>
                         \A p \in Prefixes \ unread'[k] :
                            RegisteredBefore(c, k, latest[k][p])' => RouteUnderway(c, k, p)'
                    /\ RegisteredBefore(c, k, wentDown[k])' => DownUnderway(c, k)'
  BY DEF Underway
<1> DEFINE id == OwnerOf[k]
<1>1. /\ id \in Participants /\ latest \in [Ports -> [Prefixes -> Nat]]
      /\ wentDown \in [Ports -> Nat] /\ issued \in Nat
      /\ unread \in [Ports -> SUBSET Prefixes]
  BY SessionAssumption DEF PipelineTypeOK
<1>2. ASSUME NEW p \in Prefixes \ unread'[k], swift'[id].status # "dead", RegisteredBefore(c, k, latest[k][p])'
      PROVE  RouteUnderway(c, k, p)'
  <2>1. CASE latest'[k][p] = latest[k][p]
    <3>1. latest[k][p] \in Nat /\ latest[k][p] <= issued
      BY <1>1 DEF LatestKnown
    <3>2. Hears(c, k) /\ RegisteredBefore(c, k, latest[k][p])
      BY <1>2, <2>1, <3>1, HearsStays DEF RegisteredBefore
    <3>3. sender # Dead /\ swift[id].status # "dead"
      BY <1>1, <1>2, DeadStays
    <3>4. p \notin unread[k]
      <4>1. CASE UNCHANGED unread
        BY <4>1
      <4>2. ASSUME NEW u \in FromExaBGP, u.port \in Ports,
                   latest' = [latest EXCEPT ![u.port] =
                      [q \in Prefixes |-> IF q \in u.announce \cup u.withdraw
                                          THEN issued + 1 ELSE @[q]]],
                   unread' = [unread EXCEPT ![u.port] = (@ \ (u.announce \cup u.withdraw))
                      \cup (IF u.announce # {} THEN u.withdraw ELSE {})]
            PROVE  p \notin unread[k]
        <5>1. CASE u.port # k
          BY <1>1, <4>2, <5>1
        <5>2. CASE u.port = k
          <6>1. latest'[k][p] = IF p \in u.announce \cup u.withdraw THEN issued + 1 ELSE latest[k][p]
            BY <1>1, <4>2, <5>2
          <6>2. p \notin u.announce \cup u.withdraw
            BY <1>1, <2>1, <3>1, <6>1
          <6>3. unread'[k] = (unread[k] \ (u.announce \cup u.withdraw))
                               \cup (IF u.announce # {} THEN u.withdraw ELSE {})
            BY <1>1, <4>2, <5>2
          <6> QED BY <6>2, <6>3
        <5> QED BY <5>1, <5>2
      <4> QED BY <4>1, <4>2, ReceiverMoves
    <3>5. RouteUnderway(c, k, p)
      BY <3>2, <3>3, <3>4 DEF Underway
    <3> QED BY <1>2, <2>1, <3>2, <3>5, RouteStep
  <2>2. CASE latest'[k][p] # latest[k][p]
    <3>1. PICK u \in FromExaBGP :
            /\ Elems(receiver_queue') = Elems(receiver_queue) \cup {u}
            /\ u.state = "up"
            /\ latest' = [latest EXCEPT ![u.port] =
                  [q \in Prefixes |-> IF q \in u.announce \cup u.withdraw
                                      THEN issued + 1 ELSE @[q]]]
            /\ unread' = [unread EXCEPT ![u.port] = (@ \ (u.announce \cup u.withdraw))
                  \cup (IF u.announce # {} THEN u.withdraw ELSE {})]
            /\ u.n = issued + 1 /\ u.port \in Ports
      BY <2>2, ReceiverMoves
    <3>2. u.port = k
      BY <1>1, <2>2, <3>1
    <3>3. p \in u.announce \cup u.withdraw /\ latest'[k][p] = u.n
      BY <1>1, <2>2, <3>1, <3>2
    <3>4. p \in u.announce \/ u.announce = {}
      <4>1. unread'[k] = (unread[k] \ (u.announce \cup u.withdraw))
                           \cup (IF u.announce # {} THEN u.withdraw ELSE {})
        BY <1>1, <3>1, <3>2
      <4> QED BY <3>3, <4>1
    <3> QED BY <3>1, <3>2, <3>3, <3>4 DEF RouteUnderway, Brings
  <2> QED BY <2>1, <2>2
<1>3. ASSUME RegisteredBefore(c, k, wentDown[k])' PROVE DownUnderway(c, k)'
  <2>1. CASE wentDown'[k] = wentDown[k]
    <3>1. wentDown[k] \in Nat /\ wentDown[k] <= issued
      BY <1>1 DEF FailuresKnown
    <3>2. Hears(c, k) /\ RegisteredBefore(c, k, wentDown[k])
      BY <1>3, <2>1, <3>1, HearsStays DEF RegisteredBefore
    <3>3. sender # Dead
      BY <1>1, DeadStays
    <3>4. DownUnderway(c, k)
      BY <3>2, <3>3 DEF Underway
    <3> QED BY <2>1, <3>2, <3>4, DownStep
  <2>2. CASE wentDown'[k] # wentDown[k]
    <3>1. PICK u \in FromExaBGP :
            /\ Elems(receiver_queue') = Elems(receiver_queue) \cup {u}
            /\ u.state = "down" /\ wentDown' = [wentDown EXCEPT ![u.port] = issued + 1]
            /\ u.n = issued + 1 /\ u.port \in Ports
      BY <2>2, ReceiverMoves
    <3>2. u.port = k /\ wentDown'[k] = u.n
      BY <1>1, <2>2, <3>1
    <3> QED BY <3>1, <3>2 DEF DownUnderway
  <2> QED BY <2>1, <2>2
<1> QED BY <1>2, <1>3

LEMMA UnderwayInvariant ==
    PipelineSpec => [](LatestKnown /\ FailuresKnown /\ Launched /\ Underway)
<1>1. PipelineInit => LatestKnown /\ FailuresKnown /\ Launched /\ Underway
  <2> SUFFICES ASSUME PipelineInit PROVE LatestKnown /\ FailuresKnown /\ Launched /\ Underway
    OBVIOUS
  <2>1. /\ issued = 0 /\ latest = [k \in Ports |-> [p \in Prefixes |-> 0]]
        /\ wentDown = [k \in Ports |-> 0] /\ receiver_queue = <<>>
        /\ peer_queue = <<>> /\ sender.status # "sending"
        /\ \A c \in Conns : conn[c] = "new" /\ inbox[c] = <<>>
        /\ \A id \in Participants : swift[id] = NoThread /\ peer_queue_dict[id] = <<>>
    BY DEF PipelineInit, Init, Idle
  <2>2. \A r : ~Past(r)
    BY <2>1, EmptyFacts DEF Past, Passed, Waits, Kept, NoThread
  <2>3. Elems(receiver_queue) = {}
    BY <2>1, EmptyFacts
  <2>4. LatestKnown /\ FailuresKnown /\ Launched
    BY <2>1, <2>2, <2>3 DEF LatestKnown, FailuresKnown, Launched
  <2>5. Underway
    BY <2>1 DEF Underway, Hears
  <2> QED BY <2>4, <2>5
<1>2. Inv /\ PipelineTypeOK /\ NumbersAscend /\ DownsInOrder /\ ThreadOrder /\ PassedOrder
        /\ LatestKnown /\ FailuresKnown /\ Launched /\ Underway /\ [Next]_allVars
        => (LatestKnown /\ FailuresKnown /\ Launched /\ Underway)'
  <2> SUFFICES ASSUME Inv, PipelineTypeOK, NumbersAscend, DownsInOrder, ThreadOrder, PassedOrder,
                      LatestKnown, FailuresKnown, Launched, Underway, [Next]_allVars
               PROVE  LatestKnown' /\ FailuresKnown' /\ Launched' /\ Underway'
    OBVIOUS
  <2>1. LatestKnown'
    BY LatestStep
  <2>2. FailuresKnown'
    BY FailuresStep
  <2>3. Launched'
    BY LaunchedStep
  <2>4. Underway'
    BY UnderwayStep
  <2> QED BY <2>1, <2>2, <2>3, <2>4
<1> QED BY <1>1, <1>2, PipelineTypeCorrect, OrderInvariant, ThreadInvariant, PTL DEF PipelineSpec

\* When nothing is under way any more a controller knows the last update of every prefix
\* and the last failure of the session, of every port it hears, that came since both were
\* registered: nothing is lost on the way, whichever threads and controllers come and go,
\* as long as the SWIFT thread lives; what is lost before is exactly the withdrawals of
\* UPDATEs that also announce.
THEOREM ReadRoutesArrive == PipelineSpec => []ReadRoutesMultiplexed
<1>1. Inv /\ PipelineTypeOK /\ Launched /\ Underway => ReadRoutesMultiplexed
  <2> SUFFICES ASSUME Inv, PipelineTypeOK, Launched, Underway, Drained,
                      NEW c \in Conns, NEW k \in Ports, Hears(c, k), swift[OwnerOf[k]].status # "dead"
               PROVE  /\ \A p \in Prefixes \ unread[k] : RegisteredBefore(c, k, latest[k][p]) =>
                              LastUpdate(c, k, p) = latest[k][p]
                      /\ RegisteredBefore(c, k, wentDown[k]) =>
                              \E i \in DOMAIN inbox[c] : inbox[c][i] = DownOf(k, wentDown[k])
    BY DEF ReadRoutesMultiplexed
  <2> DEFINE id == OwnerOf[k]
             s == inbox[c]
  <2>1. /\ receiver_queue = <<>> /\ peer_queue = <<>> /\ sender = Idle /\ sender # Dead
        /\ swift[id].out = <<>> /\ peer_queue_dict[id] = <<>>
    <3>1. id \in Participants
      BY SessionAssumption
    <3>2. swift[id].status \in {"none", "running"}
      BY <3>1 DEF PipelineTypeOK, SwiftThreads
    <3> QED BY <3>1, <3>2, HandFacts DEF Drained, Launched
  <2>2. Hand(c) = <<>>
    BY <2>1 DEF Hand, Idle
  <2>3. s \in Seq(Messages) /\ DOMAIN s = 1..Len(s) /\ Len(s) \in Nat
    BY QueueFacts DEF PipelineTypeOK
  <2>4. ASSUME NEW p \in Prefixes \ unread[k], RegisteredBefore(c, k, latest[k][p])
        PROVE  LastUpdate(c, k, p) = latest[k][p]
    <3> DEFINE about == {i \in DOMAIN s : OnPrefix(s[i]) /\ s[i].port = k /\ s[i].prefix = p}
               last == CHOOSE i \in about : \A j \in about : j <= i
    <3>1. RouteUnderway(c, k, p)
      BY <2>1, <2>4 DEF Underway
    <3>2. PICK x : LastOnWay(c, id, k, p, x) /\ x.n = latest[k][p]
      BY <2>1, <3>1, EmptyFacts DEF RouteUnderway
    <3>3. Ends(s, k, p, x)
      BY <2>1, <2>2, <3>2, EmptyFacts DEF LastOnWay
    <3>4. PICK m \in DOMAIN s : s[m] = x /\ About(x, k, p) /\ \A j \in DOMAIN s : j > m => ~About(s[j], k, p)
      BY <3>3 DEF Ends
    <3>5. m \in about /\ \A j \in about : j <= m
      BY <2>3, <3>4 DEF About
    <3>6. last \in about /\ \A j \in about : j <= last
      BY <3>5
    <3>7. last = m
      <4>1. last \in Nat /\ m \in Nat /\ m <= last /\ last <= m
        BY <2>3, <3>5, <3>6
      <4> HIDE DEF last
      <4> QED BY <4>1
    <3>8. LastUpdate(c, k, p) = s[last].n
      BY <3>5 DEF LastUpdate
    <3> HIDE DEF last
    <3> QED BY <3>2, <3>4, <3>7, <3>8
  <2>5. ASSUME RegisteredBefore(c, k, wentDown[k])
        PROVE  \E i \in DOMAIN s : s[i] = DownOf(k, wentDown[k])
    <3>1. DownUnderway(c, k)
      BY <2>1, <2>5 DEF Underway
    <3>2. DownOf(k, wentDown[k]) \in Elems(s)
      BY <2>1, <2>2, <3>1, EmptyFacts DEF DownUnderway
    <3> QED BY <3>2 DEF Elems
  <2> QED BY <2>4, <2>5
<1> QED BY <1>1, PipelineTypeCorrect, UnderwayInvariant, PTL

=============================================================================
