------------------------- MODULE DataPlane_proofs -------------------------
(***************************************************************************)
(* Proofs that the reference monitor implements OrderedDelivery and that a *)
(* controller whose threads take turns loses no flow mod, for every set of *)
(* switches, flow mods and events.                                         *)
(***************************************************************************)
EXTENDS DataPlane, SequenceTheorems, TLAPS

\* What a concatenation begins with.
LEMMA ConcatPrefix ==
    ASSUME NEW S, NEW a \in Seq(S), NEW b \in Seq(S)
    PROVE  /\ a \o b \in Seq(S)
           /\ Len(a \o b) \in Nat /\ Len(a) \in Nat
           /\ Len(a \o b) >= Len(a)
           /\ SubSeq(a \o b, 1, Len(a)) = a
<1>1. /\ a \o b \in Seq(S) /\ Len(a) \in Nat /\ Len(b) \in Nat
      /\ Len(a \o b) = Len(a) + Len(b)
      /\ \A i \in 1..Len(a) + Len(b) : (a \o b)[i] = IF i <= Len(a) THEN a[i] ELSE b[i - Len(a)]
  BY ConcatProperties, LenProperties
<1>2. SubSeq(a \o b, 1, Len(a)) = a
  <2> DEFINE p == SubSeq(a \o b, 1, Len(a))
  <2>1. \A i \in 1..Len(a) : (a \o b)[i] = a[i] /\ a[i] \in S
    BY <1>1, ElementOfSeq
  <2>2. /\ p \in Seq(S) /\ Len(p) = Len(a)
        /\ \A i \in 1..Len(a) : p[i] = (a \o b)[i]
    BY <1>1, <2>1, SubSeqProperties
  <2> HIDE DEF p
  <2>3. p = a
    BY <2>1, <2>2, SeqEqual
  <2> QED BY <2>3 DEF p
<1> QED BY <1>1, <1>2

-----------------------------------------------------------------------------
(* The reference monitor *)

\* What the types say of queues, histories and hands.
LEMMA MonBasics ==
    ASSUME RTypeOK
    PROVE  /\ Len(inbox) \in Nat /\ DOMAIN inbox = 1..Len(inbox)
           /\ Len(fm_queue) \in Nat /\ DOMAIN fm_queue = 1..Len(fm_queue)
           /\ Len(arrived) \in Nat /\ DOMAIN arrived = 1..Len(arrived)
           /\ Len(sent) \in Nat /\ DOMAIN sent = 1..Len(sent)
           /\ \A i \in DOMAIN sent : sent[i].n \in Nat /\ sent[i].session \in Nat \cup {NoSession}
           /\ \A i \in DOMAIN arrived :
                arrived[i].dst \in Switches /\ arrived[i].kind \in {"insert", "remove"}
           /\ \A g \in Greenlets : /\ hand[g].n \in Nat /\ hand[g].barrier \in BOOLEAN
                                   /\ hand[g].session \in Nat \cup {NoSession}
                                   /\ (Busy(g) <=> hand[g].n # 0)
<1> DEFINE R == [n : Nat, session : Nat \cup {NoSession}, fenced : BOOLEAN]
<1>1. /\ \A r \in R : r.n \in Nat /\ r.session \in Nat \cup {NoSession}
      /\ \A m \in Mods : m.dst \in Switches /\ m.kind \in {"insert", "remove"}
  BY RefMonAssumption DEF RefMonAssumption
<1>2. sent \in Seq(R) /\ arrived \in Seq(Mods) /\ inbox \in Seq(Nat) /\ fm_queue \in Seq(Nat)
  BY DEF RTypeOK
<1>3. \A g \in Greenlets : /\ hand[g].n \in Nat /\ hand[g].barrier \in BOOLEAN
                           /\ hand[g].session \in Nat \cup {NoSession}
                           /\ (Busy(g) <=> hand[g].n # 0)
  BY DEF RTypeOK, Busy, Nothing
<1> HIDE DEF R
<1>4. /\ Len(sent) \in Nat /\ DOMAIN sent = 1..Len(sent) /\ \A i \in 1..Len(sent) : sent[i] \in R
      /\ Len(arrived) \in Nat /\ DOMAIN arrived = 1..Len(arrived)
      /\ \A i \in 1..Len(arrived) : arrived[i] \in Mods
      /\ Len(inbox) \in Nat /\ DOMAIN inbox = 1..Len(inbox)
      /\ Len(fm_queue) \in Nat /\ DOMAIN fm_queue = 1..Len(fm_queue)
  BY <1>2, LenProperties, ElementOfSeq
<1> QED BY <1>1, <1>3, <1>4

\* What was handed over is read off `sent`.
LEMMA HandedBasics ==
    ASSUME RTypeOK
    PROVE  /\ Handed \in Seq(Nat) /\ Len(Handed) = Len(sent) /\ DOMAIN Handed = DOMAIN sent
           /\ \A i \in DOMAIN sent : Handed[i] = sent[i].n
           /\ Delivery!Given = {sent[i].n : i \in DOMAIN sent}
<1>1. Handed \in Seq(Nat) /\ Len(Handed) = Len(sent) /\ DOMAIN Handed = DOMAIN sent
  BY MonBasics DEF Handed
<1> QED BY <1>1 DEF Handed, Delivery!Given

LEMMA MonInitInv == MonInit => RInv
<1> SUFFICES ASSUME MonInit PROVE RInv OBVIOUS
<1>1. RTypeOK
  BY EmptySeq DEF MonInit, RTypeOK, Nothing, Greenlets
<1>2. /\ \A g \in Greenlets : hand[g].n = 0 /\ ~Busy(g)
      /\ "app" \in Greenlets /\ "server" \in Greenlets
  BY DEF MonInit, Nothing, Busy, Greenlets
<1>3. Taken = 0 /\ Waiting = {} /\ UnderWay = {} /\ Delivery!Given = {}
  <2>1. Len(arrived) = 0 /\ Len(inbox) = 0 /\ DOMAIN fm_queue = {} /\ DOMAIN sent = {}
    BY DEF MonInit
  <2> QED BY <1>1, <1>2, <2>1, HandedBasics DEF Taken, Waiting, UnderWay
<1>4. QueuesInOrder
  BY <1>2 DEF MonInit, QueuesInOrder
<1>5. EachOnce
  BY <1>3 DEF EachOnce
<1>6. CatchesUp
  BY <1>2 DEF MonInit, CatchesUp
<1> QED BY <1>1, <1>4, <1>5, <1>6 DEF RInv

\* A message that arrives goes to the end of the server's queue.
LEMMA ArriveInv ==
    ASSUME RInv, NEW ms \in Seq(Mods), Arrive(ms)
    PROVE  RInv'
<1> DEFINE k == Len(arrived)
           nums == [i \in 1..Len(ms) |-> k + i]
<1>1. RTypeOK /\ QueuesInOrder /\ EachOnce /\ CatchesUp
  BY DEF RInv
<1>2. Len(ms) \in Nat /\ nums \in Seq(Nat) /\ Len(nums) = Len(ms)
      /\ \A i \in 1..Len(ms) : nums[i] = k + i
  BY <1>1, MonBasics, LenProperties
<1>3. /\ inbox' = inbox \o nums /\ arrived' = arrived \o ms
      /\ UNCHANGED <<always_ready, serving, fm_queue, datapaths, flushing, greeting,
                     switchVars, sendVars, wireVars>>
  BY DEF Arrive
<1> HIDE DEF nums
<1>4. /\ inbox' \in Seq(Nat) /\ Len(inbox') = Len(inbox) + Len(ms)
      /\ \A i \in 1..(Len(inbox) + Len(ms)) :
            inbox'[i] = IF i <= Len(inbox) THEN inbox[i] ELSE nums[i - Len(inbox)]
      /\ arrived' \in Seq(Mods) /\ Len(arrived') = k + Len(ms)
  <2>1. inbox \in Seq(Nat) /\ arrived \in Seq(Mods)
    BY <1>1 DEF RTypeOK
  <2>2. /\ inbox \o nums \in Seq(Nat) /\ Len(inbox \o nums) = Len(inbox) + Len(nums)
        /\ \A i \in 1..(Len(inbox) + Len(nums)) :
              (inbox \o nums)[i] = IF i <= Len(inbox) THEN inbox[i] ELSE nums[i - Len(inbox)]
    BY <1>2, <2>1, ConcatProperties
  <2>3. arrived \o ms \in Seq(Mods) /\ Len(arrived \o ms) = Len(arrived) + Len(ms)
    BY <2>1, ConcatProperties
  <2> QED BY <1>2, <1>3, <2>2, <2>3
<1>5. RTypeOK'
  BY <1>1, <1>3, <1>4 DEF RTypeOK, switchVars, sendVars, wireVars, Nothing
<1>6. /\ Taken' = Taken /\ Waiting' = Waiting /\ UnderWay' = UnderWay
      /\ (Delivery!Given)' = Delivery!Given /\ (Ready' <=> Ready)
      /\ \A g \in Greenlets : Busy(g)' <=> Busy(g)
  <2>1. Taken' = Taken
    BY <1>1, <1>2, <1>3, <1>4, MonBasics DEF Taken
  <2> QED BY <1>3, <2>1 DEF Waiting, UnderWay, Delivery!Given, Handed, Ready, Busy, switchVars,
             sendVars, wireVars, Nothing
<1>7. QueuesInOrder'
  <2>1. Taken = k - Len(inbox) /\ Len(inbox) \in Nat /\ k \in Nat /\ Len(inbox) <= k
    BY <1>1, MonBasics DEF Taken, QueuesInOrder
  <2>2. DOMAIN inbox' = 1..(Len(inbox) + Len(ms)) /\ Len(inbox') <= Len(arrived')
    BY <1>2, <1>4, <2>1, LenProperties
  <2>3. \A i \in DOMAIN inbox' : inbox'[i] = Taken + i
    <3> TAKE i \in DOMAIN inbox'
    <3>1. CASE i <= Len(inbox)
      <4>1. i \in 1..Len(inbox) /\ DOMAIN inbox = 1..Len(inbox)
        BY <1>1, <1>2, <2>1, <2>2, <3>1, MonBasics
      <4>2. inbox[i] = Taken + i
        BY <1>1, <4>1 DEF QueuesInOrder
      <4> QED BY <1>4, <2>2, <3>1, <4>2
    <3>2. CASE i > Len(inbox)
      <4>1. i - Len(inbox) \in 1..Len(ms)
        BY <1>2, <2>1, <2>2, <3>2
      <4>2. nums[i - Len(inbox)] = k + (i - Len(inbox))
        BY <1>2, <4>1
      <4>3. inbox'[i] = nums[i - Len(inbox)]
        BY <1>4, <2>1, <2>2, <3>2
      <4>4. i \in Int
        BY <1>2, <2>1, <2>2
      <4> HIDE DEF k
      <4> QED BY <2>1, <4>2, <4>3, <4>4
    <3> QED BY <1>2, <2>1, <2>2, <3>1, <3>2
  <2> QED BY <1>1, <1>3, <1>6, <2>2, <2>3 DEF QueuesInOrder, sendVars
<1>8. EachOnce' /\ CatchesUp'
  BY <1>1, <1>3, <1>6 DEF EachOnce, CatchesUp, Greenlets
<1> QED BY <1>5, <1>7, <1>8 DEF RInv

LEMMA StateChange ==
    ASSUME RTypeOK, events # <<>>
    PROVE  /\ Head(events).sw \in Switches /\ Head(events).id \in Nat
           /\ Tail(events) \in Seq([state : {"main", "dead"}, sw : Switches, id : Nat])
<1> DEFINE E == [state : {"main", "dead"}, sw : Switches, id : Nat]
<1>1. events \in Seq(E)
  BY DEF RTypeOK
<1>2. \A e \in E : e.sw \in Switches /\ e.id \in Nat
  OBVIOUS
<1> HIDE DEF E
<1>3. Head(events) \in E /\ Tail(events) \in Seq(E)
  BY <1>1, HeadTailProperties
<1> QED BY <1>2, <1>3 DEF E

\* Steps that leave the flow mods where they are.
LEMMA SameQueues ==
    ASSUME RInv, UNCHANGED <<arrived, inbox, fm_queue, hand, sent, serving>>
    PROVE  /\ (QueuesInOrder /\ EachOnce)'
           /\ \A g \in Greenlets : Busy(g)' <=> Busy(g)
<1>1. /\ Taken' = Taken /\ Waiting' = Waiting /\ UnderWay' = UnderWay
      /\ (Delivery!Given)' = Delivery!Given
      /\ \A g \in Greenlets : Busy(g)' <=> Busy(g)
  BY DEF Taken, Waiting, UnderWay, Delivery!Given, Handed, Busy, Nothing
<1> QED BY <1>1 DEF RInv, QueuesInOrder, EachOnce

LEMMA HandleMainInv == ASSUME RInv, HandleMain PROVE RInv'
<1>1. RTypeOK /\ CatchesUp /\ ~flushing /\ ~Busy("app") /\ events # <<>> /\ events' = Tail(events)
  BY DEF RInv, HandleMain, NextEvent
<1>2. /\ datapaths' = [datapaths EXCEPT ![Head(events).sw] = Head(events).id]
      /\ UNCHANGED <<always_ready, inbox, serving, fm_queue, arrived, conns, sessions,
                     hand, last_command, crossed, sent, barriers, misses>>
      /\ flushing' = Ready' /\ (~Ready' => greeting' = {}) /\ greeting' \subseteq Switches
  BY DEF HandleMain, sendVars, wireVars
<1>3. Ready' \in BOOLEAN
  BY DEF Ready, RTypeOK, RInv, HandleMain
<1>4. RTypeOK'
  <2>1. datapaths' \in [Switches -> Nat \cup {NoSession}]
    BY <1>1, <1>2, StateChange DEF RTypeOK
  <2>2. flushing' \in BOOLEAN
    BY <1>2, <1>3
  <2> QED BY <1>1, <1>2, <2>1, <2>2, StateChange DEF RTypeOK, Nothing
<1>5. (QueuesInOrder /\ EachOnce)' /\ \A g \in Greenlets : Busy(g)' <=> Busy(g)
  BY <1>2, SameQueues
<1>6. CatchesUp'
  BY <1>1, <1>2, <1>3, <1>5 DEF CatchesUp, Greenlets
<1> QED BY <1>4, <1>5, <1>6 DEF RInv

LEMMA InitFabricInv == ASSUME RInv, NEW s \in Switches, InitFabric(s) PROVE RInv'
<1>1. RTypeOK /\ CatchesUp
  BY DEF RInv
<1>2. /\ greeting' = greeting \ {s} /\ misses' = misses \cup {datapaths[s]}
      /\ UNCHANGED <<always_ready, inbox, serving, fm_queue, datapaths, flushing, arrived,
                     conns, events, sessions, hand, last_command, crossed, sent, barriers>>
  BY DEF InitFabric, switchVars, sendVars
<1>3. RTypeOK'
  BY <1>1, <1>2 DEF RTypeOK, Nothing
<1>4. (QueuesInOrder /\ EachOnce)' /\ \A g \in Greenlets : Busy(g)' <=> Busy(g)
  BY <1>2, SameQueues
<1>5. CatchesUp'
  BY <1>1, <1>2, <1>4 DEF CatchesUp, Greenlets, Ready
<1> QED BY <1>3, <1>4, <1>5 DEF RInv

LEMMA HandleDeadInv == ASSUME RInv, HandleDead PROVE RInv'
<1>1. RTypeOK /\ CatchesUp /\ ~flushing /\ ~Busy("app") /\ events # <<>> /\ events' = Tail(events)
  BY DEF RInv, HandleDead, NextEvent
<1>2. /\ datapaths' = [datapaths EXCEPT ![Head(events).sw] = NoSession]
      /\ UNCHANGED <<always_ready, inbox, serving, fm_queue, flushing, greeting, arrived, conns,
                     sessions, hand, last_command, crossed, sent, barriers, misses>>
  BY DEF HandleDead, sendVars, wireVars
<1>3. RTypeOK'
  <2>1. datapaths' \in [Switches -> Nat \cup {NoSession}]
    BY <1>1, <1>2, StateChange DEF RTypeOK
  <2> QED BY <1>1, <1>2, <2>1, StateChange DEF RTypeOK, Nothing
<1>4. (QueuesInOrder /\ EachOnce)' /\ \A g \in Greenlets : Busy(g)' <=> Busy(g)
  BY <1>2, SameQueues
<1>5. Ready' => always_ready
  BY <1>1, <1>2, StateChange DEF Ready, RTypeOK
<1>6. CatchesUp'
  BY <1>1, <1>2, <1>4, <1>5 DEF CatchesUp, Greenlets
<1> QED BY <1>3, <1>4, <1>6 DEF RInv

\* Taking a flow mod puts it into the greenlet's hand.
LEMMA TakeHands ==
    ASSUME RTypeOK, NEW g \in Greenlets, NEW n \in DOMAIN arrived, Take(g, n)
    PROVE  /\ hand'[g].n = n /\ hand'[g].session = datapaths[arrived[n].dst]
           /\ (hand'[g].barrier <=> last_command[arrived[n].dst] # arrived[n].kind)
           /\ \A f \in Greenlets \ {g} : hand'[f] = hand[f]
           /\ hand' \in [Greenlets -> [n : Nat, session : Nat \cup {NoSession}, barrier : BOOLEAN]]
           /\ last_command' \in [Switches -> {"none", "insert", "remove"}]
           /\ crossed' \subseteq Nat \cup {NoSession}
           /\ crossed \subseteq crossed'
           /\ n # 0
<1> DEFINE h == [n |-> n, session |-> datapaths[arrived[n].dst],
                 barrier |-> last_command[arrived[n].dst] # arrived[n].kind]
<1>1. n \in Nat /\ n # 0 /\ arrived[n].dst \in Switches /\ arrived[n].kind \in {"insert", "remove"}
  BY MonBasics
<1>2. datapaths[arrived[n].dst] \in Nat \cup {NoSession}
  BY <1>1 DEF RTypeOK
<1>3. /\ h \in [n : Nat, session : Nat \cup {NoSession}, barrier : BOOLEAN]
      /\ h.n = n /\ h.session = datapaths[arrived[n].dst]
      /\ (h.barrier <=> last_command[arrived[n].dst] # arrived[n].kind)
  BY <1>1, <1>2
<1>4. /\ hand' = [hand EXCEPT ![g] = h]
      /\ last_command' = [last_command EXCEPT ![arrived[n].dst] = arrived[n].kind]
      /\ crossed' \in {crossed, crossed \cup {datapaths[arrived[n].dst]}}
  BY DEF Take
<1> HIDE DEF h
<1>5. hand'[g] = h /\ \A f \in Greenlets \ {g} : hand'[f] = hand[f]
  BY <1>4 DEF RTypeOK
<1>6. hand' \in [Greenlets -> [n : Nat, session : Nat \cup {NoSession}, barrier : BOOLEAN]]
  BY <1>3, <1>4 DEF RTypeOK
<1>7. last_command' \in [Switches -> {"none", "insert", "remove"}]
  BY <1>1, <1>4 DEF RTypeOK
<1> QED BY <1>1, <1>2, <1>3, <1>4, <1>5, <1>6, <1>7 DEF RTypeOK

\* The first of a queue, and what is left of it.
LEMMA FirstOfQueue ==
    ASSUME NEW q \in Seq(Nat), q # <<>>
    PROVE  /\ Tail(q) \in Seq(Nat) /\ Len(Tail(q)) = Len(q) - 1 /\ Len(q) \in Nat \ {0}
           /\ Head(q) = q[1] /\ 1 \in DOMAIN q /\ DOMAIN q = 1..Len(q)
           /\ DOMAIN Tail(q) = 1..(Len(q) - 1)
           /\ \A i \in DOMAIN Tail(q) : i + 1 \in DOMAIN q /\ Tail(q)[i] = q[i + 1]
<1>1. /\ Tail(q) \in Seq(Nat) /\ Len(Tail(q)) = Len(q) - 1 /\ Len(q) \in Nat \ {0}
      /\ Head(q) = q[1] /\ \A i \in 1..Len(Tail(q)) : Tail(q)[i] = q[i + 1]
      /\ DOMAIN q = 1..Len(q)
  BY HeadTailProperties, EmptySeq, LenProperties
<1>2. DOMAIN Tail(q) = 1..(Len(q) - 1)
  BY <1>1, LenProperties
<1> QED BY <1>1, <1>2

LEMMA FlushInv == ASSUME RInv, Flush PROVE RInv'
<1>1. /\ RTypeOK /\ QueuesInOrder /\ EachOnce /\ CatchesUp
      /\ flushing /\ greeting = {} /\ ~Busy("app")
      /\ UNCHANGED <<always_ready, inbox, serving, datapaths, greeting, arrived, conns, events,
                     sessions, sent, barriers, misses>>
  BY DEF RInv, Flush, switchVars, wireVars
<1>2. (Ready' <=> Ready) /\ Ready /\ "app" \in Greenlets /\ "server" \in Greenlets
      /\ Taken' = Taken /\ (Delivery!Given)' = Delivery!Given
  BY <1>1 DEF Ready, CatchesUp, Greenlets, Taken, Delivery!Given, Handed
<1>3. CASE fm_queue # <<>>
  <2> DEFINE n == Head(fm_queue)
  <2>1. Take("app", n) /\ fm_queue' = Tail(fm_queue) /\ flushing' = flushing
    BY <1>3 DEF Flush
  <2>2. /\ Tail(fm_queue) \in Seq(Nat) /\ n = fm_queue[1] /\ 1 \in DOMAIN fm_queue
        /\ DOMAIN fm_queue = 1..Len(fm_queue) /\ Len(fm_queue) \in Nat
        /\ DOMAIN Tail(fm_queue) = 1..(Len(fm_queue) - 1)
        /\ \A i \in DOMAIN Tail(fm_queue) : i + 1 \in DOMAIN fm_queue /\ Tail(fm_queue)[i] = fm_queue[i + 1]
    BY <1>1, <1>3, FirstOfQueue DEF RTypeOK
  <2> HIDE DEF n
  <2>3. n \in 1..Taken /\ n \in Waiting /\ Taken \in 0..Len(arrived) /\ n \in DOMAIN arrived
    BY <1>1, <2>2, MonBasics DEF QueuesInOrder, Waiting, Taken
  <2>4. /\ hand'["app"].n = n /\ hand'["server"] = hand["server"] /\ n # 0
        /\ hand' \in [Greenlets -> [n : Nat, session : Nat \cup {NoSession}, barrier : BOOLEAN]]
        /\ last_command' \in [Switches -> {"none", "insert", "remove"}]
        /\ crossed' \subseteq Nat \cup {NoSession}
    <3>1. /\ hand'["app"].n = n /\ n # 0
          /\ \A f \in Greenlets \ {"app"} : hand'[f] = hand[f]
          /\ hand' \in [Greenlets -> [n : Nat, session : Nat \cup {NoSession}, barrier : BOOLEAN]]
          /\ last_command' \in [Switches -> {"none", "insert", "remove"}]
          /\ crossed' \subseteq Nat \cup {NoSession}
      BY <1>1, <1>2, <2>1, <2>3, TakeHands
    <3>2. "server" \in Greenlets \ {"app"}
      BY <1>2
    <3> QED BY <3>1, <3>2
  <2>5. RTypeOK'
    BY <1>1, <2>1, <2>2, <2>4 DEF RTypeOK, Nothing, Greenlets
  <2>6. Waiting' \subseteq Waiting /\ Waiting = Waiting' \cup {n} /\ \A m \in Waiting' : n < m
    <3>1. \A i \in DOMAIN fm_queue' : fm_queue'[i] = fm_queue[i + 1] /\ i + 1 \in DOMAIN fm_queue /\ 1 < i + 1
      BY <2>1, <2>2
    <3>2. \A i \in DOMAIN fm_queue : i # 1 => i - 1 \in DOMAIN fm_queue' /\ fm_queue'[i - 1] = fm_queue[i]
      BY <2>1, <2>2
    <3> QED BY <1>1, <2>2, <3>1, <3>2 DEF Waiting, QueuesInOrder
  <2>7. hand["app"].n = 0 /\ UnderWay' = UnderWay \cup {n}
    <3>1. hand["app"].n = 0
      BY <1>1, <1>2, MonBasics
    <3> QED BY <2>4, <3>1 DEF UnderWay, Greenlets
  <2>8. QueuesInOrder'
    <3>1. \A i \in DOMAIN fm_queue' : fm_queue'[i] \in 1..Taken
      BY <1>1, <2>1, <2>2 DEF QueuesInOrder
    <3>2. \A i, j \in DOMAIN fm_queue' : i < j => fm_queue'[i] < fm_queue'[j]
      BY <1>1, <2>1, <2>2 DEF QueuesInOrder
    <3>3. hand'["server"].n # 0 => hand'["server"].n = Taken /\ Taken \notin Waiting'
      BY <1>1, <2>4, <2>6 DEF QueuesInOrder
    <3>4. n # hand'["server"].n
      <4>1. hand["server"].n # 0 => hand["server"].n \notin Waiting
        BY <1>1 DEF QueuesInOrder
      <4> QED BY <2>3, <2>4, <4>1
    <3> QED BY <1>1, <1>2, <2>3, <2>4, <2>6, <3>1, <3>2, <3>3, <3>4 DEF QueuesInOrder
  <2>9. EachOnce'
    BY <1>1, <1>2, <2>6, <2>7 DEF EachOnce
  <2>10. CatchesUp'
    <3>1. ~always_ready
      BY <1>1, <1>3 DEF CatchesUp
    <3>2. Busy("server")' <=> Busy("server")
      BY <2>4 DEF Busy, Nothing
    <3> QED BY <1>1, <1>2, <2>1, <3>1, <3>2 DEF CatchesUp
  <2> QED BY <2>5, <2>8, <2>9, <2>10 DEF RInv
<1>4. CASE fm_queue = <<>>
  <2>1. flushing' = FALSE /\ UNCHANGED <<fm_queue, hand, last_command, crossed>>
    BY <1>4 DEF Flush, sendVars
  <2>2. RTypeOK'
    BY <1>1, <2>1 DEF RTypeOK, Nothing
  <2>3. (QueuesInOrder /\ EachOnce)' /\ \A g \in Greenlets : Busy(g)' <=> Busy(g)
    BY <1>1, <2>1, SameQueues
  <2>4. CatchesUp'
    BY <1>1, <1>2, <1>4, <2>1, <2>3 DEF CatchesUp
  <2> QED BY <2>2, <2>3, <2>4 DEF RInv
<1> QED BY <1>3, <1>4

LEMMA ProcessFlowModInv == ASSUME RInv, ProcessFlowMod PROVE RInv'
<1> DEFINE n == Head(inbox)
<1>1. /\ RTypeOK /\ QueuesInOrder /\ EachOnce /\ CatchesUp
      /\ serving /\ ~Busy("server") /\ inbox # <<>> /\ inbox' = Tail(inbox)
      /\ UNCHANGED <<always_ready, datapaths, flushing, greeting, arrived, conns, events,
                     sessions, sent, barriers, misses>>
  BY DEF RInv, ProcessFlowMod, switchVars, wireVars
<1>2. /\ Tail(inbox) \in Seq(Nat) /\ n = inbox[1] /\ 1 \in DOMAIN inbox
      /\ DOMAIN inbox = 1..Len(inbox) /\ Len(inbox) \in Nat \ {0} /\ Len(Tail(inbox)) = Len(inbox) - 1
      /\ DOMAIN Tail(inbox) = 1..(Len(inbox) - 1)
      /\ \A i \in DOMAIN Tail(inbox) : i + 1 \in DOMAIN inbox /\ Tail(inbox)[i] = inbox[i + 1]
  BY <1>1, FirstOfQueue DEF RTypeOK
<1> HIDE DEF n
<1>3. /\ Taken \in Nat /\ Taken' = Taken + 1 /\ n = Taken + 1 /\ n \in DOMAIN arrived
      /\ Len(inbox') <= Len(arrived')
  BY <1>1, <1>2, MonBasics DEF Taken, QueuesInOrder
<1>4. \A i \in DOMAIN inbox' : inbox'[i] = Taken' + i
  <2> TAKE i \in DOMAIN inbox'
  <2>1. inbox'[i] = inbox[i + 1] /\ i + 1 \in DOMAIN inbox /\ i \in Nat
    BY <1>1, <1>2
  <2> QED BY <1>1, <1>3, <2>1 DEF QueuesInOrder
<1>5. /\ (Ready' <=> Ready) /\ "app" \in Greenlets /\ "server" \in Greenlets
      /\ (Delivery!Given)' = Delivery!Given /\ hand["server"].n = 0
  BY <1>1, MonBasics DEF Ready, Greenlets, Delivery!Given, Handed
<1>6. CASE ~Ready
  <2>1. fm_queue' = Append(fm_queue, n) /\ UNCHANGED <<serving, hand, last_command, crossed>>
    BY <1>6 DEF ProcessFlowMod, sendVars, n
  <2>2. /\ fm_queue' \in Seq(Nat) /\ DOMAIN fm_queue' = 1..(Len(fm_queue) + 1)
        /\ fm_queue'[Len(fm_queue) + 1] = n /\ Len(fm_queue) \in Nat
        /\ DOMAIN fm_queue = 1..Len(fm_queue)
        /\ \A i \in DOMAIN fm_queue : fm_queue'[i] = fm_queue[i]
    <3>1. fm_queue \in Seq(Nat) /\ n \in Nat
      BY <1>1, <1>3 DEF RTypeOK
    <3> QED BY <2>1, <3>1, LenProperties, AppendProperties
  <2>3. RTypeOK'
    BY <1>1, <1>2, <2>1, <2>2 DEF RTypeOK, Nothing
  <2>4. Waiting' = Waiting \cup {n} /\ UnderWay' = UnderWay
        /\ \A g \in Greenlets : Busy(g)' <=> Busy(g)
    BY <2>1, <2>2 DEF Waiting, UnderWay, Busy, Nothing
  <2>5. ~flushing /\ ~Busy("app") /\ hand["app"].n = 0
    BY <1>1, <1>5, <1>6, MonBasics DEF CatchesUp
  <2>6. QueuesInOrder'
    <3>1. \A i \in DOMAIN fm_queue' : fm_queue'[i] \in 1..Taken'
      <4> SUFFICES ASSUME NEW i \in DOMAIN fm_queue'
                   PROVE  fm_queue'[i] \in 1..Taken'
        OBVIOUS
      <4>1. CASE i \in DOMAIN fm_queue
        <5>1. fm_queue'[i] = fm_queue[i]
          BY <2>2, <4>1
        <5>2. fm_queue[i] \in 1..Taken
          BY <1>1, <4>1 DEF QueuesInOrder
        <5> QED BY ONLY <1>3, <5>1, <5>2
      <4>2. CASE i = Len(fm_queue) + 1
        <5>1. fm_queue'[i] = Taken + 1
          BY <1>3, <2>2, <4>2
        <5> QED BY ONLY <1>3, <5>1
      <4> QED BY <2>2, <4>1, <4>2
    <3>2. \A i, j \in DOMAIN fm_queue' : i < j => fm_queue'[i] < fm_queue'[j]
      <4> SUFFICES ASSUME NEW i \in DOMAIN fm_queue', NEW j \in DOMAIN fm_queue', i < j
                   PROVE  fm_queue'[i] < fm_queue'[j]
        OBVIOUS
      <4>1. i \in DOMAIN fm_queue /\ fm_queue[i] \in 1..Taken
        BY <1>1, <2>2 DEF QueuesInOrder
      <4>2. CASE j \in DOMAIN fm_queue
        BY <1>1, <2>2, <4>1, <4>2 DEF QueuesInOrder
      <4>3. CASE j = Len(fm_queue) + 1
        BY <1>3, <2>2, <4>1, <4>3
      <4> QED BY <2>2, <4>2, <4>3
    <3> QED BY <1>3, <1>4, <1>5, <2>1, <2>5, <3>1, <3>2 DEF QueuesInOrder
  <2>7. EachOnce'
    BY <1>1, <1>3, <1>5, <2>1, <2>4, <2>5, <1>5 DEF EachOnce, UnderWay, Greenlets
  <2>8. CatchesUp'
    BY <1>1, <1>5, <1>6, <2>1, <2>4, <2>5 DEF CatchesUp, Ready
  <2> QED BY <2>3, <2>6, <2>7, <2>8 DEF RInv
<1>7. CASE Ready /\ datapaths[arrived[n].dst] # NoSession
  <2>1. Take("server", n) /\ UNCHANGED <<serving, fm_queue>>
    BY <1>7 DEF ProcessFlowMod, n
  <2>2. /\ hand'["server"].n = n /\ hand'["app"] = hand["app"] /\ n # 0
        /\ hand' \in [Greenlets -> [n : Nat, session : Nat \cup {NoSession}, barrier : BOOLEAN]]
        /\ last_command' \in [Switches -> {"none", "insert", "remove"}]
        /\ crossed' \subseteq Nat \cup {NoSession}
    <3>1. /\ hand'["server"].n = n /\ n # 0
          /\ \A f \in Greenlets \ {"server"} : hand'[f] = hand[f]
          /\ hand' \in [Greenlets -> [n : Nat, session : Nat \cup {NoSession}, barrier : BOOLEAN]]
          /\ last_command' \in [Switches -> {"none", "insert", "remove"}]
          /\ crossed' \subseteq Nat \cup {NoSession}
      BY <1>1, <1>3, <1>5, <2>1, TakeHands
    <3>2. "app" \in Greenlets \ {"server"}
      BY <1>5
    <3> QED BY <3>1, <3>2
  <2>3. RTypeOK'
    BY <1>1, <1>2, <2>1, <2>2 DEF RTypeOK, Nothing, Greenlets
  <2>4. Waiting' = Waiting /\ UnderWay' = UnderWay \cup {n} /\ (Busy("app")' <=> Busy("app"))
    BY <1>5, <2>1, <2>2 DEF Waiting, UnderWay, Greenlets, Busy, Nothing
  <2>5. \A m \in Waiting : m \in 1..Taken
    BY <1>1 DEF QueuesInOrder, Waiting
  <2>6. QueuesInOrder'
    <3>1. \A i \in DOMAIN fm_queue' : fm_queue'[i] \in 1..Taken'
      BY <1>1, <1>3, <2>1 DEF QueuesInOrder
    <3>2. hand'["app"].n # 0 => hand'["app"].n \in 1..Taken' /\ hand'["app"].n # n
                                /\ \A m \in Waiting' : hand'["app"].n < m
      BY <1>1, <1>3, <2>2, <2>4 DEF QueuesInOrder
    <3>3. Taken' = n /\ Taken' \notin Waiting'
      BY <1>3, <2>4, <2>5
    <3>4. \A i, j \in DOMAIN fm_queue' : i < j => fm_queue'[i] < fm_queue'[j]
      BY <1>1, <2>1 DEF QueuesInOrder
    <3> QED BY <1>3, <1>4, <2>2, <3>1, <3>2, <3>3, <3>4 DEF QueuesInOrder
  <2>7. EachOnce'
    <3>1. 1..Taken' = 1..Taken \cup {n} /\ n \notin 1..Taken
      BY <1>3
    <3>2. n \notin Delivery!Given
      BY <1>1, <3>1 DEF EachOnce
    <3> QED BY <1>1, <1>5, <2>1, <2>4, <2>5, <3>1, <3>2 DEF EachOnce
  <2>8. CatchesUp'
    BY <1>1, <1>5, <1>7, <2>1, <2>4 DEF CatchesUp
  <2> QED BY <2>3, <2>6, <2>7, <2>8 DEF RInv
<1>8. CASE Ready /\ datapaths[arrived[n].dst] = NoSession
  <2>1. serving' = FALSE /\ UNCHANGED <<fm_queue, hand, last_command, crossed>>
    BY <1>8 DEF ProcessFlowMod, sendVars, n
  <2>2. RTypeOK'
    BY <1>1, <1>2, <2>1 DEF RTypeOK, Nothing
  <2>3. Waiting' = Waiting /\ UnderWay' = UnderWay /\ \A g \in Greenlets : Busy(g)' <=> Busy(g)
    BY <2>1 DEF Waiting, UnderWay, Busy, Nothing
  <2>4. always_ready
    <3>1. arrived[n].dst \in Switches
      BY <1>1, <1>3, MonBasics
    <3> QED BY <1>8, <3>1 DEF Ready
  <2>5. QueuesInOrder'
    <3>1. \A i \in DOMAIN fm_queue' : fm_queue'[i] \in 1..Taken'
      BY <1>1, <1>3, <2>1 DEF QueuesInOrder
    <3> QED BY <1>1, <1>3, <1>4, <1>5, <2>1, <2>3, <3>1 DEF QueuesInOrder
  <2>6. EachOnce'
    <3>1. 1..Taken' = 1..Taken \cup {Taken'}
      BY <1>3
    <3> QED BY <1>1, <1>5, <2>1, <2>3, <3>1 DEF EachOnce
  <2>7. CatchesUp'
    BY <1>1, <1>5, <2>1, <2>3, <2>4 DEF CatchesUp
  <2> QED BY <2>2, <2>5, <2>6, <2>7 DEF RInv
<1> QED BY <1>6, <1>7, <1>8

LEMMA SendBarrierInv == ASSUME RInv, NEW g \in Greenlets, SendBarrier(g) PROVE RInv'
<1>1. RTypeOK /\ QueuesInOrder /\ EachOnce /\ CatchesUp /\ Busy(g)
  BY DEF RInv, SendBarrier
<1>2. /\ hand' = [hand EXCEPT ![g].barrier = FALSE] /\ barriers' = barriers \cup {hand[g].session}
      /\ UNCHANGED <<always_ready, inbox, serving, fm_queue, datapaths, flushing, greeting,
                     arrived, conns, events, sessions, last_command, crossed, sent, misses>>
  BY DEF SendBarrier, switchVars
<1>3. /\ \A f \in Greenlets : hand'[f].n = hand[f].n /\ hand'[f].session = hand[f].session
      /\ \A f \in Greenlets \ {g} : hand'[f] = hand[f]
      /\ hand' \in [Greenlets -> [n : Nat, session : Nat \cup {NoSession}, barrier : BOOLEAN]]
      /\ hand[g].n # 0
  BY <1>1, <1>2, MonBasics DEF RTypeOK
<1>4. RTypeOK'
  BY <1>1, <1>2, <1>3, MonBasics DEF RTypeOK, Nothing
<1>5. \A f \in Greenlets : Busy(f)' <=> Busy(f)
  <2>1. \A f \in Greenlets : Busy(f)' <=> hand'[f].n # 0
    BY <1>4 DEF RTypeOK, Busy, Nothing
  <2> QED BY <1>1, <1>3, <2>1, MonBasics
<1>6. Taken' = Taken /\ Waiting' = Waiting /\ UnderWay' = UnderWay
      /\ (Delivery!Given)' = Delivery!Given /\ (Ready' <=> Ready)
      /\ "app" \in Greenlets /\ "server" \in Greenlets
  BY <1>2, <1>3 DEF Taken, Waiting, UnderWay, Delivery!Given, Handed, Ready, Greenlets
<1>7. QueuesInOrder'
  BY <1>1, <1>2, <1>3, <1>6 DEF QueuesInOrder
<1>8. EachOnce' /\ CatchesUp'
  BY <1>1, <1>2, <1>5, <1>6 DEF EachOnce, CatchesUp
<1> QED BY <1>4, <1>7, <1>8 DEF RInv

\* A flow mod goes from the greenlet's hand to those handed over.
LEMMA SendModHands ==
    ASSUME RTypeOK, QueuesInOrder, NEW g \in Greenlets, SendMod(g)
    PROVE  /\ hand'[g] = Nothing /\ \A f \in Greenlets \ {g} : hand'[f] = hand[f]
           /\ Handed' = Append(Handed, hand[g].n)
           /\ (Delivery!Given)' = Delivery!Given \cup {hand[g].n}
           /\ UnderWay' = UnderWay \ {hand[g].n}
           /\ hand[g].n \in UnderWay /\ hand[g].n \in 1..Taken /\ hand[g].n \notin Waiting
           /\ DOMAIN sent' = 1..(Len(sent) + 1) /\ Len(sent') = Len(sent) + 1
           /\ \A i \in DOMAIN sent : sent'[i] = sent[i]
           /\ sent'[Len(sent) + 1].n = hand[g].n /\ sent'[Len(sent) + 1].session = hand[g].session
           /\ (sent'[Len(sent) + 1].fenced <=> hand[g].session \in barriers)
           /\ RTypeOK'
<1> DEFINE r == [n |-> hand[g].n, session |-> hand[g].session, fenced |-> hand[g].session \in barriers]
           R == [n : Nat, session : Nat \cup {NoSession}, fenced : BOOLEAN]
<1>1. /\ Busy(g) /\ hand' = [hand EXCEPT ![g] = Nothing] /\ sent' = Append(sent, r)
      /\ barriers' = barriers \ {hand[g].session}
      /\ UNCHANGED <<always_ready, inbox, serving, fm_queue, datapaths, flushing, greeting,
                     arrived, conns, events, sessions, last_command, crossed, misses>>
  BY DEF SendMod, switchVars
<1>2. hand[g].n \in Nat \ {0} /\ hand[g].session \in Nat \cup {NoSession}
  BY <1>1, MonBasics
<1>3. r \in R /\ r.n = hand[g].n /\ r.session = hand[g].session
      /\ (r.fenced <=> hand[g].session \in barriers)
  <2>1. r \in R
    BY <1>2
  <2>2. r.n = hand[g].n /\ r.session = hand[g].session
    OBVIOUS
  <2>3. r.fenced = (hand[g].session \in barriers)
    OBVIOUS
  <2> QED BY <2>1, <2>2, <2>3
<1>4. sent \in Seq(R) /\ Len(sent) \in Nat /\ DOMAIN sent = 1..Len(sent)
  BY MonBasics DEF RTypeOK
<1>5. hand'[g] = Nothing /\ \A f \in Greenlets \ {g} : hand'[f] = hand[f]
  BY <1>1 DEF RTypeOK
<1>6. hand[g].n \in 1..Taken /\ hand[g].n \notin Waiting
      /\ \A f \in Greenlets \ {g} : hand[f].n # hand[g].n
  <2>1. Taken \in Nat
    BY MonBasics DEF Taken, QueuesInOrder
  <2>2. CASE g = "app"
    <3>1. \A n \in Waiting : hand[g].n < n /\ n \in Nat
      BY <1>2, <2>1, <2>2 DEF QueuesInOrder, Waiting
    <3> QED BY <1>2, <2>2, <3>1 DEF QueuesInOrder, Greenlets
  <2>3. CASE g = "server"
    <3>1. hand[g].n = Taken /\ Taken \notin Waiting
      BY <1>2, <2>3 DEF QueuesInOrder
    <3> QED BY <1>2, <2>1, <2>3, <3>1 DEF QueuesInOrder, Greenlets
  <2> QED BY <2>2, <2>3 DEF Greenlets
<1>7. UnderWay' = UnderWay \ {hand[g].n} /\ hand[g].n \in UnderWay
  BY <1>2, <1>5, <1>6 DEF UnderWay, Nothing
<1>8. /\ sent' \in Seq(R) /\ Len(sent') = Len(sent) + 1 /\ DOMAIN sent' = 1..(Len(sent) + 1)
      /\ \A i \in DOMAIN sent : sent'[i] = sent[i]
      /\ sent'[Len(sent) + 1] = r
  <2> HIDE DEF r, R
  <2> QED BY <1>1, <1>3, <1>4, AppendProperties, LenProperties
<1>9. RTypeOK'
  BY <1>1, <1>5, <1>8 DEF RTypeOK, Nothing
<1> HIDE DEF r, R
<1>10. /\ Handed \in Seq(Nat) /\ Len(Handed) = Len(sent) /\ \A i \in DOMAIN sent : Handed[i] = sent[i].n
       /\ Delivery!Given = {sent[i].n : i \in DOMAIN sent}
       /\ Handed' \in Seq(Nat) /\ Len(Handed') = Len(sent) + 1
       /\ \A i \in DOMAIN sent' : Handed'[i] = sent'[i].n
       /\ (Delivery!Given)' = {sent'[i].n : i \in DOMAIN sent'}
  <2>1. /\ Handed \in Seq(Nat) /\ Len(Handed) = Len(sent) /\ \A i \in DOMAIN sent : Handed[i] = sent[i].n
        /\ Delivery!Given = {sent[i].n : i \in DOMAIN sent}
    BY HandedBasics
  <2>2. \A i \in 1..Len(sent') : sent'[i] \in R
    BY <1>8, ElementOfSeq
  <2>3. \A i \in 1..(Len(sent) + 1) : sent'[i].n \in Nat
    BY <1>8, <2>2 DEF R
  <2>4. Handed' = [i \in 1..(Len(sent) + 1) |-> sent'[i].n]
    BY <1>8 DEF Handed
  <2>5. /\ Handed' \in Seq(Nat) /\ Len(Handed') = Len(sent) + 1
        /\ DOMAIN Handed' = DOMAIN sent' /\ \A i \in DOMAIN sent' : Handed'[i] = sent'[i].n
    BY <1>4, <1>8, <2>3, <2>4
  <2>6. (Delivery!Given)' = {Handed'[i] : i \in DOMAIN Handed'}
    BY DEF Delivery!Given
  <2> QED BY <2>1, <2>5, <2>6
<1>11. Handed' = Append(Handed, hand[g].n)
  <2>1. /\ Append(Handed, hand[g].n) \in Seq(Nat) /\ Len(Append(Handed, hand[g].n)) = Len(sent) + 1
        /\ \A i \in DOMAIN sent : Append(Handed, hand[g].n)[i] = Handed[i]
        /\ Append(Handed, hand[g].n)[Len(sent) + 1] = hand[g].n
    BY <1>2, <1>4, <1>10, AppendProperties
  <2>2. \A i \in 1..(Len(sent) + 1) : Handed'[i] = Append(Handed, hand[g].n)[i]
    <3> TAKE i \in 1..(Len(sent) + 1)
    <3>1. CASE i \in DOMAIN sent
      BY <1>4, <1>8, <1>10, <2>1, <3>1
    <3>2. CASE i = Len(sent) + 1
      BY <1>3, <1>4, <1>8, <1>10, <2>1, <3>2
    <3>3. i \in DOMAIN sent \/ i = Len(sent) + 1
      <4>1. Len(sent) \in Nat /\ DOMAIN sent = 1..Len(sent)
        BY <1>4
      <4> QED BY <4>1
    <3> QED BY <3>1, <3>2, <3>3
  <2> QED BY <1>10, <2>1, <2>2, SeqEqual
<1>12. (Delivery!Given)' = Delivery!Given \cup {hand[g].n}
  <2>1. /\ \A i \in DOMAIN sent : sent'[i].n = sent[i].n /\ i \in DOMAIN sent'
        /\ Len(sent) + 1 \in DOMAIN sent' /\ sent'[Len(sent) + 1].n = hand[g].n
        /\ \A i \in DOMAIN sent' : i \in DOMAIN sent \/ i = Len(sent) + 1
    BY <1>3, <1>4, <1>8
  <2>2. {sent'[i].n : i \in DOMAIN sent'} = {sent[i].n : i \in DOMAIN sent} \cup {hand[g].n}
    BY <2>1
  <2> QED BY <1>10, <2>2
<1> QED BY <1>3, <1>5, <1>6, <1>7, <1>8, <1>9, <1>11, <1>12

LEMMA SendModInv == ASSUME RInv, NEW g \in Greenlets, SendMod(g) PROVE RInv'
<1>1. RTypeOK /\ QueuesInOrder /\ EachOnce /\ CatchesUp
  BY DEF RInv
<1>2. UNCHANGED <<always_ready, inbox, serving, fm_queue, datapaths, flushing, greeting,
                  arrived, conns, events, sessions, last_command, crossed, misses>>
  BY DEF SendMod, switchVars
<1>3. /\ hand'[g] = Nothing /\ \A f \in Greenlets \ {g} : hand'[f] = hand[f]
      /\ (Delivery!Given)' = Delivery!Given \cup {hand[g].n}
      /\ UnderWay' = UnderWay \ {hand[g].n}
      /\ hand[g].n \in UnderWay /\ hand[g].n \in 1..Taken /\ hand[g].n \notin Waiting
      /\ RTypeOK'
  BY <1>1, SendModHands
<1>4. Taken' = Taken /\ Waiting' = Waiting /\ (Ready' <=> Ready)
      /\ (\A f \in Greenlets : Busy(f)' => Busy(f))
      /\ "app" \in Greenlets /\ "server" \in Greenlets
  BY <1>2, <1>3 DEF Taken, Waiting, Ready, Busy, Nothing, Greenlets
<1>5. QueuesInOrder'
  <2>1. \A f \in Greenlets : hand'[f].n # 0 => hand'[f] = hand[f]
    BY <1>3 DEF Nothing
  <2>2. hand'["server"].n # 0 => hand'["server"].n = Taken /\ Taken \notin Waiting
    BY <1>1, <1>4, <2>1 DEF QueuesInOrder
  <2>3. hand'["app"].n # 0 => /\ hand'["app"].n \in 1..Taken /\ hand'["app"].n # hand'["server"].n
                              /\ \A n \in Waiting : hand'["app"].n < n
    BY <1>1, <1>4, <2>1 DEF QueuesInOrder
  <2> QED BY <1>1, <1>2, <1>4, <2>2, <2>3 DEF QueuesInOrder
<1>6. EachOnce' /\ CatchesUp'
  <2>1. EachOnce'
    BY <1>1, <1>2, <1>3, <1>4 DEF EachOnce
  <2>2. CatchesUp'
    BY <1>1, <1>2, <1>4 DEF CatchesUp
  <2> QED BY <2>1, <2>2
<1> QED BY <1>3, <1>5, <1>6 DEF RInv

LEMMA SwitchStepInv == ASSUME RInv, SwitchStep PROVE RInv'
<1>1. UNCHANGED <<always_ready, inbox, serving, fm_queue, datapaths, flushing, greeting,
                  arrived, hand, last_command, crossed, sent, barriers, misses>>
  BY DEF SwitchStep, SwitchUp, SwitchDown, sendVars, wireVars
<1>2. RTypeOK'
  <2>0. RTypeOK
    BY DEF RInv
  <2>1. ASSUME NEW s \in Switches, SwitchUp(s) PROVE RTypeOK'
    BY <1>1, <2>0, <2>1 DEF RTypeOK, SwitchUp, Nothing
  <2>2. ASSUME NEW c \in conns, SwitchDown(c) PROVE RTypeOK'
    BY <1>1, <2>0, <2>2 DEF RTypeOK, SwitchDown, Nothing
  <2> QED BY <2>1, <2>2 DEF SwitchStep
<1>3. (QueuesInOrder /\ EachOnce)' /\ \A g \in Greenlets : Busy(g)' <=> Busy(g)
  BY <1>1, SameQueues
<1>4. CatchesUp'
  BY <1>1, <1>3 DEF RInv, CatchesUp, Ready, Greenlets
<1> QED BY <1>2, <1>3, <1>4 DEF RInv

LEMMA MonInductive == RInv /\ [RNext]_rvars => RInv'
<1> SUFFICES ASSUME RInv, [RNext]_rvars PROVE RInv' OBVIOUS
<1>1. CASE HandleMain BY <1>1, HandleMainInv
<1>2. CASE Flush BY <1>2, FlushInv
<1>3. CASE HandleDead BY <1>3, HandleDeadInv
<1>4. ASSUME NEW s \in Switches, InitFabric(s) PROVE RInv'
  BY <1>4, InitFabricInv
<1>5. CASE ProcessFlowMod BY <1>5, ProcessFlowModInv
<1>6. ASSUME NEW g \in Greenlets, SendBarrier(g) \/ SendMod(g) PROVE RInv'
  BY <1>6, SendBarrierInv, SendModInv
<1>7. CASE SwitchStep BY <1>7, SwitchStepInv
<1>8. ASSUME NEW ms \in Seq(Mods), Arrive(ms) PROVE RInv'
  BY <1>8, ArriveInv
<1>9. CASE UNCHANGED rvars
  <2>1. UNCHANGED <<arrived, inbox, fm_queue, hand, sent, serving>>
    BY <1>9 DEF rvars, sendVars, wireVars
  <2>2. (QueuesInOrder /\ EachOnce)' /\ \A g \in Greenlets : Busy(g)' <=> Busy(g)
    BY <2>1, SameQueues
  <2>3. RTypeOK'
    BY <1>9 DEF RInv, RTypeOK, rvars, sendVars, wireVars, switchVars, Nothing
  <2>4. CatchesUp'
    BY <1>9, <2>2 DEF RInv, CatchesUp, Ready, Greenlets, rvars
  <2> QED BY <2>2, <2>3, <2>4 DEF RInv
<1> QED BY <1>1, <1>2, <1>3, <1>4, <1>5, <1>6, <1>7, <1>8, <1>9 DEF RNext, MonStep, AppStep

(***************************************************************************)
(* Whatever switches come and go, and however the two greenlets alternate, *)
(* each flow mod that was taken from the server's queue is in one place:   *)
(* handed over, in fm_queue or being sent, or lost with the server's       *)
(* greenlet; what the server sends is newer than what waits, and nothing   *)
(* waits while all switches are there but for what is being caught up on.  *)
(***************************************************************************)
THEOREM MonitorInvariant == RSpec => []RInv
BY MonInitInv, MonInductive, PTL DEF RSpec

\* Sending is the abstract step of handing over the oldest one, or a newer one while
\* the monitor catches up.
LEMMA SendDelivers ==
    ASSUME RInv, NEW g \in Greenlets, SendMod(g)
    PROVE  Delivery!InTurn \/ Delivery!Ahead
<1> DEFINE n == hand[g].n
<1>1. RTypeOK /\ QueuesInOrder /\ EachOnce /\ CatchesUp /\ Busy(g) /\ UNCHANGED <<arrived, flushing>>
  BY DEF RInv, SendMod
<1>2. Handed' = Append(Handed, n) /\ n \in 1..Taken /\ n \notin Waiting /\ n \in UnderWay /\ n # 0
  BY <1>1, SendModHands, MonBasics
<1>3. Taken \in Nat /\ Len(arrived) \in Nat /\ Taken <= Len(arrived)
  BY <1>1, MonBasics DEF QueuesInOrder, Taken
<1> HIDE DEF n
<1>4. n \in Delivery!Left
  BY <1>1, <1>2, <1>3 DEF EachOnce, Delivery!Left
<1>5. CASE g = "server" /\ flushing
  <2>1. n = Taken
    BY <1>1, <1>2, <1>5 DEF QueuesInOrder, n
  <2>2. \A m \in Delivery!Given : m < n
    BY <1>1, <1>2, <1>3, <1>4, <2>1 DEF EachOnce, Delivery!Left
  <2> QED BY <1>1, <1>2, <1>4, <1>5, <2>2 DEF Delivery!Ahead
<1>6. CASE g = "app" \/ ~flushing
  <2>1. \A m \in Waiting : n <= m
    <3>1. CASE g = "app"
      <4>1. /\ \A m \in Waiting : n < m
            /\ \A m \in Waiting : m \in 1..Taken
        BY <1>1, <1>2, <3>1 DEF QueuesInOrder, Waiting, n
      <4> QED BY <1>2, <1>3, <4>1
    <3>2. CASE g = "server" /\ ~flushing
      <4>1. fm_queue = <<>>
        BY <1>1, <3>2 DEF CatchesUp
      <4> QED BY <4>1 DEF Waiting
    <3> QED BY <1>6, <3>1, <3>2 DEF Greenlets
  <2>2. \A m \in UnderWay : n <= m
    <3>1. CASE g = "app"
      <4>1. \A f \in Greenlets : hand[f].n # 0 => hand[f].n = n \/ hand[f].n = Taken
        BY <1>1, <3>1 DEF QueuesInOrder, Greenlets, n
      <4> QED BY <1>2, <1>3, <4>1 DEF UnderWay
    <3>2. CASE g = "server" /\ ~flushing
      <4>1. \A f \in Greenlets : hand[f].n # 0 => f = "server"
        <5>1. ~Busy("app") /\ "app" \in Greenlets
          BY <1>1, <3>2 DEF CatchesUp, Greenlets
        <5>2. hand["app"].n = 0
          BY <1>1, <5>1, MonBasics
        <5> QED BY <5>2 DEF Greenlets
      <4>2. UnderWay \subseteq {n}
        BY <3>2, <4>1 DEF UnderWay, n
      <4> QED BY <1>2, <1>3, <4>2
    <3> QED BY <1>6, <3>1, <3>2 DEF Greenlets
  <2>3. \A m \in Delivery!Left : n <= m
    <3> TAKE m \in Delivery!Left
    <3>1. m \in 1..Len(arrived) /\ m \notin Delivery!Given
      BY DEF Delivery!Left
    <3>2. CASE m > Taken
      BY <1>2, <1>3, <3>1, <3>2
    <3>3. CASE m <= Taken
      <4>1. m \in 1..Taken
        BY <1>3, <3>1, <3>3
      <4>2. m \in Waiting \cup UnderWay \cup {Taken}
        BY <1>1, <3>1, <4>1 DEF EachOnce
      <4> QED BY <1>2, <1>3, <2>1, <2>2, <4>1, <4>2
    <3> QED BY <1>3, <3>1, <3>2, <3>3
  <2> QED BY <1>1, <1>2, <1>4, <2>3 DEF Delivery!InTurn
<1> QED BY <1>5, <1>6 DEF Greenlets

(***************************************************************************)
(* The reference monitor implements OrderedDelivery: whatever switches     *)
(* come and go, and wherever the greenlets yield, flow mods leave it in    *)
(* the order they arrived, each once, but for newer ones that go ahead     *)
(* while it catches up with fm_queue.                                      *)
(***************************************************************************)
THEOREM MonitorDelivers == RSpec => DeliversInOrder
<1> DEFINE av == <<arrived, Handed, flushing>>
<1>1. MonInit => Delivery!Init
  BY DEF MonInit, Delivery!Init, Handed
<1>2. RInv /\ [RNext]_rvars => [Delivery!Next]_av
  <2> SUFFICES ASSUME RInv, [RNext]_rvars
               PROVE  [Delivery!Next]_av
    OBVIOUS
  <2>1. ASSUME NEW g \in Greenlets, SendMod(g) PROVE Delivery!Next
    BY <2>1, SendDelivers DEF Delivery!Next
  <2>2. ASSUME NEW ms \in Seq(Mods), Arrive(ms) PROVE Delivery!Ask
    <3>1. arrived \in Seq(Mods) /\ arrived' = arrived \o ms /\ UNCHANGED <<Handed, flushing>>
      BY <2>2 DEF RInv, RTypeOK, Arrive, wireVars, Handed
    <3> QED BY <3>1, ConcatPrefix DEF Delivery!Ask
  <2>3. CASE HandleMain \/ Flush
    <3>1. flushing \in BOOLEAN /\ flushing' \in BOOLEAN
      <4>1. Ready' \in BOOLEAN
        BY DEF Ready, RInv, RTypeOK, HandleMain
      <4> QED BY <2>3 DEF RInv, RTypeOK, HandleMain, Flush, Ready
    <3>2. UNCHANGED <<arrived, Handed>>
      BY <2>3 DEF HandleMain, Flush, wireVars, Handed
    <3> QED BY <3>1, <3>2 DEF Delivery!Next, Delivery!CatchUp
  <2>4. ASSUME \/ HandleDead \/ ProcessFlowMod \/ SwitchStep \/ UNCHANGED rvars
               \/ \E s \in Switches : InitFabric(s)
               \/ \E g \in Greenlets : SendBarrier(g)
        PROVE  UNCHANGED av
    BY <2>4 DEF HandleDead, ProcessFlowMod, SwitchStep, SwitchUp, SwitchDown, rvars, wireVars,
         InitFabric, SendBarrier, Handed
  <2> QED BY <2>1, <2>2, <2>3, <2>4 DEF RNext, MonStep, AppStep, Delivery!Next
<1> QED BY <1>1, <1>2, MonitorInvariant, PTL DEF RSpec, DeliversInOrder, Delivery!Spec

-----------------------------------------------------------------------------
(* Fences and sessions *)

MainEvents == {i \in DOMAIN events : events[i].state = "main"}
DeadEvent(s, n) == [state |-> "dead", sw |-> s, id |-> n]

\* Sessions are numbered as they are made, and ryu reports them in that order: one
\* that is still to be reported is younger than those in use, and no two switches share
\* one.
IdsAscend ==
    /\ \A c \in conns : c.id <= sessions
    /\ \A i \in MainEvents : events[i].id <= sessions
    /\ \A i, j \in MainEvents : i < j => events[i].id < events[j].id
    /\ \A s \in Switches : datapaths[s] # NoSession =>
        /\ datapaths[s] <= sessions
        /\ \A i \in MainEvents : datapaths[s] < events[i].id
    /\ \A s, t \in Switches : datapaths[s] = datapaths[t] /\ datapaths[s] # NoSession => s = t

\* The sessions flow mods were put on or are about to be, each with its switch: they
\* are older than those still to be reported, too.
Target(n) == arrived[n].dst
Kind(n) == arrived[n].kind
Used == {<<sent[i].session, Target(sent[i].n)>> : i \in DOMAIN sent}
            \cup {<<hand[g].session, Target(hand[g].n)>> : g \in {f \in Greenlets : Busy(f)}}

UsedIds ==
    \A u \in Used :
        /\ u[1] \in Nat /\ u[1] <= sessions
        /\ \A j \in MainEvents : u[1] < events[j].id
        /\ \A s \in Switches : datapaths[s] = u[1] => u[2] = s

\* last_command is the kind of the flow mod that was last taken for the session in use.
\* One of the other kind sent there before has a fence behind it, or the one that is
\* taken comes with a fence.
FencedAfter(i) == \E k \in (i + 1)..Len(sent) : sent[k].session = sent[i].session /\ sent[k].fenced

OnlyCrossing ==
    \A f, g \in Greenlets :
        f # g /\ Busy(f) /\ Busy(g) /\ hand[f].session = hand[g].session => hand[g].session \in crossed

LastTaken ==
    \A g \in Greenlets :
        /\ Busy(g) /\ hand[g].session \notin crossed
        /\ datapaths[Target(hand[g].n)] = hand[g].session
        => last_command[Target(hand[g].n)] = Kind(hand[g].n)

FenceComes ==
    \A i \in DOMAIN sent, g \in Greenlets :
        /\ sent[i].session \notin crossed
        /\ Busy(g) /\ hand[g].session = sent[i].session /\ Kind(hand[g].n) # Kind(sent[i].n)
        => hand[g].barrier \/ sent[i].session \in barriers \/ FencedAfter(i)

LastKnown ==
    \A i \in DOMAIN sent :
        /\ sent[i].session \notin crossed
        /\ \A g \in Greenlets : Busy(g) => hand[g].session # sent[i].session
        /\ datapaths[Target(sent[i].n)] = sent[i].session
        /\ last_command[Target(sent[i].n)] # Kind(sent[i].n)
        => FencedAfter(i)

Fences == OnlyCrossing /\ LastTaken /\ FenceComes /\ LastKnown

\* What ryu still has to report: a connection that is not reported yet, or the end
\* of the one that is in use or about to be.
Unreported(c) == \E i \in MainEvents : events[i].sw = c.sw /\ events[i].id = c.id
ReportsDue ==
    /\ \A c \in conns : Unreported(c) \/
         /\ \A i \in MainEvents : c.id < events[i].id
         /\ datapaths[c.sw] # NoSession => c.id <= datapaths[c.sw]
    /\ \A i \in MainEvents :
        \/ [sw |-> events[i].sw, id |-> events[i].id] \in conns
        \/ \E j \in DOMAIN events : j > i /\ events[j] = DeadEvent(events[i].sw, events[i].id)
    /\ \A s \in Switches : datapaths[s] # NoSession =>
        \/ [sw |-> s, id |-> datapaths[s]] \in conns
        \/ \E j \in DOMAIN events : events[j] = DeadEvent(s, datapaths[s])

SessionInv == IdsAscend /\ UsedIds /\ Fences /\ CommandsAreFenced /\ ReportsDue

\* The records of events and connections, by their fields.
LEMMA RecordTypes ==
    ASSUME RTypeOK
    PROVE  /\ Len(events) \in Nat /\ DOMAIN events = 1..Len(events)
           /\ \A i \in DOMAIN events :
                /\ events[i].state \in {"main", "dead"}
                /\ events[i].sw \in Switches /\ events[i].id \in Nat
           /\ \A c \in conns : /\ c.sw \in Switches /\ c.id \in Nat
                               /\ c = [sw |-> c.sw, id |-> c.id]
           /\ sessions \in Nat
           /\ \A s \in Switches : datapaths[s] # NoSession => datapaths[s] \in Nat
<1> DEFINE E == [state : {"main", "dead"}, sw : Switches, id : Nat]
<1>1. events \in Seq(E) /\ \A e \in E : e.state \in {"main", "dead"} /\ e.sw \in Switches /\ e.id \in Nat
  BY DEF RTypeOK
<1>2. \A c \in conns : c.sw \in Switches /\ c.id \in Nat /\ c = [sw |-> c.sw, id |-> c.id]
  BY DEF RTypeOK
<1> HIDE DEF E
<1>3. /\ Len(events) \in Nat /\ DOMAIN events = 1..Len(events)
      /\ \A i \in 1..Len(events) : events[i] \in E
  BY <1>1, LenProperties, ElementOfSeq
<1> QED BY <1>1, <1>2, <1>3 DEF RTypeOK

\* The flow mods that are sent or about to be are among those that arrived.
LEMMA TakenArrived ==
    ASSUME RInv
    PROVE  /\ \A i \in DOMAIN sent : sent[i].n \in DOMAIN arrived
           /\ \A g \in Greenlets : Busy(g) => hand[g].n \in DOMAIN arrived
<1>1. RTypeOK /\ QueuesInOrder /\ EachOnce
  BY DEF RInv
<1>2. 1..Taken \subseteq DOMAIN arrived /\ Taken \in Nat
  BY <1>1, MonBasics DEF Taken, QueuesInOrder
<1>3. \A i \in DOMAIN sent : sent[i].n \in 1..Taken
  BY <1>1, HandedBasics DEF EachOnce
<1>4. \A g \in Greenlets : Busy(g) => hand[g].n \in 1..Taken
  BY <1>1, <1>2, MonBasics DEF QueuesInOrder, Greenlets
<1> QED BY <1>2, <1>3, <1>4

\* The events that are left once the first was handled.
LEMMA EventHandled ==
    ASSUME RTypeOK, events # <<>>, events' = Tail(events)
    PROVE  /\ 1 \in DOMAIN events /\ Head(events) = events[1]
           /\ DOMAIN events' = 1..(Len(events) - 1)
           /\ \A i \in DOMAIN events' : i + 1 \in DOMAIN events /\ events'[i] = events[i + 1]
           /\ \A i \in DOMAIN events : i # 1 => i - 1 \in DOMAIN events' /\ events'[i - 1] = events[i]
<1> DEFINE E == [state : {"main", "dead"}, sw : Switches, id : Nat]
<1>1. events \in Seq(E)
  BY DEF RTypeOK
<1> HIDE DEF E
<1>2. /\ Len(events) \in Nat /\ Len(events) # 0 /\ DOMAIN events = 1..Len(events)
      /\ Head(events) = events[1]
      /\ Tail(events) \in Seq(E) /\ Len(Tail(events)) = Len(events) - 1
      /\ \A i \in 1..Len(Tail(events)) : Tail(events)[i] = events[i + 1]
  BY <1>1, HeadTailProperties, EmptySeq, LenProperties
<1>3. DOMAIN Tail(events) = 1..(Len(events) - 1)
  BY <1>2, LenProperties
<1>4. \A i \in DOMAIN events' : i + 1 \in DOMAIN events /\ events'[i] = events[i + 1]
  BY <1>2, <1>3
<1>5. \A i \in DOMAIN events : i # 1 => i - 1 \in DOMAIN events' /\ events'[i - 1] = events[i]
  BY <1>2, <1>3
<1> QED BY <1>2, <1>3, <1>4, <1>5

\* The events once one more is due.
LEMMA EventDue ==
    ASSUME RTypeOK, NEW e \in [state : {"main", "dead"}, sw : Switches, id : Nat],
           events' = Append(events, e)
    PROVE  /\ DOMAIN events' = 1..(Len(events) + 1)
           /\ \A i \in DOMAIN events : i \in DOMAIN events' /\ events'[i] = events[i]
           /\ events'[Len(events) + 1] = e
<1> DEFINE E == [state : {"main", "dead"}, sw : Switches, id : Nat]
<1>1. events \in Seq(E) /\ e \in E
  BY DEF RTypeOK
<1> HIDE DEF E
<1>2. Len(events) \in Nat /\ DOMAIN events = 1..Len(events)
  BY <1>1, LenProperties
<1> QED BY <1>1, <1>2, AppendProperties

LEMMA InitSession == MonInit => SessionInv
<1> SUFFICES ASSUME MonInit PROVE SessionInv OBVIOUS
<1>1. DOMAIN sent = {} /\ DOMAIN events = {} /\ conns = {} /\ \A g \in Greenlets : ~Busy(g)
  BY DEF MonInit, Busy, Nothing
<1>2. Used = {} /\ MainEvents = {}
  BY <1>1 DEF Used, MainEvents
<1>3. IdsAscend /\ ReportsDue
  BY <1>1, <1>2 DEF IdsAscend, ReportsDue, MonInit
<1>4. UsedIds /\ CommandsAreFenced
  BY <1>1, <1>2 DEF UsedIds, CommandsAreFenced
<1>5. Fences
  BY <1>1 DEF Fences, OnlyCrossing, LastTaken, FenceComes, LastKnown
<1> QED BY <1>3, <1>4, <1>5 DEF SessionInv

\* What is on the connections does not change with what else arrives or waits.
LEMMA SameSending ==
    ASSUME SessionInv, UNCHANGED <<hand, last_command, crossed, sent, barriers>>,
           \A i \in DOMAIN sent : arrived'[sent[i].n] = arrived[sent[i].n],
           \A g \in Greenlets : Busy(g) => arrived'[hand[g].n] = arrived[hand[g].n]
    PROVE  /\ Used' = Used /\ CommandsAreFenced'
           /\ \A g \in Greenlets : Busy(g)' <=> Busy(g)
           /\ \A i \in DOMAIN sent : /\ Kind(sent[i].n)' = Kind(sent[i].n)
                                     /\ Target(sent[i].n)' = Target(sent[i].n)
                                     /\ (FencedAfter(i)' <=> FencedAfter(i))
           /\ \A g \in Greenlets : Busy(g) => /\ Kind(hand[g].n)' = Kind(hand[g].n)
                                              /\ Target(hand[g].n)' = Target(hand[g].n)
<1>1. /\ \A g \in Greenlets : Busy(g)' <=> Busy(g)
      /\ \A i \in DOMAIN sent : /\ Kind(sent[i].n)' = Kind(sent[i].n)
                                /\ Target(sent[i].n)' = Target(sent[i].n)
                                /\ (FencedAfter(i)' <=> FencedAfter(i))
      /\ \A g \in Greenlets : Busy(g) => /\ Kind(hand[g].n)' = Kind(hand[g].n)
                                         /\ Target(hand[g].n)' = Target(hand[g].n)
  BY DEF Busy, Nothing, Kind, Target, FencedAfter
<1>2. Used' = Used
  BY <1>1 DEF Used, Target
<1>3. CommandsAreFenced'
  BY DEF SessionInv, CommandsAreFenced, KindSent
<1> QED BY <1>1, <1>2, <1>3

\* ... so the fences are where they were, when no switch is given an older connection.
LEMMA SameFences ==
    ASSUME SessionInv, RInv, UNCHANGED <<hand, last_command, crossed, sent, barriers>>,
           \A i \in DOMAIN sent : arrived'[sent[i].n] = arrived[sent[i].n],
           \A g \in Greenlets : Busy(g) => arrived'[hand[g].n] = arrived[hand[g].n],
           \A u \in Used : datapaths'[u[2]] = u[1] => datapaths[u[2]] = u[1]
    PROVE  Fences'
<1>1. /\ \A g \in Greenlets : Busy(g)' <=> Busy(g)
      /\ \A i \in DOMAIN sent : /\ Kind(sent[i].n)' = Kind(sent[i].n)
                                /\ Target(sent[i].n)' = Target(sent[i].n)
                                /\ (FencedAfter(i)' <=> FencedAfter(i))
      /\ \A g \in Greenlets : Busy(g) => /\ Kind(hand[g].n)' = Kind(hand[g].n)
                                         /\ Target(hand[g].n)' = Target(hand[g].n)
  BY SameSending
<1>2. /\ \A i \in DOMAIN sent : datapaths'[Target(sent[i].n)] = sent[i].session =>
            datapaths[Target(sent[i].n)] = sent[i].session
      /\ \A g \in Greenlets : Busy(g) => (datapaths'[Target(hand[g].n)] = hand[g].session =>
            datapaths[Target(hand[g].n)] = hand[g].session)
  <2>1. ASSUME NEW i \in DOMAIN sent, datapaths'[Target(sent[i].n)] = sent[i].session
        PROVE  datapaths[Target(sent[i].n)] = sent[i].session
    <3>1. <<sent[i].session, Target(sent[i].n)>> \in Used
      BY DEF Used
    <3> QED BY <2>1, <3>1
  <2>2. ASSUME NEW g \in Greenlets, Busy(g), datapaths'[Target(hand[g].n)] = hand[g].session
        PROVE  datapaths[Target(hand[g].n)] = hand[g].session
    <3>1. <<hand[g].session, Target(hand[g].n)>> \in Used
      BY <2>2 DEF Used
    <3> QED BY <2>2, <3>1
  <2> QED BY <2>1, <2>2
<1>3. OnlyCrossing'
  BY <1>1 DEF SessionInv, Fences, OnlyCrossing
<1>4. LastTaken'
  BY <1>1, <1>2 DEF SessionInv, Fences, LastTaken
<1>5. FenceComes'
  BY <1>1 DEF SessionInv, Fences, FenceComes
<1>6. LastKnown'
  BY <1>1, <1>2 DEF SessionInv, Fences, LastKnown
<1> QED BY <1>3, <1>4, <1>5, <1>6 DEF Fences

\* What is used goes to switches of the exchange.
LEMMA UsedTargets == ASSUME RInv PROVE \A u \in Used : u[2] \in Switches
<1>1. /\ \A i \in DOMAIN sent : Target(sent[i].n) \in Switches
      /\ \A g \in Greenlets : Busy(g) => Target(hand[g].n) \in Switches
  BY TakenArrived, MonBasics DEF Target, RInv
<1> QED BY <1>1 DEF Used

\* A connection that is made gets a number of its own.
LEMMA UpSession == ASSUME RInv, SessionInv, NEW s \in Switches, SwitchUp(s) PROVE SessionInv'
<1>0. RTypeOK
  BY DEF RInv
<1> DEFINE e == [state |-> "main", sw |-> s, id |-> sessions + 1]
           n == Len(events) + 1
<1>1. e \in [state : {"main", "dead"}, sw : Switches, id : Nat] /\ events' = Append(events, e)
  BY <1>0, RecordTypes DEF SwitchUp
<1>2. /\ Len(events) \in Nat /\ DOMAIN events = 1..Len(events) /\ DOMAIN events' = 1..n
      /\ \A i \in DOMAIN events : i \in DOMAIN events' /\ events'[i] = events[i]
      /\ events'[n] = e
  <2> HIDE DEF e
  <2> QED BY <1>0, <1>1, EventDue, RecordTypes
<1>3. /\ n \in MainEvents' /\ MainEvents' = MainEvents \cup {n}
      /\ \A i \in MainEvents : i < n /\ i \in DOMAIN events /\ events'[i] = events[i]
      /\ events'[n].id = sessions + 1 /\ events'[n].sw = s
  BY <1>2 DEF MainEvents
<1>4. /\ conns' = conns \cup {[sw |-> s, id |-> sessions + 1]} /\ sessions' = sessions + 1
      /\ UNCHANGED <<datapaths, last_command, sent, hand, crossed, barriers, arrived>>
  BY DEF SwitchUp, sendVars, wireVars
<1> HIDE DEF e, n
<1>5. IdsAscend' /\ UsedIds'
  <2>1. /\ \A c \in conns : c.id \in Nat /\ c.id <= sessions
        /\ \A i \in MainEvents : events[i].id \in Nat /\ events[i].id <= sessions
        /\ \A t \in Switches : datapaths[t] # NoSession => datapaths[t] \in Nat /\ datapaths[t] <= sessions
        /\ \A u \in Used : u[1] \in Nat /\ u[1] <= sessions
        /\ sessions \in Nat
    BY <1>0, RecordTypes DEF IdsAscend, UsedIds, SessionInv, MainEvents
  <2>2. /\ \A c \in conns' : c.id <= sessions'
        /\ \A i \in MainEvents' : events'[i].id <= sessions'
    BY <1>3, <1>4, <2>1
  <2>3. \A i, j \in MainEvents' : i < j => events'[i].id < events'[j].id
    <3> SUFFICES ASSUME NEW i \in MainEvents', NEW j \in MainEvents', i < j
                 PROVE  events'[i].id < events'[j].id
      OBVIOUS
    <3>1. i \in MainEvents
      BY <1>0, <1>2, <1>3, RecordTypes DEF MainEvents, n
    <3>2. CASE j \in MainEvents
      BY <3>1, <3>2, <1>3 DEF IdsAscend, SessionInv
    <3>3. CASE j = n
      BY <3>1, <3>3, <1>3, <2>1
    <3> QED BY <3>2, <3>3, <1>3
  <2>4. \A t \in Switches : datapaths'[t] # NoSession =>
          datapaths'[t] <= sessions' /\ \A i \in MainEvents' : datapaths'[t] < events'[i].id
    BY <1>3, <1>4, <2>1 DEF IdsAscend, SessionInv
  <2>5. UsedIds'
    <3>1. Used' = Used
      BY <1>4 DEF Used, Busy, Nothing, Target
    <3> QED BY <1>3, <1>4, <2>1, <3>1 DEF UsedIds, SessionInv
  <2> QED BY <1>4, <2>2, <2>3, <2>4, <2>5 DEF IdsAscend, SessionInv
<1>6. \A c \in conns : Unreported(c) => Unreported(c)'
  BY <1>3 DEF Unreported
<1>7. ReportsDue'
  <2>1. ASSUME NEW c \in conns'
        PROVE  Unreported(c)' \/ /\ \A i \in MainEvents' : c.id < events'[i].id
                                 /\ datapaths'[c.sw] # NoSession => c.id <= datapaths'[c.sw]
    <3>1. CASE c \in conns
      BY <1>0, <3>1, <1>3, <1>4, <1>6, RecordTypes DEF ReportsDue, IdsAscend, SessionInv
    <3>2. CASE c = [sw |-> s, id |-> sessions + 1]
      BY <3>2, <1>3 DEF Unreported
    <3> QED BY <3>1, <3>2, <1>4
  <2>2. ASSUME NEW i \in MainEvents'
        PROVE  \/ [sw |-> events'[i].sw, id |-> events'[i].id] \in conns'
               \/ \E j \in DOMAIN events' : j > i /\ events'[j] = DeadEvent(events'[i].sw, events'[i].id)
    <3>1. CASE i \in MainEvents
      BY <3>1, <1>2, <1>3, <1>4 DEF ReportsDue, SessionInv
    <3>2. CASE i = n
      BY <3>2, <1>3, <1>4
    <3> QED BY <3>1, <3>2, <1>3
  <2>3. ASSUME NEW t \in Switches, datapaths'[t] # NoSession
        PROVE  \/ [sw |-> t, id |-> datapaths'[t]] \in conns'
               \/ \E j \in DOMAIN events' : events'[j] = DeadEvent(t, datapaths'[t])
    BY <2>3, <1>2, <1>4 DEF ReportsDue, SessionInv
  <2> QED BY <2>1, <2>2, <2>3 DEF ReportsDue
<1>8. Fences' /\ CommandsAreFenced'
  BY <1>4, SameSending, SameFences
<1> QED BY <1>5, <1>7, <1>8 DEF SessionInv

\* A connection that ends will be reported.
LEMMA DownSession == ASSUME RInv, SessionInv, NEW d \in conns, SwitchDown(d) PROVE SessionInv'
<1>0. RTypeOK
  BY DEF RInv
<1> DEFINE e == DeadEvent(d.sw, d.id)
           n == Len(events) + 1
<1>1. e \in [state : {"main", "dead"}, sw : Switches, id : Nat] /\ events' = Append(events, e)
  BY <1>0, RecordTypes DEF SwitchDown, DeadEvent
<1>2. /\ Len(events) \in Nat /\ DOMAIN events = 1..Len(events) /\ DOMAIN events' = 1..n
      /\ \A i \in DOMAIN events : i \in DOMAIN events' /\ events'[i] = events[i]
      /\ events'[n] = e
  <2> HIDE DEF e
  <2> QED BY <1>0, <1>1, EventDue, RecordTypes
<1>3. /\ MainEvents' = MainEvents
      /\ \A i \in MainEvents : i < n /\ i \in DOMAIN events /\ events'[i] = events[i]
  BY <1>2 DEF MainEvents, DeadEvent
<1>4. /\ conns' = conns \ {d}
      /\ UNCHANGED <<sessions, datapaths, last_command, sent, hand, crossed, barriers, arrived>>
  BY DEF SwitchDown, sendVars, wireVars
<1>5. d = [sw |-> d.sw, id |-> d.id]
  BY <1>0, RecordTypes
<1> HIDE DEF n
<1>6. IdsAscend' /\ UsedIds'
  <2>1. Used' = Used
    BY <1>4 DEF Used, Busy, Nothing, Target
  <2> QED BY <1>3, <1>4, <2>1 DEF IdsAscend, UsedIds, SessionInv
<1>7. ReportsDue'
  <2>1. ASSUME NEW c \in conns'
        PROVE  Unreported(c)' \/ /\ \A i \in MainEvents' : c.id < events'[i].id
                                 /\ datapaths'[c.sw] # NoSession => c.id <= datapaths'[c.sw]
    BY <1>3, <1>4 DEF ReportsDue, SessionInv, Unreported
  <2>2. ASSUME NEW i \in MainEvents'
        PROVE  \/ [sw |-> events'[i].sw, id |-> events'[i].id] \in conns'
               \/ \E j \in DOMAIN events' : j > i /\ events'[j] = DeadEvent(events'[i].sw, events'[i].id)
    <3>1. CASE [sw |-> events[i].sw, id |-> events[i].id] = d
      <4>1. events'[n] = DeadEvent(events'[i].sw, events'[i].id) /\ n > i /\ n \in DOMAIN events'
        BY <3>1, <1>2, <1>3 DEF n, MainEvents
      <4> QED BY <4>1
    <3>2. CASE [sw |-> events[i].sw, id |-> events[i].id] # d
      BY <3>2, <1>2, <1>3, <1>4 DEF ReportsDue, SessionInv
    <3> QED BY <3>1, <3>2
  <2>3. ASSUME NEW t \in Switches, datapaths'[t] # NoSession
        PROVE  \/ [sw |-> t, id |-> datapaths'[t]] \in conns'
               \/ \E j \in DOMAIN events' : events'[j] = DeadEvent(t, datapaths'[t])
    <3>1. CASE [sw |-> t, id |-> datapaths[t]] = d
      <4>1. events'[n] = DeadEvent(t, datapaths'[t]) /\ n \in DOMAIN events'
        BY <3>1, <1>2, <1>4 DEF n
      <4> QED BY <4>1
    <3>2. CASE [sw |-> t, id |-> datapaths[t]] # d
      BY <2>3, <3>2, <1>2, <1>4 DEF ReportsDue, SessionInv
    <3> QED BY <3>1, <3>2
  <2> QED BY <2>1, <2>2, <2>3 DEF ReportsDue
<1>8. Fences' /\ CommandsAreFenced'
  BY <1>4, SameSending, SameFences
<1> QED BY <1>6, <1>7, <1>8 DEF SessionInv

\* The main events once the first event is handled.
LEMMA MainHandled ==
    ASSUME RTypeOK, events # <<>>, events' = Tail(events)
    PROVE  /\ \A i \in MainEvents' : i + 1 \in MainEvents /\ i + 1 # 1 /\ events'[i] = events[i + 1]
           /\ \A i \in MainEvents : i # 1 => i - 1 \in MainEvents' /\ events'[i - 1] = events[i]
BY EventHandled, RecordTypes DEF MainEvents

\* The session of the first event is taken into use: none was used that is younger.
LEMMA MainSession == ASSUME RInv, SessionInv, HandleMain PROVE SessionInv'
<1>0. RTypeOK
  BY DEF RInv
<1> DEFINE s == events[1].sw
           id == events[1].id
<1>1. events # <<>> /\ events' = Tail(events) /\ Head(events) = events[1] /\ 1 \in MainEvents
  BY <1>0, EventHandled DEF HandleMain, NextEvent, MainEvents
<1>2. /\ s \in Switches /\ id \in Nat /\ id # NoSession /\ id <= sessions
      /\ datapaths'[s] = id
      /\ \A t \in Switches : t # s => datapaths'[t] = datapaths[t]
      /\ UNCHANGED <<conns, sessions, last_command, sent, hand, crossed, barriers, arrived>>
  BY <1>0, <1>1, RecordTypes, RefMonAssumption DEF HandleMain, sendVars, wireVars, RTypeOK, MainEvents, IdsAscend, SessionInv
<1>3. /\ \A i \in MainEvents' : i + 1 \in MainEvents /\ i + 1 # 1 /\ events'[i] = events[i + 1]
      /\ \A i \in MainEvents : i # 1 => i - 1 \in MainEvents' /\ events'[i - 1] = events[i]
      /\ \A i \in MainEvents' \cup MainEvents : i \in Int /\ i >= 1
      /\ \A i \in MainEvents' : id < events'[i].id
  <2>1. \A i \in MainEvents : i \in Int /\ i >= 1
    BY <1>0, RecordTypes DEF MainEvents
  <2>2. \A i \in MainEvents' : i \in Int /\ i >= 1
    BY <1>0, <1>1, EventHandled, RecordTypes DEF MainEvents
  <2>3. /\ \A i \in MainEvents' : i + 1 \in MainEvents /\ i + 1 # 1 /\ events'[i] = events[i + 1]
        /\ \A i \in MainEvents : i # 1 => i - 1 \in MainEvents' /\ events'[i - 1] = events[i]
    BY <1>0, <1>1, MainHandled
  <2>4. \A i \in MainEvents' : 1 < i + 1 /\ events[1].id < events[i + 1].id
    BY <1>1, <2>1, <2>2, <2>3 DEF IdsAscend, SessionInv
  <2> QED BY <2>1, <2>2, <2>3, <2>4
<1> HIDE DEF s, id
<1>4. IdsAscend'
  <2>1. \A i, j \in MainEvents' : i < j => events'[i].id < events'[j].id
    BY <1>3 DEF IdsAscend, SessionInv
  <2>2. \A t \in Switches : datapaths'[t] # NoSession =>
            datapaths'[t] <= sessions /\ \A i \in MainEvents' : datapaths'[t] < events'[i].id
    BY <1>2, <1>3 DEF IdsAscend, SessionInv
  <2>3. \A t, u \in Switches : datapaths'[t] = datapaths'[u] /\ datapaths'[t] # NoSession => t = u
    <3>1. \A t \in Switches : datapaths[t] # NoSession => datapaths[t] # id
      <4>1. \A t \in Switches : datapaths[t] # NoSession => datapaths[t] < id /\ datapaths[t] \in Nat
        BY <1>0, <1>1, RecordTypes DEF IdsAscend, SessionInv, id
      <4> QED BY <4>1, <1>2
    <3> QED BY <3>1, <1>2 DEF IdsAscend, SessionInv
  <2> QED BY <1>2, <1>3, <2>1, <2>2, <2>3 DEF IdsAscend, SessionInv
<1>5. UsedIds' /\ Fences' /\ CommandsAreFenced'
  <2>1. Used' = Used
    BY <1>2 DEF Used, Busy, Nothing, Target
  <2>2. \A u \in Used : u[1] # id
    <3>1. \A u \in Used : u[1] < id /\ u[1] \in Nat
      BY <1>1 DEF UsedIds, SessionInv, id
    <3> QED BY <3>1, <1>2
  <2>3. UsedIds'
    BY <1>2, <1>3, <2>1, <2>2 DEF UsedIds, SessionInv
  <2>4. \A u \in Used : datapaths'[u[2]] = u[1] => datapaths[u[2]] = u[1]
    BY <1>2, <2>2, UsedTargets
  <2> QED BY <1>2, <2>3, <2>4, SameSending, SameFences
<1>6. ReportsDue'
  <2>1. ASSUME NEW c \in conns'
        PROVE  Unreported(c)' \/ /\ \A i \in MainEvents' : c.id < events'[i].id
                                 /\ datapaths'[c.sw] # NoSession => c.id <= datapaths'[c.sw]
    <3>0. c \in conns /\ c.id \in Nat
      BY <1>0, <1>2, RecordTypes
    <3>1. CASE c.sw = s /\ c.id = id
      BY <3>1, <1>2, <1>3
    <3>2. CASE ~(c.sw = s /\ c.id = id) /\ Unreported(c)
      <4>1. PICK i \in MainEvents : events[i].sw = c.sw /\ events[i].id = c.id
        BY <3>2 DEF Unreported
      <4>2. i # 1
        BY <3>2, <4>1 DEF s, id
      <4> QED BY <4>1, <4>2, <1>3 DEF Unreported
    <3>3. CASE ~Unreported(c)
      <4>1. /\ \A i \in MainEvents : c.id < events[i].id
            /\ datapaths[c.sw] # NoSession => c.id <= datapaths[c.sw]
        BY <3>0, <3>3 DEF ReportsDue, SessionInv
      <4>2. c.id < id /\ c.sw \in Switches
        BY <1>0, <4>1, <1>1, <3>0, RecordTypes DEF id
      <4> QED BY <4>1, <4>2, <3>0, <1>2, <1>3
    <3> QED BY <3>1, <3>2, <3>3
  <2>2. ASSUME NEW i \in MainEvents'
        PROVE  \/ [sw |-> events'[i].sw, id |-> events'[i].id] \in conns'
               \/ \E j \in DOMAIN events' : j > i /\ events'[j] = DeadEvent(events'[i].sw, events'[i].id)
    <3>1. \/ [sw |-> events[i + 1].sw, id |-> events[i + 1].id] \in conns
          \/ \E j \in DOMAIN events : j > i + 1 /\ events[j] = DeadEvent(events[i + 1].sw, events[i + 1].id)
      BY <1>3 DEF ReportsDue, SessionInv
    <3>2. ASSUME NEW j \in DOMAIN events, j > i + 1,
                 events[j] = DeadEvent(events[i + 1].sw, events[i + 1].id)
          PROVE  /\ j - 1 \in DOMAIN events' /\ j - 1 > i
                 /\ events'[j - 1] = DeadEvent(events'[i].sw, events'[i].id)
      BY <1>0, <3>2, <1>1, <1>3, EventHandled, RecordTypes
    <3> QED BY <3>1, <3>2, <1>2, <1>3
  <2>3. ASSUME NEW t \in Switches, datapaths'[t] # NoSession
        PROVE  \/ [sw |-> t, id |-> datapaths'[t]] \in conns'
               \/ \E j \in DOMAIN events' : events'[j] = DeadEvent(t, datapaths'[t])
    <3>1. CASE t = s
      <4>1. \/ [sw |-> s, id |-> id] \in conns
            \/ \E j \in DOMAIN events : j > 1 /\ events[j] = DeadEvent(s, id)
        BY <1>1 DEF ReportsDue, SessionInv, s, id
      <4>2. ASSUME NEW j \in DOMAIN events, j > 1, events[j] = DeadEvent(s, id)
            PROVE  j - 1 \in DOMAIN events' /\ events'[j - 1] = DeadEvent(s, id)
        BY <1>0, <4>2, <1>1, EventHandled, RecordTypes
      <4> QED BY <3>1, <4>1, <4>2, <1>2
    <3>2. CASE t # s
      <4>1. \/ [sw |-> t, id |-> datapaths[t]] \in conns
            \/ \E j \in DOMAIN events : events[j] = DeadEvent(t, datapaths[t])
        BY <2>3, <3>2, <1>2 DEF ReportsDue, SessionInv
      <4>2. ASSUME NEW j \in DOMAIN events, events[j] = DeadEvent(t, datapaths[t])
            PROVE  j - 1 \in DOMAIN events' /\ events'[j - 1] = DeadEvent(t, datapaths[t])
        <5>1. j # 1
          BY <4>2, <1>1 DEF MainEvents, DeadEvent
        <5> QED BY <1>0, <5>1, <4>2, <1>1, EventHandled, RecordTypes
      <4> QED BY <3>2, <4>1, <4>2, <1>2
    <3> QED BY <3>1, <3>2
  <2> QED BY <2>1, <2>2, <2>3 DEF ReportsDue
<1> QED BY <1>4, <1>5, <1>6 DEF SessionInv

\* The switch of the first event is given up, whichever of its connections ended.
LEMMA DeadSession == ASSUME RInv, SessionInv, HandleDead PROVE SessionInv'
<1>0. RTypeOK
  BY DEF RInv
<1> DEFINE s == events[1].sw
<1>1. /\ events # <<>> /\ events' = Tail(events) /\ Head(events) = events[1]
      /\ 1 \in DOMAIN events /\ 1 \notin MainEvents
  BY <1>0, EventHandled DEF HandleDead, NextEvent, MainEvents
<1>2. /\ s \in Switches
      /\ datapaths'[s] = NoSession
      /\ \A t \in Switches : t # s => datapaths'[t] = datapaths[t]
      /\ UNCHANGED <<conns, sessions, last_command, sent, hand, crossed, barriers, arrived>>
  BY <1>0, <1>1, RecordTypes DEF HandleDead, sendVars, wireVars, RTypeOK
<1>3. /\ \A i \in MainEvents' : i + 1 \in MainEvents /\ events'[i] = events[i + 1]
      /\ \A i \in MainEvents : i - 1 \in MainEvents' /\ events'[i - 1] = events[i]
      /\ \A i \in MainEvents' \cup MainEvents : i \in Int /\ i >= 1
  <2>1. \A i \in MainEvents : i \in Int /\ i >= 1
    BY <1>0, RecordTypes DEF MainEvents
  <2>2. \A i \in MainEvents' : i \in Int /\ i >= 1
    BY <1>0, <1>1, EventHandled, RecordTypes DEF MainEvents
  <2> QED BY <1>0, <1>1, <2>1, <2>2, MainHandled
<1> HIDE DEF s
<1>4. IdsAscend'
  <2>1. \A i, j \in MainEvents' : i < j => events'[i].id < events'[j].id
    BY <1>3 DEF IdsAscend, SessionInv
  <2> QED BY <1>2, <1>3, <2>1 DEF IdsAscend, SessionInv
<1>5. UsedIds' /\ Fences' /\ CommandsAreFenced'
  <2>1. Used' = Used
    BY <1>2 DEF Used, Busy, Nothing, Target
  <2>2. \A u \in Used : u[1] # NoSession
    BY RefMonAssumption DEF UsedIds, SessionInv
  <2>3. UsedIds'
    BY <1>2, <1>3, <2>1, <2>2 DEF UsedIds, SessionInv
  <2>4. \A u \in Used : datapaths'[u[2]] = u[1] => datapaths[u[2]] = u[1]
    BY <1>2, <2>2, UsedTargets
  <2> QED BY <1>2, <2>3, <2>4, SameSending, SameFences
<1>6. ReportsDue'
  <2>1. ASSUME NEW c \in conns'
        PROVE  Unreported(c)' \/ /\ \A i \in MainEvents' : c.id < events'[i].id
                                 /\ datapaths'[c.sw] # NoSession => c.id <= datapaths'[c.sw]
    <3>1. Unreported(c) => Unreported(c)'
      BY <1>3 DEF Unreported
    <3> QED BY <1>0, <3>1, <1>2, <1>3, RecordTypes DEF ReportsDue, SessionInv
  <2>2. ASSUME NEW i \in MainEvents'
        PROVE  \/ [sw |-> events'[i].sw, id |-> events'[i].id] \in conns'
               \/ \E j \in DOMAIN events' : j > i /\ events'[j] = DeadEvent(events'[i].sw, events'[i].id)
    <3>1. \/ [sw |-> events[i + 1].sw, id |-> events[i + 1].id] \in conns
          \/ \E j \in DOMAIN events : j > i + 1 /\ events[j] = DeadEvent(events[i + 1].sw, events[i + 1].id)
      BY <1>3 DEF ReportsDue, SessionInv
    <3>2. ASSUME NEW j \in DOMAIN events, j > i + 1,
                 events[j] = DeadEvent(events[i + 1].sw, events[i + 1].id)
          PROVE  /\ j - 1 \in DOMAIN events' /\ j - 1 > i
                 /\ events'[j - 1] = DeadEvent(events'[i].sw, events'[i].id)
      BY <1>0, <3>2, <1>1, <1>3, EventHandled, RecordTypes
    <3> QED BY <3>1, <3>2, <1>2, <1>3
  <2>3. ASSUME NEW t \in Switches, datapaths'[t] # NoSession
        PROVE  \/ [sw |-> t, id |-> datapaths'[t]] \in conns'
               \/ \E j \in DOMAIN events' : events'[j] = DeadEvent(t, datapaths'[t])
    <3>1. t # s /\ datapaths'[t] = datapaths[t]
      BY <2>3, <1>2
    <3>2. \/ [sw |-> t, id |-> datapaths[t]] \in conns
          \/ \E j \in DOMAIN events : events[j] = DeadEvent(t, datapaths[t])
      BY <2>3, <3>1 DEF ReportsDue, SessionInv
    <3>3. ASSUME NEW j \in DOMAIN events, events[j] = DeadEvent(t, datapaths[t])
          PROVE  j - 1 \in DOMAIN events' /\ events'[j - 1] = DeadEvent(t, datapaths[t])
      <4>1. j # 1
        BY <3>1, <3>3 DEF DeadEvent, s
      <4> QED BY <1>0, <4>1, <3>3, <1>1, EventHandled, RecordTypes
    <3> QED BY <3>1, <3>2, <3>3, <1>2
  <2> QED BY <2>1, <2>2, <2>3 DEF ReportsDue
<1> QED BY <1>4, <1>5, <1>6 DEF SessionInv


\* Reports do not depend on what is sent.
LEMMA SameReports ==
    ASSUME SessionInv, UNCHANGED <<conns, events, sessions, datapaths>>
    PROVE  IdsAscend' /\ ReportsDue' /\ MainEvents' = MainEvents
<1>1. MainEvents' = MainEvents /\ \A c \in conns : Unreported(c)' <=> Unreported(c)
  BY DEF MainEvents, Unreported
<1> QED BY <1>1 DEF SessionInv, IdsAscend, ReportsDue

\* A flow mod is taken for the session of its switch.
LEMMA TakeSession ==
    ASSUME RInv, SessionInv, NEW g \in Greenlets, NEW n \in DOMAIN arrived,
           ~Busy(g), Take(g, n), datapaths[arrived[n].dst] # NoSession,
           UNCHANGED <<conns, events, sessions, datapaths, sent, barriers, arrived>>
    PROVE  SessionInv'
<1> DEFINE d == arrived[n].dst
           k == arrived[n].kind
           c == datapaths[d]
<1>1. RTypeOK /\ Fences /\ UsedIds
  BY DEF RInv, SessionInv, Fences
<1>2. /\ d \in Switches /\ k \in {"insert", "remove"} /\ c \in Nat /\ c # NoSession
      /\ c <= sessions /\ \A j \in MainEvents : c < events[j].id
      /\ \A s \in Switches : datapaths[s] = c => d = s
  BY <1>1, MonBasics, RecordTypes DEF SessionInv, IdsAscend
<1>3. /\ hand'[g].n = n /\ hand'[g].session = c /\ (hand'[g].barrier <=> last_command[d] # k)
      /\ \A f \in Greenlets \ {g} : hand'[f] = hand[f]
      /\ crossed \subseteq crossed' /\ n # 0
  BY <1>1, TakeHands
<1>4. /\ last_command' = [last_command EXCEPT ![d] = k]
      /\ (\E f \in Greenlets \ {g} : Busy(f) /\ hand[f].session = c) => c \in crossed'
  BY DEF Take
<1>5. /\ last_command'[d] = k
      /\ \A s \in Switches : s # d => last_command'[s] = last_command[s]
  BY <1>1, <1>2, <1>4 DEF RTypeOK
<1>6. /\ Busy(g)' /\ \A f \in Greenlets \ {g} : Busy(f)' <=> Busy(f)
      /\ Kind(n) = k /\ Target(n) = d
      /\ \A m : Kind(m)' = Kind(m) /\ Target(m)' = Target(m)
      /\ \A i : FencedAfter(i)' <=> FencedAfter(i)
  BY <1>3 DEF Busy, Nothing, Kind, Target, FencedAfter
<1> HIDE DEF c, d, k
<1>7. IdsAscend' /\ ReportsDue' /\ MainEvents' = MainEvents
  BY SameReports
<1>8. CommandsAreFenced'
  BY <1>3 DEF SessionInv, CommandsAreFenced, KindSent
<1>9. Used' \subseteq Used \cup {<<c, d>>}
  BY <1>3, <1>6 DEF Used
<1>10. UsedIds'
  BY <1>1, <1>2, <1>7, <1>9 DEF UsedIds
<1>11. OnlyCrossing'
  <2> SUFFICES ASSUME NEW e \in Greenlets, NEW f \in Greenlets, e # f, Busy(e)', Busy(f)',
                      hand'[e].session = hand'[f].session
               PROVE  hand'[f].session \in crossed'
    BY DEF OnlyCrossing
  <2>1. CASE e # g /\ f # g
    BY <1>1, <1>3, <1>6, <2>1 DEF Fences, OnlyCrossing
  <2>2. CASE e = g \/ f = g
    BY <1>3, <1>4, <1>6, <2>2
  <2> QED BY <2>1, <2>2
\* A used session other than c is not the one in use of d.
<1>12. \A u \in Used : u[1] = datapaths[u[2]] /\ u[2] = d => u[1] = c
  BY DEF c
<1>13. \A u \in Used : u[1] = c => u[2] = d
  BY <1>1, <1>2 DEF UsedIds, c
<1>14. LastTaken'
  <2> SUFFICES ASSUME NEW f \in Greenlets, Busy(f)', hand'[f].session \notin crossed',
                      datapaths[Target(hand'[f].n)] = hand'[f].session
               PROVE  last_command'[Target(hand'[f].n)] = Kind(hand'[f].n)
    BY <1>6 DEF LastTaken
  <2>1. CASE f = g
    BY <1>3, <1>5, <1>6, <2>1
  <2>2. CASE f # g
    <3>1. Busy(f) /\ hand'[f] = hand[f] /\ hand[f].session # c /\ hand[f].session \notin crossed
      BY <1>3, <1>4, <1>6, <2>2
    <3>2. <<hand[f].session, Target(hand[f].n)>> \in Used
      BY <3>1 DEF Used
    <3>3. Target(hand[f].n) # d /\ Target(hand[f].n) \in Switches
      BY <3>1, <3>2, <1>12, UsedTargets
    <3> QED BY <1>1, <1>5, <3>1, <3>3 DEF Fences, LastTaken
  <2> QED BY <2>1, <2>2
<1>15. FenceComes'
  <2> SUFFICES ASSUME NEW i \in DOMAIN sent, NEW f \in Greenlets, sent[i].session \notin crossed',
                      Busy(f)', hand'[f].session = sent[i].session,
                      Kind(hand'[f].n) # Kind(sent[i].n)
               PROVE  hand'[f].barrier \/ sent[i].session \in barriers \/ FencedAfter(i)
    BY <1>6 DEF FenceComes
  <2>1. CASE f # g
    BY <1>1, <1>3, <1>6, <2>1 DEF Fences, FenceComes
  <2>2. CASE f = g
    <3>1. sent[i].session = c /\ k # Kind(sent[i].n) /\ c \notin crossed
      BY <1>3, <1>6, <2>2
    <3>2. CASE last_command[d] # k
      BY <1>3, <2>2, <3>2
    <3>3. CASE last_command[d] = k
      <4>1. <<sent[i].session, Target(sent[i].n)>> \in Used
        BY DEF Used
      <4>2. Target(sent[i].n) = d
        BY <1>13, <3>1, <4>1
      <4>3. \A e \in Greenlets : Busy(e) => hand[e].session # c
        BY <1>3, <1>4, <2>2, <3>1
      <4>4. datapaths[Target(sent[i].n)] = sent[i].session
        BY <3>1, <4>2 DEF c
      <4> QED BY <1>1, <3>1, <3>3, <4>2, <4>3, <4>4 DEF Fences, LastKnown
    <3> QED BY <3>2, <3>3
  <2> QED BY <2>1, <2>2
<1>16. LastKnown'
  <2> SUFFICES ASSUME NEW i \in DOMAIN sent, sent[i].session \notin crossed',
                      \A f \in Greenlets : Busy(f)' => hand'[f].session # sent[i].session,
                      datapaths[Target(sent[i].n)] = sent[i].session,
                      last_command'[Target(sent[i].n)] # Kind(sent[i].n)
               PROVE  FencedAfter(i)
    BY <1>6 DEF LastKnown
  <2>1. sent[i].session # c /\ sent[i].session \notin crossed
    BY <1>3, <1>6
  <2>2. <<sent[i].session, Target(sent[i].n)>> \in Used
    BY DEF Used
  <2>3. Target(sent[i].n) # d /\ Target(sent[i].n) \in Switches
    BY <2>1, <2>2, <1>12, UsedTargets
  <2>4. \A f \in Greenlets : Busy(f) => hand[f].session # sent[i].session
    BY <1>3, <1>6
  <2> QED BY <1>1, <1>5, <2>1, <2>3, <2>4 DEF Fences, LastKnown
<1> QED BY <1>7, <1>8, <1>10, <1>11, <1>14, <1>15, <1>16 DEF SessionInv, Fences

\* The barrier goes out.
LEMMA BarrierSession ==
    ASSUME RInv, SessionInv, NEW g \in Greenlets, SendBarrier(g)
    PROVE  SessionInv'
<1>1. RTypeOK /\ Fences /\ UsedIds /\ Busy(g)
  BY DEF RInv, SessionInv, Fences, SendBarrier
<1>2. /\ hand' = [hand EXCEPT ![g].barrier = FALSE] /\ barriers' = barriers \cup {hand[g].session}
      /\ UNCHANGED <<arrived, conns, events, sessions, datapaths, last_command, crossed, sent>>
  BY DEF SendBarrier, switchVars
<1>3. /\ \A f \in Greenlets : hand'[f].n = hand[f].n /\ hand'[f].session = hand[f].session
      /\ \A f \in Greenlets \ {g} : hand'[f] = hand[f]
  BY <1>1, <1>2 DEF RTypeOK
<1>4. /\ \A f \in Greenlets : Busy(f)' => Busy(f)
      /\ Busy(g)'
      /\ \A m : Kind(m)' = Kind(m) /\ Target(m)' = Target(m)
      /\ \A i : FencedAfter(i)' <=> FencedAfter(i)
  <2>1. hand[g].n # 0
    BY <1>1, MonBasics
  <2> QED BY <1>1, <1>2, <1>3, <2>1 DEF Busy, Nothing, Kind, Target, FencedAfter
<1>5. IdsAscend' /\ ReportsDue' /\ MainEvents' = MainEvents
  BY <1>2, SameReports
<1>6. CommandsAreFenced'
  BY <1>2 DEF SessionInv, CommandsAreFenced, KindSent
<1>7. Used' \subseteq Used
  BY <1>2, <1>3, <1>4 DEF Used
<1>8. UsedIds'
  BY <1>1, <1>2, <1>5, <1>7 DEF UsedIds
<1>9. OnlyCrossing' /\ LastTaken'
  BY <1>1, <1>2, <1>3, <1>4 DEF Fences, OnlyCrossing, LastTaken
<1>10. FenceComes'
  <2> SUFFICES ASSUME NEW i \in DOMAIN sent, NEW f \in Greenlets, sent[i].session \notin crossed,
                      Busy(f)', hand'[f].session = sent[i].session,
                      Kind(hand'[f].n) # Kind(sent[i].n)
               PROVE  hand'[f].barrier \/ sent[i].session \in barriers' \/ FencedAfter(i)
    BY <1>2, <1>4 DEF FenceComes
  <2>1. CASE f = g
    BY <1>2, <1>3, <2>1
  <2>2. CASE f # g
    BY <1>1, <1>2, <1>3, <1>4, <2>2 DEF Fences, FenceComes
  <2> QED BY <2>1, <2>2
<1>11. LastKnown'
  <2>1. \A f \in Greenlets : Busy(f) => Busy(f)'
    BY <1>3, <1>4 DEF Busy
  <2> QED BY <1>1, <1>2, <1>3, <1>4, <2>1 DEF Fences, LastKnown
<1> QED BY <1>5, <1>6, <1>8, <1>9, <1>10, <1>11 DEF SessionInv, Fences

\* The flow mod goes out, behind its barrier.
LEMMA ModSession ==
    ASSUME RInv, SessionInv, NEW g \in Greenlets, SendMod(g)
    PROVE  SessionInv'
<1> DEFINE n == hand[g].n
           c == hand[g].session
           l == Len(sent) + 1
<1>1. RTypeOK /\ QueuesInOrder /\ Fences /\ UsedIds /\ Busy(g) /\ ~hand[g].barrier
  BY DEF RInv, SessionInv, Fences, SendMod
<1>2. /\ barriers' = barriers \ {c}
      /\ UNCHANGED <<arrived, conns, events, sessions, datapaths, last_command, crossed>>
  BY DEF SendMod, switchVars
<1>3. /\ hand'[g] = Nothing /\ \A f \in Greenlets \ {g} : hand'[f] = hand[f]
      /\ DOMAIN sent' = 1..l /\ Len(sent') = l
      /\ \A i \in DOMAIN sent : sent'[i] = sent[i]
      /\ sent'[l].n = n /\ sent'[l].session = c /\ (sent'[l].fenced <=> c \in barriers)
      /\ Len(sent) \in Nat /\ DOMAIN sent = 1..Len(sent)
  BY <1>1, SendModHands, MonBasics
<1> HIDE DEF n, c
<1>4. /\ \A f \in Greenlets : Busy(f)' <=> Busy(f) /\ f # g
      /\ \A f \in Greenlets : Busy(f)' => hand'[f] = hand[f]
      /\ \A m : Kind(m)' = Kind(m) /\ Target(m)' = Target(m)
  BY <1>2, <1>3 DEF Busy, Nothing, Kind, Target
<1>5. \A i \in DOMAIN sent' : i \in DOMAIN sent \/ i = l
  BY <1>3
<1>6. \A i \in DOMAIN sent : FencedAfter(i) => FencedAfter(i)'
  BY <1>3 DEF FencedAfter
<1>7. IdsAscend' /\ ReportsDue' /\ MainEvents' = MainEvents
  BY <1>2, SameReports
<1>8. UsedIds'
  <2>1. Used' \subseteq Used
    BY <1>1, <1>3, <1>4, <1>5 DEF Used, n, c
  <2> QED BY <1>1, <1>2, <1>7, <2>1 DEF UsedIds
\* What is on an uncrossed connection and of the other kind has the barrier behind it.
<1>9. ASSUME NEW i \in DOMAIN sent, sent[i].session = c, c \notin crossed, Kind(sent[i].n) # Kind(n)
      PROVE  \E k \in (i + 1)..l : sent'[k].session = c /\ sent'[k].fenced
  <2>1. c \in barriers \/ FencedAfter(i)
    BY <1>1, <1>9 DEF Fences, FenceComes, n, c
  <2>2. CASE c \in barriers
    <3>1. l \in (i + 1)..l
      BY <1>3
    <3> QED BY <1>3, <2>2, <3>1
  <2>3. CASE FencedAfter(i)
    <3>1. PICK k \in (i + 1)..Len(sent) : sent[k].session = c /\ sent[k].fenced
      BY <1>9, <2>3 DEF FencedAfter
    <3>2. k \in DOMAIN sent /\ k \in (i + 1)..l
      BY <1>3, <3>1
    <3> QED BY <1>3, <3>1, <3>2
  <2> QED BY <2>1, <2>2, <2>3
<1>10. CommandsAreFenced'
  <2> SUFFICES ASSUME NEW i \in DOMAIN sent', NEW j \in DOMAIN sent', i < j,
                      sent'[i].session = sent'[j].session, sent'[j].session \notin crossed,
                      Kind(sent'[i].n) # Kind(sent'[j].n)
               PROVE  \E k \in (i + 1)..j : sent'[k].session = sent'[j].session /\ sent'[k].fenced
    BY <1>2 DEF CommandsAreFenced, KindSent, Kind
  <2>1. i \in DOMAIN sent
    BY <1>3, <1>5
  <2>2. CASE j \in DOMAIN sent
    <3>1. PICK k \in (i + 1)..j : sent[k].session = sent[j].session /\ sent[k].fenced
      BY <1>3, <2>1, <2>2 DEF SessionInv, CommandsAreFenced, KindSent, Kind
    <3>2. k \in DOMAIN sent
      BY <1>3, <2>1, <2>2, <3>1
    <3> QED BY <1>3, <2>2, <3>1, <3>2
  <2>3. CASE j = l
    BY <1>3, <1>9, <2>1, <2>3
  <2> QED BY <1>5, <2>2, <2>3
<1>11. OnlyCrossing' /\ LastTaken'
  BY <1>1, <1>2, <1>4 DEF Fences, OnlyCrossing, LastTaken
<1>12. FenceComes'
  <2> SUFFICES ASSUME NEW i \in DOMAIN sent', NEW f \in Greenlets, sent'[i].session \notin crossed,
                      Busy(f)', hand'[f].session = sent'[i].session,
                      Kind(hand'[f].n) # Kind(sent'[i].n)
               PROVE  hand'[f].barrier \/ sent'[i].session \in barriers' \/ FencedAfter(i)'
    BY <1>2, <1>4 DEF FenceComes
  <2>1. Busy(f) /\ f # g /\ hand'[f] = hand[f]
    BY <1>4
  <2>2. hand[f].session # c
    <3>1. hand[f].session = c => c \in crossed
      BY <1>1, <2>1 DEF Fences, OnlyCrossing, c
    <3> QED BY <2>1, <3>1
  <2>3. i \in DOMAIN sent
    BY <1>3, <1>5, <2>1, <2>2
  <2>4. hand[f].barrier \/ sent[i].session \in barriers \/ FencedAfter(i)
    BY <1>1, <1>3, <2>1, <2>3 DEF Fences, FenceComes
  <2> QED BY <1>2, <1>3, <1>6, <2>1, <2>2, <2>3, <2>4
<1>13. LastKnown'
  <2> SUFFICES ASSUME NEW i \in DOMAIN sent', sent'[i].session \notin crossed,
                      \A f \in Greenlets : Busy(f)' => hand'[f].session # sent'[i].session,
                      datapaths[Target(sent'[i].n)] = sent'[i].session,
                      last_command[Target(sent'[i].n)] # Kind(sent'[i].n)
               PROVE  FencedAfter(i)'
    BY <1>2, <1>4 DEF LastKnown
  <2>0. <<c, Target(n)>> \in Used /\ Target(n) \in Switches
    <3>1. <<c, Target(n)>> \in Used
      BY <1>1 DEF Used, n, c
    <3> QED BY <3>1, UsedTargets
  <2>1. i \in DOMAIN sent
    <3>1. i # l
      BY <1>1, <1>3 DEF Fences, LastTaken, n, c
    <3> QED BY <3>1, <1>5
  <2>2. CASE sent[i].session = c
    <3>1. <<sent[i].session, Target(sent[i].n)>> \in Used
      BY <2>1 DEF Used
    <3>2. Target(sent[i].n) = Target(n) /\ datapaths[Target(n)] = c
      <4>1. Target(sent[i].n) \in Switches
        BY <3>1, UsedTargets
      <4> QED BY <1>1, <1>3, <2>0, <2>1, <2>2, <4>1 DEF UsedIds
    <3>3. last_command[Target(n)] = Kind(n)
      BY <1>1, <1>3, <2>1, <2>2, <3>2 DEF Fences, LastTaken, n, c
    <3> QED BY <1>3, <1>9, <2>1, <2>2, <3>2, <3>3 DEF FencedAfter
  <2>3. CASE sent[i].session # c
    <3>1. \A f \in Greenlets : Busy(f) => hand[f].session # sent[i].session
      BY <1>3, <1>4, <2>1, <2>3 DEF c
    <3>2. FencedAfter(i)
      BY <1>1, <1>3, <2>1, <3>1 DEF Fences, LastKnown
    <3> QED BY <1>6, <2>1, <3>2
  <2> QED BY <2>2, <2>3
<1> QED BY <1>7, <1>8, <1>10, <1>11, <1>12, <1>13 DEF SessionInv, Fences

\* What else arrives or waits does not matter.
LEMMA SameSession ==
    ASSUME RInv, SessionInv,
           UNCHANGED <<conns, events, sessions, datapaths, last_command, sent, hand, crossed, barriers>>,
           \A n \in DOMAIN arrived : arrived'[n] = arrived[n]
    PROVE  SessionInv'
<1>1. /\ \A i \in DOMAIN sent : arrived'[sent[i].n] = arrived[sent[i].n]
      /\ \A g \in Greenlets : Busy(g) => arrived'[hand[g].n] = arrived[hand[g].n]
  BY TakenArrived
<1>2. Used' = Used /\ CommandsAreFenced' /\ Fences'
  BY <1>1, SameSending, SameFences
<1>3. IdsAscend' /\ ReportsDue' /\ MainEvents' = MainEvents
  BY SameReports
<1>4. UsedIds'
  BY <1>2, <1>3 DEF SessionInv, UsedIds
<1> QED BY <1>2, <1>3, <1>4 DEF SessionInv

LEMMA SessionInductive == RInv /\ SessionInv /\ [RNext]_rvars => SessionInv'
<1> SUFFICES ASSUME RInv, SessionInv, [RNext]_rvars PROVE SessionInv' OBVIOUS
<1>0. RTypeOK /\ QueuesInOrder /\ CatchesUp
  BY DEF RInv
<1>1. CASE HandleMain BY <1>1, MainSession
<1>2. CASE HandleDead BY <1>2, DeadSession
<1>3. CASE Flush
  <2>1. UNCHANGED <<conns, events, sessions, datapaths, sent, barriers, arrived>>
    BY <1>3 DEF Flush, switchVars, wireVars
  <2>2. CASE fm_queue # <<>>
    <3> DEFINE n == Head(fm_queue)
    <3>1. Take("app", n) /\ ~Busy("app") /\ "app" \in Greenlets /\ flushing
      BY <1>3, <2>2 DEF Flush, Greenlets
    <3>2. n \in DOMAIN arrived
      <4>1. n = fm_queue[1] /\ 1 \in DOMAIN fm_queue
        BY <1>0, <2>2, FirstOfQueue DEF RTypeOK
      <4> QED BY <1>0, <4>1, MonBasics DEF QueuesInOrder, Taken
    <3>3. datapaths[arrived[n].dst] # NoSession
      BY <1>0, <2>2, <3>1, <3>2, MonBasics DEF CatchesUp, Ready
    <3> QED BY <2>1, <3>1, <3>2, <3>3, TakeSession
  <2>3. CASE fm_queue = <<>>
    BY <1>3, <2>1, <2>3, SameSession DEF Flush, sendVars
  <2> QED BY <2>2, <2>3
<1>4. CASE ProcessFlowMod
  <2> DEFINE n == Head(inbox)
  <2>1. UNCHANGED <<conns, events, sessions, datapaths, sent, barriers, arrived>>
    BY <1>4 DEF ProcessFlowMod, switchVars, wireVars
  <2>2. CASE Take("server", n) /\ datapaths[arrived[n].dst] # NoSession
    <3>1. ~Busy("server") /\ "server" \in Greenlets /\ inbox # <<>>
      BY <1>4 DEF ProcessFlowMod, Greenlets
    <3>2. n \in DOMAIN arrived
      <4>1. n = inbox[1] /\ 1 \in DOMAIN inbox
        BY <1>0, <3>1, FirstOfQueue DEF RTypeOK
      <4> QED BY <1>0, <4>1, MonBasics DEF QueuesInOrder, Taken
    <3> QED BY <2>1, <2>2, <3>1, <3>2, TakeSession
  <2>3. CASE UNCHANGED sendVars
    BY <2>1, <2>3, SameSession DEF sendVars
  <2> QED BY <1>4, <2>2, <2>3 DEF ProcessFlowMod
<1>5. CASE SwitchStep
  BY <1>5, UpSession, DownSession DEF SwitchStep
<1>6. ASSUME NEW g \in Greenlets, SendBarrier(g) \/ SendMod(g) PROVE SessionInv'
  BY <1>6, BarrierSession, ModSession
<1>7. ASSUME NEW ms \in Seq(Mods), Arrive(ms) PROVE SessionInv'
  <2>1. \A n \in DOMAIN arrived : (arrived \o ms)[n] = arrived[n]
    <3>1. arrived \in Seq(Mods) /\ Len(ms) \in Nat /\ Len(arrived) \in Nat /\ DOMAIN arrived = 1..Len(arrived)
      BY <1>0, LenProperties, MonBasics DEF RTypeOK
    <3> QED BY <3>1, ConcatProperties
  <2> QED BY <1>7, <2>1, SameSession DEF Arrive, switchVars, sendVars, wireVars
<1>8. CASE (\E s \in Switches : InitFabric(s)) \/ UNCHANGED rvars
  BY <1>8, SameSession DEF InitFabric, rvars, switchVars, sendVars, wireVars
<1> QED BY <1>1, <1>2, <1>3, <1>4, <1>5, <1>6, <1>7, <1>8 DEF RNext, MonStep, AppStep

LEMMA SessionInvariant == RSpec => [](RInv /\ SessionInv)
BY MonInitInv, MonInductive, InitSession, SessionInductive, PTL DEF RSpec

(***************************************************************************)
(* The barriers suffice, although init_fabric sends without one and notes  *)
(* no command: whatever switches come and go, on a connection that two     *)
(* greenlets never were sending on at a time, a removal and an insertion   *)
(* of controllers have a barrier between them.                             *)
(***************************************************************************)
THEOREM MonitorFences == RSpec => []CommandsAreFenced
BY SessionInvariant, PTL DEF SessionInv

(***************************************************************************)
(* Deleting a switch by its name never loses its newer connection: once    *)
(* all is reported, flow mods go over the last connection of the switch.   *)
(***************************************************************************)
THEOREM MonitorKnowsDatapaths == RSpec => []DatapathsAreCurrent
<1>1. SessionInv => DatapathsAreCurrent
  BY DEF SessionInv, ReportsDue, DatapathsAreCurrent, MainEvents, Unreported
<1> QED BY <1>1, SessionInvariant, PTL

-----------------------------------------------------------------------------
(* A controller's threads *)

LEMMA DInitTypes == DInit => DTypeOK
<1> SUFFICES ASSUME DInit PROVE DTypeOK OBVIOUS
<1>1. <<>> \in Seq(Mods) /\ <<>> \in Seq(Seq(Mods))
  BY EmptySeq
<1>2. NoWork \in [batches : Seq(Seq(Mods)), always : BOOLEAN]
  BY <1>1 DEF NoWork
<1>3. lists \in Seq(Seq(Mods)) /\ Len(lists) = 1 /\ dp_queued = 1
  BY <1>1 DEF DInit
<1>4. work \in [Threads -> [batches : Seq(Seq(Mods)), always : BOOLEAN]]
  BY <1>2 DEF DInit
<1>5. /\ pc = [t \in Threads |-> "idle"] /\ found = [t \in Threads |-> 1]
      /\ pos = [t \in Threads |-> 0] /\ msg = [t \in Threads |-> <<>>]
      /\ queued = <<>> /\ overlap = FALSE
  BY DEF DInit
<1>6. 1 \in 1..Len(lists) /\ dp_queued \in 1..Len(lists)
  BY <1>3
<1>7. found \in [Threads -> 1..Len(lists)]
  BY <1>5, <1>6
<1>8. /\ pc \in [Threads -> {"idle", "queue", "extend", "copy", "reset", "send"}]
      /\ \A t \in Threads : pc[t] = "extend" => work[t].batches # <<>>
      /\ pos \in [Threads -> Nat] /\ msg \in [Threads -> Seq(Mods)]
      /\ queued \in Seq(Mods) /\ overlap \in BOOLEAN
  BY <1>1, <1>5
<1> QED BY <1>3, <1>4, <1>6, <1>7, <1>8 DEF DTypeOK

LEMMA ThreadTypes == DSpec => []DTypeOK
<1>1. DTypeOK /\ [DNext]_dvars => DTypeOK'
  <2> SUFFICES ASSUME DTypeOK, [DNext]_dvars PROVE DTypeOK' OBVIOUS
  <2>0. Len(lists) \in Nat /\ Len(lists) >= 1 /\ lists \in Seq(Seq(Mods)) /\ dp_queued \in 1..Len(lists)
    BY LenProperties DEF DTypeOK
  <2>1. ASSUME NEW t \in Threads, Find(t) PROVE DTypeOK'
    BY <2>1 DEF Find, DTypeOK
  <2>2. ASSUME NEW t \in Threads, Extend(t) PROVE DTypeOK'
    <3> DEFINE b == work[t].batches
               l == lists[found[t]] \o Head(b)
    <3>1. b \in Seq(Seq(Mods)) /\ found[t] \in 1..Len(lists)
      BY DEF DTypeOK
    <3>2. b # <<>>
      BY <2>2 DEF Extend, DTypeOK
    <3>3. Head(b) \in Seq(Mods) /\ Tail(b) \in Seq(Seq(Mods))
      <4> HIDE DEF b
      <4> QED BY <3>1, <3>2, HeadTailProperties
    <3>4. l \in Seq(Mods) /\ queued \o Head(b) \in Seq(Mods)
      <4>1. lists[found[t]] \in Seq(Mods) /\ queued \in Seq(Mods)
        BY <2>0, <3>1, ElementOfSeq DEF DTypeOK
      <4> HIDE DEF b
      <4> QED BY <3>3, <4>1, ConcatProperties
    <3>5. lists' = [lists EXCEPT ![found[t]] = l] /\ queued' = queued \o Head(b)
      BY <2>2 DEF Extend
    <3>6. lists' \in Seq(Seq(Mods)) /\ Len(lists') = Len(lists)
      <4> HIDE DEF l
      <4> QED BY <2>0, <3>1, <3>4, <3>5, ExceptSeq
    <3>7. work' \in [Threads -> [batches : Seq(Seq(Mods)), always : BOOLEAN]]
      <4>1. work' = [work EXCEPT ![t].batches = Tail(b)]
        BY <2>2 DEF Extend
      <4> HIDE DEF b
      <4> QED BY <3>3, <4>1 DEF DTypeOK
    <3>8. UNCHANGED <<dp_queued, found, pos, msg, overlap>>
      BY <2>2 DEF Extend
    <3>9. /\ pc' \in [Threads -> {"idle", "queue", "extend", "copy", "reset", "send"}]
          /\ \A u \in Threads : pc'[u] = "extend" => work'[u].batches # <<>>
      BY <2>2 DEF Extend, DTypeOK
    <3>10. dp_queued' \in 1..Len(lists') /\ found' \in [Threads -> 1..Len(lists')]
      BY <3>6, <3>8 DEF DTypeOK
    <3>11. pos' \in [Threads -> Nat] /\ msg' \in [Threads -> Seq(Mods)] /\ overlap' \in BOOLEAN
      BY <3>8 DEF DTypeOK
    <3> QED BY <3>4, <3>5, <3>6, <3>7, <3>9, <3>10, <3>11 DEF DTypeOK
  <2>3. ASSUME NEW t \in Threads, Finish(t) PROVE DTypeOK'
    <3>1. pc' \in [Threads -> {"idle", "queue", "extend", "copy", "reset", "send"}]
      BY <2>3 DEF Finish, DTypeOK
    <3>2. found' \in [Threads -> 1..Len(lists)]
      <4> DEFINE N == 1..Len(lists)
      <4>1. 1 \in N /\ dp_queued \in N /\ found \in [Threads -> N]
        BY <2>0 DEF DTypeOK
      <4> HIDE DEF N
      <4>2. found' \in [Threads -> N]
        BY <2>3, <4>1 DEF Finish
      <4> QED BY <4>2 DEF N
    <3>3. UNCHANGED <<lists, dp_queued, work, pos, msg, queued, overlap>>
      BY <2>3 DEF Finish
    <3>4. \A u \in Threads : pc'[u] = "extend" => pc[u] = "extend"
      BY <2>3 DEF Finish, DTypeOK
    <3> QED BY <3>1, <3>2, <3>3, <3>4 DEF DTypeOK
  <2>4. ASSUME NEW t \in Threads, Copy(t) PROVE DTypeOK'
    <3>1. found[t] \in 1..Len(lists) /\ msg[t] \in Seq(Mods) /\ pos[t] \in Nat
      BY DEF DTypeOK
    <3>2. lists[found[t]] \in Seq(Mods)
      BY <2>0, <3>1, ElementOfSeq
    <3>3. CASE pos[t] < Len(lists[found[t]])
      <4>1. lists[found[t]][pos[t] + 1] \in Mods
        <5>1. Len(lists[found[t]]) \in Nat BY <3>2, LenProperties
        <5>2. pos[t] + 1 \in 1..Len(lists[found[t]]) BY <3>1, <3>3, <5>1
        <5> QED BY <3>2, <5>2, ElementOfSeq
      <4>2. Append(msg[t], lists[found[t]][pos[t] + 1]) \in Seq(Mods)
        BY <3>1, <4>1, AppendProperties
      <4>3. /\ msg' = [msg EXCEPT ![t] = Append(msg[t], lists[found[t]][pos[t] + 1])]
            /\ pos' = [pos EXCEPT ![t] = pos[t] + 1]
            /\ UNCHANGED <<pc, lists, dp_queued, work, found, queued, overlap>>
        BY <2>4, <3>3 DEF Copy
      <4> QED BY <3>1, <4>2, <4>3 DEF DTypeOK
    <3>4. CASE ~(pos[t] < Len(lists[found[t]]))
      BY <2>4, <3>4 DEF Copy, DTypeOK
    <3> QED BY <3>3, <3>4
  <2>5. ASSUME NEW t \in Threads, Reset(t) PROVE DTypeOK'
    <3>1. lists' = Append(lists, <<>>) /\ <<>> \in Seq(Mods)
      BY <2>5, EmptySeq DEF Reset
    <3>2. lists' \in Seq(Seq(Mods)) /\ Len(lists') = Len(lists) + 1
      <4> DEFINE S == Seq(Mods)
      <4>1. lists \in Seq(S) /\ <<>> \in S BY <2>0, <3>1
      <4> HIDE DEF S
      <4>2. lists' \in Seq(S) /\ Len(lists') = Len(lists) + 1
        BY <4>1, <3>1, AppendProperties
      <4> QED BY <4>2 DEF S
    <3>3. dp_queued' \in 1..Len(lists') /\ found' = found /\ found \in [Threads -> 1..Len(lists')]
      BY <2>0, <2>5, <3>2 DEF Reset, DTypeOK
    <3>4. pc' = [pc EXCEPT ![t] = "send"] /\ UNCHANGED <<work, pos, msg, queued, overlap>>
      BY <2>5 DEF Reset
    <3> QED BY <3>2, <3>3, <3>4 DEF DTypeOK
  <2>6. ASSUME NEW t \in Threads, Deliver(t) PROVE DTypeOK'
    BY <2>0, <2>6, EmptySeq DEF Deliver, DTypeOK
  <2>7. ASSUME NEW t \in Threads, NEW w \in Work[t], Start(t, w) PROVE DTypeOK'
    <3>1. w \in [batches : Seq(Seq(Mods)), always : BOOLEAN]
      BY DataPlaneAssumption DEF DataPlaneAssumption
    <3>2. overlap' \in BOOLEAN
      BY <2>7 DEF Start, DTypeOK
    <3> QED BY <2>7, <3>1, <3>2 DEF Start, DTypeOK
  <2>8. CASE UNCHANGED threadVars
    BY <2>8 DEF threadVars, DTypeOK
  <2> QED BY <2>1, <2>2, <2>3, <2>4, <2>5, <2>6, <2>7, <2>8 DEF DNext, ThreadStep, dvars
<1> QED BY DInitTypes, <1>1, PTL DEF DSpec

\* To the reference monitor every step of a thread is a message or nothing.
LEMMA ThreadsAreSenders == DTypeOK /\ [DNext]_dvars => [RNext]_rvars
<1> SUFFICES ASSUME DTypeOK, DNext PROVE [RNext]_rvars
  BY DEF dvars
<1>1. ASSUME NEW t \in Threads, Deliver(t) PROVE RNext
  <2>1. msg[t] \in Seq(Mods) /\ Arrive(msg[t])
    BY <1>1 DEF Deliver, DTypeOK
  <2> QED BY <2>1 DEF RNext
<1>2. ASSUME NEW t \in Threads, Find(t) \/ Extend(t) \/ Finish(t) \/ Copy(t) \/ Reset(t)
      PROVE  UNCHANGED rvars
  BY <1>2 DEF Find, Extend, Finish, Copy, Reset
<1>3. ASSUME NEW t \in Threads, NEW w \in Work[t], Start(t, w) PROVE UNCHANGED rvars
  BY <1>3 DEF Start
<1> QED BY <1>1, <1>2, <1>3 DEF DNext, ThreadStep, RNext

(***************************************************************************)
(* With a controller that sends the messages its threads build, the        *)
(* monitor is still the monitor: what is proved of it carries over.        *)
(***************************************************************************)
THEOREM ControllerUsesMonitor == DSpec => RSpec
<1>1. DInit => MonInit
  BY DEF DInit
<1> QED BY <1>1, ThreadTypes, ThreadsAreSenders, PTL DEF DSpec, RSpec

(***************************************************************************)
(* The flow mods a controller's threads send reach the switches in the     *)
(* order they arrived, each once, but for those that go ahead of what is   *)
(* caught up on.                                                           *)
(***************************************************************************)
THEOREM ControllerDelivers == DSpec => DeliversInOrder
BY ControllerUsesMonitor, MonitorDelivers

\* ... with the barriers it needs, over the connections that are up.
COROLLARY ControllerFences == DSpec => [](CommandsAreFenced /\ DatapathsAreCurrent)
BY ControllerUsesMonitor, MonitorFences, MonitorKnowsDatapaths, PTL

-----------------------------------------------------------------------------
(* Threads that take turns *)

\* What a step of the active thread starts from.
LEMMA AloneFacts ==
    ASSUME DInv, ~overlap, NEW t \in Threads, pc[t] # "idle"
    PROVE  /\ Active = {t} /\ OwnsList(t)
           /\ queued = arrived \o InHand(t)
           /\ arrived \in Seq(Mods) /\ lists[dp_queued] \in Seq(Mods)
           /\ \A u \in Threads \ {t} : pc[u] = "idle" /\ pos[u] = 0 /\ msg[u] = <<>>
<1>1. OneAtATime /\ t \in Active
  BY DEF DInv, Active
<1>2. OwnsList(t) /\ queued = arrived \o InHand(t)
  BY <1>1 DEF OneAtATime
<1>3. Active = {t}
  BY <1>1, <1>2 DEF OwnsList, Active
<1>4. \A u \in Threads \ {t} : pc[u] = "idle" /\ pos[u] = 0 /\ msg[u] = <<>>
  BY <1>1, <1>3 DEF OneAtATime, Active
<1>5. arrived \in Seq(Mods) /\ lists \in Seq(Seq(Mods)) /\ dp_queued \in 1..Len(lists)
  BY DEF DInv, RInv, RTypeOK, DTypeOK
<1>6. lists[dp_queued] \in Seq(Mods)
  BY <1>5, ElementOfSeq
<1> QED BY <1>2, <1>3, <1>4, <1>5, <1>6

\* What has to be shown of a step after which t is still active.
LEMMA StaysAlone ==
    ASSUME NEW t \in Threads, pc'[t] # "idle",
           \A u \in Threads \ {t} : pc'[u] = "idle" /\ pos'[u] = 0 /\ msg'[u] = <<>>,
           (OwnsList(t))', (queued = arrived \o InHand(t))'
    PROVE  OneAtATime'
<1>1. Active' = {t}
  BY DEF Active
<1> QED BY <1>1 DEF OneAtATime

LEMMA AloneFind == ASSUME DInv, ~overlap, NEW t \in Threads, Find(t) PROVE OneAtATime'
<1>1. pc[t] = "queue" /\ pc' = [pc EXCEPT ![t] = "extend"] /\ found' = [found EXCEPT ![t] = dp_queued]
      /\ UNCHANGED <<arrived, lists, dp_queued, pos, msg, queued>>
  BY DEF Find, rvars
<1>2. /\ OwnsList(t) /\ queued = arrived \o InHand(t)
      /\ \A u \in Threads \ {t} : pc[u] = "idle" /\ pos[u] = 0 /\ msg[u] = <<>>
  BY <1>1, AloneFacts
<1>3. pc'[t] = "extend" /\ found'[t] = dp_queued' /\ \A u \in Threads \ {t} : pc'[u] = pc[u]
  BY <1>1 DEF DInv, DTypeOK
<1>4. (OwnsList(t))'
  BY <1>1, <1>2, <1>3 DEF OwnsList, Active
<1>5. (queued = arrived \o InHand(t))'
  BY <1>1, <1>2, <1>3 DEF InHand
<1> QED BY <1>1, <1>2, <1>3, <1>4, <1>5, StaysAlone

LEMMA AloneExtend == ASSUME DInv, DTypeOK', ~overlap, NEW t \in Threads, Extend(t) PROVE OneAtATime'
<1> DEFINE b == Head(work[t].batches)
           old == lists[dp_queued]
<1>1. /\ pc[t] = "extend" /\ pc' = [pc EXCEPT ![t] = "queue"]
      /\ lists' = [lists EXCEPT ![found[t]] = lists[found[t]] \o b] /\ queued' = queued \o b
      /\ UNCHANGED <<arrived, dp_queued, found, pos, msg>>
  BY DEF Extend, rvars
<1>2. /\ OwnsList(t) /\ queued = arrived \o InHand(t) /\ arrived \in Seq(Mods) /\ old \in Seq(Mods)
      /\ \A u \in Threads \ {t} : pc[u] = "idle" /\ pos[u] = 0 /\ msg[u] = <<>>
  BY <1>1, AloneFacts
<1>3. pc'[t] = "queue" /\ \A u \in Threads \ {t} : pc'[u] = pc[u]
  BY <1>1 DEF DInv, DTypeOK
<1>4. found[t] = dp_queued /\ pos[t] = 0 /\ msg[t] = <<>> /\ queued = arrived \o old
  BY <1>1, <1>2 DEF OwnsList, InHand
<1>5. b \in Seq(Mods)
  <2> DEFINE bs == work[t].batches
             S == Seq(Mods)
  <2>1. bs \in Seq(S) /\ bs # <<>>
    BY <1>1 DEF DInv, DTypeOK
  <2> HIDE DEF bs, S
  <2>2. Head(bs) \in S
    BY <2>1, HeadTailProperties
  <2> QED BY <2>2 DEF bs, S
<1>6. lists'[dp_queued'] = old \o b
  <2>1. dp_queued \in DOMAIN lists
    BY DEF DInv, DTypeOK
  <2> HIDE DEF b
  <2> QED BY <1>1, <1>4, <2>1
<1>7. queued' = arrived' \o (old \o b)
  <2> HIDE DEF b, old
  <2>1. (arrived \o old) \o b = arrived \o (old \o b)
    <3>1. arrived \in Seq(Mods) /\ old \in Seq(Mods) /\ b \in Seq(Mods)
      BY <1>2, <1>5
    <3> QED BY ONLY <3>1, ConcatAssociative, SMTT(60)
  <2> QED BY <1>1, <1>4, <2>1
<1>8. (OwnsList(t))'
  BY <1>1, <1>2, <1>3, <1>4 DEF OwnsList, Active
<1>9. (queued = arrived \o InHand(t))'
  BY <1>3, <1>6, <1>7 DEF InHand
<1> QED BY <1>1, <1>2, <1>3, <1>8, <1>9, StaysAlone

LEMMA AloneFinish == ASSUME DInv, ~overlap, NEW t \in Threads, Finish(t) PROVE OneAtATime'
<1>1. pc[t] = "queue" /\ UNCHANGED <<arrived, lists, dp_queued, pos, msg, queued>>
  BY DEF Finish, rvars
<1>2. /\ OwnsList(t) /\ queued = arrived \o InHand(t) /\ arrived \in Seq(Mods)
      /\ \A u \in Threads \ {t} : pc[u] = "idle" /\ pos[u] = 0 /\ msg[u] = <<>>
  BY <1>1, AloneFacts
<1>3. pos[t] = 0 /\ msg[t] = <<>> /\ queued = arrived \o lists[dp_queued]
  BY <1>1, <1>2 DEF OwnsList, InHand
<1>4. CASE work[t].always \/ lists[dp_queued] # <<>>
  <2>1. pc' = [pc EXCEPT ![t] = "copy"] /\ found' = [found EXCEPT ![t] = dp_queued]
    BY <1>4 DEF Finish
  <2>2. pc'[t] = "copy" /\ found'[t] = dp_queued' /\ \A u \in Threads \ {t} : pc'[u] = pc[u]
    BY <1>1, <2>1 DEF DInv, DTypeOK
  <2>3. lists[dp_queued] \in Seq(Mods)
    BY <1>1, AloneFacts
  <2>4. /\ pos'[t] <= Len(lists'[dp_queued'])
        /\ msg'[t] = SubSeq(lists'[dp_queued'], 1, pos'[t])
    <3>1. Len(lists[dp_queued]) \in Nat
      BY <2>3, LenProperties
    <3>2. SubSeq(lists[dp_queued], 1, 0) = <<>>
      BY <2>3
    <3> QED BY <1>1, <1>3, <3>1, <3>2
  <2>5. (OwnsList(t))'
    BY <1>1, <1>2, <2>2, <2>4 DEF OwnsList, Active
  <2>6. (queued = arrived \o InHand(t))'
    BY <1>1, <1>3, <2>2 DEF InHand
  <2> QED BY <1>1, <1>2, <2>2, <2>5, <2>6, StaysAlone
<1>5. CASE ~(work[t].always \/ lists[dp_queued] # <<>>)
  <2>1. pc' = [pc EXCEPT ![t] = "idle"] /\ lists[dp_queued] = <<>>
    BY <1>5 DEF Finish
  <2>2. \A u \in Threads : pc'[u] = "idle"
    BY <1>1, <1>2, <2>1 DEF DInv, DTypeOK
  <2>3. queued = arrived
    BY <1>2, <1>3, <2>1, ConcatEmptySeq
  <2> QED BY <1>1, <1>2, <1>3, <2>1, <2>2, <2>3 DEF OneAtATime, Active
<1> QED BY <1>4, <1>5

LEMMA AloneCopy == ASSUME DInv, ~overlap, NEW t \in Threads, Copy(t) PROVE OneAtATime'
<1> DEFINE l == lists[dp_queued]
<1>1. pc[t] = "copy" /\ UNCHANGED <<arrived, lists, dp_queued, found, queued>>
  BY DEF Copy, rvars
<1>2. /\ OwnsList(t) /\ queued = arrived \o InHand(t) /\ l \in Seq(Mods)
      /\ \A u \in Threads \ {t} : pc[u] = "idle" /\ pos[u] = 0 /\ msg[u] = <<>>
  BY <1>1, AloneFacts
<1>3. /\ found[t] = dp_queued /\ queued = arrived \o l /\ pos[t] \in Nat /\ Len(l) \in Nat
      /\ pos[t] <= Len(l) /\ msg[t] = SubSeq(l, 1, pos[t])
  <2>1. Len(l) \in Nat
    BY <1>2, LenProperties
  <2> QED BY <1>1, <1>2, <2>1 DEF OwnsList, InHand, DInv, DTypeOK
<1>4. CASE pos[t] < Len(l)
  <2>1. /\ pc' = pc /\ pos' = [pos EXCEPT ![t] = pos[t] + 1]
        /\ msg' = [msg EXCEPT ![t] = Append(msg[t], l[pos[t] + 1])]
    BY <1>3, <1>4 DEF Copy
  <2>2. /\ pos'[t] = pos[t] + 1 /\ msg'[t] = Append(msg[t], l[pos[t] + 1])
        /\ \A u \in Threads \ {t} : pos'[u] = pos[u] /\ msg'[u] = msg[u]
    BY <2>1 DEF DInv, DTypeOK
  <2>3. msg'[t] = SubSeq(l, 1, pos[t] + 1)
    <3> DEFINE n == pos[t]
    <3>1. n \in Nat /\ n + 1 \in 1..Len(l) /\ l \in Seq(Mods)
      BY <1>2, <1>3, <1>4
    <3> HIDE DEF l, n
    <3>2. SubSeq(l, 1, n + 1) = Append(SubSeq(l, 1, n), l[n + 1])
      <4> DEFINE p == SubSeq(l, 1, n)
                 q == SubSeq(l, 1, n + 1)
      <4>1. \A i \in 1..Len(l) : l[i] \in Mods
        BY <3>1, ElementOfSeq
      <4>2. Len(l) \in Nat
        BY <3>1, LenProperties
      <4>3. /\ p \in Seq(Mods) /\ Len(p) = n /\ \A i \in 1..n : p[i] = l[i]
        BY <3>1, <4>1, <4>2, SubSeqProperties
      <4>4. /\ q \in Seq(Mods) /\ Len(q) = n + 1 /\ \A i \in 1..n + 1 : q[i] = l[i]
        BY <3>1, <4>1, <4>2, SubSeqProperties
      <4>5. l[n + 1] \in Mods
        BY <3>1, <4>1
      <4> HIDE DEF p, q
      <4>6. /\ Append(p, l[n + 1]) \in Seq(Mods) /\ Len(Append(p, l[n + 1])) = n + 1
            /\ \A i \in 1..n + 1 : Append(p, l[n + 1])[i] = l[i]
        BY <3>1, <4>3, <4>5
      <4>7. q = Append(p, l[n + 1])
        BY <4>4, <4>6, SeqEqual
      <4> QED BY <4>7 DEF p, q
    <3> QED BY <1>3, <2>2, <3>2 DEF n
  <2>4. (OwnsList(t))'
    <3>1. pos'[t] <= Len(lists'[dp_queued']) /\ msg'[t] = SubSeq(lists'[dp_queued'], 1, pos'[t])
      <4> HIDE DEF l
      <4>1. pos'[t] = pos[t] + 1
        BY <2>2
      <4>2. msg'[t] = SubSeq(l, 1, pos'[t])
        BY ONLY <2>3, <4>1
      <4>3. pos[t] \in Nat /\ Len(l) \in Nat
        BY <1>3
      <4>4. pos'[t] <= Len(l)
        BY ONLY <1>4, <4>1, <4>3
      <4> QED BY <1>1, <4>2, <4>4 DEF l
    <3>2. pc'[t] = "copy" /\ found'[t] = dp_queued' /\ Active' = {t}
      BY <1>1, <1>2, <1>3, <2>1 DEF Active
    <3> QED BY <3>1, <3>2 DEF OwnsList
  <2>5. (queued = arrived \o InHand(t))'
    BY <1>1, <1>3, <2>1 DEF InHand
  <2> QED BY <1>1, <1>2, <2>1, <2>2, <2>4, <2>5, StaysAlone
<1>5. CASE ~(pos[t] < Len(l))
  <2>1. pc' = [pc EXCEPT ![t] = "reset"] /\ UNCHANGED <<pos, msg>>
    BY <1>3, <1>5 DEF Copy
  <2>2. pc'[t] = "reset" /\ \A u \in Threads \ {t} : pc'[u] = pc[u]
    BY <2>1 DEF DInv, DTypeOK
  <2>3. msg[t] = l
    <3>1. pos[t] = Len(l)
      BY <1>3, <1>5
    <3>2. SubSeq(l, 1, Len(l)) = l
      BY <1>2, SubSeqProperties, SeqEqual, ElementOfSeq, LenProperties
    <3> QED BY <1>3, <3>1, <3>2
  <2>4. (OwnsList(t))'
    BY <1>1, <1>2, <1>3, <2>2 DEF OwnsList, Active
  <2>5. (queued = arrived \o InHand(t))'
    BY <1>1, <1>3, <2>1, <2>2, <2>3 DEF InHand
  <2> QED BY <1>1, <1>2, <2>1, <2>2, <2>4, <2>5, StaysAlone
<1> QED BY <1>4, <1>5

LEMMA AloneReset == ASSUME DInv, ~overlap, NEW t \in Threads, Reset(t) PROVE OneAtATime'
<1>1. /\ pc[t] = "reset" /\ pc' = [pc EXCEPT ![t] = "send"]
      /\ lists' = Append(lists, <<>>) /\ dp_queued' = Len(lists) + 1
      /\ UNCHANGED <<arrived, found, pos, msg, queued>>
  BY DEF Reset, rvars
<1>2. /\ OwnsList(t) /\ queued = arrived \o InHand(t)
      /\ \A u \in Threads \ {t} : pc[u] = "idle" /\ pos[u] = 0 /\ msg[u] = <<>>
  BY <1>1, AloneFacts
<1>3. pc'[t] = "send" /\ \A u \in Threads \ {t} : pc'[u] = pc[u]
  BY <1>1 DEF DInv, DTypeOK
<1>4. lists'[dp_queued'] = <<>>
  <2> DEFINE S == Seq(Mods)
  <2>1. lists \in Seq(S) /\ <<>> \in S
    BY EmptySeq DEF DInv, DTypeOK
  <2> HIDE DEF S
  <2> QED BY <1>1, <2>1, AppendProperties
<1>5. (OwnsList(t))'
  BY <1>2, <1>3, <1>4 DEF OwnsList, Active
<1>6. (queued = arrived \o InHand(t))'
  BY <1>1, <1>2, <1>3 DEF InHand
<1> QED BY <1>1, <1>2, <1>3, <1>5, <1>6, StaysAlone

LEMMA AloneDeliver == ASSUME DInv, ~overlap, NEW t \in Threads, Deliver(t) PROVE OneAtATime'
<1>1. /\ pc[t] = "send" /\ pc' = [pc EXCEPT ![t] = "idle"]
      /\ pos' = [pos EXCEPT ![t] = 0] /\ msg' = [msg EXCEPT ![t] = <<>>]
      /\ arrived' = arrived \o msg[t] /\ UNCHANGED <<lists, dp_queued, queued>>
  BY DEF Deliver, Arrive
<1>2. /\ OwnsList(t) /\ queued = arrived \o InHand(t)
      /\ \A u \in Threads \ {t} : pc[u] = "idle" /\ pos[u] = 0 /\ msg[u] = <<>>
  BY <1>1, AloneFacts
<1>3. \A u \in Threads : pc'[u] = "idle" /\ pos'[u] = 0 /\ msg'[u] = <<>>
  BY <1>1, <1>2 DEF DInv, DTypeOK
<1>4. lists[dp_queued] = <<>> /\ queued = arrived \o msg[t]
  BY <1>1, <1>2 DEF OwnsList, InHand
<1> QED BY <1>1, <1>3, <1>4 DEF OneAtATime, Active

LEMMA AloneStart ==
    ASSUME DInv, ~overlap', NEW t \in Threads, NEW w \in Work[t], Start(t, w)
    PROVE  ~overlap /\ OneAtATime'
<1>1. /\ pc' = [pc EXCEPT ![t] = "queue"] /\ ~overlap /\ \A u \in Threads : pc[u] = "idle"
      /\ UNCHANGED <<arrived, lists, dp_queued, found, pos, msg, queued>>
  BY DEF Start, rvars
<1>2. OneAtATime /\ Active = {}
  BY <1>1 DEF DInv, Active
<1>3. /\ arrived = queued /\ lists[dp_queued] = <<>> /\ arrived \in Seq(Mods)
      /\ \A u \in Threads : pos[u] = 0 /\ msg[u] = <<>>
  BY <1>2 DEF OneAtATime, DInv, RInv, RTypeOK
<1>4. pc'[t] = "queue" /\ \A u \in Threads \ {t} : pc'[u] = pc[u]
  BY <1>1 DEF DInv, DTypeOK
<1>5. (OwnsList(t))'
  BY <1>1, <1>3, <1>4 DEF OwnsList, Active
<1>6. (queued = arrived \o InHand(t))'
  <2>1. arrived \o <<>> = arrived
    BY <1>3, ConcatEmptySeq
  <2> QED BY <1>1, <1>3, <1>4, <2>1 DEF InHand
<1> QED BY <1>1, <1>3, <1>4, <1>5, <1>6, StaysAlone

(***************************************************************************)
(* For every set of events: while no event was worked on during another,   *)
(* no flow mod is lost, sent twice or out of order.                        *)
(***************************************************************************)
THEOREM NothingLost == DSpec => []NothingLostAlone
<1>1. DInit => DInv
  <2> SUFFICES ASSUME DInit PROVE (DTypeOK => DInv)
    BY DInitTypes
  <2>1. RInv
    BY MonInitInv DEF DInit
  <2>2. OneAtATime
    BY DEF DInit, OneAtATime, Active, MonInit
  <2> QED BY <2>1, <2>2 DEF DInv
<1>2. DInv /\ DTypeOK' /\ [DNext]_dvars => DInv'
  <2> SUFFICES ASSUME DInv, DTypeOK', [DNext]_dvars, ~overlap' PROVE OneAtATime'
    BY ThreadsAreSenders, MonInductive DEF DInv
  <2>1. ASSUME NEW t \in Threads, ThreadStep(t) PROVE OneAtATime'
    <3>1. ~overlap
      BY <2>1 DEF ThreadStep, Find, Extend, Finish, Copy, Reset, Deliver
    <3> QED BY <2>1, <3>1, AloneFind, AloneExtend, AloneFinish, AloneCopy, AloneReset,
               AloneDeliver DEF ThreadStep
  <2>2. ASSUME NEW t \in Threads, NEW w \in Work[t], Start(t, w) PROVE OneAtATime'
    BY <2>2, AloneStart
  <2>3. CASE UNCHANGED <<threadVars, arrived>>
    BY <2>3 DEF threadVars, DInv, OneAtATime, OwnsList, InHand, Active
  <2>4. (MonStep \/ SwitchStep) => UNCHANGED arrived
    BY DEF MonStep, AppStep, HandleMain, InitFabric, Flush, HandleDead, ProcessFlowMod, SendBarrier,
         SendMod, SwitchStep, SwitchUp, SwitchDown
  <2> QED BY <2>1, <2>2, <2>3, <2>4 DEF DNext, dvars, rvars
<1>3. DInv => NothingLostAlone
  BY DEF DInv, OneAtATime, NothingLostAlone
<1> QED BY <1>1, <1>2, <1>3, ThreadTypes, PTL DEF DSpec
=============================================================================
