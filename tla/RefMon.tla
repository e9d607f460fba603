------------------------------- MODULE RefMon -------------------------------
(***************************************************************************)
(* The reference monitor in multi-switch mode (flanc/): controllers send   *)
(* it flow mods, each message over a connection of its own; the server's   *)
(* greenlet takes them to the switches.  Until all switches are connected  *)
(* flow mods wait in fm_queue; the greenlet of the ryu app, on connecting  *)
(* the last one, installs the table-miss entries and sends what waits.     *)
(*                                                                         *)
(* Flow mods are known by their place in `arrived`; `inbox` is the         *)
(* server's queue, its messages taken apart.  Switches connect and lose    *)
(* their connections; ryu reports both as events that the app's greenlet   *)
(* handles in order.  A switch that restarts may be back before the end of *)
(* its old connection is noticed.                                          *)
(*                                                                         *)
(* ryu queues at most 16 messages for a switch, and a greenlet that sends  *)
(* one more yields.  So each message to a switch, the barrier and the flow *)
(* mod alike, is a step, and the other greenlet may run before any of them.*)
(***************************************************************************)
EXTENDS Naturals, Sequences, FiniteSets

CONSTANTS
    Mods,          \* flow mods: [kind, dst]
    Switches,      \* fabric options: dpids
    NoSession,
    MaxSessions,   \* bound: connections the switches make
    MaxPending     \* bound: state changes not yet handled

ASSUME RefMonAssumption ==
    /\ Switches # {}
    /\ Mods \subseteq [kind : {"insert", "remove"}, dst : Switches]
    /\ MaxSessions \in Nat /\ MaxPending \in Nat
    /\ NoSession \notin Nat

VARIABLES
    always_ready,  \* a flag of the configuration: do not wait for the switches
    inbox,         \* Server.queue
    serving,       \* the server's greenlet is alive
    fm_queue,      \* flow mods that wait for the switches
    datapaths,     \* config.datapaths: the session of each switch, or NoSession
    flushing,      \* the app's greenlet is in init_fabric or empties fm_queue
    greeting,      \* switches that init_fabric has not sent their table-miss entry yet
    hand,          \* the flow mod each greenlet is about to send: [n, session, barrier]
    last_command,  \* last_command_type: the kind last sent to a switch, or "none"
    conns,         \* connections whose end was not noticed yet: [sw, id]
    events,        \* what ryu has not reported yet: [state, sw, id]
    sessions,      \* connections made so far
    arrived,       \* history: flow mods that reached the server
    sent,          \* history: flow mods put on connections: [n, session, fenced]
    barriers,      \* history: connections with a barrier after their last flow mod
    misses,        \* history: connections with a table-miss entry
    crossed        \* history: connections two greenlets were sending on at a time

sendVars == <<hand, last_command, crossed>>
wireVars == <<sent, barriers, misses>>
switchVars == <<conns, events, sessions>>
rvars == <<always_ready, inbox, serving, fm_queue, datapaths, flushing, greeting, arrived,
           switchVars, sendVars, wireVars>>

Greenlets == {"app", "server"}
Nothing == [n |-> 0, session |-> NoSession, barrier |-> FALSE]

MonInit ==
    /\ always_ready \in BOOLEAN
    /\ inbox = <<>> /\ arrived = <<>> /\ serving = TRUE
    /\ fm_queue = <<>>
    /\ datapaths = [s \in Switches |-> NoSession]
    /\ flushing = FALSE /\ greeting = {}
    /\ hand = [g \in Greenlets |-> Nothing]
    /\ last_command = [s \in Switches |-> "none"]
    /\ conns = {} /\ events = <<>> /\ sessions = 0
    /\ sent = <<>> /\ barriers = {} /\ misses = {} /\ crossed = {}

-----------------------------------------------------------------------------
(* The switches and ryu *)

\* The handshake of a new connection is done: MAIN_DISPATCHER.
SwitchUp(s) ==
    /\ sessions < MaxSessions /\ Len(events) < MaxPending
    /\ sessions' = sessions + 1
    /\ conns' = conns \cup {[sw |-> s, id |-> sessions + 1]}
    /\ events' = Append(events, [state |-> "main", sw |-> s, id |-> sessions + 1])
    /\ UNCHANGED <<always_ready, inbox, serving, fm_queue, datapaths, flushing, greeting,
                   arrived, sendVars, wireVars>>

\* The end of a connection is noticed: DEAD_DISPATCHER.
SwitchDown(c) ==
    /\ Len(events) < MaxPending
    /\ conns' = conns \ {c}
    /\ events' = Append(events, [state |-> "dead", sw |-> c.sw, id |-> c.id])
    /\ UNCHANGED <<always_ready, inbox, serving, fm_queue, datapaths, flushing, greeting,
                   arrived, sessions, sendVars, wireVars>>

-----------------------------------------------------------------------------
(* Sending a flow mod: the end of process_flow_mod *)

\* is_ready
Ready == always_ready \/ \A s \in Switches : datapaths[s] # NoSession

Busy(g) == hand[g] # Nothing

\* Slip: one last command for all switches.
TakeGlobalFence(g, n) ==
    LET m == arrived[n]
        session == datapaths[m.dst]
    IN /\ hand' = [hand EXCEPT ![g] = [n |-> n, session |-> session,
                                      barrier |-> last_command[m.dst] # m.kind]]
       /\ last_command' = [s \in Switches |-> m.kind]
       /\ crossed' = IF \E f \in Greenlets \ {g} : Busy(f) /\ hand[f].session = session
                     THEN crossed \cup {session} ELSE crossed

\* The connection is looked up, and whether the kind of command changes, which takes a
\* barrier.
Take(g, n) ==
    LET m == arrived[n]
        session == datapaths[m.dst]
    IN /\ hand' = [hand EXCEPT ![g] = [n |-> n, session |-> session,
                                      barrier |-> last_command[m.dst] # m.kind]]
       /\ last_command' = [last_command EXCEPT ![m.dst] = m.kind]
       /\ crossed' = IF \E f \in Greenlets \ {g} : Busy(f) /\ hand[f].session = session
                     THEN crossed \cup {session} ELSE crossed

\* send_msg of the barrier ...
SendBarrier(g) ==
    /\ Busy(g) /\ hand[g].barrier
    /\ hand' = [hand EXCEPT ![g].barrier = FALSE]
    /\ barriers' = barriers \cup {hand[g].session}
    /\ UNCHANGED <<always_ready, inbox, serving, fm_queue, datapaths, flushing, greeting,
                   arrived, switchVars, last_command, crossed, sent, misses>>

\* ... and of the flow mod.
SendMod(g) ==
    /\ Busy(g) /\ ~hand[g].barrier
    /\ hand' = [hand EXCEPT ![g] = Nothing]
    /\ sent' = Append(sent, [n |-> hand[g].n, session |-> hand[g].session,
                             fenced |-> hand[g].session \in barriers])
    /\ barriers' = barriers \ {hand[g].session}
    /\ UNCHANGED <<always_ready, inbox, serving, fm_queue, datapaths, flushing, greeting,
                   arrived, switchVars, last_command, crossed, misses>>

-----------------------------------------------------------------------------
(* The app's greenlet *)

NextEvent(state) ==
    /\ ~flushing /\ ~Busy("app")
    /\ events # <<>> /\ Head(events).state = state
    /\ events' = Tail(events)

\* switch_connect
HandleMain ==
    /\ NextEvent("main")
    /\ datapaths' = [datapaths EXCEPT ![Head(events).sw] = Head(events).id]
    /\ UNCHANGED <<always_ready, inbox, serving, fm_queue, arrived, conns, sessions,
                   sendVars, wireVars>>
    /\ flushing' = Ready'
    /\ greeting' = IF Ready' THEN {s \in Switches : datapaths'[s] # NoSession} ELSE {}

\* Slip: init_fabric notes its command as the last one.
InitFabricNotes(s) ==
    /\ s \in greeting
    /\ greeting' = greeting \ {s}
    /\ misses' = misses \cup {datapaths[s]}
    /\ last_command' = [last_command EXCEPT ![s] = "insert"]
    /\ UNCHANGED <<always_ready, inbox, serving, fm_queue, datapaths, flushing, arrived,
                   switchVars, hand, crossed, sent, barriers>>

\* ... init_fabric: every switch is sent its table-miss entry, without a barrier and
\* without a note of it in last_command_type.
InitFabric(s) ==
    /\ s \in greeting
    /\ greeting' = greeting \ {s}
    /\ misses' = misses \cup {datapaths[s]}
    /\ UNCHANGED <<always_ready, inbox, serving, fm_queue, datapaths, flushing, arrived,
                   switchVars, sendVars, sent, barriers>>

\* Slip: fm_queue is emptied from the wrong end.
FlushNewest ==
    /\ flushing /\ greeting = {} /\ ~Busy("app")
    /\ \/ /\ fm_queue # <<>>
          /\ Take("app", fm_queue[Len(fm_queue)])
          /\ fm_queue' = SubSeq(fm_queue, 1, Len(fm_queue) - 1)
          /\ UNCHANGED flushing
       \/ /\ fm_queue = <<>>
          /\ flushing' = FALSE
          /\ UNCHANGED <<fm_queue, sendVars>>
    /\ UNCHANGED <<always_ready, inbox, serving, datapaths, greeting, arrived, switchVars,
                   wireVars>>

\* ... and the loop over fm_queue.
Flush ==
    /\ flushing /\ greeting = {} /\ ~Busy("app")
    /\ \/ /\ fm_queue # <<>>
          /\ Take("app", Head(fm_queue))
          /\ fm_queue' = Tail(fm_queue)
          /\ UNCHANGED flushing
       \/ /\ fm_queue = <<>>
          /\ flushing' = FALSE
          /\ UNCHANGED <<fm_queue, sendVars>>
    /\ UNCHANGED <<always_ready, inbox, serving, datapaths, greeting, arrived, switchVars,
                   wireVars>>

\* Slip: the end of a connection is not noted.
HandleDeadIgnored ==
    /\ NextEvent("dead")
    /\ UNCHANGED <<always_ready, inbox, serving, fm_queue, datapaths, flushing, greeting,
                   arrived, conns, sessions, sendVars, wireVars>>

\* switch_disconnect deletes the switch by its name, whichever of its connections
\* ended; when it is not there the KeyError stays in the handler.
HandleDead ==
    /\ NextEvent("dead")
    /\ datapaths' = [datapaths EXCEPT ![Head(events).sw] = NoSession]
    /\ UNCHANGED <<always_ready, inbox, serving, fm_queue, flushing, greeting, arrived,
                   conns, sessions, sendVars, wireVars>>

-----------------------------------------------------------------------------
(* The server's greenlet *)

\* process_flow_mod.  is_ready does not tell whether fm_queue is empty.  With
\* always_ready the switch may be missing: a KeyError ends the greenlet.
ProcessFlowMod ==
    /\ serving /\ ~Busy("server") /\ inbox # <<>>
    /\ inbox' = Tail(inbox)
    /\ \/ /\ ~Ready
          /\ fm_queue' = Append(fm_queue, Head(inbox))
          /\ UNCHANGED <<serving, sendVars>>
       \/ /\ Ready /\ datapaths[arrived[Head(inbox)].dst] # NoSession
          /\ Take("server", Head(inbox))
          /\ UNCHANGED <<serving, fm_queue>>
       \/ /\ Ready /\ datapaths[arrived[Head(inbox)].dst] = NoSession
          /\ serving' = FALSE
          /\ UNCHANGED <<fm_queue, sendVars>>
    /\ UNCHANGED <<always_ready, datapaths, flushing, greeting, arrived, switchVars, wireVars>>

\* A controller's message reaches the server.
Arrive(ms) ==
    /\ inbox' = inbox \o [i \in 1..Len(ms) |-> Len(arrived) + i]
    /\ arrived' = arrived \o ms
    /\ UNCHANGED <<always_ready, serving, fm_queue, datapaths, flushing, greeting,
                   switchVars, sendVars, wireVars>>

-----------------------------------------------------------------------------

AppStep == HandleMain \/ (\E s \in Switches : InitFabric(s)) \/ Flush \/ HandleDead

MonStep ==
    \/ AppStep \/ ProcessFlowMod
    \/ \E g \in Greenlets : SendBarrier(g) \/ SendMod(g)

SwitchStep == (\E s \in Switches : SwitchUp(s)) \/ (\E c \in conns : SwitchDown(c))

RNext == MonStep \/ SwitchStep \/ \E ms \in Seq(Mods) : Arrive(ms)

RSpec == MonInit /\ [][RNext]_rvars

-----------------------------------------------------------------------------

(***************************************************************************)
(* Whatever switches come and go, flow mods are handed to them in the      *)
(* order they arrived, each once.  Only while the app's greenlet catches   *)
(* up with fm_queue may the server's greenlet, which does not look at that *)
(* queue, hand out newer ones first, and those in order too.               *)
(***************************************************************************)
Handed == [i \in DOMAIN sent |-> sent[i].n]

Delivery == INSTANCE OrderedDelivery
            WITH asked <- arrived, applied <- Handed, catching <- flushing

DeliversInOrder == Delivery!Spec

(***************************************************************************)
(* A switch may reorder what is between two barriers.  A removal and an    *)
(* insertion of controllers that follow each other on one connection, in   *)
(* either order, have a barrier between them, unless two greenlets were    *)
(* ever sending on that connection at a time: then the barrier of the one  *)
(* may be used up by the other.  The table-miss entries (misses) have no   *)
(* barriers at all, and leave those of the controllers' flow mods alone.   *)
(***************************************************************************)
KindSent(i) == arrived[sent[i].n].kind

CommandsAreFenced ==
    \A i, j \in DOMAIN sent :
        /\ i < j
        /\ sent[i].session = sent[j].session /\ sent[j].session \notin crossed
        /\ KindSent(i) # KindSent(j)
        => \E k \in (i + 1)..j : sent[k].session = sent[j].session /\ sent[k].fenced

(***************************************************************************)
(* Once ryu has reported everything, the connection a flow mod would be    *)
(* sent over is the last one its switch made, and it is up.                *)
(***************************************************************************)
DatapathsAreCurrent ==
    events = <<>> => \A s \in Switches : datapaths[s] # NoSession =>
        /\ [sw |-> s, id |-> datapaths[s]] \in conns
        /\ \A c \in conns : c.sw = s => c.id <= datapaths[s]

(***************************************************************************)
(* The inductive invariant behind DeliversInOrder (DataPlane_proofs): the  *)
(* types; which flow mods are where, those of the server being newer than  *)
(* those that wait; and that nothing waits or is under way in the app's    *)
(* greenlet but while it catches up.                                       *)
(***************************************************************************)
RTypeOK ==
    /\ always_ready \in BOOLEAN /\ serving \in BOOLEAN /\ flushing \in BOOLEAN
    /\ arrived \in Seq(Mods)
    /\ inbox \in Seq(Nat) /\ fm_queue \in Seq(Nat)
    /\ datapaths \in [Switches -> Nat \cup {NoSession}]
    /\ greeting \subseteq Switches
    /\ hand \in [Greenlets ->
                    [n : Nat, session : Nat \cup {NoSession}, barrier : BOOLEAN]]
    /\ \A g \in Greenlets : hand[g].n = 0 => hand[g] = Nothing
    /\ last_command \in [Switches -> {"none", "insert", "remove"}]
    /\ conns \subseteq [sw : Switches, id : Nat]
    /\ events \in Seq([state : {"main", "dead"}, sw : Switches, id : Nat])
    /\ sessions \in Nat
    /\ sent \in Seq([n : Nat, session : Nat \cup {NoSession}, fenced : BOOLEAN])
    /\ barriers \subseteq Nat \cup {NoSession}
    /\ misses \subseteq Nat \cup {NoSession}
    /\ crossed \subseteq Nat \cup {NoSession}

\* How many flow mods were taken from the server's queue, and which of them wait or are
\* being sent.
Taken == Len(arrived) - Len(inbox)
Waiting == {fm_queue[i] : i \in DOMAIN fm_queue}
UnderWay == {hand[g].n : g \in Greenlets} \ {0}

QueuesInOrder ==
    /\ Len(inbox) <= Len(arrived)
    /\ \A i \in DOMAIN inbox : inbox[i] = Taken + i
    /\ \A i \in DOMAIN fm_queue : fm_queue[i] \in 1..Taken
    /\ \A i, j \in DOMAIN fm_queue : i < j => fm_queue[i] < fm_queue[j]
    /\ hand["server"].n # 0 => hand["server"].n = Taken /\ Taken \notin Waiting
    /\ hand["app"].n # 0 =>
          /\ hand["app"].n \in 1..Taken /\ hand["app"].n # hand["server"].n
          /\ \A n \in Waiting : hand["app"].n < n

\* A flow mod is lost with the server's greenlet.
EachOnce ==
    /\ Delivery!Given \subseteq 1..Taken
    /\ Delivery!Given \cap (Waiting \cup UnderWay) = {}
    /\ 1..Taken \subseteq Delivery!Given \cup Waiting \cup UnderWay
                           \cup (IF serving THEN {} ELSE {Taken})

CatchesUp ==
    /\ flushing => Ready
    /\ ~flushing => ~Busy("app") /\ greeting = {}
    /\ ~flushing /\ (Ready \/ Busy("server")) => fm_queue = <<>>
    /\ always_ready => fm_queue = <<>> /\ ~Busy("app")
    /\ ~serving => always_ready /\ ~Busy("server")

RInv == RTypeOK /\ QueuesInOrder /\ EachOnce /\ CatchesUp
=============================================================================
