------------------------------ MODULE DataPlane ------------------------------
(***************************************************************************)
(* How a participant controller gets its flow mods to the reference        *)
(* monitor.  Two threads work on one controller without a lock: the event  *)
(* thread (BGP updates, fast reroute) and the policy thread, which serves  *)
(* the participant's policy changes.  Each puts flow mods on the list      *)
(* dp_queued and calls push_dp, which copies the list into a message,      *)
(* replaces the list by an empty one and sends the message.                *)
(*                                                                         *)
(* A thread may be interrupted between any two of those accesses.  Lists   *)
(* are objects: `extend` works on the object it found, whatever dp_queued  *)
(* names by then, and the copying loop sees what others append.            *)
(***************************************************************************)
EXTENDS RefMon

CONSTANTS
    Threads,
    Work,        \* what each thread may do in one event: [batches, always], the lists
                 \* it appends one after the other and whether it pushes even if the
                 \* queue is empty (policy changes, fast reroute)
    MaxActive,   \* bound: threads at work at a time
    MaxMods      \* bound: flow mods queued

ASSUME DataPlaneAssumption ==
    /\ \A t \in Threads : Work[t] \subseteq [batches : Seq(Seq(Mods)), always : BOOLEAN]
    /\ MaxActive \in Nat /\ MaxMods \in Nat

VARIABLES
    lists,       \* the list objects made so far
    dp_queued,   \* the index of the current one
    pc,          \* of each thread
    work,        \* what is left of its event
    found,       \* the list object it works on
    pos,         \* how far its loop is
    msg,         \* the message it builds
    queued,      \* history: flow mods in the order they were queued
    overlap      \* history: a thread started while another was at work

threadVars == <<lists, dp_queued, pc, work, found, pos, msg, queued, overlap>>
dvars == <<rvars, threadVars>>

NoWork == [batches |-> <<>>, always |-> FALSE]

DInit ==
    /\ MonInit
    /\ lists = <<<<>>>> /\ dp_queued = 1
    /\ pc = [t \in Threads |-> "idle"]
    /\ work = [t \in Threads |-> NoWork]
    /\ found = [t \in Threads |-> 1]
    /\ pos = [t \in Threads |-> 0]
    /\ msg = [t \in Threads |-> <<>>]
    /\ queued = <<>> /\ overlap = FALSE

\* An event for thread t.
Start(t, w) ==
    /\ pc[t] = "idle"
    /\ Cardinality({u \in Threads : pc[u] # "idle"}) < MaxActive /\ Len(queued) < MaxMods
    /\ pc' = [pc EXCEPT ![t] = "queue"]
    /\ work' = [work EXCEPT ![t] = w]
    /\ overlap' = (overlap \/ \E u \in Threads : pc[u] # "idle")
    /\ UNCHANGED <<rvars, lists, dp_queued, found, pos, msg, queued>>

\* self.dp_queued.extend(...): the attribute is read, ...
Find(t) ==
    /\ pc[t] = "queue" /\ work[t].batches # <<>>
    /\ pc' = [pc EXCEPT ![t] = "extend"]
    /\ found' = [found EXCEPT ![t] = dp_queued]
    /\ UNCHANGED <<rvars, lists, dp_queued, work, pos, msg, queued, overlap>>

\* ... then the list it named grows.
Extend(t) ==
    /\ pc[t] = "extend"
    /\ lists' = [lists EXCEPT ![found[t]] = @ \o Head(work[t].batches)]
    /\ queued' = queued \o Head(work[t].batches)
    /\ work' = [work EXCEPT ![t].batches = Tail(@)]
    /\ pc' = [pc EXCEPT ![t] = "queue"]
    /\ UNCHANGED <<rvars, dp_queued, found, pos, msg, overlap>>

\* All is queued: push_dp, or nothing to push.
Finish(t) ==
    /\ pc[t] = "queue" /\ work[t].batches = <<>>
    /\ IF work[t].always \/ lists[dp_queued] # <<>>
       THEN /\ pc' = [pc EXCEPT ![t] = "copy"]
            /\ found' = [found EXCEPT ![t] = dp_queued]
       ELSE /\ pc' = [pc EXCEPT ![t] = "idle"]
            /\ found' = [found EXCEPT ![t] = 1]
    /\ UNCHANGED <<rvars, lists, dp_queued, work, pos, msg, queued, overlap>>

\* One round of the loop over the list, or its end.
Copy(t) ==
    /\ pc[t] = "copy"
    /\ IF pos[t] < Len(lists[found[t]])
       THEN /\ pos' = [pos EXCEPT ![t] = @ + 1]
            /\ msg' = [msg EXCEPT ![t] = Append(@, lists[found[t]][pos[t] + 1])]
            /\ UNCHANGED pc
       ELSE /\ pc' = [pc EXCEPT ![t] = "reset"]
            /\ UNCHANGED <<pos, msg>>
    /\ UNCHANGED <<rvars, lists, dp_queued, work, found, queued, overlap>>

\* Slip: the list is kept.
ResetForgotten(t) ==
    /\ pc[t] = "reset"
    /\ pc' = [pc EXCEPT ![t] = "send"]
    /\ UNCHANGED <<rvars, lists, dp_queued, work, found, pos, msg, queued, overlap>>

\* self.dp_queued = []
Reset(t) ==
    /\ pc[t] = "reset"
    /\ pc' = [pc EXCEPT ![t] = "send"]
    /\ lists' = Append(lists, <<>>)
    /\ dp_queued' = Len(lists) + 1
    /\ UNCHANGED <<rvars, work, found, pos, msg, queued, overlap>>

\* refmon_client.send over a connection of its own.
Deliver(t) ==
    /\ pc[t] = "send"
    /\ pc' = [pc EXCEPT ![t] = "idle"]
    /\ found' = [found EXCEPT ![t] = 1]
    /\ pos' = [pos EXCEPT ![t] = 0]
    /\ msg' = [msg EXCEPT ![t] = <<>>]
    /\ Arrive(msg[t])
    /\ UNCHANGED <<lists, dp_queued, work, queued, overlap>>

ThreadStep(t) ==
    Find(t) \/ Extend(t) \/ Finish(t) \/ Copy(t) \/ Reset(t) \/ Deliver(t)

DNext ==
    \/ \E t \in Threads : ThreadStep(t) \/ \E w \in Work[t] : Start(t, w)
    \/ (MonStep \/ SwitchStep) /\ UNCHANGED threadVars

DSpec == DInit /\ [][DNext]_dvars

-----------------------------------------------------------------------------

Active == {t \in Threads : pc[t] # "idle"}

\* What thread t still has to send, in order.
InHand(t) == IF pc[t] \in {"reset", "send"} THEN msg[t] ELSE lists[dp_queued]

(***************************************************************************)
(* As long as no two events were worked on at a time, no flow mod is lost, *)
(* sent twice or out of order: what was queued is what arrived and then    *)
(* what the active thread holds.                                           *)
(***************************************************************************)
NothingLostAlone ==
    ~overlap =>
        /\ Active = {} => arrived = queued
        /\ \A t \in Active : queued = arrived \o InHand(t)

(***************************************************************************)
(* The inductive invariant behind NothingLostAlone (DataPlane_proofs): the *)
(* types, and what an active thread that is alone knows of the list.       *)
(***************************************************************************)
DTypeOK ==
    /\ lists \in Seq(Seq(Mods)) /\ dp_queued \in 1..Len(lists)
    /\ pc \in [Threads -> {"idle", "queue", "extend", "copy", "reset", "send"}]
    /\ work \in [Threads -> [batches : Seq(Seq(Mods)), always : BOOLEAN]]
    /\ \A t \in Threads : pc[t] = "extend" => work[t].batches # <<>>
    /\ found \in [Threads -> 1..Len(lists)]
    /\ pos \in [Threads -> Nat]
    /\ msg \in [Threads -> Seq(Mods)]
    /\ queued \in Seq(Mods)
    /\ overlap \in BOOLEAN

OwnsList(t) ==
    /\ \A u \in Active : u = t
    /\ pc[t] \in {"extend", "copy", "reset"} => found[t] = dp_queued
    /\ pc[t] \in {"idle", "queue", "extend"} => pos[t] = 0 /\ msg[t] = <<>>
    /\ pc[t] = "copy" => /\ pos[t] <= Len(lists[dp_queued])
                         /\ msg[t] = SubSeq(lists[dp_queued], 1, pos[t])
    /\ pc[t] = "send" => lists[dp_queued] = <<>>

OneAtATime ==
    /\ Active = {} => arrived = queued /\ lists[dp_queued] = <<>>
    /\ \A t \in Active : OwnsList(t) /\ queued = arrived \o InHand(t)
    /\ \A t \in Threads \ Active : pos[t] = 0 /\ msg[t] = <<>>

DInv == RInv /\ DTypeOK /\ (~overlap => OneAtATime)

(***************************************************************************)
(* participant_controller.py:194: "it is crucial that dp_queued is         *)
(* traversed chronologically".  So flow mods arrive in the order in which  *)
(* they were queued.                                                       *)
(***************************************************************************)
ArrivesChronologically ==
    /\ Len(arrived) <= Len(queued)
    /\ arrived = SubSeq(queued, 1, Len(arrived))
=============================================================================
