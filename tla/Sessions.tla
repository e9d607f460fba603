----------------------------- MODULE Sessions ------------------------------
(***************************************************************************)
(* The connections between the participant controllers and the route       *)
(* server (xrs/route_server.py, PctrlListener and PctrlClient) and the two *)
(* tables they maintain: `participants`, which connection speaks for a     *)
(* participant, and `portip2participant`, which participant a border       *)
(* router's address belongs to.                                            *)
(*                                                                         *)
(* Each connection has its own thread.  Two locks are taken one after the  *)
(* other, never nested: clientPoolLock, which the listener holds while it  *)
(* joins the threads of dead connections, and participantsLock, held only  *)
(* within what is one action here.  A controller that restarts connects    *)
(* again on a new connection while the thread of the old one may not have  *)
(* noticed yet.                                                            *)
(*                                                                         *)
(* A connection goes through: "new", not connected yet; "accepted", in the *)
(* active pool, thread not started; "open"; "deaf", the controller's       *)
(* process lives but reads no more; "broken", the controller's end is      *)
(* gone; "closed", the thread has seen the end of file and closed its end; *)
(* "retired", moved to the dead pool; "gone", thread finished.  A          *)
(* connection that was reset ends as "lost": its thread dies of an IOError *)
(* and cleans up nothing.                                                  *)
(***************************************************************************)
EXTENDS FiniteSets, Naturals

CONSTANTS
    Participants, Ports, Conns,
    ConnOf,          \* the participant whose controller opens a connection
    OwnerOf,         \* the participant a port belongs to
    NoConn, NoParticipant,
    MaxCrashes       \* bound: connections that ever hang or break

ASSUME SessionAssumption ==
    /\ ConnOf \in [Conns -> Participants]
    /\ OwnerOf \in [Ports -> Participants]
    /\ NoConn \notin Conns
    /\ NoParticipant \notin Participants
    /\ MaxCrashes \in Nat

VARIABLES
    conn,                \* [Conns -> state of the connection]
    helloed,             \* connections whose hello was processed: self.id is set
    participants,        \* [Participants -> Conns or NoConn]
    portip2participant,  \* [Ports -> Participants or NoParticipant]
    acceptor             \* the connection being admitted under clientPoolLock

sessionVars == <<conn, helloed, participants, portip2participant, acceptor>>

Broken == {"broken", "closed", "retired", "gone", "lost"}
Live == {"open", "deaf"}

TypeOK ==
    /\ conn \in [Conns -> {"new", "accepted"} \cup Live \cup Broken]
    /\ helloed \subseteq Conns
    /\ participants \in [Participants -> Conns \cup {NoConn}]
    /\ portip2participant \in [Ports -> Participants \cup {NoParticipant}]
    /\ acceptor \in Conns \cup {NoConn}

Init ==
    /\ conn = [c \in Conns |-> "new"]
    /\ helloed = {}
    /\ participants = [p \in Participants |-> NoConn]
    /\ portip2participant = [k \in Ports |-> NoParticipant]
    /\ acceptor = NoConn

-----------------------------------------------------------------------------

\* The listener accepts c, takes clientPoolLock and adds c to the active pool.
\* A participant runs one controller at a time.
Accept(c) ==
    /\ acceptor = NoConn
    /\ conn[c] = "new"
    /\ \A d \in Conns : ConnOf[d] = ConnOf[c] => conn[d] \notin Live
    /\ conn' = [conn EXCEPT ![c] = "accepted"]
    /\ acceptor' = c
    /\ UNCHANGED <<helloed, participants, portip2participant>>

\* Every thread in the dead pool has been joined; the lock is released and the
\* thread of the new connection started.
StartThread ==
    /\ acceptor # NoConn
    /\ \A d \in Conns : conn[d] # "retired"
    /\ conn' = [conn EXCEPT ![acceptor] = "open"]
    /\ acceptor' = NoConn
    /\ UNCHANGED <<helloed, participants, portip2participant>>

\* The hello a controller sent is read, also after the controller has gone.
Hello(c) ==
    /\ conn[c] \in Live \cup {"broken"}
    /\ c \notin helloed
    /\ helloed' = helloed \cup {c}
    /\ participants' = [participants EXCEPT ![ConnOf[c]] = c]
    /\ portip2participant' =
        [k \in Ports |-> IF OwnerOf[k] = ConnOf[c] THEN ConnOf[c]
                         ELSE portip2participant[k]]
    /\ UNCHANGED <<conn, acceptor>>

Failed == {d \in Conns : conn[d] \in Broken \cup {"deaf"}}

\* The thread of the controller that reads the connection dies, the process lives.
Hang(c) ==
    /\ conn[c] = "open"
    /\ Cardinality(Failed) < MaxCrashes
    /\ conn' = [conn EXCEPT ![c] = "deaf"]
    /\ UNCHANGED <<helloed, participants, portip2participant, acceptor>>

\* The controller stops or loses the connection.
Crash(c) ==
    /\ conn[c] \in Live
    /\ Cardinality(Failed \ {c}) < MaxCrashes
    /\ conn' = [conn EXCEPT ![c] = "broken"]
    /\ UNCHANGED <<helloed, participants, portip2participant, acceptor>>

\* recv raises EOFError, the thread closes its end.
Close(c) ==
    /\ conn[c] = "broken"
    /\ conn' = [conn EXCEPT ![c] = "closed"]
    /\ UNCHANGED <<helloed, participants, portip2participant, acceptor>>

\* The connection was reset (the controller went with routes unread) or ended in
\* the middle of a message: recv raises IOError, which nothing catches.  The thread
\* dies; the connection stays in the active pool and in the tables.
Abort(c) ==
    /\ conn[c] = "broken"
    /\ conn' = [conn EXCEPT ![c] = "lost"]
    /\ UNCHANGED <<helloed, participants, portip2participant, acceptor>>

\* Under clientPoolLock: from the active pool to the dead pool.
Retire(c) ==
    /\ conn[c] = "closed"
    /\ acceptor = NoConn
    /\ conn' = [conn EXCEPT ![c] = "retired"]
    /\ UNCHANGED <<helloed, participants, portip2participant, acceptor>>

\* Slips in the cleanup: the tables are cleaned under both locks; the entry of
\* the participant is forgotten; its ports are; the id is known before the hello.
UnregisterNested(c) ==
    /\ conn[c] = "retired"
    /\ acceptor = NoConn
    /\ conn' = [conn EXCEPT ![c] = "gone"]
    /\ participants' = [p \in Participants |->
                          IF participants[p] = c THEN NoConn ELSE participants[p]]
    /\ portip2participant' =
        [k \in Ports |-> IF c \in helloed /\ portip2participant[k] = ConnOf[c]
                         THEN NoParticipant ELSE portip2participant[k]]
    /\ UNCHANGED <<helloed, acceptor>>

UnregisterPortsOnly(c) ==
    /\ conn[c] = "retired"
    /\ conn' = [conn EXCEPT ![c] = "gone"]
    /\ portip2participant' =
        [k \in Ports |-> IF c \in helloed /\ portip2participant[k] = ConnOf[c]
                         THEN NoParticipant ELSE portip2participant[k]]
    /\ UNCHANGED <<helloed, participants, acceptor>>

UnregisterConnOnly(c) ==
    /\ conn[c] = "retired"
    /\ conn' = [conn EXCEPT ![c] = "gone"]
    /\ participants' = [p \in Participants |->
                          IF participants[p] = c THEN NoConn ELSE participants[p]]
    /\ UNCHANGED <<helloed, portip2participant, acceptor>>

UnregisterWithoutHello(c) ==
    /\ conn[c] = "retired"
    /\ conn' = [conn EXCEPT ![c] = "gone"]
    /\ participants' = [p \in Participants |->
                          IF participants[p] = c THEN NoConn ELSE participants[p]]
    /\ portip2participant' =
        [k \in Ports |-> IF portip2participant[k] = ConnOf[c]
                         THEN NoParticipant ELSE portip2participant[k]]
    /\ UNCHANGED <<helloed, acceptor>>

\* Under participantsLock: the ports are found by the participant's id, the
\* participant by the connection itself.  The thread ends.
Unregister(c) ==
    /\ conn[c] = "retired"
    /\ conn' = [conn EXCEPT ![c] = "gone"]
    /\ participants' = [p \in Participants |->
                          IF participants[p] = c THEN NoConn ELSE participants[p]]
    /\ portip2participant' =
        [k \in Ports |-> IF c \in helloed /\ portip2participant[k] = ConnOf[c]
                         THEN NoParticipant ELSE portip2participant[k]]
    /\ UNCHANGED <<helloed, acceptor>>

SessionNext ==
    \/ StartThread
    \/ \E c \in Conns : \/ Accept(c) \/ Hello(c) \/ Hang(c) \/ Crash(c)
                        \/ Close(c) \/ Abort(c) \/ Retire(c) \/ Unregister(c)

Spec == Init /\ [][SessionNext]_sessionVars

(***************************************************************************)
(* The threads of the server keep running: one that reads a broken         *)
(* connection gets to know, one way or the other.  Nothing makes a         *)
(* controller connect, say hello or fail.  Accept and Retire compete for   *)
(* one lock; with finitely many connections weak fairness is enough to get *)
(* it.                                                                     *)
(***************************************************************************)
SessionFairness ==
    /\ WF_sessionVars(StartThread)
    /\ \A c \in Conns : /\ WF_sessionVars(Close(c) \/ Abort(c))
                        /\ WF_sessionVars(Retire(c))
                        /\ WF_sessionVars(Unregister(c))

FairSpec == Spec /\ SessionFairness

-----------------------------------------------------------------------------

\* A participant is represented by a connection of its own that said hello and was
\* not cleaned up: the sender (lines 364-378) finds none there whose thread went
\* through lines 68-91.  One whose thread died of a reset it may find.
RepresentedByUncleaned ==
    \A p \in Participants :
        participants[p] # NoConn =>
            /\ ConnOf[participants[p]] = p
            /\ participants[p] \in helloed
            /\ conn[participants[p]] \notin {"new", "accepted", "gone"}

\* A port is known only while its owner is represented by some connection: the
\* two lookups of the sender (lines 366-367) succeed or fail together, whatever
\* the order in which old and new connections of one controller come and go.
PortsOfRegistered ==
    \A k \in Ports :
        portip2participant[k] # NoParticipant =>
            /\ portip2participant[k] = OwnerOf[k]
            /\ participants[OwnerOf[k]] # NoConn

\* A represented participant can be out of reach, but only because an earlier
\* connection of the same controller that had said hello was cleaned up late
\* (lines 83-85): a connection that never said hello does no harm.
PortsLostOnlyToOldSession ==
    \A k \in Ports :
        (participants[OwnerOf[k]] # NoConn /\ portip2participant[k] = NoParticipant) =>
            \E d \in helloed : /\ ConnOf[d] = OwnerOf[k]
                              /\ d # participants[OwnerOf[k]]
                              /\ conn[d] = "gone"

\* A connection whose controller is gone is eventually no one's representative
\* (lines 68-91), also when the listener is joining threads at that moment: however
\* many break, there is a later moment when nobody is represented by one of them.
\* Only one that was reset can stay, since its thread dies first (lines 59-62).
CrashedIsForgotten ==
    []<>(\A p \in Participants :
            participants[p] # NoConn => conn[participants[p]] \in Live \cup {"lost"})

\* A connection that was accepted is eventually served: the join under
\* clientPoolLock (lines 159-166) never waits for a thread that waits for it.
AcceptedIsServed == (acceptor # NoConn) ~> (acceptor = NoConn)

=============================================================================
