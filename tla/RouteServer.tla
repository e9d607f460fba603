---------------------------- MODULE RouteServer ----------------------------
(***************************************************************************)
(* The way of a BGP update through the route server (xrs/): ExaBGP hands   *)
(* it to the listener thread, which sorts it into the queue of the SWIFT   *)
(* thread of the advertising participant; the SWIFT thread encodes the     *)
(* route and puts it on the peer queue; the sender thread multiplexes it   *)
(* to the participants whose peerings allow it.  A session that goes down  *)
(* takes a shortcut to the peer queue, fast-reroute messages have a queue  *)
(* of their own that the sender prefers.                                   *)
(*                                                                         *)
(* The connections and the registration tables are those of Sessions; the  *)
(* sender uses them between two lookups and many sends.  What a SWIFT      *)
(* thread predicts is left open here: once it has seen BurstStart          *)
(* withdrawals it may ask for a fast reroute.                              *)
(***************************************************************************)
EXTENDS Sessions, Sequences

Seqs == INSTANCE SequencesExt

CONSTANTS
    Prefixes,
    PeersIn, PeersOut,  \* [Participants -> SUBSET Participants], sent in the hello
    EncodingThreshold,  \* run_encoding_threshold
    BurstStart,         \* nb_withdrawals_burst_start
    MaxUpdates, MaxFR   \* bounds: updates issued, fast reroutes asked for

ASSUME PipelineAssumption ==
    /\ IsFiniteSet(Prefixes)
    /\ PeersIn \in [Participants -> SUBSET Participants]
    /\ PeersOut \in [Participants -> SUBSET Participants]
    /\ EncodingThreshold \in Nat
    /\ BurstStart \in Nat \ {0}
    /\ MaxUpdates \in Nat
    /\ MaxFR \in Nat

VARIABLES
    issued,           \* updates ExaBGP has issued so far
    advertised,       \* [Ports -> the prefixes its router announces now]
    latest,           \* [Ports -> [Prefixes -> number of the last update on it]]
    unread,           \* [Ports -> prefixes last withdrawn by an UPDATE that also announces]
    wentDown,         \* [Ports -> number of the last failure of its session]
    receiver_queue,   \* from ExaBGP to the listener
    peer_queue_dict,  \* [Participants -> queue to the SWIFT thread]
    swift,            \* [Participants -> state of the SWIFT thread]
    peer_queue,       \* from the SWIFT threads and the listener to the sender
    FR_queue,         \* fast-reroute messages to the sender
    sender,           \* the sender thread: status, route in hand, who gets it
    inbox,            \* [Conns -> everything sent on the connection]
    since             \* [Participants -> `issued` when it last said hello]

environment == <<issued, advertised, latest, unread, wentDown>>
pipelineVars == <<environment, receiver_queue, peer_queue_dict, swift, peer_queue,
                  FR_queue, sender, inbox, since>>
allVars == <<sessionVars, pipelineVars>>

\* A route on its way: what `n` identifies is the UPDATE it came in.
Announced(k, p, n) == [kind |-> "announce", port |-> k, prefix |-> p, n |-> n]
Withdrawn(k, p, n) == [kind |-> "withdraw", port |-> k, prefix |-> p, n |-> n]
DownOf(k, n) == [kind |-> "down", port |-> k, n |-> n]
FROf(id) == [kind |-> "FR", peer |-> id]
OnPrefix(r) == r.kind \in {"announce", "withdraw"}

NoThread == [status |-> "none", rib |-> {}, encoded |-> FALSE, unsent |-> <<>>,
             withdrawals |-> 0, out |-> <<>>]
Idle == [status |-> "idle"]
Dead == [status |-> "dead"]

PipelineInit ==
    /\ Init
    /\ issued = 0
    /\ advertised = [k \in Ports |-> {}]
    /\ latest = [k \in Ports |-> [p \in Prefixes |-> 0]]
    /\ unread = [k \in Ports |-> {}]
    /\ wentDown = [k \in Ports |-> 0]
    /\ receiver_queue = <<>>
    /\ peer_queue_dict = [id \in Participants |-> <<>>]
    /\ swift = [id \in Participants |-> NoThread]
    /\ peer_queue = <<>>
    /\ FR_queue = <<>>
    /\ sender = Idle
    /\ inbox = [c \in Conns |-> <<>>]
    /\ since = [id \in Participants |-> 0]

-----------------------------------------------------------------------------
(* ExaBGP *)

\* The border router at port k sends an UPDATE.  It withdraws what it announces.
Update(k) ==
    /\ issued < MaxUpdates
    /\ \E A \in SUBSET Prefixes, W \in SUBSET advertised[k] :
        /\ A \cup W # {}
        /\ A \cap W = {}
        /\ receiver_queue' = Append(receiver_queue,
              [port |-> k, state |-> "up", announce |-> A, withdraw |-> W,
               n |-> issued + 1])
        /\ advertised' = [advertised EXCEPT ![k] = (@ \cup A) \ W]
        /\ latest' = [latest EXCEPT ![k] =
              [p \in Prefixes |-> IF p \in A \cup W THEN issued + 1 ELSE @[p]]]
        /\ unread' = [unread EXCEPT ![k] =
              (@ \ (A \cup W)) \cup (IF A # {} THEN W ELSE {})]
    /\ issued' = issued + 1
    /\ UNCHANGED <<wentDown, peer_queue_dict, swift, peer_queue, FR_queue, sender,
                   inbox, since>>

\* The session with the router at port k goes down.
PeerDown(k) ==
    /\ issued < MaxUpdates
    /\ advertised[k] # {}
    /\ receiver_queue' = Append(receiver_queue,
          [port |-> k, state |-> "down", announce |-> {}, withdraw |-> {},
           n |-> issued + 1])
    /\ advertised' = [advertised EXCEPT ![k] = {}]
    /\ wentDown' = [wentDown EXCEPT ![k] = issued + 1]
    /\ issued' = issued + 1
    /\ UNCHANGED <<latest, unread, peer_queue_dict, swift, peer_queue, FR_queue,
                   sender, inbox, since>>

-----------------------------------------------------------------------------
(* Route_server_listener *)

\* The routes of an UPDATE, in the order of a Python dictionary.  Withdrawals are
\* looked at only when there is no announcement.
Updates(u) ==
    IF u.announce # {}
    THEN {[i \in DOMAIN s |-> Announced(u.port, s[i], u.n)] : s \in Seqs!SetToSeqs(u.announce)}
    ELSE {[i \in DOMAIN s |-> Withdrawn(u.port, s[i], u.n)] : s \in Seqs!SetToSeqs(u.withdraw)}

\* A slip: the first update only launches the SWIFT thread.
ListenerLaunchOnly ==
    /\ receiver_queue # <<>>
    /\ receiver_queue' = Tail(receiver_queue)
    /\ LET u == Head(receiver_queue)
           id == portip2participant[u.port] IN
       \/ /\ id = NoParticipant
          /\ UNCHANGED <<peer_queue_dict, swift, peer_queue>>
       \/ /\ id # NoParticipant /\ u.state = "down"
          /\ peer_queue' = Append(peer_queue, DownOf(u.port, u.n))
          /\ UNCHANGED <<peer_queue_dict, swift>>
       \/ /\ id # NoParticipant /\ u.state = "up"
          /\ \E routes \in Updates(u) :
                peer_queue_dict' = [peer_queue_dict EXCEPT
                    ![id] = IF swift[id].status = "none" THEN @ ELSE @ \o routes]
          /\ swift' = [swift EXCEPT ![id].status = IF @ = "none" THEN "running" ELSE @]
          /\ UNCHANGED peer_queue
    /\ UNCHANGED <<environment, FR_queue, sender, inbox, since>>

\* A port nobody registered is not heard.  A session that went down goes straight
\* to the sender.  Any other route waits for the SWIFT thread of the participant,
\* which the first one launches.
Listener ==
    /\ receiver_queue # <<>>
    /\ receiver_queue' = Tail(receiver_queue)
    /\ LET u == Head(receiver_queue)
           id == portip2participant[u.port] IN
       \/ /\ id = NoParticipant
          /\ UNCHANGED <<peer_queue_dict, swift, peer_queue>>
       \/ /\ id # NoParticipant /\ u.state = "down"
          /\ peer_queue' = Append(peer_queue, DownOf(u.port, u.n))
          /\ UNCHANGED <<peer_queue_dict, swift>>
       \/ /\ id # NoParticipant /\ u.state = "up"
          /\ \E routes \in Updates(u) :
                peer_queue_dict' = [peer_queue_dict EXCEPT ![id] = @ \o routes]
          /\ swift' = [swift EXCEPT ![id].status = IF @ = "none" THEN "running" ELSE @]
          /\ UNCHANGED peer_queue
    /\ UNCHANGED <<environment, FR_queue, sender, inbox, since>>

-----------------------------------------------------------------------------
(* run_peer *)

\* A slip: a buffered announcement is sent although it was withdrawn meanwhile.
SwiftStepReplaysWithdrawn(id) ==
    LET t == swift[id]  r == Head(peer_queue_dict[id]) IN
    /\ t.status = "running" /\ t.out = <<>>
    /\ peer_queue_dict[id] # <<>>
    /\ peer_queue_dict' = [peer_queue_dict EXCEPT ![id] = Tail(@)]
    /\ \/ /\ r.kind = "announce"
          /\ LET rib == t.rib \cup {r.prefix} IN
             IF t.encoded \/ Cardinality(rib) > EncodingThreshold
             THEN swift' = [swift EXCEPT ![id] =
                    [t EXCEPT !.rib = rib, !.encoded = TRUE, !.unsent = <<>>,
                              !.out = <<r>> \o t.unsent]]
             ELSE swift' = [swift EXCEPT ![id] =
                    [t EXCEPT !.rib = rib, !.unsent = Append(@, r), !.out = <<r>>]]
       \/ /\ r.kind = "withdraw"
          /\ swift' = [swift EXCEPT ![id] =
                [t EXCEPT !.rib = @ \ {r.prefix}, !.encoded = TRUE, !.unsent = <<>>,
                          !.out = <<r>> \o t.unsent]]
    /\ UNCHANGED <<environment, receiver_queue, peer_queue, FR_queue, sender, inbox,
                   since>>

\* A SWIFT thread takes one route.  The route itself is sent first.  Until the
\* paths are encoded announcements are also kept; once they are (the RIB grew past
\* the threshold, or a route was withdrawn) the kept ones are sent again, encoded.
\* A kept announcement of the withdrawn prefix should be skipped, but list.pop
\* with a dictionary raises TypeError: what was sent is sent and the thread dies.
SwiftStep(id) ==
    LET t == swift[id]  r == Head(peer_queue_dict[id]) IN
    /\ t.status = "running" /\ t.out = <<>>
    /\ peer_queue_dict[id] # <<>>
    /\ peer_queue_dict' = [peer_queue_dict EXCEPT ![id] = Tail(@)]
    /\ \/ /\ r.kind = "announce"
          /\ LET rib == t.rib \cup {r.prefix} IN
             IF t.encoded \/ Cardinality(rib) > EncodingThreshold
             THEN swift' = [swift EXCEPT ![id] =
                    [t EXCEPT !.rib = rib, !.encoded = TRUE, !.unsent = <<>>,
                              !.out = <<r>> \o t.unsent]]
             ELSE swift' = [swift EXCEPT ![id] =
                    [t EXCEPT !.rib = rib, !.unsent = Append(@, r), !.out = <<r>>]]
       \/ /\ r.kind = "withdraw"
          /\ LET hit == {i \in DOMAIN t.unsent : t.unsent[i].prefix = r.prefix}
                 known == r.prefix \in t.rib
                 u == [t EXCEPT
                   !.rib = @ \ {r.prefix},
                   !.encoded = TRUE,
                   !.withdrawals = IF known /\ @ < BurstStart THEN @ + 1 ELSE @] IN
             \/ /\ hit = {}
                /\ swift' = [swift EXCEPT ![id] =
                      [u EXCEPT !.unsent = <<>>, !.out = <<r>> \o t.unsent]]
             \/ /\ hit # {}
                /\ LET first == CHOOSE i \in hit : \A j \in hit : i <= j IN
                   swift' = [swift EXCEPT ![id] =
                      [u EXCEPT !.status = "dead",
                                !.out = <<r>> \o SubSeq(t.unsent, 1, first - 1)]]
    /\ UNCHANGED <<environment, receiver_queue, peer_queue, FR_queue, sender, inbox,
                   since>>

\* What a step of a SWIFT thread sends goes to the peer queue one by one.
SwiftPut(id) ==
    /\ swift[id].out # <<>>
    /\ peer_queue' = Append(peer_queue, Head(swift[id].out))
    /\ swift' = [swift EXCEPT ![id].out = Tail(@)]
    /\ UNCHANGED <<environment, receiver_queue, peer_queue_dict, FR_queue, sender,
                   inbox, since>>

\* A burst of withdrawals makes the thread predict failed links, one message for
\* every link and depth; the next prediction needs as many again.
FastReroute(id) ==
    /\ swift[id].status = "running" /\ swift[id].out = <<>>
    /\ swift[id].withdrawals = BurstStart
    /\ \E m \in 1..MaxFR : FR_queue' = FR_queue \o [i \in 1..m |-> FROf(id)]
    /\ swift' = [swift EXCEPT ![id].withdrawals = 0]
    /\ UNCHANGED <<environment, receiver_queue, peer_queue_dict, peer_queue, sender,
                   inbox, since>>

-----------------------------------------------------------------------------
(* Route_server_sender *)

\* The participant a route comes from, as the tables know it now.
Advertiser(r) == IF r.kind = "FR" THEN r.peer ELSE portip2participant[r.port]

\* A slip: the peering is looked up on one side only.
FoundOneSided(adv) ==
    {participants[id] : id \in {i \in PeersOut[adv] : participants[i] # NoConn}}

\* The connections of all participants that peer with the advertiser both ways.
Found(adv) ==
    {participants[id] : id \in {i \in PeersOut[adv] :
                                  participants[i] # NoConn /\ adv \in PeersIn[i]}}

\* The lookups of one route: an advertiser that is not registered raises KeyError
\* and the route is dropped.
\* A slip: the KeyError is not caught.
LookupUncaught(r) ==
    LET adv == Advertiser(r) IN
    IF adv = NoParticipant \/ participants[adv] = NoConn THEN Dead
    ELSE IF Found(adv) = {} THEN Idle
    ELSE [status |-> "sending", route |-> r, found |-> Found(adv)]

Lookup(r) ==
    LET adv == Advertiser(r) IN
    IF adv = NoParticipant \/ participants[adv] = NoConn \/ Found(adv) = {} THEN Idle
    ELSE [status |-> "sending", route |-> r, found |-> Found(adv)]

\* A slip: a stack in place of a queue.
SenderTakeNewest ==
    /\ sender = Idle
    /\ FR_queue = <<>> /\ peer_queue # <<>>
    /\ sender' = Lookup(peer_queue[Len(peer_queue)])
    /\ peer_queue' = SubSeq(peer_queue, 1, Len(peer_queue) - 1)
    /\ UNCHANGED <<environment, receiver_queue, peer_queue_dict, swift, FR_queue,
                   inbox, since>>

\* The sender takes the next route, a fast reroute if there is one, and finds out
\* who gets it under participantsLock.
SenderTake ==
    /\ sender = Idle
    /\ \/ /\ FR_queue # <<>>
          /\ sender' = Lookup(Head(FR_queue))
          /\ FR_queue' = Tail(FR_queue)
          /\ UNCHANGED peer_queue
       \/ /\ FR_queue = <<>> /\ peer_queue # <<>>
          /\ sender' = Lookup(Head(peer_queue))
          /\ peer_queue' = Tail(peer_queue)
          /\ UNCHANGED FR_queue
    /\ UNCHANGED <<environment, receiver_queue, peer_queue_dict, swift, inbox, since>>

\* A slip: the sender is never done with a route.
SendNeverDone(c) ==
    /\ sender.status = "sending"
    /\ c \in sender.found
    /\ \/ /\ conn[c] \in Live \cup {"broken", "lost"}
          /\ inbox' = IF conn[c] = "open"
                      THEN [inbox EXCEPT ![c] = Append(@, sender.route)] ELSE inbox
          /\ sender' = [sender EXCEPT !.found = @ \ {c}]
       \/ /\ conn[c] \in Broken
          /\ sender' = Dead
          /\ UNCHANGED inbox
    /\ UNCHANGED <<environment, receiver_queue, peer_queue_dict, swift, peer_queue,
                   FR_queue, since>>

\* The sends happen without the lock.  Sending on a connection that this end has
\* closed raises, and so may sending to a controller that is gone, unless the
\* bytes are lost in a buffer; nothing catches it and the thread ends.  Sending to
\* a controller that reads no more fills buffers, then waits (PipelineFairness).
Send(c) ==
    /\ sender.status = "sending"
    /\ c \in sender.found
    /\ \/ /\ conn[c] \in Live \cup {"broken", "lost"}
          /\ inbox' = IF conn[c] = "open"
                      THEN [inbox EXCEPT ![c] = Append(@, sender.route)] ELSE inbox
          /\ sender' = IF sender.found = {c} THEN Idle
                       ELSE [sender EXCEPT !.found = @ \ {c}]
       \/ /\ conn[c] \in Broken
          /\ sender' = Dead
          /\ UNCHANGED inbox
    /\ UNCHANGED <<environment, receiver_queue, peer_queue_dict, swift, peer_queue,
                   FR_queue, since>>

-----------------------------------------------------------------------------

SessionStep ==
    /\ SessionNext
    /\ since' = [id \in Participants |->
                   IF \E c \in helloed' \ helloed : ConnOf[c] = id THEN issued
                   ELSE since[id]]
    /\ UNCHANGED <<environment, receiver_queue, peer_queue_dict, swift, peer_queue,
                   FR_queue, sender, inbox>>

PipelineStep ==
    \/ Listener
    \/ SenderTake
    \/ \E k \in Ports : Update(k) \/ PeerDown(k)
    \/ \E id \in Participants : SwiftStep(id) \/ SwiftPut(id) \/ FastReroute(id)
    \/ \E c \in Conns : Send(c)

Next == SessionStep \/ (PipelineStep /\ UNCHANGED sessionVars)

PipelineSpec == PipelineInit /\ [][Next]_allVars

(***************************************************************************)
(* The three kinds of threads keep running, like those of the connections; *)
(* ExaBGP and the controllers need not do anything.  A send to a           *)
(* controller that reads its connection returns; one to a controller that  *)
(* does not may block for ever.                                            *)
(***************************************************************************)
PipelineFairness ==
    /\ WF_allVars(Listener /\ UNCHANGED sessionVars)
    /\ WF_allVars(SenderTake /\ UNCHANGED sessionVars)
    /\ \A id \in Participants : /\ WF_allVars(SwiftStep(id) /\ UNCHANGED sessionVars)
                                /\ WF_allVars(SwiftPut(id) /\ UNCHANGED sessionVars)
    /\ \A c \in Conns :
        WF_allVars(Send(c) /\ conn[c] # "deaf" /\ UNCHANGED sessionVars)

FairPipelineSpec == PipelineSpec /\ PipelineFairness /\ SessionFairness

-----------------------------------------------------------------------------

\* Everything that has reached the controller of c or is on its way to it past
\* the SWIFT thread of the advertiser, in the order it arrives.
OnTheWay(c, id) ==
    inbox[c] \o (IF sender.status = "sending" /\ c \in sender.found
                 THEN <<sender.route>> ELSE <<>>)
             \o peer_queue \o swift[id].out

\* No controller that said hello has stopped, hung or lost its connection.
NobodyLeft == \A c \in helloed : conn[c] = "open"

\* Of all that a controller has heard or is about to hear of a prefix from a port
\* the newest comes last.  Announcements that are sent again once the encoding
\* exists may repeat an older path after a newer one, but then the newer one
\* follows, and a withdrawn prefix never comes back (participant_swift.py:309-320).
\* A thread that dies over a withdrawal may leave an older path last, yet only of a
\* prefix that is still announced.  While a controller leaves, the repeated routes
\* may be cut anywhere.
NewestComesLast ==
    NobodyLeft =>
    \A c \in helloed, k \in Ports, p \in Prefixes :
        LET s == OnTheWay(c, OwnerOf[k])
            about == {i \in DOMAIN s : OnPrefix(s[i]) /\ s[i].port = k /\ s[i].prefix = p}
        IN \A i \in about : (\A j \in about : j <= i) =>
              \A j \in about : \/ s[j].n <= s[i].n
                               \/ swift[OwnerOf[k]].status = "dead" /\ s[j].kind = "announce"

\* The failure of a session may overtake updates of the session (it skips the
\* SWIFT queue, route_server.py:263-267), but no update that came after the
\* failure overtakes it.
DownIsNotOvertaken ==
    \A c \in Conns : \A i, j \in DOMAIN inbox[c] :
        LET r == inbox[c][i]  d == inbox[c][j] IN
        (i < j /\ d.kind = "down" /\ OnPrefix(r) /\ r.port = d.port) => r.n < d.n

\* A controller is told only about participants that peer with it both ways.
PeeringRespected ==
    \A c \in Conns : \A i \in DOMAIN inbox[c] :
        LET r == inbox[c][i]
            adv == IF r.kind = "FR" THEN r.peer ELSE OwnerOf[r.port] IN
        ConnOf[c] \in PeersOut[adv] /\ adv \in PeersIn[ConnOf[c]]

\* The thread that serves all participants is lost only if the connection of a
\* controller that hears from somebody broke, never because of what an update
\* contains or because its advertiser is not registered (lines 324-335, 349-369).
SenderSurvives ==
    sender = Dead =>
        \E c \in helloed, adv \in Participants :
            /\ conn[c] \in Broken
            /\ ConnOf[c] \in PeersOut[adv] /\ adv \in PeersIn[ConnOf[c]]

Drained ==
    /\ receiver_queue = <<>> /\ peer_queue = <<>> /\ FR_queue = <<>>
    /\ sender = Idle
    /\ \A id \in Participants :
        swift[id].out = <<>> /\ (swift[id].status = "running" => peer_queue_dict[id] = <<>>)

LastUpdate(c, k, p) ==
    LET about == {i \in DOMAIN inbox[c] : /\ OnPrefix(inbox[c][i])
                                          /\ inbox[c][i].port = k
                                          /\ inbox[c][i].prefix = p} IN
    IF about = {} THEN 0
    ELSE inbox[c][CHOOSE i \in about : \A j \in about : j <= i].n

\* c should hear what comes from port k: both ends are registered and peer.
Hears(c, k) ==
    /\ conn[c] = "open" /\ participants[ConnOf[c]] = c
    /\ portip2participant[k] # NoParticipant
    /\ c \in Found(OwnerOf[k])

\* The controller of c and the owner of k were registered before update n came.
RegisteredBefore(c, k, n) == n > since[ConnOf[c]] /\ n > since[OwnerOf[k]]

\* "it multiplexes all BGP routes to the participant controllers"
\* (examples/test-ms/README.md:93).  What the code keeps of that: when nothing is under
\* way any more, a controller knows the last update of every prefix that came since it
\* and the advertiser registered, and the last failure of the advertiser's session,
\* unless the SWIFT thread of the advertiser died; all of it but the prefixes last
\* withdrawn by an UPDATE that also announces: its withdrawals are never read
\* (route_server.py:416-451, an elif).
ReadRoutesMultiplexed ==
    Drained =>
        \A c \in Conns, k \in Ports :
            (Hears(c, k) /\ swift[OwnerOf[k]].status # "dead") =>
                /\ \A p \in Prefixes \ unread[k] :
                        RegisteredBefore(c, k, latest[k][p]) =>
                            LastUpdate(c, k, p) = latest[k][p]
                /\ RegisteredBefore(c, k, wentDown[k]) =>
                        \E i \in DOMAIN inbox[c] : inbox[c][i] = DownOf(k, wentDown[k])

\* The sender waits for a controller that reads no more.
Blocked ==
    /\ sender.status = "sending"
    /\ \E c \in sender.found : conn[c] = "deaf"

\* Once ExaBGP is silent everything under way is eventually delivered or dropped:
\* a dead SWIFT thread, an unregistered advertiser, a controller that reconnects or
\* a burst of fast reroutes stops nobody else.  What stops everybody is the one
\* sender thread: lost over a broken connection (SenderSurvives) or waiting for a
\* controller whose process lives and reads no more.
EventuallyDrained == <>[](Drained \/ sender = Dead \/ Blocked)

=============================================================================
