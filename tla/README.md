# A TLA+ model of iSDX with SWIFT

iSDX is an internet exchange whose switches are programmed by its participants;
this version adds SWIFT, fast reroute from encoded AS paths. This directory
models its control plane in TLA+, checks it with TLC and proves part of it with
TLAPS. Paths below are relative to the repository.

## The system

    border routers -- ExaBGP -- client.py/server.py --+
                                                      | receiver_queue
        route server (xrs)                            v
          listener --peer_queue_dict[id]--> SWIFT thread of participant id
             |                                 |          |
             | session down                    v          | burst predicted
             +--------------------------> peer_queue   FR_queue
                                               |          |
                                               v          v
          one connection per controller <--- sender (FR first)
             |
             v
        participant controller (pctrl), one process per participant
          xrs thread (events one by one) -> RIBs, FECs, BECs, VNHs, VMACs
          ARP thread (a thread per request) policy thread
             |                |                     |
             | announcements  | gratuitous ARPs     | flow mods (dp_queued)
             v                v                     v
          route server     arproxy             reference monitor (flanc) -> switches
                                                    ^
                                        xctrl: static rules at start-up

### Inventory

**BGP speaker of a participant** (`pctrl/peer.py`, `rib.py`, `bgp_route.py`).
State: the `input`, `local` and `output` tables. Operations: announce, withdraw,
failure of a neighbor (in steps, one withdrawal per prefix). Hard: a route may
be replaced by its own neighbor, with or without an encoding, and selection is
re-run only in some of the cases; the order of routes is not transitive; a
failure empties the input table before it repairs the first prefix. Correct
means: best routes are advertised, advertised prefixes are routed, routers know
the best route, and a failure leaves nothing behind.

**Controller sessions of the route server** (`xrs/route_server.py`,
`PctrlListener`, `PctrlClient`). State: pools of connections and threads,
`participants`, `portip2participant`. Operations: accept, hello, end of file, reset,
retire, unregister, join. Hard: a controller restarts while the thread of its old
connection still cleans up; a reset connection ends its thread before the cleanup; the
listener joins threads while it holds a lock they need. Correct means: the two tables
agree, only connections that are not cleaned up represent participants, failed ones are
forgotten, nobody waits for ever.

**Route server pipeline** (`xrs/route_server.py`, `participant_swift.py`). State:
four kinds of queues, a thread per participant with its RIB, its encoding and the
announcements kept until the encoding exists. Operations: listen, encode,
predict, multiplex, send. Hard: two ways to the sender that overtake each other,
announcements sent twice, lookups used after their lock is released, threads that
die of an exception. Correct means: the last update of a prefix is the last a
controller hears, nothing is lost or sent to the wrong participant, everything is
worked off.

**Participant controller** (`pctrl/participant_controller.py`, `FEC.py`,
`BEC.py`, `supersets.py`). State: equivalence classes, VNHs, VMACs, tags. Operation:
`process_bgp_route`, a chain of eight tables updated in one event. Hard: classes are
shared, re-used and lost; ARPs are sent only when a VMAC is thought to be new;
VNHs and tags are limited and never given back; a tag too wide for its field spoils the
whole address; the set of advertisers in a class is narrowed by reading it. Correct
means: what the
routers were told (VNH) and what they resolve it to (VMAC) lead to the best next
hop, and the backups in a VMAC can deliver the packet.

**Supersets and rules** (`supersets.py`, `ss_lib.py`, `ss_rule_scheme.py`). State:
supersets, the number of bits for their numbers, the outbound rules at the switch,
the VMAC of each VNH. Operations: compute, expand, recompute, truncate, send
ARPs, build and wipe rules. Hard: bits are limited, rules and VMACs are computed at
different times from tables that move, and objects are shared (`match`,
`part_advertising`). Correct means: a packet is diverted only to participants
that advertise its prefix, no rule of old supersets stays, packing loses nobody.

**Policy changes** (`participant_server.py`, `process_policy_changes`): wipe,
update, re-install, in a thread beside the event thread.

**Fast reroute in the controller** (`process_FR`, `ss_lib.py`): one rule per tagged
backup and port, matching next hop, tag at a depth and path bits. Correct means: it
moves exactly the packets whose VMAC names that backup at that depth, whatever
policies they also meet.

**Data-plane queue and reference monitor** (`push_dp`, `pctrl/lib.py`, `flanc/`).
State: `dp_queued`, a list object that threads share; the monitor's queues and the
switches' connections. Hard: no lock; switches come and go while flow mods wait, two
greenlets send and may yield at every message, and a switch may be back before its old
connection is noticed to be gone. Correct means: flow mods arrive once and in order, over
the newest connection, with a barrier between removals and insertions.

**SWIFT encoding** (`xrs/encoding.py`, `as_topology.py`): per-depth mappings from
AS numbers to codes, counts of uses, weights of links, minimum weights. Operations:
compute, advertise, withdraw, add, remove, refresh when full. Hard: bits are given
by one function and taken by another; codes are freed while routes carry them; a
refresh happens in the middle of an add. Correct means: codes are unique and not lost,
uses are counted, the fields of a VMAC stay where they are, a reroute moves the
traffic of its link only.

**SWIFT bursts** (`participant_swift.py`, `burst.py`, `bpa.py`, `bgp_messages.py`,
`as_topology.py`). State: the window of withdrawals, the counters of links of
withdrawn paths, the current burst and the withdrawals that left the window during
it, the size at which the next inference is due. Hard: withdrawals expire in two
ways, a burst may begin and end between two messages, prefixes are announced again
while they count as withdrawn. Correct means: counters are those of the withdrawals
that count, a failure that explains everything is found.

**Static fabric** (`xctrl/`): the rules that make packets go main, outbound,
inbound, main, out. Correct means: they end where next hop, policy or backup say and
do not loop.

**ARP proxy** (`arproxy/`): routers' MACs registered by controllers; requests
relayed to controllers, replies to routers.

**Flow mod translation** (`flanc/ofp*.py`), **ExaBGP bridge** (`xrs/client.py`,
`server.py`), **helpers** (configuration, logging, route storage), and the parts
that are not the running system (`test`, `examples`, `report`, `visualization`,
`setup`, `bin`, `Bgpdump`; `flanc/stats` is third-party).

`PROJECT.json` has one entry per component and lists every hazard with the line
where it bites and the properties that watch it.

## The modules

| Module | Models | Built on |
|---|---|---|
| `BGPRoute` | routes and their order | |
| `BGPPeer` | BGP speaker of one participant | `BGPRoute` |
| `BGPPeer_proofs` | theorems about it | `BGPPeer` |
| `ParticipantController` | `process_bgp_route` around the BGP speaker | `BGPPeer` |
| `ParticipantController_proofs` | theorems about it | `ParticipantController`, `BGPPeer_proofs` |
| `Sessions` | controller connections at the route server | |
| `RouteServer` | pipeline from ExaBGP to the controllers | `Sessions` |
| `RouteServer_proofs` | theorems about both | `RouteServer` |
| `Mapping` | codes of one depth of an encoding | |
| `Encoding` | encoding of AS paths in a SWIFT thread | `Mapping` |
| `Encoding_proofs` | theorems about it | `Encoding` |
| `EncodedRoutes` | what routes and reroutes make of the codes | `Encoding` |
| `SuperSetLib` | the algorithms of `ss_lib.py` | |
| `Supersets` | policies: supersets, rules, VMACs | `SuperSetLib` |
| `Supersets_proofs` | theorems about both | `Supersets` |
| `OrderedDelivery` | what the reference monitor promises | |
| `RefMon` | the reference monitor; implements `OrderedDelivery` | `OrderedDelivery` |
| `DataPlane` | `dp_queued`, `push_dp` and the threads that use them | `RefMon` |
| `DataPlane_proofs` | theorems about both | `DataPlane` |
| `Fabric` | packets, static rules, policies and rerouting rules | |
| `Fabric_proofs` | theorems about them | `Fabric` |
| `Burst` | bursts of withdrawals and inference | |
| `Burst_proofs` | theorems about them | `Burst` |
| `MC...` | constants for TLC | the module of that name |

Definitions named after a slip (`PeerDownDeleteFirst`, `UnregisterNested`, ...)
stand before the definition they distort. They are plausible bugs that show that
each property would notice; no specification uses them.

### BGPPeer

`input`, `local` and `output` are the tables of `rib.py`. `Announce` and `Withdraw`
are `update`, `decision_process` and `bgp_update_peer` for one route;
`BestAfterAnnounce` and `BestAfterWithdraw` are the branches of `decision_process`
with the `elif` bound as Python binds it, so an unencoded best route hides the
rerun. `PeerDown` and `ProcessDownRoute` are `deal_with_local_failure`: the deletion
of all routes, then one withdrawal at a time, in any order (a Python set).
`TopRoutes` is `sort(reverse=True)[0]`: MEDs count only within one AS, which makes
the order intransitive, so a sort of a list in arbitrary order has several
possible heads, and the model takes any of them. `Better` is the order of the code, where
the higher MED wins, `BetterAsDocumented` that of the comment above it.

### Sessions

One action per critical section of the listener and of a connection's thread.
`clientPoolLock` is held from `Accept` to `StartThread`, which waits for the join;
`Retire` needs it. `Unregister` is the cleanup under `participantsLock`: ports
by participant id, the participant by the connection itself. `Hang` and `Crash` are the
controller at the other end: its process lives but reads no more, or it is gone. Its
thread at the server then gets an end of file (`Close`) or, if routes were left unread, a
reset: an `IOError` that nothing catches, so the thread dies and cleans up nothing
(`Abort`). `RepresentedByUncleaned` says what remains true: who represents a participant
has said hello and was not cleaned up, but it may be dead.

### RouteServer

One action per thread step: `Listener`, `SwiftStep` and `SwiftPut` (a route is
taken once but what it causes is put on the queue one by one), `FastReroute`,
`SenderTake` (the lookups under `participantsLock`) and `Send` (one connection,
without the lock). A step of `Sessions` may come between any two of them. An UPDATE may
announce, withdraw or do both; of the latter the withdrawals are never read
(`route_server.py:416-451`), which `unread` remembers. An update
has a number `n`, so that "newest" and "last" mean something. What a SWIFT
thread predicts is left open: after `BurstStart` withdrawals of known prefixes it
may ask for up to `MaxFR` reroutes. A SWIFT thread whose kept announcement is
withdrawn dies, as it does in the code (`participant_swift.py:315`). That is why
`NewestComesLast` has two exceptions: a thread that dies in the middle of repeating may
leave an older path last (of a prefix that is still announced), and a controller that is
leaving may miss any part of a repetition. The proof found both; the first needs four
updates.

### ParticipantController

Refines `BGPPeer` with the tables of FECs, BECs, VNHs, VMACs and tags. An event is
one action (`ReceiveAnnounce`, `ReceiveWithdraw`, `ReceiveDown`, `ContinueDown`),
since the xrs thread handles events one by one and everything it changes here is
read by that thread only. `Regroup` is FEC and BEC assignment, `Deploy` is
`vnh_assignment`, `update_supersets` (a choice: recomputed or not), the
announcement and the ARPs, `Lose` and `Retract` the same for a prefix without a
route. `alive` turns false where the code raises and nothing catches it: VNHs used
up, or a withdrawal of a prefix never heard of. `routerVNH` and `VNH_2_vmac` are
together what a border router knows. `Backup` goes over the routes in their order by
sets of indices. `Taggable` is the test of the tag table, `TagsAfter` fills the table
later and without one, so a participant that had no tag when a backup was chosen may get
one beyond `TagRoom`. Such a tag needs more bits than its field has (`Spills`); what
then stands in the backup bits is left open (`Spilled`), and if they are too many the
address is shifted and names no next hop (`BadVmac`), as it does when a class is in no
superset and `get_vmac` returns an empty address. Which classes may be in none is up to
the supersets, here a constant (`Misfits`) and a choice in `Garp`. An ARP also narrows
the class's `part_advertising` in place to the participants policies forward to
(`Narrowed`); the key under which `FEC_list` finds the class (`part_set`) keeps them all.
`GroupsAreCurrent` names that case `TooLateForTag`: a backup that
traverses the link it stands in for is right only if all that avoid the link came too
late for a tag.

### Mapping, Encoding, EncodedRoutes

`Mapping` is the class of that name as operators on a record: the dictionary is
split into `code` and the two counts per AS, and the entry -1 that holds code 0 is
counted by `Size`. `Encoding` is the part of `run_peer` that handles an announcement
or a withdrawal. Messages are handled one after the other, so what interleaves is not
the thread but the order of messages; the loops are steps all the same, one per link
(`ConsiderLink`, `ReleaseLink`, `StartRefresh`, `RefreshLink`, `AddLink`), since an add
may refresh a depth twice and go on with another minimum. Links for which a loop does
nothing take no step. The sorted lists become the relations `IsHeaviest` and
`IsLightest`; `np.percentile` is computed in hundredths, without rounding. `PathFits`
counts the bits all depths have been given (`PathBits`).
`EncodedRoutes` adds the codes each announcement leaves with (`vmac`) and asks
which routes the FR message of a link would match.

### SuperSetLib, Supersets

`SuperSetLib` translates `ss_lib.py` operator by operator. The merging loop is a
recursive function of the number of rounds: as many as there are sets, since each
merges two or changes nothing (`Merged`). Sums of rule counts are cardinalities of
sets of numbered rules (`RulesOfSet`). `Supersets` takes `process_bgp_route` from the
classes on and `process_policy_changes`. An event is one step: the four branches of
`update_supersets` are `FirstSupersets`, `SameSupersets`, `ExpandSuperset` and
`RecomputeSupersets`, each with its rules and its ARPs. A VNH is named by the set of
advertisers it was made for. A VMAC is the set of its one bits, so a match is an
intersection. What the code does and one would not expect is kept: `return` in the
loop of `update_supersets`, the shared `match` dictionary, `get_vmac` that narrows a
class, the empty VMAC of a class in no superset, the policy thread that ends at
`participant_controller.py:446`, and before it the BECs with a misspelt key
(`pctrl/BEC.py:138`) that end the event thread at the next recomputation (`spoiled`,
`SendAllGarps`).

### OrderedDelivery, RefMon, DataPlane

`OrderedDelivery` knows what was asked for and what was applied, each flow mod once and
in order, except that while it catches up newer ones may go ahead of those that had to
wait. `RefMon` maps to it by `asked <- arrived`, `applied <- Handed` and
`catching <- flushing`. It has two greenlets. That of the ryu app handles state changes
(`HandleMain`, `HandleDead`); on a switch that completes the set it sends the table-miss
entries (`InitFabric`, without barriers and without a note in `last_command_type`) and
empties `fm_queue` (`Flush`). That of the server takes messages (`ProcessFlowMod`) and
tests `is_ready` only, which `always_ready` makes true. ryu's queue for a switch has 16
places and the rules of start-up are more, so every send may yield: `Take` (connection
and barrier are decided), `SendBarrier` and `SendMod` are steps, and the other greenlet
may run between any two. Hence the exception of `OrderedDelivery`, and that of
`CommandsAreFenced`: when both greenlets were sending on one connection (`crossed`), the
barrier of the one may be used up by the other. Switches connect and disconnect and
ryu reports it later, in order. A connection has a number, so that "the newest" means
something. `DataPlane` adds the threads of a controller. `Find` and `Extend` are two
steps, as are `Copy` (one round of the loop), `Reset` and `Deliver`: lists are objects,
and a thread works on the object it found. `overlap` remembers whether two events
were ever worked on at a time. The threads and what they queue are constants.

### Fabric

One packet at a time goes from table to table (`Lookup`: a matching rule of highest
priority), while policies and rerouting rules are installed, removed and expire.
Addresses are sets of bit positions with the fields of `ss_lib.py`. The rules come
from the source that installs them: `StaticRules` from `gss.py`, the others from
`ss_rule_scheme.py` and `process_FR`. `allowed` and `due` say where a packet may or
must go in terms of participants and links, without bits, so that comparing them with
where it ends says whether bits are confused. Binary notation is a constant, `Bits`, of
which only is assumed that different numbers are written differently and 0 without ones
(`NotationAssumption`); `MCBits` is the real one. `LayoutAssumption` says that the fields
have room in an address, `FabricAssumption` and `ControllersAssumption` that the numbers
of participants and ports, the next hops and the tags have room in their fields, and that a
controller's tags differ, and that a policy's rule wants some superset bit to be one,
which is the bit of the participant it diverts to. That tags do fit is up to the configuration: a controller hands
out more of them than the field holds when many participants are backups (see the facts
below), and nothing here is about addresses of which that is true.

### Burst

The second half of `run_peer`, one message a step. The loop that steps the clock is
`Quiet` (some second has too few withdrawals), the window `Within` and `Expired`. The
window is popped from its front until something recent comes (`Popped`), which removes
all that is too old only because the window is sorted, as the proof shows. The
Fowlkes-Mallows score is compared by its powers (`Better`), so integers suffice; the
loop over links takes the first one with the best score, in the order of a set, so the
model takes any. `rib` stands for the graph `G` too, which has exactly its paths.

SWIFT is deployed with `"silent": true` (`examples/test-ms/config/sdx_global.cfg:33`),
so the prefix sets of `ASTopology` are not kept. A
dictionary with small integers as keys is walked in ascending order, as Python 2 does.

## The runs

Passing:

| Run | Question | Answer |
|---|---|---|
| `peer` | Do the three tables stay consistent? | Best routes are advertised; after a failure nothing survives; a best route is at most a tie, or unencoded, behind its neighbor (`StaleBestIsBounded`); it gives way only to newly encoded ones or such as the code ranks higher |
| `sessions` | What do controllers that fail, hang or reconnect do to the tables, the locks and the pipeline? | The two lookups agree, ports get lost only to the cleanup of an old session; with fair threads failed controllers are forgotten unless their connection was reset, and accepted ones are served; everything is worked off unless the one sender dies of a broken connection or waits for a controller that reads no more |
| `pipeline` | Are updates lost, reordered or misdirected on the way? | The newest update of a prefix comes last although announcements are repeated; no update overtakes the failure before it; the last update of every prefix arrives, but for withdrawals in an UPDATE that also announces; only participants that peer both ways hear anything |
| `controller` | Do routers reach the best next hop? | Yes, through re-used classes, recomputed supersets and an exhausted VNH network, unless the class is in no superset or a tag does not fit its field; classes are current and their fields narrowed to active participants; tags in VMACs that fit belong to participants that advertise the prefix |
| `encoding` | Does the encoding stay sound while routes change? | Codes are neither shared nor lost and uses are counted exactly; the path fits into its bits and no field moves; encoded links carry prefixes; a refresh frees half of a depth |
| `supersets` | Do policies reach whom they should, and nobody else? | VMACs of the present supersets match rules of advertisers only; no old rule stays; for the first superset every policy applies; packing keeps the advertisers of each prefix together, with no more rules, and within one bit of what is allowed |
| `dataplane` | Do flow mods get to the switches? | From the monitor on once each, and in order but for newer ones that go ahead while it catches up (a refinement of `OrderedDelivery`); removals and insertions are fenced on connections only one greenlet sends on at a time; the connection in use is the newest; before the monitor nothing is lost as long as threads do not overlap |
| `fabric` | Where do packets go while rules change? | To next hop, policy target or backup, and to the port the receiver asked for; due reroutes hold against policies; only addresses of nobody are dropped; no loop |
| `burst` | Does inference see the burst it should? | Counters are exact across bursts; a burst lasts exactly while the window is busy; a link that explains the whole burst is found if paths are not prepended |

Violations, each a finding in `PROJECT.json`:

| Run | What the code does |
|---|---|
| `encoding_reuse` | a refresh frees codes that routes still carry, and no update is sent for them (`xrs/encoding.py:352`, `447`): the reroute of another link takes those routes along |
| `peer_med` | the route with the higher MED displaces one of the same AS and length that is still on offer (`pctrl/bgp_route.py:36`), although the comment at line 20 says "Lowest  MED" |
| `dataplane_race` | two threads that push at a time lose, repeat or reorder flow mods (`pctrl/participant_controller.py:207`), although "it is crucial that dp_queued is traversed chronologically" (194) |

### Bounds, and why they are enough

* `peer`: two prefixes (a failure needs a second one to be in between), three
  neighbors (the smallest number for an intransitive order), routes that tie in
  length, differ in MED and come with and without an encoding. No bound on events:
  the state space is finite.
* `sessions`: two connections of an advertiser and one of a listener, of which one hangs,
  breaks or does both; two updates of one prefix, an encoding from the first withdrawal on, one
  fast reroute: an old and a coming session of one controller next to the cleanup, and a
  listener that goes in the middle of a send. No symmetry, since the run has liveness.
* `pipeline`: three updates (`MaxUpdates`) of two prefixes, one advertising port, two
  other participants of which one peers with it, an encoding that is computed at the first
  withdrawal (`EncodingThreshold = 2`), a burst after one withdrawal; nobody leaves.
  Two updates of one prefix and a withdrawal of another are the least that makes a
  repeated announcement overtake; two announcements and the withdrawal of one the least
  that makes a thread die while it repeats; three participants the least with one that
  must not hear. Kept announcements repeated because the RIB outgrows the threshold take
  a third prefix, too large a run; `NewestIsLast` and `ReadRoutesArrive` are for any
  threshold, and for controllers that come and go.
  The deployed values (1000 prefixes, 400 withdrawals) only make the same
  alternation slower.
* `controller`: two prefixes that can share a class, four border routers of three
  participants (two routers of one, so that a next hop participant has a second
  route), encoded and unencoded routes, four VNH addresses of which one is a border
  router's, one tag bit (three backups want a tag, one fits its field). That exhausts VNHs
  and tags in a few events. `MaxDepth = 3` is the deployed value. Policies forward to two
  participants, and the class of both may be in no superset. A fallback backup that
  is tagged late (`TooLateForTag`) takes five VNHs and does not occur; the theorem
  `GroupsCurrent` covers it.
* `encoding*`: four prefixes and up to eight ASes. With `MaxBytes = 9` each of the
  three depths gets two bits for its first AS, so the depth of the last AS can have as
  few as three codes and the fourth AS there finds it full. The encoding starts with the second prefix or the
  first withdrawal; the number of messages is not bounded. `MaxDepth = 3`,
  `MinPercentile = 5` and `MaxFree = 500` are the deployed values; 500 free codes are never reached. One path
  has an AS link of another one at another depth. Prefixes are symmetric.
* `supersets`: three alike prefixes, three participants, one not a peer; four
  policies, two of them for one participant. Three bits, of which one is kept spare, so
  that supersets of two fit, or of one if there are three of them: seven updates are
  enough to expand, to find no room, to recompute into more than one superset and to
  truncate. A change removes a policy, another one replaces one. `PackingServesAll`
  tries all numbers of bits in each state.
* `dataplane*`: an event thread that adds a rule or has none, a policy thread that
  wipes and re-installs, two switches, three connections in all, one unreported state
  change at a time, two flow mods queued before the last event starts: enough for a
  switch that reconnects while flow mods wait, and for a thread in the middle of
  another one's `push_dp`. In `dataplane` one thread works at a time (`MaxActive = 1`) and
  three flow mods are queued before: what the monitor promises does not depend on who sends
  (`ControllerUsesMonitor`), and completeness is claimed for threads that do not overlap;
  `dataplane_race` has both at work.
* `fabric`: four participants, with and without outbound and inbound rules, with one
  and two ports; 15 bits instead of 48, all fields there. The classes of prefixes are
  chosen so that fields hold the bits of others; two links share a code. Five rerouting
  rules at a time are two failures at two ports. No bound on events.
* `burst`: three prefixes, three paths that share a link and one of them prepended, a
  window of one second, bursts from two withdrawals on, four seconds, three
  withdrawals that count at a time. The weights of precision and recall are the
  deployed ones, 1 and 3.
* `CHECK_DEADLOCK FALSE`: connections, updates, flow mods and seconds are bounded,
  and a controller or SWIFT thread that has died takes no step.

### Fairness

Weak fairness of `StartThread`, `Close` or `Abort`, `Retire`, `Unregister` and of
`Listener`, `SenderTake`, `SwiftStep`, `SwiftPut`, `Send`: each is the next step of a
thread that loops for ever and is runnable when the action is enabled. Which of `Close` and
`Abort` a broken connection takes is left open. A `Send` to a controller whose process
lives but reads no more (`"deaf"`) is not fair: it fills buffers and may then block for
ever, and the only sender with it. No fairness for anything
outside the process (ExaBGP, controllers) nor for `FastReroute`, `Hello` or
`Accept`. Weak fairness is enough for `Retire`, which competes for
`clientPoolLock`, since connections are finitely many; the code has no more.
`BGPPeer!FairSpec` is not needed by any run, and the new modules state safety only:
a reference monitor waits for switches nobody promises, and rules of a burst need
messages that may not come.

## The proofs

Proved by TLAPS for all values of the constants, from the named assumptions of the
modules only (types, symbols for "nothing" are not values, every router has a
participant, the fields of an address have room for the numbers in them).

**BGPPeer_proofs.** `IInv` is inductive: the five invariants, the types, `Keyed` (an
input route is stored under its own neighbor) and `FailureInProgress` (the failed
neighbor has no routes, and pending prefixes and failed neighbor go together).
The two extras are what an announcement needs to know that the best route
of a failing neighbor is pending, and what the last step of a failure needs to know
that nothing through that neighbor is left. `RerunYieldsCurrent` says a rerun
returns what its neighbor advertises, whatever the sort does; no transitivity of
the order is used, only irreflexivity. `NextIInv` is the step, one lemma per action.
From it: `TypeCorrect`, `BestAdvertised`, `Routed`, `StalenessBounded`, and the
action properties `FailureFlushes` and `Displacement`.

**RouteServer_proofs, sessions.** The conjunction of the safety invariants with one more,
`AcceptorWaits`: the connection being admitted has no running thread yet. Without
it `StartThread` could revive a finished connection. From it
`RepresentativesAreUncleaned`, `LookupsAgree` and `LostPorts`. Threads that die of a reset
leave the tables alone, so the argument covers them.

**ParticipantController_proofs.** `CInv`, for a controller that is alive:
`ClassesAreDistinct` (an id is at most the number of entries of `FEC_list`, strays
included, so a new id is new although ids of BECs are not), `VNHsKeepNextHop` (a
VNH's latest group has the FEC id of every pair that maps to it, and its VMAC, if its
fields are in their places, carries that FEC's next hop), `FieldsAreNarrowed` (each class
lists just the active ones among the advertisers in its key, since the VNH it was made
for is ARPed in the same event), `GroupsAreAnnounced` (the routers hold the VNH of the
prefix's pair). `DeployStep` is the heart: a VNH in use keeps its FEC, even when two
BECs share an id, so the VMAC need not be sent again. From it `PacketsReachBest`
(`RoutersReachBest`) and `ControllerRefinesPeer` (`StepsOfPeer`: a step the
controller survives is a step of `BGPPeer`, which also carries `IInv` over).
Backups and tags need `ClassesTypeOK`, `TagsAreDistinct` (tags are given out in turn,
and a tag is at most the size of the table) and `VNHsKeepBackups` (backups and tags in
a VMAC without spilled bits are those of participants in the VNH's FEC other than its next
hop, and a VMAC is bad only for want of a superset or of room for tags). The last is
what makes shared VNHs harmless: whichever BEC a VNH was made for, its FEC is the same,
and with it the advertisers. From these `GroupsCurrent`, by cases on how the search of
`Backup` ends, `BackupsAdvertise`, and `DroppedAsAnnounced`, which needs only the
order in which `Lose` and `Retract` use the tables.

**RouteServer_proofs, pipeline.** `NextTables` carries that invariant of the sessions
over to the pipeline, `PipelineTypes` adds the types
(`PipelineTypeCorrect`). Then, each on top of those before:
`PeeringInv` says that what the sender holds is for connections that said hello and
peer with the source, which stays true while the lock is released, since peerings and
a connection's participant never change. From it `OnlyPeersHear` and
`SenderLostOnlyToBroken`.
`NumbersAscend` and `DownsInOrder`: what has left the receiver queue is older than
what is in it, and behind a failure there is nothing older of the same port, in the
peer queue, in the sender's hand and in the inbox. `Moves` lists what a step
takes from one place to another, so that this is proved once for all. From it
`DownsStayInOrder`.
`ThreadOrder` and `PassedOrder`: the queue of a SWIFT thread and its kept announcements
ascend, and until the encoding exists everything that has passed the thread is an
announcement that is still kept, or a newer one of its prefix is. Hence what is
repeated ends with the newest. `Attended` adds that a controller that said hello and
did not leave is the one its participant is represented by. From it `NewestIsLast`.
`LatestKnown` and `Underway`: for a controller and a port that hear each other, the
last update since both registered is in the receiver queue, in the queue of the thread,
or the last about its prefix on the way from there; the last failure likewise. When
nothing is under way it is in the inbox: `ReadRoutesArrive`. The prefixes an UPDATE
withdrew next to announcements (`unread`) are left out until they are in a later one.

**Encoding_proofs.** First the mapping of one depth: `AddByteOK`, `GrownOK`, `TakeCode`,
`AddOK`, `RemoveOK` say what each operation keeps, `NoGrowth` that an AS for which
`is_available` says 0 takes no bit, with and without overprovisioning. Then `EInv`:
mappings are sound and blocked ones mean that the bits are used up (`MappingsOK`), the
counts are the cardinalities of the sets of encoded links (`EncodedCounted`), what the
thread has left to do is not encoded yet (`Phases`), nor is the link a depth is
refreshed for (`AwaitsCode`), without which a link could be counted twice. From it
`CodesKept`, `UsesCounted`, `Survival` and `LayoutFixed`. Also `RoomMade`: when no encoded
link touches a depth any more, no AS has a code there (`EmptyDepth`), and what is left,
the entry for code 0, is at most half of a mapping that has bits.
`TInv` adds the graph: `G` counts the prefixes whose path uses a link (`GraphCounts`),
and an encoded link is used unless the message at hand is about to release it
(`EncodedUsed`). From it `EncodedTraversed`.
`FitInv` adds the bits: while the encoding is computed they are as many as
`total_bytes` says, two fewer than there are, and a mapping that has bits has a free
code (`Roomy`) unless `MaxFree <= 1` keeps it from taking more than one. That is what
`AddFits` needs: `is_available` never expects fewer bits than an add takes. From it
`CodesFit`, under `MaxBytes >= 2`; the code's default is 12, and with fewer than two the
bits that `compute_encoding` gives out at its end are not there. Percentiles and
weights are not needed.

**Burst_proofs.** `BInv`: the types, the window sorted by time and nothing in it later
than the last message (`InOrder`), and the two properties themselves. Without the order
`Popped`, which stops at the first recent withdrawal, would leave old ones behind.
`WindowParts` says that the window is what has expired followed by what is within,
`PoppedAreOld` and `WindowIsFresh` that popping removes just the former, and
`CountConcat` that uses of a link in two sequences add up. The step is one lemma
(`HandleStep`) for announcements and withdrawals, by cases on whether there was a burst
and whether there is one now. From it `CountersExact` and `BurstsAreBusy`. `BurstIsBig`
is there for inference: as long as a burst lasts, `BurstStart` withdrawals or more count.
`FailureFound` rests on three things. What is inferred was due: a step that ends a burst
does not begin another, as the window only shrinks with time (`WindowShrinks`). Counters
are about paths: if none is prepended, a link counts at most once per path, and as often
as there are paths just if all use it (`CountOfUnprepended`). And scores: such a link that
no route uses has the best score, any other one less (`ScoresCompare`), by the laws of
powers (`PowerGrows`, `PowerOfSum`) and products. The last needs `RW > 0`, as deployed
(`r_w` is 3); without a weight, links that some withdrawals used would score as well.
The AS it comes from passes `w_threshold`, as all withdrawn paths go on from it
(`LinkWeighsLess`).

**DataPlane_proofs.** Two layers. For the monitor, `RInv`: a flow mod that was taken from
the inbox was handed over, waits in `fm_queue` or is in the hands of one greenlet, and one
of these only (`EachOnce`); `fm_queue` ascends and the app's greenlet holds something older
than it (`QueuesInOrder`); and nothing waits or is under way there unless it is being
emptied (`CatchesUp`). So outside that time the server's greenlet hands out the oldest that
is left, and during it the newest of all. From it `MonitorDelivers`: each step of
`RefMon` is a step of `OrderedDelivery` or changes none of its variables.
`SessionInv` is about connections: numbers ascend, a connection that is not known yet
is still to be reported, and so is the end of one that is known but gone. With it
`MonitorKnowsDatapaths` (the connection in use is the newest reported) and
`MonitorFences` (a removal and the insertion after it are separated by a barrier on every
connection that two greenlets never sent on at a time; what a greenlet has in hand is
accounted for between the note in `last_command_type` and the send; `ControllerFences`
for any number of threads).
`ControllerUsesMonitor` shows that threads drive the monitor only by `Arrive`, so
`ControllerDelivers` carries the refinement over to any number of threads, whether they
overlap or not. For the controller, `DInv`: a thread that is alone holds the current
list, what it copied is a prefix of it, and what was queued is what arrived and what it
holds. From it `NothingLost`. Switches, flow mods and work are arbitrary.

**Fabric_proofs.** First addresses: `FieldTells` (numbers that fit in a field can be told
apart by it), `Regions` (the fields do not overlap, nor do the tags of two depths), hence
`VmacParts`, `DivertedParts` and `PortAddressParts`: what the mask of each kind of rule sees
of each kind of address. Then rules: `FoundMatch` says what a matching rule of each kind
means for a packet and what it does, `Finds` which packets each kind matches for
certain, which is needed to know that a rule of lower priority is not chosen.
`FabricInv` says where a packet is on its way: `Entering` as it was sent, `Between` the
main switches as it was sent or diverted to someone who may get it, `Returning`, with the
address of the right port if its receiver has inbound rules, or `Arrived`. A packet that
was to be rerouted is never as it was sent, which is what keeps policies off it, as the
rules of policies look at superset bits and a diverted packet has none. Who may get a
packet only grows while it is under way, and covers whoever the present rules may divert
it to. One lemma per table (`EnteringStep`, `OutboundStep`, `InboundStep`,
`ReturningStep`), by cases on the rule applied. From it `PacketsArriveAsIntended`,
`ReroutedPacketsArrive`, `OnlyFalseAreDropped` and `PacketsDoNotLoop`.

**Supersets_proofs.** First the algorithms. `Pow2Def`, `IdSizeDef` and `OnesInjective` say
that the number of a superset fits its bits and can be told apart from the others.
`RemoveSubsetsDef`: each set is inside one that stays. `MergedServes`: a round keeps
every set inside some other (`MergeKeepsSets`), saves the rules of what the two sets
share (`MergeSavesRules`, by counting the rules of a union), and needs at most the bits
of the test before it (`MergeFitsBits`), one more when the last two become one.
`MinimizeServes` is the induction over rounds; a round that merges makes the list shorter, so
after as many rounds as there are sets there is nothing left to merge, which justifies
the bound on the loop. From it, for all sets and bits, `PackingIsSafe`.
Then `Inv`: `ClassesHold` (a class lost only advertisers no policy forwards to),
`VmacsHold` (a VMAC of the present supersets has the number of one of them and bits of
its members that advertise the class; until policies are replaced, of all that some
policy wants), rules for the first superset only are complete (`FirstHasRules`) and
no rule is without a policy and a place (`HasPlace`), and nothing is advertised before
anything is computed (`NothingYet`). The last is why the first computation is complete:
it sees one prefix, so it makes one superset. `WipedClean` says that rules that go by the
cookies of the policies all go, `Extends` that a superset that grows keeps its places,
so older VMACs and rules stay right. One lemma per branch of `update_supersets` and
per kind of policy change. From it `NoWrongDiversion`, as numbers of supersets differ,
`NoRuleLeftBehind` and `FirstSupersetServed`.

**Induction.** The provers take no theorem with an operator as a parameter, so induction
over numbers is done through sets: `NatSetInduction` (in `RouteServer_proofs`,
`Supersets_proofs` and `Burst_proofs`) derives it from the pigeonhole principle or from
the least element of a set of naturals, induction over finite sets follows
from it, and a last element of a sequence is a maximum of its indices.

**Only model-checked:** liveness (`CrashedIsForgotten`, `AcceptedIsServed`,
`EventuallyDrained`), which is out of reach of the provers. Some theorems are about
facts that no run repeats: the inductive invariants, the types, `AdvertisedIsRouted`,
`RepresentedByUncleaned`.

## Facts about the code

Seen while modelling, and in the models as they are in the code. No run is about
them; where a property excludes them, it says so.

* An unencoded best route that its own neighbor replaces by a worse one stays, since
  the rerun (`pctrl/peer.py:82`) is an `elif` of the test for the encoding.
* The cleanup of an old connection removes the ports of the session that replaced it
  (`xrs/route_server.py:83`).
* An UPDATE that announces and withdraws delivers its announcements only
  (`xrs/route_server.py:437`), although the route server "multiplexes all BGP routes to the
  participant controllers" (`examples/test-ms/README.md:93`); `ReadRoutesMultiplexed`
  leaves out the prefixes concerned.
* A controller that goes with routes unread resets its connection; the `IOError` ends its
  thread before the cleanup (`xrs/route_server.py:59`), and its participant stays
  registered until the controller comes back.
* A controller whose event thread died, but whose process lives, reads no more; once
  buffers are full the only sender waits for it for ever (`xrs/route_server.py:136`).
* The withdrawal of an announcement kept for the encoding ends the SWIFT thread:
  `list.pop` with a dictionary (`xrs/participant_swift.py:315`). Routes it was about to
  repeat after that one are not, so an older path may be the last a controller hears of
  a prefix that is still announced.
* A BEC made on a withdrawal is stored in `FEC_list` and its id given out again, so
  prefixes with different backups may share a VNH (`pctrl/BEC.py:93`).
* The withdrawal of a prefix never heard of raises a `KeyError` that ends the event
  thread (`participant_controller.py:665`, `alive`).
* A re-encoded route keeps the BEC and so the VMAC of its old encoding (`BEC.py:46`);
  more backups get tags than the tag field has values (`BEC.py:167`,
  `supersets.py:303`). The test at `BEC.py:168` passes over a participant without a tag
  when the table is full, yet the fallback, which is not tested, may be such a one and
  be tagged then. Tags that do not fit are not cut (`supersets.py:305`): the address gets
  longer than 48 bits, which is logged, and a shifted one is used.
* `init_BEC_assignment` looks classes up by the whole path instead of its encoded part
  and makes new ones with a misspelt key (`BEC.py:138`), over which `get_vmac` raises.
* `prefix_is_encoded` (`xrs/encoding.py:481`) reports a prefix as encoded although it was
  announced before its link was (statistics only).
* New policies end the thread that takes them before it sends the ARPs
  (`participant_controller.py:446`): routers keep VMACs of the old supersets, which
  rules of the new ones may match.
* A recomputation installs rules for the first superset only (`supersets.py:147`), and
  rules of one policy share a match (`ss_rule_scheme.py:64`), so the last superset wins.
* Merging the last two supersets may take one bit more than allowed
  (`ss_lib.py:72`); with four spare bits it does no harm.
* While `fm_queue` is emptied, flow mods that arrive go ahead of those in it
  (`flanc/lib.py:224`, `258`), and the barrier between two commands may be used up by the
  other greenlet's. Table-miss entries are sent again to all switches whenever one comes
  back, without barriers.
* When a switch reconnects before the end of its old connection is noticed, the latter
  removes the new one (`flanc/lib.py:230`), and flow mods wait for the next connection.
  A switch that reconnects gets no rules it had before.
* The first inference of a burst waits for one withdrawal more than
  `min_bpa_burst_size` (`participant_swift.py:391`); repeated and unknown withdrawals
  count for its size, and announced prefixes still do.
* Prepended paths are not cleaned (`clean_aspath` is never called): the link of an AS to
  itself outweighs the failed link. Without `silent` the set of prefixes of a link
  used twice raises a `KeyError` (`as_topology.py:73`).
* In a burst a message with an earlier or fractional time makes the clock loop for ever
  unless the burst ends first (`participant_swift.py:324`); times are whole and
  ascending in the model.

## What is not modelled

Origin, communities and other attributes nothing compares; `process_notification`
(never called); logging, formatting, the wire format; the MDS and single-table modes
of the controller (the deployed mode is supersets), the multi-table, one-switch and
OF-DPA modes of the monitor and of the static rules, the naive and multiple
algorithms of `bpa.py`. The ARP proxy has the threads and locks of the sessions of
the route server, with MACs in place of ports, and no other state; ARPs are taken to
arrive, and answers to requests are what the routers were last sent. A reference
monitor that is down makes `send` wait without a pause. The translation of flow mods
is modelled as far as priorities, matches and actions go (`Fabric`); the ExaBGP bridge and
the configuration parser have no control worth a state machine. `Supersets` takes a
prefix's class to be its set of advertisers and an event as one step, so a policy
change that interleaves with a BGP update is in `DataPlane` only, as flow mods.
`ParticipantController`, `Supersets` and `Fabric` are not composed: each takes from the
others what its constants and `ASSUME`s say. Worth adding next: that composition.
