------------------------------ MODULE MCFabric ------------------------------
(* Participant 1 has outbound rules, 2 and 3 have inbound ones; 1 and 3     *)
(* have two ports.  Two superset bits, three bits of next hop, three tags   *)
(* of two bits, and a bit for each AS of the path from depth 2 to 4.        *)
EXTENDS Fabric, TLC

MCBits == [n \in 0..7 |-> {b \in 0..2 : (n \div 2 ^ b) % 2 = 1}]
MCPorts == <<2, 1, 2, 1>>
MCWebPort == [p \in {2, 3} |-> IF p = 3 THEN 1 ELSE 0]
MCTags == [p \in Parts |-> [q \in Parts |-> IF q < p THEN q ELSE q - 1]]

MCPolicies == {[part |-> 1, to |-> 3, mask |-> {2, 3}, value |-> {3}]}

\* Links at depths 2 and 3, by the codes of their ends.
Link2 == [depth |-> 2, mask |-> {13, 14}, value |-> {13, 14}]
Link3 == [depth |-> 3, mask |-> {14, 15}, value |-> {14, 15}]

MCFailures ==
    {[part |-> 1, peer |-> x[1], link |-> x[2]] : x \in {<<2, Link2>>, <<2, Link3>>, <<4, Link2>>}}

Class(bits, nh, backups, path) ==
    [bits |-> bits, next_hop |-> nh, backups |-> backups, path |-> path]

\* The third one ends in the bits of port 0 of participant 2; next hop 5 is nobody.
MCClasses ==
    {Class({3}, 2, <<3, 3, 3>>, {13, 14, 15}), Class({3}, 4, <<2, 2, 3>>, {13, 14}),
     Class({}, 4, <<2, 3, 3>>, {14}), Class({}, 3, <<>>, {}), Class({}, 5, <<>>, {})}
=============================================================================
