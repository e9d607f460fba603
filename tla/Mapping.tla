------------------------------ MODULE Mapping ------------------------------
(* One depth of a SWIFT encoding (class Mapping of xrs/encoding.py): which  *)
(* AS has which code, how often each AS is used, and which codes are free.  *)
(* Code 0 says "not encoded" and is never given out; an AS without a code   *)
(* has code 0 here and no key in the code's dictionary.                     *)
EXTENDS Integers, FiniteSets

CONSTANTS ASes,     \* the AS numbers that occur
          MaxFree   \* free codes beyond which nothing is overprovisioned

\* An AS is used as the first or as the second end of an AS link.
Sides == {"from", "to"}

Mappings == [nb_bytes : Nat,                     \* bits of a code, in fact
             capacity : Nat,                     \* pow(2, nb_bytes)
             free     : SUBSET Nat,
             code     : [ASes -> Nat],
             count    : [Sides -> [ASes -> Nat]],
             blocked  : BOOLEAN]

EmptyMapping == [nb_bytes |-> 0, capacity |-> 1, free |-> {},
                 code  |-> [a \in ASes |-> 0],
                 count |-> [s \in Sides |-> [a \in ASes |-> 0]],
                 blocked |-> FALSE]

Mapped(m) == {a \in ASes : m.code[a] # 0}

\* len(mapping): the entry of -1, which holds code 0, counts as well.
Size(m) == Cardinality(Mapped(m)) + (IF m.nb_bytes > 0 THEN 1 ELSE 0)

AddByte(m) == [m EXCEPT !.nb_bytes = @ + 1,
                        !.capacity = 2 * @,
                        !.free = @ \cup (m.capacity..(2 * m.capacity - 1))]

\* A slip: overprovisioning whoever asks, as is the default of the parameter.
GrownAlways(m, overprovisioning) ==
    LET enough == IF m.free = {} THEN AddByte(m) ELSE m
    IN  IF Cardinality(enough.free) <= Size(enough) /\ Cardinality(enough.free) < MaxFree
        THEN AddByte(enough) ELSE enough

\* The bits Mapping.add adds before it takes a code: one if none is free, and one
\* if at most as many are free as are in use.
Grown(m, overprovisioning) ==
    LET enough == IF m.free = {} THEN AddByte(m) ELSE m
        scarce == /\ Cardinality(enough.free) <= Size(enough)
                  /\ Cardinality(enough.free) < MaxFree
    IN  IF overprovisioning /\ scarce THEN AddByte(enough) ELSE enough

\* A slip: an AS that has a code already is not counted again.
MappingAddCountsOnce(m, asn, side, overprovisioning) ==
    IF m.code[asn] # 0 THEN m
    ELSE LET grown == Grown(m, overprovisioning)
             c == CHOOSE x \in grown.free : \A y \in grown.free : x <= y
         IN  [grown EXCEPT !.code[asn] = c, !.count[side][asn] = 1, !.free = @ \ {c}]

\* A mapped AS is counted; another one gets the lowest free code, unless that
\* needs a bit and the mapping is blocked.
MappingAdd(m, asn, side, overprovisioning) ==
    LET grown == Grown(m, overprovisioning)
        c == CHOOSE x \in grown.free : \A y \in grown.free : x <= y
    IN  IF m.code[asn] # 0 THEN [m EXCEPT !.count[side][asn] = @ + 1]
        ELSE IF m.blocked /\ grown # m THEN m
        ELSE [grown EXCEPT !.code[asn] = c, !.count[side][asn] = 1, !.free = @ \ {c}]

\* A slip: one bit is expected where the first AS takes two.
IsAvailableFirstForOne(m, asn, overprovisioning) ==
    LET room == IF overprovisioning
                THEN Cardinality(m.free) > Size(m) \/ Cardinality(m.free) > MaxFree
                ELSE m.free # {}
    IN  IF m.code[asn] # 0 \/ room THEN 0 ELSE 1

\* How many bits Mapping.add would need for this AS.
IsAvailable(m, asn, overprovisioning) ==
    LET room == IF overprovisioning
                THEN Cardinality(m.free) > Size(m) \/ Cardinality(m.free) > MaxFree
                ELSE m.free # {}
    IN  IF m.code[asn] # 0 \/ room THEN 0
        ELSE IF overprovisioning /\ m.nb_bytes = 0 THEN 2 ELSE 1

\* A count that falls below zero ends the thread: sys is not imported.
Underflows(m, asn, side) == m.code[asn] # 0 /\ m.count[side][asn] = 0

\* A slip: the code is forgotten instead of given back.
MappingRemoveLeaks(m, asn, side) ==
    LET counted == [m EXCEPT !.count[side][asn] = @ - 1]
    IN  IF m.code[asn] = 0 THEN m
        ELSE IF \A s \in Sides : counted.count[s][asn] = 0
        THEN [counted EXCEPT !.code[asn] = 0]
        ELSE counted

\* The code of an AS is given back with its last use.
MappingRemove(m, asn, side) ==
    LET counted == [m EXCEPT !.count[side][asn] = @ - 1]
    IN  IF m.code[asn] = 0 THEN m
        ELSE IF \A s \in Sides : counted.count[s][asn] = 0
        THEN [counted EXCEPT !.code[asn] = 0, !.free = @ \cup {m.code[asn]}]
        ELSE counted

\* Every code but 0 is free or held by one AS, and no code is lost.
CodesPartitioned(m) ==
    /\ \A a, b \in Mapped(m) : m.code[a] = m.code[b] => a = b
    /\ \A a \in Mapped(m) : m.code[a] \notin m.free
    /\ m.free \cup {m.code[a] : a \in Mapped(m)} = 1..(m.capacity - 1)
=============================================================================
