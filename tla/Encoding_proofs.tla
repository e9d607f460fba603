-------------------------- MODULE Encoding_proofs --------------------------
(***************************************************************************)
(* Proofs about Encoding for every set of prefixes and paths, every depth  *)
(* and every number of bits: codes are neither shared nor lost, uses are   *)
(* counted exactly, the thread never ends of a count, the fields of a      *)
(* computed encoding do not move, and a refresh makes room.  First the     *)
(* mapping of one depth, then the invariant of the thread; then the        *)
(* encoded links against the topology, and the bits of a path against      *)
(* those the VMAC has.                                                     *)
(***************************************************************************)
EXTENDS Encoding, TLAPS, FiniteSetTheorems, WellFoundedInduction

(***************************************************************************)
(* One depth.                                                              *)
(***************************************************************************)
\* A mapping with bits has codes besides code 0.
MappingOK(m) ==
    /\ m \in Mappings
    /\ m.capacity > 0 /\ (m.nb_bytes > 0 => m.capacity > 1)
    /\ CodesPartitioned(m)

\* A set of naturals that is not empty has a least one.
LEMMA LeastNatural ==
    ASSUME NEW S, S \subseteq Nat, S # {}
    PROVE  \E x \in S : \A y \in S : x <= y
<1>1. IsWellFoundedOn(OpToRel(<, Nat), Nat)
  BY NatLessThanWellFounded
<1>2. PICK x \in S : \A y \in S : <<y, x>> \notin OpToRel(<, Nat)
  BY <1>1, WFMin
<1>3. \A y \in S : ~(y < x)
  BY <1>2 DEF OpToRel
<1> QED
  BY <1>3

LEMMA EmptyMappingOK == MappingOK(EmptyMapping)
  BY DEF MappingOK, EmptyMapping, Mappings, Sides, CodesPartitioned, Mapped

\* A bit more: the codes of the new half are free.
LEMMA AddByteOK ==
    ASSUME NEW m, MappingOK(m)
    PROVE  /\ MappingOK(AddByte(m))
           /\ AddByte(m).free # {}
           /\ AddByte(m).nb_bytes = m.nb_bytes + 1
           /\ AddByte(m).code = m.code
           /\ AddByte(m).count = m.count
           /\ AddByte(m).blocked = m.blocked
<1> DEFINE n == AddByte(m)
<1>1. /\ m \in Mappings /\ m.capacity \in Nat /\ m.capacity > 0
      /\ m.nb_bytes \in Nat /\ m.free \subseteq Nat
      /\ m.code \in [ASes -> Nat]
  BY DEF MappingOK, Mappings
<1>2. /\ n.nb_bytes = m.nb_bytes + 1
      /\ n.capacity = 2 * m.capacity
      /\ n.free = m.free \cup (m.capacity..(2 * m.capacity - 1))
      /\ n.code = m.code /\ n.count = m.count /\ n.blocked = m.blocked
  BY <1>1 DEF AddByte, Mappings
<1>3. n \in Mappings
  <2>1. /\ m.nb_bytes + 1 \in Nat /\ 2 * m.capacity \in Nat
        /\ m.free \cup (m.capacity..(2 * m.capacity - 1)) \subseteq Nat
    BY <1>1
  <2> QED
    BY <1>1, <2>1 DEF AddByte, Mappings
<1>4. m.capacity \in n.free
  BY <1>1, <1>2
<1>5. CodesPartitioned(n)
  <2>1. Mapped(n) = Mapped(m)
    BY <1>2 DEF Mapped
  <2>2. \A a \in Mapped(m) : m.code[a] \in 1..(m.capacity - 1)
    BY DEF MappingOK, CodesPartitioned
  <2>3. \A a \in Mapped(n) : n.code[a] \notin n.free
    BY <1>1, <1>2, <2>1, <2>2 DEF MappingOK, CodesPartitioned
  <2>4. 1..(n.capacity - 1) = 1..(m.capacity - 1) \cup m.capacity..(2 * m.capacity - 1)
    BY <1>1, <1>2
  <2>5. n.free \cup {n.code[a] : a \in Mapped(n)} = 1..(n.capacity - 1)
    BY <1>2, <2>1, <2>4 DEF MappingOK, CodesPartitioned
  <2> QED
    BY <1>2, <2>1, <2>3, <2>5 DEF MappingOK, CodesPartitioned
<1> QED
  BY <1>1, <1>2, <1>3, <1>4, <1>5 DEF MappingOK

\* What Mapping.add gets to take its code from.
LEMMA GrownOK ==
    ASSUME NEW m, MappingOK(m), NEW over \in BOOLEAN
    PROVE  /\ MappingOK(Grown(m, over))
           /\ Grown(m, over).free # {}
           /\ Grown(m, over).nb_bytes >= m.nb_bytes
           /\ Grown(m, over).code = m.code
           /\ Grown(m, over).count = m.count
           /\ Grown(m, over).blocked = m.blocked
<1> DEFINE enough == IF m.free = {} THEN AddByte(m) ELSE m
<1>1. /\ MappingOK(enough) /\ enough.free # {}
      /\ enough.nb_bytes >= m.nb_bytes /\ enough.code = m.code
      /\ enough.count = m.count /\ enough.blocked = m.blocked
      /\ m.nb_bytes \in Nat /\ enough.nb_bytes \in Nat
  BY AddByteOK DEF MappingOK, Mappings
<1>2. Grown(m, over) = enough \/ Grown(m, over) = AddByte(enough)
  BY DEF Grown
<1> HIDE DEF enough
<1>3. CASE Grown(m, over) = enough
  BY <1>1, <1>3
<1>4. CASE Grown(m, over) = AddByte(enough)
  BY <1>1, <1>4, AddByteOK
<1> QED
  BY <1>2, <1>3, <1>4

\* Codes in use are held by different ASes, so there are finitely many, and free
\* ones are bounded by the capacity.
LEMMA SizesAreNumbers ==
    ASSUME NEW m, MappingOK(m)
    PROVE  /\ Size(m) \in Nat /\ Cardinality(Mapped(m)) \in Nat
           /\ Cardinality(m.free) \in Nat
           /\ Cardinality(m.free) = 0 <=> m.free = {}
<1> DEFINE codes == 1..(m.capacity - 1)
           f == [a \in Mapped(m) |-> m.code[a]]
<1>1. m.capacity \in Nat /\ m.nb_bytes \in Nat
  BY DEF MappingOK, Mappings
<1>2. IsFiniteSet(codes)
  BY <1>1, FS_Interval
<1>3. f \in Injection(Mapped(m), codes)
  BY DEF MappingOK, CodesPartitioned, Injection, IsInjective
<1>4. IsFiniteSet(Mapped(m))
  BY <1>2, <1>3, FS_Injection
<1>5. Cardinality(Mapped(m)) \in Nat
  BY <1>4, FS_CardinalityType
<1>6. IsFiniteSet(m.free)
  BY <1>2, FS_Subset DEF MappingOK, CodesPartitioned
<1> QED
  BY <1>1, <1>5, <1>6, FS_CardinalityType, FS_EmptySet DEF Size

\* An AS that is said to need no bit takes none.
LEMMA NoGrowth ==
    ASSUME NEW m, MappingOK(m), NEW a, m.code[a] = 0, NEW over \in BOOLEAN,
           IsAvailable(m, a, over) = 0
    PROVE  Grown(m, over) = m
<1>1. /\ Size(m) \in Nat /\ Cardinality(m.free) \in Nat
      /\ Cardinality(m.free) = 0 <=> m.free = {}
  BY SizesAreNumbers
<1>2. IF over THEN Cardinality(m.free) > Size(m) \/ Cardinality(m.free) > MaxFree
              ELSE m.free # {}
  BY DEF IsAvailable
<1>3. MaxFree \in Nat
  BY EncodingAssumption
<1>4. CASE over
  <2>1. m.free # {}
    BY <1>1, <1>2, <1>3, <1>4
  <2>2. ~(Cardinality(m.free) <= Size(m) /\ Cardinality(m.free) < MaxFree)
    BY <1>1, <1>2, <1>3, <1>4
  <2> QED
    BY <2>1, <2>2 DEF Grown
<1>5. CASE ~over
  BY <1>2, <1>5 DEF Grown
<1> QED
  BY <1>4, <1>5

\* A new AS takes a code that is free.
Take(m, c, a, side) ==
    [m EXCEPT !.code[a] = c, !.count[side][a] = 1, !.free = @ \ {c}]

LEMMA TakeCode ==
    ASSUME NEW m, MappingOK(m), NEW c \in m.free, NEW a \in ASes, m.code[a] = 0,
           NEW side \in Sides
    PROVE  LET n == Take(m, c, a, side)
           IN  /\ MappingOK(n)
               /\ n.nb_bytes = m.nb_bytes /\ n.blocked = m.blocked
               /\ n.count = [m.count EXCEPT ![side][a] = 1]
               /\ n.code[a] # 0 /\ \A b \in ASes \ {a} : n.code[b] = m.code[b]
<1> DEFINE n == Take(m, c, a, side)
<1>1. m \in Mappings /\ m.capacity > 0 /\ CodesPartitioned(m)
  BY DEF MappingOK
<1>2. n = [m EXCEPT !.code[a] = c, !.count[side][a] = 1, !.free = @ \ {c}]
  BY DEF Take
<1> HIDE DEF n
<1>4. c \in 1..(m.capacity - 1)
  BY <1>1 DEF CodesPartitioned
<1>5. /\ n.nb_bytes = m.nb_bytes /\ n.capacity = m.capacity /\ n.blocked = m.blocked
      /\ n.free = m.free \ {c}
      /\ n.code = [m.code EXCEPT ![a] = c]
      /\ n.count = [m.count EXCEPT ![side][a] = 1]
      /\ n \in Mappings
  <2>1. /\ c \in Nat /\ m.free \ {c} \in SUBSET Nat
        /\ [m.code EXCEPT ![a] = c] \in [ASes -> Nat]
        /\ [m.count EXCEPT ![side][a] = 1] \in [Sides -> [ASes -> Nat]]
    <3>1. /\ m.code \in [ASes -> Nat] /\ m.free \in SUBSET Nat
          /\ m.count \in [Sides -> [ASes -> Nat]]
      BY <1>1 DEF Mappings
    <3>2. [m.count[side] EXCEPT ![a] = 1] \in [ASes -> Nat]
      BY <3>1
    <3> QED
      BY <1>4, <3>1, <3>2
  <2>2. n = [nb_bytes |-> m.nb_bytes, capacity |-> m.capacity, free |-> m.free \ {c},
             code |-> [m.code EXCEPT ![a] = c],
             count |-> [m.count EXCEPT ![side][a] = 1], blocked |-> m.blocked]
    BY <1>1, <1>2 DEF Mappings
  <2>3. m.nb_bytes \in Nat /\ m.capacity \in Nat /\ m.blocked \in BOOLEAN
    BY <1>1 DEF Mappings
  <2>4. n \in Mappings
    BY <2>1, <2>2, <2>3 DEF Mappings
  <2> QED
    BY <2>2, <2>4
<1>6. /\ m.code \in [ASes -> Nat]
      /\ n.code[a] = c /\ c # 0
      /\ \A b \in ASes \ {a} : n.code[b] = m.code[b]
      /\ Mapped(n) = Mapped(m) \cup {a} /\ a \notin Mapped(m)
  <2>1. m.code \in [ASes -> Nat] /\ m.capacity \in Nat
    BY <1>1 DEF Mappings
  <2>2. c # 0
    BY <1>4, <2>1
  <2>3. n.code[a] = c /\ \A b \in ASes \ {a} : n.code[b] = m.code[b]
    BY <1>5, <2>1
  <2> QED
    BY <2>1, <2>2, <2>3 DEF Mapped
<1>7. CodesPartitioned(n)
  <2>1. \A b \in Mapped(m) : b # a /\ n.code[b] = m.code[b] /\ n.code[b] # c
    BY <1>1, <1>6 DEF Mapped, CodesPartitioned
  <2>2. \A x, y \in Mapped(n) : n.code[x] = n.code[y] => x = y
    BY <1>1, <1>6, <2>1 DEF CodesPartitioned
  <2>3. \A x \in Mapped(n) : n.code[x] \notin n.free
    BY <1>1, <1>5, <1>6, <2>1 DEF CodesPartitioned
  <2>4. {n.code[x] : x \in Mapped(n)} = {m.code[x] : x \in Mapped(m)} \cup {c}
    BY <1>6, <2>1
  <2>5. n.free \cup {n.code[x] : x \in Mapped(n)} = 1..(n.capacity - 1)
    BY <1>1, <1>5, <2>4 DEF CodesPartitioned
  <2> QED
    BY <2>2, <2>3, <2>5 DEF CodesPartitioned
<1> QED
  BY <1>1, <1>5, <1>6, <1>7 DEF MappingOK, n

\* One use of an AS more or less.
UsedOnceMore(n, m, a, side) ==
    /\ n.count = [m.count EXCEPT ![side][a] = @ + 1]
    /\ n.code[a] # 0
    /\ \A b \in ASes \ {a} : n.code[b] = m.code[b]

UsedOnceLess(n, m, a, side) ==
    /\ n.count = [m.count EXCEPT ![side][a] = @ - 1]
    /\ n.code[a] # 0 <=> \E s \in Sides : n.count[s][a] > 0
    /\ \A b \in ASes \ {a} : n.code[b] = m.code[b]

\* An AS with a code is used once more, one without a code for the first time, if the
\* bits for it are there.
LEMMA AddOK ==
    ASSUME NEW m, MappingOK(m), NEW a \in ASes, NEW side \in Sides, NEW over \in BOOLEAN,
           m.code[a] = 0 => m.count[side][a] = 0,
           m.code[a] = 0 /\ m.blocked => Grown(m, over) = m
    PROVE  LET n == MappingAdd(m, a, side, over)
           IN  /\ MappingOK(n)
               /\ n.nb_bytes >= m.nb_bytes
               /\ Grown(m, over) = m => n.nb_bytes = m.nb_bytes
               /\ m.code[a] # 0 => n.nb_bytes = m.nb_bytes
               /\ n.blocked = m.blocked
               /\ UsedOnceMore(n, m, a, side)
<1> DEFINE n == MappingAdd(m, a, side, over)
           grown == Grown(m, over)
<1>1. m \in Mappings /\ m.nb_bytes \in Nat
  BY DEF MappingOK, Mappings
<1>2. CASE m.code[a] # 0
  <2>1. n = [m EXCEPT !.count[side][a] = @ + 1]
    BY <1>2 DEF MappingAdd
  <2>2. /\ n \in Mappings
        /\ n.nb_bytes = m.nb_bytes /\ n.capacity = m.capacity /\ n.blocked = m.blocked
        /\ n.free = m.free /\ n.code = m.code
        /\ n.count = [m.count EXCEPT ![side][a] = @ + 1]
    <3>1. /\ m.count \in [Sides -> [ASes -> Nat]]
          /\ [m.count EXCEPT ![side][a] = @ + 1] \in [Sides -> [ASes -> Nat]]
      <4>1. m.count \in [Sides -> [ASes -> Nat]]
        BY <1>1 DEF Mappings
      <4>2. [m.count[side] EXCEPT ![a] = @ + 1] \in [ASes -> Nat]
        BY <4>1
      <4> QED
        BY <4>1, <4>2
    <3>2. n = [nb_bytes |-> m.nb_bytes, capacity |-> m.capacity, free |-> m.free,
               code |-> m.code, count |-> [m.count EXCEPT ![side][a] = @ + 1],
               blocked |-> m.blocked]
      BY <1>1, <2>1 DEF Mappings
    <3> QED
      BY <1>1, <3>1, <3>2 DEF Mappings
  <2>3. MappingOK(n)
    BY <2>2 DEF MappingOK, CodesPartitioned, Mapped
  <2> QED
    BY <1>1, <1>2, <2>2, <2>3 DEF UsedOnceMore
<1>3. CASE m.code[a] = 0
  <2>1. /\ MappingOK(grown) /\ grown.free # {} /\ grown.nb_bytes >= m.nb_bytes
        /\ grown.code = m.code /\ grown.count = m.count /\ grown.blocked = m.blocked
    BY GrownOK
  <2>2. PICK c \in grown.free : n = Take(grown, c, a, side)
    <3>1. grown.free \subseteq Nat
      BY <2>1 DEF MappingOK, Mappings
    <3>2. (CHOOSE x \in grown.free : \A y \in grown.free : x <= y) \in grown.free
      BY <2>1, <3>1, LeastNatural
    <3> QED
      BY <1>3, <3>2 DEF MappingAdd, Take
  <2>3. m.count[side][a] + 1 = 1
    BY <1>3
  <2> HIDE DEF grown, n
  <2>4. /\ MappingOK(n) /\ n.nb_bytes = grown.nb_bytes /\ n.blocked = grown.blocked
        /\ n.count = [grown.count EXCEPT ![side][a] = 1]
        /\ n.code[a] # 0 /\ \A b \in ASes \ {a} : n.code[b] = grown.code[b]
    BY <1>3, <2>1, <2>2, TakeCode
  <2>5. [m.count EXCEPT ![side][a] = @ + 1] = [m.count EXCEPT ![side][a] = 1]
    BY <2>3
  <2> QED
    BY <1>1, <1>3, <2>1, <2>4, <2>5 DEF grown, n, UsedOnceMore
<1> QED
  BY <1>2, <1>3

\* A use less: the code is given back with the last one.
LEMMA RemoveOK ==
    ASSUME NEW m, MappingOK(m), NEW a \in ASes, NEW side \in Sides,
           m.code[a] # 0, m.count[side][a] > 0
    PROVE  LET n == MappingRemove(m, a, side)
           IN  /\ MappingOK(n)
               /\ n.nb_bytes = m.nb_bytes /\ n.blocked = m.blocked
               /\ UsedOnceLess(n, m, a, side)
<1> DEFINE n == MappingRemove(m, a, side)
           k == [m EXCEPT !.count[side][a] = @ - 1]
<1>1. /\ m \in Mappings /\ CodesPartitioned(m)
      /\ m.code \in [ASes -> Nat] /\ m.count \in [Sides -> [ASes -> Nat]]
  BY DEF MappingOK, Mappings
<1>2. /\ k \in Mappings
      /\ k.nb_bytes = m.nb_bytes /\ k.capacity = m.capacity /\ k.blocked = m.blocked
      /\ k.free = m.free /\ k.code = m.code
      /\ k.count = [m.count EXCEPT ![side][a] = @ - 1]
  <2>1. [m.count EXCEPT ![side][a] = @ - 1] \in [Sides -> [ASes -> Nat]]
    <3>1. [m.count[side] EXCEPT ![a] = @ - 1] \in [ASes -> Nat]
      BY <1>1
    <3> QED
      BY <1>1, <3>1
  <2>2. k = [m EXCEPT !.count[side][a] = @ - 1]
    OBVIOUS
  <2> HIDE DEF k
  <2>3. k = [nb_bytes |-> m.nb_bytes, capacity |-> m.capacity, free |-> m.free,
             code |-> m.code, count |-> [m.count EXCEPT ![side][a] = @ - 1],
             blocked |-> m.blocked]
    BY <1>1, <2>2 DEF Mappings
  <2> QED
    BY <1>1, <2>1, <2>3 DEF Mappings
<1>3. MappingOK(k)
  BY <1>2 DEF MappingOK, CodesPartitioned, Mapped
<1>4. n = IF \A s \in Sides : k.count[s][a] = 0
          THEN [k EXCEPT !.code[a] = 0, !.free = @ \cup {m.code[a]}] ELSE k
  BY DEF MappingRemove
<1> HIDE DEF n, k
<1>5. CASE \A s \in Sides : k.count[s][a] = 0
  <2>1. n = [k EXCEPT !.code[a] = 0, !.free = @ \cup {m.code[a]}]
    BY <1>4, <1>5
  <2>2. /\ [m.code EXCEPT ![a] = 0] \in [ASes -> Nat]
        /\ m.free \cup {m.code[a]} \in SUBSET Nat
    BY <1>1 DEF Mappings
  <2>3. /\ n.nb_bytes = m.nb_bytes /\ n.capacity = m.capacity /\ n.blocked = m.blocked
        /\ n.count = k.count
        /\ n.code = [m.code EXCEPT ![a] = 0]
        /\ n.free = m.free \cup {m.code[a]}
        /\ n \in Mappings
    BY <1>2, <2>1, <2>2 DEF Mappings
  <2>4. /\ n.code[a] = 0 /\ \A b \in ASes \ {a} : n.code[b] = m.code[b]
        /\ Mapped(n) = Mapped(m) \ {a} /\ a \in Mapped(m)
    BY <1>1, <2>3 DEF Mapped
  <2>5. CodesPartitioned(n)
    <3>0. \A x \in Mapped(n) : x \in Mapped(m) /\ x # a /\ n.code[x] = m.code[x]
      BY <2>4 DEF Mapped
    <3>1. \A x, y \in Mapped(n) : n.code[x] = n.code[y] => x = y
      BY <1>1, <3>0 DEF CodesPartitioned
    <3>2. \A x \in Mapped(n) : n.code[x] \notin n.free
      BY <1>1, <2>3, <2>4 DEF CodesPartitioned
    <3>3. {m.code[x] : x \in Mapped(m)} = {n.code[x] : x \in Mapped(n)} \cup {m.code[a]}
      BY <2>4, <3>0
    <3>4. n.free \cup {n.code[x] : x \in Mapped(n)} = 1..(n.capacity - 1)
      BY <1>1, <2>3, <3>3 DEF CodesPartitioned
    <3> QED
      BY <3>1, <3>2, <3>4 DEF CodesPartitioned
  <2> QED
    BY <1>2, <1>5, <2>3, <2>4, <2>5 DEF MappingOK, n, UsedOnceLess
<1>6. CASE ~(\A s \in Sides : k.count[s][a] = 0)
  <2>1. n = k
    BY <1>4, <1>6
  <2>2. \E s \in Sides : k.count[s][a] > 0
    <3>1. k.count \in [Sides -> [ASes -> Nat]]
      BY <1>2 DEF Mappings
    <3> QED
      BY <1>6, <3>1
  <2> QED
    BY <1>1, <1>2, <1>3, <1>6, <2>1, <2>2 DEF n, UsedOnceLess
<1> QED
  BY <1>5, <1>6

(***************************************************************************)
(* Uses of the codes of a depth by a set of links.                         *)
(***************************************************************************)
Uses(E, d, a, side) == {l \in E : IF side = "from" THEN l.depth = d /\ l.from = a
                                                   ELSE l.depth + 1 = d /\ l.to = a}

Counted(m, d, E) ==
    \A a \in ASes : /\ \A s \in Sides : m.count[s][a] = Cardinality(Uses(E, d, a, s))
                    /\ m.code[a] # 0 <=> \E s \in Sides : m.count[s][a] > 0

\* A link that does not touch a depth changes no count there.
LEMMA CountedElsewhere ==
    ASSUME NEW m, NEW d, NEW E, NEW l, Counted(m, d, E),
           \A b \in ASes, s \in Sides : Uses({l}, d, b, s) = {}
    PROVE  Counted(m, d, E \cup {l}) /\ Counted(m, d, E \ {l})
<1>1. \A b \in ASes, s \in Sides :
          Uses(E \cup {l}, d, b, s) = Uses(E, d, b, s) /\ Uses(E \ {l}, d, b, s) = Uses(E, d, b, s)
  BY DEF Uses
<1> QED
  BY <1>1 DEF Counted

\* A link that uses one AS of a depth changes the count of that AS.
OnlyUse(l, d, a, side) ==
    /\ Uses({l}, d, a, side) = {l}
    /\ \A b \in ASes, s \in Sides : b # a \/ s # side => Uses({l}, d, b, s) = {}

LEMMA CountedThere ==
    ASSUME NEW m, NEW n, NEW d, NEW E, NEW l, NEW a \in ASes, NEW side \in Sides,
           IsFiniteSet(E), Counted(m, d, E), m.count \in [Sides -> [ASes -> Nat]],
           OnlyUse(l, d, a, side)
    PROVE  /\ l \notin E /\ UsedOnceMore(n, m, a, side) => Counted(n, d, E \cup {l})
           /\ l \in E /\ UsedOnceLess(n, m, a, side) => Counted(n, d, E \ {l})
<1>1. \A b \in ASes, s \in Sides : b # a \/ s # side =>
          Uses(E \cup {l}, d, b, s) = Uses(E, d, b, s) /\ Uses(E \ {l}, d, b, s) = Uses(E, d, b, s)
  BY DEF Uses, OnlyUse
<1>2. /\ Uses(E \cup {l}, d, a, side) = Uses(E, d, a, side) \cup {l}
      /\ Uses(E \ {l}, d, a, side) = Uses(E, d, a, side) \ {l}
      /\ l \in Uses(E, d, a, side) <=> l \in E
  BY DEF Uses, OnlyUse
<1>3. IsFiniteSet(Uses(E, d, a, side))
  BY FS_Subset DEF Uses
<1>4. /\ l \notin E => Cardinality(Uses(E \cup {l}, d, a, side)) = Cardinality(Uses(E, d, a, side)) + 1
      /\ l \in E => Cardinality(Uses(E \ {l}, d, a, side)) = Cardinality(Uses(E, d, a, side)) - 1
  <2> DEFINE U == Uses(E, d, a, side)
  <2>1. IsFiniteSet(U) /\ (l \in U <=> l \in E)
    BY <1>2, <1>3
  <2> HIDE DEF U
  <2>2. Cardinality(U \cup {l}) = IF l \in U THEN Cardinality(U) ELSE Cardinality(U) + 1
    BY <2>1, FS_AddElement
  <2>3. Cardinality(U \ {l}) = IF l \in U THEN Cardinality(U) - 1 ELSE Cardinality(U)
    BY <2>1, FS_RemoveElement
  <2> QED
    BY <1>2, <2>1, <2>2, <2>3 DEF U
<1>5. ASSUME l \notin E, UsedOnceMore(n, m, a, side)
      PROVE  Counted(n, d, E \cup {l})
  <2>1. n.count[side][a] = m.count[side][a] + 1
    BY <1>5 DEF UsedOnceMore
  <2>2. \A b \in ASes, s \in Sides : b # a \/ s # side => n.count[s][b] = m.count[s][b]
    BY <1>5 DEF UsedOnceMore
  <2>3. \A b \in ASes, s \in Sides : n.count[s][b] = Cardinality(Uses(E \cup {l}, d, b, s))
    <3>1. n.count[side][a] = Cardinality(Uses(E \cup {l}, d, a, side))
      BY <1>4, <1>5, <2>1 DEF Counted
    <3>2. \A b \in ASes, s \in Sides : b # a \/ s # side =>
              n.count[s][b] = Cardinality(Uses(E \cup {l}, d, b, s))
      BY <1>1, <2>2 DEF Counted
    <3> QED
      BY <3>1, <3>2
  <2>4. n.count[side][a] > 0
    BY <2>1
  <2>5. \A b \in ASes \ {a} : n.code[b] # 0 <=> \E s \in Sides : n.count[s][b] > 0
    BY <1>5, <2>2 DEF Counted, UsedOnceMore
  <2> QED
    BY <1>5, <2>3, <2>4, <2>5 DEF Counted, UsedOnceMore
<1>6. ASSUME l \in E, UsedOnceLess(n, m, a, side)
      PROVE  Counted(n, d, E \ {l})
  <2>1. n.count[side][a] = m.count[side][a] - 1
    BY <1>6 DEF UsedOnceLess
  <2>2. \A b \in ASes, s \in Sides : b # a \/ s # side => n.count[s][b] = m.count[s][b]
    BY <1>6 DEF UsedOnceLess
  <2>3. \A b \in ASes, s \in Sides : n.count[s][b] = Cardinality(Uses(E \ {l}, d, b, s))
    <3>1. n.count[side][a] = Cardinality(Uses(E \ {l}, d, a, side))
      BY <1>4, <1>6, <2>1 DEF Counted
    <3>2. \A b \in ASes, s \in Sides : b # a \/ s # side =>
              n.count[s][b] = Cardinality(Uses(E \ {l}, d, b, s))
      BY <1>1, <2>2 DEF Counted
    <3> QED
      BY <3>1, <3>2
  <2>4. \A b \in ASes \ {a} : n.code[b] # 0 <=> \E s \in Sides : n.count[s][b] > 0
    BY <1>6, <2>2 DEF Counted, UsedOnceLess
  <2> QED
    BY <1>6, <2>3, <2>4 DEF Counted, UsedOnceLess
<1> QED
  BY <1>5, <1>6

\* The ends of a link are ASes.
LEMMA LinkEnds ==
    ASSUME NEW l \in Links
    PROVE  l.depth \in Nat /\ l.from \in ASes /\ l.to \in ASes
<1>1. PICK path \in Paths : l \in LinksOf(path)
  BY DEF Links
<1>2. Len(path) \in Nat
  BY EncodingAssumption
<1>3. PICK i \in 1..(Len(path) - 1) : l = [depth |-> i, from |-> path[i], to |-> path[i + 1]]
  BY <1>1 DEF LinksOf
<1>4. i \in Nat /\ i \in 1..Len(path) /\ i + 1 \in 1..Len(path)
  BY <1>2
<1>5. path[i] \in ASes /\ path[i + 1] \in ASes
  BY <1>4 DEF ASes
<1> QED
  BY <1>3, <1>4, <1>5

\* What a link uses, depth by depth.
LEMMA LinkUses ==
    ASSUME NEW l, l.depth \in Nat
    PROVE  /\ OnlyUse(l, l.depth, l.from, "from")
           /\ OnlyUse(l, l.depth + 1, l.to, "to")
           /\ \A d, b, s : d # l.depth /\ d # l.depth + 1 => Uses({l}, d, b, s) = {}
  BY DEF OnlyUse, Uses, Sides

(***************************************************************************)
(* The invariant of the thread.                                            *)
(***************************************************************************)
EncodableLinks == {l \in Links : l.depth \in LinkDepths}

MappingsOK ==
    /\ mapping \in [Depths -> Mappings]
    /\ \A d \in Depths : /\ MappingOK(mapping[d])
                         /\ mapping[d].blocked => total_bytes >= MaxBytes - 2
    /\ depths \subseteq Depths
    /\ total_bytes \in Nat

EncodedCounted ==
    /\ encoded \subseteq EncodableLinks
    /\ IsFiniteSet(encoded)
    /\ \A d \in Depths : Counted(mapping[d], d, encoded)

\* What the thread does, and what there is to do.
Phases ==
    /\ pc \in {"idle", "compute", "update", "refresh"}
    /\ pc \in {"update", "refresh"} => computed
    /\ pc = "refresh" => target \in Depths
    /\ pc \in {"idle", "compute"} => refreshed = {}
    /\ pc = "compute" => ~computed /\ todo \subseteq EncodableLinks /\ todo \cap encoded = {}
    /\ pc = "idle" /\ ~computed => encoded = {}

\* The link a depth is refreshed for is not encoded yet.
AwaitsCode ==
    pc = "refresh" \/ refreshed # {} =>
        \A l \in LinksOf(msg.new) : l.depth = at => l \notin encoded

EInv == MappingsOK /\ EncodedCounted /\ Phases /\ AwaitsCode /\ ThreadSurvives

LEMMA DepthsOfLinks ==
    ASSUME NEW l, l.depth \in LinkDepths
    PROVE  /\ l.depth \in Nat /\ l.depth \in Depths /\ l.depth + 1 \in Depths
           /\ l.depth # l.depth + 1
  BY EncodingAssumption DEF LinkDepths, Depths

\* The counts after a link has got its codes, or has given them up.
LEMMA LinkCounted ==
    ASSUME mapping \in [Depths -> Mappings], EncodedCounted,
           NEW l \in EncodableLinks, NEW from, NEW to, NEW n,
           n = [mapping EXCEPT ![l.depth] = from, ![l.depth + 1] = to]
    PROVE  /\ /\ l \notin encoded
              /\ UsedOnceMore(from, mapping[l.depth], l.from, "from")
              /\ UsedOnceMore(to, mapping[l.depth + 1], l.to, "to")
              => \A d \in Depths : Counted(n[d], d, encoded \cup {l})
           /\ /\ l \in encoded
              /\ UsedOnceLess(from, mapping[l.depth], l.from, "from")
              /\ UsedOnceLess(to, mapping[l.depth + 1], l.to, "to")
              => \A d \in Depths : Counted(n[d], d, encoded \ {l})
<1>1. /\ l.depth \in Nat /\ l.depth \in Depths /\ l.depth + 1 \in Depths
      /\ l.depth # l.depth + 1
      /\ l.from \in ASes /\ l.to \in ASes
  BY LinkEnds, DepthsOfLinks DEF EncodableLinks
<1>2. /\ n[l.depth] = from /\ n[l.depth + 1] = to
      /\ \A d \in Depths : d # l.depth /\ d # l.depth + 1 => n[d] = mapping[d]
  BY <1>1
<1>3. /\ mapping[l.depth].count \in [Sides -> [ASes -> Nat]]
      /\ mapping[l.depth + 1].count \in [Sides -> [ASes -> Nat]]
      /\ "from" \in Sides /\ "to" \in Sides
  BY <1>1 DEF Mappings, Sides
<1>4. IsFiniteSet(encoded) /\ \A d \in Depths : Counted(mapping[d], d, encoded)
  BY DEF EncodedCounted
<1>5. \A d \in Depths : d # l.depth /\ d # l.depth + 1 =>
          Counted(n[d], d, encoded \cup {l}) /\ Counted(n[d], d, encoded \ {l})
  BY <1>1, <1>2, <1>4, LinkUses, CountedElsewhere
<1>6. /\ OnlyUse(l, l.depth, l.from, "from")
      /\ OnlyUse(l, l.depth + 1, l.to, "to")
      /\ Counted(mapping[l.depth], l.depth, encoded)
      /\ Counted(mapping[l.depth + 1], l.depth + 1, encoded)
  BY <1>1, <1>4, LinkUses
<1>7. /\ l \notin encoded /\ UsedOnceMore(from, mapping[l.depth], l.from, "from")
         => Counted(from, l.depth, encoded \cup {l})
      /\ l \in encoded /\ UsedOnceLess(from, mapping[l.depth], l.from, "from")
         => Counted(from, l.depth, encoded \ {l})
  BY <1>1, <1>3, <1>4, <1>6, CountedThere
<1>8. /\ l \notin encoded /\ UsedOnceMore(to, mapping[l.depth + 1], l.to, "to")
         => Counted(to, l.depth + 1, encoded \cup {l})
      /\ l \in encoded /\ UsedOnceLess(to, mapping[l.depth + 1], l.to, "to")
         => Counted(to, l.depth + 1, encoded \ {l})
  BY <1>1, <1>3, <1>4, <1>6, CountedThere
<1> QED
  BY <1>2, <1>5, <1>7, <1>8

\* An encoded link is counted at both of its ends.
LEMMA EncodedHasUses ==
    ASSUME mapping \in [Depths -> Mappings], EncodedCounted, NEW l \in encoded
    PROVE  /\ mapping[l.depth].count["from"][l.from] > 0
           /\ mapping[l.depth].code[l.from] # 0
           /\ mapping[l.depth + 1].count["to"][l.to] > 0
           /\ mapping[l.depth + 1].code[l.to] # 0
<1>1. /\ l.depth \in Depths /\ l.depth + 1 \in Depths
      /\ l.from \in ASes /\ l.to \in ASes
  BY LinkEnds, DepthsOfLinks DEF EncodableLinks, EncodedCounted
<1>2. "from" \in Sides /\ "to" \in Sides
  BY DEF Sides
<1>3. /\ l \in Uses(encoded, l.depth, l.from, "from")
      /\ l \in Uses(encoded, l.depth + 1, l.to, "to")
  BY DEF Uses
<1>4. /\ IsFiniteSet(Uses(encoded, l.depth, l.from, "from"))
      /\ IsFiniteSet(Uses(encoded, l.depth + 1, l.to, "to"))
  BY FS_Subset DEF Uses, EncodedCounted
<1>5. /\ Cardinality(Uses(encoded, l.depth, l.from, "from")) > 0
      /\ Cardinality(Uses(encoded, l.depth + 1, l.to, "to")) > 0
  <2>1. \A S : IsFiniteSet(S) /\ l \in S => Cardinality(S) > 0
    BY FS_CardinalityType, FS_EmptySet
  <2> QED
    BY <1>3, <1>4, <2>1
<1> QED
  BY <1>1, <1>2, <1>5 DEF EncodedCounted, Counted

LEMMA InitEInv == Init => EInv
<1> SUFFICES ASSUME Init PROVE EInv
  OBVIOUS
<1> USE DEF Init
<1>1. /\ MappingOK(EmptyMapping) /\ EmptyMapping \in Mappings
      /\ EmptyMapping.blocked = FALSE
      /\ \A d : Counted(EmptyMapping, d, {})
  <2>1. \A d, a, s : Uses({}, d, a, s) = {}
    BY DEF Uses
  <2>2. /\ \A a \in ASes : EmptyMapping.code[a] = 0
        /\ \A a \in ASes, s \in Sides : EmptyMapping.count[s][a] = 0
        /\ EmptyMapping.blocked = FALSE
    BY DEF EmptyMapping
  <2>3. \A d : Counted(EmptyMapping, d, {})
    <3>1. Cardinality({}) = 0
      BY FS_EmptySet
    <3>2. SUFFICES ASSUME NEW d, NEW a \in ASes
                   PROVE  /\ \A s \in Sides : EmptyMapping.count[s][a] = Cardinality(Uses({}, d, a, s))
                          /\ EmptyMapping.code[a] # 0 <=> \E s \in Sides : EmptyMapping.count[s][a] > 0
      BY DEF Counted
    <3>3. \A s \in Sides : Cardinality(Uses({}, d, a, s)) = 0
      BY <2>1, <3>1, Zenon
    <3>4. ~ \E s \in Sides : EmptyMapping.count[s][a] > 0
      BY <2>2
    <3> QED
      BY <2>2, <3>3, <3>4
  <2> QED
    BY <2>2, <2>3, EmptyMappingOK DEF MappingOK
<1>2. MappingsOK
  BY <1>1 DEF MappingsOK
<1>3. EncodedCounted
  BY <1>1, FS_EmptySet DEF EncodedCounted
<1> QED
  BY <1>2, <1>3 DEF EInv, Phases, AwaitsCode, ThreadSurvives

\* Giving up an encoded link never takes a count below zero.
LEMMA RemoveStep ==
    ASSUME EInv, NEW l \in encoded, Remove(l), UNCHANGED <<depths, total_bytes>>
    PROVE  /\ MappingsOK' /\ EncodedCounted' /\ ThreadSurvives'
           /\ encoded' = encoded \ {l} /\ died' = died
           /\ \A d \in Depths : mapping'[d].nb_bytes = mapping[d].nb_bytes
<1> DEFINE oldFrom == mapping[l.depth]
           oldTo == mapping[l.depth + 1]
           from == MappingRemove(oldFrom, l.from, "from")
           to == MappingRemove(oldTo, l.to, "to")
<1>1. /\ mapping \in [Depths -> Mappings]
      /\ \A d \in Depths : /\ MappingOK(mapping[d])
                           /\ mapping[d].blocked => total_bytes >= MaxBytes - 2
      /\ EncodedCounted /\ l \in EncodableLinks /\ ThreadSurvives
  BY DEF EInv, MappingsOK, EncodedCounted
<1>2. /\ l.depth \in Depths /\ l.depth + 1 \in Depths /\ l.depth # l.depth + 1
      /\ l.from \in ASes /\ l.to \in ASes
      /\ "from" \in Sides /\ "to" \in Sides
  BY <1>1, LinkEnds, DepthsOfLinks DEF EncodableLinks, Sides
<1>3. /\ oldFrom.count["from"][l.from] > 0 /\ oldFrom.code[l.from] # 0
      /\ oldTo.count["to"][l.to] > 0 /\ oldTo.code[l.to] # 0
  BY <1>1, EncodedHasUses
<1>4. /\ MappingOK(from) /\ UsedOnceLess(from, oldFrom, l.from, "from")
      /\ from.nb_bytes = oldFrom.nb_bytes /\ from.blocked = oldFrom.blocked
  BY <1>1, <1>2, <1>3, RemoveOK
<1>5. /\ MappingOK(to) /\ UsedOnceLess(to, oldTo, l.to, "to")
      /\ to.nb_bytes = oldTo.nb_bytes /\ to.blocked = oldTo.blocked
  BY <1>1, <1>2, <1>3, RemoveOK
<1>6. /\ encoded' = encoded \ {l}
      /\ mapping' = [mapping EXCEPT ![l.depth] = from, ![l.depth + 1] = to]
  BY DEF Remove
<1>7. died' = died
  <2>1. ~Underflows(oldFrom, l.from, "from") /\ ~Underflows(oldTo, l.to, "to")
    BY <1>3 DEF Underflows
  <2> QED
    BY <2>1 DEF Remove
<1> HIDE DEF from, to
<1>8. /\ mapping' \in [Depths -> Mappings]
      /\ mapping'[l.depth] = from /\ mapping'[l.depth + 1] = to
      /\ \A d \in Depths : d # l.depth /\ d # l.depth + 1 => mapping'[d] = mapping[d]
  BY <1>1, <1>2, <1>4, <1>5, <1>6 DEF MappingOK
<1>9. MappingsOK'
  BY <1>1, <1>4, <1>5, <1>8 DEF EInv, MappingsOK
<1>10. EncodedCounted'
  <2>1. \A d \in Depths : Counted(mapping'[d], d, encoded \ {l})
    BY <1>1, <1>4, <1>5, <1>6, LinkCounted
  <2>2. IsFiniteSet(encoded \ {l})
    BY <1>1, FS_RemoveElement DEF EncodedCounted
  <2> QED
    BY <1>1, <1>6, <2>1, <2>2 DEF EncodedCounted
<1> QED
  BY <1>1, <1>4, <1>5, <1>6, <1>7, <1>8, <1>9, <1>10 DEF ThreadSurvives

\* A link that is considered by Encoding.add is not encoded yet.
LEMMA ConsideredIsNew ==
    ASSUME EInv, pc = "update", NEW l \in Considered(msg.new)
    PROVE  /\ l \notin encoded /\ l \in LinksOf(msg.new)
           /\ l.depth \in Depths /\ l.depth + 1 \in Depths
<1>1. /\ l \in LinksOf(msg.new) /\ l.depth \in depths /\ l.depth + 1 \in depths
      /\ \/ RefreshedFor(l) # {}
         \/ mapping[l.depth].code[l.from] = 0
         \/ mapping[l.depth + 1].code[l.to] = 0
  BY DEF Considered
<1>2. CASE RefreshedFor(l) # {}
  BY <1>1, <1>2 DEF RefreshedFor, EInv, AwaitsCode, MappingsOK
<1>3. CASE RefreshedFor(l) = {}
  BY <1>1, <1>3, EncodedHasUses DEF EInv, MappingsOK
<1> QED
  BY <1>1, <1>2, <1>3 DEF EInv, MappingsOK

LEMMA ReleaseStep ==
    ASSUME EInv, NEW l \in Links, ReleaseLink(l)
    PROVE  EInv' /\ \A d \in Depths : mapping'[d].nb_bytes = mapping[d].nb_bytes
<1>1. /\ pc = "update" /\ pc' = pc /\ computed' = computed /\ refreshed' = refreshed
      /\ at' = at /\ msg' = msg /\ Remove(l) /\ l \in encoded
      /\ UNCHANGED <<depths, total_bytes>>
  BY DEF ReleaseLink, Updating, Unused, loopVars
<1>2. /\ MappingsOK' /\ EncodedCounted' /\ ThreadSurvives' /\ encoded' = encoded \ {l}
      /\ \A d \in Depths : mapping'[d].nb_bytes = mapping[d].nb_bytes
  BY <1>1, RemoveStep
<1>3. Phases' /\ AwaitsCode'
  BY <1>1, <1>2 DEF EInv, Phases, AwaitsCode
<1> QED
  BY <1>2, <1>3 DEF EInv

LEMMA RefreshLinkStep ==
    ASSUME EInv, NEW l \in Links, RefreshLink(l)
    PROVE  EInv' /\ \A d \in Depths : mapping'[d].nb_bytes = mapping[d].nb_bytes
<1>1. /\ pc = "refresh" /\ pc' = pc /\ computed' = computed /\ refreshed' = refreshed
      /\ at' = at /\ msg' = msg /\ Remove(l) /\ l \in encoded
      /\ UNCHANGED <<depths, total_bytes, target>>
  BY DEF RefreshLink, Holders, loopVars
<1>2. /\ MappingsOK' /\ EncodedCounted' /\ ThreadSurvives' /\ encoded' = encoded \ {l}
      /\ \A d \in Depths : mapping'[d].nb_bytes = mapping[d].nb_bytes
  BY <1>1, RemoveStep
<1>3. Phases' /\ AwaitsCode'
  BY <1>1, <1>2 DEF EInv, Phases, AwaitsCode
<1> QED
  BY <1>2, <1>3 DEF EInv

\* A link gets its codes: AddLink and ConsiderLink.
LEMMA EncodeStep ==
    ASSUME EInv, NEW l \in EncodableLinks, l \notin encoded, NEW over \in BOOLEAN,
           mapping[l.depth].code[l.from] = 0 /\ mapping[l.depth].blocked
               => Grown(mapping[l.depth], over) = mapping[l.depth],
           mapping[l.depth + 1].code[l.to] = 0 /\ mapping[l.depth + 1].blocked
               => Grown(mapping[l.depth + 1], over) = mapping[l.depth + 1]
    PROVE  LET from == MappingAdd(mapping[l.depth], l.from, "from", over)
               to == MappingAdd(mapping[l.depth + 1], l.to, "to", over)
               n == [mapping EXCEPT ![l.depth] = from, ![l.depth + 1] = to]
           IN  /\ MappingOK(from) /\ MappingOK(to)
               /\ from.blocked = mapping[l.depth].blocked
               /\ to.blocked = mapping[l.depth + 1].blocked
               /\ from.nb_bytes >= mapping[l.depth].nb_bytes
               /\ to.nb_bytes >= mapping[l.depth + 1].nb_bytes
               /\ mapping[l.depth].code[l.from] # 0 \/ Grown(mapping[l.depth], over) = mapping[l.depth]
                  => from.nb_bytes = mapping[l.depth].nb_bytes
               /\ mapping[l.depth + 1].code[l.to] # 0
                  \/ Grown(mapping[l.depth + 1], over) = mapping[l.depth + 1]
                  => to.nb_bytes = mapping[l.depth + 1].nb_bytes
               /\ IsFiniteSet(encoded \cup {l})
               /\ \A d \in Depths : Counted(n[d], d, encoded \cup {l})
<1> DEFINE oldFrom == mapping[l.depth]
           oldTo == mapping[l.depth + 1]
           from == MappingAdd(oldFrom, l.from, "from", over)
           to == MappingAdd(oldTo, l.to, "to", over)
           n == [mapping EXCEPT ![l.depth] = from, ![l.depth + 1] = to]
<1>1. /\ mapping \in [Depths -> Mappings]
      /\ \A d \in Depths : MappingOK(mapping[d]) /\ Counted(mapping[d], d, encoded)
      /\ EncodedCounted /\ IsFiniteSet(encoded)
  BY DEF EInv, MappingsOK, EncodedCounted
<1>2. /\ l.depth \in Depths /\ l.depth + 1 \in Depths
      /\ l.from \in ASes /\ l.to \in ASes
      /\ "from" \in Sides /\ "to" \in Sides
  BY LinkEnds, DepthsOfLinks DEF EncodableLinks, Sides
<1>3. \A d \in Depths, a \in ASes, s \in Sides :
          mapping[d].code[a] = 0 => mapping[d].count[s][a] = 0
  <2>1. \A d \in Depths, a \in ASes, s \in Sides : mapping[d].count[s][a] \in Nat
    BY <1>1 DEF Mappings
  <2> QED
    BY <1>1, <2>1 DEF Counted
<1>4. /\ MappingOK(from) /\ UsedOnceMore(from, oldFrom, l.from, "from")
      /\ from.nb_bytes >= oldFrom.nb_bytes /\ from.blocked = oldFrom.blocked
      /\ oldFrom.code[l.from] # 0 \/ Grown(oldFrom, over) = oldFrom
         => from.nb_bytes = oldFrom.nb_bytes
  <2>1. MappingOK(oldFrom) /\ (oldFrom.code[l.from] = 0 => oldFrom.count["from"][l.from] = 0)
    BY <1>1, <1>2, <1>3
  <2> QED
    BY <1>2, <2>1, AddOK
<1>5. /\ MappingOK(to) /\ UsedOnceMore(to, oldTo, l.to, "to")
      /\ to.nb_bytes >= oldTo.nb_bytes /\ to.blocked = oldTo.blocked
      /\ oldTo.code[l.to] # 0 \/ Grown(oldTo, over) = oldTo
         => to.nb_bytes = oldTo.nb_bytes
  <2>1. MappingOK(oldTo) /\ (oldTo.code[l.to] = 0 => oldTo.count["to"][l.to] = 0)
    BY <1>1, <1>2, <1>3
  <2> QED
    BY <1>2, <2>1, AddOK
<1> HIDE DEF from, to
<1>6. \A d \in Depths : Counted(n[d], d, encoded \cup {l})
  BY <1>1, <1>4, <1>5, LinkCounted
<1>7. IsFiniteSet(encoded \cup {l})
  BY <1>1, FS_AddElement
<1> QED
  BY <1>4, <1>5, <1>6, <1>7 DEF from, to

LEMMA AddLinkStep ==
    ASSUME EInv, NEW l \in Links, AddLink(l)
    PROVE  EInv' /\ \A d \in Depths : mapping'[d].nb_bytes = mapping[d].nb_bytes
<1> DEFINE oldFrom == mapping[l.depth]
           oldTo == mapping[l.depth + 1]
           from == MappingAdd(oldFrom, l.from, "from", FALSE)
           to == MappingAdd(oldTo, l.to, "to", FALSE)
           n == [mapping EXCEPT ![l.depth] = from, ![l.depth + 1] = to]
<1>1. /\ pc = "update" /\ pc' = pc /\ computed' = computed /\ refreshed' = {}
      /\ died' = died /\ depths' = depths /\ total_bytes' = total_bytes
      /\ encoded' = encoded \cup {l} /\ mapping' = n
      /\ l \in Considered(msg.new) /\ Encodable(l, G)
  BY DEF AddLink, IsNext, Updating, ToAdd
<1>2. l \notin encoded /\ l.depth \in Depths /\ l.depth + 1 \in Depths
  BY <1>1, ConsideredIsNew
<1>3. l \in EncodableLinks
  <2>1. l.depth \in Nat
    BY LinkEnds
  <2> QED
    BY <1>2, <2>1, EncodingAssumption DEF EncodableLinks, Depths, LinkDepths
<1>4. /\ mapping \in [Depths -> Mappings]
      /\ \A d \in Depths : /\ MappingOK(mapping[d])
                           /\ mapping[d].blocked => total_bytes >= MaxBytes - 2
  BY DEF EInv, MappingsOK
<1>5. /\ oldFrom.code[l.from] = 0 => Grown(oldFrom, FALSE) = oldFrom
      /\ oldTo.code[l.to] = 0 => Grown(oldTo, FALSE) = oldTo
  <2>1. MappingOK(oldFrom) /\ MappingOK(oldTo)
    BY <1>2, <1>4
  <2>2. IsAvailable(oldFrom, l.from, FALSE) = 0 /\ IsAvailable(oldTo, l.to, FALSE) = 0
    BY <1>1 DEF Encodable
  <2> QED
    BY <2>1, <2>2, NoGrowth
<1>6. /\ MappingOK(from) /\ MappingOK(to)
      /\ from.blocked = oldFrom.blocked /\ to.blocked = oldTo.blocked
      /\ from.nb_bytes = oldFrom.nb_bytes /\ to.nb_bytes = oldTo.nb_bytes
      /\ IsFiniteSet(encoded \cup {l})
      /\ \A d \in Depths : Counted(n[d], d, encoded \cup {l})
  BY <1>2, <1>3, <1>5, EncodeStep
<1> HIDE DEF from, to
<1>7. /\ mapping' \in [Depths -> Mappings]
      /\ mapping'[l.depth] = from /\ mapping'[l.depth + 1] = to
      /\ \A d \in Depths : d # l.depth /\ d # l.depth + 1 => mapping'[d] = mapping[d]
  <2>1. l.depth # l.depth + 1
    BY <1>3, DepthsOfLinks DEF EncodableLinks
  <2> QED
    BY <1>1, <1>2, <1>4, <1>6, <2>1 DEF MappingOK
<1>8. MappingsOK'
  BY <1>1, <1>2, <1>4, <1>6, <1>7 DEF EInv, MappingsOK
<1>9. EncodedCounted'
  BY <1>1, <1>3, <1>6 DEF EInv, EncodedCounted
<1>10. Phases' /\ AwaitsCode' /\ ThreadSurvives'
  BY <1>1 DEF EInv, Phases, AwaitsCode, ThreadSurvives
<1> QED
  BY <1>6, <1>7, <1>8, <1>9, <1>10 DEF EInv

\* compute_encoding: a blocked mapping needs no bit for a link that fits.
LEMMA ConsiderAdds ==
    ASSUME EInv, NEW l \in EncodableLinks, l \notin encoded,
           total_bytes + (IsAvailable(mapping[l.depth], l.from, TRUE)
                          + IsAvailable(mapping[l.depth + 1], l.to, TRUE)) <= MaxBytes - 2
    PROVE  LET from == MappingAdd(mapping[l.depth], l.from, "from", TRUE)
               to == MappingAdd(mapping[l.depth + 1], l.to, "to", TRUE)
               n == [mapping EXCEPT ![l.depth] = from, ![l.depth + 1] = to]
           IN  /\ MappingOK(from) /\ MappingOK(to)
               /\ from.blocked = mapping[l.depth].blocked
               /\ to.blocked = mapping[l.depth + 1].blocked
               /\ from.nb_bytes >= mapping[l.depth].nb_bytes
               /\ to.nb_bytes >= mapping[l.depth + 1].nb_bytes
               /\ IsFiniteSet(encoded \cup {l})
               /\ \A d \in Depths : Counted(n[d], d, encoded \cup {l})
<1> DEFINE oldFrom == mapping[l.depth]
           oldTo == mapping[l.depth + 1]
           x == IsAvailable(oldFrom, l.from, TRUE)
           y == IsAvailable(oldTo, l.to, TRUE)
<1>1. l.depth \in Depths /\ l.depth + 1 \in Depths
  BY DepthsOfLinks DEF EncodableLinks
<1>2. /\ total_bytes \in Nat /\ MappingOK(oldFrom) /\ MappingOK(oldTo)
      /\ oldFrom.blocked \/ oldTo.blocked => total_bytes >= MaxBytes - 2
  BY <1>1 DEF EInv, MappingsOK
<1>3. total_bytes + (x + y) <= MaxBytes - 2
  OBVIOUS
<1>4. x \in Nat /\ y \in Nat /\ MaxBytes \in Nat
  BY EncodingAssumption DEF IsAvailable
<1> HIDE DEF x, y
<1>5. oldFrom.blocked \/ oldTo.blocked => x = 0 /\ y = 0
  BY <1>2, <1>3, <1>4
<1>6. /\ oldFrom.code[l.from] = 0 /\ oldFrom.blocked => Grown(oldFrom, TRUE) = oldFrom
      /\ oldTo.code[l.to] = 0 /\ oldTo.blocked => Grown(oldTo, TRUE) = oldTo
  BY <1>2, <1>5, NoGrowth DEF x, y
<1> QED
  BY <1>6, EncodeStep

LEMMA ConsiderStep ==
    ASSUME EInv, NEW l \in Links, ConsiderLink(l)
    PROVE  EInv'
<1> DEFINE oldFrom == mapping[l.depth]
           oldTo == mapping[l.depth + 1]
           from == MappingAdd(oldFrom, l.from, "from", TRUE)
           to == MappingAdd(oldTo, l.to, "to", TRUE)
           needed == IsAvailable(oldFrom, l.from, TRUE) + IsAvailable(oldTo, l.to, TRUE)
           total == total_bytes + from.nb_bytes - oldFrom.nb_bytes + to.nb_bytes - oldTo.nb_bytes
           Block(m) == IF total >= MaxBytes - 2 THEN [m EXCEPT !.blocked = TRUE] ELSE m
<1>1. /\ pc = "compute" /\ l \in todo /\ todo' = todo \ {l} /\ pc' = pc
      /\ depths' = depths \cup {l.depth, l.depth + 1}
      /\ computed' = computed /\ refreshed' = refreshed /\ died' = died
      /\ msg' = msg /\ at' = at
      /\ \/ /\ total_bytes + needed <= MaxBytes - 2
            /\ encoded' = encoded \cup {l}
            /\ total_bytes' = total
            /\ mapping' = [mapping EXCEPT ![l.depth] = Block(from), ![l.depth + 1] = Block(to)]
         \/ UNCHANGED <<encoded, total_bytes, mapping>>
  BY DEF ConsiderLink
<1>2. l \in EncodableLinks /\ l \notin encoded /\ ~computed /\ refreshed = {}
  BY <1>1 DEF EInv, Phases
<1>3. /\ l.depth \in Depths /\ l.depth + 1 \in Depths /\ l.depth # l.depth + 1
  BY <1>2, DepthsOfLinks DEF EncodableLinks
<1>4. /\ mapping \in [Depths -> Mappings] /\ depths \subseteq Depths /\ total_bytes \in Nat
      /\ \A d \in Depths : /\ MappingOK(mapping[d])
                           /\ mapping[d].blocked => total_bytes >= MaxBytes - 2
  BY DEF EInv, MappingsOK
<1>5. Phases' /\ AwaitsCode' /\ ThreadSurvives' /\ depths' \subseteq Depths
  <2>1. encoded' = encoded \/ encoded' = encoded \cup {l}
    BY <1>1
  <2> QED
    BY <1>1, <1>2, <1>3, <1>4, <2>1 DEF EInv, Phases, AwaitsCode, ThreadSurvives
<1>6. CASE UNCHANGED <<encoded, total_bytes, mapping>>
  BY <1>5, <1>6 DEF EInv, MappingsOK, EncodedCounted
<1>7. CASE /\ total_bytes + needed <= MaxBytes - 2
           /\ encoded' = encoded \cup {l}
           /\ total_bytes' = total
           /\ mapping' = [mapping EXCEPT ![l.depth] = Block(from), ![l.depth + 1] = Block(to)]
  <2> DEFINE n == [mapping EXCEPT ![l.depth] = from, ![l.depth + 1] = to]
  <2>1. /\ MappingOK(from) /\ MappingOK(to)
        /\ from.blocked = oldFrom.blocked /\ to.blocked = oldTo.blocked
        /\ from.nb_bytes >= oldFrom.nb_bytes /\ to.nb_bytes >= oldTo.nb_bytes
        /\ IsFiniteSet(encoded \cup {l})
        /\ \A d \in Depths : Counted(n[d], d, encoded \cup {l})
    BY <1>2, <1>7, ConsiderAdds
  <2> HIDE DEF from, to
  <2>2. total \in Nat /\ total >= total_bytes
    <3>1. /\ from.nb_bytes \in Nat /\ to.nb_bytes \in Nat
          /\ oldFrom.nb_bytes \in Nat /\ oldTo.nb_bytes \in Nat
      BY <1>3, <1>4, <2>1 DEF MappingOK, Mappings
    <3> QED
      BY <1>4, <2>1, <3>1
  <2> HIDE DEF total
  <2>3. \A m : MappingOK(m) =>
           /\ MappingOK(Block(m))
           /\ Block(m).count = m.count /\ Block(m).code = m.code
           /\ Block(m).blocked => m.blocked \/ total >= MaxBytes - 2
    <3> SUFFICES ASSUME NEW m, MappingOK(m)
                 PROVE  /\ MappingOK(Block(m))
                        /\ Block(m).count = m.count /\ Block(m).code = m.code
                        /\ Block(m).blocked => m.blocked \/ total >= MaxBytes - 2
      OBVIOUS
    <3> DEFINE k == [m EXCEPT !.blocked = TRUE]
    <3>1. /\ k \in Mappings /\ k.capacity = m.capacity /\ k.free = m.free
          /\ k.count = m.count /\ k.code = m.code /\ k.nb_bytes = m.nb_bytes
      BY DEF MappingOK, Mappings
    <3> HIDE DEF k
    <3>2. MappingOK(k)
      BY <3>1 DEF MappingOK, CodesPartitioned, Mapped
    <3> QED
      BY <3>1, <3>2 DEF k
  <2> HIDE DEF Block
  <2>4. /\ mapping'[l.depth] = Block(from) /\ mapping'[l.depth + 1] = Block(to)
        /\ \A d \in Depths : d # l.depth /\ d # l.depth + 1 => mapping'[d] = mapping[d]
        /\ mapping' \in [Depths -> Mappings]
    BY <1>3, <1>4, <1>7, <2>1, <2>3 DEF MappingOK
  <2>5. /\ n[l.depth] = from /\ n[l.depth + 1] = to
        /\ \A d \in Depths : d # l.depth /\ d # l.depth + 1 => n[d] = mapping[d]
    BY <1>3, <1>4
  <2>6. MappingsOK'
    <3>1. \A d \in Depths : MappingOK(mapping'[d])
      BY <1>4, <2>1, <2>3, <2>4
    <3>2. \A d \in Depths : mapping'[d].blocked => total >= MaxBytes - 2
      BY <1>3, <1>4, <2>1, <2>2, <2>3, <2>4, EncodingAssumption
    <3> QED
      BY <1>5, <1>7, <2>2, <2>4, <3>1, <3>2 DEF MappingsOK
  <2>7. EncodedCounted'
    <3>1. \A d \in Depths : /\ mapping'[d].count = n[d].count
                            /\ mapping'[d].code = n[d].code
      <4> HIDE DEF n
      <4>1. /\ Block(from).count = from.count /\ Block(from).code = from.code
            /\ Block(to).count = to.count /\ Block(to).code = to.code
        BY <2>1, <2>3
      <4> QED
        BY <2>4, <2>5, <4>1
    <3> HIDE DEF n
    <3>2. \A d \in Depths : Counted(mapping'[d], d, encoded \cup {l})
      BY <2>1, <3>1 DEF Counted
    <3> QED
      BY <1>2, <1>7, <2>1, <3>2 DEF EInv, EncodedCounted
  <2> QED
    BY <1>5, <2>6, <2>7 DEF EInv
<1> QED
  BY <1>1, <1>6, <1>7

LEMMA SpareStep ==
    ASSUME EInv, NEW d \in Depths, SpareBit(d)
    PROVE  EInv'
<1>1. /\ pc = "compute" /\ total_bytes' = total_bytes + 1
      /\ mapping' = [mapping EXCEPT ![d] = AddByte(mapping[d])]
      /\ UNCHANGED <<computed, depths, encoded, died, pc, msg, todo, at, refreshed>>
  BY DEF SpareBit
<1>2. /\ mapping \in [Depths -> Mappings] /\ depths \subseteq Depths /\ total_bytes \in Nat
      /\ \A e \in Depths : /\ MappingOK(mapping[e])
                           /\ mapping[e].blocked => total_bytes >= MaxBytes - 2
  BY DEF EInv, MappingsOK
<1>3. /\ MappingOK(AddByte(mapping[d]))
      /\ AddByte(mapping[d]).code = mapping[d].code
      /\ AddByte(mapping[d]).count = mapping[d].count
      /\ AddByte(mapping[d]).blocked = mapping[d].blocked
  BY <1>2, AddByteOK
<1>4. /\ mapping' \in [Depths -> Mappings]
      /\ \A e \in Depths : /\ MappingOK(mapping'[e])
                           /\ mapping'[e].code = mapping[e].code
                           /\ mapping'[e].count = mapping[e].count
                           /\ mapping'[e].blocked = mapping[e].blocked
  BY <1>1, <1>2, <1>3 DEF MappingOK
<1>5. MappingsOK'
  BY <1>1, <1>2, <1>4, EncodingAssumption DEF MappingsOK
<1>6. EncodedCounted'
  BY <1>1, <1>4 DEF EInv, EncodedCounted, Counted
<1> QED
  BY <1>1, <1>5, <1>6 DEF EInv, Phases, AwaitsCode, ThreadSurvives

LEMMA FinishComputeStep ==
    ASSUME EInv, FinishCompute
    PROVE  EInv'
<1>1. /\ pc = "compute" /\ computed' = TRUE
      /\ mapping' = [d \in Depths |-> IF d \in depths \cap {2, 3} THEN AddByte(mapping[d])
                                      ELSE mapping[d]]
      /\ pc' \in {"update", "idle"}
      /\ UNCHANGED <<depths, encoded, died, total_bytes, todo, at, refreshed>>
  BY DEF FinishCompute, loopVars
<1>2. /\ mapping \in [Depths -> Mappings] /\ depths \subseteq Depths /\ total_bytes \in Nat
      /\ \A e \in Depths : /\ MappingOK(mapping[e])
                           /\ mapping[e].blocked => total_bytes >= MaxBytes - 2
  BY DEF EInv, MappingsOK
<1>3. /\ mapping' \in [Depths -> Mappings]
      /\ \A e \in Depths : /\ MappingOK(mapping'[e])
                           /\ mapping'[e].code = mapping[e].code
                           /\ mapping'[e].count = mapping[e].count
                           /\ mapping'[e].blocked = mapping[e].blocked
  <2>1. \A e \in Depths : mapping'[e] = mapping[e] \/ mapping'[e] = AddByte(mapping[e])
    BY <1>1
  <2>2. \A e \in Depths : /\ MappingOK(mapping'[e])
                          /\ mapping'[e].code = mapping[e].code
                          /\ mapping'[e].count = mapping[e].count
                          /\ mapping'[e].blocked = mapping[e].blocked
    BY <1>2, <2>1, AddByteOK
  <2>3. \A e \in Depths : mapping'[e] \in Mappings
    BY <2>2 DEF MappingOK
  <2> QED
    BY <1>1, <2>2, <2>3
<1>4. MappingsOK'
  BY <1>1, <1>2, <1>3 DEF MappingsOK
<1>5. EncodedCounted'
  BY <1>1, <1>3 DEF EInv, EncodedCounted, Counted
<1> QED
  BY <1>1, <1>4, <1>5 DEF EInv, Phases, AwaitsCode, ThreadSurvives

LEMMA StartRefreshStep ==
    ASSUME EInv, NEW l \in Links, StartRefresh(l)
    PROVE  EInv'
<1>1. /\ pc = "update" /\ pc' = "refresh" /\ at' = l.depth /\ l \in Considered(msg.new)
      /\ UNCHANGED <<computed, depths, mapping, encoded, died, msg, total_bytes, todo>>
  BY DEF StartRefresh, IsNext, Updating, ToAdd, encodingVars
<1>2. l \notin encoded /\ l \in LinksOf(msg.new)
  BY <1>1, ConsideredIsNew
<1>3. \A k \in LinksOf(msg.new) : k.depth = l.depth => k = l
  BY <1>2 DEF LinksOf
<1>4. AwaitsCode'
  BY <1>1, <1>2, <1>3 DEF AwaitsCode
<1>5. MappingsOK' /\ EncodedCounted'
  BY <1>1 DEF EInv, MappingsOK, EncodedCounted
<1>6. target' \in Depths
  <2>1. target' = l.depth \/ target' = l.depth + 1
    BY DEF StartRefresh
  <2> QED
    BY <1>1, <2>1, ConsideredIsNew
<1> QED
  BY <1>1, <1>4, <1>5, <1>6 DEF EInv, Phases, ThreadSurvives

\* Steps that leave the mappings alone.
LEMMA OtherSteps ==
    ASSUME EInv,
           \/ \E p \in Prefixes, path \in Paths : Announce(p, path)
           \/ \E p \in Prefixes : Withdraw(p)
           \/ Finish
           \/ Refreshed
           \/ UNCHANGED vars
    PROVE  EInv' /\ mapping' = mapping
<1>1. /\ UNCHANGED <<depths, mapping, encoded, total_bytes>>
      /\ died' = died \/ died' = "TypeError"
  BY DEF Announce, Withdraw, Finish, Refreshed, vars, encodingVars, loopVars
<1>2. MappingsOK' /\ EncodedCounted' /\ ThreadSurvives'
  BY <1>1 DEF EInv, MappingsOK, EncodedCounted, ThreadSurvives
<1>3. Phases' /\ AwaitsCode'
  <2>1. \A g : Candidates(g) \subseteq EncodableLinks
    BY DEF Candidates, EncodableLinks
  <2>2. CASE \/ \E p \in Prefixes, path \in Paths : Announce(p, path)
             \/ \E p \in Prefixes : Withdraw(p)
    BY <1>1, <2>1, <2>2
       DEF EInv, Phases, AwaitsCode, Announce, Withdraw, Idle, Proceed, loopVars, encodingVars
  <2>3. CASE Finish
    BY <1>1, <2>3 DEF EInv, Phases, AwaitsCode, Finish, Updating, encodingVars
  <2>4. CASE Refreshed
    BY <1>1, <2>4 DEF EInv, Phases, AwaitsCode, Refreshed
  <2>5. CASE UNCHANGED vars
    BY <1>1, <2>5 DEF EInv, Phases, AwaitsCode, vars, loopVars, encodingVars
  <2> QED
    BY <2>2, <2>3, <2>4, <2>5
<1> QED
  BY <1>1, <1>2, <1>3 DEF EInv

\* The invariant is inductive, and only compute_encoding gives bits to a mapping.
LEMMA NextEInv ==
    ASSUME EInv, [Next]_vars
    PROVE  /\ EInv'
           /\ computed => \A d \in Depths : mapping'[d].nb_bytes = mapping[d].nb_bytes
<1>1. ASSUME NEW l \in Links, ConsiderLink(l) PROVE EInv' /\ ~computed
  BY <1>1, ConsiderStep DEF ConsiderLink, EInv, Phases
<1>2. ASSUME NEW d \in Depths, SpareBit(d) PROVE EInv' /\ ~computed
  BY <1>2, SpareStep DEF SpareBit, EInv, Phases
<1>3. CASE FinishCompute
  BY <1>3, FinishComputeStep DEF FinishCompute, EInv, Phases
<1>4. ASSUME NEW l \in Links, StartRefresh(l) PROVE EInv' /\ mapping' = mapping
  BY <1>4, StartRefreshStep DEF StartRefresh, encodingVars
<1>5. ASSUME NEW l \in Links, ReleaseLink(l) \/ RefreshLink(l) \/ AddLink(l)
      PROVE  EInv' /\ \A d \in Depths : mapping'[d].nb_bytes = mapping[d].nb_bytes
  BY <1>5, ReleaseStep, RefreshLinkStep, AddLinkStep
<1> QED
  BY <1>1, <1>2, <1>3, <1>4, <1>5, OtherSteps DEF Next, Step

(***************************************************************************)
(* Theorems.                                                               *)
(***************************************************************************)
THEOREM InvariantHolds == Spec => []EInv
<1>1. Init => EInv
  BY InitEInv
<1>2. EInv /\ [Next]_vars => EInv'
  BY NextEInv
<1> QED
  BY <1>1, <1>2, PTL DEF Spec

\* No code is shared or lost (Mapping.add, remove, add_byte).
THEOREM CodesKept == Spec => []CodesAreKept
<1>1. EInv => CodesAreKept
  BY DEF EInv, MappingsOK, MappingOK, CodesAreKept
<1> QED
  BY <1>1, InvariantHolds, PTL

\* Every AS is counted once per encoded link it begins or ends (Encoding.add, remove,
\* withdraw, refresh, compute_encoding).
THEOREM UsesCounted == Spec => []UsesAreCounted
<1>1. EInv => UsesAreCounted
  <2>1. ASSUME EInv, NEW d \in Depths, NEW a \in ASes
        PROVE  /\ mapping[d].count["from"][a] = Cardinality({l \in encoded : l.depth = d /\ l.from = a})
               /\ mapping[d].count["to"][a] = Cardinality({l \in encoded : l.depth + 1 = d /\ l.to = a})
               /\ mapping[d].code[a] # 0 <=> \E s \in Sides : mapping[d].count[s][a] > 0
    <3>1. /\ Uses(encoded, d, a, "from") = {l \in encoded : l.depth = d /\ l.from = a}
          /\ Uses(encoded, d, a, "to") = {l \in encoded : l.depth + 1 = d /\ l.to = a}
      BY DEF Uses
    <3>2. "from" \in Sides /\ "to" \in Sides
      BY DEF Sides
    <3>3. Counted(mapping[d], d, encoded)
      BY <2>1 DEF EInv, EncodedCounted
    <3>4. /\ mapping[d].count["from"][a] = Cardinality(Uses(encoded, d, a, "from"))
          /\ mapping[d].count["to"][a] = Cardinality(Uses(encoded, d, a, "to"))
          /\ mapping[d].code[a] # 0 <=> \E s \in Sides : mapping[d].count[s][a] > 0
      BY <3>2, <3>3 DEF Counted
    <3> QED
      BY <3>1, <3>4
  <2> QED
    BY <2>1 DEF UsesAreCounted
<1> QED
  BY <1>1, InvariantHolds, PTL

\* The count checked in Mapping.remove is never negative: sys.exit is not reached.
THEOREM Survival == Spec => []ThreadSurvives
<1>1. EInv => ThreadSurvives
  BY DEF EInv
<1> QED
  BY <1>1, InvariantHolds, PTL

\* Once computed, an encoding gives no field of the VMAC another bit.
THEOREM LayoutFixed == Spec => LayoutIsFixed
<1>1. EInv /\ [Next]_vars =>
          [computed => \A d \in Depths : mapping'[d].nb_bytes = mapping[d].nb_bytes]_vars
  BY NextEInv
<1> QED
  BY <1>1, InvariantHolds, PTL DEF Spec, LayoutIsFixed

\* A depth at which no encoded link begins or ends has no AS with a code.
LEMMA EmptyDepth ==
    ASSUME EInv, NEW d \in Depths, \A l \in encoded : l.depth # d /\ l.depth + 1 # d
    PROVE  2 * Size(mapping[d]) <= mapping[d].capacity
<1>1. MappingOK(mapping[d]) /\ Counted(mapping[d], d, encoded)
  BY DEF EInv, MappingsOK, EncodedCounted
<1>2. \A a, s : Uses(encoded, d, a, s) = {}
  BY DEF Uses
<1>3. \A a \in ASes, s \in Sides : mapping[d].count[s][a] = 0
  BY <1>1, <1>2, FS_EmptySet DEF Counted
<1>4. Mapped(mapping[d]) = {}
  BY <1>1, <1>3 DEF Counted, Mapped
<1>5. Size(mapping[d]) = IF mapping[d].nb_bytes > 0 THEN 1 ELSE 0
  BY <1>4, FS_EmptySet DEF Size
<1>6. /\ mapping[d].capacity \in Nat /\ mapping[d].capacity > 0
      /\ mapping[d].nb_bytes > 0 => mapping[d].capacity > 1
  BY <1>1 DEF MappingOK, Mappings
<1> QED
  BY <1>5, <1>6

\* A refresh ends with half of the depth free, even if it runs out of links to give up:
\* the entry of -1 alone is never more than half (Encoding.refresh).
THEOREM RoomMade == Spec => RefreshMakesRoom
<1>1. EInv /\ [Next]_vars =>
          [pc = "refresh" /\ pc' # "refresh" =>
               2 * Size(mapping[target]) <= mapping[target].capacity]_vars
  <2> SUFFICES ASSUME EInv, Next, pc = "refresh", pc' # "refresh"
               PROVE  2 * Size(mapping[target]) <= mapping[target].capacity
    OBVIOUS
  <2>1. Refreshed
    BY DEF Next, Step, Announce, Withdraw, Idle, ConsiderLink, SpareBit, FinishCompute,
           ReleaseLink, RefreshLink, StartRefresh, AddLink, IsNext, Updating, Finish
  <2>2. target \in Depths
    BY DEF EInv, Phases
  <2>3. CASE ~OverHalf
    <3>1. MappingOK(mapping[target])
      BY <2>2 DEF EInv, MappingsOK
    <3>2. Size(mapping[target]) \in Nat /\ mapping[target].capacity \in Nat
      BY <3>1, SizesAreNumbers DEF MappingOK, Mappings
    <3> QED
      BY <2>3, <3>2 DEF OverHalf
  <2>4. CASE Holders = {}
    <3>1. \A l \in encoded : l.depth # target /\ l.depth + 1 # target
      <4> SUFFICES ASSUME NEW l \in encoded, l.depth = target \/ l.depth + 1 = target
                   PROVE  l.depth \in {target - 1, target}
        BY <2>4 DEF Holders
      <4>1. l.depth \in Nat
        BY LinkEnds DEF EInv, EncodedCounted, EncodableLinks
      <4> QED
        BY <4>1
    <3> QED
      BY <2>2, <3>1, EmptyDepth
  <2> QED
    BY <2>1, <2>3, <2>4 DEF Refreshed
<1> QED
  BY <1>1, InvariantHolds, PTL DEF Spec, RefreshMakesRoom

(***************************************************************************)
(* Encoded links and the topology.                                         *)
(***************************************************************************)
\* The prefixes whose path uses a link.
Users(r, l) == {p \in Prefixes : l \in LinksOf(r[p])}

RibsOK == rib \in [Prefixes -> Paths \cup {<<>>}] /\ G \in [Links -> Nat]

GraphCounts == \A l \in Links : G[l] = Cardinality(Users(rib, l))

\* What the message in hand says of the RIB.
MessageOK ==
    /\ pc # "idle" => msg.prefix \in Prefixes
    /\ pc = "compute" => msg.old \in Paths \cup {<<>>}
    /\ pc = "compute" /\ msg.kind = "withdraw" => rib[msg.prefix] = msg.old /\ msg.new = <<>>
    /\ pc \in {"update", "refresh"} => rib[msg.prefix] = msg.new

\* An encoded link has a user, or is one of the old path that is to be released.
EncodedUsed ==
    /\ \A l \in encoded : G[l] > 0 \/ (pc \in {"update", "refresh"} /\ l \in LinksOf(msg.old))
    /\ pc = "compute" => \A l \in todo : G[l] > 0

TInv == RibsOK /\ GraphCounts /\ MessageOK /\ EncodedUsed

LEMMA UsersFinite ==
    ASSUME NEW r, NEW l
    PROVE  /\ IsFiniteSet(Users(r, l)) /\ Cardinality(Users(r, l)) \in Nat
           /\ Cardinality(Users(r, l)) > 0 <=> \E p \in Prefixes : l \in LinksOf(r[p])
<1>1. IsFiniteSet(Users(r, l))
  BY EncodingAssumption, FS_Subset DEF Users
<1>2. Cardinality(Users(r, l)) \in Nat /\ (Cardinality(Users(r, l)) = 0 <=> Users(r, l) = {})
  BY <1>1, FS_CardinalityType, FS_EmptySet
<1>3. Users(r, l) # {} <=> \E p \in Prefixes : l \in LinksOf(r[p])
  BY DEF Users
<1> QED
  BY <1>1, <1>2, <1>3

\* A prefix with another path: ASTopology.remove and add keep the counts exact.
LEMMA RegraphedCounts ==
    ASSUME RibsOK, GraphCounts, NEW p \in Prefixes, NEW new \in Paths \cup {<<>>},
           rib' = [rib EXCEPT ![p] = new], G' = Regraphed(rib[p], new)
    PROVE  /\ RibsOK' /\ GraphCounts'
           /\ \A l \in Links : G[l] > 0 => G'[l] > 0 \/ l \in LinksOf(rib[p])
<1> DEFINE old == rib[p]
<1>1. /\ rib' \in [Prefixes -> Paths \cup {<<>>}]
      /\ rib'[p] = new /\ \A q \in Prefixes : q # p => rib'[q] = rib[q]
  BY DEF RibsOK
<1>2. ASSUME NEW l \in Links
      PROVE  /\ G'[l] = Cardinality(Users(rib', l))
             /\ G[l] > 0 => G'[l] > 0 \/ l \in LinksOf(old)
  <2> DEFINE U == Users(rib, l)
             V == U \ {p}
             W == Users(rib', l)
  <2>1. IsFiniteSet(U) /\ Cardinality(U) \in Nat /\ Cardinality(W) \in Nat
    BY UsersFinite
  <2>2. p \in U <=> l \in LinksOf(old)
    BY DEF Users
  <2>3. W = IF l \in LinksOf(new) THEN V \cup {p} ELSE V
    BY <1>1 DEF Users
  <2>4. G[l] = Cardinality(U)
    BY DEF GraphCounts
  <2>5. G'[l] = G[l] - (IF l \in LinksOf(old) THEN 1 ELSE 0)
                     + (IF l \in LinksOf(new) THEN 1 ELSE 0)
    BY DEF Regraphed
  <2> HIDE DEF U, W, old
  <2>6. /\ IsFiniteSet(V)
        /\ Cardinality(V) = IF p \in U THEN Cardinality(U) - 1 ELSE Cardinality(U)
    BY <2>1, FS_RemoveElement
  <2>7. p \notin V
    OBVIOUS
  <2> HIDE DEF V
  <2>8. Cardinality(V \cup {p}) = Cardinality(V) + 1
    BY <2>6, <2>7, FS_AddElement
  <2>9. Cardinality(W) = Cardinality(V) + (IF l \in LinksOf(new) THEN 1 ELSE 0)
    <3>1. CASE l \in LinksOf(new)
      BY <2>3, <2>8, <3>1
    <3>2. CASE l \notin LinksOf(new)
      BY <2>1, <2>3, <3>2
    <3> QED
      BY <3>1, <3>2
  <2>10. G'[l] = Cardinality(W)
    BY <2>1, <2>2, <2>4, <2>5, <2>6, <2>9
  <2> QED
    BY <2>1, <2>4, <2>5, <2>10 DEF W
<1>3. G' \in [Links -> Nat]
  <2>1. \A l \in Links : G'[l] \in Nat
    BY <1>2, UsersFinite
  <2> QED
    BY <2>1 DEF Regraphed
<1> QED
  BY <1>1, <1>2, <1>3 DEF RibsOK, GraphCounts

LEMMA InitTInv == Init => TInv
<1> SUFFICES ASSUME Init PROVE TInv
  OBVIOUS
<1>1. RibsOK /\ encoded = {} /\ pc = "idle"
  BY DEF Init, RibsOK
<1>2. GraphCounts
  <2>1. LinksOf(<<>>) = {}
    <3>1. 1..(Len(<<>>) - 1) = {}
      OBVIOUS
    <3> QED
      BY <3>1 DEF LinksOf
  <2>2. \A l \in Links : Users(rib, l) = {}
    BY <2>1 DEF Init, Users
  <2>3. \A l \in Links : G[l] = 0
    BY DEF Init
  <2> QED
    BY <2>2, <2>3, FS_EmptySet DEF GraphCounts
<1> QED
  BY <1>1, <1>2 DEF TInv, MessageOK, EncodedUsed

\* A new path for a prefix: encoded links that lose their last user are to be released.
LEMMA ReroutedUsed ==
    ASSUME EInv, TInv, NEW p \in Prefixes, NEW new \in Paths \cup {<<>>},
           rib' = [rib EXCEPT ![p] = new], G' = Regraphed(rib[p], new), encoded' = encoded,
           \A l \in encoded : G[l] > 0
    PROVE  /\ RibsOK' /\ GraphCounts' /\ rib'[p] = new
           /\ \A l \in encoded' : G'[l] > 0 \/ l \in LinksOf(rib[p])
           /\ \A l \in Unused(rib[p], G') : G'[l] = 0
           /\ \A l \in encoded : l \notin Unused(rib[p], G') => G'[l] > 0
<1>1. /\ RibsOK' /\ GraphCounts'
      /\ \A l \in Links : G[l] > 0 => G'[l] > 0 \/ l \in LinksOf(rib[p])
  BY RegraphedCounts DEF TInv
<1>2. encoded \subseteq Links
  BY DEF EInv, EncodedCounted, EncodableLinks
<1>3. \A l \in encoded' : G'[l] > 0 \/ l \in LinksOf(rib[p])
  BY <1>1, <1>2
<1>4. \A l \in encoded : G'[l] \in Nat
  BY <1>1, <1>2 DEF RibsOK
<1>5. \A l \in encoded : l \notin Unused(rib[p], G') => G'[l] > 0
  BY <1>3, <1>4 DEF Unused
<1> QED
  BY <1>1, <1>3, <1>5 DEF Unused, TInv, RibsOK

LEMMA IdleUsed ==
    ASSUME TInv, pc \in {"idle", "compute"}
    PROVE  \A l \in encoded : G[l] > 0
  BY DEF TInv, EncodedUsed

LEMMA CandidatesUsed ==
    ASSUME NEW g PROVE \A l \in Candidates(g) : g[l] > 0
  BY DEF Candidates

LEMMA AnnounceUsed ==
    ASSUME EInv, TInv, NEW p \in Prefixes, NEW path \in Paths, Announce(p, path)
    PROVE  TInv'
<1> DEFINE m == Message("announce", p, path)
<1>1. /\ pc = "idle"
      /\ rib' = [rib EXCEPT ![p] = path] /\ G' = Regraphed(rib[p], path)
      /\ encoded' = encoded
  BY DEF Announce, Idle, encodingVars
<1>2. /\ RibsOK' /\ GraphCounts' /\ rib'[p] = path
      /\ \A l \in encoded' : G'[l] > 0 \/ l \in LinksOf(rib[p])
      /\ \A l \in encoded : l \notin Unused(rib[p], G') => G'[l] > 0
  BY <1>1, IdleUsed, ReroutedUsed
<1>3. /\ m.prefix = p /\ m.old = rib[p] /\ m.new = path /\ m.kind = "announce"
      /\ rib[p] \in Paths \cup {<<>>}
  BY DEF Message, TInv, RibsOK
<1> HIDE DEF m
<1>4. CASE computed /\ Proceed(m)
  <2>1. CASE Unused(m.old, G') = {} /\ UNCHANGED <<pc, msg>>
    BY <1>1, <1>2, <1>3, <2>1 DEF TInv, MessageOK, EncodedUsed
  <2>2. CASE pc' = "update" /\ msg' = m
    BY <1>1, <1>2, <1>3, <2>2 DEF TInv, MessageOK, EncodedUsed
  <2> QED
    BY <1>4, <2>1, <2>2 DEF Proceed
<1>5. CASE ~computed
  <2>1. encoded = {}
    BY <1>1, <1>5 DEF EInv, Phases
  <2>2. CASE pc' = "compute" /\ todo' = Candidates(G') /\ msg' = m
    <3>1. \A l \in todo' : G'[l] > 0
      BY <2>2, CandidatesUsed
    <3> QED
      BY <1>1, <1>2, <1>3, <2>1, <2>2, <3>1 DEF TInv, MessageOK, EncodedUsed
  <2>3. CASE UNCHANGED <<pc, msg>>
    BY <1>1, <1>2, <2>1, <2>3 DEF TInv, MessageOK, EncodedUsed
  <2> QED
    BY <1>5, <2>2, <2>3 DEF Announce, m
<1> QED
  BY <1>4, <1>5 DEF Announce, m

LEMMA WithdrawUsed ==
    ASSUME EInv, TInv, NEW p \in Prefixes, Withdraw(p)
    PROVE  TInv'
<1> DEFINE m == Message("withdraw", p, <<>>)
<1>1. pc = "idle" /\ encoded' = encoded
  BY DEF Withdraw, Idle, encodingVars
<1>2. /\ m.prefix = p /\ m.old = rib[p] /\ m.new = <<>> /\ m.kind = "withdraw"
      /\ rib[p] \in Paths \cup {<<>>}
  BY DEF Message, TInv, RibsOK
<1>3. CASE computed
  <2>1. rib' = [rib EXCEPT ![p] = <<>>] /\ G' = Regraphed(rib[p], <<>>) /\ Proceed(m)
    BY <1>3 DEF Withdraw
  <2>2. /\ RibsOK' /\ GraphCounts' /\ rib'[p] = <<>>
        /\ \A l \in encoded' : G'[l] > 0 \/ l \in LinksOf(rib[p])
        /\ \A l \in encoded : l \notin Unused(rib[p], G') => G'[l] > 0
    BY <1>1, <2>1, IdleUsed, ReroutedUsed
  <2> HIDE DEF m
  <2>3. CASE Unused(m.old, G') = {} /\ UNCHANGED <<pc, msg>>
    BY <1>1, <1>2, <2>2, <2>3 DEF TInv, MessageOK, EncodedUsed
  <2>4. CASE pc' = "update" /\ msg' = m
    BY <1>1, <1>2, <2>2, <2>4 DEF TInv, MessageOK, EncodedUsed
  <2> QED
    BY <2>1, <2>3, <2>4 DEF Proceed
<1>4. CASE ~computed
  <2>1. pc' = "compute" /\ todo' = Candidates(G) /\ msg' = m /\ UNCHANGED <<rib, G>>
    BY <1>4 DEF Withdraw
  <2>2. encoded = {}
    BY <1>1, <1>4 DEF EInv, Phases
  <2>3. \A l \in todo' : G'[l] > 0
    BY <2>1, CandidatesUsed
  <2> HIDE DEF m
  <2> QED
    BY <1>1, <1>2, <2>1, <2>2, <2>3 DEF TInv, MessageOK, EncodedUsed, RibsOK, GraphCounts
<1> QED
  BY <1>3, <1>4

LEMMA FinishComputeUsed ==
    ASSUME EInv, TInv, FinishCompute
    PROVE  TInv'
<1>1. pc = "compute" /\ encoded' = encoded
  BY DEF FinishCompute
<1>2. CASE msg.kind = "withdraw"
  <2>1. /\ rib' = [rib EXCEPT ![msg.prefix] = <<>>] /\ G' = Regraphed(msg.old, <<>>)
        /\ pc' = "update" /\ msg' = msg
    BY <1>2 DEF FinishCompute
  <2>2. rib[msg.prefix] = msg.old /\ msg.prefix \in Prefixes /\ msg.new = <<>>
    BY <1>1, <1>2 DEF TInv, MessageOK
  <2>3. /\ RibsOK' /\ GraphCounts' /\ rib'[msg.prefix] = <<>>
        /\ \A l \in encoded' : G'[l] > 0 \/ l \in LinksOf(msg.old)
    BY <1>1, <2>1, <2>2, IdleUsed, ReroutedUsed
  <2> QED
    BY <2>1, <2>2, <2>3 DEF TInv, MessageOK, EncodedUsed
<1>3. CASE msg.kind # "withdraw"
  <2>1. pc' = "idle" /\ UNCHANGED <<rib, G>>
    BY <1>3 DEF FinishCompute
  <2> QED
    BY <1>1, <2>1, IdleUsed DEF TInv, RibsOK, GraphCounts, MessageOK, EncodedUsed
<1> QED
  BY <1>2, <1>3

\* A link that Encoding.add encodes is on the new path, which the RIB holds.
LEMMA AddLinkUsed ==
    ASSUME EInv, TInv, NEW l \in Links, AddLink(l)
    PROVE  TInv'
<1>1. /\ pc = "update" /\ encoded' = encoded \cup {l}
      /\ l \in LinksOf(msg.new) /\ UNCHANGED <<rib, G, pc, msg, todo>>
  BY DEF AddLink, IsNext, Updating, ToAdd, Considered
<1>2. G[l] > 0
  <2>1. rib[msg.prefix] = msg.new /\ msg.prefix \in Prefixes
    BY <1>1 DEF TInv, MessageOK
  <2>2. Cardinality(Users(rib, l)) > 0
    BY <1>1, <2>1, UsersFinite
  <2> QED
    BY <2>2 DEF TInv, GraphCounts
<1> QED
  BY <1>1, <1>2 DEF TInv, RibsOK, GraphCounts, MessageOK, EncodedUsed

LEMMA ConsiderUsed ==
    ASSUME EInv, TInv, NEW l \in Links, ConsiderLink(l)
    PROVE  TInv'
<1>1. /\ pc = "compute" /\ l \in todo /\ todo' = todo \ {l}
      /\ encoded' \subseteq encoded \cup {l}
      /\ UNCHANGED <<rib, G, pc, msg>>
  BY DEF ConsiderLink
<1> QED
  BY <1>1 DEF TInv, RibsOK, GraphCounts, MessageOK, EncodedUsed

LEMMA FinishUsed ==
    ASSUME EInv, TInv, Finish
    PROVE  TInv'
<1>1. /\ pc' = "idle" /\ Unused(msg.old, G) = {}
      /\ UNCHANGED <<rib, G, encoded, todo>>
  BY DEF Finish, encodingVars
<1>2. \A l \in encoded : G[l] \in Nat
  BY DEF EInv, EncodedCounted, EncodableLinks, TInv, RibsOK
<1>3. \A l \in encoded : G[l] > 0
  BY <1>1, <1>2 DEF TInv, EncodedUsed, Unused
<1> QED
  BY <1>1, <1>3 DEF TInv, RibsOK, GraphCounts, MessageOK, EncodedUsed

\* Steps that encode no link and leave the RIB alone.
LEMMA OthersUsed ==
    ASSUME TInv,
           \/ \E l \in Links : ReleaseLink(l) \/ RefreshLink(l) \/ StartRefresh(l)
           \/ \E d \in Depths : SpareBit(d)
           \/ Refreshed
           \/ UNCHANGED vars
    PROVE  TInv'
<1>1. /\ encoded' \subseteq encoded /\ UNCHANGED <<rib, G, msg, todo>>
      /\ \/ pc' = pc
         \/ pc \in {"update", "refresh"} /\ pc' \in {"update", "refresh"}
  BY DEF ReleaseLink, RefreshLink, Remove, StartRefresh, IsNext, Updating, SpareBit, Refreshed,
         vars, encodingVars, loopVars
<1> QED
  BY <1>1 DEF TInv, RibsOK, GraphCounts, MessageOK, EncodedUsed

\* Between two messages every encoded link is on the path of some prefix (Encoding.withdraw
\* releases what ASTopology.remove has emptied).
THEOREM EncodedTraversed == Spec => []EncodedIsTraversed
<1>1. Init => TInv
  BY InitTInv
<1>2. EInv /\ TInv /\ [Next]_vars => TInv'
  BY AnnounceUsed, WithdrawUsed, FinishComputeUsed, AddLinkUsed, ConsiderUsed, FinishUsed,
     OthersUsed DEF Next, Step
<1>3. EInv /\ TInv => EncodedIsTraversed
  <2>1. ASSUME EInv, TInv, pc = "idle", NEW l \in encoded
        PROVE  \E p \in Prefixes : l \in LinksOf(rib[p])
    <3>1. G[l] > 0 /\ l \in Links
      BY <2>1, IdleUsed DEF EInv, EncodedCounted, EncodableLinks
    <3>2. Cardinality(Users(rib, l)) > 0
      BY <2>1, <3>1 DEF TInv, GraphCounts
    <3> QED
      BY <3>2, UsersFinite
  <2> QED
    BY <2>1 DEF EncodedIsTraversed
<1> QED
  BY <1>1, <1>2, <1>3, InvariantHolds, PTL DEF Spec

(***************************************************************************)
(* The bits of a path.                                                     *)
(***************************************************************************)
BitsOf(n) == {b \in Depths \X Nat : 1 <= b[2] /\ b[2] <= n[b[1]].nb_bytes}

LEMMA DepthsFinite == IsFiniteSet(Depths)
  BY FS_Interval, EncodingAssumption DEF Depths

LEMMA NoBits ==
    ASSUME NEW n, \A d \in Depths : n[d].nb_bytes = 0
    PROVE  IsFiniteSet(BitsOf(n)) /\ Cardinality(BitsOf(n)) = 0
<1>1. BitsOf(n) = {}
  BY DEF BitsOf
<1> QED
  BY <1>1, FS_EmptySet

\* A mapping with k bits more makes paths k bits longer.
LEMMA BitsGrow ==
    ASSUME NEW n, NEW o, NEW e \in Depths, NEW k \in Nat, n[e].nb_bytes \in Nat,
           o[e].nb_bytes = n[e].nb_bytes + k,
           \A d \in Depths : d # e => o[d].nb_bytes = n[d].nb_bytes,
           IsFiniteSet(BitsOf(n))
    PROVE  /\ IsFiniteSet(BitsOf(o))
           /\ Cardinality(BitsOf(o)) = Cardinality(BitsOf(n)) + k
<1> DEFINE b == n[e].nb_bytes
           more == (b + 1)..(b + k)
<1>1. IsFiniteSet(more) /\ Cardinality(more) = k
  <2>1. b + 1 \in Int /\ b + k \in Int
    OBVIOUS
  <2> HIDE DEF b
  <2>2. IsFiniteSet(more) /\ Cardinality(more) = IF b + 1 > b + k THEN 0 ELSE (b + k) - (b + 1) + 1
    BY <2>1, FS_Interval
  <2> QED
    BY <2>1, <2>2 DEF b
<1>2. IsFiniteSet({e}) /\ Cardinality({e}) = 1
  BY FS_Singleton
<1> DEFINE new == {e} \X more
<1>3. IsFiniteSet(new) /\ Cardinality(new) = k
  <2> HIDE DEF more
  <2>1. IsFiniteSet(new) /\ Cardinality(new) = Cardinality({e}) * Cardinality(more)
    BY <1>1, <1>2, FS_Product
  <2>2. 1 * k = k
    OBVIOUS
  <2> QED
    BY <1>1, <1>2, <2>1, <2>2
<1>4. BitsOf(o) = BitsOf(n) \cup new
  <2>1. ASSUME NEW d \in Depths, NEW i \in Nat
        PROVE  <<d, i>> \in BitsOf(o) <=> <<d, i>> \in BitsOf(n) \/ <<d, i>> \in new
    BY <2>1 DEF BitsOf
  <2>2. BitsOf(o) \subseteq Depths \X Nat /\ BitsOf(n) \subseteq Depths \X Nat
    BY DEF BitsOf
  <2>3. new \subseteq Depths \X Nat
    OBVIOUS
  <2> HIDE DEF new
  <2>4. \A x \in Depths \X Nat : \E d \in Depths, i \in Nat : x = <<d, i>>
    OBVIOUS
  <2> QED
    BY <2>1, <2>2, <2>3, <2>4
<1>5. BitsOf(n) \cap new = {}
  BY DEF BitsOf
<1> HIDE DEF new
<1>6. /\ IsFiniteSet(BitsOf(n) \cup new)
      /\ Cardinality(BitsOf(n) \cup new) = Cardinality(BitsOf(n)) + Cardinality(new) - Cardinality(BitsOf(n) \cap new)
  BY <1>3, FS_Union
<1>7. Cardinality(BitsOf(n)) \in Nat
  BY FS_CardinalityType
<1>8. Cardinality(BitsOf(n) \cap new) = 0
  BY <1>5, FS_EmptySet
<1> QED
  BY <1>3, <1>4, <1>6, <1>7, <1>8

\* While there is overprovisioning a mapping runs out of free codes only where
\* MaxFree forbids to add them.
Roomy(m) == /\ m.nb_bytes = 0 => m.free = {}
            /\ m.nb_bytes > 0 /\ m.free = {} => MaxFree <= 1

LEMMA AddByteRoomy ==
    ASSUME NEW m, MappingOK(m)
    PROVE  Roomy(AddByte(m))
<1>1. AddByte(m).free # {} /\ AddByte(m).nb_bytes = m.nb_bytes + 1 /\ m.nb_bytes \in Nat
  BY AddByteOK DEF MappingOK, Mappings
<1> QED
  BY <1>1 DEF Roomy

\* Mapping.is_available says how many bits Mapping.add takes, or more, when it
\* overprovisions.
LEMMA AddFits ==
    ASSUME NEW m, MappingOK(m), Roomy(m), NEW a \in ASes, NEW side \in Sides
    PROVE  LET n == MappingAdd(m, a, side, TRUE)
           IN  /\ n.nb_bytes <= m.nb_bytes + IsAvailable(m, a, TRUE)
               /\ Roomy(n)
<1> DEFINE n == MappingAdd(m, a, side, TRUE)
           enough == IF m.free = {} THEN AddByte(m) ELSE m
           grown == Grown(m, TRUE)
           scarce == Cardinality(enough.free) <= Size(enough) /\ Cardinality(enough.free) < MaxFree
           c == CHOOSE x \in grown.free : \A y \in grown.free : x <= y
           bits == IsAvailable(m, a, TRUE)
<1>1. /\ m \in Mappings /\ m.nb_bytes \in Nat /\ MaxFree \in Nat
      /\ bits \in Nat
  BY EncodingAssumption DEF MappingOK, Mappings, IsAvailable
<1>2. CASE m.code[a] # 0
  <2>1. n.nb_bytes = m.nb_bytes /\ n.free = m.free /\ n = MappingAdd(m, a, side, TRUE)
    BY <1>1, <1>2 DEF MappingAdd, Mappings
  <2>2. bits = IsAvailable(m, a, TRUE)
    OBVIOUS
  <2> HIDE DEF n, bits
  <2>3. n.nb_bytes <= m.nb_bytes + bits
    BY <1>1, <2>1
  <2>4. Roomy(n)
    BY <2>1 DEF Roomy
  <2> QED
    BY <2>1, <2>2, <2>3, <2>4
<1>3. CASE m.code[a] = 0 /\ m.blocked /\ grown # m
  <2>1. n = m /\ n = MappingAdd(m, a, side, TRUE)
    BY <1>3 DEF MappingAdd
  <2>2. bits = IsAvailable(m, a, TRUE)
    OBVIOUS
  <2> HIDE DEF n, bits
  <2>3. m.nb_bytes <= m.nb_bytes + bits
    BY <1>1
  <2> QED
    BY <2>1, <2>2, <2>3
<1>4. CASE m.code[a] = 0 /\ ~(m.blocked /\ grown # m)
  <2>1. n = [grown EXCEPT !.code[a] = c, !.count[side][a] = 1, !.free = @ \ {c}]
    BY <1>4 DEF MappingAdd
  <2>2. MappingOK(grown) /\ grown.free # {}
    BY GrownOK
  <2>3. MappingOK(enough) /\ enough.free # {}
    BY AddByteOK
  <2>4. grown = IF scarce THEN AddByte(enough) ELSE enough
    BY DEF Grown
  <2>5. /\ Cardinality(enough.free) \in Nat /\ Cardinality(enough.free) > 0
        /\ Size(enough) \in Nat
        /\ enough.nb_bytes \in Nat
    BY <2>3, SizesAreNumbers DEF MappingOK, Mappings
  <2>6. AddByte(m).nb_bytes = m.nb_bytes + 1
    BY AddByteOK
  <2>7. AddByte(enough).nb_bytes = enough.nb_bytes + 1
    BY <2>3, AddByteOK
  <2>8. enough.nb_bytes > 0
    <3>1. CASE m.free = {}
      BY <1>1, <2>6, <3>1
    <3>2. CASE m.free # {}
      BY <1>1, <3>2 DEF Roomy
    <3> QED
      BY <3>1, <3>2
  <2>9. Size(enough) > 0
    <3>1. Cardinality(Mapped(enough)) \in Nat
      BY <2>3, SizesAreNumbers
    <3> QED
      BY <2>8, <3>1 DEF Size
  <2>10. n.nb_bytes = grown.nb_bytes /\ n.free = grown.free \ {c}
    BY <2>1, <2>2 DEF MappingOK, Mappings
  <2> HIDE DEF n, grown, enough, scarce, bits
  <2>11. grown.nb_bytes <= m.nb_bytes + bits
    <3>1. CASE bits = 0
      <4>1. grown = m
        BY <1>4, <3>1, NoGrowth DEF grown, bits
      <4> QED
        BY <1>1, <3>1, <4>1
    <3>2. CASE bits # 0
      <4>1. bits = IF m.nb_bytes = 0 THEN 2 ELSE 1
        BY <3>2 DEF IsAvailable, bits
      <4>2. CASE m.nb_bytes = 0 /\ m.free = {}
        BY <1>1, <2>4, <2>5, <2>6, <2>7, <4>1, <4>2 DEF enough
      <4>3. CASE m.nb_bytes # 0 /\ m.free # {}
        BY <1>1, <2>4, <2>7, <4>1, <4>3 DEF enough
      <4>4. CASE m.nb_bytes # 0 /\ m.free = {}
        <5>1. MaxFree <= 1
          BY <1>1, <4>4 DEF Roomy
        <5>2. ~scarce
          BY <1>1, <2>5, <5>1 DEF scarce
        <5> QED
          BY <1>1, <2>4, <2>6, <4>1, <4>4, <5>2 DEF enough
      <4> QED
        BY <4>2, <4>3, <4>4, <1>1 DEF Roomy
    <3> QED
      BY <3>1, <3>2
  <2>12. Roomy(n)
    <3>1. n.nb_bytes > 0
      BY <2>4, <2>5, <2>7, <2>8, <2>10
    <3>2. ASSUME n.free = {} PROVE MaxFree <= 1
      <4>1. grown.free = {c}
        BY <2>2, <2>10, <3>2
      <4>2. ~scarce
        <5> SUFFICES ASSUME scarce PROVE FALSE
          OBVIOUS
        <5>1. enough.free \subseteq 1..(enough.capacity - 1) /\ enough.capacity \in Nat
          BY <2>3 DEF MappingOK, Mappings, CodesPartitioned
        <5>2. AddByte(enough).free = enough.free \cup (enough.capacity..(2 * enough.capacity - 1))
          BY <2>3 DEF AddByte, MappingOK, Mappings
        <5>3. enough.capacity \in AddByte(enough).free /\ enough.capacity \notin enough.free
          BY <2>3, <5>1, <5>2 DEF MappingOK
        <5>4. enough.free \subseteq AddByte(enough).free
          BY <5>2
        <5> QED
          BY <2>3, <2>4, <4>1, <5>3, <5>4
      <4>3. Cardinality(enough.free) = 1
        BY <2>4, <4>1, <4>2, FS_Singleton
      <4> QED
        BY <1>1, <2>5, <2>9, <4>2, <4>3 DEF scarce
    <3> QED
      BY <2>2, <3>1, <3>2 DEF Roomy
  <2> QED
    BY <2>10, <2>11, <2>12 DEF n, bits
<1> QED
  BY <1>2, <1>3, <1>4

\* The bits given to the depths that exist are counted, two are kept back, and
\* depths that do not exist have none.
FitInv ==
    /\ \A d \in Depths \ depths : mapping[d].nb_bytes = 0
    /\ IsFiniteSet(BitsOf(mapping)) /\ Cardinality(BitsOf(mapping)) <= MaxBytes
    /\ ~computed => /\ total_bytes <= MaxBytes - 2
                    /\ Cardinality(BitsOf(mapping)) = total_bytes
                    /\ \A d \in Depths : Roomy(mapping[d])

LEMMA InitFitInv == Init /\ MaxBytes >= 2 => FitInv
<1> SUFFICES ASSUME Init, MaxBytes >= 2 PROVE FitInv
  OBVIOUS
<1>1. /\ \A d \in Depths : mapping[d] = EmptyMapping
      /\ total_bytes = 0
  BY DEF Init
<1>2. EmptyMapping.nb_bytes = 0 /\ EmptyMapping.free = {}
  BY DEF EmptyMapping
<1>3. IsFiniteSet(BitsOf(mapping)) /\ Cardinality(BitsOf(mapping)) = 0
  BY <1>1, <1>2, NoBits
<1> QED
  BY <1>1, <1>2, <1>3, EncodingAssumption DEF FitInv, Roomy

LEMMA MappingTypes ==
    ASSUME EInv
    PROVE  /\ mapping \in [Depths -> Mappings] /\ depths \subseteq Depths
           /\ total_bytes \in Nat /\ MaxBytes \in Nat
           /\ \A d \in Depths : MappingOK(mapping[d]) /\ mapping[d].nb_bytes \in Nat
  BY EncodingAssumption DEF EInv, MappingsOK, Mappings

LEMMA ConsiderFits ==
    ASSUME EInv, FitInv, NEW l \in Links, ConsiderLink(l)
    PROVE  FitInv'
<1> DEFINE d == l.depth
           e == l.depth + 1
           from == MappingAdd(mapping[d], l.from, "from", TRUE)
           to == MappingAdd(mapping[e], l.to, "to", TRUE)
           x == IsAvailable(mapping[d], l.from, TRUE)
           y == IsAvailable(mapping[e], l.to, TRUE)
           total == total_bytes + from.nb_bytes - mapping[d].nb_bytes
                                + to.nb_bytes - mapping[e].nb_bytes
           Block(m) == IF total >= MaxBytes - 2 THEN [m EXCEPT !.blocked = TRUE] ELSE m
<1>1. /\ l \in EncodableLinks /\ l \notin encoded /\ ~computed /\ computed' = computed
      /\ depths' = depths \cup {d, e}
  BY DEF ConsiderLink, EInv, Phases
<1>2. /\ d \in Depths /\ e \in Depths /\ d # e /\ l.from \in ASes /\ l.to \in ASes
      /\ "from" \in Sides /\ "to" \in Sides
  BY <1>1, DepthsOfLinks, LinkEnds DEF EncodableLinks, Sides
<1>3. CASE UNCHANGED <<encoded, total_bytes, mapping>>
  BY <1>1, <1>3 DEF FitInv
<1>4. CASE /\ total_bytes + (x + y) <= MaxBytes - 2
           /\ total_bytes' = total
           /\ mapping' = [mapping EXCEPT ![d] = Block(from), ![e] = Block(to)]
  <2>1. /\ MappingOK(from) /\ MappingOK(to)
        /\ from.nb_bytes >= mapping[d].nb_bytes /\ to.nb_bytes >= mapping[e].nb_bytes
    BY <1>1, <1>4, ConsiderAdds
  <2>2. /\ from.nb_bytes <= mapping[d].nb_bytes + x /\ Roomy(from)
        /\ to.nb_bytes <= mapping[e].nb_bytes + y /\ Roomy(to)
    BY <1>1, <1>2, MappingTypes, AddFits DEF FitInv
  <2>3. x \in Nat /\ y \in Nat
    BY DEF IsAvailable
  <2>4. total = total_bytes + from.nb_bytes - mapping[d].nb_bytes
                            + to.nb_bytes - mapping[e].nb_bytes
    OBVIOUS
  <2>5. /\ total_bytes \in Nat /\ mapping[d].nb_bytes \in Nat /\ mapping[e].nb_bytes \in Nat
        /\ from.nb_bytes \in Nat /\ to.nb_bytes \in Nat /\ MaxBytes \in Nat
    BY <1>2, <2>1, MappingTypes DEF MappingOK, Mappings
  <2> HIDE DEF x, y, from, to, total
  <2>6. /\ Block(from).nb_bytes = from.nb_bytes /\ Roomy(Block(from))
        /\ Block(to).nb_bytes = to.nb_bytes /\ Roomy(Block(to))
    BY <2>1, <2>2 DEF MappingOK, Mappings, Roomy
  <2> HIDE DEF Block
  <2> DEFINE k == from.nb_bytes - mapping[d].nb_bytes
             j == to.nb_bytes - mapping[e].nb_bytes
             n == [mapping EXCEPT ![d] = Block(from)]
  <2>7. /\ k \in Nat /\ j \in Nat /\ total = total_bytes + k + j /\ total <= MaxBytes - 2
        /\ from.nb_bytes = mapping[d].nb_bytes + k /\ to.nb_bytes = mapping[e].nb_bytes + j
    BY <1>4, <2>1, <2>2, <2>3, <2>4, <2>5
  <2>8. /\ mapping \in [Depths -> Mappings]
        /\ n[d] = Block(from) /\ \A c \in Depths : c # d => n[c] = mapping[c]
        /\ mapping'[e] = Block(to) /\ \A c \in Depths : c # e => mapping'[c] = n[c]
    BY <1>2, <1>4, MappingTypes
  <2> HIDE DEF n, k, j, d, e
  <2>9. /\ IsFiniteSet(BitsOf(n))
        /\ Cardinality(BitsOf(n)) = Cardinality(BitsOf(mapping)) + k
    <3>1. /\ n[d].nb_bytes = mapping[d].nb_bytes + k
          /\ \A c \in Depths : c # d => n[c].nb_bytes = mapping[c].nb_bytes
          /\ IsFiniteSet(BitsOf(mapping))
      BY <2>6, <2>7, <2>8 DEF FitInv
    <3> QED
      BY <1>2, <2>5, <2>7, <3>1, BitsGrow
  <2>10. /\ IsFiniteSet(BitsOf(mapping'))
         /\ Cardinality(BitsOf(mapping')) = Cardinality(BitsOf(n)) + j
    <3>1. /\ mapping'[e].nb_bytes = n[e].nb_bytes + j /\ n[e].nb_bytes \in Nat
          /\ \A c \in Depths : c # e => mapping'[c].nb_bytes = n[c].nb_bytes
      BY <1>2, <2>5, <2>6, <2>7, <2>8
    <3> QED
      BY <1>2, <2>7, <2>9, <3>1, BitsGrow
  <2>11. Cardinality(BitsOf(mapping')) = total /\ total <= MaxBytes
    BY <1>1, <2>5, <2>7, <2>9, <2>10 DEF FitInv
  <2>12. \A c \in Depths : Roomy(mapping'[c])
    BY <1>1, <1>2, <2>6, <2>8 DEF FitInv
  <2>13. \A c \in Depths \ depths' : mapping'[c].nb_bytes = 0
    BY <1>1, <2>8 DEF FitInv
  <2> QED
    BY <1>1, <1>4, <2>7, <2>10, <2>11, <2>12, <2>13 DEF FitInv
<1> QED
  BY <1>3, <1>4 DEF ConsiderLink

LEMMA SpareFits ==
    ASSUME EInv, FitInv, NEW d \in Depths, SpareBit(d)
    PROVE  FitInv'
<1>1. /\ ~computed /\ computed' = computed /\ d \in depths /\ depths' = depths
      /\ total_bytes < MaxBytes - 2 /\ total_bytes' = total_bytes + 1
      /\ mapping' = [mapping EXCEPT ![d] = AddByte(mapping[d])]
  BY DEF SpareBit, EInv, Phases
<1>2. /\ mapping'[d] = AddByte(mapping[d])
      /\ \A c \in Depths : c # d => mapping'[c] = mapping[c]
      /\ mapping[d].nb_bytes \in Nat /\ total_bytes \in Nat /\ MaxBytes \in Nat
  BY <1>1, MappingTypes
<1>3. /\ mapping'[d].nb_bytes = mapping[d].nb_bytes + 1 /\ Roomy(mapping'[d])
  BY <1>2, MappingTypes, AddByteOK, AddByteRoomy
<1>4. /\ IsFiniteSet(BitsOf(mapping'))
      /\ Cardinality(BitsOf(mapping')) = Cardinality(BitsOf(mapping)) + 1
  <2>1. /\ \A c \in Depths : c # d => mapping'[c].nb_bytes = mapping[c].nb_bytes
        /\ 1 \in Nat /\ IsFiniteSet(BitsOf(mapping))
    BY <1>2 DEF FitInv
  <2> QED
    BY <1>2, <1>3, <2>1, BitsGrow
<1>5. /\ Cardinality(BitsOf(mapping')) = total_bytes'
      /\ total_bytes' <= MaxBytes - 2 /\ total_bytes' <= MaxBytes
  BY <1>1, <1>2, <1>4 DEF FitInv
<1> QED
  BY <1>1, <1>2, <1>3, <1>4, <1>5 DEF FitInv

\* The extra bits of depths 2 and 3 are the two that were kept back.
LEMMA FinishComputeFits ==
    ASSUME EInv, FitInv, FinishCompute
    PROVE  FitInv'
<1>1. /\ ~computed /\ computed' = TRUE /\ depths' = depths
      /\ mapping' = [d \in Depths |-> IF d \in depths \cap {2, 3} THEN AddByte(mapping[d])
                                      ELSE mapping[d]]
  BY DEF FinishCompute, EInv, Phases
<1>2. /\ total_bytes <= MaxBytes - 2 /\ Cardinality(BitsOf(mapping)) = total_bytes
      /\ IsFiniteSet(BitsOf(mapping)) /\ total_bytes \in Nat /\ MaxBytes \in Nat
  BY <1>1, MappingTypes DEF FitInv
<1> DEFINE With(c, n) == [d \in Depths |-> IF d = c /\ d \in depths THEN AddByte(mapping[d]) ELSE n[d]]
           n2 == With(2, mapping)
           n3 == With(3, n2)
<1>3. \A d \in Depths : AddByte(mapping[d]).nb_bytes = mapping[d].nb_bytes + 1
  BY MappingTypes, AddByteOK
<1>4. ASSUME NEW c \in {2, 3}, NEW n, IsFiniteSet(BitsOf(n)),
             \A d \in Depths : d = c => n[d] = mapping[d]
      PROVE  /\ IsFiniteSet(BitsOf(With(c, n)))
             /\ Cardinality(BitsOf(With(c, n))) <= Cardinality(BitsOf(n)) + 1
             /\ Cardinality(BitsOf(With(c, n))) \in Nat /\ Cardinality(BitsOf(n)) \in Nat
  <2>1. Cardinality(BitsOf(n)) \in Nat
    BY <1>4, FS_CardinalityType
  <2>2. CASE c \in depths
    <3>1. c \in Depths /\ n[c].nb_bytes \in Nat
      BY <1>4, <2>2, MappingTypes
    <3>2. /\ With(c, n)[c].nb_bytes = n[c].nb_bytes + 1
          /\ \A d \in Depths : d # c => With(c, n)[d].nb_bytes = n[d].nb_bytes
      BY <1>3, <1>4, <2>2, <3>1
    <3> HIDE DEF With
    <3>3. /\ IsFiniteSet(BitsOf(With(c, n)))
          /\ Cardinality(BitsOf(With(c, n))) = Cardinality(BitsOf(n)) + 1
      <4>1. 1 \in Nat
        OBVIOUS
      <4> QED
        BY <1>4, <3>1, <3>2, <4>1, BitsGrow
    <3> QED
      BY <2>1, <3>3
  <2>3. CASE c \notin depths
    <3>1. \A d \in Depths : With(c, n)[d] = n[d]
      BY <2>3
    <3> HIDE DEF With
    <3>2. BitsOf(With(c, n)) = BitsOf(n)
      BY <3>1 DEF BitsOf
    <3> QED
      BY <1>4, <2>1, <3>2
  <2> QED
    BY <2>2, <2>3
<1>5. /\ IsFiniteSet(BitsOf(n2)) /\ Cardinality(BitsOf(n2)) <= total_bytes + 1
      /\ Cardinality(BitsOf(n2)) \in Nat
  <2> HIDE DEF With
  <2> QED
    BY <1>2, <1>4
<1>6. /\ IsFiniteSet(BitsOf(n3)) /\ Cardinality(BitsOf(n3)) <= total_bytes + 2
      /\ Cardinality(BitsOf(n3)) \in Nat
  <2>1. \A d \in Depths : d = 3 => n2[d] = mapping[d]
    OBVIOUS
  <2> HIDE DEF With, n2
  <2>2. /\ IsFiniteSet(BitsOf(n3)) /\ Cardinality(BitsOf(n3)) <= Cardinality(BitsOf(n2)) + 1
        /\ Cardinality(BitsOf(n3)) \in Nat
    BY <1>4, <1>5, <2>1
  <2> HIDE DEF n3
  <2> QED
    BY <1>2, <1>5, <2>2
<1>7. \A d \in Depths : mapping'[d] = n3[d]
  BY <1>1
<1> HIDE DEF n2, n3, With
<1>8. BitsOf(mapping') = BitsOf(n3)
  BY <1>7 DEF BitsOf
<1>9. Cardinality(BitsOf(mapping')) <= MaxBytes
  BY <1>2, <1>6, <1>8
<1>10. \A d \in Depths \ depths' : mapping'[d].nb_bytes = 0
  BY <1>1 DEF FitInv
<1> QED
  BY <1>1, <1>6, <1>8, <1>9, <1>10 DEF FitInv

\* Other steps leave every depth its bits.
LEMMA OthersFit ==
    ASSUME EInv, FitInv, [Next]_vars, ~(\E l \in Links : ConsiderLink(l)),
           ~(\E d \in Depths : SpareBit(d)), ~FinishCompute
    PROVE  FitInv'
<1>1. depths' = depths /\ computed' = computed /\ total_bytes' = total_bytes
  BY DEF Next, Step, Announce, Withdraw, ReleaseLink, RefreshLink, StartRefresh, AddLink,
         Refreshed, Finish, Remove, vars, encodingVars, loopVars
<1>2. mapping' = mapping \/ computed
  BY DEF Next, Step, Announce, Withdraw, ReleaseLink, RefreshLink, StartRefresh, AddLink,
         IsNext, Updating, Refreshed, Finish, vars, encodingVars, loopVars, EInv, Phases
<1>3. CASE mapping' = mapping
  BY <1>1, <1>3 DEF FitInv
<1>4. CASE computed
  <2>1. \A d \in Depths : mapping'[d].nb_bytes = mapping[d].nb_bytes
    BY <1>4, NextEInv
  <2>2. BitsOf(mapping') = BitsOf(mapping)
    BY <2>1 DEF BitsOf
  <2> QED
    BY <1>1, <1>4, <2>1, <2>2 DEF FitInv
<1> QED
  BY <1>2, <1>3, <1>4

\* The codes of a path fit into the bits of the VMAC: the estimate of
\* Mapping.is_available is never too low, and the two bits compute_encoding keeps back
\* are the ones it gives to depths 2 and 3 at its end.  It needs the two to be there.
THEOREM CodesFit ==
    ASSUME MaxBytes >= 2
    PROVE  Spec => []PathFits
<1>1. Init => FitInv
  BY InitFitInv
<1>2. EInv /\ FitInv /\ [Next]_vars => FitInv'
  BY ConsiderFits, SpareFits, FinishComputeFits, OthersFit
<1>3. EInv /\ FitInv => PathFits
  <2> SUFFICES ASSUME EInv, FitInv PROVE PathFits
    OBVIOUS
  <2>1. \A d \in depths : d \in Depths /\ mapping[d].nb_bytes \in Nat
    BY MappingTypes
  <2>2. PathBits = BitsOf(mapping)
    <3>1. ASSUME NEW d, NEW i
          PROVE  <<d, i>> \in PathBits <=> <<d, i>> \in BitsOf(mapping)
      <4>1. <<d, i>> \in PathBits <=> d \in depths /\ i \in 1..mapping[d].nb_bytes
        BY DEF PathBits
      <4>2. <<d, i>> \in BitsOf(mapping) <=>
                d \in Depths /\ i \in Nat /\ 1 <= i /\ i <= mapping[d].nb_bytes
        BY DEF BitsOf
      <4>3. d \in Depths \ depths => mapping[d].nb_bytes = 0
        BY DEF FitInv
      <4> QED
        BY <2>1, <4>1, <4>2, <4>3
    <3>2. \A b \in PathBits : \E d, i : b = <<d, i>>
      BY DEF PathBits
    <3>3. \A b \in BitsOf(mapping) : \E d, i : b = <<d, i>>
      BY DEF BitsOf
    <3> QED
      BY <3>1, <3>2, <3>3
  <2> QED
    BY <2>2 DEF PathFits, FitInv
<1> QED
  BY <1>1, <1>2, <1>3, InvariantHolds, PTL DEF Spec
=============================================================================
