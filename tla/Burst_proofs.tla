---------------------------- MODULE Burst_proofs ----------------------------
(***************************************************************************)
(* Proofs about Burst for every set of prefixes and paths, every window    *)
(* and all thresholds: the counters that inference uses are exact, a burst *)
(* lasts as long as the window is busy, and one failure that explains a    *)
(* burst is found.  First sequences of withdrawals and what they count,    *)
(* then the window and the steps, then the powers of which scores are      *)
(* made, the links that explain a burst, and inference.                    *)
(***************************************************************************)
EXTENDS Burst, TLAPS, FiniteSetTheorems, SequenceTheorems, WellFoundedInduction

Routes == Paths \cup {<<>>}
Withdrawals == [time : Nat, path : Routes]

(***************************************************************************)
(* Counting links.                                                         *)
(***************************************************************************)
LEMMA DepthsFinite == IsFiniteSet(Depths)
<1> DEFINE D == {1..(Len(path) - 1) : path \in Paths}
<1>1. \A path \in Paths : Len(path) - 1 \in Int
  BY BurstAssumption
<1>2. \A T \in D : IsFiniteSet(T)
  BY <1>1, FS_Interval
<1>3. IsFiniteSet(D)
  <2> DEFINE f == [path \in Paths |-> 1..(Len(path) - 1)]
  <2>1. f \in Surjection(Paths, D)
    BY DEF Surjection
  <2> HIDE DEF f, D
  <2> QED
    BY <2>1, BurstAssumption, FS_Surjection
<1> HIDE DEF D
<1>4. IsFiniteSet(UNION D)
  BY <1>2, <1>3, FS_UNION
<1> QED
  BY <1>4 DEF Depths, D

\* Where paths use a link.
Occurrences(paths, l) ==
    {x \in (DOMAIN paths) \X Depths :
        x[2] < Len(paths[x[1]]) /\ <<paths[x[1]][x[2]], paths[x[1]][x[2] + 1]>> = l}

LEMMA CountIsNatural ==
    ASSUME NEW s \in Seq(Routes), NEW l
    PROVE  /\ IsFiniteSet(Occurrences(s, l)) /\ Count(s, l) = Cardinality(Occurrences(s, l))
           /\ Count(s, l) \in Nat
<1>1. DOMAIN s = 1..Len(s) /\ Len(s) \in Nat
  BY LenProperties
<1>2. IsFiniteSet(DOMAIN s)
  BY <1>1, FS_Interval
<1>3. IsFiniteSet((DOMAIN s) \X Depths)
  BY <1>2, DepthsFinite, FS_Product
<1>4. IsFiniteSet(Occurrences(s, l))
  <2>1. Occurrences(s, l) \subseteq (DOMAIN s) \X Depths
    BY DEF Occurrences
  <2> QED
    BY <1>3, <2>1, FS_Subset
<1>5. Count(s, l) = Cardinality(Occurrences(s, l))
  BY DEF Count, Occurrences
<1> QED
  BY <1>4, <1>5, FS_CardinalityType

LEMMA CountConcat ==
    ASSUME NEW s \in Seq(Routes), NEW t \in Seq(Routes), NEW l
    PROVE  Count(s \o t, l) = Count(s, l) + Count(t, l)
<1> DEFINE n == Len(s)
           S == Occurrences(s, l)
           T == Occurrences(t, l)
           Moved == {x \in (n + 1..n + Len(t)) \X Depths : <<x[1] - n, x[2]>> \in T}
           f == [x \in T |-> <<x[1] + n, x[2]>>]
<1>1. /\ DOMAIN s = 1..n /\ n \in Nat /\ DOMAIN t = 1..Len(t) /\ Len(t) \in Nat
      /\ s \o t \in Seq(Routes) /\ DOMAIN (s \o t) = 1..(n + Len(t))
      /\ \A i \in 1..n : (s \o t)[i] = s[i]
      /\ \A i \in n + 1..n + Len(t) : (s \o t)[i] = t[i - n]
  <2>1. /\ s \o t \in Seq(Routes) /\ Len(s \o t) = n + Len(t)
        /\ \A i \in 1..n + Len(t) : (s \o t)[i] = IF i <= n THEN s[i] ELSE t[i - n]
    BY ConcatProperties
  <2>2. n \in Nat /\ Len(t) \in Nat
    BY LenProperties
  <2>3. DOMAIN s = 1..n /\ DOMAIN t = 1..Len(t) /\ DOMAIN (s \o t) = 1..Len(s \o t)
    BY <2>1, LenProperties
  <2> QED
    BY <2>1, <2>2, <2>3
<1>2. /\ IsFiniteSet(S) /\ Count(s, l) = Cardinality(S) /\ Count(s, l) \in Nat
      /\ IsFiniteSet(T) /\ Count(t, l) = Cardinality(T) /\ Count(t, l) \in Nat
      /\ Count(s \o t, l) = Cardinality(Occurrences(s \o t, l))
  BY <1>1, CountIsNatural
<1>3. Occurrences(s \o t, l) = S \cup Moved
  <2>1. ASSUME NEW i, NEW d
        PROVE  <<i, d>> \in Occurrences(s \o t, l) <=> <<i, d>> \in S \cup Moved
    <3>1. <<i, d>> \in Occurrences(s \o t, l) <=>
              /\ i \in 1..(n + Len(t)) /\ d \in Depths
              /\ d < Len((s \o t)[i]) /\ <<(s \o t)[i][d], (s \o t)[i][d + 1]>> = l
      BY <1>1 DEF Occurrences
    <3>2. <<i, d>> \in S <=> /\ i \in 1..n /\ d \in Depths
                             /\ d < Len(s[i]) /\ <<s[i][d], s[i][d + 1]>> = l
      BY <1>1 DEF Occurrences
    <3>3. <<i, d>> \in Moved <=>
              /\ i \in n + 1..n + Len(t) /\ d \in Depths
              /\ d < Len(t[i - n]) /\ <<t[i - n][d], t[i - n][d + 1]>> = l
      <4>1. <<i, d>> \in Moved <=> /\ i \in n + 1..n + Len(t) /\ d \in Depths
                                   /\ <<i - n, d>> \in T
        OBVIOUS
      <4>2. i \in n + 1..n + Len(t) => i - n \in 1..Len(t)
        BY <1>1
      <4>3. i \in n + 1..n + Len(t) =>
               (<<i - n, d>> \in T <=> /\ d \in Depths /\ d < Len(t[i - n])
                                       /\ <<t[i - n][d], t[i - n][d + 1]>> = l)
        BY <1>1, <4>2 DEF Occurrences
      <4> QED
        BY <4>1, <4>3
    <3> HIDE DEF S, T, Moved
    <3>4. CASE i \in 1..n
      <4>1. i \in 1..(n + Len(t)) /\ i \notin n + 1..n + Len(t) /\ (s \o t)[i] = s[i]
        BY <1>1, <3>4
      <4> QED
        BY <3>1, <3>2, <3>3, <3>4, <4>1
    <3>5. CASE i \in n + 1..n + Len(t)
      <4>1. i \in 1..(n + Len(t)) /\ i \notin 1..n /\ (s \o t)[i] = t[i - n]
        BY <1>1, <3>5
      <4> QED
        BY <3>1, <3>2, <3>3, <3>5, <4>1
    <3>6. i \in 1..(n + Len(t)) <=> i \in 1..n \/ i \in n + 1..n + Len(t)
      BY <1>1
    <3> QED
      BY <3>1, <3>2, <3>3, <3>4, <3>5, <3>6
  <2>2. \A x \in Occurrences(s \o t, l) \cup S \cup Moved : \E i, d : x = <<i, d>>
    BY DEF Occurrences
  <2> HIDE DEF S, Moved
  <2> QED
    BY <2>1, <2>2
<1>4. S \cap Moved = {}
  <2>1. \A x \in S : x[1] \in 1..n
    BY <1>1 DEF Occurrences
  <2>2. \A x \in Moved : x[1] \in n + 1..n + Len(t)
    OBVIOUS
  <2>3. (1..n) \cap (n + 1..n + Len(t)) = {}
    BY <1>1
  <2> QED
    BY <2>1, <2>2, <2>3
<1>5. IsFiniteSet(Moved) /\ Cardinality(Moved) = Cardinality(T)
  <2>1. \A x \in T : x \in (1..Len(t)) \X Depths
    BY <1>1 DEF Occurrences
  <2>2. f \in Bijection(T, Moved)
    <3>1. \A x \in T : f[x] = <<x[1] + n, x[2]>> /\ x[1] \in 1..Len(t) /\ x[2] \in Depths /\ x = <<x[1], x[2]>>
      BY <2>1
    <3> HIDE DEF T
    <3>2. /\ \A k \in 1..Len(t) : k + n \in n + 1..n + Len(t) /\ k + n - n = k
          /\ \A j, k \in 1..Len(t) : j + n = k + n => j = k
      BY <1>1
    <3>3. \A x \in T : f[x] \in Moved
      <4> SUFFICES ASSUME NEW x \in T PROVE f[x] \in Moved
        OBVIOUS
      <4> DEFINE k == x[1]
                 d == x[2]
      <4>1. f[x] = <<k + n, d>> /\ k \in 1..Len(t) /\ d \in Depths /\ <<k, d>> \in T
        BY <3>1
      <4>2. k + n \in n + 1..n + Len(t) /\ k + n - n = k
        BY <3>2, <4>1
      <4> HIDE DEF k, d, f
      <4>3. <<k + n, d>> \in Moved
        BY <4>1, <4>2
      <4> QED
        BY <4>1, <4>3
    <3>4. \A x, y \in T : f[x] = f[y] => x = y
      <4> SUFFICES ASSUME NEW x \in T, NEW y \in T, f[x] = f[y] PROVE x = y
        OBVIOUS
      <4>1. x[1] + n = y[1] + n /\ x[2] = y[2]
        BY <3>1
      <4>2. x[1] = y[1]
        BY <3>1, <3>2, <4>1
      <4> QED
        BY <3>1, <4>1, <4>2
    <3>5. \A y \in Moved : \E x \in T : f[x] = y
      <4> SUFFICES ASSUME NEW y \in Moved PROVE \E x \in T : f[x] = y
        OBVIOUS
      <4>1. <<y[1] - n, y[2]>> \in T /\ y[1] \in n + 1..n + Len(t) /\ y = <<y[1], y[2]>>
        OBVIOUS
      <4>2. y[1] - n + n = y[1]
        BY <1>1, <4>1
      <4>3. f[<<y[1] - n, y[2]>>] = y
        BY <4>1, <4>2
      <4> QED
        BY <4>1, <4>3
    <3> HIDE DEF f, Moved
    <3>6. DOMAIN f = T
      BY DEF f
    <3>7. f \in [T -> Moved]
      BY <3>3 DEF f
    <3> QED
      BY <3>4, <3>5, <3>7 DEF Bijection, Injection, Surjection, IsInjective
  <2> HIDE DEF T, Moved, f
  <2> QED
    BY <1>2, <2>2, FS_Bijection DEF ExistsBijection
<1> HIDE DEF S, T, Moved
<1>6. Cardinality(S \cup Moved) = Cardinality(S) + Cardinality(Moved) - Cardinality(S \cap Moved)
  BY <1>2, <1>5, FS_Union
<1>7. Cardinality(S \cap Moved) = 0
  BY <1>4, FS_EmptySet
<1> QED
  BY <1>2, <1>3, <1>5, <1>6, <1>7

LEMMA CountOfNothing ==
    ASSUME NEW l
    PROVE  Count(<<>>, l) = 0 /\ Count(<<<<>>>>, l) = 0
<1>1. Occurrences(<<>>, l) = {}
  BY DEF Occurrences
<1>2. Occurrences(<<<<>>>>, l) = {}
  <2>1. \A d \in Depths : d \in Nat
    BY BurstAssumption DEF Depths
  <2>2. DOMAIN <<<<>>>> = {1} /\ <<<<>>>>[1] = <<>> /\ Len(<<>>) = 0
    OBVIOUS
  <2>3. \A d \in Depths : ~(d < 0)
    BY <2>1
  <2> QED
    BY <2>2, <2>3 DEF Occurrences
<1> QED
  BY <1>1, <1>2, FS_EmptySet DEF Count, Occurrences

(***************************************************************************)
(* The window.                                                             *)
(***************************************************************************)
\* A set of naturals that is not empty has a least one.
LEMMA LeastNatural ==
    ASSUME NEW S, S \subseteq Nat, S # {}
    PROVE  \E x \in S : \A y \in S : x <= y
<1>1. IsWellFoundedOn(OpToRel(<, Nat), Nat)
  BY NatLessThanWellFounded
<1>2. PICK x \in S : \A y \in S : <<y, x>> \notin OpToRel(<, Nat)
  BY <1>1, WFMin
<1>3. \A y \in S : ~(y < x)
  BY <1>2 DEF OpToRel
<1> QED
  BY <1>3

LEMMA WithdrawalsAre ==
    ASSUME NEW q \in Seq(Withdrawals)
    PROVE  /\ DOMAIN q = 1..Len(q) /\ Len(q) \in Nat
           /\ \A i \in 1..Len(q) : /\ q[i] \in Withdrawals /\ q[i].time \in Nat
                                   /\ q[i].path \in Routes
<1>1. DOMAIN q = 1..Len(q) /\ Len(q) \in Nat /\ \A i \in 1..Len(q) : q[i] \in Withdrawals
  BY LenProperties, ElementOfSeq
<1>2. \A w \in Withdrawals : w.time \in Nat /\ w.path \in Routes
  BY DEF Withdrawals
<1> QED
  BY <1>1, <1>2

\* refresh pops what is too old, up to the first withdrawal that is not.
LEMMA PoppedAreOld ==
    ASSUME NEW q \in Seq(Withdrawals), NEW s \in Int
    PROVE  /\ Popped(q, s) \in 0..Len(q)
           /\ \A i \in 1..Popped(q, s) : s - q[i].time > WinSize
           /\ Popped(q, s) < Len(q) => s - q[Popped(q, s) + 1].time <= WinSize
<1> DEFINE Old == {i \in DOMAIN q : \A j \in 1..i : s - q[j].time > WinSize}
           Young == {i \in DOMAIN q : s - q[i].time <= WinSize}
<1>1. /\ DOMAIN q = 1..Len(q) /\ Len(q) \in Nat /\ WinSize \in Nat
      /\ \A i \in 1..Len(q) : q[i].time \in Nat
  BY BurstAssumption, WithdrawalsAre
<1>2. \A i \in 1..Len(q) : s - q[i].time > WinSize <=> ~(s - q[i].time <= WinSize)
  BY <1>1
<1>3. ASSUME NEW n \in 0..Len(q), Old = 1..n, n < Len(q) => s - q[n + 1].time <= WinSize
      PROVE  /\ Popped(q, s) \in 0..Len(q)
             /\ \A i \in 1..Popped(q, s) : s - q[i].time > WinSize
             /\ Popped(q, s) < Len(q) => s - q[Popped(q, s) + 1].time <= WinSize
  <2>1. Cardinality(1..n) = n
    BY <1>1, <1>3, FS_Interval
  <2>2. Popped(q, s) = n
    BY <1>3, <2>1 DEF Popped
  <2>3. \A i \in 1..n : i \in Old /\ i \in 1..i
    BY <1>1, <1>3
  <2>4. \A i \in 1..n : s - q[i].time > WinSize
    BY <2>3
  <2> HIDE DEF Old
  <2> QED
    BY <1>3, <2>2, <2>4
<1>4. CASE Young = {}
  <2>1. \A i \in 1..Len(q) : s - q[i].time > WinSize
    BY <1>1, <1>2, <1>4
  <2>2. Old = 1..Len(q)
    BY <1>1, <2>1
  <2> HIDE DEF Old
  <2>3. Len(q) \in 0..Len(q) /\ ~(Len(q) < Len(q))
    BY <1>1
  <2> QED
    BY <1>3, <2>2, <2>3
<1>5. CASE Young # {}
  <2>1. Young \subseteq Nat
    BY <1>1
  <2>2. PICK k \in Young : \A y \in Young : k <= y
    BY <1>5, <2>1, LeastNatural
  <2>3. k \in 1..Len(q) /\ s - q[k].time <= WinSize
    BY <1>1, <2>2
  <2>4. \A i \in 1..(k - 1) : s - q[i].time > WinSize
    <3>1. \A i \in 1..(k - 1) : i \in 1..Len(q) /\ ~(k <= i)
      BY <1>1, <2>3
    <3> QED
      BY <1>1, <1>2, <2>2, <3>1
  <2>5. Old = 1..(k - 1)
    <3>1. ASSUME NEW i \in Old PROVE i \in 1..(k - 1)
      <4>1. i \in 1..Len(q) /\ ~(k \in 1..i)
        BY <1>1, <1>2, <2>3
      <4> QED
        BY <1>1, <2>3, <4>1
    <3>2. ASSUME NEW i \in 1..(k - 1) PROVE i \in Old
      <4>1. i \in DOMAIN q /\ \A j \in 1..i : j \in 1..(k - 1)
        BY <1>1, <2>3
      <4> QED
        BY <2>4, <4>1
    <3> QED
      BY <3>1, <3>2
  <2> HIDE DEF Old
  <2>6. k - 1 \in 0..Len(q) /\ k - 1 + 1 = k
    BY <1>1, <2>3
  <2> QED
    BY <1>3, <2>3, <2>5, <2>6
<1> QED
  BY <1>4, <1>5

LEMMA PathsOfIsSeq ==
    ASSUME NEW q \in Seq(Withdrawals)
    PROVE  PathsOf(q) \in Seq(Routes) /\ Len(PathsOf(q)) = Len(q)
<1>1. DOMAIN q = 1..Len(q) /\ Len(q) \in Nat /\ \A i \in 1..Len(q) : q[i].path \in Routes
  BY WithdrawalsAre
<1> QED
  BY <1>1 DEF PathsOf

LEMMA PathsOfConcat ==
    ASSUME NEW q \in Seq(Withdrawals), NEW r \in Seq(Withdrawals)
    PROVE  PathsOf(q \o r) = PathsOf(q) \o PathsOf(r)
<1> DEFINE n == Len(q)
           m == Len(r)
           a == PathsOf(q \o r)
           b == PathsOf(q) \o PathsOf(r)
<1>1. /\ q \o r \in Seq(Withdrawals) /\ Len(q \o r) = n + m
      /\ \A i \in 1..n + m : (q \o r)[i] = IF i <= n THEN q[i] ELSE r[i - n]
      /\ n \in Nat /\ m \in Nat
  BY ConcatProperties, LenProperties
<1>2. /\ PathsOf(q) \in Seq(Routes) /\ Len(PathsOf(q)) = n
      /\ PathsOf(r) \in Seq(Routes) /\ Len(PathsOf(r)) = m
      /\ a \in Seq(Routes) /\ Len(a) = n + m
  BY <1>1, PathsOfIsSeq
<1>3. /\ b \in Seq(Routes) /\ Len(b) = n + m
      /\ \A i \in 1..n + m : b[i] = IF i <= n THEN PathsOf(q)[i] ELSE PathsOf(r)[i - n]
  BY <1>2, ConcatProperties
<1>4. \A i \in 1..n + m : a[i] = b[i]
  <2>1. /\ \A i \in 1..n : PathsOf(q)[i] = q[i].path
        /\ \A i \in 1..m : PathsOf(r)[i] = r[i].path
        /\ \A i \in 1..n + m : a[i] = (q \o r)[i].path
    <3>1. DOMAIN q = 1..n /\ DOMAIN r = 1..m /\ DOMAIN (q \o r) = 1..(n + m)
      BY <1>1, LenProperties
    <3> QED
      BY <3>1 DEF PathsOf
  <2> HIDE DEF a, b
  <2>2. \A i \in 1..n + m : i <= n => i \in 1..n
    BY <1>1
  <2>3. \A i \in 1..n + m : ~(i <= n) => i - n \in 1..m
    BY <1>1
  <2> QED
    BY <1>1, <1>3, <2>1, <2>2, <2>3
<1> HIDE DEF a, b
<1>5. a = b
  BY <1>2, <1>3, <1>4, SeqEqual
<1> QED
  BY <1>5 DEF a, b

\* The window after a refresh, and what it popped.
LEMMA WindowParts ==
    ASSUME NEW q \in Seq(Withdrawals), NEW s \in Int
    PROVE  /\ Expired(q, s) \in Seq(Withdrawals) /\ Within(q, s) \in Seq(Withdrawals)
           /\ Len(Within(q, s)) = Len(q) - Popped(q, s)
           /\ \A i \in 1..Len(Within(q, s)) : Within(q, s)[i] = q[Popped(q, s) + i]
           /\ \A l : Count(PathsOf(q), l)
                     = Count(PathsOf(Expired(q, s)), l) + Count(PathsOf(Within(q, s)), l)
<1> DEFINE n == Popped(q, s)
<1>1. n \in 0..Len(q) /\ Len(q) \in Nat /\ \A i \in 1..Len(q) : q[i] \in Withdrawals
  BY PoppedAreOld, LenProperties
<1> HIDE DEF n
<1>2. n \in Nat /\ n + 1 \in Int /\ 1 \in 1..Len(q) + 1 /\ n \in 1 - 1..Len(q) /\ Len(q) \in n..Len(q)
  BY <1>1
<1>3. SubSeq(q, 1, n) \in Seq(Withdrawals)
  <2>1. \A i \in 1..n : q[i] \in Withdrawals
    BY <1>1
  <2> QED
    BY <1>2, <2>1, SubSeqProperties
<1>4. /\ SubSeq(q, n + 1, Len(q)) \in Seq(Withdrawals)
      /\ Len(SubSeq(q, n + 1, Len(q))) = Len(q) - n
      /\ \A i \in 1..(Len(q) - n) : SubSeq(q, n + 1, Len(q))[i] = q[n + i]
  <2>1. \A i \in (n + 1)..Len(q) : q[i] \in Withdrawals
    BY <1>1
  <2>2. /\ SubSeq(q, n + 1, Len(q)) \in Seq(Withdrawals)
        /\ Len(SubSeq(q, n + 1, Len(q))) = IF n + 1 <= Len(q) THEN Len(q) - (n + 1) + 1 ELSE 0
        /\ \A i \in 1..(Len(q) - (n + 1) + 1) : SubSeq(q, n + 1, Len(q))[i] = q[(n + 1) + i - 1]
    BY <1>1, <1>2, <2>1, SubSeqProperties
  <2>3. Len(q) - (n + 1) + 1 = Len(q) - n /\ (n + 1 <= Len(q) \/ Len(q) - n = 0)
    BY <1>1
  <2>4. \A i \in 1..(Len(q) - n) : (n + 1) + i - 1 = n + i
    BY <1>1
  <2> QED
    BY <2>2, <2>3, <2>4
<1>5. q = Expired(q, s) \o Within(q, s)
  <2>1. SubSeq(q, 1, n) \o SubSeq(q, n + 1, Len(q)) = SubSeq(q, 1, Len(q))
    BY <1>2, ConcatAdjacentSubSeq
  <2> QED
    BY <2>1, SubSeqFull DEF n, Expired, Within
<1>6. Expired(q, s) \in Seq(Withdrawals) /\ Within(q, s) \in Seq(Withdrawals)
  BY <1>3, <1>4 DEF n, Expired, Within
<1>7. PathsOf(q) = PathsOf(Expired(q, s)) \o PathsOf(Within(q, s))
  BY <1>5, <1>6, PathsOfConcat
<1>8. \A l : Count(PathsOf(q), l)
             = Count(PathsOf(Expired(q, s)), l) + Count(PathsOf(Within(q, s)), l)
  BY <1>6, <1>7, PathsOfIsSeq, CountConcat
<1> QED
  BY <1>4, <1>6, <1>8 DEF n, Within

LEMMA WindowLengths ==
    ASSUME NEW q \in Seq(Withdrawals), NEW s \in Int
    PROVE  Len(Within(q, s)) + Len(Expired(q, s)) = Len(q)
<1> DEFINE n == Popped(q, s)
<1>1. n \in 0..Len(q) /\ Len(q) \in Nat /\ \A i \in 1..Len(q) : q[i] \in Withdrawals
  BY PoppedAreOld, LenProperties
<1>2. Len(Within(q, s)) = Len(q) - n
  BY WindowParts
<1> HIDE DEF n
<1>3. Len(SubSeq(q, 1, n)) = n
  <2>1. n \in Nat /\ 1 \in Int /\ \A i \in 1..n : q[i] \in Withdrawals
    BY <1>1
  <2>2. Len(SubSeq(q, 1, n)) = IF 1 <= n THEN n - 1 + 1 ELSE 0
    BY <1>1, <2>1, SubSeqProperties
  <2> QED
    BY <2>1, <2>2
<1> QED
  BY <1>1, <1>2, <1>3 DEF n, Expired

\* What is popped by a time is popped by any later one.
LEMMA WindowShrinks ==
    ASSUME NEW q \in Seq(Withdrawals), NEW s \in Int, NEW t \in Int, s <= t
    PROVE  Len(Within(q, t)) <= Len(Within(q, s))
<1>1. /\ Popped(q, s) \in 0..Len(q) /\ Popped(q, t) \in 0..Len(q) /\ Len(q) \in Nat
      /\ WinSize \in Nat /\ \A i \in 1..Len(q) : q[i].time \in Nat
      /\ \A i \in 1..Popped(q, s) : s - q[i].time > WinSize
      /\ Popped(q, t) < Len(q) => t - q[Popped(q, t) + 1].time <= WinSize
  BY PoppedAreOld, WithdrawalsAre, BurstAssumption
<1>2. Popped(q, s) <= Popped(q, t)
  <2> SUFFICES ASSUME Popped(q, t) < Popped(q, s) PROVE FALSE
    BY <1>1
  <2> DEFINE i == Popped(q, t) + 1
  <2>1. i \in 1..Popped(q, s) /\ i \in 1..Len(q) /\ Popped(q, t) < Len(q)
    BY <1>1
  <2>2. s - q[i].time > WinSize /\ t - q[i].time <= WinSize /\ q[i].time \in Nat
    BY <1>1, <2>1
  <2> HIDE DEF i
  <2> QED
    BY <1>1, <2>2
<1>3. /\ Len(Within(q, s)) = Len(q) - Popped(q, s)
      /\ Len(Within(q, t)) = Len(q) - Popped(q, t)
  BY WindowParts
<1> QED
  BY <1>1, <1>2, <1>3

(***************************************************************************)
(* The steps.                                                              *)
(***************************************************************************)
Bursts == [on : {TRUE}, deleted : Seq(Routes), real : SUBSET Prefixes, next : Nat]

Deleted(b) == IF b.on THEN b.deleted ELSE <<>>

\* Withdrawals come into the window in the order of time.
InOrder(q, now) ==
    /\ \A i, j \in 1..Len(q) : i < j => q[i].time <= q[j].time
    /\ \A i \in 1..Len(q) : q[i].time <= now

TypeOK ==
    /\ rib \in [Prefixes -> Routes]
    /\ last_ts \in Nat
    /\ W_queue \in Seq(Withdrawals)
    /\ G_W \in [Links -> Int]
    /\ burst \in {NoBurst} \cup Bursts

\* What counts in a burst never gets less: what leaves the window is kept.
BurstIsBig == burst.on => Len(Counted) >= BurstStart

BInv ==
    /\ TypeOK
    /\ InOrder(W_queue, last_ts)
    /\ WithdrawnAreCounted
    /\ BurstIsBusy
    /\ BurstIsBig

LEMMA BurstsAre ==
    ASSUME NEW b \in {NoBurst} \cup Bursts
    PROVE  /\ b.on \in BOOLEAN /\ (~b.on => b = NoBurst) /\ (b.on => b \in Bursts)
           /\ Deleted(b) \in Seq(Routes)
<1>1. <<>> \in Seq(Routes)
  BY EmptySeq
<1>2. CASE b = NoBurst
  BY <1>1, <1>2 DEF NoBurst, Deleted
<1>3. CASE b \in Bursts
  BY <1>3 DEF Bursts, Deleted
<1> QED
  BY <1>2, <1>3

\* A refreshed window holds what still counts and nothing else.
LEMMA WindowIsFresh ==
    ASSUME NEW q \in Seq(Withdrawals), NEW t \in Nat, InOrder(q, t)
    PROVE  /\ InOrder(Within(q, t), t)
           /\ \A i \in 1..Len(Within(q, t)) : t - Within(q, t)[i].time <= WinSize
<1> DEFINE n == Popped(q, t)
           w == Within(q, t)
<1>1. /\ n \in 0..Len(q) /\ Len(q) \in Nat /\ WinSize \in Nat
      /\ n < Len(q) => t - q[n + 1].time <= WinSize
      /\ \A i \in 1..Len(q) : q[i].time \in Nat
  <2>1. t \in Int
    OBVIOUS
  <2> QED
    BY <2>1, PoppedAreOld, WithdrawalsAre, BurstAssumption
<1>2. Len(w) = Len(q) - n /\ \A i \in 1..Len(w) : w[i] = q[n + i]
  <2>1. t \in Int
    OBVIOUS
  <2> QED
    BY <2>1, WindowParts
<1> HIDE DEF n, w
<1>3. \A i \in 1..Len(w) : n + i \in 1..Len(q) /\ (n + 1 < n + i \/ i = 1) /\ n < Len(q)
  BY <1>1, <1>2
<1>4. InOrder(w, t)
  <2>1. \A i, j \in 1..Len(w) : i < j => n + i < n + j
    BY <1>1, <1>2
  <2> QED
    BY <1>2, <1>3, <2>1 DEF InOrder
<1>5. \A i \in 1..Len(w) : t - w[i].time <= WinSize
  <2> SUFFICES ASSUME NEW i \in 1..Len(w) PROVE t - w[i].time <= WinSize
    OBVIOUS
  <2>1. /\ n + i \in 1..Len(q) /\ n + 1 \in 1..Len(q) /\ n < Len(q)
        /\ n + 1 < n + i \/ i = 1
    BY <1>1, <1>2, <1>3
  <2>2. q[n + 1].time <= q[n + i].time
    BY <1>1, <2>1 DEF InOrder
  <2>3. t - q[n + 1].time <= WinSize /\ q[n + 1].time \in Nat /\ q[n + i].time \in Nat
    BY <1>1, <2>1
  <2> QED
    BY <1>1, <1>2, <2>2, <2>3
<1> QED
  BY <1>4, <1>5 DEF w

\* Nothing is popped at a time at which all of the window counts.
LEMMA NothingPopped ==
    ASSUME NEW q \in Seq(Withdrawals), NEW t \in Nat,
           \A i \in 1..Len(q) : t - q[i].time <= WinSize
    PROVE  Len(Within(q, t)) = Len(q)
<1>1. /\ Popped(q, t) \in 0..Len(q) /\ Len(q) \in Nat
      /\ \A i \in 1..Popped(q, t) : t - q[i].time > WinSize
      /\ Len(Within(q, t)) = Len(q) - Popped(q, t)
      /\ \A i \in 1..Len(q) : q[i].time \in Nat
  <2>1. t \in Int
    OBVIOUS
  <2>2. /\ Popped(q, t) \in 0..Len(q)
        /\ \A i \in 1..Popped(q, t) : t - q[i].time > WinSize
    BY <2>1, PoppedAreOld
  <2>3. Len(Within(q, t)) = Len(q) - Popped(q, t)
    BY <2>1, WindowParts
  <2> QED
    BY <2>2, <2>3, WithdrawalsAre
<1>2. Popped(q, t) = 0
  <2> SUFFICES ASSUME Popped(q, t) # 0 PROVE FALSE
    OBVIOUS
  <2>1. 1 \in 1..Popped(q, t) /\ 1 \in 1..Len(q)
    BY <1>1
  <2> QED
    BY <1>1, <2>1, BurstAssumption
<1> QED
  BY <1>1, <1>2

LEMMA HandleStep ==
    ASSUME BInv, NEW t \in last_ts..MaxTime, NEW withdrawn \in SUBSET Prefixes,
           NEW weights \in [Links -> Int], NEW q \in Seq(Withdrawals),
           rib' \in [Prefixes -> Routes], InOrder(q, t), Len(q) >= Len(W_queue),
           t = last_ts => \A i \in 1..Len(q) : t - q[i].time <= WinSize,
           \A l \in Links : weights[l] = Count(PathsOf(q) \o Deleted(burst), l),
           Handle(t, q, weights, withdrawn)
    PROVE  BInv'
<1> DEFINE gone == PathsOf(Expired(q, t))
           kept == Within(q, t)
           b == Continued(q, t, withdrawn)
<1>1. /\ t \in Nat /\ last_ts \in Nat /\ last_ts <= t /\ W_queue \in Seq(Withdrawals)
      /\ Len(W_queue) \in Nat /\ Len(q) \in Nat
      /\ burst \in {NoBurst} \cup Bursts
      /\ burst.on => Len(W_queue) >= BurstEnd
      /\ BurstEnd \in Nat /\ BurstStart \in Nat /\ BurstEnd <= BurstStart
  BY BurstAssumption, WithdrawalsAre DEF BInv, TypeOK, BurstIsBusy
<1>2. /\ kept \in Seq(Withdrawals) /\ gone \in Seq(Routes) /\ PathsOf(kept) \in Seq(Routes)
      /\ PathsOf(q) \in Seq(Routes) /\ Len(kept) \in Nat
      /\ \A l : Count(PathsOf(q), l) = Count(gone, l) + Count(PathsOf(kept), l)
      /\ InOrder(kept, t)
      /\ \A i \in 1..Len(kept) : t - kept[i].time <= WinSize
  BY <1>1, WindowParts, PathsOfIsSeq, WindowIsFresh, WithdrawalsAre
<1>3. /\ burst.on \in BOOLEAN /\ (~burst.on => burst = NoBurst) /\ (burst.on => burst \in Bursts)
      /\ Deleted(burst) \in Seq(Routes)
  BY <1>1, BurstsAre
<1>4. burst.on /\ ~Quiet(q, t) => Len(kept) >= BurstEnd
  <2> SUFFICES ASSUME burst.on, ~Quiet(q, t) PROVE Len(kept) >= BurstEnd
    OBVIOUS
  <2>1. CASE t = last_ts
    <3>1. Len(kept) = Len(q)
      BY <1>1, <2>1, NothingPopped
    <3> QED
      BY <1>1, <3>1
  <2>2. CASE t # last_ts
    <3>1. t \in (last_ts + 1)..t
      BY <1>1, <2>2
    <3>2. ~(Len(kept) < BurstEnd)
      BY <3>1 DEF Quiet
    <3> QED
      BY <1>1, <1>2, <3>2
  <2> QED
    BY <2>1, <2>2
<1>5. /\ last_ts' = t /\ W_queue' = kept /\ G_W' = Minus(weights, Forgotten(q, t))
      /\ burst' = IF Due(b) THEN Rescheduled(b) ELSE b
  BY DEF Handle
<1>6. \/ /\ burst.on /\ ~Quiet(q, t) /\ b \in Bursts /\ b.on
         /\ b.deleted = burst.deleted \o gone
         /\ Forgotten(q, t) = <<>>
      \/ /\ ~(burst.on /\ ~Quiet(q, t))
         /\ b \in {NoBurst} \cup Bursts /\ Deleted(b) = <<>>
         /\ b.on <=> Len(kept) >= BurstStart
         /\ Forgotten(q, t) = Deleted(burst) \o gone
  <2>1. CASE burst.on /\ ~Quiet(q, t)
    <3>1. b = [burst EXCEPT !.deleted = @ \o gone, !.real = @ \cup withdrawn]
      BY <2>1 DEF Continued
    <3>2. burst.deleted \in Seq(Routes) /\ burst \in Bursts /\ burst.real \in SUBSET Prefixes
      BY <1>3, <2>1 DEF Bursts
    <3>3. burst.deleted \o gone \in Seq(Routes)
      BY <1>2, <3>2, ConcatProperties
    <3>4. Forgotten(q, t) = <<>>
      BY <2>1 DEF Forgotten
    <3> HIDE DEF gone, b
    <3>5. b = [on |-> TRUE, deleted |-> burst.deleted \o gone,
               real |-> burst.real \cup withdrawn, next |-> burst.next] /\ burst.next \in Nat
      BY <3>1, <3>2 DEF Bursts
    <3>6. b \in Bursts /\ b.on /\ b.deleted = burst.deleted \o gone
      BY <3>2, <3>3, <3>5 DEF Bursts
    <3> QED
      BY <2>1, <3>4, <3>6
  <2>2. CASE ~(burst.on /\ ~Quiet(q, t))
    <3>1. b = IF Len(kept) >= BurstStart
              THEN [on |-> TRUE, deleted |-> <<>>, real |-> {}, next |-> MinBurst] ELSE NoBurst
      BY <2>2 DEF Continued
    <3>2. Forgotten(q, t) = Deleted(burst) \o gone
      <4>1. CASE ~burst.on
        BY <1>2, <4>1, ConcatEmptySeq DEF Forgotten, Deleted
      <4>2. CASE burst.on
        BY <2>2, <4>2 DEF Forgotten, Deleted
      <4> QED
        BY <4>1, <4>2
    <3> HIDE DEF kept, b
    <3>3. <<>> \in Seq(Routes) /\ MinBurst \in Nat
      BY EmptySeq, BurstAssumption
    <3>4. CASE Len(kept) >= BurstStart
      BY <2>2, <3>1, <3>2, <3>3, <3>4 DEF Bursts, Deleted
    <3>5. CASE ~(Len(kept) >= BurstStart)
      BY <2>2, <3>1, <3>2, <3>5 DEF NoBurst, Deleted
    <3> QED
      BY <3>4, <3>5
  <2> QED
    BY <2>1, <2>2
<1>7. /\ burst' \in {NoBurst} \cup Bursts /\ (burst'.on <=> b.on)
      /\ Deleted(burst') = Deleted(b)
  <2>1. b \in {NoBurst} \cup Bursts
    BY <1>6
  <2> HIDE DEF b
  <2>2. CASE ~Due(b)
    BY <1>5, <2>1, <2>2
  <2>3. CASE Due(b)
    <3>1. b \in Bursts /\ b.on
      BY <2>1, <2>3, BurstsAre DEF Due
    <3>2. PICK x \in Nat : burst' = [b EXCEPT !.next = x]
      <4>1. b.next \in Nat /\ Cycle \in Nat
        BY <3>1, BurstAssumption DEF Bursts
      <4>2. b.next + Cycle \in Nat /\ NeverAgain \in Nat
        BY <4>1 DEF NeverAgain
      <4>3. \/ burst' = [b EXCEPT !.next = b.next + Cycle]
            \/ burst' = [b EXCEPT !.next = NeverAgain]
        BY <1>5, <2>3 DEF Rescheduled
      <4> QED
        BY <4>2, <4>3
    <3> QED
      BY <3>1, <3>2 DEF Bursts, Deleted
  <2> QED
    BY <2>2, <2>3
<1> HIDE DEF b
<1>8. BurstIsBig'
  <2>1. Counted' = PathsOf(kept) \o Deleted(b)
    BY <1>5, <1>7 DEF Counted, Deleted
  <2>2. Len(PathsOf(kept)) = Len(kept) /\ Len(gone) = Len(Expired(q, t))
    BY <1>1, WindowParts, PathsOfIsSeq
  <2>3. Len(kept) + Len(gone) = Len(q)
    BY <1>1, <2>2, WindowLengths
  <2>4. Deleted(b) \in Seq(Routes)
    BY <1>6, BurstsAre
  <2> HIDE DEF gone, kept
  <2>5. Len(Counted') = Len(kept) + Len(Deleted(b)) /\ Len(Deleted(b)) \in Nat
    <3>1. PathsOf(kept) \in Seq(Routes)
      BY <1>2
    <3>2. Len(PathsOf(kept) \o Deleted(b)) = Len(PathsOf(kept)) + Len(Deleted(b))
      BY <2>4, <3>1, ConcatProperties
    <3>3. Len(Deleted(b)) \in Nat
      BY <2>4, LenProperties
    <3> QED
      BY <2>1, <2>2, <3>2, <3>3
  <2>6. CASE burst.on /\ b.on /\ b.deleted = burst.deleted \o gone
    <3>1. Len(Deleted(b)) = Len(Deleted(burst)) + Len(gone)
      BY <1>2, <1>3, <2>6, ConcatProperties DEF Deleted
    <3>2. Len(Counted) = Len(W_queue) + Len(Deleted(burst))
      <4>1. Counted = PathsOf(W_queue) \o Deleted(burst)
        BY DEF Counted, Deleted
      <4>2. PathsOf(W_queue) \in Seq(Routes) /\ Len(PathsOf(W_queue)) = Len(W_queue)
        BY <1>1, PathsOfIsSeq
      <4>3. Len(PathsOf(W_queue) \o Deleted(burst)) = Len(PathsOf(W_queue)) + Len(Deleted(burst))
        BY <1>3, <4>2, ConcatProperties
      <4> QED
        BY <4>1, <4>2, <4>3
    <3>3. Len(Counted) >= BurstStart
      BY <2>6 DEF BInv, BurstIsBig
    <3>4. Len(gone) \in Nat /\ Len(Deleted(burst)) \in Nat
      BY <1>2, <1>3, LenProperties
    <3> QED
      BY <1>1, <1>2, <2>3, <2>5, <3>1, <3>2, <3>3, <3>4 DEF BurstIsBig
  <2>7. CASE b.on => Len(kept) >= BurstStart
    BY <1>1, <1>2, <1>7, <2>5, <2>7 DEF BurstIsBig
  <2> QED
    BY <1>6, <2>6, <2>7
<1>9. WithdrawnAreCounted' /\ G_W' \in [Links -> Int]
  <2>1. ASSUME NEW l \in Links
        PROVE  G_W'[l] = Count(PathsOf(kept) \o Deleted(b), l) /\ G_W'[l] \in Int
    <3> HIDE DEF gone, kept
    <3>1. G_W'[l] = weights[l] - Count(Forgotten(q, t), l)
      BY <1>5 DEF Minus
    <3>2. weights[l] = Count(PathsOf(q), l) + Count(Deleted(burst), l)
      BY <1>2, <1>3, CountConcat
    <3>3. /\ Count(gone, l) \in Nat /\ Count(PathsOf(kept), l) \in Nat
          /\ Count(Deleted(burst), l) \in Nat
          /\ Count(PathsOf(q), l) = Count(gone, l) + Count(PathsOf(kept), l)
      BY <1>2, <1>3, CountIsNatural
    <3>4. CASE b.on /\ b.deleted = burst.deleted \o gone /\ burst.on /\ Forgotten(q, t) = <<>>
      <4>1. Count(Deleted(b), l) = Count(Deleted(burst), l) + Count(gone, l)
        BY <1>2, <1>3, <3>4, CountConcat DEF Deleted
      <4>2. Deleted(b) \in Seq(Routes)
        BY <1>2, <1>3, <3>4, ConcatProperties DEF Deleted
      <4>3. Count(PathsOf(kept) \o Deleted(b), l) = Count(PathsOf(kept), l) + Count(Deleted(b), l)
        BY <1>2, <4>2, CountConcat
      <4>4. Count(Forgotten(q, t), l) = 0
        BY <3>4, CountOfNothing
      <4> QED
        BY <3>1, <3>2, <3>3, <4>1, <4>3, <4>4
    <3>5. CASE Deleted(b) = <<>> /\ Forgotten(q, t) = Deleted(burst) \o gone
      <4>1. Count(Forgotten(q, t), l) = Count(Deleted(burst), l) + Count(gone, l)
        BY <1>2, <1>3, <3>5, CountConcat
      <4>2. PathsOf(kept) \o Deleted(b) = PathsOf(kept)
        BY <1>2, <3>5, ConcatEmptySeq
      <4> QED
        BY <3>1, <3>2, <3>3, <4>1, <4>2
    <3> QED
      BY <1>6, <3>4, <3>5
  <2>2. Counted' = PathsOf(kept) \o Deleted(b)
    <3>1. Counted' = PathsOf(W_queue') \o Deleted(burst')
      BY DEF Counted, Deleted
    <3> QED
      BY <1>5, <1>7, <3>1
  <2>3. G_W' \in [Links -> Int]
    BY <1>5, <2>1 DEF Minus
  <2> QED
    BY <2>1, <2>2, <2>3 DEF WithdrawnAreCounted
<1>10. BurstIsBusy'
  <2>1. b.on => Len(kept) >= BurstEnd
    BY <1>1, <1>2, <1>4, <1>6
  <2>2. ~b.on => Len(kept) < BurstStart
    BY <1>1, <1>2, <1>6
  <2>3. DOMAIN kept = 1..Len(kept)
    BY <1>2, WithdrawalsAre
  <2> HIDE DEF kept
  <2> QED
    BY <1>2, <1>5, <1>7, <2>1, <2>2, <2>3 DEF BurstIsBusy
<1> QED
  BY <1>1, <1>2, <1>5, <1>7, <1>9, <1>10, <1>8 DEF BInv, TypeOK

LEMMA AnnounceStep ==
    ASSUME BInv, NEW p \in Prefixes, NEW path \in Paths, NEW t \in last_ts..MaxTime,
           Announce(p, path, t)
    PROVE  BInv'
<1>1. /\ rib' \in [Prefixes -> Routes] /\ Handle(t, W_queue, G_W, {})
      /\ W_queue \in Seq(Withdrawals) /\ G_W \in [Links -> Int] /\ {} \in SUBSET Prefixes
      /\ last_ts \in Nat /\ t \in Nat /\ last_ts <= t /\ Len(W_queue) >= Len(W_queue)
  BY BurstAssumption, WithdrawalsAre DEF Announce, BInv, TypeOK, Routes
<1>2. /\ DOMAIN W_queue = 1..Len(W_queue)
      /\ \A i \in 1..Len(W_queue) : W_queue[i].time \in Nat
  BY <1>1, WithdrawalsAre
<1>3. InOrder(W_queue, t)
  BY <1>1, <1>2 DEF InOrder, BInv
<1>4. t = last_ts => \A i \in 1..Len(W_queue) : t - W_queue[i].time <= WinSize
  BY <1>2 DEF BInv, BurstIsBusy
<1>5. \A l \in Links : G_W[l] = Count(PathsOf(W_queue) \o Deleted(burst), l)
  BY DEF BInv, WithdrawnAreCounted, Counted, Deleted
<1> QED
  BY <1>1, <1>3, <1>4, <1>5, HandleStep

LEMMA WithdrawStep ==
    ASSUME BInv, NEW p \in Prefixes, NEW t \in last_ts..MaxTime, Withdraw(p, t)
    PROVE  BInv'
<1> DEFINE r == rib[p]
           w == [time |-> t, path |-> r]
           q == IF r = <<>> THEN W_queue ELSE Append(W_queue, w)
           D == Deleted(burst)
           weights == Plus(G_W, r)
<1>1. /\ rib \in [Prefixes -> Routes] /\ r \in Routes
      /\ rib' \in [Prefixes -> Routes] /\ Handle(t, q, weights, {p})
      /\ W_queue \in Seq(Withdrawals) /\ G_W \in [Links -> Int] /\ {p} \in SUBSET Prefixes
      /\ last_ts \in Nat /\ t \in Nat /\ last_ts <= t /\ w \in Withdrawals
  BY BurstAssumption DEF Withdraw, BInv, TypeOK, Routes, Withdrawals
<1>2. /\ DOMAIN W_queue = 1..Len(W_queue) /\ Len(W_queue) \in Nat
      /\ \A i \in 1..Len(W_queue) : W_queue[i].time \in Nat
  BY <1>1, WithdrawalsAre
<1>3. InOrder(W_queue, t) /\ (t = last_ts => \A i \in 1..Len(W_queue) : t - W_queue[i].time <= WinSize)
  <2>1. InOrder(W_queue, t)
    BY <1>1, <1>2 DEF InOrder, BInv
  <2>2. t = last_ts => \A i \in 1..Len(W_queue) : t - W_queue[i].time <= WinSize
    BY <1>2 DEF BInv, BurstIsBusy
  <2> QED
    BY <2>1, <2>2
<1>4. D \in Seq(Routes)
  BY BurstsAre DEF BInv, TypeOK
<1>5. \A l \in Links : G_W[l] = Count(PathsOf(W_queue) \o D, l)
  BY DEF BInv, WithdrawnAreCounted, Counted, Deleted
<1>6. <<r>> \in Seq(Routes) /\ <<w>> \in Seq(Withdrawals)
  BY <1>1
<1>7. /\ weights \in [Links -> Int]
      /\ \A l \in Links : weights[l] = G_W[l] + Count(<<r>>, l) /\ Count(<<r>>, l) \in Nat
  <2>1. \A l \in Links : Count(<<r>>, l) \in Nat /\ G_W[l] \in Int
    BY <1>1, <1>6, CountIsNatural
  <2> HIDE DEF r
  <2> QED
    BY <2>1 DEF Plus
<1> HIDE DEF r, w, weights, D
<1>8. /\ q \in Seq(Withdrawals) /\ Len(q) >= Len(W_queue) /\ InOrder(q, t)
      /\ t = last_ts => \A i \in 1..Len(q) : t - q[i].time <= WinSize
      /\ \A l \in Links : weights[l] = Count(PathsOf(q) \o D, l)
  <2>1. CASE r = <<>>
    <3>1. \A l \in Links : weights[l] = G_W[l]
      BY <1>1, <1>7, <2>1, CountOfNothing
    <3> QED
      BY <1>1, <1>2, <1>3, <1>5, <2>1, <3>1
  <2>2. CASE r # <<>>
    <3>1. q = Append(W_queue, w)
      BY <2>2
    <3>2. w.time = t /\ w.path = r
      BY DEF w
    <3> HIDE DEF q
    <3>3. /\ q \in Seq(Withdrawals) /\ Len(q) = Len(W_queue) + 1
          /\ \A i \in 1..Len(W_queue) : q[i] = W_queue[i]
          /\ q[Len(W_queue) + 1] = w
      BY <1>1, <3>1, AppendProperties
    <3>4. \A i \in 1..Len(q) : i \in 1..Len(W_queue) \/ i = Len(W_queue) + 1
      BY <1>2, <3>3
    <3>5. InOrder(q, t)
      <4>1. \A i \in 1..Len(q) : q[i].time <= t
        BY <1>1, <1>3, <3>2, <3>3, <3>4 DEF InOrder
      <4>2. ASSUME NEW i \in 1..Len(q), NEW j \in 1..Len(q), i < j
            PROVE  q[i].time <= q[j].time
        <5>1. CASE j = Len(W_queue) + 1
          BY <3>2, <3>3, <4>1, <5>1
        <5>2. CASE j \in 1..Len(W_queue)
          <6>1. i \in 1..Len(W_queue)
            BY <1>2, <4>2, <5>2
          <6> QED
            BY <1>3, <3>3, <4>2, <5>2, <6>1 DEF InOrder
        <5> QED
          BY <3>4, <5>1, <5>2
      <4> QED
        BY <4>1, <4>2 DEF InOrder
    <3>6. t = last_ts => \A i \in 1..Len(q) : t - q[i].time <= WinSize
      <4>1. t - t <= WinSize
        BY <1>1, BurstAssumption
      <4> QED
        BY <1>3, <3>2, <3>3, <3>4, <4>1
    <3>7. ASSUME NEW l \in Links PROVE weights[l] = Count(PathsOf(q) \o D, l)
      <4>1. q = W_queue \o <<w>>
        BY <1>1, <3>1, AppendIsConcat
      <4>2. PathsOf(<<w>>) = <<r>>
        BY <3>2 DEF PathsOf
      <4>3. PathsOf(q) = PathsOf(W_queue) \o <<r>>
        BY <1>1, <1>6, <4>1, <4>2, PathsOfConcat
      <4>4. PathsOf(W_queue) \in Seq(Routes) /\ PathsOf(q) \in Seq(Routes)
        BY <1>1, <3>3, PathsOfIsSeq
      <4>5. /\ Count(PathsOf(q), l) = Count(PathsOf(W_queue), l) + Count(<<r>>, l)
            /\ Count(PathsOf(q) \o D, l) = Count(PathsOf(q), l) + Count(D, l)
            /\ Count(PathsOf(W_queue) \o D, l) = Count(PathsOf(W_queue), l) + Count(D, l)
            /\ Count(PathsOf(W_queue), l) \in Nat /\ Count(D, l) \in Nat
        <5>1. Count(PathsOf(q), l) = Count(PathsOf(W_queue), l) + Count(<<r>>, l)
          <6>1. \A u \in Seq(Routes) : Count(PathsOf(W_queue) \o u, l)
                                       = Count(PathsOf(W_queue), l) + Count(u, l)
            BY <4>4, CountConcat
          <6>2. Count(PathsOf(W_queue) \o <<r>>, l)
                = Count(PathsOf(W_queue), l) + Count(<<r>>, l)
            BY <1>6, <6>1, Zenon
          <6> QED
            BY <4>3, <6>2, Zenon
        <5>2. /\ Count(PathsOf(q) \o D, l) = Count(PathsOf(q), l) + Count(D, l)
              /\ Count(PathsOf(W_queue) \o D, l) = Count(PathsOf(W_queue), l) + Count(D, l)
          BY <1>4, <4>4, CountConcat
        <5>3. Count(PathsOf(W_queue), l) \in Nat /\ Count(D, l) \in Nat
          BY <1>4, <4>4, CountIsNatural
        <5> QED
          BY <5>1, <5>2, <5>3
      <4> QED
        BY <1>5, <1>7, <4>5
    <3> QED
      BY <1>2, <3>3, <3>5, <3>6, <3>7
  <2> QED
    BY <2>1, <2>2
<1> HIDE DEF q
<1> QED
  BY <1>1, <1>7, <1>8, HandleStep DEF D

LEMMA InitBInv == Init => BInv
<1> SUFFICES ASSUME Init PROVE BInv
  OBVIOUS
<1>1. TypeOK
  BY EmptySeq DEF Init, TypeOK, Routes
<1>2. InOrder(W_queue, last_ts) /\ BurstIsBusy
  <2>1. /\ W_queue = <<>> /\ Len(W_queue) = 0 /\ DOMAIN W_queue = {} /\ 1..Len(W_queue) = {}
        /\ burst = NoBurst
    BY DEF Init
  <2>2. ~NoBurst.on /\ 0 < BurstStart
    BY BurstAssumption DEF NoBurst
  <2> QED
    BY <2>1, <2>2 DEF InOrder, BurstIsBusy
<1>3. WithdrawnAreCounted
  <2>1. Counted = <<>>
    BY DEF Init, Counted, PathsOf, NoBurst
  <2>2. \A l \in Links : G_W[l] = 0
    BY DEF Init
  <2> QED
    BY <2>1, <2>2, CountOfNothing DEF WithdrawnAreCounted
<1>4. BurstIsBig
  BY DEF Init, BurstIsBig, NoBurst
<1> QED
  BY <1>1, <1>2, <1>3, <1>4 DEF BInv

LEMMA NextBInv == BInv /\ [Next]_vars => BInv'
<1>1. BInv /\ UNCHANGED vars => BInv'
  BY DEF BInv, TypeOK, WithdrawnAreCounted, BurstIsBusy, BurstIsBig, Counted, vars
<1> QED
  BY <1>1, AnnounceStep, WithdrawStep DEF Next

(***************************************************************************)
(* Powers.                                                                 *)
(***************************************************************************)
\* Induction over naturals, by the pigeonhole principle.
LEMMA NatSetInduction ==
    ASSUME NEW S, 0 \in S, \A n \in Nat : n \in S => n + 1 \in S
    PROVE  Nat \subseteq S
<1> SUFFICES ASSUME NEW n \in Nat, n \notin S PROVE FALSE
  OBVIOUS
<1> DEFINE Outside == {k \in Nat : k \notin S}
<1>1. PICK k \in Outside : \A y \in Outside : k <= y
  BY LeastNatural
<1>2. k # 0 /\ k - 1 \in Nat /\ k - 1 \in S
  BY <1>1
<1>3. (k - 1) + 1 \in S
  BY <1>2
<1> QED
  BY <1>1, <1>3

\* Powers are what their recursive definition says.
LEMMA PowerDef ==
    ASSUME NEW x \in Nat
    PROVE  Power(x) = [n \in Nat |-> IF n = 0 THEN 1 ELSE x * Power(x)[n - 1]]
<1> DEFINE Approx(n) == {g \in [0..n -> Nat] :
                            \A k \in 0..n : g[k] = IF k = 0 THEN 1 ELSE x * g[k - 1]}
           S == {n \in Nat : Approx(n) # {}}
           A == {k \in Nat : \A m, n \in Nat : k <= m /\ k <= n =>
                    \A g \in Approx(m), h \in Approx(n) : g[k] = h[k]}
           f == [n \in Nat |-> (CHOOSE g \in Approx(n) : TRUE)[n]]
<1>1. 0 \in S
  <2>1. [k \in 0..0 |-> 1] \in Approx(0)
    OBVIOUS
  <2> QED
    BY <2>1
<1>2. \A n \in Nat : n \in S => n + 1 \in S
  <2> SUFFICES ASSUME NEW n \in Nat, n \in S PROVE n + 1 \in S
    OBVIOUS
  <2>1. PICK g \in Approx(n) : TRUE
    OBVIOUS
  <2> DEFINE h == [k \in 0..(n + 1) |-> IF k = n + 1 THEN x * g[n] ELSE g[k]]
  <2>2. h \in [0..(n + 1) -> Nat]
    BY <2>1
  <2>3. ASSUME NEW k \in 0..(n + 1) PROVE h[k] = IF k = 0 THEN 1 ELSE x * h[k - 1]
    <3>1. CASE k = n + 1
      BY <3>1, <2>1
    <3>2. CASE k # n + 1
      <4>1. k \in 0..n
        BY <3>2
      <4> QED
        BY <4>1, <2>1
    <3> QED
      BY <3>1, <3>2
  <2>4. h \in Approx(n + 1)
    <3> HIDE DEF h
    <3> QED
      BY <2>2, <2>3
  <2> HIDE DEF h, Approx
  <2> QED
    BY <2>4
<1>3. Nat \subseteq S
  <2> HIDE DEF S
  <2> QED
    BY <1>1, <1>2, NatSetInduction
<1>4. 0 \in A
  OBVIOUS
<1>5. \A k \in Nat : k \in A => k + 1 \in A
  <2> SUFFICES ASSUME NEW k \in Nat, k \in A, NEW m \in Nat, NEW n \in Nat,
                      k + 1 <= m, k + 1 <= n, NEW g \in Approx(m), NEW h \in Approx(n)
               PROVE  g[k + 1] = h[k + 1]
    <3> HIDE DEF Approx
    <3> QED
      OBVIOUS
  <2>1. g[k] = h[k]
    <3> HIDE DEF Approx
    <3>1. k <= m /\ k <= n
      OBVIOUS
    <3> QED
      BY <3>1
  <2>2. g[k + 1] = x * g[k] /\ h[k + 1] = x * h[k]
    <3> HIDE DEF A
    <3>1. k + 1 \in 0..m /\ k + 1 \in 0..n /\ k + 1 # 0 /\ (k + 1) - 1 = k
      OBVIOUS
    <3> QED
      BY <3>1
  <2> QED
    BY <2>1, <2>2
<1>6. Nat \subseteq A
  <2> HIDE DEF A
  <2> QED
    BY <1>4, <1>5, NatSetInduction
<1>7. ASSUME NEW n \in Nat
      PROVE  f[n] = IF n = 0 THEN 1 ELSE x * f[n - 1]
  <2> DEFINE g == CHOOSE y \in Approx(n) : TRUE
  <2>1. g \in Approx(n)
    <3> HIDE DEF Approx
    <3> QED
      BY <1>3
  <2>2. CASE n = 0
    <3>1. f[n] = g[n]
      <4> HIDE DEF Approx
      <4> QED
        OBVIOUS
    <3>2. g[0] = 1
      <4> HIDE DEF g
      <4> QED
        BY <2>1
    <3> HIDE DEF f, g
    <3> QED
      BY <3>1, <3>2, <2>2
  <2>3. CASE n # 0
    <3> DEFINE h == CHOOSE y \in Approx(n - 1) : TRUE
    <3>1. h \in Approx(n - 1) /\ n - 1 \in Nat
      <4>1. n - 1 \in Nat
        BY <2>3
      <4> HIDE DEF Approx
      <4> QED
        BY <1>3, <4>1
    <3>2. g[n] = x * g[n - 1]
      <4> HIDE DEF g
      <4>1. n \in 0..n
        OBVIOUS
      <4> QED
        BY <2>1, <2>3, <4>1
    <3>3. g[n - 1] = h[n - 1]
      <4>1. n - 1 \in A
        BY <1>6, <3>1
      <4> HIDE DEF g, h, Approx
      <4> QED
        BY <4>1, <2>1, <3>1
    <3>4. f[n] = g[n] /\ f[n - 1] = h[n - 1]
      <4> HIDE DEF Approx
      <4> QED
        BY <3>1
    <3> HIDE DEF g, h, f
    <3> QED
      BY <3>1, <3>2, <3>3, <3>4, <2>3
  <2> HIDE DEF f
  <2> QED
    BY <2>2, <2>3
<1>8. f = [n \in Nat |-> IF n = 0 THEN 1 ELSE x * f[n - 1]]
  <2>1. DOMAIN f = Nat /\ f = [n \in Nat |-> f[n]]
    OBVIOUS
  <2> HIDE DEF f
  <2> QED
    BY <1>7, <2>1
<1> QED
  <2> HIDE DEF f
  <2> QED
    BY <1>8 DEF Power

LEMMA PowerSteps ==
    ASSUME NEW x \in Nat
    PROVE  /\ Power(x)[0] = 1
           /\ \A n \in Nat : Power(x)[n + 1] = x * Power(x)[n] /\ Power(x)[n] \in Nat
<1>1. Power(x)[0] = 1 /\ \A n \in Nat : Power(x)[n + 1] = x * Power(x)[n]
  <2> DEFINE f == Power(x)
  <2>1. f = [n \in Nat |-> IF n = 0 THEN 1 ELSE x * f[n - 1]]
    BY PowerDef
  <2> HIDE DEF f
  <2>2. f[0] = 1 /\ \A n \in Nat : f[n + 1] = x * f[n]
    BY <2>1
  <2> QED
    BY <2>2 DEF f
<1>2. \A n \in Nat : Power(x)[n] \in Nat
  <2> DEFINE D == {n \in Nat : Power(x)[n] \in Nat}
  <2>1. 0 \in D
    BY <1>1
  <2>2. \A n \in Nat : n \in D => n + 1 \in D
    BY <1>1
  <2> HIDE DEF D
  <2>3. Nat \subseteq D
    BY <2>1, <2>2, NatSetInduction
  <2> QED
    BY <2>3 DEF D
<1> QED
  BY <1>1, <1>2

LEMMA ProductGrows ==
    ASSUME NEW a \in Nat, NEW A \in Nat, NEW b \in Nat, NEW B \in Nat, a <= A, b <= B
    PROVE  a * b <= A * B
<1>1. a * b <= a * B
  <2>1. a * B - a * b = a * (B - b)
    OBVIOUS
  <2>2. a * (B - b) >= 0
    OBVIOUS
  <2>3. a * b \in Nat /\ a * B \in Nat
    OBVIOUS
  <2> QED
    BY <2>1, <2>2, <2>3
<1>2. a * B <= A * B
  <2>1. A * B - a * B = (A - a) * B
    OBVIOUS
  <2>2. (A - a) * B >= 0
    OBVIOUS
  <2>3. A * B \in Nat /\ a * B \in Nat
    OBVIOUS
  <2> QED
    BY <2>1, <2>2, <2>3
<1>3. a * b \in Nat /\ a * B \in Nat /\ A * B \in Nat
  OBVIOUS
<1> QED
  BY <1>1, <1>2, <1>3

\* A product grows with one factor if the other one is not zero.
LEMMA ProductGrowsStrictly ==
    ASSUME NEW a \in Nat, NEW A \in Nat, NEW b \in Nat, NEW B \in Nat, a <= A, b <= B,
           A > 0, B > 0, a < A \/ b < B
    PROVE  a * b < A * B
<1>1. a * b \in Nat /\ a * B \in Nat /\ A * B \in Nat /\ A * b \in Nat
  OBVIOUS
<1>2. CASE a < A
  <2>1. a * b <= a * B
    BY ProductGrows
  <2>2. A * B - a * B = (A - a) * B
    OBVIOUS
  <2>3. (A - a) * B > 0
    BY <1>2
  <2> QED
    BY <1>1, <2>1, <2>2, <2>3
<1>3. CASE b < B
  <2>1. a * b <= A * b
    BY ProductGrows
  <2>2. A * B - A * b = A * (B - b)
    OBVIOUS
  <2>3. A * (B - b) > 0
    BY <1>3
  <2> QED
    BY <1>1, <2>1, <2>2, <2>3
<1> QED
  BY <1>2, <1>3

LEMMA PowerGrows ==
    ASSUME NEW x \in Nat, NEW y \in Nat, x <= y
    PROVE  \A n \in Nat : /\ Power(x)[n] \in Nat /\ Power(y)[n] \in Nat
                          /\ Power(x)[n] <= Power(y)[n]
                          /\ y > 0 => Power(y)[n] > 0
                          /\ x < y /\ n > 0 => Power(x)[n] < Power(y)[n]
<1> DEFINE D == {n \in Nat : /\ Power(x)[n] <= Power(y)[n]
                             /\ y > 0 => Power(y)[n] > 0
                             /\ x < y /\ n > 0 => Power(x)[n] < Power(y)[n]}
<1>1. 0 \in D
  BY PowerSteps
<1>2. \A n \in Nat : n \in D => n + 1 \in D
  <2> SUFFICES ASSUME NEW n \in Nat, n \in D PROVE n + 1 \in D
    OBVIOUS
  <2> DEFINE a == Power(x)[n]
             A == Power(y)[n]
  <2>1. /\ Power(x)[n + 1] = x * a /\ Power(y)[n + 1] = y * A
        /\ a \in Nat /\ A \in Nat
    BY PowerSteps
  <2>2. a <= A /\ (y > 0 => A > 0)
    OBVIOUS
  <2> HIDE DEF a, A
  <2>3. x * a <= y * A
    BY <2>1, <2>2, ProductGrows
  <2>4. y > 0 => y * A > 0
    BY <2>1, <2>2
  <2>5. x < y => x * a < y * A
    <3> SUFFICES ASSUME x < y PROVE x * a < y * A
      OBVIOUS
    <3>1. y > 0 /\ A > 0
      BY <2>2
    <3> QED
      BY <2>1, <2>2, <3>1, ProductGrowsStrictly
  <2> QED
    BY <2>1, <2>3, <2>4, <2>5
<1> HIDE DEF D
<1>3. Nat \subseteq D
  BY <1>1, <1>2, NatSetInduction
<1> QED
  BY <1>3, PowerSteps DEF D

LEMMA PowerOfSum ==
    ASSUME NEW x \in Nat, NEW m \in Nat
    PROVE  \A n \in Nat : Power(x)[m + n] = Power(x)[m] * Power(x)[n]
<1> DEFINE D == {n \in Nat : Power(x)[m + n] = Power(x)[m] * Power(x)[n]}
<1>1. 0 \in D
  BY PowerSteps
<1>2. \A n \in Nat : n \in D => n + 1 \in D
  <2> SUFFICES ASSUME NEW n \in Nat, n \in D PROVE n + 1 \in D
    OBVIOUS
  <2> DEFINE a == Power(x)[m]
             b == Power(x)[n]
  <2>1. /\ Power(x)[n + 1] = x * b /\ a \in Nat /\ b \in Nat
        /\ Power(x)[(m + n) + 1] = x * Power(x)[m + n]
    BY PowerSteps
  <2>2. Power(x)[m + n] = a * b
    OBVIOUS
  <2> HIDE DEF a, b
  <2>3. x * (a * b) = a * (x * b)
    BY <2>1
  <2>4. m + (n + 1) = (m + n) + 1
    OBVIOUS
  <2>5. Power(x)[m + (n + 1)] = a * Power(x)[n + 1]
    BY <2>1, <2>2, <2>3, <2>4
  <2> QED
    BY <2>5 DEF a
<1> HIDE DEF D
<1>3. Nat \subseteq D
  BY <1>1, <1>2, NatSetInduction
<1> QED
  BY <1>3 DEF D

(***************************************************************************)
(* Scores.                                                                 *)
(***************************************************************************)
\* A link that explains all n withdrawals, against one that c of them used and r routes use.
LEMMA ScoresCompare ==
    ASSUME NEW n \in Nat, n > 0, NEW c \in Nat, NEW r \in Nat, c <= n
    PROVE  /\ ~(Power(c)[PW + RW] * Power(n)[PW] > Power(n)[PW + RW] * Power(c + r)[PW])
           /\ c > 0 /\ RW > 0 /\ (c < n \/ r > 0) =>
                  Power(n)[PW + RW] * Power(c + r)[PW] > Power(c)[PW + RW] * Power(n)[PW]
<1> DEFINE cP == Power(c)[PW]
           cR == Power(c)[RW]
           nP == Power(n)[PW]
           nR == Power(n)[RW]
           sP == Power(c + r)[PW]
<1>1. PW \in Nat /\ PW > 0 /\ RW \in Nat /\ c <= c + r /\ c + r \in Nat
  BY BurstAssumption
<1>2. /\ cP \in Nat /\ nP \in Nat /\ cR \in Nat /\ nR \in Nat
      /\ cP <= nP /\ cR <= nR /\ nP > 0 /\ nR > 0
      /\ c < n /\ RW > 0 => cR < nR
  BY <1>1, PowerGrows
<1>3. /\ sP \in Nat /\ cP <= sP /\ (c + r > 0 => sP > 0)
      /\ c < c + r => cP < sP
  BY <1>1, PowerGrows
<1>4. Power(c)[PW + RW] = cP * cR /\ Power(n)[PW + RW] = nP * nR
  BY <1>1, PowerOfSum
<1> HIDE DEF cP, cR, nP, nR, sP
<1>5. cP * cR \in Nat /\ sP * nR \in Nat
  BY <1>2, <1>3
<1>6. (cP * cR) * nP = nP * (cP * cR) /\ (nP * nR) * sP = nP * (sP * nR)
  BY <1>2, <1>3
<1>7. cP * cR <= sP * nR
  BY <1>2, <1>3, ProductGrows
<1>8. nP * (cP * cR) <= nP * (sP * nR)
  <2>1. nP <= nP
    BY <1>2
  <2> QED
    BY <1>2, <1>5, <1>7, <2>1, ProductGrows
<1>9. nP * (cP * cR) \in Nat /\ nP * (sP * nR) \in Nat
  BY <1>2, <1>5
<1>10. ASSUME c > 0, RW > 0, c < n \/ r > 0
       PROVE  nP * (cP * cR) < nP * (sP * nR)
  <2>1. sP > 0 /\ (cP < sP \/ cR < nR)
    BY <1>2, <1>3, <1>10
  <2>2. cP * cR < sP * nR
    BY <1>2, <1>3, <2>1, ProductGrowsStrictly
  <2>3. sP * nR > 0 /\ nP <= nP
    BY <1>2, <1>3, <1>5, <2>2
  <2> QED
    BY <1>2, <1>5, <2>2, <2>3, ProductGrowsStrictly
<1>11. Power(n)[PW] = nP /\ Power(c + r)[PW] = sP
  BY DEF nP, sP
<1> QED
  BY <1>4, <1>6, <1>8, <1>9, <1>10, <1>11

(***************************************************************************)
(* Links that explain.                                                     *)
(***************************************************************************)
LEMMA RoutesAre ==
    ASSUME NEW path \in Routes
    PROVE  /\ path \in Seq(Nat) /\ Len(path) \in Nat
           /\ 1..(Len(path) - 1) \subseteq Depths
           /\ \A d \in Depths : d < Len(path) => d \in 1..(Len(path) - 1)
<1>1. path \in Seq(Nat)
  BY BurstAssumption, EmptySeq DEF Routes
<1>2. Len(path) \in Nat
  BY <1>1, LenProperties
<1>3. 1..(Len(path) - 1) \subseteq Depths
  <2>1. CASE path \in Paths
    BY <2>1 DEF Depths
  <2>2. CASE path = <<>>
    <3>1. Len(path) = 0
      BY <2>2
    <3> QED
      BY <3>1
  <2> QED
    BY <2>1, <2>2 DEF Routes
<1>4. \A d \in Depths : d \in Nat /\ d > 0
  <2>1. \A p \in Paths : Len(p) \in Nat
    BY BurstAssumption, LenProperties
  <2> QED
    BY <2>1 DEF Depths
<1> QED
  BY <1>1, <1>2, <1>3, <1>4

\* A link counts where it is on a path.
LEMMA OccursOnPaths ==
    ASSUME NEW paths, NEW l, \A i \in DOMAIN paths : paths[i] \in Routes
    PROVE  \A i \in DOMAIN paths :
               l \in Hops(paths[i]) <=> \E d : <<i, d>> \in Occurrences(paths, l)
<1> SUFFICES ASSUME NEW i \in DOMAIN paths
             PROVE  l \in Hops(paths[i]) <=> \E d : <<i, d>> \in Occurrences(paths, l)
  OBVIOUS
<1>1. \A d : <<i, d>> \in Occurrences(paths, l) <=>
          /\ d \in Depths /\ d < Len(paths[i])
          /\ <<paths[i][d], paths[i][d + 1]>> = l
  BY DEF Occurrences
<1>2. \A d : d \in Depths /\ d < Len(paths[i]) <=> d \in 1..(Len(paths[i]) - 1)
  <2>1. Len(paths[i]) \in Nat
    BY RoutesAre
  <2>2. \A d \in 1..(Len(paths[i]) - 1) : d < Len(paths[i])
    BY <2>1
  <2> QED
    BY <2>2, RoutesAre
<1>3. l \in Hops(paths[i]) <=>
          \E d \in 1..(Len(paths[i]) - 1) : <<paths[i][d], paths[i][d + 1]>> = l
  BY DEF Hops
<1> QED
  BY <1>1, <1>2, <1>3

\* What no route uses counts as nothing, and what some route uses does not.
LEMMA CountOfUnused ==
    ASSUME NEW routes \in [Prefixes -> Routes], NEW l
    PROVE  /\ Count(routes, l) \in Nat
           /\ Count(routes, l) = 0 <=> \A p \in Prefixes : l \notin Hops(routes[p])
<1> DEFINE O == Occurrences(routes, l)
<1>1. IsFiniteSet(O) /\ Count(routes, l) = Cardinality(O)
  <2>1. IsFiniteSet(Prefixes \X Depths)
    BY BurstAssumption, DepthsFinite, FS_Product
  <2>2. O \subseteq Prefixes \X Depths
    BY DEF Occurrences
  <2>3. Count(routes, l) = Cardinality(O)
    BY DEF Count, Occurrences
  <2> QED
    BY <2>1, <2>2, <2>3, FS_Subset
<1>2. O = {} <=> \A p \in Prefixes : l \notin Hops(routes[p])
  <2>1. \A p \in Prefixes : l \in Hops(routes[p]) <=> \E d : <<p, d>> \in O
    BY OccursOnPaths
  <2>2. \A x \in O : \E p \in Prefixes, d \in Depths : x = <<p, d>>
    BY DEF Occurrences
  <2>3. (\E x : x \in O) <=> \E p \in Prefixes : \E d : <<p, d>> \in O
    <3> HIDE DEF O
    <3> QED
      BY <2>2, Zenon
  <2> HIDE DEF O
  <2> QED
    BY <2>1, <2>3
<1> QED
  BY <1>1, <1>2, FS_EmptySet, FS_CardinalityType

\* If no path is prepended, a link counts at most once per path, and as often
\* as there are paths only if all of them use it.
LEMMA CountOfUnprepended ==
    ASSUME NEW s \in Seq(Routes), NEW l, \A i \in DOMAIN s : ~Prepended(s[i])
    PROVE  /\ Count(s, l) <= Len(s)
           /\ Count(s, l) = Len(s) <=> \A i \in DOMAIN s : l \in Hops(s[i])
<1> DEFINE O == Occurrences(s, l)
           f == [x \in O |-> x[1]]
<1>1. DOMAIN s = 1..Len(s) /\ Len(s) \in Nat /\ \A i \in DOMAIN s : s[i] \in Routes
  BY LenProperties, ElementOfSeq
<1>2. Count(s, l) = Cardinality(O)
  BY CountIsNatural
<1>3. \A x \in O : x = <<x[1], x[2]>> /\ x[1] \in DOMAIN s /\ x[2] \in 1..(Len(s[x[1]]) - 1)
                   /\ s[x[1]][x[2]] = l[1]
  <2> SUFFICES ASSUME NEW x \in O
               PROVE  /\ x = <<x[1], x[2]>> /\ x[1] \in DOMAIN s
                      /\ x[2] \in 1..(Len(s[x[1]]) - 1)
                      /\ s[x[1]][x[2]] = l[1]
    OBVIOUS
  <2>1. /\ x = <<x[1], x[2]>> /\ x[1] \in DOMAIN s /\ x[2] \in Depths /\ x[2] < Len(s[x[1]])
        /\ <<s[x[1]][x[2]], s[x[1]][x[2] + 1]>> = l
    BY DEF Occurrences
  <2>2. s[x[1]] \in Routes
    BY <1>1, <2>1
  <2>3. x[2] \in 1..(Len(s[x[1]]) - 1)
    BY <2>1, <2>2, RoutesAre
  <2> HIDE DEF O
  <2>4. l[1] = s[x[1]][x[2]]
    BY <2>1
  <2> QED
    BY <2>1, <2>3, <2>4
<1>4. \A x, y \in O : x[1] = y[1] => x = y
  <2> HIDE DEF O
  <2> SUFFICES ASSUME NEW x \in O, NEW y \in O, x[1] = y[1] PROVE x[2] = y[2]
    BY <1>3
  <2> DEFINE path == s[x[1]]
             d == x[2]
             e == y[2]
  <2>1. /\ x[1] \in DOMAIN s /\ path \in Routes /\ d \in 1..(Len(path) - 1)
        /\ e \in 1..(Len(path) - 1) /\ path[d] = path[e]
    BY <1>1, <1>3
  <2>2. path \in Seq(Nat) /\ Len(path) \in Nat /\ ~Prepended(path)
    BY <2>1, RoutesAre
  <2> HIDE DEF path, d, e
  <2>3. DOMAIN path = 1..Len(path)
    BY <2>2, LenProperties
  <2>4. d \in DOMAIN path /\ e \in DOMAIN path /\ (d = e \/ d < e \/ e < d)
    BY <2>1, <2>2, <2>3
  <2>5. d = e
    BY <2>1, <2>2, <2>4 DEF Prepended
  <2> QED
    BY <2>5 DEF d, e
<1>5. f \in Injection(O, DOMAIN s)
  <2> HIDE DEF O
  <2>1. f \in [O -> DOMAIN s] /\ \A x, y \in O : f[x] = f[y] => x = y
    BY <1>3, <1>4
  <2> HIDE DEF f
  <2> QED
    BY <2>1 DEF Injection, IsInjective
<1>6. IsFiniteSet(DOMAIN s) /\ Cardinality(DOMAIN s) = Len(s)
  <2>1. Len(s) \in Int /\ 1 \in Int /\ Len(s) >= 0
    BY <1>1
  <2>2. /\ IsFiniteSet(1..Len(s))
        /\ Cardinality(1..Len(s)) = IF 1 > Len(s) THEN 0 ELSE Len(s) - 1 + 1
    BY <2>1, FS_Interval
  <2>3. (IF 1 > Len(s) THEN 0 ELSE Len(s) - 1 + 1) = Len(s)
    BY <2>1
  <2> QED
    BY <1>1, <2>2, <2>3
<1>7. /\ Cardinality(O) <= Len(s)
      /\ Cardinality(O) = Len(s) <=> f \in Surjection(O, DOMAIN s)
  <2> HIDE DEF O, f
  <2> QED
    BY <1>5, <1>6, FS_Injection
<1>8. f \in Surjection(O, DOMAIN s) <=> \A i \in DOMAIN s : \E d : <<i, d>> \in O
  <2>1. f \in Surjection(O, DOMAIN s) <=> \A i \in DOMAIN s : \E x \in O : f[x] = i
    <3>1. f \in [O -> DOMAIN s]
      BY <1>5 DEF Injection
    <3> HIDE DEF f, O
    <3> QED
      BY <3>1 DEF Surjection
  <2>2. \A i : (\E x \in O : f[x] = i) <=> (\E d : <<i, d>> \in O)
    <3> HIDE DEF O
    <3>1. \A x \in O : f[x] = x[1] /\ x = <<x[1], x[2]>>
      BY <1>3
    <3>2. \A i, d : <<i, d>> \in O => f[<<i, d>>] = i
      OBVIOUS
    <3> HIDE DEF f
    <3> SUFFICES ASSUME NEW i
                 PROVE  (\E x \in O : f[x] = i) <=> (\E d : <<i, d>> \in O)
      OBVIOUS
    <3>3. ASSUME NEW x \in O, f[x] = i PROVE \E d : <<i, d>> \in O
      <4>1. <<i, x[2]>> = x
        BY <3>1, <3>3
      <4> QED
        BY <3>3, <4>1
    <3> QED
      BY <3>2, <3>3
  <2> HIDE DEF f, O
  <2> QED
    BY <2>1, <2>2
<1>9. \A i \in DOMAIN s : l \in Hops(s[i]) <=> \E d : <<i, d>> \in O
  BY <1>1, OccursOnPaths
<1> HIDE DEF O, f
<1> QED
  BY <1>2, <1>7, <1>8, <1>9

LEMMA LinksFinite == IsFiniteSet(Links)
<1> DEFINE H == {Hops(path) : path \in Paths}
<1>1. \A path \in Paths : IsFiniteSet(Hops(path))
  <2> SUFFICES ASSUME NEW path \in Paths PROVE IsFiniteSet(Hops(path))
    OBVIOUS
  <2> DEFINE I == 1..(Len(path) - 1)
             g == [i \in I |-> <<path[i], path[i + 1]>>]
  <2>1. Len(path) \in Nat
    BY BurstAssumption, LenProperties
  <2>2. IsFiniteSet(I)
    <3>1. Len(path) - 1 \in Int /\ 1 \in Int
      BY <2>1
    <3> QED
      BY <3>1, FS_Interval
  <2>3. g \in Surjection(I, Hops(path))
    BY DEF Surjection, Hops
  <2> HIDE DEF I, g
  <2> QED
    BY <2>2, <2>3, FS_Surjection
<1>2. IsFiniteSet(H)
  <2> DEFINE f == [path \in Paths |-> Hops(path)]
  <2>1. f \in Surjection(Paths, H)
    BY DEF Surjection
  <2> HIDE DEF f, H
  <2> QED
    BY <2>1, BurstAssumption, FS_Surjection
<1>3. \A T \in H : IsFiniteSet(T)
  BY <1>1
<1> HIDE DEF H
<1>4. IsFiniteSet(UNION H)
  BY <1>2, <1>3, FS_UNION
<1> QED
  BY <1>4 DEF Links, H

\* As many paths go on from an AS as use one of its links.
LEMMA LinkWeighsLess ==
    ASSUME NEW weights \in [Links -> Nat], NEW l \in Links
    PROVE  /\ OutPrefixes(weights, l[1]) \in Nat
           /\ OutPrefixes(weights, l[1]) >= weights[l]
<1> DEFINE L == {k \in Links : k[1] = l[1]}
           U == {{k} \X (1..weights[k]) : k \in L}
           mine == {l} \X (1..weights[l])
<1>1. IsFiniteSet(L) /\ l \in L
  BY LinksFinite, FS_Subset
<1>2. \A k \in L : /\ IsFiniteSet({k} \X (1..weights[k]))
                   /\ Cardinality({k} \X (1..weights[k])) = weights[k]
  <2> SUFFICES ASSUME NEW k \in L
               PROVE  /\ IsFiniteSet({k} \X (1..weights[k]))
                      /\ Cardinality({k} \X (1..weights[k])) = weights[k]
    OBVIOUS
  <2>1. weights[k] \in Nat
    OBVIOUS
  <2>2. IsFiniteSet({k}) /\ Cardinality({k}) = 1
    BY FS_Singleton
  <2>3. IsFiniteSet(1..weights[k]) /\ Cardinality(1..weights[k]) = weights[k]
    BY <2>1, FS_Interval
  <2> DEFINE A == {k}
             B == 1..weights[k]
  <2> HIDE DEF A, B
  <2>4. IsFiniteSet(A \X B) /\ Cardinality(A \X B) = Cardinality(A) * Cardinality(B)
    BY <2>2, <2>3, FS_Product DEF A, B
  <2>5. Cardinality(A) * Cardinality(B) = weights[k]
    BY <2>1, <2>2, <2>3 DEF A, B
  <2> QED
    BY <2>4, <2>5 DEF A, B
<1>3. IsFiniteSet(U)
  <2> DEFINE f == [k \in L |-> {k} \X (1..weights[k])]
  <2>1. f \in Surjection(L, U)
    BY DEF Surjection
  <2> HIDE DEF f, L, U
  <2> QED
    BY <1>1, <2>1, FS_Surjection
<1>4. mine \in U /\ \A T \in U : IsFiniteSet(T)
  <2> HIDE DEF L
  <2> QED
    BY <1>1, <1>2
<1>5. Cardinality(mine) = weights[l]
  <2> HIDE DEF L
  <2> QED
    BY <1>1, <1>2
<1>6. OutPrefixes(weights, l[1]) = Cardinality(UNION U)
  BY DEF OutPrefixes
<1> HIDE DEF L, U, mine
<1>7. IsFiniteSet(UNION U) /\ mine \in SUBSET UNION U
  BY <1>3, <1>4, FS_UNION
<1> QED
  BY <1>5, <1>6, <1>7, FS_Subset, FS_CardinalityType

(***************************************************************************)
(* Inference.                                                              *)
(***************************************************************************)
\* If inference is put off, it was due: no burst begins in the step that ends one.
LEMMA InferredWasDue ==
    ASSUME BInv, NEW t \in last_ts..MaxTime, NEW withdrawn \in SUBSET Prefixes,
           NEW weights, NEW q \in Seq(Withdrawals),
           Handle(t, q, weights, withdrawn), Inferred
    PROVE  Due(Continued(q, t, withdrawn))
<1> DEFINE b == Continued(q, t, withdrawn)
<1> SUFFICES ASSUME ~Due(b) PROVE FALSE
  OBVIOUS
<1>1. burst' = b
  BY DEF Handle
<1>2. b.on /\ b.next # IF burst.on THEN burst.next ELSE MinBurst
  BY <1>1 DEF Inferred
<1>3. CASE burst.on /\ ~Quiet(q, t)
  <2>1. b = [burst EXCEPT !.deleted = @ \o PathsOf(Expired(q, t)), !.real = @ \cup withdrawn]
    BY <1>3 DEF Continued
  <2>2. burst \in Bursts
    BY <1>3, BurstsAre DEF BInv, TypeOK
  <2> HIDE DEF b
  <2>3. b.next = burst.next
    BY <2>1, <2>2 DEF Bursts
  <2> QED
    BY <1>2, <1>3, <2>3
<1>4. CASE ~(burst.on /\ ~Quiet(q, t))
  <2>1. b = IF Len(Within(q, t)) >= BurstStart
            THEN [on |-> TRUE, deleted |-> <<>>, real |-> {}, next |-> MinBurst]
            ELSE NoBurst
    BY <1>4 DEF Continued
  <2> HIDE DEF b
  <2>2. Len(Within(q, t)) >= BurstStart
    BY <1>2, <2>1 DEF NoBurst
  <2>3. b.next = MinBurst
    BY <2>1, <2>2
  <2>4. burst.on /\ Quiet(q, t)
    BY <1>2, <1>4, <2>3
  <2>5. last_ts \in Nat /\ t \in Int
    BY BurstAssumption DEF BInv, TypeOK
  <2>6. PICK s \in (last_ts + 1)..t : Len(Within(q, s)) < BurstEnd
    BY <2>4 DEF Quiet
  <2>7. s \in Int /\ s <= t
    BY <2>5, <2>6
  <2>8. Len(Within(q, t)) <= Len(Within(q, s))
    BY <2>5, <2>7, WindowShrinks
  <2>9. Len(Within(q, s)) \in Nat /\ Len(Within(q, t)) \in Nat
    BY <2>5, <2>7, WindowParts, WithdrawalsAre
  <2> QED
    BY <2>2, <2>6, <2>8, <2>9, BurstAssumption
<1> QED
  BY <1>3, <1>4

\* Links that all withdrawn paths used and that no route uses.
Explained(weights, routes, paths) ==
    {l \in Links : /\ \A i \in DOMAIN paths : l \in Hops(paths[i])
                   /\ \A p \in Prefixes : l \notin Hops(routes[p])}

\* If some link explains withdrawals that are not prepended, the best ones do.
LEMMA BestExplain ==
    ASSUME RW > 0, NEW routes \in [Prefixes -> Routes], NEW paths \in Seq(Routes),
           NEW weights \in [Links -> Int], \A l \in Links : weights[l] = Count(paths, l),
           \A i \in DOMAIN paths : ~Prepended(paths[i]),
           Len(paths) >= BurstStart,
           Explained(weights, routes, paths) # {}
    PROVE  /\ Best(weights, routes) # {}
           /\ Best(weights, routes) \subseteq Explained(weights, routes, paths)
<1> DEFINE n == Len(paths)
           E == Explained(weights, routes, paths)
<1>1. n \in Nat /\ n > 0 /\ n >= BurstStart /\ BurstStart \in Nat
  BY LenProperties, BurstAssumption
<1>2. \A l \in Links : /\ weights[l] \in Nat /\ weights[l] <= n
                       /\ Count(routes, l) \in Nat
                       /\ l \in E <=> weights[l] = n /\ Count(routes, l) = 0
  <2> SUFFICES ASSUME NEW l \in Links
               PROVE  /\ weights[l] \in Nat /\ weights[l] <= n
                      /\ Count(routes, l) \in Nat
                      /\ l \in E <=> weights[l] = n /\ Count(routes, l) = 0
    OBVIOUS
  <2>1. weights[l] = Count(paths, l) /\ Count(paths, l) \in Nat
    BY CountIsNatural
  <2>2. /\ Count(paths, l) <= n
        /\ Count(paths, l) = n <=> \A i \in DOMAIN paths : l \in Hops(paths[i])
    BY CountOfUnprepended
  <2>3. /\ Count(routes, l) \in Nat
        /\ Count(routes, l) = 0 <=> \A p \in Prefixes : l \notin Hops(routes[p])
    BY CountOfUnused
  <2> HIDE DEF n
  <2> QED
    BY <2>1, <2>2, <2>3 DEF Explained
<1> HIDE DEF n, E
<1>3. ASSUME NEW l \in E PROVE l \in Candidates(weights)
  <2>1. l \in Links /\ weights[l] = n
    BY <1>2, <1>3 DEF E, Explained
  <2>2. weights \in [Links -> Nat]
    BY <1>2
  <2>3. OutPrefixes(weights, l[1]) \in Nat /\ OutPrefixes(weights, l[1]) >= n
    BY <2>1, <2>2, LinkWeighsLess
  <2>4. OutPrefixes(weights, l[1]) >= BurstStart
    BY <1>1, <2>3
  <2> QED
    BY <1>1, <2>1, <2>4 DEF Candidates, Forwarding
<1>4. ASSUME NEW l \in E, NEW k \in Links
      PROVE  /\ ~Better(weights, routes, k, l)
             /\ weights[k] > 0 /\ k \notin E => Better(weights, routes, l, k)
  <2> DEFINE c == weights[k]
             r == Count(routes, k)
  <2>1. l \in Links /\ weights[l] = n /\ Count(routes, l) = 0 /\ n + 0 = n
    BY <1>1, <1>2, <1>4 DEF E, Explained
  <2>2. c \in Nat /\ r \in Nat /\ c <= n /\ (k \notin E => c < n \/ r > 0)
    BY <1>1, <1>2
  <2>3. /\ Better(weights, routes, k, l) <=>
             Power(c)[PW + RW] * Power(n)[PW] > Power(n)[PW + RW] * Power(c + r)[PW]
        /\ Better(weights, routes, l, k) <=>
             Power(n)[PW + RW] * Power(c + r)[PW] > Power(c)[PW + RW] * Power(n)[PW]
    BY <2>1 DEF Better
  <2> HIDE DEF c, r
  <2>4. /\ ~(Power(c)[PW + RW] * Power(n)[PW] > Power(n)[PW + RW] * Power(c + r)[PW])
        /\ c > 0 /\ (c < n \/ r > 0) =>
             Power(n)[PW + RW] * Power(c + r)[PW] > Power(c)[PW + RW] * Power(n)[PW]
    BY <1>1, <2>2, ScoresCompare
  <2>5. weights[k] > 0 /\ k \notin E => c > 0 /\ (c < n \/ r > 0)
    BY <2>2 DEF c
  <2> QED
    BY <2>3, <2>4, <2>5
<1>5. PICK e \in Links : e \in E
  BY DEF E, Explained
<1>6. \A k \in Candidates(weights) : k \in Links /\ weights[k] > 0
  BY DEF Candidates
<1>7. e \in Best(weights, routes)
  BY <1>3, <1>4, <1>5, <1>6 DEF Best
<1>8. \A k \in Best(weights, routes) : k \in E
  BY <1>3, <1>4, <1>5, <1>6 DEF Best
<1> QED
  BY <1>7, <1>8 DEF E

LEMMA InferenceExplains ==
    ASSUME RW > 0, BInv, BInv', NEW t \in last_ts..MaxTime, NEW withdrawn \in SUBSET Prefixes,
           NEW weights, NEW q \in Seq(Withdrawals),
           Handle(t, q, weights, withdrawn), Inferred,
           \E l \in Links : Explains(l)',
           ~(\E i \in DOMAIN Counted : Prepended(Counted[i]))'
    PROVE  best_edge_set' # {} /\ \A l \in best_edge_set' : Explains(l)'
<1> DEFINE E == Explained(G_W', rib', Counted')
<1>1. Due(Continued(q, t, withdrawn))
  BY InferredWasDue
<1>2. Best(G_W', rib') # {} => \E l \in Best(G_W', rib') : best_edge_set' = {l}
  BY <1>1 DEF Handle
<1>3. \A l \in Links : Explains(l)' <=> l \in E
  BY DEF Explains, Explained
<1>4. /\ rib' \in [Prefixes -> Routes] /\ G_W' \in [Links -> Int]
      /\ \A l \in Links : G_W'[l] = Count(Counted', l)
      /\ Len(Counted') >= BurstStart
  BY DEF BInv, TypeOK, WithdrawnAreCounted, BurstIsBig, Inferred
<1>5. Counted' \in Seq(Routes)
  <2>1. W_queue' \in Seq(Withdrawals) /\ burst' \in {NoBurst} \cup Bursts
    BY DEF BInv, TypeOK
  <2>2. PathsOf(W_queue') \in Seq(Routes) /\ Deleted(burst') \in Seq(Routes)
    BY <2>1, PathsOfIsSeq, BurstsAre
  <2>3. Counted' = PathsOf(W_queue') \o Deleted(burst')
    BY DEF Counted, Deleted
  <2> QED
    BY <2>2, <2>3, ConcatProperties
<1>6. \A i \in DOMAIN Counted' : ~Prepended(Counted'[i])
  OBVIOUS
<1>7. E # {}
  BY <1>3
<1>8. Best(G_W', rib') # {} /\ Best(G_W', rib') \subseteq E
  BY <1>4, <1>5, <1>6, <1>7, BestExplain
<1>9. E \subseteq Links
  BY DEF Explained
<1> HIDE DEF E
<1> QED
  BY <1>2, <1>3, <1>8, <1>9

(***************************************************************************)
(* Theorems.                                                               *)
(***************************************************************************)
THEOREM BurstInvariant == Spec => []BInv
  BY InitBInv, NextBInv, PTL DEF Spec

\* The counters of inference are exact: every withdrawal in the window, and during a
\* burst every one that has left it, counts once, and nothing else does
\* (participant_swift.py:288-362).
THEOREM CountersExact == Spec => []WithdrawnAreCounted
<1>1. BInv => WithdrawnAreCounted
  BY DEF BInv
<1> QED
  BY <1>1, BurstInvariant, PTL

\* There is a burst exactly as long as the window is busy, and nothing too old is in the
\* window (participant_swift.py:323-379).
THEOREM BurstsAreBusy == Spec => []BurstIsBusy
<1>1. BInv => BurstIsBusy
  BY DEF BInv
<1> QED
  BY <1>1, BurstInvariant, PTL

\* If one link explains a whole burst of paths that are not prepended, inference finds
\* such a link and nothing else (bpa.py:50-84). Recall must have some weight: without it
\* any link that no route uses any more scores as well.
THEOREM FailureFound ==
    ASSUME RW > 0
    PROVE  Spec => OneFailureIsFound
<1>1. BInv /\ BInv' /\ [Next]_vars =>
          [LET found == best_edge_set' IN
           Inferred /\ (\E l \in Links : Explains(l)')
                    /\ ~(\E i \in DOMAIN Counted : Prepended(Counted[i]))'
           => found # {} /\ \A l \in found : Explains(l)']_vars
  <2> SUFFICES ASSUME BInv, BInv', Next, Inferred, \E l \in Links : Explains(l)',
                      ~(\E i \in DOMAIN Counted : Prepended(Counted[i]))'
               PROVE  best_edge_set' # {} /\ \A l \in best_edge_set' : Explains(l)'
    OBVIOUS
  <2>1. PICK p \in Prefixes, t \in last_ts..MaxTime :
            (\E path \in Paths : Announce(p, path, t)) \/ Withdraw(p, t)
    BY DEF Next
  <2>2. CASE \E path \in Paths : Announce(p, path, t)
    <3>1. Handle(t, W_queue, G_W, {}) /\ {} \in SUBSET Prefixes /\ W_queue \in Seq(Withdrawals)
      BY <2>2 DEF Announce, BInv, TypeOK
    <3> QED
      BY <3>1, InferenceExplains
  <2>3. CASE Withdraw(p, t)
    <3> DEFINE q == IF rib[p] = <<>> THEN W_queue
                    ELSE Append(W_queue, [time |-> t, path |-> rib[p]])
    <3>1. Handle(t, q, Plus(G_W, rib[p]), {p}) /\ {p} \in SUBSET Prefixes
      BY <2>3 DEF Withdraw
    <3>2. q \in Seq(Withdrawals)
      <4>1. rib[p] \in Routes /\ t \in Nat /\ W_queue \in Seq(Withdrawals)
        BY BurstAssumption DEF BInv, TypeOK
      <4>2. [time |-> t, path |-> rib[p]] \in Withdrawals
        BY <4>1 DEF Withdrawals
      <4> QED
        BY <4>1, <4>2, AppendProperties
    <3> HIDE DEF q
    <3> QED
      BY <3>1, <3>2, InferenceExplains
  <2> QED
    BY <2>1, <2>2, <2>3
<1> QED
  BY <1>1, BurstInvariant, PTL DEF Spec, OneFailureIsFound
=============================================================================
