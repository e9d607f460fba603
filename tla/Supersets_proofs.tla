------------------------- MODULE Supersets_proofs -------------------------
(***************************************************************************)
(* Proofs about Supersets and the algorithms of ss_lib.py: packing keeps   *)
(* what it packs, rules and VMACs speak of the same supersets, and nobody  *)
(* gets packets for what he does not advertise, for any participants,      *)
(* prefixes, policies, changes of policies and numbers of bits.            *)
(***************************************************************************)
EXTENDS Supersets, SequenceTheorems, FiniteSetTheorems, TLAPS

-----------------------------------------------------------------------------
(* Induction *)

\* A set that holds 0 and with a number the next one holds all of them: otherwise
\* the successor would map the members up to a missing one into fewer.
LEMMA NatSetInduction ==
    ASSUME NEW S, 0 \in S, \A n \in Nat : n \in S => n + 1 \in S
    PROVE  Nat \subseteq S
<1> SUFFICES ASSUME NEW n \in Nat, n \notin S PROVE FALSE OBVIOUS
<1> DEFINE B == {i \in 0..n : i \in S}
           f == [i \in B |-> i + 1]
<1>1. IsFiniteSet(B) /\ 0 \in B /\ n \notin B
  <2>1. IsFiniteSet(0..n) /\ B \subseteq 0..n
    BY FS_Interval
  <2> QED BY <2>1, FS_Subset
<1>2. f \in [B -> B \ {0}]
  BY <1>1
<1>3. IsFiniteSet(B \ {0}) /\ Cardinality(B \ {0}) < Cardinality(B)
  <2> HIDE DEF B
  <2>1. /\ IsFiniteSet(B \ {0}) /\ Cardinality(B \ {0}) = Cardinality(B) - 1
        /\ Cardinality(B) \in Nat
    BY <1>1, FS_RemoveElement, FS_CardinalityType
  <2> QED BY <2>1
<1>4. \E x, y \in B : x # y /\ f[x] = f[y]
  <2> HIDE DEF B, f
  <2> QED BY <1>1, <1>2, <1>3, FS_PigeonHole
<1> QED BY <1>4

LEMMA NatMinimum ==
    ASSUME NEW T \in SUBSET Nat, T # {}
    PROVE  \E x \in T : \A y \in T : x <= y
<1> SUFFICES ASSUME \A x \in T : \E y \in T : ~(x <= y) PROVE FALSE OBVIOUS
<1> DEFINE S == {n \in Nat : \A y \in T : n <= y}
<1>1. 0 \in S
  OBVIOUS
<1>2. \A n \in Nat : n \in S => n + 1 \in S
  <2> SUFFICES ASSUME NEW n \in Nat, n \in S, NEW y \in T PROVE n + 1 <= y
    OBVIOUS
  <2>1. n \notin T /\ n <= y /\ y \in Nat
    OBVIOUS
  <2> QED BY <2>1
<1>3. Nat \subseteq S
  <2> HIDE DEF S
  <2> QED BY <1>1, <1>2, NatSetInduction
<1>4. PICK t \in T : TRUE
  OBVIOUS
<1>5. t \in Nat /\ t + 1 \in S
  BY <1>3
<1> QED BY <1>5

\* What holds of the empty set and stays true when an element is added holds of
\* every finite set.
LEMMA FiniteSubsetInduction ==
    ASSUME NEW U, NEW C, {} \in C,
           \A T \in SUBSET U, x \in U : T \in C => T \cup {x} \in C
    PROVE  \A T \in SUBSET U : IsFiniteSet(T) => T \in C
<1> DEFINE S == {n \in Nat : \A T \in SUBSET U :
                    IsFiniteSet(T) /\ Cardinality(T) = n => T \in C}
<1>1. 0 \in S
  BY FS_EmptySet
<1>2. \A n \in Nat : n \in S => n + 1 \in S
  <2> SUFFICES ASSUME NEW n \in Nat, n \in S, NEW T \in SUBSET U,
                      IsFiniteSet(T), Cardinality(T) = n + 1
               PROVE  T \in C
    OBVIOUS
  <2>1. T # {}
    BY FS_EmptySet
  <2>2. PICK x \in T : TRUE
    BY <2>1
  <2>3. IsFiniteSet(T \ {x}) /\ Cardinality(T \ {x}) = n
    <3>1. IsFiniteSet(T \ {x}) /\ Cardinality(T \ {x}) = Cardinality(T) - 1
      <4> HIDE DEF S
      <4> QED BY FS_RemoveElement
    <3> QED BY <3>1
  <2>4. T \ {x} \in C
    BY <2>3
  <2>5. (T \ {x}) \cup {x} = T
    OBVIOUS
  <2> QED BY <2>4, <2>5
<1>3. Nat \subseteq S
  <2> HIDE DEF S
  <2> QED BY <1>1, <1>2, NatSetInduction
<1> QED BY <1>3, FS_CardinalityType

LEMMA FiniteImage ==
    ASSUME NEW S, IsFiniteSet(S), NEW T, NEW f \in [S -> T], T = {f[x] : x \in S}
    PROVE  IsFiniteSet(T)
<1>1. f \in Surjection(S, T)
  BY DEF Surjection
<1> QED BY <1>1, FS_Surjection

LEMMA FiniteMaximum ==
    ASSUME NEW T \in SUBSET Int, IsFiniteSet(T), T # {}
    PROVE  Sets!Max(T) \in T /\ \A y \in T : Sets!Max(T) >= y
<1> DEFINE C == {D \in SUBSET Int : D # {} => \E x \in D : \A y \in D : x >= y}
<1>1. \A D \in SUBSET Int, x \in Int : D \in C => D \cup {x} \in C
  <2> SUFFICES ASSUME NEW D \in SUBSET Int, NEW x \in Int, D \in C
               PROVE  \E z \in D \cup {x} : \A y \in D \cup {x} : z >= y
    OBVIOUS
  <2>1. CASE D = {}
    BY <2>1
  <2>2. CASE D # {}
    <3>1. PICK z \in D : \A y \in D : z >= y
      BY <2>2
    <3>2. CASE z >= x
      BY <3>1, <3>2
    <3>3. CASE ~(z >= x)
      <4>1. \A y \in D \cup {x} : x >= y
        BY <3>1, <3>3
      <4> QED BY <4>1
    <3> QED BY <3>2, <3>3
  <2> QED BY <2>1, <2>2
<1>2. T \in C
  <2>1. {} \in C
    OBVIOUS
  <2> HIDE DEF C
  <2> QED BY <1>1, <2>1, FiniteSubsetInduction
<1> QED BY <1>2 DEF Sets!Max

-----------------------------------------------------------------------------
(* Powers of two and the bits of a number *)

LEMMA Pow2Def ==
    /\ Pow2 \in [Nat -> Nat]
    /\ Pow2[0] = 1
    /\ \A n \in Nat : Pow2[n + 1] = 2 * Pow2[n]
<1> DEFINE Approx(n) == {g \in [0..n -> Nat] :
                            \A k \in 0..n : g[k] = IF k = 0 THEN 1 ELSE 2 * g[k - 1]}
           S == {n \in Nat : Approx(n) # {}}
           A == {k \in Nat : \A m, n \in Nat : k <= m /\ k <= n =>
                    \A g \in Approx(m), h \in Approx(n) : g[k] = h[k]}
           f == [n \in Nat |-> (CHOOSE g \in Approx(n) : TRUE)[n]]
<1>1. 0 \in S
  <2>1. [k \in 0..0 |-> 1] \in Approx(0)
    OBVIOUS
  <2> QED BY <2>1
<1>2. \A n \in Nat : n \in S => n + 1 \in S
  <2> SUFFICES ASSUME NEW n \in Nat, n \in S PROVE n + 1 \in S
    OBVIOUS
  <2>1. PICK g \in Approx(n) : TRUE
    OBVIOUS
  <2> DEFINE h == [k \in 0..(n + 1) |-> IF k = n + 1 THEN 2 * g[n] ELSE g[k]]
  <2>2. h \in [0..(n + 1) -> Nat]
    BY <2>1
  <2>3. ASSUME NEW k \in 0..(n + 1) PROVE h[k] = IF k = 0 THEN 1 ELSE 2 * h[k - 1]
    <3>1. CASE k = n + 1
      BY <3>1, <2>1
    <3>2. CASE k # n + 1
      <4>1. k \in 0..n
        BY <3>2
      <4> QED BY <4>1, <2>1
    <3> QED BY <3>1, <3>2
  <2>4. h \in Approx(n + 1)
    <3> HIDE DEF h
    <3> QED BY <2>2, <2>3
  <2> HIDE DEF h, Approx
  <2> QED BY <2>4
<1>3. Nat \subseteq S
  <2> HIDE DEF S
  <2> QED BY <1>1, <1>2, NatSetInduction
<1>4. 0 \in A
  OBVIOUS
<1>5. \A k \in Nat : k \in A => k + 1 \in A
  <2> SUFFICES ASSUME NEW k \in Nat, k \in A, NEW m \in Nat, NEW n \in Nat,
                      k + 1 <= m, k + 1 <= n, NEW g \in Approx(m), NEW h \in Approx(n)
               PROVE  g[k + 1] = h[k + 1]
    <3> HIDE DEF Approx
    <3> QED OBVIOUS
  <2>1. g[k] = h[k]
    <3> HIDE DEF Approx
    <3>1. k <= m /\ k <= n
      OBVIOUS
    <3> QED BY <3>1
  <2>2. g[k + 1] = 2 * g[k] /\ h[k + 1] = 2 * h[k]
    <3> HIDE DEF A
    <3>1. k + 1 \in 0..m /\ k + 1 \in 0..n /\ k + 1 # 0 /\ (k + 1) - 1 = k
      OBVIOUS
    <3> QED BY <3>1
  <2> QED BY <2>1, <2>2
<1>6. Nat \subseteq A
  <2> HIDE DEF A
  <2> QED BY <1>4, <1>5, NatSetInduction
<1>7. ASSUME NEW n \in Nat
      PROVE  f[n] = IF n = 0 THEN 1 ELSE 2 * f[n - 1]
  <2> DEFINE g == CHOOSE x \in Approx(n) : TRUE
  <2>1. g \in Approx(n)
    <3> HIDE DEF Approx
    <3> QED BY <1>3
  <2>2. CASE n = 0
    <3>1. f[n] = g[n]
      <4> HIDE DEF Approx
      <4> QED OBVIOUS
    <3>2. g[0] = 1
      <4> HIDE DEF g
      <4> QED BY <2>1
    <3> HIDE DEF f, g
    <3> QED BY <3>1, <3>2, <2>2
  <2>3. CASE n # 0
    <3> DEFINE h == CHOOSE x \in Approx(n - 1) : TRUE
    <3>1. h \in Approx(n - 1) /\ n - 1 \in Nat
      <4>1. n - 1 \in Nat
        BY <2>3
      <4> HIDE DEF Approx
      <4> QED BY <1>3, <4>1
    <3>2. g[n] = 2 * g[n - 1]
      <4> HIDE DEF g
      <4>1. n \in 0..n
        OBVIOUS
      <4> QED BY <2>1, <2>3, <4>1
    <3>3. g[n - 1] = h[n - 1]
      <4>1. n - 1 \in A
        BY <1>6, <3>1
      <4> HIDE DEF g, h, Approx
      <4> QED BY <4>1, <2>1, <3>1
    <3>4. f[n] = g[n] /\ f[n - 1] = h[n - 1]
      <4> HIDE DEF Approx
      <4> QED BY <3>1
    <3> HIDE DEF g, h, f
    <3> QED BY <3>1, <3>2, <3>3, <3>4, <2>3
  <2> HIDE DEF f
  <2> QED BY <2>2, <2>3
<1>8. f = [n \in Nat |-> IF n = 0 THEN 1 ELSE 2 * f[n - 1]]
  <2>1. DOMAIN f = Nat /\ f = [n \in Nat |-> f[n]]
    OBVIOUS
  <2> HIDE DEF f
  <2> QED BY <1>7, <2>1
<1>9. Pow2 = [n \in Nat |-> IF n = 0 THEN 1 ELSE 2 * Pow2[n - 1]]
  <2> HIDE DEF f
  <2> QED BY <1>8 DEF Pow2
<1>10. \A n \in Nat : Pow2[n + 1] = 2 * Pow2[n]
  BY <1>9
<1>11. Pow2[0] = 1
  BY <1>9
<1>12. \A n \in Nat : Pow2[n] \in Nat
  <2> DEFINE D == {n \in Nat : Pow2[n] \in Nat}
  <2>1. 0 \in D /\ \A n \in Nat : n \in D => n + 1 \in D
    BY <1>10, <1>11
  <2> HIDE DEF D
  <2>2. Nat \subseteq D
    BY <2>1, NatSetInduction
  <2> QED BY <2>2 DEF D
<1> QED BY <1>9, <1>10, <1>11, <1>12

LEMMA Pow2Grows ==
    ASSUME NEW n \in Nat
    PROVE  /\ Pow2[n] \in Nat /\ Pow2[n] > n
           /\ \A m \in Nat : m < n => Pow2[m] < Pow2[n]
<1> DEFINE D == {k \in Nat : Pow2[k] > k}
           M == {k \in Nat : \A m \in Nat : m < k => Pow2[m] < Pow2[k]}
<1>1. \A k \in Nat : Pow2[k] \in Nat
  BY Pow2Def
<1>2. 0 \in D /\ \A k \in Nat : k \in D => k + 1 \in D
  BY <1>1, Pow2Def
<1>3. Nat \subseteq D
  <2> HIDE DEF D
  <2> QED BY <1>2, NatSetInduction
<1>4. 0 \in M
  OBVIOUS
<1>5. \A k \in Nat : k \in M => k + 1 \in M
  <2> SUFFICES ASSUME NEW k \in Nat, k \in M, NEW m \in Nat, m < k + 1
               PROVE  Pow2[m] < Pow2[k + 1]
    OBVIOUS
  <2>1. Pow2[m] <= Pow2[k]
    <3>1. CASE m = k
      BY <3>1, <1>1
    <3>2. CASE m # k
      <4>1. m < k
        BY <3>2
      <4>2. Pow2[m] < Pow2[k]
        BY <4>1
      <4> QED BY <4>2, <1>1
    <3> QED BY <3>1, <3>2
  <2>2. Pow2[k + 1] = 2 * Pow2[k] /\ Pow2[k] > k
    BY <1>3, Pow2Def
  <2> HIDE DEF M, D
  <2> QED BY <2>1, <2>2, <1>1
<1>6. Nat \subseteq M
  <2> HIDE DEF M
  <2> QED BY <1>4, <1>5, NatSetInduction
<1> QED BY <1>1, <1>3, <1>6

LEMMA CeilLog2Def ==
    ASSUME NEW n \in Nat \ {0}
    PROVE  /\ CeilLog2(n) \in Nat
           /\ Pow2[CeilLog2(n)] >= n
           /\ \A u \in Nat : u < CeilLog2(n) => Pow2[u] < n
<1> DEFINE T == {w \in Nat : Pow2[w] >= n}
<1>1. \A k \in Nat : Pow2[k] \in Nat /\ Pow2[k] > k
  BY Pow2Grows
<1>2. n \in T
  BY <1>1
<1>3. PICK w \in T : \A y \in T : w <= y
  <2> HIDE DEF T
  <2>1. T \in SUBSET Nat
    BY DEF T
  <2> QED BY <1>2, <2>1, NatMinimum
<1>4. w \in 0..n /\ Pow2[w] >= n
  BY <1>2, <1>3
<1>5. \A u \in 0..(w - 1) : Pow2[u] < n
  BY <1>1, <1>3
<1>6. /\ CeilLog2(n) \in 0..n
      /\ Pow2[CeilLog2(n)] >= n
      /\ \A u \in 0..(CeilLog2(n) - 1) : Pow2[u] < n
  <2> HIDE DEF T
  <2> QED BY <1>4, <1>5 DEF CeilLog2
<1>7. CeilLog2(n) \in Nat
  BY <1>6
<1>8. ASSUME NEW u \in Nat, u < CeilLog2(n) PROVE u \in 0..(CeilLog2(n) - 1)
  BY <1>7, <1>8
<1> QED BY <1>6, <1>7, <1>8

\* The number of one of n supersets fits its bits.
LEMMA IdSizeDef ==
    ASSUME NEW n \in Nat
    PROVE  IdSize(n) \in Nat \ {0} /\ Pow2[IdSize(n)] >= n
<1>1. CASE n > 1
  <2>1. CeilLog2(n) \in Nat /\ Pow2[CeilLog2(n)] >= n
    BY <1>1, CeilLog2Def
  <2>2. CeilLog2(n) # 0
    BY <1>1, <2>1, Pow2Def
  <2> QED BY <1>1, <2>1, <2>2 DEF IdSize
<1>2. CASE ~(n > 1)
  <2>1. Pow2[1] > 1 /\ Pow2[1] \in Nat
    BY Pow2Grows
  <2> QED BY <1>2, <2>1 DEF IdSize
<1> QED BY <1>1, <1>2

LEMMA IdSizeShrinks ==
    ASSUME NEW n \in Nat \ {0}
    PROVE  /\ IdSize(n) <= IdSize(n + 1)
           /\ n > 1 /\ SavesBit(n + 1) => IdSize(n) + 1 <= IdSize(n + 1)
<1>1. \A k \in Nat : Pow2[k] \in Nat /\ \A m \in Nat : m < k => Pow2[m] < Pow2[k]
  BY Pow2Grows
<1> DEFINE c == CeilLog2(n)
           d == CeilLog2(n + 1)
<1>2. c \in Nat /\ \A u \in Nat : u < c => Pow2[u] < n
  BY CeilLog2Def
<1>3. d \in Nat /\ Pow2[d] >= n + 1
  BY CeilLog2Def
<1> HIDE DEF c, d
<1>4. c <= d
  BY <1>1, <1>2, <1>3
<1>5. IdSize(n + 1) = d /\ IdSize(n) = IF n > 1 THEN c ELSE 1
  BY DEF IdSize, c, d
<1>6. IdSize(n) <= IdSize(n + 1)
  <2>1. d >= 1
    <3>1. Pow2[0] = 1
      BY Pow2Def
    <3> QED BY <3>1, <1>3
  <2> QED BY <1>4, <1>5, <2>1, <1>2, <1>3
<1>7. ASSUME n > 1, SavesBit(n + 1) PROVE IdSize(n) + 1 <= IdSize(n + 1)
  <2>1. PICK x \in 0..(n + 1) : n + 1 = Pow2[x] + 1
    BY <1>7 DEF SavesBit
  <2>2. x \in Nat /\ n = Pow2[x]
    BY <2>1, <1>1
  <2>3. c <= x
    BY <1>2, <2>2
  <2>4. x < d
    BY <1>1, <1>3, <2>2
  <2> QED BY <1>5, <1>7, <2>2, <2>3, <2>4, <1>2, <1>3
<1> QED BY <1>6, <1>7

\* The places of the ones among the w last bits of a.
Ones(a, w) == {b \in 1..w : (a \div Pow2[w - b]) % 2 = 1}

LEMMA HalfThenQuotient ==
    ASSUME NEW a \in Nat, NEW d \in Nat \ {0}
    PROVE  a \div (2 * d) = (a \div 2) \div d
  OBVIOUS

\* The bits of a number but the last are those of its half.
LEMMA OnesOfHalf ==
    ASSUME NEW a \in Nat, NEW w \in Nat
    PROVE  /\ Ones(a, w + 1) \cap (1..w) = Ones(a \div 2, w)
           /\ w + 1 \in Ones(a, w + 1) <=> a % 2 = 1
<1>1. ASSUME NEW b \in 1..w
      PROVE  a \div Pow2[(w + 1) - b] = (a \div 2) \div Pow2[w - b]
  <2>1. w - b \in Nat /\ (w + 1) - b = (w - b) + 1
    OBVIOUS
  <2>2. Pow2[(w - b) + 1] = 2 * Pow2[w - b] /\ Pow2[w - b] \in Nat \ {0}
    <3>1. Pow2[(w - b) + 1] = 2 * Pow2[w - b] /\ Pow2[w - b] \in Nat
      BY <2>1, Pow2Def
    <3>2. Pow2[w - b] > w - b
      BY <2>1, Pow2Grows
    <3> QED BY <2>1, <3>1, <3>2
  <2>3. a \div (2 * Pow2[w - b]) = (a \div 2) \div Pow2[w - b]
    BY <2>2, HalfThenQuotient
  <2> QED BY <2>1, <2>2, <2>3
<1>2. \A b \in 1..w : b \in Ones(a, w + 1) <=> b \in Ones(a \div 2, w)
  BY <1>1 DEF Ones
<1>3. Ones(a \div 2, w) \subseteq 1..w
  BY DEF Ones
<1>4. w + 1 \in Ones(a, w + 1) <=> a % 2 = 1
  <2>1. (w + 1) - (w + 1) = 0 /\ w + 1 \in 1..(w + 1)
    OBVIOUS
  <2>2. a \div 1 = a
    OBVIOUS
  <2> QED BY <2>1, <2>2, Pow2Def DEF Ones
<1> QED BY <1>2, <1>3, <1>4

\* The bits tell the numbers apart that fit them.
LEMMA OnesInjective ==
    ASSUME NEW w \in Nat, NEW a \in Nat, NEW c \in Nat,
           a < Pow2[w], c < Pow2[w], Ones(a, w) = Ones(c, w)
    PROVE  a = c
<1> DEFINE D == {v \in Nat : \A x, y \in Nat :
                    x < Pow2[v] /\ y < Pow2[v] /\ Ones(x, v) = Ones(y, v) => x = y}
<1>1. 0 \in D
  BY Pow2Def
<1>2. \A v \in Nat : v \in D => v + 1 \in D
  <2> SUFFICES ASSUME NEW v \in Nat, v \in D, NEW x \in Nat, NEW y \in Nat,
                      x < Pow2[v + 1], y < Pow2[v + 1], Ones(x, v + 1) = Ones(y, v + 1)
               PROVE  x = y
    OBVIOUS
  <2>1. Pow2[v + 1] = 2 * Pow2[v] /\ Pow2[v] \in Nat
    BY Pow2Def
  <2>2. /\ x \div 2 \in Nat /\ x \div 2 < Pow2[v]
        /\ y \div 2 \in Nat /\ y \div 2 < Pow2[v]
    BY <2>1
  <2>3. Ones(x \div 2, v) = Ones(y \div 2, v) /\ (x % 2 = 1 <=> y % 2 = 1)
    <3>1. /\ Ones(x, v + 1) \cap (1..v) = Ones(x \div 2, v)
          /\ v + 1 \in Ones(x, v + 1) <=> x % 2 = 1
      BY OnesOfHalf
    <3>2. /\ Ones(y, v + 1) \cap (1..v) = Ones(y \div 2, v)
          /\ v + 1 \in Ones(y, v + 1) <=> y % 2 = 1
      BY OnesOfHalf
    <3> QED BY <3>1, <3>2
  <2>4. x \div 2 = y \div 2
    BY <2>2, <2>3
  <2> HIDE DEF D
  <2> QED BY <2>3, <2>4
<1>3. Nat \subseteq D
  <2> HIDE DEF D
  <2> QED BY <1>1, <1>2, NatSetInduction
<1> QED BY <1>3

-----------------------------------------------------------------------------
(* Lists of a set *)

\* Some list has every element of a finite set once.
LEMMA ListedDef ==
    ASSUME NEW S, IsFiniteSet(S)
    PROVE  Listed(S) \in Seq(S)
<1>1. Cardinality(S) \in Nat /\ ExistsBijection(1..Cardinality(S), S)
  BY FS_CardinalityType
<1>2. \E f \in [1..Cardinality(S) -> S] : Seqs!IsInjective(f)
  BY <1>1 DEF ExistsBijection, Bijection, Injection, IsInjective, Seqs!IsInjective
<1>3. Listed(S) \in [1..Cardinality(S) -> S]
  <2>1. Seqs!Cardinality(S) = Cardinality(S)
    BY DEF Seqs!Cardinality, Cardinality, Seqs!IsFiniteSet, IsFiniteSet
  <2> QED BY <1>2, <2>1, Zenon DEF Listed, Seqs!SetToSeq
<1> QED BY <1>1, <1>3, SeqDef

ListsByLength(S, f) ==
    /\ f \in [1..Cardinality(S) -> S]
    /\ \A i, j \in DOMAIN f : i < j => f[i] # f[j] /\ Cardinality(f[i]) >= Cardinality(f[j])

\* Finite sets can be listed by length: the shortest of them last, the others before.
LEMMA ByLengthExists ==
    ASSUME NEW S, IsFiniteSet(S), \A s \in S : IsFiniteSet(s)
    PROVE  \E f : ListsByLength(S, f)
<1> DEFINE D == {n \in Nat : \A T \in SUBSET S : Cardinality(T) = n => \E f : ListsByLength(T, f)}
<1>1. 0 \in D
  <2> SUFFICES ASSUME NEW T \in SUBSET S, Cardinality(T) = 0
               PROVE  ListsByLength(T, [i \in 1..0 |-> {}])
    OBVIOUS
  <2> QED BY DEF ListsByLength
<1>2. \A n \in Nat : n \in D => n + 1 \in D
  <2> SUFFICES ASSUME NEW n \in Nat, n \in D, NEW T \in SUBSET S, Cardinality(T) = n + 1
               PROVE  \E f : ListsByLength(T, f)
    OBVIOUS
  <2>1. IsFiniteSet(T) /\ T # {}
    BY FS_Subset, FS_EmptySet
  <2>2. PICK x \in T : \A y \in T : Cardinality(x) <= Cardinality(y)
    <3> DEFINE C == {Cardinality(y) : y \in T}
    <3>1. C \in SUBSET Nat /\ C # {}
      BY <2>1, FS_CardinalityType
    <3>2. PICK c \in C : \A d \in C : c <= d
      <4> HIDE DEF C
      <4> QED BY <3>1, NatMinimum
    <3> QED BY <3>2
  <2>3. Cardinality(T \ {x}) = n
    <3>1. Cardinality(T \ {x}) = Cardinality(T) - 1
      <4> HIDE DEF D
      <4> QED BY <2>1, FS_RemoveElement
    <3> QED BY <3>1
  <2>4. PICK f : ListsByLength(T \ {x}, f)
    BY <2>3
  <2> DEFINE g == [i \in 1..(n + 1) |-> IF i = n + 1 THEN x ELSE f[i]]
  <2>5. f \in [1..n -> T \ {x}]
    BY <2>3, <2>4 DEF ListsByLength
  <2>6. g \in [1..(n + 1) -> T]
    BY <2>5
  <2>7. ASSUME NEW i \in 1..(n + 1), NEW j \in 1..(n + 1), i < j
        PROVE  g[i] # g[j] /\ Cardinality(g[i]) >= Cardinality(g[j])
    <3>1. i \in 1..n /\ g[i] = f[i] /\ f[i] \in T \ {x}
      BY <2>5, <2>7
    <3>2. CASE j = n + 1
      <4>1. Cardinality(x) \in Nat /\ Cardinality(f[i]) \in Nat
        BY <3>1, FS_CardinalityType
      <4> QED BY <2>2, <3>1, <3>2, <4>1
    <3>3. CASE j # n + 1
      <4>1. j \in 1..n /\ g[j] = f[j]
        BY <3>3
      <4> HIDE DEF g
      <4> QED BY <2>4, <2>5, <2>7, <3>1, <4>1 DEF ListsByLength
    <3> QED BY <3>2, <3>3
  <2>8. ListsByLength(T, g)
    <3> HIDE DEF g
    <3> QED BY <2>6, <2>7 DEF ListsByLength
  <2> QED BY <2>8
<1>3. Nat \subseteq D
  <2> HIDE DEF D
  <2> QED BY <1>1, <1>2, NatSetInduction
<1> QED BY <1>3, FS_CardinalityType

\* Listed by length are all of the sets.
LEMMA ByLengthDef ==
    ASSUME NEW S, IsFiniteSet(S), \A s \in S : IsFiniteSet(s)
    PROVE  /\ ByLength(S) \in Seq(S) /\ Len(ByLength(S)) = Cardinality(S)
           /\ \A s \in S : \E i \in DOMAIN ByLength(S) : ByLength(S)[i] = s
<1> DEFINE f == ByLength(S)
<1>1. ListsByLength(S, f)
  <2>1. \E g \in [1..Cardinality(S) -> S] : \A i, j \in DOMAIN g :
            i < j => g[i] # g[j] /\ Cardinality(g[i]) >= Cardinality(g[j])
    BY ByLengthExists DEF ListsByLength
  <2>2. /\ ByLength(S) \in [1..Cardinality(S) -> S]
        /\ \A i, j \in DOMAIN ByLength(S) : i < j =>
              /\ ByLength(S)[i] # ByLength(S)[j]
              /\ Cardinality(ByLength(S)[i]) >= Cardinality(ByLength(S)[j])
    BY <2>1, Zenon DEF ByLength
  <2> QED BY <2>2 DEF ListsByLength
<1> HIDE DEF f
<1>2. Cardinality(S) \in Nat
  BY FS_CardinalityType
<1>3. f \in Seq(S) /\ Len(f) = Cardinality(S)
  BY <1>1, <1>2, SeqDef DEF ListsByLength
<1>4. f \in Injection(1..Cardinality(S), S)
  <2>1. ASSUME NEW i \in 1..Cardinality(S), NEW j \in 1..Cardinality(S), f[i] = f[j]
        PROVE  i = j
    <3>1. ~(i < j) /\ ~(j < i)
      BY <1>1, <2>1 DEF ListsByLength
    <3> QED BY <3>1, <1>2
  <2> QED BY <1>1, <2>1 DEF ListsByLength, Injection, IsInjective
<1>5. f \in Surjection(1..Cardinality(S), S)
  <2>1. Cardinality(1..Cardinality(S)) = Cardinality(S)
    BY <1>2, FS_Interval
  <2> QED BY <1>4, <2>1, FS_Injection
<1>6. \A s \in S : \E i \in DOMAIN f : f[i] = s
  BY <1>5, <1>1 DEF Surjection, ListsByLength
<1> QED BY <1>3, <1>6 DEF f

\* Every one of finitely many finite sets is inside one that stays.
LEMMA RemoveSubsetsDef ==
    ASSUME NEW U, IsFiniteSet(U), NEW S \in SUBSET (SUBSET U)
    PROVE  /\ RemoveSubsets(S) \in Seq(SUBSET U)
           /\ S # {} => Len(RemoveSubsets(S)) > 0
           /\ \A x : S \subseteq {x} => Len(RemoveSubsets(S)) <= 1
           /\ \A s \in S : \E i \in DOMAIN RemoveSubsets(S) : s \subseteq RemoveSubsets(S)[i]
<1> DEFINE T == {s \in S : \A t \in S : s \subseteq t => t = s}
<1>1. IsFiniteSet(SUBSET U)
  BY FS_SUBSET
<1>2. IsFiniteSet(T) /\ \A s \in SUBSET U : IsFiniteSet(s) /\ Cardinality(s) \in Nat
  <2>1. IsFiniteSet(S)
    BY <1>1, FS_Subset
  <2>2. IsFiniteSet(T)
    BY <2>1, FS_Subset
  <2>3. \A s \in SUBSET U : IsFiniteSet(s)
    BY FS_Subset
  <2> QED BY <2>2, <2>3, FS_CardinalityType
<1>3. ASSUME NEW s \in S PROVE \E t \in T : s \subseteq t
  <2> DEFINE C == {Cardinality(t) : t \in {x \in S : s \subseteq x}}
  <2>1. C \in SUBSET Nat /\ C # {}
    BY <1>2
  <2>2. IsFiniteSet(C)
    <3>1. Cardinality(U) \in Nat /\ \A t \in SUBSET U : Cardinality(t) <= Cardinality(U)
      BY FS_Subset, FS_CardinalityType
    <3>2. \A c \in C : c <= Cardinality(U)
      BY <3>1
    <3> HIDE DEF C
    <3> QED BY <2>1, <3>1, <3>2, FS_BoundedSetOfNaturals
  <2>3. PICK c \in C : \A d \in C : c >= d
    <3> HIDE DEF C
    <3>1. C \in SUBSET Int
      BY <2>1
    <3> QED BY <3>1, <2>1, <2>2, FiniteMaximum
  <2>4. PICK t \in S : s \subseteq t /\ c = Cardinality(t)
    BY <2>3
  <2>5. ASSUME NEW x \in S, t \subseteq x PROVE x = t
    <3>1. Cardinality(x) <= Cardinality(t)
      BY <2>3, <2>4, <2>5
    <3>2. IsFiniteSet(x) /\ t \in SUBSET x /\ IsFiniteSet(t)
      BY <1>2, <2>5
    <3>3. Cardinality(t) <= Cardinality(x) /\ (Cardinality(x) = Cardinality(t) => x = t)
      <4> HIDE DEF C, T
      <4> QED BY <3>2, FS_Subset
    <3>4. Cardinality(x) \in Nat /\ Cardinality(t) \in Nat
      BY <1>2
    <3> QED BY <3>1, <3>3, <3>4
  <2> QED BY <2>4, <2>5
<1>4. /\ ByLength(T) \in Seq(T) /\ Len(ByLength(T)) = Cardinality(T)
      /\ \A s \in T : \E i \in DOMAIN ByLength(T) : ByLength(T)[i] = s
  <2>1. \A s \in T : IsFiniteSet(s)
    BY <1>2
  <2> HIDE DEF T
  <2> QED BY <1>2, <2>1, ByLengthDef
<1>5. RemoveSubsets(S) = ByLength(T)
  BY DEF RemoveSubsets
<1>6. T \subseteq SUBSET U
  OBVIOUS
<1>7. S # {} => T # {} /\ Cardinality(T) > 0
  <2>1. S # {} => T # {}
    BY <1>3
  <2> HIDE DEF T
  <2>2. Cardinality(T) \in Nat /\ (Cardinality(T) = 0 <=> T = {})
    BY <1>2, FS_EmptySet, FS_CardinalityType
  <2> QED BY <2>1, <2>2
<1> HIDE DEF T
<1>8. ByLength(T) \in Seq(SUBSET U)
  BY <1>4, <1>6, SeqMonotonic
<1>9. ASSUME NEW x, S \subseteq {x} PROVE Cardinality(T) <= 1
  <2>1. T \in SUBSET {x} /\ IsFiniteSet({x}) /\ Cardinality({x}) = 1
    BY <1>9, FS_Singleton DEF T
  <2> QED BY <2>1, FS_Subset
<1>10. S # {} => Len(ByLength(T)) > 0
  BY <1>4, <1>7
<1>11. \A x : S \subseteq {x} => Len(ByLength(T)) <= 1
  BY <1>4, <1>9
<1>12. \A s \in S : \E i \in DOMAIN ByLength(T) : s \subseteq ByLength(T)[i]
  <2> SUFFICES ASSUME NEW s \in S PROVE \E i \in DOMAIN ByLength(T) : s \subseteq ByLength(T)[i]
    OBVIOUS
  <2>1. PICK t \in T : s \subseteq t
    BY <1>3
  <2> QED BY <1>4, <2>1
<1> QED BY <1>5, <1>8, <1>10, <1>11, <1>12

-----------------------------------------------------------------------------
(* Counting rules *)

LEMMA RulesOfSetFinite ==
    ASSUME NEW U, IsFiniteSet(U), NEW weight \in [U -> Nat], NEW S \in SUBSET U
    PROVE  IsFiniteSet(RulesOfSet(S, weight)) /\ Cost(S, weight) \in Nat
<1> DEFINE C == {{q} \X (1..weight[q]) : q \in S}
<1>1. IsFiniteSet(C)
  <2> DEFINE f == [q \in S |-> {q} \X (1..weight[q])]
  <2>1. IsFiniteSet(S)
    BY FS_Subset
  <2>2. C = {f[q] : q \in S} /\ f \in [S -> C]
    OBVIOUS
  <2> HIDE DEF f, C
  <2> QED BY <2>1, <2>2, FiniteImage
<1>2. \A T \in C : IsFiniteSet(T)
  <2> SUFFICES ASSUME NEW q \in S PROVE IsFiniteSet({q} \X (1..weight[q]))
    OBVIOUS
  <2>1. weight[q] \in Nat
    OBVIOUS
  <2>2. IsFiniteSet({q})
    BY FS_Singleton
  <2>3. IsFiniteSet(1..weight[q])
    BY <2>1, FS_Interval
  <2> QED BY <2>2, <2>3, FS_Product
<1>3. IsFiniteSet(UNION C)
  <2> HIDE DEF C
  <2> QED BY <1>1, <1>2, FS_UNION
<1>4. RulesOfSet(S, weight) = UNION C
  BY DEF RulesOfSet
<1> HIDE DEF C
<1> QED BY <1>3, <1>4, FS_CardinalityType DEF Cost

LEMMA RulesOfSetIn ==
    ASSUME NEW S, NEW weight, NEW r
    PROVE  r \in RulesOfSet(S, weight) <=> \E q \in S : r \in {q} \X (1..weight[q])
  BY DEF RulesOfSet

\* A union costs what its parts cost but for what they share.
LEMMA CostOfUnion ==
    ASSUME NEW U, IsFiniteSet(U), NEW weight \in [U -> Nat],
           NEW S \in SUBSET U, NEW T \in SUBSET U
    PROVE  Cost(S \cup T, weight) = Cost(S, weight) + Cost(T, weight) - Cost(S \cap T, weight)
<1> DEFINE R(X) == RulesOfSet(X, weight)
<1>1. R(S \cup T) = R(S) \cup R(T)
  BY DEF RulesOfSet
<1>2. R(S \cap T) = R(S) \cap R(T)
  <2>1. R(S \cap T) \subseteq R(S) \cap R(T)
    BY DEF RulesOfSet
  <2>2. ASSUME NEW r, r \in R(S), r \in R(T) PROVE r \in R(S \cap T)
    <3>1. PICK q \in S : r \in {q} \X (1..weight[q])
      BY <2>2, RulesOfSetIn
    <3>2. PICK p \in T : r \in {p} \X (1..weight[p])
      BY <2>2, RulesOfSetIn
    <3>3. p = q
      BY <3>1, <3>2
    <3> QED BY <3>1, <3>2, <3>3, RulesOfSetIn
  <2> QED BY <2>1, <2>2
<1>3. IsFiniteSet(R(S)) /\ IsFiniteSet(R(T))
  BY RulesOfSetFinite
<1> HIDE DEF R
<1>4. Cardinality(R(S) \cup R(T)) = Cardinality(R(S)) + Cardinality(R(T)) - Cardinality(R(S) \cap R(T))
  BY <1>3, FS_Union
<1> QED BY <1>1, <1>2, <1>4 DEF Cost, R

\* The rules of the sets at the places in D.
RulesAt(sets, D, weight) == UNION {{i} \X RulesOfSet(sets[i], weight) : i \in D}

LEMMA RulesAtIn ==
    ASSUME NEW sets, NEW D, NEW weight, NEW r
    PROVE  r \in RulesAt(sets, D, weight)
             <=> \E i \in D : r \in {i} \X RulesOfSet(sets[i], weight)
  BY DEF RulesAt

LEMMA RulesAtFinite ==
    ASSUME NEW U, IsFiniteSet(U), NEW weight \in [U -> Nat],
           NEW D, IsFiniteSet(D), NEW sets, \A i \in D : sets[i] \in SUBSET U
    PROVE  /\ IsFiniteSet(RulesAt(sets, D, weight))
           /\ Cardinality(RulesAt(sets, D, weight)) \in Nat
<1> DEFINE C == {{i} \X RulesOfSet(sets[i], weight) : i \in D}
<1>1. IsFiniteSet(C)
  <2> DEFINE f == [i \in D |-> {i} \X RulesOfSet(sets[i], weight)]
  <2>1. C = {f[i] : i \in D} /\ f \in [D -> C]
    OBVIOUS
  <2> HIDE DEF f, C
  <2> QED BY <2>1, FiniteImage
<1>2. \A T \in C : IsFiniteSet(T)
  <2> SUFFICES ASSUME NEW i \in D PROVE IsFiniteSet({i} \X RulesOfSet(sets[i], weight))
    OBVIOUS
  <2>1. IsFiniteSet({i}) /\ IsFiniteSet(RulesOfSet(sets[i], weight))
    BY FS_Singleton, RulesOfSetFinite
  <2> QED BY <2>1, FS_Product
<1>3. IsFiniteSet(UNION C)
  <2> HIDE DEF C
  <2> QED BY <1>1, <1>2, FS_UNION
<1>4. RulesAt(sets, D, weight) = UNION C
  BY DEF RulesAt
<1> HIDE DEF C
<1> QED BY <1>3, <1>4, FS_CardinalityType

\* Each place adds the cost of its set.
LEMMA RulesAtSplit ==
    ASSUME NEW U, IsFiniteSet(U), NEW weight \in [U -> Nat],
           NEW D, IsFiniteSet(D), NEW sets, \A i \in D : sets[i] \in SUBSET U, NEW k \in D
    PROVE  Cardinality(RulesAt(sets, D, weight))
             = Cardinality(RulesAt(sets, D \ {k}, weight)) + Cost(sets[k], weight)
<1> DEFINE A == RulesAt(sets, D \ {k}, weight)
           B == {k} \X RulesOfSet(sets[k], weight)
<1>1. RulesAt(sets, D, weight) = A \cup B
  BY DEF RulesAt
<1>2. A \cap B = {}
  <2> SUFFICES ASSUME NEW r, r \in A, r \in B PROVE FALSE
    OBVIOUS
  <2>1. PICK i \in D \ {k} : r \in {i} \X RulesOfSet(sets[i], weight)
    BY RulesAtIn
  <2> QED BY <2>1
<1>3. IsFiniteSet(A) /\ Cardinality(A) \in Nat
  <2>1. IsFiniteSet(D \ {k})
    BY FS_RemoveElement
  <2> QED BY <2>1, RulesAtFinite
<1>4. /\ IsFiniteSet(B) /\ Cardinality(B) = Cost(sets[k], weight)
      /\ Cardinality(B) \in Nat
  <2>1. /\ IsFiniteSet({k}) /\ Cardinality({k}) = 1
        /\ IsFiniteSet(RulesOfSet(sets[k], weight)) /\ Cost(sets[k], weight) \in Nat
    BY FS_Singleton, RulesOfSetFinite
  <2>2. IsFiniteSet(B) /\ Cardinality(B) = 1 * Cost(sets[k], weight)
    BY <2>1, FS_Product DEF Cost
  <2> HIDE DEF B
  <2> QED BY <2>1, <2>2
<1> HIDE DEF A, B
<1>5. Cardinality(A \cup B) = Cardinality(A) + Cardinality(B) - Cardinality(A \cap B)
  BY <1>3, <1>4, FS_Union
<1>6. Cardinality(A \cap B) = 0
  BY <1>2, FS_EmptySet
<1> QED BY <1>1, <1>3, <1>4, <1>5, <1>6 DEF A

LEMMA RulesAtSame ==
    ASSUME NEW D, NEW sets, NEW others, NEW weight, \A i \in D : sets[i] = others[i]
    PROVE  RulesAt(sets, D, weight) = RulesAt(others, D, weight)
  BY DEF RulesAt

-----------------------------------------------------------------------------
(* Lists without one element *)

LEMMA RemoveAtDef ==
    ASSUME NEW S, NEW s \in Seq(S), NEW k \in 1..Len(s)
    PROVE  /\ Seqs!RemoveAt(s, k) \in Seq(S)
           /\ Len(Seqs!RemoveAt(s, k)) = Len(s) - 1
           /\ \A i \in 1..(Len(s) - 1) :
                 Seqs!RemoveAt(s, k)[i] = IF i < k THEN s[i] ELSE s[i + 1]
<1> DEFINE a == SubSeq(s, 1, k - 1)
           b == SubSeq(s, k + 1, Len(s))
<1>1. Len(s) \in Nat /\ k \in Int /\ \A i \in 1..Len(s) : s[i] \in S
  BY LenProperties, ElementOfSeq
<1>2. /\ a \in Seq(S) /\ Len(a) = k - 1
      /\ \A i \in 1..(k - 1) : a[i] = s[i]
  <2>1. \A i \in 1..(k - 1) : s[i] \in S
    BY <1>1
  <2>2. /\ a \in Seq(S) /\ Len(a) = IF 1 <= k - 1 THEN (k - 1) - 1 + 1 ELSE 0
        /\ \A i \in 1..((k - 1) - 1 + 1) : a[i] = s[1 + i - 1]
    BY <1>1, <2>1, SubSeqProperties
  <2> HIDE DEF a
  <2> QED BY <1>1, <2>2
<1>3. /\ b \in Seq(S) /\ Len(b) = Len(s) - k
      /\ \A i \in 1..(Len(s) - k) : b[i] = s[k + i]
  <2>1. \A i \in (k + 1)..Len(s) : s[i] \in S
    BY <1>1
  <2>2. /\ b \in Seq(S) /\ Len(b) = IF k + 1 <= Len(s) THEN Len(s) - (k + 1) + 1 ELSE 0
        /\ \A i \in 1..(Len(s) - (k + 1) + 1) : b[i] = s[(k + 1) + i - 1]
    BY <1>1, <2>1, SubSeqProperties
  <2> HIDE DEF b
  <2>3. \A i \in 1..(Len(s) - k) : i \in 1..(Len(s) - (k + 1) + 1) /\ (k + 1) + i - 1 = k + i
    BY <1>1
  <2> QED BY <1>1, <2>2, <2>3
<1>4. Seqs!RemoveAt(s, k) = a \o b
  BY DEF Seqs!RemoveAt
<1> HIDE DEF a, b
<1>5. /\ a \o b \in Seq(S) /\ Len(a \o b) = Len(a) + Len(b)
      /\ \A i \in 1..(Len(a) + Len(b)) : (a \o b)[i] = IF i <= Len(a) THEN a[i] ELSE b[i - Len(a)]
  BY <1>2, <1>3, ConcatProperties
<1>6. ASSUME NEW i \in 1..(Len(s) - 1)
      PROVE  (a \o b)[i] = IF i < k THEN s[i] ELSE s[i + 1]
  <2>1. CASE i < k
    BY <1>1, <1>2, <1>3, <1>5, <2>1
  <2>2. CASE ~(i < k)
    <3>1. i - Len(a) \in 1..(Len(s) - k) /\ k + (i - Len(a)) = i + 1
      BY <1>1, <1>2, <2>2
    <3>2. (a \o b)[i] = b[i - Len(a)]
      BY <1>1, <1>2, <1>3, <1>5, <2>2
    <3>3. b[i - Len(a)] = s[k + (i - Len(a))]
      BY <1>3, <3>1
    <3> QED BY <2>2, <3>1, <3>2, <3>3
  <2> QED BY <2>1, <2>2
<1> QED BY <1>1, <1>2, <1>3, <1>4, <1>5, <1>6

LEMMA RemoveFirstDef ==
    ASSUME NEW S, NEW s \in Seq(S), NEW e, \E i \in 1..Len(s) : s[i] = e
    PROVE  \E k \in 1..Len(s) : s[k] = e /\ Seqs!RemoveFirst(s, e) = Seqs!RemoveAt(s, k)
<1> DEFINE I == {i \in 1..Len(s) : s[i] = e}
           k == Seqs!Min(I)
<1>1. k \in I
  <2>1. I \in SUBSET Nat /\ I # {}
    OBVIOUS
  <2> HIDE DEF I
  <2>2. \E x \in I : \A y \in I : x <= y
    BY <2>1, NatMinimum
  <2> QED BY <2>2 DEF Seqs!Min
<1>2. Seqs!RemoveFirst(s, e) = Seqs!RemoveAt(s, Seqs!SelectInSeq(s, LAMBDA v : v = e))
  BY DEF Seqs!RemoveFirst
<1>3. Seqs!SelectInSeq(s, LAMBDA v : v = e) = k
  BY <1>1 DEF Seqs!SelectInSeq
<1> QED BY <1>1, <1>2, <1>3

-----------------------------------------------------------------------------
(* One round of merging *)

\* The rules of a list without the set at one place are those of the other places.
LEMMA RulesWithout ==
    ASSUME NEW U, IsFiniteSet(U), NEW weight \in [U -> Nat],
           NEW s \in Seq(SUBSET U), NEW k \in 1..Len(s)
    PROVE  RulesRequired(Seqs!RemoveAt(s, k), weight)
             <= Cardinality(RulesAt(s, (1..Len(s)) \ {k}, weight))
<1> DEFINE t == Seqs!RemoveAt(s, k)
           place(i) == IF i < k THEN i ELSE i + 1
           A == RulesAt(t, DOMAIN t, weight)
           B == RulesAt(s, (1..Len(s)) \ {k}, weight)
           f == [r \in A |-> <<place(r[1]), r[2]>>]
<1>1. /\ t \in Seq(SUBSET U) /\ DOMAIN t = 1..(Len(s) - 1) /\ Len(s) \in Nat
      /\ \A i \in 1..(Len(s) - 1) : t[i] = IF i < k THEN s[i] ELSE s[i + 1]
  <2>1. /\ t \in Seq(SUBSET U) /\ Len(t) = Len(s) - 1
        /\ \A i \in 1..(Len(s) - 1) : t[i] = IF i < k THEN s[i] ELSE s[i + 1]
    BY RemoveAtDef
  <2> HIDE DEF t
  <2>2. DOMAIN t = 1..Len(t) /\ Len(s) \in Nat
    BY <2>1, LenProperties
  <2> QED BY <2>1, <2>2
<1> HIDE DEF t
<1>2. ASSUME NEW r \in A
      PROVE  /\ f[r] \in B /\ r[1] \in 1..(Len(s) - 1)
             /\ r = <<r[1], r[2]>> /\ f[r] = <<place(r[1]), r[2]>>
  <2>1. PICK i \in DOMAIN t : r \in {i} \X RulesOfSet(t[i], weight)
    BY RulesAtIn
  <2>2. r[1] = i /\ r = <<r[1], r[2]>> /\ r[2] \in RulesOfSet(t[i], weight)
    BY <2>1
  <2>3. place(i) \in (1..Len(s)) \ {k} /\ t[i] = s[place(i)]
    BY <1>1
  <2>4. f[r] = <<place(i), r[2]>>
    <3> HIDE DEF A
    <3> QED BY <2>2
  <2>5. f[r] \in {place(i)} \X RulesOfSet(s[place(i)], weight)
    <3> HIDE DEF f, place
    <3> QED BY <2>2, <2>3, <2>4
  <2>6. f[r] \in B
    <3> HIDE DEF f, place
    <3> QED BY <2>3, <2>5, RulesAtIn
  <2> HIDE DEF f
  <2> QED BY <1>1, <2>2, <2>4, <2>6
<1>3. f \in Injection(A, B)
  <2> HIDE DEF A, B
  <2>1. f \in [A -> B]
    BY <1>2
  <2>2. ASSUME NEW q \in A, NEW r \in A, f[q] = f[r] PROVE q = r
    <3> HIDE DEF f
    <3>1. q[2] = r[2] /\ place(q[1]) = place(r[1])
      <4> HIDE DEF place
      <4> QED BY <1>2, <2>2
    <3>2. q[1] = r[1]
      BY <1>2, <3>1
    <3> QED BY <1>2, <3>1, <3>2
  <2> HIDE DEF f
  <2> QED BY <2>1, <2>2 DEF Injection, IsInjective
<1>4. IsFiniteSet(B)
  <2>1. IsFiniteSet((1..Len(s)) \ {k})
    <3>1. IsFiniteSet(1..Len(s))
      BY <1>1, FS_Interval
    <3> QED BY <3>1, FS_RemoveElement
  <2>2. \A i \in (1..Len(s)) \ {k} : s[i] \in SUBSET U
    BY ElementOfSeq
  <2> QED BY <2>1, <2>2, RulesAtFinite
<1>5. RulesRequired(t, weight) = Cardinality(A)
  BY DEF RulesRequired, RulesAt
<1> HIDE DEF A, B, f
<1>6. Cardinality(A) <= Cardinality(B)
  BY <1>3, <1>4, FS_Injection
<1> QED BY <1>5, <1>6 DEF B, t

\* Some set of a list is the longest.
LEMMA LongestDef ==
    ASSUME NEW U, IsFiniteSet(U), NEW sets \in Seq(SUBSET U)
    PROVE  /\ Longest(sets) \in Nat
           /\ \A i \in DOMAIN sets : /\ Cardinality(sets[i]) \in Nat
                                     /\ Cardinality(sets[i]) <= Longest(sets)
           /\ \A n \in Nat : (\A i \in DOMAIN sets : Cardinality(sets[i]) <= n)
                                => Longest(sets) <= n
<1> DEFINE C == {Cardinality(sets[i]) : i \in DOMAIN sets} \cup {0}
<1>1. DOMAIN sets = 1..Len(sets) /\ Len(sets) \in Nat
  BY LenProperties
<1>2. \A i \in DOMAIN sets : IsFiniteSet(sets[i]) /\ Cardinality(sets[i]) \in Nat
  <2> SUFFICES ASSUME NEW i \in DOMAIN sets
               PROVE  IsFiniteSet(sets[i]) /\ Cardinality(sets[i]) \in Nat
    OBVIOUS
  <2>1. sets[i] \in SUBSET U
    BY <1>1, ElementOfSeq
  <2>2. IsFiniteSet(sets[i])
    BY <2>1, FS_Subset
  <2> QED BY <2>2, FS_CardinalityType
<1>3. IsFiniteSet(C)
  <2> DEFINE T == {Cardinality(sets[i]) : i \in DOMAIN sets}
             f == [i \in DOMAIN sets |-> Cardinality(sets[i])]
  <2>1. T = {f[i] : i \in DOMAIN sets} /\ f \in [DOMAIN sets -> T]
    OBVIOUS
  <2>2. IsFiniteSet(DOMAIN sets)
    BY <1>1, FS_Interval
  <2>3. IsFiniteSet(T)
    <3> HIDE DEF T, f
    <3> QED BY <2>1, <2>2, FiniteImage
  <2> HIDE DEF T
  <2>4. IsFiniteSet(T \cup {0})
    BY <2>3, FS_AddElement
  <2> QED BY <2>4 DEF T
<1>4. Longest(sets) \in C /\ \A y \in C : Longest(sets) >= y
  <2>1. C \in SUBSET Int /\ C # {}
    BY <1>2
  <2>2. Longest(sets) = Sets!Max(C)
    BY DEF Longest
  <2> HIDE DEF C
  <2> QED BY <1>3, <2>1, <2>2, FiniteMaximum
<1> QED BY <1>2, <1>4

\* Of the pairs that save most there is a first one.
LEMMA BestPairExists ==
    ASSUME NEW U, IsFiniteSet(U), NEW weight \in [U -> Nat], NEW sets \in Seq(SUBSET U),
           NEW pairs \in SUBSET ((DOMAIN sets) \X (DOMAIN sets)), pairs # {}
    PROVE  BestPair(sets, weight, pairs) \in pairs
<1> DEFINE save(r) == Cost(sets[r[1]] \cap sets[r[2]], weight)
           C == {save(p) : p \in pairs}
<1>1. DOMAIN sets = 1..Len(sets) /\ Len(sets) \in Nat
  BY LenProperties
<1>2. \A p \in pairs : save(p) \in Nat
  <2> SUFFICES ASSUME NEW p \in pairs PROVE save(p) \in Nat
    OBVIOUS
  <2>1. sets[p[1]] \cap sets[p[2]] \in SUBSET U
    BY <1>1, ElementOfSeq
  <2> QED BY <2>1, RulesOfSetFinite
<1> HIDE DEF save
<1>3. IsFiniteSet(C) /\ C # {} /\ C \in SUBSET Int
  <2>1. IsFiniteSet(pairs)
    <3>1. IsFiniteSet(DOMAIN sets)
      BY <1>1, FS_Interval
    <3>2. IsFiniteSet((DOMAIN sets) \X (DOMAIN sets))
      BY <3>1, FS_Product
    <3> QED BY <3>2, FS_Subset
  <2> DEFINE f == [p \in pairs |-> save(p)]
  <2>2. C = {f[p] : p \in pairs} /\ f \in [pairs -> C]
    OBVIOUS
  <2>3. IsFiniteSet(C)
    <3> HIDE DEF C, f
    <3> QED BY <2>1, <2>2, FiniteImage
  <2> QED BY <2>3, <1>2
<1>4. PICK c \in C : \A d \in C : c >= d
  <2> HIDE DEF C
  <2> QED BY <1>3, FiniteMaximum
<1> DEFINE F == {i \in DOMAIN sets : \E p \in pairs : save(p) = c /\ p[1] = i}
<1>5. F \in SUBSET Nat /\ F # {}
  BY <1>1, <1>4
<1>6. PICK i \in F : \A k \in F : i <= k
  <2> HIDE DEF F
  <2> QED BY <1>5, NatMinimum
<1> DEFINE G == {j \in DOMAIN sets : \E p \in pairs : save(p) = c /\ p[1] = i /\ p[2] = j}
<1>7. G \in SUBSET Nat /\ G # {}
  BY <1>1, <1>6
<1>8. PICK j \in G : \A k \in G : j <= k
  <2> HIDE DEF G
  <2> QED BY <1>7, NatMinimum
<1>9. PICK p \in pairs : save(p) = c /\ p[1] = i /\ p[2] = j
  BY <1>8
<1>10. ASSUME NEW q \in pairs
       PROVE  \/ save(p) > save(q)
              \/ /\ save(p) = save(q)
                 /\ p[1] < q[1] \/ (p[1] = q[1] /\ p[2] <= q[2])
  <2>1. c >= save(q) /\ save(q) \in Nat /\ c \in Nat
    BY <1>2, <1>4, <1>9
  <2>2. CASE save(q) = c
    <3>1. q[1] \in F /\ i <= q[1] /\ q[1] \in Nat /\ i \in Nat
      BY <1>1, <1>5, <1>6, <2>2
    <3>2. q[1] = i => q[2] \in G /\ j <= q[2]
      BY <1>8, <2>2
    <3> HIDE DEF F, G
    <3> QED BY <1>9, <2>2, <3>1, <3>2
  <2>3. CASE save(q) # c
    <3>1. c > save(q)
      BY <2>1, <2>3
    <3> QED BY <1>9, <3>1
  <2> QED BY <2>2, <2>3
<1>11. \E x \in pairs : \A q \in pairs :
           \/ save(x) > save(q)
           \/ /\ save(x) = save(q)
              /\ x[1] < q[1] \/ (x[1] = q[1] /\ x[2] <= q[2])
  BY <1>10
<1>12. \E x \in pairs : \A q \in pairs :
         LET saves(r) == Cost(sets[r[1]] \cap sets[r[2]], weight)
         IN \/ saves(x) > saves(q)
            \/ /\ saves(x) = saves(q)
               /\ x[1] < q[1] \/ (x[1] = q[1] /\ x[2] <= q[2])
  BY <1>11, Zenon DEF save
<1> QED BY <1>12, Zenon DEF BestPair

\* Sets that serve as well as the given ones, in no more rules, and within the bits
\* unless they are the given ones.
Serves(packed, sets, weight, maxBits) ==
    /\ \A a \in DOMAIN sets : \E b \in DOMAIN packed : sets[a] \subseteq packed[b]
    /\ RulesRequired(packed, weight) <= RulesRequired(sets, weight)
    /\ packed # sets =>
          BitsRequired(packed) <= maxBits + (IF Len(packed) > 1 THEN 0 ELSE 1)

\* The i-th set has become its union with the j-th.
Widens(wider, sets, i, j, U) ==
    /\ wider \in Seq(SUBSET U) /\ Len(wider) = Len(sets)
    /\ \A a \in DOMAIN sets : wider[a] = IF a = i THEN sets[i] \cup sets[j] ELSE sets[a]

\* One set less, but each of the sets is inside some set, of which one may be u.
KeepsSets(t, sets, u, S) ==
    /\ t \in Seq(SUBSET S) /\ Len(t) = Len(sets) - 1 /\ Len(t) \in Nat \ {0}
    /\ \A a \in DOMAIN sets : \E b \in DOMAIN t : sets[a] \subseteq t[b]
    /\ \A b \in DOMAIN t : t[b] = u \/ \E a \in DOMAIN sets : t[b] = sets[a]

\* Where the second set goes: the union takes the first one's place, and the place
\* that is given up held a set the union contains.
LEMMA MergeKeepsSets ==
    ASSUME NEW S, NEW sets \in Seq(SUBSET S),
           NEW i \in DOMAIN sets, NEW j \in DOMAIN sets, sets[i] # sets[j],
           NEW wider, Widens(wider, sets, i, j, S),
           NEW k \in DOMAIN sets, wider[k] = sets[j]
    PROVE  KeepsSets(Seqs!RemoveAt(wider, k), sets, sets[i] \cup sets[j], S)
<1> DEFINE t == Seqs!RemoveAt(wider, k)
<1>1. DOMAIN sets = 1..Len(sets) /\ Len(sets) \in Nat /\ \A a \in DOMAIN sets : sets[a] \in SUBSET S
  BY LenProperties, ElementOfSeq
<1>2. /\ wider \in Seq(SUBSET S) /\ Len(wider) = Len(sets)
      /\ \A a \in DOMAIN sets : wider[a] = IF a = i THEN sets[i] \cup sets[j] ELSE sets[a]
  BY DEF Widens
<1>3. /\ t \in Seq(SUBSET S) /\ Len(t) = Len(sets) - 1
      /\ \A b \in 1..(Len(sets) - 1) : t[b] = IF b < k THEN wider[b] ELSE wider[b + 1]
  <2>1. k \in 1..Len(wider)
    BY <1>1, <1>2
  <2>2. /\ t \in Seq(SUBSET S) /\ Len(t) = Len(wider) - 1
        /\ \A b \in 1..(Len(wider) - 1) : t[b] = IF b < k THEN wider[b] ELSE wider[b + 1]
    BY <1>2, <2>1, RemoveAtDef
  <2> QED BY <1>2, <2>2
<1> HIDE DEF t
<1>4. Len(sets) > 1 /\ i # j
  BY <1>1
<1>5. DOMAIN t = 1..(Len(sets) - 1)
  BY <1>1, <1>3, LenProperties
<1>6. ASSUME NEW a \in DOMAIN sets, a # k
      PROVE  \E b \in DOMAIN t : t[b] = wider[a]
  <2>1. CASE a < k
    BY <1>1, <1>3, <1>5, <2>1
  <2>2. CASE ~(a < k)
    <3>1. a - 1 \in 1..(Len(sets) - 1) /\ ~(a - 1 < k) /\ (a - 1) + 1 = a
      BY <1>1, <1>6, <2>2
    <3>2. t[a - 1] = wider[(a - 1) + 1]
      BY <1>3, <3>1
    <3> QED BY <1>5, <3>1, <3>2
  <2> QED BY <2>1, <2>2
<1>7. ASSUME NEW a \in DOMAIN sets
      PROVE  \E b \in DOMAIN t : sets[a] \subseteq t[b]
  <2>1. sets[a] \subseteq wider[a]
    BY <1>2
  <2>2. CASE a # k
    BY <1>6, <2>1, <2>2
  <2>3. CASE a = k
    <3>1. sets[a] \subseteq sets[j]
      BY <2>1, <2>3
    <3>2. CASE k = i
      <4>1. wider[j] = sets[j] /\ j # k
        BY <1>2, <1>4, <3>2
      <4> QED BY <1>6, <3>1, <4>1
    <3>3. CASE k # i
      <4>1. sets[j] \subseteq wider[i]
        BY <1>2
      <4> QED BY <1>6, <3>1, <3>3, <4>1
    <3> QED BY <3>2, <3>3
  <2> QED BY <2>2, <2>3
<1>8. ASSUME NEW b \in DOMAIN t
      PROVE  t[b] = sets[i] \cup sets[j] \/ \E a \in DOMAIN sets : t[b] = sets[a]
  <2>1. PICK a \in DOMAIN sets : t[b] = wider[a]
    <3>1. CASE b < k
      <4>1. b \in DOMAIN sets
        BY <1>1, <1>5
      <4> QED BY <1>3, <1>5, <3>1, <4>1
    <3>2. CASE ~(b < k)
      <4>1. b + 1 \in DOMAIN sets
        BY <1>1, <1>5
      <4> QED BY <1>3, <1>5, <3>2, <4>1
    <3> QED BY <3>1, <3>2
  <2> QED BY <1>2, <2>1
<1>9. Len(t) \in Nat \ {0}
  BY <1>1, <1>3, <1>4
<1>10. KeepsSets(t, sets, sets[i] \cup sets[j], S)
  BY <1>3, <1>7, <1>8, <1>9 DEF KeepsSets
<1> QED BY <1>10 DEF t

\* What the union adds is at most what the second set needed.
LEMMA MergeSavesRules ==
    ASSUME NEW U, IsFiniteSet(U), NEW weight \in [U -> Nat], NEW sets \in Seq(SUBSET U),
           NEW i \in DOMAIN sets, NEW j \in DOMAIN sets,
           NEW wider, Widens(wider, sets, i, j, U),
           NEW k \in DOMAIN sets, wider[k] = sets[j]
    PROVE  RulesRequired(Seqs!RemoveAt(wider, k), weight) <= RulesRequired(sets, weight)
<1> DEFINE D == DOMAIN sets
           R(s, E) == Cardinality(RulesAt(s, E, weight))
           u == sets[i] \cup sets[j]
<1>1. /\ D = 1..Len(sets) /\ Len(sets) \in Nat /\ \A a \in D : sets[a] \in SUBSET U
      /\ IsFiniteSet(D) /\ i \in D /\ j \in D /\ k \in D
  <2>1. D = 1..Len(sets) /\ Len(sets) \in Nat
    BY LenProperties
  <2>2. \A a \in D : sets[a] \in SUBSET U
    BY <2>1, ElementOfSeq
  <2>3. IsFiniteSet(1..Len(sets))
    BY <2>1, FS_Interval
  <2>4. i \in D /\ j \in D /\ k \in D
    OBVIOUS
  <2> HIDE DEF D
  <2> QED BY <2>1, <2>2, <2>3, <2>4
<1>0. RulesRequired(sets, weight) = R(sets, D)
  BY DEF RulesRequired, RulesAt
<1> HIDE DEF D
<1>2. /\ wider \in Seq(SUBSET U) /\ Len(wider) = Len(sets)
      /\ \A a \in D : wider[a] = IF a = i THEN u ELSE sets[a]
  BY DEF Widens, D
<1> HIDE DEF u
<1>3. \A a \in D : wider[a] \in SUBSET U
  BY <1>1, <1>2 DEF u
<1>4. RulesRequired(Seqs!RemoveAt(wider, k), weight) <= R(wider, D \ {k})
  BY <1>1, <1>2, RulesWithout
<1>14. ASSUME NEW m \in D
       PROVE  R(wider, D) = R(wider, D \ {m}) + Cost(wider[m], weight)
  <2>1. IsFiniteSet(D)
    BY <1>1
  <2> QED BY <2>1, <1>3, RulesAtSplit
<1>5. R(wider, D) = R(wider, D \ {k}) + Cost(sets[j], weight)
  <2> HIDE DEF R
  <2> QED BY <1>1, <1>14
<1>6. R(wider, D) = R(wider, D \ {i}) + Cost(u, weight)
  <2>1. wider[i] = u
    BY <1>1, <1>2
  <2> HIDE DEF R
  <2> QED BY <1>1, <1>14, <2>1
<1>7. R(wider, D \ {i}) = R(sets, D \ {i})
  <2>1. \A a \in D \ {i} : wider[a] = sets[a]
    BY <1>2
  <2> QED BY <2>1, RulesAtSame
<1>8. R(sets, D) = R(sets, D \ {i}) + Cost(sets[i], weight)
  <2>1. IsFiniteSet(D) /\ (\A a \in D : sets[a] \in SUBSET U) /\ i \in D
    BY <1>1
  <2> QED BY <2>1, RulesAtSplit
<1>9. Cost(u, weight) = Cost(sets[i], weight) + Cost(sets[j], weight) - Cost(sets[i] \cap sets[j], weight)
  BY <1>1, CostOfUnion DEF u
<1>10. /\ Cost(u, weight) \in Nat /\ Cost(sets[i], weight) \in Nat /\ Cost(sets[j], weight) \in Nat
       /\ Cost(sets[i] \cap sets[j], weight) \in Nat
  <2>1. u \in SUBSET U /\ sets[i] \cap sets[j] \in SUBSET U
    BY <1>1 DEF u
  <2> QED BY <1>1, <2>1, RulesOfSetFinite
<1>11. R(wider, D \ {k}) \in Nat /\ R(sets, D \ {i}) \in Nat
  <2>1. IsFiniteSet(D \ {k}) /\ IsFiniteSet(D \ {i})
    BY <1>1, FS_RemoveElement
  <2>2. R(wider, D \ {k}) \in Nat
    BY <1>3, <2>1, RulesAtFinite
  <2>3. R(sets, D \ {i}) \in Nat
    BY <1>1, <2>1, RulesAtFinite
  <2> QED BY <2>2, <2>3
<1>12. RulesRequired(Seqs!RemoveAt(wider, k), weight) \in Nat
  <2> DEFINE t == Seqs!RemoveAt(wider, k)
  <2>1. t \in Seq(SUBSET U) /\ k \in 1..Len(wider)
    BY <1>1, <1>2, RemoveAtDef
  <2>2. /\ IsFiniteSet(DOMAIN t) /\ \A a \in DOMAIN t : t[a] \in SUBSET U
    <3> HIDE DEF t
    <3>1. DOMAIN t = 1..Len(t) /\ Len(t) \in Nat
      BY <2>1, LenProperties
    <3>2. \A a \in DOMAIN t : t[a] \in SUBSET U
      BY <2>1, <3>1, ElementOfSeq
    <3>3. IsFiniteSet(1..Len(t))
      BY <3>1, FS_Interval
    <3> QED BY <3>1, <3>2, <3>3
  <2>3. Cardinality(RulesAt(t, DOMAIN t, weight)) \in Nat
    <3> HIDE DEF t
    <3> QED BY <2>2, RulesAtFinite
  <2> QED BY <2>3 DEF RulesRequired, RulesAt
<1> HIDE DEF R
<1> QED BY <1>0, <1>4, <1>5, <1>6, <1>7, <1>8, <1>9, <1>10, <1>11, <1>12

\* A merge stays within the bits, or needs one more if a single set is left: from
\* 2^x + 1 sets it does save a bit of their number unless there were just two.
LEMMA MergeFitsBits ==
    ASSUME NEW n \in Nat \ {0}, NEW old \in Nat, NEW new \in Nat, NEW size \in Nat,
           NEW maxBits \in Int, new <= (IF size > old THEN size ELSE old),
           IdSize(n + 1) + old - (IF SavesBit(n + 1) THEN 1 ELSE 0)
             + (IF size > old THEN size - old ELSE 0) <= maxBits
    PROVE  IdSize(n) + new <= maxBits + (IF n > 1 THEN 0 ELSE 1)
<1>1. IdSize(n) \in Nat /\ IdSize(n + 1) \in Nat
  BY IdSizeDef
<1>2. /\ IdSize(n) <= IdSize(n + 1)
      /\ n > 1 /\ SavesBit(n + 1) => IdSize(n) + 1 <= IdSize(n + 1)
  BY IdSizeShrinks
<1>3. CASE SavesBit(n + 1)
  <2>1. CASE n > 1
    BY <1>1, <1>2, <1>3, <2>1
  <2>2. CASE ~(n > 1)
    BY <1>1, <1>2, <1>3, <2>2
  <2> QED BY <2>1, <2>2
<1>4. CASE ~SavesBit(n + 1)
  BY <1>1, <1>2, <1>4
<1> QED BY <1>3, <1>4

LEMMA MaxWithZero ==
    ASSUME NEW n \in Int
    PROVE  Sets!Max({0, n}) = IF n > 0 THEN n ELSE 0
<1>1. {0, n} \in SUBSET Int /\ IsFiniteSet({0, n}) /\ {0, n} # {}
  <2>1. IsFiniteSet({0} \cup {n})
    BY FS_Singleton, FS_Union
  <2>2. {0} \cup {n} = {0, n}
    OBVIOUS
  <2> QED BY <2>1, <2>2
<1>2. Sets!Max({0, n}) \in {0, n} /\ \A y \in {0, n} : Sets!Max({0, n}) >= y
  BY <1>1, FiniteMaximum
<1> QED BY <1>2

\* A round merges nothing, when no pair is worth it, or shortens the list by one.
LEMMA MergedServes ==
    ASSUME NEW U, IsFiniteSet(U), NEW weight \in [U -> Nat], NEW sets \in Seq(SUBSET U),
           NEW maxBits \in Int, Pairs(sets, weight, maxBits) # {}
    PROVE  LET t == Merged(sets, weight, maxBits)
           IN /\ t \in Seq(SUBSET U) /\ Len(t) = Len(sets) - 1 /\ Len(t) \in Nat \ {0}
              /\ \A a \in DOMAIN sets : \E b \in DOMAIN t : sets[a] \subseteq t[b]
              /\ RulesRequired(t, weight) <= RulesRequired(sets, weight)
              /\ BitsRequired(t) <= maxBits + (IF Len(t) > 1 THEN 0 ELSE 1)
<1> DEFINE pairs == Pairs(sets, weight, maxBits)
           p == BestPair(sets, weight, pairs)
           u == sets[p[1]] \cup sets[p[2]]
           wider == [sets EXCEPT ![p[1]] = @ \cup sets[p[2]]]
           t == Merged(sets, weight, maxBits)
           saved == IF SavesBit(Len(sets)) THEN 1 ELSE 0
<1>1. /\ DOMAIN sets = 1..Len(sets) /\ Len(sets) \in Nat
      /\ \A a \in DOMAIN sets : sets[a] \in SUBSET U
  <2>1. DOMAIN sets = 1..Len(sets) /\ Len(sets) \in Nat
    BY LenProperties
  <2> QED BY <2>1, ElementOfSeq
<1>2. p \in pairs
  <2>1. pairs \in SUBSET ((DOMAIN sets) \X (DOMAIN sets)) /\ pairs # {}
    BY DEF Pairs
  <2> HIDE DEF pairs
  <2> QED BY <2>1, BestPairExists
<1>3. t = Seqs!RemoveFirst(wider, sets[p[2]])
  BY DEF Merged
<1>4. /\ p[1] \in DOMAIN sets /\ p[2] \in DOMAIN sets /\ sets[p[1]] # sets[p[2]]
      /\ BitsRequired(sets) - saved + Sets!Max({0, Cardinality(u) - Longest(sets)}) <= maxBits
  <2> HIDE DEF p
  <2> QED BY <1>2 DEF Pairs
<1> HIDE DEF p, pairs
<1>5. Widens(wider, sets, p[1], p[2], U)
  <2>1. u \in SUBSET U /\ p[1] \in 1..Len(sets)
    BY <1>1, <1>4
  <2>2. wider = [sets EXCEPT ![p[1]] = u]
    OBVIOUS
  <2> HIDE DEF u, wider
  <2>3. /\ wider \in Seq(SUBSET U) /\ Len(wider) = Len(sets)
        /\ \A a \in 1..Len(sets) : wider[a] = IF a = p[1] THEN u ELSE sets[a]
    BY <2>1, <2>2, ExceptSeq
  <2> QED BY <1>1, <2>3 DEF Widens, u
<1> HIDE DEF wider
<1>6. PICK k \in DOMAIN sets : wider[k] = sets[p[2]] /\ t = Seqs!RemoveAt(wider, k)
  <2>1. wider \in Seq(SUBSET U) /\ 1..Len(wider) = DOMAIN sets
    BY <1>1, <1>5 DEF Widens
  <2>2. \E i \in 1..Len(wider) : wider[i] = sets[p[2]]
    <3>1. p[1] # p[2]
      BY <1>4
    <3> QED BY <1>4, <1>5, <2>1, <3>1 DEF Widens
  <2>3. \E k \in 1..Len(wider) : wider[k] = sets[p[2]]
                /\ Seqs!RemoveFirst(wider, sets[p[2]]) = Seqs!RemoveAt(wider, k)
    <3> HIDE DEF t
    <3> QED BY <2>1, <2>2, RemoveFirstDef
  <2> HIDE DEF t
  <2> QED BY <1>3, <2>1, <2>3
<1> HIDE DEF t
<1>7. /\ t \in Seq(SUBSET U) /\ Len(t) = Len(sets) - 1 /\ Len(t) \in Nat \ {0}
      /\ \A a \in DOMAIN sets : \E b \in DOMAIN t : sets[a] \subseteq t[b]
      /\ \A b \in DOMAIN t : t[b] = u \/ \E a \in DOMAIN sets : t[b] = sets[a]
  <2>1. KeepsSets(t, sets, u, U)
    BY <1>4, <1>5, <1>6, MergeKeepsSets
  <2> HIDE DEF u
  <2> QED BY <2>1 DEF KeepsSets
<1>8. RulesRequired(t, weight) <= RulesRequired(sets, weight)
  BY <1>4, <1>5, <1>6, MergeSavesRules
<1>9. BitsRequired(t) <= maxBits + (IF Len(t) > 1 THEN 0 ELSE 1)
  <2>1. u \in SUBSET U /\ Cardinality(u) \in Nat
    <3>1. u \in SUBSET U
      BY <1>1, <1>4
    <3>2. IsFiniteSet(u)
      BY <3>1, FS_Subset
    <3> QED BY <3>1, <3>2, FS_CardinalityType
  <2> HIDE DEF u
  <2>2. /\ Longest(sets) \in Nat
        /\ \A a \in DOMAIN sets : Cardinality(sets[a]) \in Nat /\ Cardinality(sets[a]) <= Longest(sets)
    BY LongestDef
  <2>3. /\ Longest(t) \in Nat
        /\ \A n \in Nat : (\A b \in DOMAIN t : Cardinality(t[b]) <= n) => Longest(t) <= n
    BY <1>7, LongestDef
  <2> DEFINE most == IF Cardinality(u) > Longest(sets) THEN Cardinality(u) ELSE Longest(sets)
  <2>4. Longest(t) <= most
    <3>1. \A b \in DOMAIN t : Cardinality(t[b]) <= most
      BY <1>7, <2>1, <2>2
    <3>2. most \in Nat
      BY <2>1, <2>2
    <3> HIDE DEF most
    <3> QED BY <2>3, <3>1, <3>2
  <2>5. Sets!Max({0, Cardinality(u) - Longest(sets)})
          = IF Cardinality(u) > Longest(sets) THEN Cardinality(u) - Longest(sets) ELSE 0
    <3>1. Cardinality(u) - Longest(sets) \in Int
      BY <2>1, <2>2
    <3>2. Sets!Max({0, Cardinality(u) - Longest(sets)})
            = IF Cardinality(u) - Longest(sets) > 0 THEN Cardinality(u) - Longest(sets) ELSE 0
      BY <3>1, MaxWithZero
    <3> QED BY <2>1, <2>2, <3>2
  <2>6. Len(sets) = Len(t) + 1
    BY <1>1, <1>7
  <2>7. IdSize(Len(t)) + Longest(t) <= maxBits + (IF Len(t) > 1 THEN 0 ELSE 1)
    <3>1. IdSize(Len(t) + 1) + Longest(sets) - (IF SavesBit(Len(t) + 1) THEN 1 ELSE 0)
             + (IF Cardinality(u) > Longest(sets) THEN Cardinality(u) - Longest(sets) ELSE 0)
             <= maxBits
      <4>1. IdSize(Len(t) + 1) = IdSize(Len(sets)) /\ IdSize(Len(sets)) \in Nat
        BY <1>1, <2>6, IdSizeDef
      <4>2. saved = IF SavesBit(Len(t) + 1) THEN 1 ELSE 0
        BY <2>6
      <4>3. BitsRequired(sets) = IdSize(Len(sets)) + Longest(sets)
        BY DEF BitsRequired
      <4>4. saved \in Nat
        OBVIOUS
      <4> HIDE DEF saved
      <4> QED BY <1>4, <2>1, <2>2, <2>5, <4>1, <4>2, <4>3, <4>4
    <3> HIDE DEF saved
    <3> QED BY <1>7, <2>1, <2>2, <2>3, <2>4, <3>1, MergeFitsBits
  <2> QED BY <2>7 DEF BitsRequired
<1> QED BY <1>7, <1>8, <1>9 DEF t

-----------------------------------------------------------------------------
(* All rounds *)

IsRounds(g, n, sets, weight, maxBits) ==
    g = [k \in 0..n |-> IF k = 0 THEN sets ELSE Merged(g[k - 1], weight, maxBits)]

LEMMA RoundsExist ==
    ASSUME NEW n \in Nat, NEW sets, NEW weight, NEW maxBits
    PROVE  \E g : IsRounds(g, n, sets, weight, maxBits)
<1> DEFINE D == {m \in Nat : \E g : IsRounds(g, m, sets, weight, maxBits)}
<1>1. 0 \in D
  <2> DEFINE g == [k \in 0..0 |-> sets]
  <2>1. g = [k \in 0..0 |-> IF k = 0 THEN sets ELSE Merged(g[k - 1], weight, maxBits)]
    OBVIOUS
  <2> HIDE DEF g
  <2> QED BY <2>1 DEF IsRounds
<1>2. \A m \in Nat : m \in D => m + 1 \in D
  <2> SUFFICES ASSUME NEW m \in Nat, NEW g, IsRounds(g, m, sets, weight, maxBits)
               PROVE  \E h : IsRounds(h, m + 1, sets, weight, maxBits)
    OBVIOUS
  <2> DEFINE h == [k \in 0..(m + 1) |-> IF k = m + 1 THEN Merged(g[m], weight, maxBits) ELSE g[k]]
             next(k) == IF k = 0 THEN sets ELSE Merged(h[k - 1], weight, maxBits)
  <2>1. ASSUME NEW k \in 0..(m + 1) PROVE h[k] = next(k)
    <3>1. CASE k = m + 1
      <4>1. h[k] = Merged(g[m], weight, maxBits) /\ k - 1 = m /\ h[m] = g[m] /\ k # 0
        BY <3>1
      <4> HIDE DEF h
      <4> QED BY <4>1
    <3>2. CASE k # m + 1 /\ k # 0
      <4>1. h[k] = g[k] /\ h[k - 1] = g[k - 1] /\ k \in 0..m
        BY <3>2
      <4>2. g[k] = Merged(g[k - 1], weight, maxBits)
        BY <3>2, <4>1 DEF IsRounds
      <4> HIDE DEF h
      <4> QED BY <3>2, <4>1, <4>2
    <3>3. CASE k = 0
      <4>1. h[k] = g[0]
        BY <3>3
      <4>2. g[0] = sets
        BY DEF IsRounds
      <4> HIDE DEF h
      <4> QED BY <3>3, <4>1, <4>2
    <3> QED BY <3>1, <3>2, <3>3
  <2>2. h = [k \in 0..(m + 1) |-> next(k)]
    <3>1. h = [k \in 0..(m + 1) |-> h[k]]
      OBVIOUS
    <3> HIDE DEF h, next
    <3> QED BY <2>1, <3>1
  <2> HIDE DEF h
  <2> QED BY <2>2 DEF IsRounds
<1>3. Nat \subseteq D
  <2> HIDE DEF D
  <2> QED BY <1>1, <1>2, NatSetInduction
<1> QED BY <1>3

AllRounds(g, sets, weight, maxBits) ==
    /\ g[0] = sets /\ Minimize(sets, weight, maxBits) = g[Len(sets)]
    /\ \A k \in 0..(Len(sets) - 1) : g[k + 1] = Merged(g[k], weight, maxBits)

LEMMA MinimizeRounds ==
    ASSUME NEW sets, Len(sets) \in Nat, NEW weight, NEW maxBits
    PROVE  \E g : AllRounds(g, sets, weight, maxBits)
<1> DEFINE g == CHOOSE h : IsRounds(h, Len(sets), sets, weight, maxBits)
<1>1. IsRounds(g, Len(sets), sets, weight, maxBits)
  BY RoundsExist
<1>2. Minimize(sets, weight, maxBits) = g[Len(sets)]
  BY DEF Minimize, IsRounds
<1> HIDE DEF g
<1>3. g[0] = sets
  BY <1>1 DEF IsRounds
<1>4. ASSUME NEW k \in 0..(Len(sets) - 1) PROVE g[k + 1] = Merged(g[k], weight, maxBits)
  <2>1. k + 1 \in 0..Len(sets) /\ k + 1 # 0 /\ (k + 1) - 1 = k
    OBVIOUS
  <2> QED BY <1>1, <2>1 DEF IsRounds
<1>5. AllRounds(g, sets, weight, maxBits)
  BY <1>2, <1>3, <1>4 DEF AllRounds
<1> QED BY <1>5

LEMMA NoPairsInShortLists ==
    ASSUME NEW S, NEW sets \in Seq(S), Len(sets) <= 1, NEW weight, NEW maxBits
    PROVE  Pairs(sets, weight, maxBits) = {}
<1>1. DOMAIN sets = 1..Len(sets) /\ Len(sets) \in Nat
  BY LenProperties
<1> SUFFICES ASSUME NEW p \in Pairs(sets, weight, maxBits) PROVE FALSE
  OBVIOUS
<1>2. p[1] \in DOMAIN sets /\ p[2] \in DOMAIN sets /\ sets[p[1]] # sets[p[2]]
  BY DEF Pairs
<1> QED BY <1>1, <1>2

(***************************************************************************)
(* Whatever sets of participants are packed, with whatever numbers of      *)
(* policies and into however many bits: each is contained in one of the    *)
(* result, which needs no more rules, stays within the bits if anything    *)
(* was merged (but for one if a single set is left), and has no two sets   *)
(* that the greedy loop would still merge.                                 *)
(***************************************************************************)
THEOREM MinimizeServes ==
    ASSUME NEW U, IsFiniteSet(U), NEW weight \in [U -> Nat], NEW sets \in Seq(SUBSET U),
           NEW maxBits \in Int
    PROVE  LET t == Minimize(sets, weight, maxBits)
           IN /\ t \in Seq(SUBSET U)
              /\ Len(sets) > 0 => Len(t) > 0
              /\ Serves(t, sets, weight, maxBits)
              /\ Pairs(t, weight, maxBits) = {}
              /\ Len(sets) <= 1 => t = sets
<1>1. DOMAIN sets = 1..Len(sets) /\ Len(sets) \in Nat
  BY LenProperties
<1>12. PICK g : AllRounds(g, sets, weight, maxBits)
  BY <1>1, MinimizeRounds
<1>2. /\ g[0] = sets /\ Minimize(sets, weight, maxBits) = g[Len(sets)]
      /\ \A k \in 0..(Len(sets) - 1) : g[k + 1] = Merged(g[k], weight, maxBits)
  BY <1>12 DEF AllRounds
<1> DEFINE Good(k) == /\ g[k] \in Seq(SUBSET U)
                      /\ Len(sets) > 0 => Len(g[k]) > 0
                      /\ Serves(g[k], sets, weight, maxBits)
                      /\ Pairs(g[k], weight, maxBits) # {} => Len(g[k]) + k <= Len(sets)
                      /\ Len(sets) <= 1 => g[k] = sets
           D == {k \in Nat : k <= Len(sets) => Good(k)}
<1>3. \A s \in Seq(SUBSET U) : RulesRequired(s, weight) \in Nat
  <2> SUFFICES ASSUME NEW s \in Seq(SUBSET U) PROVE RulesRequired(s, weight) \in Nat
    OBVIOUS
  <2>1. DOMAIN s = 1..Len(s) /\ Len(s) \in Nat
    BY LenProperties
  <2>2. IsFiniteSet(DOMAIN s)
    BY <2>1, FS_Interval
  <2>3. \A i \in DOMAIN s : s[i] \in SUBSET U
    BY <2>1, ElementOfSeq
  <2>4. Cardinality(RulesAt(s, DOMAIN s, weight)) \in Nat
    BY <2>2, <2>3, RulesAtFinite
  <2> QED BY <2>4 DEF RulesRequired, RulesAt
<1>4. Good(0)
  <2>1. RulesRequired(sets, weight) <= RulesRequired(sets, weight)
    BY <1>3
  <2>2. Serves(sets, sets, weight, maxBits)
    BY <2>1 DEF Serves
  <2>3. Len(g[0]) + 0 <= Len(sets)
    BY <1>1, <1>2
  <2> QED BY <1>2, <2>2, <2>3
<1>5. ASSUME NEW k \in Nat, k + 1 <= Len(sets), Good(k) PROVE Good(k + 1)
  <2> DEFINE s == g[k]
             t == g[k + 1]
  <2> HIDE DEF s, t
  <2>1. t = Merged(s, weight, maxBits)
    <3>1. k \in 0..(Len(sets) - 1)
      BY <1>1, <1>5
    <3> QED BY <1>2, <3>1 DEF s, t
  <2>2. /\ s \in Seq(SUBSET U) /\ (Len(sets) > 0 => Len(s) > 0)
        /\ Serves(s, sets, weight, maxBits)
        /\ Pairs(s, weight, maxBits) # {} => Len(s) + k <= Len(sets)
        /\ Len(sets) <= 1 => s = sets
    BY <1>5 DEF s
  <2>3. CASE Pairs(s, weight, maxBits) = {}
    <3>1. t = s
      BY <2>1, <2>3 DEF Merged
    <3> QED BY <2>2, <2>3, <3>1 DEF t
  <2>4. CASE Pairs(s, weight, maxBits) # {}
    <3>1. /\ t \in Seq(SUBSET U) /\ Len(t) = Len(s) - 1 /\ Len(t) \in Nat \ {0}
          /\ \A a \in DOMAIN s : \E b \in DOMAIN t : s[a] \subseteq t[b]
          /\ RulesRequired(t, weight) <= RulesRequired(s, weight)
          /\ BitsRequired(t) <= maxBits + (IF Len(t) > 1 THEN 0 ELSE 1)
      BY <2>1, <2>2, <2>4, MergedServes
    <3>2. \A a \in DOMAIN sets : \E b \in DOMAIN t : sets[a] \subseteq t[b]
      BY <2>2, <3>1 DEF Serves
    <3>3. RulesRequired(t, weight) <= RulesRequired(sets, weight)
      <4>1. /\ RulesRequired(t, weight) \in Nat /\ RulesRequired(s, weight) \in Nat
            /\ RulesRequired(sets, weight) \in Nat
        BY <1>3, <2>2, <3>1
      <4>2. RulesRequired(s, weight) <= RulesRequired(sets, weight)
        BY <2>2 DEF Serves
      <4> QED BY <3>1, <4>1, <4>2
    <3>4. Serves(t, sets, weight, maxBits)
      BY <3>1, <3>2, <3>3 DEF Serves
    <3>5. Len(t) + (k + 1) <= Len(sets) /\ Len(t) > 0 /\ ~(Len(sets) <= 1)
      <4>1. Len(s) \in Nat /\ Len(s) > 1
        BY <2>2, <3>1, LenProperties
      <4> QED BY <1>1, <2>2, <2>4, <3>1, <4>1
    <3> QED BY <3>1, <3>4, <3>5 DEF t
  <2> QED BY <2>3, <2>4
<1>6. 0 \in D /\ \A k \in Nat : k \in D => k + 1 \in D
  <2> HIDE DEF Good
  <2>1. 0 \in D
    BY <1>4
  <2>2. ASSUME NEW k \in Nat, k \in D PROVE k + 1 \in D
    <3> SUFFICES ASSUME k + 1 <= Len(sets) PROVE Good(k + 1)
      OBVIOUS
    <3>1. Good(k)
      BY <1>1, <2>2
    <3> QED BY <1>5, <3>1
  <2> QED BY <2>1, <2>2
<1>7. Nat \subseteq D
  <2> HIDE DEF D
  <2> QED BY <1>6, NatSetInduction
<1>8. Good(Len(sets))
  <2> HIDE DEF Good
  <2> QED BY <1>1, <1>7
<1>9. Pairs(g[Len(sets)], weight, maxBits) = {}
  <2> SUFFICES ASSUME Pairs(g[Len(sets)], weight, maxBits) # {} PROVE FALSE
    OBVIOUS
  <2>1. Len(g[Len(sets)]) \in Nat /\ Len(g[Len(sets)]) <= 1
    BY <1>1, <1>8, LenProperties
  <2> QED BY <1>8, <2>1, NoPairsInShortLists
<1> QED BY <1>2, <1>8, <1>9

-----------------------------------------------------------------------------
(* The inductive invariant *)

TypeOK ==
    /\ advertising \in [Prefixes -> SUBSET Parts]
    /\ policies \subseteq Policy /\ IsFiniteSet(policies)
    /\ serving \in BOOLEAN
    /\ ss \in [supersets : Seq(Seq(Parts)), id_size : Nat]
    /\ ss.id_size = IdSize(Len(ss.supersets))
    /\ fresh \subseteq DOMAIN VNH_2_vmac /\ DOMAIN VNH_2_vmac \subseteq DOMAIN FEC_list

\* A class loses only advertisers no policy forwards to; those who are left out stay
\* out of use until policies are replaced.
ClassesHold ==
    \A v \in DOMAIN FEC_list :
        /\ FEC_list[v] \subseteq v
        /\ serving => v \cap Forwards(policies) \subseteq FEC_list[v]

\* A VMAC has the number of superset i of s and bits of members of all only.
Names(s, vmac, i, all) ==
    /\ vmac # NoVmac
    /\ vmac \cap (1..s.id_size) = IdBits(i, s.id_size)
    /\ \A k \in Nat \ {0} : s.id_size + k \in vmac =>
          k \in DOMAIN s.supersets[i] /\ s.supersets[i][k] \in all

\* It has a bit for each of needed.
Marks(s, vmac, i, needed) ==
    \A q \in needed : \E k \in DOMAIN s.supersets[i] :
        s.supersets[i][k] = q /\ s.id_size + k \in vmac

VmacsHold ==
    \A v \in fresh : VNH_2_vmac[v] = NoVmac \/ \E i \in DOMAIN ss.supersets :
        /\ Names(ss, VNH_2_vmac[v], i, v \cap PeersOut)
        /\ serving => Marks(ss, VNH_2_vmac[v], i, v \cap PeersOut \cap Forwards(policies))

\* Each policy has its rules for the first superset.
FirstHasRules(s, pol, rs) ==
    1 \in DOMAIN s.supersets =>
        \A x \in pol, k \in DOMAIN s.supersets[1] :
            s.supersets[1][k] = x.fwd => RuleFor(x, s, 1, k) \in rs

\* A rule of a policy, for a place of its target.
HasPlace(r, s, pol) ==
    \E x \in pol, i \in DOMAIN s.supersets : \E k \in DOMAIN s.supersets[i] :
        r = RuleFor(x, s, i, k) /\ s.supersets[i][k] = x.fwd

\* Before anything is computed nothing is advertised.
NothingYet == serving /\ ss.supersets = <<>> => \A p \in Prefixes : advertising[p] = {}

Inv ==
    /\ TypeOK
    /\ ClassesHold
    /\ VmacsHold
    /\ serving => FirstHasRules(ss, policies, rules)
    /\ \A r \in rules : HasPlace(r, ss, policies)
    /\ NothingYet

-----------------------------------------------------------------------------
(* Supersets as they are computed *)

\* What a SuperSets instance is like.
IsSuperSets(s) ==
    s \in [supersets : Seq(Seq(Parts)), id_size : Nat] /\ s.id_size = IdSize(Len(s.supersets))

LEMMA SuperSetsType ==
    ASSUME NEW s, IsSuperSets(s)
    PROVE  /\ DOMAIN s.supersets = 1..Len(s.supersets) /\ Len(s.supersets) \in Nat
           /\ \A i \in DOMAIN s.supersets :
                 /\ s.supersets[i] \in Seq(Parts)
                 /\ DOMAIN s.supersets[i] = 1..Len(s.supersets[i])
                 /\ Len(s.supersets[i]) \in Nat
           /\ s.id_size \in Nat \ {0} /\ Pow2[s.id_size] >= Len(s.supersets)
<1>1. s.supersets \in Seq(Seq(Parts)) /\ s.id_size = IdSize(Len(s.supersets))
  BY DEF IsSuperSets
<1>2. DOMAIN s.supersets = 1..Len(s.supersets) /\ Len(s.supersets) \in Nat
  BY <1>1, LenProperties
<1>3. \A i \in DOMAIN s.supersets : s.supersets[i] \in Seq(Parts)
  BY <1>1, <1>2, ElementOfSeq
<1>4. \A i \in DOMAIN s.supersets :
         DOMAIN s.supersets[i] = 1..Len(s.supersets[i]) /\ Len(s.supersets[i]) \in Nat
  BY <1>3, LenProperties
<1>5. s.id_size \in Nat \ {0} /\ Pow2[s.id_size] >= Len(s.supersets)
  BY <1>1, <1>2, IdSizeDef
<1> QED BY <1>2, <1>3, <1>4, <1>5

\* Two supersets have different numbers in their bits.
LEMMA IdBitsInjective ==
    ASSUME NEW s, IsSuperSets(s), NEW i \in DOMAIN s.supersets, NEW j \in DOMAIN s.supersets,
           IdBits(i, s.id_size) = IdBits(j, s.id_size)
    PROVE  i = j
<1>1. /\ i \in 1..Len(s.supersets) /\ j \in 1..Len(s.supersets) /\ Len(s.supersets) \in Nat
      /\ s.id_size \in Nat /\ Pow2[s.id_size] >= Len(s.supersets)
  BY SuperSetsType
<1>2. Pow2[s.id_size] \in Nat
  BY <1>1, Pow2Def
<1>3. /\ i - 1 \in Nat /\ i - 1 < Pow2[s.id_size]
      /\ j - 1 \in Nat /\ j - 1 < Pow2[s.id_size]
  BY <1>1, <1>2
<1>4. Ones(i - 1, s.id_size) = Ones(j - 1, s.id_size)
  BY DEF IdBits, Ones
<1>5. i - 1 = j - 1
  BY <1>1, <1>3, <1>4, OnesInjective
<1> QED BY <1>1, <1>5

LEMMA IdBitsType ==
    ASSUME NEW i, NEW w PROVE IdBits(i, w) \subseteq 1..w
  BY DEF IdBits

LEMMA FirstIdBits ==
    ASSUME NEW w \in Nat PROVE IdBits(1, w) = {}
<1> SUFFICES ASSUME NEW b \in 1..w PROVE ((1 - 1) \div Pow2[w - b]) % 2 # 1
  BY DEF IdBits
<1>1. Pow2[w - b] \in Nat /\ Pow2[w - b] > 0
  <2>1. w - b \in Nat
    OBVIOUS
  <2>2. Pow2[w - b] \in Nat /\ Pow2[w - b] > w - b
    BY <2>1, Pow2Grows
  <2> QED BY <2>1, <2>2
<1>2. 0 \div Pow2[w - b] = 0
  BY <1>1
<1> QED BY <1>2

LEMMA RuleCountsType ==
    ASSUME NEW pol, IsFiniteSet(pol)
    PROVE  RuleCounts(pol) \in [Parts -> Nat]
<1> SUFFICES ASSUME NEW q \in Parts PROVE Cardinality({x \in pol : x.fwd = q}) \in Nat
  BY DEF RuleCounts
<1>1. IsFiniteSet({x \in pol : x.fwd = q})
  BY FS_Subset
<1> QED BY <1>1, FS_CardinalityType

LEMMA PackedType ==
    ASSUME NEW pol, IsFiniteSet(pol), NEW adv \in [Prefixes -> SUBSET Parts]
    PROVE  /\ Packed(pol, adv) \in Seq(SUBSET Parts)
           /\ Known(adv) # {} => Len(Packed(pol, adv)) > 0
           /\ \A p : Known(adv) \subseteq {p} => Len(Packed(pol, adv)) <= 1
<1> DEFINE S == {adv[p] \cap Forwards(pol) : p \in Known(adv)}
           sets == RemoveSubsets(S)
           packed == Minimize(sets, RuleCounts(pol), MaxBits - Spare)
<1>1. IsFiniteSet(Parts) /\ MaxBits - Spare \in Int
  BY SupersetsAssumption
<1>2. S \in SUBSET (SUBSET Parts)
  BY DEF Known
<1>3. Known(adv) # {} => S # {}
  OBVIOUS
<1>4. \A p : Known(adv) \subseteq {p} => \E x : S \subseteq {x}
  <2> SUFFICES ASSUME NEW p, Known(adv) \subseteq {p}
               PROVE  S \subseteq {adv[p] \cap Forwards(pol)}
    OBVIOUS
  <2> QED OBVIOUS
<1> HIDE DEF S
<1>5. /\ sets \in Seq(SUBSET Parts)
      /\ S # {} => Len(sets) > 0
      /\ \A x : S \subseteq {x} => Len(sets) <= 1
  BY <1>1, <1>2, RemoveSubsetsDef
<1> HIDE DEF sets
<1>6. /\ packed \in Seq(SUBSET Parts)
      /\ Len(sets) > 0 => Len(packed) > 0
      /\ Len(sets) <= 1 => packed = sets
  BY <1>1, <1>5, RuleCountsType, MinimizeServes
<1>7. Packed(pol, adv) = packed
  BY DEF Packed, sets, S
<1> HIDE DEF packed
<1> QED BY <1>3, <1>4, <1>5, <1>6, <1>7

LEMMA RecomputedType ==
    ASSUME NEW pol, IsFiniteSet(pol), NEW adv \in [Prefixes -> SUBSET Parts]
    PROVE  /\ IsSuperSets(Recomputed(pol, adv))
           /\ Known(adv) # {} => 1 \in DOMAIN Recomputed(pol, adv).supersets
           /\ \A p : Known(adv) \subseteq {p} => DOMAIN Recomputed(pol, adv).supersets \subseteq {1}
<1> DEFINE packed == Packed(pol, adv)
           ids == IdSize(Len(packed))
           cut(s) == SubSeq(s, 1, IF Len(s) < MaxBits - ids THEN Len(s) ELSE MaxBits - ids)
           lists == [i \in DOMAIN packed |-> cut(Listed(packed[i]))]
<1>1. /\ packed \in Seq(SUBSET Parts)
      /\ Known(adv) # {} => Len(packed) > 0
      /\ \A p : Known(adv) \subseteq {p} => Len(packed) <= 1
  BY PackedType
<1>2. Recomputed(pol, adv) = [supersets |-> lists, id_size |-> ids]
  BY DEF Recomputed
<1> HIDE DEF packed
<1>3. DOMAIN packed = 1..Len(packed) /\ Len(packed) \in Nat
  BY <1>1, LenProperties
<1>4. ids \in Nat
  BY <1>3, IdSizeDef
<1>5. ASSUME NEW i \in DOMAIN packed PROVE cut(Listed(packed[i])) \in Seq(Parts)
  <2>1. packed[i] \in SUBSET Parts /\ IsFiniteSet(packed[i])
    <3>1. packed[i] \in SUBSET Parts
      BY <1>1, <1>3, ElementOfSeq
    <3> QED BY <3>1, SupersetsAssumption, FS_Subset
  <2>2. Listed(packed[i]) \in Seq(packed[i])
    BY <2>1, ListedDef
  <2>3. Listed(packed[i]) \in Seq(Parts)
    BY <2>1, <2>2, SeqMonotonic
  <2> DEFINE s == Listed(packed[i])
             n == IF Len(s) < MaxBits - ids THEN Len(s) ELSE MaxBits - ids
  <2> HIDE DEF s
  <2>4. s \in Seq(Parts) /\ Len(s) \in Nat
    BY <2>3, LenProperties DEF s
  <2>5. n \in Int /\ \A k \in 1..n : s[k] \in Parts
    <3> HIDE DEF ids
    <3>1. n \in Int /\ n <= Len(s)
      BY <1>4, <2>4, SupersetsAssumption
    <3> HIDE DEF n
    <3> QED BY <2>4, <3>1, ElementOfSeq
  <2>6. SubSeq(s, 1, n) \in Seq(Parts)
    <3> HIDE DEF n
    <3> QED BY <2>5, SubSeqProperties
  <2> QED BY <2>6 DEF s
<1>6. lists \in [1..Len(packed) -> Seq(Parts)]
  <2> HIDE DEF cut
  <2> QED BY <1>3, <1>5
<1> HIDE DEF lists, ids
<1>7. lists \in Seq(Seq(Parts)) /\ Len(lists) = Len(packed) /\ DOMAIN lists = 1..Len(packed)
  BY <1>3, <1>6, SeqDef
<1>8. IsSuperSets(Recomputed(pol, adv))
  BY <1>2, <1>4, <1>7 DEF IsSuperSets, ids
<1>9. Recomputed(pol, adv).supersets = lists
  BY <1>2
<1>10. Known(adv) # {} => 1 \in DOMAIN lists
  BY <1>1, <1>3, <1>7
<1>11. ASSUME NEW p, Known(adv) \subseteq {p} PROVE DOMAIN lists \subseteq {1}
  <2>1. Len(packed) <= 1
    BY <1>1, <1>11
  <2> QED BY <1>3, <1>7, <2>1
<1> QED BY <1>8, <1>9, <1>10, <1>11

-----------------------------------------------------------------------------
(* VMACs and rules *)

\* What a class needs of its VMAC.
VmacHolds(s, vmac, v, pol, srv) ==
    vmac = NoVmac \/ \E i \in DOMAIN s.supersets :
        /\ Names(s, vmac, i, v \cap PeersOut)
        /\ srv => Marks(s, vmac, i, v \cap PeersOut \cap Forwards(pol))

\* A VMAC that is computed for parts names the first superset that contains them and
\* has the bits of those whose routes are used.
LEMMA VmacDef ==
    ASSUME NEW s, IsSuperSets(s), NEW parts, Vmac(s, parts) # NoVmac
    PROVE  \E i \in DOMAIN s.supersets :
              /\ Names(s, Vmac(s, parts), i, parts \cap PeersOut)
              /\ Marks(s, Vmac(s, parts), i, parts \cap PeersOut)
<1> DEFINE covers == {i \in DOMAIN s.supersets : parts \subseteq Members(s.supersets[i])}
           first == CHOOSE i \in covers : \A j \in covers : i <= j
           mask == {s.id_size + k : k \in {l \in DOMAIN s.supersets[first] :
                                            s.supersets[first][l] \in parts \cap PeersOut}}
           vmac == Vmac(s, parts)
<1>1. /\ DOMAIN s.supersets = 1..Len(s.supersets) /\ Len(s.supersets) \in Nat
      /\ \A i \in DOMAIN s.supersets :
            DOMAIN s.supersets[i] = 1..Len(s.supersets[i]) /\ Len(s.supersets[i]) \in Nat
      /\ s.id_size \in Nat \ {0}
  BY SuperSetsType
<1>2. covers # {} /\ vmac = IdBits(first, s.id_size) \cup mask
  <2>1. covers # {}
    BY DEF Vmac
  <2>2. vmac = IF covers = {} THEN NoVmac ELSE IdBits(first, s.id_size) \cup mask
    BY DEF Vmac
  <2> HIDE DEF covers, mask, vmac, first
  <2> QED BY <2>1, <2>2
<1>3. first \in covers
  <2>1. covers \in SUBSET Nat
    BY <1>1
  <2> HIDE DEF covers
  <2>2. \E i \in covers : \A j \in covers : i <= j
    BY <1>2, <2>1, NatMinimum
  <2> QED BY <2>2
<1>4. first \in DOMAIN s.supersets /\ parts \subseteq Members(s.supersets[first])
  BY <1>3
<1> HIDE DEF first, vmac, covers
<1>5. IdBits(first, s.id_size) \subseteq 1..s.id_size
  BY IdBitsType
<1>6. ASSUME NEW k \in Nat \ {0}, s.id_size + k \in vmac
      PROVE  k \in DOMAIN s.supersets[first] /\ s.supersets[first][k] \in parts \cap PeersOut
  <2>1. s.id_size + k \in mask
    BY <1>1, <1>2, <1>5, <1>6
  <2>2. PICK l \in DOMAIN s.supersets[first] :
           s.supersets[first][l] \in parts \cap PeersOut /\ s.id_size + k = s.id_size + l
    BY <2>1
  <2>3. l = k
    BY <1>1, <1>4, <2>2
  <2> QED BY <2>2, <2>3
<1>7. vmac \cap (1..s.id_size) = IdBits(first, s.id_size)
  <2>1. mask \cap (1..s.id_size) = {}
    BY <1>1, <1>4
  <2> HIDE DEF mask
  <2> QED BY <1>2, <1>5, <2>1
<1>8. Names(s, vmac, first, parts \cap PeersOut)
  BY <1>6, <1>7 DEF Names, vmac
<1>9. Marks(s, vmac, first, parts \cap PeersOut)
  <2> SUFFICES ASSUME NEW q \in parts \cap PeersOut
               PROVE  \E k \in DOMAIN s.supersets[first] :
                         s.supersets[first][k] = q /\ s.id_size + k \in vmac
    BY DEF Marks
  <2>1. PICK k \in DOMAIN s.supersets[first] : s.supersets[first][k] = q
    BY <1>4 DEF Members
  <2>2. s.id_size + k \in mask
    BY <2>1
  <2> HIDE DEF mask
  <2> QED BY <1>2, <2>1, <2>2
<1> QED BY <1>4, <1>8, <1>9 DEF vmac

\* That is what its class needs.
LEMMA NewVmacHolds ==
    ASSUME NEW s, IsSuperSets(s), NEW v, NEW parts, parts \subseteq v, NEW pol, NEW srv \in BOOLEAN,
           srv => v \cap Forwards(pol) \subseteq parts
    PROVE  VmacHolds(s, Vmac(s, parts), v, pol, srv)
<1>1. CASE Vmac(s, parts) = NoVmac
  BY <1>1 DEF VmacHolds
<1>2. CASE Vmac(s, parts) # NoVmac
  <2>1. PICK i \in DOMAIN s.supersets :
           /\ Names(s, Vmac(s, parts), i, parts \cap PeersOut)
           /\ Marks(s, Vmac(s, parts), i, parts \cap PeersOut)
    BY <1>2, VmacDef
  <2>2. Names(s, Vmac(s, parts), i, v \cap PeersOut)
    BY <2>1 DEF Names
  <2>3. srv => Marks(s, Vmac(s, parts), i, v \cap PeersOut \cap Forwards(pol))
    BY <2>1 DEF Marks
  <2> QED BY <2>2, <2>3 DEF VmacHolds
<1> QED BY <1>1, <1>2

\* Supersets whose places are all kept.
Extends(t, s) ==
    /\ t.id_size = s.id_size
    /\ \A i \in DOMAIN s.supersets : i \in DOMAIN t.supersets /\ \A k \in DOMAIN s.supersets[i] :
          k \in DOMAIN t.supersets[i] /\ t.supersets[i][k] = s.supersets[i][k]

LEMMA VmacStillHolds ==
    ASSUME NEW s, NEW t, Extends(t, s), NEW vmac, NEW v, NEW pol, NEW srv \in BOOLEAN,
           VmacHolds(s, vmac, v, pol, srv)
    PROVE  VmacHolds(t, vmac, v, pol, srv)
<1>1. CASE vmac = NoVmac
  BY <1>1 DEF VmacHolds
<1>2. CASE vmac # NoVmac
  <2>1. PICK i \in DOMAIN s.supersets :
           /\ Names(s, vmac, i, v \cap PeersOut)
           /\ srv => Marks(s, vmac, i, v \cap PeersOut \cap Forwards(pol))
    BY <1>2 DEF VmacHolds
  <2>2. i \in DOMAIN t.supersets /\ Names(t, vmac, i, v \cap PeersOut)
    BY <2>1 DEF Names, Extends
  <2>3. srv => Marks(t, vmac, i, v \cap PeersOut \cap Forwards(pol))
    BY <2>1 DEF Marks, Extends
  <2> QED BY <2>2, <2>3 DEF VmacHolds
<1> QED BY <1>1, <1>2

LEMMA PlaceStillThere ==
    ASSUME NEW s, NEW t, Extends(t, s), NEW r, NEW pol, HasPlace(r, s, pol)
    PROVE  HasPlace(r, t, pol)
  BY DEF HasPlace, Extends, RuleFor

LEMMA PlacesDef ==
    ASSUME NEW s, NEW is, NEW from
    PROVE  /\ \A c \in Places(s, is, from) :
                 /\ c[1] \in is /\ c[2] \in DOMAIN s.supersets[c[1]] /\ c[2] >= from
           /\ \A i \in is : \A k \in DOMAIN s.supersets[i] :
                 k >= from => <<i, k>> \in Places(s, is, from)
  BY DEF Places

\* Rules are for places of their policy's target.
LEMMA RulesOfHavePlaces ==
    ASSUME NEW s, NEW is \in SUBSET DOMAIN s.supersets, NEW from, NEW pol,
           NEW r \in RulesOf(pol, s, Places(s, is, from))
    PROVE  HasPlace(r, s, pol)
<1> DEFINE changed == Places(s, is, from)
           target(c) == s.supersets[c[1]][c[2]]
           last(x) == {c \in changed :
                target(c) = x.fwd /\ \A e \in changed : target(e) = x.fwd => e[1] <= c[1]}
<1>1. r \in UNION {{RuleFor(x, s, c[1], c[2]) : c \in last(x)} : x \in pol}
  BY DEF RulesOf
<1>2. PICK x \in pol : r \in {RuleFor(x, s, c[1], c[2]) : c \in last(x)}
  <2> HIDE DEF last
  <2> QED BY <1>1
<1>3. PICK c \in last(x) : r = RuleFor(x, s, c[1], c[2])
  <2> HIDE DEF last
  <2> QED BY <1>2
<1>4. c \in changed /\ target(c) = x.fwd
  OBVIOUS
<1>5. c[1] \in DOMAIN s.supersets /\ c[2] \in DOMAIN s.supersets[c[1]]
  BY <1>4, PlacesDef
<1> QED BY <1>3, <1>4, <1>5 DEF HasPlace

\* If one superset changed, all its changes get their rules.
LEMMA RulesOfOneSuperset ==
    ASSUME NEW s, NEW is, NEW from, NEW pol, NEW i \in is, is \subseteq {i}, i \in Nat,
           NEW x \in pol, NEW k \in DOMAIN s.supersets[i], k >= from,
           s.supersets[i][k] = x.fwd
    PROVE  RuleFor(x, s, i, k) \in RulesOf(pol, s, Places(s, is, from))
<1> DEFINE changed == Places(s, is, from)
           target(c) == s.supersets[c[1]][c[2]]
           last(y) == {c \in changed :
                target(c) = y.fwd /\ \A e \in changed : target(e) = y.fwd => e[1] <= c[1]}
<1>1. <<i, k>> \in changed /\ \A e \in changed : e[1] = i
  BY PlacesDef
<1>2. <<i, k>> \in last(x)
  <2> HIDE DEF changed
  <2> QED BY <1>1
<1>3. RuleFor(x, s, i, k) \in {RuleFor(x, s, c[1], c[2]) : c \in last(x)}
  <2> HIDE DEF last
  <2> QED BY <1>2
<1>4. RulesOf(pol, s, changed) = UNION {{RuleFor(y, s, c[1], c[2]) : c \in last(y)} : y \in pol}
  BY DEF RulesOf
<1> HIDE DEF last, changed
<1>5. RuleFor(x, s, i, k) \in RulesOf(pol, s, changed)
  BY <1>3, <1>4
<1> QED BY <1>5 DEF changed

\* Wiping the rules of all policies leaves none.
LEMMA WipedClean ==
    ASSUME NEW s, NEW pol, NEW rs, \A r \in rs : HasPlace(r, s, pol)
    PROVE  Without(rs, Cookies(pol)) = {}
<1> SUFFICES ASSUME NEW r \in rs, r.cookie \notin Cookies(pol) PROVE FALSE
  BY DEF Without
<1>1. PICK x \in pol : r.cookie = x.cookie
  BY DEF HasPlace, RuleFor
<1> QED BY <1>1 DEF Cookies

-----------------------------------------------------------------------------
(* What every BGP update does *)

\* The classes after the assignment are no less complete than before.
LEMMA ClassesDef ==
    ASSUME ClassesHold, NEW v
    PROVE  /\ DOMAIN FEC_list \subseteq DOMAIN Classes(v)
           /\ v # {} => v \in DOMAIN Classes(v)
           /\ \A w \in DOMAIN Classes(v) :
                 /\ Classes(v)[w] \subseteq w
                 /\ serving => w \cap Forwards(policies) \subseteq Classes(v)[w]
<1>1. DOMAIN Classes(v) = DOMAIN FEC_list \cup ({v} \ {{}})
  BY DEF Classes
<1>2. ASSUME NEW w \in DOMAIN Classes(v)
      PROVE  /\ Classes(v)[w] \subseteq w
             /\ serving => w \cap Forwards(policies) \subseteq Classes(v)[w]
  <2>1. Classes(v)[w] = IF w \in DOMAIN FEC_list THEN FEC_list[w] ELSE w
    BY DEF Classes
  <2>2. CASE w \in DOMAIN FEC_list
    BY <2>1, <2>2 DEF ClassesHold
  <2>3. CASE w \notin DOMAIN FEC_list
    BY <2>1, <2>3
  <2> QED BY <2>2, <2>3
<1> QED BY <1>1, <1>2

\* The routers are told a VMAC of the supersets for the VNHs in vnhs.
LEMMA GarpsSent ==
    ASSUME TypeOK, ClassesHold, NEW v, NEW vnhs \in SUBSET DOMAIN Classes(v),
           SendGarps(vnhs, Classes(v)), IsSuperSets(ss'), UNCHANGED <<policies, serving>>
    PROVE  /\ ClassesHold'
           /\ DOMAIN VNH_2_vmac' = DOMAIN VNH_2_vmac \cup vnhs
           /\ DOMAIN VNH_2_vmac' \subseteq DOMAIN FEC_list'
           /\ \A w \in vnhs : VmacHolds(ss', VNH_2_vmac'[w], w, policies, serving)
           /\ \A w \in DOMAIN VNH_2_vmac \ vnhs : VNH_2_vmac'[w] = VNH_2_vmac[w]
<1> DEFINE c == Classes(v)
           active(w) == c[w] \cap Forwards(policies)
<1>1. /\ DOMAIN FEC_list \subseteq DOMAIN c
      /\ \A w \in DOMAIN c : c[w] \subseteq w /\ (serving => w \cap Forwards(policies) \subseteq c[w])
  BY ClassesDef
<1>2. /\ FEC_list' = [w \in DOMAIN c |-> IF w \in vnhs THEN active(w) ELSE c[w]]
      /\ VNH_2_vmac' = [w \in DOMAIN VNH_2_vmac \cup vnhs |->
                           IF w \in vnhs THEN Vmac(ss', active(w)) ELSE VNH_2_vmac[w]]
  BY DEF SendGarps
<1> HIDE DEF c
<1>3. ClassesHold'
  <2> SUFFICES ASSUME NEW w \in DOMAIN c
               PROVE  /\ FEC_list'[w] \subseteq w
                      /\ serving => w \cap Forwards(policies) \subseteq FEC_list'[w]
    BY <1>2 DEF ClassesHold, Forwards
  <2>1. FEC_list'[w] = c[w] \/ FEC_list'[w] = c[w] \cap Forwards(policies)
    BY <1>2
  <2>2. c[w] \subseteq w /\ (serving => w \cap Forwards(policies) \subseteq c[w])
    BY <1>1
  <2> QED BY <2>1, <2>2
<1>4. DOMAIN VNH_2_vmac' = DOMAIN VNH_2_vmac \cup vnhs /\ DOMAIN FEC_list' = DOMAIN c
  BY <1>2
<1>5. DOMAIN VNH_2_vmac' \subseteq DOMAIN FEC_list'
  BY <1>1, <1>4 DEF TypeOK, c
<1>6. ASSUME NEW w \in vnhs PROVE VmacHolds(ss', VNH_2_vmac'[w], w, policies, serving)
  <2>1. VNH_2_vmac'[w] = Vmac(ss', active(w))
    BY <1>2
  <2>2. w \in DOMAIN c
    BY DEF c
  <2>3. active(w) \subseteq w /\ (serving => w \cap Forwards(policies) \subseteq active(w))
    BY <1>1, <2>2
  <2> HIDE DEF active
  <2>4. serving \in BOOLEAN
    BY DEF TypeOK
  <2> QED BY <2>1, <2>3, <2>4, NewVmacHolds
<1>7. \A w \in DOMAIN VNH_2_vmac \ vnhs : VNH_2_vmac'[w] = VNH_2_vmac[w]
  BY <1>2
<1> QED BY <1>3, <1>4, <1>5, <1>6, <1>7

\* A recomputation tells the routers some of the VMACs, and all if nothing is spoiled.
LEMMA SomeGarps ==
    ASSUME NEW classes, SendAllGarps(classes)
    PROVE  \E sent \in SUBSET DOMAIN classes : SendGarps(sent, classes) /\ fresh' = sent
  BY DEF SendAllGarps

LEMMA TypeOfSuperSets ==
    ASSUME TypeOK PROVE IsSuperSets(ss)
  BY DEF TypeOK, IsSuperSets

LEMMA VmacsHoldIs ==
    VmacsHold <=> \A v \in fresh : VmacHolds(ss, VNH_2_vmac[v], v, policies, serving)
  BY DEF VmacsHold, VmacHolds

\* The parts of the invariant that concern the supersets and what is made of them.
Follows ==
    /\ IsSuperSets(ss)
    /\ ClassesHold
    /\ fresh \subseteq DOMAIN VNH_2_vmac /\ DOMAIN VNH_2_vmac \subseteq DOMAIN FEC_list
    /\ \A v \in fresh : VmacHolds(ss, VNH_2_vmac[v], v, policies, serving)
    /\ serving => FirstHasRules(ss, policies, rules)
    /\ \A r \in rules : HasPlace(r, ss, policies)

LEMMA InvFollows ==
    ASSUME Inv PROVE Follows /\ TypeOK
  BY TypeOfSuperSets, VmacsHoldIs DEF Inv, Follows, TypeOK

\* An update keeps the bookkeeping right if the supersets do.
LEMMA FollowsAfter ==
    ASSUME Follows', advertising' \in [Prefixes -> SUBSET Parts], TypeOK, NothingYet',
           UNCHANGED <<policies, serving>>
    PROVE  Inv'
<1>1. TypeOK'
  BY DEF Follows, IsSuperSets, TypeOK
<1>2. VmacsHold'
  BY DEF Follows, VmacsHold, VmacHolds
<1> QED BY <1>1, <1>2 DEF Follows, Inv

-----------------------------------------------------------------------------
(* The four ways a BGP update goes *)

LEMMA FirstSupersetsStep ==
    ASSUME Inv, NEW adv \in [Prefixes -> SUBSET Parts], NEW v,
           serving => \E p : Known(adv) \subseteq {p},
           FirstSupersets(adv, v), UNCHANGED <<policies, serving>>
    PROVE  Follows' /\ (Known(adv) # {} => ss'.supersets # <<>>)
<1>1. TypeOK /\ ClassesHold /\ IsFiniteSet(policies) /\ \A r \in rules : HasPlace(r, ss, policies)
  BY DEF Inv, TypeOK
<1>2. PICK sent \in SUBSET DOMAIN Classes(v) :
         /\ ss' = Recomputed(policies, adv)
         /\ rules' = Without(rules, Cookies(policies))
                     \cup RulesOf(policies, ss', Places(ss', DOMAIN ss'.supersets, 1))
         /\ SendGarps(sent, Classes(v)) /\ fresh' = sent
  BY SomeGarps DEF FirstSupersets
<1>3. /\ IsSuperSets(ss')
      /\ Known(adv) # {} => 1 \in DOMAIN ss'.supersets
      /\ \A p : Known(adv) \subseteq {p} => DOMAIN ss'.supersets \subseteq {1}
  BY <1>1, <1>2, RecomputedType
<1>4. /\ ClassesHold'
      /\ DOMAIN VNH_2_vmac' = DOMAIN VNH_2_vmac \cup sent
      /\ DOMAIN VNH_2_vmac' \subseteq DOMAIN FEC_list'
      /\ \A w \in sent : VmacHolds(ss', VNH_2_vmac'[w], w, policies, serving)
  BY <1>1, <1>2, <1>3, GarpsSent
<1>5. rules' = RulesOf(policies, ss', Places(ss', DOMAIN ss'.supersets, 1))
  BY <1>1, <1>2, WipedClean
<1>6. \A r \in rules' : HasPlace(r, ss', policies)
  <2>1. DOMAIN ss'.supersets \in SUBSET DOMAIN ss'.supersets
    OBVIOUS
  <2> QED BY <1>5, <2>1, RulesOfHavePlaces
<1>7. serving => FirstHasRules(ss', policies, rules')
  <2> SUFFICES ASSUME serving, 1 \in DOMAIN ss'.supersets, NEW x \in policies,
                      NEW k \in DOMAIN ss'.supersets[1], ss'.supersets[1][k] = x.fwd
               PROVE  RuleFor(x, ss', 1, k) \in rules'
    BY DEF FirstHasRules
  <2>1. DOMAIN ss'.supersets \subseteq {1}
    BY <1>3
  <2>2. k >= 1
    BY <1>3, SuperSetsType
  <2> QED BY <1>5, <2>1, <2>2, RulesOfOneSuperset
<1>8. Known(adv) # {} => ss'.supersets # <<>>
  BY <1>3
<1> QED BY <1>2, <1>3, <1>4, <1>6, <1>7, <1>8 DEF Follows

LEMMA RecomputeStep ==
    ASSUME Inv, NEW adv \in [Prefixes -> SUBSET Parts], Known(adv) # {}, NEW v, NEW announced,
           RecomputeSupersets(adv, v, announced), UNCHANGED <<policies, serving>>
    PROVE  Follows' /\ ss'.supersets # <<>>
<1>1. TypeOK /\ ClassesHold /\ IsFiniteSet(policies) /\ \A r \in rules : HasPlace(r, ss, policies)
  BY DEF Inv, TypeOK
<1>2. PICK sent \in SUBSET DOMAIN Classes(v) :
         /\ ss' = Recomputed(policies, adv)
         /\ rules' = Without(rules, Cookies(policies)) \cup RulesOf(policies, ss', Places(ss', {1}, 1))
         /\ SendGarps(sent, Classes(v)) /\ fresh' = sent
  BY SomeGarps DEF RecomputeSupersets
<1>3. IsSuperSets(ss') /\ 1 \in DOMAIN ss'.supersets
  BY <1>1, <1>2, RecomputedType
<1>4. /\ ClassesHold'
      /\ DOMAIN VNH_2_vmac' = DOMAIN VNH_2_vmac \cup sent
      /\ DOMAIN VNH_2_vmac' \subseteq DOMAIN FEC_list'
      /\ \A w \in sent : VmacHolds(ss', VNH_2_vmac'[w], w, policies, serving)
  BY <1>1, <1>2, <1>3, GarpsSent
<1>5. rules' = RulesOf(policies, ss', Places(ss', {1}, 1))
  BY <1>1, <1>2, WipedClean
<1>6. \A r \in rules' : HasPlace(r, ss', policies)
  <2>1. {1} \in SUBSET DOMAIN ss'.supersets
    BY <1>3
  <2> QED BY <1>5, <2>1, RulesOfHavePlaces
<1>7. FirstHasRules(ss', policies, rules')
  <2> SUFFICES ASSUME NEW x \in policies,
                      NEW k \in DOMAIN ss'.supersets[1], ss'.supersets[1][k] = x.fwd
               PROVE  RuleFor(x, ss', 1, k) \in rules'
    BY DEF FirstHasRules
  <2>1. k >= 1
    BY <1>3, SuperSetsType
  <2> QED BY <1>5, <2>1, RulesOfOneSuperset
<1>8. ss'.supersets # <<>>
  BY <1>3
<1> QED BY <1>2, <1>3, <1>4, <1>6, <1>7, <1>8 DEF Follows

LEMMA SameSupersetsStep ==
    ASSUME Inv, NEW v, NEW announced, SameSupersets(v, announced), UNCHANGED <<policies, serving>>
    PROVE  Follows' /\ ss'.supersets # <<>>
<1>1. TypeOK /\ ClassesHold /\ Follows
  BY InvFollows DEF Inv
<1>2. /\ ss' = ss /\ rules' = rules /\ ss.supersets # <<>>
      /\ SendGarps(NewVNHs(v), Classes(v)) /\ fresh' = fresh \cup NewVNHs(v)
  BY DEF SameSupersets
<1>3. NewVNHs(v) \in SUBSET DOMAIN Classes(v) /\ NewVNHs(v) \cap DOMAIN VNH_2_vmac = {}
  BY <1>1, ClassesDef DEF NewVNHs
<1>4. /\ ClassesHold'
      /\ DOMAIN VNH_2_vmac' = DOMAIN VNH_2_vmac \cup NewVNHs(v)
      /\ DOMAIN VNH_2_vmac' \subseteq DOMAIN FEC_list'
      /\ \A w \in NewVNHs(v) : VmacHolds(ss', VNH_2_vmac'[w], w, policies, serving)
      /\ \A w \in DOMAIN VNH_2_vmac \ NewVNHs(v) : VNH_2_vmac'[w] = VNH_2_vmac[w]
  <2>1. IsSuperSets(ss')
    BY <1>1, <1>2 DEF Follows
  <2> QED BY <1>1, <1>2, <1>3, <2>1, GarpsSent
<1>5. ASSUME NEW w \in fresh' PROVE VmacHolds(ss', VNH_2_vmac'[w], w, policies, serving)
  <2>1. CASE w \in NewVNHs(v)
    BY <1>4, <2>1
  <2>2. CASE w \notin NewVNHs(v)
    <3>1. w \in fresh /\ w \in DOMAIN VNH_2_vmac
      BY <1>1, <1>2, <2>2 DEF Follows
    <3>2. VNH_2_vmac'[w] = VNH_2_vmac[w]
      BY <1>4, <2>2, <3>1
    <3>3. VmacHolds(ss, VNH_2_vmac[w], w, policies, serving)
      BY <1>1, <3>1 DEF Follows
    <3> QED BY <1>2, <3>2, <3>3
  <2> QED BY <2>1, <2>2
<1>6. fresh' \subseteq DOMAIN VNH_2_vmac'
  BY <1>1, <1>2, <1>4 DEF Follows
<1> QED BY <1>1, <1>2, <1>4, <1>5, <1>6 DEF Follows

\* What grows is one of the supersets.
LEMMA BestToExpandDef ==
    ASSUME NEW U, IsFiniteSet(U), NEW weight \in [U -> Nat], NEW new \in SUBSET U,
           NEW supersets, DOMAIN supersets \in SUBSET Nat, NEW maskSize,
           BestToExpand(new, supersets, weight, maskSize) # 0
    PROVE  BestToExpand(new, supersets, weight, maskSize) \in DOMAIN supersets
<1> DEFINE fits == {i \in DOMAIN supersets :
                       Cardinality(new \cup Members(supersets[i])) <= maskSize}
           cost(i) == Cost(new \ Members(supersets[i]), weight)
           C == {cost(i) : i \in fits}
           best == CHOOSE i \in fits : \A j \in fits :
                       cost(i) < cost(j) \/ (cost(i) = cost(j) /\ i <= j)
           found == BestToExpand(new, supersets, weight, maskSize)
<1>1. found = IF fits = {} THEN 0 ELSE best
  BY DEF BestToExpand
<1>2. fits \in SUBSET DOMAIN supersets /\ fits \in SUBSET Nat
  OBVIOUS
<1>3. \A i \in fits : cost(i) \in Nat
  <2> SUFFICES ASSUME NEW i \in fits PROVE cost(i) \in Nat
    OBVIOUS
  <2>1. new \ Members(supersets[i]) \in SUBSET U
    OBVIOUS
  <2> QED BY <2>1, RulesOfSetFinite
<1> HIDE DEF fits, cost, found
<1>4. fits # {} /\ found = best
  <2> HIDE DEF best
  <2> QED BY <1>1 DEF found
<1>5. C \in SUBSET Nat /\ C # {}
  BY <1>3, <1>4
<1>6. PICK c \in C : \A d \in C : c <= d
  <2> HIDE DEF C
  <2> QED BY <1>5, NatMinimum
<1> DEFINE F == {i \in fits : cost(i) = c}
<1>7. F \in SUBSET Nat /\ F # {}
  BY <1>2, <1>6
<1>8. PICK i \in F : \A k \in F : i <= k
  <2> HIDE DEF F
  <2> QED BY <1>7, NatMinimum
<1>9. ASSUME NEW j \in fits PROVE cost(i) < cost(j) \/ (cost(i) = cost(j) /\ i <= j)
  <2>1. c <= cost(j) /\ cost(j) \in Nat /\ c \in Nat /\ cost(i) = c
    BY <1>3, <1>5, <1>6, <1>8
  <2>2. CASE cost(j) = c
    BY <1>8, <2>1, <2>2
  <2>3. CASE cost(j) # c
    BY <2>1, <2>3
  <2> QED BY <2>2, <2>3
<1>10. i \in fits
  BY <1>8
<1>11. best \in fits
  BY <1>9, <1>10
<1> HIDE DEF best
<1> QED BY <1>2, <1>4, <1>11 DEF found

Grown(s, i, new) == [s EXCEPT !.supersets[i] = s.supersets[i] \o new]

\* A superset that grows keeps its places.
LEMMA GrownType ==
    ASSUME NEW s, IsSuperSets(s), NEW i \in DOMAIN s.supersets, NEW new \in Seq(Parts), NEW t,
           t = Grown(s, i, new)
    PROVE  /\ IsSuperSets(t) /\ Extends(t, s) /\ DOMAIN t.supersets = DOMAIN s.supersets
           /\ \A j \in DOMAIN s.supersets : j # i => t.supersets[j] = s.supersets[j]
           /\ t.id_size = s.id_size
           /\ \A k \in DOMAIN t.supersets[i] : k \in Nat /\
                 (k < Len(s.supersets[i]) + 1 => k \in DOMAIN s.supersets[i])
<1> DEFINE grown == s.supersets[i] \o new
<1>1. /\ DOMAIN s.supersets = 1..Len(s.supersets) /\ Len(s.supersets) \in Nat
      /\ s.supersets[i] \in Seq(Parts) /\ Len(s.supersets[i]) \in Nat
      /\ DOMAIN s.supersets[i] = 1..Len(s.supersets[i])
      /\ s.supersets \in Seq(Seq(Parts)) /\ s.id_size \in Nat
      /\ s \in [supersets : Seq(Seq(Parts)), id_size : Nat]
      /\ s.id_size = IdSize(Len(s.supersets))
  BY SuperSetsType DEF IsSuperSets
<1>2. /\ grown \in Seq(Parts) /\ Len(grown) = Len(s.supersets[i]) + Len(new)
      /\ \A k \in 1..Len(s.supersets[i]) : grown[k] = s.supersets[i][k]
  BY <1>1, ConcatProperties
<1>3. Len(new) \in Nat /\ DOMAIN grown = 1..(Len(s.supersets[i]) + Len(new))
  BY <1>2, LenProperties
<1> HIDE DEF grown
<1> DEFINE g == [s.supersets EXCEPT ![i] = grown]
<1>4. t = [s EXCEPT !.supersets = g]
  BY DEF grown, Grown
<1>5. g \in Seq(Seq(Parts)) /\ Len(g) = Len(s.supersets) /\ DOMAIN g = DOMAIN s.supersets
  BY <1>1, <1>2, ExceptSeq
<1>6. g[i] = grown /\ \A j \in DOMAIN s.supersets : j # i => g[j] = s.supersets[j]
  OBVIOUS
<1> HIDE DEF g
<1>7. t.supersets = g /\ t.id_size = s.id_size /\ t \in [supersets : Seq(Seq(Parts)), id_size : Nat]
  BY <1>1, <1>4, <1>5
<1>8. IsSuperSets(t)
  BY <1>1, <1>5, <1>7 DEF IsSuperSets
<1>9. Extends(t, s)
  <2> SUFFICES ASSUME NEW j \in DOMAIN s.supersets, NEW k \in DOMAIN s.supersets[j]
               PROVE  k \in DOMAIN g[j] /\ g[j][k] = s.supersets[j][k]
    BY <1>5, <1>7 DEF Extends
  <2>1. CASE j = i
    <3>1. g[j] = grown /\ k \in 1..Len(s.supersets[i])
      BY <1>1, <1>6, <2>1
    <3>2. k \in DOMAIN grown
      BY <1>1, <1>3, <3>1
    <3>3. grown[k] = s.supersets[j][k]
      BY <1>2, <2>1, <3>1
    <3> QED BY <3>1, <3>2, <3>3
  <2>2. CASE j # i
    BY <1>6, <2>2
  <2> QED BY <2>1, <2>2
<1>10. \A k \in DOMAIN g[i] : k \in Nat /\
          (k < Len(s.supersets[i]) + 1 => k \in DOMAIN s.supersets[i])
  BY <1>1, <1>3, <1>6
<1> QED BY <1>5, <1>6, <1>7, <1>8, <1>9, <1>10

LEMMA ExpandSupersetStep ==
    ASSUME Inv, NEW v \in SUBSET Parts, NEW announced, ExpandSuperset(v, announced),
           UNCHANGED <<policies, serving>>
    PROVE  Follows' /\ ss'.supersets # <<>>
<1> DEFINE i == Expansion(v)
           old == ss.supersets[i]
           new == Listed((v \cap Forwards(policies)) \ Members(old))
<1>1. TypeOK /\ ClassesHold /\ Follows /\ IsFiniteSet(policies) /\ IsSuperSets(ss)
  BY InvFollows DEF Inv, TypeOK, Follows
<1>2. /\ NeedsRoom(v, announced) /\ i # 0
      /\ ss' = Grown(ss, i, new)
      /\ rules' = rules \cup RulesOf(policies, ss', Places(ss', {i}, Len(old) + 1))
      /\ SendGarps({v}, Classes(v)) /\ fresh' = fresh \cup {v}
  BY DEF ExpandSuperset, Grown
<1>3. /\ ss.supersets # <<>> /\ v \notin DOMAIN VNH_2_vmac
      /\ \A j \in DOMAIN ss.supersets :
            ~(v \cap Forwards(policies) \subseteq Members(ss.supersets[j]))
  BY <1>2 DEF NeedsRoom
<1>4. i \in DOMAIN ss.supersets /\ i \in Nat
  <2>1. v \cap Forwards(policies) \in SUBSET Parts /\ IsFiniteSet(Parts)
    BY SupersetsAssumption
  <2>2. DOMAIN ss.supersets \in SUBSET Nat
    BY <1>1, SuperSetsType
  <2>3. RuleCounts(policies) \in [Parts -> Nat]
    BY <1>1, RuleCountsType
  <2>4. i = BestToExpand(v \cap Forwards(policies), ss.supersets, RuleCounts(policies), MaskSize(ss))
    BY DEF Expansion
  <2> HIDE DEF i
  <2>5. BestToExpand(v \cap Forwards(policies), ss.supersets, RuleCounts(policies), MaskSize(ss)) # 0
    BY <1>2, <2>4
  <2>6. BestToExpand(v \cap Forwards(policies), ss.supersets, RuleCounts(policies), MaskSize(ss))
          \in DOMAIN ss.supersets
    BY <2>1, <2>2, <2>3, <2>5, BestToExpandDef
  <2> QED BY <2>2, <2>4, <2>6
<1>5. new \in Seq(Parts)
  <2> DEFINE S == (v \cap Forwards(policies)) \ Members(old)
  <2>1. S \subseteq Parts /\ IsFiniteSet(S)
    BY SupersetsAssumption, FS_Subset
  <2> HIDE DEF S
  <2>2. Listed(S) \in Seq(S)
    BY <2>1, ListedDef
  <2>3. Listed(S) \in Seq(Parts)
    BY <2>1, <2>2, SeqMonotonic
  <2> QED BY <2>3 DEF S
<1> HIDE DEF i, new
<1>6. /\ IsSuperSets(ss') /\ Extends(ss', ss) /\ DOMAIN ss'.supersets = DOMAIN ss.supersets
      /\ \A j \in DOMAIN ss.supersets : j # i => ss'.supersets[j] = ss.supersets[j]
      /\ ss'.id_size = ss.id_size
      /\ \A k \in DOMAIN ss'.supersets[i] : k \in Nat /\
            (k < Len(ss.supersets[i]) + 1 => k \in DOMAIN ss.supersets[i])
  BY <1>1, <1>2, <1>4, <1>5, GrownType
<1>7. v # {} /\ {v} \in SUBSET DOMAIN Classes(v)
  <2>1. v # {}
    BY <1>3, <1>4
  <2> QED BY <1>1, <2>1, ClassesDef
<1>8. /\ ClassesHold'
      /\ DOMAIN VNH_2_vmac' = DOMAIN VNH_2_vmac \cup {v}
      /\ DOMAIN VNH_2_vmac' \subseteq DOMAIN FEC_list'
      /\ VmacHolds(ss', VNH_2_vmac'[v], v, policies, serving)
      /\ \A w \in DOMAIN VNH_2_vmac \ {v} : VNH_2_vmac'[w] = VNH_2_vmac[w]
  <2>1. /\ ClassesHold'
        /\ DOMAIN VNH_2_vmac' = DOMAIN VNH_2_vmac \cup {v}
        /\ DOMAIN VNH_2_vmac' \subseteq DOMAIN FEC_list'
        /\ \A w \in {v} : VmacHolds(ss', VNH_2_vmac'[w], w, policies, serving)
        /\ \A w \in DOMAIN VNH_2_vmac \ {v} : VNH_2_vmac'[w] = VNH_2_vmac[w]
    BY <1>1, <1>2, <1>6, <1>7, GarpsSent
  <2> QED BY <2>1
<1>9. ASSUME NEW w \in fresh' PROVE VmacHolds(ss', VNH_2_vmac'[w], w, policies, serving)
  <2>1. CASE w = v
    BY <1>8, <2>1
  <2>2. CASE w # v
    <3>1. w \in fresh /\ w \in DOMAIN VNH_2_vmac
      BY <1>1, <1>2, <2>2 DEF Follows
    <3>2. VNH_2_vmac'[w] = VNH_2_vmac[w]
      BY <1>8, <2>2, <3>1
    <3>3. VmacHolds(ss, VNH_2_vmac[w], w, policies, serving)
      BY <1>1, <3>1 DEF Follows
    <3>4. serving \in BOOLEAN
      BY <1>1 DEF TypeOK
    <3> QED BY <1>6, <3>2, <3>3, <3>4, VmacStillHolds
  <2> QED BY <2>1, <2>2
<1>10. \A r \in rules' : HasPlace(r, ss', policies)
  <2> SUFFICES ASSUME NEW r \in rules' PROVE HasPlace(r, ss', policies)
    OBVIOUS
  <2>1. CASE r \in rules
    BY <1>1, <1>6, <2>1, PlaceStillThere DEF Follows
  <2>2. CASE r \in RulesOf(policies, ss', Places(ss', {i}, Len(old) + 1))
    <3>1. {i} \in SUBSET DOMAIN ss'.supersets
      BY <1>4, <1>6
    <3> QED BY <2>2, <3>1, RulesOfHavePlaces
  <2> QED BY <1>2, <2>1, <2>2
<1>11. serving => FirstHasRules(ss', policies, rules')
  <2> SUFFICES ASSUME serving, 1 \in DOMAIN ss'.supersets, NEW x \in policies,
                      NEW k \in DOMAIN ss'.supersets[1], ss'.supersets[1][k] = x.fwd
               PROVE  RuleFor(x, ss', 1, k) \in rules'
    BY DEF FirstHasRules
  <2>1. CASE k \in DOMAIN ss.supersets[1]
    <3>1. 1 \in DOMAIN ss.supersets /\ ss.supersets[1][k] = x.fwd
      BY <1>6, <2>1 DEF Extends
    <3>2. RuleFor(x, ss, 1, k) \in rules
      BY <1>1, <2>1, <3>1 DEF Follows, FirstHasRules
    <3>3. RuleFor(x, ss', 1, k) = RuleFor(x, ss, 1, k)
      BY <1>6 DEF RuleFor
    <3> QED BY <1>2, <3>2, <3>3
  <2>2. CASE k \notin DOMAIN ss.supersets[1]
    <3>1. i = 1
      BY <1>6, <2>2
    <3>2. k \in Nat /\ k >= Len(old) + 1
      <4>1. Len(old) \in Nat
        BY <1>1, <1>4, SuperSetsType
      <4> QED BY <1>6, <2>2, <3>1, <4>1
    <3>3. 1 \in {i} /\ {i} \subseteq {1}
      BY <3>1
    <3>4. RuleFor(x, ss', 1, k) \in RulesOf(policies, ss', Places(ss', {i}, Len(old) + 1))
      BY <3>2, <3>3, RulesOfOneSuperset
    <3> QED BY <1>2, <3>4
  <2> QED BY <2>1, <2>2
<1>12. fresh' \subseteq DOMAIN VNH_2_vmac'
  BY <1>1, <1>2, <1>8 DEF Follows
<1>13. ss'.supersets # <<>>
  BY <1>4, <1>6
<1> QED BY <1>6, <1>8, <1>9, <1>10, <1>11, <1>12, <1>13 DEF Follows

\* Whichever of the four it is.
LEMMA UpdateStep ==
    ASSUME Inv, NEW adv \in [Prefixes -> SUBSET Parts], NEW p \in Prefixes, NEW announced,
           \A r \in Prefixes \ {p} : adv[r] = advertising[r],
           adv[p] # {} \/ advertising[p] # {},
           ~announced => advertising[p] # {}, announced => adv[p] # {},
           ProcessUpdate(adv, p, announced)
    PROVE  Inv'
<1>1. TypeOK /\ NothingYet
  BY DEF Inv
<1>2. advertising' = adv /\ UNCHANGED <<policies, serving>>
  BY DEF ProcessUpdate
<1>3. adv[p] \in SUBSET Parts
  OBVIOUS
<1>4. ASSUME serving, ss.supersets = <<>> PROVE Known(adv) \subseteq {p} /\ announced
  BY <1>1, <1>4 DEF NothingYet, Known
<1>5. ASSUME announced PROVE Known(adv) # {}
  BY <1>5 DEF Known
<1>6. CASE FirstSupersets(adv, adv[p])
  <2>1. ss.supersets = <<>>
    BY <1>6 DEF FirstSupersets
  <2>2. serving => Known(adv) \subseteq {p} /\ Known(adv) # {}
    BY <1>4, <1>5, <2>1
  <2>3. Follows' /\ (Known(adv) # {} => ss'.supersets # <<>>)
    BY <1>2, <1>6, <2>2, FirstSupersetsStep
  <2>4. NothingYet'
    BY <1>2, <2>2, <2>3 DEF NothingYet
  <2> QED BY <1>1, <1>2, <2>3, <2>4, FollowsAfter
<1>7. CASE SameSupersets(adv[p], announced)
  <2>1. Follows' /\ ss'.supersets # <<>>
    BY <1>2, <1>7, SameSupersetsStep
  <2>2. NothingYet'
    BY <2>1 DEF NothingYet
  <2> QED BY <1>1, <1>2, <2>1, <2>2, FollowsAfter
<1>8. CASE ExpandSuperset(adv[p], announced)
  <2>1. Follows' /\ ss'.supersets # <<>>
    BY <1>2, <1>3, <1>8, ExpandSupersetStep
  <2>2. NothingYet'
    BY <2>1 DEF NothingYet
  <2> QED BY <1>1, <1>2, <2>1, <2>2, FollowsAfter
<1>9. CASE RecomputeSupersets(adv, adv[p], announced)
  <2>1. Known(adv) # {}
    BY <1>5, <1>9 DEF RecomputeSupersets, NeedsRoom
  <2>2. Follows' /\ ss'.supersets # <<>>
    BY <1>2, <1>9, <2>1, RecomputeStep
  <2>3. NothingYet'
    BY <2>2 DEF NothingYet
  <2> QED BY <1>1, <1>2, <2>2, <2>3, FollowsAfter
<1> QED BY <1>6, <1>7, <1>8, <1>9 DEF ProcessUpdate

LEMMA AnnounceStep ==
    ASSUME Inv, NEW p \in Prefixes, NEW q \in Parts, Announce(p, q) PROVE Inv'
<1> DEFINE adv == [advertising EXCEPT ![p] = @ \cup {q}]
<1>1. advertising \in [Prefixes -> SUBSET Parts]
  BY DEF Inv, TypeOK
<1>2. /\ adv \in [Prefixes -> SUBSET Parts] /\ adv[p] # {}
      /\ \A r \in Prefixes \ {p} : adv[r] = advertising[r]
  BY <1>1
<1>3. ProcessUpdate(adv, p, TRUE)
  BY DEF Announce
<1> HIDE DEF adv
<1> QED BY <1>2, <1>3, UpdateStep

LEMMA WithdrawStep ==
    ASSUME Inv, NEW p \in Prefixes, NEW q \in Parts, Withdraw(p, q) PROVE Inv'
<1> DEFINE adv == [advertising EXCEPT ![p] = @ \ {q}]
<1>1. advertising \in [Prefixes -> SUBSET Parts]
  BY DEF Inv, TypeOK
<1>2. /\ adv \in [Prefixes -> SUBSET Parts]
      /\ \A r \in Prefixes \ {p} : adv[r] = advertising[r]
  BY <1>1
<1>3. ProcessUpdate(adv, p, FALSE) /\ advertising[p] # {}
  BY DEF Withdraw
<1> HIDE DEF adv
<1> QED BY <1>2, <1>3, UpdateStep

-----------------------------------------------------------------------------
(* Policy changes *)

LEMMA RemovePoliciesStep ==
    ASSUME Inv, NEW c \in Changes, RemovePolicies(c) PROVE Inv'
<1>1. /\ policies' = {x \in policies : x.cookie \notin c.removed}
      /\ rules' = Without(rules, c.removed \cap Cookies(policies))
      /\ UNCHANGED <<advertising, serving, ss, FEC_list, VNH_2_vmac, updates, fresh>>
      /\ serving
  BY DEF RemovePolicies
<1>2. policies' \subseteq policies /\ Forwards(policies') \subseteq Forwards(policies)
  BY <1>1 DEF Forwards
<1>3. TypeOK'
  <2>1. TypeOK
    BY DEF Inv
  <2>2. IsFiniteSet(policies')
    BY <1>2, <2>1, FS_Subset DEF TypeOK
  <2> QED BY <1>1, <1>2, <2>1, <2>2 DEF TypeOK
<1>4. ClassesHold'
  <2>1. ClassesHold
    BY DEF Inv
  <2> QED BY <1>1, <1>2, <2>1 DEF ClassesHold
<1>5. VmacsHold'
  <2> SUFFICES ASSUME NEW v \in fresh, VNH_2_vmac[v] # NoVmac
               PROVE  \E i \in DOMAIN ss.supersets :
                         /\ Names(ss, VNH_2_vmac[v], i, v \cap PeersOut)
                         /\ Marks(ss, VNH_2_vmac[v], i, v \cap PeersOut \cap Forwards(policies'))
    BY <1>1 DEF VmacsHold
  <2>1. PICK i \in DOMAIN ss.supersets :
           /\ Names(ss, VNH_2_vmac[v], i, v \cap PeersOut)
           /\ Marks(ss, VNH_2_vmac[v], i, v \cap PeersOut \cap Forwards(policies))
    BY <1>1 DEF Inv, VmacsHold
  <2>2. Marks(ss, VNH_2_vmac[v], i, v \cap PeersOut \cap Forwards(policies'))
    BY <1>2, <2>1 DEF Marks
  <2> QED BY <2>1, <2>2
<1>6. FirstHasRules(ss, policies', rules')
  <2> SUFFICES ASSUME 1 \in DOMAIN ss.supersets, NEW x \in policies',
                      NEW k \in DOMAIN ss.supersets[1], ss.supersets[1][k] = x.fwd
               PROVE  RuleFor(x, ss, 1, k) \in rules'
    BY DEF FirstHasRules
  <2>1. x \in policies /\ x.cookie \notin c.removed
    BY <1>1
  <2>2. RuleFor(x, ss, 1, k) \in rules
    BY <1>1, <2>1 DEF Inv, FirstHasRules
  <2>3. RuleFor(x, ss, 1, k).cookie = x.cookie
    BY DEF RuleFor
  <2> QED BY <1>1, <2>1, <2>2, <2>3 DEF Without
<1>7. ASSUME NEW r \in rules' PROVE HasPlace(r, ss, policies')
  <2>1. r \in rules /\ r.cookie \notin c.removed \cap Cookies(policies)
    BY <1>1 DEF Without
  <2>2. PICK x \in policies, i \in DOMAIN ss.supersets : \E k \in DOMAIN ss.supersets[i] :
           r = RuleFor(x, ss, i, k) /\ ss.supersets[i][k] = x.fwd
    BY <2>1 DEF Inv, HasPlace
  <2>3. r.cookie = x.cookie
    BY <2>2 DEF RuleFor
  <2>4. x \in policies'
    BY <1>1, <2>1, <2>3 DEF Cookies
  <2> QED BY <2>2, <2>4 DEF HasPlace
<1>8. NothingYet'
  BY <1>1 DEF Inv, NothingYet
<1> QED BY <1>1, <1>3, <1>4, <1>5, <1>6, <1>7, <1>8 DEF Inv

LEMMA ReplacePoliciesStep ==
    ASSUME Inv, NEW c \in Changes, ReplacePolicies(c) PROVE Inv'
<1> DEFINE kept == {x \in policies : x.cookie \notin c.removed}
<1>1. /\ policies' = {x \in kept : x.cookie \notin Cookies(c.added)} \cup c.added
      /\ ss' = Recomputed(policies', advertising)
      /\ rules' = Without(rules, Cookies(policies))
                  \cup RulesOf(policies', ss', Places(ss', DOMAIN ss'.supersets, 1))
      /\ serving' = FALSE /\ fresh' = {}
      /\ UNCHANGED <<advertising, FEC_list, VNH_2_vmac, updates>>
  BY DEF ReplacePolicies
<1>2. TypeOK
  BY DEF Inv
<1>3. policies' \subseteq Policy /\ IsFiniteSet(policies')
  <2>1. c.added \subseteq Policy /\ IsFiniteSet(c.added)
    BY SupersetsAssumption
  <2> DEFINE rest == {x \in kept : x.cookie \notin Cookies(c.added)}
  <2>2. rest \subseteq policies
    OBVIOUS
  <2>3. IsFiniteSet(rest)
    <3> HIDE DEF rest
    <3> QED BY <1>2, <2>2, FS_Subset DEF TypeOK
  <2>4. rest \subseteq Policy
    BY <1>2, <2>2 DEF TypeOK
  <2>5. policies' = rest \cup c.added
    BY <1>1
  <2> HIDE DEF rest
  <2> QED BY <2>1, <2>3, <2>4, <2>5, FS_Union
<1>4. IsSuperSets(ss')
  BY <1>1, <1>2, <1>3, RecomputedType DEF TypeOK
<1>5. TypeOK'
  BY <1>1, <1>2, <1>3, <1>4 DEF TypeOK, IsSuperSets
<1>6. ClassesHold'
  BY <1>1 DEF Inv, ClassesHold
<1>7. VmacsHold'
  BY <1>1 DEF VmacsHold
<1>8. \A r \in rules' : HasPlace(r, ss', policies')
  <2>1. rules' = RulesOf(policies', ss', Places(ss', DOMAIN ss'.supersets, 1))
    BY <1>1, WipedClean DEF Inv
  <2>2. DOMAIN ss'.supersets \in SUBSET DOMAIN ss'.supersets
    OBVIOUS
  <2> QED BY <2>1, <2>2, RulesOfHavePlaces
<1>9. NothingYet'
  BY <1>1 DEF NothingYet
<1> QED BY <1>1, <1>5, <1>6, <1>7, <1>8, <1>9 DEF Inv

-----------------------------------------------------------------------------
(* The invariant *)

LEMMA InitInv == Init => Inv
<1> SUFFICES ASSUME Init PROVE Inv
  OBVIOUS
<1>1. /\ advertising = [p \in Prefixes |-> {}] /\ policies = InitialPolicies /\ serving = TRUE
      /\ ss = [supersets |-> <<>>, id_size |-> 1] /\ FEC_list = [v \in {} |-> {}]
      /\ VNH_2_vmac = [v \in {} |-> NoVmac] /\ rules = {} /\ fresh = {}
  BY DEF Init
<1>2. TypeOK
  <2>1. policies \subseteq Policy /\ IsFiniteSet(policies)
    BY <1>1, SupersetsAssumption
  <2>2. ss \in [supersets : Seq(Seq(Parts)), id_size : Nat] /\ ss.id_size = IdSize(Len(ss.supersets))
    <3>1. <<>> \in Seq(Seq(Parts)) /\ Len(<<>>) = 0
      OBVIOUS
    <3>2. IdSize(0) = 1
      BY DEF IdSize
    <3> QED BY <1>1, <3>1, <3>2
  <2>3. DOMAIN VNH_2_vmac = {} /\ advertising \in [Prefixes -> SUBSET Parts]
    BY <1>1
  <2> QED BY <1>1, <2>1, <2>2, <2>3 DEF TypeOK
<1>3. ClassesHold /\ VmacsHold /\ NothingYet
  BY <1>1 DEF ClassesHold, VmacsHold, NothingYet
<1>4. FirstHasRules(ss, policies, rules)
  BY <1>1 DEF FirstHasRules
<1> QED BY <1>1, <1>2, <1>3, <1>4 DEF Inv

LEMMA StutterStep ==
    ASSUME Inv, UNCHANGED vars PROVE Inv'
  BY DEF Inv, TypeOK, ClassesHold, VmacsHold, FirstHasRules, NothingYet, vars

\* No step breaks the invariant.
LEMMA NextInv == Inv /\ [Next]_vars => Inv'
<1> SUFFICES ASSUME Inv, [Next]_vars PROVE Inv'
  OBVIOUS
<1>1. ASSUME NEW p \in Prefixes, NEW q \in Parts, Announce(p, q) PROVE Inv'
  BY <1>1, AnnounceStep
<1>2. ASSUME NEW p \in Prefixes, NEW q \in Parts, Withdraw(p, q) PROVE Inv'
  BY <1>2, WithdrawStep
<1>3. ASSUME NEW c \in Changes, RemovePolicies(c) PROVE Inv'
  BY <1>3, RemovePoliciesStep
<1>4. ASSUME NEW c \in Changes, ReplacePolicies(c) PROVE Inv'
  BY <1>4, ReplacePoliciesStep
<1>5. CASE UNCHANGED vars
  BY <1>5, StutterStep
<1> QED BY <1>1, <1>2, <1>3, <1>4, <1>5 DEF Next

-----------------------------------------------------------------------------
(* What follows from it *)

(***************************************************************************)
(* For every set of participants, prefixes, policies and policy changes    *)
(* and every number of bits: the supersets stay lists of participants, the *)
(* number has the width that as many supersets need, and every VNH that    *)
(* has a VMAC is a class the controller knows.                             *)
(***************************************************************************)
THEOREM TypeCorrect == Spec => []TypeOK
<1>1. Inv => TypeOK
  BY DEF Inv
<1> QED BY <1>1, InitInv, NextInv, PTL DEF Spec

LEMMA InvDiverts ==
    ASSUME Inv PROVE DivertsOnlyToAdvertisers
<1> SUFFICES ASSUME NEW p \in Current, NEW r \in rules, Matches(r, VmacOf(p))
             PROVE  r.fwd \in advertising[p] \cap PeersOut
  BY DEF DivertsOnlyToAdvertisers
<1>1. IsSuperSets(ss)
  BY InvFollows DEF Follows
<1>2. PICK x \in policies, i \in DOMAIN ss.supersets : \E k \in DOMAIN ss.supersets[i] :
         r = RuleFor(x, ss, i, k) /\ ss.supersets[i][k] = x.fwd
  BY DEF Inv, HasPlace
<1>3. PICK k \in DOMAIN ss.supersets[i] : r = RuleFor(x, ss, i, k) /\ ss.supersets[i][k] = x.fwd
  BY <1>2
<1>4. /\ r.fwd = x.fwd /\ r.id = IdBits(i, ss.id_size) /\ r.width = ss.id_size
      /\ r.bit = ss.id_size + k
  BY <1>3 DEF RuleFor
<1>5. /\ VmacOf(p) # NoVmac /\ VmacOf(p) \cap (1..ss.id_size) = IdBits(i, ss.id_size)
      /\ ss.id_size + k \in VmacOf(p)
  BY <1>4 DEF Matches
<1>6. advertising[p] \in fresh /\ VmacOf(p) = VNH_2_vmac[advertising[p]]
  BY DEF Current, VmacOf
<1>7. PICK j \in DOMAIN ss.supersets : Names(ss, VmacOf(p), j, advertising[p] \cap PeersOut)
  BY <1>5, <1>6 DEF Inv, VmacsHold
<1>8. i = j
  <2>1. IdBits(i, ss.id_size) = IdBits(j, ss.id_size)
    BY <1>5, <1>7 DEF Names
  <2> QED BY <1>1, <2>1, IdBitsInjective
<1>9. k \in Nat \ {0}
  BY <1>1, SuperSetsType
<1>10. ss.supersets[j][k] \in advertising[p] \cap PeersOut
  BY <1>5, <1>7, <1>9 DEF Names
<1> QED BY <1>3, <1>4, <1>8, <1>10

(***************************************************************************)
(* For every set of participants, policies and updates: a packet whose     *)
(* VMAC is of the present supersets is diverted only to a participant that *)
(* advertises its prefix and whose routes are accepted.  No two supersets  *)
(* have the same number, so a rule and a VMAC that agree on it speak of    *)
(* the same members.                                                       *)
(***************************************************************************)
THEOREM NoWrongDiversion == Spec => []DivertsOnlyToAdvertisers
  BY InitInv, NextInv, InvDiverts, PTL DEF Spec

(***************************************************************************)
(* For every set of participants, policies and updates: each rule at the   *)
(* switch belongs to a policy the participant still has and matches a      *)
(* place where its target is now.  Wiping the rules of the policies at     *)
(* hand wipes all, as no rule outlives its policy.                         *)
(***************************************************************************)
THEOREM NoRuleLeftBehind == Spec => []RulesAreCurrent
<1>1. Inv => RulesAreCurrent
  BY DEF Inv, HasPlace, RulesAreCurrent
<1> QED BY <1>1, InitInv, NextInv, PTL DEF Spec

LEMMA InvFirstApplies ==
    ASSUME Inv PROVE FirstSupersetApplies
<1> SUFFICES ASSUME serving, NEW p \in Current, NEW x \in policies,
                    VmacOf(p) # NoVmac, VmacOf(p) \cap (1..ss.id_size) = {},
                    x.fwd \in advertising[p] \cap PeersOut
             PROVE  \E r \in rules : r.cookie = x.cookie /\ r.fwd = x.fwd /\ Matches(r, VmacOf(p))
  BY DEF FirstSupersetApplies
<1>1. IsSuperSets(ss)
  BY InvFollows DEF Follows
<1>2. advertising[p] \in fresh /\ VmacOf(p) = VNH_2_vmac[advertising[p]]
  BY DEF Current, VmacOf
<1>3. PICK i \in DOMAIN ss.supersets :
         /\ Names(ss, VmacOf(p), i, advertising[p] \cap PeersOut)
         /\ Marks(ss, VmacOf(p), i, advertising[p] \cap PeersOut \cap Forwards(policies))
  BY <1>2 DEF Inv, VmacsHold
<1>4. 1 \in DOMAIN ss.supersets /\ IdBits(1, ss.id_size) = {}
  <2>1. DOMAIN ss.supersets = 1..Len(ss.supersets) /\ Len(ss.supersets) \in Nat /\ ss.id_size \in Nat
    BY <1>1, SuperSetsType
  <2> QED BY <1>3, <2>1, FirstIdBits
<1>5. i = 1
  <2>1. IdBits(i, ss.id_size) = IdBits(1, ss.id_size)
    BY <1>3, <1>4 DEF Names
  <2> QED BY <1>1, <1>4, <2>1, IdBitsInjective
<1>6. PICK k \in DOMAIN ss.supersets[1] : ss.supersets[1][k] = x.fwd /\ ss.id_size + k \in VmacOf(p)
  <2>1. x.fwd \in advertising[p] \cap PeersOut \cap Forwards(policies)
    BY DEF Forwards
  <2> QED BY <1>3, <1>5, <2>1 DEF Marks
<1> DEFINE r == RuleFor(x, ss, 1, k)
<1>7. r \in rules
  BY <1>4, <1>6 DEF Inv, FirstHasRules
<1>8. /\ r.cookie = x.cookie /\ r.fwd = x.fwd /\ r.id = IdBits(1, ss.id_size)
      /\ r.width = ss.id_size /\ r.bit = ss.id_size + k
  BY DEF RuleFor
<1> HIDE DEF r
<1>9. Matches(r, VmacOf(p))
  BY <1>4, <1>6, <1>8 DEF Matches
<1> QED BY <1>7, <1>8, <1>9

(***************************************************************************)
(* For every set of participants, policies and updates, until policies are *)
(* replaced: for a prefix whose VMAC names the first superset, each policy *)
(* that forwards to an advertiser whose routes are accepted has a rule     *)
(* that matches the VMAC, although a recomputation that an update asked    *)
(* for makes the rules of the first superset only.                         *)
(***************************************************************************)
THEOREM FirstSupersetServed == Spec => []FirstSupersetApplies
  BY InitInv, NextInv, InvFirstApplies, PTL DEF Spec

LEMMA TypePacks ==
    ASSUME TypeOK PROVE PackingServesAll
<1> DEFINE S == {advertising[p] \cap Forwards(policies) : p \in Known(advertising)}
           sets == RemoveSubsets(S)
           weight == RuleCounts(policies)
<1> SUFFICES ASSUME NEW bits \in 0..(Cardinality(Parts) + 2)
             PROVE  LET packed == Minimize(sets, weight, bits)
                    IN /\ \A p \in Known(advertising) : \E j \in DOMAIN packed :
                              advertising[p] \cap Forwards(policies) \subseteq packed[j]
                       /\ RulesRequired(packed, weight) <= RulesRequired(sets, weight)
                       /\ packed # sets =>
                              BitsRequired(packed) <= bits + (IF Len(packed) > 1 THEN 0 ELSE 1)
  BY DEF PackingServesAll
<1> DEFINE packed == Minimize(sets, weight, bits)
<1>1. IsFiniteSet(Parts) /\ bits \in Int
  BY SupersetsAssumption
<1>2. S \in SUBSET (SUBSET Parts)
  BY DEF TypeOK, Known
<1>3. \A p \in Known(advertising) : advertising[p] \cap Forwards(policies) \in S
  OBVIOUS
<1>4. weight \in [Parts -> Nat]
  BY RuleCountsType DEF TypeOK
<1> HIDE DEF S, weight
<1>5. sets \in Seq(SUBSET Parts) /\ \A s \in S : \E i \in DOMAIN sets : s \subseteq sets[i]
  BY <1>1, <1>2, RemoveSubsetsDef
<1> HIDE DEF sets
<1>6. Serves(packed, sets, weight, bits)
  BY <1>1, <1>4, <1>5, MinimizeServes
<1> HIDE DEF packed
<1>7. ASSUME NEW p \in Known(advertising)
      PROVE  \E j \in DOMAIN packed : advertising[p] \cap Forwards(policies) \subseteq packed[j]
  <2>1. PICK i \in DOMAIN sets : advertising[p] \cap Forwards(policies) \subseteq sets[i]
    BY <1>3, <1>5
  <2>2. PICK j \in DOMAIN packed : sets[i] \subseteq packed[j]
    BY <1>6 DEF Serves
  <2> QED BY <2>1, <2>2
<1>8. /\ RulesRequired(packed, weight) <= RulesRequired(sets, weight)
      /\ packed # sets => BitsRequired(packed) <= bits + (IF Len(packed) > 1 THEN 0 ELSE 1)
  BY <1>6 DEF Serves
<1> QED BY <1>7, <1>8 DEF packed

(***************************************************************************)
(* For every set of participants, policies and updates and every number of *)
(* bits up to two more than there are participants: packing keeps the      *)
(* active advertisers of each prefix together, needs no more rules than    *)
(* the sets it packs, and stays within the bits it was given, but for one  *)
(* when everything became a single superset.                               *)
(***************************************************************************)
THEOREM PackingIsSafe == Spec => []PackingServesAll
  BY TypeCorrect, TypePacks, PTL

=============================================================================
