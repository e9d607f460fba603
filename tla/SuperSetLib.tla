---------------------------- MODULE SuperSetLib ----------------------------
(***************************************************************************)
(* The superset algorithms of a participant controller (pctrl/ss_lib.py):  *)
(* sets of participants are packed into few supersets, so that few rules   *)
(* are needed and a superset's number and a bit for each of its members    *)
(* fit the VMAC.                                                           *)
(*                                                                         *)
(* A weight is the number of policies that forward to a participant.       *)
(* Python's order of equally long sets and of the members of a set, which  *)
(* is arbitrary, is a fixed one here.                                      *)
(***************************************************************************)
EXTENDS Integers, Sequences, FiniteSets

Seqs == INSTANCE SequencesExt
Sets == INSTANCE FiniteSetsExt

Members(s) == {s[k] : k \in DOMAIN s}

Pow2[w \in Nat] == IF w = 0 THEN 1 ELSE 2 * Pow2[w - 1]

CeilLog2(n) == CHOOSE w \in 0..n : Pow2[w] >= n /\ \A u \in 0..(w - 1) : Pow2[u] < n

\* Bits for the number of one of n supersets.
IdSize(n) == IF n > 1 THEN CeilLog2(n) ELSE 1

\* maxLength
Longest(sets) == Sets!Max({Cardinality(sets[i]) : i \in DOMAIN sets} \cup {0})

\* bitsRequired
BitsRequired(sets) == IdSize(Len(sets)) + Longest(sets)

\* The rules that the members of S need, numbered.
RulesOfSet(S, weight) == UNION {{q} \X (1..weight[q]) : q \in S}

Cost(S, weight) == Cardinality(RulesOfSet(S, weight))

\* rulesRequired
RulesRequired(sets, weight) ==
    Cardinality(UNION {{i} \X RulesOfSet(sets[i], weight) : i \in DOMAIN sets})

\* Sets, listed with the longest first.
ByLength(S) ==
    CHOOSE f \in [1..Cardinality(S) -> S] :
        \A i, j \in DOMAIN f : i < j => f[i] # f[j] /\ Cardinality(f[i]) >= Cardinality(f[j])

\* removeSubsets
RemoveSubsets(sets) == ByLength({s \in sets : \A t \in sets : s \subseteq t => t = s})

\* Slip: the union may be as long as it likes.
PairsAnyLength(sets, weight, maxBits) ==
    {p \in (DOMAIN sets) \X (DOMAIN sets) :
        sets[p[1]] # sets[p[2]] /\ Cost(sets[p[1]] \cap sets[p[2]], weight) > 0}

\* A merge of 2^x + 1 supersets saves a bit of their number.
SavesBit(m) == \E x \in 0..m : m = Pow2[x] + 1

\* The pairs whose merge is thought to stay within the bits and saves a rule.
Pairs(sets, weight, maxBits) ==
    LET saved == IF SavesBit(Len(sets)) THEN 1 ELSE 0
        grows(p) == Sets!Max({0, Cardinality(sets[p[1]] \cup sets[p[2]]) - Longest(sets)})
    IN {p \in (DOMAIN sets) \X (DOMAIN sets) :
            /\ sets[p[1]] # sets[p[2]]
            /\ BitsRequired(sets) - saved + grows(p) <= maxBits
            /\ Cost(sets[p[1]] \cap sets[p[2]], weight) > 0}

\* The first pair of those that save most.
BestPair(sets, weight, pairs) ==
    CHOOSE p \in pairs : \A q \in pairs :
        LET save(r) == Cost(sets[r[1]] \cap sets[r[2]], weight)
        IN \/ save(p) > save(q)
           \/ /\ save(p) = save(q)
              /\ p[1] < q[1] \/ (p[1] = q[1] /\ p[2] <= q[2])

\* One round: the first set of the best pair becomes their union, and the first set
\* that equals the second goes.
Merged(sets, weight, maxBits) ==
    LET pairs == Pairs(sets, weight, maxBits)
        p == BestPair(sets, weight, pairs)
        wider == [sets EXCEPT ![p[1]] = @ \cup sets[p[2]]]
    IN IF pairs = {} THEN sets ELSE Seqs!RemoveFirst(wider, sets[p[2]])

\* minimize_ss_rules_greedy: after Len(sets) rounds nothing is left to merge.
Minimize(sets, weight, maxBits) ==
    LET round[n \in 0..Len(sets)] ==
            IF n = 0 THEN sets ELSE Merged(round[n - 1], weight, maxBits)
    IN round[Len(sets)]

\* best_ss_to_expand_greedy: the first of the cheapest, 0 if none has room.
BestToExpand(new, supersets, weight, maskSize) ==
    LET fits == {i \in DOMAIN supersets : Cardinality(new \cup Members(supersets[i])) <= maskSize}
        cost(i) == Cost(new \ Members(supersets[i]), weight)
    IN IF fits = {} THEN 0
       ELSE CHOOSE i \in fits : \A j \in fits :
                cost(i) < cost(j) \/ (cost(i) = cost(j) /\ i <= j)

\* A set as a list.
Listed(S) == Seqs!SetToSeq(S)
=============================================================================
