----------------------------- MODULE Inductions -----------------------------
(***************************************************************************)
(* Induction over numbers and over the subsets of a finite set, for sets   *)
(* instead of predicates, the functions defined by recursion over subsets  *)
(* that the folds of the community modules are made of, and the sequences  *)
(* that list a set.                                                        *)
(***************************************************************************)
EXTENDS Integers, FiniteSets, Sequences, SequencesExt,
        FiniteSetTheorems, WellFoundedInduction, TLAPS

\* A set with zero, and with the successor of each of its numbers, has them all.
LEMMA AllNaturals ==
  ASSUME NEW S, 0 \in S, \A n \in Nat : n \in S => n + 1 \in S
  PROVE  Nat \subseteq S
<1> SUFFICES ASSUME Nat \ S # {} PROVE FALSE
  OBVIOUS
<1>1. PICK n \in Nat \ S : \A m \in Nat \ S : ~ (<<m, n>> \in OpToRel(<, Nat))
  BY NatLessThanWellFounded, WFMin, Nat \ S \subseteq Nat
<1>2. n # 0 /\ n - 1 \in Nat
  OBVIOUS
<1>3. n - 1 \in S
  <2>1. <<n - 1, n>> \in OpToRel(<, Nat)
    BY <1>2 DEF OpToRel
  <2> QED BY <2>1, <1>1, <1>2
<1> QED BY <1>2, <1>3, n = (n - 1) + 1

\* A set of subsets of S that has each one whose smaller ones it has, has all.
LEMMA AllSubsets ==
  ASSUME NEW S, IsFiniteSet(S), NEW P,
         \A t \in SUBSET S : (\A u \in SUBSET t : u # t => u \in P) => t \in P
  PROVE  SUBSET S \subseteq P
<1> SUFFICES ASSUME (SUBSET S) \ P # {} PROVE FALSE
  OBVIOUS
<1> DEFINE T == (SUBSET S) \ P
           R == StrictSubsetOrdering(S)
<1>1. T \subseteq FiniteSubsetsOf(S) /\ T # {}
  BY FS_FiniteSubsetsOfFinite
<1>2. IsWellFoundedOn(R, FiniteSubsetsOf(S))
  BY FS_StrictSubsetOrderingWellFounded
<1>3. PICK t \in T : \A u \in T : ~ (<<u, t>> \in R)
  <2> HIDE DEF T, R
  <2> QED BY <1>1, <1>2, WFMin
<1>4. \A u \in SUBSET t : u # t => u \in P
  BY <1>3 DEF StrictSubsetOrdering
<1> QED BY <1>3, <1>4

\* Functions f and g agree on {}, and on a subset of S when they agree on what
\* is left of it without the element picked.
Alike(f, g, S, pick) ==
  /\ f[{}] = g[{}]
  /\ \A t \in SUBSET S : t # {} =>
       /\ pick[t] \in t
       /\ f[t \ {pick[t]}] = g[t \ {pick[t]}] => f[t] = g[t]

\* Such functions agree on all subsets.
LEMMA Unique ==
  ASSUME NEW S, IsFiniteSet(S), NEW pick, NEW f, NEW g, Alike(f, g, S, pick)
  PROVE  \A t \in SUBSET S : f[t] = g[t]
<1> USE DEF Alike
<1> DEFINE P == {t \in SUBSET S : f[t] = g[t]}
<1>1. ASSUME NEW t \in SUBSET S, \A u \in SUBSET t : u # t => u \in P
      PROVE  t \in P
  <2>1. CASE t = {}
    BY <2>1
  <2>2. CASE t # {}
    <3>1. pick[t] \in t
      BY <2>2
    <3>2. t \ {pick[t]} \in P
      BY <3>1, <1>1
    <3> QED BY <2>2, <3>2
  <2> QED BY <2>1, <2>2
<1> HIDE DEF P
<1>2. SUBSET S \subseteq P
  BY <1>1, AllSubsets
<1> QED BY <1>2 DEF P

\* Function f takes one element after the other out of a subset of S.
Recursive(f, S, base, pick, step) ==
  \A t \in SUBSET S :
    f[t] = IF t = {} THEN base ELSE step[<<pick[t], f[t \ {pick[t]}]>>]

\* There is such a function, however the elements are picked.
LEMMA Recursion ==
  ASSUME NEW S, IsFiniteSet(S), NEW V, NEW base \in V, NEW pick,
         \A t \in SUBSET S : t # {} => pick[t] \in t,
         NEW step \in [S \X V -> V]
  PROVE  \E f \in [SUBSET S -> V] : Recursive(f, S, base, pick, step)
<1> DEFINE Is(f, t) ==
             f[t] = IF t = {} THEN base ELSE step[<<pick[t], f[t \ {pick[t]}]>>]
           N == {n \in Nat : \E f \in [SUBSET S -> V] :
                   \A t \in SUBSET S : Cardinality(t) <= n => Is(f, t)}
<1>0. \A t \in SUBSET S : /\ IsFiniteSet(t) /\ Cardinality(t) \in Nat
                          /\ Cardinality(t) <= Cardinality(S)
                          /\ (Cardinality(t) = 0 <=> t = {})
  BY FS_Subset, FS_CardinalityType, FS_EmptySet
<1>1. 0 \in N
  <2> DEFINE f == [t \in SUBSET S |-> base]
  <2>1. f \in [SUBSET S -> V]
    OBVIOUS
  <2>2. \A t \in SUBSET S : Cardinality(t) <= 0 => Is(f, t)
    BY <1>0
  <2> QED BY <2>1, <2>2
<1>2. ASSUME NEW n \in Nat, n \in N
      PROVE  n + 1 \in N
  <2>1. PICK f \in [SUBSET S -> V] : \A t \in SUBSET S : Cardinality(t) <= n => Is(f, t)
    BY <1>2
  <2> DEFINE g == [t \in SUBSET S |-> IF Cardinality(t) <= n THEN f[t]
                                      ELSE step[<<pick[t], f[t \ {pick[t]}]>>]]
  <2>2. \A t \in SUBSET S : Cardinality(t) > n => t # {} /\ pick[t] \in S
    BY <1>0
  <2>3. g \in [SUBSET S -> V]
    BY <2>2, <1>0
  <2>4. ASSUME NEW t \in SUBSET S, t # {}, Cardinality(t) <= n + 1
        PROVE  g[t \ {pick[t]}] = f[t \ {pick[t]}]
    <3>1. pick[t] \in t
      BY <2>4
    <3>2. Cardinality(t \ {pick[t]}) = Cardinality(t) - 1
      BY <3>1, <1>0, FS_RemoveElement
    <3>3. Cardinality(t \ {pick[t]}) <= n /\ t \ {pick[t]} \in SUBSET S
      BY <3>2, <2>4, <1>0
    <3> QED BY <3>3
  <2>5. ASSUME NEW t \in SUBSET S, Cardinality(t) <= n + 1
        PROVE  Is(g, t)
    <3>1. CASE Cardinality(t) <= n
      BY <3>1, <2>1, <2>4, <2>5, <1>0
    <3>2. CASE ~(Cardinality(t) <= n)
      <4>1. t # {}
        BY <3>2, <1>0
      <4> QED BY <3>2, <2>4, <2>5, <4>1
    <3> QED BY <3>1, <3>2
  <2>6. \E h \in [SUBSET S -> V] : \A t \in SUBSET S : Cardinality(t) <= n + 1 => Is(h, t)
    <3> HIDE DEF g, Is
    <3> QED BY <2>3, <2>5
  <2>7. n + 1 \in Nat
    OBVIOUS
  <2> HIDE DEF Is
  <2> QED BY <2>6, <2>7
<1>3. Cardinality(S) \in N
  <2> HIDE DEF N
  <2>1. Nat \subseteq N
    BY <1>1, <1>2, AllNaturals
  <2> QED BY <2>1, FS_CardinalityType
<1>4. PICK f \in [SUBSET S -> V] :
        \A t \in SUBSET S : Cardinality(t) <= Cardinality(S) => Is(f, t)
  BY <1>3
<1> QED BY <1>0, <1>4 DEF Recursive

\* A finite set of integers that is not empty has a greatest one.
LEMMA MaxIsIn ==
  ASSUME NEW S \in SUBSET Int, IsFiniteSet(S), S # {}
  PROVE  Max(S) \in S /\ \A x \in S : x <= Max(S)
<1> DEFINE Has(t) == t = {} \/ \E x \in t : \A y \in t : x >= y
           P == {t \in SUBSET S : Has(t)}
<1>1. ASSUME NEW t \in SUBSET S, \A u \in SUBSET t : u # t => u \in P
      PROVE  t \in P
  <2>1. CASE t # {}
    <3>1. PICK x \in t : TRUE
      BY <2>1
    <3>2. CASE t \ {x} = {}
      <4>1. \A y \in t : x >= y
        BY <3>1, <3>2
      <4> QED BY <3>1, <4>1
    <3>3. CASE t \ {x} # {}
      <4>1. t \ {x} \in P
        BY <1>1, <3>1
      <4>2. PICK m \in t \ {x} : \A y \in t \ {x} : m >= y
        BY <3>3, <4>1
      <4>3. CASE m >= x
        BY <4>2, <4>3
      <4>4. CASE ~(m >= x)
        <5>1. \A y \in t : x >= y
          BY <4>2, <4>4, <3>1
        <5> QED BY <3>1, <5>1
      <4> QED BY <4>3, <4>4
    <3> QED BY <3>2, <3>3
  <2> QED BY <2>1
<1>2. SUBSET S \subseteq P
  <2> HIDE DEF P
  <2> QED BY <1>1, AllSubsets
<1>3. \E x \in S : \A y \in S : x >= y
  BY <1>2
<1> QED BY <1>3 DEF Max

\* What a fold takes last of a sequence.
LEMMA MaxOfPrefix ==
  ASSUME NEW k \in Nat \ {0}
  PROVE  Max(1..k) = k /\ (1..k) \ {Max(1..k)} = 1..(k - 1)
<1>1. Max(1..k) \in 1..k /\ \A x \in 1..k : x <= Max(1..k)
  <2>1. (1..k) \in SUBSET Int /\ IsFiniteSet(1..k) /\ k \in 1..k
    BY FS_Interval
  <2>2. 1..k # {}
    BY <2>1
  <2> DEFINE S == 1..k
  <2> HIDE DEF S
  <2>3. Max(S) \in S /\ \A x \in S : x <= Max(S)
    BY <2>1, <2>2, MaxIsIn DEF S
  <2> QED BY <2>3 DEF S
<1>2. Max(1..k) = k
  BY <1>1
<1> QED BY <1>2

\* Function f folds n elements, the last one last, with results in V.
Folds(f, n, V, base, step) ==
  \A t \in SUBSET (1..n) :
    /\ t = {} => f[t] = base
    /\ t # {} => /\ Max(t) \in 1..n /\ f[t \ {Max(t)}] \in V
                 /\ f[t] = step[<<Max(t), f[t \ {Max(t)}]>>]

\* There is such a function.
LEMMA FoldRecursion ==
  ASSUME NEW n \in Nat, NEW V, NEW base \in V, NEW step \in [(1..n) \X V -> V]
  PROVE  \E f \in [SUBSET (1..n) -> V] : Folds(f, n, V, base, step)
<1> DEFINE S == 1..n
           pick == [t \in SUBSET S |-> Max(t)]
<1>1. IsFiniteSet(S)
  BY FS_Interval
<1>2. \A t \in SUBSET S : t # {} => pick[t] \in t /\ pick[t] = Max(t)
  BY <1>1, FS_Subset, MaxIsIn, S \subseteq Int
<1>3. \E f \in [SUBSET S -> V] : Recursive(f, S, base, pick, step)
  <2>1. step \in [S \X V -> V] /\ \A t \in SUBSET S : t # {} => pick[t] \in t
    BY <1>2
  <2> HIDE DEF pick, S
  <2> QED BY <1>1, <2>1, Recursion
<1>4. PICK f \in [SUBSET S -> V] :
        \A t \in SUBSET S :
          f[t] = IF t = {} THEN base ELSE step[<<pick[t], f[t \ {pick[t]}]>>]
  BY <1>3 DEF Recursive
<1>5. ASSUME NEW t \in SUBSET S, t # {}
      PROVE  /\ Max(t) \in S /\ f[t \ {Max(t)}] \in V
             /\ f[t] = step[<<Max(t), f[t \ {Max(t)}]>>]
  <2>1. pick[t] = Max(t) /\ Max(t) \in S
    BY <1>2, <1>5
  <2>2. t \ {Max(t)} \in SUBSET S
    OBVIOUS
  <2> HIDE DEF pick, S
  <2> QED BY <1>4, <1>5, <2>1, <2>2
<1>6. \A t \in SUBSET S : t = {} => f[t] = base
  BY <1>4
<1> QED BY <1>5, <1>6 DEF Folds

\* A set of numbers that is not empty has a least one.
LEMMA MinIsIn ==
  ASSUME NEW S \in SUBSET Nat, S # {}
  PROVE  Min(S) \in S /\ \A x \in S : Min(S) <= x
<1>1. PICK m \in S : \A x \in S : ~ (<<x, m>> \in OpToRel(<, Nat))
  BY NatLessThanWellFounded, WFMin
<1>2. ASSUME NEW x \in S, ~(m <= x) PROVE FALSE
  <2>1. x \in Nat /\ m \in Nat /\ x < m
    BY <1>2
  <2>2. <<x, m>> \in OpToRel(<, Nat)
    BY <2>1 DEF OpToRel
  <2> QED BY <2>2, <1>1
<1> QED BY <1>2 DEF Min

\* Sequence s lists the elements of S, each once.
ListsOnce(s, S) ==
  /\ s \in [1..Cardinality(S) -> S] /\ Len(s) = Cardinality(S)
  /\ \A i, j \in 1..Cardinality(S) : i # j => s[i] # s[j]
  /\ \A x \in S : \E i \in 1..Cardinality(S) : s[i] = x

\* The sequences of a set have each of its elements once.
LEMMA SequencesOf ==
  ASSUME NEW S, IsFiniteSet(S), NEW s \in SetToSeqs(S)
  PROVE  ListsOnce(s, S)
<1> DEFINE n == Cardinality(S)
           D == 1..n
<1>1. s \in [D -> S] /\ \A i, j \in D : i # j => s[i] # s[j]
  BY DEF SetToSeqs
<1>2. n \in Nat
  BY FS_CardinalityType
<1>3. IsFiniteSet(D) /\ Cardinality(D) = n
  BY <1>2, FS_Interval
<1> HIDE DEF n
<1>4. Len(s) = n
  BY <1>1, <1>2
<1>5. s \in Injection(D, S)
  <2>1. \A i, j \in D : s[i] = s[j] => i = j
    BY <1>1
  <2> HIDE DEF D
  <2>2. DOMAIN s = D
    BY <1>1
  <2> QED BY <1>1, <2>1, <2>2 DEF Injection, IsInjective
<1>6. s \in Surjection(D, S)
  <2> HIDE DEF D
  <2> QED BY <1>3, <1>5, FS_Injection DEF n
<1>7. \A x \in S : \E i \in D : s[i] = x
  BY <1>6 DEF Surjection
<1> QED BY <1>1, <1>4, <1>7 DEF n, ListsOnce
=============================================================================
