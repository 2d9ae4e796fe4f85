------------------------- MODULE ProposalPagesProofs -------------------------
(***************************************************************************)
(* Proofs about ProposalPages, for any validators, people, page size and   *)
(* number of entries: what a filter keeps of a list, what a page is made   *)
(* of while the indexer writes, and that the pages leave nobody out.       *)
(***************************************************************************)
EXTENDS ProposalPages, Inductions, SequenceTheorems

(***************************************************************************)
(* Lists                                                                   *)
(***************************************************************************)

\* What a filter has kept of the first k elements of a list.
Taken(kept, list, S, k) ==
  /\ kept \in Seq(Range(list) \intersect S)
  /\ Len(kept) <= k
  /\ \A i \in 1..k : list[i] \in S => \E j \in 1..Len(kept) : j <= i /\ kept[j] = list[i]
  /\ \A j \in 1..Len(kept) : \E i \in 1..k : kept[j] = list[i]
  /\ NoOneTwice(list) => NoOneTwice(kept)

\* One element more.
LEMMA TakenOneMore ==
  ASSUME NEW T, NEW list \in Seq(T), NEW S, NEW k \in Nat, k + 1 <= Len(list),
         NEW kept, Taken(kept, list, S, k)
  PROVE  Taken(IF list[k + 1] \in S THEN Append(kept, list[k + 1]) ELSE kept,
               list, S, k + 1)
<1> DEFINE x == list[k + 1]
           R == Range(list) \intersect S
<1>1. /\ kept \in Seq(R) /\ Len(kept) \in Nat /\ Len(kept) <= k
      /\ \A i \in 1..k : list[i] \in S => \E j \in 1..Len(kept) : j <= i /\ kept[j] = list[i]
      /\ \A j \in 1..Len(kept) : \E i \in 1..k : kept[j] = list[i]
      /\ NoOneTwice(list) => NoOneTwice(kept)
      /\ DOMAIN kept = 1..Len(kept)
  <2>1. kept \in Seq(R)
    BY DEF Taken
  <2> HIDE DEF R
  <2>2. Len(kept) \in Nat /\ DOMAIN kept = 1..Len(kept)
    BY <2>1, LenProperties
  <2> QED BY <2>1, <2>2 DEF Taken
<1>2. DOMAIN list = 1..Len(list) /\ Len(list) \in Nat /\ k + 1 \in DOMAIN list
  BY LenProperties
<1>3. CASE x \in S
  <2> DEFINE more == Append(kept, x)
  <2>1. x \in R
    BY <1>2, <1>3 DEF Range
  <2> HIDE DEF R
  <2>2. /\ more \in Seq(R) /\ Len(more) = Len(kept) + 1 /\ more[Len(kept) + 1] = x
        /\ \A j \in 1..Len(kept) : more[j] = kept[j]
        /\ DOMAIN more = 1..Len(more)
    BY <1>1, <2>1, AppendProperties, LenProperties
  <2> HIDE DEF more
  <2>3. ASSUME NEW i \in 1..(k + 1), list[i] \in S
        PROVE  \E j \in 1..Len(more) : j <= i /\ more[j] = list[i]
    <3>1. CASE i = k + 1
      <4>1. Len(more) \in 1..Len(more) /\ Len(more) <= i /\ more[Len(more)] = list[i]
        BY <1>1, <2>2, <3>1
      <4> QED BY <4>1
    <3>2. CASE i # k + 1
      <4>1. i \in 1..k
        BY <3>2
      <4>2. PICK j \in 1..Len(kept) : j <= i /\ kept[j] = list[i]
        BY <1>1, <2>3, <4>1
      <4>3. j \in 1..Len(more) /\ more[j] = list[i]
        BY <1>1, <2>2, <4>2
      <4> QED BY <4>2, <4>3
    <3> QED BY <3>1, <3>2
  <2>4. ASSUME NEW j \in 1..Len(more)
        PROVE  \E i \in 1..(k + 1) : more[j] = list[i]
    <3>1. CASE j = Len(more)
      BY <1>1, <2>2, <3>1
    <3>2. CASE j # Len(more)
      <4>1. j \in 1..Len(kept)
        BY <1>1, <2>2, <3>2
      <4>2. PICK i \in 1..k : kept[j] = list[i]
        BY <1>1, <4>1
      <4> QED BY <2>2, <4>1, <4>2
    <3> QED BY <3>1, <3>2
  <2>5. ASSUME NoOneTwice(list)
        PROVE  NoOneTwice(more)
    <3>1. \A j \in 1..Len(kept) : kept[j] # x
      <4> SUFFICES ASSUME NEW j \in 1..Len(kept), kept[j] = x PROVE FALSE
        OBVIOUS
      <4>1. PICK i \in 1..k : kept[j] = list[i]
        BY <1>1
      <4>2. i \in DOMAIN list /\ i # k + 1 /\ list[i] = list[k + 1]
        BY <1>2, <4>1
      <4> QED BY <1>2, <2>5, <4>2 DEF NoOneTwice
    <3>2. \A i, j \in 1..Len(kept) : kept[i] = kept[j] => i = j
      BY <1>1, <2>5 DEF NoOneTwice
    <3>3. \A i \in 1..Len(more) : i \in 1..Len(kept) \/ i = Len(kept) + 1
      BY <1>1, <2>2
    <3> QED BY <2>2, <3>1, <3>2, <3>3 DEF NoOneTwice
  <2>6. Len(more) <= k + 1
    BY <1>1, <2>2
  <2> QED BY <1>3, <2>2, <2>3, <2>4, <2>5, <2>6 DEF Taken, R, more
<1>4. CASE x \notin S
  <2>1. \A i \in 1..(k + 1) : list[i] \in S => i \in 1..k
    BY <1>4
  <2>2. \A i \in 1..k : i \in 1..(k + 1)
    OBVIOUS
  <2>3. Len(kept) <= k + 1
    BY <1>1
  <2> QED BY <1>1, <1>4, <2>1, <2>2, <2>3 DEF Taken, R
<1> QED BY <1>3, <1>4

\* A filter goes over the whole list.
LEMMA Restricting ==
  ASSUME NEW T, NEW list \in Seq(T), NEW S
  PROVE  Taken(Restricted(list, S), list, S, Len(list))
<1> DEFINE n == Len(list)
           V == Seq(T)
           step == [p \in (1..n) \X V |->
                      IF list[p[1]] \in S THEN Append(p[2], list[p[1]]) ELSE p[2]]
           Body(g) == [t \in SUBSET DOMAIN list |->
                         IF t = {} THEN <<>>
                         ELSE IF list[Max(t)] \in S THEN Append(g[t \ {Max(t)}], list[Max(t)])
                              ELSE g[t \ {Max(t)}]]
           iter == CHOOSE g : g = Body(g)
<1>1. n \in Nat /\ DOMAIN list = 1..n /\ \A i \in 1..n : list[i] \in T
  BY LenProperties, ElementOfSeq
<1>2. \E g : g = Body(g)
  <2>1. step \in [(1..n) \X V -> V]
    <3>1. \A i \in 1..n, seq \in V :
            (IF list[i] \in S THEN Append(seq, list[i]) ELSE seq) \in V
      BY <1>1, AppendProperties
    <3> HIDE DEF V
    <3> QED BY <3>1
  <2>2. PICK f \in [SUBSET (1..n) -> V] : Folds(f, n, V, <<>>, step)
    <3>1. <<>> \in V
      OBVIOUS
    <3> HIDE DEF n, V, step
    <3> QED BY <1>1, <2>1, <3>1, FoldRecursion
  <2>3. \A t \in SUBSET (1..n) :
          f[t] = IF t = {} THEN <<>>
                 ELSE IF list[Max(t)] \in S THEN Append(f[t \ {Max(t)}], list[Max(t)])
                      ELSE f[t \ {Max(t)}]
    <3> HIDE DEF V
    <3> QED BY <2>2 DEF Folds
  <2>4. f = Body(f)
    BY <2>3, <1>1
  <2> QED BY <2>4
<1>3. iter = Body(iter)
  BY <1>2
<1>4. iter[{}] = <<>>
  BY <1>3
<1>5. ASSUME NEW k \in Nat, k + 1 <= n
      PROVE  iter[1..(k + 1)] = IF list[k + 1] \in S THEN Append(iter[1..k], list[k + 1])
                                ELSE iter[1..k]
  <2>1. 1..(k + 1) \in SUBSET DOMAIN list /\ 1..(k + 1) # {}
    <3>1. k + 1 \in 1..(k + 1)
      OBVIOUS
    <3> HIDE DEF n
    <3>2. \A i \in 1..(k + 1) : i \in 1..n
      BY <1>1, <1>5
    <3> QED BY <1>1, <3>1, <3>2
  <2>2. Max(1..(k + 1)) = k + 1 /\ (1..(k + 1)) \ {Max(1..(k + 1))} = 1..k
    BY MaxOfPrefix
  <2> HIDE DEF iter
  <2> QED BY <1>3, <2>1, <2>2
<1> DEFINE N == {k \in Nat : k <= n => Taken(iter[1..k], list, S, k)}
<1>6. 0 \in N
  <2>1. 1..0 = {}
    OBVIOUS
  <2>2. Taken(<<>>, list, S, 0)
    BY DEF Taken, NoOneTwice
  <2> HIDE DEF iter
  <2> QED BY <2>1, <2>2, <1>4
<1>7. ASSUME NEW k \in Nat, k \in N
      PROVE  k + 1 \in N
  <2> HIDE DEF iter
  <2>1. k + 1 <= n => Taken(iter[1..(k + 1)], list, S, k + 1)
    BY <1>1, <1>5, <1>7, TakenOneMore
  <2> QED BY <2>1
<1>8. n \in N
  <2> HIDE DEF N
  <2> QED BY <1>1, <1>6, <1>7, AllNaturals
<1>9. Restricted(list, S) = iter[1..n]
  BY <1>1 DEF Restricted, FoldLeft, MapThenFoldSet
<1> HIDE DEF iter
<1> QED BY <1>1, <1>8, <1>9

(***************************************************************************)
(* Statements                                                              *)
(***************************************************************************)

\* Rows after + 1 to after + first of a list, as far as there are any.
IsSlice(items, list, first, after) ==
  /\ items \in Seq(Range(list))
  /\ Len(items) = IF Len(list) <= after THEN 0
                  ELSE IF Len(list) - after <= first THEN Len(list) - after ELSE first
  /\ \A j \in 1..Len(items) : after + j \in 1..Len(list) /\ items[j] = list[after + j]

\* LIMIT and OFFSET.
LEMMA Slicing ==
  ASSUME NEW T, NEW list \in Seq(T), NEW first \in Nat, NEW after \in Nat, NEW count
  PROVE  LET page == Paginated(list, first, after, count) IN
         /\ IsSlice(page.items, list, first, after)
         /\ page.hasNext \in BOOLEAN /\ page.hasPrevious = (after > 0) /\ page.total = count
<1> DEFINE n == Len(list)
           R == Range(list)
           upto == Least(n, after + first + 1)
           found == SubSeq(list, after + 1, upto)
           last == Least(Len(found), first)
           items == SubSeq(found, 1, last)
           page == Paginated(list, first, after, count)
<1>1. n \in Nat /\ DOMAIN list = 1..n
  BY LenProperties
<1>2. \A i \in 1..n : list[i] \in R
  BY <1>1 DEF Range
<1>3. /\ page.items = items /\ page.total = count
      /\ page.hasNext = (Len(found) > first) /\ page.hasPrevious = (after > 0)
  BY DEF Paginated
<1> HIDE DEF n, R, page
<1>4. upto \in Nat /\ upto <= n /\ upto <= after + first + 1 /\ (upto = n \/ upto = after + first + 1)
  BY <1>1 DEF Least
<1> HIDE DEF upto
<1>5. /\ found \in Seq(R) /\ Len(found) = IF after + 1 <= upto THEN upto - after ELSE 0
      /\ \A i \in 1..(upto - after) : found[i] = list[after + i]
  <2> DEFINE from == after + 1
  <2>1. from \in Int /\ upto \in Int /\ \A i \in from..upto : list[i] \in R
    BY <1>1, <1>2, <1>4
  <2>2. upto - from + 1 = upto - after /\ \A i \in 1..(upto - after) : from + i - 1 = after + i
    BY <1>4
  <2> HIDE DEF from
  <2>3. /\ SubSeq(list, from, upto) \in Seq(R)
        /\ Len(SubSeq(list, from, upto)) = IF from <= upto THEN upto - from + 1 ELSE 0
        /\ \A i \in 1..(upto - from + 1) : SubSeq(list, from, upto)[i] = list[from + i - 1]
    BY <2>1, SubSeqProperties
  <2> QED BY <2>2, <2>3 DEF from
<1> HIDE DEF found
<1>6. Len(found) \in Nat /\ \A i \in 1..Len(found) : found[i] \in R
  BY <1>5, LenProperties, ElementOfSeq
<1>7. last \in Nat /\ last <= Len(found) /\ last <= first /\ (last = Len(found) \/ last = first)
  BY <1>6 DEF Least
<1> HIDE DEF last
<1>8. /\ items \in Seq(R) /\ Len(items) = last
      /\ \A i \in 1..last : items[i] = found[i]
  <2>1. last \in Int /\ 1 \in Int /\ \A i \in 1..last : found[i] \in R
    BY <1>6, <1>7
  <2>2. /\ SubSeq(found, 1, last) \in Seq(R)
        /\ Len(SubSeq(found, 1, last)) = IF 1 <= last THEN last - 1 + 1 ELSE 0
        /\ \A i \in 1..(last - 1 + 1) : SubSeq(found, 1, last)[i] = found[1 + i - 1]
    BY <2>1, SubSeqProperties
  <2>3. last - 1 + 1 = last /\ \A i \in 1..last : 1 + i - 1 = i
    BY <1>7
  <2> QED BY <1>7, <2>2, <2>3
<1> HIDE DEF items
<1>9. last = IF n <= after THEN 0 ELSE IF n - after <= first THEN n - after ELSE first
  BY <1>1, <1>4, <1>5, <1>7
<1>10. \A j \in 1..last : after + j \in 1..n /\ items[j] = list[after + j]
  <2>1. \A j \in 1..last : j \in 1..(upto - after) /\ after + j \in 1..n
    BY <1>1, <1>4, <1>5, <1>7
  <2> QED BY <1>5, <1>8, <2>1
<1>11. IsSlice(items, list, first, after)
  BY <1>8, <1>9, <1>10 DEF IsSlice, n, R
<1>12. (Len(found) > first) \in BOOLEAN
  OBVIOUS
<1> QED BY <1>3, <1>11, <1>12 DEF page

\* A slice of a list without repetitions has none.
LEMMA SliceOnce ==
  ASSUME NEW T, NEW list \in Seq(T), NEW first \in Nat, NEW after \in Nat, NEW items,
         IsSlice(items, list, first, after), NoOneTwice(list)
  PROVE  NoOneTwice(items)
<1>1. DOMAIN list = 1..Len(list) /\ Len(list) \in Nat
  BY LenProperties
<1>2. DOMAIN items = 1..Len(items) /\ Len(items) \in Nat
  <2>1. items \in Seq(Range(list))
    BY DEF IsSlice
  <2> QED BY <2>1, LenProperties
<1>0. \A k \in 1..Len(items) : after + k \in 1..Len(list) /\ items[k] = list[after + k]
  BY DEF IsSlice
<1> SUFFICES ASSUME NEW i \in DOMAIN items, NEW j \in DOMAIN items, items[i] = items[j]
             PROVE  i = j
  BY DEF NoOneTwice
<1>3. /\ after + i \in DOMAIN list /\ after + j \in DOMAIN list
      /\ list[after + i] = list[after + j] /\ i \in Int /\ j \in Int
  BY <1>0, <1>1, <1>2
<1>4. after + i = after + j
  BY <1>3 DEF NoOneTwice
<1> QED BY <1>3, <1>4

\* The validators there are, and everybody.
LEMMA ChainFinite ==
  /\ Known \in Seq(Validators) /\ NoOneTwice(Known) /\ Len(Known) \in Nat
  /\ IsFiniteSet(Chain) /\ Cardinality(Chain) \in Nat
<1>1. Known \in Seq(Validators) /\ NoOneTwice(Known)
  BY KnownType DEF Validators, NoOneTwice
<1>2. Len(Known) \in Nat /\ DOMAIN Known = 1..Len(Known)
  BY <1>1, LenProperties
<1>3. IsFiniteSet(Validators)
  <2> DEFINE D == 1..Len(Known)
  <2>1. IsFiniteSet(D)
    BY <1>2, FS_Interval
  <2>2. Known \in Surjection(D, Validators)
    <3>1. Known \in [D -> Validators] /\ \A v \in Validators : \E i \in D : Known[i] = v
      BY <1>1, <1>2 DEF Validators, Range
    <3> HIDE DEF D
    <3> QED BY <3>1 DEF Surjection
  <2> HIDE DEF D
  <2> QED BY <2>1, <2>2, FS_Surjection
<1>4. IsFiniteSet(Chain) /\ Cardinality(Chain) \in Nat
  BY <1>3, BoundsType, FS_Union, FS_CardinalityType DEF Chain
<1> QED BY <1>1, <1>2, <1>4

\* A list without repetitions of elements of a finite set is no longer than the
\* set is large.
LEMMA NoLonger ==
  ASSUME NEW S, IsFiniteSet(S), NEW list \in Seq(S), NoOneTwice(list)
  PROVE  Len(list) <= Cardinality(S)
<1> DEFINE D == 1..Len(list)
<1>1. Len(list) \in Nat /\ DOMAIN list = D
  BY LenProperties
<1>2. IsFiniteSet(D) /\ Cardinality(D) = Len(list)
  BY <1>1, FS_Interval
<1>3. list \in Injection(D, S)
  <2>1. list \in [D -> S]
    BY <1>1, ElementOfSeq
  <2> HIDE DEF D
  <2> QED BY <1>1, <2>1 DEF Injection, IsInjective, NoOneTwice
<1> HIDE DEF D
<1> QED BY <1>2, <1>3, FS_Injection

\* The validators of a page: none when they are not looked for.
LEMMA IncludedType ==
  ASSUME NEW pinned \in SUBSET Chain
  PROVE  /\ Included(pinned) \in Seq(Validators) /\ NoOneTwice(Included(pinned))
         /\ Len(Included(pinned)) \in Nat /\ Len(Included(pinned)) <= Cardinality(Chain)
         /\ IsFiniteSet(pinned) /\ Cardinality(pinned) \in Nat
         /\ pinned # {} => Len(Included(pinned)) <= Cardinality(pinned)
<1>1. IsFiniteSet(pinned) /\ Cardinality(pinned) \in Nat
  BY ChainFinite, FS_Subset, FS_CardinalityType
<1> DEFINE list == Included(pinned)
<1>2. CASE pinned = {}
  <2>1. list = Known
    BY <1>2 DEF Included
  <2> HIDE DEF list
  <2>2. list \in Seq(Validators) /\ NoOneTwice(list)
    BY <2>1, ChainFinite
  <2>3. list \in Seq(Chain)
    BY <2>2, Validators \subseteq Chain DEF Chain
  <2>4. Len(list) <= Cardinality(Chain)
    BY <2>2, <2>3, ChainFinite, NoLonger
  <2> QED BY <1>1, <1>2, <2>2, <2>4, LenProperties DEF list
<1>3. CASE pinned # {}
  <2>1. list = Restricted(Known, pinned)
    BY <1>3 DEF Included
  <2>2. Taken(Restricted(Known, pinned), Known, pinned, Len(Known))
    BY ChainFinite, Restricting
  <2> HIDE DEF list
  <2>3. list \in Seq(Range(Known) \intersect pinned) /\ NoOneTwice(list)
    BY <2>1, <2>2, ChainFinite DEF Taken
  <2>4. list \in Seq(Validators) /\ list \in Seq(pinned) /\ list \in Seq(Chain)
    BY <2>3 DEF Validators, Chain
  <2>5. Len(list) <= Cardinality(pinned) /\ Len(list) <= Cardinality(Chain)
    BY <1>1, <2>3, <2>4, ChainFinite, NoLonger
  <2> QED BY <1>1, <2>3, <2>4, <2>5, LenProperties DEF list
<1> QED BY <1>2, <1>3

\* The page of validators is a slice of those included.
LEMMA ValidatorsPageIs ==
  ASSUME NEW after \in Nat, NEW pinned \in SUBSET Chain
  PROVE  LET page == ValidatorsPage(after, pinned)
             looks == LooksForValidators(after, pinned)
             list == Included(pinned)
         IN /\ looks => IsSlice(page.items, list, First, after)
            /\ ~looks => Len(page.items) = 0
            /\ page.items \in Seq(Validators) /\ NoOneTwice(page.items)
            /\ Len(page.items) \in Nat /\ Len(page.items) <= First
            /\ page.hasNext \in BOOLEAN /\ page.total = Len(list)
            /\ page.hasPrevious = (looks /\ after > 0)
<1> DEFINE page == ValidatorsPage(after, pinned)
           looks == LooksForValidators(after, pinned)
           list == Included(pinned)
           first == IF looks THEN First ELSE 0
           from == IF looks THEN after ELSE 0
<1>1. page = Paginated(list, first, from, Len(list))
  BY DEF ValidatorsPage
<1>2. list \in Seq(Validators) /\ NoOneTwice(list) /\ first \in Nat /\ from \in Nat
  BY IncludedType, FirstType
<1>3. looks \in BOOLEAN
  BY DEF LooksForValidators
<1> HIDE DEF page, looks, list
<1>4. /\ IsSlice(page.items, list, first, from)
      /\ page.hasNext \in BOOLEAN /\ page.hasPrevious = (from > 0) /\ page.total = Len(list)
  <2> HIDE DEF first, from
  <2> QED BY <1>1, <1>2, Slicing
<1>5. NoOneTwice(page.items)
  <2> HIDE DEF first, from
  <2> QED BY <1>2, <1>4, SliceOnce
<1>6. Len(list) \in Nat /\ Range(list) \subseteq Validators
  <2>1. DOMAIN list = 1..Len(list)
    BY <1>2, LenProperties
  <2>2. \A i \in DOMAIN list : list[i] \in Validators
    BY <1>2, <2>1, ElementOfSeq
  <2> QED BY <1>2, <2>2, LenProperties DEF Range
<1>7. /\ page.items \in Seq(Validators) /\ Len(page.items) \in Nat
      /\ Len(page.items) = IF Len(list) <= from THEN 0
                           ELSE IF Len(list) - from <= first THEN Len(list) - from ELSE first
  <2>1. page.items \in Seq(Range(list))
    BY <1>4 DEF IsSlice
  <2>2. page.items \in Seq(Validators)
    BY <1>6, <2>1
  <2>3. /\ Len(page.items) = IF Len(list) <= from THEN 0
                           ELSE IF Len(list) - from <= first THEN Len(list) - from ELSE first
    BY <1>4 DEF IsSlice
  <2> QED BY <2>2, <2>3, LenProperties
<1>8. Len(page.items) <= First /\ (~looks => Len(page.items) = 0)
  BY <1>2, <1>6, <1>7, FirstType
<1>9. looks => IsSlice(page.items, list, First, after)
  BY <1>4
<1>10. page.hasPrevious = (looks /\ after > 0)
  BY <1>3, <1>4
<1> QED BY <1>4, <1>5, <1>7, <1>8, <1>9, <1>10 DEF page, looks, list

\* The rows of the validators of a page: of each at most one, and of each who is
\* on the proposal.
RowsFit(rows, items) ==
  /\ rows \in Seq(RowType) /\ Len(rows) \in Nat /\ Len(rows) <= Len(items)
  /\ \A i \in 1..Len(rows) : rows[i].who \in Range(items)
  /\ \A i, j \in 1..Len(rows) : rows[i].who = rows[j].who => i = j

\* The rows the resolvers make of the page's validators are such rows.
LEMMA RowsAre ==
  ASSUME NEW items \in Seq(Validators), NoOneTwice(items)
  PROVE  LET rows == RowsOfValidators(items) IN
         /\ RowsFit(rows, items)
         /\ \A w \in Range(items) \intersect Entered :
              \E i \in 1..Len(rows) : rows[i] = [who |-> w, entered |-> TRUE]
<1> DEFINE S == Entered \union (Range(items) \ elsewhere)
           shown == Restricted(items, S)
           rows == RowsOfValidators(items)
<1>1. Len(items) \in Nat /\ DOMAIN items = 1..Len(items)
      /\ \A i \in 1..Len(items) : items[i] \in Validators
  BY LenProperties, ElementOfSeq
<1>2. /\ shown \in Seq(Range(items) \intersect S) /\ Len(shown) <= Len(items)
      /\ \A i \in 1..Len(items) :
           items[i] \in S => \E j \in 1..Len(shown) : j <= i /\ shown[j] = items[i]
      /\ NoOneTwice(shown)
  <2> HIDE DEF S
  <2>1. Taken(shown, items, S, Len(items))
    BY Restricting
  <2> HIDE DEF shown
  <2> QED BY <2>1 DEF Taken
<1>3. rows = [i \in DOMAIN shown |-> [who |-> shown[i], entered |-> shown[i] \in Entered]]
  BY DEF RowsOfValidators, Row
<1> HIDE DEF rows
<1>4. /\ Len(shown) \in Nat /\ DOMAIN shown = 1..Len(shown)
      /\ \A i \in 1..Len(shown) : shown[i] \in Range(items)
  <2> DEFINE R == Range(items) \intersect S
  <2>1. shown \in Seq(R)
    BY <1>2
  <2> HIDE DEF shown, R
  <2>2. \A i \in 1..Len(shown) : shown[i] \in R
    BY <2>1, ElementOfSeq
  <2> QED BY <2>1, <2>2, LenProperties DEF R
<1> HIDE DEF shown
<1>5. \A i \in 1..Len(shown) : shown[i] \in Who
  <2>1. Range(items) \subseteq Validators
    BY <1>1 DEF Range
  <2> QED BY <1>4, <2>1 DEF Who, Chain
<1>6. /\ rows \in Seq(RowType) /\ Len(rows) = Len(shown)
      /\ \A i \in 1..Len(shown) : rows[i].who = shown[i]
      /\ \A i \in 1..Len(shown) : rows[i].entered = (shown[i] \in Entered)
  <2>1. \A i \in 1..Len(shown) :
          [who |-> shown[i], entered |-> shown[i] \in Entered] \in RowType
    BY <1>5 DEF RowType
  <2>2. rows \in [1..Len(shown) -> RowType]
    BY <1>3, <1>4, <2>1
  <2>3. rows \in Seq(RowType) /\ Len(rows) = Len(shown)
    BY <1>4, <2>2
  <2> QED BY <1>3, <1>4, <2>3
<1>7. RowsFit(rows, items)
  <2>1. \A i, j \in 1..Len(shown) : shown[i] = shown[j] => i = j
    BY <1>2, <1>4 DEF NoOneTwice
  <2> QED BY <1>2, <1>4, <1>6, <2>1 DEF RowsFit
<1>8. ASSUME NEW w \in Range(items) \intersect Entered
      PROVE  \E i \in 1..Len(rows) : rows[i] = [who |-> w, entered |-> TRUE]
  <2>1. PICK i \in 1..Len(items) : items[i] = w
    BY <1>1 DEF Range
  <2>2. w \in S
    OBVIOUS
  <2>3. PICK j \in 1..Len(shown) : shown[j] = w
    BY <1>2, <2>1, <2>2
  <2>4. rows[j] = [who |-> w, entered |-> w \in Entered]
    BY <1>3, <1>4, <2>3
  <2>5. (w \in Entered) = TRUE
    OBVIOUS
  <2>6. rows[j] = [who |-> w, entered |-> TRUE]
    BY <2>4, <2>5
  <2> QED BY <1>6, <2>3, <2>6
<1> QED BY <1>7, <1>8 DEF rows

\* The entries there may be.
EntriesSound ==
  /\ Entered \subseteq Who /\ entries \in [Entered -> 1 .. Values]
  /\ IsFiniteSet(Entered) /\ Cardinality(Entered) <= MaxEntries

\* What the WHERE of the second query leaves.
LEMMA RemainingAre ==
  ASSUME EntriesSound, NEW pinned, NEW items
  PROVE  LET rest == Remaining(pinned, items) IN
         /\ rest \subseteq Entered /\ IsFiniteSet(rest) /\ Cardinality(rest) \in Nat
         /\ panel = "votes" => rest \intersect Range(items) = {}
<1> DEFINE rest == Remaining(pinned, items)
<1>1. rest \subseteq Entered /\ (panel = "votes" => rest \intersect Range(items) = {})
  BY DEF Remaining
<1>2. IsFiniteSet(Entered)
  BY DEF EntriesSound
<1> HIDE DEF rest
<1>3. IsFiniteSet(rest) /\ Cardinality(rest) \in Nat
  BY <1>1, <1>2, FS_Subset, FS_CardinalityType
<1> QED BY <1>1, <1>3 DEF rest

\* A list of the other entries: nobody twice, and of votes without those of the page.
Remains(list, items) ==
  /\ list \in Seq(Who) /\ NoOneTwice(list) /\ Len(list) \in Nat
  /\ panel = "votes" => \A i \in 1..Len(list) : list[i] \notin Range(items)

\* What ORDER BY makes of what is left is such a list, with each of them in it.
LEMMA ListingIs ==
  ASSUME EntriesSound, NEW pinned, NEW items,
         NEW list \in Listings(Remaining(pinned, items))
  PROVE  Remains(list, items) /\ ListsOnce(list, Remaining(pinned, items))
<1> DEFINE rest == Remaining(pinned, items)
<1>1. /\ rest \subseteq Who /\ IsFiniteSet(rest) /\ Cardinality(rest) \in Nat
      /\ panel = "votes" => rest \intersect Range(items) = {}
  BY RemainingAre DEF EntriesSound
<1>2. list \in SetToSeqs(rest)
  BY DEF Listings
<1> HIDE DEF rest
<1>3. ListsOnce(list, rest)
  BY <1>1, <1>2, SequencesOf
<1> DEFINE n == Cardinality(rest)
<1>4. /\ list \in [1..n -> rest] /\ Len(list) = n /\ n \in Nat
      /\ \A i, j \in 1..n : i # j => list[i] # list[j]
  BY <1>1, <1>3 DEF ListsOnce
<1> HIDE DEF n
<1>5. list \in Seq(Who) /\ DOMAIN list = 1..n
  BY <1>1, <1>4
<1>6. NoOneTwice(list)
  BY <1>4, <1>5 DEF NoOneTwice
<1>7. panel = "votes" => \A i \in 1..Len(list) : list[i] \notin Range(items)
  BY <1>1, <1>4
<1> QED BY <1>3, <1>4, <1>5, <1>6, <1>7 DEF Remains, rest

\* Those of S that come before w whatever the database does with ties.
Lower(S, w) == {u \in S : entries[u] < entries[w]}

\* Whoever shares a value with nobody has the place in any listing that the lower
\* values leave.
LEMMA PlaceOf ==
  ASSUME EntriesSound, NEW S \in SUBSET Entered, NEW list \in Listings(S), NEW w \in S,
         \A u \in Entered \ {w} : entries[u] # entries[w]
  PROVE  LET at == Cardinality(Lower(S, w)) + 1
         IN at \in 1..Len(list) /\ list[at] = w
<1> DEFINE n == Cardinality(S)
           T == Lower(S, w)
<1>1. IsFiniteSet(S) /\ n \in Nat /\ IsFiniteSet(T)
  <2>1. IsFiniteSet(Entered) /\ S \subseteq Entered /\ T \subseteq S
    BY DEF EntriesSound, Lower
  <2> HIDE DEF T
  <2> QED BY <2>1, FS_Subset, FS_CardinalityType
<1>2. /\ list \in SetToSeqs(S)
      /\ \A i, j \in DOMAIN list : i < j => entries[list[i]] <= entries[list[j]]
  BY DEF Listings
<1>3. /\ list \in [1..n -> S] /\ Len(list) = n
      /\ \A i, j \in 1..n : i # j => list[i] # list[j]
      /\ \A x \in S : \E i \in 1..n : list[i] = x
  <2>1. ListsOnce(list, S)
    BY <1>1, <1>2, SequencesOf
  <2> QED BY <2>1 DEF ListsOnce
<1> HIDE DEF n
<1>4. PICK at \in 1..n : list[at] = w
  BY <1>3
<1>5. \A u \in S : entries[u] \in Nat
  BY DEF EntriesSound
<1> DEFINE D == 1..(at - 1)
           f == [i \in D |-> list[i]]
<1>6. \A i \in D : i \in 1..n /\ i < at
  BY <1>1
<1>7. \A i \in D : list[i] \in T
  <2> SUFFICES ASSUME NEW i \in D PROVE list[i] \in T
    OBVIOUS
  <2>1. list[i] \in S /\ list[i] # w
    BY <1>3, <1>4, <1>6
  <2>2. entries[list[i]] <= entries[w]
    BY <1>2, <1>3, <1>4, <1>6
  <2>3. entries[list[i]] # entries[w]
    BY <2>1
  <2> QED BY <1>5, <2>1, <2>2, <2>3 DEF Lower
<1>8. ASSUME NEW u \in T
      PROVE  \E i \in D : list[i] = u
  <2>1. u \in S /\ entries[u] < entries[w]
    BY DEF Lower
  <2>2. PICK i \in 1..n : list[i] = u
    BY <1>3, <2>1
  <2>3. i # at
    BY <1>4, <1>5, <2>1, <2>2
  <2>4. ~(at < i)
    <3> SUFFICES ASSUME at < i PROVE FALSE
      OBVIOUS
    <3>1. entries[w] <= entries[u]
      BY <1>2, <1>3, <1>4, <2>2
    <3> QED BY <1>5, <2>1, <3>1
  <2>5. i \in D
    BY <1>1, <2>2, <2>3, <2>4
  <2> QED BY <2>2, <2>5
<1>9. IsFiniteSet(D) /\ Cardinality(D) = at - 1
  <2>1. at - 1 \in Nat
    BY <1>1
  <2> DEFINE m == at - 1
  <2> HIDE DEF m
  <2>2. IsFiniteSet(1..m) /\ Cardinality(1..m) = m
    BY <2>1, FS_Interval DEF m
  <2> QED BY <2>2 DEF m
<1> HIDE DEF T
<1>10. f \in Injection(D, T) /\ f \in Surjection(D, T)
  <2>1. f \in [D -> T] /\ DOMAIN f = D
    BY <1>7
  <2>2. \A i, j \in D : f[i] = f[j] => i = j
    BY <1>3, <1>6
  <2>3. \A u \in T : \E i \in D : f[i] = u
    BY <1>8
  <2> HIDE DEF D, f
  <2> QED BY <2>1, <2>2, <2>3 DEF Injection, IsInjective, Surjection
<1>11. Cardinality(T) = at - 1
  <2> HIDE DEF D, f
  <2> QED BY <1>1, <1>9, <1>10, FS_Injection
<1>12. Cardinality(T) + 1 = at
  BY <1>11
<1> QED BY <1>3, <1>4, <1>12 DEF T

\* What there is room for on a page.
LEMMA LimitIs ==
  ASSUME NEW items, Len(items) \in Nat, Len(items) <= First
  PROVE  EntryLimit(items) = First - Len(items) /\ EntryLimit(items) \in Nat
BY FirstType DEF EntryLimit

\* Where the other entries go on.
LEMMA OffsetIs ==
  ASSUME NEW after \in Nat, NEW pinned \in SUBSET Chain
  PROVE  LET offset == EntryOffset(after, pinned, ValidatorsPage(after, pinned))
             total == Len(Included(pinned))
         IN /\ offset = IF pinned = {} THEN after
                        ELSE IF after < total THEN 0 ELSE after - total
            /\ offset \in Nat
<1> DEFINE page == ValidatorsPage(after, pinned)
           total == Len(Included(pinned))
<1>1. page.total = total /\ total \in Nat
  BY ValidatorsPageIs, IncludedType
<1> HIDE DEF page, total
<1> DEFINE offset == EntryOffset(after, pinned, page)
<1>2. offset = IF pinned = {} THEN after ELSE IF after < total THEN 0 ELSE after - total
  BY <1>1 DEF EntryOffset
<1>3. offset \in Nat
  BY <1>1, <1>2
<1> QED BY <1>2, <1>3 DEF page, total

(***************************************************************************)
(* A page                                                                  *)
(***************************************************************************)

\* What is true of an answer, whatever was written meanwhile.
Whos(rows) == [i \in DOMAIN rows |-> rows[i].who]
AnswerSound(kind, a) ==
  /\ a.rows \in Seq(RowType) /\ a.validators \in Seq(Validators)
  /\ a.total \in Nat /\ a.hasNext \in BOOLEAN /\ a.hasPrevious \in BOOLEAN
  /\ Len(a.rows) <= First
  /\ kind = "votes" => NoOneTwice(Whos(a.rows))
  /\ a.hasPrevious <=> a.after > 0

\* What is true of the other entries of a page: a slice of who is not on it yet.
RestFits(rest, page, offset, count, found) ==
  /\ IsSlice(found.items, rest, First - Len(page.items), offset)
  /\ found.items \in Seq(Who) /\ NoOneTwice(found.items)
  /\ Len(found.items) \in Nat /\ Len(found.items) + Len(page.items) <= First
  /\ panel = "votes" => \A i \in 1..Len(found.items) : found.items[i] \notin Range(page.items)
  /\ found.hasNext \in BOOLEAN /\ found.total = count /\ found.hasPrevious = (offset > 0)

\* What the second query returns is such a slice.
LEMMA RestIs ==
  ASSUME NEW after \in Nat, NEW pinned \in SUBSET Chain, NEW count \in Nat,
         NEW list, Remains(list, ValidatorsPage(after, pinned).items)
  PROVE  LET page == ValidatorsPage(after, pinned)
         IN RestFits(list, page, EntryOffset(after, pinned, page), count,
                     Rest(list, after, pinned, page, count))
<1> DEFINE page == ValidatorsPage(after, pinned)
           limit == EntryLimit(page.items)
           offset == EntryOffset(after, pinned, page)
           found == Rest(list, after, pinned, page, count)
<1>1. found = Paginated(list, limit, offset, count)
  BY DEF Rest
<1>2. Len(page.items) \in Nat /\ Len(page.items) <= First
  BY ValidatorsPageIs
<1>3. offset \in Nat
  BY OffsetIs
<1>4. Remains(list, page.items)
  OBVIOUS
<1> HIDE DEF page
<1>5. limit = First - Len(page.items) /\ limit \in Nat
  BY <1>2, LimitIs
<1>6. /\ list \in Seq(Who) /\ NoOneTwice(list) /\ Len(list) \in Nat
      /\ panel = "votes" => \A i \in 1..Len(list) : list[i] \notin Range(page.items)
  BY <1>4 DEF Remains
<1> HIDE DEF limit, offset, found
<1>7. /\ IsSlice(found.items, list, limit, offset) /\ found.hasNext \in BOOLEAN
      /\ found.hasPrevious = (offset > 0) /\ found.total = count
  BY <1>1, <1>3, <1>5, <1>6, Slicing
<1>8. NoOneTwice(found.items)
  BY <1>3, <1>5, <1>6, <1>7, SliceOnce
<1>9. /\ found.items \in Seq(Range(list))
      /\ Len(found.items) = IF Len(list) <= offset THEN 0
                            ELSE IF Len(list) - offset <= limit THEN Len(list) - offset ELSE limit
      /\ \A j \in 1..Len(found.items) : offset + j \in 1..Len(list)
                                         /\ found.items[j] = list[offset + j]
  BY <1>7 DEF IsSlice
<1>10. Len(found.items) \in Nat /\ Len(found.items) <= limit
  BY <1>3, <1>5, <1>6, <1>9
<1>11. Len(found.items) + Len(page.items) <= First
  <2> DEFINE m == Len(page.items)  k == Len(found.items)
  <2>1. m \in Nat /\ k \in Nat /\ k <= First - m /\ First \in Nat
    BY <1>2, <1>5, <1>10, FirstType
  <2> HIDE DEF m, k
  <2>2. k + m <= First
    BY <2>1
  <2> QED BY <2>2 DEF m, k
<1>12. found.items \in Seq(Who)
  <2>1. Range(list) \subseteq Who
    <3>1. DOMAIN list = 1..Len(list) /\ \A i \in 1..Len(list) : list[i] \in Who
      BY <1>6, LenProperties, ElementOfSeq
    <3> QED BY <3>1 DEF Range
  <2> QED BY <1>9, <2>1
<1>13. panel = "votes" => \A i \in 1..Len(found.items) : found.items[i] \notin Range(page.items)
  BY <1>6, <1>9
<1>14. IsSlice(found.items, list, First - Len(page.items), offset)
  BY <1>5, <1>7
<1>15. RestFits(list, page, offset, count, found)
  BY <1>7, <1>8, <1>10, <1>11, <1>12, <1>13, <1>14 DEF RestFits
<1> QED BY <1>15 DEF page, offset, found

\* A page is put together of rows of its validators and of other entries.
LEMMA PageIs ==
  ASSUME NEW after \in Nat, NEW pinned \in SUBSET Chain, NEW count \in Nat,
         NEW list, Remains(list, ValidatorsPage(after, pinned).items),
         NEW rows, RowsFit(rows, ValidatorsPage(after, pinned).items)
  PROVE  LET page == ValidatorsPage(after, pinned) IN
         AnswerSound(panel, Page(after, pinned, page, rows,
                                 Rest(list, after, pinned, page, count)))
<1> DEFINE page == ValidatorsPage(after, pinned)
           looks == LooksForValidators(after, pinned)
           found == Rest(list, after, pinned, page, count)
           others == [i \in DOMAIN found.items |-> [who |-> found.items[i], entered |-> TRUE]]
           a == Page(after, pinned, page, rows, found)
           offset == EntryOffset(after, pinned, page)
           total == Len(Included(pinned))
<1>1. /\ page.items \in Seq(Validators) /\ page.hasNext \in BOOLEAN /\ page.total = total
      /\ page.hasPrevious = (looks /\ after > 0)
  BY ValidatorsPageIs
<1>2. /\ found.items \in Seq(Who) /\ NoOneTwice(found.items)
      /\ Len(found.items) \in Nat /\ Len(found.items) + Len(page.items) <= First
      /\ panel = "votes" => \A i \in 1..Len(found.items) : found.items[i] \notin Range(page.items)
      /\ found.hasNext \in BOOLEAN /\ found.total = count
      /\ found.hasPrevious = (offset > 0)
  <2>1. RestFits(list, page, offset, count, found)
    BY RestIs
  <2> HIDE DEF page, offset, found
  <2> QED BY <2>1 DEF RestFits
<1>3. /\ a.after = after /\ a.validators = page.items /\ a.rows = rows \o others
      /\ a.total = count + (IF looks THEN total ELSE 0)
      /\ a.hasNext = (IF looks THEN page.hasNext ELSE found.hasNext)
      /\ a.hasPrevious = (IF looks THEN page.hasPrevious ELSE found.hasPrevious)
  BY <1>1, <1>2 DEF Page
<1>4. looks \in BOOLEAN /\ (~looks => pinned = {} \/ after > Cardinality(pinned))
  BY DEF LooksForValidators
<1>5. /\ offset = IF pinned = {} THEN after ELSE IF after < total THEN 0 ELSE after - total
  BY OffsetIs
<1>6. /\ total \in Nat /\ Cardinality(pinned) \in Nat
      /\ pinned # {} => total <= Cardinality(pinned)
  BY IncludedType
<1>7. RowsFit(rows, page.items) /\ Len(page.items) \in Nat
  BY ValidatorsPageIs
<1> HIDE DEF page, looks, found, a, offset, total
<1>8. a.hasPrevious <=> after > 0
  <2>1. CASE looks
    BY <1>1, <1>3, <1>4, <2>1
  <2>2. CASE ~looks
    <3>1. offset > 0 <=> after > 0
      BY <1>4, <1>5, <1>6, <2>2
    <3> QED BY <1>2, <1>3, <1>4, <2>2, <3>1
  <2> QED BY <2>1, <2>2
<1>9. a.total \in Nat /\ a.hasNext \in BOOLEAN /\ a.hasPrevious \in BOOLEAN
  <2>1. a.total \in Nat
    BY <1>3, <1>4, <1>6
  <2>2. a.hasNext \in BOOLEAN
    BY <1>1, <1>2, <1>3, <1>4
  <2>3. a.hasPrevious \in BOOLEAN
    <3>1. page.hasPrevious \in BOOLEAN /\ found.hasPrevious \in BOOLEAN
      BY <1>1, <1>2
    <3> QED BY <1>3, <1>4, <3>1
  <2> QED BY <2>1, <2>2, <2>3
<1>10. /\ others \in Seq(RowType) /\ Len(others) = Len(found.items)
       /\ \A i \in 1..Len(found.items) : others[i].who = found.items[i]
  <2>1. DOMAIN found.items = 1..Len(found.items)
        /\ \A i \in 1..Len(found.items) : found.items[i] \in Who
    BY <1>2, LenProperties, ElementOfSeq
  <2>2. \A i \in 1..Len(found.items) : [who |-> found.items[i], entered |-> TRUE] \in RowType
    BY <2>1 DEF RowType
  <2> QED BY <1>2, <2>1, <2>2
<1> HIDE DEF others
<1>11. /\ rows \in Seq(RowType) /\ Len(rows) \in Nat /\ Len(rows) <= Len(page.items)
       /\ \A i \in 1..Len(rows) : rows[i].who \in Range(page.items)
       /\ \A i, j \in 1..Len(rows) : rows[i].who = rows[j].who => i = j
  BY <1>7 DEF RowsFit
<1>12. /\ a.rows \in Seq(RowType) /\ Len(a.rows) = Len(rows) + Len(others)
       /\ DOMAIN a.rows = 1..Len(a.rows)
       /\ \A i \in 1..Len(a.rows) :
            a.rows[i] = IF i <= Len(rows) THEN rows[i] ELSE others[i - Len(rows)]
  <2> DEFINE both == rows \o others
  <2>1. /\ both \in Seq(RowType) /\ Len(both) = Len(rows) + Len(others)
        /\ \A i \in 1..(Len(rows) + Len(others)) :
             both[i] = IF i <= Len(rows) THEN rows[i] ELSE others[i - Len(rows)]
    <3>1. rows \in Seq(RowType) /\ others \in Seq(RowType)
      BY <1>10, <1>11
    <3> QED BY <3>1, ConcatProperties, Zenon
  <2> HIDE DEF both
  <2>2. DOMAIN both = 1..Len(both)
    BY <2>1, LenProperties
  <2>3. a.rows = both
    BY <1>3 DEF both
  <2> QED BY <2>1, <2>2, <2>3
<1>13. Len(a.rows) <= First
  <2> DEFINE m == Len(page.items)  k == Len(found.items)  n == Len(rows)
  <2>1. m \in Nat /\ k \in Nat /\ n \in Nat /\ k + m <= First /\ n <= m /\ First \in Nat
    BY <1>2, <1>7, <1>11, FirstType
  <2>2. Len(a.rows) = n + k
    BY <1>10, <1>12
  <2> HIDE DEF m, k, n
  <2> QED BY <2>1, <2>2
<1>14. ASSUME panel = "votes"
       PROVE  NoOneTwice(Whos(a.rows))
  <2>1. \A i, j \in 1..Len(found.items) : found.items[i] = found.items[j] => i = j
    <3>1. DOMAIN found.items = 1..Len(found.items)
      BY <1>2, LenProperties
    <3> QED BY <1>2, <3>1 DEF NoOneTwice
  <2> SUFFICES ASSUME NEW i \in 1..Len(a.rows), NEW j \in 1..Len(a.rows),
                      a.rows[i].who = a.rows[j].who
               PROVE  i = j
    BY <1>12 DEF NoOneTwice, Whos
  <2>2. \A k \in 1..Len(a.rows) :
          /\ k <= Len(rows) => k \in 1..Len(rows) /\ a.rows[k].who = rows[k].who
          /\ ~(k <= Len(rows)) => /\ k - Len(rows) \in 1..Len(found.items)
                                  /\ a.rows[k].who = found.items[k - Len(rows)]
    <3> DEFINE m == Len(found.items)  n == Len(rows)
    <3>1. /\ m \in Nat /\ n \in Nat /\ Len(a.rows) = n + m
          /\ \A k \in 1..m : others[k].who = found.items[k]
          /\ \A k \in 1..Len(a.rows) : a.rows[k] = IF k <= n THEN rows[k] ELSE others[k - n]
      BY <1>2, <1>10, <1>11, <1>12
    <3> HIDE DEF m, n
    <3>2. \A k \in 1..Len(a.rows) : /\ k <= n => k \in 1..n
                                   /\ ~(k <= n) => k - n \in 1..m
      BY <3>1
    <3>3. \A k \in 1..Len(a.rows) :
            /\ k <= n => a.rows[k].who = rows[k].who
            /\ ~(k <= n) => a.rows[k].who = found.items[k - n]
      BY <3>1, <3>2
    <3> QED BY <3>2, <3>3 DEF m, n
  <2>3. CASE i <= Len(rows) /\ j <= Len(rows)
    BY <1>11, <2>2, <2>3
  <2>4. CASE ~(i <= Len(rows)) /\ ~(j <= Len(rows))
    <3>1. i - Len(rows) = j - Len(rows)
      BY <2>1, <2>2, <2>4
    <3>2. i \in Int /\ j \in Int
      BY <1>2, <1>10, <1>11, <1>12
    <3> QED BY <1>11, <3>1, <3>2
  <2>5. CASE (i <= Len(rows)) # (j <= Len(rows))
    BY <1>2, <1>11, <1>14, <2>2, <2>5
  <2> QED BY <2>3, <2>4, <2>5
<1> QED BY <1>1, <1>3, <1>8, <1>9, <1>12, <1>13, <1>14 DEF AnswerSound, a, page, found

(***************************************************************************)
(* Each step                                                               *)
(***************************************************************************)
Fields == {"stage", "after", "pinned", "page", "rows", "count"}
RequestSound(r) ==
  /\ r = [x \in Fields |-> r[x]]
  /\ r.stage \in {"validators", "own", "count", "scan"}
  /\ r.after \in Nat /\ r.pinned \in SUBSET Chain
  /\ r.stage # "validators" => r.page = ValidatorsPage(r.after, r.pinned)
  /\ r.stage \in {"count", "scan"} => RowsFit(r.rows, r.page.items)
  /\ r.stage = "scan" => r.count \in Nat

\* The inductive invariant: what the statements of a request have returned stays
\* fit for a page, whatever is written between them.
IInv ==
  /\ panel \in {"votes", "deposits"}
  /\ EntriesSound
  /\ elsewhere \subseteq Validators
  /\ request # None => RequestSound(request)
  /\ answer # None => AnswerSound(panel, answer)

\* The beginning.
LEMMA Start ==
  ASSUME Init
  PROVE  IInv
<1>1. Entered = {} /\ entries \in [Entered -> 1 .. Values]
  BY DEF Init, Entered
<1>2. IsFiniteSet(Entered) /\ Cardinality(Entered) <= MaxEntries
  BY <1>1, FS_EmptySet, BoundsType
<1> QED BY <1>1, <1>2 DEF Init, IInv, EntriesSound

\* A vote or a deposit comes in, or comes again, and there is one of each.
LEMMA EntersStep ==
  ASSUME IInv, NEW w \in Who, Enters(w)
  PROVE  EntriesSound'
<1>1. PICK value \in 1 .. Values :
        entries' = [u \in Entered \union {w} |-> IF u = w THEN value ELSE entries[u]]
  BY DEF Enters
<1>2. /\ Entered \subseteq Who /\ entries \in [Entered -> 1 .. Values] /\ IsFiniteSet(Entered)
      /\ Cardinality(Entered \union {w}) <= MaxEntries
  BY DEF IInv, EntriesSound, Enters
<1>3. Entered' = Entered \union {w}
  BY <1>1 DEF Entered
<1>4. IsFiniteSet(Entered \union {w})
  BY <1>2, FS_AddElement
<1>5. entries' \in [Entered' -> 1 .. Values]
  BY <1>1, <1>2, <1>3
<1> QED BY <1>2, <1>3, <1>4, <1>5 DEF EntriesSound

\* The panel asks, and the statements come back one after the other.
LEMMA RequestStep ==
  ASSUME IInv, Ask \/ LoadValidators \/ LoadOwn \/ Count
  PROVE  RequestSound(request') /\ UNCHANGED <<panel, entries, elsewhere>>
         /\ (answer' = None \/ answer' = answer)
<1>1. CASE Ask
  <2>1. PICK k \in Pages, pinned \in SUBSET Chain :
          request' = [stage |-> "validators", after |-> k * First, pinned |-> pinned,
                      page |-> None, rows |-> None, count |-> None]
    BY <1>1 DEF Ask
  <2>2. k * First \in Nat
    <3>1. k \in Nat
      BY ChainFinite, BoundsType, FirstType DEF Pages
    <3> QED BY <3>1, FirstType
  <2>3. RequestSound(request')
    BY <2>1, <2>2 DEF RequestSound, Fields
  <2> QED BY <1>1, <2>3 DEF Ask
<1>2. CASE LoadValidators
  <2>1. /\ RequestSound(request) /\ request.stage = "validators"
        /\ request' = [request EXCEPT !.stage = "own",
                                      !.page = ValidatorsPage(request.after, request.pinned)]
    BY <1>2 DEF LoadValidators, IInv
  <2>2. RequestSound(request')
    BY <2>1 DEF RequestSound, Fields
  <2> QED BY <1>2, <2>2 DEF LoadValidators
<1>3. CASE LoadOwn
  <2> DEFINE rows == RowsOfValidators(request.page.items)
  <2>1. /\ RequestSound(request) /\ request.stage = "own"
        /\ request' = [request EXCEPT !.stage = "count", !.rows = rows]
    BY <1>3 DEF LoadOwn, IInv
  <2>2. RowsFit(rows, request.page.items)
    <3>1. /\ request.page = ValidatorsPage(request.after, request.pinned)
          /\ request.after \in Nat /\ request.pinned \in SUBSET Chain
      BY <2>1 DEF RequestSound
    <3>2. request.page.items \in Seq(Validators) /\ NoOneTwice(request.page.items)
      BY <3>1, ValidatorsPageIs
    <3> QED BY <3>2, RowsAre
  <2> HIDE DEF rows
  <2>3. RequestSound(request')
    BY <2>1, <2>2 DEF RequestSound, Fields
  <2> QED BY <1>3, <2>3 DEF LoadOwn
<1>4. CASE Count
  <2> DEFINE count == Cardinality(Remaining(request.pinned, request.page.items))
  <2>1. /\ RequestSound(request) /\ request.stage = "count"
        /\ request' = [request EXCEPT !.stage = "scan", !.count = count]
    BY <1>4 DEF Count, IInv
  <2>2. count \in Nat
    BY RemainingAre DEF IInv
  <2> HIDE DEF count
  <2>3. RequestSound(request')
    BY <2>1, <2>2 DEF RequestSound, Fields
  <2> QED BY <1>4, <2>3 DEF Count
<1> QED BY <1>1, <1>2, <1>3, <1>4

\* The last statement, and the page.
LEMMA ScanStep ==
  ASSUME IInv, Scan
  PROVE  AnswerSound(panel, answer')
<1> DEFINE after == request.after  pinned == request.pinned  count == request.count
           rows == request.rows
<1>1. RequestSound(request) /\ request.stage = "scan"
  BY DEF Scan, IInv
<1>2. PICK list \in Listings(Remaining(pinned, request.page.items)) :
        answer' = Page(after, pinned, request.page, rows,
                       Rest(list, after, pinned, request.page, count))
  BY DEF Scan
<1>3. /\ request.page = ValidatorsPage(after, pinned) /\ after \in Nat
      /\ pinned \in SUBSET Chain /\ count \in Nat /\ RowsFit(rows, request.page.items)
  BY <1>1 DEF RequestSound
<1>4. panel' = panel
  BY DEF Scan
<1> HIDE DEF after, pinned, count, rows
<1>5. Remains(list, ValidatorsPage(after, pinned).items)
  BY <1>2, <1>3, ListingIs DEF IInv
<1> QED BY <1>2, <1>3, <1>5, PageIs

\* Otherwise the entries stay.
LEMMA EntriesKept ==
  ASSUME EntriesSound, UNCHANGED entries
  PROVE  EntriesSound'
BY DEF EntriesSound, Entered

\* Every step.
LEMMA Step ==
  ASSUME IInv, [Next]_vars
  PROVE  IInv'
<1>1. CASE Ask \/ LoadValidators \/ LoadOwn \/ Count
  BY <1>1, RequestStep, EntriesKept DEF IInv
<1>2. CASE Scan
  <2>1. request' = None /\ UNCHANGED <<panel, entries, elsewhere>>
    BY <1>2 DEF Scan
  <2> QED BY <1>2, <2>1, ScanStep, EntriesKept DEF IInv
<1>3. CASE QueryFails
  BY <1>3, EntriesKept DEF QueryFails, IInv
<1>4. CASE \E w \in Who : Enters(w)
  <2>1. PICK w \in Who : Enters(w)
    BY <1>4
  <2>2. UNCHANGED <<panel, elsewhere, request, answer>>
    BY <2>1 DEF Enters
  <2> QED BY <2>1, <2>2, EntersStep DEF IInv
<1>5. CASE \E w \in Who : EntersElsewhere(w)
  BY <1>5, EntriesKept DEF EntersElsewhere, IInv
<1>6. CASE UNCHANGED vars
  BY <1>6, EntriesKept DEF vars, IInv
<1> QED BY <1>1, <1>2, <1>3, <1>4, <1>5, <1>6 DEF Next

(***************************************************************************)
(* Everybody is on a page                                                  *)
(***************************************************************************)

\* A page there may be when nothing is written meanwhile, the other entries listed
\* as in list.
QuietPage(list, after, pinned) ==
  LET page == ValidatorsPage(after, pinned) IN
  Page(after, pinned, page, RowsOfValidators(page.items),
       Rest(list, after, pinned, page, Cardinality(Remaining(pinned, page.items))))

\* It shows who is on it.
LEMMA OnThePage ==
  ASSUME EntriesSound, NEW after \in Nat, NEW pinned \in SUBSET Chain, NEW w \in Entered,
         NEW list \in Listings(Remaining(pinned, ValidatorsPage(after, pinned).items)),
         LET page == ValidatorsPage(after, pinned)
             count == Cardinality(Remaining(pinned, page.items))
             found == Rest(list, after, pinned, page, count)
         IN w \in Range(page.items) \/ \E j \in 1..Len(found.items) : found.items[j] = w
  PROVE  \E i \in DOMAIN QuietPage(list, after, pinned).rows :
           QuietPage(list, after, pinned).rows[i] = [who |-> w, entered |-> TRUE]
<1> DEFINE page == ValidatorsPage(after, pinned)
           count == Cardinality(Remaining(pinned, page.items))
           found == Rest(list, after, pinned, page, count)
           own == RowsOfValidators(page.items)
           others == [i \in DOMAIN found.items |-> [who |-> found.items[i], entered |-> TRUE]]
           rows == QuietPage(list, after, pinned).rows
           full == [who |-> w, entered |-> TRUE]
<1>1. Remains(list, page.items)
  BY ListingIs
<1>2. rows = own \o others
  BY DEF QuietPage, Page
<1>3. page.items \in Seq(Validators) /\ NoOneTwice(page.items)
  BY ValidatorsPageIs
<1> HIDE DEF page
<1>4. /\ own \in Seq(RowType)
      /\ w \in Range(page.items) => \E i \in 1..Len(own) : own[i] = full
  BY <1>3, RowsAre DEF RowsFit
<1>5. count \in Nat
  BY RemainingAre
<1>6. found.items \in Seq(Who)
  <2> DEFINE offset == EntryOffset(after, pinned, page)
  <2> HIDE DEF count
  <2>1. RestFits(list, page, offset, count, found)
    BY <1>1, <1>5, RestIs DEF page
  <2> HIDE DEF offset, found
  <2> QED BY <2>1 DEF RestFits
<1>7. w \in Range(page.items) \/ \E j \in 1..Len(found.items) : found.items[j] = w
  BY DEF page
<1> HIDE DEF found, own, rows, full
<1>8. /\ others \in Seq(RowType) /\ Len(others) = Len(found.items) /\ Len(found.items) \in Nat
      /\ \A i \in 1..Len(found.items) : others[i] = [who |-> found.items[i], entered |-> TRUE]
  <2>1. DOMAIN found.items = 1..Len(found.items) /\ Len(found.items) \in Nat
        /\ \A i \in 1..Len(found.items) : found.items[i] \in Who
    BY <1>6, LenProperties, ElementOfSeq
  <2>2. \A i \in 1..Len(found.items) : [who |-> found.items[i], entered |-> TRUE] \in RowType
    BY <2>1 DEF RowType
  <2> QED BY <2>1, <2>2
<1> HIDE DEF others
<1>9. /\ rows \in Seq(RowType) /\ Len(rows) = Len(own) + Len(others)
      /\ \A i \in 1..(Len(own) + Len(others)) :
           rows[i] = IF i <= Len(own) THEN own[i] ELSE others[i - Len(own)]
  <2>1. own \in Seq(RowType) /\ others \in Seq(RowType)
    BY <1>4, <1>8
  <2> QED BY <1>2, <2>1, ConcatProperties, Zenon
<1>10. Len(own) \in Nat /\ Len(others) \in Nat /\ DOMAIN rows = 1..Len(rows)
  BY <1>4, <1>8, <1>9, LenProperties
<1>11. CASE w \in Range(page.items)
  <2>1. PICK i \in 1..Len(own) : own[i] = full
    BY <1>4, <1>11
  <2>2. i \in DOMAIN rows /\ rows[i] = full
    BY <1>9, <1>10, <2>1
  <2> QED BY <2>2 DEF rows, full
<1>12. CASE \E j \in 1..Len(found.items) : found.items[j] = w
  <2>1. PICK j \in 1..Len(found.items) : found.items[j] = w
    BY <1>12
  <2>2. others[j] = full
    BY <1>8, <2>1 DEF full
  <2> DEFINE i == Len(own) + j
  <2>3. i \in 1..(Len(own) + Len(others)) /\ ~(i <= Len(own)) /\ i - Len(own) = j
    BY <1>8, <1>10, <2>1
  <2> HIDE DEF i
  <2>4. i \in DOMAIN rows /\ rows[i] = full
    BY <1>9, <1>10, <2>2, <2>3
  <2> QED BY <2>4 DEF rows, full
<1> QED BY <1>7, <1>11, <1>12

\* The page for somebody: that of the place in the list, the validators before
\* it counted.
LEMMA OnSomePage ==
  ASSUME EntriesSound, NEW pinned \in SUBSET Chain, NEW w \in Placed(pinned)
  PROVE  \E k \in Pages :
           \A list \in Listings(Remaining(pinned, ValidatorsPage(k * First, pinned).items)) :
             \E i \in DOMAIN QuietPage(list, k * First, pinned).rows :
               QuietPage(list, k * First, pinned).rows[i] = [who |-> w, entered |-> TRUE]
<1> DEFINE included == Included(pinned)
           total == Len(included)
           before == IF pinned = {} THEN 0 ELSE total
           all == Remaining(pinned, <<>>)
           at == Cardinality(Lower(all, w)) + 1
<1>1. /\ w \in Entered /\ w \in all /\ IsFiniteSet(Entered) /\ all \subseteq Entered
      /\ \A u \in Entered \ {w} : entries[u] # entries[w]
  <2>1. Range(<<>>) = {}
    BY DEF Range
  <2> QED BY <2>1, RemainingAre DEF Placed, Remaining, EntriesSound
<1> HIDE DEF all
<1>2. at \in Nat /\ 1 <= at /\ at <= MaxEntries
  <2> DEFINE T == Lower(all, w)
  <2>1. T \subseteq Entered \ {w} /\ entries[w] \in Nat
    BY <1>1 DEF EntriesSound, Lower
  <2> HIDE DEF T
  <2>2. /\ IsFiniteSet(Entered \ {w}) /\ Cardinality(Entered \ {w}) = Cardinality(Entered) - 1
        /\ Cardinality(Entered) \in Nat
    BY <1>1, FS_RemoveElement, FS_CardinalityType
  <2>3. IsFiniteSet(T) /\ Cardinality(T) <= Cardinality(Entered \ {w}) /\ Cardinality(T) \in Nat
    BY <2>1, <2>2, FS_Subset, FS_CardinalityType
  <2>4. Cardinality(T) + 1 <= MaxEntries
    BY <2>2, <2>3, BoundsType DEF EntriesSound
  <2> QED BY <2>3, <2>4 DEF T
<1> HIDE DEF at
<1>3. /\ included \in Seq(Validators) /\ total \in Nat /\ total <= Cardinality(Chain)
      /\ Cardinality(pinned) \in Nat /\ Cardinality(Chain) \in Nat
      /\ pinned # {} => total <= Cardinality(pinned)
  BY IncludedType, ChainFinite
<1> HIDE DEF included, total
<1>4. before \in Nat /\ before <= Cardinality(Chain)
  BY <1>3
<1> DEFINE b == at - 1 + before  k == b \div First  after == k * First
<1>5. b \in Nat /\ b <= MaxEntries + Cardinality(Chain) /\ at - 1 \in Nat
  BY <1>2, <1>4, <1>3, BoundsType
<1> HIDE DEF b
<1>6. k \in Nat /\ k * First <= b /\ b < k * First + First
  BY <1>5, FirstType
<1> HIDE DEF k
<1>7. after \in Nat /\ after <= b /\ b < after + First
  BY <1>6, FirstType
<1>8. k \in Pages
  <2> DEFINE c == MaxEntries + Cardinality(Chain)
  <2>1. c \in Nat /\ k * First <= c
    BY <1>3, <1>5, <1>6, <1>7, BoundsType
  <2> HIDE DEF c
  <2>2. k <= c \div First /\ c \div First \in Nat
    BY <1>6, <2>1, FirstType
  <2>3. k \in 0 .. c \div First + 1
    BY <1>6, <2>2
  <2> QED BY <2>3 DEF Pages, c
<1> HIDE DEF after
<1> DEFINE page == ValidatorsPage(after, pinned)
           rest == Remaining(pinned, page.items)
<1> SUFFICES ASSUME NEW list \in Listings(rest)
             PROVE  \E i \in DOMAIN QuietPage(list, after, pinned).rows :
                      QuietPage(list, after, pinned).rows[i] = [who |-> w, entered |-> TRUE]
  BY <1>8 DEF after
<1> DEFINE count == Cardinality(rest)
           offset == EntryOffset(after, pinned, page)
           found == Rest(list, after, pinned, page, count)
           looks == LooksForValidators(after, pinned)
<1>9. /\ looks => IsSlice(page.items, included, First, after)
      /\ ~looks => Len(page.items) = 0
      /\ page.items \in Seq(Validators) /\ Len(page.items) \in Nat
  BY <1>7, ValidatorsPageIs DEF included
<1>10. offset = IF pinned = {} THEN after ELSE IF after < total THEN 0 ELSE after - total
  BY <1>7, OffsetIs DEF total, included
<1>11. looks <=> ~(pinned = {} \/ after > Cardinality(pinned))
  BY DEF LooksForValidators
<1>12. /\ Remains(list, page.items) /\ Len(list) = count /\ count \in Nat
       /\ w \notin Range(page.items) => \E j \in 1..count : j <= at /\ list[j] = w
       /\ Range(page.items) = {} => at \in 1..count /\ list[at] = w
  <2> HIDE DEF page
  <2>1. /\ Remains(list, page.items) /\ ListsOnce(list, rest)
    BY ListingIs
  <2>2. rest \subseteq Entered /\ IsFiniteSet(rest) /\ count \in Nat
    BY RemainingAre
  <2>3. rest \subseteq all /\ (Range(page.items) = {} => rest = all)
    <3>1. Range(<<>>) = {}
      BY DEF Range
    <3> QED BY <3>1 DEF Remaining, all
  <2>4. w \notin Range(page.items) => w \in rest
    <3>1. Range(<<>>) = {}
      BY DEF Range
    <3> QED BY <1>1, <3>1 DEF Remaining, all
  <2> HIDE DEF rest
  <2>5. ASSUME w \in rest
        PROVE  LET here == Cardinality(Lower(rest, w)) + 1
               IN here \in 1..Len(list) /\ list[here] = w
    BY <1>1, <2>2, <2>5, PlaceOf
  <2>6. Cardinality(Lower(rest, w)) + 1 <= at
    <3> DEFINE T == Lower(all, w)  U == Lower(rest, w)
    <3>1. U \subseteq T /\ T \subseteq Entered
      BY <1>1, <2>3 DEF Lower
    <3> HIDE DEF T, U
    <3>2. IsFiniteSet(T) /\ Cardinality(T) \in Nat
      BY <1>1, <3>1, FS_Subset, FS_CardinalityType
    <3>3. Cardinality(U) <= Cardinality(T) /\ Cardinality(U) \in Nat
      BY <3>1, <3>2, FS_Subset, FS_CardinalityType
    <3> QED BY <3>2, <3>3 DEF T, U, at
  <2>7. Len(list) = count
    BY <2>1 DEF ListsOnce
  <2>8. ASSUME w \notin Range(page.items)
        PROVE  \E j \in 1..count : j <= at /\ list[j] = w
    BY <2>4, <2>5, <2>6, <2>7, <2>8
  <2>9. ASSUME Range(page.items) = {}
        PROVE  at \in 1..count /\ list[at] = w
    <3>1. rest = all
      BY <2>3, <2>9
    <3>2. at = Cardinality(Lower(rest, w)) + 1
      BY <3>1 DEF at
    <3> QED BY <2>4, <2>5, <2>7, <2>9, <3>2
  <2> QED BY <2>1, <2>2, <2>7, <2>8, <2>9
<1>13. IsSlice(found.items, list, First - Len(page.items), offset)
  <2> HIDE DEF rest, count
  <2>1. RestFits(list, page, offset, count, found)
    BY <1>7, <1>12, RestIs
  <2> HIDE DEF page, offset, found
  <2> QED BY <2>1 DEF RestFits
<1>14. /\ Len(found.items) = IF count <= offset THEN 0
                             ELSE IF count - offset <= First - Len(page.items) THEN count - offset
                             ELSE First - Len(page.items)
       /\ \A j \in 1..Len(found.items) : found.items[j] = list[offset + j]
  BY <1>12, <1>13 DEF IsSlice
<1>15. w \in Range(page.items) \/ \E j \in 1..Len(found.items) : found.items[j] = w
  <2> HIDE DEF page, rest, count, offset, found, looks, before
  <2>1. CASE before <= after
    <3>1. Len(page.items) = 0
      <4>1. looks => total <= after
        BY <1>11, <2>1 DEF before
      <4>2. looks => Len(page.items) = 0
        BY <1>9, <4>1 DEF IsSlice, total
      <4> QED BY <1>9, <4>2
    <3>2. Range(page.items) = {}
      <4>1. DOMAIN page.items = 1..Len(page.items)
        BY <1>9, LenProperties
      <4> QED BY <3>1, <4>1 DEF Range
    <3>3. offset = after - before /\ offset \in Nat
      BY <1>3, <1>7, <1>10, <2>1 DEF before
    <3>4. at <= count /\ list[at] = w
      BY <1>12, <3>2
    <3> DEFINE j == at - offset
    <3>5. 1 <= j /\ j <= First /\ j \in Nat /\ j <= count - offset
      BY <1>2, <1>4, <1>5, <1>7, <1>12, <3>3, <3>4, FirstType DEF b
    <3>6. offset + j = at
      BY <1>2, <3>3
    <3> HIDE DEF j
    <3>7. j \in 1..Len(found.items)
      <4>1. Len(found.items) = IF count <= offset THEN 0
                               ELSE IF count - offset <= First THEN count - offset ELSE First
        BY <1>14, <3>1, FirstType
      <4> QED BY <1>12, <3>3, <3>5, <4>1, FirstType
    <3> QED BY <1>14, <3>4, <3>6, <3>7
  <2>2. CASE ~(before <= after)
    <3>1. pinned # {} /\ before = total /\ after < total
      BY <1>3, <1>7, <2>2 DEF before
    <3>2. looks /\ offset = 0
      BY <1>3, <1>7, <1>10, <1>11, <3>1
    <3>3. Len(page.items) = total - after
      <4>1. Len(page.items) = IF total <= after THEN 0
                              ELSE IF total - after <= First THEN total - after ELSE First
        BY <1>9, <3>2 DEF IsSlice, total
      <4>2. total - after <= First
        BY <1>2, <1>3, <1>5, <1>7, <3>1, FirstType DEF b
      <4> QED BY <1>3, <1>7, <3>1, <4>1, <4>2
    <3>4. at <= First - Len(page.items)
      BY <1>1, <1>2, <1>3, <1>5, <1>7, <3>1, <3>3, FirstType DEF b
    <3>5. CASE w \notin Range(page.items)
      <4>1. PICK j \in 1..count : j <= at /\ list[j] = w
        BY <1>12, <3>5
      <4>2. j \in 1..Len(found.items)
        <5> DEFINE r == First - Len(page.items)
        <5>1. r \in Int /\ at <= r
          BY <1>9, <3>4, FirstType
        <5>2. Len(found.items) = IF count <= 0 THEN 0 ELSE IF count - 0 <= r THEN count - 0 ELSE r
          BY <1>14, <3>2
        <5> HIDE DEF r
        <5> QED BY <1>2, <1>12, <4>1, <5>1, <5>2
      <4>3. 0 + j = j
        OBVIOUS
      <4> QED BY <1>14, <3>2, <4>1, <4>2, <4>3
    <3> QED BY <3>5
  <2> QED BY <2>1, <2>2
<1> QED BY <1>1, <1>7, <1>15, OnThePage

(***************************************************************************)
(* Theorems                                                                *)
(***************************************************************************)

\* A request, a page and the list of every reachable state are sound in the
\* sense of IInv.
THEOREM Invariance == Spec => []IInv
<1>1. Init => IInv
  BY Start
<1>2. IInv /\ [Next]_vars => IInv'
  BY Step
<1>3. QED BY <1>1, <1>2, PTL DEF Spec

\* Types: the entries are within their bounds, what the statements returned is
\* there when it is used, and a page is a page of known kinds of rows.
THEOREM TypeCorrect == Spec => []TypeOK
<1>1. IInv => TypeOK
  BY DEF IInv, EntriesSound, RequestSound, RowsFit, AnswerSound, TypeOK
<1>2. QED BY <1>1, Invariance, PTL

\* No page is longer than was asked for, and no page of votes shows anybody
\* twice, though entries come and move between the statements
\* (resolvers/proposal.go:135 and :162).
THEOREM PagesSound == Spec => []PageSound
<1>1. IInv => PageSound
  BY DEF IInv, AnswerSound, Whos, PageSound
<1>2. QED BY <1>1, Invariance, PTL

\* There is a previous page exactly when it is not the first
\* (resolvers/proposal.go:201).
THEOREM PreviousSound == Spec => []PreviousUnlessFirst
<1>1. IInv => PreviousUnlessFirst
  BY DEF IInv, AnswerSound, PreviousUnlessFirst
<1>2. QED BY <1>1, Invariance, PTL

\* Whatever validators are pinned, and however the database lists those that are
\* tied, the pages show all who have a place (resolvers/proposal.go:173).
THEOREM AllShown == Spec => []NobodyLeftOut
<1>1. IInv => NobodyLeftOut
  <2> SUFFICES ASSUME EntriesSound, NEW pinned \in SUBSET Chain, NEW w \in Placed(pinned)
               PROVE  \E k \in Pages : \A page \in QuietPages(k * First, pinned) :
                        \E i \in DOMAIN page.rows :
                          page.rows[i] = [who |-> w, entered |-> TRUE]
    BY DEF NobodyLeftOut, IInv
  <2>1. PICK k \in Pages :
          \A list \in Listings(Remaining(pinned, ValidatorsPage(k * First, pinned).items)) :
            \E i \in DOMAIN QuietPage(list, k * First, pinned).rows :
              QuietPage(list, k * First, pinned).rows[i] = [who |-> w, entered |-> TRUE]
    BY OnSomePage
  <2>2. \A page \in QuietPages(k * First, pinned) :
          \E list \in Listings(Remaining(pinned, ValidatorsPage(k * First, pinned).items)) :
            page = QuietPage(list, k * First, pinned)
    BY DEF QuietPages, QuietPage
  <2> QED BY <2>1, <2>2
<1>2. QED BY <1>1, Invariance, PTL
=============================================================================
