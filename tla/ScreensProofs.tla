---------------------------- MODULE ScreensProofs ----------------------------
(***************************************************************************)
(* Proofs about Screens, for any number of addresses, validators, rows,    *)
(* fetches and changes of the chain, and for any plan of a session.  The   *)
(* first part is about the panels of Portfolio alone: an invariant, what   *)
(* each step does to it, and what the amounts of a fetch add up to.  The   *)
(* second adds the lists.                                                  *)
(***************************************************************************)
EXTENDS Screens, Inductions, SequenceTheorems

(***************************************************************************)
(* The panels: an inductive invariant                                      *)
(***************************************************************************)
IsSeq(s) == s \in Seq({s[i] : i \in 1..Len(s)})
Fields == {"of", "stage", "left", "key", "sum", "rows", "pair", "wealth", "moved", "undone"}
IsFlight(f) == f = [x \in Fields |-> f[x]]
Stages == {"account", "reading", "answered", "ended", "dropped"}

Typed ==
  /\ plan \in Plans /\ wallet \in Wallet /\ place \in Place
  /\ ledger \in [Addresses -> Ledger]
  /\ flight = [p \in Panels |-> flight[p]]
  /\ \A p \in Panels : IsSeq(flight[p])
  /\ panel \in [Panels -> [is : {"initial", "loading", "loaded", "failed", "invalid"},
                           by : Nat]]

\* What fetch f of panel p has brought, owned being the chain's ledger: the
\* stakes hold rows that the chain still has when it is asked for their rewards.
Paired(f) == f.undone \/ \A v \in f.rows : f.pair[v] = v
Sound(owned, p, f) ==
  /\ IsFlight(f)
  /\ f.stage \in Stages /\ f.undone \in BOOLEAN /\ f.rows \subseteq Validators
  /\ f.stage # "ended" => f.of \in Addresses
  /\ p # "stakes" => f.rows = {}
  /\ p = "stakes" /\ f.stage \in {"account", "reading"} =>
       /\ f.left \in {{"stake"}, {"rewards"}}
       /\ f.undone \/ f.rows \subseteq Holding(owned[f.of].stake)
  /\ f.stage = "answered" => Paired(f)
AllSound == \A p \in Panels : \A i \in 1..Len(flight[p]) : Sound(ledger, p, flight[p][i])

\* Fetches are of panels the screen has and the session follows.
Hosted ==
  place.host # "broken" =>
    \A p \in Panels : Len(flight[p]) > 0 => p \in plan.panels \intersect PanelsAt[place.host]

\* The newest fetch is of the address the screen is about.
About == Shown(wallet, place) # None \/ place.host = "overview"
Newest ==
  \A p \in PanelsAt[place.host] :
    Len(flight[p]) > 0 /\ About => flight[p][Len(flight[p])].of = Shown(wallet, place)

\* A panel that shows an answer shows that of a fetch that has ended.
ShowsEnded(p) ==
  panel[p].is = "loaded" =>
    /\ panel[p].by \in 1..Len(flight[p])
    /\ flight[p][panel[p].by].stage = "ended" /\ Paired(flight[p][panel[p].by])

\* Only stakes of which one was undelegated meanwhile break the application.
BrokenByStakes ==
  place.host = "broken" =>
    /\ panel["stakes"].is = "loaded"
    /\ flight["stakes"][panel["stakes"].by].undone

PanelInv ==
  Typed /\ AllSound /\ Hosted /\ Newest /\ (\A p \in Panels : ShowsEnded(p)) /\ BrokenByStakes

\* What fetch f has read of a ledger l that does not change meanwhile: all of a
\* kind, or what is held below the key of the next page.
PartOf(amounts, r, f) ==
  Total(amounts, IF r \in f.left THEN {v \in Holding(amounts) : v < f.key[r]} ELSE Validators)
Brought(l, f) ==
  (IF "funds" \in f.left THEN 0 ELSE l.funds)
    + PartOf(l.stake, "stake", f) + PartOf(l.unbonding, "unbonding", f)
    + (IF "rewards" \in f.left THEN 0 ELSE Total(l.rewards, Validators))

\* The balance is what was read so far of what there was at the start.
Summed(owned, f) ==
  ~f.moved =>
    /\ f.stage \in {"account", "reading"} =>
         f.wealth = Wealth(owned[f.of]) /\ f.sum = Brought(owned[f.of], f)
    /\ f.stage = "answered" => f.sum = f.wealth
Filled(f) ==
  /\ f.of \in Addresses \union {None} /\ f.left \subseteq Reads /\ f.key \in [Paged -> Nat]
  /\ f.sum \in Nat /\ f.pair \in [Validators -> Validators \union {None}]
  /\ f.wealth \in Nat /\ f.moved \in BOOLEAN
Full(owned, p, f) == Filled(f) /\ (p = "portfolio" => Summed(owned, f))
AllFull == \A p \in Panels : \A i \in 1..Len(flight[p]) : Full(ledger, p, flight[p][i])

SumInv ==
  /\ AllFull /\ TotalIsWealth /\ events \in 0..plan.events
  /\ \A p \in Panels : panel[p].by \in 0..Len(flight[p])

(***************************************************************************)
(* Sequences of fetches                                                    *)
(***************************************************************************)

\* What a fetch appended to the others leaves of them.
LEMMA Appending ==
  ASSUME NEW s, IsSeq(s), NEW e
  PROVE  /\ IsSeq(Append(s, e)) /\ Len(Append(s, e)) = Len(s) + 1
         /\ Append(s, e)[Len(s) + 1] = e
         /\ \A i \in 1..Len(s) : Append(s, e)[i] = s[i]
<1> DEFINE S == {s[i] : i \in 1..Len(s)} \union {e}
<1>1. s \in Seq(S) /\ e \in S
  BY DEF IsSeq
<1>2. QED BY <1>1, AppendProperties DEF IsSeq

\* A function on 1..n is a sequence of n elements.
LEMMA Mapping ==
  ASSUME NEW n \in Nat, NEW t, t = [i \in 1..n |-> t[i]]
  PROVE  IsSeq(t) /\ Len(t) = n
BY DEF IsSeq

\* A sequence is the function of its elements.
LEMMA Lengths == ASSUME NEW s, IsSeq(s) PROVE Len(s) \in Nat /\ DOMAIN s = 1..Len(s)
                                              /\ s = [i \in 1..Len(s) |-> s[i]]
BY DEF IsSeq

\* One fetch replaced.
LEMMA Replacing ==
  ASSUME NEW s, IsSeq(s), NEW i \in 1..Len(s), NEW e
  PROVE  LET t == [s EXCEPT ![i] = e]
         IN /\ IsSeq(t) /\ Len(t) = Len(s) /\ t[i] = e
            /\ \A j \in 1..Len(s) : j # i => t[j] = s[j]
<1> DEFINE t == [s EXCEPT ![i] = e]
<1>1. t = [j \in 1..Len(s) |-> t[j]] /\ Len(s) \in Nat
  BY Lengths
<1>2. t[i] = e /\ \A j \in 1..Len(s) : j # i => t[j] = s[j]
  BY Lengths
<1> HIDE DEF t
<1>3. IsSeq(t) /\ Len(t) = Len(s)
  BY <1>1, Mapping
<1>4. QED BY <1>2, <1>3 DEF t

(***************************************************************************)
(* Rows and rewards                                                        *)
(***************************************************************************)

\* No two validators of a set have the same place in it.
LEMMA RankInjective ==
  ASSUME NEW S \in SUBSET Validators, NEW v \in S, NEW w \in S, Rank(v, S) = Rank(w, S)
  PROVE  v = w
<1> DEFINE UpTo(x) == {u \in S : u <= x}
<1>1. \A x \in S : IsFiniteSet(UpTo(x)) /\ Rank(x, S) = Cardinality(UpTo(x))
  <2> SUFFICES ASSUME NEW x \in S
               PROVE  IsFiniteSet(UpTo(x)) /\ Rank(x, S) = Cardinality(UpTo(x))
    OBVIOUS
  <2>1. UpTo(x) \in SUBSET S /\ IsFiniteSet(S)
    BY FS_Subset, ValidatorsType
  <2>2. Rank(x, S) = Cardinality(UpTo(x))
    BY DEF Rank
  <2> HIDE DEF UpTo
  <2>3. QED BY <2>1, <2>2, FS_Subset
<1>2. v \in Nat /\ w \in Nat /\ S \subseteq Nat
  BY ValidatorsType
<1>3. ASSUME NEW x \in S, NEW y \in S, x < y PROVE Cardinality(UpTo(x)) # Cardinality(UpTo(y))
  <2>1. UpTo(x) \subseteq UpTo(y) /\ UpTo(x) # UpTo(y)
    <3>1. y <= y /\ ~(y <= x) /\ \A u \in S : u <= x => u <= y
      BY <1>2, <1>3
    <3>2. y \in UpTo(y) /\ y \notin UpTo(x)
      BY <3>1
    <3>3. UpTo(x) \subseteq UpTo(y)
      BY <3>1
    <3>4. QED BY <3>2, <3>3
  <2> HIDE DEF UpTo
  <2>2. QED BY <1>1, <2>1, FS_Subset
<1> HIDE DEF UpTo
<1>4. QED BY <1>1, <1>2, <1>3

\* Rows all of which are still held get their own rewards.
LEMMA PairsThemselves ==
  ASSUME NEW rows \in SUBSET Validators, NEW held, rows \subseteq held
  PROVE  \A v \in rows : PairedRewards(rows, held \intersect rows)[v] = v
<1>1. held \intersect rows = rows
  OBVIOUS
<1>2. ASSUME NEW v \in rows PROVE PairedRewards(rows, rows)[v] = v
  <2>1. PairedRewards(rows, rows)[v] = CHOOSE w \in rows : Rank(w, rows) = Rank(v, rows)
    BY DEF PairedRewards
  <2>2. \A w \in rows : Rank(w, rows) = Rank(v, rows) => w = v
    BY RankInjective
  <2>3. QED BY <2>1, <2>2
<1>3. QED BY <1>1, <1>2

(***************************************************************************)
(* What amounts add up to                                                  *)
(***************************************************************************)

Picked(t) == CHOOSE v \in t : TRUE

\* The sum over a set is taken one element after the other.
LEMMA TotalIs ==
  ASSUME NEW a \in Amounts, NEW t \in SUBSET Validators
  PROVE  /\ Total(a, t) \in Nat
         /\ Total(a, {}) = 0
         /\ t # {} => /\ Picked(t) \in t
                      /\ Total(a, t) = a[Picked(t)] + Total(a, t \ {Picked(t)})
<1> DEFINE pick == [s \in SUBSET Validators |-> Picked(s)]
           step == [e \in Validators \X Nat |-> a[e[1]] + e[2]]
           Is(f, s) == f[s] = IF s = {} THEN 0 ELSE a[Picked(s)] + f[s \ {Picked(s)}]
<1>1. \A s \in SUBSET Validators : s # {} => pick[s] = Picked(s) /\ Picked(s) \in s
  BY DEF Picked
<1>2. step \in [Validators \X Nat -> Nat]
  BY DEF Amounts
<1>3. PICK f \in [SUBSET Validators -> Nat] : Recursive(f, Validators, 0, pick, step)
  <2>1. IsFiniteSet(Validators) /\ 0 \in Nat /\ \A s \in SUBSET Validators : s # {} => pick[s] \in s
    BY <1>1, ValidatorsType
  <2> HIDE DEF pick, step
  <2> QED BY <1>2, <2>1, Recursion
<1>4. \A s \in SUBSET Validators : Is(f, s)
  <2> SUFFICES ASSUME NEW s \in SUBSET Validators PROVE Is(f, s)
    OBVIOUS
  <2>1. CASE s = {}
    BY <1>3, <2>1 DEF Recursive
  <2>2. CASE s # {}
    <3>1. Picked(s) \in Validators /\ pick[s] = Picked(s) /\ f[s \ {Picked(s)}] \in Nat
      BY <1>1, <2>2
    <3>2. f[s] = step[<<Picked(s), f[s \ {Picked(s)}]>>]
      BY <1>3, <2>2, <3>1 DEF Recursive
    <3> QED BY <2>2, <3>1, <3>2
  <2> QED BY <2>1, <2>2
<1>5. ASSUME NEW u \in SUBSET Validators
      PROVE  Total(a, u) = f[u]
  <2> DEFINE Body(g) == [s \in SUBSET u |->
                           IF s = {} THEN 0 ELSE a[Picked(s)] + g[s \ {Picked(s)}]]
             iter == CHOOSE g : g = Body(g)
             h == [s \in SUBSET u |-> f[s]]
  <2>1. Total(a, u) = iter[u]
    BY DEF Total, MapThenSumSet, MapThenFoldSet, Picked
  <2>2. h = Body(h)
    <3>1. \A s \in SUBSET u : h[s] = Body(h)[s]
      BY <1>1, <1>4
    <3> QED BY <3>1
  <2>3. iter = Body(iter)
    BY <2>2
  <2>4. \A s \in SUBSET u : iter[s] = IF s = {} THEN 0 ELSE a[Picked(s)] + iter[s \ {Picked(s)}]
    BY <2>3
  <2> HIDE DEF iter
  <2>5. \A s \in SUBSET u : s # {} =>
          /\ pick[s] \in s
          /\ iter[s \ {pick[s]}] = f[s \ {pick[s]}] => iter[s] = f[s]
    <3> SUFFICES ASSUME NEW s \in SUBSET u, s # {}
                 PROVE  /\ pick[s] \in s
                        /\ iter[s \ {pick[s]}] = f[s \ {pick[s]}] => iter[s] = f[s]
      OBVIOUS
    <3>1. pick[s] = Picked(s) /\ Picked(s) \in s
      BY <1>1
    <3>2. Is(f, s)
      BY <1>4
    <3> QED BY <2>4, <3>1, <3>2
  <2>6. IsFiniteSet(u) /\ iter[{}] = f[{}]
    BY <1>4, <2>4, ValidatorsType, FS_Subset
  <2>7. \A s \in SUBSET u : iter[s] = f[s]
    <3>1. Alike(iter, f, u, pick)
      BY <2>5, <2>6 DEF Alike
    <3> HIDE DEF pick
    <3> QED BY <2>6, <3>1, Unique
  <2> QED BY <2>1, <2>7
<1>6. Total(a, t) = f[t] /\ Total(a, {}) = f[{}]
  BY <1>5
<1>7. ASSUME t # {}
      PROVE  /\ Picked(t) \in t
             /\ Total(a, t) = a[Picked(t)] + Total(a, t \ {Picked(t)})
  <2>1. Picked(t) \in t
    BY <1>1, <1>7
  <2>2. t \ {Picked(t)} \in SUBSET Validators
    OBVIOUS
  <2>3. Total(a, t \ {Picked(t)}) = f[t \ {Picked(t)}]
    BY <1>5, <2>2
  <2> QED BY <1>4, <1>6, <1>7, <2>1, <2>3
<1> QED BY <1>4, <1>6, <1>7

\* It does not matter which element is taken first.
LEMMA TotalWithout ==
  ASSUME NEW a \in Amounts, NEW t \in SUBSET Validators, NEW x \in t
  PROVE  Total(a, t) = a[x] + Total(a, t \ {x})
<1> DEFINE P == {s \in SUBSET Validators :
                   \A y \in s : Total(a, s) = a[y] + Total(a, s \ {y})}
<1>0. \A v \in Validators : a[v] \in Nat
  BY DEF Amounts
<1>1. ASSUME NEW s \in SUBSET Validators, \A u \in SUBSET s : u # s => u \in P
      PROVE  s \in P
  <2> SUFFICES ASSUME NEW y \in s
               PROVE  Total(a, s) = a[y] + Total(a, s \ {y})
    OBVIOUS
  <2> DEFINE z == Picked(s)  u == s \ {y}  w == s \ {z}  both == u \ {z}
  <2>1. z \in s /\ Total(a, s) = a[z] + Total(a, w)
    BY TotalIs
  <2>2. CASE y = z
    BY <2>1, <2>2
  <2>3. CASE y # z
    <3> HIDE DEF z
    <3>1. u \in P /\ z \in u
      BY <1>1, <2>1, <2>3
    <3>2. Total(a, u) = a[z] + Total(a, both)
      BY <3>1
    <3>3. w \in P /\ y \in w /\ w \ {y} = both
      BY <1>1, <2>1, <2>3
    <3>4. Total(a, w) = a[y] + Total(a, both)
      BY <3>3
    <3>5. Total(a, both) \in Nat /\ a[y] \in Nat /\ a[z] \in Nat
      BY <1>0, <2>1, TotalIs
    <3> HIDE DEF u, w, both
    <3>6. Total(a, s) = a[y] + Total(a, u)
      BY <2>1, <3>2, <3>4, <3>5
    <3> QED BY <3>6 DEF u
  <2> QED BY <2>2, <2>3
<1>2. SUBSET Validators \subseteq P
  <2> HIDE DEF P
  <2> QED BY <1>1, AllSubsets, ValidatorsType
<1> QED BY <1>2

\* Two sets apart add up to their union.
LEMMA TotalOfUnion ==
  ASSUME NEW a \in Amounts, NEW t \in SUBSET Validators, NEW u \in SUBSET Validators,
         t \intersect u = {}
  PROVE  Total(a, t \union u) = Total(a, t) + Total(a, u)
<1> DEFINE P == {s \in SUBSET Validators :
                   s \intersect t = {} => Total(a, t \union s) = Total(a, t) + Total(a, s)}
<1>1. ASSUME NEW s \in SUBSET Validators, \A w \in SUBSET s : w # s => w \in P
      PROVE  s \in P
  <2> SUFFICES ASSUME s \intersect t = {}
               PROVE  Total(a, t \union s) = Total(a, t) + Total(a, s)
    OBVIOUS
  <2>1. CASE s = {}
    <3> DEFINE both == t \union s
    <3>1. both = t /\ Total(a, s) = 0 /\ Total(a, t) \in Nat
      BY <2>1, TotalIs
    <3> HIDE DEF both
    <3>2. Total(a, both) = Total(a, t) + Total(a, s)
      BY <3>1
    <3> QED BY <3>2 DEF both
  <2>2. CASE s # {}
    <3>1. PICK x \in s : TRUE
      BY <2>2
    <3> DEFINE w == s \ {x}  both == t \union s
    <3>2. w \in P /\ both \ {x} = t \union w /\ both \in SUBSET Validators /\ x \in both
      BY <1>1, <3>1
    <3>3. Total(a, t \union w) = Total(a, t) + Total(a, w)
      BY <3>2
    <3>4. Total(a, s) = a[x] + Total(a, w)
      BY <3>1, TotalWithout
    <3>5. Total(a, both) = a[x] + Total(a, both \ {x})
      <4> HIDE DEF both
      <4> QED BY <3>2, TotalWithout
    <3>6. Total(a, t) \in Nat /\ Total(a, w) \in Nat /\ a[x] \in Nat
      BY TotalIs DEF Amounts
    <3>7. Total(a, both) = a[x] + Total(a, t \union w)
      BY <3>2, <3>5
    <3> HIDE DEF w, both
    <3>8. Total(a, both) = Total(a, t) + Total(a, s)
      BY <3>3, <3>4, <3>6, <3>7
    <3> QED BY <3>8 DEF both
  <2> QED BY <2>1, <2>2
<1>2. SUBSET Validators \subseteq P
  <2> HIDE DEF P
  <2> QED BY <1>1, AllSubsets, ValidatorsType
<1> QED BY <1>2

\* What holds nothing adds nothing: the chain lists only what is held.
LEMMA TotalOfHolding ==
  ASSUME NEW a \in Amounts
  PROVE  Total(a, Holding(a)) = Total(a, Validators)
<1> DEFINE Empty == Validators \ Holding(a)
           P == {s \in SUBSET Empty : Total(a, s) = 0}
<1>1. IsFiniteSet(Empty) /\ \A v \in Empty : a[v] = 0
  BY ValidatorsType, FS_Subset DEF Amounts, Holding
<1>2. ASSUME NEW s \in SUBSET Empty, \A w \in SUBSET s : w # s => w \in P
      PROVE  s \in P
  <2>1. CASE s = {}
    BY <2>1, TotalIs
  <2>2. CASE s # {}
    <3>1. PICK x \in s : TRUE
      BY <2>2
    <3>2. s \ {x} \in P /\ a[x] = 0 /\ s \in SUBSET Validators
      BY <1>1, <1>2, <3>1
    <3>3. Total(a, s) = a[x] + Total(a, s \ {x})
      BY <3>1, <3>2, TotalWithout
    <3> QED BY <3>2, <3>3
  <2> QED BY <2>1, <2>2
<1>3. SUBSET Empty \subseteq P
  <2> HIDE DEF P, Empty
  <2> QED BY <1>1, <1>2, AllSubsets
<1>4. Total(a, Empty) = 0
  BY <1>3
<1>5. Holding(a) \in SUBSET Validators /\ Holding(a) \intersect Empty = {}
      /\ Validators = Holding(a) \union Empty /\ Total(a, Holding(a)) \in Nat
  BY TotalIs DEF Holding
<1>6. Total(a, Holding(a) \union Empty) = Total(a, Holding(a)) + Total(a, Empty)
  <2> HIDE DEF Empty
  <2> QED BY <1>5, TotalOfUnion DEF Empty
<1> QED BY <1>4, <1>5, <1>6

(***************************************************************************)
(* Pages                                                                   *)
(***************************************************************************)

\* A validator further on in a set has no lower place in it.
LEMMA RankMonotone ==
  ASSUME NEW S \in SUBSET Validators, NEW v \in S, NEW w \in S, v <= w
  PROVE  Rank(v, S) \in Nat /\ Rank(w, S) \in Nat /\ Rank(v, S) <= Rank(w, S)
<1> DEFINE V == {u \in S : u <= v}  W == {u \in S : u <= w}
<1>1. Rank(v, S) = Cardinality(V) /\ Rank(w, S) = Cardinality(W)
  BY DEF Rank
<1>2. v \in Nat /\ w \in Nat /\ \A u \in S : u \in Nat
  BY ValidatorsType
<1>3. V \subseteq W
  <2>1. \A u \in S : u <= v => u <= w
    BY <1>2
  <2> QED BY <2>1
<1>4. IsFiniteSet(W)
  BY ValidatorsType, FS_Subset
<1> HIDE DEF V, W
<1>5. IsFiniteSet(V) /\ Cardinality(V) <= Cardinality(W)
  BY <1>3, <1>4, FS_Subset
<1> QED BY <1>1, <1>4, <1>5, FS_CardinalityType

\* A page adds what is held from its key up to the key of the next page, and the
\* last page adds all that was left.
LEMMA PageAdds ==
  ASSUME NEW a \in Amounts, NEW key \in Nat
  PROVE  LET H == Holding(a)
             next == NextKey(H, key)
         IN /\ next \in Nat
            /\ Total(a, Page(H, key)) \in Nat
            /\ Total(a, {v \in H : v < key}) \in Nat
            /\ Total(a, {v \in H : v < key}) + Total(a, Page(H, key)) =
                 Total(a, IF next = 0 THEN Validators ELSE {v \in H : v < next})
<1> DEFINE H == Holding(a)
           page == Page(H, key)
           rest == Rest(H, key)
           beyond == rest \ page
           next == NextKey(H, key)
           below == {v \in H : v < key}
           then == {v \in H : v < next}
<1>1. H \in SUBSET Validators /\ \A v \in H : v \in Nat \ {0}
  BY ValidatorsType DEF Holding
<1>2. /\ below \in SUBSET Validators /\ page \in SUBSET Validators /\ rest \in SUBSET H
      /\ page \subseteq rest /\ below \intersect page = {}
      /\ H = below \union rest
  BY <1>1 DEF Page, Rest
<1>3. Total(a, below) + Total(a, page) = Total(a, below \union page)
  <2> HIDE DEF below, page
  <2> QED BY <1>2, TotalOfUnion
<1>4. Total(a, page) \in Nat /\ Total(a, below) \in Nat
  <2> HIDE DEF below, page
  <2> QED BY <1>2, TotalIs
<1>5. CASE beyond = {}
  <2>1. next = 0
    BY <1>5 DEF NextKey
  <2>2. below \union page = H
    BY <1>2, <1>5
  <2>3. Total(a, below \union page) = Total(a, Validators)
    <3> DEFINE both == below \union page
    <3>1. both = H
      BY <2>2
    <3> HIDE DEF both
    <3> QED BY <3>1, TotalOfHolding DEF both
  <2> HIDE DEF below, page, next
  <2> QED BY <1>3, <1>4, <2>1, <2>3 DEF below, page, next
<1>6. CASE beyond # {}
  <2>1. next = Min(beyond)
    BY <1>6 DEF NextKey
  <2>2. beyond \in SUBSET Nat /\ \A v \in beyond : v # 0
    BY <1>1, <1>2
  <2>3. next \in beyond /\ \A v \in beyond : next <= v
    <3> HIDE DEF beyond, next
    <3> QED BY <1>6, <2>1, <2>2, MinIsIn
  <2>4. \A v \in page : v < next
    <3> SUFFICES ASSUME NEW v \in page, ~(v < next) PROVE FALSE
      OBVIOUS
    <3>1. /\ rest \in SUBSET Validators /\ v \in rest /\ next \in rest
          /\ v \in Nat /\ next \in Nat
      BY <1>1, <1>2, <2>3
    <3>2. Rank(v, rest) <= PageSize /\ ~(Rank(next, rest) <= PageSize)
      BY <2>3 DEF Page
    <3>3. next <= v
      BY <3>1
    <3> HIDE DEF rest, next
    <3>4. /\ Rank(next, rest) \in Nat /\ Rank(v, rest) \in Nat
          /\ Rank(next, rest) <= Rank(v, rest)
      BY <3>1, <3>3, RankMonotone
    <3> QED BY <3>2, <3>4, PageSizeType
  <2>5. next \in Nat /\ key <= next
    BY <1>1, <1>2, <2>3 DEF Rest
  <2>6. below \union page = then
    <3>1. ASSUME NEW v \in then PROVE v \in below \union page
      <4>1. v \in Nat /\ v < next /\ next \in Nat
        BY <1>1, <2>5
      <4>2. v \notin beyond
        BY <2>3, <4>1
      <4> QED BY <1>2, <4>2
    <3>2. ASSUME NEW v \in below PROVE v \in then
      BY <1>1, <2>5
    <3>3. page \subseteq then
      BY <1>2, <2>4
    <3> QED BY <3>1, <3>2, <3>3
  <2>7. next # 0
    BY <2>2, <2>3
  <2> HIDE DEF below, page, next, then
  <2> QED BY <1>3, <1>4, <2>5, <2>6, <2>7 DEF below, page, next, then
<1> QED BY <1>5, <1>6

(***************************************************************************)
(* Fetches                                                                 *)
(***************************************************************************)

\* A fetch that has come to another stage is otherwise the same.
LEMMA Staged ==
  ASSUME NEW f, IsFlight(f), NEW stage
  PROVE  LET g == [f EXCEPT !.stage = stage]
         IN /\ IsFlight(g) /\ g.stage = stage /\ g.of = f.of /\ g.left = f.left
            /\ g.rows = f.rows /\ g.pair = f.pair /\ g.undone = f.undone
BY DEF IsFlight, Fields

\* A read takes nothing from what a fetch is about.
LEMMA AfterRead ==
  ASSUME NEW p, NEW f, IsFlight(f), NEW r, NEW last
  PROVE  /\ IsFlight(Answered(p, f, r, last)) /\ Answered(p, f, r, last).of = f.of
         /\ Answered(p, f, r, last).stage \in {"answered", "reading"}
         /\ Answered(p, f, r, last).rows = f.rows /\ Answered(p, f, r, last).pair = f.pair
         /\ Answered(p, f, r, last).undone = f.undone
<1> DEFINE left == IF ~last THEN f.left
                   ELSE IF p = "stakes" /\ r = "stake" THEN {"rewards"} ELSE f.left \ {r}
           stage == IF left = {} THEN "answered" ELSE "reading"
           g == [f EXCEPT !.left = left, !.stage = stage]
<1>1. Answered(p, f, r, last) = g
  BY DEF Answered
<1>2. stage \in {"answered", "reading"}
  OBVIOUS
<1> HIDE DEF left, stage
<1>3. /\ IsFlight(g) /\ g.of = f.of /\ g.stage = stage
      /\ g.rows = f.rows /\ g.pair = f.pair /\ g.undone = f.undone
  BY DEF IsFlight, Fields
<1> HIDE DEF g
<1>4. QED BY <1>1, <1>2, <1>3

\* The stakes read their delegations, then the rewards, and are answered.
LEMMA AfterStakes ==
  ASSUME NEW f, IsFlight(f), f.left = {"stake"}, NEW last
  PROVE  /\ Answered("stakes", f, "stake", last).left \in {{"stake"}, {"rewards"}}
         /\ Answered("stakes", f, "stake", last).stage = "reading"
<1> DEFINE left == IF ~last THEN f.left ELSE {"rewards"}
           g == [f EXCEPT !.left = left, !.stage = "reading"]
<1>1. left \in {{"stake"}, {"rewards"}} /\ left # {}
  OBVIOUS
<1>2. Answered("stakes", f, "stake", last) = g
  BY <1>1 DEF Answered
<1> HIDE DEF left
<1>3. g.left = left /\ g.stage = "reading"
  BY DEF IsFlight, Fields
<1> HIDE DEF g
<1>4. QED BY <1>1, <1>2, <1>3

\* With the rewards the stakes are answered.
LEMMA AfterRewards ==
  ASSUME NEW f, IsFlight(f), f.left = {"rewards"}
  PROVE  Answered("stakes", f, "rewards", TRUE).stage = "answered"
<1>1. Answered("stakes", f, "rewards", TRUE) = [f EXCEPT !.left = {}, !.stage = "answered"]
  BY DEF Answered
<1>2. QED BY <1>1 DEF IsFlight, Fields

\* A new fetch is sound.
LEMMA NewSound ==
  ASSUME NEW p \in Panels, NEW a \in Addresses, NEW host
  PROVE  Sound(ledger, p, NewFlight(p, a, host)) /\ NewFlight(p, a, host).of = a
<1> DEFINE f == NewFlight(p, a, host)
<1>1. IsFlight(f)
  BY DEF NewFlight, IsFlight, Fields
<1>2. f.of = a /\ f.stage \in {"account", "reading"} /\ f.left = FirstReads(p) /\ f.rows = {}
      /\ f.undone = FALSE
  BY DEF NewFlight
<1>3. p = "stakes" => f.left = {"stake"}
  BY <1>2 DEF FirstReads
<1> HIDE DEF f
<1>4. Sound(ledger, p, f)
  BY <1>1, <1>2, <1>3 DEF Sound, Stages
<1>5. QED BY <1>2, <1>4 DEF f

\* What is left of a fetch that is not shown is sound.
LEMMA SpentSound ==
  ASSUME NEW owned, NEW p \in Panels, NEW a
  PROVE  /\ Sound(owned, p, Spent(a)) /\ Spent(a).of = a
         /\ Spent(a).stage = "ended" /\ Paired(Spent(a))
BY DEF Spent, Sound, IsFlight, Fields, Stages, Paired

\* Who the screen is about.
LEMMA ShownType ==
  ASSUME NEW w \in Wallet, NEW p \in Place
  PROVE  Shown(w, p) \in Addresses \union {None}
BY DEF Wallet, Place, Shown

(***************************************************************************)
(* A fetch goes on                                                         *)
(***************************************************************************)
\* The panels of a screen.
LEMMA PanelsOfHost == \A h \in Hosts : PanelsAt[h] \subseteq Panels
BY DEF Hosts, PanelsAt, Panels

\* The screen and its fetches stay, whatever the fetches have brought.
LEMMA Staying ==
  ASSUME PanelInv, UNCHANGED <<plan, wallet, place>>,
         \A p \in Panels : /\ Len(flight'[p]) = Len(flight[p])
                           /\ \A i \in 1..Len(flight[p]) : flight'[p][i].of = flight[p][i].of
  PROVE  Hosted' /\ Newest'
<1>1. \A p \in PanelsAt[place.host] : p \in Panels /\ Len(flight[p]) \in Nat
  BY PanelsOfHost, Lengths DEF PanelInv, Typed, Place
<1>2. Hosted'
  BY DEF PanelInv, Hosted
<1>3. Newest'
  BY <1>1 DEF PanelInv, Newest, About
<1>4. QED BY <1>2, <1>3

\* A fetch that is under way becomes f.
LEMMA Replaced ==
  ASSUME PanelInv, NEW p \in Panels, NEW i \in 1..Len(flight[p]),
         flight[p][i].stage \in {"account", "reading"}, place.host # "broken",
         NEW f, Sound(ledger, p, f), f.of = flight[p][i].of, Becomes(p, i, f),
         UNCHANGED <<panel, plan, ledger, wallet, place>>
  PROVE  PanelInv'
<1>1. /\ flight' = [q \in Panels |-> flight'[q]]
      /\ flight'[p] = [flight[p] EXCEPT ![i] = f]
      /\ \A q \in Panels : q # p => flight'[q] = flight[q]
  BY DEF Becomes, PanelInv, Typed
<1>2. /\ IsSeq(flight'[p]) /\ Len(flight'[p]) = Len(flight[p]) /\ flight'[p][i] = f
      /\ \A j \in 1..Len(flight[p]) : j # i => flight'[p][j] = flight[p][j]
  <2> DEFINE s == flight[p]  t == [s EXCEPT ![i] = f]
  <2>1. IsSeq(s) /\ i \in 1..Len(s)
    BY DEF PanelInv, Typed
  <2> HIDE DEF s
  <2>2. /\ IsSeq(t) /\ Len(t) = Len(s) /\ t[i] = f
        /\ \A j \in 1..Len(s) : j # i => t[j] = s[j]
    BY <2>1, Replacing
  <2>3. QED BY <1>1, <2>2 DEF s
<1>3. Typed'
  BY <1>1, <1>2 DEF PanelInv, Typed
<1>4. AllSound'
  BY <1>1, <1>2 DEF PanelInv, AllSound
<1>5. Hosted' /\ Newest'
  BY <1>1, <1>2, Staying
<1>6. \A q \in Panels : ShowsEnded(q)'
  BY <1>1, <1>2 DEF PanelInv, ShowsEnded
<1>7. BrokenByStakes'
  BY DEF BrokenByStakes
<1>8. QED BY <1>3, <1>4, <1>5, <1>6, <1>7 DEF PanelInv

\* A fetch ends: the panel may show it, when it was answered.
LEMMA Ending ==
  ASSUME PanelInv, NEW p \in Panels, NEW i \in 1..Len(flight[p]),
         flight[p][i].stage \in {"account", "reading", "answered"},
         NEW over \in {"ended", "dropped"}, Over(p, i, over),
         \/ UNCHANGED panel
         \/ \E is \in {"loaded", "failed", "invalid"} :
              /\ Sets(p, i, is) /\ over = "ended"
              /\ is = "loaded" => flight[p][i].stage = "answered",
         UNCHANGED <<plan, ledger, wallet>>, place' \in Place
  PROVE  /\ Typed' /\ AllSound' /\ \A q \in Panels : ShowsEnded(q)'
         /\ flight'[p][i].undone = flight[p][i].undone
         /\ \A q \in Panels :
              /\ Len(flight'[q]) = Len(flight[q])
              /\ \A j \in 1..Len(flight[q]) : flight'[q][j].of = flight[q][j].of
<1> DEFINE old == flight[p]  new == flight'[p]
           After(j) == IF j = i THEN [old[i] EXCEPT !.stage = over]
                       ELSE IF old[j].stage = "ended" /\ panel'[p].by # j THEN Spent(old[j].of)
                       ELSE old[j]
<1>1. /\ flight' = [q \in Panels |-> flight'[q]] /\ new = [j \in 1..Len(old) |-> After(j)]
      /\ \A q \in Panels : q # p => flight'[q] = flight[q]
  BY DEF Over, PanelInv, Typed
<1>2. IsSeq(old) /\ Len(old) \in Nat
  BY Lengths DEF PanelInv, Typed
<1>3. IsSeq(new) /\ Len(new) = Len(old) /\ \A j \in 1..Len(old) : new[j] = After(j)
  <2>1. new = [j \in 1..Len(old) |-> new[j]] /\ \A j \in 1..Len(old) : new[j] = After(j)
    BY <1>1
  <2> HIDE DEF new
  <2>2. QED BY <1>2, <2>1, Mapping
<1>4. \A j \in 1..Len(old) : Sound(ledger, p, old[j])
  BY DEF PanelInv, AllSound
<1>5. /\ IsFlight(new[i]) /\ new[i].stage = over /\ new[i].of = old[i].of
       /\ new[i].rows = old[i].rows /\ new[i].pair = old[i].pair
       /\ new[i].undone = old[i].undone
  <2>1. IsFlight(old[i]) /\ new[i] = [old[i] EXCEPT !.stage = over]
    BY <1>3, <1>4 DEF Sound
  <2> HIDE DEF new, old, After
  <2>2. ASSUME NEW f, IsFlight(f), NEW g, g = [f EXCEPT !.stage = over]
        PROVE  /\ IsFlight(g) /\ g.stage = over /\ g.of = f.of
               /\ g.rows = f.rows /\ g.pair = f.pair /\ g.undone = f.undone
    BY <2>2, Staged
  <2>3. QED BY <2>1, <2>2
<1>6. ASSUME NEW j \in 1..Len(old)
      PROVE  Sound(ledger, p, new[j]) /\ new[j].of = old[j].of
  <2>1. CASE j = i
    <3>1. /\ IsFlight(new[j]) /\ new[j].stage = over /\ new[j].of = old[j].of
          /\ new[j].rows = old[j].rows /\ new[j].undone = old[j].undone
      BY <1>5, <2>1
    <3>2. /\ Sound(ledger, p, old[j]) /\ old[j].stage # "ended"
          /\ new[j].stage \in {"ended", "dropped"}
      BY <1>4, <2>1, <3>1
    <3> HIDE DEF new, old
    <3>3. QED BY <3>1, <3>2 DEF Sound, Stages
  <2>2. CASE j # i
    BY <1>3, <1>4, <2>2, SpentSound
  <2>3. QED BY <2>1, <2>2
<1>7. panel' \in [Panels -> [is : {"initial", "loading", "loaded", "failed", "invalid"},
                             by : Nat]]
  BY <1>2 DEF PanelInv, Typed, Sets
<1>8. Typed'
  BY <1>1, <1>3, <1>7 DEF PanelInv, Typed
<1>9. AllSound'
  <2>1. SUFFICES ASSUME NEW q \in Panels, NEW j \in 1..Len(flight'[q])
                 PROVE  Sound(ledger, q, flight'[q][j])
    BY DEF AllSound
  <2>2. CASE q = p
    BY <1>3, <1>6, <2>2
  <2>3. CASE q # p
    BY <1>1, <2>3 DEF PanelInv, AllSound
  <2>4. QED BY <2>2, <2>3
<1>10. ShowsEnded(p)'
  <2>1. CASE UNCHANGED panel
    <3>1. SUFFICES ASSUME panel[p].is = "loaded"
                   PROVE  /\ panel[p].by \in 1..Len(new) /\ new[panel[p].by].stage = "ended"
                          /\ Paired(new[panel[p].by])
      BY <2>1 DEF ShowsEnded
    <3>2. panel[p].by \in 1..Len(old) /\ panel[p].by # i
      BY <3>1 DEF PanelInv, ShowsEnded
    <3>3. new[panel[p].by] = old[panel[p].by]
      BY <1>3, <2>1, <3>2
    <3>4. QED BY <1>3, <3>1, <3>2, <3>3 DEF PanelInv, ShowsEnded
  <2>2. CASE \E is \in {"loaded", "failed", "invalid"} :
               /\ Sets(p, i, is) /\ over = "ended"
               /\ is = "loaded" => flight[p][i].stage = "answered"
    <3>1. PICK is \in {"loaded", "failed", "invalid"} :
            /\ Sets(p, i, is) /\ over = "ended"
            /\ is = "loaded" => flight[p][i].stage = "answered"
      BY <2>2
    <3>2. panel'[p].is = is /\ panel'[p].by = i
      BY <3>1 DEF Sets, PanelInv, Typed
    <3>3. /\ new[i].stage = over /\ new[i].rows = old[i].rows /\ new[i].pair = old[i].pair
          /\ new[i].undone = old[i].undone
      BY <1>5
    <3>4. old[i].stage = "answered" => Paired(new[i])
      BY <1>4, <3>3 DEF Sound, Paired
    <3>5. QED BY <1>3, <3>1, <3>2, <3>3, <3>4 DEF ShowsEnded
  <2>3. QED BY <2>1, <2>2
<1>11. \A q \in Panels : q # p => ShowsEnded(q)'
  BY <1>1 DEF PanelInv, Typed, ShowsEnded, Sets
<1>12. new[i].undone = old[i].undone
  BY <1>5
<1>13. QED BY <1>1, <1>3, <1>6, <1>8, <1>9, <1>10, <1>11, <1>12

\* A panel without rows is sound whatever it reads.
LEMMA RowlessSound ==
  ASSUME NEW owned, NEW p \in Panels \ {"stakes"}, NEW f, Sound(owned, p, f),
         f.stage # "ended",
         NEW g, IsFlight(g), g.of = f.of, g.stage \in {"answered", "reading"},
         g.rows = {}, g.undone = f.undone
  PROVE  Sound(owned, p, g)
BY DEF Sound, Stages, Paired

\* A known account goes on to be read.
LEMMA AccountFoundStep ==
  ASSUME PanelInv, NEW p \in Panels, NEW i \in 1..Len(flight[p]), AccountFound(p, i)
  PROVE  PanelInv'
<1> DEFINE f == flight[p][i]  g == [f EXCEPT !.stage = "reading"]
<1>1. Sound(ledger, p, f) /\ f.stage = "account"
  BY DEF PanelInv, AllSound, AccountFound, In
<1>2. Becomes(p, i, g) /\ place.host # "broken"
  BY DEF AccountFound, In
<1>3. UNCHANGED <<panel, plan, ledger, wallet, place>>
  BY DEF AccountFound, chain, Stays
<1>4. IsFlight(f)
  BY <1>1 DEF Sound
<1> HIDE DEF f
<1>6. /\ IsFlight(g) /\ g.of = f.of /\ g.stage = "reading" /\ g.left = f.left
      /\ g.rows = f.rows /\ g.pair = f.pair /\ g.undone = f.undone
  BY <1>4, Staged
<1> HIDE DEF g
<1>7. Sound(ledger, p, g)
  BY <1>1, <1>6 DEF Sound, Stages
<1>8. \E h : Sound(ledger, p, h) /\ h.of = flight[p][i].of /\ Becomes(p, i, h)
  BY <1>2, <1>6, <1>7 DEF f
<1>9. QED BY <1>1, <1>2, <1>3, <1>8, Replaced DEF f

\* A page of the stakes has rows that the chain holds at that moment.
LEMMA ReadPageStep ==
  ASSUME PanelInv, NEW p \in Panels, NEW i \in 1..Len(flight[p]), NEW r \in Paged,
         ReadPage(p, i, r)
  PROVE  PanelInv'
<1> DEFINE f == flight[p][i]
           amounts == ledger[f.of][r]
           page == Page(Holding(amounts), f.key[r])
           next == NextKey(Holding(amounts), f.key[r])
           a == Answered(p, f, r, next = 0)
           sum == IF p = "portfolio" THEN a.sum + Total(amounts, page) ELSE a.sum
           rows == IF p = "stakes" THEN a.rows \union page ELSE a.rows
           g == [a EXCEPT !.key[r] = next, !.sum = sum, !.rows = rows]
<1>1. Sound(ledger, p, f) /\ f.stage = "reading" /\ r \in f.left
  BY DEF PanelInv, AllSound, ReadPage, In
<1>2. Becomes(p, i, g) /\ place.host # "broken"
  BY DEF ReadPage, In
<1>3. UNCHANGED <<panel, plan, ledger, wallet, place>>
  BY DEF ReadPage, chain, Stays
<1>4. IsFlight(f)
  BY <1>1 DEF Sound
<1>6. page \subseteq Holding(amounts) /\ Holding(amounts) \subseteq Validators
  BY DEF Page, Rest, Holding
<1> HIDE DEF f, page, next
<1>7. /\ IsFlight(a) /\ a.of = f.of /\ a.stage \in {"answered", "reading"}
      /\ a.rows = f.rows /\ a.pair = f.pair /\ a.undone = f.undone
      /\ p = "stakes" /\ f.left = {"stake"} =>
           a.left \in {{"stake"}, {"rewards"}} /\ a.stage = "reading"
  <2> DEFINE last == next = 0
  <2>1. p = "stakes" /\ f.left = {"stake"} => r = "stake"
    BY <1>1
  <2> HIDE DEF last
  <2>2. p = "stakes" /\ f.left = {"stake"} =>
          /\ Answered(p, f, r, last).left \in {{"stake"}, {"rewards"}}
          /\ Answered(p, f, r, last).stage = "reading"
    BY <1>4, <2>1, AfterStakes
  <2>3. /\ IsFlight(Answered(p, f, r, last)) /\ Answered(p, f, r, last).of = f.of
        /\ Answered(p, f, r, last).stage \in {"answered", "reading"}
        /\ Answered(p, f, r, last).rows = f.rows /\ Answered(p, f, r, last).pair = f.pair
        /\ Answered(p, f, r, last).undone = f.undone
    BY <1>4, AfterRead
  <2>4. QED BY <2>2, <2>3 DEF last
<1> HIDE DEF a, sum, rows
<1>8. /\ IsFlight(g) /\ g.of = a.of /\ g.stage = a.stage /\ g.left = a.left
      /\ g.rows = rows /\ g.pair = a.pair /\ g.undone = a.undone
  BY <1>7 DEF IsFlight, Fields
<1> HIDE DEF g
<1>9. CASE p = "stakes"
  <2>1. f.left = {"stake"} /\ r = "stake"
    BY <1>1, <1>9 DEF Sound, Paged
  <2>2. rows = f.rows \union page /\ amounts = ledger[f.of].stake
    BY <1>7, <1>9, <2>1 DEF rows
  <2>3. Sound(ledger, p, g)
    BY <1>1, <1>6, <1>7, <1>8, <1>9, <2>1, <2>2 DEF Sound, Stages
  <2>4. \E h : Sound(ledger, p, h) /\ h.of = flight[p][i].of /\ Becomes(p, i, h)
    BY <1>2, <1>7, <1>8, <2>3 DEF f
  <2>5. QED BY <1>1, <1>2, <1>3, <2>4, Replaced DEF f
<1>10. CASE p # "stakes"
  <2>1. g.rows = {}
    BY <1>1, <1>7, <1>8, <1>10 DEF Sound, rows
  <2>2. Sound(ledger, p, g)
    BY <1>1, <1>7, <1>8, <1>10, <2>1, RowlessSound
  <2>3. \E h : Sound(ledger, p, h) /\ h.of = flight[p][i].of /\ Becomes(p, i, h)
    BY <1>2, <1>7, <1>8, <2>2 DEF f
  <2>4. QED BY <1>1, <1>2, <1>3, <2>3, Replaced DEF f
<1>11. QED BY <1>9, <1>10

\* The stakes read neither funds nor commission.
LEMMA ReadOneStep ==
  ASSUME PanelInv, NEW p \in Panels, NEW i \in 1..Len(flight[p]),
         ReadFunds(p, i) \/ ReadCommission(p, i)
  PROVE  PanelInv'
<1> DEFINE f == flight[p][i]
<1>1. /\ Sound(ledger, p, f) /\ f.stage = "reading"
      /\ "funds" \in f.left \/ "commission" \in f.left
  BY DEF PanelInv, AllSound, ReadFunds, ReadCommission, In
<1>2. place.host # "broken" /\ UNCHANGED <<panel, plan, ledger, wallet, place>>
  BY DEF ReadFunds, ReadCommission, In, chain, Stays
<1>3. p # "stakes" /\ IsFlight(f) /\ f.rows = {}
  BY <1>1 DEF Sound
<1>4. \E h : /\ IsFlight(h) /\ h.of = f.of /\ h.stage \in {"answered", "reading"}
             /\ h.rows = {} /\ h.undone = f.undone /\ Becomes(p, i, h)
  <2>1. CASE ReadFunds(p, i)
    <3> DEFINE last == TRUE
               a == Answered(p, f, "funds", last)
               sum == a.sum + ledger[f.of].funds
               g == [a EXCEPT !.sum = sum]
    <3>1. Becomes(p, i, g)
      BY <2>1 DEF ReadFunds
    <3> HIDE DEF f, last
    <3>2. /\ IsFlight(a) /\ a.of = f.of /\ a.stage \in {"answered", "reading"}
          /\ a.rows = {} /\ a.undone = f.undone
      BY <1>3, AfterRead
    <3> HIDE DEF a, sum
    <3>3. /\ IsFlight(g) /\ g.of = a.of /\ g.stage = a.stage /\ g.rows = a.rows
          /\ g.undone = a.undone
      BY <3>2 DEF IsFlight, Fields
    <3> HIDE DEF g
    <3>4. QED BY <3>1, <3>2, <3>3
  <2>2. CASE ReadCommission(p, i)
    <3> DEFINE last == TRUE
               a == Answered(p, f, "commission", last)
    <3>1. Becomes(p, i, a)
      BY <2>2 DEF ReadCommission
    <3> HIDE DEF f, last
    <3>2. /\ IsFlight(a) /\ a.of = f.of /\ a.stage \in {"answered", "reading"}
          /\ a.rows = {} /\ a.undone = f.undone
      BY <1>3, AfterRead
    <3> HIDE DEF a
    <3>3. QED BY <3>1, <3>2
  <2>3. QED BY <2>1, <2>2
<1>6. PICK g : /\ IsFlight(g) /\ g.of = f.of /\ g.stage \in {"answered", "reading"}
               /\ g.rows = {} /\ g.undone = f.undone /\ Becomes(p, i, g)
  BY <1>4
<1> HIDE DEF f
<1>7. Sound(ledger, p, g)
  BY <1>1, <1>3, <1>6, RowlessSound
<1>8. QED BY <1>1, <1>2, <1>6, <1>7, Replaced DEF f

\* The rewards come for the rows that the chain still has.
LEMMA ReadRewardsStep ==
  ASSUME PanelInv, NEW p \in Panels, NEW i \in 1..Len(flight[p]), ReadRewards(p, i)
  PROVE  PanelInv'
<1> DEFINE f == flight[p][i]
           l == ledger[f.of]
           last == TRUE
           a == Answered(p, f, "rewards", last)
           sum == IF p = "portfolio" THEN a.sum + Total(l.rewards, Validators) ELSE a.sum
           pair == IF p = "stakes" THEN PairedRewards(f.rows, Rewarded(l, f.rows)) ELSE a.pair
           g == [a EXCEPT !.sum = sum, !.pair = pair]
<1>1. Sound(ledger, p, f) /\ f.stage = "reading" /\ "rewards" \in f.left
  BY DEF PanelInv, AllSound, ReadRewards, In
<1>2. Becomes(p, i, g) /\ place.host # "broken"
  BY DEF ReadRewards, In
<1>3. UNCHANGED <<panel, plan, ledger, wallet, place>>
  BY DEF ReadRewards, chain, Stays
<1>4. IsFlight(f) /\ f.rows \in SUBSET Validators
  BY <1>1 DEF Sound
<1>6. f.rows \subseteq Holding(ledger[f.of].stake) =>
        \A v \in f.rows : PairedRewards(f.rows, Rewarded(l, f.rows))[v] = v
  BY <1>4, PairsThemselves DEF Rewarded
<1>7. p = "stakes" /\ f.left = {"rewards"} => a.stage = "answered"
  BY <1>4, AfterRewards
<1> HIDE DEF f, l, last
<1>8. /\ IsFlight(a) /\ a.of = f.of /\ a.stage \in {"answered", "reading"}
      /\ a.rows = f.rows /\ a.undone = f.undone
  BY <1>4, AfterRead
<1> HIDE DEF a, sum, pair
<1>9. /\ IsFlight(g) /\ g.of = a.of /\ g.stage = a.stage
      /\ g.rows = a.rows /\ g.pair = pair /\ g.undone = a.undone
  BY <1>8 DEF IsFlight, Fields
<1> HIDE DEF g
<1>10. Sound(ledger, p, g)
  <2>1. CASE p = "stakes"
    <3>1. /\ f.left = {"rewards"} /\ pair = PairedRewards(f.rows, Rewarded(l, f.rows))
          /\ f.undone \/ f.rows \subseteq Holding(ledger[f.of].stake)
      BY <1>1, <2>1 DEF Sound, pair
    <3>2. Paired(g)
      BY <1>6, <1>8, <1>9, <3>1 DEF Paired
    <3>3. QED BY <1>1, <1>7, <1>8, <1>9, <2>1, <3>1, <3>2 DEF Sound, Stages
  <2>2. CASE p # "stakes"
    <3>1. g.rows = {}
      BY <1>1, <1>8, <1>9, <2>2 DEF Sound
    <3>2. QED BY <1>1, <1>8, <1>9, <2>2, <3>1, RowlessSound
  <2>3. QED BY <2>1, <2>2
<1>11. \E h : Sound(ledger, p, h) /\ h.of = flight[p][i].of /\ Becomes(p, i, h)
  BY <1>2, <1>8, <1>9, <1>10 DEF f
<1>12. QED BY <1>1, <1>2, <1>3, <1>11, Replaced DEF f

\* A read fails, and with it the fetch.
LEMMA ReadFailsStep ==
  ASSUME PanelInv, NEW p \in Panels, NEW i \in 1..Len(flight[p]),
         ReadFails(p, i) \/ (p = "portfolio" /\ ThrowsNoError(i))
  PROVE  PanelInv'
<1>1. /\ flight[p][i].stage = "reading" /\ place.host # "broken"
      /\ \E over \in {"ended", "dropped"} :
           /\ Over(p, i, over)
           /\ UNCHANGED panel \/ (Sets(p, i, "failed") /\ over = "ended")
      /\ UNCHANGED <<plan, ledger, wallet, place>> /\ place \in Place
  BY DEF ReadFails, ThrowsNoError, Ended, In, chain, Stays, PanelInv, Typed
<1>2. /\ Typed' /\ AllSound' /\ \A q \in Panels : ShowsEnded(q)'
      /\ \A q \in Panels :
           /\ Len(flight'[q]) = Len(flight[q])
           /\ \A j \in 1..Len(flight[q]) : flight'[q][j].of = flight[q][j].of
  BY <1>1, Ending
<1>3. Hosted' /\ Newest'
  BY <1>1, <1>2, Staying
<1>4. BrokenByStakes'
  BY <1>1 DEF BrokenByStakes
<1>5. QED BY <1>2, <1>3, <1>4 DEF PanelInv

\* Without panels there is nothing to show.
LEMMA Cleared ==
  ASSUME PanelInv, UNCHANGED <<plan, wallet, ledger>>, place' = Invalid,
         flight' = [q \in Panels |-> <<>>], panel' = [q \in Panels |-> Fresh]
  PROVE  PanelInv'
<1>1. place'.host = "invalid" /\ place' \in Place /\ PanelsAt["invalid"] = {}
  BY DEF Invalid, At, Place, Hosts, PanelsAt
<1>2. \A q \in Panels : IsSeq(flight'[q]) /\ Len(flight'[q]) = 0
  BY DEF IsSeq
<1>3. Typed'
  BY <1>1, <1>2 DEF PanelInv, Typed, Fresh
<1>4. AllSound' /\ Hosted' /\ Newest' /\ BrokenByStakes'
  BY <1>1, <1>2 DEF AllSound, Hosted, Newest, BrokenByStakes
<1>5. \A q \in Panels : ShowsEnded(q)'
  BY DEF ShowsEnded, Fresh
<1>6. QED BY <1>3, <1>4, <1>5 DEF PanelInv

\* An unknown account ends the fetch, or leads away from the panels.
LEMMA AccountNotFoundStep ==
  ASSUME PanelInv, NEW p \in Panels, NEW i \in 1..Len(flight[p]), AccountNotFound(p, i)
  PROVE  PanelInv'
<1>1. CASE AsksForWallet(wallet, place)
  <2>1. /\ flight[p][i].stage = "account" /\ place.host # "broken" /\ Over(p, i, "ended")
        /\ Sets(p, i, "invalid")
        /\ UNCHANGED <<plan, ledger, wallet, place>> /\ place \in Place
    BY <1>1 DEF AccountNotFound, Ended, In, chain, Stays, PanelInv, Typed
  <2>2. /\ Typed' /\ AllSound' /\ \A q \in Panels : ShowsEnded(q)'
        /\ \A q \in Panels :
             /\ Len(flight'[q]) = Len(flight[q])
             /\ \A j \in 1..Len(flight[q]) : flight'[q][j].of = flight[q][j].of
    BY <2>1, Ending
  <2>3. Hosted' /\ Newest'
    BY <2>1, <2>2, Staying
  <2>4. BrokenByStakes'
    BY <2>1 DEF BrokenByStakes
  <2>5. QED BY <2>2, <2>3, <2>4 DEF PanelInv
<1>2. CASE ~AsksForWallet(wallet, place)
  BY <1>2, Cleared DEF AccountNotFound, chain
<1>3. QED BY <1>1, <1>2

\* Only stakes read while a delegation went away do not render.
LEMMA ArrivesStep ==
  ASSUME PanelInv, NEW p \in Panels, NEW i \in 1..Len(flight[p]), Arrives(p, i)
  PROVE  PanelInv'
<1> DEFINE f == flight[p][i]
<1>1. /\ f.stage = "answered" /\ place.host # "broken" /\ Over(p, i, "ended")
      /\ Sets(p, i, "loaded") /\ UNCHANGED <<plan, ledger, wallet>>
      /\ place' = IF Renders(f) THEN place ELSE Broken
  BY DEF Arrives, Ended, In, chain
<1>2. place' \in Place /\ Broken.host = "broken" /\ PanelsAt["broken"] = {}
  BY <1>1 DEF Broken, At, Place, Hosts, PanelsAt, PanelInv, Typed
<1>3. /\ Typed' /\ AllSound' /\ \A q \in Panels : ShowsEnded(q)'
      /\ flight'[p][i].undone = f.undone
      /\ \A q \in Panels :
           /\ Len(flight'[q]) = Len(flight[q])
           /\ \A j \in 1..Len(flight[q]) : flight'[q][j].of = flight[q][j].of
  BY <1>1, <1>2, Ending
<1>4. CASE Renders(f)
  <2>1. Hosted' /\ Newest'
    BY <1>1, <1>3, <1>4, Staying
  <2>2. BrokenByStakes'
    BY <1>1, <1>4 DEF BrokenByStakes
  <2>3. QED BY <1>3, <2>1, <2>2 DEF PanelInv
<1>5. CASE ~Renders(f)
  <2>1. Sound(ledger, p, f)
    BY DEF PanelInv, AllSound
  <2>2. p = "stakes" /\ f.undone
    BY <1>1, <1>5, <2>1, ValidatorsType DEF Sound, Renders, Paired
  <2>3. panel'[p].is = "loaded" /\ panel'[p].by = i
    BY <1>1 DEF Sets, PanelInv, Typed
  <2>4. BrokenByStakes'
    BY <1>3, <2>2, <2>3 DEF BrokenByStakes
  <2>5. Hosted' /\ Newest'
    BY <1>1, <1>2, <1>5 DEF Hosted, Newest
  <2>6. QED BY <1>3, <2>4, <2>5 DEF PanelInv
<1>6. QED BY <1>4, <1>5

\* No step of a fetch breaks the invariant.
LEMMA ProgressStep ==
  ASSUME PanelInv, Progress
  PROVE  PanelInv' /\ plan' = plan
<1>1. PICK p \in Panels : \E i \in 1..Len(flight[p]) :
        \/ AccountFound(p, i) \/ AccountNotFound(p, i)
        \/ \E r \in Paged : ReadPage(p, i, r)
        \/ ReadFunds(p, i) \/ ReadCommission(p, i) \/ ReadRewards(p, i)
        \/ ReadFails(p, i) \/ (p = "portfolio" /\ ThrowsNoError(i)) \/ Arrives(p, i)
  BY DEF Progress
<1>2. PICK i \in 1..Len(flight[p]) :
        \/ AccountFound(p, i) \/ AccountNotFound(p, i)
        \/ \E r \in Paged : ReadPage(p, i, r)
        \/ ReadFunds(p, i) \/ ReadCommission(p, i) \/ ReadRewards(p, i)
        \/ ReadFails(p, i) \/ (p = "portfolio" /\ ThrowsNoError(i)) \/ Arrives(p, i)
  BY <1>1
<1>3. AccountFound(p, i) \/ AccountNotFound(p, i) => plan' = plan
  BY DEF AccountFound, AccountNotFound
<1>4. ReadFunds(p, i) \/ ReadCommission(p, i) \/ ReadRewards(p, i) => plan' = plan
  BY DEF ReadFunds, ReadCommission, ReadRewards
<1>5. (\E r \in Paged : ReadPage(p, i, r)) => plan' = plan
  BY DEF ReadPage
<1>6. ReadFails(p, i) \/ ThrowsNoError(i) \/ Arrives(p, i) => plan' = plan
  BY DEF ReadFails, ThrowsNoError, Arrives
<1>7. QED
  BY <1>2, <1>3, <1>4, <1>5, <1>6, AccountFoundStep, AccountNotFoundStep, ReadPageStep,
     ReadOneStep, ReadRewardsStep, ReadFailsStep, ArrivesStep

(***************************************************************************)
(* The screen changes, or the wallet                                       *)
(***************************************************************************)

\* A panel after its effect ran or did not.
LEMMA FollowPanel ==
  ASSUME PanelInv, NEW renewed, Follow(renewed), wallet' \in Wallet, place' \in Place,
         place.host # "broken", NEW p \in Panels
  PROVE  /\ IsSeq(flight'[p])
         /\ \A i \in 1..Len(flight'[p]) : Sound(ledger, p, flight'[p][i])
         /\ Len(flight'[p]) > 0 => p \in plan.panels \intersect PanelsAt[place'.host]
         /\ Len(flight'[p]) > 0 /\ About' =>
              flight'[p][Len(flight'[p])].of = Shown(wallet', place')
         /\ panel'[p] \in [is : {"initial", "loading", "loaded", "failed", "invalid"}, by : Nat]
         /\ ShowsEnded(p)'
<1> DEFINE stays == place'.host = place.host
           old == IF stays THEN flight[p] ELSE <<>>
           of == Shown(wallet', place')
           e == IF of = None THEN Spent(None) ELSE NewFlight(p, of, place'.host)
<1>1. /\ IsSeq(flight[p]) /\ Len(flight[p]) \in Nat
      /\ \A i \in 1..Len(flight[p]) : Sound(ledger, p, flight[p][i])
      /\ Len(flight[p]) > 0 => p \in plan.panels \intersect PanelsAt[place.host]
      /\ ShowsEnded(p)
      /\ panel[p] \in [is : {"initial", "loading", "loaded", "failed", "invalid"}, by : Nat]
  BY Lengths DEF PanelInv, Typed, AllSound, Hosted
<1>2. IsSeq(<<>>) /\ Len(<<>>) = 0
  BY DEF IsSeq
<1>3. /\ IsSeq(old) /\ Len(old) \in Nat
      /\ \A i \in 1..Len(old) : Sound(ledger, p, old[i])
      /\ Len(old) > 0 => stays /\ p \in plan.panels \intersect PanelsAt[place'.host]
  BY <1>1, <1>2
<1>4. /\ flight'[p] = FlightsAfter(p, renewed) /\ panel'[p] = PanelAfter(p, renewed)
  BY DEF Follow
<1>5. CASE ~Asks(p, renewed)
  <2>1. /\ flight'[p] = old /\ panel'[p] = IF stays THEN panel[p] ELSE Fresh
    BY <1>4, <1>5 DEF FlightsAfter, PanelAfter
  <2>2. ASSUME Len(old) > 0, About' PROVE old[Len(old)].of = of
    <3>1. stays /\ p \in plan.panels \intersect PanelsAt[place'.host] /\ old = flight[p]
      BY <1>3, <2>2
    <3>2. of = Shown(wallet, place) /\ (of # None \/ place.host = "overview")
      BY <1>5, <2>2, <3>1 DEF Asks, About
    <3>3. QED BY <2>2, <3>1, <3>2 DEF PanelInv, Newest, About
  <2>3. ShowsEnded(p)'
    BY <1>1, <2>1 DEF ShowsEnded, Fresh
  <2>4. panel'[p] \in [is : {"initial", "loading", "loaded", "failed", "invalid"}, by : Nat]
    BY <1>1, <2>1 DEF Fresh
  <2> HIDE DEF old, of
  <2>5. QED BY <1>3, <2>1, <2>2, <2>3, <2>4 DEF of
<1>6. CASE Asks(p, renewed)
  <2>1. /\ flight'[p] = Append(old, e)
        /\ panel'[p] = IF p = "mine" THEN (IF stays THEN panel[p] ELSE Fresh)
                       ELSE IF of # None THEN Loading
                       ELSE [is |-> "failed", by |-> Len(flight'[p])]
    BY <1>4, <1>6 DEF FlightsAfter, PanelAfter
  <2>2. p \in plan.panels \intersect PanelsAt[place'.host]
    BY <1>6 DEF Asks
  <2>3. of \in Addresses \union {None}
    BY ShownType
  <2>4. Sound(ledger, p, e) /\ e.of = of
    BY <2>3, NewSound, SpentSound
  <2>5. old = flight[p] \/ (~stays /\ old = <<>>)
    OBVIOUS
  <2> HIDE DEF old, e
  <2>6. /\ IsSeq(flight'[p]) /\ Len(flight'[p]) = Len(old) + 1
        /\ flight'[p][Len(old) + 1] = e
        /\ \A i \in 1..Len(old) : flight'[p][i] = old[i]
    BY <1>3, <2>1, Appending
  <2>7. \A i \in 1..Len(flight'[p]) : Sound(ledger, p, flight'[p][i])
    <3>1. \A i \in 1..Len(flight'[p]) : i \in 1..Len(old) \/ i = Len(old) + 1
      BY <1>3, <2>6
    <3>2. QED BY <1>3, <2>4, <2>6, <3>1
  <2>8. ShowsEnded(p)'
    <3>1. SUFFICES ASSUME panel'[p].is = "loaded"
                   PROVE  /\ panel'[p].by \in 1..Len(flight'[p])
                          /\ flight'[p][panel'[p].by].stage = "ended"
                          /\ Paired(flight'[p][panel'[p].by])
      BY DEF ShowsEnded
    <3>2. stays /\ panel'[p] = panel[p]
      BY <2>1, <3>1 DEF Fresh, Loading
    <3>3. panel[p].by \in 1..Len(old) /\ old[panel[p].by].stage = "ended"
          /\ Paired(old[panel[p].by])
      BY <1>1, <2>5, <3>1, <3>2 DEF ShowsEnded
    <3>4. QED BY <1>3, <2>6, <3>2, <3>3
  <2>9. panel'[p] \in [is : {"initial", "loading", "loaded", "failed", "invalid"}, by : Nat]
    BY <1>1, <1>3, <2>1, <2>6 DEF Fresh, Loading
  <2>10. QED BY <2>2, <2>4, <2>6, <2>7, <2>8, <2>9
<1>7. QED BY <1>5, <1>6

\* Wherever a link or the wallet leads, the invariant follows.
LEMMA FollowStep ==
  ASSUME PanelInv, NEW renewed, Follow(renewed), wallet' \in Wallet, place' \in Place,
         place.host # "broken", place'.host # "broken"
  PROVE  PanelInv'
<1>1. /\ flight' = [p \in Panels |-> flight'[p]] /\ panel' = [p \in Panels |-> panel'[p]]
      /\ UNCHANGED <<plan, ledger>>
  BY DEF Follow, chain
<1>2. \A p \in PanelsAt[place'.host] : p \in Panels
  BY PanelsOfHost DEF Place
<1>3. ASSUME NEW p \in Panels
      PROVE  /\ IsSeq(flight'[p])
             /\ \A i \in 1..Len(flight'[p]) : Sound(ledger, p, flight'[p][i])
             /\ Len(flight'[p]) > 0 => p \in plan.panels \intersect PanelsAt[place'.host]
             /\ Len(flight'[p]) > 0 /\ About' =>
                  flight'[p][Len(flight'[p])].of = Shown(wallet', place')
             /\ panel'[p] \in [is : {"initial", "loading", "loaded", "failed", "invalid"},
                               by : Nat]
             /\ ShowsEnded(p)'
  BY FollowPanel
<1>4. Typed'
  BY <1>1, <1>3 DEF PanelInv, Typed
<1>5. AllSound'
  BY <1>1, <1>3 DEF AllSound
<1>6. Hosted' /\ Newest' /\ BrokenByStakes'
  BY <1>1, <1>2, <1>3 DEF Hosted, Newest, BrokenByStakes
<1>7. QED BY <1>3, <1>4, <1>5, <1>6 DEF PanelInv

\* Where a link or a changed wallet leads.
LEMMA LandsType ==
  ASSUME NEW w, NEW p \in Place, p.host # "broken"
  PROVE  Lands(w, p) \in Place /\ Lands(w, p).host # "broken"
BY DEF Lands, Invalid, At, Place, Hosts

\* The user goes somewhere.
LEMMA GoToStep ==
  ASSUME PanelInv, NEW p \in Places, GoTo(p)
  PROVE  PanelInv'
<1>1. p \in Place /\ p.host # "broken"
  BY DEF Places, Place, At, PortfolioOf, Hosts
<1>2. /\ place.host # "broken" /\ wallet' = wallet /\ place' = Lands(wallet, p)
      /\ wallet \in Wallet
  BY DEF GoTo, PanelInv, Typed
<1>3. \E renewed : Follow(renewed)
  BY DEF GoTo
<1>4. QED BY <1>1, <1>2, <1>3, LandsType, FollowStep

\* The context value of the wallet changes.
LEMMA WalletChangesStep ==
  ASSUME PanelInv, NEW w \in Wallet, WalletChanges(w)
  PROVE  PanelInv'
<1>1. place.host # "broken" /\ wallet' = w /\ place' = Lands(w, place) /\ place \in Place
  BY DEF WalletChanges, PanelInv, Typed
<1>2. \E renewed : Follow(renewed)
  BY DEF WalletChanges
<1>3. QED BY <1>1, <1>2, LandsType, FollowStep

(***************************************************************************)
(* The chain moves on                                                      *)
(***************************************************************************)

\* Only a's ledger turned into another, and only the delegations of gone went.
Turned(owned, after, a, gone) ==
  /\ \A b \in Addresses \ {a} : after[b] = owned[b]
  /\ Holding(owned[a].stake) \ gone \subseteq Holding(after[a].stake)

\* A fetch stays sound meanwhile.
LEMMA SeenSound ==
  ASSUME NEW owned, NEW after, NEW a \in Addresses, NEW gone,
         Turned(owned, after, a, gone),
         NEW p \in Panels, NEW f, Sound(owned, p, f)
  PROVE  /\ Sound(after, p, Seen(f, a, gone)) /\ Seen(f, a, gone).of = f.of
         /\ f.stage = "ended" => Seen(f, a, gone) = f
<1> DEFINE lost == gone \intersect f.rows # {}
           g == [f EXCEPT !.moved = TRUE, !.undone = @ \/ lost]
<1>1. CASE f.of # a \/ f.stage \notin {"account", "reading"}
  <2>1. Seen(f, a, gone) = f
    BY <1>1 DEF Seen
  <2>2. f.of \in Addresses /\ f.stage \in {"account", "reading"} => after[f.of] = owned[f.of]
    BY <1>1 DEF Turned
  <2>3. Sound(after, p, f)
    BY <2>2 DEF Sound
  <2>4. QED BY <2>1, <2>3
<1>2. CASE f.of = a /\ f.stage \in {"account", "reading"}
  <2>1. Seen(f, a, gone) = g
    BY <1>2 DEF Seen
  <2>2. IsFlight(f) /\ f.undone \in BOOLEAN /\ lost \in BOOLEAN
    BY DEF Sound
  <2>3. lost \/ (f.rows \subseteq Holding(owned[f.of].stake)
                 => f.rows \subseteq Holding(after[f.of].stake))
    BY <1>2 DEF Turned
  <2> HIDE DEF lost
  <2>4. /\ IsFlight(g) /\ g.stage = f.stage /\ g.of = f.of /\ g.left = f.left
        /\ g.rows = f.rows /\ g.pair = f.pair /\ g.undone = (f.undone \/ lost)
    BY <2>2 DEF IsFlight, Fields
  <2> HIDE DEF g
  <2>5. g.undone \in BOOLEAN /\ (g.undone <=> f.undone \/ lost)
    BY <2>2, <2>4
  <2>6. Sound(after, p, g)
    BY <1>2, <2>1, <2>3, <2>4, <2>5 DEF Sound
  <2>7. QED BY <1>2, <2>1, <2>4, <2>6
<1>3. QED BY <1>1, <1>2

\* The ledger of one address changes.
LEMMA MovesStep ==
  ASSUME PanelInv, NEW a \in Addresses, NEW l \in Ledger, NEW gone,
         Holding(ledger[a].stake) \ gone \subseteq Holding(l.stake), Moves(a, l, gone)
  PROVE  PanelInv'
<1>1. /\ ledger' = [ledger EXCEPT ![a] = l]
      /\ flight' = [p \in Panels |-> flight'[p]]
      /\ \A p \in Panels :
           flight'[p] = [i \in 1..Len(flight[p]) |-> Seen(flight[p][i], a, gone)]
      /\ UNCHANGED <<panel, plan, wallet, place>>
  BY DEF Moves, Stays
<1>2. ledger \in [Addresses -> Ledger] /\ ledger' \in [Addresses -> Ledger]
  BY <1>1 DEF PanelInv, Typed
<1>3. ASSUME NEW p \in Panels
      PROVE  /\ IsSeq(flight'[p]) /\ Len(flight'[p]) = Len(flight[p])
             /\ \A i \in 1..Len(flight[p]) : flight'[p][i] = Seen(flight[p][i], a, gone)
  <2> DEFINE s == flight[p]  t == flight'[p]
  <2>1. Len(s) \in Nat
    BY Lengths DEF PanelInv, Typed
  <2>2. t = [i \in 1..Len(s) |-> t[i]] /\ \A i \in 1..Len(s) : t[i] = Seen(s[i], a, gone)
    BY <1>1
  <2> HIDE DEF s, t
  <2>3. IsSeq(t) /\ Len(t) = Len(s)
    BY <2>1, <2>2, Mapping
  <2>4. QED BY <2>2, <2>3 DEF s, t
<1>4. ASSUME NEW p \in Panels, NEW i \in 1..Len(flight[p])
      PROVE  /\ Sound(ledger', p, flight'[p][i]) /\ flight'[p][i].of = flight[p][i].of
             /\ flight[p][i].stage = "ended" => flight'[p][i] = flight[p][i]
  <2> DEFINE f == flight[p][i]  after == ledger'
  <2>1. Sound(ledger, p, f) /\ flight'[p][i] = Seen(f, a, gone)
    BY <1>3 DEF PanelInv, AllSound
  <2>2. Turned(ledger, after, a, gone)
    BY <1>1, <1>2 DEF Turned
  <2> HIDE DEF f, after
  <2>3. /\ Sound(after, p, Seen(f, a, gone)) /\ Seen(f, a, gone).of = f.of
        /\ f.stage = "ended" => Seen(f, a, gone) = f
    BY <2>1, <2>2, SeenSound
  <2>4. QED BY <2>1, <2>3 DEF f, after
<1>5. Typed'
  BY <1>1, <1>2, <1>3 DEF PanelInv, Typed
<1>6. AllSound'
  BY <1>3, <1>4 DEF AllSound
<1>7. Hosted' /\ Newest'
  BY <1>1, <1>3, <1>4, Staying
<1>8. \A p \in Panels : ShowsEnded(p)'
  BY <1>1, <1>3, <1>4 DEF PanelInv, ShowsEnded
<1>9. BrokenByStakes'
  <2>1. "stakes" \in Panels
    BY DEF Panels
  <2>2. QED BY <1>1, <1>3, <1>4, <2>1 DEF PanelInv, BrokenByStakes, ShowsEnded
<1>10. QED BY <1>5, <1>6, <1>7, <1>8, <1>9 DEF PanelInv

Owns == {"funds", "stake", "unbonding", "rewards"}

\* The parts of a ledger.
LEMMA LedgerParts ==
  ASSUME NEW l
  PROVE  l \in Ledger <=>
           /\ l = [x \in Owns |-> l[x]]
           /\ l.funds \in Nat /\ l.stake \in Amounts /\ l.unbonding \in Amounts
           /\ l.rewards \in Amounts
BY DEF Ledger, Owns

\* A change of the chain takes no delegation away but the one undelegated.
LEMMA ChangesStep ==
  ASSUME PanelInv, NEW a \in Known, NEW v \in Validators,
         Delegate(a, v) \/ Undelegate(a, v) \/ Accrue(a, v) \/ Mature(a, v)
  PROVE  PanelInv'
<1> DEFINE l == ledger[a]
<1>1. a \in Addresses /\ l \in Ledger
  BY KnownType DEF PanelInv, Typed
<1>2. /\ l = [x \in Owns |-> l[x]]
      /\ l.funds \in Nat /\ l.stake \in [Validators -> Nat]
      /\ l.unbonding \in [Validators -> Nat] /\ l.rewards \in [Validators -> Nat]
      /\ l.stake[v] \in Nat /\ l.unbonding[v] \in Nat /\ l.rewards[v] \in Nat
  BY <1>1, LedgerParts DEF Amounts
<1>3. \E m, gone : m \in Ledger /\ Holding(l.stake) \ gone \subseteq Holding(m.stake)
                   /\ Moves(a, m, gone)
  <2>1. CASE Delegate(a, v)
    <3> DEFINE m == [l EXCEPT !.funds = @ - 1 + l.rewards[v], !.stake[v] = @ + 1,
                              !.rewards[v] = 0]
    <3>1. l.funds > 0 /\ Moves(a, m, {})
      BY <2>1 DEF Delegate
    <3> HIDE DEF l
    <3>2. /\ m.funds = l.funds - 1 + l.rewards[v] /\ m.stake = [l.stake EXCEPT ![v] = @ + 1]
          /\ m.unbonding = l.unbonding /\ m.rewards = [l.rewards EXCEPT ![v] = 0]
          /\ m = [x \in Owns |-> m[x]]
      BY <1>2 DEF Owns
    <3> HIDE DEF m
    <3>3. m.funds \in Nat
      BY <1>2, <3>1, <3>2
    <3>4. m.stake \in Amounts /\ m.unbonding \in Amounts /\ m.rewards \in Amounts
      BY <1>2, <3>2 DEF Amounts
    <3>5. m \in Ledger
      BY <3>2, <3>3, <3>4, LedgerParts
    <3>6. Holding(l.stake) \ {} \subseteq Holding(m.stake)
      BY <1>2, <3>2 DEF Holding
    <3>7. QED BY <3>1, <3>5, <3>6
  <2>2. CASE Undelegate(a, v)
    <3> DEFINE m == [l EXCEPT !.funds = @ + l.rewards[v], !.rewards[v] = 0, !.stake[v] = 0,
                              !.unbonding[v] = @ + l.stake[v]]
    <3>1. Moves(a, m, {v})
      BY <2>2 DEF Undelegate
    <3> HIDE DEF l
    <3>2. /\ m.funds = l.funds + l.rewards[v] /\ m.stake = [l.stake EXCEPT ![v] = 0]
          /\ m.unbonding = [l.unbonding EXCEPT ![v] = @ + l.stake[v]]
          /\ m.rewards = [l.rewards EXCEPT ![v] = 0]
          /\ m = [x \in Owns |-> m[x]]
      BY <1>2 DEF Owns
    <3> HIDE DEF m
    <3>3. m.funds \in Nat
      BY <1>2, <3>2
    <3>4. m.stake \in Amounts /\ m.unbonding \in Amounts /\ m.rewards \in Amounts
      BY <1>2, <3>2 DEF Amounts
    <3>5. m \in Ledger
      BY <3>2, <3>3, <3>4, LedgerParts
    <3>6. Holding(l.stake) \ {v} \subseteq Holding(m.stake)
      BY <1>2, <3>2 DEF Holding
    <3>7. QED BY <3>1, <3>5, <3>6
  <2>3. CASE Accrue(a, v)
    <3> DEFINE m == [l EXCEPT !.rewards[v] = @ + 1]
    <3>1. Moves(a, m, {})
      BY <2>3 DEF Accrue
    <3> HIDE DEF l
    <3>2. /\ m.funds \in Nat /\ m.stake = l.stake /\ m.unbonding \in Amounts
          /\ m.rewards \in Amounts /\ m = [x \in Owns |-> m[x]]
      BY <1>2 DEF Owns, Amounts
    <3> HIDE DEF m
    <3>3. m \in Ledger
      BY <1>2, <3>2, LedgerParts DEF Amounts
    <3>4. QED BY <3>1, <3>2, <3>3
  <2>4. CASE Mature(a, v)
    <3> DEFINE m == [l EXCEPT !.funds = @ + l.unbonding[v], !.unbonding[v] = 0]
    <3>1. Moves(a, m, {})
      BY <2>4 DEF Mature
    <3> HIDE DEF l
    <3>2. /\ m.funds = l.funds + l.unbonding[v] /\ m.unbonding = [l.unbonding EXCEPT ![v] = 0]
          /\ m.stake = l.stake /\ m.rewards = l.rewards /\ m = [x \in Owns |-> m[x]]
      BY <1>2 DEF Owns
    <3> HIDE DEF m
    <3>3. m.funds \in Nat /\ m.unbonding \in Amounts
      BY <1>2, <3>2 DEF Amounts
    <3>4. m \in Ledger
      BY <1>2, <3>2, <3>3, LedgerParts DEF Amounts
    <3>5. QED BY <3>1, <3>2, <3>4
  <2>5. QED BY <2>1, <2>2, <2>3, <2>4
<1>4. PICK m, gone : m \in Ledger /\ Holding(l.stake) \ gone \subseteq Holding(m.stake)
                     /\ Moves(a, m, gone)
  BY <1>3
<1>5. QED BY <1>1, <1>4, MovesStep

(***************************************************************************)
(* What the fetches add up to                                              *)
(***************************************************************************)

\* The whole of a ledger is a number.
LEMMA WealthType ==
  ASSUME NEW l \in Ledger
  PROVE  /\ Wealth(l) \in Nat /\ l.funds \in Nat
         /\ l.stake \in Amounts /\ l.unbonding \in Amounts /\ l.rewards \in Amounts
         /\ Total(l.stake, Validators) \in Nat /\ Total(l.unbonding, Validators) \in Nat
         /\ Total(l.rewards, Validators) \in Nat
<1>1. /\ l.funds \in Nat /\ l.stake \in Amounts /\ l.unbonding \in Amounts
      /\ l.rewards \in Amounts
  BY DEF Ledger
<1>2. \A a \in Amounts : Total(a, Validators) \in Nat
  BY TotalIs
<1> QED BY <1>1, <1>2 DEF Wealth

\* A fetch that has nothing left to read has read all.
LEMMA AllBrought ==
  ASSUME NEW l, NEW f, f.left = {}
  PROVE  Brought(l, f) = Wealth(l)
BY DEF Brought, PartOf, Wealth

\* A fetch that has all to read has read nothing.
LEMMA NothingBrought ==
  ASSUME NEW l \in Ledger, NEW f, f.left = Reads, f.key = [r \in Paged |-> 0]
  PROVE  Brought(l, f) = 0
<1>1. ASSUME NEW a \in Amounts, NEW r \in Paged
      PROVE  PartOf(a, r, f) = 0
  <2>1. {v \in Holding(a) : v < f.key[r]} = {}
    <3>1. f.key[r] = 0 /\ \A v \in Holding(a) : v \in Nat
      BY ValidatorsType DEF Holding
    <3>2. \A v \in Holding(a) : ~(v < f.key[r])
      BY <3>1
    <3> QED BY <3>2
  <2>2. r \in f.left
    BY DEF Reads, Paged
  <2>3. Total(a, {}) = 0
    BY TotalIs
  <2> QED BY <2>1, <2>2, <2>3 DEF PartOf
<1>2. "funds" \in f.left /\ "rewards" \in f.left /\ "stake" \in Paged /\ "unbonding" \in Paged
  BY DEF Reads, Paged
<1> QED BY <1>1, <1>2, WealthType DEF Brought

\* Coming to another stage changes no amount.
LEMMA StagedFilled ==
  ASSUME NEW f, IsFlight(f), Filled(f), NEW stage
  PROVE  LET g == [f EXCEPT !.stage = stage]
         IN /\ Filled(g) /\ g.stage = stage /\ g.of = f.of /\ g.left = f.left
            /\ g.key = f.key /\ g.sum = f.sum /\ g.wealth = f.wealth /\ g.moved = f.moved
BY DEF IsFlight, Fields, Filled

\* The reads left of a balance after one, which was the last of its kind or not.
LeftAfter(f, r, last) == IF last THEN f.left \ {r} ELSE f.left

\* Nor does an answer by itself.
LEMMA AnsweredFilled ==
  ASSUME NEW p, NEW f, IsFlight(f), Filled(f), NEW r, NEW last
  PROVE  LET a == Answered(p, f, r, last)
         IN /\ IsFlight(a) /\ Filled(a)
            /\ a.of = f.of /\ a.key = f.key /\ a.sum = f.sum /\ a.pair = f.pair
            /\ a.wealth = f.wealth /\ a.moved = f.moved
            /\ a.stage = IF a.left = {} THEN "answered" ELSE "reading"
            /\ p = "portfolio" => a.left = LeftAfter(f, r, last)
<1> DEFINE left == IF ~last THEN f.left
                   ELSE IF p = "stakes" /\ r = "stake" THEN {"rewards"} ELSE f.left \ {r}
           stage == IF left = {} THEN "answered" ELSE "reading"
           g == [f EXCEPT !.left = left, !.stage = stage]
<1>1. Answered(p, f, r, last) = g
  BY DEF Answered
<1>2. left \subseteq Reads
  BY DEF Filled, Reads
<1>3. p = "portfolio" => left = LeftAfter(f, r, last)
  BY DEF LeftAfter
<1>4. stage = IF left = {} THEN "answered" ELSE "reading"
  OBVIOUS
<1> HIDE DEF left, stage
<1>5. /\ IsFlight(g) /\ g.left = left /\ g.stage = stage
      /\ g.of = f.of /\ g.key = f.key /\ g.sum = f.sum /\ g.pair = f.pair
      /\ g.wealth = f.wealth /\ g.moved = f.moved
  BY DEF IsFlight, Fields
<1> HIDE DEF g
<1>6. Filled(g)
  BY <1>2, <1>5 DEF Filled
<1> QED BY <1>1, <1>3, <1>4, <1>5, <1>6

\* A read that adds what it brings keeps the sum.
LEMMA AddsFull ==
  ASSUME NEW owned, NEW p, NEW f, Full(owned, p, f), f.stage = "reading",
         NEW g, Filled(g), g.of = f.of, g.wealth = f.wealth, g.moved = f.moved,
         g.stage = IF g.left = {} THEN "answered" ELSE "reading",
         p = "portfolio" /\ ~f.moved =>
           g.sum - f.sum = Brought(owned[f.of], g) - Brought(owned[f.of], f),
         p = "portfolio" => Brought(owned[f.of], f) \in Nat /\ Brought(owned[f.of], g) \in Nat
  PROVE  Full(owned, p, g)
<1> SUFFICES ASSUME p = "portfolio", ~f.moved PROVE Summed(owned, g)
  BY DEF Full, Summed
<1>1. f.wealth = Wealth(owned[f.of]) /\ f.sum = Brought(owned[f.of], f)
  BY DEF Full, Summed
<1>2. g.sum = Brought(owned[g.of], g)
  BY <1>1 DEF Filled, Full
<1>3. g.left = {} => Brought(owned[g.of], g) = Wealth(owned[g.of])
  BY AllBrought
<1> QED BY <1>1, <1>2, <1>3 DEF Summed

\* What was read so far is a number.
LEMMA BroughtType ==
  ASSUME NEW l \in Ledger, NEW f, Filled(f)
  PROVE  /\ Brought(l, f) \in Nat
         /\ \A r \in Paged : \A a \in Amounts : PartOf(a, r, f) \in Nat
<1>1. ASSUME NEW r \in Paged, NEW a \in Amounts
      PROVE  PartOf(a, r, f) \in Nat
  <2> DEFINE t == IF r \in f.left THEN {v \in Holding(a) : v < f.key[r]} ELSE Validators
  <2>1. t \in SUBSET Validators
    BY DEF Holding
  <2> HIDE DEF t
  <2>2. Total(a, t) \in Nat
    BY <2>1, TotalIs
  <2> QED BY <2>2 DEF PartOf, t
<1>2. "stake" \in Paged /\ "unbonding" \in Paged
  BY DEF Paged
<1> QED BY <1>1, <1>2, WealthType DEF Brought

\* A fetch that is under way becomes g.
LEMMA ReplacedSum ==
  ASSUME PanelInv, SumInv, NEW p \in Panels, NEW i \in 1..Len(flight[p]),
         flight[p][i].stage \in {"account", "reading"},
         NEW g, Full(ledger, p, g), Becomes(p, i, g),
         UNCHANGED <<panel, plan, ledger, events>>
  PROVE  SumInv'
<1>1. /\ flight'[p] = [flight[p] EXCEPT ![i] = g]
      /\ \A q \in Panels : q # p => flight'[q] = flight[q]
  BY DEF Becomes, PanelInv, Typed
<1>2. /\ Len(flight'[p]) = Len(flight[p]) /\ flight'[p][i] = g
      /\ \A j \in 1..Len(flight[p]) : j # i => flight'[p][j] = flight[p][j]
  <2> DEFINE s == flight[p]  t == [s EXCEPT ![i] = g]
  <2>1. IsSeq(s) /\ i \in 1..Len(s)
    BY DEF PanelInv, Typed
  <2> HIDE DEF s
  <2>2. /\ Len(t) = Len(s) /\ t[i] = g
        /\ \A j \in 1..Len(s) : j # i => t[j] = s[j]
    BY <2>1, Replacing
  <2>3. QED BY <1>1, <2>2 DEF s
<1>3. AllFull'
  BY <1>1, <1>2 DEF SumInv, AllFull
<1>4. TotalIsWealth'
  <2>1. "portfolio" \in Panels
    BY DEF Panels
  <2>2. panel["portfolio"].is = "loaded" =>
          flight'["portfolio"][panel["portfolio"].by] = flight["portfolio"][panel["portfolio"].by]
    BY <1>1, <1>2, <2>1 DEF PanelInv, ShowsEnded
  <2> QED BY <2>2 DEF SumInv, TotalIsWealth
<1>5. \A q \in Panels : panel'[q].by \in 0..Len(flight'[q])
  BY <1>1, <1>2 DEF SumInv
<1> QED BY <1>3, <1>4, <1>5 DEF SumInv

\* A known account goes on to be read.
LEMMA AccountFoundSum ==
  ASSUME PanelInv, SumInv, NEW p \in Panels, NEW i \in 1..Len(flight[p]), AccountFound(p, i)
  PROVE  SumInv'
<1> DEFINE f == flight[p][i]  g == [f EXCEPT !.stage = "reading"]
<1>1. Sound(ledger, p, f) /\ Full(ledger, p, f) /\ f.stage = "account"
  BY DEF PanelInv, AllSound, SumInv, AllFull, AccountFound, In
<1>2. Becomes(p, i, g) /\ UNCHANGED <<panel, plan, ledger, events>>
  BY DEF AccountFound, chain
<1>3. IsFlight(f) /\ Filled(f)
  BY <1>1 DEF Sound, Full
<1> HIDE DEF f
<1>4. /\ Filled(g) /\ g.stage = "reading" /\ g.of = f.of /\ g.left = f.left
      /\ g.key = f.key /\ g.sum = f.sum /\ g.wealth = f.wealth /\ g.moved = f.moved
  BY <1>3, StagedFilled
<1> HIDE DEF g
<1>5. \A l : Brought(l, g) = Brought(l, f)
  BY <1>4 DEF Brought, PartOf
<1>6. Full(ledger, p, g)
  BY <1>1, <1>4, <1>5 DEF Full, Summed
<1> QED BY <1>1, <1>2, <1>6, ReplacedSum DEF f

\* A page adds its amounts.
LEMMA ReadPageSum ==
  ASSUME PanelInv, SumInv, NEW p \in Panels, NEW i \in 1..Len(flight[p]), NEW r \in Paged,
         ReadPage(p, i, r)
  PROVE  SumInv'
<1> DEFINE f == flight[p][i]
           amounts == ledger[f.of][r]
           page == Page(Holding(amounts), f.key[r])
           next == NextKey(Holding(amounts), f.key[r])
           last == next = 0
           a == Answered(p, f, r, last)
           sum == IF p = "portfolio" THEN a.sum + Total(amounts, page) ELSE a.sum
           rows == IF p = "stakes" THEN a.rows \union page ELSE a.rows
           g == [a EXCEPT !.key[r] = next, !.sum = sum, !.rows = rows]
<1>1. /\ Sound(ledger, p, f) /\ Full(ledger, p, f) /\ f.stage = "reading" /\ r \in f.left
      /\ ledger[f.of] \in Ledger
  BY DEF PanelInv, AllSound, Sound, Typed, SumInv, AllFull, ReadPage, In
<1>2. Becomes(p, i, g) /\ UNCHANGED <<panel, plan, ledger, events>>
  BY DEF ReadPage, chain
<1>3. IsFlight(f) /\ Filled(f) /\ f.key[r] \in Nat /\ f.sum \in Nat /\ amounts \in Amounts
  BY <1>1, WealthType DEF Sound, Full, Filled, Paged
<1> DEFINE below == Total(amounts, {v \in Holding(amounts) : v < f.key[r]})
           after == Total(amounts, IF last THEN Validators
                                   ELSE {v \in Holding(amounts) : v < next})
<1>4. /\ next \in Nat /\ below \in Nat /\ Total(amounts, page) \in Nat
      /\ below + Total(amounts, page) = after
  <2> DEFINE key == f.key[r]
  <2> HIDE DEF amounts, key
  <2> QED BY <1>3, PageAdds DEF key
<1>5. PartOf(amounts, r, f) = below
  BY <1>1 DEF PartOf
<1> DEFINE l == ledger[f.of]
<1>6. l \in Ledger /\ amounts = l[r]
  BY <1>1
<1> HIDE DEF f, page, below, amounts, l
<1>7. /\ IsFlight(a) /\ Filled(a)
      /\ a.of = f.of /\ a.key = f.key /\ a.sum = f.sum /\ a.wealth = f.wealth
      /\ a.moved = f.moved /\ a.stage = IF a.left = {} THEN "answered" ELSE "reading"
      /\ p = "portfolio" => a.left = LeftAfter(f, r, last)
  <2> HIDE DEF last
  <2>1. LET b == Answered(p, f, r, last)
        IN /\ IsFlight(b) /\ Filled(b)
           /\ b.of = f.of /\ b.key = f.key /\ b.sum = f.sum /\ b.pair = f.pair
           /\ b.wealth = f.wealth /\ b.moved = f.moved
           /\ b.stage = IF b.left = {} THEN "answered" ELSE "reading"
           /\ p = "portfolio" => b.left = LeftAfter(f, r, last)
    BY <1>3, AnsweredFilled
  <2> QED BY <2>1
<1> HIDE DEF a
<1>8. sum \in Nat
  BY <1>3, <1>4, <1>7
<1> HIDE DEF sum, rows
<1>9. /\ g.of = a.of /\ g.stage = a.stage /\ g.left = a.left /\ g.pair = a.pair
      /\ g.key = [a.key EXCEPT ![r] = next] /\ g.sum = sum /\ g.wealth = a.wealth
      /\ g.moved = a.moved
  <2> HIDE DEF next
  <2> QED BY <1>7 DEF IsFlight, Fields
<1> HIDE DEF g
<1>10. Filled(g)
  <2>1. g.key \in [Paged -> Nat]
    BY <1>4, <1>7, <1>9 DEF Filled
  <2> QED BY <1>7, <1>8, <1>9, <2>1 DEF Filled
<1>11. ASSUME p = "portfolio"
       PROVE  Brought(l, g) = Brought(l, f) + Total(amounts, page)
  <2>1. /\ g.left = IF last THEN f.left \ {r} ELSE f.left
        /\ g.key[r] = next /\ \A k \in Paged : k # r => g.key[k] = f.key[k]
    BY <1>3, <1>7, <1>9, <1>11 DEF Filled, LeftAfter
  <2>2. PartOf(amounts, r, g) = after
    BY <1>1, <2>1 DEF PartOf
  <2>3. \A k \in Paged : k # r => PartOf(l[k], k, g) = PartOf(l[k], k, f)
    BY <2>1 DEF PartOf
  <2>4. /\ "funds" \in g.left <=> "funds" \in f.left
        /\ "rewards" \in g.left <=> "rewards" \in f.left
    BY <2>1 DEF Paged
  <2> DEFINE Part(k, h) == PartOf(l[k], k, h)
             rest == (IF "rewards" \in f.left THEN 0 ELSE Total(l.rewards, Validators))
             funds == (IF "funds" \in f.left THEN 0 ELSE l.funds)
  <2>5. /\ Brought(l, g) = funds + Part("stake", g) + Part("unbonding", g) + rest
        /\ Brought(l, f) = funds + Part("stake", f) + Part("unbonding", f) + rest
    BY <2>4 DEF Brought
  <2>6. Part(r, g) = Part(r, f) + Total(amounts, page)
    BY <1>4, <1>5, <1>6, <2>2
  <2>7. \A k \in Paged : k # r => Part(k, g) = Part(k, f)
    BY <2>3
  <2>8. /\ \A k \in Paged : Part(k, f) \in Nat /\ Part(k, g) \in Nat
        /\ rest \in Nat /\ funds \in Nat
    <3>1. \A k \in Paged : l[k] \in Amounts
      BY <1>6, WealthType DEF Paged
    <3> QED BY <1>3, <1>6, <1>10, <3>1, BroughtType, WealthType
  <2> HIDE DEF Part, rest, funds
  <2>9. CASE r = "stake"
    <3>1. Part("unbonding", g) = Part("unbonding", f)
      BY <2>7, <2>9 DEF Paged
    <3> QED BY <1>4, <2>5, <2>6, <2>8, <2>9, <3>1 DEF Paged
  <2>10. CASE r = "unbonding"
    <3>1. Part("stake", g) = Part("stake", f)
      BY <2>7, <2>10 DEF Paged
    <3> QED BY <1>4, <2>5, <2>6, <2>8, <2>10, <3>1 DEF Paged
  <2> QED BY <2>9, <2>10 DEF Paged
<1>12. Full(ledger, p, g)
  <2>1. Brought(l, f) \in Nat /\ Brought(l, g) \in Nat
    BY <1>3, <1>6, <1>10, BroughtType
  <2>2. p = "portfolio" => g.sum - f.sum = Brought(l, g) - Brought(l, f)
    BY <1>3, <1>4, <1>7, <1>9, <1>11, <2>1 DEF sum
  <2>3. /\ g.of = f.of /\ g.wealth = f.wealth /\ g.moved = f.moved
        /\ g.stage = IF g.left = {} THEN "answered" ELSE "reading"
    BY <1>7, <1>9
  <2> QED BY <1>1, <1>10, <2>1, <2>2, <2>3, AddsFull DEF l
<1> QED BY <1>1, <1>2, <1>12, ReplacedSum DEF f

\* What a read that is not paged brings.
Worth(l, r) ==
  IF r = "funds" THEN l.funds ELSE IF r = "rewards" THEN Total(l.rewards, Validators) ELSE 0

\* It brings the sum of the fetch to what it should be.
LEMMA WorthAdds ==
  ASSUME NEW l \in Ledger, NEW f, NEW g, Filled(f), Filled(g), NEW r \in Reads \ Paged,
         r \in f.left, g.left = f.left \ {r}, g.key = f.key
  PROVE  Brought(l, g) = Brought(l, f) + Worth(l, r)
<1>1. r = "funds" \/ r = "rewards" \/ r = "commission"
  BY DEF Reads, Paged
<1>2. \A k \in Paged : k \in g.left <=> k \in f.left
  BY <1>1 DEF Paged
<1>3. /\ PartOf(l.stake, "stake", g) = PartOf(l.stake, "stake", f)
      /\ PartOf(l.unbonding, "unbonding", g) = PartOf(l.unbonding, "unbonding", f)
  BY <1>2 DEF PartOf, Paged
<1>4. /\ PartOf(l.stake, "stake", f) \in Nat /\ PartOf(l.unbonding, "unbonding", f) \in Nat
      /\ l.funds \in Nat /\ Total(l.rewards, Validators) \in Nat
  BY BroughtType, WealthType DEF Paged
<1> DEFINE stake == PartOf(l.stake, "stake", f)  unbonding == PartOf(l.unbonding, "unbonding", f)
           rewards == Total(l.rewards, Validators)
<1>5. /\ Brought(l, f) = (IF "funds" \in f.left THEN 0 ELSE l.funds) + stake + unbonding
                           + (IF "rewards" \in f.left THEN 0 ELSE rewards)
      /\ Brought(l, g) = (IF "funds" \in g.left THEN 0 ELSE l.funds) + stake + unbonding
                           + (IF "rewards" \in g.left THEN 0 ELSE rewards)
  BY <1>3 DEF Brought
<1> HIDE DEF stake, unbonding
<1>6. stake \in Nat /\ unbonding \in Nat /\ rewards \in Nat /\ l.funds \in Nat
  BY <1>4 DEF stake, unbonding
<1> HIDE DEF rewards
<1>7. CASE r = "funds"
  BY <1>5, <1>6, <1>7 DEF Worth
<1>8. CASE r = "rewards"
  BY <1>5, <1>6, <1>8 DEF Worth, rewards
<1>9. CASE r = "commission"
  BY <1>5, <1>6, <1>9 DEF Worth
<1> QED BY <1>1, <1>7, <1>8, <1>9

\* A read that is not paged adds what it is worth.
LEMMA WorthFull ==
  ASSUME NEW owned, NEW p, NEW f, Full(owned, p, f), f.stage = "reading",
         owned[f.of] \in Ledger, NEW r \in Reads \ Paged, r \in f.left,
         NEW g, Filled(g), g.of = f.of, g.wealth = f.wealth, g.moved = f.moved,
         g.stage = IF g.left = {} THEN "answered" ELSE "reading",
         p = "portfolio" =>
           g.left = f.left \ {r} /\ g.key = f.key /\ g.sum = f.sum + Worth(owned[f.of], r)
  PROVE  Full(owned, p, g)
<1> DEFINE l == owned[f.of]
<1>1. Filled(f) /\ Brought(l, f) \in Nat /\ Brought(l, g) \in Nat /\ f.sum \in Nat /\ g.sum \in Nat
  BY BroughtType DEF Full, Filled
<1>2. p = "portfolio" => Brought(l, g) = Brought(l, f) + Worth(l, r)
  BY <1>1, WorthAdds
<1>3. Worth(l, r) \in Nat
  BY WealthType DEF Worth
<1>4. p = "portfolio" => g.sum - f.sum = Brought(l, g) - Brought(l, f)
  BY <1>1, <1>2, <1>3
<1> QED BY <1>1, <1>4, AddsFull

\* The funds are added, and nothing for the commission.
LEMMA ReadOneSum ==
  ASSUME PanelInv, SumInv, NEW p \in Panels, NEW i \in 1..Len(flight[p]),
         ReadFunds(p, i) \/ ReadCommission(p, i)
  PROVE  SumInv'
<1> DEFINE f == flight[p][i]  l == ledger[f.of]  last == TRUE
<1>1. /\ Sound(ledger, p, f) /\ Full(ledger, p, f) /\ f.stage = "reading"
      /\ l \in Ledger /\ UNCHANGED <<panel, plan, ledger, events>>
  BY DEF PanelInv, AllSound, Sound, Typed, SumInv, AllFull, ReadFunds, ReadCommission, In, chain
<1>2. IsFlight(f) /\ Filled(f) /\ f.sum \in Nat /\ l.funds \in Nat
  BY <1>1, WealthType DEF Sound, Full, Filled
<1>3. "funds" \in Reads \ Paged /\ "commission" \in Reads \ Paged
  BY DEF Reads, Paged
<1>4. \A r : LeftAfter(f, r, last) = f.left \ {r}
  BY DEF LeftAfter
<1>5. \E g : Full(ledger, p, g) /\ Becomes(p, i, g)
  <2>1. CASE ReadFunds(p, i)
    <3> DEFINE a == Answered(p, f, "funds", last)
               sum == a.sum + l.funds
               g == [a EXCEPT !.sum = sum]
    <3>1. Becomes(p, i, g) /\ "funds" \in f.left
      BY <2>1 DEF ReadFunds
    <3> HIDE DEF f, l, last
    <3>2. /\ IsFlight(a) /\ Filled(a)
          /\ a.of = f.of /\ a.key = f.key /\ a.sum = f.sum
          /\ a.wealth = f.wealth /\ a.moved = f.moved
          /\ a.stage = IF a.left = {} THEN "answered" ELSE "reading"
          /\ p = "portfolio" => a.left = LeftAfter(f, "funds", last)
      BY <1>2, AnsweredFilled
    <3> HIDE DEF a, sum
    <3>3. /\ g.of = a.of /\ g.stage = a.stage /\ g.left = a.left /\ g.pair = a.pair
          /\ g.key = a.key /\ g.sum = sum /\ g.wealth = a.wealth /\ g.moved = a.moved
      BY <3>2 DEF IsFlight, Fields
    <3> HIDE DEF g
    <3>4. sum \in Nat /\ sum = f.sum + Worth(l, "funds")
      BY <1>2, <3>2 DEF sum, Worth
    <3>5. Filled(g)
      BY <3>2, <3>3, <3>4 DEF Filled
    <3>6. /\ p = "portfolio" => g.left = f.left \ {"funds"} /\ g.key = f.key
                               /\ g.sum = f.sum + Worth(l, "funds")
          /\ g.stage = IF g.left = {} THEN "answered" ELSE "reading"
          /\ g.of = f.of /\ g.wealth = f.wealth /\ g.moved = f.moved
      BY <1>4, <3>2, <3>3, <3>4
    <3>7. Full(ledger, p, g)
      BY <1>1, <1>3, <3>1, <3>5, <3>6, WorthFull DEF l
    <3> QED BY <3>1, <3>7
  <2>2. CASE ReadCommission(p, i)
    <3> DEFINE a == Answered(p, f, "commission", last)
    <3>1. Becomes(p, i, a) /\ "commission" \in f.left
      BY <2>2 DEF ReadCommission
    <3> HIDE DEF f, l, last
    <3>2. /\ Filled(a)
          /\ a.of = f.of /\ a.key = f.key /\ a.sum = f.sum
          /\ a.wealth = f.wealth /\ a.moved = f.moved
          /\ a.stage = IF a.left = {} THEN "answered" ELSE "reading"
          /\ p = "portfolio" => a.left = LeftAfter(f, "commission", last)
      BY <1>2, AnsweredFilled
    <3> HIDE DEF a
    <3>3. Worth(l, "commission") = 0
      BY DEF Worth
    <3>4. p = "portfolio" => a.left = f.left \ {"commission"} /\ a.key = f.key
                             /\ a.sum = f.sum + Worth(l, "commission")
      BY <1>2, <1>4, <3>2, <3>3
    <3>5. Full(ledger, p, a)
      BY <1>1, <1>3, <3>1, <3>2, <3>4, WorthFull DEF l
    <3> QED BY <3>1, <3>5
  <2> QED BY <2>1, <2>2
<1> QED BY <1>1, <1>5, ReplacedSum

\* A pair is a validator or nothing.
LEMMA PairsType ==
  ASSUME NEW rows, NEW rewarded \in SUBSET Validators
  PROVE  PairedRewards(rows, rewarded) \in [Validators -> Validators \union {None}]
<1>1. ASSUME NEW v \in Validators,
             \E w \in rewarded : Rank(w, rewarded) = Rank(v, rows)
      PROVE  (CHOOSE w \in rewarded : Rank(w, rewarded) = Rank(v, rows)) \in Validators
  BY <1>1
<1> QED BY <1>1 DEF PairedRewards

\* The rewards are added.
LEMMA ReadRewardsSum ==
  ASSUME PanelInv, SumInv, NEW p \in Panels, NEW i \in 1..Len(flight[p]), ReadRewards(p, i)
  PROVE  SumInv'
<1> DEFINE f == flight[p][i]
           l == ledger[f.of]
           last == TRUE
           a == Answered(p, f, "rewards", last)
           sum == IF p = "portfolio" THEN a.sum + Total(l.rewards, Validators) ELSE a.sum
           pair == IF p = "stakes" THEN PairedRewards(f.rows, Rewarded(l, f.rows)) ELSE a.pair
           g == [a EXCEPT !.sum = sum, !.pair = pair]
<1>1. /\ Sound(ledger, p, f) /\ Full(ledger, p, f) /\ f.stage = "reading" /\ "rewards" \in f.left
      /\ l \in Ledger /\ UNCHANGED <<panel, plan, ledger, events>> /\ Becomes(p, i, g)
  BY DEF PanelInv, AllSound, Sound, Typed, SumInv, AllFull, ReadRewards, In, chain
<1>2. IsFlight(f) /\ Filled(f) /\ f.sum \in Nat /\ Total(l.rewards, Validators) \in Nat
  BY <1>1, WealthType DEF Sound, Full, Filled
<1>3. "rewards" \in Reads \ Paged
  BY DEF Reads, Paged
<1>4. LeftAfter(f, "rewards", last) = f.left \ {"rewards"}
  BY DEF LeftAfter
<1>5. PairedRewards(f.rows, Rewarded(l, f.rows)) \in [Validators -> Validators \union {None}]
  <2>1. Rewarded(l, f.rows) \in SUBSET Validators
    BY DEF Rewarded, Holding
  <2> QED BY <2>1, PairsType
<1> HIDE DEF f, l, last
<1>6. /\ IsFlight(a) /\ Filled(a)
      /\ a.of = f.of /\ a.key = f.key /\ a.sum = f.sum
      /\ a.wealth = f.wealth /\ a.moved = f.moved
      /\ a.stage = IF a.left = {} THEN "answered" ELSE "reading"
      /\ p = "portfolio" => a.left = LeftAfter(f, "rewards", last)
  BY <1>2, AnsweredFilled
<1> HIDE DEF a
<1>7. /\ sum \in Nat
      /\ p = "portfolio" => sum = f.sum + Worth(l, "rewards")
      /\ pair \in [Validators -> Validators \union {None}]
  BY <1>2, <1>5, <1>6 DEF Worth, Filled
<1> HIDE DEF sum, pair
<1>8. /\ g.of = a.of /\ g.stage = a.stage /\ g.left = a.left /\ g.pair = pair
      /\ g.key = a.key /\ g.sum = sum /\ g.wealth = a.wealth /\ g.moved = a.moved
  BY <1>6 DEF IsFlight, Fields
<1> HIDE DEF g
<1>9. Filled(g)
  BY <1>6, <1>7, <1>8 DEF Filled
<1>10. /\ p = "portfolio" => g.left = f.left \ {"rewards"} /\ g.key = f.key
                             /\ g.sum = f.sum + Worth(l, "rewards")
       /\ g.stage = IF g.left = {} THEN "answered" ELSE "reading"
       /\ g.of = f.of /\ g.wealth = f.wealth /\ g.moved = f.moved
  BY <1>4, <1>6, <1>7, <1>8
<1>11. Full(ledger, p, g)
  BY <1>1, <1>3, <1>9, <1>10, WorthFull DEF l
<1> QED BY <1>1, <1>11, ReplacedSum DEF f

\* A fetch ends, and the balance it set is the sum.
LEMMA EndingSum ==
  ASSUME PanelInv, SumInv, NEW p \in Panels, NEW i \in 1..Len(flight[p]),
         flight[p][i].stage \in {"account", "reading", "answered"},
         NEW over \in {"ended", "dropped"}, Over(p, i, over),
         \/ UNCHANGED panel
         \/ \E is \in {"loaded", "failed", "invalid"} :
              /\ Sets(p, i, is) /\ over = "ended"
              /\ is = "loaded" => flight[p][i].stage = "answered",
         UNCHANGED <<plan, ledger, events>>
  PROVE  SumInv'
<1> DEFINE old == flight[p]  new == flight'[p]
           After(j) == IF j = i THEN [old[i] EXCEPT !.stage = over]
                       ELSE IF old[j].stage = "ended" /\ panel'[p].by # j THEN Spent(old[j].of)
                       ELSE old[j]
<1>1. /\ new = [j \in 1..Len(old) |-> After(j)]
      /\ \A q \in Panels : q # p => flight'[q] = flight[q]
  BY DEF Over, PanelInv, Typed
<1>2. IsSeq(old) /\ Len(old) \in Nat
  BY Lengths DEF PanelInv, Typed
<1>3. Len(new) = Len(old) /\ \A j \in 1..Len(old) : new[j] = After(j)
  <2>1. new = [j \in 1..Len(old) |-> new[j]] /\ \A j \in 1..Len(old) : new[j] = After(j)
    BY <1>1
  <2> HIDE DEF new
  <2>2. QED BY <1>2, <2>1, Mapping
<1>4. \A j \in 1..Len(old) : Sound(ledger, p, old[j]) /\ Full(ledger, p, old[j])
  BY DEF PanelInv, AllSound, SumInv, AllFull
<1>5. /\ Filled(new[i]) /\ new[i].stage = over /\ new[i].sum = old[i].sum
      /\ new[i].wealth = old[i].wealth /\ new[i].moved = old[i].moved
  <2>1. IsFlight(old[i]) /\ Filled(old[i]) /\ new[i] = [old[i] EXCEPT !.stage = over]
    BY <1>3, <1>4 DEF Sound, Full
  <2> HIDE DEF new, old
  <2> QED BY <2>1, StagedFilled
<1>6. ASSUME NEW j \in 1..Len(old)
      PROVE  Full(ledger, p, new[j])
  <2>1. CASE j = i
    BY <1>5, <2>1 DEF Full, Summed
  <2>2. CASE j # i
    <3>1. new[j] = Spent(old[j].of) \/ new[j] = old[j]
      BY <1>3, <2>2
    <3>2. old[j].of \in Addresses \union {None}
      BY <1>4 DEF Full, Filled
    <3>3. \A b \in Addresses \union {None} : Filled(Spent(b)) /\ Spent(b).stage = "ended"
      BY DEF Spent, Filled, NoPairs, Reads, Paged
    <3>4. \A b \in Addresses \union {None} : Full(ledger, p, Spent(b))
      BY <3>3 DEF Full, Summed
    <3> QED BY <1>4, <3>1, <3>2, <3>4
  <2> QED BY <2>1, <2>2
<1>7. AllFull'
  <2>1. SUFFICES ASSUME NEW q \in Panels, NEW j \in 1..Len(flight'[q])
                 PROVE  Full(ledger, q, flight'[q][j])
    BY DEF AllFull
  <2>2. CASE q = p
    BY <1>3, <1>6, <2>2
  <2>3. CASE q # p
    BY <1>1, <2>3 DEF SumInv, AllFull
  <2>4. QED BY <2>2, <2>3
<1>8. \A q \in Panels : Len(flight'[q]) = Len(flight[q])
  BY <1>1, <1>3
<1>9. \A q \in Panels : panel'[q] = panel[q] \/ (q = p /\ panel'[q].by = i)
  BY DEF Sets, PanelInv, Typed
<1>10. \A q \in Panels : panel'[q].by \in 0..Len(flight'[q])
  BY <1>2, <1>8, <1>9 DEF SumInv
<1>11. TotalIsWealth'
  <2> DEFINE by == panel'["portfolio"].by  shown == flight'["portfolio"][by]
  <2> SUFFICES ASSUME panel'["portfolio"].is = "loaded", ~shown.moved
               PROVE  shown.sum = shown.wealth
    BY DEF TotalIsWealth
  <2>0. "portfolio" \in Panels
    BY DEF Panels
  <2>1. CASE p # "portfolio"
    <3>1. panel'["portfolio"] = panel["portfolio"] /\ flight'["portfolio"] = flight["portfolio"]
      BY <1>1, <1>9, <2>0, <2>1
    <3> QED BY <3>1 DEF SumInv, TotalIsWealth
  <2>2. CASE p = "portfolio" /\ UNCHANGED panel
    <3>1. by \in 1..Len(old) /\ by # i
      BY <2>0, <2>2 DEF PanelInv, ShowsEnded
    <3>2. new[by] = old[by]
      BY <1>3, <2>2, <3>1
    <3> QED BY <2>2, <3>2 DEF SumInv, TotalIsWealth
  <2>3. CASE p = "portfolio" /\ ~UNCHANGED panel
    <3>1. PICK is \in {"loaded", "failed", "invalid"} :
            Sets(p, i, is) /\ (is = "loaded" => flight[p][i].stage = "answered")
      BY <2>3
    <3>2. panel'[p].is = is /\ panel'[p].by = i
      BY <3>1 DEF Sets, PanelInv, Typed
    <3>3. shown = new[i] /\ old[i].stage = "answered"
      BY <2>3, <3>1, <3>2
    <3>4. Summed(ledger, old[i])
      BY <1>4, <2>3 DEF Full
    <3> QED BY <1>5, <3>3, <3>4 DEF Summed
  <2> QED BY <2>1, <2>2, <2>3
<1> QED BY <1>7, <1>10, <1>11 DEF SumInv

\* A read fails.
LEMMA ReadFailsSum ==
  ASSUME PanelInv, SumInv, NEW p \in Panels, NEW i \in 1..Len(flight[p]),
         ReadFails(p, i) \/ (p = "portfolio" /\ ThrowsNoError(i))
  PROVE  SumInv'
<1>1. /\ flight[p][i].stage = "reading"
      /\ \E over \in {"ended", "dropped"} :
           /\ Over(p, i, over)
           /\ UNCHANGED panel \/ (Sets(p, i, "failed") /\ over = "ended")
      /\ UNCHANGED <<plan, ledger, events>>
  BY DEF ReadFails, ThrowsNoError, Ended, In, chain
<1> QED BY <1>1, EndingSum

\* An unknown account adds up to nothing.
LEMMA AccountNotFoundSum ==
  ASSUME PanelInv, SumInv, NEW p \in Panels, NEW i \in 1..Len(flight[p]), AccountNotFound(p, i)
  PROVE  SumInv'
<1>1. CASE AsksForWallet(wallet, place)
  <2>1. /\ flight[p][i].stage = "account" /\ Over(p, i, "ended") /\ Sets(p, i, "invalid")
        /\ UNCHANGED <<plan, ledger, events>>
    BY <1>1 DEF AccountNotFound, Ended, In, chain
  <2> QED BY <2>1, EndingSum
<1>2. CASE ~AsksForWallet(wallet, place)
  <2>1. /\ flight' = [q \in Panels |-> <<>>] /\ panel' = [q \in Panels |-> Fresh]
        /\ UNCHANGED <<plan, events>>
    BY <1>2 DEF AccountNotFound, chain
  <2>2. "portfolio" \in Panels
    BY DEF Panels
  <2> QED BY <2>1, <2>2 DEF SumInv, AllFull, TotalIsWealth, Fresh
<1> QED BY <1>1, <1>2

\* An answer is shown.
LEMMA ArrivesSum ==
  ASSUME PanelInv, SumInv, NEW p \in Panels, NEW i \in 1..Len(flight[p]), Arrives(p, i)
  PROVE  SumInv'
<1>1. /\ flight[p][i].stage = "answered" /\ Over(p, i, "ended") /\ Sets(p, i, "loaded")
      /\ UNCHANGED <<plan, ledger, events>>
  BY DEF Arrives, Ended, In, chain
<1> QED BY <1>1, EndingSum

\* No step of a fetch loses an amount or counts one twice.
LEMMA ProgressSum ==
  ASSUME PanelInv, SumInv, Progress
  PROVE  SumInv'
<1>1. PICK p \in Panels : \E i \in 1..Len(flight[p]) :
        \/ AccountFound(p, i) \/ AccountNotFound(p, i)
        \/ \E r \in Paged : ReadPage(p, i, r)
        \/ ReadFunds(p, i) \/ ReadCommission(p, i) \/ ReadRewards(p, i)
        \/ ReadFails(p, i) \/ (p = "portfolio" /\ ThrowsNoError(i)) \/ Arrives(p, i)
  BY DEF Progress
<1>2. PICK i \in 1..Len(flight[p]) :
        \/ AccountFound(p, i) \/ AccountNotFound(p, i)
        \/ \E r \in Paged : ReadPage(p, i, r)
        \/ ReadFunds(p, i) \/ ReadCommission(p, i) \/ ReadRewards(p, i)
        \/ ReadFails(p, i) \/ (p = "portfolio" /\ ThrowsNoError(i)) \/ Arrives(p, i)
  BY <1>1
<1> QED
  BY <1>2, AccountFoundSum, AccountNotFoundSum, ReadPageSum, ReadOneSum, ReadRewardsSum,
     ReadFailsSum, ArrivesSum

\* A new fetch has everything to read.
LEMMA NewFull ==
  ASSUME PanelInv, NEW p \in Panels, NEW of \in Addresses, NEW host
  PROVE  Full(ledger, p, NewFlight(p, of, host))
<1> DEFINE f == NewFlight(p, of, host)
<1>1. /\ f.of = of /\ f.left = FirstReads(p) /\ f.key = [r \in Paged |-> 0] /\ f.sum = 0
      /\ f.pair = NoPairs /\ f.wealth = Wealth(ledger[of]) /\ f.moved = FALSE
      /\ f.stage \in {"account", "reading"}
  BY DEF NewFlight
<1>2. ledger[of] \in Ledger /\ Wealth(ledger[of]) \in Nat
  BY WealthType DEF PanelInv, Typed
<1>3. FirstReads(p) \subseteq Reads /\ FirstReads("portfolio") = Reads
  BY DEF FirstReads, Reads, Panels
<1> HIDE DEF f
<1>4. Filled(f)
  <2>1. f.left \subseteq Reads
    BY <1>1, <1>3
  <2>2. f.key \in [Paged -> Nat] /\ f.pair \in [Validators -> Validators \union {None}]
    BY <1>1 DEF NoPairs
  <2>3. f.of \in Addresses \union {None} /\ f.sum \in Nat
    BY <1>1
  <2>4. f.wealth \in Nat
    BY <1>1, <1>2
  <2>5. f.moved \in BOOLEAN
    BY <1>1
  <2> QED BY <2>1, <2>2, <2>3, <2>4, <2>5 DEF Filled
<1>5. p = "portfolio" => Brought(ledger[of], f) = 0
  BY <1>1, <1>2, <1>3, NothingBrought
<1>6. Full(ledger, p, f)
  BY <1>1, <1>4, <1>5 DEF Full, Summed
<1> QED BY <1>6 DEF f

\* A panel after its effect ran or did not.
LEMMA FollowPanelSum ==
  ASSUME PanelInv, SumInv, NEW renewed, Follow(renewed), wallet' \in Wallet, place' \in Place,
         NEW p \in Panels
  PROVE  /\ \A i \in 1..Len(flight'[p]) : Full(ledger, p, flight'[p][i])
         /\ panel'[p].by \in 0..Len(flight'[p])
         /\ panel'[p].is = "loaded" =>
              /\ panel[p].is = "loaded"
              /\ flight'[p][panel'[p].by] = flight[p][panel[p].by]
<1> DEFINE stays == place'.host = place.host
           old == IF stays THEN flight[p] ELSE <<>>
           prior == IF stays THEN panel[p] ELSE Fresh
           of == Shown(wallet', place')
           e == IF of = None THEN Spent(None) ELSE NewFlight(p, of, place'.host)
<1>1. /\ IsSeq(flight[p]) /\ Len(flight[p]) \in Nat
      /\ \A i \in 1..Len(flight[p]) : Full(ledger, p, flight[p][i])
      /\ panel[p].by \in 0..Len(flight[p])
      /\ panel[p].is = "loaded" => panel[p].by \in 1..Len(flight[p])
  BY Lengths DEF PanelInv, Typed, SumInv, AllFull, ShowsEnded
<1>2. IsSeq(<<>>) /\ Len(<<>>) = 0
  BY DEF IsSeq
<1>3. /\ IsSeq(old) /\ Len(old) \in Nat
      /\ \A i \in 1..Len(old) : Full(ledger, p, old[i])
      /\ prior.by \in 0..Len(old)
      /\ prior.is = "loaded" => /\ prior = panel[p] /\ old = flight[p]
                                /\ prior.by \in 1..Len(old)
  BY <1>1, <1>2 DEF Fresh
<1>4. flight'[p] = FlightsAfter(p, renewed) /\ panel'[p] = PanelAfter(p, renewed)
  BY DEF Follow
<1>5. CASE ~Asks(p, renewed)
  <2>1. flight'[p] = old /\ panel'[p] = prior
    BY <1>4, <1>5 DEF FlightsAfter, PanelAfter
  <2> HIDE DEF old, prior
  <2> QED BY <1>3, <2>1
<1>6. CASE Asks(p, renewed)
  <2>1. /\ flight'[p] = Append(old, e)
        /\ panel'[p] = IF p = "mine" THEN prior
                       ELSE IF of # None THEN Loading
                       ELSE [is |-> "failed", by |-> Len(flight'[p])]
    BY <1>4, <1>6 DEF FlightsAfter, PanelAfter
  <2>2. of \in Addresses \union {None}
    BY ShownType
  <2>3. Full(ledger, p, e)
    <3>1. CASE of = None
      <4>1. Filled(Spent(None)) /\ Spent(None).stage = "ended"
        BY DEF Spent, Filled, NoPairs
      <4> QED BY <3>1, <4>1 DEF Full, Summed
    <3>2. CASE of # None
      BY <2>2, <3>2, NewFull
    <3> QED BY <3>1, <3>2
  <2> HIDE DEF old, e, prior, of
  <2>4. /\ Len(flight'[p]) = Len(old) + 1
        /\ flight'[p][Len(old) + 1] = e
        /\ \A i \in 1..Len(old) : flight'[p][i] = old[i]
    BY <1>3, <2>1, Appending
  <2>5. \A i \in 1..Len(flight'[p]) : Full(ledger, p, flight'[p][i])
    <3>1. \A i \in 1..Len(flight'[p]) : i \in 1..Len(old) \/ i = Len(old) + 1
      BY <1>3, <2>4
    <3>2. QED BY <1>3, <2>3, <2>4, <3>1
  <2>6. panel'[p].by \in 0..Len(flight'[p])
    BY <1>3, <2>1, <2>4 DEF Loading
  <2>7. ASSUME panel'[p].is = "loaded"
        PROVE  panel'[p] = prior
    BY <2>1, <2>7 DEF Loading
  <2> QED BY <1>3, <2>4, <2>5, <2>6, <2>7
<1>7. QED BY <1>5, <1>6

\* Wherever a link or the wallet leads, the sums stay right.
LEMMA FollowSum ==
  ASSUME PanelInv, SumInv, NEW renewed, Follow(renewed), wallet' \in Wallet, place' \in Place
  PROVE  SumInv'
<1>1. UNCHANGED <<plan, ledger, events>>
  BY DEF Follow, chain
<1>2. ASSUME NEW p \in Panels
      PROVE  /\ \A i \in 1..Len(flight'[p]) : Full(ledger, p, flight'[p][i])
             /\ panel'[p].by \in 0..Len(flight'[p])
             /\ panel'[p].is = "loaded" =>
                  /\ panel[p].is = "loaded"
                  /\ flight'[p][panel'[p].by] = flight[p][panel[p].by]
  BY FollowPanelSum
<1>3. AllFull'
  BY <1>1, <1>2 DEF AllFull
<1>4. TotalIsWealth'
  <2>1. "portfolio" \in Panels
    BY DEF Panels
  <2> QED BY <1>2, <2>1 DEF SumInv, TotalIsWealth
<1> QED BY <1>1, <1>2, <1>3, <1>4 DEF SumInv

\* The user goes somewhere, or the wallet changes.
LEMMA VisitSum ==
  ASSUME PanelInv, SumInv,
         (\E p \in Places : GoTo(p)) \/ \E w \in Wallet : WalletChanges(w)
  PROVE  SumInv'
<1>1. ASSUME NEW p \in Places, GoTo(p)
      PROVE  SumInv'
  <2>1. p \in Place /\ p.host # "broken"
    BY DEF Places, Place, At, PortfolioOf, Hosts
  <2>2. /\ wallet' = wallet /\ place' = Lands(wallet, p) /\ wallet \in Wallet
        /\ \E renewed : Follow(renewed)
    BY <1>1 DEF GoTo, PanelInv, Typed
  <2> QED BY <2>1, <2>2, LandsType, FollowSum
<1>2. ASSUME NEW w \in Wallet, WalletChanges(w)
      PROVE  SumInv'
  <2>1. /\ place.host # "broken" /\ wallet' = w /\ place' = Lands(w, place) /\ place \in Place
        /\ \E renewed : Follow(renewed)
    BY <1>2 DEF WalletChanges, PanelInv, Typed
  <2> QED BY <2>1, LandsType, FollowSum
<1> QED BY <1>1, <1>2

\* A fetch that sees the chain change promises nothing any more.
LEMMA SeenFull ==
  ASSUME NEW owned, NEW after, NEW a \in Addresses, NEW gone,
         \A b \in Addresses \ {a} : after[b] = owned[b],
         NEW p, NEW f, Sound(owned, p, f), Full(owned, p, f)
  PROVE  Full(after, p, Seen(f, a, gone))
<1>1. CASE f.of # a \/ f.stage \notin {"account", "reading"}
  <2>1. Seen(f, a, gone) = f
    BY <1>1 DEF Seen
  <2>2. f.stage \in {"account", "reading"} => f.of \in Addresses \ {a}
    BY <1>1 DEF Sound
  <2>3. f.stage \in {"account", "reading"} => after[f.of] = owned[f.of]
    BY <2>2
  <2> QED BY <2>1, <2>3 DEF Full, Summed
<1>2. CASE f.of = a /\ f.stage \in {"account", "reading"}
  <2> DEFINE undone == f.undone \/ gone \intersect f.rows # {}
             g == [f EXCEPT !.moved = TRUE, !.undone = undone]
  <2>1. Seen(f, a, gone) = g
    BY <1>2 DEF Seen
  <2>2. IsFlight(f) /\ Filled(f)
    BY DEF Sound, Full
  <2> HIDE DEF undone
  <2>3. Filled(g) /\ g.moved = TRUE
    BY <2>2 DEF IsFlight, Fields, Filled
  <2> QED BY <2>1, <2>3 DEF Full, Summed
<1> QED BY <1>1, <1>2

\* The ledger of one address changes.
LEMMA MovesSum ==
  ASSUME PanelInv, SumInv, NEW a \in Addresses, NEW l, NEW gone, Moves(a, l, gone)
  PROVE  SumInv'
<1>1. /\ ledger' = [ledger EXCEPT ![a] = l] /\ events < plan.events /\ events' = events + 1
      /\ \A p \in Panels :
           flight'[p] = [i \in 1..Len(flight[p]) |-> Seen(flight[p][i], a, gone)]
      /\ UNCHANGED <<panel, plan>>
  BY DEF Moves
<1>2. \A b \in Addresses \ {a} : ledger'[b] = ledger[b]
  BY <1>1 DEF PanelInv, Typed
<1>3. ASSUME NEW p \in Panels
      PROVE  /\ Len(flight'[p]) = Len(flight[p])
             /\ \A i \in 1..Len(flight[p]) : flight'[p][i] = Seen(flight[p][i], a, gone)
  <2> DEFINE s == flight[p]  t == flight'[p]
  <2>1. Len(s) \in Nat
    BY Lengths DEF PanelInv, Typed
  <2>2. t = [i \in 1..Len(s) |-> t[i]] /\ \A i \in 1..Len(s) : t[i] = Seen(s[i], a, gone)
    BY <1>1
  <2> HIDE DEF s, t
  <2>3. Len(t) = Len(s)
    BY <2>1, <2>2, Mapping
  <2>4. QED BY <2>2, <2>3 DEF s, t
<1>4. ASSUME NEW p \in Panels, NEW i \in 1..Len(flight[p])
      PROVE  Full(ledger', p, flight'[p][i])
  <2> DEFINE f == flight[p][i]  after == ledger'
  <2>1. Sound(ledger, p, f) /\ Full(ledger, p, f) /\ flight'[p][i] = Seen(f, a, gone)
    BY <1>3 DEF PanelInv, AllSound, SumInv, AllFull
  <2>2. \A b \in Addresses \ {a} : after[b] = ledger[b]
    BY <1>2
  <2> HIDE DEF f, after
  <2>3. Full(after, p, Seen(f, a, gone))
    BY <2>1, <2>2, SeenFull
  <2>4. QED BY <2>1, <2>3 DEF f, after
<1>5. AllFull'
  BY <1>3, <1>4 DEF AllFull
<1>6. TotalIsWealth'
  <2> DEFINE by == panel["portfolio"].by  shown == flight["portfolio"][by]
  <2>1. "portfolio" \in Panels
    BY DEF Panels
  <2>2. ASSUME panel["portfolio"].is = "loaded"
        PROVE  flight'["portfolio"][by] = shown
    <3>1. by \in 1..Len(flight["portfolio"]) /\ shown.stage = "ended"
      BY <2>1, <2>2 DEF PanelInv, ShowsEnded
    <3>2. flight'["portfolio"][by] = Seen(shown, a, gone)
      BY <1>3, <2>1, <3>1
    <3> QED BY <3>1, <3>2 DEF Seen
  <2> QED BY <1>1, <2>2 DEF SumInv, TotalIsWealth
<1>7. events' \in 0..plan'.events
  <2>1. plan.events \in Nat
    BY PlansType DEF PanelInv, Typed
  <2> QED BY <1>1, <2>1 DEF SumInv
<1> QED BY <1>1, <1>3, <1>5, <1>6, <1>7 DEF SumInv

\* The chain changes.
LEMMA ChangesSum ==
  ASSUME PanelInv, SumInv, Changes
  PROVE  SumInv'
<1>1. \E a \in Known : \E l, gone : Moves(a, l, gone)
  BY DEF Changes, Delegate, Undelegate, Accrue, Mature
<1> QED BY <1>1, KnownType, MovesSum

(***************************************************************************)
(* The beginning, and what the invariant is for                            *)
(***************************************************************************)
\* At first nothing is fetched.
LEMMA PanelInit ==
  ASSUME Init
  PROVE  PanelInv
<1>1. /\ plan \in Plans /\ wallet = Idle /\ place = Invalid
      /\ flight = [p \in Panels |-> <<>>] /\ panel = [p \in Panels |-> Fresh]
  BY DEF Init, PortfolioInit
<1>2. ledger \in [Addresses -> Ledger]
  <2>1. PICK owned \in [Known -> Ledgers] :
          ledger = [a \in Addresses |-> IF a \in Known THEN owned[a] ELSE Nothing]
    BY DEF Init, PortfolioInit
  <2>2. Nothing \in Ledger
    BY DEF Nothing, Ledger, Amounts
  <2>3. QED BY <2>1, <2>2, LedgersType
<1>3. wallet \in Wallet /\ place \in Place /\ place.host = "invalid" /\ PanelsAt["invalid"] = {}
  BY <1>1 DEF Idle, Wallet, Invalid, At, Place, Hosts, PanelsAt
<1>4. \A p \in Panels : IsSeq(flight[p]) /\ Len(flight[p]) = 0
  BY <1>1 DEF IsSeq
<1>5. Typed
  BY <1>1, <1>2, <1>3, <1>4 DEF Typed, Fresh
<1>6. AllSound /\ Hosted /\ Newest /\ BrokenByStakes
  BY <1>3, <1>4 DEF AllSound, Hosted, Newest, BrokenByStakes
<1>7. \A p \in Panels : ShowsEnded(p)
  BY <1>1 DEF ShowsEnded, Fresh
<1>8. QED BY <1>5, <1>6, <1>7 DEF PanelInv

\* The invariant gives the properties of the panels.
LEMMA PanelsAnswer ==
  ASSUME PanelInv
  PROVE  AnswersRoute /\ RowsPaired
<1>1. ASSUME NEW p \in PanelsAt[place.host], panel[p].is = "loaded", Latest(p), About
      PROVE  flight[p][panel[p].by].of = Shown(wallet, place)
  <2>1. p \in Panels
    BY PanelsOfHost DEF PanelInv, Typed, Place
  <2>2. panel[p].by = Len(flight[p]) /\ Len(flight[p]) > 0
    BY <1>1, <2>1, Lengths DEF PanelInv, Typed, ShowsEnded, Latest
  <2>3. QED BY <1>1, <2>2 DEF PanelInv, Newest
<1>2. AnswersRoute
  BY <1>1 DEF AnswersRoute, About
<1>3. "stakes" \in Panels
  BY DEF Panels
<1>4. RowsPaired
  BY <1>3 DEF RowsPaired, PanelInv, ShowsEnded, Paired, BrokenByStakes
<1>5. QED BY <1>2, <1>4


\* At first there is nothing to add up.
LEMMA SumInit ==
  ASSUME Init
  PROVE  SumInv
<1>1. /\ plan \in Plans /\ events = 0
      /\ flight = [p \in Panels |-> <<>>] /\ panel = [p \in Panels |-> Fresh]
  BY DEF Init, PortfolioInit
<1>2. plan.events \in Nat /\ "portfolio" \in Panels
  BY <1>1, PlansType DEF Panels
<1> QED BY <1>1, <1>2 DEF SumInv, AllFull, TotalIsWealth, Fresh

\* The fields of a fetch.
LEMMA FlightParts ==
  ASSUME NEW f, IsFlight(f), Filled(f), f.stage \in Stages, f.rows \subseteq Validators,
         f.undone \in BOOLEAN
  PROVE  f \in Flight
BY DEF IsFlight, Fields, Filled, Stages, Flight

\* The two invariants give the types of the panels and of the chain.
LEMMA PanelTypes ==
  ASSUME PanelInv, SumInv
  PROVE  PortfolioTypeOK
<1>1. ASSUME NEW p \in Panels
      PROVE  flight[p] \in Seq(Flight)
  <2>1. \A i \in 1..Len(flight[p]) : flight[p][i] \in Flight
    BY FlightParts DEF PanelInv, AllSound, Sound, SumInv, AllFull, Full
  <2>2. IsSeq(flight[p])
    BY DEF PanelInv, Typed
  <2> DEFINE s == flight[p]
  <2> HIDE DEF s
  <2>3. s \in Seq(Flight)
    BY <2>1, <2>2, Lengths DEF s, IsSeq
  <2> QED BY <2>3 DEF s
<1> QED BY <1>1 DEF PanelInv, Typed, SumInv, PortfolioTypeOK, VisitTypeOK

(***************************************************************************)
(* The lists: what is added to the invariant                               *)
(***************************************************************************)
\* The list asks a question, and the newest that waits is that question, or
\* the one executed last is.
Asking == List \in plan.lists /\ (List = "history" => Shown(wallet, place) # None)
Current == Question(wallet, place, params)
Forms(q) == {q, [q EXCEPT !.pinned = {}]}
NoneNewest == \A e \in waiting : ~e.newest
ListInv ==
  /\ \A e \in waiting : e.newest \in BOOLEAN
  /\ Asking => \A e \in waiting : e.newest => e.q = Current
  /\ Asking /\ executed # None /\ ~overtaken /\ NoneNewest => executed \in Forms(Current)

\* The rows of page m of s, which has n elements.
IsPage(rows, s, n, m) ==
  /\ \A i \in DOMAIN rows : /\ i \in 1..ListSize /\ (m - 1) * ListSize + i \in 1..n
                            /\ rows[i] = s[(m - 1) * ListSize + i]
  /\ \A i \in 1..ListSize : (m - 1) * ListSize + i <= n => i \in DOMAIN rows

\* An answer given when the tables were written as far as upto: a page of the rows
\* that matched at one of them, sorted; each row has its details, or none if they
\* were missing then or later.
Sorted(t, s, q) == \A i, j \in DOMAIN s : i < j => ~Precedes(t, q, s[j], s[i])
Own(tables, v, upto, row, detail) ==
  \/ detail = row /\ \E w \in v..upto : row \in tables[w].described
  \/ detail = None /\ \E w \in v..upto : row \notin tables[w].described
IsAnswer(tables, upto, a, q, s) ==
  LET t == tables[a.at] IN
  /\ a.at \in 1..upto
  /\ ListsOnce(s, Matching(t, q)) /\ Sorted(t, s, q)
  /\ IsPage(a.rows, s, Cardinality(Matching(t, q)), q.page)
  /\ \A i \in DOMAIN a.rows : Own(tables, a.at, upto, a.rows[i], a.details[i])

\* What is asked and kept is well formed, and every answer kept is one the server
\* may have given.
Lists == {"validators", "proposals", "history", "votes", "deposits"}
Tabs == UNION {TabsOf[l] : l \in DOMAIN TabsOf}
Params == [tab : Tabs, page : Nat \ {0}, sort : {"name", "power", None}]
Kept ==
  /\ params \in Params
  /\ executed = None \/ executed \in Questions
  /\ written \in 1..Len(plan.tables) /\ pending \in 0..written
  /\ pending # 0 => executed \in Questions
  /\ \A e \in waiting : e.q \in Questions
  /\ DOMAIN cache \subseteq Questions
  /\ \A q \in DOMAIN cache : \E s : IsAnswer(plan.tables, written, cache[q], q, s)

IInv == PanelInv /\ SumInv /\ ListInv /\ Kept

(***************************************************************************)
(* Lists                                                                   *)
(***************************************************************************)

\* Whenever the effect of a list runs, the newest question is the current one;
\* when it does not run, the question has not changed.
LEMMA RefetchesStep ==
  ASSUME ListInv, plan' = plan, NEW renewed, Refetches(renewed)
  PROVE  ListInv'
<1> DEFINE stays == place'.host = place.host
           before == IF stays THEN waiting ELSE {}
           prior == IF stays THEN executed ELSE None
           q == Question(wallet', place', params')
           waits == q.list \in Pinning /\ wallet'.status = "connected"
<1>1. CASE Asked(renewed)
  <2>1. /\ waiting' = IF waits THEN Older(before) \union {Waiting(q, TRUE)} ELSE Older(before)
        /\ ~waits => executed' = q
    BY <1>1 DEF Refetches, Executes
  <2>2. \A e \in Older(before) : e.newest = FALSE
    BY DEF Older, Waiting
  <2>3. Waiting(q, TRUE).newest = TRUE /\ Waiting(q, TRUE).q = q
    BY DEF Waiting
  <2>4. Current' = q
    BY DEF Current
  <2> HIDE DEF q, waits, before
  <2>5. CASE waits
    <3>1. \A e \in waiting' : e.newest = FALSE \/ e = Waiting(q, TRUE)
      BY <2>1, <2>2, <2>5
    <3>2. Waiting(q, TRUE) \in waiting'
      BY <2>1, <2>5
    <3>3. \A e \in waiting' : e.newest \in BOOLEAN /\ (e.newest => e.q = q)
      BY <2>3, <3>1
    <3>4. ~NoneNewest'
      BY <2>3, <3>2 DEF NoneNewest
    <3>5. QED BY <2>4, <3>3, <3>4 DEF ListInv
  <2>6. CASE ~waits
    <3>1. \A e \in waiting' : e.newest = FALSE
      BY <2>1, <2>2, <2>6
    <3>2. executed' = q
      BY <2>1, <2>6
    <3>3. QED BY <2>4, <3>1, <3>2 DEF ListInv, Forms
  <2>7. QED BY <2>5, <2>6
<1>2. CASE ~Asked(renewed)
  <2>1. /\ waiting' = before /\ executed' = prior /\ overtaken' = (stays /\ overtaken)
    BY <1>2 DEF Refetches
  <2>2. \A e \in waiting' : e.newest \in BOOLEAN
    BY <2>1 DEF ListInv
  <2>3. ASSUME Asking'
        PROVE  stays /\ Current' = Current /\ Asking
    <3>1. stays /\ Question(wallet', place', params') = Question(wallet, place, params)
      BY <1>2, <2>3 DEF Asking, Asked, List
    <3>2. List' = List
      BY <3>1 DEF List
    <3>3. List = "history" => Shown(wallet', place') = Shown(wallet, place)
      <4>1. Question(wallet', place', params').of = Question(wallet, place, params).of
        BY <3>1
      <4>2. ASSUME List = "history"
            PROVE  /\ Question(wallet', place', params').of = Shown(wallet', place')
                   /\ Question(wallet, place, params).of = Shown(wallet, place)
        BY <3>2, <4>2 DEF Question, List
      <4>3. QED BY <4>1, <4>2
    <3>4. Asking
      BY <2>3, <3>2, <3>3 DEF Asking
    <3>5. QED BY <3>1, <3>4 DEF Current
  <2>4. ASSUME Asking'
        PROVE  /\ \A e \in waiting' : e.newest => e.q = Current'
               /\ executed' # None /\ ~overtaken' /\ NoneNewest' => executed' \in Forms(Current')
    <3>1. /\ Asking /\ Current' = Current /\ waiting' = waiting /\ executed' = executed
          /\ ~overtaken' => ~overtaken
      BY <2>1, <2>3, <2>4
    <3>2. NoneNewest' => NoneNewest
      BY <3>1 DEF NoneNewest
    <3>3. QED BY <3>1, <3>2 DEF ListInv
  <2>5. QED BY <2>2, <2>4 DEF ListInv
<1>3. QED BY <1>1, <1>2

\* The delegations of the wallet come: the newest question is executed, in one
\* of its two forms, or an older one overtakes it.
LEMMA DelegationsStep ==
  ASSUME ListInv, NEW e \in waiting, DelegationsCome(e)
  PROVE  ListInv'
<1>1. /\ waiting' \subseteq waiting /\ overtaken' = ~e.newest
      /\ executed' = e.q \/ executed' = [e.q EXCEPT !.pinned = {}]
      /\ UNCHANGED <<plan, wallet, place, params>>
  BY DEF DelegationsCome, Executes
<1>2. (Asking' <=> Asking) /\ Current' = Current
  BY <1>1 DEF Asking, Current, List
<1>3. e.newest \in BOOLEAN /\ (~overtaken' => e.newest)
  BY <1>1 DEF ListInv
<1>4. Asking /\ ~overtaken' => executed' \in Forms(Current)
  <2>1. Asking /\ e.newest => e.q = Current
    BY DEF ListInv
  <2>2. QED BY <1>1, <1>3, <2>1 DEF Forms
<1>5. QED BY <1>1, <1>2, <1>4 DEF ListInv

(***************************************************************************)
(* What is asked                                                           *)
(***************************************************************************)

\* The tabs there are.
LEMMA TabsAre ==
  /\ Tabs = {"active", "inactive", "all", "voting", "following",
             "voted", "submitted", "deposited"}
  /\ \A l \in Lists : TabsOf[l] \subseteq Tabs /\ FirstTab[l] \in Tabs
<1>1. /\ DOMAIN TabsOf = Lists
      /\ TabsOf["validators"] = {"active", "inactive", "all"}
      /\ TabsOf["proposals"] = {"all", "voting", "following"}
      /\ TabsOf["history"] = {"voted", "submitted", "deposited"}
      /\ TabsOf["votes"] = {"all"} /\ TabsOf["deposits"] = {"all"}
  BY DEF TabsOf, Histories, Lists
<1>2. \A l \in Lists : FirstTab[l] \in {"active", "all", "voted"}
  BY DEF FirstTab, Lists
<1>3. Tabs = {"active", "inactive", "all", "voting", "following",
             "voted", "submitted", "deposited"}
  BY <1>1 DEF Tabs, Lists
<1> QED BY <1>1, <1>2, <1>3 DEF Lists

\* A screen's own parameters, to begin with.
LEMMA ParamsAtType ==
  ASSUME NEW host \in Hosts
  PROVE  ParamsAt(host) \in Params
<1>1. ListAt[host] # None => ListAt[host] \in Lists
  BY DEF Hosts, ListAt, Pinning, Lists
<1> QED BY <1>1, TabsAre DEF ParamsAt, Params

\* What a screen with a list asks is a question.
LEMMA QuestionType ==
  ASSUME NEW w \in Wallet, NEW p \in Place, NEW v \in Params, ListAt[p.host] \in Lists
  PROVE  Question(w, p, v) \in Questions
<1> DEFINE list == ListAt[p.host]  tab == SelectedTab(w, list, v)
           of == CASE list = "history" -> Shown(w, p)
                   [] list = "proposals" /\ tab = "following" -> w.account
                   [] OTHER -> None
           pinned == IF list \in Pinning /\ w.account # None THEN Delegates[w.account] ELSE {}
<1>1. tab \in Tabs
  BY TabsAre DEF SelectedTab, Params, Lists
<1>2. of \in Addresses \union {None}
  BY ShownType DEF Wallet
<1>3. pinned \in SUBSET Nat
  BY DelegatesType DEF Wallet
<1>4. list \in {"validators", "proposals", "history"} \union Pinning
  BY DEF Lists, Pinning
<1>5. Question(w, p, v) = [list |-> list, tab |-> tab, page |-> v.page, sort |-> v.sort,
                          of |-> of, pinned |-> pinned]
  BY DEF Question
<1> HIDE DEF list, tab, of, pinned
<1> QED BY <1>1, <1>2, <1>3, <1>4, <1>5 DEF Questions, Params, Tabs

\* Whatever the effect of a list asks is a question.
LEMMA RefetchesKept ==
  ASSUME Kept, plan' \in Plans, wallet' \in Wallet, place' \in Place, params' \in Params,
         NEW renewed, plan' = plan, Refetches(renewed)
  PROVE  Kept'
<1> DEFINE stays == place'.host = place.host
           before == IF stays THEN waiting ELSE {}
           prior == IF stays THEN executed ELSE None
           q == Question(wallet', place', params')
           waits == q.list \in Pinning /\ wallet'.status = "connected"
<1>1. Asked(renewed) => q \in Questions
  <2>1. Asked(renewed) => ListAt[place'.host] \in Lists
    BY PlansType DEF Asked, Lists
  <2> QED BY <2>1, QuestionType
<1>2. \A e \in before : e.q \in Questions
  BY DEF Kept
<1>3. prior = None \/ prior \in Questions
  BY DEF Kept
<1>4. /\ waiting' = IF ~Asked(renewed) THEN before
                    ELSE IF waits THEN Older(before) \union {Waiting(q, TRUE)}
                    ELSE Older(before)
      /\ IF Asked(renewed) /\ ~waits THEN Executes(q, prior)
         ELSE executed' = prior /\ pending' = IF stays THEN pending ELSE 0
      /\ cache' = cache /\ written' = written
  BY DEF Refetches
<1> HIDE DEF q, waits
<1>5. \A e \in waiting' : e.q \in Questions
  <2>1. \A e \in Older(before) : e.q \in Questions
    BY <1>2 DEF Older, Waiting
  <2>2. Asked(renewed) => Waiting(q, TRUE).q \in Questions 
    BY <1>1 DEF Waiting
  <2> HIDE DEF before
  <2> QED BY <1>2, <1>4, <2>1, <2>2
<1>6. /\ executed' = None \/ executed' \in Questions
      /\ pending' # 0 => executed' \in Questions
      /\ pending' \in 0..written
  <2> USE DEF Kept
  <2>1. CASE Asked(renewed) /\ ~waits
    <3>1. executed' = q /\ q \in Questions
      BY <1>1, <1>4, <2>1 DEF Executes
    <3>2. pending' \in {pending, written, 0}
      BY <1>4, <2>1 DEF Executes
    <3>3. written \in Nat /\ pending \in 0..written
      OBVIOUS
    <3> QED BY <3>1, <3>2, <3>3
  <2>2. CASE ~(Asked(renewed) /\ ~waits)
    BY <1>3, <1>4, <2>2 DEF Kept
  <2> QED BY <2>1, <2>2
<1> QED BY <1>4, <1>5, <1>6 DEF Kept

\* The delegations come for a question, and leave a question.
LEMMA DelegationsKept ==
  ASSUME Kept, NEW e \in waiting, DelegationsCome(e)
  PROVE  Kept'
<1>1. /\ waiting' \subseteq waiting /\ UNCHANGED <<plan, params, written, cache>>
      /\ executed' = e.q \/ executed' = [e.q EXCEPT !.pinned = {}]
      /\ pending' \in {pending, written, 0}
  BY DEF DelegationsCome, Executes
<1>2. \A q \in Questions : [q EXCEPT !.pinned = {}] \in Questions
  BY DEF Questions
<1>3. written \in Nat /\ pending' \in 0..written
  BY <1>1 DEF Kept
<1> QED BY <1>1, <1>2, <1>3 DEF Kept

\* What the user chooses is well formed.
LEMMA ChoosesParams ==
  ASSUME Kept, Typed, Chooses
  PROVE  /\ UNCHANGED <<plan, wallet, place>> /\ params' \in Params
         /\ \E renewed : Refetches(renewed)
<1>1. ASSUME NEW v \in Params, Choosing(v)
      PROVE  /\ UNCHANGED <<plan, wallet, place>> /\ params' \in Params
             /\ \E renewed : Refetches(renewed)
  BY <1>1 DEF Choosing
<1>2. \A h : List \in plan.lists => List \in Lists
  BY PlansType DEF Typed, Lists
<1>3. ASSUME NEW tab, SelectTab(tab)
      PROVE  \E v \in Params : Choosing(v)
  <2>1. List \in Lists /\ tab \in TabsOf[List]
    BY <1>2, <1>3 DEF SelectTab
  <2>2. tab \in Tabs
    BY <2>1, TabsAre
  <2>3. [tab |-> tab, page |-> 1, sort |-> None] \in Params
    BY <2>2 DEF Params
  <2> QED BY <1>3, <2>3 DEF SelectTab
<1>4. ASSUME NEW n \in PagesFor(Cardinality(Rows)), SetPage(n)
      PROVE  \E v \in Params : Choosing(v)
  <2>1. List \in Lists /\ Choosing([tab |-> SelectedTab(wallet, List, params), page |-> n,
                                    sort |-> None])
    BY <1>2, <1>4 DEF SetPage, Choosing
  <2>2. SelectedTab(wallet, List, params) \in Tabs
    BY TabsAre DEF SelectedTab, Kept, Params, Lists
  <2>3. n \in Nat \ {0}
    <3>1. Cardinality(Rows) \in Nat
      BY RowsType, FS_CardinalityType
    <3> QED BY <3>1, ListSizeType DEF PagesFor
  <2>4. [tab |-> SelectedTab(wallet, List, params), page |-> n, sort |-> None] \in Params
    BY <2>2, <2>3 DEF Params
  <2> QED BY <2>1, <2>4
<1>5. ASSUME NEW column \in plan.columns, Sort(column)
      PROVE  \E v \in Params : Choosing(v)
  <2> DEFINE v == [tab |-> params.tab, page |-> IF List \in Pinning THEN 1 ELSE params.page,
                   sort |-> column]
  <2>1. column \in {"name", "power"}
    BY PlansType DEF Typed
  <2>2. v \in Params
    BY <2>1 DEF Kept, Params
  <2> QED BY <1>5, <2>2 DEF Sort
<1> QED BY <1>1, <1>3, <1>4, <1>5 DEF Chooses

\* What a list asks is as before, and so is what is known of it.
LEMMA ListKept ==
  ASSUME ListInv, UNCHANGED <<plan, wallet, place, params, waiting, overtaken, executed>>
  PROVE  ListInv'
BY DEF ListInv, Asking, Current, NoneNewest, List

\* So are the answers kept.
LEMMA AllKept ==
  ASSUME Kept, UNCHANGED <<plan, written, params, waiting, executed, pending, cache>>
  PROVE  Kept'
BY DEF Kept

\* No sum notices that anything but the panels and the chain changes.
LEMMA SumKept ==
  ASSUME SumInv, UNCHANGED <<plan, flight, panel, ledger, events>>
  PROVE  SumInv'
BY DEF SumInv, AllFull, TotalIsWealth

\* A list follows the screen.
LEMMA ListVisitStep ==
  ASSUME ListInv, Kept, PanelInv', plan' = plan, NEW renewed, ListVisit(renewed)
  PROVE  ListInv' /\ Kept'
<1>1. plan' \in Plans /\ wallet' \in Wallet /\ place' \in Place
  BY DEF PanelInv, Typed
<1>2. params' \in Params
  <2>1. place'.host \in Hosts
    BY <1>1 DEF Place
  <2> QED BY <2>1, ParamsAtType DEF ListVisit, Kept
<1> QED BY <1>1, <1>2, RefetchesStep, RefetchesKept DEF ListVisit

(***************************************************************************)
(* What the server answers                                                 *)
(***************************************************************************)
\* LIMIT and OFFSET take one page.
LEMMA RowsAre ==
  ASSUME NEW S, NEW n \in Nat, NEW s \in [1..n -> S], Len(s) = n, NEW m \in Nat \ {0}
  PROVE  IsPage(RowsOfPage(s, m), s, n, m)
<1> DEFINE after == (m - 1) * ListSize
           upto == IF n < after + ListSize THEN n ELSE after + ListSize
           rows == SubSeq(s, after + 1, upto)
<1>1. after \in Nat /\ ListSize \in Nat
  BY ListSizeType
<1>2. RowsOfPage(s, m) = rows
  BY DEF RowsOfPage
<1> HIDE DEF after
<1>3. upto \in Int /\ after + 1 \in Int /\ \A i \in (after + 1)..upto : s[i] \in S
  BY <1>1
<1>4. /\ rows \in Seq(S)
      /\ Len(rows) = IF after + 1 <= upto THEN upto - after ELSE 0
      /\ \A i \in 1..(upto - after) : rows[i] = s[after + i]
  <2> DEFINE from == after + 1
  <2>1. from \in Int /\ \A i \in from..upto : s[i] \in S
    BY <1>3
  <2> HIDE DEF from, upto
  <2>2. /\ SubSeq(s, from, upto) \in Seq(S)
        /\ Len(SubSeq(s, from, upto)) = IF from <= upto THEN upto - from + 1 ELSE 0
        /\ \A i \in 1..(upto - from + 1) : SubSeq(s, from, upto)[i] = s[from + i - 1]
    BY <1>3, <2>1, SubSeqProperties
  <2>3. upto - from + 1 = upto - after /\ \A i \in 1..(upto - after) : from + i - 1 = after + i
    BY <1>1, <1>3 DEF from
  <2> QED BY <1>1, <1>3, <2>2, <2>3 DEF from
<1>5. DOMAIN rows = 1..Len(rows)
  BY <1>4
<1> HIDE DEF rows
<1>6. \A i \in DOMAIN rows : i \in 1..ListSize /\ after + i \in 1..n /\ i \in 1..(upto - after)
  BY <1>1, <1>4, <1>5
<1>7. \A i \in 1..ListSize : after + i <= n => i \in DOMAIN rows
  BY <1>1, <1>4, <1>5
<1> QED BY <1>2, <1>4, <1>6, <1>7 DEF IsPage, after

\* Finitely many rows match a question.
LEMMA MatchingFinite ==
  ASSUME NEW t, t.rows \subseteq Rows, NEW q
  PROVE  /\ IsFiniteSet(Matching(t, q)) /\ Matching(t, q) \subseteq t.rows
         /\ Cardinality(Matching(t, q)) \in Nat
<1>1. Matching(t, q) \subseteq t.rows
  BY DEF Matching
<1> QED BY <1>1, RowsType, FS_Subset, FS_CardinalityType

\* The tables of a session hold rows, each of some moment.
LEMMA TablesAre ==
  ASSUME plan \in Plans, NEW v \in 1..Len(plan.tables)
  PROVE  /\ plan.tables[v].rows \subseteq Rows
         /\ \A r \in plan.tables[v].rows : r \in Nat /\ plan.tables[v].moment[r] \in Nat
BY TablesType, RowsType

\* Whatever order the details of a batch come in, each key gets its own.
LEMMA BatchIs ==
  ASSUME NEW t, NEW keys, IsFiniteSet(Keys(keys)), NEW details \in Batch(t, keys)
  PROVE  \A i \in DOMAIN keys : details[i] = IF keys[i] \in t.described THEN keys[i] ELSE None
<1> DEFINE S == t.described \intersect Keys(keys)
<1>1. PICK found \in SetToSeqs(S) : details = InOrderOf(keys, found)
  BY DEF Batch
<1>2. ListsOnce(found, S)
  <2>1. IsFiniteSet(S)
    BY FS_Subset, S \subseteq Keys(keys)
  <2> HIDE DEF S
  <2> QED BY <2>1, SequencesOf
<1>3. \A k \in Keys(keys) : (\E j \in DOMAIN found : found[j] = k) <=> k \in t.described
  <2> DEFINE D == 1..Cardinality(S)
  <2>1. DOMAIN found = D /\ \A j \in D : found[j] \in S
    BY <1>2 DEF ListsOnce
  <2>2. \A x \in S : \E j \in D : found[j] = x
    BY <1>2 DEF ListsOnce
  <2> HIDE DEF D
  <2> QED BY <2>1, <2>2
<1>4. \A i \in DOMAIN keys : keys[i] \in Keys(keys)
  BY DEF Keys
<1> QED BY <1>1, <1>3, <1>4 DEF InOrderOf

\* Whatever the server may answer is a page of one sorted list of the rows that
\* matched when it was read.
LEMMA AnswersAre ==
  ASSUME plan \in Plans, written \in 1..Len(plan.tables),
         NEW q \in Questions, NEW since \in 1..written, NEW a \in Answers(q, since)
  PROVE  \E s : IsAnswer(plan.tables, written, a, q, s)
<1>1. PICK read \in since..written :
        \E s \in Results(plan.tables[read], q) : a \in Read(q, since, read, s)
  BY DEF Answers
<1>2. PICK s \in Results(plan.tables[read], q) : a \in Read(q, since, read, s)
  BY <1>1
<1>3. PICK loaded \in read..written :
        /\ a.details \in Batch(plan.tables[loaded], RowsOfPage(s, q.page))
        /\ a.rows = RowsOfPage(s, q.page) /\ a.at = read
  BY <1>2 DEF Read
<1>4. Len(plan.tables) \in Nat /\ read \in 1..written /\ read \in 1..Len(plan.tables)
  BY TablesType
<1> DEFINE t == plan.tables[read]
           S == Matching(t, q)
           n == Cardinality(S)
<1>5. t.rows \subseteq Rows
  BY <1>4, TablesAre
<1>6. s \in SetToSeqs(S) /\ Sorted(t, s, q)
  BY <1>2 DEF Results, Sorted
<1>7. IsFiniteSet(S) /\ n \in Nat
  BY <1>5, MatchingFinite
<1> HIDE DEF t, S
<1>8. ListsOnce(s, S) /\ q.page \in Nat \ {0}
  BY <1>6, <1>7, SequencesOf DEF Questions
<1>9. IsPage(a.rows, s, n, q.page)
  <2>1. s \in [1..n -> S] /\ Len(s) = n
    BY <1>8 DEF ListsOnce
  <2>2. n \in Nat /\ q.page \in Nat \ {0}
    BY <1>7, <1>8
  <2> DEFINE m == q.page
  <2> HIDE DEF n, m
  <2>3. IsPage(RowsOfPage(s, m), s, n, m)
    <3>1. m \in Nat \ {0}
      BY <2>2 DEF m
    <3> QED BY <2>1, <2>2, <3>1, RowsAre
  <2> QED BY <1>3, <2>3 DEF m
<1>10. IsFiniteSet(Keys(a.rows))
  <2>1. Keys(a.rows) \subseteq S
    BY <1>8, <1>9 DEF Keys, IsPage, ListsOnce
  <2> QED BY <1>7, <2>1, FS_Subset
<1>11. \A i \in DOMAIN a.rows :
         a.details[i] = IF a.rows[i] \in plan.tables[loaded].described THEN a.rows[i] ELSE None
  BY <1>3, <1>10, BatchIs
<1>12. \A i \in DOMAIN a.rows : Own(plan.tables, read, written, a.rows[i], a.details[i])
  BY <1>11 DEF Own
<1> QED BY <1>3, <1>4, <1>6, <1>8, <1>9, <1>12 DEF IsAnswer, S, t

\* More that is written leaves an answer what it was.
LEMMA StillAnswer ==
  ASSUME NEW tables, NEW upto \in Nat, NEW later \in Nat, upto <= later,
         NEW a, NEW q, NEW s, IsAnswer(tables, upto, a, q, s)
  PROVE  IsAnswer(tables, later, a, q, s)
<1>1. a.at \in 1..upto /\ a.at \in 1..later /\ a.at..upto \subseteq a.at..later
  BY DEF IsAnswer
<1>2. \A row, detail : Own(tables, a.at, upto, row, detail) => Own(tables, a.at, later, row, detail)
  BY <1>1 DEF Own
<1> QED BY <1>1, <1>2 DEF IsAnswer

\* The answer kept is one the server may give to what was asked.
LEMMA AnswerKept ==
  ASSUME Typed, Kept, AnswerComes
  PROVE  Kept'
<1>1. PICK a \in Answers(executed, pending) :
        cache' = [q \in DOMAIN cache \union {executed} |-> IF q = executed THEN a ELSE cache[q]]
  BY DEF AnswerComes
<1>2. /\ executed \in Questions /\ pending' = 0
      /\ UNCHANGED <<plan, written, params, waiting, executed>>
  BY DEF AnswerComes, Kept
<1>3. \E s : IsAnswer(plan.tables, written, a, executed, s)
  <2>1. pending \in 1..written /\ plan \in Plans /\ written \in 1..Len(plan.tables)
    BY DEF AnswerComes, Kept, Typed
  <2> QED BY <1>2, <2>1, AnswersAre
<1>4. \A q \in DOMAIN cache' :
        q \in Questions /\ \E s : IsAnswer(plan.tables, written, cache'[q], q, s)
  BY <1>1, <1>2, <1>3 DEF Kept
<1>5. written \in Nat
  BY DEF Kept
<1> QED BY <1>2, <1>4, <1>5 DEF Kept

\* The answers kept do not notice what the indexer writes.
LEMMA IndexesKept ==
  ASSUME Typed, Kept, Indexes
  PROVE  Kept'
<1>1. /\ UNCHANGED <<plan, params, waiting, executed, pending, cache>> /\ written' = written + 1
      /\ written < Len(plan.tables)
  BY DEF Indexes
<1>2. Len(plan.tables) \in Nat /\ written \in 1..Len(plan.tables) /\ pending \in 0..written
  BY TablesType DEF Typed, Kept
<1>3. ASSUME NEW q \in DOMAIN cache
      PROVE  \E s : IsAnswer(plan.tables, written', cache[q], q, s)
  <2>1. PICK s : IsAnswer(plan.tables, written, cache[q], q, s)
    BY DEF Kept
  <2>2. written \in Nat /\ written' \in Nat /\ written <= written'
    BY <1>1, <1>2
  <2> QED BY <2>1, <2>2, StillAnswer
<1>4. written' \in 1..Len(plan.tables) /\ pending \in 0..written'
  BY <1>1, <1>2
<1> QED BY <1>1, <1>3, <1>4 DEF Kept

\* Of two different rows, an order of its own puts one first.
LEMMA PrecedesTotal ==
  ASSUME NEW t, \A r \in t.rows : r \in Nat /\ t.moment[r] \in Nat,
         NEW q, Ordered(q), NEW x \in t.rows, NEW y \in t.rows, x # y
  PROVE  Precedes(t, q, x, y) \/ Precedes(t, q, y, x)
<1>1. x \in Nat /\ y \in Nat /\ t.moment[x] \in Nat /\ t.moment[y] \in Nat
  OBVIOUS
<1>2. \/ q.list = "proposals"
      \/ q.list = "history"
      \/ q.list = "validators" /\ q.sort = "name"
  BY DEF Ordered
<1>3. CASE q.list = "proposals"
  BY <1>1, <1>3 DEF Precedes
<1>4. CASE q.list = "history"
  BY <1>1, <1>4 DEF Precedes
<1>5. CASE q.list = "validators" /\ q.sort = "name"
  BY <1>1, <1>5 DEF Precedes
<1> QED BY <1>2, <1>3, <1>4, <1>5

\* So there is one way to sort them.
LEMMA SortedOnce ==
  ASSUME NEW t, \A r \in t.rows : r \in Nat /\ t.moment[r] \in Nat,
         NEW q, Ordered(q), NEW S, S \subseteq t.rows, Cardinality(S) \in Nat,
         NEW s, ListsOnce(s, S), Sorted(t, s, q), NEW u, ListsOnce(u, S), Sorted(t, u, q)
  PROVE  s = u
<1> DEFINE n == Cardinality(S)
           D == 1..n
           differ == {i \in D : s[i] # u[i]}
<1>1. /\ s \in [D -> S] /\ u \in [D -> S]
      /\ \A i, j \in D : i # j => s[i] # s[j] /\ u[i] # u[j]
      /\ \A x \in S : (\E i \in D : s[i] = x) /\ (\E i \in D : u[i] = x)
  BY DEF ListsOnce
<1>2. D \subseteq Nat
  OBVIOUS
<1> HIDE DEF D
<1>3. ASSUME differ # {}
      PROVE  FALSE
  <2>1. PICK i \in differ : \A j \in differ : i <= j
    <3>1. differ \subseteq Nat
      BY <1>2
    <3> HIDE DEF differ
    <3> QED BY <1>3, <3>1, MinIsIn
  <2>2. PICK j \in D : u[j] = s[i]
    BY <1>1
  <2>3. PICK k \in D : s[k] = u[i]
    BY <1>1
  <2>4. ASSUME NEW l \in D, l < i
        PROVE  s[l] = u[l]
    BY <1>2, <2>1, <2>4
  <2>5. i < j
    <3>1. j # i
      BY <2>2
    <3>2. ~(j < i)
      BY <1>1, <2>2, <2>4, <3>1
    <3> QED BY <1>2, <3>1, <3>2
  <2>6. i < k
    <3>1. k # i
      BY <2>3
    <3>2. ~(k < i)
      BY <1>1, <2>3, <2>4, <3>1
    <3> QED BY <1>2, <3>1, <3>2
  <2>7. ~Precedes(t, q, u[i], s[i])
    <3>1. ~Precedes(t, q, s[k], s[i])
      BY <1>1, <2>6 DEF Sorted
    <3> QED BY <2>3, <3>1
  <2>8. ~Precedes(t, q, s[i], u[i])
    <3>1. ~Precedes(t, q, u[j], u[i])
      BY <1>1, <2>5 DEF Sorted
    <3> QED BY <2>2, <3>1
  <2>9. s[i] \in t.rows /\ u[i] \in t.rows /\ s[i] # u[i]
    BY <1>1
  <2> QED BY <2>7, <2>8, <2>9, PrecedesTotal
<1>4. \A i \in D : s[i] = u[i]
  BY <1>3
<1> QED BY <1>1, <1>4

\* Two pages of one list have no row in common, and all its pages have all rows.
LEMMA PagesApart ==
  ASSUME NEW S, NEW n \in Nat, NEW s \in [1..n -> S],
         \A i, j \in 1..n : i # j => s[i] # s[j],
         NEW l \in Nat \ {0}, NEW m \in Nat \ {0}, l # m,
         NEW x, NEW y, IsPage(x, s, n, l), IsPage(y, s, n, m)
  PROVE  Keys(x) \intersect Keys(y) = {}
<1> SUFFICES ASSUME NEW i \in DOMAIN x, NEW j \in DOMAIN y, x[i] = y[j]
             PROVE  FALSE
  BY DEF Keys
<1>1. /\ i \in 1..ListSize /\ (l - 1) * ListSize + i \in 1..n /\ x[i] = s[(l - 1) * ListSize + i]
      /\ j \in 1..ListSize /\ (m - 1) * ListSize + j \in 1..n /\ y[j] = s[(m - 1) * ListSize + j]
  BY DEF IsPage
<1>2. (l - 1) * ListSize + i = (m - 1) * ListSize + j
  BY <1>1
<1>3. \A a, b \in Nat : a < b => a * ListSize + ListSize <= b * ListSize
  BY ListSizeType
<1>4. l - 1 \in Nat /\ m - 1 \in Nat /\ (l - 1 < m - 1 \/ m - 1 < l - 1)
  OBVIOUS
<1> DEFINE a == (l - 1) * ListSize  b == (m - 1) * ListSize
<1>5. a + ListSize <= b \/ b + ListSize <= a
  BY <1>3, <1>4
<1>6. a \in Nat /\ b \in Nat /\ ListSize \in Nat
  BY <1>4, ListSizeType
<1>7. a + i = b + j /\ i \in 1..ListSize /\ j \in 1..ListSize
  BY <1>1, <1>2
<1> HIDE DEF a, b
<1> QED BY <1>5, <1>6, <1>7

\* The page a row of the list is on.
LEMMA PageOfRow ==
  ASSUME NEW n \in Nat, NEW i \in 1..n
  PROVE  \E m \in PagesFor(n) : \E k \in 1..ListSize : (m - 1) * ListSize + k = i
<1> DEFINE L == ListSize  d == (i - 1) \div L
<1>1. L \in Nat \ {0} /\ i - 1 \in Nat
  BY ListSizeType
<1> HIDE DEF L
<1>2. d \in Nat /\ d * L <= i - 1 /\ i - 1 < d * L + L
  BY <1>1
<1>3. d + 1 <= (n + L - 1) \div L
  <2>1. (d + 1) * L = d * L + L
    BY <1>1, <1>2
  <2>2. (d + 1) * L <= n + L - 1
    BY <1>1, <1>2, <2>1
  <2> DEFINE b == n + L - 1  a == d + 1
  <2>3. a \in Nat /\ b \in Nat
    BY <1>1, <1>2
  <2> HIDE DEF a, b, d
  <2>4. a * L <= b
    BY <2>2 DEF a, b
  <2>5. a <= b \div L
    BY <1>1, <2>3, <2>4
  <2> QED BY <2>5 DEF a, b
<1> DEFINE k == i - d * L
<1>4. d + 1 \in PagesFor(n)
  <2>1. (n + L - 1) \div L \in Nat
    BY <1>1
  <2> QED BY <1>2, <1>3, <2>1 DEF PagesFor, L
<1> HIDE DEF d
<1>5. d * L \in Nat
  BY <1>1, <1>2
<1> DEFINE m == d + 1
<1>6. m \in PagesFor(n)
  BY <1>4
<1>7. m - 1 = d
  BY <1>2
<1> HIDE DEF m
<1>8. k \in 1..L /\ (m - 1) * L + k = i
  BY <1>1, <1>2, <1>5, <1>7
<1> HIDE DEF k
<1> QED BY <1>6, <1>8 DEF L

\* Another page of the same list is of the same rows in the same order.
LEMMA SameList ==
  ASSUME NEW t, NEW q \in Questions, NEW p \in Questions, p = [q EXCEPT !.page = p.page]
  PROVE  /\ Matching(t, p) = Matching(t, q) /\ (Ordered(p) <=> Ordered(q))
         /\ \A s : Sorted(t, s, p) <=> Sorted(t, s, q)
<1>1. p.list = q.list /\ p.tab = q.tab /\ p.of = q.of /\ p.sort = q.sort
  BY DEF Questions
<1>2. \A x, y : Precedes(t, p, x, y) <=> Precedes(t, q, x, y)
  BY <1>1 DEF Precedes
<1> QED BY <1>1, <1>2 DEF Matching, Ordered, Sorted

\* What is kept of one list, read of the same tables, are pages of one sequence.
LEMMA OneList ==
  ASSUME Typed, Kept, NEW q \in DOMAIN cache, Ordered(q)
  PROVE  \E s : /\ ListsOnce(s, Listed(q))
                /\ \A p \in PagesOf(q) : IsPage(cache[p].rows, s, Cardinality(Listed(q)), p.page)
<1> DEFINE t == plan.tables[cache[q].at]
           S == Matching(t, q)
           n == Cardinality(S)
<1>1. PICK s : IsAnswer(plan.tables, written, cache[q], q, s)
  BY DEF Kept
<1>2. cache[q].at \in 1..Len(plan.tables) /\ plan \in Plans
  <2>1. Len(plan.tables) \in Nat
    BY TablesType DEF Typed
  <2> QED BY <1>1, <2>1 DEF IsAnswer, Kept, Typed
<1>3. t.rows \subseteq Rows /\ \A r \in t.rows : r \in Nat /\ t.moment[r] \in Nat
  BY <1>2, TablesAre
<1>4. S \subseteq t.rows /\ n \in Nat
  BY <1>3, MatchingFinite
<1>5. ListsOnce(s, S) /\ Sorted(t, s, q)
  BY <1>1 DEF IsAnswer
<1>6. ASSUME NEW p \in PagesOf(q)
      PROVE  IsPage(cache[p].rows, s, n, p.page)
  <2>1. /\ p \in DOMAIN cache /\ p \in Questions /\ q \in Questions
        /\ p = [q EXCEPT !.page = p.page] /\ cache[p].at = cache[q].at
    BY <1>6 DEF PagesOf, Kept
  <2>2. PICK u : IsAnswer(plan.tables, written, cache[p], p, u)
    BY <2>1 DEF Kept
  <2>3. Matching(t, p) = S /\ (Sorted(t, u, p) <=> Sorted(t, u, q))
    BY <2>1, SameList
  <2>4. ListsOnce(u, S) /\ Sorted(t, u, q) /\ IsPage(cache[p].rows, u, n, p.page)
    BY <2>1, <2>2, <2>3 DEF IsAnswer
  <2> HIDE DEF S, t
  <2>5. s = u
    BY <1>3, <1>4, <1>5, <2>4, SortedOnce
  <2> QED BY <2>4, <2>5
<1> QED BY <1>5, <1>6 DEF Listed

\* The rows of a list are finitely many.
LEMMA ListedFinite ==
  ASSUME Typed, Kept, NEW q \in DOMAIN cache
  PROVE  /\ cache[q].at \in 1..written /\ cache[q].at \in 1..Len(plan.tables)
         /\ Listed(q) \subseteq plan.tables[cache[q].at].rows
         /\ IsFiniteSet(Listed(q)) /\ Cardinality(Listed(q)) \in Nat
<1>1. cache[q].at \in 1..written
  BY DEF Kept, IsAnswer
<1>2. cache[q].at \in 1..Len(plan.tables) /\ plan \in Plans
  <2>1. Len(plan.tables) \in Nat
    BY TablesType DEF Typed
  <2> QED BY <1>1, <2>1 DEF Kept, Typed
<1> QED BY <1>1, <1>2, TablesAre, MatchingFinite DEF Listed

\* The pages of a list with an order of its own are that list.
LEMMA PagesFit ==
  ASSUME PanelInv, Kept
  PROVE  PagesAreTheList
<1> USE DEF PanelInv
<1>1. ASSUME NEW q \in DOMAIN cache, NEW i \in DOMAIN cache[q].rows
      PROVE  LET row == cache[q].rows[i]
             IN \/ /\ cache[q].details[i] = row
                   /\ \E t \in Since(cache[q].at) : row \in t.described
                \/ /\ cache[q].details[i] = None
                   /\ \E t \in Since(cache[q].at) : row \notin t.described
  <2>1. PICK s : IsAnswer(plan.tables, written, cache[q], q, s)
    BY DEF Kept
  <2>2. Own(plan.tables, cache[q].at, written, cache[q].rows[i], cache[q].details[i])
    BY <2>1 DEF IsAnswer
  <2> QED BY <2>2 DEF Own, Since
<1>2. ASSUME NEW q \in DOMAIN cache, Ordered(q)
      PROVE  /\ \A p1, p2 \in PagesOf(q) :
                  p1 # p2 => Keys(cache[p1].rows) \intersect Keys(cache[p2].rows) = {}
             /\ PagesFor(Cardinality(Listed(q))) \subseteq {p.page : p \in PagesOf(q)}
                  => UNION {Keys(cache[p].rows) : p \in PagesOf(q)} = Listed(q)
  <2> DEFINE S == Listed(q)
             n == Cardinality(S)
  <2>1. PICK s : /\ ListsOnce(s, S)
                 /\ \A p \in PagesOf(q) : IsPage(cache[p].rows, s, n, p.page)
    BY <1>2, OneList
  <2>2. n \in Nat
    BY ListedFinite
  <2>3. s \in [1..n -> S] /\ \A i, j \in 1..n : i # j => s[i] # s[j]
    BY <2>1 DEF ListsOnce
  <2>4. \A p \in PagesOf(q) : p.page \in Nat \ {0} /\ p = [q EXCEPT !.page = p.page]
    BY DEF PagesOf, Kept, Questions
  <2> HIDE DEF S, n
  <2>5. ASSUME NEW p1 \in PagesOf(q), NEW p2 \in PagesOf(q), p1 # p2
        PROVE  Keys(cache[p1].rows) \intersect Keys(cache[p2].rows) = {}
    <3>1. p1.page # p2.page
      BY <2>4, <2>5
    <3>2. IsPage(cache[p1].rows, s, n, p1.page) /\ IsPage(cache[p2].rows, s, n, p2.page)
      BY <2>1
    <3> QED BY <2>2, <2>3, <2>4, <3>1, <3>2, PagesApart
  <2>6. ASSUME PagesFor(n) \subseteq {p.page : p \in PagesOf(q)}
        PROVE  UNION {Keys(cache[p].rows) : p \in PagesOf(q)} = S
    <3>1. \A p \in PagesOf(q) : Keys(cache[p].rows) \subseteq S
      BY <2>1, <2>3 DEF IsPage, Keys
    <3>2. ASSUME NEW r \in S
          PROVE  \E p \in PagesOf(q) : r \in Keys(cache[p].rows)
      <4>1. PICK i \in 1..n : s[i] = r
        BY <2>1 DEF ListsOnce, n
      <4>2. PICK m \in PagesFor(n) : \E k \in 1..ListSize : (m - 1) * ListSize + k = i
        BY <2>2, PageOfRow
      <4>3. PICK k \in 1..ListSize : (m - 1) * ListSize + k = i
        BY <4>2
      <4>4. PICK p \in PagesOf(q) : p.page = m
        BY <2>6
      <4>5. IsPage(cache[p].rows, s, n, m)
        BY <2>1, <4>4
      <4>6. k \in DOMAIN cache[p].rows /\ cache[p].rows[k] = r
        BY <4>1, <4>3, <4>5, <2>2 DEF IsPage
      <4> QED BY <4>4, <4>6 DEF Keys
    <3> QED BY <3>1, <3>2
  <2> QED BY <2>5, <2>6 DEF S, n
<1> QED BY <1>1, <1>2 DEF PagesAreTheList

\* What is kept and shown are rows there were.
LEMMA RowsKept ==
  ASSUME PanelInv, Kept
  PROVE  \A q \in DOMAIN cache :
           cache[q].at \in 1..written /\ Keys(cache[q].rows) \subseteq plan.tables[cache[q].at].rows
<1> SUFFICES ASSUME NEW q \in DOMAIN cache
             PROVE  /\ cache[q].at \in 1..written
                    /\ Keys(cache[q].rows) \subseteq plan.tables[cache[q].at].rows
  OBVIOUS
<1>1. PICK s : IsAnswer(plan.tables, written, cache[q], q, s)
  BY DEF Kept
<1>2. cache[q].at \in 1..written /\ Listed(q) \subseteq plan.tables[cache[q].at].rows
  BY ListedFinite DEF PanelInv
<1>3. Keys(cache[q].rows) \subseteq Listed(q)
  BY <1>1 DEF IsAnswer, ListsOnce, IsPage, Keys, Listed
<1> QED BY <1>2, <1>3

\* The position of a row in a sorted list is the number of rows that do not come
\* after it.
LEMMA PositionIs ==
  ASSUME NEW t, \A r \in t.rows : r \in Nat /\ t.moment[r] \in Nat,
         NEW q, Ordered(q), NEW S, S \subseteq t.rows, Cardinality(S) \in Nat,
         NEW s, ListsOnce(s, S), Sorted(t, s, q), NEW k \in 1..Cardinality(S)
  PROVE  Cardinality({x \in S : x = s[k] \/ Precedes(t, q, x, s[k])}) = k
<1> DEFINE n == Cardinality(S)
           D == 1..n
           U == {x \in S : x = s[k] \/ Precedes(t, q, x, s[k])}
<1>1. /\ s \in [D -> S] /\ \A i, j \in D : i # j => s[i] # s[j]
      /\ \A x \in S : \E i \in D : s[i] = x
  BY DEF ListsOnce
<1>2. k \in D /\ D \subseteq Nat /\ 1..k \subseteq D
  OBVIOUS
<1> HIDE DEF D
<1>3. \A i \in D : s[i] \in U <=> i <= k
  <2> SUFFICES ASSUME NEW i \in D
               PROVE  s[i] \in U <=> i <= k
    OBVIOUS
  <2>1. s[i] \in S /\ s[k] \in S /\ s[i] \in t.rows /\ s[k] \in t.rows /\ DOMAIN s = D
    BY <1>1, <1>2
  <2>2. CASE i < k
    <3>1. s[i] # s[k] /\ ~Precedes(t, q, s[k], s[i])
      <4>1. i # k
        BY <1>2, <2>2
      <4> QED BY <1>1, <1>2, <2>1, <2>2, <4>1 DEF Sorted
    <3>2. Precedes(t, q, s[i], s[k])
      BY <2>1, <3>1, PrecedesTotal
    <3> QED BY <1>2, <2>1, <2>2, <3>2
  <2>3. CASE i = k
    BY <1>2, <2>1, <2>3
  <2>4. CASE k < i
    <3>1. s[i] # s[k] /\ ~Precedes(t, q, s[i], s[k])
      <4>1. i # k
        BY <1>2, <2>4
      <4> QED BY <1>1, <1>2, <2>1, <2>4, <4>1 DEF Sorted
    <3> QED BY <1>2, <2>4, <3>1
  <2> QED BY <1>2, <2>2, <2>3, <2>4
<1> DEFINE f == [i \in 1..k |-> s[i]]
<1>4. f \in Bijection(1..k, U)
  <2>1. \A i \in 1..k : f[i] \in U
    BY <1>2, <1>3
  <2>2. \A i, j \in 1..k : i # j => f[i] # f[j]
    BY <1>1, <1>2
  <2>3. \A x \in U : \E i \in 1..k : f[i] = x
    <3> SUFFICES ASSUME NEW x \in U
                 PROVE  \E i \in 1..k : f[i] = x
      OBVIOUS
    <3>1. PICK i \in D : s[i] = x
      BY <1>1
    <3>2. i <= k
      BY <1>3, <3>1
    <3>3. i \in 1..k
      <4>1. D = 1..n
        BY DEF D
      <4> QED BY <3>2, <4>1
    <3> QED BY <3>1, <3>3
  <2> HIDE DEF U
  <2>4. f \in [1..k -> U]
    BY <2>1
  <2> HIDE DEF f
  <2>5. f \in Injection(1..k, U)
    BY <2>2, <2>4 DEF Injection, IsInjective
  <2>6. f \in Surjection(1..k, U)
    BY <2>3, <2>4 DEF Surjection
  <2> QED BY <2>5, <2>6 DEF Bijection
<1> HIDE DEF U, f
<1>5. k \in Nat /\ IsFiniteSet(1..k) /\ Cardinality(1..k) = k
  <2>1. k \in Nat /\ 1 \in Int /\ k \in Int
    BY <1>2
  <2> QED BY <2>1, FS_Interval
<1>6. ExistsBijection(1..k, U)
  BY <1>4 DEF ExistsBijection
<1>7. Cardinality(U) = k
  BY <1>5, <1>6, FS_Bijection
<1> QED BY <1>7 DEF U

\* In a list that has grown a row comes no earlier than before.
LEMMA PositionGrows ==
  ASSUME Typed, NEW q, NEW v \in 1..Len(plan.tables), NEW w \in 1..Len(plan.tables),
         Grown(q, v, w), NEW r \in Matching(plan.tables[v], q)
  PROVE  Cardinality({x \in Matching(plan.tables[v], q) :
                        x = r \/ Precedes(plan.tables[v], q, x, r)})
           <= Cardinality({x \in Matching(plan.tables[w], q) :
                             x = r \/ Precedes(plan.tables[w], q, x, r)})
<1> DEFINE t == plan.tables[v]
           u == plan.tables[w]
           A == {x \in Matching(t, q) : x = r \/ Precedes(t, q, x, r)}
           B == {x \in Matching(u, q) : x = r \/ Precedes(u, q, x, r)}
<1>1. IsFiniteSet(Matching(u, q))
  BY TablesAre, MatchingFinite DEF Typed
<1>2. /\ Matching(t, q) \subseteq Matching(u, q)
      /\ \A x \in Matching(t, q) : u.moment[x] = t.moment[x]
  BY DEF Grown
<1> HIDE DEF t, u
<1>3. \A x \in Matching(t, q) : Precedes(t, q, x, r) => Precedes(u, q, x, r)
  BY <1>2 DEF Precedes, t
<1>4. A \subseteq B /\ B \subseteq Matching(u, q)
  BY <1>2, <1>3
<1> HIDE DEF A, B
<1>5. Cardinality(A) <= Cardinality(B)
  BY <1>1, <1>4, FS_Subset
<1> QED BY <1>5 DEF A, B, t, u

\* Where a row is that is in the list of page n: at position k, and on the page
\* if that is one of the page's.
LEMMA PlaceOnPage ==
  ASSUME Typed, Kept, NEW p \in DOMAIN cache, Ordered(p), NEW r \in Listed(p)
  PROVE  LET t == plan.tables[cache[p].at]
             k == Cardinality({x \in Listed(p) : x = r \/ Precedes(t, p, x, r)})
         IN /\ k \in 1..Cardinality(Listed(p))
            /\ \A i \in 1..ListSize :
                 (p.page - 1) * ListSize + i = k => r \in Keys(cache[p].rows)
<1> DEFINE t == plan.tables[cache[p].at]
           S == Listed(p)
           n == Cardinality(S)
           k == Cardinality({x \in S : x = r \/ Precedes(t, p, x, r)})
<1>1. PICK s : IsAnswer(plan.tables, written, cache[p], p, s)
  BY DEF Kept
<1>2. /\ cache[p].at \in 1..Len(plan.tables) /\ plan \in Plans
      /\ S \subseteq t.rows /\ n \in Nat
  BY ListedFinite DEF Typed
<1>3. \A x \in t.rows : x \in Nat /\ t.moment[x] \in Nat
  BY <1>2, TablesAre
<1>4. ListsOnce(s, S) /\ Sorted(t, s, p) /\ IsPage(cache[p].rows, s, n, p.page)
  BY <1>1 DEF IsAnswer, Listed
<1>5. PICK l \in 1..n : s[l] = r
  BY <1>4 DEF ListsOnce
<1> HIDE DEF t, S
<1>6. Cardinality({x \in S : x = s[l] \/ Precedes(t, p, x, s[l])}) = l
  BY <1>2, <1>3, <1>4, PositionIs
<1>7. k = l
  BY <1>5, <1>6
<1> HIDE DEF k
<1>8. ASSUME NEW i \in 1..ListSize, (p.page - 1) * ListSize + i = k
      PROVE  r \in Keys(cache[p].rows)
  <2>1. i \in DOMAIN cache[p].rows
    BY <1>2, <1>4, <1>5, <1>7, <1>8 DEF IsPage
  <2>2. cache[p].rows[i] = r
    BY <1>4, <1>5, <1>7, <1>8, <2>1 DEF IsPage
  <2> QED BY <2>1, <2>2 DEF Keys
<1>9. k \in 1..n
  BY <1>7
<1> QED BY <1>8, <1>9 DEF k, S, t

\* Who leafs through a list that only grows reaches each row at the first page
\* that its position is on.
LEMMA LeafedThrough ==
  ASSUME PanelInv, Kept
  PROVE  NothingSkipped
<1> USE DEF PanelInv
<1> SUFFICES ASSUME NEW q \in DOMAIN cache, Ordered(q),
                    \A n \in 1..q.page : [q EXCEPT !.page = n] \in DOMAIN cache,
                    \A m, n \in 1..q.page : m < n =>
                      Grown(q, cache[[q EXCEPT !.page = m]].at, cache[[q EXCEPT !.page = n]].at),
                    q.page * ListSize >= Cardinality(Listed(q)),
                    NEW r \in Listed([q EXCEPT !.page = 1])
             PROVE  \E n \in 1..q.page : r \in Keys(cache[[q EXCEPT !.page = n]].rows)
  BY DEF NothingSkipped
<1> DEFINE P == 1..q.page
           page(n) == [q EXCEPT !.page = n]
           at(n) == cache[page(n)].at
           Upto(n) == {x \in Matching(plan.tables[at(n)], q) :
                         x = r \/ Precedes(plan.tables[at(n)], q, x, r)}
           pos(n) == Cardinality(Upto(n))
<1>1. q \in Questions /\ q.page \in Nat \ {0} /\ ListSize \in Nat \ {0}
  BY ListSizeType DEF Kept, Questions
<1>2. page(q.page) = q /\ 1 \in P /\ q.page \in P
  BY <1>1 DEF Questions
<1>3. ASSUME NEW n \in P
      PROVE  /\ page(n) \in DOMAIN cache /\ page(n) \in Questions /\ Ordered(page(n))
             /\ page(n).page = n /\ at(n) \in 1..Len(plan.tables)
             /\ Listed(page(n)) = Matching(plan.tables[at(n)], q)
             /\ \A x, t : Precedes(t, page(n), x, r) <=> Precedes(t, q, x, r)
  <2>1. page(n) \in DOMAIN cache /\ page(n).page = n
    BY <1>1 DEF Questions
  <2>2. page(n) \in Questions
    BY <2>1 DEF Kept
  <2>3. at(n) \in 1..Len(plan.tables)
    BY <2>1, ListedFinite
  <2>4. /\ page(n) = [q EXCEPT !.page = page(n).page]
    BY <2>1
  <2>5. /\ page(n).list = q.list /\ page(n).sort = q.sort
    BY <1>1 DEF Questions
  <2>6. Matching(plan.tables[at(n)], page(n)) = Matching(plan.tables[at(n)], q) /\ Ordered(page(n))
    BY <1>1, <2>2, <2>4, SameList
  <2>7. \A x, t : Precedes(t, page(n), x, r) <=> Precedes(t, q, x, r)
    BY <2>5 DEF Precedes
  <2> QED BY <2>1, <2>2, <2>3, <2>6, <2>7 DEF Listed
<1> HIDE DEF page, at, P
<1>4. ASSUME NEW n \in P
      PROVE  r \in Matching(plan.tables[at(n)], q)
  <2>1. r \in Matching(plan.tables[at(1)], q)
    BY <1>2, <1>3 DEF page
  <2>2. CASE n = 1
    BY <2>1, <2>2
  <2>3. CASE n # 1
    <3>1. 1 < n
      BY <2>3 DEF P
    <3>2. Grown(q, at(1), at(n))
      BY <1>2, <3>1 DEF P, at, page
    <3> QED BY <2>1, <3>2 DEF Grown
  <2> QED BY <2>2, <2>3
<1>5. ASSUME NEW n \in P
      PROVE  /\ pos(n) \in 1..Cardinality(Matching(plan.tables[at(n)], q))
             /\ \A i \in 1..ListSize :
                  (n - 1) * ListSize + i = pos(n) => r \in Keys(cache[page(n)].rows)
  <2> DEFINE p == page(n)
             t == plan.tables[at(n)]
  <2>1. p \in DOMAIN cache /\ Ordered(p) /\ r \in Listed(p) /\ p.page = n /\ cache[p].at = at(n)
    BY <1>3, <1>4 DEF at
  <2>2. {x \in Listed(p) : x = r \/ Precedes(t, p, x, r)} = Upto(n)
    BY <1>3
  <2> HIDE DEF p, Upto
  <2>3. LET k == Cardinality({x \in Listed(p) : x = r \/ Precedes(t, p, x, r)})
        IN /\ k \in 1..Cardinality(Listed(p))
           /\ \A i \in 1..ListSize :
                (p.page - 1) * ListSize + i = k => r \in Keys(cache[p].rows)
    BY <2>1, PlaceOnPage
  <2>4. Listed(p) = Matching(plan.tables[at(n)], q)
    BY <1>3 DEF p
  <2> QED BY <2>1, <2>2, <2>3, <2>4 DEF p
<1>6. ASSUME NEW m \in P, NEW n \in P, m < n
      PROVE  pos(m) <= pos(n)
  <2>1. Grown(q, at(m), at(n))
    BY <1>6 DEF P, at, page
  <2> DEFINE v == at(m)
             w == at(n)
  <2>2. /\ v \in 1..Len(plan.tables) /\ w \in 1..Len(plan.tables) /\ Grown(q, v, w)
        /\ r \in Matching(plan.tables[v], q) /\ Typed
    BY <1>3, <1>4, <2>1
  <2> HIDE DEF v, w
  <2>3. Cardinality({x \in Matching(plan.tables[v], q) :
                       x = r \/ Precedes(plan.tables[v], q, x, r)})
          <= Cardinality({x \in Matching(plan.tables[w], q) :
                            x = r \/ Precedes(plan.tables[w], q, x, r)})
    BY <2>2, PositionGrows
  <2> QED BY <2>3 DEF v, w
<1>7. pos(q.page) <= q.page * ListSize /\ \A n \in P : pos(n) \in Nat \ {0}
  <2>1. pos(q.page) \in 1..Cardinality(Listed(q))
    BY <1>2, <1>3, <1>5
  <2>2. \A n \in P : pos(n) \in Nat \ {0}
    <3> HIDE DEF pos
    <3> QED BY <1>5
  <2>3. Cardinality(Listed(q)) \in Nat /\ q.page * ListSize \in Nat
    BY <1>1, ListedFinite
  <2> HIDE DEF pos
  <2> QED BY <2>1, <2>2, <2>3
<1> HIDE DEF pos
<1> DEFINE R == {n \in P : pos(n) <= n * ListSize}
<1>8. PICK n \in R : \A m \in R : n <= m
  <2>1. q.page \in R /\ R \subseteq Nat
    BY <1>2, <1>7 DEF P
  <2> HIDE DEF R
  <2> QED BY <2>1, MinIsIn
<1>9. (n - 1) * ListSize < pos(n)
  <2>1. CASE n = 1
    BY <1>1, <1>7, <1>8, <2>1
  <2>2. CASE n # 1
    <3>1. n - 1 \in P /\ n - 1 < n /\ n - 1 \in Nat /\ n \in P /\ n \in Nat
      BY <1>1, <1>8, <2>2 DEF P
    <3>2. n - 1 \notin R
      BY <1>8, <3>1 DEF P
    <3>3. (n - 1) * ListSize < pos(n - 1)
      <4>1. ~(pos(n - 1) <= (n - 1) * ListSize) /\ pos(n - 1) \in Nat
        BY <1>7, <3>1, <3>2
      <4> DEFINE l == n - 1
                 a == l * ListSize
      <4>2. a \in Nat
        BY <1>1, <3>1
      <4> HIDE DEF a
      <4>3. ~(pos(l) <= a) /\ pos(l) \in Nat
        BY <4>1 DEF a
      <4> HIDE DEF l
      <4>4. a < pos(l)
        BY <4>2, <4>3
      <4> QED BY <4>4 DEF a, l
    <3>4. pos(n - 1) <= pos(n)
      BY <1>6, <3>1
    <3>5. (n - 1) * ListSize \in Nat /\ pos(n - 1) \in Nat /\ pos(n) \in Nat
      BY <1>1, <1>7, <3>1
    <3> QED BY <3>3, <3>4, <3>5
  <2> QED BY <2>1, <2>2
<1>10. \E i \in 1..ListSize : (n - 1) * ListSize + i = pos(n)
  <2> DEFINE a == (n - 1) * ListSize
             i == pos(n) - a
  <2>1. n \in P /\ n - 1 \in Nat /\ a \in Nat /\ pos(n) \in Nat
    BY <1>1, <1>7, <1>8 DEF P
  <2>2. n * ListSize = a + ListSize
    <3> DEFINE l == n - 1
    <3>1. l \in Nat /\ n = l + 1
      BY <2>1 DEF P
    <3> HIDE DEF l
    <3>2. (l + 1) * ListSize = l * ListSize + ListSize
      BY <1>1, <3>1
    <3> QED BY <3>1, <3>2 DEF l
  <2>3. pos(n) <= a + ListSize /\ a < pos(n)
    BY <1>8, <1>9, <2>2
  <2> HIDE DEF a
  <2>4. i \in 1..ListSize /\ a + i = pos(n)
    BY <1>1, <2>1, <2>3
  <2> QED BY <2>4 DEF a
<1>11. n \in P /\ r \in Keys(cache[page(n)].rows)
  BY <1>5, <1>8, <1>10
<1> QED BY <1>11 DEF P, page

(***************************************************************************)
(* The screens                                                             *)
(***************************************************************************)

\* What the panels rest on is as before.
LEMMA PanelsKept ==
  ASSUME PanelInv, UNCHANGED <<plan, wallet, place, flight, panel, ledger>>
  PROVE  PanelInv'
BY DEF PanelInv, Typed, AllSound, Hosted, Newest, About, ShowsEnded, BrokenByStakes

\* The beginning.
LEMMA ScreensStart ==
  ASSUME ScreensInit
  PROVE  IInv
<1>1. PanelInv /\ SumInv
  BY PanelInit, SumInit DEF ScreensInit
<1>2. ListInv
  BY DEF ScreensInit, ListInit, ListInv
<1>3. Kept
  <2>1. place.host \in Hosts
    BY <1>1 DEF PanelInv, Typed, Place
  <2>2. 1 \in 1..Len(plan.tables)
    BY <1>1, TablesType DEF PanelInv, Typed
  <2>3. params \in Params
    BY <2>1, ParamsAtType DEF ScreensInit, ListInit
  <2>4. written = 1 /\ pending = 0 /\ waiting = {} /\ executed = None /\ DOMAIN cache = {}
    BY DEF ScreensInit, ListInit
  <2> QED BY <2>2, <2>3, <2>4 DEF Kept
<1>4. QED BY <1>1, <1>2, <1>3 DEF IInv

\* The user goes somewhere, or the wallet changes: panels and list follow.
LEMMA VisitsStep ==
  ASSUME IInv, Visits
  PROVE  IInv'
<1>1. CASE \E p \in Places : GoTo(p) /\ ListVisit(FALSE)
  <2>1. PICK p \in Places : GoTo(p) /\ ListVisit(FALSE)
    BY <1>1
  <2>2. PanelInv' /\ SumInv'
    BY <2>1, GoToStep, VisitSum DEF IInv
  <2>3. plan' = plan /\ \E renewed : ListVisit(renewed)
    BY <2>1 DEF GoTo, Follow
  <2>4. QED BY <2>2, <2>3, ListVisitStep DEF IInv
<1>2. CASE \E w \in Wallet : WalletChanges(w) /\ ListVisit(TRUE)
  <2>1. PICK w \in Wallet : WalletChanges(w) /\ ListVisit(TRUE)
    BY <1>2
  <2>2. PanelInv' /\ SumInv'
    BY <2>1, WalletChangesStep, VisitSum DEF IInv
  <2>3. plan' = plan /\ \E renewed : ListVisit(renewed)
    BY <2>1 DEF WalletChanges, Follow
  <2>4. QED BY <2>2, <2>3, ListVisitStep DEF IInv
<1>3. QED BY <1>1, <1>2 DEF Visits

\* A fetch goes on, and may lead to an error page.
LEMMA ReadingStep ==
  ASSUME IInv, Reading
  PROVE  IInv'
<1>1. PanelInv' /\ SumInv' /\ plan' = plan
  BY ProgressStep, ProgressSum DEF IInv, Reading
<1>2. \E renewed : ListVisit(renewed)
  BY DEF Reading
<1>3. QED BY <1>1, <1>2, ListVisitStep DEF IInv

\* The chain changes, and no list notices.
LEMMA MovingStep ==
  ASSUME IInv, Moving
  PROVE  IInv'
<1>1. PICK a \in Known, v \in Validators :
        Delegate(a, v) \/ Undelegate(a, v) \/ Accrue(a, v) \/ Mature(a, v)
  BY DEF Moving, Changes
<1>2. PanelInv' /\ SumInv'
  BY <1>1, ChangesStep, ChangesSum DEF IInv, Moving
<1>3. UNCHANGED <<plan, wallet, place>>
  BY <1>1 DEF Delegate, Undelegate, Accrue, Mature, Moves, Stays
<1>4. UNCHANGED <<written, params, waiting, overtaken, executed, pending, cache>>
  BY DEF Moving, listVars
<1>5. QED BY <1>2, <1>3, <1>4, ListKept, AllKept DEF IInv

\* The user chooses, or the server answers, and no panel notices.
LEMMA ListingStep ==
  ASSUME IInv, Listing
  PROVE  IInv'
<1>1. UNCHANGED <<flight, panel, ledger, events>>
  BY DEF Listing, panels, chain
<1>2. CASE Chooses
  <2>1. /\ UNCHANGED <<plan, wallet, place>> /\ params' \in Params
        /\ \E renewed : Refetches(renewed)
    BY <1>2, ChoosesParams DEF IInv, PanelInv
  <2>2. plan' \in Plans /\ wallet' \in Wallet /\ place' \in Place
    BY <2>1 DEF IInv, PanelInv, Typed
  <2>3. ListInv' /\ Kept'
    BY <2>1, <2>2, RefetchesStep, RefetchesKept DEF IInv
  <2> QED BY <1>1, <2>1, <2>3, PanelsKept, SumKept DEF IInv
<1>3. CASE \E e \in waiting : DelegationsCome(e)
  <2>1. PICK e \in waiting : DelegationsCome(e)
    BY <1>3
  <2>2. UNCHANGED <<plan, wallet, place>>
    BY <2>1 DEF DelegationsCome
  <2>3. ListInv' /\ Kept'
    BY <2>1, DelegationsStep, DelegationsKept DEF IInv
  <2> QED BY <1>1, <2>2, <2>3, PanelsKept, SumKept DEF IInv
<1>4. CASE AnswerComes \/ AnswerFails
  <2>1. UNCHANGED <<plan, wallet, place, params, waiting, overtaken, executed>>
    BY <1>4 DEF AnswerComes, AnswerFails
  <2>2. Kept'
    <3>1. AnswerFails => Kept'
      <4>1. Kept => written \in Nat
        BY DEF Kept
      <4> QED BY <4>1 DEF AnswerFails, Kept, IInv
    <3> QED BY <1>4, <3>1, AnswerKept DEF IInv, PanelInv
  <2>3. QED BY <1>1, <2>1, <2>2, PanelsKept, SumKept, ListKept DEF IInv
<1>5. CASE Indexes
  <2>1. UNCHANGED <<plan, wallet, place, params, waiting, overtaken, executed>>
    BY <1>5 DEF Indexes
  <2>2. Kept'
    BY <1>5, IndexesKept DEF IInv, PanelInv
  <2>3. QED BY <1>1, <2>1, <2>2, PanelsKept, SumKept, ListKept DEF IInv
<1>6. QED BY <1>2, <1>3, <1>4, <1>5 DEF Listing, Answering

(***************************************************************************)
(* Theorems                                                                *)
(***************************************************************************)

\* The panels and the lists of every reachable state agree with where the user
\* is and who is connected, in the sense of IInv.
THEOREM Invariance == ScreensSpec => []IInv
<1>1. ScreensInit => IInv
  BY ScreensStart
<1>2. IInv /\ [ScreensNext]_<<vars, listVars>> => IInv'
  <2> SUFFICES ASSUME IInv, [ScreensNext]_<<vars, listVars>> PROVE IInv'
    OBVIOUS
  <2>1. CASE ScreensNext
    BY <2>1, VisitsStep, ReadingStep, MovingStep, ListingStep DEF ScreensNext
  <2>2. CASE UNCHANGED <<vars, listVars>>
    BY <2>2, PanelsKept, SumKept, ListKept, AllKept DEF IInv, vars, panels, chain, listVars
  <2>3. QED BY <2>1, <2>2
<1>3. QED BY <1>1, <1>2, PTL DEF ScreensSpec

\* What a panel shows is of the address its screen is about, unless an older
\* fetch answered last (PortfolioScreen.tsx:98, OverviewScreen.tsx:60,
\* ValidatorScreen.tsx:150).
THEOREM RouteAnswered == ScreensSpec => []AnswersRoute
<1>1. IInv => AnswersRoute
  BY PanelsAnswer DEF IInv
<1>2. QED BY <1>1, Invariance, PTL

\* Each row of the stakes shows its own reward, and the application renders,
\* unless a delegation was removed between the two reads
\* (StakesTablePanelAPI.tsx:92).
THEOREM RewardsPaired == ScreensSpec => []RowsPaired
<1>1. IInv => RowsPaired
  BY PanelsAnswer DEF IInv
<1>2. QED BY <1>1, Invariance, PTL

\* What a list shows answers the question of the moment, unless the delegations
\* of an older question came last (ProposalScreen.tsx:106, ValidatorScreen.tsx:136,
\* PortfolioScreen.tsx:107, ProposalVotesPanel.tsx:285).
THEOREM QuestionAnswered == ScreensSpec => []PageAnswersQuestion
<1>1. IInv => PageAnswersQuestion
  BY DEF IInv, ListInv, PageAnswersQuestion, Asking, Current, Forms, NoneNewest
<1>2. QED BY <1>1, Invariance, PTL

\* The balance of a portfolio is all its address owns, however many pages it was
\* read in, when the chain did not change for the address meanwhile
\* (PortfolioScreenAPI.ts:60, stakingAPI.ts:143 and :181).
THEOREM TotalCounted == ScreensSpec => []TotalIsWealth
<1>1. IInv => TotalIsWealth
  BY DEF IInv, SumInv
<1>2. QED BY <1>1, Invariance, PTL

\* The types of the panels, of the chain and of the lists.
THEOREM TypeCorrect == ScreensSpec => []ScreensTypeOK
<1>1. IInv => PortfolioTypeOK
  BY PanelTypes DEF IInv
<1>2. IInv => ListTypeOK
  <2>1. IInv => written \in DOMAIN plan.tables
    BY TablesType DEF IInv, Kept, PanelInv, Typed
  <2>2. QED BY <2>1, RowsKept DEF IInv, ListInv, Kept, ListTypeOK
<1>3. QED BY <1>1, <1>2, Invariance, PTL DEF ScreensTypeOK

\* Pages of an ordered list read of the same tables have no row in common and
\* together have all of its rows, and each row of any page has its own details
\* (queries/proposal.go:118, queries/validator.go:137 and :200).
THEOREM PagesComplete == ScreensSpec => []PagesAreTheList
<1>1. IInv => PagesAreTheList
  BY PagesFit DEF IInv
<1>2. QED BY <1>1, Invariance, PTL

\* Leafing through an ordered list while the indexer adds to it misses no row that
\* was there at the first page (queries/proposal.go:118).
THEOREM LeafingComplete == ScreensSpec => []NothingSkipped
<1>1. IInv => NothingSkipped
  BY LeafedThrough DEF IInv
<1>2. QED BY <1>1, Invariance, PTL
=============================================================================
