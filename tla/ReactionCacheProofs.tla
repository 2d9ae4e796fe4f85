------------------------ MODULE ReactionCacheProofs ------------------------
(***************************************************************************)
(* Proofs about ReactionCache, for any number of reactions, mutations in   *)
(* flight, clicks and other people.                                        *)
(***************************************************************************)
EXTENDS ReactionCache, Inductions, SequenceTheorems

USE OthersType, MaxClicksType, NoneIsNoReaction, NoneIsNoRequest

(***************************************************************************)
(* The inductive invariant                                                 *)
(***************************************************************************)
Served == [mine |-> ServedMine, counts |-> ServedCounts]
OneReaction == \A e1, e2 \in book : e1 = e2
NothingAsked == \A c \in Calls : request[c] = None

\* What a page shows that agrees with the server: to a guest, nothing as mine.
Shown == [mine |-> IF hidden THEN None ELSE ServedMine, counts |-> ServedCounts]

CallsInOrder ==
  /\ \A c \in Calls : request[c] = None => outcome[c] = None
  /\ \A c \in Calls : applied[c] => request[c] # None /\ outcome[c] = None
  /\ \A i \in DOMAIN layers : request[layers[i].call] \in {None, RequestFor(layers[i].reaction)}

\* What a page query has read counts everybody else, and nothing is a guest's.
FetchSound ==
  fetch # None =>
    /\ "counts" \in fetch.read => \A r \in Reactions : fetch.counts[r] >= Others[r]
    /\ ~fetch.asMe => fetch.mine = None

\* The page query is alone: what it has read is what the server would answer.
FetchAlone ==
  fetch # None /\ fetch.alone =>
    /\ layers = <<>> /\ NothingAsked
    /\ "counts" \in fetch.read => fetch.counts = ServedCounts
    /\ "mine" \in fetch.read => fetch.mine = IF fetch.asMe THEN ServedMine ELSE None

\* One mutation is in flight: before it takes effect the entry below its layer
\* is what the server would answer, and after it has, what the layer makes of it.
OneMutation(l) ==
  /\ \A c \in Calls \ {l.call} : request[c] = None
  /\ l.reaction # base.mine
  /\ outcome[l.call] = None /\ ~applied[l.call] => base = Served
  /\ applied[l.call] \/ outcome[l.call] = TRUE => Updated(base, l.reaction) = Served

Quiet ==
  /\ Len(layers) <= 1
  /\ layers = <<>> => NothingAsked /\ base = Shown
  /\ layers # <<>> => fetch = None /\ ~hidden /\ OneMutation(layers[1])
  /\ fetch # None => fetch.alone

IInv ==
  /\ TypeOK /\ OneReaction /\ CallsInOrder /\ FetchSound /\ FetchAlone
  /\ CountsNeverShort
  /\ quiet => Quiet

(***************************************************************************)
(* The layers                                                              *)
(***************************************************************************)
Enough(entry) == \A r \in Reactions : entry.counts[r] >= Others[r] + Mine(entry, r)

\* The updater keeps entries well formed, and takes away no more than mine.
LEMMA Updating ==
  ASSUME NEW entry \in Entry, NEW reaction \in Choice
  PROVE  /\ Updated(entry, reaction) \in Entry
         /\ Enough(entry) => Enough(Updated(entry, reaction))
<1> DEFINE new == Updated(entry, reaction)
<1>1. /\ entry.mine \in Choice
      /\ \A r \in Reactions : entry.counts[r] \in Nat /\ Others[r] \in Nat
  BY DEF Entry
<1>2. new.mine = reaction /\ DOMAIN new.counts = Reactions
  BY DEF Updated
<1>3. ASSUME NEW r \in Reactions
      PROVE  new.counts[r] =
               IF r = reaction THEN entry.counts[r] + 1
               ELSE IF r = entry.mine /\ entry.counts[r] # 0 THEN entry.counts[r] - 1
               ELSE entry.counts[r]
  BY DEF Updated
<1>4. \A r \in Reactions : new.counts[r] \in Nat
  BY <1>1, <1>3
<1>5. new \in Entry
  BY <1>2, <1>4 DEF Updated, Entry
<1>6. ASSUME Enough(entry), NEW r \in Reactions
      PROVE  new.counts[r] >= Others[r] + Mine(new, r)
  BY <1>1, <1>2, <1>3, <1>6 DEF Enough, Mine
<1> QED BY <1>5, <1>6 DEF Enough

\* One layer more, on top: that of the call and the reaction of layer.
Onto(above, stack, layer) ==
  /\ above \in Seq(Layer)
  /\ Len(above) = Len(stack) + 1
  /\ \A i \in 1..Len(stack) : above[i] = stack[i]
  /\ above[Len(stack) + 1].call = layer.call
  /\ above[Len(stack) + 1].reaction = layer.reaction
AllEnough(stack) == \A i \in 1..Len(stack) : Enough(stack[i].entry)

\* A layer pushed is one on top, and shows enough when those below do.
LEMMA Pushing ==
  ASSUME NEW below \in Entry, NEW stack \in Seq(Layer), NEW layer \in Layer
  PROVE  /\ Onto(Pushed(below, stack, layer), stack, layer)
         /\ Enough(below) /\ AllEnough(stack) => AllEnough(Pushed(below, stack, layer))
<1> DEFINE under == IF stack = <<>> THEN below ELSE Last(stack).entry
           top == [layer EXCEPT !.entry = Updated(under, layer.reaction)]
<1>1. under \in Entry /\ (Enough(below) /\ AllEnough(stack) => Enough(under))
  <2>1. CASE stack = <<>>
    BY <2>1
  <2>2. CASE stack # <<>>
    <3>1. Len(stack) \in 1..Len(stack)
      BY <2>2, EmptySeq, LenProperties
    <3>2. Last(stack) \in Layer
      BY <3>1 DEF Last
    <3> QED BY <2>2, <3>1, <3>2 DEF Last, Layer, AllEnough
  <2> QED BY <2>1, <2>2
<1>2. Pushed(below, stack, layer) = Append(stack, top)
  BY DEF Pushed
<1> HIDE DEF under
<1>3. top \in Layer /\ (Enough(below) /\ AllEnough(stack) => Enough(top.entry))
  <2>1. layer.reaction \in Choice
    BY DEF Layer
  <2>2. top \in Layer /\ top.entry = Updated(under, layer.reaction)
    BY <1>1, <2>1, Updating DEF Layer
  <2> QED BY <1>1, <2>1, <2>2, Updating
<1> DEFINE above == Pushed(below, stack, layer)
<1>4. /\ above \in Seq(Layer) /\ Len(above) = Len(stack) + 1 /\ Len(stack) \in Nat
      /\ \A i \in 1..Len(stack) : above[i] = stack[i]
      /\ above[Len(stack) + 1] = top
  BY <1>2, <1>3, AppendProperties, LenProperties
<1>5. top.call = layer.call /\ top.reaction = layer.reaction
  BY DEF Layer
<1> HIDE DEF above, top
<1>6. Onto(above, stack, layer)
  BY <1>4, <1>5 DEF Onto
<1>7. Enough(below) /\ AllEnough(stack) => AllEnough(above)
  BY <1>3, <1>4 DEF AllEnough
<1> QED BY <1>6, <1>7 DEF above

\* The layers of kept, and above them new ones of the first n calls of redone.
Redone(stack, below, kept, redone, n) ==
  /\ stack \in Seq(Layer)
  /\ Len(stack) = Len(kept) + n
  /\ \A i \in 1..Len(kept) : stack[i] = kept[i]
  /\ \A i \in 1..n : /\ stack[Len(kept) + i].call = redone[i].call
                     /\ stack[Len(kept) + i].reaction = redone[i].reaction
  /\ Enough(below) /\ AllEnough(kept) => AllEnough(stack)

\* Each further layer pushed is one more computed again.
LEMMA RedoneOneMore ==
  ASSUME NEW below \in Entry, NEW kept \in Seq(Layer), NEW redone \in Seq(Layer),
         NEW n \in Nat, n + 1 <= Len(redone), NEW stack, Redone(stack, below, kept, redone, n)
  PROVE  Redone(Pushed(below, stack, redone[n + 1]), below, kept, redone, n + 1)
<1> DEFINE layer == redone[n + 1]
           above == Pushed(below, stack, layer)
<1>1. layer \in Layer /\ stack \in Seq(Layer)
  BY LenProperties DEF Redone
<1> HIDE DEF layer
<1>2. Onto(above, stack, layer) /\ (Enough(below) /\ AllEnough(stack) => AllEnough(above))
  BY <1>1, Pushing
<1> HIDE DEF above
<1>3. Len(kept) \in Nat /\ Len(stack) = Len(kept) + n
  BY LenProperties DEF Redone
<1>4. \A i \in 1..Len(kept) : above[i] = kept[i]
  BY <1>2, <1>3 DEF Onto, Redone
<1>5. ASSUME NEW i \in 1..(n + 1)
      PROVE  /\ above[Len(kept) + i].call = redone[i].call
             /\ above[Len(kept) + i].reaction = redone[i].reaction
  <2>1. CASE i = n + 1
    BY <1>2, <1>3, <2>1 DEF Onto, layer
  <2>2. CASE i # n + 1
    <3>1. i \in 1..n /\ Len(kept) + i \in 1..Len(stack)
      BY <1>3, <2>2
    <3> QED BY <1>2, <3>1 DEF Onto, Redone
  <2> QED BY <2>1, <2>2
<1>6. above \in Seq(Layer) /\ Len(above) = Len(kept) + (n + 1)
  BY <1>2, <1>3 DEF Onto
<1>7. Enough(below) /\ AllEnough(kept) => AllEnough(above)
  BY <1>2 DEF Redone
<1>8. Redone(above, below, kept, redone, n + 1)
  BY <1>4, <1>5, <1>6, <1>7 DEF Redone
<1> QED BY <1>8 DEF above, layer

\* Computing layers again, by a fold, from the entry below on.
Refolded(below, kept, redone) ==
  FoldLeft(LAMBDA stack, layer : Pushed(below, stack, layer), kept, redone)

\* The fold computes all of them again.
LEMMA Refolding ==
  ASSUME NEW below \in Entry, NEW kept \in Seq(Layer), NEW redone \in Seq(Layer)
  PROVE  Redone(Refolded(below, kept, redone), below, kept, redone, Len(redone))
<1> DEFINE n == Len(redone)
           V == Seq(Layer)
           step == [p \in (1..n) \X V |-> Pushed(below, p[2], redone[p[1]])]
           Body(g) == [t \in SUBSET DOMAIN redone |->
                         IF t = {} THEN kept
                         ELSE Pushed(below, g[t \ {Max(t)}], redone[Max(t)])]
           iter == CHOOSE g : g = Body(g)
<1>1. n \in Nat /\ DOMAIN redone = 1..n
  BY LenProperties
<1>2. \E g : g = Body(g)
  <2>1. step \in [(1..n) \X V -> V]
    <3>1. \A i \in 1..n, stack \in V : Pushed(below, stack, redone[i]) \in V
      BY <1>1, Pushing DEF Onto
    <3> QED BY <3>1
  <2>2. PICK f \in [SUBSET (1..n) -> V] : Folds(f, n, V, kept, step)
    <3> HIDE DEF n, V, step
    <3>1. kept \in V
      BY DEF V
    <3> QED BY <1>1, <2>1, <3>1, FoldRecursion
  <2>3. \A t \in SUBSET (1..n) :
          f[t] = IF t = {} THEN kept ELSE Pushed(below, f[t \ {Max(t)}], redone[Max(t)])
    BY <2>2 DEF Folds
  <2>4. f = Body(f)
    BY <2>3, <1>1
  <2> QED BY <2>4
<1>3. iter = Body(iter)
  BY <1>2
<1>4. iter[{}] = kept
  BY <1>3
<1>5. ASSUME NEW k \in Nat, k + 1 <= n
      PROVE  iter[1..(k + 1)] = Pushed(below, iter[1..k], redone[k + 1])
  <2>1. 1..(k + 1) \in SUBSET DOMAIN redone /\ 1..(k + 1) # {}
    BY <1>1, <1>5
  <2>2. Max(1..(k + 1)) = k + 1 /\ (1..(k + 1)) \ {Max(1..(k + 1))} = 1..k
    BY MaxOfPrefix
  <2> HIDE DEF iter
  <2> QED BY <1>3, <2>1, <2>2
<1> DEFINE N == {k \in Nat : k <= n => Redone(iter[1..k], below, kept, redone, k)}
<1>6. 0 \in N
  <2>1. 1..0 = {}
    OBVIOUS
  <2> HIDE DEF iter
  <2> QED BY <2>1, <1>4, LenProperties DEF Redone
<1>7. ASSUME NEW k \in Nat, k \in N
      PROVE  k + 1 \in N
  <2> HIDE DEF iter
  <2> QED BY <1>1, <1>5, <1>7, RedoneOneMore
<1>8. n \in N
  <2> HIDE DEF N
  <2> QED BY <1>1, <1>6, <1>7, AllNaturals
<1>9. Refolded(below, kept, redone) = iter[1..n]
  BY <1>1 DEF Refolded, FoldLeft, MapThenFoldSet
<1> HIDE DEF iter
<1> QED BY <1>1, <1>8, <1>9

\* What is left of the layers without that of call c, at position at.
Past(at, i) == IF i < at THEN i ELSE i + 1
Dropped(stack, c, below, at) ==
  /\ stack \in Seq(Layer)
  /\ Len(stack) + 1 = Len(layers)
  /\ at \in 1..Len(layers) /\ layers[at].call = c
  /\ \A i \in 1..Len(stack) : /\ stack[i].call = layers[Past(at, i)].call
                              /\ stack[i].reaction = layers[Past(at, i)].reaction
  /\ Enough(below) /\ AllEnough(layers) => AllEnough(stack)

\* Without drops the layer of its call, and shows enough when the layers did.
LEMMA Dropping ==
  ASSUME layers \in Seq(Layer), NEW c \in Calls, Pending(c), NEW below \in Entry
  PROVE  \E at : Dropped(Without(c, below), c, below, at)
<1> DEFINE at == CHOOSE j \in DOMAIN layers : layers[j].call = c
           n == Len(layers)
           kept == SubSeq(layers, 1, at - 1)
           redone == SubSeq(layers, at + 1, n)
           stack == Without(c, below)
<1>1. n \in Nat /\ DOMAIN layers = 1..n /\ \A i \in 1..n : layers[i] \in Layer
  BY LenProperties
<1>2. at \in 1..n /\ layers[at].call = c
  BY <1>1 DEF Pending
<1>3. stack = Refolded(below, kept, redone)
  BY DEF Without, Refolded, FoldLeft, MapThenFoldSet
<1> HIDE DEF at, n, stack
<1>4. /\ kept \in Seq(Layer) /\ Len(kept) = at - 1
      /\ \A i \in 1..(at - 1) : kept[i] = layers[i]
  BY <1>1, <1>2, SubSeqProperties
<1>5. /\ redone \in Seq(Layer) /\ Len(redone) = n - at
      /\ \A i \in 1..(n - at) : redone[i] = layers[at + i]
  BY <1>1, <1>2, SubSeqProperties
<1> HIDE DEF kept, redone
<1>6. Redone(stack, below, kept, redone, n - at)
  BY <1>3, <1>4, <1>5, Refolding
<1>7. stack \in Seq(Layer) /\ Len(stack) = n - 1
  BY <1>1, <1>2, <1>4, <1>6 DEF Redone
<1>8. ASSUME NEW i \in 1..Len(stack)
      PROVE  /\ stack[i].call = layers[Past(at, i)].call
             /\ stack[i].reaction = layers[Past(at, i)].reaction
  <2>1. CASE i < at
    <3>1. i \in 1..(at - 1)
      BY <1>1, <1>2, <1>7, <2>1
    <3> QED BY <1>4, <1>6, <3>1, <2>1 DEF Redone, Past
  <2>2. CASE ~(i < at)
    <3> DEFINE j == i - (at - 1)
    <3>1. j \in 1..(n - at) /\ (at - 1) + j = i /\ at + j = i + 1
      BY <1>1, <1>2, <1>7, <2>2
    <3> HIDE DEF j
    <3>2. /\ stack[(at - 1) + j].call = redone[j].call
          /\ stack[(at - 1) + j].reaction = redone[j].reaction
      BY <1>4, <1>6, <3>1 DEF Redone
    <3> QED BY <1>5, <3>1, <3>2, <2>2 DEF Past
  <2> QED BY <2>1, <2>2
<1>9. Enough(below) /\ AllEnough(layers) => AllEnough(stack)
  <2>1. AllEnough(layers) => AllEnough(kept)
    BY <1>1, <1>2, <1>4 DEF AllEnough, n
  <2> QED BY <1>6, <2>1 DEF Redone
<1>10. Len(stack) + 1 = n
  BY <1>1, <1>7
<1>11. Dropped(stack, c, below, at)
  BY <1>1, <1>2, <1>7, <1>8, <1>9, <1>10 DEF Dropped, n
<1> QED BY <1>11 DEF stack

\* The calls of the layers that are left are different ones, and none is c.
LEMMA DroppedCalls ==
  ASSUME TypeOK, NEW c \in Calls, NEW stack, NEW below, NEW at, Dropped(stack, c, below, at)
  PROVE  /\ \A i, j \in 1..Len(stack) : stack[i].call = stack[j].call => i = j
         /\ \A i \in 1..Len(stack) : stack[i].call # c
<1>1. /\ Len(layers) \in Nat /\ Len(stack) = Len(layers) - 1
      /\ DOMAIN layers = 1..Len(layers) /\ at \in 1..Len(layers)
  BY LenProperties DEF TypeOK, Dropped
<1>2. \A i \in 1..Len(stack) : Past(at, i) \in 1..Len(layers) /\ Past(at, i) # at
  BY <1>1 DEF Past
<1>3. \A i, j \in 1..Len(stack) : Past(at, i) = Past(at, j) => i = j
  BY <1>1 DEF Past
<1>4. \A i \in 1..Len(stack) : stack[i].call = layers[Past(at, i)].call
  BY DEF Dropped
<1>5. \A i, j \in 1..Len(layers) : layers[i].call = layers[j].call => i = j
  BY <1>1 DEF TypeOK
<1>6. at \in 1..Len(layers) /\ layers[at].call = c
  BY DEF Dropped
<1>7. ASSUME NEW i \in 1..Len(stack), NEW j \in 1..Len(stack), stack[i].call = stack[j].call
      PROVE  i = j
  <2>1. layers[Past(at, i)].call = layers[Past(at, j)].call
    BY <1>4, <1>7
  <2> QED BY <1>2, <1>3, <1>5, <2>1
<1>8. ASSUME NEW i \in 1..Len(stack)
      PROVE  stack[i].call # c
  BY <1>2, <1>4, <1>5, <1>6
<1> QED BY <1>7, <1>8

(***************************************************************************)
(* The initial states                                                      *)
(***************************************************************************)
LEMMA InitIInv == Init => IInv
<1> SUFFICES ASSUME Init PROVE IInv
  OBVIOUS
<1> USE DEF Init, Server!Init
<1>1. /\ ServedMine = None /\ \A r \in Reactions : Others[r] \in Nat
      /\ ServedCounts = Others
  BY DEF ServedMine, ServedCounts
<1>2. TypeOK
  <2>1. Server!TypeOK
    BY DEF Server!TypeOK
  <2>2. base \in Entry
    BY DEF Entry, Choice
  <2>3. layers \in Seq(Layer) /\ DOMAIN layers = {}
    BY EmptySeq
  <2>4. clicks \in 0..MaxClicks
    BY 0 \in 0..MaxClicks
  <2>5. fetch = None /\ {session, quiet, hidden, torn} \subseteq BOOLEAN
    OBVIOUS
  <2> HIDE DEF Init
  <2> QED BY <2>1, <2>2, <2>3, <2>4, <2>5 DEF TypeOK
<1>3. OneReaction /\ CallsInOrder /\ FetchSound /\ FetchAlone
  BY DEF OneReaction, CallsInOrder, FetchSound, FetchAlone
<1>4. CountsNeverShort
  BY <1>1 DEF CountsNeverShort, Mine
<1>5. Quiet
  BY <1>1, EmptySeq DEF Quiet, NothingAsked, Shown
<1> QED BY <1>2, <1>3, <1>4, <1>5 DEF IInv

(***************************************************************************)
(* The server                                                              *)
(***************************************************************************)
\* What the server answers is an entry that counts me once.
LEMMA ServedSound ==
  ASSUME TypeOK
  PROVE  ServedMine \in Choice /\ ServedCounts \in [Reactions -> Nat] /\ Served \in Entry
<1>1. ServedMine \in Choice
  BY DEF ServedMine, Choice
<1>2. ServedCounts \in [Reactions -> Nat]
  BY DEF ServedCounts
<1> QED BY <1>1, <1>2 DEF Served, Entry

\* With nothing asked for, the server does nothing.
LEMMA ServerRests ==
  ASSUME NothingAsked, Serve
  PROVE  FALSE
<1>1. ASSUME NEW c \in Calls, Server!ApplySet(c) \/ Server!Answer(c)
      PROVE  FALSE
  BY <1>1 DEF Server!ApplySet, Server!Answer, NothingAsked
<1>2. ASSUME NEW served \in SUBSET Calls, served # {}, Server!ApplyUnset(Me, Proposal, served)
      PROVE  FALSE
  <2>1. PICK c \in served : TRUE
    BY <1>2
  <2>2. request[c] = [kind |-> "unset", user |-> Me, target |-> Proposal]
    BY <1>2, <2>1 DEF Server!ApplyUnset
  <2>3. request[c] \in Server!Request
    BY <2>2 DEF Server!Request
  <2> QED BY <2>1, <2>3 DEF NothingAsked
<1> QED BY <1>1, <1>2 DEF Serve

\* The server counts me under the reaction that is mine, and no other.
LEMMA ServedIsMine ==
  ASSUME TypeOK, OneReaction, NEW r \in Reactions
  PROVE  /\ <<Me, Proposal, r>> \in book <=> r = ServedMine
         /\ ServedCounts[r] = Others[r] + IF r = ServedMine THEN 1 ELSE 0
<1>1. <<Me, Proposal, r>> \in book => r = ServedMine
  BY DEF ServedMine, OneReaction
<1>2. r = ServedMine => <<Me, Proposal, r>> \in book
  BY DEF ServedMine
<1> QED BY <1>1, <1>2 DEF ServedCounts

\* A reaction other than mine takes effect on the server as on the page.
LEMMA SetServed ==
  ASSUME TypeOK, OneReaction, NEW x \in Reactions, x # ServedMine,
         book' = {<<Me, Proposal, x>>}
  PROVE  Updated(Served, x) = Served'
<1> DEFINE new == Updated(Served, x)
<1>1. ServedMine' = x
  BY DEF ServedMine
<1>2. ServedCounts' = [r \in Reactions |-> Others[r] + IF r = x THEN 1 ELSE 0]
  BY DEF ServedCounts
<1>3. ASSUME NEW r \in Reactions
      PROVE  new.counts[r] = Others[r] + IF r = x THEN 1 ELSE 0
  <2>1. ServedCounts[r] = Others[r] + (IF r = ServedMine THEN 1 ELSE 0) /\ Others[r] \in Nat
    BY ServedIsMine
  <2> QED BY <2>1 DEF Updated, Served
<1>4. new = [mine |-> x, counts |-> new.counts] /\ new.counts = [r \in Reactions |-> new.counts[r]]
  BY DEF Updated
<1> HIDE DEF new
<1>5. new.counts = ServedCounts'
  BY <1>2, <1>3, <1>4
<1> QED BY <1>1, <1>4, <1>5 DEF Served, new

\* So does clearing my reaction.
LEMMA UnsetServed ==
  ASSUME TypeOK, OneReaction, ServedMine # None, book' = {}
  PROVE  Updated(Served, None) = Served'
<1> DEFINE new == Updated(Served, None)
<1>1. ServedMine' = None
  BY DEF ServedMine
<1>2. ServedCounts' = [r \in Reactions |-> Others[r]]
  BY DEF ServedCounts
<1>3. ASSUME NEW r \in Reactions
      PROVE  new.counts[r] = Others[r]
  <2>1. ServedCounts[r] = Others[r] + (IF r = ServedMine THEN 1 ELSE 0) /\ Others[r] \in Nat
    BY ServedIsMine
  <2>2. r # None
    OBVIOUS
  <2> QED BY <2>1, <2>2 DEF Updated, Served
<1>4. new = [mine |-> None, counts |-> new.counts] /\ new.counts = [r \in Reactions |-> new.counts[r]]
  BY DEF Updated
<1> HIDE DEF new
<1>5. new.counts = ServedCounts'
  BY <1>2, <1>3, <1>4
<1> QED BY <1>1, <1>4, <1>5 DEF Served, new

\* A mutation taking effect or being answered.
LEMMA ServeIInv ==
  ASSUME IInv, Serve
  PROVE  IInv'
<1> USE DEF IInv
<1>1. /\ UNCHANGED <<request, base, layers, fetch, session, clicks, quiet, hidden, torn>>
      /\ applied' \in [Calls -> BOOLEAN] /\ outcome' \in [Calls -> BOOLEAN \union {None}]
      /\ book' \subseteq {Me} \X {Proposal} \X Reactions
  <2>1. ASSUME NEW c \in Calls, Server!ApplySet(c)
        PROVE  /\ UNCHANGED <<request, outcome>> /\ applied' \in [Calls -> BOOLEAN]
               /\ book' \subseteq {Me} \X {Proposal} \X Reactions
    <3>1. request[c] \in Server!Request /\ request[c].kind = "set"
      BY <2>1 DEF Server!ApplySet, TypeOK, Server!TypeOK
    <3>2. request[c].user = Me /\ request[c].target = Proposal /\ request[c].reaction \in Reactions
      BY <3>1 DEF Server!Request
    <3> QED BY <2>1, <3>2 DEF Server!ApplySet, Server!Besides, TypeOK, Server!TypeOK
  <2>2. ASSUME NEW c \in Calls, Server!Answer(c)
        PROVE  /\ UNCHANGED <<request, book>> /\ applied' \in [Calls -> BOOLEAN]
               /\ outcome' \in [Calls -> BOOLEAN \union {None}]
    BY <2>2 DEF Server!Answer, TypeOK, Server!TypeOK
  <2>3. ASSUME NEW served \in SUBSET Calls, Server!ApplyUnset(Me, Proposal, served)
        PROVE  /\ UNCHANGED <<request, outcome>> /\ applied' \in [Calls -> BOOLEAN]
               /\ book' \subseteq {Me} \X {Proposal} \X Reactions
    BY <2>3 DEF Server!ApplyUnset, Server!Besides, TypeOK, Server!TypeOK
  <2>4. UNCHANGED <<base, layers, fetch, session, clicks, quiet, hidden, torn>>
    BY DEF Serve
  <2> QED BY <2>1, <2>2, <2>3, <2>4 DEF Serve, TypeOK, Server!TypeOK
<1>2. TypeOK'
  BY <1>1 DEF TypeOK, Server!TypeOK, Server!Request
<1>3. ~NothingAsked /\ (quiet => layers # <<>>)
  BY ServerRests DEF Quiet
<1>4. CountsNeverShort'
  BY <1>1 DEF CountsNeverShort, Mine
<1>5. FetchSound' /\ FetchAlone'
  BY <1>1, <1>3 DEF FetchSound, FetchAlone, NothingAsked
<1> DEFINE l == layers[1]
<1>6. ASSUME quiet
      PROVE  /\ OneMutation(l) /\ l \in Layer /\ request[l.call] \in {None, RequestFor(l.reaction)}
             /\ l.call \in Calls /\ l.reaction \in Choice
  <2>1. 1 \in DOMAIN layers
    BY <1>3, <1>6, EmptySeq, LenProperties DEF TypeOK
  <2>2. l \in Layer
    BY <2>1, LenProperties DEF TypeOK
  <2> QED BY <1>3, <1>6, <2>1, <2>2 DEF Quiet, CallsInOrder, Layer
<1> HIDE DEF l
<1>7. ASSUME OneReaction', CallsInOrder', quiet => OneMutation(l)'
      PROVE  IInv'
  <2>1. quiet' => Quiet'
    BY <1>1, <1>3, <1>7 DEF Quiet, l
  <2> QED BY <1>2, <1>4, <1>5, <1>7, <2>1 DEF IInv
<1>8. ASSUME NEW c \in Calls, Server!ApplySet(c)
      PROVE  IInv'
  <2> DEFINE x == request[c].reaction
  <2>1. /\ request[c] # None /\ request[c].kind = "set" /\ ~applied[c] /\ outcome[c] = None
        /\ applied' = [applied EXCEPT ![c] = TRUE] /\ UNCHANGED <<request, outcome>>
        /\ x \in Reactions /\ book' = {<<Me, Proposal, x>>}
    <3>1. request[c] \in Server!Request /\ request[c].kind = "set"
      BY <1>8 DEF Server!ApplySet, TypeOK, Server!TypeOK
    <3>2. request[c].user = Me /\ request[c].target = Proposal /\ x \in Reactions
      BY <3>1 DEF Server!Request
    <3>3. Server!Besides(Me, Proposal) = {}
      BY DEF Server!Besides, TypeOK, Server!TypeOK
    <3> QED BY <1>8, <3>1, <3>2, <3>3 DEF Server!ApplySet
  <2>2. OneReaction'
    BY <2>1 DEF OneReaction
  <2>3. CallsInOrder'
    BY <1>1, <2>1 DEF CallsInOrder, TypeOK, Server!TypeOK
  <2>4. ASSUME quiet
        PROVE  OneMutation(l)'
    <3>1. c = l.call
      BY <1>6, <2>1, <2>4 DEF OneMutation
    <3>2. l.reaction = x
      BY <1>6, <2>1, <2>4, <3>1 DEF RequestFor
    <3>3. base = Served /\ x # ServedMine
      BY <1>6, <2>1, <2>4, <3>1, <3>2 DEF OneMutation, Served
    <3>4. Updated(Served, x) = Served'
      BY <2>1, <3>3, SetServed
    <3>5. applied'[c] /\ base' = base /\ l' = l
      BY <1>1, <2>1 DEF TypeOK, Server!TypeOK, l
    <3> QED BY <1>6, <2>1, <2>4, <3>1, <3>2, <3>3, <3>4, <3>5 DEF OneMutation
  <2> QED BY <1>7, <2>2, <2>3, <2>4
<1>9. ASSUME NEW c \in Calls, Server!Answer(c)
      PROVE  IInv'
  <2>1. PICK success \in BOOLEAN :
          /\ request[c] # None /\ outcome[c] = None /\ (success => applied[c])
          /\ outcome' = [outcome EXCEPT ![c] = success]
          /\ applied' = [applied EXCEPT ![c] = FALSE] /\ UNCHANGED <<book, request>>
    BY <1>9 DEF Server!Answer
  <2>2. OneReaction'
    BY <2>1 DEF OneReaction
  <2>3. CallsInOrder'
    BY <1>1, <2>1 DEF CallsInOrder, TypeOK, Server!TypeOK
  <2>4. ASSUME quiet
        PROVE  OneMutation(l)'
    <3>1. c = l.call
      BY <1>6, <2>1, <2>4 DEF OneMutation
    <3>2. ~applied'[c] /\ outcome'[c] = success /\ outcome'[c] # None /\ base' = base /\ l' = l
      BY <1>1, <2>1 DEF TypeOK, Server!TypeOK, l
    <3>3. Served' = Served
      BY <2>1 DEF Served, ServedMine, ServedCounts
    <3>4. success => Updated(base, l.reaction) = Served
      BY <1>6, <2>1, <2>4, <3>1 DEF OneMutation
    <3> QED BY <1>6, <2>1, <2>4, <3>1, <3>2, <3>3, <3>4 DEF OneMutation
  <2> QED BY <1>7, <2>2, <2>3, <2>4
<1>10. ASSUME NEW served \in SUBSET Calls, served # {}, Server!ApplyUnset(Me, Proposal, served)
       PROVE  IInv'
  <2> DEFINE unset == [kind |-> "unset", user |-> Me, target |-> Proposal]
  <2>1. /\ \A c \in served : ~applied[c] /\ outcome[c] = None /\ request[c] = unset
        /\ applied' = [c \in Calls |-> c \in served \/ applied[c]]
        /\ UNCHANGED <<request, outcome>> /\ book' = {}
    <3>1. Server!Besides(Me, Proposal) = {}
      BY DEF Server!Besides, TypeOK, Server!TypeOK
    <3> QED BY <1>10, <3>1 DEF Server!ApplyUnset
  <2>2. unset # None
    BY DEF Server!Request
  <2> HIDE DEF unset
  <2>3. OneReaction'
    BY <2>1 DEF OneReaction
  <2>4. CallsInOrder'
    BY <1>1, <2>1, <2>2 DEF CallsInOrder, TypeOK, Server!TypeOK
  <2>5. ASSUME quiet
        PROVE  OneMutation(l)'
    <3>1. l.call \in served
      BY <1>6, <1>10, <2>1, <2>2, <2>5 DEF OneMutation
    <3>2. l.reaction = None
      <4>1. request[l.call] = unset /\ unset # None /\ unset.kind = "unset"
        BY <2>1, <2>2, <3>1 DEF unset
      <4>2. RequestFor(l.reaction).kind = "unset"
        BY <1>6, <2>5, <4>1
      <4> QED BY <4>2 DEF RequestFor
    <3>3. base = Served /\ ServedMine # None
      BY <1>6, <2>1, <2>5, <3>1, <3>2 DEF OneMutation, Served
    <3>4. Updated(Served, None) = Served'
      BY <2>1, <3>3, UnsetServed
    <3>5. applied'[l.call] /\ base' = base /\ l' = l
      BY <1>1, <1>6, <2>1, <2>5, <3>1 DEF l
    <3> QED BY <1>6, <2>1, <2>5, <3>1, <3>2, <3>3, <3>4, <3>5 DEF OneMutation
  <2> QED BY <1>7, <2>3, <2>4, <2>5
<1> QED BY <1>8, <1>9, <1>10 DEF Serve

(***************************************************************************)
(* The page                                                                *)
(***************************************************************************)
\* The newest layer, or the entry below, is an entry.
LEMMA ViewSound ==
  ASSUME TypeOK
  PROVE  View \in Entry /\ (layers = <<>> => View = base)
<1>1. CASE layers = <<>>
  BY <1>1 DEF TypeOK, View
<1>2. CASE layers # <<>>
  <2>1. Len(layers) \in 1..Len(layers)
    BY <1>2, EmptySeq, LenProperties DEF TypeOK
  <2>2. Last(layers) \in Layer
    BY <2>1 DEF Last, TypeOK
  <2> QED BY <1>2, <2>2 DEF View, Layer
<1> QED BY <1>1, <1>2

\* Reactions enough for everybody, in terms of the layers.
LEMMA EnoughForAll ==
  ASSUME TypeOK
  PROVE  CountsNeverShort <=> (~torn => Enough(base) /\ AllEnough(layers))
<1>1. DOMAIN layers = 1..Len(layers)
  BY LenProperties DEF TypeOK
<1> QED BY <1>1 DEF CountsNeverShort, Enough, AllEnough

\* The same after a step.
LEMMA EnoughNext ==
  ASSUME layers' \in Seq(Layer), ~torn' => Enough(base') /\ AllEnough(layers')
  PROVE  CountsNeverShort'
<1>1. DOMAIN layers' = 1..Len(layers')
  BY LenProperties
<1> QED BY <1>1 DEF CountsNeverShort, Enough, AllEnough

\* A mutation sent asks for what its layer shows.
LEMMA Asking ==
  ASSUME TypeOK, NEW c \in Calls, NEW reaction \in Choice, Ask(c, reaction)
  PROVE  /\ UNCHANGED <<book, applied, outcome>>
         /\ request' \in [Calls -> Server!Request \union {None}]
         /\ request'[c] \in {None, RequestFor(reaction)}
         /\ \A d \in Calls \ {c} : request'[d] = request[d]
<1>1. /\ UNCHANGED <<book, applied, outcome>> /\ request'[c] = RequestFor(reaction)
      /\ \E r \in Server!Request : request' = [request EXCEPT ![c] = r]
  BY DEF Ask, Server!Submit
<1> QED BY <1>1 DEF TypeOK, Server!TypeOK

\* A page query that is no longer alone is as sound as before.
LEMMA AccompaniedSound ==
  ASSUME TypeOK, FetchSound, fetch' = Accompanied
  PROVE  fetch' \in Fetch \union {None} /\ FetchSound' /\ FetchAlone'
<1>1. CASE fetch = None
  BY <1>1 DEF Accompanied, FetchSound, FetchAlone
<1>2. CASE fetch # None
  <2>1. fetch \in Fetch /\ fetch' = [fetch EXCEPT !.alone = FALSE]
    BY <1>2 DEF Accompanied, TypeOK
  <2>2. /\ fetch' \in Fetch /\ ~fetch'.alone
        /\ \A k \in {"counts", "mine", "read", "asMe"} : fetch'[k] = fetch[k]
    BY <2>1 DEF Fetch
  <2>3. FetchSound'
    BY <1>2, <2>1, <2>2 DEF FetchSound, Fetch
  <2> QED BY <2>2, <2>3 DEF FetchAlone
<1> QED BY <1>1, <1>2

\* A click sends a mutation and adds its layer.
LEMMA ClickIInv ==
  ASSUME IInv, NEW c \in Calls, Click(c)
  PROVE  IInv'
<1> USE DEF IInv
<1>1. /\ request[c] = None /\ ~Pending(c) /\ UNCHANGED <<base, session, hidden, torn>>
      /\ quiet' = (quiet /\ layers = <<>> /\ fetch = None /\ ~hidden)
      /\ fetch' = Accompanied /\ clicks' \in 0..MaxClicks
  BY DEF Click, TypeOK
<1>0. PICK type \in Reactions :
        LET reaction == IF type = View.mine THEN None ELSE type IN
        /\ IF session THEN Ask(c, reaction) ELSE UNCHANGED server
        /\ layers' = Pushed(base, layers,
                            [call |-> c, reaction |-> reaction, entry |-> base])
  BY DEF Click
<1> DEFINE reaction == IF type = View.mine THEN None ELSE type
           layer == [call |-> c, reaction |-> reaction, entry |-> base]
<1>2. reaction \in Choice /\ layer \in Layer /\ reaction # View.mine
      /\ layer.call = c /\ layer.reaction = reaction
  BY DEF Choice, TypeOK, Layer
<1>3. /\ UNCHANGED <<book, applied, outcome>>
      /\ request' \in [Calls -> Server!Request \union {None}]
      /\ request'[c] \in {None, RequestFor(reaction)}
      /\ \A d \in Calls \ {c} : request'[d] = request[d]
  <2>1. CASE session
    <3>1. Ask(c, reaction)
      BY <1>0, <2>1
    <3> QED BY <1>2, <3>1, Asking
  <2>2. CASE ~session
    <3>1. UNCHANGED server
      BY <1>0, <2>2
    <3> QED BY <1>1, <3>1 DEF server, TypeOK, Server!TypeOK
  <2> QED BY <2>1, <2>2
<1>4. layers' = Pushed(base, layers, layer)
  BY <1>0
<1> HIDE DEF reaction, layer
<1>5. /\ Onto(layers', layers, layer)
      /\ Enough(base) /\ AllEnough(layers) => AllEnough(layers')
  <2>1. base \in Entry /\ layers \in Seq(Layer)
    BY DEF TypeOK
  <2> QED BY <1>2, <1>4, <2>1, Pushing
<1>6. /\ Len(layers) \in Nat /\ DOMAIN layers = 1..Len(layers)
      /\ DOMAIN layers' = 1..(Len(layers) + 1) /\ Len(layers') = Len(layers) + 1
      /\ layers' \in Seq(Layer)
  BY <1>5, LenProperties DEF TypeOK, Onto
<1>7. \A i \in DOMAIN layers : /\ layers'[i] = layers[i] /\ layers[i].call # c
                               /\ layers[i].call \in Calls /\ layers[i].reaction \in Choice
  <2>1. \A i \in DOMAIN layers : layers[i] \in Layer
    BY LenProperties DEF TypeOK
  <2>2. \A i \in DOMAIN layers : layers[i].call # c
    BY <1>1 DEF Pending
  <2> QED BY <1>5, <1>6, <2>1, <2>2 DEF Onto, Layer
<1>8. layers'[Len(layers) + 1].call = c /\ layers'[Len(layers) + 1].reaction = reaction
  BY <1>2, <1>5 DEF Onto
<1>9. TypeOK'
  <2>1. \A i, j \in DOMAIN layers' : layers'[i].call = layers'[j].call => i = j
    BY <1>6, <1>7, <1>8 DEF TypeOK
  <2>2. fetch' \in Fetch \union {None} /\ quiet' \in BOOLEAN
    BY <1>1, AccompaniedSound DEF TypeOK
  <2> QED BY <1>1, <1>3, <1>6, <2>1, <2>2 DEF TypeOK, Server!TypeOK, Server!Request
<1>10. CallsInOrder'
  <2>1. ASSUME NEW i \in DOMAIN layers'
        PROVE  request'[layers'[i].call] \in {None, RequestFor(layers'[i].reaction)}
    <3>1. CASE i \in DOMAIN layers
      BY <1>3, <1>7, <3>1 DEF CallsInOrder
    <3>2. CASE i = Len(layers) + 1
      BY <1>3, <1>8, <3>2
    <3> QED BY <1>6, <3>1, <3>2
  <2>2. ~applied[c] /\ outcome[c] = None
    BY <1>1 DEF CallsInOrder
  <2> QED BY <1>3, <2>1, <2>2 DEF CallsInOrder
<1>11. OneReaction' /\ FetchSound' /\ FetchAlone'
  BY <1>1, <1>3, AccompaniedSound DEF OneReaction
<1>12. CountsNeverShort'
  BY <1>1, <1>5, <1>6, EnoughForAll, EnoughNext
<1>13. ASSUME quiet'
       PROVE  Quiet'
  <2>1. /\ quiet /\ layers = <<>> /\ fetch = None /\ fetch' = None /\ ~hidden
        /\ NothingAsked /\ base = Served
    BY <1>1, <1>13 DEF Quiet, Accompanied, Shown, Served
  <2>2. Len(layers) = 0
    BY <2>1, EmptySeq
  <2>3. Served' = Served /\ base' = base
    BY <1>1, <1>3 DEF Served, ServedMine, ServedCounts
  <2>4. reaction # base.mine
    BY <1>2, <2>1, ViewSound
  <2>5. outcome[c] = None /\ ~applied[c]
    BY <1>1 DEF CallsInOrder
  <2>6. OneMutation(layers[1])'
    <3>1. layers'[1].call = c /\ layers'[1].reaction = reaction
      BY <1>8, <2>2
    <3>2. \A d \in Calls \ {c} : request'[d] = None
      BY <1>3, <2>1 DEF NothingAsked
    <3>3. outcome'[c] = None /\ outcome'[c] # TRUE /\ ~applied'[c] /\ base' = Served'
      BY <1>3, <2>1, <2>3, <2>5
    <3>4. reaction # base'.mine
      BY <2>3, <2>4
    <3> QED BY <3>1, <3>2, <3>3, <3>4 DEF OneMutation
  <2> QED BY <1>1, <1>6, <2>1, <2>2, <2>6, EmptySeq DEF Quiet
<1> QED BY <1>9, <1>10, <1>11, <1>12, <1>13

\* The mutation of a layer is sent again after a sign-in.
LEMMA SignInIInv ==
  ASSUME IInv, NEW c \in Calls, SignIn(c)
  PROVE  IInv'
<1> USE DEF IInv
<1> DEFINE at == CHOOSE j \in DOMAIN layers : layers[j].call = c
           l == layers[at]
<1>1. /\ Pending(c) /\ request[c] = None /\ session' = TRUE /\ Ask(c, l.reaction)
      /\ fetch' = Accompanied /\ UNCHANGED <<base, layers, clicks, quiet, hidden, torn>>
  BY DEF SignIn, LayerOf
<1>2. at \in DOMAIN layers /\ l.call = c /\ l \in Layer
  BY <1>1, LenProperties DEF Pending, TypeOK
<1> HIDE DEF at
<1>3. /\ UNCHANGED <<book, applied, outcome>>
      /\ request' \in [Calls -> Server!Request \union {None}]
      /\ request'[c] \in {None, RequestFor(l.reaction)}
      /\ \A d \in Calls \ {c} : request'[d] = request[d]
  <2>1. l.reaction \in Choice
    BY <1>2 DEF Layer
  <2> HIDE DEF l
  <2> QED BY <1>1, <2>1, Asking
<1>4. TypeOK'
  <2>1. fetch' \in Fetch \union {None}
    BY <1>1, AccompaniedSound
  <2> QED BY <1>1, <1>3, <2>1 DEF TypeOK, Server!TypeOK, Server!Request
<1>5. CallsInOrder'
  <2>1. ASSUME NEW i \in DOMAIN layers
        PROVE  request'[layers[i].call] \in {None, RequestFor(layers[i].reaction)}
    <3>1. CASE i = at
      BY <1>2, <1>3, <3>1
    <3>2. CASE i # at
      <4>1. layers[i].call # c /\ layers[i] \in Layer
        BY <1>2, <3>2, LenProperties DEF TypeOK
      <4> QED BY <1>3, <4>1 DEF CallsInOrder, Layer
    <3> QED BY <3>1, <3>2
  <2>2. ~applied[c] /\ outcome[c] = None
    BY <1>1 DEF CallsInOrder
  <2> QED BY <1>1, <1>3, <2>1, <2>2 DEF CallsInOrder
<1>6. OneReaction' /\ FetchSound' /\ FetchAlone' /\ CountsNeverShort' /\ Served' = Served
  BY <1>1, <1>3, AccompaniedSound
     DEF OneReaction, CountsNeverShort, Mine, Served, ServedMine, ServedCounts
<1>7. ASSUME quiet'
      PROVE  Quiet'
  <2>1. layers # <<>>
    BY <1>2, EmptySeq
  <2>2. quiet /\ Len(layers) <= 1 /\ fetch = None /\ ~hidden /\ OneMutation(layers[1])
    BY <1>1, <1>7, <2>1 DEF Quiet
  <2>3. 1 \in DOMAIN layers /\ at = 1 /\ layers[1].call = c
    BY <1>2, <2>1, <2>2, EmptySeq, LenProperties DEF TypeOK
  <2>4. OneMutation(layers[1])'
    BY <1>1, <1>3, <1>6, <2>2, <2>3 DEF OneMutation
  <2> QED BY <1>1, <2>1, <2>2, <2>4 DEF Quiet, Accompanied
<1> QED BY <1>4, <1>5, <1>6, <1>7

\* Signing out and in changes nothing else.
LEMMA SessionChangesIInv ==
  ASSUME IInv, SessionChanges
  PROVE  IInv'
<1> USE DEF IInv
<1>1. /\ UNCHANGED <<book, request, applied, outcome, base, layers, fetch, clicks>>
      /\ UNCHANGED <<quiet, hidden, torn>> /\ session' \in BOOLEAN
  BY DEF SessionChanges, server, TypeOK
<1>2. TypeOK'
  BY <1>1 DEF TypeOK, Server!TypeOK, Server!Request
<1>3. /\ OneReaction' /\ CallsInOrder' /\ FetchSound' /\ CountsNeverShort'
      /\ Served' = Served /\ Shown' = Shown
  BY <1>1 DEF OneReaction, CallsInOrder, FetchSound, CountsNeverShort, Mine, Served, Shown,
       ServedMine, ServedCounts
<1>4. FetchAlone'
  BY <1>1 DEF FetchAlone, NothingAsked, ServedMine, ServedCounts
<1>5. Quiet => Quiet'
  BY <1>1, <1>3 DEF Quiet, OneMutation, NothingAsked
<1> QED BY <1>1, <1>2, <1>3, <1>4, <1>5

\* What is left of the layers keeps the invariant, whatever became of the call
\* itself: its request is forgotten, or not.
LEMMA LayersLeft ==
  ASSUME TypeOK, CallsInOrder, NEW c \in Calls, Pending(c), NEW below \in Entry,
         layers' = Without(c, below),
         \A d \in Calls \ {c} : request'[d] = request[d],
         CountsNeverShort, torn' = torn, base' = below, Enough(base) => Enough(below)
  PROVE  /\ layers' \in Seq(Layer)
         /\ \A i, j \in DOMAIN layers' : layers'[i].call = layers'[j].call => i = j
         /\ \A i \in DOMAIN layers' :
              request'[layers'[i].call] \in {None, RequestFor(layers'[i].reaction)}
         /\ CountsNeverShort'
         /\ Len(layers) \in Nat /\ Len(layers') = Len(layers) - 1
<1>1. layers \in Seq(Layer)
  BY DEF TypeOK
<1>2. PICK at : Dropped(layers', c, below, at)
  BY <1>1, Dropping
<1>3. /\ \A i, j \in 1..Len(layers') : layers'[i].call = layers'[j].call => i = j
      /\ \A i \in 1..Len(layers') : layers'[i].call # c
  BY <1>2, DroppedCalls
<1>4. /\ layers' \in Seq(Layer) /\ DOMAIN layers' = 1..Len(layers')
      /\ Len(layers) \in Nat /\ Len(layers') = Len(layers) - 1
      /\ DOMAIN layers = 1..Len(layers) /\ at \in 1..Len(layers)
  BY <1>1, <1>2, LenProperties DEF Dropped
<1>5. ASSUME NEW i \in DOMAIN layers'
      PROVE  request'[layers'[i].call] \in {None, RequestFor(layers'[i].reaction)}
  <2>1. /\ layers'[i].call = layers[Past(at, i)].call
        /\ layers'[i].reaction = layers[Past(at, i)].reaction
    BY <1>2, <1>4 DEF Dropped
  <2>2. Past(at, i) \in DOMAIN layers
    BY <1>4 DEF Past
  <2>3. request[layers[Past(at, i)].call] \in {None, RequestFor(layers[Past(at, i)].reaction)}
    BY <2>2 DEF CallsInOrder
  <2>4. layers'[i].call \in Calls /\ layers'[i].call # c
    <3>1. layers'[i] \in Layer
      BY <1>4
    <3> QED BY <1>3, <1>4, <3>1 DEF Layer
  <2> QED BY <2>1, <2>3, <2>4
<1>6. CountsNeverShort'
  <2>1. ~torn => Enough(base) /\ AllEnough(layers)
    BY EnoughForAll
  <2>2. ~torn' => Enough(base') /\ AllEnough(layers')
    BY <1>2, <2>1 DEF Dropped
  <2> QED BY <1>4, <2>2, EnoughNext
<1> QED BY <1>3, <1>4, <1>5, <1>6

\* The answer comes: the updater runs on the entry below, the layer is dropped.
LEMMA ReceiveIInv ==
  ASSUME IInv, NEW c \in Calls, Receive(c)
  PROVE  IInv'
<1> USE DEF IInv
<1> DEFINE at == CHOOSE j \in DOMAIN layers : layers[j].call = c
           layer == layers[at]
<1>1. /\ Pending(c) /\ outcome[c] # None
      /\ base' = Updated(base, layer.reaction) /\ layers' = Without(c, base')
      /\ quiet' = (quiet /\ outcome[c])
      /\ UNCHANGED <<fetch, session, clicks, hidden, torn, book, applied>>
      /\ request' = [request EXCEPT ![c] = None] /\ outcome' = [outcome EXCEPT ![c] = None]
  BY DEF Receive, LayerOf, Server!Forget
<1>2. at \in DOMAIN layers /\ layer.call = c /\ layer \in Layer
  BY <1>1, LenProperties DEF Pending, TypeOK
<1> HIDE DEF at
<1>3. base' \in Entry /\ (Enough(base) => Enough(base'))
  <2>1. base \in Entry /\ layer.reaction \in Choice
    BY <1>2 DEF TypeOK, Layer
  <2> QED BY <1>1, <2>1, Updating
<1>4. /\ request'[c] = None /\ outcome'[c] = None
      /\ \A d \in Calls \ {c} : request'[d] = request[d] /\ outcome'[d] = outcome[d]
      /\ request' \in [Calls -> Server!Request \union {None}]
      /\ outcome' \in [Calls -> BOOLEAN \union {None}]
  BY <1>1 DEF TypeOK, Server!TypeOK
<1>5. /\ layers' \in Seq(Layer)
      /\ \A i, j \in DOMAIN layers' : layers'[i].call = layers'[j].call => i = j
      /\ \A i \in DOMAIN layers' : request'[layers'[i].call] \in {None, RequestFor(layers'[i].reaction)}
      /\ CountsNeverShort'
      /\ Len(layers) \in Nat /\ Len(layers') = Len(layers) - 1
  BY <1>1, <1>3, <1>4, LayersLeft
<1>6. outcome[c] \in BOOLEAN /\ ~applied[c]
  BY <1>1 DEF TypeOK, Server!TypeOK, CallsInOrder
<1>7. TypeOK'
  <2>1. quiet' \in BOOLEAN
    BY <1>1, <1>6 DEF TypeOK
  <2> QED BY <1>1, <1>3, <1>4, <1>5, <2>1 DEF TypeOK, Server!TypeOK, Server!Request
<1>8. CallsInOrder'
  BY <1>1, <1>4, <1>5, <1>6 DEF CallsInOrder
<1>9. OneReaction'
  BY <1>1 DEF OneReaction
<1>10. Served' = Served
  BY <1>1 DEF Served, ServedMine, ServedCounts
<1>11. FetchSound' /\ FetchAlone'
  <2>1. layers # <<>>
    BY <1>2, EmptySeq
  <2> QED BY <1>1, <2>1 DEF FetchSound, FetchAlone
<1>12. ASSUME quiet'
       PROVE  Quiet'
  <2>1. quiet /\ outcome[c] = TRUE
    BY <1>1, <1>6, <1>12
  <2>2. /\ layers # <<>> /\ fetch = None /\ ~hidden
        /\ OneMutation(layers[1]) /\ Len(layers) = 1
    BY <1>2, <1>5, <2>1, EmptySeq DEF Quiet
  <2>3. at = 1
    BY <1>2, <2>2, LenProperties DEF TypeOK
  <2>4. Updated(base, layer.reaction) = Served /\ \A d \in Calls \ {c} : request[d] = None
    BY <1>2, <2>1, <2>2, <2>3 DEF OneMutation
  <2>5. base' = Shown' /\ NothingAsked'
    BY <1>1, <1>4, <1>10, <2>2, <2>4 DEF NothingAsked, Served, Shown
  <2>6. Len(layers') = 0 /\ layers' = <<>>
    BY <1>5, <2>2, EmptySeq
  <2> QED BY <1>1, <2>2, <2>5, <2>6 DEF Quiet
<1> QED BY <1>5, <1>7, <1>8, <1>9, <1>11, <1>12

\* The call fails, and its layer is dropped.
LEMMA ReceiveErrorIInv ==
  ASSUME IInv, NEW c \in Calls, ReceiveError(c)
  PROVE  IInv'
<1> USE DEF IInv
<1>1. /\ Pending(c) /\ layers' = Without(c, base) /\ quiet' = FALSE
      /\ UNCHANGED <<book, request, applied, outcome, base, fetch, session, clicks, hidden, torn>>
  BY DEF ReceiveError, server
<1>2. base \in Entry
  BY DEF TypeOK
<1>3. /\ layers' \in Seq(Layer)
      /\ \A i, j \in DOMAIN layers' : layers'[i].call = layers'[j].call => i = j
      /\ \A i \in DOMAIN layers' : request'[layers'[i].call] \in {None, RequestFor(layers'[i].reaction)}
      /\ CountsNeverShort'
  <2> DEFINE below == base
  <2>1. /\ layers' = Without(c, below) /\ below \in Entry /\ base' = below
        /\ \A d \in Calls \ {c} : request'[d] = request[d]
        /\ Enough(base) => Enough(below)
    BY <1>1, <1>2
  <2> HIDE DEF below
  <2> QED BY <1>1, <2>1, LayersLeft
<1>4. TypeOK'
  BY <1>1, <1>2, <1>3 DEF TypeOK, Server!TypeOK, Server!Request
<1>5. CallsInOrder'
  BY <1>1, <1>3 DEF CallsInOrder
<1>6. OneReaction' /\ FetchSound' /\ FetchAlone'
  <2>1. DOMAIN layers # {}
    BY <1>1 DEF Pending
  <2>2. layers # <<>>
    BY <2>1, EmptySeq
  <2> QED BY <1>1, <2>2 DEF OneReaction, FetchSound, FetchAlone
<1> QED BY <1>1, <1>3, <1>4, <1>5, <1>6

\* The answer to a mutation without a layer is dropped.
LEMMA DiscardIInv ==
  ASSUME IInv, NEW c \in Calls, Discard(c)
  PROVE  IInv'
<1> USE DEF IInv
<1>1. /\ ~Pending(c) /\ outcome[c] # None
      /\ request' = [request EXCEPT ![c] = None] /\ outcome' = [outcome EXCEPT ![c] = None]
      /\ UNCHANGED <<book, applied, base, layers, fetch, session, clicks, quiet, hidden, torn>>
  BY DEF Discard, Server!Forget
<1>2. /\ request'[c] = None /\ outcome'[c] = None /\ ~applied[c] /\ request[c] # None
      /\ \A d \in Calls \ {c} : request'[d] = request[d] /\ outcome'[d] = outcome[d]
      /\ request' \in [Calls -> Server!Request \union {None}]
      /\ outcome' \in [Calls -> BOOLEAN \union {None}]
  BY <1>1 DEF TypeOK, Server!TypeOK, CallsInOrder
<1>3. \A i \in DOMAIN layers : layers[i].call \in Calls \ {c}
  <2>1. \A i \in DOMAIN layers : layers[i] \in Layer
    BY LenProperties DEF TypeOK
  <2> QED BY <1>1, <2>1 DEF Pending, Layer
<1>4. TypeOK'
  BY <1>1, <1>2 DEF TypeOK, Server!TypeOK, Server!Request
<1>5. CallsInOrder'
  BY <1>1, <1>2, <1>3 DEF CallsInOrder
<1>6. OneReaction' /\ CountsNeverShort' /\ Served' = Served
  BY <1>1 DEF OneReaction, CountsNeverShort, Mine, Served, ServedMine, ServedCounts
<1>7. FetchSound' /\ FetchAlone'
  BY <1>1, <1>2 DEF FetchSound, FetchAlone, NothingAsked
<1>8. ASSUME quiet'
      PROVE  Quiet'
  <2> DEFINE l == layers[1]
  <2>1. quiet /\ layers # <<>> /\ OneMutation(l)
    BY <1>1, <1>2, <1>8 DEF Quiet, NothingAsked
  <2>2. 1 \in DOMAIN layers
    BY <2>1, EmptySeq, LenProperties DEF TypeOK
  <2>3. l.call \in Calls \ {c} /\ l' = l
    BY <1>1, <1>3, <2>2
  <2>4. OneMutation(l)'
    <3> HIDE DEF l
    <3> QED BY <1>1, <1>2, <1>6, <2>1, <2>3 DEF OneMutation
  <2> QED BY <1>1, <1>8, <2>1, <2>4 DEF Quiet
<1> QED BY <1>4, <1>5, <1>6, <1>7, <1>8

\* A step of the page query leaves the mutations and the entries alone.
LEMMA FetchIInv ==
  ASSUME IInv, UNCHANGED <<server, base, layers, session, clicks, hidden, torn>>,
         fetch' \in Fetch, FetchSound', FetchAlone',
         quiet' \in BOOLEAN, quiet' => quiet /\ fetch'.alone /\ layers = <<>>
  PROVE  IInv'
<1> USE DEF IInv
<1>1. UNCHANGED <<book, request, applied, outcome>>
  BY DEF server
<1>2. TypeOK'
  BY <1>1 DEF TypeOK, Server!TypeOK, Server!Request
<1>3. OneReaction' /\ CallsInOrder' /\ CountsNeverShort' /\ Shown' = Shown
  BY <1>1 DEF OneReaction, CallsInOrder, CountsNeverShort, Mine, Shown, ServedMine, ServedCounts
<1>4. quiet' => Quiet'
  BY <1>1, <1>3 DEF Quiet, NothingAsked
<1> QED BY <1>2, <1>3, <1>4

\* The page is asked for.
LEMMA RefetchIInv ==
  ASSUME IInv, Refetch
  PROVE  IInv'
<1> USE DEF IInv
<1>1. /\ fetch' = [counts |-> Others, mine |-> None, read |-> {}, asMe |-> session,
                   alone |-> layers = <<>> /\ \A c \in Calls : request[c] = None]
      /\ quiet' = (quiet /\ layers = <<>>)
      /\ UNCHANGED <<server, base, layers, session, clicks, hidden, torn>>
  BY DEF Refetch
<1>2. fetch' \in Fetch
  BY <1>1 DEF Fetch, Choice, TypeOK
<1>3. FetchSound' /\ FetchAlone'
  BY <1>1 DEF FetchSound, FetchAlone, NothingAsked, server
<1>4. quiet' \in BOOLEAN /\ (quiet' => quiet /\ fetch'.alone /\ layers = <<>>)
  BY <1>1 DEF Quiet, NothingAsked, TypeOK
<1> QED BY <1>1, <1>2, <1>3, <1>4, FetchIInv

\* A statement of the page query.
LEMMA ReadIInv ==
  ASSUME IInv, ReadCounts \/ ReadMine
  PROVE  IInv'
<1> USE DEF IInv
<1> DEFINE mine == IF fetch.asMe THEN ServedMine ELSE None
<1>1. fetch # None /\ UNCHANGED <<server, base, layers, session, clicks, quiet, hidden, torn>>
  BY DEF ReadCounts, ReadMine
<1>2. /\ fetch \in Fetch /\ mine \in Choice /\ ServedCounts \in [Reactions -> Nat]
      /\ ServedMine' = ServedMine /\ ServedCounts' = ServedCounts
      /\ NothingAsked' = NothingAsked
      /\ \A r \in Reactions : ServedCounts[r] >= Others[r]
  <2>1. fetch \in Fetch /\ mine \in Choice /\ ServedCounts \in [Reactions -> Nat]
    BY <1>1, ServedSound DEF TypeOK, Choice
  <2>2. ServedMine' = ServedMine /\ ServedCounts' = ServedCounts /\ NothingAsked' = NothingAsked
    BY <1>1 DEF ServedMine, ServedCounts, NothingAsked, server
  <2>3. ASSUME NEW r \in Reactions
        PROVE  ServedCounts[r] >= Others[r]
    <3>1. Others[r] \in Nat /\ ServedCounts[r] = Others[r] + IF r = ServedMine THEN 1 ELSE 0
      BY ServedIsMine
    <3> QED BY <3>1
  <2> QED BY <2>1, <2>2, <2>3
<1>3. \/ fetch' = [fetch EXCEPT !.counts = ServedCounts, !.read = @ \union {"counts"}]
      \/ fetch' = [fetch EXCEPT !.mine = mine, !.read = @ \union {"mine"}]
  BY DEF ReadCounts, ReadMine
<1> HIDE DEF mine
<1>4. /\ fetch' \in Fetch
      /\ fetch'.alone = fetch.alone /\ fetch'.asMe = fetch.asMe
      /\ "counts" \in fetch'.read =>
           ("counts" \in fetch.read /\ fetch'.counts = fetch.counts) \/ fetch'.counts = ServedCounts
      /\ "mine" \in fetch'.read =>
           ("mine" \in fetch.read /\ fetch'.mine = fetch.mine) \/ fetch'.mine = mine
      /\ fetch'.mine = fetch.mine \/ fetch'.mine = mine
  <2>1. CASE fetch' = [fetch EXCEPT !.counts = ServedCounts, !.read = @ \union {"counts"}]
    BY <1>2, <2>1 DEF Fetch
  <2>2. CASE fetch' = [fetch EXCEPT !.mine = mine, !.read = @ \union {"mine"}]
    BY <1>2, <2>2 DEF Fetch
  <2> QED BY <1>3, <2>1, <2>2
<1>5. FetchSound'
  BY <1>1, <1>2, <1>4 DEF FetchSound, mine
<1>6. FetchAlone'
  BY <1>1, <1>2, <1>4 DEF FetchAlone, mine
<1>7. quiet' \in BOOLEAN /\ (quiet' => quiet /\ fetch'.alone /\ layers = <<>>)
  <2>1. quiet => fetch.alone
    BY <1>1 DEF Quiet
  <2> QED BY <1>1, <1>4, <2>1 DEF FetchAlone, TypeOK
<1> QED BY <1>1, <1>4, <1>5, <1>6, <1>7, FetchIInv

\* The answer to the page query overwrites the entry below the layers.
LEMMA FetchArrivesIInv ==
  ASSUME IInv, FetchArrives
  PROVE  IInv'
<1> USE DEF IInv
<1>1. /\ fetch # None /\ fetch.read = {"counts", "mine"} /\ fetch' = None
      /\ base' = [mine |-> fetch.mine, counts |-> fetch.counts]
      /\ quiet' = (quiet \/ fetch.alone)
      /\ hidden' = (~fetch.asMe /\ ~Coherent(base'))
      /\ torn' = ((torn /\ layers # <<>>) \/ (fetch.asMe /\ ~Coherent(base')))
      /\ UNCHANGED <<book, request, applied, outcome, layers, session, clicks>>
  BY DEF FetchArrives, server
<1>2. fetch \in Fetch
  BY <1>1 DEF TypeOK
<1>3. base' \in Entry /\ fetch.asMe \in BOOLEAN
  BY <1>1, <1>2 DEF Entry, Fetch
<1>4. TypeOK'
  BY <1>1, <1>2, <1>3 DEF TypeOK, Server!TypeOK, Server!Request, Fetch
<1>5. OneReaction' /\ CallsInOrder' /\ FetchSound' /\ FetchAlone'
  BY <1>1 DEF OneReaction, CallsInOrder, FetchSound, FetchAlone
<1>6. CountsNeverShort'
  <2>1. Coherent(base') => Enough(base')
    <3>1. \A r \in Reactions : base'.counts[r] \in Nat /\ Others[r] \in Nat
      BY <1>3 DEF Entry
    <3> QED BY <3>1 DEF Coherent, Enough, Mine
  <2>2. ~fetch.asMe => Enough(base')
    <3>1. \A r \in Reactions : base'.counts[r] \in Nat /\ Others[r] \in Nat /\ r # None
      BY <1>3 DEF Entry
    <3> QED BY <1>1, <3>1 DEF FetchSound, Enough, Mine
  <2>3. layers = <<>> => AllEnough(layers)
    BY EmptySeq DEF AllEnough
  <2>4. ~torn' => Enough(base') /\ AllEnough(layers')
    BY <1>1, <2>1, <2>2, <2>3, EnoughForAll
  <2>5. layers' \in Seq(Layer)
    BY <1>4 DEF TypeOK
  <2> QED BY <2>4, <2>5, EnoughNext
<1>7. ASSUME quiet'
      PROVE  Quiet'
  <2>1. fetch.alone
    BY <1>1, <1>7 DEF Quiet
  <2>2. /\ NothingAsked /\ layers = <<>> /\ base'.counts = ServedCounts
        /\ base'.mine = IF fetch.asMe THEN ServedMine ELSE None
    BY <1>1, <2>1 DEF FetchAlone
  <2>3. base'.mine = ServedMine <=> Coherent(base')
    <3>1. \A r \in Reactions : /\ Others[r] \in Nat /\ r # None
                               /\ ServedCounts[r] = Others[r] + IF r = ServedMine THEN 1 ELSE 0
      BY ServedIsMine
    <3>2. base'.mine = ServedMine => Coherent(base')
      BY <2>2, <3>1 DEF Coherent, Mine
    <3>3. ASSUME Coherent(base'), base'.mine # ServedMine
          PROVE  FALSE
      <4>1. ServedMine \in Reactions /\ base'.mine = None
        BY <2>2, <3>3, ServedSound DEF Choice
      <4>2. base'.counts[ServedMine] = Others[ServedMine] + 1 /\ Mine(base', ServedMine) = 0
        BY <2>2, <3>1, <4>1 DEF Mine
      <4> QED BY <3>1, <3>3, <4>1, <4>2 DEF Coherent
    <3> QED BY <3>2, <3>3
  <2>4. base'.mine = IF hidden' THEN None ELSE ServedMine
    BY <1>1, <1>3, <2>2, <2>3
  <2>5. base' = Shown'
    BY <1>1, <2>2, <2>4 DEF Shown, ServedMine, ServedCounts
  <2>6. NothingAsked' /\ layers' = <<>> /\ Len(layers') = 0
    BY <1>1, <2>2, EmptySeq DEF NothingAsked
  <2> QED BY <1>1, <2>5, <2>6 DEF Quiet
<1> QED BY <1>4, <1>5, <1>6, <1>7

(***************************************************************************)
(* Theorems                                                                *)
(***************************************************************************)
\* Every step of the page, of its query and of the server keeps the invariant.
LEMMA NextIInv == IInv /\ [Next]_vars => IInv'
<1> SUFFICES ASSUME IInv, [Next]_vars PROVE IInv'
  OBVIOUS
<1>1. ASSUME NEW c \in Calls,
             Click(c) \/ SignIn(c) \/ Receive(c) \/ ReceiveError(c) \/ Discard(c)
      PROVE  IInv'
  BY <1>1, ClickIInv, SignInIInv, ReceiveIInv, ReceiveErrorIInv, DiscardIInv
<1>2. CASE Refetch \/ ReadCounts \/ ReadMine \/ FetchArrives
  BY <1>2, RefetchIInv, ReadIInv, FetchArrivesIInv
<1>3. CASE SessionChanges \/ Serve
  BY <1>3, SessionChangesIInv, ServeIInv
<1>4. CASE UNCHANGED vars
  <2>1. /\ UNCHANGED <<book, request, applied, outcome, base, layers, fetch, session>>
        /\ UNCHANGED <<clicks, quiet, hidden, torn>>
    BY <1>4 DEF vars, server
  <2>2. TypeOK'
    BY <2>1 DEF IInv, TypeOK, Server!TypeOK, Server!Request
  <2>3. /\ OneReaction' /\ CallsInOrder' /\ FetchSound' /\ CountsNeverShort'
        /\ Served' = Served /\ Shown' = Shown
    BY <2>1 DEF IInv, OneReaction, CallsInOrder, FetchSound, CountsNeverShort, Mine, Served,
         Shown, ServedMine, ServedCounts
  <2>4. FetchAlone'
    BY <2>1 DEF IInv, FetchAlone, NothingAsked, ServedMine, ServedCounts
  <2>5. Quiet => Quiet'
    BY <2>1, <2>3 DEF Quiet, OneMutation, NothingAsked
  <2> QED BY <2>1, <2>2, <2>3, <2>4, <2>5 DEF IInv
<1> QED BY <1>1, <1>2, <1>3, <1>4 DEF Next

\* The invariant holds of every reachable state.
THEOREM Invariance == Spec => []IInv
<1> QED BY InitIInv, NextIInv, PTL DEF Spec

\* The page, its query and the server are always well formed; in particular no
\* two layers are of the same call.
THEOREM TypeCorrect == Spec => []TypeOK
<1>1. IInv => TypeOK
  BY DEF IInv
<1> QED BY <1>1, Invariance, PTL

\* However many mutations are in flight, in whatever order they are answered and
\* whichever fail, the layers computed again above the one that is dropped never
\* show fewer reactions than other people gave, plus mine.
THEOREM NeverShort == Spec => []CountsNeverShort
<1>1. IInv => CountsNeverShort
  BY DEF IInv
<1> QED BY <1>1, Invariance, PTL

\* A mutation answered with success, be it after a sign-in, or a page query with
\* none around, leaves the page in agreement with the server, as far as a guest
\* is answered.
THEOREM Settled == Spec => []SettledAgrees
<1>1. IInv => SettledAgrees
  BY DEF IInv, Quiet, SettledAgrees, Shown
<1> QED BY <1>1, Invariance, PTL
=============================================================================
