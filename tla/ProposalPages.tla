---------------------------- MODULE ProposalPages ----------------------------
(***************************************************************************)
(* One page of a proposal's votes, or of its deposits, as the resolvers    *)
(* Votes and Deposits put it together: first the validators the user       *)
(* delegates to (PinnedValidators), voted or not, then the other entries.  *)
(* Five statements read the database while the indexer writes to it.       *)
(*                                                                         *)
(* A validator stands for both of its addresses, operator and              *)
(* self-delegate.  What an entry is sorted by is a number: its place by    *)
(* name and address, which it shares with no other, or its option, amount  *)
(* or height, which it may share: the database is then free to list the    *)
(* two either way, in each statement anew.                                 *)
(***************************************************************************)
EXTENDS Naturals, FiniteSets, Sequences, SequencesExt

CONSTANTS
  Known,       \* the validators of the database, by moniker: a sequence
  Unknown,     \* validators of the chain the indexer has not got yet
  People,      \* other voters and depositors
  Nameless,    \* who is behind a deposit without a depositor: the proposer
  Values,      \* bound on the values entries are sorted by
  First,       \* page size
  MaxEntries,  \* bound on the entries of the proposal
  None

ASSUME FirstType == First \in Nat \ {0}
\* An operator address is a key of the table, so no validator is there twice.
ASSUME KnownType ==
  /\ Known \in Seq(Range(Known))
  /\ \A i, j \in DOMAIN Known : Known[i] = Known[j] => i = j
ASSUME BoundsType == IsFiniteSet(Unknown) /\ MaxEntries \in Nat /\ Values \in Nat
\* Only deposits may lack an address, and no validator does.
ASSUME NamelessType == Nameless \notin Range(Known) \union Unknown \union People

VARIABLES
  panel,     \* whether votes or deposits are asked for
  entries,   \* who has voted or deposited on this proposal, with what it is sorted by
  elsewhere, \* validators that have done so on another proposal
  request,   \* the resolver at work and what its statements have returned
  answer     \* the last page answered

vars == <<panel, entries, elsewhere, request, answer>>

Validators == Range(Known)
Chain == Validators \union Unknown
Who == Chain \union People \union {Nameless}

\* Pages worth asking for: those with anything on them, and one more.
Pages == 0 .. (MaxEntries + Cardinality(Chain)) \div First + 1

NoOneTwice(s) == \A i, j \in DOMAIN s : s[i] = s[j] => i = j

Entered == DOMAIN entries

(***************************************************************************)
(* Statements                                                              *)
(***************************************************************************)
Least(m, n) == IF m < n THEN m ELSE n

\* WHERE ... IN: the elements of list that are in S, in their order.
Restricted(list, S) ==
  FoldLeft(LAMBDA kept, x : IF x \in S THEN Append(kept, x) ELSE kept, <<>>, list)

\* LIMIT first + 1 OFFSET after, and what is made of it.
Paginated(list, first, after, count) ==
  LET found == SubSeq(list, after + 1, Least(Len(list), after + first + 1)) IN
  [items       |-> SubSeq(found, 1, Least(Len(found), first)),
   hasNext     |-> Len(found) > first,
   hasPrevious |-> after > 0,
   total       |-> count]

\* NewQuery with includeAddresses; none stands for all validators.
Included(pinned) ==
  IF pinned = {} THEN Known ELSE Restricted(Known, pinned)

\* Mutated LooksForValidators: not even when the offset is at their end.
LooksBeforeEnd(after, pinned) ==
  ~(pinned = {} \/ after >= Cardinality(pinned))

\* QueryPaginatedValidators, as the resolvers call it.
LooksForValidators(after, pinned) ==
  ~(pinned = {} \/ after > Cardinality(pinned))

ValidatorsPage(after, pinned) ==
  LET looks == LooksForValidators(after, pinned)
      list == Included(pinned)
  IN Paginated(list, IF looks THEN First ELSE 0, IF looks THEN after ELSE 0, Len(list))

\* Info.ProposalVotes / Info.ProposalDeposits: those on any proposal.  The first
\* on this one makes a row; one who has none on any makes an empty row.
Row(v) == [who |-> v, entered |-> v \in Entered]

RowsOfValidators(items) ==
  LET shown == Restricted(items, Entered \union (Range(items) \ elsewhere))
  IN [i \in DOMAIN shown |-> Row(shown[i])]

\* Mutated Remaining: nobody is excluded from the votes either.
RemainingAll(pinned, items) == Entered

\* NOT IN (excludeAddresses): Votes excludes the self-delegate addresses of the
\* page's validators.  Deposits gives the operator addresses of those pinned,
\* which are no depositor's, but NULL is not outside of any list.
Remaining(pinned, items) ==
  IF panel = "votes" THEN Entered \ Range(items)
  ELSE IF pinned = {} THEN Entered ELSE Entered \ {Nameless}

\* ORDER BY: any list of S in which the values do not fall.
Listings(S) ==
  {s \in SetToSeqs(S) : \A i, j \in DOMAIN s : i < j => entries[s[i]] <= entries[s[j]]}

EntryLimit(items) ==
  IF Len(items) = First THEN 0
  ELSE IF Len(items) < First THEN First - Len(items) ELSE First

\* Mutated EntryOffset: the validators before are not counted.
OffsetIgnoresPins(after, pinned, page) ==
  IF pinned # {} /\ after < page.total THEN 0 ELSE after

EntryOffset(after, pinned, page) ==
  IF pinned = {} THEN after
  ELSE IF after < page.total THEN 0 ELSE after - page.total

\* The connection; page info comes from the validators if they were looked for.
Page(after, pinned, validators, rows, found) ==
  LET looks == LooksForValidators(after, pinned) IN
  [after       |-> after,
   pinned      |-> pinned,
   validators  |-> validators.items,
   rows        |-> rows \o [i \in DOMAIN found.items |->
                              [who |-> found.items[i], entered |-> TRUE]],
   total       |-> found.total + IF looks THEN validators.total ELSE 0,
   hasNext     |-> IF looks THEN validators.hasNext ELSE found.hasNext,
   hasPrevious |-> IF looks THEN validators.hasPrevious ELSE found.hasPrevious]

(***************************************************************************)
(* A request                                                               *)
(***************************************************************************)
Init ==
  /\ panel \in {"votes", "deposits"}
  /\ entries = [w \in {} |-> 0]
  /\ elsewhere = {}
  /\ request = None
  /\ answer = None

\* The votes or deposits panel asks for a page, with the validators of the
\* user's delegations, if the wallet is connected.
Ask ==
  /\ request = None
  /\ \E k \in Pages, pinned \in SUBSET Chain :
       request' = [stage |-> "validators", after |-> k * First, pinned |-> pinned,
                   page |-> None, rows |-> None, count |-> None]
  /\ answer' = None
  /\ UNCHANGED <<panel, entries, elsewhere>>

\* The count and the validators: neither changes here.
LoadValidators ==
  /\ request # None
  /\ request.stage = "validators"
  /\ request' = [request EXCEPT !.stage = "own",
                                !.page = ValidatorsPage(request.after, request.pinned)]
  /\ UNCHANGED <<panel, entries, elsewhere, answer>>

\* The has-many relation is a statement of its own.
LoadOwn ==
  /\ request # None
  /\ request.stage = "own"
  /\ request' = [request EXCEPT
                   !.stage = "count",
                   !.rows = RowsOfValidators(request.page.items)]
  /\ UNCHANGED <<panel, entries, elsewhere, answer>>

\* Mutated Count: the number is not kept.
CountForgets ==
  /\ request # None
  /\ request.stage = "count"
  /\ request' = [request EXCEPT !.stage = "scan"]
  /\ UNCHANGED <<panel, entries, elsewhere, answer>>

Count ==
  /\ request # None
  /\ request.stage = "count"
  /\ request' = [request EXCEPT
                   !.stage = "scan",
                   !.count = Cardinality(Remaining(request.pinned, request.page.items))]
  /\ UNCHANGED <<panel, entries, elsewhere, answer>>

\* The other entries of a page, when list is what the statement makes of them.
Rest(list, after, pinned, page, count) ==
  Paginated(list, EntryLimit(page.items), EntryOffset(after, pinned, page), count)

Scan ==
  /\ request # None
  /\ request.stage = "scan"
  /\ \E list \in Listings(Remaining(request.pinned, request.page.items)) :
       answer' = Page(request.after, request.pinned, request.page, request.rows,
                      Rest(list, request.after, request.pinned, request.page, request.count))
  /\ request' = None
  /\ UNCHANGED <<panel, entries, elsewhere>>

\* A statement fails: the query is answered with an error.
QueryFails ==
  /\ request # None
  /\ request' = None
  /\ UNCHANGED <<panel, entries, elsewhere, answer>>

(***************************************************************************)
(* The indexer                                                             *)
(***************************************************************************)
\* A vote or deposit, or another one of the same address, which may move.
Enters(w) ==
  /\ w \in IF panel = "votes" THEN Who \ {Nameless} ELSE Who
  /\ Cardinality(Entered \union {w}) <= MaxEntries
  /\ \E value \in 1 .. Values :
       entries' = [u \in Entered \union {w} |-> IF u = w THEN value ELSE entries[u]]
  /\ UNCHANGED <<panel, elsewhere, request, answer>>

EntersElsewhere(v) ==
  /\ v \in Validators \ elsewhere
  /\ elsewhere' = elsewhere \union {v}
  /\ UNCHANGED <<panel, entries, request, answer>>

Next ==
  \/ Ask \/ LoadValidators \/ LoadOwn \/ Count \/ Scan \/ QueryFails
  \/ \E w \in Who : Enters(w) \/ EntersElsewhere(w)

Spec == Init /\ [][Next]_vars
-----------------------------------------------------------------------------
(***************************************************************************)
(* Properties                                                              *)
(***************************************************************************)
RowType == [who : Who, entered : BOOLEAN]

TypeOK ==
  /\ panel \in {"votes", "deposits"}
  /\ Entered \subseteq Who /\ entries \in [Entered -> 1 .. Values]
  /\ Cardinality(Entered) <= MaxEntries
  /\ elsewhere \subseteq Validators
  /\ request # None =>
       /\ request.stage \in {"validators", "own", "count", "scan"}
       /\ request.after \in Nat /\ request.pinned \subseteq Chain
       /\ request.stage \in {"count", "scan"} => request.rows \in Seq(RowType)
       /\ request.stage = "scan" => request.count \in Nat
  /\ answer # None =>
       /\ answer.rows \in Seq(RowType) /\ answer.validators \in Seq(Validators)
       /\ answer.total \in Nat /\ {answer.hasNext, answer.hasPrevious} \subseteq BOOLEAN

\* A page of votes shows nobody twice, though a pinned validator may vote while
\* the page is put together, and no page is longer than was asked for: rows get
\* their cursors from a map keyed by who they are of.
PageSound ==
  answer # None =>
    /\ Len(answer.rows) <= First
    /\ panel = "votes" => NoOneTwice([i \in DOMAIN answer.rows |-> answer.rows[i].who])

\* A page is said to have a previous one exactly when it is not the first,
\* whichever of the two lists the page info is taken from.
PreviousUnlessFirst ==
  answer # None => (answer.hasPrevious <=> answer.after > 0)

\* What a page may be if nothing changes while it is put together.
QuietPages(after, pinned) ==
  LET page == ValidatorsPage(after, pinned)
      rest == Remaining(pinned, page.items)
  IN {Page(after, pinned, page, RowsOfValidators(page.items),
           Rest(list, after, pinned, page, Cardinality(rest))) : list \in Listings(rest)}

\* Entries that a statement puts in a place of their own.  Not those that share
\* the value asked for, whose order is left to the database at every statement
\* (queries/proposal.go:165, :167, :218, :220), nor, once validators are pinned, a
\* deposit without a depositor (queries/proposal.go:200).
Placed(pinned) ==
  {w \in Entered : /\ \A u \in Entered \ {w} : entries[u] # entries[w]
                   /\ panel = "votes" \/ pinned = {} \/ w # Nameless}

\* The pages leave nobody out who has a place: whatever is pinned, there is a page
\* that shows the entry however each statement lists the others, those tied with
\* each other among them, although validators are taken out of the list of one
\* page, and counted in the offset of the next.
NobodyLeftOut ==
  request = None /\ answer = None =>
    \A pinned \in SUBSET Chain : \A w \in Placed(pinned) :
      \E k \in Pages : \A page \in QuietPages(k * First, pinned) :
        \E i \in DOMAIN page.rows : page.rows[i] = [who |-> w, entered |-> TRUE]

\* "Add validators to result", "There should only be at most one vote when
\* scoped": every validator on the page has a row, with or without an entry.
ValidatorsAdded ==
  answer # None =>
    \A v \in Range(answer.validators) : \E i \in DOMAIN answer.rows : answer.rows[i].who = v
=============================================================================
