------------------------------- MODULE Listings -------------------------------
(***************************************************************************)
(* The paged lists the server answers: validators, proposals, the proposal *)
(* history of an address, the votes and the deposits on a proposal.  The   *)
(* tab, the page and the order are in the URL; an effect hands them to     *)
(* Apollo's lazy query, which shows what it has for the variables executed *)
(* last; resolvers query one page and load the details of its rows in one  *)
(* batch.                                                                  *)
(***************************************************************************)
EXTENDS Visit, Sequences, FiniteSets, SequencesExt

CONSTANTS
  Rows,       \* validators or proposals, numbered by operator address or by id
  Delegates,  \* the validators of an address's delegations, first page
  ListSize    \* rows of a page

ASSUME RowsType == Rows \subseteq Nat /\ IsFiniteSet(Rows)
\* What the database holds of them at each moment of a session: the rows, the
\* moment of each (its moniker or submit time, ties included), which are active or
\* in voting period, who is involved in each, which have details.
ASSUME TablesType ==
  \A s \in Plans :
    /\ Len(s.tables) \in Nat \ {0} /\ DOMAIN s.tables = 1..Len(s.tables)
    /\ \A v \in DOMAIN s.tables :
         /\ s.tables[v].rows \subseteq Rows
         /\ \A r \in s.tables[v].rows : s.tables[v].moment[r] \in Nat
ASSUME DelegatesType == Delegates \in [Addresses -> SUBSET Nat]
ASSUME ListSizeType == ListSize \in Nat \ {0}

VARIABLES
  written,   \* how many of the session's tables the indexer has written
  params,    \* the search parameters of the URL
  waiting,   \* questions that wait for the delegations of the wallet
  overtaken, \* history: an older question was executed after a newer one
  executed,  \* the variables executed last since the screen was mounted
  pending,   \* the tables when their request was made, 0 without one
  cache      \* Apollo's: what was answered, by variables

listVars == <<written, params, waiting, overtaken, executed, pending, cache>>

\* The validators the wallet has delegated to come first.
Pinning == {"votes", "deposits"}
ListAt == [h \in Hosts |-> CASE h = "validators" -> "validators"
                             [] h = "proposals" -> "proposals"
                             [] h = "portfolio" -> "history"
                             [] h \in Pinning -> h
                             [] OTHER -> None]
Histories == {"voted", "submitted", "deposited"}
TabsOf == [validators |-> {"active", "inactive", "all"},
           proposals |-> {"all", "voting", "following"},
           history |-> Histories, votes |-> {"all"}, deposits |-> {"all"}]
FirstTab == [validators |-> "active", proposals |-> "all", history |-> "voted",
             votes |-> "all", deposits |-> "all"]

\* Mutated ParamsAt: pages are counted from zero.
ParamsFromZero(host) ==
  [tab |-> IF ListAt[host] = None THEN "all" ELSE FirstTab[ListAt[host]],
   page |-> 0, sort |-> None]

ParamsAt(host) ==
  [tab |-> IF ListAt[host] = None THEN "all" ELSE FirstTab[ListAt[host]],
   page |-> 1, sort |-> None]

\* The following tab is there for a connected wallet only.
SelectedTab(w, list, v) ==
  IF list = "proposals" /\ v.tab = "following" /\ w.status # "connected"
  THEN FirstTab[list] ELSE v.tab

\* What the screen asks for.
Question(w, p, v) ==
  LET list == ListAt[p.host]
      tab == SelectedTab(w, list, v)
  IN [list |-> list, tab |-> tab, page |-> v.page, sort |-> v.sort,
      of |-> CASE list = "history" -> Shown(w, p)
               [] list = "proposals" /\ tab = "following" -> w.account
               [] OTHER -> None,
      pinned |-> IF list \in Pinning /\ w.account # None THEN Delegates[w.account] ELSE {}]

(***************************************************************************)
(* The server                                                              *)
(***************************************************************************)
Follows(t, of, r) == \E k \in Histories : of \in t.involved[k][r]
Matching(t, q) ==
  {r \in t.rows :
     CASE q.tab = "all" -> TRUE
       [] q.tab \in {"active", "voting"} -> r \in t.active
       [] q.tab = "inactive" -> r \notin t.active
       [] q.tab = "following" -> q.of = None \/ Follows(t, q.of, r)
       [] OTHER -> q.of \in t.involved[q.tab][r]}

\* Mutated Precedes: ORDER BY submit_time only.
PrecedesInTime(t, q, x, y) ==
  CASE q.list = "validators" -> q.sort = "name" /\ t.moment[x] < t.moment[y]
    [] q.list = "history" -> t.moment[x] < t.moment[y]
    [] q.list = "proposals" -> t.moment[x] > t.moment[y]
    [] OTHER -> q.sort = None /\ t.moment[x] > t.moment[y]

\* ORDER BY: none for validators when no column is chosen; the moniker, then the
\* address; the submit time, then the newest id; the height for votes and deposits
\* (ProposalPages has their other orders).
Precedes(t, q, x, y) ==
  CASE q.list = "validators" ->
         /\ q.sort = "name"
         /\ t.moment[x] < t.moment[y] \/ (t.moment[x] = t.moment[y] /\ x < y)
    [] q.list = "history" ->
         t.moment[x] < t.moment[y] \/ (t.moment[x] = t.moment[y] /\ x > y)
    [] q.list = "proposals" ->
         t.moment[x] > t.moment[y] \/ (t.moment[x] = t.moment[y] /\ x > y)
    [] OTHER -> q.sort = None /\ t.moment[x] > t.moment[y]

\* The database sorts what the order leaves open as it likes, at each query.
Results(t, q) ==
  {s \in SetToSeqs(Matching(t, q)) :
     \A i, j \in DOMAIN s : i < j => ~Precedes(t, q, s[j], s[i])}

\* Mutated RowsOfPage: the offset of a later page is one too far.
RowsOfPageSkipping(s, page) ==
  LET after == IF page = 1 THEN 0 ELSE (page - 1) * ListSize + 1
  IN SubSeq(s, after + 1, IF Len(s) < after + ListSize THEN Len(s) ELSE after + ListSize)

\* LIMIT and OFFSET of a page.
RowsOfPage(s, page) ==
  LET after == (page - 1) * ListSize
  IN SubSeq(s, after + 1, IF Len(s) < after + ListSize THEN Len(s) ELSE after + ListSize)

\* Mutated InOrderOf: the rows of the batch as the database returned them.
AsFound(keys, found) ==
  [i \in DOMAIN keys |-> IF i \in DOMAIN found THEN found[i] ELSE None]

\* One result for each key of the batch, nothing for those not found.
InOrderOf(keys, found) ==
  [i \in DOMAIN keys |-> IF \E j \in DOMAIN found : found[j] = keys[i] THEN keys[i]
                         ELSE None]
Keys(s) == {s[i] : i \in DOMAIN s}

\* The loader asks for all keys of a page at once, and what is found comes in
\* any order.
Batch(t, keys) ==
  {InOrderOf(keys, found) : found \in SetToSeqs(t.described \intersect Keys(keys))}

\* The rows are counted, a page of them is read and its details are loaded, one
\* query after another; the indexer may write in between.  This is page q.page of
\* the results s that were read of tables[v].
Read(q, since, v, s) ==
  {[rows |-> RowsOfPage(s, q.page), details |-> details, total |-> total, at |-> v] :
     total \in {Cardinality(Matching(plan.tables[w], q)) : w \in since..v},
     details \in UNION {Batch(plan.tables[w], RowsOfPage(s, q.page)) : w \in v..written}}
Answers(q, since) ==
  UNION {UNION {Read(q, since, v, s) : s \in Results(plan.tables[v], q)} : v \in since..written}

\* Blocks of the chain: rows are added, statuses and votes change.
Indexes ==
  /\ written < Len(plan.tables)
  /\ written' = written + 1
  /\ UNCHANGED <<plan, wallet, place, params, waiting, overtaken, executed, pending, cache>>

(***************************************************************************)
(* The client                                                              *)
(***************************************************************************)
ListInit ==
  /\ written = 1
  /\ params = ParamsAt(place.host)
  /\ waiting = {}
  /\ overtaken = FALSE
  /\ executed = None
  /\ pending = 0
  /\ cache = [q \in {} |-> None]

\* Handed to Apollo.  The first time on a screen the network is asked whatever
\* the cache has, later only for what it has not.
Executes(q, prior) ==
  /\ executed' = q
  /\ pending' = IF q = prior /\ pending # 0 THEN pending
                ELSE IF q \notin DOMAIN cache \/ prior = None THEN written ELSE 0

\* Mutated Asked: an account that takes the place of another is not noticed.
AskedOnConnect(renewed) ==
  LET list == ListAt[place'.host] IN
  /\ list \in plan.lists
  /\ list = "history" => Shown(wallet', place') # None
  /\ \/ place'.host # place.host
     \/ params' # params
     \/ renewed /\ wallet'.status # wallet.status

\* When the effect that fetches runs.
Asked(renewed) ==
  LET list == ListAt[place'.host] IN
  /\ list \in plan.lists
  /\ list = "history" => Shown(wallet', place') # None
  /\ \/ place'.host # place.host
     \/ renewed /\ list \in {"proposals"} \union Pinning
     \/ Question(wallet', place', params') # Question(wallet, place, params)

Waiting(q, newest) == [q |-> q, newest |-> newest]
Older(es) == {Waiting(e.q, FALSE) : e \in es}

\* Votes and deposits wait for the delegations of a connected wallet first.
Refetches(renewed) ==
  LET stays == place'.host = place.host
      before == IF stays THEN waiting ELSE {}
      prior == IF stays THEN executed ELSE None
      q == Question(wallet', place', params')
      waits == q.list \in Pinning /\ wallet'.status = "connected"
  IN /\ waiting' = IF ~Asked(renewed) THEN before
                   ELSE IF waits THEN Older(before) \union {Waiting(q, TRUE)}
                   ELSE Older(before)
     /\ IF Asked(renewed) /\ ~waits THEN Executes(q, prior)
        ELSE executed' = prior /\ pending' = IF stays THEN pending ELSE 0
     /\ overtaken' = (stays /\ ~(Asked(renewed) /\ ~waits) /\ overtaken)
     /\ UNCHANGED <<written, cache>>

\* Another place has search parameters of its own.
ListVisit(renewed) ==
  /\ params' = IF place' = place THEN params ELSE ParamsAt(place'.host)
  /\ Refetches(renewed)

List == ListAt[place.host]
Choosing(v) ==
  /\ List \in plan.lists
  /\ v # params
  /\ params' = v
  /\ UNCHANGED <<plan, wallet, place>>
  /\ Refetches(FALSE)

SelectTab(tab) ==
  /\ List \in plan.lists
  /\ tab \in plan.tabs \intersect TabsOf[List]
  /\ tab = "following" => wallet.status = "connected"
  /\ Choosing([tab |-> tab, page |-> 1, sort |-> None])

\* The pages there are, by the answer shown; the order is dropped.
Shows == executed # None /\ executed \in DOMAIN cache
PagesFor(total) == 1..((total + ListSize - 1) \div ListSize)
SetPage(n) ==
  /\ Shows
  /\ n \in PagesFor(cache[executed].total)
  /\ Choosing([tab |-> SelectedTab(wallet, List, params), page |-> n, sort |-> None])

\* The validators stay on their page, votes and deposits go back to the first.
Sort(column) ==
  /\ List \in {"validators"} \union Pinning
  /\ Choosing([tab |-> params.tab, page |-> IF List \in Pinning THEN 1 ELSE params.page,
               sort |-> column])

\* The delegations come, or the call fails and nobody is pinned.
DelegationsCome(e) ==
  /\ waiting' = waiting \ {e}
  /\ overtaken' = ~e.newest
  /\ \/ Executes(e.q, executed)
     \/ Executes([e.q EXCEPT !.pinned = {}], executed)
  /\ UNCHANGED <<plan, wallet, place, written, params, cache>>

AnswerComes ==
  /\ pending # 0
  /\ pending' = 0
  /\ \E a \in Answers(executed, pending) :
       cache' = [q \in DOMAIN cache \union {executed} |->
                   IF q = executed THEN a ELSE cache[q]]
  /\ UNCHANGED <<plan, wallet, place, written, params, waiting, overtaken, executed>>

AnswerFails ==
  /\ pending # 0
  /\ pending' = 0
  /\ UNCHANGED <<plan, wallet, place, written, params, waiting, overtaken, executed, cache>>

Chooses ==
  \/ \E tab \in plan.tabs : SelectTab(tab)
  \/ \E n \in PagesFor(Cardinality(Rows)) : SetPage(n)
  \/ \E column \in plan.columns : Sort(column)

Answering ==
  \/ \E e \in waiting : DelegationsCome(e)
  \/ AnswerComes
  \/ AnswerFails
-----------------------------------------------------------------------------
(* Properties *)

Questions == [list : {"validators", "proposals", "history"} \union Pinning,
              tab : UNION {TabsOf[l] : l \in DOMAIN TabsOf}, page : Nat \ {0},
              sort : {"name", "power", None}, of : Addresses \union {None},
              pinned : SUBSET Nat]

ListTypeOK ==
  /\ written \in DOMAIN plan.tables
  /\ pending \in 0..written
  /\ executed = None \/ executed \in Questions
  /\ \A e \in waiting : e.q \in Questions /\ e.newest \in BOOLEAN
  /\ DOMAIN cache \subseteq Questions
  /\ \A q \in DOMAIN cache : /\ cache[q].at \in 1..written
                             /\ Keys(cache[q].rows) \subseteq plan.tables[cache[q].at].rows

\* What a list shows answers the tab, page and order of the URL and the wallet
\* of the moment, also after the wallet changed or went, unless the delegations
\* of an older question came last (ProposalScreen.tsx:106, ValidatorScreen.tsx:136,
\* PortfolioScreen.tsx:107, ProposalVotesPanel.tsx:285).
PageAnswersQuestion ==
  LET q == Question(wallet, place, params) IN
  (/\ List \in plan.lists
   /\ executed # None /\ waiting = {} /\ ~overtaken
   /\ List = "history" => Shown(wallet, place) # None)
  => executed \in {q, [q EXCEPT !.pinned = {}]}

Ordered(q) ==
  q.list \in {"proposals", "history"} \/ (q.list = "validators" /\ q.sort = "name")
\* Cached pages of the list q is of, read while the tables were the same.
PagesOf(q) ==
  {p \in DOMAIN cache : p = [q EXCEPT !.page = p.page] /\ cache[p].at = cache[q].at}
Listed(q) == Matching(plan.tables[cache[q].at], q)
\* What the tables say of a row since version v.
Since(v) == {plan.tables[w] : w \in v..written}
\* The pages of a list with an order of its own, fetched one by one, show each
\* row once, ties of the order included, as long as the indexer writes nothing
\* between their queries; when it does a row may be shown on two pages.  And each
\* row of any page has its own details, or none if the database had none, though
\* they come in one batch, in any order and after another write
\* (queries/proposal.go:118, queries/validator.go:137 and :200).
PagesAreTheList ==
  /\ \A q \in DOMAIN cache : \A i \in DOMAIN cache[q].rows :
       LET row == cache[q].rows[i]
       IN \/ /\ cache[q].details[i] = row
             /\ \E t \in Since(cache[q].at) : row \in t.described
          \/ /\ cache[q].details[i] = None
             /\ \E t \in Since(cache[q].at) : row \notin t.described
  /\ \A q \in DOMAIN cache : Ordered(q) =>
       /\ \A p1, p2 \in PagesOf(q) :
            p1 # p2 => Keys(cache[p1].rows) \intersect Keys(cache[p2].rows) = {}
       /\ PagesFor(Cardinality(Listed(q))) \subseteq {p.page : p \in PagesOf(q)}
            => UNION {Keys(cache[p].rows) : p \in PagesOf(q)} = Listed(q)

\* The list of q at version w of the tables still has what it had at version v,
\* where it was.
Grown(q, v, w) ==
  /\ Matching(plan.tables[v], q) \subseteq Matching(plan.tables[w], q)
  /\ \A r \in Matching(plan.tables[v], q) : plan.tables[w].moment[r] = plan.tables[v].moment[r]
\* Who leafs through a list from its first page to one that was its last when it
\* was read misses nothing that was there at the first page, whatever the indexer
\* adds between the pages: what it adds only moves rows to later pages
\* (queries/proposal.go:118).
NothingSkipped ==
  \A q \in DOMAIN cache :
    LET page(n) == [q EXCEPT !.page = n]
        at(n) == cache[page(n)].at
        leafed == 1..q.page
    IN (/\ Ordered(q)
        /\ \A n \in leafed : page(n) \in DOMAIN cache
        /\ \A m, n \in leafed : m < n => at(m) <= at(n) /\ Grown(q, at(m), at(n))
        /\ q.page * ListSize >= Cardinality(Listed(q)))
       => Listed(page(1)) \subseteq UNION {Keys(cache[page(n)].rows) : n \in leafed}
=============================================================================
