------------------------------ MODULE Portfolio ------------------------------
(***************************************************************************)
(* The panels that read the chain: the balances and the stakes of the      *)
(* portfolio, the stakes of the overview, the stakes of the wallet in the  *)
(* list of validators.  An effect starts a fetch whenever the address or   *)
(* the wallet context changes; a fetch is several reads, paged or side by  *)
(* side, between which the chain moves on, and nothing stops an older      *)
(* fetch from answering after a newer one.                                 *)
(***************************************************************************)
EXTENDS Visit, FiniteSets, Sequences, FiniteSetsExt

CONSTANTS
  Validators,  \* numbered in the order of their keys in the chain's store
  PageSize,    \* delegations in one answer of the chain
  Known,       \* addresses the chain has an account for
  Ledgers      \* what a known address may own at first

ASSUME ValidatorsType ==
  Validators \subseteq Nat \ {0} /\ None \notin Validators /\ IsFiniteSet(Validators)
ASSUME KnownType == Known \subseteq Addresses
ASSUME PageSizeType == PageSize \in Nat \ {0}

VARIABLES
  flight,  \* for each panel, its fetches since the screen was mounted
  panel,   \* for each panel, its request state and the fetch that set it
  ledger,  \* the chain: what each address owns
  events   \* changes of the chain so far

panels == <<flight, panel>>
chain == <<ledger, events>>

Panels == {"portfolio", "stakes", "mine"}
PanelsAt == [h \in Hosts |-> CASE h = "portfolio" -> {"portfolio", "stakes"}
                               [] h = "overview" -> {"stakes"}
                               [] h = "validators" -> {"mine"}
                               [] OTHER -> {}]

Amounts == [Validators -> Nat]
Ledger == [funds : Nat, stake : Amounts, unbonding : Amounts, rewards : Amounts]

ASSUME LedgersType == Ledgers \subseteq Ledger
Nothing == [funds |-> 0, stake |-> [v \in Validators |-> 0],
            unbonding |-> [v \in Validators |-> 0], rewards |-> [v \in Validators |-> 0]]

Reads == {"funds", "stake", "unbonding", "rewards", "commission"}
Paged == {"stake", "unbonding"}

Flight == [of : Addresses \union {None},
           stage : {"account", "reading", "answered", "ended", "dropped"},
           left : SUBSET Reads,                \* reads not answered yet
           key : [Paged -> Nat],               \* where the next page starts
           sum : Nat,                          \* what the answers add up to
           rows : SUBSET Validators,           \* delegations read
           pair : [Validators -> Validators \union {None}],
                                               \* the reward shown in a row
           wealth : Nat,     \* history: what the address owned at the start
           moved : BOOLEAN,  \* history: the chain changed for it since
           undone : BOOLEAN] \* history: a delegation was removed after it was read


(***************************************************************************)
(* What the chain answers                                                  *)
(***************************************************************************)
Total(amounts, S) == MapThenSumSet(LAMBDA v : amounts[v], S)
Wealth(l) ==
  l.funds + Total(l.stake, Validators) + Total(l.unbonding, Validators)
    + Total(l.rewards, Validators)

Holding(amounts) == {v \in Validators : amounts[v] > 0}
Rank(v, S) == Cardinality({w \in S : w <= v})

\* One page of the validators of S, from a key on, and the key of the next one:
\* 0 when there is none.
Rest(S, key) == {v \in S : v >= key}
Page(S, key) == {v \in Rest(S, key) : Rank(v, Rest(S, key)) <= PageSize}

\* Mutated NextKey: the loop reads one page.
NextKeyOfFirst(S, key) == 0

NextKey(S, key) ==
  LET beyond == Rest(S, key) \ Page(S, key)
  IN IF beyond = {} THEN 0 ELSE Min(beyond)

\* The i-th row takes the i-th reward.
PairedRewards(rows, rewarded) ==
  [v \in Validators |->
     IF v \in rows /\ \E w \in rewarded : Rank(w, rewarded) = Rank(v, rows)
     THEN CHOOSE w \in rewarded : Rank(w, rewarded) = Rank(v, rows)
     ELSE None]
NoPairs == [v \in Validators |-> None]

(***************************************************************************)
(* Asking                                                                  *)
(***************************************************************************)
FirstReads(p) ==
  CASE p = "portfolio" -> Reads
    [] p = "stakes" -> {"stake"}
    [] p = "mine" -> {"stake", "rewards"}

\* Only an address given by the screen is checked first.
NewFlight(p, of, host) ==
  [of |-> of, stage |-> IF host = "portfolio" THEN "account" ELSE "reading",
   left |-> FirstReads(p), key |-> [r \in Paged |-> 0], sum |-> 0, rows |-> {},
   pair |-> NoPairs, wealth |-> Wealth(ledger[of]), moved |-> FALSE, undone |-> FALSE]

\* A fetch that brought nothing: the overview's, when no wallet is connected.
Spent(of) ==
  [of |-> of, stage |-> "ended", left |-> {}, key |-> [r \in Paged |-> 0], sum |-> 0,
   rows |-> {}, pair |-> NoPairs, wealth |-> 0, moved |-> FALSE, undone |-> FALSE]

Fresh == [is |-> "initial", by |-> 0]
Loading == [is |-> "loading", by |-> 0]

PortfolioInit ==
  /\ plan \in Plans
  /\ flight = [p \in Panels |-> <<>>]
  /\ panel = [p \in Panels |-> Fresh]
  /\ \E owned \in [Known -> Ledgers] :
       ledger = [a \in Addresses |-> IF a \in Known THEN owned[a] ELSE Nothing]
  /\ events = 0

Init ==
  /\ wallet = Idle
  /\ place = Invalid
  /\ PortfolioInit

\* Mutated Asks: the effect does not depend on what comes from the wallet.
AsksOnMount(p, renewed) ==
  /\ p \in plan.panels \intersect PanelsAt[place'.host]
  /\ place'.host # place.host \/ place'.of # place.of
  /\ Shown(wallet', place') # None \/ place'.host = "overview"

\* An effect runs when its screen is mounted, and when what it depends on is
\* new: the address, or anything made from the wallet context.
Asks(p, renewed) ==
  /\ p \in plan.panels \intersect PanelsAt[place'.host]
  /\ \/ renewed
     \/ place'.host # place.host
     \/ Shown(wallet', place') # Shown(wallet, place)
  /\ Shown(wallet', place') # None \/ place'.host = "overview"

FlightsAfter(p, renewed) ==
  LET old == IF place'.host = place.host THEN flight[p] ELSE <<>>
      of == Shown(wallet', place')
  IN IF ~Asks(p, renewed) THEN old
     ELSE Append(old, IF of = None THEN Spent(None) ELSE NewFlight(p, of, place'.host))

\* The stakes in the list of validators stay until the answer comes.
PanelAfter(p, renewed) ==
  LET old == IF place'.host = place.host THEN panel[p] ELSE Fresh
  IN IF ~Asks(p, renewed) \/ p = "mine" THEN old
     ELSE IF Shown(wallet', place') # None THEN Loading
     ELSE [is |-> "failed", by |-> Len(FlightsAfter(p, renewed))]

Follow(renewed) ==
  /\ flight' = [p \in Panels |-> FlightsAfter(p, renewed)]
  /\ panel' = [p \in Panels |-> PanelAfter(p, renewed)]
  /\ \A p \in Panels : Len(flight'[p]) <= plan.asks
  /\ UNCHANGED <<plan, chain>>

\* An address found invalid leads to the error page, at once or when the screen
\* next looks; a portfolio of nobody asks for a wallet instead.
AsksForWallet(w, p) == w.status = "idle" /\ Shown(w, p) = None
Lands(w, p) ==
  IF /\ p.host = "portfolio" /\ place.host = "portfolio"
     /\ \E q \in Panels : panel[q].is = "invalid"
     /\ ~AsksForWallet(w, p)
  THEN Invalid ELSE p

GoTo(p) ==
  /\ p \in Places \ {place}
  /\ place.host # "broken"
  /\ UNCHANGED wallet
  /\ place' = Lands(wallet, p)
  /\ Follow(FALSE)

WalletChanges(w) ==
  /\ place.host # "broken"
  /\ WalletBecomes(w)
  /\ wallet' = w
  /\ place' = Lands(w, place)
  /\ Follow(TRUE)

(***************************************************************************)
(* A fetch                                                                 *)
(***************************************************************************)
In(p, i, stage) ==
  /\ place.host # "broken"
  /\ i \in 1..Len(flight[p])
  /\ flight[p][i].stage = stage

Becomes(p, i, f) == flight' = [flight EXCEPT ![p][i] = f]
\* A fetch is over.  What it had brought is forgotten when it is not shown any
\* more; a dropped one leaves the panel as it is.
Over(p, i, stage) ==
  flight' = [flight EXCEPT ![p] = [j \in 1..Len(flight[p]) |->
               IF j = i THEN [flight[p][i] EXCEPT !.stage = stage]
               ELSE IF flight[p][j].stage = "ended" /\ panel'[p].by # j
               THEN Spent(flight[p][j].of)
               ELSE flight[p][j]]]
Ended(p, i) == Over(p, i, "ended")
Sets(p, i, is) == panel' = [panel EXCEPT ![p] = [is |-> is, by |-> i]]
Stays == UNCHANGED <<wallet, place>>

AccountFound(p, i) ==
  /\ In(p, i, "account")
  /\ flight[p][i].of \in Known
  /\ Becomes(p, i, [flight[p][i] EXCEPT !.stage = "reading"])
  /\ UNCHANGED <<panel, plan, chain>> /\ Stays

\* No account yet, or any failure of the call.
AccountNotFound(p, i) ==
  /\ In(p, i, "account")
  /\ IF AsksForWallet(wallet, place)
     THEN Sets(p, i, "invalid") /\ Ended(p, i) /\ Stays
     ELSE /\ place' = Invalid
          /\ flight' = [q \in Panels |-> <<>>]
          /\ panel' = [q \in Panels |-> Fresh]
          /\ UNCHANGED wallet
  /\ UNCHANGED <<plan, chain>>

\* The flight f of panel p after read r, which was the last of its kind or not.
Answered(p, f, r, last) ==
  LET left == IF ~last THEN f.left
              ELSE IF p = "stakes" /\ r = "stake" THEN {"rewards"}
              ELSE f.left \ {r}
  IN [f EXCEPT !.left = left, !.stage = IF left = {} THEN "answered" ELSE "reading"]

ReadPage(p, i, r) ==
  LET f == flight[p][i]
      amounts == ledger[f.of][r]
      page == Page(Holding(amounts), f.key[r])
      next == NextKey(Holding(amounts), f.key[r])
  IN /\ In(p, i, "reading")
     /\ r \in f.left \intersect Paged
     /\ Becomes(p, i, [Answered(p, f, r, next = 0) EXCEPT
                         !.key[r] = next,
                         !.sum = IF p = "portfolio" THEN @ + Total(amounts, page) ELSE @,
                         !.rows = IF p = "stakes" THEN @ \union page ELSE @])
     /\ UNCHANGED <<panel, plan, chain>> /\ Stays

ReadFunds(p, i) ==
  LET f == flight[p][i]
  IN /\ In(p, i, "reading")
     /\ "funds" \in f.left
     /\ Becomes(p, i, [Answered(p, f, "funds", TRUE) EXCEPT !.sum = @ + ledger[f.of].funds])
     /\ UNCHANGED <<panel, plan, chain>> /\ Stays

\* What a validator has earned: shown beside the balance, and no part of it.
ReadCommission(p, i) ==
  /\ In(p, i, "reading")
  /\ "commission" \in flight[p][i].left
  /\ Becomes(p, i, Answered(p, flight[p][i], "commission", TRUE))
  /\ UNCHANGED <<panel, plan, chain>> /\ Stays

\* Mutated Rewarded: the rewards of other delegations are not left out.
RewardedAll(l, rows) == Holding(l.stake)

\* The rewards of those that have a row.
Rewarded(l, rows) == Holding(l.stake) \intersect rows

\* The chain lists the rewards of the delegations of the moment, in the order of
\* its store; the stakes keep those of the rows they have.
ReadRewards(p, i) ==
  LET f == flight[p][i]
      l == ledger[f.of]
  IN /\ In(p, i, "reading")
     /\ "rewards" \in f.left
     /\ Becomes(p, i, [Answered(p, f, "rewards", TRUE) EXCEPT
                         !.sum = IF p = "portfolio" THEN @ + Total(l.rewards, Validators)
                                 ELSE @,
                         !.pair = IF p = "stakes"
                                  THEN PairedRewards(f.rows, Rewarded(l, f.rows))
                                  ELSE @])
     /\ UNCHANGED <<panel, plan, chain>> /\ Stays

\* Mutated ReadFails: the failure is only logged.
ReadFailsSilently(p, i) ==
  /\ In(p, i, "reading")
  /\ UNCHANGED panel
  /\ Ended(p, i)
  /\ UNCHANGED <<plan, chain>> /\ Stays

\* One read fails: the others are not waited for.  The stakes show any failure,
\* those of the validators a toast only.
ReadFails(p, i) ==
  /\ In(p, i, "reading")
  /\ IF p = "mine" THEN UNCHANGED panel ELSE Sets(p, i, "failed")
  /\ Ended(p, i)
  /\ UNCHANGED <<plan, chain>> /\ Stays

\* What is thrown may be no Error, such as the event of a socket that failed: the
\* portfolio then logs it and goes on loading.
ThrowsNoError(i) ==
  /\ In("portfolio", i, "reading")
  /\ Over("portfolio", i, "dropped")
  /\ UNCHANGED <<panel, plan, chain>> /\ Stays

\* A row without a reward breaks the rendering of the whole application.
Renders(f) == \A v \in f.rows : f.pair[v] # None
Arrives(p, i) ==
  /\ In(p, i, "answered")
  /\ Sets(p, i, "loaded")
  /\ Ended(p, i)
  /\ place' = IF Renders(flight[p][i]) THEN place ELSE Broken
  /\ UNCHANGED <<wallet, plan, chain>>

(***************************************************************************)
(* The chain moves on                                                      *)
(***************************************************************************)
Seen(f, a, gone) ==
  IF f.of # a \/ f.stage \notin {"account", "reading"} THEN f
  ELSE [f EXCEPT !.moved = TRUE, !.undone = @ \/ gone \intersect f.rows # {}]

\* The ledger of a becomes l, and the delegations of gone are no more.
Moves(a, l, gone) ==
  /\ events < plan.events
  /\ events' = events + 1
  /\ ledger' = [ledger EXCEPT ![a] = l]
  /\ flight' = [p \in Panels |-> [i \in 1..Len(flight[p]) |-> Seen(flight[p][i], a, gone)]]
  /\ UNCHANGED <<panel, plan>> /\ Stays

\* Delegating and undelegating pay the rewards of that delegation out.
Delegate(a, v) ==
  LET l == ledger[a]
  IN /\ l.funds > 0
     /\ Moves(a, [l EXCEPT !.funds = @ - 1 + l.rewards[v], !.stake[v] = @ + 1,
                           !.rewards[v] = 0], {})

Undelegate(a, v) ==
  LET l == ledger[a]
  IN /\ l.stake[v] > 0
     /\ Moves(a, [l EXCEPT !.funds = @ + l.rewards[v], !.rewards[v] = 0, !.stake[v] = 0,
                           !.unbonding[v] = @ + l.stake[v]], {v})

Accrue(a, v) ==
  /\ ledger[a].stake[v] > 0
  /\ Moves(a, [ledger[a] EXCEPT !.rewards[v] = @ + 1], {})

Mature(a, v) ==
  LET l == ledger[a]
  IN /\ l.unbonding[v] > 0
     /\ Moves(a, [l EXCEPT !.funds = @ + l.unbonding[v], !.unbonding[v] = 0], {})

Progress ==
  \E p \in Panels : \E i \in 1..Len(flight[p]) :
    \/ AccountFound(p, i)
    \/ AccountNotFound(p, i)
    \/ \E r \in Paged : ReadPage(p, i, r)
    \/ ReadFunds(p, i)
    \/ ReadCommission(p, i)
    \/ ReadRewards(p, i)
    \/ ReadFails(p, i)
    \/ p = "portfolio" /\ ThrowsNoError(i)
    \/ Arrives(p, i)

Changes ==
  \E a \in Known, v \in Validators :
    Delegate(a, v) \/ Undelegate(a, v) \/ Accrue(a, v) \/ Mature(a, v)

vars == <<wallet, place, plan, panels, chain>>

-----------------------------------------------------------------------------
(* Properties *)

PortfolioTypeOK ==
  /\ VisitTypeOK
  /\ events \in 0..plan.events
  /\ ledger \in [Addresses -> Ledger]
  /\ \A p \in Panels :
       /\ flight[p] \in Seq(Flight)
       /\ panel[p].is \in {"initial", "loading", "loaded", "failed", "invalid"}
       /\ panel[p].by \in 0..Len(flight[p])

Latest(p) == panel[p].by = Len(flight[p])

\* What a panel shows is of the address its screen is about, whatever address
\* and wallet came and went before, unless an older fetch answered last
\* (PortfolioScreen.tsx:98, OverviewScreen.tsx:60, ValidatorScreen.tsx:150).
AnswersRoute ==
  \A p \in PanelsAt[place.host] :
    /\ panel[p].is = "loaded" /\ Latest(p)
    /\ Shown(wallet, place) # None \/ place.host = "overview"
    => flight[p][panel[p].by].of = Shown(wallet, place)

\* The balance of a portfolio is all its address owns, over all pages, when the
\* chain did not change for the address while it was read
\* (PortfolioScreenAPI.ts:60, stakingAPI.ts:143 and :181).
TotalIsWealth ==
  LET f == flight["portfolio"][panel["portfolio"].by]
  IN panel["portfolio"].is = "loaded" /\ ~f.moved => f.sum = f.wealth

\* Each row of the stakes shows the reward of its own validator, though the
\* two lists are matched by position, unless a delegation was removed between
\* the two reads (StakesTablePanelAPI.tsx:92).
RowsPaired ==
  LET f == flight["stakes"][panel["stakes"].by]
  IN panel["stakes"].is = "loaded" /\ ~f.undone
       => /\ \A v \in f.rows : f.pair[v] = v
          /\ place.host # "broken"

\* The newest fetch of a panel was dropped.
Dropped(p) == \E i \in 1..Len(flight[p]) : i = Len(flight[p]) /\ flight[p][i].stage = "dropped"

\* While its screen stays, a panel does not load for ever, whatever fails and in
\* whatever order the fetches end (PortfolioScreenAPI.ts:83, StakesTablePanelAPI.tsx:104):
\* the stakes never, and the portfolio unless what its newest fetch has thrown
\* is no Error (PortfolioScreenAPI.ts:102).
LoadingEnds ==
  \A h \in {"portfolio", "overview"} : \A p \in PanelsAt[h] :
    panel[p].is = "loading" /\ place.host = h
      ~> \/ panel[p].is # "loading"
         \/ place.host # h
         \/ p = "portfolio" /\ Dropped(p)
=============================================================================
