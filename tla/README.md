# LikeDAO in TLA+

This directory is a verification development for LikeDAO, a governance web app
for Cosmos chains: a React front end (`src/react-app`), a GraphQL server in Go
(`src/graphql-server`) over PostgreSQL, and an indexer (BDJuno) that fills the
chain tables of the same database.

The models cover the parts in which several actors change shared state: the
reactions of users to proposals, on the server and in the browser's cache;
signing in with a wallet; connecting and disconnecting wallets; transactions,
from the form to the refresh of the balance; the screens, which ask the chain
and the server again whenever the route or the wallet changes; the pages of
votes and deposits the server puts together while the indexer writes. TLC checks
them on small instances; TLAPS proves every safety property of the passing runs
for every instance.

## How to run

    tlc -workers 2 -config ReactionStore_race.cfg  MCReactionStore.tla
    tlc -workers 2 -config ReactionStore_spare.cfg MCReactionStore.tla
    tlc -workers 2 -config ReactionCache_clicks.cfg  MCReactionCache.tla
    tlc -workers 2 -config ReactionCache_reorder.cfg MCReactionCache.tla
    tlc -workers 2 -config SignIn_one.cfg  MCSignIn.tla
    tlc -workers 2 -config SignIn_late.cfg MCSignIn.tla
    tlc -workers 2 -config Wallet_tab.cfg  Wallet.tla
    tlc -workers 2 -config ProposalPages_pages.cfg MCProposalPages.tla
    tlc -workers 2 -config ProposalPages_added.cfg MCProposalPages.tla
    tlc -workers 2 -config Transactions_app.cfg MCTransactions.tla
    tlc -workers 2 -config Screens_screens.cfg MCScreens.tla
    tlc -workers 2 -config ChainHealth_halted.cfg ChainHealth.tla
    tlapm ReactionStoreProofs.tla        (and the other *Proofs.tla)

`PROJECT.json` lists the runs, the source lines behind every definition, the
hazards the properties are for, and a mutated definition for every property: a
plausible bug under which the run finds the property violated.

## The system

| Component | State | Operations | Talks to |
| --- | --- | --- | --- |
| Reaction mutators (`pkg/mutators/reaction.go`, `pkg/resolvers/reaction.go`) | table `reactions`, UNIQUE (address, target_type, target_id); the connection pool | SetReaction, UnsetReaction, inside `RunInTx` | PostgreSQL, through the pool all queries share |
| Reaction queries (`pkg/queries/reaction.go`, `pkg/dataloaders/reaction.go`) | none | reactions, myReaction of a proposal, batched per request | the same |
| Reaction optimistic cache (`api/reactionAPI.ts`, Apollo) | cached proposals, optimistic layers | set, unset, page queries | the server, answers in any order |
| Sign-in (`AppApolloProvider`, `AuthProvider`, `handlers/auth.go`) | `isLoggingIn` per tab; two signed cookies per browser | authErrorLink, nonce, verify, validate, logout | Keplr, the server |
| Wallet connection (`WalletProvider`, `clients/wallet/*`) | status, active wallet, account, modal, `autoConnectWalletType` in local storage | connect, auto-connect, disconnect, refresh, peer disconnection | wallets, the node, the auth endpoints |
| Votes and deposits of a proposal (`pkg/resolvers/proposal.go`, `pkg/queries/proposal.go`, `ProposalDetailScreenAPI.ts`) | pages in the browser | paging with the user's validators pinned on top | the node (delegations), the server |
| Transactions (`TransactionProvider`, the validator, proposal and new-proposal screens, `TransactionModals`, `forms`, `api/*API.ts`) | `activeModal` of the provider and of the screen, the step of the modal, submissions under way | open, close, submit; check, simulate, sign, broadcast, refresh | wallets, the node |
| Chain health (`AppSideBarAPI.ts`, `useInterval.ts`) | one request state | a poll every three seconds | the node, the server |
| Request states of the screens (`*ScreenAPI.ts`, `StakesTablePanelAPI.tsx`) | one `RequestState` per query; search parameters | fetch on every change of route or wallet; tabs, pages, columns | the node, the server through Apollo's cache |
| Queries and data loaders of validators and proposals (`pkg/queries`, `pkg/dataloaders`) | caches of one request | filtered, ordered pages; batches | PostgreSQL |
| Sign-in message grammar (`pkg/abnf`) | none | parse EIP-4361 messages | - |
| Configuration, logging, migrations; indexer; presentation | - | - | - |

What makes each of them hard, and what makes it correct:

* **Reaction mutators.** `RunInTx` opens a transaction on one connection, but
  the INSERT of SetReaction and the SELECT of UnsetReaction are issued on
  `q.session`, outside it and on a second connection. Correct means: one
  reaction per user and target under every race; a deletion touches only the
  row of the user who asked; connections come back on every path; mutations look
  atomic to their callers; the pool does not run dry of connections for ever.
* **Optimistic cache.** Counts are incremented and decremented from whatever
  entry the updater finds, and recomputed when layers below go away. Correct
  means: the counts of others never vanish, and quiet moments agree with the
  server.
* **Sign-in.** Cookies are shared by tabs, the flag by mutations, and the wallet
  may select another account at any moment. Correct means: one sign-in at a time
  per tab, the flag is never stuck, every mutation ends, and the session is that
  of the account selected, or none.
* **Wallet connection.** Asynchronous procedures that nothing cancels, with
  callbacks that have captured the state of an earlier rendering. Correct means:
  what is shown as connected is what is remembered and whose account is shown,
  and "connecting" ends.
* **Votes paging.** Offsets count rows that earlier pages excluded; votes arrive
  between pages; two fetches overlap. Correct means: each vote is on some page,
  once, and "next" is offered exactly when there is more.
* **Transactions.** A submission outlives the modal and the screen it was started
  from; each of its steps may fail, be refused or never be answered, and the
  chain may execute it after the app has given up. Correct means: a modal that
  asks to confirm has a prompt behind it; two prompts at once only when the user
  dismissed one; no form is closed under the user's hands; toasts and the balance
  say what the chain did.
* **Screens.** An effect fetches whenever what it depends on is new, and nothing
  cancels the fetch before; a fetch is several reads, between which the chain
  moves on; two lists are matched by position. Correct means: what is shown is of
  the address, tab and page of the moment; sums and rows are right when the
  chain stood still; loading ends; the pages together are the list.
* **Chain health.** Polls overlap and fail silently. Correct means: a chain that
  stands still is shown as halted.

The hazards are listed line by line in `PROJECT.json`.

## Modules

| Module | What it is |
| --- | --- |
| `ReactionBook` | what the reaction mutations promise: an abstract specification |
| `ReactionStore` | the mutations and queries statement by statement; implements `ReactionBook` |
| `ReactionCache` | the reactions of one proposal in the browser, over an instance of `ReactionBook` as the server |
| `SignIn` | tabs, Keplr and the auth handlers of one browser |
| `Wallet` | the procedures of `WalletProvider` in one tab |
| `ProposalPages` | one page of votes or deposits, five statements long, with the indexer writing in between |
| `Transactions` | modals, forms and submissions of one tab, and the account on the chain |
| `ChainHealth` | the polls behind the status of the chain |
| `Visit` | the route and the wallet's context value, which every screen follows |
| `Portfolio` | the panels that read the chain: balances and stakes |
| `Listings` | the paged lists the server answers, through Apollo's lazy query |
| `Screens` | `Portfolio` and `Listings` composed over one `Visit` |
| `MC...` | instances for TLC: symmetry, function-valued constants |
| `ReactionStoreProofs` (with the refinement), `ReactionCacheProofs`, `SignInProofs`, `WalletProofs`, `TransactionsProofs`, `ScreensProofs`, `ProposalPagesProofs` | proofs, each about the module it is named after and its parts |
| `Inductions` | lemmas the proofs share: induction over numbers and over the subsets of a finite set, and the recursive functions the folds are made of |

Operators called *Mutated ...* in a comment are the bugs of the list of mutants;
no specification uses them.

### ReactionStore and ReactionBook

A call `c` walks through `phase[c]`: `begin` (wait for the transaction's
connection), `second` (wait for the connection of the statement on `q.session`),
`statement`, `returned`, for UnsetReaction `delete` (the DELETE inside the
transaction, which may wait for a row lock), `commit`, `committed`, `done`.
`txConn[c]` and `stmtConn[c]` are the two connections, `idle` the rest of the
pool; `doomed[c]` is the row its open transaction has deleted and locked;
`seen[c]` is the Go variable `reactionModel`. A query takes one connection
(`ReadConn`, `Fetch`).

`Fail` can happen in every phase: the request's context is cancelled, or the
driver reports an error. The transaction is rolled back, both connections go
back; an INSERT already executed stays, because it was never part of the
transaction. `Succeed` is apart from `Commit`: COMMIT may reach the database and
its answer be lost. UnsetReaction's failure is answered with null
(`Failure`), as the resolver does.

READ COMMITTED is modelled by what it lets these statements see: a SELECT sees
committed rows; an INSERT ... ON CONFLICT waits for a transaction deleting the
conflicting row, then updates it or inserts; a DELETE by id waits for a lock on
that row and then finds it or not. ULIDs are drawn so that no id in use, or still
named by a call, comes again (`FreshId`).

`ReactionBook` has neither connections nor rows: a set of <<user, target,
reaction>>, and calls that take effect at most once between submission and
answer. The refinement (`ImplementsBook`) has one point of interest: an
UnsetReaction takes effect when the row it has read goes, whoever deletes it, so
one COMMIT may serve several calls. This is why the book's `ApplyUnset` has a
set of calls.

### ReactionCache

One proposal, one user with one account. `session` says whether the browser's cookie
authenticates the user: a page loaded without it is answered as to a guest (the counts,
`myReaction` null), and a mutation made without it waits for `SignIn`. `base` is the
normalized entry built from answers, `layers` the optimistic layers with the entry each
has computed, the newest last; the page shows the newest. `Updated` is
`_buildReactionMutationUpdater`. Removing a layer recomputes the ones above it
(`Without`). `Receive` writes through the updater to the entry below and drops the
layer, as Apollo does; a page query overwrites `base` (`FetchArrives`) and leaves the
layers as they are. The page query reads the counts and my reaction by two statements
(`ReadCounts`, `ReadMine`) between which mutations may take effect.

Four history variables say when the code promises what: `quiet` (no answer has
been mixed with another since the page was last loaded), `torn` (the two
statements of a query saw different moments), `hidden` (the page was last loaded as a
guest and the counts include a reaction of the user's that it does not show as
theirs: a mutation of such a page may count the user twice) and `clicks` (a bound).

### SignIn

A mutation `m` walks through `op[m].stage`: `sent` (with the session cookie of
that moment), then, if unauthenticated and nobody else signs in, `nonce`, `sign`
(Keplr's prompt), `verify`, `resent`. Requests take the cookies along when they
are sent, and change them when the answer arrives; validate, logout and the
balance of a new account are in `calls`, answered in any order or, with
`Losses`, not at all. `SelectAccount` is Keplr's `keplr_keystorechange`, which
reaches every tab.

The expiry of a cookie is judged when it is sent. An earlier visit may have left
a session of any account. Closing a tab is left out: its cookies stay, and what
it had under way would only disappear. `DummyScreen`, a developer's page, calls
`signInWithCosmos` without the flag and is left out. `RefreshArrives` shows the
account that was selected when the event came.

### Wallet

`attempt[i]` is one run of `connectToKeplr` or `connectToWalletConnect`:
`connecting` until the balance has come, `validating` until `authAPI.validate`
returns. `drops` counts disconnections under way. `refreshes` is the set of
wallets for which a `refreshAccount` is under way or captured by a transaction
that will call it; `listeners` is the set of active wallets that `onDisconnect`
callbacks have captured, since the callback handed to WalletConnect is the one of
the rendering in which the connection began. The auto-connect effect is an action
of its own, enabled exactly when the effect is due. The app uses `createRoot`, so
the states set after one await are rendered together and one action sets them
all.

### ProposalPages

A request of the panel (`Ask`) is a page offset and the validators the user
delegates to. The resolvers `Votes` and `Deposits` differ in one place,
`Remaining`, so one module has both and `panel` says which. The statements are
actions: `LoadValidators`, `LoadOwn` (the has-many relation, which loads the
validators' entries on any proposal), `Count`, `Scan`; `Enters` and
`EntersElsewhere` are the indexer's and come between them. `Paginated`,
`EntryLimit`, `EntryOffset` and `Page` are the arithmetic of the resolvers, and
`NobodyLeftOut` evaluates them for all pages of one moment. `Restricted` is what
WHERE ... IN and NOT IN do to an ordered list; it is written as a fold, so that it
can be proved about.

A validator stands for both its addresses. `Known` is the validators' table in
the order of the query, `Unknown` are validators of the chain that the indexer
has not got. `entries` maps who has voted or deposited to the value the page is
sorted by. Name and address are a value of one's own; an option, an amount or a
height may be shared, and nothing breaks the tie, so each statement lists tied entries
in any order (`Listings`). A deposit may lack a depositor (`Nameless`): it is in the
list unless validators are pinned, since NULL is not outside of any list. Address
lists are sets: the node reports one delegation per validator.

### Transactions

There are two hosts of modals: the provider (send, receive, collect rewards) and
the screen (stake and unstake, vote and deposit, a new proposal); `modal[h]` is
the `activeModal` of each with the step of its dialog. `job[a]` is one run of a
submit function, from `check` (the read of funds, delegation or rewards) through
`simulate`, `prepare`, `sign`, `broadcast` and `refresh` to `read` (the balance asked for is
on its way). `Throws` is the catch they all have. `here` says whether the
component that started the submission is mounted: its setters reach nobody after
that. `Offered` says which buttons the page has, by the parts that have them.

The chain is one account. `Deliver` takes the fee, then runs the message or not, in the
order of the account's sequence, at any time after the signature, also after
`NotBroadcasted`. Simulation and signature read the sequence one after the other
(`Simulate`, `Prepare`), and another submission may be executed in between. Amounts
count half units, so that the forms can let through what the chain has no unit for.

The validator screen shows its modals over a loaded validator only and asks again
at every new wallet context, so a refresh unmounts a modal and mounts a new one
at its first step (`Remounted`). Navigation unmounts the screen (`Leaving`).
`abandoned` and `missed` are history variables: they say when a prompt has lost
its modal, and when a charge was not followed by a refresh of its own or the
answer of a refresh was overtaken. An ended submission keeps only its outcome and
what was told. The modal for connecting a wallet, which covers the page as well,
is `Wallet`'s; copying the address and rejecting amounts that are no number are
left out.

### Visit, Portfolio, Listings, Screens

`Visit` has `wallet` (status and account of the context value: the inner states
are `Wallet`'s) and `place` (the screen and the address in the URL). A step of the
user or of the wallet changes one of them, and in the same step the effects of
the screen shown run: `Follow` for panels, `ListVisit` for lists.

In `Portfolio`, `flight[p]` is the sequence of fetches a panel has started since
its screen was mounted. A flight reads the account, then balances, stakes,
unbondings, commission and rewards, paged or side by side, in any order the
answers come, each against the `ledger` of that moment; `Changes` are the blocks
in between. `panel[p]` is the request state and the number of the flight that set
it. `Arrives` renders the rows; a row without a reward throws, and the error
boundary takes the place of the application (`Broken`, a place nothing leads out
of). `moved` and `undone` are history: the chain changed for the address, or a
delegation was removed, during the fetch. The stakes show any failure of a read; the
portfolio shows an `Error` only, and stays loading when something else was thrown
(`ThrowsNoError`). The provisions, the pool and the
validators that the stakes need as well appear as failures of `rewards` only.

In `Listings`, `params` are the search parameters, `executed` the variables given
to Apollo's lazy query last, `pending` whether their request is under way and since
when, and `cache` what was answered. The votes and deposits wait for the delegations
of the wallet (`waiting`). What the indexer writes during a session is a sequence of
tables, of which `written` are there so far (`Indexes`). On the server, the rows are
counted, then read, then their details are loaded, each at a moment of its own
(`Read`); `at` is history, the moment the rows of an answer were read. `Results` are
the orders the database may return, `RowsOfPage` is LIMIT and OFFSET, `Batch` the
details of one page as the loader puts them back to their keys. Ascending and
descending orders differ by name only, and one stands for both; the section a vote is
shown in is left out.

`Screens` composes the two: a visit moves both, `Reading` is a step of a fetch
(it may lead to an error page, which has no list), `Listing` what the user, Apollo
and the indexer do with a list. The history of an address is rendered over loaded panels
only (`Rendered`).

### ChainHealth

`poll[p]` is one call of `fetchChainHealth`, which reads the latest block and then
the one before; `health` is the request state, with the age of the block judged.
`DifferenceInSeconds` is that of date-fns: left minus right.

## Runs, bounds, and what they show

| Run | Instance | Shows |
| --- | --- | --- |
| `race` | 2 users, 1 target, 2 reactions, 3 calls, 3 connections, 3 ids | the safety properties, the inductive invariant, and the refinement |
| `spare` | 1 user, 2 calls, 3 connections | with a connection to spare the pool never stops, and every call is answered |
| `clicks` | 3 mutations, 3 clicks, 2 reactions, one of them given by another user | counts never fall short; quiet moments agree with the server, for guests but for their own reaction |
| `reorder` | 2 mutations, 3 clicks | counterexample: the user counted twice (see findings) |
| `one` | 1 tab, 2 accounts, 2 mutations, 1 change of account, losses | one sign-in at a time, undisturbed nonces, sessions that follow the account, mutations that end |
| `late` | 1 tab, 1 mutation, 1 change | counterexample: a verification answered after the logout (see findings) |
| `tab` | 3 connections and 2 disconnections at once | remembered wallet, account and spinner under overlapping procedures; connecting ends |
| `pages` | 2 known validators, 1 unknown, 2 people, a deposit without a depositor, pages of 2, 3 entries of 3 values | no voter twice on a page, page info, nobody left out who has a place of their own |
| `app` | 2 submissions, 4 plans of two kinds, 4 amounts, one purse of one unit, a fee of one unit | prompts, forms, toasts and balance in step with the chain; submissions end |
| `screens` | 2 addresses, 2 validators, pages of 1 delegation, 3 to 5 rows in pages of 2, 12 sessions, up to 2 writes of the indexer | what is shown is of the moment; sums, rows and pages are right; leafing skips nothing; loading ends |
| `halted` | 2 polls, 4 ticks, a limit of 2 | counterexample: an old block judged online (see findings) |
| `added` | the same as `pages` | counterexample: a pinned validator without a row (see findings) |

Why the bounds are enough to be worth running: the hazards of the store need two calls
of one user and one of another, or three of one user (two deletions waiting for each
other while a third call inserts the row again); three connections are enough for a full
deadlock of the pool and for a query among mutations. A call, mutation or connection
slot is used again once it has ended, so histories are not bounded by the number of
slots. `MaxClicks`, `MaxMutations` and `MaxChanges` bound what the user does in a
behaviour, `MaxDrops` what is under way at once; three clicks are needed for set, change
and clear, one change of account is enough to overtake a verification. In `reorder` and
`late` two, respectively one mutation suffice for the counterexample. Pages of 2 with up
to 3 pinned validators give every case of the arithmetic: a page of validators only, one
they end in, one right at their end, and pages after it; `MaxEntries` bounds the
entries, `Values` what they are sorted by: all different, two tied, or all tied.
`Reaction` symmetry is not used in `ReactionCache` since one reaction has been given by
somebody else. Where liveness is checked no symmetry is used.

In `app` two submissions are the least for every hazard of one ending while the
other begins; a plan names the kinds a session tries, and each kind is in one
together with a kind of another host or screen. The amounts are less than nothing,
nothing, half a unit and a unit; the purse holds the fee or a payment. Screens,
dismissals, disconnections and the time of every answer are not bounded.

In `screens` a session says which panels and lists it follows, how many fetches a
panel may start while its screen stays (2 where they may overtake each other), and
how many changes the chain makes. Two validators with pages of one delegation are
two pages; three rows in pages of two are a full page and one that is not; rows 1
and 2 are of the same moment, row 2 has no details; address `b` has no account on
the chain. In two sessions the indexer writes: a fourth row, of the moment of the
third, while another leaves the voting period and details come; then a fifth, which
makes a third page. One session has the stakes and the history on one screen. Where the user
goes and what the wallet does is not bounded otherwise.

Deadlock checking is off in `ReactionCache`, `SignIn`, `Transactions`, `Screens` and
`ChainHealth`, where a behaviour ends when the bounds have stopped the user and
all answers have come (in `Screens` also when the error boundary has taken over);
it is on elsewhere.

### Fairness

* `ReactionStore`: strong fairness for a call's statements and for taking a
  connection. PostgreSQL queues waiters for a row lock; `database/sql` hands a
  released connection to a waiting request picked at random; either may be
  passed over now and then, hence strong fairness. Clients are not fair: they
  need not call, cancel or read the answer.
* `SignIn`: weak fairness for the steps of a mutation: requests are answered or
  fail, and the user answers Keplr's prompt.
* `Wallet`: weak fairness for the steps of a connection, for the same reasons.
* `Transactions`: weak fairness for `Returns(a)`: `broadcastTx` polls for a limited
  time and then throws, and the balance is answered or the call fails. Neither
  the user, the wallet's prompt nor the chain is fair.
* `Screens`: weak fairness for `Reading`: the calls of a fetch are answered or
  fail. The sessions bound the fetches, so one condition for all of them is enough.

### Findings

1. `reorder`: `reactionAPI.ts` says "If myReaction exists, remove 1 from
   existing reaction", but adds 1 without removing any when the reaction already
   is the user's in the entry below the optimistic layers; this happens when
   answers come out of order or a page query brings the new reaction first.
2. `late`: `WalletProvider` logs out when the account changes ("Unauthenticating
   as the selected account is now changed"), but a verification under way is not
   cancelled: answered after the logout, it sets the session of the old account.
3. `added`: the resolver says "Add validators to result", and "There should only
   be at most one vote when scoped"; the relation is not scoped to the proposal,
   so a delegated validator that voted on another proposal only has no row at all.
4. `halted`: `AppSideBarAPI.ts` says "If the chain doesn't produce blocks for more
   than 1 minute, it is considered as halted", but subtracts the current time from
   the time of the block, which is never more than 60 seconds: a chain that has
   stopped is shown as online.

Seen while modelling, with nothing in the repository that says otherwise; where a
property would be false, it states the exception:

* a form lets the whole balance through, and the chain then fails the transaction and
  keeps the fee; another submission executed between simulation and signature makes
  it fail for lack of funds as well (`OnlyTheFeeFails`);
* a failed submission closes a modal opened since (`FormSurvives`);
* a page loaded as a guest counts the user's reaction but does not show it as theirs:
  setting it after signing in counts the user twice (`SettledAgrees`);
* a portfolio goes on loading when what was thrown is no `Error` (`LoadingEnds`);
* a delegation removed between the two reads of the stakes may replace the whole
  application by the error page (`RowsPaired`);
* a page of votes asked for later may be overtaken by one asked for earlier
  (`PageAnswersQuestion`);
* a proposal indexed between the queries of two pages, or while one is in the cache,
  makes a row appear on both (`PagesAreTheList`); it makes none disappear
  (`NothingSkipped`);
* votes and deposits sorted by option, amount or height have ties that nothing
  breaks: of tied entries one may be on two pages and another on none; a deposit
  without a depositor goes away when validators are pinned (`NobodyLeftOut`);
* any failure to read an account counts as an invalid address; without a column, pages
  of validators have no order at all; a failed WalletConnect connection is tried again
  for ever; the totals of votes differ from page to page, and pinned validators that
  have deposited are on a page twice.

## What is proved

The proofs hold for any constants that satisfy the ASSUMEs of the module:
`None` is no value of the other sets (nor, in `ReactionCache`, a request or a truth
value); bounds are numbers, page sizes positive; validators and rows are numbered,
and finitely many; plans name panels, lists and columns there are; in
`ProposalPages`, the validators' table holds no operator address twice (it is the
key), finitely many validators are not in it, and who has no address is none of them;
in `Listings`, a session has tables to begin with, and their rows have moments.

What a fold, a filter or a sum computes is proved without an induction principle
over predicates: `Inductions` states induction for sets (`AllNaturals`, `AllSubsets`:
a smallest counterexample would be one less), that the recursive functions behind
the folds exist (`Recursion`, `FoldRecursion`) and agree (`Unique`). A proof then
shows of the set of lengths, or of subsets, for which its claim holds that it has
them all.

* **ReactionStore** (`ReactionStoreProofs`). `Invariance`: `Spec => []IInv`. `IInv` adds
  to `TypeOK` and `OneReactionPerTarget`: `PhaseFits` (what each phase says of request,
  connections and row read), `ConnsExclusive` (each connection is idle or held once),
  `RowsKeyed` (ids are keys, and a row with the id a call has read belongs to that
  call's user and target: this makes deletion by a stale id harmless), `LocksFit` (a
  locked row is there, is the one read, and has one locker, with only COMMIT to do) and
  `UnsetGone` (past its DELETE, an UnsetReaction's row is locked or gone). From it
  follow `ReactionUnique`, `PoolIsConserved`, the action property
  `LockedRowIsStable` (neither an upsert nor another deletion touches a locked row),
  `AnsweredUnsetStaysGone`, the action property `RowsVanishByOwner`,
  `WedgeOnlyByTransactions`, and `SparePool`: with finitely many calls and connections,
  and fewer calls than connections, the pool never wedges. The last counts: a wedged
  pool maps connections one-to-one to calls.
* **Refinement** (`ReactionStoreProofs`). `Linearizable`: `Spec => ImplementsBook`, one
  lemma per action. COMMIT maps to `ApplyUnset` for the set of all calls that have read
  the row, or to a stutter.
* **ReactionCache** (`ReactionCacheProofs`). `IInv` adds to `TypeOK` and
  `CountsNeverShort`: `OneReaction` (the server has at most one of the user),
  `CallsInOrder` (each layer shows what its call asks the server for), `FetchAlone` (a
  page query with no mutation around has read what the server would answer, to the user
  or to a guest), `FetchSound` (what it has read is not short, and nothing of the user's
  is in a guest's) and `Quiet`: as long as no answers are mixed there is at most one
  layer; the entry below it is what the server would answer before the mutation takes
  effect there, and afterwards the layer is (`OneMutation`). `Updating` says that the
  updater never takes away more than the user's own reaction; `Refolding` and `Dropping`
  carry that through the layers computed again when one below them goes. `TypeCorrect`,
  `NeverShort` and `Settled` follow, for any number of mutations in flight.
* **SignIn** (`SignInProofs`). `OneSignIn`, inductive together with the types, for any
  number of tabs and mutations; `SessionIsFollowed`, from `Follows`: no verification is
  under way for another account, and a session of another account is an old one that
  every connected tab is validating; `NonceKept` for a single tab, which uses
  `OneSignInPerTab` as a lemma: while a mutation is between nonce and verification no
  other one asks for a nonce.
* **Wallet** (`WalletProofs`). `IInv` strengthens `AccountOfActive` to every moment an
  active wallet is set, shown or not, and says that without a stray balance all
  refreshes under way are for that wallet. `Remembered`, `AccountMatches` and
  `NoIdleSpinner` follow.
* **Transactions** (`TransactionsProofs`). `IInv` is `TypeOK` with `Placed` (a modal
  belongs to its host; what is not executed has no outcome), `Held` (a prompt that was
  not abandoned is the one its host's modal waits for), `Simulated` (what was simulated
  runs as long as the account's sequence is that of the simulation), `Dated` (a balance
  read at the present sequence is the balance) and `Followed` (some submission will
  still show the present balance, or it is shown). From it follow `Confirmations`,
  `Prompts`, `Toasts`, `Balances` and the action properties `Failures` and `Forms`, for
  any number of submissions, amounts, fee and purse.
* **Screens** (`ScreensProofs`). `IInv` is `PanelInv`, `SumInv`, `ListInv` and `Kept`,
  for any plan, any number of fetches, changes of the chain, validators and rows.
  * `PanelInv`: every fetch is `Sound` (until the stakes are asked for their rewards,
    their rows are delegations the chain still has, or one was removed meanwhile; so the
    list of rewards has exactly those rows, and as no two validators have the same rank
    in a set, matching by position pairs each with itself), fetches are of panels of the
    screen (`Hosted`), the newest is of the address shown (`Newest`: the dependency list
    of the effect leaves no change of it out), a loaded panel shows a fetch that has
    ended, and only stakes read while a delegation went away break the application.
    `RouteAnswered` and `RewardsPaired` follow.
  * `SumInv`: as long as the chain stays, what a fetch has added up is what it has read
    so far of the wealth of its address (`Brought`): the reads answered, and of a paged
    one what is held below the key of the next page. Lemmas about `Total`, a fold over a
    set, say what a page and a read add (`PageAdds`, `WorthAdds`). `TotalCounted` is the
    case where nothing is outstanding.
  * `ListInv`: while a list asks, the newest question that waits for delegations is the
    current one, or the question executed last is: `QuestionAnswered`.
  * `Kept`: every answer in Apollo's cache is a page of the sorted rows that matched at
    some version of the tables, its details read then or later (`AnswersAre`), which
    later writes leave true (`StillAnswer`). An order of its own, ties included, is
    total on the rows of a version (`PrecedesTotal`), so there is one sorted sequence
    (`SortedOnce`) of which all pages read of that version are slices (`OneList`),
    however often and in whatever order they were fetched; slices of different pages are
    apart and together are all of it (`PagesApart`, `PageOfRow`): `PagesComplete`. The
    position of a row is the number of rows that do not come after it (`PositionIs`),
    which only grows while the list does (`PositionGrows`): on the first page whose end
    it does not exceed the row is found, since on the page before it was beyond the end
    (`LeafedThrough`): `LeafingComplete`.
* **ProposalPages** (`ProposalPagesProofs`). `IInv` says of a request what its
  statements have returned so far, which stays fit for a page whatever the indexer
  writes next: the page of validators cannot change, and the rows are of validators on
  it, each once (`RowsFit`). `Taken` says what a filter keeps of a list, and where, and
  `ListsOnce` that every order of the rest lists each entry once. `PagesSound` counts
  what is left of the page for the second query, and uses that its votes are of nobody
  in the rows; `AllShown` finds the page: a pinned validator is on that of its place in
  the list, anybody else with a place of their own (`Placed`) on that of the entry's
  place plus the number of validators before, whom every later offset leaves out; how
  tied entries are listed changes the place of none of those. `TypeCorrect` and
  `PreviousSound` follow as well. All hold for any page size, any validators pinned and
  any number of entries and values.

Only model-checked: liveness (`EveryCallAnswered`, `EveryMutationEnds`,
`ConnectingEnds`, `EverySubmissionEnds`, `LoadingEnds`), since fairness is out of
the prover's reach. The properties of the four runs with a counterexample are
false, and not for proving.

## Plan

Done: `ReactionStore` with `ReactionBook`, `ReactionCache`, `SignIn`, `Wallet`,
`ProposalPages`, `Transactions`, `ChainHealth`, and `Screens` with its parts; a
theorem for each safety property the passing runs check. What is left, in this order:

1. Action properties that no invariant states: what a visit may never do to the
   panels that stay, what an answer may never do to the layers of other calls.
2. The arithmetic of tallies and voting power, as operators checked against
   reference definitions.

Not modelled: the grammar of sign-in messages (stateless, over strings, with unit
tests of its own), configuration, logging, migrations, presentation, and the
indexer, which is another project's program. Of modelled parts: the library code
under them (Apollo, Keplr, WalletConnect, the Cosmos SDK, PostgreSQL), which is
modelled from how this code uses it; queries asked once without parameters
(community status, parameters of the chain).
