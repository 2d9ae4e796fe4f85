---------------------------- MODULE Transactions ----------------------------
(***************************************************************************)
(* The transactions of one tab: the modals of TransactionProvider and of   *)
(* the validator, proposal and new-proposal screens, the forms in them,    *)
(* and the submissions they start, which go on by themselves: check the    *)
(* funds, simulate, ask the wallet to sign, close the modal, broadcast,    *)
(* refresh the account.  The chain executes what was broadcast when it     *)
(* likes, also after the answer was given up.                              *)
(*                                                                         *)
(* Amounts are counted in halves of the smallest unit of the chain, so     *)
(* that a form can hold an amount the chain has no unit for.               *)
(***************************************************************************)
EXTENDS Integers

CONSTANTS
  Attempts,  \* the submissions of the session, each used once (a bound)
  Amounts,   \* what a user may type
  Fee,       \* what the chain takes for executing a transaction
  Plans,     \* the kinds of transaction one session tries (a bound)
  Purses,    \* what the account may own when the tab is opened
  None

ASSUME AmountsType == Amounts \subseteq Int /\ Fee \in Nat
ASSUME PursesType == Purses \subseteq [funds : Nat, staked : Nat, rewards : Nat]

VARIABLES
  wallet,     \* "connected", "leaving" (disconnect runs) or "idle"
  shown,      \* accountBalance of WalletProvider
  shownAt,    \* history: the account's sequence when that balance was read
  screen,     \* the screen of the route
  data,       \* validatorRequestState of the validator screen
  delegation, \* the stake that state holds
  modal,      \* activeModal of the provider and of the screen
  job,        \* the submissions
  chain,      \* the account on the chain
  plan,       \* the kinds tried in this session
  missed      \* history: a charge was not followed by a refresh of its own,
              \* or the answer of a refresh was overtaken by a later one

view == <<screen, data, delegation>>
account == <<wallet, shown, shownAt>>
vars == <<account, view, modal, job, chain, plan, missed>>

ValidatorKinds == {"stake", "unstake"}
ProposalKinds == {"vote", "deposit"}
ProviderKinds == {"send", "receive", "collect"}
Kinds == ProviderKinds \union ValidatorKinds \union ProposalKinds \union {"propose"}
ASSUME AttemptsType == None \notin Attempts \union Kinds

Screens == {"validator", "proposal", "create", "other"}
Hosts == {"provider", "screen"}
HostOf(kind) == IF kind \in ProviderKinds THEN "provider" ELSE "screen"

Paying == {"send", "stake", "deposit", "propose"}

Modal == [kind : Kinds \union {None}, step : {"details", "sign"},
          asked : Attempts \union {None}]
Closed == [kind |-> None, step |-> "details", asked |-> None]

Pending == {"check", "simulate", "prepare", "sign"}
Following == {"broadcast", "refresh", "read"}
Job == [stage : {"unused", "ended"} \union Pending \union Following,
        kind : Kinds \union {None}, amount : Int,
        here : BOOLEAN,       \* the component that started it is mounted
        abandoned : BOOLEAN,  \* history: its modal went away before the signature
        simulatedAt : Nat,    \* history: the account's sequence at its simulation
        signedAt : Nat,       \* the sequence it is signed with
        afloat : BOOLEAN,     \* signed, and not executed yet
        done : {"no", "ok", "failed"}, told : SUBSET {"success", "error"},
        read : Nat, readAt : Nat]
Unused == [stage |-> "unused", kind |-> None, amount |-> 0, here |-> FALSE,
           abandoned |-> FALSE, simulatedAt |-> 0, signedAt |-> 0, afloat |-> FALSE,
           done |-> "no", told |-> {}, read |-> 0, readAt |-> 0]

Init ==
  /\ plan \in Plans
  /\ \E p \in Purses :
       chain = [funds |-> p.funds, staked |-> p.staked, rewards |-> p.rewards,
                sequence |-> 0]
  /\ wallet = "connected"
  /\ shown = chain.funds
  /\ shownAt = 0
  /\ screen = "other"
  /\ data = "none"
  /\ delegation = 0
  /\ modal = [h \in Hosts |-> Closed]
  /\ job = [a \in Attempts |-> Unused]
  /\ missed = FALSE

IsConnected == wallet # "idle"
Shows(h) ==
  /\ modal[h].kind # None
  /\ modal[h].kind \in ValidatorKinds => data = "loaded"

(***************************************************************************)
(* The chain, for this account                                             *)
(***************************************************************************)
(* What the app reads before it asks to sign, and the chain checks again. *)
EnoughFunds(amount, c) == amount <= c.funds
EnoughStaked(amount, c) == amount <= c.staked
SomeRewards(c) == c.rewards > 0

Covers(kind, amount, c) ==
  /\ kind \in Paying => EnoughFunds(amount, c)
  /\ kind = "unstake" => EnoughStaked(amount, c)
  /\ kind = "collect" => SomeRewards(c)

\* A message the chain accepts: whole units, and never less than nothing.
Runs(kind, amount, c) == amount >= 0 /\ amount % 2 = 0 /\ Covers(kind, amount, c)

\* Delegating and undelegating pay the rewards out.
Effect(kind, amount, c) ==
  LET harvest == IF kind \in ValidatorKinds \union {"collect"} THEN c.rewards ELSE 0
      paid == IF kind \in Paying THEN amount ELSE 0
      bonded == IF kind = "stake" THEN amount ELSE IF kind = "unstake" THEN -amount ELSE 0
  IN [funds |-> c.funds + harvest - paid, staked |-> c.staked + bonded,
      rewards |-> c.rewards - harvest, sequence |-> c.sequence]

AfterFee(c) == [funds |-> c.funds - Fee, staked |-> c.staked,
                rewards |-> c.rewards, sequence |-> c.sequence + 1]

(***************************************************************************)
(* Modals and forms                                                        *)
(***************************************************************************)
\* The prompt of a pending attempt loses its modal.
Abandon(j, As) ==
  [a \in Attempts |->
     IF a \in As /\ j[a].stage \in Pending THEN [j[a] EXCEPT !.abandoned = TRUE] ELSE j[a]]

(* What each part of the page has a button for. *)
UserInfoPanel == IF IsConnected THEN ProviderKinds ELSE {}
ValidatorDetailDescriptionPanel ==
  IF screen = "validator" /\ data = "loaded" THEN ValidatorKinds ELSE {}
ProposalActionArea == IF screen = "proposal" THEN ProposalKinds ELSE {}
CreateProposalForm == IF screen = "create" THEN {"propose"} ELSE {}
Offered == UserInfoPanel \union ValidatorDetailDescriptionPanel
             \union ProposalActionArea \union CreateProposalForm

\* An overlay is over the buttons while a modal shows; without a wallet they
\* open the modal to connect one instead.
Open(kind) ==
  /\ kind \in plan \intersect Offered
  /\ IsConnected
  /\ \A h \in Hosts : ~Shows(h)
  /\ modal' = [modal EXCEPT ![HostOf(kind)] = [Closed EXCEPT !.kind = kind]]
  /\ UNCHANGED <<account, view, job, chain, missed, plan>>

\* Cancel, Escape or a click beside the dialog: no prompt is withdrawn.
Close(h) ==
  /\ Shows(h)
  /\ modal' = [modal EXCEPT ![h] = Closed]
  /\ job' = Abandon(job, {modal[h].asked})
  /\ UNCHANGED <<account, view, chain, missed, plan>>

(* The forms: the amounts each lets through. *)
Balance == IF IsConnected THEN shown ELSE 0
GreaterThanZero(x) == x > 0
WithinBalance(x) == x <= Balance
WithinStake(x) == x <= delegation

SendTokenForm(x) == GreaterThanZero(x) /\ WithinBalance(x)
StakeTokenForm(x) == GreaterThanZero(x) /\ WithinBalance(x)
UnstakeTokenForm(x) == GreaterThanZero(x) /\ WithinStake(x)
DepositProposalForm(x) == GreaterThanZero(x) /\ WithinBalance(x)
SubmitProposalForm(x) == WithinBalance(x)  \* also none, or less than nothing
VoteProposalForm(x) == x = 0               \* no amount is typed
CollectRewardsForm(x) == x = 0
UserAddressModal(x) == FALSE               \* shows the address, submits nothing

FormAccepts(kind, x) ==
  CASE kind = "send" -> SendTokenForm(x)
    [] kind = "stake" -> StakeTokenForm(x)
    [] kind = "unstake" -> UnstakeTokenForm(x)
    [] kind = "deposit" -> DepositProposalForm(x)
    [] kind = "propose" -> SubmitProposalForm(x)
    [] kind = "vote" -> VoteProposalForm(x)
    [] kind = "collect" -> CollectRewardsForm(x)
    [] kind = "receive" -> UserAddressModal(x)

\* A vote reads no balance before it is simulated.
FirstStage(kind) == IF kind = "vote" THEN "simulate" ELSE "check"

\* Mutated Submit: the form can be submitted again while the modal waits.
SubmitAgain(h, amount) ==
  LET kind == modal[h].kind IN
  /\ Shows(h)
  /\ IsConnected
  /\ FormAccepts(kind, amount)
  /\ \E a \in Attempts :
       /\ job[a].stage = "unused"
       /\ modal' = [modal EXCEPT ![h].step = "sign", ![h].asked = a]
       /\ job' = [job EXCEPT ![a] =
            [Unused EXCEPT !.kind = kind, !.amount = amount, !.here = TRUE,
                           !.stage = FirstStage(kind)]]
  /\ UNCHANGED <<account, view, chain, missed, plan>>

\* onNextClick: the modal waits for a signature, and the submission starts;
\* it returns at once when the wallet has gone, and the modal waits on.
Submit(h, amount) ==
  LET kind == modal[h].kind IN
  /\ Shows(h)
  /\ modal[h].step = "details"
  /\ FormAccepts(kind, amount)
  /\ \/ /\ IsConnected
        /\ \E a \in Attempts :
             /\ job[a].stage = "unused"
             /\ a = CHOOSE b \in Attempts : job[b].stage = "unused"
             /\ modal' = [modal EXCEPT ![h].step = "sign", ![h].asked = a]
             /\ job' = [job EXCEPT ![a] =
                  [Unused EXCEPT !.kind = kind, !.amount = amount, !.here = TRUE,
                                 !.stage = FirstStage(kind)]]
     \/ /\ ~IsConnected
        /\ modal' = [modal EXCEPT ![h].step = "sign"]
        /\ UNCHANGED job
  /\ UNCHANGED <<account, view, chain, missed, plan>>

(***************************************************************************)
(* Submissions                                                             *)
(***************************************************************************)
\* Mutated CloseModal: the modal is left open.
CloseModalForgotten(a, j) == modal

CloseModal(a, j) ==
  IF j[a].here THEN [modal EXCEPT ![HostOf(j[a].kind)] = Closed] ELSE modal

\* All that is kept of a submission that has ended.
Ended(j) == [IF j.afloat THEN j ELSE Unused EXCEPT
               !.stage = "ended", !.here = FALSE, !.abandoned = FALSE,
               !.done = j.done, !.told = j.told]

\* The catch of every submission: an error is told, and the modal its host
\* has by now is closed.
Throws(a) ==
  /\ modal' = CloseModal(a, job)
  /\ job' = [Abandon(job, IF job[a].here THEN {modal[HostOf(job[a].kind)].asked} ELSE {})
               EXCEPT ![a] = [Ended(job[a]) EXCEPT !.told = @ \union {"error"}]]

\* The read of the balance, delegation or rewards before signing has come.
Check(a) ==
  /\ job[a].stage = "check"
  /\ Covers(job[a].kind, job[a].amount, chain)
  /\ job' = [job EXCEPT ![a].stage = "simulate"]
  /\ UNCHANGED <<account, view, modal, chain, missed, plan>>

\* Mutated Simulate: the gas is not estimated by a simulation.
SimulateSkipped(a) ==
  /\ job[a].stage = "simulate"
  /\ job' = [job EXCEPT ![a].stage = "prepare", ![a].simulatedAt = chain.sequence]
  /\ UNCHANGED <<account, view, modal, chain, missed, plan>>

\* simulate runs the messages, without the fee that is made of its answer.
Simulate(a) ==
  /\ job[a].stage = "simulate"
  /\ Runs(job[a].kind, job[a].amount, chain)
  /\ job' = [job EXCEPT ![a].stage = "prepare", ![a].simulatedAt = chain.sequence]
  /\ UNCHANGED <<account, view, modal, chain, missed, plan>>

\* sign reads the account's sequence again, and asks the wallet.
Prepare(a) ==
  /\ job[a].stage = "prepare"
  /\ job' = [job EXCEPT ![a].stage = "sign", ![a].signedAt = chain.sequence]
  /\ UNCHANGED <<account, view, modal, chain, missed, plan>>

\* Not enough funds, a failed call, or a refusal in the wallet.
NotSigned(a) ==
  /\ job[a].stage \in Pending
  /\ Throws(a)
  /\ UNCHANGED <<account, view, chain, missed, plan>>

Sign(a) ==
  /\ job[a].stage = "sign"
  /\ modal' = CloseModal(a, job)
  /\ job' = [Abandon(job, IF job[a].here THEN {modal[HostOf(job[a].kind)].asked} \ {a} ELSE {})
               EXCEPT ![a].stage = "broadcast", ![a].afloat = TRUE]
  /\ UNCHANGED <<account, view, chain, missed, plan>>

\* A block has the transaction: the fee is taken whatever comes of it.
Deliver(a) ==
  LET paid == AfterFee(chain)
      runs == Runs(job[a].kind, job[a].amount, paid)
  IN
  /\ job[a].afloat
  /\ job[a].signedAt = chain.sequence
  /\ Fee <= chain.funds
  /\ chain' = IF runs THEN Effect(job[a].kind, job[a].amount, paid) ELSE paid
  /\ job' = [job EXCEPT ![a].afloat = FALSE, ![a].done = IF runs THEN "ok" ELSE "failed"]
  /\ missed' = (missed \/ job[a].stage = "ended")
  /\ UNCHANGED <<account, view, modal, plan>>

\* Mutated Broadcasted: the code of the transaction is not looked at.
BroadcastedUnchecked(a) ==
  /\ job[a].stage = "broadcast"
  /\ job[a].done # "no"
  /\ job' = [job EXCEPT ![a].stage = "refresh", ![a].told = @ \union {"success"}]
  /\ UNCHANGED <<account, view, modal, chain, missed, plan>>

\* Mutated Broadcasted: the account is not refreshed.
BroadcastedOnly(a) ==
  /\ job[a].stage = "broadcast"
  /\ job[a].done = "ok"
  /\ job' = [job EXCEPT ![a] = [Ended(@) EXCEPT !.told = {"success"}]]
  /\ UNCHANGED <<account, view, modal, chain, missed, plan>>

\* Mutated Broadcasted: the modal is closed after the broadcast.
BroadcastedCloses(a) ==
  /\ job[a].stage = "broadcast"
  /\ job[a].done = "ok"
  /\ modal' = CloseModal(a, job)
  /\ job' = [Abandon(job, IF job[a].here THEN {modal[HostOf(job[a].kind)].asked} ELSE {})
               EXCEPT ![a].stage = "refresh", ![a].told = @ \union {"success"}]
  /\ UNCHANGED <<account, view, chain, missed, plan>>

\* broadcastTx returns with code 0.
Broadcasted(a) ==
  /\ job[a].stage = "broadcast"
  /\ job[a].done = "ok"
  /\ job' = [job EXCEPT ![a].stage = "refresh", ![a].told = @ \union {"success"}]
  /\ UNCHANGED <<account, view, modal, chain, missed, plan>>

\* Mutated NotBroadcasted: nothing limits the wait for the transaction.
NotBroadcastedInTime(a) ==
  /\ job[a].stage = "broadcast"
  /\ job[a].done = "failed"
  /\ Throws(a)
  /\ missed' = TRUE
  /\ UNCHANGED <<account, view, chain, plan>>

\* Another code, a transaction refused or not found in time, a lost answer.
NotBroadcasted(a) ==
  /\ job[a].stage = "broadcast"
  /\ Throws(a)
  /\ missed' = (missed \/ job[a].done # "no")
  /\ UNCHANGED <<account, view, chain, plan>>

\* refreshAccount asks for the balance; the answer arrives later.
ReadBalance(a) ==
  /\ job[a].stage = "refresh"
  /\ job' = [job EXCEPT ![a].stage = "read", ![a].read = chain.funds,
                        ![a].readAt = chain.sequence]
  /\ UNCHANGED <<account, view, modal, chain, missed, plan>>

NotRefreshed(a) ==
  /\ job[a].stage \in {"refresh", "read"}
  /\ Throws(a)
  /\ missed' = TRUE
  /\ UNCHANGED <<account, view, chain, plan>>

\* Another wallet context: the validator screen asks again, and the modal
\* it shows only over a loaded validator is gone until then, and new after.
Refetches == screen = "validator"
Remounted(m) ==
  IF Refetches THEN [m EXCEPT !["screen"].step = "details", !["screen"].asked = None] ELSE m
Uncovered == IF Refetches THEN {modal["screen"].asked} ELSE {}

Leaving(j) ==
  [a \in Attempts |->
     IF j[a].here /\ HostOf(j[a].kind) = "screen"
     THEN [j[a] EXCEPT !.here = FALSE, !.abandoned = @ \/ j[a].stage \in Pending]
     ELSE j[a]]

GoTo(s) ==
  /\ screen' = s
  /\ data' = IF s = "validator" THEN "loading" ELSE "none"
  /\ delegation' = 0
  /\ modal' = [modal EXCEPT !["screen"] = Closed]

\* The balance is shown; a proposal's submission then goes to the list of
\* proposals, from wherever the user is by now.
Refreshed(a) ==
  LET ended == [job EXCEPT ![a] = Ended(@)]
      navigates == job[a].kind = "propose" /\ screen # "other"
  IN
  /\ job[a].stage = "read"
  /\ shown' = job[a].read
  /\ shownAt' = job[a].readAt
  /\ missed' = (missed \/ job[a].readAt < shownAt)
  /\ \/ /\ navigates
        /\ GoTo("other")
        /\ job' = Leaving(ended)
     \/ /\ ~navigates
        /\ modal' = Remounted(modal)
        /\ job' = Abandon(ended, Uncovered)
        /\ data' = IF Refetches THEN "loading" ELSE data
        /\ UNCHANGED <<screen, delegation>>
  /\ UNCHANGED <<wallet, chain, plan>>

(***************************************************************************)
(* Screens and the wallet                                                  *)
(***************************************************************************)
Leave(s) ==
  /\ s # screen
  /\ GoTo(s)
  /\ job' = Leaving(job)
  /\ UNCHANGED <<account, chain, missed, plan>>

ValidatorComes ==
  /\ data = "loading"
  /\ \/ data' = "loaded" /\ delegation' = chain.staked
     \/ data' = "error" /\ UNCHANGED delegation
  /\ UNCHANGED <<account, screen, modal, job, chain, missed, plan>>

NewContext ==
  /\ modal' = Remounted(modal)
  /\ job' = Abandon(job, Uncovered)
  /\ data' = IF Refetches THEN "loading" ELSE data
  /\ UNCHANGED <<screen, delegation, chain, plan>>

\* Disconnect in the side bar; the wallet is dropped when logout has ended.
Disconnect ==
  /\ wallet = "connected"
  /\ \A h \in Hosts : ~Shows(h)
  /\ wallet' = "leaving"
  /\ UNCHANGED <<shown, shownAt, view, modal, job, chain, missed, plan>>

Dropped ==
  /\ wallet = "leaving"
  /\ wallet' = "idle"
  /\ NewContext
  /\ UNCHANGED <<shown, shownAt, missed>>

Reconnect ==
  /\ wallet = "idle"
  /\ wallet' = "connected"
  /\ shown' = chain.funds
  /\ shownAt' = chain.sequence
  /\ missed' = FALSE
  /\ NewContext

Returns(a) ==
  Broadcasted(a) \/ NotBroadcasted(a) \/ ReadBalance(a) \/ NotRefreshed(a) \/ Refreshed(a)

Next ==
  \/ \E kind \in Kinds : Open(kind)
  \/ \E h \in Hosts : Close(h) \/ \E x \in Amounts : Submit(h, x)
  \/ \E a \in Attempts :
       Check(a) \/ Simulate(a) \/ Prepare(a) \/ NotSigned(a) \/ Sign(a) \/ Deliver(a)
         \/ Returns(a)
  \/ \E s \in Screens : Leave(s)
  \/ ValidatorComes \/ Disconnect \/ Dropped \/ Reconnect

Spec == Init /\ [][Next]_vars /\ \A a \in Attempts : WF_vars(Returns(a))

(***************************************************************************)
(* Properties                                                              *)
(***************************************************************************)
\* The variables and the records in them have their types.
TypeOK ==
  /\ wallet \in {"connected", "leaving", "idle"}
  /\ shown \in Nat /\ shownAt \in Nat /\ delegation \in Nat
  /\ screen \in Screens
  /\ data \in {"none", "loading", "loaded", "error"}
  /\ modal \in [Hosts -> Modal]
  /\ job \in [Attempts -> Job]
  /\ chain \in [funds : Nat, staked : Nat, rewards : Nat, sequence : Nat]
  /\ missed \in BOOLEAN

Prompted(a, h) ==
  /\ job[a].stage \in Pending
  /\ job[a].here
  /\ HostOf(job[a].kind) = h

\* A modal that asks to confirm in the wallet has a submission of its own
\* kind under way, unless the wallet had gone when it was submitted: no
\* ending of any submission leaves such a modal behind.
ConfirmationHasPrompt ==
  \A h \in Hosts :
    modal[h].asked # None =>
      /\ modal[h].step = "sign"
      /\ Prompted(modal[h].asked, h)
      /\ job[modal[h].asked].kind = modal[h].kind

\* Of two submissions that wait for a signature for one host, one was
\* abandoned: its modal was dismissed, remounted or closed by the failure
\* of an earlier submission.
OnePrompt ==
  \A a, b \in Attempts : \A h \in Hosts :
    a # b /\ Prompted(a, h) /\ Prompted(b, h) => job[a].abandoned \/ job[b].abandoned

\* Success is told only of what the chain has executed with code 0, and
\* nothing is executed that is still waited for in the wallet.
ToastsAreTrue ==
  \A a \in Attempts :
    /\ "success" \in job[a].told => job[a].done = "ok"
    /\ job[a].done # "no" \/ job[a].afloat => job[a].stage \in Following \union {"ended"}

\* Once every signed submission has ended, the balance shown is the chain's,
\* unless a charge was never followed by a refresh, or a late answer of a
\* refresh replaced a newer one.
BalanceFollows ==
  IsConnected /\ ~missed /\ (\A a \in Attempts : job[a].stage \notin Following)
    => shown = chain.funds

\* A transaction the wallet was asked to sign fails on the chain only for
\* the fee, which neither the form nor the check before signing counts, unless
\* another one was executed between its simulation and its signature
\* (cosmosAPI.ts:31 and :38).
OnlyTheFeeFails ==
  [][\A a \in Attempts :
       /\ job[a].done = "no" /\ job'[a].done = "failed"
       /\ job[a].simulatedAt = job[a].signedAt
       => /\ Runs(job[a].kind, job[a].amount, chain)
          /\ ~Runs(job[a].kind, job[a].amount, AfterFee(chain))]_vars

\* A submission closes a form that is being filled in only when it was
\* abandoned itself, or fails after its signature.
FormSurvives ==
  [][\A h \in Hosts : \A a \in Attempts :
       /\ modal[h].kind # None /\ modal[h].step = "details"
       /\ modal'[h].kind = None /\ screen' = screen
       /\ job'[a].stage # job[a].stage
       => job[a].abandoned \/ (job[a].stage \in Following /\ "error" \in job'[a].told)]_vars

\* What was signed is followed to its end, with a success or an error told.
EverySubmissionEnds ==
  \A a \in Attempts :
    job[a].stage = "broadcast" ~> job[a].stage = "ended" /\ job[a].told # {}
=============================================================================
