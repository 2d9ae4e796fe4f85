------------------------- MODULE TransactionsProofs -------------------------
(***************************************************************************)
(* Proofs about Transactions, for any number of submissions, any amounts,  *)
(* any fee and any purses.                                                 *)
(***************************************************************************)
EXTENDS Transactions, TLAPS

(***************************************************************************)
(* The inductive invariant                                                 *)
(***************************************************************************)
\* A modal belongs to its host, and one that waits for a signature shows.
ModalsPlaced ==
  \A h \in Hosts : /\ modal[h].kind # None => HostOf(modal[h].kind) = h
                   /\ modal[h].asked # None => Shows(h)

\* A submission under way has a kind, what is not executed yet has no
\* outcome, and only after success is the balance read.
JobsPlaced ==
  \A a \in Attempts :
    /\ job[a].stage \in Pending \union Following => job[a].kind \in Kinds
    /\ job[a].afloat => job[a].done = "no"
    /\ job[a].stage \in {"refresh", "read"} => job[a].done = "ok"
Placed == ModalsPlaced /\ JobsPlaced

\* A submission that waits for its signature and was not abandoned is the
\* one the modal of its host waits for.
Held ==
  \A a \in Attempts :
    job[a].stage \in Pending /\ ~job[a].abandoned =>
      job[a].here /\ modal[HostOf(job[a].kind)].asked = a

\* What was simulated still runs as long as the account's sequence is the one
\* of its simulation: only executing a transaction changes the account.
Simulated ==
  \A a \in Attempts :
    job[a].stage \in {"prepare", "sign"} \/ job[a].afloat =>
      /\ job[a].simulatedAt <= chain.sequence
      /\ job[a].simulatedAt = chain.sequence => Runs(job[a].kind, job[a].amount, chain)

\* A balance read at the sequence the account still has is the balance.
Dated ==
  /\ shownAt <= chain.sequence
  /\ shownAt = chain.sequence => shown = chain.funds
  /\ \A a \in Attempts :
       job[a].stage = "read" =>
         /\ job[a].readAt <= chain.sequence
         /\ job[a].readAt = chain.sequence => job[a].read = chain.funds

\* A submission whose refresh will show the balance of now or of later.
WillShow(a) ==
  \/ job[a].stage = "broadcast" /\ job[a].done # "no"
  \/ job[a].stage = "refresh"
  \/ job[a].stage = "read" /\ job[a].readAt = chain.sequence

Followed ==
  IsConnected /\ ~missed =>
    shownAt = chain.sequence \/ \E a \in Attempts : WillShow(a)

IInv == TypeOK /\ Placed /\ ConfirmationHasPrompt /\ Held /\ ToastsAreTrue
          /\ Simulated /\ Dated /\ Followed

(***************************************************************************)
(* Types                                                                   *)
(***************************************************************************)
USE DEF Hosts, Screens, Pending, Following

LEMMA ClosedType == Closed \in Modal
BY DEF Closed, Modal

LEMMA HostType == \A kind : HostOf(kind) \in Hosts
BY DEF HostOf

LEMMA UnusedType == Unused \in Job
BY DEF Unused, Job

LEMMA EndedJob == ASSUME NEW j \in Job PROVE Ended(j) \in Job
BY UnusedType DEF Ended, Unused, Job

\* What the steps of a submission write keeps a record of submissions one.
LEMMA JobUpdates ==
  ASSUME NEW j \in Job
  PROVE  /\ \A st \in Pending \union Following : [j EXCEPT !.stage = st] \in Job
         /\ \A n \in Nat : [j EXCEPT !.stage = "prepare", !.simulatedAt = n] \in Job
         /\ \A n \in Nat : [j EXCEPT !.stage = "sign", !.signedAt = n] \in Job
         /\ [j EXCEPT !.stage = "broadcast", !.afloat = TRUE] \in Job
         /\ \A d \in {"ok", "failed"} : [j EXCEPT !.afloat = FALSE, !.done = d] \in Job
         /\ [j EXCEPT !.stage = "refresh", !.told = @ \union {"success"}] \in Job
         /\ \A m, n \in Nat : [j EXCEPT !.stage = "read", !.read = m, !.readAt = n] \in Job
<1>1. \A st \in Pending \union Following : [j EXCEPT !.stage = st] \in Job
  BY DEF Job
<1>2. /\ \A n \in Nat : [j EXCEPT !.stage = "prepare", !.simulatedAt = n] \in Job
      /\ \A n \in Nat : [j EXCEPT !.stage = "sign", !.signedAt = n] \in Job
  BY DEF Job
<1>3. [j EXCEPT !.stage = "broadcast", !.afloat = TRUE] \in Job
  BY DEF Job
<1>4. \A d \in {"ok", "failed"} : [j EXCEPT !.afloat = FALSE, !.done = d] \in Job
  BY DEF Job
<1>5. [j EXCEPT !.stage = "refresh", !.told = @ \union {"success"}] \in Job
  <2>1. j.told \union {"success"} \in SUBSET {"success", "error"}
    BY DEF Job
  <2>2. \A t \in SUBSET {"success", "error"} :
          [j EXCEPT !.stage = "refresh", !.told = t] \in Job
    BY DEF Job
  <2> QED BY <2>1, <2>2
<1>6. \A m, n \in Nat : [j EXCEPT !.stage = "read", !.read = m, !.readAt = n] \in Job
  BY DEF Job
<1> QED BY <1>1, <1>2, <1>3, <1>4, <1>5, <1>6

LEMMA ModalUpdates ==
  ASSUME NEW m \in Modal
  PROVE  /\ \A a \in Attempts : [m EXCEPT !.step = "sign", !.asked = a] \in Modal
         /\ [m EXCEPT !.step = "sign"] \in Modal
         /\ [m EXCEPT !.step = "details", !.asked = None] \in Modal
BY DEF Modal

LEMMA AskedType ==
  ASSUME NEW m \in [Hosts -> Modal], NEW h \in Hosts
  PROVE  /\ \A a \in Attempts :
              [m EXCEPT ![h].step = "sign", ![h].asked = a] \in [Hosts -> Modal]
         /\ [m EXCEPT ![h].step = "sign"] \in [Hosts -> Modal]
BY DEF Modal

LEMMA StartType ==
  ASSUME NEW kind \in Kinds, NEW x \in Int, NEW st \in Pending
  PROVE  [Unused EXCEPT !.kind = kind, !.amount = x, !.here = TRUE, !.stage = st] \in Job
BY DEF Unused, Job

LEMMA AbandonType ==
  ASSUME NEW j \in [Attempts -> Job], NEW As
  PROVE  Abandon(j, As) \in [Attempts -> Job]
<1> SUFFICES ASSUME NEW a \in Attempts PROVE Abandon(j, As)[a] \in Job
  BY DEF Abandon
<1>1. [j[a] EXCEPT !.abandoned = TRUE] \in Job
  BY DEF Job
<1> QED BY <1>1 DEF Abandon

LEMMA LeavingType ==
  ASSUME NEW j \in [Attempts -> Job]
  PROVE  Leaving(j) \in [Attempts -> Job]
<1> SUFFICES ASSUME NEW a \in Attempts PROVE Leaving(j)[a] \in Job
  BY DEF Leaving
<1>1. \A b \in BOOLEAN : [j[a] EXCEPT !.here = FALSE, !.abandoned = b] \in Job
  BY DEF Job
<1>2. (j[a].abandoned \/ j[a].stage \in Pending) \in BOOLEAN
  OBVIOUS
<1> QED BY <1>1, <1>2 DEF Leaving

Purse == [funds : Nat, staked : Nat, rewards : Nat, sequence : Nat]

\* Executing what runs leaves an account with no less than nothing.
LEMMA EffectType ==
  ASSUME NEW c \in Purse, NEW kind, NEW x \in Int, Runs(kind, x, c)
  PROVE  Effect(kind, x, c) \in Purse
BY DEF Purse, Effect, Runs, Covers, EnoughFunds, EnoughStaked, SomeRewards, Paying,
       ValidatorKinds

LEMMA AfterFeeType ==
  ASSUME NEW c \in Purse, Fee <= c.funds
  PROVE  AfterFee(c) \in Purse /\ AfterFee(c).sequence = c.sequence + 1
BY AmountsType DEF Purse, AfterFee

LEMMA SequenceKept ==
  ASSUME NEW c \in Purse, NEW kind, NEW x \in Int
  PROVE  Effect(kind, x, c).sequence = c.sequence
BY DEF Effect, Purse

LEMMA ThrowsType ==
  ASSUME TypeOK, NEW a \in Attempts, Throws(a)
  PROVE  modal' \in [Hosts -> Modal] /\ job' \in [Attempts -> Job]
<1>1. modal' \in [Hosts -> Modal]
  BY ClosedType, HostType DEF TypeOK, Throws, CloseModal
<1>2. [Ended(job[a]) EXCEPT !.told = @ \union {"error"}] \in Job
  <2>1. Ended(job[a]) \in Job
    BY EndedJob DEF TypeOK
  <2>2. Ended(job[a]).told \union {"error"} \in SUBSET {"success", "error"}
    BY <2>1 DEF Job
  <2>3. \A j \in Job : \A t \in SUBSET {"success", "error"} : [j EXCEPT !.told = t] \in Job
    BY DEF Job
  <2> QED BY <2>1, <2>2, <2>3
<1>3. job' \in [Attempts -> Job]
  BY <1>2, AbandonType DEF TypeOK, Throws
<1> QED BY <1>1, <1>3

LEMMA RemountedType ==
  ASSUME NEW m \in [Hosts -> Modal] PROVE Remounted(m) \in [Hosts -> Modal]
BY ModalUpdates DEF Remounted

LEMMA GoToType ==
  ASSUME TypeOK, NEW s \in Screens, GoTo(s)
  PROVE  /\ screen' \in Screens /\ delegation' \in Nat
         /\ data' \in {"none", "loading", "loaded", "error"}
         /\ modal' \in [Hosts -> Modal]
BY ClosedType DEF TypeOK, GoTo

LEMMA TypeInit == Init => TypeOK
<1> SUFFICES ASSUME Init PROVE TypeOK
  OBVIOUS
<1>1. chain \in [funds : Nat, staked : Nat, rewards : Nat, sequence : Nat]
  BY PursesType DEF Init
<1> QED BY <1>1, ClosedType, UnusedType DEF Init, TypeOK

LEMMA TypeStep == TypeOK /\ [Next]_vars => TypeOK'
<1> SUFFICES ASSUME TypeOK, [Next]_vars PROVE TypeOK'
  OBVIOUS
<1>0. /\ \A a \in Attempts : job[a] \in Job
      /\ \A h \in Hosts : modal[h] \in Modal
      /\ chain.funds \in Nat /\ chain.sequence \in Nat
  BY DEF TypeOK
<1> USE DEF TypeOK
<1>1. ASSUME NEW kind \in Kinds, Open(kind) PROVE TypeOK'
  <2>1. [Closed EXCEPT !.kind = kind] \in Modal
    BY ClosedType DEF Modal
  <2> QED BY <1>1, <2>1, HostType DEF Open, account, view
<1>2. ASSUME NEW h \in Hosts, Close(h) PROVE TypeOK'
  BY <1>2, ClosedType, AbandonType DEF Close, account, view
<1>3. ASSUME NEW h \in Hosts, NEW x \in Amounts, Submit(h, x) PROVE TypeOK'
  <2>3. modal[h].kind \in Kinds /\ x \in Int
    BY <1>0, <1>3, AmountsType DEF Submit, Shows, Modal
  <2>4. CASE modal' = [modal EXCEPT ![h].step = "sign"] /\ UNCHANGED job
    BY <1>3, <2>4, AskedType DEF Submit, account, view
  <2>5. ASSUME NEW a \in Attempts, NEW st \in Pending,
               modal' = [modal EXCEPT ![h].step = "sign", ![h].asked = a],
               job' = [job EXCEPT ![a] =
                 [Unused EXCEPT !.kind = modal[h].kind, !.amount = x, !.here = TRUE,
                                !.stage = st]]
        PROVE  TypeOK'
    <3>1. [Unused EXCEPT !.kind = modal[h].kind, !.amount = x, !.here = TRUE, !.stage = st]
            \in Job
      BY <2>3, StartType
    <3>2. job' \in [Attempts -> Job]
      BY <2>5, <3>1
    <3>3. modal' \in [Hosts -> Modal]
      BY <2>5, AskedType
    <3> QED BY <1>3, <3>2, <3>3 DEF Submit, account, view
  <2>6. FirstStage(modal[h].kind) \in Pending
    BY DEF FirstStage, Pending
  <2> QED BY <1>3, <2>4, <2>5, <2>6 DEF Submit
<1>4. ASSUME NEW a \in Attempts, Check(a) PROVE TypeOK'
  BY <1>0, <1>4, JobUpdates DEF Check, account, view
<1>5. ASSUME NEW a \in Attempts, Simulate(a) \/ Prepare(a) PROVE TypeOK'
  <2>1. CASE Simulate(a)
    BY <1>0, <2>1, JobUpdates DEF Simulate, account, view
  <2>2. CASE Prepare(a)
    BY <1>0, <2>2, JobUpdates DEF Prepare, account, view
  <2> QED BY <1>5, <2>1, <2>2
<1>6. ASSUME NEW a \in Attempts, NotSigned(a) PROVE TypeOK'
  BY <1>6, ThrowsType DEF NotSigned, account, view
<1>7. ASSUME NEW a \in Attempts, Sign(a) PROVE TypeOK'
  <2>1. modal' \in [Hosts -> Modal]
    BY <1>7, ClosedType, HostType DEF Sign, CloseModal
  <2>2. job' \in [Attempts -> Job]
    <3> DEFINE j == Abandon(job, IF job[a].here THEN {modal[HostOf(job[a].kind)].asked} \ {a} ELSE {})
    <3>1. j \in [Attempts -> Job] /\ j[a] \in Job
      BY AbandonType
    <3>2. job' = [j EXCEPT ![a].stage = "broadcast", ![a].afloat = TRUE]
      BY <1>7 DEF Sign
    <3>3. [j[a] EXCEPT !.stage = "broadcast", !.afloat = TRUE] \in Job
      BY <3>1, JobUpdates
    <3> HIDE DEF j
    <3> QED BY <3>1, <3>2, <3>3
  <2> QED BY <1>7, <2>1, <2>2 DEF Sign, account, view
<1>8. ASSUME NEW a \in Attempts, Deliver(a) PROVE TypeOK'
  <2>1. job' \in [Attempts -> Job]
    BY <1>0, <1>8, JobUpdates DEF Deliver
  <2>2. AfterFee(chain) \in Purse /\ job[a].amount \in Int
    BY <1>0, <1>8, AfterFeeType DEF Deliver, Purse, Job
  <2>3. chain' \in Purse
    BY <1>8, <2>2, EffectType DEF Deliver
  <2> QED BY <1>8, <2>1, <2>3 DEF Deliver, Purse, account, view
<1>9. ASSUME NEW a \in Attempts, Returns(a) PROVE TypeOK'
  <2>1. CASE Broadcasted(a)
    BY <1>0, <2>1, JobUpdates DEF Broadcasted, account, view
  <2>2. CASE NotBroadcasted(a)
    BY <2>2, ThrowsType DEF NotBroadcasted, account, view
  <2>3. CASE ReadBalance(a)
    BY <1>0, <2>3, JobUpdates DEF ReadBalance, account, view
  <2>4. CASE NotRefreshed(a)
    BY <2>4, ThrowsType DEF NotRefreshed, account, view
  <2>5. CASE Refreshed(a)
    <3>1. [job EXCEPT ![a] = Ended(@)] \in [Attempts -> Job]
      BY <1>0, EndedJob DEF TypeOK
    <3>2. job[a].read \in Nat /\ job[a].readAt \in Nat
      BY <1>0 DEF Job
    <3>3. job' \in [Attempts -> Job]
      <4> DEFINE ended == [job EXCEPT ![a] = Ended(@)]
      <4>1. job' = Leaving(ended) \/ job' = Abandon(ended, Uncovered)
        BY <2>5 DEF Refreshed
      <4>2. ended \in [Attempts -> Job]
        BY <3>1
      <4> HIDE DEF ended
      <4> QED BY <4>1, <4>2, LeavingType, AbandonType
    <3>4. /\ screen' \in Screens /\ delegation' \in Nat
          /\ data' \in {"none", "loading", "loaded", "error"}
          /\ modal' \in [Hosts -> Modal]
      <4>1. CASE GoTo("other")
        BY <4>1, GoToType
      <4>2. CASE /\ modal' = Remounted(modal)
                 /\ data' = IF Refetches THEN "loading" ELSE data
                 /\ UNCHANGED <<screen, delegation>>
        BY <4>2, RemountedType
      <4> QED BY <2>5, <4>1, <4>2 DEF Refreshed
    <3> QED BY <2>5, <3>2, <3>3, <3>4 DEF Refreshed
  <2> QED BY <1>9, <2>1, <2>2, <2>3, <2>4, <2>5 DEF Returns
<1>10. ASSUME NEW s \in Screens, Leave(s) PROVE TypeOK'
  BY <1>10, LeavingType, GoToType DEF Leave, account, view
<1>11. CASE ValidatorComes
  BY <1>11 DEF ValidatorComes, account, view
<1>12. CASE Disconnect
  BY <1>12 DEF Disconnect, account, view
<1>13. CASE Dropped
  BY <1>13, RemountedType, AbandonType DEF Dropped, NewContext, account, view
<1>14. CASE Reconnect
  BY <1>14, RemountedType, AbandonType DEF Reconnect, NewContext, account, view
<1>15. CASE UNCHANGED vars
  BY <1>15 DEF vars, account, view
<1> QED
  BY <1>1, <1>2, <1>3, <1>4, <1>5, <1>6, <1>7, <1>8, <1>9, <1>10, <1>11, <1>12,
     <1>13, <1>14, <1>15 DEF Next

\* Every variable keeps its type, whatever the purse and the amounts typed.
THEOREM Typing == Spec => []TypeOK
BY TypeInit, TypeStep, PTL DEF Spec

(***************************************************************************)
(* What a step leaves alone                                                *)
(***************************************************************************)
\* Two records that may differ in here and abandoned only.
Alike(k, j) ==
  /\ k.stage = j.stage /\ k.kind = j.kind /\ k.amount = j.amount
  /\ k.simulatedAt = j.simulatedAt /\ k.signedAt = j.signedAt
  /\ k.afloat = j.afloat /\ k.done = j.done /\ k.told = j.told
  /\ k.read = j.read /\ k.readAt = j.readAt

\* The submission b does not move: at most its modal or its host goes.
Same(b) == Alike(job'[b], job[b])

LEMMA AbandonFacts ==
  ASSUME NEW j \in [Attempts -> Job], NEW As, NEW b \in Attempts
  PROVE  /\ Alike(Abandon(j, As)[b], j[b])
         /\ Abandon(j, As)[b].here = j[b].here
         /\ Abandon(j, As)[b].abandoned \in BOOLEAN
         /\ Abandon(j, As)[b].abandoned
              <=> j[b].abandoned \/ (b \in As /\ j[b].stage \in Pending)
<1>1. j[b] \in Job /\ j[b].abandoned \in BOOLEAN
  BY DEF Job
<1>2. Abandon(j, As)[b] = IF b \in As /\ j[b].stage \in Pending
                          THEN [j[b] EXCEPT !.abandoned = TRUE] ELSE j[b]
  BY DEF Abandon
<1>3. /\ [j[b] EXCEPT !.abandoned = TRUE].abandoned = TRUE
      /\ [j[b] EXCEPT !.abandoned = TRUE].here = j[b].here
      /\ Alike([j[b] EXCEPT !.abandoned = TRUE], j[b])
  BY <1>1 DEF Job, Alike
<1>4. Alike(j[b], j[b])
  BY DEF Alike
<1> QED BY <1>1, <1>2, <1>3, <1>4

LEMMA LeavingFacts ==
  ASSUME NEW j \in [Attempts -> Job], NEW b \in Attempts
  PROVE  /\ Alike(Leaving(j)[b], j[b])
         /\ Leaving(j)[b].here <=> j[b].here /\ HostOf(j[b].kind) # "screen"
         /\ Leaving(j)[b].abandoned
              <=> \/ j[b].abandoned
                  \/ j[b].here /\ HostOf(j[b].kind) = "screen" /\ j[b].stage \in Pending
<1>1. j[b] \in Job /\ j[b].here \in BOOLEAN /\ j[b].abandoned \in BOOLEAN
  BY DEF Job
<1>2. CASE j[b].here /\ HostOf(j[b].kind) = "screen"
  <2> DEFINE x == j[b].abandoned \/ j[b].stage \in Pending
  <2>1. Leaving(j)[b] = [j[b] EXCEPT !.here = FALSE, !.abandoned = x]
    BY <1>2 DEF Leaving
  <2>2. x \in BOOLEAN
    OBVIOUS
  <2> HIDE DEF x
  <2>3. Leaving(j)[b].here = FALSE /\ Leaving(j)[b].abandoned = x
    BY <1>1, <2>1 DEF Job
  <2>4. Alike(Leaving(j)[b], j[b])
    BY <1>1, <2>1 DEF Job, Alike
  <2> QED BY <1>2, <2>2, <2>3, <2>4 DEF x
<1>3. CASE ~(j[b].here /\ HostOf(j[b].kind) = "screen")
  <2>1. Leaving(j)[b] = j[b]
    BY <1>3 DEF Leaving
  <2> QED BY <1>1, <1>3, <2>1 DEF Alike
<1> QED BY <1>2, <1>3

LEMMA EndedFields ==
  ASSUME NEW j \in Job
  PROVE  /\ Ended(j).stage = "ended" /\ Ended(j).here = FALSE /\ Ended(j).abandoned = FALSE
         /\ Ended(j).done = j.done /\ Ended(j).told = j.told /\ Ended(j).afloat = j.afloat
         /\ j.afloat => /\ Ended(j).kind = j.kind /\ Ended(j).amount = j.amount
                        /\ Ended(j).simulatedAt = j.simulatedAt
<1>1. CASE j.afloat
  BY <1>1 DEF Ended, Job
<1>2. CASE ~j.afloat
  BY <1>2 DEF Ended, Unused, Job
<1> QED BY <1>1, <1>2

\* After its failure a submission has ended, and of the others only the one
\* whose modal it closed is touched.
LEMMA ThrowsFacts ==
  ASSUME TypeOK, NEW a \in Attempts, Throws(a)
  PROVE  /\ job'[a].stage = "ended" /\ ~job'[a].here /\ ~job'[a].abandoned
         /\ job'[a].done = job[a].done /\ job'[a].told = job[a].told \union {"error"}
         /\ job'[a].afloat = job[a].afloat
         /\ job[a].afloat => /\ job'[a].kind = job[a].kind /\ job'[a].amount = job[a].amount
                             /\ job'[a].simulatedAt = job[a].simulatedAt
         /\ \A b \in Attempts \ {a} :
              /\ Same(b) /\ job'[b].here = job[b].here
              /\ job'[b].abandoned <=>
                   \/ job[b].abandoned
                   \/ /\ job[a].here /\ b = modal[HostOf(job[a].kind)].asked
                      /\ job[b].stage \in Pending
<1> DEFINE As == IF job[a].here THEN {modal[HostOf(job[a].kind)].asked} ELSE {}
           e == [Ended(job[a]) EXCEPT !.told = @ \union {"error"}]
<1>1. job \in [Attempts -> Job] /\ job[a] \in Job /\ Ended(job[a]) \in Job
  BY EndedJob DEF TypeOK
<1>2. job' = [Abandon(job, As) EXCEPT ![a] = e]
  BY DEF Throws
<1>3. DOMAIN Abandon(job, As) = Attempts
  BY DEF Abandon
<1>4. job'[a] = e
  BY <1>2, <1>3
<1>5. /\ e.stage = Ended(job[a]).stage /\ e.here = Ended(job[a]).here
      /\ e.abandoned = Ended(job[a]).abandoned /\ e.done = Ended(job[a]).done
      /\ e.told = Ended(job[a]).told \union {"error"} /\ e.afloat = Ended(job[a]).afloat
      /\ e.kind = Ended(job[a]).kind /\ e.amount = Ended(job[a]).amount
      /\ e.simulatedAt = Ended(job[a]).simulatedAt
  BY <1>1 DEF Job
<1>6. ASSUME NEW b \in Attempts \ {a}
      PROVE  /\ Same(b) /\ job'[b].here = job[b].here
             /\ job'[b].abandoned <=> job[b].abandoned \/ (b \in As /\ job[b].stage \in Pending)
  <2>1. job'[b] = Abandon(job, As)[b]
    BY <1>2, <1>3
  <2> HIDE DEF As
  <2> QED BY <1>1, <2>1, AbandonFacts DEF Same
<1> HIDE DEF e
<1> QED BY <1>1, <1>4, <1>5, <1>6, EndedFields

\* The steps of no submission.
Idle ==
  \/ \E kind \in Kinds : Open(kind)
  \/ \E h \in Hosts : Close(h)
  \/ \E s \in Screens : Leave(s)
  \/ ValidatorComes \/ Disconnect \/ Dropped \/ Reconnect
  \/ UNCHANGED vars

\* They move none.
LEMMA NobodyMoves ==
  ASSUME TypeOK, TypeOK', NEW b \in Attempts,
         Idle
  PROVE  Same(b)
<1>1. job \in [Attempts -> Job] /\ job[b] \in Job
  BY DEF TypeOK
<1>2. CASE UNCHANGED job
  BY <1>2 DEF Same, Alike
<1>3. ASSUME NEW As, job' = Abandon(job, As) PROVE Same(b)
  BY <1>1, <1>3, AbandonFacts DEF Same
<1>4. CASE job' = Leaving(job)
  BY <1>1, <1>4, LeavingFacts DEF Same
<1> QED
  BY <1>2, <1>3, <1>4
  DEF Idle, Open, Close, Leave, ValidatorComes, Disconnect, Dropped, Reconnect, NewContext, vars

\* The steps of one submission, after it was started.
Moves(a) ==
  \/ Check(a) \/ Simulate(a) \/ Prepare(a) \/ NotSigned(a) \/ Sign(a)
  \/ Deliver(a) \/ Returns(a)

LEMMA OthersStay ==
  ASSUME TypeOK, NEW a \in Attempts, NEW b \in Attempts \ {a}, Moves(a)
  PROVE  Same(b)
<1>1. job \in [Attempts -> Job] /\ job[b] \in Job
  BY DEF TypeOK
<1>2. CASE Throws(a)
  BY <1>2, ThrowsFacts
<1>3. CASE job'[b] = job[b]
  BY <1>3 DEF Same, Alike
<1>4. CASE Sign(a)
  <2> DEFINE As == IF job[a].here THEN {modal[HostOf(job[a].kind)].asked} \ {a} ELSE {}
  <2>1. job'[b] = Abandon(job, As)[b]
    BY <1>4 DEF Sign, Abandon
  <2> HIDE DEF As
  <2> QED BY <1>1, <2>1, AbandonFacts DEF Same
<1>5. CASE Refreshed(a)
  <2> DEFINE ended == [job EXCEPT ![a] = Ended(@)]
  <2>1. ended \in [Attempts -> Job] /\ ended[b] = job[b]
    BY <1>1, EndedJob DEF TypeOK
  <2>2. job' = Leaving(ended) \/ job' = Abandon(ended, Uncovered)
    BY <1>5 DEF Refreshed
  <2> HIDE DEF ended
  <2>3. CASE job' = Abandon(ended, Uncovered)
    BY <2>1, <2>3, AbandonFacts DEF Same
  <2>4. CASE job' = Leaving(ended)
    BY <2>1, <2>4, LeavingFacts DEF Same
  <2> QED BY <2>2, <2>3, <2>4
<1> QED
  BY <1>1, <1>2, <1>3, <1>4, <1>5
  DEF Moves, Check, Simulate, Prepare, NotSigned, Deliver, Returns, Broadcasted, NotBroadcasted,
      ReadBalance, NotRefreshed

LEMMA Submission ==
  ASSUME TypeOK, NEW h \in Hosts, NEW x \in Amounts, Submit(h, x)
  PROVE  \/ /\ UNCHANGED job
            /\ ~IsConnected
            /\ modal' = [modal EXCEPT ![h].step = "sign"]
         \/ \E a \in Attempts :
              /\ job[a].stage = "unused"
              /\ \A b \in Attempts \ {a} : job'[b] = job[b]
              /\ job'[a].stage \in {"check", "simulate"} /\ job'[a].kind = modal[h].kind
              /\ job'[a].here /\ ~job'[a].abandoned /\ ~job'[a].afloat
              /\ job'[a].done = "no" /\ job'[a].told = {}
              /\ modal' = [modal EXCEPT ![h].step = "sign", ![h].asked = a]
<1>1. ASSUME NEW a \in Attempts, NEW st \in {"check", "simulate"},
             job' = [job EXCEPT ![a] =
               [Unused EXCEPT !.kind = modal[h].kind, !.amount = x, !.here = TRUE,
                              !.stage = st]]
      PROVE  /\ \A b \in Attempts \ {a} : job'[b] = job[b]
             /\ job'[a].stage = st /\ job'[a].kind = modal[h].kind
             /\ job'[a].here /\ ~job'[a].abandoned /\ ~job'[a].afloat
             /\ job'[a].done = "no" /\ job'[a].told = {}
  BY <1>1 DEF Unused, TypeOK
<1>2. CASE ~IsConnected
  BY <1>2 DEF Submit
<1>3. CASE IsConnected
  <2>1. PICK a \in Attempts :
          /\ job[a].stage = "unused"
          /\ modal' = [modal EXCEPT ![h].step = "sign", ![h].asked = a]
          /\ job' = [job EXCEPT ![a] =
               [Unused EXCEPT !.kind = modal[h].kind, !.amount = x, !.here = TRUE,
                 !.stage = FirstStage(modal[h].kind)]]
    BY <1>3 DEF Submit
  <2>2. CASE modal[h].kind = "vote"
    BY <1>1, <2>1, <2>2 DEF FirstStage
  <2>3. CASE modal[h].kind # "vote"
    BY <1>1, <2>1, <2>3 DEF FirstStage
  <2> QED BY <2>2, <2>3
<1> QED BY <1>2, <1>3

\* What a step of a submission does to it: k is the record after the step.
Carries(k, j) == k.afloat = j.afloat /\ k.done = j.done
Payload(k, j) ==
  k.kind = j.kind /\ k.amount = j.amount /\ k.simulatedAt = j.simulatedAt

LEMMA EarlyMoves ==
  ASSUME TypeOK, NEW a \in Attempts
  PROVE  /\ Check(a) => /\ job'[a].stage = "simulate" /\ Carries(job'[a], job[a])
                        /\ job'[a].told = job[a].told /\ job'[a].kind = job[a].kind
         /\ Simulate(a) => /\ job'[a].stage = "prepare"
                           /\ job'[a].simulatedAt = chain.sequence
                           /\ Carries(job'[a], job[a]) /\ job'[a].told = job[a].told
                           /\ job'[a].kind = job[a].kind /\ job'[a].amount = job[a].amount
         /\ Prepare(a) => /\ job'[a].stage = "sign" /\ Payload(job'[a], job[a])
                          /\ Carries(job'[a], job[a]) /\ job'[a].told = job[a].told
         /\ Sign(a) => /\ job'[a].stage = "broadcast" /\ job'[a].afloat
                       /\ job'[a].done = job[a].done /\ job'[a].told = job[a].told
                       /\ Payload(job'[a], job[a])
<1>1. job \in [Attempts -> Job] /\ job[a] \in Job
  BY DEF TypeOK
<1>2. CASE Check(a)
  BY <1>1, <1>2 DEF Check, Simulate, Prepare, Sign, Carries, Job
<1>3. CASE Simulate(a)
  BY <1>1, <1>3 DEF Check, Simulate, Prepare, Sign, Carries, Job
<1>4. CASE Sign(a)
  <2> DEFINE j == Abandon(job, IF job[a].here THEN {modal[HostOf(job[a].kind)].asked} \ {a} ELSE {})
  <2>1. j \in [Attempts -> Job] /\ Alike(j[a], job[a])
    BY <1>1, AbandonType, AbandonFacts
  <2>2. job' = [j EXCEPT ![a].stage = "broadcast", ![a].afloat = TRUE]
    BY <1>4 DEF Sign
  <2>3. job[a].stage = "sign"
    BY <1>4 DEF Sign
  <2> HIDE DEF j
  <2>4. j[a] \in Job /\ job'[a] = [j[a] EXCEPT !.stage = "broadcast", !.afloat = TRUE]
    BY <2>1, <2>2
  <2>5. /\ job'[a].stage = "broadcast" /\ job'[a].afloat
        /\ job'[a].done = j[a].done /\ job'[a].told = j[a].told /\ Payload(job'[a], j[a])
    BY <2>4 DEF Job, Payload
  <2> QED BY <2>1, <2>3, <2>5 DEF Check, Simulate, Prepare, Alike, Payload
<1>5. CASE Prepare(a)
  BY <1>1, <1>5 DEF Check, Simulate, Prepare, Sign, Carries, Payload, Job
<1> QED BY <1>2, <1>3, <1>4, <1>5

LEMMA LateMoves ==
  ASSUME TypeOK, NEW a \in Attempts
  PROVE  /\ Deliver(a) => /\ job'[a].stage = job[a].stage /\ ~job'[a].afloat
                          /\ job'[a].done \in {"ok", "failed"} /\ job'[a].told = job[a].told
                          /\ job'[a].kind = job[a].kind
                          /\ job'[a].read = job[a].read /\ job'[a].readAt = job[a].readAt
         /\ Broadcasted(a) => /\ job'[a].stage = "refresh" /\ Carries(job'[a], job[a])
                              /\ job'[a].told = job[a].told \union {"success"}
                              /\ Payload(job'[a], job[a])
         /\ ReadBalance(a) => /\ job'[a].stage = "read" /\ Carries(job'[a], job[a])
                              /\ job'[a].told = job[a].told /\ Payload(job'[a], job[a])
                              /\ job'[a].read = chain.funds /\ job'[a].readAt = chain.sequence
         /\ Refreshed(a) => /\ job'[a].stage = "ended" /\ Carries(job'[a], job[a])
                            /\ job'[a].told = job[a].told
                            /\ ~job'[a].here /\ ~job'[a].abandoned
                            /\ job[a].afloat => Payload(job'[a], job[a])
<1>1. job \in [Attempts -> Job] /\ job[a] \in Job
  BY DEF TypeOK
<1>2. ASSUME Deliver(a)
      PROVE  /\ job'[a].stage = job[a].stage /\ ~job'[a].afloat
             /\ job'[a].done \in {"ok", "failed"} /\ job'[a].told = job[a].told
             /\ job'[a].kind = job[a].kind
             /\ job'[a].read = job[a].read /\ job'[a].readAt = job[a].readAt
  <2>1. PICK d \in {"ok", "failed"} : job' = [job EXCEPT ![a].afloat = FALSE, ![a].done = d]
    BY <1>2 DEF Deliver
  <2> QED BY <1>1, <2>1 DEF Job
<1>3. ASSUME Broadcasted(a)
      PROVE  /\ job'[a].stage = "refresh" /\ Carries(job'[a], job[a])
             /\ job'[a].told = job[a].told \union {"success"} /\ Payload(job'[a], job[a])
  BY <1>1, <1>3 DEF Broadcasted, Carries, Payload, Job
<1>4. ASSUME ReadBalance(a)
      PROVE  /\ job'[a].stage = "read" /\ Carries(job'[a], job[a])
             /\ job'[a].told = job[a].told /\ Payload(job'[a], job[a])
             /\ job'[a].read = chain.funds /\ job'[a].readAt = chain.sequence
  BY <1>1, <1>4 DEF ReadBalance, Carries, Payload, Job
<1>5. ASSUME Refreshed(a)
      PROVE  /\ job'[a].stage = "ended" /\ Carries(job'[a], job[a])
             /\ job'[a].told = job[a].told /\ ~job'[a].here /\ ~job'[a].abandoned
             /\ job[a].afloat => Payload(job'[a], job[a])
  <2> DEFINE ended == [job EXCEPT ![a] = Ended(@)]
  <2>1. ended \in [Attempts -> Job] /\ ended[a] = Ended(job[a])
    BY <1>1, EndedJob
  <2>2. job' = Leaving(ended) \/ job' = Abandon(ended, Uncovered)
    BY <1>5 DEF Refreshed
  <2>3. ended[a].stage = "ended" /\ ~ended[a].here /\ ~ended[a].abandoned
    BY <1>1, <2>1, EndedFields
  <2> HIDE DEF ended
  <2>4. Alike(job'[a], ended[a]) /\ ~job'[a].here /\ ~job'[a].abandoned
    <3>1. CASE job' = Leaving(ended)
      BY <2>1, <2>3, <3>1, LeavingFacts
    <3>2. CASE job' = Abandon(ended, Uncovered)
      BY <2>1, <2>3, <3>2, AbandonFacts
    <3> QED BY <2>2, <3>1, <3>2
  <2> QED BY <1>1, <2>1, <2>4, EndedFields DEF Alike, Carries, Payload
<1> QED BY <1>2, <1>3, <1>4, <1>5

(***************************************************************************)
(* Each part of the invariant is kept                                      *)
(***************************************************************************)
\* A step is nobody's, the start of a submission, or a move of one.
LEMMA Steps ==
  [Next]_vars => \/ Idle
                 \/ \E h \in Hosts, x \in Amounts : Submit(h, x)
                 \/ \E a \in Attempts : Moves(a)
BY DEF Next, Idle, Moves

LEMMA ToastsStep ==
  ASSUME TypeOK, TypeOK', JobsPlaced, ToastsAreTrue, [Next]_vars
  PROVE  JobsPlaced' /\ ToastsAreTrue'
<1> DEFINE Fine(j) == /\ j.stage \in Pending \union Following => j.kind \in Kinds
                      /\ j.afloat => j.done = "no"
                      /\ j.stage \in {"refresh", "read"} => j.done = "ok"
                      /\ "success" \in j.told => j.done = "ok"
                      /\ j.done # "no" \/ j.afloat => j.stage \in Following \union {"ended"}
<1> SUFFICES ASSUME NEW b \in Attempts PROVE Fine(job'[b])
  BY DEF JobsPlaced, ToastsAreTrue
<1>1. Fine(job[b])
  BY DEF JobsPlaced, ToastsAreTrue
<1>2. CASE Same(b)
  BY <1>1, <1>2 DEF Same, Alike
<1>3. CASE Idle
  BY <1>2, <1>3, NobodyMoves
<1>4. ASSUME NEW h \in Hosts, NEW x \in Amounts, Submit(h, x) PROVE Fine(job'[b])
  <2>1. modal[h].kind \in Kinds
    BY <1>4 DEF Submit, Shows, TypeOK, Modal
  <2> QED BY <1>1, <1>4, <2>1, Submission
<1>5. ASSUME NEW a \in Attempts, Moves(a) PROVE Fine(job'[b])
  <2>1. CASE b # a
    BY <1>2, <1>5, <2>1, OthersStay
  <2>2. CASE b = a
    <3>1. CASE Throws(a)
      BY <1>1, <2>2, <3>1, ThrowsFacts
    <3>2. CASE Check(a) \/ Simulate(a) \/ Prepare(a) \/ Sign(a)
      BY <1>1, <2>2, <3>2, EarlyMoves DEF Check, Simulate, Prepare, Sign, Carries, Payload
    <3>3. CASE Deliver(a)
      BY <1>1, <2>2, <3>3, LateMoves DEF Deliver
    <3>4. CASE Broadcasted(a) \/ ReadBalance(a) \/ Refreshed(a)
      BY <1>1, <2>2, <3>4, LateMoves DEF Broadcasted, ReadBalance, Refreshed, Carries, Payload
    <3> QED
      BY <1>5, <3>1, <3>2, <3>3, <3>4
      DEF Moves, Returns, NotSigned, NotBroadcasted, NotRefreshed
  <2> QED BY <2>1, <2>2
<1> QED BY <1>3, <1>4, <1>5, Steps

Executes(a) == Deliver(a) /\ chain'.sequence = chain.sequence + 1

\* Only the execution of a transaction changes the account on the chain.
LEMMA ChainStays ==
  ASSUME TypeOK, [Next]_vars
  PROVE  \/ chain' = chain
         \/ \E a \in Attempts : Executes(a)
<1>1. CASE Idle
  BY <1>1 DEF Idle, Open, Close, Leave, ValidatorComes, Disconnect, Dropped, Reconnect,
              NewContext, vars
<1>2. ASSUME NEW h \in Hosts, NEW x \in Amounts, Submit(h, x) PROVE chain' = chain
  BY <1>2 DEF Submit
<1>3. ASSUME NEW a \in Attempts, Moves(a)
      PROVE  (chain' = chain) \/ Executes(a)
  <2>1. CASE Deliver(a)
    <3>1. AfterFee(chain).sequence = chain.sequence + 1
      BY DEF AfterFee
    <3> QED BY <2>1, <3>1 DEF Executes, Deliver, Effect
  <2>2. CASE Check(a) \/ Simulate(a) \/ Prepare(a) \/ NotSigned(a) \/ Sign(a)
    BY <2>2 DEF Check, Simulate, Prepare, NotSigned, Sign
  <2>3. CASE Returns(a)
    BY <2>3 DEF Returns, Broadcasted, NotBroadcasted, ReadBalance, NotRefreshed, Refreshed
  <2> QED BY <1>3, <2>1, <2>2, <2>3 DEF Moves
<1> QED BY <1>1, <1>2, <1>3, Steps

LEMMA SimulatedStep ==
  ASSUME TypeOK, TypeOK', ToastsAreTrue, Simulated, [Next]_vars
  PROVE  Simulated'
<1> DEFINE Good(j, c) ==
      j.stage \in {"prepare", "sign"} \/ j.afloat =>
        /\ j.simulatedAt <= c.sequence
        /\ j.simulatedAt = c.sequence => Runs(j.kind, j.amount, c)
<1> SUFFICES ASSUME NEW b \in Attempts PROVE Good(job'[b], chain')
  BY DEF Simulated
<1>0. job[b] \in Job /\ job[b].simulatedAt \in Nat /\ chain.sequence \in Nat
  BY DEF TypeOK, Job
<1>1. Good(job[b], chain)
  BY DEF Simulated
<1>2. CASE Same(b)
  <2>1. CASE chain' = chain
    BY <1>1, <1>2, <2>1 DEF Same, Alike
  <2>2. CASE chain'.sequence = chain.sequence + 1
    BY <1>0, <1>1, <1>2, <2>2 DEF Same, Alike
  <2> QED BY <2>1, <2>2, ChainStays DEF Executes
<1>3. CASE Idle
  BY <1>2, <1>3, NobodyMoves
<1>4. ASSUME NEW h \in Hosts, NEW x \in Amounts, Submit(h, x) PROVE Good(job'[b], chain')
  <2>1. chain' = chain
    BY <1>4 DEF Submit
  <2> QED BY <1>1, <1>4, <2>1, Submission
<1>5. ASSUME NEW a \in Attempts, Moves(a) PROVE Good(job'[b], chain')
  <2>1. CASE b # a
    BY <1>2, <1>5, <2>1, OthersStay
  <2>2. CASE b = a
    <3>1. CASE Throws(a) /\ chain' = chain
      BY <1>1, <2>2, <3>1, ThrowsFacts
    <3>2. CASE Check(a)
      BY <2>2, <3>2, EarlyMoves DEF Carries, Check, ToastsAreTrue
    <3>3. CASE Simulate(a)
      <4>1. /\ chain' = chain /\ job'[a].simulatedAt = chain.sequence
            /\ Runs(job'[a].kind, job'[a].amount, chain)
        BY <3>3, EarlyMoves DEF Simulate
      <4> QED BY <1>0, <2>2, <4>1
    <3>4. CASE Prepare(a) \/ Sign(a)
      BY <1>1, <2>2, <3>4, EarlyMoves DEF Prepare, Sign, Payload, Carries
    <3>5. CASE Deliver(a)
      BY <2>2, <3>5, LateMoves DEF Deliver, ToastsAreTrue
    <3>6. CASE Broadcasted(a) \/ ReadBalance(a) \/ Refreshed(a)
      <4>1. chain' = chain
        BY <3>6 DEF Broadcasted, ReadBalance, Refreshed
      <4> QED
        BY <1>1, <2>2, <3>6, <4>1, LateMoves
        DEF Broadcasted, ReadBalance, Refreshed, Carries, Payload
    <3> QED
      BY <1>5, <3>1, <3>2, <3>3, <3>4, <3>5, <3>6
      DEF Moves, Returns, NotSigned, NotBroadcasted, NotRefreshed
  <2> QED BY <2>1, <2>2
<1> QED BY <1>3, <1>4, <1>5, Steps

LEMMA DatedStep ==
  ASSUME TypeOK, TypeOK', Dated, [Next]_vars
  PROVE  Dated'
<1> DEFINE Good(j, c) ==
      j.stage = "read" => /\ j.readAt <= c.sequence
                          /\ j.readAt = c.sequence => j.read = c.funds
<1>0. /\ chain.sequence \in Nat /\ chain'.sequence \in Nat /\ shownAt \in Nat
      /\ \A b \in Attempts : job[b].readAt \in Nat
  BY DEF TypeOK, Job
<1>1. \A b \in Attempts : Good(job[b], chain)
  BY DEF Dated
<1>2. ASSUME NEW b \in Attempts PROVE Good(job'[b], chain')
  <2>1. CASE Same(b)
    <3>1. CASE chain' = chain
      BY <1>1, <2>1, <3>1 DEF Same, Alike
    <3>2. CASE chain'.sequence = chain.sequence + 1
      <4>1. job'[b].stage = job[b].stage /\ job'[b].readAt = job[b].readAt
        BY <2>1 DEF Same, Alike
      <4>2. job[b].stage = "read" => job[b].readAt <= chain.sequence
        BY <1>1
      <4>3. job[b].readAt \in Nat
        BY <1>0
      <4> QED BY <1>0, <3>2, <4>1, <4>2, <4>3
    <3> QED BY <3>1, <3>2, ChainStays DEF Executes
  <2>2. CASE Idle
    BY <2>1, <2>2, NobodyMoves
  <2>3. ASSUME NEW h \in Hosts, NEW x \in Amounts, Submit(h, x) PROVE Good(job'[b], chain')
    <3>1. chain' = chain
      BY <2>3 DEF Submit
    <3> QED BY <1>1, <2>3, <3>1, Submission
  <2>4. ASSUME NEW a \in Attempts, Moves(a), b = a PROVE Good(job'[b], chain')
    <3>1. CASE Throws(a)
      BY <2>4, <3>1, ThrowsFacts
    <3>2. CASE Check(a) \/ Simulate(a) \/ Prepare(a) \/ Sign(a)
      BY <2>4, <3>2, EarlyMoves
    <3>3. CASE Deliver(a)
      <4>1. chain'.sequence = chain.sequence + 1 \/ chain' = chain
        BY ChainStays DEF Executes
      <4> QED BY <1>0, <1>1, <2>4, <3>3, <4>1, LateMoves
    <3>4. CASE ReadBalance(a)
      <4>1. chain' = chain
        BY <3>4 DEF ReadBalance
      <4> QED BY <1>0, <2>4, <3>4, <4>1, LateMoves
    <3>5. CASE Broadcasted(a) \/ Refreshed(a)
      BY <2>4, <3>5, LateMoves
    <3> QED
      BY <2>4, <3>1, <3>2, <3>3, <3>4, <3>5
      DEF Moves, Returns, NotSigned, NotBroadcasted, NotRefreshed
  <2> QED BY <2>1, <2>2, <2>3, <2>4, OthersStay, Steps
<1>3. /\ shownAt' <= chain'.sequence
      /\ shownAt' = chain'.sequence => shown' = chain'.funds
  <2>1. CASE UNCHANGED <<shown, shownAt>>
    BY <1>0, <2>1, ChainStays DEF Dated, Executes
  <2>2. CASE Reconnect
    BY <1>0, <2>2 DEF Reconnect, NewContext
  <2>3. ASSUME NEW a \in Attempts, Refreshed(a)
        PROVE  /\ shownAt' <= chain'.sequence
               /\ shownAt' = chain'.sequence => shown' = chain'.funds
    BY <1>1, <2>3 DEF Refreshed
  <2>4. \/ UNCHANGED <<shown, shownAt>> \/ Reconnect \/ \E a \in Attempts : Refreshed(a)
    <3>1. CASE Idle
      BY <3>1 DEF Idle, Open, Close, Leave, ValidatorComes, Disconnect, Dropped, account, vars
    <3>2. ASSUME NEW h \in Hosts, NEW x \in Amounts, Submit(h, x)
          PROVE  UNCHANGED <<shown, shownAt>>
      BY <3>2 DEF Submit, account
    <3>3. ASSUME NEW a \in Attempts, Moves(a), ~Refreshed(a)
          PROVE  UNCHANGED <<shown, shownAt>>
      BY <3>3 DEF Moves, Check, Simulate, Prepare, NotSigned, Sign, Deliver, Returns, Broadcasted,
           NotBroadcasted, ReadBalance, NotRefreshed, account
    <3> QED BY <3>1, <3>2, <3>3, Steps
  <2> QED BY <2>1, <2>2, <2>3, <2>4
<1> QED BY <1>2, <1>3 DEF Dated

LEMMA FollowedStep ==
  ASSUME TypeOK, TypeOK', JobsPlaced, ToastsAreTrue, Dated, Followed, [Next]_vars
  PROVE  Followed'
<1> SUFFICES ASSUME IsConnected', ~missed', shownAt' # chain'.sequence
             PROVE  \E b \in Attempts : WillShow(b)'
  BY DEF Followed
<1>0. /\ chain.sequence \in Nat /\ chain'.sequence \in Nat /\ shownAt \in Nat
      /\ missed \in BOOLEAN /\ missed' \in BOOLEAN
      /\ \A b \in Attempts : job[b] \in Job /\ job[b].readAt \in Nat
  BY DEF TypeOK, Job
\* A submission that is not moved keeps its promise while nothing executes.
<1>1. ASSUME NEW b \in Attempts, WillShow(b), Same(b), chain' = chain
      PROVE  WillShow(b)'
  BY <1>1 DEF WillShow, Same, Alike
<1>2. CASE Idle
  <2>1. ~Reconnect
    BY <1>2 DEF Reconnect, NewContext, IsConnected
  <2>2. UNCHANGED <<chain, shownAt, missed>> /\ IsConnected
    BY <1>2, <2>1 DEF Idle, Open, Close, Leave, ValidatorComes, Disconnect, Dropped,
         NewContext, account, vars, IsConnected
  <2>3. PICK b \in Attempts : WillShow(b)
    BY <2>2 DEF Followed
  <2> QED BY <1>1, <1>2, <2>2, <2>3, NobodyMoves
<1>3. ASSUME NEW h \in Hosts, NEW x \in Amounts, Submit(h, x)
      PROVE  \E b \in Attempts : WillShow(b)'
  <2>1. UNCHANGED <<chain, shownAt, missed, wallet>>
    BY <1>3 DEF Submit, account
  <2>2. PICK b \in Attempts : WillShow(b)
    BY <2>1 DEF Followed, IsConnected
  <2>3. job[b].stage # "unused"
    BY <2>2 DEF WillShow
  <2>4. job'[b] = job[b]
    BY <1>3, <2>3, Submission
  <2> QED BY <2>1, <2>2, <2>4 DEF WillShow
<1>4. ASSUME NEW a \in Attempts, Moves(a)
      PROVE  \E b \in Attempts : WillShow(b)'
  <2>1. wallet' = wallet
    BY <1>4 DEF Moves, Check, Simulate, Prepare, NotSigned, Sign, Deliver, Returns, Broadcasted,
         NotBroadcasted, ReadBalance, NotRefreshed, Refreshed, account
  <2>2. CASE Deliver(a)
    <3>1. job[a].stage # "ended" /\ job[a].afloat
      BY <2>2 DEF Deliver
    <3>2. job[a].stage \in {"broadcast", "refresh"}
      BY <3>1 DEF Deliver, ToastsAreTrue, JobsPlaced
    <3> QED BY <2>2, <3>2, LateMoves DEF WillShow
  <2>3. ASSUME UNCHANGED <<chain, shownAt>>, ~missed, ~WillShow(a)
        PROVE  \E b \in Attempts : WillShow(b)'
    <3>1. PICK b \in Attempts : WillShow(b)
      BY <2>1, <2>3 DEF Followed, IsConnected
    <3> QED BY <1>1, <1>4, <2>3, <3>1, OthersStay
  <2>4. CASE Check(a) \/ Simulate(a) \/ Prepare(a) \/ NotSigned(a) \/ Sign(a)
    BY <2>3, <2>4 DEF Check, Simulate, Prepare, NotSigned, Sign, account, WillShow
  <2>5. CASE Broadcasted(a) \/ ReadBalance(a)
    <3>1. chain' = chain
      BY <2>5 DEF Broadcasted, ReadBalance
    <3> QED BY <2>5, <3>1, LateMoves DEF WillShow
  <2>6. CASE NotBroadcasted(a)
    <3>1. missed' = (missed \/ job[a].done # "no")
      BY <2>6 DEF NotBroadcasted
    <3>2. ~missed /\ job[a].done = "no"
      BY <3>1, Zenon
    <3> QED BY <2>3, <2>6, <3>2 DEF NotBroadcasted, account, WillShow
  <2>7. CASE NotRefreshed(a)
    BY <2>7 DEF NotRefreshed
  <2>8. CASE Refreshed(a)
    <3>0. missed' = (missed \/ job[a].readAt < shownAt)
      BY <2>8 DEF Refreshed
    <3>1. /\ job[a].stage = "read" /\ chain' = chain /\ shownAt' = job[a].readAt
          /\ ~missed /\ ~(job[a].readAt < shownAt)
      BY <2>8, <3>0, Zenon DEF Refreshed
    <3>2. job[a].readAt # chain.sequence /\ job[a].readAt <= chain.sequence
      BY <3>1 DEF Dated
    <3>3. shownAt # chain.sequence
      BY <1>0, <3>1, <3>2
    <3>4. ~WillShow(a)
      BY <3>1, <3>2 DEF WillShow
    <3>5. PICK b \in Attempts : WillShow(b)
      BY <2>1, <3>1, <3>3 DEF Followed, IsConnected
    <3> QED BY <1>1, <1>4, <3>1, <3>4, <3>5, OthersStay
  <2> QED BY <1>4, <2>2, <2>4, <2>5, <2>6, <2>7, <2>8 DEF Moves, Returns
<1> QED BY <1>2, <1>3, <1>4, Steps

(***************************************************************************)
(* Modals and the submissions they wait for                                *)
(***************************************************************************)
\* A step is gentle to a submission when it does not take its modal away
\* without abandoning it, and to a modal when it keeps it with the
\* submission it waits for, or leaves one that waits for none.
GentleTo(b) ==
  job'[b].stage \in Pending =>
    /\ job[b].stage \in Pending /\ job'[b].kind = job[b].kind
    /\ job[b].abandoned => job'[b].abandoned
    /\ ~job'[b].abandoned =>
         /\ job'[b].here = job[b].here
         /\ modal'[HostOf(job[b].kind)].asked = modal[HostOf(job[b].kind)].asked

GentleAt(h) ==
  \/ /\ modal'[h].asked = None
     /\ modal'[h].kind # None => HostOf(modal'[h].kind) = h
  \/ /\ modal'[h] = modal[h]
     /\ modal[h].asked # None =>
          /\ job'[modal[h].asked].stage \in Pending /\ job'[modal[h].asked].here
          /\ Shows(h)'

LEMMA Gentle ==
  ASSUME TypeOK, ModalsPlaced, ConfirmationHasPrompt, Held,
         \A b \in Attempts : GentleTo(b), \A h \in Hosts : GentleAt(h)
  PROVE  ModalsPlaced' /\ ConfirmationHasPrompt' /\ Held'
<1>1. ModalsPlaced'
  BY DEF GentleAt, ModalsPlaced
<1>2. ConfirmationHasPrompt'
  <2> SUFFICES ASSUME NEW h \in Hosts, modal'[h].asked # None
               PROVE  (/\ modal[h].step = "sign" /\ Prompted(modal[h].asked, h)
                       /\ job[modal[h].asked].kind = modal[h].kind)'
    BY DEF ConfirmationHasPrompt
  <2>1. modal'[h] = modal[h] /\ GentleAt(h)
    BY DEF GentleAt
  <2>2. /\ modal[h].step = "sign" /\ Prompted(modal[h].asked, h)
        /\ job[modal[h].asked].kind = modal[h].kind
    BY <2>1 DEF ConfirmationHasPrompt
  <2>3. modal[h].asked \in Attempts
    BY <2>1 DEF TypeOK, Modal
  <2>4. GentleTo(modal[h].asked)
    BY <2>3
  <2> QED BY <2>1, <2>2, <2>4 DEF GentleAt, GentleTo, Prompted
<1>3. Held'
  <2> SUFFICES ASSUME NEW b \in Attempts, job'[b].stage \in Pending, ~job'[b].abandoned
               PROVE  job'[b].here /\ modal'[HostOf(job'[b].kind)].asked = b
    BY DEF Held
  <2>1. GentleTo(b)
    OBVIOUS
  <2> QED BY <2>1 DEF GentleTo, Held
<1> QED BY <1>1, <1>2, <1>3

\* A modal that waits for a signature waits for one submission, and no
\* other modal waits for it.
LEMMA Asked ==
  ASSUME TypeOK, ConfirmationHasPrompt, NEW h \in Hosts, modal[h].asked # None
  PROVE  /\ modal[h].asked \in Attempts /\ modal[h].step = "sign"
         /\ job[modal[h].asked].stage \in Pending /\ job[modal[h].asked].here
         /\ HostOf(job[modal[h].asked].kind) = h
BY DEF TypeOK, Modal, ConfirmationHasPrompt, Prompted

LEMMA ClosedFields == Closed.kind = None /\ Closed.asked = None /\ Closed.step = "details"
BY DEF Closed

LEMMA ThrowsGentle ==
  ASSUME TypeOK, TypeOK', ModalsPlaced, ConfirmationHasPrompt, Held,
         NEW a \in Attempts, Throws(a), data' = data
  PROVE  ModalsPlaced' /\ ConfirmationHasPrompt' /\ Held'
<1>1. ASSUME NEW b \in Attempts PROVE GentleTo(b)
  <2>1. CASE b = a
    BY <2>1, ThrowsFacts DEF GentleTo
  <2>2. CASE b # a
    <3>1. /\ Same(b) /\ job'[b].here = job[b].here
          /\ job'[b].abandoned <=>
               \/ job[b].abandoned
               \/ /\ job[a].here /\ b = modal[HostOf(job[a].kind)].asked
                  /\ job[b].stage \in Pending
      BY <2>2, ThrowsFacts
    <3>2. ASSUME job'[b].stage \in Pending, ~job'[b].abandoned
          PROVE  modal'[HostOf(job[b].kind)].asked = modal[HostOf(job[b].kind)].asked
      <4>1. modal[HostOf(job[b].kind)].asked = b
        BY <3>1, <3>2 DEF Same, Alike, Held
      <4>2. job[a].here => HostOf(job[b].kind) # HostOf(job[a].kind)
        BY <3>1, <3>2, <4>1 DEF Same, Alike
      <4> QED BY <4>2, HostType DEF Throws, CloseModal, TypeOK
    <3> QED BY <3>1, <3>2 DEF GentleTo, Same, Alike
  <2> QED BY <2>1, <2>2
<1>2. ASSUME NEW h \in Hosts PROVE GentleAt(h)
  <2>1. CASE job[a].here /\ h = HostOf(job[a].kind)
    <3>1. modal'[h] = Closed
      BY <2>1 DEF Throws, CloseModal, TypeOK
    <3> QED BY <3>1, ClosedFields DEF GentleAt
  <2>2. CASE ~(job[a].here /\ h = HostOf(job[a].kind))
    <3>1. modal'[h] = modal[h]
      BY <2>2 DEF Throws, CloseModal, TypeOK
    <3>2. ASSUME modal[h].asked # None
          PROVE  /\ job'[modal[h].asked].stage \in Pending /\ job'[modal[h].asked].here
                 /\ Shows(h)'
      <4>1. modal[h].asked # a
        BY <2>2, <3>2, Asked
      <4>2. Same(modal[h].asked) /\ job'[modal[h].asked].here = job[modal[h].asked].here
        BY <3>2, <4>1, Asked, ThrowsFacts
      <4> QED BY <3>1, <3>2, <4>2, Asked DEF Same, Alike, ModalsPlaced, Shows
    <3> QED BY <3>1, <3>2 DEF GentleAt
  <2> QED BY <2>1, <2>2
<1> QED BY <1>1, <1>2, Gentle

\* A step that leaves the modals and the screen's data alone, and moves no
\* submission out of its wait for a signature or into it.
LEMMA QuietGentle ==
  ASSUME TypeOK, ModalsPlaced, ConfirmationHasPrompt, Held,
         UNCHANGED modal,
         data = "loaded" => data' = "loaded",
         \A b \in Attempts :
           \/ job'[b] = job[b]
           \/ job[b].stage \notin Pending /\ job'[b].stage \notin Pending
           \/ /\ job[b].stage \in Pending /\ job'[b].kind = job[b].kind
              /\ job'[b].here = job[b].here /\ job'[b].abandoned = job[b].abandoned
              /\ job'[b].stage \in Pending
  PROVE  ModalsPlaced' /\ ConfirmationHasPrompt' /\ Held'
<1>1. ASSUME NEW b \in Attempts PROVE GentleTo(b)
  BY DEF GentleTo
<1>2. ASSUME NEW h \in Hosts PROVE GentleAt(h)
  <2>1. CASE modal[h].asked = None
    BY <2>1 DEF GentleAt, ModalsPlaced
  <2>2. CASE modal[h].asked # None
    <3>1. Shows(h)'
      BY <2>2 DEF ModalsPlaced, Shows
    <3> QED BY <2>2, <3>1, Asked DEF GentleAt
  <2> QED BY <2>1, <2>2
<1> QED BY <1>1, <1>2, Gentle

LEMMA CloseGentle ==
  ASSUME TypeOK, TypeOK', ModalsPlaced, ConfirmationHasPrompt, Held,
         NEW h \in Hosts, Close(h)
  PROVE  ModalsPlaced' /\ ConfirmationHasPrompt' /\ Held'
<1> DEFINE As == {modal[h].asked}
<1>0. job \in [Attempts -> Job] /\ job' = Abandon(job, As) /\ data' = data
  BY DEF Close, TypeOK, view
<1>1. ASSUME NEW b \in Attempts PROVE GentleTo(b)
  <2>1. /\ Alike(job'[b], job[b]) /\ job'[b].here = job[b].here
        /\ job'[b].abandoned <=> job[b].abandoned \/ (b \in As /\ job[b].stage \in Pending)
    <3> HIDE DEF As
    <3> QED BY <1>0, AbandonFacts
  <2>2. ASSUME job'[b].stage \in Pending, ~job'[b].abandoned
        PROVE  modal'[HostOf(job[b].kind)].asked = modal[HostOf(job[b].kind)].asked
    <3>1. modal[HostOf(job[b].kind)].asked = b /\ b # modal[h].asked
      BY <2>1, <2>2 DEF Alike, Held
    <3> QED BY <3>1, HostType DEF Close, TypeOK
  <2> QED BY <2>1, <2>2 DEF GentleTo, Alike
<1>2. ASSUME NEW g \in Hosts PROVE GentleAt(g)
  <2>1. CASE g = h
    BY <2>1, ClosedFields DEF GentleAt, Close, TypeOK
  <2>2. CASE g # h
    <3>1. modal'[g] = modal[g]
      BY <2>2 DEF Close, TypeOK
    <3>2. ASSUME modal[g].asked # None
          PROVE  job'[modal[g].asked].stage \in Pending /\ job'[modal[g].asked].here /\ Shows(g)'
      <4>1. Alike(job'[modal[g].asked], job[modal[g].asked])
              /\ job'[modal[g].asked].here = job[modal[g].asked].here
        <5> HIDE DEF As
        <5> QED BY <1>0, <3>2, Asked, AbandonFacts
      <4> QED BY <1>0, <3>1, <3>2, <4>1, Asked DEF Alike, ModalsPlaced, Shows
    <3> QED BY <3>1, <3>2 DEF GentleAt, ModalsPlaced
  <2> QED BY <2>1, <2>2
<1> QED BY <1>1, <1>2, Gentle

LEMMA SignGentle ==
  ASSUME TypeOK, TypeOK', ModalsPlaced, ConfirmationHasPrompt, Held,
         NEW a \in Attempts, Sign(a)
  PROVE  ModalsPlaced' /\ ConfirmationHasPrompt' /\ Held'
<1> DEFINE As == IF job[a].here THEN {modal[HostOf(job[a].kind)].asked} \ {a} ELSE {}
<1>0. job \in [Attempts -> Job] /\ job'[a].stage = "broadcast" /\ data' = data
  BY EarlyMoves DEF Sign, TypeOK, view
<1>1. ASSUME NEW b \in Attempts, b # a
      PROVE  /\ Alike(job'[b], job[b]) /\ job'[b].here = job[b].here
             /\ job'[b].abandoned <=> job[b].abandoned \/ (b \in As /\ job[b].stage \in Pending)
  <2>1. job'[b] = Abandon(job, As)[b]
    BY <1>1 DEF Sign, Abandon
  <2> HIDE DEF As
  <2> QED BY <1>0, <1>1, <2>1, AbandonFacts
<1>2. ASSUME NEW b \in Attempts PROVE GentleTo(b)
  <2>1. CASE b = a
    BY <1>0, <2>1 DEF GentleTo
  <2>2. CASE b # a
    <3>1. ASSUME job'[b].stage \in Pending, ~job'[b].abandoned
          PROVE  modal'[HostOf(job[b].kind)].asked = modal[HostOf(job[b].kind)].asked
      <4>1. modal[HostOf(job[b].kind)].asked = b
        BY <1>1, <2>2, <3>1 DEF Alike, Held
      <4>2. job[a].here => HostOf(job[b].kind) # HostOf(job[a].kind)
        BY <1>1, <2>2, <3>1, <4>1 DEF Alike
      <4> QED BY <4>2, HostType DEF Sign, CloseModal, TypeOK
    <3> QED BY <1>1, <2>2, <3>1 DEF GentleTo, Alike
  <2> QED BY <2>1, <2>2
<1>3. ASSUME NEW h \in Hosts PROVE GentleAt(h)
  <2>1. CASE job[a].here /\ h = HostOf(job[a].kind)
    <3>1. modal'[h] = Closed
      BY <2>1 DEF Sign, CloseModal, TypeOK
    <3> QED BY <3>1, ClosedFields DEF GentleAt
  <2>2. CASE ~(job[a].here /\ h = HostOf(job[a].kind))
    <3>1. modal'[h] = modal[h]
      BY <2>2 DEF Sign, CloseModal, TypeOK
    <3>2. ASSUME modal[h].asked # None
          PROVE  /\ job'[modal[h].asked].stage \in Pending /\ job'[modal[h].asked].here
                 /\ Shows(h)'
      <4>1. modal[h].asked # a
        BY <2>2, <3>2, Asked
      <4>2. Alike(job'[modal[h].asked], job[modal[h].asked])
              /\ job'[modal[h].asked].here = job[modal[h].asked].here
        BY <1>1, <3>2, <4>1, Asked
      <4> QED BY <1>0, <3>1, <3>2, <4>2, Asked DEF Alike, ModalsPlaced, Shows
    <3> QED BY <3>1, <3>2 DEF GentleAt, ModalsPlaced
  <2> QED BY <2>1, <2>2
<1> QED BY <1>2, <1>3, Gentle

\* Another wallet context, after at most one submission has ended.
LEMMA RemountGentle ==
  ASSUME TypeOK, TypeOK', ModalsPlaced, ConfirmationHasPrompt, Held,
         NEW j \in [Attempts -> Job],
         \A b \in Attempts :
           j[b] = job[b] \/ (job[b].stage \notin Pending /\ j[b].stage \notin Pending),
         modal' = Remounted(modal), job' = Abandon(j, Uncovered), screen' = screen,
         data' = IF Refetches THEN "loading" ELSE data
  PROVE  ModalsPlaced' /\ ConfirmationHasPrompt' /\ Held'
<1>1. CASE ~Refetches
  <2>1. modal' = modal /\ data' = data
    BY <1>1 DEF Remounted
  <2>2. ASSUME NEW b \in Attempts
        PROVE  Alike(job'[b], j[b]) /\ job'[b].here = j[b].here
                 /\ job'[b].abandoned = j[b].abandoned
    <3>1. Uncovered = {}
      BY <1>1 DEF Uncovered
    <3>2. j[b].abandoned \in BOOLEAN
      BY DEF Job
    <3> QED BY <3>1, <3>2, AbandonFacts
  <2> QED BY <2>1, <2>2, QuietGentle DEF Alike
<1>2. CASE Refetches
  <2>1. /\ modal'["provider"] = modal["provider"]
        /\ modal'["screen"].asked = None /\ modal'["screen"].kind = modal["screen"].kind
    BY <1>2 DEF Remounted, TypeOK, Modal
  <2>2. ASSUME NEW b \in Attempts
        PROVE  /\ Alike(job'[b], j[b]) /\ job'[b].here = j[b].here
               /\ job'[b].abandoned <=>
                    j[b].abandoned \/ (b = modal["screen"].asked /\ j[b].stage \in Pending)
    <3>1. Uncovered = {modal["screen"].asked}
      BY <1>2 DEF Uncovered
    <3> QED BY <3>1, AbandonFacts
  <2>3. ASSUME NEW b \in Attempts PROVE GentleTo(b)
    <3>1. ASSUME job'[b].stage \in Pending PROVE j[b] = job[b]
      BY <2>2, <3>1 DEF Alike
    <3>2. ASSUME job'[b].stage \in Pending, ~job'[b].abandoned
          PROVE  modal'[HostOf(job[b].kind)].asked = modal[HostOf(job[b].kind)].asked
      <4>1. modal[HostOf(job[b].kind)].asked = b /\ modal["screen"].asked # b
        BY <2>2, <3>1, <3>2 DEF Alike, Held
      <4> QED BY <2>1, <4>1, HostType
    <3> QED BY <2>2, <3>1, <3>2 DEF GentleTo, Alike
  <2>4. ASSUME NEW h \in Hosts PROVE GentleAt(h)
    <3>1. CASE h = "screen"
      BY <2>1, <3>1 DEF GentleAt, ModalsPlaced
    <3>2. CASE h = "provider"
      <4>1. ASSUME modal[h].asked # None
            PROVE  /\ job'[modal[h].asked].stage \in Pending /\ job'[modal[h].asked].here
                   /\ Shows(h)'
        <5>1. j[modal[h].asked] = job[modal[h].asked]
          BY <4>1, Asked
        <5>2. modal[h].kind \notin ValidatorKinds
          BY <3>2, <4>1 DEF ModalsPlaced, Shows, HostOf, ProviderKinds, ValidatorKinds
        <5> QED BY <2>1, <2>2, <3>2, <4>1, <5>1, <5>2, Asked DEF Alike, ModalsPlaced, Shows
      <4> QED BY <2>1, <3>2, <4>1 DEF GentleAt
    <3> QED BY <3>1, <3>2
  <2> QED BY <2>3, <2>4, Gentle
<1> QED BY <1>1, <1>2

\* Another screen, after at most one submission has ended.
LEMMA LeavingGentle ==
  ASSUME TypeOK, TypeOK', ModalsPlaced, ConfirmationHasPrompt, Held,
         NEW j \in [Attempts -> Job],
         \A b \in Attempts :
           j[b] = job[b] \/ (job[b].stage \notin Pending /\ j[b].stage \notin Pending),
         NEW s \in Screens, GoTo(s), job' = Leaving(j)
  PROVE  ModalsPlaced' /\ ConfirmationHasPrompt' /\ Held'
<1>1. modal'["provider"] = modal["provider"] /\ modal'["screen"] = Closed
  BY DEF GoTo, TypeOK
<1>2. ASSUME NEW b \in Attempts
      PROVE  /\ Alike(job'[b], j[b])
             /\ job'[b].here <=> j[b].here /\ HostOf(j[b].kind) # "screen"
             /\ job'[b].abandoned
                  <=> \/ j[b].abandoned
                      \/ j[b].here /\ HostOf(j[b].kind) = "screen" /\ j[b].stage \in Pending
  BY LeavingFacts
<1>3. ASSUME NEW b \in Attempts PROVE GentleTo(b)
  <2>1. ASSUME job'[b].stage \in Pending
        PROVE  j[b] = job[b] /\ job'[b].here \in BOOLEAN /\ job[b].here \in BOOLEAN
    BY <1>2, <2>1 DEF Alike, TypeOK, Job
  <2>2. ASSUME job'[b].stage \in Pending, ~job'[b].abandoned
        PROVE  /\ job'[b].here = job[b].here
               /\ modal'[HostOf(job[b].kind)].asked = modal[HostOf(job[b].kind)].asked
    <3>1. job[b].here
      BY <1>2, <2>1, <2>2 DEF Alike, Held
    <3>2. HostOf(job[b].kind) = "provider"
      BY <1>2, <2>1, <2>2, <3>1, HostType DEF Alike
    <3> QED BY <1>1, <1>2, <2>1, <2>2, <3>1, <3>2
  <2> QED BY <1>2, <2>1, <2>2 DEF GentleTo, Alike
<1>4. ASSUME NEW h \in Hosts PROVE GentleAt(h)
  <2>1. CASE h = "screen"
    BY <1>1, <2>1, ClosedFields DEF GentleAt
  <2>2. CASE h = "provider"
    <3>1. ASSUME modal[h].asked # None
          PROVE  /\ job'[modal[h].asked].stage \in Pending /\ job'[modal[h].asked].here
                 /\ Shows(h)'
      <4>1. j[modal[h].asked] = job[modal[h].asked]
        BY <3>1, Asked
      <4>2. modal[h].kind \notin ValidatorKinds
        BY <2>2, <3>1 DEF ModalsPlaced, Shows, HostOf, ProviderKinds, ValidatorKinds
      <4> QED BY <1>1, <1>2, <2>2, <3>1, <4>1, <4>2, Asked DEF Alike, ModalsPlaced, Shows
    <3> QED BY <1>1, <2>2, <3>1 DEF GentleAt, ModalsPlaced
  <2> QED BY <2>1, <2>2
<1> QED BY <1>3, <1>4, Gentle

LEMMA OpenGentle ==
  ASSUME TypeOK, TypeOK', ModalsPlaced, ConfirmationHasPrompt, Held,
         NEW kind \in Kinds, Open(kind)
  PROVE  ModalsPlaced' /\ ConfirmationHasPrompt' /\ Held'
<1>1. job' = job /\ \A h \in Hosts : modal[h].asked = None
  BY DEF Open, ModalsPlaced
<1>2. /\ modal'[HostOf(kind)].kind = kind /\ modal'[HostOf(kind)].asked = None
      /\ \A h \in Hosts : h # HostOf(kind) => modal'[h] = modal[h]
  BY HostType DEF Open, Closed, TypeOK
<1>3. ASSUME NEW b \in Attempts PROVE GentleTo(b)
  BY <1>1, <1>2, HostType DEF GentleTo
<1>4. ASSUME NEW h \in Hosts PROVE GentleAt(h)
  BY <1>1, <1>2 DEF GentleAt, ModalsPlaced
<1> QED BY <1>3, <1>4, Gentle

LEMMA SubmitGentle ==
  ASSUME TypeOK, TypeOK', ModalsPlaced, ConfirmationHasPrompt, Held,
         NEW h \in Hosts, NEW x \in Amounts, Submit(h, x)
  PROVE  ModalsPlaced' /\ ConfirmationHasPrompt' /\ Held'
<1>0. /\ modal[h].asked = None /\ data' = data
      /\ modal[h].kind # None /\ modal[h].kind \in Kinds /\ Shows(h)
      /\ modal \in [Hosts -> Modal] /\ modal[h] \in Modal
  BY Asked DEF Submit, Shows, TypeOK, Modal, view
<1>1. CASE UNCHANGED job /\ modal' = [modal EXCEPT ![h].step = "sign"]
  <2>1. \A g \in Hosts : modal'[g].asked = modal[g].asked /\ modal'[g].kind = modal[g].kind
    BY <1>0, <1>1 DEF Modal
  <2>2. \A g \in Hosts : g # h => modal'[g] = modal[g]
    BY <1>0, <1>1
  <2>3. ASSUME NEW b \in Attempts PROVE GentleTo(b)
    BY <1>1, <2>1, HostType DEF GentleTo
  <2>4. ASSUME NEW g \in Hosts PROVE GentleAt(g)
    <3>1. Shows(g) => Shows(g)'
      BY <1>0, <2>1 DEF Shows
    <3> QED BY <1>0, <1>1, <2>1, <2>2, <3>1, Asked DEF GentleAt, ModalsPlaced
  <2> QED BY <2>3, <2>4, Gentle
<1>2. ASSUME NEW a \in Attempts, job[a].stage = "unused",
             \A b \in Attempts \ {a} : job'[b] = job[b],
             job'[a].stage \in {"check", "simulate"}, job'[a].kind = modal[h].kind,
             job'[a].here, ~job'[a].abandoned,
             modal' = [modal EXCEPT ![h].step = "sign", ![h].asked = a]
      PROVE  ModalsPlaced' /\ ConfirmationHasPrompt' /\ Held'
  <2>1. /\ modal'[h].kind = modal[h].kind /\ modal'[h].step = "sign" /\ modal'[h].asked = a
        /\ \A g \in Hosts : g # h => modal'[g] = modal[g]
    BY <1>0, <1>2 DEF Modal
  <2>2. HostOf(modal[h].kind) = h
    BY <1>0 DEF ModalsPlaced
  <2>3. \A g \in Hosts : Shows(g) => Shows(g)'
    BY <1>0, <2>1 DEF Shows
  <2>4. ModalsPlaced'
    BY <1>0, <2>1, <2>2, <2>3 DEF ModalsPlaced
  <2>5. ConfirmationHasPrompt'
    <3> SUFFICES ASSUME NEW g \in Hosts, modal'[g].asked # None
                 PROVE  (/\ modal[g].step = "sign" /\ Prompted(modal[g].asked, g)
                         /\ job[modal[g].asked].kind = modal[g].kind)'
      BY DEF ConfirmationHasPrompt
    <3>1. CASE g = h
      BY <1>2, <2>1, <2>2, <3>1 DEF Prompted
    <3>2. CASE g # h
      <4>1. modal'[g] = modal[g]
        BY <2>1, <3>2
      <4>2. job'[modal[g].asked] = job[modal[g].asked]
        BY <1>2, <4>1, Asked
      <4> QED BY <4>1, <4>2 DEF ConfirmationHasPrompt, Prompted
    <3> QED BY <3>1, <3>2
  <2>6. Held'
    <3> SUFFICES ASSUME NEW b \in Attempts, job'[b].stage \in Pending, ~job'[b].abandoned
                 PROVE  job'[b].here /\ modal'[HostOf(job'[b].kind)].asked = b
      BY DEF Held
    <3>1. CASE b = a
      BY <1>2, <2>1, <2>2, <3>1
    <3>2. CASE b # a
      <4>1. job'[b] = job[b]
        BY <1>2, <3>2
      <4>2. job[b].here /\ modal[HostOf(job[b].kind)].asked = b
        BY <4>1 DEF Held
      <4>3. HostOf(job[b].kind) # h
        BY <1>0, <4>2, AttemptsType
      <4> QED BY <2>1, <4>1, <4>2, <4>3, HostType
    <3> QED BY <3>1, <3>2
  <2> QED BY <2>4, <2>5, <2>6
<1> QED BY <1>1, <1>2, Submission

LEMMA ModalsStep ==
  ASSUME TypeOK, TypeOK', ModalsPlaced, ConfirmationHasPrompt, Held, ToastsAreTrue, [Next]_vars
  PROVE  ModalsPlaced' /\ ConfirmationHasPrompt' /\ Held'
<1>0. job \in [Attempts -> Job]
  BY DEF TypeOK
<1>1. CASE Idle
  <2>1. CASE ValidatorComes \/ Disconnect \/ UNCHANGED vars
    BY <2>1, QuietGentle DEF ValidatorComes, Disconnect, account, view, vars
  <2>2. CASE Dropped \/ Reconnect
    BY <1>0, <2>2, RemountGentle DEF Dropped, Reconnect, NewContext
  <2>3. ASSUME NEW s \in Screens, Leave(s) PROVE ModalsPlaced' /\ ConfirmationHasPrompt' /\ Held'
    BY <1>0, <2>3, LeavingGentle DEF Leave
  <2> QED BY <1>1, <2>1, <2>2, <2>3, OpenGentle, CloseGentle DEF Idle
<1>2. ASSUME NEW a \in Attempts, Moves(a)
      PROVE  ModalsPlaced' /\ ConfirmationHasPrompt' /\ Held'
  <2>0. job[a] \in Job
    BY <1>0
  <2>1. CASE Throws(a) /\ UNCHANGED view
    BY <2>1, ThrowsGentle DEF view
  <2>2. CASE Check(a) \/ Simulate(a) \/ Prepare(a)
    <3>1. job'[a].here = job[a].here /\ job'[a].abandoned = job[a].abandoned
      BY <1>0, <2>0, <2>2 DEF Check, Simulate, Prepare, Job
    <3>2. \A b \in Attempts \ {a} : job'[b] = job[b]
      BY <1>0, <2>2 DEF Check, Simulate, Prepare
    <3>3. /\ job[a].stage \in Pending /\ job'[a].stage \in Pending
          /\ job'[a].kind = job[a].kind /\ UNCHANGED modal /\ data' = data
      BY <2>2, EarlyMoves DEF Payload, Check, Simulate, Prepare, view
    <3> QED BY <3>1, <3>2, <3>3, QuietGentle
  <2>3. CASE Sign(a)
    BY <2>3, SignGentle
  <2>4. CASE Deliver(a) \/ Broadcasted(a) \/ ReadBalance(a)
    <3>1. \A b \in Attempts \ {a} : job'[b] = job[b]
      BY <1>0, <2>4 DEF Deliver, Broadcasted, ReadBalance
    <3>2. job[a].stage \notin Pending
      BY <2>4 DEF Deliver, Broadcasted, ReadBalance, ToastsAreTrue
    <3>3. job'[a].stage \notin Pending
      BY <2>4, <3>2, LateMoves
    <3>4. UNCHANGED modal /\ data' = data
      BY <2>4 DEF Deliver, Broadcasted, ReadBalance, view
    <3> QED BY <3>1, <3>2, <3>3, <3>4, QuietGentle
  <2>5. CASE Refreshed(a)
    <3> DEFINE ended == [job EXCEPT ![a] = Ended(@)]
    <3>1. ended \in [Attempts -> Job]
      BY <1>0, <2>0, EndedJob
    <3>2. ended[a].stage = "ended" /\ job[a].stage \notin Pending
      BY <1>0, <2>0, <2>5, EndedFields DEF Refreshed
    <3>3. \A b \in Attempts : ended[b] = job[b]
                               \/ (job[b].stage \notin Pending /\ ended[b].stage \notin Pending)
      BY <1>0, <3>2
    <3>4. \/ GoTo("other") /\ job' = Leaving(ended)
          \/ /\ modal' = Remounted(modal) /\ job' = Abandon(ended, Uncovered)
             /\ screen' = screen /\ data' = IF Refetches THEN "loading" ELSE data
      BY <2>5 DEF Refreshed
    <3> HIDE DEF ended
    <3> QED BY <3>1, <3>3, <3>4, LeavingGentle, RemountGentle
  <2> QED
    BY <1>2, <2>1, <2>2, <2>3, <2>4, <2>5
    DEF Moves, Returns, NotSigned, NotBroadcasted, NotRefreshed
<1> QED BY <1>1, <1>2, SubmitGentle, Steps

(***************************************************************************)
(* The invariant and what follows from it                                  *)
(***************************************************************************)
LEMMA InvInit == Init => IInv
<1> SUFFICES ASSUME Init PROVE IInv
  OBVIOUS
<1>1. TypeOK
  BY TypeInit
<1>2. \A h \in Hosts : modal[h].kind = None /\ modal[h].asked = None
  BY ClosedFields DEF Init
<1>3. \A a \in Attempts : /\ job[a].stage = "unused" /\ ~job[a].afloat
                          /\ job[a].done = "no" /\ job[a].told = {}
  BY DEF Init, Unused
<1>4. shownAt = chain.sequence /\ shown = chain.funds /\ chain.sequence = 0
  BY DEF Init
<1> QED
  BY <1>1, <1>2, <1>3, <1>4
  DEF IInv, Placed, ModalsPlaced, JobsPlaced, ConfirmationHasPrompt, Held, ToastsAreTrue,
      Simulated, Dated, Followed

\* The modals and the submissions they wait for, the outcomes told, and the
\* balance shown agree as IInv says, whatever is typed, charged or owned.
THEOREM Invariance == Spec => []IInv
<1>1. IInv /\ [Next]_vars => IInv'
  BY TypeStep, ModalsStep, ToastsStep, SimulatedStep, DatedStep, FollowedStep DEF IInv, Placed
<1> QED BY <1>1, InvInit, PTL DEF Spec

\* No ending of any submission leaves a modal that asks to confirm in the
\* wallet what the wallet does not ask.
THEOREM Confirmations == Spec => []ConfirmationHasPrompt
<1>1. IInv => ConfirmationHasPrompt
  BY DEF IInv
<1> QED BY <1>1, Invariance, PTL

\* Of two submissions that wait for a signature for one host, one was
\* abandoned.
THEOREM Prompts == Spec => []OnePrompt
<1>1. IInv => OnePrompt
  BY DEF IInv, Held, OnePrompt, Prompted
<1> QED BY <1>1, Invariance, PTL

\* Success is told only of what the chain has executed, and nothing is
\* executed before it is signed.
THEOREM Toasts == Spec => []ToastsAreTrue
<1>1. IInv => ToastsAreTrue
  BY DEF IInv
<1> QED BY <1>1, Invariance, PTL

\* The balance shown is the chain's once every submission has ended, unless
\* a charge had no refresh or a refresh was overtaken.
THEOREM Balances == Spec => []BalanceFollows
<1>1. IInv => BalanceFollows
  BY DEF IInv, Dated, Followed, WillShow, BalanceFollows
<1> QED BY <1>1, Invariance, PTL

\* What the wallet was asked to sign fails on the chain for the fee alone, when
\* nothing else was executed between its simulation and its signature.
THEOREM Failures == Spec => OnlyTheFeeFails
<1> DEFINE Fails(a) == /\ job[a].done = "no" /\ job'[a].done = "failed"
                       /\ job[a].simulatedAt = job[a].signedAt
           ForTheFee(a) == /\ Runs(job[a].kind, job[a].amount, chain)
                           /\ ~Runs(job[a].kind, job[a].amount, AfterFee(chain))
<1>1. IInv /\ IInv' /\ [Next]_vars =>
        [\A a \in Attempts :
           /\ job[a].done = "no" /\ job'[a].done = "failed"
           /\ job[a].simulatedAt = job[a].signedAt
           => /\ Runs(job[a].kind, job[a].amount, chain)
              /\ ~Runs(job[a].kind, job[a].amount, AfterFee(chain))]_vars
  <2> SUFFICES ASSUME IInv, IInv', [Next]_vars, NEW a \in Attempts, Fails(a)
               PROVE  ForTheFee(a)
    OBVIOUS
  <2>1. TypeOK /\ TypeOK'
    BY DEF IInv
  <2>2. ~Same(a)
    BY DEF Same, Alike
  <2>3. ~Idle
    BY <2>1, <2>2, NobodyMoves
  <2>4. ASSUME NEW h \in Hosts, NEW x \in Amounts PROVE ~Submit(h, x)
    BY <2>1, Submission
  <2>5. Moves(a)
    BY <2>1, <2>2, <2>3, <2>4, OthersStay, Steps
  <2>6. Deliver(a)
    BY <2>1, <2>5, EarlyMoves, LateMoves, ThrowsFacts
    DEF Moves, Returns, NotSigned, NotBroadcasted, NotRefreshed, Carries
  <2>7. Runs(job[a].kind, job[a].amount, chain)
    BY <2>6 DEF IInv, Simulated, Deliver
  <2>8. ~Runs(job[a].kind, job[a].amount, AfterFee(chain))
    <3>1. CASE Runs(job[a].kind, job[a].amount, AfterFee(chain))
      <4>1. job' = [job EXCEPT ![a].afloat = FALSE, ![a].done = "ok"]
        BY <2>6, <3>1 DEF Deliver
      <4>2. job \in [Attempts -> Job] /\ job[a] \in Job
        BY <2>1 DEF TypeOK
      <4>3. job'[a] = [job[a] EXCEPT !.afloat = FALSE, !.done = "ok"]
        BY <4>1, <4>2
      <4>4. job'[a].done = "ok"
        BY <4>2, <4>3 DEF Job
      <4> QED BY <4>4
    <3> QED BY <3>1
  <2> QED BY <2>7, <2>8
<1> QED BY <1>1, Invariance, PTL DEF Spec, OnlyTheFeeFails

LEMMA RemountedKinds ==
  ASSUME NEW m \in [Hosts -> Modal], NEW h \in Hosts
  PROVE  Remounted(m)[h].kind = m[h].kind
<1>1. m["screen"] \in Modal
  OBVIOUS
<1>2. [m["screen"] EXCEPT !.step = "details", !.asked = None].kind = m["screen"].kind
  BY <1>1 DEF Modal
<1> QED BY <1>2 DEF Remounted

\* Only a submission that was abandoned, or fails after its signature,
\* closes a form that is being filled in.
THEOREM Forms == Spec => FormSurvives
<1> DEFINE Closes(a, h) == /\ modal[h].kind # None /\ modal[h].step = "details"
                           /\ modal'[h].kind = None /\ screen' = screen
                           /\ job'[a].stage # job[a].stage
           Late(a) == job[a].stage \in Following /\ "error" \in job'[a].told
<1>1. IInv /\ IInv' /\ [Next]_vars =>
        [\A h \in Hosts : \A a \in Attempts :
           /\ modal[h].kind # None /\ modal[h].step = "details"
           /\ modal'[h].kind = None /\ screen' = screen
           /\ job'[a].stage # job[a].stage
           => job[a].abandoned \/ (job[a].stage \in Following /\ "error" \in job'[a].told)]_vars
  <2> SUFFICES ASSUME IInv, IInv', [Next]_vars, NEW h \in Hosts, NEW a \in Attempts,
                      Closes(a, h), ~job[a].abandoned
               PROVE  Late(a)
    OBVIOUS
  <2>1. TypeOK /\ TypeOK' /\ modal \in [Hosts -> Modal] /\ job[a] \in Job
    BY DEF IInv, TypeOK
  <2>2. ~Same(a)
    BY DEF Same, Alike
  <2>3. ~Idle
    BY <2>1, <2>2, NobodyMoves
  <2>4. ASSUME NEW g \in Hosts, NEW x \in Amounts PROVE ~Submit(g, x)
    BY <2>1, Submission DEF Modal
  <2>5. Moves(a)
    BY <2>1, <2>2, <2>3, <2>4, OthersStay, Steps
  <2>6. modal'[h] # modal[h]
    OBVIOUS
  <2>7. ~Refreshed(a)
    <3> SUFFICES ASSUME Refreshed(a) PROVE FALSE
      OBVIOUS
    <3>1. modal'[h].kind = modal[h].kind \/ screen' # screen
      <4>1. CASE GoTo("other") /\ screen # "other"
        BY <4>1 DEF GoTo
      <4>2. CASE modal' = Remounted(modal)
        BY <2>1, <4>2, RemountedKinds
      <4> QED BY <4>1, <4>2 DEF Refreshed
    <3> QED BY <3>1
  <2>8. CASE modal' = CloseModal(a, job)
    <3>1. h = HostOf(job[a].kind) /\ job[a].here
      BY <2>1, <2>6, <2>8, HostType DEF CloseModal
    <3>2. job[a].stage \notin Pending
      <4>1. job[a].stage \in Pending => modal[h].asked = a
        BY <3>1 DEF IInv, Held
      <4>2. a # None
        BY AttemptsType
      <4>3. modal[h].asked # None => modal[h].step = "sign"
        BY <2>1, Asked DEF IInv
      <4> QED BY <4>1, <4>2, <4>3
    <3>3. NotBroadcasted(a) \/ NotRefreshed(a)
      BY <2>5, <2>6, <2>7, <3>2
      DEF Moves, Check, Simulate, Prepare, NotSigned, Sign, Deliver, Returns, Broadcasted, ReadBalance
    <3> QED BY <2>1, <3>3, ThrowsFacts DEF NotBroadcasted, NotRefreshed
  <2>9. modal' = CloseModal(a, job)
    BY <2>5, <2>6, <2>7
    DEF Moves, Check, Simulate, Prepare, NotSigned, Sign, Deliver, Returns, Broadcasted,
        NotBroadcasted, ReadBalance, NotRefreshed, Throws
  <2> QED BY <2>8, <2>9
<1> QED BY <1>1, Invariance, PTL DEF Spec, FormSurvives
=============================================================================
