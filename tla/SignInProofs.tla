---------------------------- MODULE SignInProofs ----------------------------
(***************************************************************************)
(* Proofs about SignIn, for any accounts, tabs and mutations, with or      *)
(* without losses.                                                         *)
(***************************************************************************)
EXTENDS SignIn, TLAPS

USE NoneIsNoAccount, BoundsType

\* A slot no mutation uses.
LEMMA NoOpType == NoOp \in Op /\ NoOp.stage = "idle"
  BY DEF NoOp, Op, Stage, Address, Number

\* The types hold in every reachable state.
THEOREM Typing == Spec => []TypeOK
<1>1. Init => TypeOK
  <2> SUFFICES ASSUME Init PROVE TypeOK
    OBVIOUS
  <2>1. op \in [Mutations -> Op] /\ \A m \in Mutations : op[m].stage = "idle"
    BY NoOpType DEF Init
  <2>2. account \in [Tabs -> Address] /\ loggingIn \in [Tabs -> BOOLEAN]
    BY DEF Init, Address
  <2>3. status \in [Tabs -> {"Idle", "Connecting", "Connected"}]
    BY DEF Init
  <2> QED BY <2>1, <2>2, <2>3 DEF Init, TypeOK, Address, Number
<1>2. TypeOK /\ [Next]_vars => TypeOK'
  <2> SUFFICES ASSUME TypeOK, [Next]_vars PROVE TypeOK'
    OBVIOUS
  <2> USE DEF TypeOK, Address, Number, keplr, cookies, wallet
  <2>1. ASSUME NEW t \in Tabs, Connect(t) \/ ConnectFails(t) PROVE TypeOK'
    BY <2>1 DEF Connect, ConnectFails
  <2>2. ASSUME NEW t \in Tabs, Connected(t) PROVE TypeOK'
    BY <2>2 DEF Connected
  <2>3. ASSUME NEW t \in Tabs, Disconnect(t) PROVE TypeOK'
    BY <2>3 DEF Disconnect, Logout, VerificationDue
  <2>4. CASE SelectAccount
    BY <2>4 DEF SelectAccount, Logout, VerificationDue
  <2>5. ASSUME NEW q \in calls, Arrives(q) PROVE TypeOK'
    <3>1. CASE LogoutArrives(q)
      BY <3>1 DEF LogoutArrives
    <3>2. CASE ValidateArrives(q)
      BY <3>2 DEF ValidateArrives
    <3>3. CASE RefreshArrives(q)
      BY <3>3 DEF RefreshArrives
    <3>4. CASE CallLost(q)
      BY <3>4 DEF CallLost
    <3> QED BY <2>5, <3>1, <3>2, <3>3, <3>4 DEF Arrives
  <2>6. ASSUME NEW m \in Mutations, NEW t \in Tabs, Mutate(m, t) PROVE TypeOK'
    <3>1. [NoOp EXCEPT !.stage = "sent", !.tab = t, !.cookie = session] \in Op
      BY NoOpType DEF Op, Stage
    <3> QED BY <2>6, <3>1 DEF Mutate
  <2>7. ASSUME NEW m \in Mutations, Progress(m) PROVE TypeOK'
    <3>0. op[m] \in Op
      OBVIOUS
    <3>1. CASE MutationEnds(m) \/ SignInFails(m)
      <4>1. op' = [op EXCEPT ![m] = NoOp]
        BY <3>1 DEF MutationEnds, SignInFails, Ends
      <4>2. op' \in [Mutations -> Op]
        BY <4>1, NoOpType
      <4>3. \A n \in Mutations : op'[n].stage = "idle" \/ op'[n].tab \in Tabs
        BY <4>1, NoOpType
      <4>4. loggingIn' \in [Tabs -> BOOLEAN]
        BY <3>1 DEF MutationEnds, SignInFails
      <4> QED BY <3>1, <4>2, <4>3, <4>4 DEF MutationEnds, SignInFails
    <3>2. CASE StartSignIn(m)
      <4>1. [op[m] EXCEPT !.stage = "nonce", !.address = account[op[m].tab]] \in Op
        <5>1. op[m].tab \in Tabs
          BY <3>2 DEF StartSignIn
        <5> QED BY <3>0, <5>1 DEF Op, Stage
      <4>2. op[m].tab \in Tabs /\ op[m].stage = "sent"
        BY <3>2 DEF StartSignIn
      <4>3. CASE status[op[m].tab] = "Connected"
        <5> DEFINE new == [op[m] EXCEPT !.stage = "nonce",
                                        !.address = account[op[m].tab]]
        <5>1. op' = [op EXCEPT ![m] = new]
          BY <3>2, <4>3 DEF StartSignIn
        <5>2. new \in Op /\ new.tab = op[m].tab
          BY <3>0, <4>1
        <5> HIDE DEF new
        <5>3. /\ op' \in [Mutations -> Op]
              /\ \A n \in Mutations : op'[n].stage = "idle" \/ op'[n].tab \in Tabs
          BY <4>2, <5>1, <5>2
        <5> QED BY <3>2, <4>2, <4>3, <5>3 DEF StartSignIn
      <4>4. CASE status[op[m].tab] # "Connected"
        BY <3>2, <4>4, NoOpType DEF StartSignIn, Ends
      <4> QED BY <4>3, <4>4
    <3>3. CASE NonceArrives(m)
      <4>1. issued' \in Nat
        BY <3>3 DEF NonceArrives
      <4>2. [op[m] EXCEPT !.stage = "sign", !.nonce = issued'] \in Op
        BY <3>0, <4>1 DEF Op, Stage
      <4> QED BY <3>3, <4>1, <4>2 DEF NonceArrives
    <3>4. CASE Approve(m)
      <4>1. [op[m] EXCEPT !.stage = "verify", !.jar = nonce] \in Op
        BY <3>0 DEF Op, Stage
      <4> QED BY <3>4, <4>1 DEF Approve
    <3>5. CASE VerifyArrives(m)
      <4>1. session' \in Address /\ nonce' \in Number
        BY <3>0, <3>5 DEF VerifyArrives, Op
      <4>2. [op[m] EXCEPT !.stage = "resent", !.cookie = session'] \in Op
        BY <3>0, <4>1 DEF Op, Stage
      <4> QED BY <3>5, <4>1, <4>2 DEF VerifyArrives
    <3> QED BY <2>7, <3>1, <3>2, <3>3, <3>4, <3>5 DEF Progress
  <2>8. CASE SessionExpires \/ NonceExpires
    BY <2>8 DEF SessionExpires, NonceExpires
  <2>9. CASE UNCHANGED vars
    BY <2>9 DEF vars
  <2> QED
    BY <2>1, <2>2, <2>3, <2>4, <2>5, <2>6, <2>7, <2>8, <2>9 DEF Next
<1> QED BY <1>1, <1>2, PTL DEF Spec

\* Steps that leave the mutations and isLoggingIn alone.
LEMMA OtherSteps ==
  ASSUME NEW t \in Tabs,
         \/ Connect(t) \/ Connected(t) \/ ConnectFails(t) \/ Disconnect(t)
         \/ SelectAccount \/ SessionExpires \/ NonceExpires
         \/ (\E q \in calls : Arrives(q)) \/ UNCHANGED vars
  PROVE  UNCHANGED <<op, loggingIn>>
  BY DEF Connect, Connected, ConnectFails, Disconnect, SelectAccount, SessionExpires,
         NonceExpires, Arrives, LogoutArrives, ValidateArrives, RefreshArrives,
         CallLost, vars

\* A mutation that moves within, into or out of a sign-in of its tab keeps the
\* flag of the tab right, provided it sets the flag when it enters and clears it
\* when it leaves.
LEMMA FlagStep ==
  ASSUME TypeOK, OneSignInPerTab, NEW m \in Mutations, NEW new \in Op,
         op' = [op EXCEPT ![m] = new], NEW t \in Tabs,
         op[m].tab = t, new.stage \in SigningIn => new.tab = t,
         loggingIn' = [loggingIn EXCEPT ![t] = new.stage \in SigningIn],
         op[m].stage \in SigningIn \/ ~loggingIn[t]
  PROVE  OneSignInPerTab'
<1> SUFFICES ASSUME NEW u \in Tabs
             PROVE  LET signing == {n \in Mutations :
                                      op'[n].tab = u /\ op'[n].stage \in SigningIn} IN
                    /\ loggingIn'[u] <=> signing # {}
                    /\ \A k, n \in signing : k = n
  BY DEF OneSignInPerTab
<1>0. op'[m] = new /\ \A n \in Mutations \ {m} : op'[n] = op[n]
  BY DEF TypeOK
<1>1. CASE u = t
  <2>1. \A n \in Mutations \ {m} : ~(op[n].tab = t /\ op[n].stage \in SigningIn)
    BY DEF OneSignInPerTab
  <2>2. loggingIn'[t] = (new.stage \in SigningIn)
    BY DEF TypeOK
  <2> QED BY <1>0, <1>1, <2>1, <2>2
<1>2. CASE u # t
  <2>1. loggingIn'[u] = loggingIn[u]
    BY <1>2 DEF TypeOK
  <2>2. ~(op'[m].tab = u /\ op'[m].stage \in SigningIn)
    BY <1>0, <1>2
  <2>3. ~(op[m].tab = u /\ op[m].stage \in SigningIn)
    BY <1>2
  <2> QED BY <1>0, <2>1, <2>2, <2>3 DEF OneSignInPerTab
<1> QED BY <1>1, <1>2

\* A mutation that is not signing in and does not start to leaves the flags right.
LEMMA NoFlagStep ==
  ASSUME TypeOK, OneSignInPerTab, NEW m \in Mutations, NEW new \in Op,
         op' = [op EXCEPT ![m] = new], UNCHANGED loggingIn,
         op[m].stage \notin SigningIn, new.stage \notin SigningIn
  PROVE  OneSignInPerTab'
  BY DEF TypeOK, OneSignInPerTab

\* Every step of a mutation keeps the flags right.
LEMMA ProgressFlag ==
  ASSUME TypeOK, OneSignInPerTab, NEW m \in Mutations, Progress(m)
  PROVE  OneSignInPerTab'
<1>0. op[m] \in Op /\ (op[m].stage # "idle" => op[m].tab \in Tabs)
  BY DEF TypeOK
<1>1. CASE MutationEnds(m)
  BY <1>1, NoOpType, NoFlagStep DEF MutationEnds, Ends, SigningIn
<1>2. CASE StartSignIn(m)
  <2> DEFINE t == op[m].tab
             new == [op[m] EXCEPT !.stage = "nonce", !.address = account[t]]
  <2>1. t \in Tabs /\ op[m].stage = "sent"
    BY <1>0, <1>2 DEF StartSignIn
  <2>2. CASE status[t] = "Connected"
    <3>1. account[t] \in Address
      BY <2>1 DEF TypeOK
    <3>2. new \in Op /\ new.stage = "nonce" /\ new.tab = t
      BY <1>0, <3>1 DEF Op, Stage
    <3>3. loggingIn' = [loggingIn EXCEPT ![t] = TRUE] /\ op' = [op EXCEPT ![m] = new]
      BY <1>2, <2>2 DEF StartSignIn
    <3>4. ~loggingIn[t]
      BY <1>2 DEF StartSignIn
    <3>5. (new.stage \in SigningIn) = TRUE
      BY <3>2 DEF SigningIn
    <3> HIDE DEF new
    <3> QED BY <2>1, <3>2, <3>3, <3>4, <3>5, FlagStep
  <2>3. CASE status[t] # "Connected"
    BY <1>2, <2>1, <2>3, NoOpType, NoFlagStep DEF StartSignIn, Ends, SigningIn
  <2> QED BY <2>2, <2>3
<1>3. CASE NonceArrives(m) \/ Approve(m)
  <2>1. PICK new \in Op : /\ op' = [op EXCEPT ![m] = new]
                          /\ new.stage \in SigningIn /\ new.tab = op[m].tab
    <3>1. CASE NonceArrives(m)
      <4> DEFINE new == [op[m] EXCEPT !.stage = "sign", !.nonce = issued']
      <4>1. issued' \in Nat
        BY <3>1 DEF NonceArrives, TypeOK
      <4>2. new \in Op /\ new.stage = "sign" /\ new.tab = op[m].tab
        BY <1>0, <4>1 DEF Op, Stage, Number
      <4> QED BY <3>1, <4>2 DEF NonceArrives, SigningIn
    <3>2. CASE Approve(m)
      <4> DEFINE new == [op[m] EXCEPT !.stage = "verify", !.jar = nonce]
      <4>1. new \in Op /\ new.stage = "verify" /\ new.tab = op[m].tab
        BY <1>0 DEF Op, Stage, TypeOK
      <4> QED BY <3>2, <4>1 DEF Approve, SigningIn
    <3> QED BY <1>3, <3>1, <3>2
  <2>2. op[m].stage \in SigningIn /\ UNCHANGED loggingIn
    BY <1>3 DEF NonceArrives, Approve, SigningIn
  <2>3. \A n \in Mutations : /\ op'[n].tab = op[n].tab
                             /\ (op'[n].stage \in SigningIn) = (op[n].stage \in SigningIn)
    BY <2>1, <2>2 DEF TypeOK
  <2> QED BY <2>2, <2>3 DEF OneSignInPerTab
<1>4. CASE SignInFails(m)
  <2>1. op[m].stage \in SigningIn
    BY <1>4 DEF SignInFails, SigningIn
  <2>2. op[m].tab \in Tabs
    BY <1>0, <2>1 DEF SigningIn
  <2>3. (NoOp.stage \in SigningIn) = FALSE
    BY NoOpType DEF SigningIn
  <2>4. loggingIn' = [loggingIn EXCEPT ![op[m].tab] = NoOp.stage \in SigningIn]
    BY <1>4, <2>3 DEF SignInFails
  <2> QED BY <1>4, <2>1, <2>2, <2>3, <2>4, NoOpType, FlagStep DEF SignInFails, Ends
<1>5. CASE VerifyArrives(m)
  <2> DEFINE new == [op[m] EXCEPT !.stage = "resent", !.cookie = session']
  <2>1. session' \in Address
    BY <1>0, <1>5 DEF VerifyArrives, TypeOK, Op
  <2>2. new \in Op /\ new.stage = "resent"
    BY <1>0, <2>1 DEF Op, Stage
  <2>3. op[m].stage \in SigningIn /\ op[m].tab \in Tabs
    BY <1>0, <1>5 DEF VerifyArrives, SigningIn
  <2>4. (new.stage \in SigningIn) = FALSE
    BY <2>2 DEF SigningIn
  <2>5. loggingIn' = [loggingIn EXCEPT ![op[m].tab] = FALSE]
        /\ op' = [op EXCEPT ![m] = new]
    BY <1>5 DEF VerifyArrives
  <2> HIDE DEF new
  <2> QED BY <2>2, <2>3, <2>4, <2>5, FlagStep
<1> QED BY <1>1, <1>2, <1>3, <1>4, <1>5 DEF Progress

\* In a tab at most one mutation signs in, exactly while isLoggingIn is set.
THEOREM OneSignIn == Spec => []OneSignInPerTab
<1>1. Init => OneSignInPerTab
  BY NoOpType DEF Init, OneSignInPerTab, SigningIn
<1>2. TypeOK /\ OneSignInPerTab /\ [Next]_vars => OneSignInPerTab'
  <2> SUFFICES ASSUME TypeOK, OneSignInPerTab, [Next]_vars, NEW t \in Tabs
               PROVE  OneSignInPerTab'
    BY DEF OneSignInPerTab
  <2>1. CASE UNCHANGED <<op, loggingIn>>
    BY <2>1 DEF OneSignInPerTab
  <2>2. ASSUME NEW m \in Mutations, NEW u \in Tabs, Mutate(m, u)
        PROVE  OneSignInPerTab'
    <3> DEFINE new == [NoOp EXCEPT !.stage = "sent", !.tab = u, !.cookie = session]
    <3>1. new \in Op /\ new.stage = "sent"
      BY NoOpType DEF Op, Stage, TypeOK
    <3>2. op' = [op EXCEPT ![m] = new] /\ op[m].stage = "idle" /\ UNCHANGED loggingIn
      BY <2>2 DEF Mutate
    <3> HIDE DEF new
    <3> QED BY <3>1, <3>2, NoFlagStep DEF SigningIn
  <2>3. ASSUME NEW m \in Mutations, Progress(m) PROVE OneSignInPerTab'
    BY <2>3, ProgressFlag
  <2> QED BY <2>1, <2>2, <2>3, OtherSteps DEF Next
<1> QED BY <1>1, <1>2, Typing, PTL DEF Spec

\* With one tab open the nonce the user signs is the one in the cookie, unless
\* it has expired.
THEOREM NonceKept ==
  ASSUME \A t, u \in Tabs : t = u
  PROVE  Spec => []NonceUndisturbed
<1>1. Init => NonceUndisturbed
  BY NoOpType DEF Init, NonceUndisturbed
<1>2. TypeOK /\ OneSignInPerTab /\ NonceUndisturbed /\ [Next]_vars => NonceUndisturbed'
  <2> SUFFICES ASSUME TypeOK, OneSignInPerTab, NonceUndisturbed, [Next]_vars,
                      NEW n \in Mutations
               PROVE  /\ op'[n].stage = "sign" => nonce' \in {None, op'[n].nonce}
                      /\ op'[n].stage = "verify" => op'[n].jar \in {None, op'[n].nonce}
    BY DEF NonceUndisturbed
  <2>0. op[n] \in Op /\ op \in [Mutations -> Op]
    BY DEF TypeOK
  <2>1. CASE op' = op /\ nonce' \in {None, nonce}
    BY <2>1 DEF NonceUndisturbed
  <2>2. ASSUME NEW m \in Mutations, NEW t \in Tabs, Mutate(m, t)
        PROVE  /\ op'[n].stage \notin {"sign", "verify"} \/ op'[n] = op[n]
               /\ nonce' = nonce
    BY <2>0, <2>2, NoOpType DEF Mutate, cookies, NoOp
  <2>3. ASSUME NEW m \in Mutations, MutationEnds(m) \/ SignInFails(m) \/ StartSignIn(m)
        PROVE  /\ op'[n].stage \notin {"sign", "verify"} \/ op'[n] = op[n]
               /\ nonce' = nonce
    <3>1. op[m] \in Op
      BY <2>0
    <3>2. CASE MutationEnds(m) \/ SignInFails(m)
      BY <2>0, <3>2, NoOpType DEF MutationEnds, SignInFails, Ends, cookies
    <3>3. CASE StartSignIn(m)
      <4> DEFINE started == [op[m] EXCEPT !.stage = "nonce", !.address = account[op[m].tab]]
      <4>1. started.stage = "nonce"
        BY <3>1 DEF Op
      <4>2. op' = [op EXCEPT ![m] = started] \/ op' = [op EXCEPT ![m] = NoOp]
        BY <3>3 DEF StartSignIn, Ends
      <4> HIDE DEF started
      <4>3. op'[n] \in {started, NoOp, op[n]}
        BY <2>0, <4>2
      <4> QED BY <3>3, <4>1, <4>3, NoOpType DEF StartSignIn, cookies
    <3> QED BY <2>3, <3>2, <3>3
  <2>4. ASSUME NEW m \in Mutations, NonceArrives(m)
        PROVE  /\ op'[n].stage = "sign" => nonce' \in {None, op'[n].nonce}
               /\ op'[n].stage = "verify" => op'[n].jar \in {None, op'[n].nonce}
    <3>1. CASE n = m
      BY <2>0, <2>4, <3>1 DEF NonceArrives, Op
    <3>2. CASE n # m
      <4>1. op[m].stage = "nonce" /\ op'[n] = op[n]
        BY <2>0, <2>4, <3>2 DEF NonceArrives
      <4>2. op[n].stage \notin SigningIn
        BY <3>2, <4>1 DEF OneSignInPerTab, TypeOK, SigningIn
      <4> QED BY <4>1, <4>2 DEF SigningIn
    <3> QED BY <3>1, <3>2
  <2>5. ASSUME NEW m \in Mutations, Approve(m)
        PROVE  /\ op'[n].stage = "sign" => nonce' \in {None, op'[n].nonce}
               /\ op'[n].stage = "verify" => op'[n].jar \in {None, op'[n].nonce}
    <3>1. CASE n = m
      BY <2>0, <2>5, <3>1 DEF Approve, Op, NonceUndisturbed
    <3>2. CASE n # m
      BY <2>0, <2>5, <3>2 DEF Approve, NonceUndisturbed, cookies
    <3> QED BY <3>1, <3>2
  <2>6. ASSUME NEW m \in Mutations, VerifyArrives(m)
        PROVE  /\ op'[n].stage \notin {"sign", "verify"} \/ op'[n] = op[n]
               /\ nonce' \in {None, nonce}
    BY <2>0, <2>6 DEF VerifyArrives, Op
  <2>7. ASSUME \/ \E t \in Tabs : Connect(t) \/ Connected(t) \/ ConnectFails(t) \/ Disconnect(t)
               \/ SelectAccount \/ SessionExpires \/ NonceExpires
               \/ (\E q \in calls : Arrives(q)) \/ UNCHANGED vars
        PROVE  op' = op /\ nonce' \in {None, nonce}
    BY <2>7 DEF Connect, Connected, ConnectFails, Disconnect, SelectAccount,
       SessionExpires, NonceExpires, Arrives, LogoutArrives, ValidateArrives,
       RefreshArrives, CallLost, vars, cookies
  <2>8. ASSUME op'[n].stage \notin {"sign", "verify"} \/ op'[n] = op[n],
               nonce' \in {None, nonce}
        PROVE  /\ op'[n].stage = "sign" => nonce' \in {None, op'[n].nonce}
               /\ op'[n].stage = "verify" => op'[n].jar \in {None, op'[n].nonce}
    BY <2>8 DEF NonceUndisturbed
  <2> QED BY <2>1, <2>2, <2>3, <2>4, <2>5, <2>6, <2>7, <2>8 DEF Next, Progress
<1> QED BY <1>1, <1>2, Typing, OneSignIn, PTL DEF Spec

\* Steps that keep a verification's account and send or answer no request.
LEMMA FollowsQuiet ==
  ASSUME Follows, UNCHANGED <<calls, overtaken, status, account, selected>>,
         session' \in {None, selected, session},
         \A m \in Mutations : op'[m].stage = "verify" => op'[m].address = selected
                                                      \/ op'[m] = op[m]
  PROVE  Follows'
  BY DEF Follows, LogoutDue, Validating

\* Every step of a mutation leaves a session of the selected account, or as it was.
LEMMA FollowsProgress ==
  ASSUME TypeOK, Follows, NEW m \in Mutations, Progress(m)
  PROVE  Follows'
<1>0. op[m] \in Op /\ op \in [Mutations -> Op]
  BY DEF TypeOK
<1>1. CASE MutationEnds(m) \/ SignInFails(m)
  <2>1. op' = [op EXCEPT ![m] = NoOp]
    BY <1>1 DEF MutationEnds, SignInFails, Ends
  <2>2. \A n \in Mutations : op'[n].stage = "verify" => op'[n] = op[n]
    BY <1>0, <2>1, NoOpType
  <2> QED BY <1>1, <2>2, FollowsQuiet DEF MutationEnds, SignInFails, keplr, cookies, wallet
<1>2. CASE StartSignIn(m)
  <2> DEFINE started == [op[m] EXCEPT !.stage = "nonce", !.address = account[op[m].tab]]
  <2>1. started.stage = "nonce"
    BY <1>0 DEF Op
  <2>2. op' = [op EXCEPT ![m] = started] \/ op' = [op EXCEPT ![m] = NoOp]
    BY <1>2 DEF StartSignIn, Ends
  <2> HIDE DEF started
  <2>3. \A n \in Mutations : op'[n].stage = "verify" => op'[n] = op[n]
    BY <1>0, <2>1, <2>2, NoOpType
  <2> QED BY <1>2, <2>3, FollowsQuiet DEF StartSignIn, keplr, cookies, wallet
<1>3. CASE NonceArrives(m)
  <2> DEFINE signing == [op[m] EXCEPT !.stage = "sign", !.nonce = issued']
  <2>1. signing.stage = "sign" /\ op' = [op EXCEPT ![m] = signing]
    BY <1>0, <1>3 DEF Op, NonceArrives
  <2> HIDE DEF signing
  <2>2. \A n \in Mutations : op'[n].stage = "verify" => op'[n] = op[n]
    BY <1>0, <2>1
  <2> QED BY <1>3, <2>2, FollowsQuiet DEF NonceArrives, keplr, wallet
<1>4. CASE Approve(m)
  <2> DEFINE approved == [op[m] EXCEPT !.stage = "verify", !.jar = nonce]
  <2>1. approved.address = selected /\ op' = [op EXCEPT ![m] = approved]
    BY <1>0, <1>4 DEF Op, Approve
  <2> HIDE DEF approved
  <2>2. \A n \in Mutations : op'[n].address = selected \/ op'[n] = op[n]
    BY <1>0, <2>1
  <2> QED BY <1>4, <2>2, FollowsQuiet DEF Approve, keplr, cookies, wallet
<1>5. CASE VerifyArrives(m)
  <2> DEFINE resent == [op[m] EXCEPT !.stage = "resent", !.cookie = session']
  <2>1. resent.stage = "resent" /\ op' = [op EXCEPT ![m] = resent]
    BY <1>0, <1>5 DEF Op, VerifyArrives
  <2> HIDE DEF resent
  <2>2. \A n \in Mutations : op'[n].stage = "verify" => op'[n] = op[n]
    BY <1>0, <2>1
  <2>3. CASE overtaken
    BY <1>5, <2>3 DEF VerifyArrives, Follows
  <2>4. CASE ~overtaken
    <3>1. session' \in {selected, session}
      BY <1>5, <2>4 DEF VerifyArrives, Follows
    <3> QED BY <1>5, <2>2, <3>1, FollowsQuiet DEF VerifyArrives, keplr, wallet
  <2> QED BY <2>3, <2>4
<1> QED BY <1>1, <1>2, <1>3, <1>4, <1>5 DEF Progress

\* The requests of WalletProvider, sent and answered.
LEMMA FollowsCalls ==
  ASSUME TypeOK, Follows, NEW q \in calls, Arrives(q)
  PROVE  Follows'
<1>0. op' = op /\ UNCHANGED selected
  BY DEF Arrives, LogoutArrives, ValidateArrives, RefreshArrives, CallLost, keplr
<1>1. CASE LogoutArrives(q)
  BY <1>0, <1>1 DEF LogoutArrives, Follows
<1>2. CASE ValidateArrives(q)
  <2>1. session' \in {None, session} /\ calls' = calls \ {q}
        /\ UNCHANGED <<status, account, overtaken>>
    BY <1>2 DEF ValidateArrives, wallet
  <2>2. LogoutDue' <=> LogoutDue
    BY <1>2, <2>1 DEF ValidateArrives, LogoutDue
  <2>3. CASE session' = None
    BY <1>0, <2>1, <2>3 DEF Follows
  <2>4. CASE session' # None
    <3>1. session' = session /\ q.cookie \in {None, q.address}
      BY <1>2, <2>1, <2>4 DEF ValidateArrives
    <3>2. ASSUME session \notin {None, selected}, Validating PROVE Validating'
      <4>1. PICK r \in calls : r.kind = "validate" /\ r.cookie = session
                               /\ r.address = selected
        BY <3>2 DEF Validating
      <4>2. r # q
        BY <3>1, <3>2, <4>1
      <4> QED BY <1>0, <2>1, <3>1, <4>1, <4>2 DEF Validating
    <3> QED BY <1>0, <2>1, <2>2, <3>1, <3>2 DEF Follows
  <2> QED BY <2>3, <2>4
<1>3. CASE RefreshArrives(q)
  <2>1. UNCHANGED <<session, status, overtaken>> /\ calls' = calls \ {q} /\ q.kind = "refresh"
    BY <1>3 DEF RefreshArrives, cookies
  <2>2. LogoutDue' <=> LogoutDue
    BY <2>1 DEF LogoutDue
  <2>3. q.tab \in Tabs
    BY DEF TypeOK
  <2>4. ~overtaken /\ session \notin {None, selected} => LogoutDue
    BY <2>1, <2>3 DEF Follows
  <2> QED BY <1>0, <2>1, <2>2, <2>4 DEF Follows
<1>4. CASE CallLost(q)
  <2>1. CASE q.kind = "refresh"
    <3>1. UNCHANGED <<session, status, account>> /\ calls' = calls \ {q}
          /\ (~overtaken' => ~overtaken)
      BY <1>4, <2>1 DEF CallLost, cookies
    <3>2. (LogoutDue' <=> LogoutDue) /\ (Validating' <=> Validating)
      BY <1>0, <2>1, <3>1 DEF LogoutDue, Validating
    <3> QED BY <1>0, <3>1, <3>2 DEF Follows
  <2>2. CASE q.kind # "refresh"
    BY <1>4, <2>2 DEF CallLost, Follows
  <2> QED BY <2>1, <2>2
<1> QED BY <1>1, <1>2, <1>3, <1>4 DEF Arrives

\* Whatever the number of tabs, their logouts and validations leave no session
\* of an account that is not selected, unless a verification or a request was
\* overtaken or lost.
THEOREM SessionIsFollowed == Spec => []SessionFollowsAccount
<1>1. Init => Follows
  BY NoOpType DEF Init, Follows
<1>2. TypeOK /\ Follows /\ [Next]_vars => Follows'
  <2> SUFFICES ASSUME TypeOK, Follows, [Next]_vars PROVE Follows'
    OBVIOUS
  <2>1. ASSUME NEW t \in Tabs, Connect(t) PROVE Follows'
    BY <2>1 DEF Connect, Follows, LogoutDue, Validating, keplr, cookies, TypeOK
  <2>2. ASSUME NEW t \in Tabs, ConnectFails(t) PROVE Follows'
    BY <2>2 DEF ConnectFails, Follows, LogoutDue, Validating, keplr, cookies, TypeOK
  <2>3. ASSUME NEW t \in Tabs, Connected(t) PROVE Follows'
    <3> DEFINE new == [kind |-> "validate", tab |-> t, address |-> account[t],
                       cookie |-> session, at |-> changes]
    <3>1. /\ calls' = calls \union {new}
          /\ UNCHANGED <<selected, session, account, op, overtaken>>
          /\ status[t] = "Connecting"
          /\ \A u \in Tabs : u # t => status'[u] = status[u]
      BY <2>3 DEF Connected, keplr, cookies, TypeOK
    <3>2. /\ new.kind = "validate" /\ new.cookie = session /\ new.address = account[t]
      OBVIOUS
    <3> HIDE DEF new
    <3>3. LogoutDue' <=> LogoutDue
      BY <3>1, <3>2 DEF LogoutDue
    <3>4. Validating => Validating'
      BY <3>1 DEF Validating
    <3>5. account[t] = selected => Validating'
      BY <3>1, <3>2 DEF Validating
    <3> QED BY <3>1, <3>2, <3>3, <3>4, <3>5 DEF Follows
  <2>4. ASSUME NEW t \in Tabs, Disconnect(t) PROVE Follows'
    <3>1. Logout(t, "disconnect") \in calls' /\ Logout(t, "disconnect").kind = "disconnect"
      BY <2>4 DEF Disconnect, Logout
    <3>2. LogoutDue'
      BY <3>1 DEF LogoutDue
    <3>3. UNCHANGED <<op, selected>> /\ (~overtaken' => ~overtaken)
      BY <2>4 DEF Disconnect
    <3> QED BY <3>2, <3>3 DEF Follows
  <2>5. CASE SelectAccount
    <3>1. ASSUME NEW t \in Tabs PROVE LogoutDue'
      <4>1. Logout(t, "logout") \in calls' /\ Logout(t, "logout").kind = "logout"
        BY <2>5 DEF SelectAccount, Logout
      <4> QED BY <4>1 DEF LogoutDue
    <3>2. ~overtaken' => \A m \in Mutations : op'[m].stage # "verify"
      BY <2>5 DEF SelectAccount, VerificationDue
    <3> QED BY <3>1, <3>2 DEF Follows
  <2>6. ASSUME NEW q \in calls, Arrives(q) PROVE Follows'
    BY <2>6, FollowsCalls
  <2>7. ASSUME NEW m \in Mutations, NEW t \in Tabs, Mutate(m, t) PROVE Follows'
    <3> DEFINE new == [NoOp EXCEPT !.stage = "sent", !.tab = t, !.cookie = session]
    <3>1. new.stage = "sent" /\ op' = [op EXCEPT ![m] = new]
      BY <2>7, NoOpType DEF Mutate, Op
    <3> HIDE DEF new
    <3>2. \A n \in Mutations : op'[n].stage = "verify" => op'[n] = op[n]
      BY <3>1 DEF TypeOK
    <3> QED BY <2>7, <3>2, FollowsQuiet DEF Mutate, keplr, cookies, wallet
  <2>8. ASSUME NEW m \in Mutations, Progress(m) PROVE Follows'
    BY <2>8, FollowsProgress
  <2>9. CASE SessionExpires \/ NonceExpires
    BY <2>9, FollowsQuiet DEF SessionExpires, NonceExpires, keplr, wallet
  <2>10. CASE UNCHANGED vars
    BY <2>10, FollowsQuiet DEF vars, keplr, cookies, wallet
  <2> QED
    BY <2>1, <2>2, <2>3, <2>4, <2>5, <2>6, <2>7, <2>8, <2>9, <2>10 DEF Next
<1>3. Follows => SessionFollowsAccount
  BY DEF Follows, SessionFollowsAccount, Settled, LogoutDue, Validating
<1> QED BY <1>1, <1>2, <1>3, Typing, PTL DEF Spec
=============================================================================
