------------------------------- MODULE SignIn -------------------------------
(***************************************************************************)
(* Sign-in with a wallet: the tabs of one browser (AppApolloProvider,      *)
(* AuthProvider, WalletProvider), the Keplr extension they share, and the  *)
(* stateless handlers of handlers/auth.go, whose only state is the cookies *)
(* of that browser.                                                        *)
(*                                                                         *)
(* A request takes the cookies with it when it is sent; what the answer    *)
(* says of cookies happens when it arrives.  Answers arrive in any order.  *)
(***************************************************************************)
EXTENDS Naturals

CONSTANTS
  Accounts,     \* accounts of the extension
  Tabs,
  Mutations,    \* reaction mutations in flight, reused once they have ended
  MaxChanges,   \* bound on the selections of another account, or disconnections
  MaxMutations, \* bound on the mutations sent
  Losses,       \* whether the network may lose requests
  None

ASSUME NoneIsNoAccount == None \notin Accounts \union Tabs \union Nat
ASSUME BoundsType == MaxChanges \in Nat /\ MaxMutations \in Nat /\ Losses \in BOOLEAN

VARIABLES
  selected,   \* the account selected in Keplr
  session,    \* address of the auth_session cookie
  nonce,      \* the auth_nounce cookie
  issued,     \* nonces given out so far
  status,     \* status[t]: the wallet's ConnectionStatus
  account,    \* account[t]: the account WalletProvider shows
  loggingIn,  \* loggingIn[t]: isLoggingIn of AppApolloProvider
  op,         \* op[m]: a mutation and the sign-in it has caused
  calls,      \* other requests in flight
  changes,    \* selections of another account and disconnections so far
  sent,       \* mutations so far
  overtaken   \* history: the account was changed while the answer to a
              \* verification was due, or a logout or validation was lost

keplr == <<selected, changes>>
cookies == <<session, nonce, issued>>
wallet == <<status, account>>
vars == <<keplr, cookies, wallet, loggingIn, op, calls, sent, overtaken>>

Address == Accounts \union {None}
Number == Nat \union {None}
Stage == {"idle", "sent", "nonce", "sign", "verify", "resent"}
SigningIn == {"nonce", "sign", "verify"}

Op == [stage : Stage, tab : Tabs \union {None}, cookie : Address,
       address : Address, nonce : Number, jar : Number]

NoOp == [stage |-> "idle", tab |-> None, cookie |-> None,
         address |-> None, nonce |-> None, jar |-> None]

\* The app is opened, perhaps with the session of an earlier visit.
Init ==
  /\ selected \in Accounts
  /\ session \in Accounts \union {None}
  /\ nonce = None
  /\ issued = 0
  /\ status = [t \in Tabs |-> "Idle"]
  /\ account = [t \in Tabs |-> None]
  /\ loggingIn = [t \in Tabs |-> FALSE]
  /\ op = [m \in Mutations |-> NoOp]
  /\ calls = {}
  /\ changes = 0
  /\ sent = 0
  /\ overtaken = FALSE

(***************************************************************************)
(* WalletProvider                                                          *)
(***************************************************************************)
\* connectToKeplr, up to getAccounts.
Connect(t) ==
  /\ status[t] = "Idle"
  /\ status' = [status EXCEPT ![t] = "Connecting"]
  /\ account' = [account EXCEPT ![t] = selected]
  /\ UNCHANGED <<keplr, cookies, loggingIn, op, calls, sent, overtaken>>

\* The balance has come: Connected, and the session is validated.
Connected(t) ==
  /\ status[t] = "Connecting"
  /\ status' = [status EXCEPT ![t] = "Connected"]
  /\ calls' = calls \union {[kind |-> "validate", tab |-> t, address |-> account[t],
                             cookie |-> session, at |-> changes]}
  /\ UNCHANGED <<keplr, cookies, account, loggingIn, op, sent, overtaken>>

ConnectFails(t) ==
  /\ status[t] = "Connecting"
  /\ status' = [status EXCEPT ![t] = "Idle"]
  /\ UNCHANGED <<keplr, cookies, account, loggingIn, op, calls, sent, overtaken>>

Logout(t, kind) ==
  [kind |-> kind, tab |-> t, address |-> None, cookie |-> None, at |-> changes]

VerificationDue == \E m \in Mutations : op[m].stage = "verify"

\* Disconnect: logout is sent now, the wallet is dropped when it ends.
Disconnect(t) ==
  /\ status[t] = "Connected"
  /\ changes < MaxChanges
  /\ changes' = changes + 1
  /\ calls' = calls \union {Logout(t, "disconnect")}
  /\ overtaken' = (overtaken \/ VerificationDue)
  /\ UNCHANGED <<selected, cookies, wallet, loggingIn, op, sent>>

\* keplr_keystorechange reaches every tab: logout and refreshAccount.
SelectAccount ==
  /\ changes < MaxChanges
  /\ changes' = changes + 1
  /\ \E a \in Accounts \ {selected} :
       /\ selected' = a
       /\ calls' = calls
            \union {Logout(t, "logout") : t \in Tabs}
            \union {[kind |-> "refresh", tab |-> t, address |-> a,
                     cookie |-> None, at |-> changes] :
                      t \in {u \in Tabs : status[u] = "Connected"}}
  /\ overtaken' = (overtaken \/ VerificationDue)
  /\ UNCHANGED <<cookies, wallet, loggingIn, op, sent>>

\* LogoutHandler removes the session cookie.
LogoutArrives(q) ==
  /\ q \in calls
  /\ q.kind \in {"logout", "disconnect"}
  /\ session' = None
  /\ status' = IF q.kind = "disconnect" THEN [status EXCEPT ![q.tab] = "Idle"] ELSE status
  /\ calls' = calls \ {q}
  /\ UNCHANGED <<keplr, nonce, issued, account, loggingIn, op, sent, overtaken>>

\* Mutated ValidateArrives: the session of another address is left alone.
ValidateKeepsSession(q) ==
  /\ q \in calls
  /\ q.kind = "validate"
  /\ calls' = calls \ {q}
  /\ UNCHANGED <<keplr, cookies, wallet, loggingIn, op, sent, overtaken>>

\* ValidateHandler removes the session cookie unless the one that was sent is
\* missing (400) or of this address (200).
ValidateArrives(q) ==
  /\ q \in calls
  /\ q.kind = "validate"
  /\ session' = IF q.cookie \in {None, q.address} THEN session ELSE None
  /\ calls' = calls \ {q}
  /\ UNCHANGED <<keplr, nonce, issued, wallet, loggingIn, op, sent, overtaken>>

\* refreshAccount has the balance of the account it asked for.
RefreshArrives(q) ==
  /\ q \in calls
  /\ q.kind = "refresh"
  /\ account' = [account EXCEPT ![q.tab] = q.address]
  /\ calls' = calls \ {q}
  /\ UNCHANGED <<keplr, cookies, status, loggingIn, op, sent, overtaken>>

\* A request fails: disconnect goes on anyway, a connection whose validation
\* fails is reported as failed.
CallLost(q) ==
  /\ Losses
  /\ q \in calls
  /\ status' = IF q.kind \in {"disconnect", "validate"}
               THEN [status EXCEPT ![q.tab] = "Idle"] ELSE status
  /\ calls' = calls \ {q}
  /\ overtaken' = (overtaken \/ q.kind # "refresh")
  /\ UNCHANGED <<keplr, cookies, account, loggingIn, op, sent>>

(***************************************************************************)
(* Mutations: authErrorLink, signInWithCosmos and the auth handlers        *)
(***************************************************************************)
Mutate(m, t) ==
  /\ op[m].stage = "idle"
  /\ status[t] = "Connected"
  /\ sent < MaxMutations
  /\ sent' = sent + 1
  /\ op' = [op EXCEPT ![m] = [NoOp EXCEPT !.stage = "sent", !.tab = t, !.cookie = session]]
  /\ UNCHANGED <<keplr, cookies, wallet, loggingIn, calls, overtaken>>

Ends(m) == op' = [op EXCEPT ![m] = NoOp]

\* The mutation is accepted as the session's address, or fails for good: the
\* answer to a repeated mutation is final, and so is UNAUTHENTICATED while
\* another mutation is signing in.
MutationEnds(m) ==
  /\ \/ op[m].stage = "resent"
     \/ op[m].stage = "sent" /\ (op[m].cookie # None \/ loggingIn[op[m].tab])
  /\ Ends(m)
  /\ UNCHANGED <<keplr, cookies, wallet, loggingIn, calls, sent, overtaken>>

\* Mutated StartSignIn: isLoggingIn is not looked at.
StartSignInAnyway(m) ==
  LET t == op[m].tab IN
  /\ op[m].stage = "sent"
  /\ op[m].cookie = None
  /\ IF status[t] = "Connected"
     THEN /\ loggingIn' = [loggingIn EXCEPT ![t] = TRUE]
          /\ op' = [op EXCEPT ![m] = [@ EXCEPT !.stage = "nonce", !.address = account[t]]]
     ELSE Ends(m) /\ UNCHANGED loggingIn
  /\ UNCHANGED <<keplr, cookies, wallet, calls, sent, overtaken>>

\* UNAUTHENTICATED: sign in with the account shown, if the wallet is connected.
StartSignIn(m) ==
  LET t == op[m].tab IN
  /\ op[m].stage = "sent"
  /\ op[m].cookie = None
  /\ ~loggingIn[t]
  /\ IF status[t] = "Connected"
     THEN /\ loggingIn' = [loggingIn EXCEPT ![t] = TRUE]
          /\ op' = [op EXCEPT ![m] = [@ EXCEPT !.stage = "nonce", !.address = account[t]]]
     ELSE Ends(m) /\ UNCHANGED loggingIn
  /\ UNCHANGED <<keplr, cookies, wallet, calls, sent, overtaken>>

\* NonceHandler: a new nonce, in the answer and in the cookie.
NonceArrives(m) ==
  /\ op[m].stage = "nonce"
  /\ issued' = issued + 1
  /\ nonce' = issued'
  /\ op' = [op EXCEPT ![m] = [@ EXCEPT !.stage = "sign", !.nonce = issued']]
  /\ UNCHANGED <<keplr, session, wallet, loggingIn, calls, sent, overtaken>>

\* The user approves; Keplr signs only with the selected account.  The nonce
\* cookie goes with the verification.
Approve(m) ==
  /\ op[m].stage = "sign"
  /\ op[m].address = selected
  /\ op' = [op EXCEPT ![m] = [@ EXCEPT !.stage = "verify", !.jar = nonce]]
  /\ UNCHANGED <<keplr, cookies, wallet, loggingIn, calls, sent, overtaken>>

\* Mutated SignInFails: the flag is reset, the mutation is never answered.
SignInHangs(m) ==
  /\ op[m].stage = "sign" \/ (Losses /\ op[m].stage \in SigningIn)
  /\ loggingIn' = [loggingIn EXCEPT ![op[m].tab] = FALSE]
  /\ UNCHANGED <<keplr, cookies, wallet, op, calls, sent, overtaken>>

\* signInWithCosmos rejects: the user or Keplr refuses, or a request fails.
SignInFails(m) ==
  /\ op[m].stage = "sign" \/ (Losses /\ op[m].stage \in SigningIn)
  /\ loggingIn' = [loggingIn EXCEPT ![op[m].tab] = FALSE]
  /\ Ends(m)
  /\ UNCHANGED <<keplr, cookies, wallet, calls, sent, overtaken>>

\* VerificationHandler: the nonce signed must be the one in the cookie.  The
\* mutation is repeated with whatever session there is: the status of the
\* answer is not looked at.
VerifyArrives(m) ==
  LET verified == op[m].jar = op[m].nonce IN
  /\ op[m].stage = "verify"
  /\ session' = IF verified THEN op[m].address ELSE session
  /\ nonce' = IF verified THEN None ELSE nonce
  /\ op' = [op EXCEPT ![m] = [@ EXCEPT !.stage = "resent", !.cookie = session']]
  /\ loggingIn' = [loggingIn EXCEPT ![op[m].tab] = FALSE]
  /\ UNCHANGED <<keplr, issued, wallet, calls, sent, overtaken>>

\* Cookies expire: the browser drops them.
SessionExpires ==
  /\ session # None
  /\ session' = None
  /\ UNCHANGED <<keplr, nonce, issued, wallet, loggingIn, op, calls, sent, overtaken>>

NonceExpires ==
  /\ nonce # None
  /\ nonce' = None
  /\ UNCHANGED <<keplr, session, issued, wallet, loggingIn, op, calls, sent, overtaken>>

-----------------------------------------------------------------------------
Progress(m) ==
  MutationEnds(m) \/ StartSignIn(m) \/ NonceArrives(m) \/ Approve(m)
    \/ SignInFails(m) \/ VerifyArrives(m)

Arrives(q) == LogoutArrives(q) \/ ValidateArrives(q) \/ RefreshArrives(q) \/ CallLost(q)

Next ==
  \/ \E t \in Tabs : Connect(t) \/ Connected(t) \/ ConnectFails(t) \/ Disconnect(t)
  \/ SelectAccount
  \/ \E q \in calls : Arrives(q)
  \/ \E m \in Mutations, t \in Tabs : Mutate(m, t)
  \/ \E m \in Mutations : Progress(m)
  \/ SessionExpires \/ NonceExpires

Spec == Init /\ [][Next]_vars

\* Requests are answered or fail, and the user answers Keplr's prompt.
FairSpec == Spec /\ \A m \in Mutations : WF_vars(Progress(m))
-----------------------------------------------------------------------------
(***************************************************************************)
(* Properties                                                              *)
(***************************************************************************)
TypeOK ==
  /\ selected \in Accounts
  /\ session \in Address
  /\ nonce \in Number
  /\ issued \in Nat
  /\ status \in [Tabs -> {"Idle", "Connecting", "Connected"}]
  /\ account \in [Tabs -> Address]
  /\ loggingIn \in [Tabs -> BOOLEAN]
  /\ op \in [Mutations -> Op]
  /\ \A m \in Mutations : op[m].stage = "idle" \/ op[m].tab \in Tabs
  /\ calls \subseteq [kind : {"logout", "disconnect", "validate", "refresh"},
                      tab : Tabs, address : Address, cookie : Address, at : Nat]
  /\ changes \in Nat
  /\ sent \in Nat
  /\ overtaken \in BOOLEAN

\* isLoggingIn is set exactly while one mutation of the tab signs in: two
\* mutations never both prompt the user, and no outcome of a sign-in, however
\* it ends, keeps later mutations from signing in.
OneSignInPerTab ==
  \A t \in Tabs :
    LET signing == {m \in Mutations : op[m].tab = t /\ op[m].stage \in SigningIn} IN
    /\ loggingIn[t] <=> signing # {}
    /\ \A m, n \in signing : m = n

\* With one tab open no sign-in replaces the nonce another one is signing: what
\* the user approves fails verification only if the nonce has expired.
NonceUndisturbed ==
  \A m \in Mutations :
    /\ op[m].stage = "sign" => nonce \in {None, op[m].nonce}
    /\ op[m].stage = "verify" => op[m].jar \in {None, op[m].nonce}

\* Nothing that could still change the session or the account is under way.
Settled ==
  /\ calls = {}
  /\ \A m \in Mutations : op[m].stage \notin SigningIn

\* Logout on a change of account and validation on connection keep the session
\* that of the selected account, or none, unless a verification was already
\* under way at a change, or one of them was lost.
SessionFollowsAccount ==
  Settled /\ ~overtaken =>
    \A t \in Tabs : status[t] = "Connected" => session \in {None, selected}

\* Why it does: no verification is under way for another account, and a session
\* of another account is one left from an earlier visit, in a browser whose
\* account has not been changed since, which every connected tab is validating.
LogoutDue == \E q \in calls : q.kind \in {"logout", "disconnect"}
Validating == \E q \in calls :
  q.kind = "validate" /\ q.cookie = session /\ q.address = selected
Follows ==
  ~overtaken =>
    /\ \A m \in Mutations : op[m].stage = "verify" => op[m].address = selected
    /\ session \notin {None, selected} /\ ~LogoutDue =>
         \A t \in Tabs :
           /\ status[t] # "Idle" => account[t] = selected
           /\ status[t] = "Connected" => Validating
           /\ \A q \in calls : q.kind # "refresh"

\* "Unauthenticating as the selected account is now changed": once the requests
\* sent at a change of account have been answered, the session is not one of an
\* account that is not selected any more.
UnauthenticatedOnChange ==
  Settled => \A t \in Tabs : status[t] = "Connected" => session \in {None, selected}

\* Every mutation ends, signed in or not: none waits for a sign-in for ever.
EveryMutationEnds ==
  \A m \in Mutations : op[m].stage # "idle" ~> op[m].stage = "idle"
=============================================================================
