------------------------------- MODULE Wallet -------------------------------
(***************************************************************************)
(* Connecting and disconnecting a wallet in one tab: the asynchronous      *)
(* procedures of WalletProvider, each of which reads React state when it   *)
(* starts and sets it when an answer comes.  Nothing cancels one of them:  *)
(* a validation may fail after the user has disconnected and connected     *)
(* another wallet.                                                         *)
(*                                                                         *)
(* States set in one go after an await are rendered together (React 18).   *)
(***************************************************************************)
EXTENDS Naturals

CONSTANTS
  Attempts, \* connections under way, each reused once it has ended
  MaxDrops, \* bound on the disconnections under way
  None

ASSUME MaxDropsType == MaxDrops \in Nat

VARIABLES
  status,    \* walletStatus
  active,    \* type of activeWallet
  account,   \* the wallet the account and its balance come from
  auto,      \* autoConnectWalletType, kept in local storage
  modal,     \* isConnectWalletModalActive
  attempt,   \* attempt[i]: how far connectToKeplr or connectToWalletConnect is
  drops,     \* disconnect: logout and wallet.disconnect() not finished
  refreshes, \* wallets whose refreshAccount is running, or has been captured
             \* by a transaction that will call it in the end
  listeners, \* onDisconnect callbacks, as the activeWallet each has captured
  stray      \* history: the active wallet was set while a refreshAccount of
             \* another one was still to come

shown == <<status, active, account>>
running == <<attempt, drops, refreshes, listeners>>
vars == <<shown, auto, modal, running, stray>>

Kinds == {"keplr", "walletConnect"}
ASSUME NoneIsNoKind == None \notin Kinds

Idle == [stage |-> "none", kind |-> None]

\* The page is opened, and remembers a wallet or not.
Init ==
  /\ status = "Idle"
  /\ active = None
  /\ account = None
  /\ auto \in Kinds \union {None}
  /\ modal = FALSE
  /\ attempt = [i \in Attempts |-> Idle]
  /\ drops = 0
  /\ refreshes = {}
  /\ listeners = {}
  /\ stray = FALSE

\* contextValue: what the other components are told.
ShowsIdle == status # "Connecting" /\ (active = None \/ status = "Idle")
ShowsConnected == status = "Connected" /\ active # None

(***************************************************************************)
(* Connecting                                                              *)
(***************************************************************************)
OpenModal ==
  /\ ShowsIdle
  /\ modal' = TRUE
  /\ UNCHANGED <<shown, auto, running, stray>>

CloseModal ==
  /\ modal' = FALSE
  /\ UNCHANGED <<shown, auto, running, stray>>

\* connectToKeplr, connectToWalletConnect up to the first await.  The callback
\* handed to WalletConnect is the disconnect of the current rendering.
Begin(i, kind) ==
  /\ attempt[i] = Idle
  /\ attempt' = [attempt EXCEPT ![i] = [stage |-> "connecting", kind |-> kind]]
  /\ status' = "Connecting"
  /\ modal' = FALSE
  /\ listeners' = IF kind = "walletConnect" THEN listeners \union {active} ELSE listeners
  /\ UNCHANGED <<active, account, auto, drops, refreshes, stray>>

Choose(i, kind) == modal /\ Begin(i, kind)

\* The effect that connects to the remembered wallet.
AutoConnect(i) ==
  /\ active = None
  /\ status = "Idle"
  /\ auto # None
  /\ Begin(i, auto)

\* Mutated Linked: the wallet is not remembered.
LinkedForgets(i) ==
  LET kind == attempt[i].kind IN
  /\ attempt[i].stage = "connecting"
  /\ attempt' = [attempt EXCEPT ![i].stage = "validating"]
  /\ active' = kind
  /\ account' = kind
  /\ status' = "Connected"
  /\ stray' = ~(refreshes \subseteq {kind})
  /\ UNCHANGED <<auto, modal, drops, refreshes, listeners>>

\* Mutated Linked: the account of an earlier wallet is kept.
LinkedKeepsAccount(i) ==
  LET kind == attempt[i].kind IN
  /\ attempt[i].stage = "connecting"
  /\ attempt' = [attempt EXCEPT ![i].stage = "validating"]
  /\ active' = kind
  /\ account' = IF account = None THEN kind ELSE account
  /\ auto' = kind
  /\ status' = "Connected"
  /\ stray' = ~(refreshes \subseteq {kind})
  /\ UNCHANGED <<modal, drops, refreshes, listeners>>

\* The wallet, its account and the balance have come.
Linked(i) ==
  LET kind == attempt[i].kind IN
  /\ attempt[i].stage = "connecting"
  /\ attempt' = [attempt EXCEPT ![i].stage = "validating"]
  /\ active' = kind
  /\ account' = kind
  /\ auto' = kind
  /\ status' = "Connected"
  /\ stray' = ~(refreshes \subseteq {kind})
  /\ UNCHANGED <<modal, drops, refreshes, listeners>>

\* authAPI.validate returns, whatever the server says.
Validated(i) ==
  /\ attempt[i].stage = "validating"
  /\ attempt' = [attempt EXCEPT ![i] = Idle]
  /\ UNCHANGED <<shown, auto, modal, drops, refreshes, listeners, stray>>

\* Mutated Fails: the status is not reset.
FailsStuck(i) ==
  /\ attempt[i].stage # "none"
  /\ attempt' = [attempt EXCEPT ![i] = Idle]
  /\ auto' = IF attempt[i].kind = "keplr" THEN None ELSE auto
  /\ UNCHANGED <<shown, modal, drops, refreshes, listeners, stray>>

\* The wallet refuses or is not there, the node or authAPI.validate cannot be
\* reached: only connectToKeplr forgets the wallet.
Fails(i) ==
  /\ attempt[i].stage # "none"
  /\ attempt' = [attempt EXCEPT ![i] = Idle]
  /\ status' = "Idle"
  /\ auto' = IF attempt[i].kind = "keplr" THEN None ELSE auto
  /\ UNCHANGED <<active, account, modal, drops, refreshes, listeners, stray>>

(***************************************************************************)
(* Disconnecting                                                           *)
(***************************************************************************)
StartDrop ==
  /\ drops < MaxDrops
  /\ drops' = drops + 1

Disconnect ==
  /\ ShowsConnected
  /\ StartDrop
  /\ UNCHANGED <<shown, auto, modal, attempt, refreshes, listeners, stray>>

\* WalletConnect's session ends.  onDisconnect does something only if it has
\* captured a wallet; it disconnects that one and discards the one now active.
PeerDisconnects(captured) ==
  /\ captured \in listeners
  /\ IF captured # None THEN StartDrop ELSE UNCHANGED drops
  /\ listeners' \in {listeners, listeners \ {captured}}
  /\ UNCHANGED <<shown, auto, modal, attempt, refreshes, stray>>

\* walletStatus is left as it is.
Dropped ==
  /\ drops > 0
  /\ drops' = drops - 1
  /\ active' = None
  /\ auto' = None
  /\ UNCHANGED <<status, account, modal, attempt, refreshes, listeners, stray>>

(***************************************************************************)
(* refreshAccount: after a transaction, and when Keplr's account changes   *)
(***************************************************************************)
Refresh ==
  /\ ShowsConnected
  /\ refreshes' = refreshes \union {active}
  /\ UNCHANGED <<shown, auto, modal, attempt, drops, listeners, stray>>

Refreshed(kind) ==
  /\ kind \in refreshes
  /\ \/ refreshes' = refreshes \ {kind}
     \/ UNCHANGED refreshes \* another one awaits the same balance
  /\ account' \in {kind, account} \* account: the balance could not be had
  /\ UNCHANGED <<status, active, auto, modal, attempt, drops, listeners, stray>>

\* The page is reloaded; local storage survives.
Reload ==
  /\ status' = "Idle"
  /\ active' = None
  /\ account' = None
  /\ modal' = FALSE
  /\ attempt' = [i \in Attempts |-> Idle]
  /\ drops' = 0
  /\ refreshes' = {}
  /\ listeners' = {}
  /\ stray' = FALSE
  /\ UNCHANGED auto

-----------------------------------------------------------------------------
Answered(i) == Linked(i) \/ Validated(i) \/ Fails(i)

Next ==
  \/ OpenModal \/ CloseModal
  \/ \E i \in Attempts : AutoConnect(i) \/ Answered(i) \/ \E k \in Kinds : Choose(i, k)
  \/ Disconnect \/ Dropped \/ Refresh \/ Reload
  \/ \E k \in Kinds \union {None} : PeerDisconnects(k) \/ Refreshed(k)

Spec == Init /\ [][Next]_vars

\* The user answers the wallet's prompts, and requests are answered or fail.
FairSpec == Spec /\ \A i \in Attempts : WF_vars(Answered(i))
-----------------------------------------------------------------------------
(***************************************************************************)
(* Properties                                                              *)
(***************************************************************************)
TypeOK ==
  /\ status \in {"Idle", "Connecting", "Connected"}
  /\ active \in Kinds \union {None}
  /\ account \in Kinds \union {None}
  /\ auto \in Kinds \union {None}
  /\ modal \in BOOLEAN
  /\ attempt \in [Attempts -> {Idle} \union
                    [stage : {"connecting", "validating"}, kind : Kinds]]
  /\ drops \in 0 .. MaxDrops
  /\ refreshes \subseteq Kinds
  /\ listeners \subseteq Kinds \union {None}
  /\ stray \in BOOLEAN

\* A wallet shown as connected is the one a reload connects to, whatever older
\* connections and disconnections end in between.
ShownIsRemembered == ShowsConnected => auto = active

\* The account shown (account! and accountBalance! in contextValue) is there and
\* belongs to the wallet shown; the one way to another wallet's account is a
\* refreshAccount captured or called before this wallet was connected.
AccountOfActive == ShowsConnected /\ ~stray => account = active

\* The app says it is connecting only while a connection is under way, so that
\* the button to connect comes back however the connections end.
ConnectingIsReal ==
  status = "Connecting" => \E i \in Attempts : attempt[i].stage = "connecting"

\* The inductive invariant of the three.
IInv ==
  /\ TypeOK
  /\ ShownIsRemembered
  /\ active # None /\ ~stray => account = active /\ refreshes \subseteq {active}
  /\ ConnectingIsReal

\* Connecting ends, one way or the other.
ConnectingEnds == status = "Connecting" ~> status # "Connecting"
=============================================================================
