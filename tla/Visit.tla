-------------------------------- MODULE Visit --------------------------------
(***************************************************************************)
(* What the screens of one tab depend on: the context value of             *)
(* WalletProvider and the place the router shows.  Every screen asks again *)
(* when either changes, through the dependency lists of its effects.       *)
(***************************************************************************)
EXTENDS Naturals

CONSTANTS
  Addresses,
  None,
  Plans  \* the bounds of one session: the panels and the lists followed in it,
         \* the fetches of a panel while its screen stays, the changes of the
         \* chain, the tables the indexer writes one after another, the tabs and
         \* the columns chosen

ASSUME AddressesType == None \notin Addresses
ASSUME PlansType ==
  \A s \in Plans : /\ s.panels \subseteq {"portfolio", "stakes", "mine"}
                   /\ s.lists \subseteq {"validators", "proposals", "history", "votes", "deposits"}
                   /\ s.columns \subseteq {"name", "power"}
                   /\ s.asks \in Nat /\ s.events \in Nat

VARIABLES
  plan,    \* the bounds of this session
  wallet,  \* status and account of the context value
  place    \* the screen, and the address in the URL of a portfolio

Wallet == [status : {"idle", "connecting", "connected"},
           account : Addresses \union {None}]
Idle == [status |-> "idle", account |-> None]
Connecting == [status |-> "connecting", account |-> None]
Connected(a) == [status |-> "connected", account |-> a]

Hosts == {"portfolio", "overview", "validators", "proposals", "votes", "deposits",
          "invalid", "broken"}
Place == [host : Hosts, of : Addresses \union {None}]
At(host) == [host |-> host, of |-> None]
PortfolioOf(a) == [host |-> "portfolio", of |-> a]
Invalid == At("invalid")   \* the error page for an invalid address
Broken == At("broken")     \* the fallback of the error boundary

\* The places a link, the address bar or the history leads to.
Places == {At(h) : h \in Hosts \ {"broken"}} \union {PortfolioOf(a) : a \in Addresses}

\* The address the screen is about: of the URL, or of the wallet.
Shown(w, p) == IF p.of # None THEN p.of ELSE w.account

\* Connecting, connected as somebody, refreshed, switched to another key, or
\* disconnected: each makes a new context value.
WalletBecomes(w) ==
  CASE wallet.status = "idle" -> w = Connecting
    [] wallet.status = "connecting" -> w = Idle \/ \E a \in Addresses : w = Connected(a)
    [] wallet.status = "connected" -> w = Idle \/ \E a \in Addresses : w = Connected(a)

VisitTypeOK == plan \in Plans /\ wallet \in Wallet /\ place \in Place
=============================================================================
