------------------------------- MODULE Screens -------------------------------
(***************************************************************************)
(* The screens of one tab: where the user goes and what the wallet does is *)
(* followed by the panels that read the chain and by the lists of the      *)
(* server alike.                                                           *)
(***************************************************************************)
EXTENDS Portfolio, Listings

ScreensInit == Init /\ ListInit

Visits ==
  \/ \E p \in Places : GoTo(p) /\ ListVisit(FALSE)
  \/ \E w \in Wallet : WalletChanges(w) /\ ListVisit(TRUE)

\* A fetch may lead to an error page, which has no list.
Reading == Progress /\ ListVisit(FALSE)
Moving == Changes /\ UNCHANGED listVars
\* The history of a portfolio is rendered over loaded panels only.
Rendered ==
  List = "history" =>
    \A p \in plan.panels \intersect PanelsAt[place.host] : panel[p].is = "loaded"
Listing == ((Rendered /\ Chooses) \/ Answering \/ Indexes) /\ UNCHANGED <<panels, chain>>

ScreensNext == Visits \/ Reading \/ Moving \/ Listing

\* The calls of the chain client settle, one way or the other.
ScreensSpec ==
  /\ ScreensInit
  /\ [][ScreensNext]_<<vars, listVars>>
  /\ WF_<<vars, listVars>>(Reading)

ScreensTypeOK == PortfolioTypeOK /\ ListTypeOK
=============================================================================
