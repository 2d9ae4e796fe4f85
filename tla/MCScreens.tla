------------------------------ MODULE MCScreens ------------------------------
(* Small instances of Screens. *)
EXTENDS Screens

CONSTANTS a, b

\* Two delegations and an unbonding, or one delegation and room for another.
ValidatorsMC == 1..2
LedgersMC ==
  {[funds |-> 0, stake |-> <<1, 1>>, unbonding |-> <<0, 1>>, rewards |-> <<1, 0>>],
   [funds |-> 1, stake |-> <<0, 1>>, unbonding |-> <<0, 0>>, rewards |-> <<0, 0>>]}

\* Three rows, two of them of the same moment; then one more, of the moment of the
\* third, when the first is no longer active and the second has details; then a
\* fifth, which makes a third page.
RowsMC == 1..5
InvolvedMC == [k \in {"voted", "submitted", "deposited"} |->
                 CASE k = "voted" -> <<{a}, {a, b}, {a}, {a}, {}>>
                   [] k = "submitted" -> <<{b}, {}, {}, {}, {}>>
                   [] OTHER -> <<{}, {}, {}, {}, {}>>]
Before == [rows |-> 1..3, moment |-> <<1, 1, 2>>, active |-> {1, 2}, involved |-> InvolvedMC,
           described |-> {1, 3}]
After == [rows |-> 1..4, moment |-> <<1, 1, 2, 2>>, active |-> {2, 4}, involved |-> InvolvedMC,
          described |-> {1, 2, 3}]
Later == [After EXCEPT !.rows = 1..5, !.moment = <<1, 1, 2, 2, 3>>]
\* The votes and deposits on a proposal, at three heights.
Heights == [Before EXCEPT !.moment = <<1, 2, 3>>]
DelegatesMC == [c \in {a, b} |-> IF c = a THEN {1} ELSE {}]

Session(followed, asks, moves, lists, tabs, columns, tables) ==
  [panels |-> followed, asks |-> asks, events |-> moves, lists |-> lists, tabs |-> tabs,
   columns |-> columns, tables |-> tables]
\* Panels on their own, lists on their own, and both on one screen.
PlansMC ==
  {Session({"portfolio"}, 1, 1, {}, {}, {}, <<Before>>),
   Session({"portfolio", "stakes"}, 1, 0, {}, {}, {}, <<Before>>),
   Session({"stakes"}, 2, 1, {}, {}, {}, <<Before>>),
   Session({"mine"}, 2, 1, {}, {}, {}, <<Before>>),
   Session({}, 0, 0, {"validators"}, {"active", "all"}, {"name"}, <<Before>>),
   Session({}, 0, 0, {"proposals"}, {"all", "voting", "following"}, {}, <<Before>>),
   Session({}, 0, 0, {"proposals"}, {"voting"}, {}, <<Before, After, Later>>),
   Session({}, 0, 0, {"history"}, {"voted", "submitted"}, {}, <<Before>>),
   Session({}, 0, 0, {"history"}, {}, {}, <<Before, After>>),
   Session({}, 0, 0, {"votes"}, {}, {}, <<Heights>>),
   Session({}, 0, 0, {"deposits"}, {}, {}, <<Heights>>),
   Session({"stakes"}, 1, 0, {"history"}, {}, {}, <<Before>>)}
=============================================================================
