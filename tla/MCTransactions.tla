--------------------------- MODULE MCTransactions ---------------------------
(* Small instances of Transactions. *)
EXTENDS Transactions, TLC

\* Less than nothing, nothing, half a unit and one unit.
AmountsMC == {-2, 0, 1, 2}
\* Every kind, each beside one of another host or screen.
PlansMC == {{"collect", "unstake"}, {"send", "propose"}, {"stake", "deposit"},
            {"receive", "vote"}}
\* The fee, or a payment that leaves nothing for the fee.
PursesMC == {[funds |-> 2, staked |-> 2, rewards |-> 2]}
=============================================================================
