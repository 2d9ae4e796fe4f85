--------------------------- MODULE MCProposalPages ---------------------------
(***************************************************************************)
(* Instances of ProposalPages for TLC: two validators the indexer knows.   *)
(***************************************************************************)
EXTENDS ProposalPages

CONSTANTS v1, v2

MCKnown == <<v1, v2>>

Symmetry == Permutations(People)
=============================================================================
