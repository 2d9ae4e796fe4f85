--------------------------- MODULE MCReactionStore ---------------------------
(***************************************************************************)
(* Instances of ReactionStore for TLC.  Calls, connections, users and row  *)
(* identifiers are interchangeable.                                        *)
(***************************************************************************)
EXTENDS ReactionStore, TLC

Symmetry ==
  Permutations(Calls) \union Permutations(Conns)
    \union Permutations(Users) \union Permutations(Ids)
=============================================================================
