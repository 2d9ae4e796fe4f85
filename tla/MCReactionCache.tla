--------------------------- MODULE MCReactionCache ---------------------------
(***************************************************************************)
(* Instances of ReactionCache for TLC: one reaction somebody else has also *)
(* given, and one nobody has.                                              *)
(***************************************************************************)
EXTENDS ReactionCache

CONSTANTS like, bored

MCReactions == {like, bored}
MCOthers == [r \in MCReactions |-> IF r = like THEN 1 ELSE 0]

Symmetry == Permutations(Calls)
=============================================================================
