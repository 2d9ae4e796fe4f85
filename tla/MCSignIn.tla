------------------------------ MODULE MCSignIn ------------------------------
(***************************************************************************)
(* Instances of SignIn for TLC.                                            *)
(***************************************************************************)
EXTENDS SignIn, TLC

Symmetry ==
  Permutations(Accounts) \union Permutations(Mutations) \union Permutations(Tabs)
=============================================================================
