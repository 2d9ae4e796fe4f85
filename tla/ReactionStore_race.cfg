\* Three requests of two users share a pool of three connections.
SPECIFICATION Spec
CONSTANTS
  Users = {u1, u2}
  Targets = {p1}
  Reactions = {like, bored}
  Calls = {c1, c2, c3}
  Conns = {k1, k2, k3}
  Ids = {i1, i2, i3}
  None = None
SYMMETRY Symmetry
INVARIANTS
  IInv
  OneReactionPerTarget
  PoolConserved
  AnsweredUnsetIsGone
  WedgeIsAllTransactions
PROPERTIES
  LockedRowStays
  OnlyOwnRowsVanish
  ImplementsBook
