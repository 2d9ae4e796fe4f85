\* Fewer requests in flight than connections: every one of them is answered.
SPECIFICATION FairSpec
CONSTANTS
  Users = {u1}
  Targets = {p1}
  Reactions = {like, bored}
  Calls = {c1, c2}
  Conns = {k1, k2, k3}
  Ids = {i1, i2, i3}
  None = None
INVARIANTS
  NeverWedged
PROPERTIES
  EveryCallAnswered
