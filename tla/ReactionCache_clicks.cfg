SPECIFICATION Spec
CONSTANTS
  like = like
  bored = bored
  Me = me
  Proposal = p1
  Reactions <- MCReactions
  Calls = {c1, c2, c3}
  Others <- MCOthers
  MaxClicks = 3
  None = None
SYMMETRY Symmetry
CHECK_DEADLOCK FALSE
INVARIANTS
  TypeOK
  CountsNeverShort
  SettledAgrees
