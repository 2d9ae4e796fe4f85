SPECIFICATION FairSpec
CONSTANTS
  Attempts = {i1, i2, i3}
  MaxDrops = 2
  None = None
INVARIANTS
  ShownIsRemembered
  AccountOfActive
  ConnectingIsReal
PROPERTIES
  ConnectingEnds
