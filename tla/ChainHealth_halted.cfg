SPECIFICATION Spec
CONSTANTS
  Polls = {p1, p2}
  Average = 1
  Limit = 2
  MaxTime = 4
  None = None
INVARIANTS
  HaltedAfterAMinute
CHECK_DEADLOCK FALSE
