SPECIFICATION Spec
CONSTANTS
  Accounts = {a, b}
  Tabs = {t1}
  Mutations = {m1}
  MaxChanges = 1
  MaxMutations = 1
  Losses = FALSE
  None = None
INVARIANTS
  UnauthenticatedOnChange
CHECK_DEADLOCK FALSE
