SPECIFICATION FairSpec
CONSTANTS
  Accounts = {a, b}
  Tabs = {t1}
  Mutations = {m1, m2}
  MaxChanges = 1
  MaxMutations = 2
  Losses = TRUE
  None = None
INVARIANTS
  OneSignInPerTab
  NonceUndisturbed
  SessionFollowsAccount
PROPERTIES
  EveryMutationEnds
CHECK_DEADLOCK FALSE
