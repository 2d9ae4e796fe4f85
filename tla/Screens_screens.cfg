SPECIFICATION ScreensSpec
CONSTANTS
  a = a
  b = b
  Addresses = {a, b}
  None = None
  Validators <- ValidatorsMC
  PageSize = 1
  Known = {a}
  Ledgers <- LedgersMC
  Plans <- PlansMC
  Rows <- RowsMC
  Delegates <- DelegatesMC
  ListSize = 2
INVARIANTS
  ScreensTypeOK
  AnswersRoute
  TotalIsWealth
  RowsPaired
  PageAnswersQuestion
  PagesAreTheList
  NothingSkipped
PROPERTIES
  LoadingEnds
CHECK_DEADLOCK FALSE
