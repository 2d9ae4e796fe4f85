SPECIFICATION Spec
CONSTANTS
  Attempts = {a1, a2}
  None = None
  Amounts <- AmountsMC
  Plans <- PlansMC
  Fee = 2
  Purses <- PursesMC
INVARIANTS
  ConfirmationHasPrompt
  OnePrompt
  ToastsAreTrue
  BalanceFollows
PROPERTIES
  OnlyTheFeeFails
  FormSurvives
  EverySubmissionEnds
CHECK_DEADLOCK FALSE
