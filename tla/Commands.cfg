SPECIFICATION FairCommandSpec
CONSTANTS
  None = None
  Calls <- CommandCalls
  HighLiquidityDays <- MCHighLiquidityDays
  LlmAnswers <- OneLlmAnswer
  MaxChanges = 1
INVARIANTS
  OutcomeTold
  OptOutIsFinal
  DiscretionaryBudget
  NothingWithoutConfirmation
  ReRunsAgree
  EveryRunCounted
  NoRetryWasted
PROPERTIES
  CallsRunOut
  CommandEnds
CHECK_DEADLOCK FALSE
