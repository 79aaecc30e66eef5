SPECIFICATION Spec
CONSTANTS
  None = None
  Calls <- LlmCalls
  HighLiquidityDays <- MCHighLiquidityDays
  LlmAnswers <- AnyLlmAnswers
INVARIANTS
  AlwaysPreDebitNotice
CHECK_DEADLOCK FALSE
