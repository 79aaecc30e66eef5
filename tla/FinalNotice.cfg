SPECIFICATION Spec
CONSTANTS
  None = None
  Calls <- FlipCalls
  HighLiquidityDays <- MCHighLiquidityDays
  LlmAnswers <- NoLlmAnswers
INVARIANTS
  ExactlyOneFinalNotice
CHECK_DEADLOCK FALSE
