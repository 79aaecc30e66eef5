SPECIFICATION Spec
CONSTANTS
  None = None
  Calls <- EngineCalls
  HighLiquidityDays <- MCHighLiquidityDays
  LlmAnswers <- NoLlmAnswers
INVARIANTS
  TypeOK
  BudgetRespected
  NothingAfterTheLastWord
  DebitedOffPeak
  RetrySpacing
  PreDebitNoticeInTime
  EngineCompliant
  HopelessNeverDebited
  VetoOnlyOnChangedFacts
  ChaseBounded
  HeldRunMovesNoMoney
  ClosingStatus
  FinalNoticeUnlessContacted
PROPERTIES
  ImplementsEpisode
CHECK_DEADLOCK FALSE
