SPECIFICATION Spec
CONSTANTS
  None = None
  LlmAnswers = {"balance_nudge", "cancellation_confirmation", "escalate_to_support", "special_discount"}
  Offers = {None, 2, 7}
  MaxCalls = 5
INVARIANTS
  CostLineTruthful
CHECK_DEADLOCK FALSE
