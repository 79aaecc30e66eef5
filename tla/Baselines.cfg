SPECIFICATION Spec
CONSTANTS
  None = None
  Mandates <- MCMandates
  FirstFailures <- MCFailures
  Downtimes <- MCDowntimes
  HighLiquidityDays <- MCHighLiquidityDays
INVARIANTS
  KnownFaults
  AnnouncedAfterFailure
CHECK_DEADLOCK FALSE
