SPECIFICATION Spec
CONSTANTS
  Identified = {p1, p2}
  Anonymous = {a1}
  Webhooks <- MCWebhooks
  MaxDeliveries = 2
  MaxRestarts = 1
  EarlyRows = {b1}
  LateRows = {}
  OtherBanks = {b3}
INVARIANTS
  AckedIsHandled
