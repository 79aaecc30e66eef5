SPECIFICATION Spec
CONSTANTS
  MandateIds = {m1, m2}
  Operators = {o1}
  Runs = {r1, r2}
INVARIANTS
  SettledKillHolds
PROPERTIES
  ImplementsKillList
