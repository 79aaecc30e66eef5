SPECIFICATION Spec
CONSTANTS
  MandateIds = {m1, m2}
  Operators = {o1, o2}
  Runs = {r1}
INVARIANTS
  KilledRunNeverDebits
