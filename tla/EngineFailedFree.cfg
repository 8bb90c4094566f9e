SPECIFICATION Spec
CONSTANTS
  N = 2
  MaxDrain = 20
  MaxFaults = 1
  Plans <- EventErrorPlan
INVARIANTS LegalFree
