SPECIFICATION Spec
CONSTANTS
  Variants = {v1, v2}
  Keys = {k1, k2}
  Calls = {c1, c2, c3}
  Quantities = {1}
  MaxAttempts = 2
  MaxSends = 2
  None = None
SYMMETRY Symmetric
INVARIANTS TypeOK KeyAppliedOnce BalanceIsLedgerSum NeverNegative AnswersAreTrue
PROPERTY ImplementsLedger
CHECK_DEADLOCK FALSE
