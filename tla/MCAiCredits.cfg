SPECIFICATION Spec
CONSTANTS
  Calls = {c1, c2, c3}
  References = {r1, r2}
  Charges = {2, 3}
  MonthlyCredits = 4
  PeriodLength = 1
  MaxTime = 1
  MaxAttempts = 2
  None = None
SYMMETRY Symmetric
INVARIANTS TypeOK NoPeriodOverspent MovedOnce AnswersAreTrue
CHECK_DEADLOCK FALSE
