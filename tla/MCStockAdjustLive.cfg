SPECIFICATION FairSpec
CONSTANTS
  Variants = {v1, v2}
  Keys = {k1, k2}
  Calls = {c1, c2}
  Quantities = {1, 2}
  MaxAttempts = 3
  MaxSends = 2
  None = None
PROPERTY EveryCallEnds
CHECK_DEADLOCK FALSE
