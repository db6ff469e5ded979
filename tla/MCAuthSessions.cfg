SPECIFICATION Spec
CONSTANTS
  Calls = {c1, c2, c3}
  None = None
INVARIANTS TypeOK RevokedFamilyIsDead OneLiveToken
PROPERTIES RevocationIsFinal EveryCallEnds
CHECK_DEADLOCK FALSE
