SPECIFICATION Spec
CONSTANTS
  Calls = {c1, c2, c3}
  None = None
PROPERTY ReuseRevokesFamily
CHECK_DEADLOCK FALSE
