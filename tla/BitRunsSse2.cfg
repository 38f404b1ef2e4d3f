SPECIFICATION Spec
CONSTANTS
  W = 1
  Words = 8
  Register = 1
CHECK_DEADLOCK FALSE
INVARIANT FindExact
