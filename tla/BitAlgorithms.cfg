SPECIFICATION Spec
CONSTANTS
  W = 4
  Words = 4
  Register = 2
  MaxPlace = 13
  Length = 12
  Capacity = 2
CHECK_DEADLOCK FALSE
INVARIANTS
  OutsideKept
  ResultExact
  CursorsExact
  RotationKept
PROPERTY
  CallEnds
