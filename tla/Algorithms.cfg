SPECIFICATION Spec
CONSTANTS
  Gain = {0, 1, 2, 5}
  Loss = {3}
  SearchLength = 6
  SortLength = 6
  SplitLength = 7
  SumLength = 5
  MergeLength = 2
  MaxInputs = 3
  MaxTuple = 3
  Behind = 2
  Byte = {0, 166, 255}
  MaxBytes = 5
  Base = {2, 3, 10, 16}
  Width = 16
CHECK_DEADLOCK FALSE
INVARIANTS
  AnswersExact
  LoopsKept
PROPERTY
  CallsReturn
