SPECIFICATION Spec
CONSTANTS
  Char = {char_a, char_b}
  Nul = Nul
  Garbage = Garbage
  Local = 3
  MaxSize = 7
  MaxText = 3
  Inner = TRUE
CHECK_DEADLOCK FALSE
INVARIANT ContentsExact
