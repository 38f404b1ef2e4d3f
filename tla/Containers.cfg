SPECIFICATION Spec
CONSTANTS
  val_low = val_low
  val_same = val_same
  val_high = val_high
  key_a = key_a
  key_b = key_b
  key_c = key_c
  block_1 = block_1
  block_2 = block_2
  block_3 = block_3
  filter_1 = filter_1
  filter_2 = filter_2
  QueueCapacity = 3
  MaxPushed = 5
  MaxHeight = 5
  Rubbish = Rubbish
  Priority = {1, 2}
  NodeAddress = {block_1, block_2, block_3}
  Nul = Nul
  Raw = Raw
  Local = 3
  Initial = 2
  MaxSize = 7
  MaxText = 3
  WordBits = 4
  ByteBits = 2
  BitsOf = {{0, 3, 4, 6, 7}, {1, 2, 5, 8}}
  MaxBits = 9
  SetSize = 10
  Word = 16
  HashCount = 2
  CellCount = 5
  CellMod = 4
  MaxCounted = 7
  MaxInserted = 3
SYMMETRY AddressSymmetry
CHECK_DEADLOCK FALSE
INVARIANTS
  ContentsExact
  NoFalseNegatives
PROPERTY
  CallsExact
