SPECIFICATION Spec
CONSTANTS
  BlockAddress = {addr_1, addr_2, addr_3, addr_4}
  BinRequest = {1, 2, 3, 4, 9}
  LinkSize = 2
  BinCount = 4
  MaxSizes = {0, 1}
  Size = 7
  Heap = {heap_1, heap_2}
  HeapRequest = {1, 2, 3}
  BitsPerWord = 4
  BitmapSize = 3
  RunRequest = {1, 2, 3, 4, 9}
  CtzOfZero = {0, 4}
  Thread = {thread_1, thread_2}
  Variables = 2
  Object = {obj_1, obj_2}
  Null = Null
CHECK_DEADLOCK FALSE
INVARIANTS
  AccountsExact
  ReferencesExact
PROPERTIES
  ImplementsArena
  NothingWithheld
