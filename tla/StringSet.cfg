SPECIFICATION Spec
CONSTANTS
  s_a = s_a
  s_b = s_b
  s_c = s_c
  s_d = s_d
  String <- MCString
  Length <- MCLength
  Hash <- MCHash
  MaxEntries <- MCMaxEntries
  MaxReserve = 4
INVARIANTS
  FoundExactly
  NodesExact
PROPERTIES
  InsertedFound
  ErasedNotFound
  RehashRestores
