SPECIFICATION Spec
CONSTANTS
  k1 = k1
  k2 = k2
  k3 = k3
  k4 = k4
  Key <- MCKey
  N = 3
  Hash <- MCHash
  DefaultKey = k1
  Null = Null
INVARIANTS
  ChainsSound
  FreeSlotsReady
  IterationExact
PROPERTIES
  SlotsStable
  ImplementsBoundedSet
