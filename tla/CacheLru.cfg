SPECIFICATION Spec
CONSTANTS
  Key = {k1, k2, k3}
  Val = {v0, v1}
  Addr = {a1, a2, a3}
  MaxCost = 4
  Cost = {1, 2, 3, 4, 5}
  DefaultVal = v0
  NoKey = NoKey
  Policy = "lru"
SYMMETRY Symmetry
INVARIANTS
  Coherent
  CostExact
  WithinBudget
  TrimmingEnds
PROPERTIES
  IndexYieldsKey
  ImplementsRecencyCache
