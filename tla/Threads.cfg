SPECIFICATION FairProgram
CONSTANTS
  Upper = 7
  Cores = 2
  Stride = 2
  Tasks = 5
  Amounts = {1, 2}
  Reserve = 2
  Modulus = 16
INVARIANTS
  WatcherOutlivesWorkers
  ReportsHonest
  NoThreadOutlivesSet
PROPERTIES
  ReportsMonotone
  LoopEndMeansDone
  WatcherEnds
  NonePassesEarly
  MainEnds
