SPECIFICATION SlowStartSpec
CONSTANTS
  Ids = {1, 2}
  RingSize = 8
  Pos <- MCPos
  Keys = {0}
  VnodesPerServer = 3
  BetaNum = 5
  BetaDen = 4
  ThrNum = 13
  ThrDen = 10
  AdjustEveryN = 1
  CallerCounts = {1}
  MaxVnodes = 4
  MaxInflight = 1
  MaxMoves = 1
  BatchSize = 2
INVARIANTS
  SlowStartInv
PROPERTIES
  RampEnds
  OnlyFinishedRampsEnd
