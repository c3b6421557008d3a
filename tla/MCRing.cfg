SPECIFICATION FairRingSpec
CONSTANTS
  Ids = {1, 2}
  RingSize = 8
  Pos <- MCPos
  Keys = {0, 3}
  VnodesPerServer = 2
  BetaNum = 5
  BetaDen = 4
  ThrNum = 13
  ThrDen = 10
  AdjustEveryN = 2
  CallerCounts = {3}
  MaxVnodes = 3
  MaxInflight = 2
INVARIANTS
  RingInSync
  NoBlackout
  ActiveReqsAccounted
PROPERTIES
  RoutesToAvailable
  MinimalDisruption
  DrainsToZero
