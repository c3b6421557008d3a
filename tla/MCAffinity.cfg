SPECIFICATION AffinitySpec
CONSTANTS
  Ids = {1, 2}
  RingSize = 8
  Pos <- MCPos
  Keys = {0, 4}
  VnodesPerServer = 1
  BetaNum = 5
  BetaDen = 4
  ThrNum = 13
  ThrDen = 10
  AdjustEveryN = 1
  CallerCounts = {1}
  MaxVnodes = 1
  MaxInflight = 1
  Sessions = {s1, s2}
  Callers = {c1, c2}
  MaxSize = 2
  MaxExpirers = 1
INVARIANTS
  AffinityInv
SYMMETRY MCSymmetry
PROPERTIES
  PinImmutable
