SPECIFICATION ConsensusSpec
CONSTANTS
  Nodes = {n1, n2}
  NoNode = NoNode
  Ids = {b1, b2}
  ChanCap = 1
  MaxFaults = 2

  
PROPERTIES
  CatchUp
CHECK_DEADLOCK FALSE
