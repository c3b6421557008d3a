SPECIFICATION ConsensusSpec
CONSTANTS
  Nodes = {n1, n2}
  NoNode = NoNode
  Ids = {b1}
  ChanCap = 1
  MaxFaults = 2
PROPERTIES
  Failover
CHECK_DEADLOCK FALSE
