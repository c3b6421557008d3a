SPECIFICATION CircuitSpec
CONSTANTS
  CPUs = {p1, p2, p3}
  Threshold = 2
  ErrorFlags = {0, 1}
PROPERTIES
  ClosesWhenWell
  ManagerConverges
