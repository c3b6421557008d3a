SPECIFICATION HealthSpec
CONSTANTS
  FailThreshold = 2
  MinSuccesses = 2
  Checks = {c1, c2}
  MaxEndpoints = 2
INVARIANTS
  HealthInv
PROPERTIES
  DownWhenDead
  RecoversUndisturbed
