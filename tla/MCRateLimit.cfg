SPECIFICATION Spec
CONSTANTS
  Backends <- MCBackends
  Addresses <- MCAddresses
  Allowlist <- MCAllowlist
  stranger = stranger
  b1 = b1
  ip = ip
  Q = 2
  InitRps = 10
  FirstLimit = 12
  MinRps = 10
  MaxRps = 14
  Floor = 10
  Limit = 2
  Window = 3
  MaxTime = 6
INVARIANTS
  AdmissionBounded
  AdminBounded
CHECK_DEADLOCK FALSE
