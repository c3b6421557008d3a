SPECIFICATION Spec
CONSTANTS
  N = 2
  Requests <- MCRequests
  Unsafe <- MCUnsafe
  Admins <- MCAdmins
  Threshold = 2
  MaxFaults = 1
  get = get
  post = post
  op = op
INVARIANTS
  ProxyInv
  AtMostOnce
PROPERTIES
  Completes
  HealthConverges
CHECK_DEADLOCK FALSE
