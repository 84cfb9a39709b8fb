SPECIFICATION Spec
CONSTANTS
  Requests = {r1, r2}
  Second = 2
  globalMaxRequests = 1
  globalWindow = 2
  loginMaxRequests = 1
  loginWindow = 2
  loginMaxFailures = 2
  loginFailureWindow = 4
  loginLockout = 4
  MaxDelay = 1
  MaxHistory = 4
SYMMETRY Symmetry
INVARIANTS
  QuotaExact
  LockoutSound
CHECK_DEADLOCK FALSE
