SPECIFICATION Spec
CONSTANTS
  Fetches = {f1}
  Callers <- MCCallers
  MaxOpenPages = 1
  MaxConcurrency = 1
  Drivers = {d1, d2}
  User = User
  Closer = Closer
  Nobody = Nobody
  None = None
INVARIANT AcloseClosesRetainedPages
CHECK_DEADLOCK FALSE
