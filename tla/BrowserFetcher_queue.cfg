SPECIFICATION FairSpec
CONSTANTS
  Fetches = {f1, f2}
  Callers <- MCCallers
  MaxOpenPages = 1
  MaxConcurrency = 1
  Drivers = {d1, d2}
  User = User
  Closer = Closer
  Nobody = Nobody
  None = None
PROPERTIES
  FetchesEnd
  AcloseEnds
CHECK_DEADLOCK FALSE
