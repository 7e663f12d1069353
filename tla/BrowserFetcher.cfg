SPECIFICATION Spec
CONSTANTS
  Fetches = {f1, f2, f3}
  Callers <- MCCallers
  MaxOpenPages = 1
  MaxConcurrency = 2
  Drivers = {d1, d2}
  User = User
  Closer = Closer
  Nobody = Nobody
  None = None
SYMMETRY Symmetry
INVARIANTS
  TypeOK
  EveryPageHasAnOwner
  OpenPagesBounded
  RunningDriverIsHeld
  QuietAcloseLeavesNothing
CHECK_DEADLOCK FALSE
