SPECIFICATION FairSpec
CONSTANTS
  Fetches = {f1, f2}
  v1 = v1
  v2 = v2
  Versions <- MCVersions
  Tagged <- MCTagged
  MaxAttempts = 2
  Expiring = TRUE
  Limiters = {"HostLimiter", "other"}
  Torn = Torn
  None = None
INVARIANTS
  TypeOK
  AnswersAreWhole
  RevalidatedIsCurrent
PROPERTY
  FetchesEnd
