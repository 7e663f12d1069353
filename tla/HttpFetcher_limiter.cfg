SPECIFICATION Spec
CONSTANTS
  Fetches = {f1}
  v1 = v1
  v2 = v2
  Versions <- MCVersions
  Tagged <- MCTagged
  MaxAttempts = 2
  Expiring = TRUE
  Limiters = {"HostLimiter"}
  Torn = Torn
  None = None
PROPERTY
  LimiterOnlyDelays
