SPECIFICATION Spec
CONSTANTS
  Runs = {r1, r2}
  Requests <- RetryRequests
  Site <- MCSite
  Words <- MCWords
  MaxEntries = 1
  ArtifactManager = FALSE
  None = None
  MaxChunk = 8
  MinChunk = 2
INVARIANTS
  RetryLogsIn
CHECK_DEADLOCK FALSE
