SPECIFICATION FairSpec
CONSTANTS
  Runs = {r1, r2}
  Requests <- MCRequests
  Site <- MCSite
  Words <- MCWords
  MaxEntries = 1
  ArtifactManager = TRUE
  None = None
  MaxChunk = 8
  MinChunk = 2
INVARIANTS
  TypeOK
  AnswerFits
  CacheSound
  FallbackGetsOn
PROPERTIES
  HeldAnswersAreStable
  RunsEnd
CHECK_DEADLOCK FALSE
