SPECIFICATION Spec
CONSTANTS
  Registry <- MCRegistry
  StepKinds <- MCStepKinds
  ExecutorKinds <- MCExecutorKinds
  Operators = {"known"}
  Drafts <- MCDrafts
  Requests <- MCRequests
  Validators <- MCValidators
  MaxIteration = 1
  None = None
INVARIANTS
  TypeOK
  StepsRunWereAdmitted
  EngineGetsAPlan
  ReportTellsOneStory
  RunsAreDistinct
