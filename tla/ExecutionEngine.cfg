SPECIFICATION FairSpec
CONSTANTS
  MaxSteps = 3
  Plans <- EnginePlans
  SupportedKinds = {"run_command"}
INVARIANTS
  TypeOK
  RanAfterDependencies
  RecordsAgree
  VerdictFollowsFromSteps
PROPERTIES
  ImplementsDependencyRun
  EndsOrExecutorHangs
