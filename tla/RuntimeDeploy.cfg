SPECIFICATION Spec
CONSTANTS
  j1 = j1
  j2 = j2
  t1 = t1
  t2 = t2
  Jobs = {j1, j2}
  Tasks = {t1, t2}
  Owners = {t1, t2}
  TaskOf <- MCTaskOf
  KindSets <- MCKindSets
  Names <- MCNames
  HostIds = {h1, h2}
  HostNames = {"local", "none"}
  NoName = "none"
  EngineId = "engine"
  ImageIds = {i1, i2}
  ContainerIds = {c1, c2}
  MaxRounds = 2
  Torn = Torn
  None = None
INVARIANTS
  TypeOK
  LatestRowDescribesItsFile
  ReadyDeploymentIsBacked
  RegistryKnowsContainers
SYMMETRY Symmetric
CHECK_DEADLOCK FALSE
