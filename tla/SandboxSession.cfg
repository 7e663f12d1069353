SPECIFICATION Spec
CONSTANTS
  Containers = {c1, c2, c3}
  NoContainer = NoContainer
  Controller <- MCController
  Commands <- MCCommands
SYMMETRY Symmetry
INVARIANTS
  TypeOK
  UpMeansStartedInThisSession
  NothingLeftBehind
  OnlyGoneContainersBlockClose
