SPECIFICATION FairSpec
CONSTANTS
  Fetches = {f1, f2}
  loginPage = loginPage
  landingPage = landingPage
  articlePage = articlePage
  None = None
  NoFile = NoFile
  Torn = Torn
CONSTANTS
  Pages <- MCPages
  Walls <- MCWalls
  Look <- MCLook
INVARIANTS TypeOK LoginIsKept AnswersTellTheTruth
PROPERTY FetchesEnd
CHECK_DEADLOCK FALSE
