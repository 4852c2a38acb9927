SPECIFICATION Spec
CONSTANTS
  p1 = p1
  r1 = r1
  r2 = r2
  d1 = d1
  l1 = l1
  k1 = k1
  c1 = c1
  c2 = c2
  None = None
  Projects <- MCProjects
  Runs <- MCRuns
  Datasets <- MCDatasets
  Leases <- MCLeases
  Parents <- MCRuns
  Altering = TRUE
  InitialPolicy = "initial"
  StaleAfter = 1
  Clients <- MCClients
  Keys <- MCKeys
  Specs <- TwoSpecs
  Policies = {"initial", "updated"}
  MaxTime = 2
SYMMETRY Symmetry
CONSTRAINT Limited
CHECK_DEADLOCK FALSE
INVARIANTS
  SnapshotsPresent
  AnswersMatchRequests
  ResumedRunsStayEnded
