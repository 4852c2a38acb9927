SPECIFICATION Spec
CONSTANTS
  p1 = p1
  p2 = p2
  r1 = r1
  r2 = r2
  d1 = d1
  l1 = l1
  l2 = l2
  w1 = w1
  local = local
  None = None
  Projects <- TwoProjects
  Runs <- MCRuns
  Datasets <- MCDatasets
  Leases <- MCLeases
  Specs <- MCSpecs
  Policies = {"initial", "changed"}
  InitialPolicy = "initial"
  StaleAfter = 1
  MaxTime = 2
  HttpWorkers <- MCHttpWorkers
  LocalRunners <- MCLocalRunners
  Outcomes = {"good", "bad", "failed"}
  MaxFaults = 1
  Recoveries = TRUE
  Misconfigured <- InvalidEntries
SYMMETRY Symmetry
CONSTRAINTS
  UpdatesWithoutFaults
  UpdatesWhereTheDataIs
CHECK_DEADLOCK FALSE
INVARIANTS
  PublishedWasVerified
  AttendedUntilEnd
