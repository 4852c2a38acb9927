SPECIFICATION FairSpec
CONSTANTS
  p1 = p1
  p2 = p2
  r1 = r1
  r2 = r2
  d1 = d1
  l1 = l1
  l2 = l2
  w1 = w1
  local = local
  None = None
  Projects <- OneProject
  Runs <- MCRuns
  Datasets <- MCDatasets
  Leases <- MCLeases
  Specs <- MCSpecs
  Policies = {"initial"}
  InitialPolicy = "initial"
  StaleAfter = 1
  MaxTime = 0
  HttpWorkers <- MCHttpWorkers
  LocalRunners <- MCLocalRunners
  Outcomes = {"good", "bad", "failed"}
  MaxFaults = 1
  Recoveries = FALSE
  Misconfigured = {}
CHECK_DEADLOCK FALSE
INVARIANTS
  OneExecutorPerProject
PROPERTIES
  ClaimedRunsEnd
  CancellationStopsExecutor
