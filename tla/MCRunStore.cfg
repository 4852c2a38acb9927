SPECIFICATION Spec
CONSTANTS
  p1 = p1
  r1 = r1
  r2 = r2
  d1 = d1
  d2 = d2
  l1 = l1
  l2 = l2
  k1 = k1
  None = None
  Projects <- MCProjects
  Runs <- MCRuns
  Datasets <- MCDatasets
  Leases <- MCLeases
  Keys <- MCKeys
  Specs <- MCSpecs
  Bodies <- MCBodies
  Policies <- MCPolicies
  Manifests <- MCManifests
  InitialPolicy = "initial"
  StaleAfter = 2
  MaxTime = 4
SYMMETRY Symmetry
CHECK_DEADLOCK FALSE
INVARIANTS
  TypeOK
  SlotMatchesRun
  LeaseFencing
  CancellationWins
  OneRunPerKey
  DatasetsRetained
  InterruptedWasStale
  EventsExplainStatus
PROPERTIES
  HistoryIsFinal
  ImplementsLifecycle
