SPECIFICATION Spec
CONSTANTS
  r1 = r1
  r2 = r2
  r3 = r3
  i1 = i1
  i2 = i2
  None = None
  Runs <- MCRuns
  Identities <- MCIdentities
  Stages = 2
  Outcomes = {"succeeded", "interrupted"}
  CallerParents = TRUE
SYMMETRY Symmetry
CHECK_DEADLOCK FALSE
INVARIANTS
  NoForeignWork
  ResumeKeepsProgress
