SPECIFICATION Spec
CONSTANTS
  Records = 3
  v1 = v1
  p1 = p1
  None = None
  Validators <- MCValidators
  Recognizers <- MCRecognizers
  Setups <- Approved
  Rows = 3
  ChunkSize = 2
  Kinds = {"audit", "refine", "evolve", "dpo", "classify", "augment"}
  Own <- MCOwn
  Confs <- MCConfs
  MaxRpm = 1
  Slots = 2
  MaxRetries = 2
  Window = 2
CONSTRAINT MCExplored
CHECK_DEADLOCK FALSE
INVARIANTS
  RecognizersNeverSkipped
