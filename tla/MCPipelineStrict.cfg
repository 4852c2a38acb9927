SPECIFICATION Spec
CONSTANTS
  r1 = r1
  r2 = r2
  None = None
  Again = FALSE
  Rows <- TwoRows
  Inputs <- AllInputs
  Configs <- StrictOnly
SYMMETRY Symmetry
CHECK_DEADLOCK FALSE
INVARIANTS
  StrictKeepsLabelledRows
