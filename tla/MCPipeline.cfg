SPECIFICATION Spec
CONSTANTS
  r1 = r1
  r2 = r2
  None = None
  Again = TRUE
  Rows <- TwoRows
  Inputs <- AllInputs
  Configs <- AllConfigs
CONSTRAINT ReuseWithDefaults
INVARIANTS
  RowsConserved
  OutputsAgree
  OnlyRedactedRowsAreSent
  StrictKeepsLabelledDatasets
PROPERTIES
  ProgressIsKept
