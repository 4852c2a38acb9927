SPECIFICATION Spec
CONSTANTS
  Classes = {"x", "y"}
  MaxRows = 4
  MaxParts = 3
  MaxFailures = 2
  Configurations <- MCConfigurations
  Globbing = FALSE
  None = None
  Seeds = {17, 29}
  Top = 2
  MinimumGain = 0
  RelativeGain <- MCRelativeGain
  Labels = {"x", "y"}
  MaxIterations = 2
  MaxAttempts = 2
  Nothing = Nothing
INVARIANTS
  RowsOnceThroughShards
  DuplicatesRepresented
  GatesHonest
CONSTRAINT MCExplored
CHECK_DEADLOCK FALSE
