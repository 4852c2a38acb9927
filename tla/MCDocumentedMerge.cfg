SPECIFICATION Spec
CONSTANTS
  Classes = {"x", "y"}
  MaxRows = 4
  MaxParts = 3
  MaxFailures = 2
  Configurations <- MCOptimized
  Globbing = TRUE
  None = None
  Seeds = {17, 29}
  Top = 2
  MinimumGain = 0
  RelativeGain <- MCRelativeGain
  Labels = {"x", "y"}
  MaxIterations = 3
  MaxAttempts = 2
  Nothing = Nothing
INVARIANT RejectedStayOut
CONSTRAINT MCExplored
CHECK_DEADLOCK FALSE
