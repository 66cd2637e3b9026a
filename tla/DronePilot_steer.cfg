SPECIFICATION Spec
CONSTANTS
  MaxFound = 2
  Classes = {"normal", "fist", "left"}
INVARIANT StoppedMeansStill
PROPERTIES ArmStops GoMeansDriving
CHECK_DEADLOCK FALSE
