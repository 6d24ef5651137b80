\* One loss of power during a write.
CONSTANTS
  NP = 3
  Cap = 2
  Keys = {k1}
  Values <- MCValues
  NoValue = NoValue
  MaxCrashes = 1
  CrashIn = {"call"}
  MaxFails = 0
  Small = 1
SPECIFICATION LiveSpec
CHECK_DEADLOCK FALSE
PROPERTIES
  Completes
