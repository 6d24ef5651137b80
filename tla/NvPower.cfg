\* One loss of power, anywhere.
CONSTANTS
  NP = 3
  Cap = 2
  Keys = {k1, k2}
  Values <- MCOneValue
  NoValue = NoValue
  MaxCrashes = 1
  CrashIn = {"idle", "call", "compaction", "boot"}
  MaxFails = 0
  Small = 1
SPECIFICATION LiveSpec
CHECK_DEADLOCK FALSE
INVARIANTS
  NeverStuck
PROPERTIES
  Durable
  
