\* One loss of power in a compaction, items of two sizes on larger pages.
CONSTANTS
  NP = 3
  Cap = 3
  Keys = {k1, k2}
  Values <- MCShortOrLong
  NoValue = NoValue
  MaxCrashes = 1
  CrashIn = {"compaction"}
  MaxFails = 0
  Small = 1
SPECIFICATION Spec
CHECK_DEADLOCK FALSE
PROPERTIES
  Durable
