\* Two items of two sizes without a loss of power; one item with two losses;
\* two items of which two writes fail.
CONSTANTS
  NP = 3
  Cap = 3
  Keys = {k1, k2}
  PowerKeys = {k3}
  FaultyKeys = {k4, k5}
  Values <- MCSizes
  NoValue = NoValue
  MaxCrashes = 0
  CrashIn = {}
  MaxFails = 0
  Small = 1
SPECIFICATION MCSpec
CHECK_DEADLOCK FALSE
SYMMETRY Sym
INVARIANTS
  MCItemsUnique
PROPERTIES
  MCImplementsMap
  MCFailsOnlyWhenFull
