CONSTANTS
  NNets = 2
  Commands = {"connect", "disconnect", "roledown"}
  MaxCmds = 2
  MaxLosses = 1
SPECIFICATION Spec
CHECK_DEADLOCK FALSE
INVARIANTS
  StatusTrue
