\* The start-up table of networks, then commands of either user.
CONSTANTS
  NNets = 2
  Commands = {"connect", "disconnect", "roleup", "roledown", "apup", "apdown"}
  MaxCmds = 3
  MaxLosses = 1
SPECIFICATION MCSpec
CHECK_DEADLOCK FALSE
INVARIANTS
  MCStatusTrue
  NeverAsserts
  InterfaceTrue
PROPERTIES
  CommandsReturn
