\* One LED and one button; cloud writes, one press, one reconnection.
CONSTANTS
  Leds = {led}
  Btns = {btn}
  Alarm = alarmDP
  QLen = 1
  MaxSets = 2
  MaxPresses = 1
  MaxDrops = 1
SPECIFICATION MCSpec
INVARIANTS
  PanelFollows
  PanelButtons
  SirenSilent
PROPERTIES
  SirenFlashes
  SirenStops
  Converges
