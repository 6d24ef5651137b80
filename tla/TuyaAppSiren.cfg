\* No button: what the comment above siren_task says of the pins when off.
CONSTANTS
  Leds = {led}
  Btns = {}
  Alarm = alarmDP
  QLen = 1
  MaxSets = 2
  MaxPresses = 0
  MaxDrops = 0
SPECIFICATION Spec
INVARIANTS
  SirenHeldLow
