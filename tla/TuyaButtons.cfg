\* One button with the real ring: 8 slots, 8-bit counters.
CONSTANTS
  NButtons = 1
  QLen = 8
  Wrap = 256
  StablePolls = 2
SPECIFICATION LiveSpec
INVARIANTS
  TypeOK
  RingBounded
  SlotExclusive
  QueuedArePresses
  Debounced
PROPERTIES
  AcceptsOnlyStable
  ImplementsEvents
  Settles
