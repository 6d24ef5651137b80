\* Two peers or links, enough commands for each to be given again.
CONSTANTS
  BleHandles = {h1, h2}
  MaxConns = 2
  MaxScan = 1
  MaxLinks = 2
  MaxAttempts = 2
  MaxFinds = 2
  Peers = {p1, p2}
  CountMod = 8
  MaxTold = 4
  MaxScans = 3
SPECIFICATION MCSpec
CHECK_DEADLOCK FALSE
INVARIANTS
  BleSafe
  P2pSafe
  CsiSafe
  NetSafe
  PeersAndScan
PROPERTIES
  WaitsEnd
