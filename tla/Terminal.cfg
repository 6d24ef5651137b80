\* Two clients and two leases; five list nodes; three history slots; two handles.
CONSTANTS
  DhcpClients = {a, b}
  MaxLease = 2
  HalfHosts = 4
  ApAddrs <- MCApAddrs
  Ranges <- MCRanges
  Foreign <- MCForeign
  VieRoles = {ap, sta}
  Nodes = {n1, n2, n3, n4, n5}
  Lines = {"", "a", "b", "long"}
  HistoryLen = 3
  BleFiles = {"our_sec"}
  WlanFiles = {"conn_p", ".fast"}
  Data = {d}
  Manifests <- MCManifests
  Open = 2
  MaxBoots = 1
SPECIFICATION MCSpec
CHECK_DEADLOCK FALSE
INVARIANTS
  DhcpSafe
  KeepsWhatWasGiven
  ParserSafe
PROPERTIES
  OthersKeepLeases
