--------------------------------- MODULE ApPeers ---------------------------------
(* The access point's peers: network_terminal.c counts the ADD_PEER and REMOVE_PEER  *)
(* events of the driver and keeps STATUS_BIT_PEER_CONNECTED from the count; the role *)
(* commands of wlan_cmd.c clear the bit and leave the count alone.                   *)
EXTENDS Integers, Sequences, FiniteSets

CONSTANTS Peers,     \* stations that may join the access point
          CountMod,  \* 2^32: the count is unsigned
          MaxTold    \* bound: peer events under way

VARIABLES apRole,    \* the access point's role is up
          inAp,      \* the driver: the stations that are in
          told,      \* peer events that wait for the event thread
          stations,  \* ConnectedStations
          peerBit,   \* STATUS_BIT_PEER_CONNECTED
          unmatched  \* the driver dropped stations without an event for each

apVars == <<apRole, inAp, told, stations, peerBit, unmatched>>

Init ==
  /\ apRole = FALSE /\ inAp = {} /\ told = <<>> /\ stations = 0
  /\ peerBit = FALSE /\ unmatched = FALSE

\* cmdWlanRoleUpApCallback: the bit is cleared before the driver may refuse.
RoleUp ==
  /\ ~apRole
  /\ peerBit' = FALSE
  /\ apRole' \in BOOLEAN
  /\ UNCHANGED <<inAp, told, stations, unmatched>>

\* cmdWlanRoleDownApCallback: the driver drops the stations, each with its event or
\* without, before the command clears the bit.
RoleDown ==
  /\ apRole /\ apRole' = FALSE
  /\ \/ told' = told \o [k \in 1..Cardinality(inAp) |-> "remove"] /\ UNCHANGED unmatched
     \/ inAp # {} /\ unmatched' = TRUE /\ UNCHANGED told
  /\ inAp' = {}
  /\ peerBit' = FALSE
  /\ UNCHANGED stations

\* The driver: a station joins or leaves.
PeerJoins ==
  /\ apRole /\ Len(told) < MaxTold
  /\ \E p \in Peers \ inAp : inAp' = inAp \cup {p}
  /\ told' = Append(told, "add")
  /\ UNCHANGED <<apRole, stations, peerBit, unmatched>>

PeerLeaves ==
  /\ Len(told) < MaxTold
  /\ \E p \in inAp : inAp' = inAp \ {p}
  /\ told' = Append(told, "remove")
  /\ UNCHANGED <<apRole, stations, peerBit, unmatched>>

\* Mutant: the bit goes with the first station that leaves.
RemovePeerClears ==
  /\ told # <<>> /\ Head(told) = "remove"
  /\ stations' = (stations - 1) % CountMod
  /\ peerBit' = FALSE
  /\ told' = Tail(told)
  /\ UNCHANGED <<apRole, inAp, unmatched>>

\* WLAN_EVENT_ADD_PEER and WLAN_EVENT_REMOVE_PEER.
AddPeer ==
  /\ told # <<>> /\ Head(told) = "add"
  /\ stations' = (stations + 1) % CountMod
  /\ peerBit' = TRUE
  /\ told' = Tail(told)
  /\ UNCHANGED <<apRole, inAp, unmatched>>

RemovePeer ==
  /\ told # <<>> /\ Head(told) = "remove"
  /\ stations' = (stations - 1) % CountMod
  /\ peerBit' = IF stations' = 0 THEN FALSE ELSE peerBit
  /\ told' = Tail(told)
  /\ UNCHANGED <<apRole, inAp, unmatched>>

Next == RoleUp \/ RoleDown \/ PeerJoins \/ PeerLeaves \/ AddPeer \/ RemovePeer

Spec == Init /\ [][Next]_apVars

\* Once every event is handled, the bit says whether a station is in and the count how
\* many, across role changes whose events come late; unless the driver ever dropped
\* stations without an event for each, which the count never recovers from
\* (network_terminal.c:615).
PeersCounted ==
  told = <<>> /\ ~unmatched => stations = Cardinality(inAp) /\ (peerBit <=> inAp # {})
=============================================================================
