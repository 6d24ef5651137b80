------------------------------- MODULE MCRadio -------------------------------
(* The radio commands of the terminal for TLC: Bluetooth LE, Wi-Fi Direct, CSI,  *)
(* the interfaces, the access point's peers and the scan.  Each has state of its *)
(* own; the first state picks the one that runs.                                 *)
EXTENDS Integers, Sequences, FiniteSets

CONSTANTS BleHandles, MaxConns, MaxScan, MaxLinks, MaxAttempts, MaxFinds, Peers,
          CountMod, MaxTold, MaxScans

\* The driver takes far fewer stations than an unsigned counts.
ASSUME RadioAssumption ==
  IsFiniteSet(Peers) /\ CountMod \in Nat /\ Cardinality(Peers) < CountMod

\* BLE_HS_CONN_HANDLE_NONE is the handle of no connection.
ASSUME BleAssumption ==
  MaxConns \in Nat /\ MaxScan \in Nat /\ "none" \notin BleHandles

VARIABLE part
VARIABLES
  host, syncObj, late, bleCmd, bleEvt, table, conns, links, reports, adv, scan,
  made, overlap,
  device, groupBit, groupType, netIf, tokens, findObj, findWait, p2pCmd, p2pEvt,
  radio, scanning, events, tries, finds, unanswered, misused,
  csiCmd, puller, handle, wake, gone, keep, exit, gaveUp, touched,
  sta, apUp, goBit, ipMode, client, acquired, tuya, joined, netEvt,
  apRole, inAp, told, stations, peerBit, unmatched,
  scanCmd, scanDone, scanRuns, scanNo, lost, results, said

Ble     == INSTANCE BleHost
P2p     == INSTANCE WifiDirect
Csi     == INSTANCE CsiThread
Net     == INSTANCE NetIf WITH groupBit <- goBit
Ap      == INSTANCE ApPeers
Scan    == INSTANCE WlanScan

bleVars  == <<host, syncObj, late, bleCmd, bleEvt, table, conns, links, reports,
               adv, scan, made, overlap>>
p2pVars  == <<device, groupBit, groupType, netIf, tokens, findObj, findWait, p2pCmd,
               p2pEvt, radio, scanning, events, tries, finds, unanswered, misused>>
csiVars  == <<csiCmd, puller, handle, wake, gone, keep, exit, gaveUp, touched>>
netVars  == <<sta, apUp, goBit, ipMode, client, acquired, tuya, joined, netEvt>>
apVars   == <<apRole, inAp, told, stations, peerBit, unmatched>>
scanVars == <<scanCmd, scanDone, scanRuns, scanNo, lost, results, said>>

MCInit ==
  /\ part \in {"ble", "p2p", "csi", "net", "peers", "scan"}
  /\ Ble!Init
  /\ P2p!Init
  /\ Csi!Init
  /\ Net!Init
  /\ Ap!Init
  /\ Scan!Init

MCNext ==
  /\ part' = part
  /\ \/ /\ part = "ble" /\ Ble!Next
        /\ UNCHANGED <<p2pVars, csiVars, netVars, apVars, scanVars>>
     \/ /\ part = "p2p" /\ P2p!Next
        /\ UNCHANGED <<bleVars, csiVars, netVars, apVars, scanVars>>
     \/ /\ part = "csi" /\ Csi!Next
        /\ UNCHANGED <<bleVars, p2pVars, netVars, apVars, scanVars>>
     \/ /\ part = "net" /\ Net!Next
        /\ UNCHANGED <<bleVars, p2pVars, csiVars, apVars, scanVars>>
     \/ /\ part = "peers" /\ Ap!Next
        /\ UNCHANGED <<bleVars, p2pVars, csiVars, netVars, scanVars>>
     \/ /\ part = "scan" /\ Scan!Next
        /\ UNCHANGED <<bleVars, p2pVars, csiVars, netVars, apVars>>

MCSpec ==
  /\ MCInit /\ [][MCNext]_<<part, bleVars, p2pVars, csiVars, netVars, apVars, scanVars>>
  /\ WF_bleVars(part = "ble" /\ Ble!BleStartEnds)
  /\ WF_bleVars(part = "ble" /\ Ble!DisconnectAllStep)
  /\ WF_bleVars(part = "ble" /\ Ble!HostStep)
  /\ WF_p2pVars(part = "p2p" /\ P2p!EventStep)
  /\ WF_p2pVars(part = "p2p" /\ P2p!CommandGoesOn)
  /\ WF_csiVars(part = "csi" /\ Csi!PullerStep)
  /\ WF_csiVars(part = "csi" /\ Csi!Wakes)
  /\ WF_csiVars(part = "csi" /\ (Csi!DeinitTimesOut \/ Csi!DeinitDone))
  /\ WF_netVars(part = "net" /\ Net!EventStep)
  /\ WF_netVars(part = "net" /\ Net!Bound)

\* The table of connections is true, results stay in theirs, and a start's sync object is
\* its own (nimble_host.c:571, 664, 1421).
BleSafe == part = "ble" => Ble!TableTrue /\ Ble!ScanInTable /\ Ble!SyncObjOfStart

\* The P2P group, its status bits and its interface agree once things are quiet, and no
\* event runs into an assertion or a deleted object (network_terminal.c:713, 775,
\* wlan_cmd.c:4986).
P2pSafe ==
  part = "p2p" => P2p!GroupStateAgrees /\ P2p!GroupStartNeverAsserts /\ P2p!FindStopLeavesNothing

\* The CSI thread never uses a sync object that was deleted (wlan_cmd.c:4045).
CsiSafe == part = "csi" => Csi!PullerKeepsObjects

\* A station without an address has a DHCP client that asks for one, an interface that
\* was removed stays down, and an address has Tuya's start tried (network_lwip.c:409, 716,
\* network_terminal.c:1328).
NetSafe ==
  part = "net" => Net!ClientRunsWhenNeeded /\ Net!TuyaTried /\ Net!RemovedStaysDown

\* The peer bit and count are right once every event is handled, and a scan that
\* succeeds left its own results (network_terminal.c:615, wlan_cmd.c:1831).
PeersAndScan ==
  /\ part = "peers" => Ap!PeersCounted
  /\ part = "scan" => Scan!ScanAnswersOwn

\* Every wait ends: disconnecting all BLE peers, a P2P command, a reader that was told to
\* read or to stop, a station that asks for an address (nimble_host.c:1152,
\* wlan_cmd.c:3824, 4918, network_lwip.c:409).
WaitsEnd ==
  /\ Ble!DisconnectAllEnds
  /\ P2p!P2pCommandsReturn
  /\ Csi!ReadsWhenAsked /\ Csi!StopsReading
  /\ Net!GetsAddress
=============================================================================
