------------------------------- MODULE WifiDirect -------------------------------
(* Wi-Fi Direct: the P2P commands of wlan_cmd.c (the command thread), the P2P      *)
(* events of network_terminal.c (the WLAN event thread) and the driver between     *)
(* them, which forms and removes groups and reports both later.                    *)
EXTENDS Integers, Sequences

CONSTANTS MaxAttempts, \* bound: p2p_connect commands
          MaxFinds     \* bound: p2p_find and p2p_find_stop commands

VARIABLES device,    \* NET_IF_DEVICE_BIT
          groupBit,  \* STATUS_BIT_P2P_GROUP_STARTED
          groupType, \* app_CB.P2pGroupType: none, go, client
          netIf,     \* per interface: its NET_IF bit and whether it is up in lwIP
          tokens,    \* binary sync objects: staRoleup, connect, disconnect
          findObj,   \* p2p_find_stopped_syncObj: none, empty, signalled
          findWait,  \* g_wait_p2p_scan_complete
          p2pCmd,    \* the command thread
          p2pEvt,    \* the event thread: the event it handles and how far it is
          radio,     \* the driver: idle, joining, go, client
          scanning,  \* the driver: a P2P scan runs
          events,    \* events that wait for the event thread
          tries, finds, unanswered, \* commands so far; a find stop gave up waiting
          misused    \* the event thread signalled a deleted object; it asserted

p2pVars == <<device, groupBit, groupType, netIf, tokens, findObj, findWait, p2pCmd, p2pEvt,
             radio, scanning, events, tries, finds, unanswered, misused>>
stateOfGroup == <<device, groupBit, groupType, netIf>>
counters == <<tries, finds, unanswered, scanning>>

NoEvent == [what |-> "none", at |-> "none"]
Event(what) == [what |-> what, at |-> "begin"]
Down == [bit |-> FALSE, up |-> FALSE]
Sync == {"staRoleup", "connect", "disconnect"}

Init ==
  /\ device = FALSE /\ groupBit = FALSE /\ groupType = "none"
  /\ netIf = [i \in {"sta", "ap"} |-> Down]
  /\ tokens = [s \in Sync |-> FALSE]
  /\ findObj = "none" /\ findWait = FALSE
  /\ p2pCmd = "idle" /\ p2pEvt = NoEvent
  /\ radio = "idle" /\ events = <<>>
  /\ scanning = FALSE
  /\ tries = 0 /\ finds = 0 /\ unanswered = FALSE
  /\ misused = {}

\* The driver gives up what it has: a group it formed is reported as removed, by the
\* role it had or as the device role.
Removals == {"removedDevice"} \cup
  (IF radio = "go" THEN {"removedGo"} ELSE IF radio = "client" THEN {"removedClient"} ELSE {})

GroupGone ==
  /\ radio' = "idle"
  /\ IF radio \in {"go", "client"} THEN \E r \in Removals : events' = Append(events, r)
                                   ELSE UNCHANGED events

-----------------------------------------------------------------------------
(* The command thread.                                                         *)

\* cmdWlanRoleUpP2PCallback: refused while a role of another kind is up.
RoleUpP2P ==
  /\ p2pCmd = "idle" /\ ~device /\ ~netIf["sta"].bit /\ ~netIf["ap"].bit
  /\ device' \in BOOLEAN
  /\ UNCHANGED <<groupBit, groupType, netIf, tokens, findObj, findWait, p2pCmd, p2pEvt, radio, events,
                 counters, misused>>

\* cmdWlanRoleDownP2PCallback: the group is removed, then the role goes down or not.
RoleDownP2P ==
  /\ p2pCmd = "idle" /\ device
  /\ GroupGone
  /\ device' \in BOOLEAN
  /\ UNCHANGED <<groupBit, groupType, netIf, tokens, findObj, findWait, p2pCmd, p2pEvt, counters, misused>>

\* cmdWlanP2PGrpRemoveCallback.
GrpRemove ==
  /\ p2pCmd = "idle" /\ device /\ radio \in {"go", "client"}
  /\ GroupGone
  /\ UNCHANGED <<stateOfGroup, tokens, findObj, findWait, p2pCmd, p2pEvt, counters, misused>>

\* cmdWlanP2PConnectCallback: it leaves the network first, if there is one to leave.
ConnectBegin ==
  /\ p2pCmd = "idle" /\ device /\ tries < MaxAttempts
  /\ tokens' = [tokens EXCEPT !["disconnect"] = FALSE]
  /\ tries' = tries + 1
  /\ \/ /\ radio = "client" /\ radio' = "idle"
        /\ \E r \in Removals : events' = events \o <<"disconnected", r>>
        /\ p2pCmd' = "leaving"
     \/ /\ p2pCmd' = "clear" /\ UNCHANGED <<radio, events>>
  /\ UNCHANGED <<stateOfGroup, findObj, findWait, p2pEvt, finds, unanswered, scanning, misused>>

ConnectLeft ==
  /\ p2pCmd = "leaving" /\ tokens["disconnect"]
  /\ tokens' = [tokens EXCEPT !["disconnect"] = FALSE]
  /\ p2pCmd' = "clear"
  /\ UNCHANGED <<stateOfGroup, findObj, findWait, p2pEvt, radio, events, counters, misused>>

\* The connect token is cleared and the driver asked, which may refuse.
ConnectCall ==
  /\ p2pCmd = "clear"
  /\ tokens' = [tokens EXCEPT !["connect"] = FALSE]
  /\ \/ p2pCmd' = "wait" /\ radio \notin {"go", "client"} /\ radio' = "joining"
     \/ p2pCmd' = "idle" /\ UNCHANGED radio
  /\ UNCHANGED <<stateOfGroup, findObj, findWait, p2pEvt, events, counters, misused>>

\* The wait ends with a token (what it prints depends on the status bit) ...
ConnectAnswered ==
  /\ p2pCmd = "wait" /\ tokens["connect"]
  /\ tokens' = [tokens EXCEPT !["connect"] = FALSE]
  /\ p2pCmd' = "idle"
  /\ UNCHANGED <<stateOfGroup, findObj, findWait, p2pEvt, radio, events, tries, finds, unanswered, scanning, misused>>

\* ... or with the time given: what was begun is cancelled and the group removed.
ConnectTimesOut ==
  /\ p2pCmd = "wait" /\ ~tokens["connect"]
  /\ GroupGone
  /\ p2pCmd' = "idle"
  /\ UNCHANGED <<stateOfGroup, tokens, findObj, findWait, p2pEvt, tries, finds, unanswered, scanning, misused>>

\* cmdWlanP2PFindCallback: the command does not wait for the scan.
Find ==
  /\ p2pCmd = "idle" /\ device /\ ~scanning /\ finds < MaxFinds
  /\ scanning' = TRUE /\ finds' = finds + 1
  /\ UNCHANGED <<stateOfGroup, tokens, findObj, findWait, p2pCmd, p2pEvt, radio, events, tries, unanswered, misused>>

\* cmdWlanP2PFindStopCallback: the driver takes the stop, and will report the end of
\* the scan, or refuses it.
FindStop ==
  /\ p2pCmd = "idle" /\ device /\ finds < MaxFinds
  /\ findObj' = "empty" /\ findWait' = TRUE /\ finds' = finds + 1
  /\ \/ /\ p2pCmd' = "findWait" /\ scanning' = FALSE /\ UNCHANGED unanswered
        /\ events' = IF scanning THEN Append(events, "scanCompleted") ELSE events
     \/ p2pCmd' = "findEnds" /\ unanswered' = TRUE /\ UNCHANGED <<events, scanning>>
  /\ UNCHANGED <<stateOfGroup, tokens, p2pEvt, radio, tries, misused>>

\* The wait ends with the signal or after 100 seconds.
FindStopWaited ==
  /\ p2pCmd = "findWait"
  /\ findObj' = "empty"
  /\ unanswered' = (unanswered \/ findObj # "signalled")
  /\ p2pCmd' = "findEnds"
  /\ UNCHANGED <<stateOfGroup, tokens, findWait, p2pEvt, radio, events, tries, finds, scanning, misused>>

\* The object is deleted, and only then the flag cleared that guards it.
FindStopDeletes ==
  /\ p2pCmd = "findEnds"
  /\ findObj' = "none" /\ p2pCmd' = "findFlag"
  /\ UNCHANGED <<stateOfGroup, tokens, findWait, p2pEvt, radio, events, counters, misused>>

FindStopClears ==
  /\ p2pCmd = "findFlag"
  /\ findWait' = FALSE /\ p2pCmd' = "idle"
  /\ UNCHANGED <<stateOfGroup, tokens, findObj, p2pEvt, radio, events, counters, misused>>

-----------------------------------------------------------------------------
(* The event thread.                                                           *)

TakeEvent ==
  /\ p2pEvt = NoEvent /\ events # <<>>
  /\ p2pEvt' = Event(Head(events)) /\ events' = Tail(events)
  /\ UNCHANGED <<stateOfGroup, tokens, findObj, findWait, p2pCmd, radio, counters, misused>>

\* Mutant: the end of a scan signals whether or not a find stop waits.
ScanCompletedAlways ==
  /\ p2pEvt = Event("scanCompleted")
  /\ p2pEvt' = [p2pEvt EXCEPT !.at = "signal"]
  /\ findWait' = FALSE
  /\ UNCHANGED <<stateOfGroup, tokens, findObj, p2pCmd, radio, events, counters, misused>>

\* WLAN_EVENT_P2P_SCAN_COMPLETED: the flag is tested and cleared, then the object signalled.
ScanCompleted ==
  /\ p2pEvt = Event("scanCompleted")
  /\ p2pEvt' = IF findWait THEN [p2pEvt EXCEPT !.at = "signal"] ELSE NoEvent
  /\ findWait' = FALSE
  /\ UNCHANGED <<stateOfGroup, tokens, findObj, p2pCmd, radio, events, counters, misused>>

ScanSignals ==
  /\ p2pEvt = [what |-> "scanCompleted", at |-> "signal"]
  /\ p2pEvt' = NoEvent
  /\ IF findObj = "none" THEN misused' = misused \cup {"deleted"} /\ UNCHANGED findObj
                         ELSE findObj' = "signalled" /\ UNCHANGED misused
  /\ UNCHANGED <<stateOfGroup, tokens, findWait, p2pCmd, radio, events, counters>>

\* WLAN_EVENT_P2P_GROUP_STARTED: the status bit first, then the interface of the role;
\* adding the station interface signals the role-up object, if it was not up already.
Started == {"startedGo", "startedClient"}

GroupStarted ==
  /\ p2pEvt.what \in Started /\ p2pEvt.at = "begin"
  /\ groupBit' = TRUE
  /\ p2pEvt' = [p2pEvt EXCEPT !.at = "interface"]
  /\ UNCHANGED <<device, groupType, netIf, tokens, findObj, findWait, p2pCmd, radio, events, counters, misused>>

StartedInterface ==
  /\ p2pEvt.what \in Started /\ p2pEvt.at = "interface"
  /\ LET i == IF p2pEvt.what = "startedGo" THEN "ap" ELSE "sta" IN
     /\ netIf' = [netIf EXCEPT ![i] = [bit |-> TRUE, up |-> TRUE]]
     /\ tokens' = IF i = "sta" /\ ~netIf["sta"].up THEN [tokens EXCEPT !["staRoleup"] = TRUE] ELSE tokens
     /\ groupType' = IF i = "ap" THEN "go" ELSE "client"
     /\ p2pEvt' = [p2pEvt EXCEPT !.at = IF i = "ap" THEN "signal" ELSE "roleup"]
  /\ UNCHANGED <<device, groupBit, findObj, findWait, p2pCmd, radio, events, counters, misused>>

\* The client's handler waits two seconds for that signal and asserts without it.
StartedWaits ==
  /\ p2pEvt.what \in Started /\ p2pEvt.at = "roleup"
  /\ p2pEvt' = [p2pEvt EXCEPT !.at = "signal"]
  /\ misused' = IF tokens["staRoleup"] THEN misused ELSE misused \cup {"asserted"}
  /\ tokens' = [tokens EXCEPT !["staRoleup"] = FALSE]
  /\ UNCHANGED <<stateOfGroup, findObj, findWait, p2pCmd, radio, events, counters>>

\* Every join ends with the connect token: a group, a failed formation, a peer not found.
JoinEnded ==
  /\ \/ p2pEvt.what \in Started /\ p2pEvt.at = "signal" /\ UNCHANGED <<groupBit, groupType>>
     \/ p2pEvt = Event("formationFailed") /\ groupBit' = FALSE /\ groupType' = "none"
     \/ p2pEvt = Event("peerNotFound") /\ groupBit' = FALSE /\ UNCHANGED groupType
  /\ tokens' = [tokens EXCEPT !["connect"] = TRUE]
  /\ p2pEvt' = NoEvent
  /\ UNCHANGED <<device, netIf, findObj, findWait, p2pCmd, radio, events, counters, misused>>

Removed == {"removedGo", "removedClient", "removedDevice"}

\* WLAN_EVENT_P2P_GROUP_REMOVED: the status bit, then the interface of the role, which
\* for the device role is that of the group type kept, then the bit and the type.
RemovedIf ==
  IF p2pEvt.what = "removedGo" \/ (p2pEvt.what = "removedDevice" /\ groupType = "go") THEN {"ap"}
  ELSE IF p2pEvt.what = "removedClient" \/ (p2pEvt.what = "removedDevice" /\ groupType = "client") THEN {"sta"}
  ELSE {}

GroupRemoved ==
  /\ p2pEvt.what \in Removed /\ p2pEvt.at = "begin"
  /\ groupBit' = FALSE
  /\ netIf' = [i \in DOMAIN netIf |-> IF i \in RemovedIf THEN [netIf[i] EXCEPT !.up = FALSE] ELSE netIf[i]]
  /\ p2pEvt' = [p2pEvt EXCEPT !.at = "bits"]
  /\ UNCHANGED <<device, groupType, tokens, findObj, findWait, p2pCmd, radio, events, counters, misused>>

RemovedBits ==
  /\ p2pEvt.what \in Removed /\ p2pEvt.at = "bits"
  /\ groupType' = "none"
  /\ netIf' = [i \in DOMAIN netIf |-> IF i \in RemovedIf THEN Down ELSE netIf[i]]
  /\ p2pEvt' = NoEvent
  /\ UNCHANGED <<device, groupBit, tokens, findObj, findWait, p2pCmd, radio, events, counters, misused>>

\* WLAN_EVENT_DISCONNECT: the station goes down; the waiting command is told, then a
\* connect that may wait as well.
Disconnected ==
  /\ p2pEvt = Event("disconnected")
  /\ netIf' = [netIf EXCEPT !["sta"].up = FALSE]
  /\ tokens' = [tokens EXCEPT !["disconnect"] = TRUE]
  /\ p2pEvt' = [p2pEvt EXCEPT !.at = "signal"]
  /\ UNCHANGED <<device, groupBit, groupType, findObj, findWait, p2pCmd, radio, events, counters, misused>>

DisconnectSignals ==
  /\ p2pEvt = [what |-> "disconnected", at |-> "signal"]
  /\ tokens' = [tokens EXCEPT !["connect"] = TRUE]
  /\ p2pEvt' = NoEvent
  /\ UNCHANGED <<stateOfGroup, findObj, findWait, p2pCmd, radio, events, counters, misused>>

-----------------------------------------------------------------------------
(* The driver and the peers.                                                   *)

JoinEnds ==
  /\ radio = "joining"
  /\ \/ \E role \in {"go", "client"} :
          /\ radio' = role
          /\ events' = Append(events, IF role = "go" THEN "startedGo" ELSE "startedClient")
     \/ \E e \in {"formationFailed", "peerNotFound"} : radio' = "idle" /\ events' = Append(events, e)
  /\ UNCHANGED <<stateOfGroup, tokens, findObj, findWait, p2pCmd, p2pEvt, counters, misused>>

PeerLeaves ==
  /\ radio \in {"go", "client"}
  /\ GroupGone
  /\ UNCHANGED <<stateOfGroup, tokens, findObj, findWait, p2pCmd, p2pEvt, counters, misused>>

\* A scan ends by itself.
ScanEnds ==
  /\ scanning /\ scanning' = FALSE
  /\ events' = Append(events, "scanCompleted")
  /\ UNCHANGED <<stateOfGroup, tokens, findObj, findWait, p2pCmd, p2pEvt, radio, tries, finds, unanswered, misused>>

EventStep ==
  \/ TakeEvent \/ ScanCompleted \/ ScanSignals \/ GroupStarted \/ StartedInterface \/ StartedWaits
  \/ JoinEnded \/ GroupRemoved \/ RemovedBits \/ Disconnected \/ DisconnectSignals

Next ==
  \/ RoleUpP2P \/ RoleDownP2P \/ GrpRemove
  \/ ConnectBegin \/ ConnectLeft \/ ConnectCall \/ ConnectAnswered \/ ConnectTimesOut
  \/ Find \/ FindStop \/ FindStopWaited \/ FindStopDeletes \/ FindStopClears
  \/ EventStep \/ JoinEnds \/ PeerLeaves \/ ScanEnds

CommandGoesOn ==
  \/ ConnectLeft \/ ConnectCall \/ ConnectAnswered \/ ConnectTimesOut
  \/ FindStopWaited \/ FindStopDeletes \/ FindStopClears

\* Every wait of a command has a timeout, and the event thread runs.
Spec == Init /\ [][Next]_p2pVars /\ WF_p2pVars(EventStep) /\ WF_p2pVars(CommandGoesOn)

-----------------------------------------------------------------------------
\* Once the events are handled, the group type, the status bit, the NET_IF bits and the
\* lwIP interfaces all tell the same group the driver has, whichever of the role types
\* the driver reported its end with (network_terminal.c:713, 775).
GroupStateAgrees ==
  p2pEvt = NoEvent /\ events = <<>> =>
    /\ groupType = (IF radio \in {"go", "client"} THEN radio ELSE "none")
    /\ groupBit = (radio \in {"go", "client"})
    /\ netIf["ap"] = [bit |-> radio = "go", up |-> radio = "go"]
    /\ netIf["sta"] = [bit |-> radio = "client", up |-> radio = "client"]

\* The start of a group as client always finds the role-up signal it waits for: the
\* interface is never still up from an earlier group (network_terminal.c:754).
GroupStartNeverAsserts == "asserted" \notin misused

\* The end of a scan signals a deleted object only after a find stop that gave up, or
\* was refused: one that got its answer leaves nothing behind (wlan_cmd.c:4986).
FindStopLeavesNothing == "deleted" \in misused => unanswered

\* Every P2P command comes back: the one that leaves a network first is always told
\* that it left.
P2pCommandsReturn == p2pCmd # "idle" ~> p2pCmd = "idle"
=============================================================================
