------------------------------ MODULE WlanConn ------------------------------
(***************************************************************************)
(* Station connection management (src/wlan_cmd.c, src/network_terminal.c). *)
(*                                                                         *)
(* The command thread (the start-up table of known networks, then the      *)
(* command prompt) calls the WLAN driver and waits on binary sync objects; *)
(* the driver's event thread runs WlanStackEventHandler, which updates     *)
(* app_CB.Status and the network interface and signals the sync objects.   *)
(* Both threads read-modify-write app_CB.Status without a lock.            *)
(*                                                                         *)
(* The driver is external: it joins, fails to join or stays silent, loses  *)
(* the link, and queues its events in order.  Wlan_Disconnect answers OK   *)
(* exactly when there is something to leave, and then a disconnect event   *)
(* follows, as cmdWlanDisconnectCallback expects.                          *)
(***************************************************************************)
EXTENDS Integers, Sequences

CONSTANTS NNets,      \* knownNetworks[] in network_terminal_entry
          Commands,   \* what the user types, a subset of AllCommands
          MaxCmds,    \* bound: commands typed
          MaxLosses   \* bound: links lost without a request

AllCommands == {"connect", "disconnect", "roleup", "roledown", "apup", "apdown"}
Bits == {"STA", "AP", "IP", "PEER"}      \* the STATUS_BIT_ values used here

ASSUME WlanAssumption ==
  /\ NNets \in Nat /\ MaxCmds \in Nat /\ MaxLosses \in Nat
  /\ Commands \subseteq AllCommands

VARIABLES
  status,   \* app_CB.Status, a set of bits
  roles,    \* NET_IF_STA_BIT and NET_IF_AP_BIT of ActiveNetIfBitMap
  netif,    \* the station's lwIP interface: [added, up]
  sync,     \* the binary sync objects: TRUE when signalled
  cmd,      \* command thread: [op, at, net, ret, rmw, reg]
  evt,      \* event thread: [at, rmw, reg]
  drv,      \* the driver's station: off, idle, joining or joined
  evq,      \* its queue of events
  joined,   \* history: the station joined since the last Wlan_Connect
  used      \* how much of each bound has been used

vars == <<status, roles, netif, sync, cmd, evt, drv, evq, joined, used>>

Events == {"connect", "connectFailed", "disconnect"}

SyncObjs == {"connect", "disconnect", "roleUp", "roleDown"}

-----------------------------------------------------------------------------
Init ==
  /\ status = {}
  /\ roles = {}
  /\ netif = [added |-> FALSE, up |-> FALSE]
  /\ sync = [s \in SyncObjs |-> FALSE]
  /\ cmd = [op |-> "roleup", at |-> "begin", net |-> 0, ret |-> 0,
            rmw |-> <<>>, reg |-> {}]
  /\ evt = [at |-> "idle", rmw |-> <<>>, reg |-> {}]
  /\ drv = "off"
  /\ evq = <<>>
  /\ joined = FALSE
  /\ used = [cmds |-> 0, losses |-> 0]

-----------------------------------------------------------------------------
(* SET_STATUS_BIT and CLR_STATUS_BIT: a load, then a store.  A thread's rmw  *)
(* is what it has still to do, reg what it has loaded.                       *)

Set(b) == [how |-> "set", bit |-> b, loaded |-> FALSE]
Clr(b) == [how |-> "clr", bit |-> b, loaded |-> FALSE]

Load(t) == [t EXCEPT !.reg = status, !.rmw = <<[Head(@) EXCEPT !.loaded = TRUE]>> \o Tail(@)]

Stored(t) == IF Head(t.rmw).how = "set" THEN t.reg \cup {Head(t.rmw).bit}
             ELSE t.reg \ {Head(t.rmw).bit}

CmdLoad ==
  /\ cmd.rmw # <<>> /\ ~Head(cmd.rmw).loaded
  /\ cmd' = Load(cmd)
  /\ UNCHANGED <<status, roles, netif, sync, evt, drv, evq, joined, used>>

CmdStore ==
  /\ cmd.rmw # <<>> /\ Head(cmd.rmw).loaded
  /\ status' = Stored(cmd)
  /\ cmd' = [cmd EXCEPT !.rmw = Tail(@), !.reg = {}]
  /\ UNCHANGED <<roles, netif, sync, evt, drv, evq, joined, used>>

EvtLoad ==
  /\ evt.rmw # <<>> /\ ~Head(evt.rmw).loaded
  /\ evt' = Load(evt)
  /\ UNCHANGED <<status, roles, netif, sync, cmd, drv, evq, joined, used>>

EvtStore ==
  /\ evt.rmw # <<>> /\ Head(evt.rmw).loaded
  /\ status' = Stored(evt)
  /\ evt' = [evt EXCEPT !.rmw = Tail(@), !.reg = {}]
  /\ UNCHANGED <<roles, netif, sync, cmd, drv, evq, joined, used>>

-----------------------------------------------------------------------------
(* Helpers of the command thread *)

At(op, at) == cmd.op = op /\ cmd.at = at /\ cmd.rmw = <<>>
Goto(at)   == cmd' = [cmd EXCEPT !.at = at]
Return(r)  == cmd' = [cmd EXCEPT !.at = "return", !.ret = r]

\* A wait that takes the signal, or the timeout r when there is none.
Taken(s) == sync[s] /\ sync' = [sync EXCEPT ![s] = FALSE]

\* network_stack_remove_if_sta, under the lwIP core lock.
RemoveIf == /\ netif' = [added |-> FALSE, up |-> FALSE]
            /\ sync' = [sync EXCEPT !["roleDown"] = TRUE]

-----------------------------------------------------------------------------
(* cmdWlanRoleUpStaCallback *)

\* The callback first sleeps for two seconds: what the driver had queued before
\* has been handled by then.
RoleUpBegin ==
  /\ At("roleup", "begin")
  /\ evq = <<>> /\ evt.at = "idle" /\ evt.rmw = <<>>
  /\ IF "STA" \in roles THEN Return(-1)
     ELSE cmd' = [cmd EXCEPT !.at = "addIf", !.rmw = <<Clr("STA")>>]
  /\ UNCHANGED <<status, roles, netif, sync, evt, drv, evq, joined, used>>

\* netif_add calls _role_sta_up, which signals; an interface that is still up
\* is not added again and nothing is signalled.
RoleUpAddIf ==
  /\ At("roleup", "addIf")
  /\ IF netif.up THEN UNCHANGED <<netif, sync>>
     ELSE /\ netif' = [added |-> TRUE, up |-> FALSE]
          /\ sync' = [sync EXCEPT !["roleUp"] = TRUE]
  /\ Goto("wait")
  /\ UNCHANGED <<status, roles, evt, drv, evq, joined, used>>

\* Only _role_sta_up signals, in the step before: a signal that is missing now
\* is missing for the ten seconds of the wait.
RoleUpWait ==
  /\ At("roleup", "wait")
  /\ IF sync["roleUp"] THEN Taken("roleUp") /\ Goto("call")
     ELSE Goto("assert") /\ UNCHANGED sync
  /\ UNCHANGED <<status, roles, netif, evt, drv, evq, joined, used>>

RoleUpCall ==
  /\ At("roleup", "call")
  /\ \/ /\ drv' = "idle"
        /\ roles' = roles \cup {"STA"}
        /\ Return(0)
        /\ UNCHANGED <<netif, sync>>
     \/ /\ RemoveIf
        /\ Return(-1)
        /\ UNCHANGED <<drv, roles>>
  /\ UNCHANGED <<status, evt, evq, joined, used>>

-----------------------------------------------------------------------------
(* cmdWlanRoleDownStaCallback (CC35XX: no disconnect first) *)

RoleDownBegin ==
  /\ At("roledown", "begin")
  /\ RemoveIf
  /\ Goto("wait")
  /\ UNCHANGED <<status, roles, evt, drv, evq, joined, used>>

RoleDownWait ==
  /\ At("roledown", "wait")
  /\ IF sync["roleDown"] THEN Taken("roleDown") /\ Goto("call")
     ELSE Goto("assert") /\ UNCHANGED sync
  /\ UNCHANGED <<status, roles, netif, evt, drv, evq, joined, used>>

\* The driver leaves the network it has joined; without a role it fails.
RoleDownCall ==
  /\ At("roledown", "call")
  /\ IF drv = "off" THEN Return(-1) /\ UNCHANGED <<drv, evq, roles>>
     ELSE /\ drv' = "off"
          /\ evq' = IF drv = "joined" THEN Append(evq, "disconnect") ELSE evq
          /\ roles' = roles \ {"STA"}
          /\ cmd' = [cmd EXCEPT !.at = "return", !.ret = 0,
                                !.rmw = <<Clr("STA"), Clr("IP")>>]
  /\ UNCHANGED <<status, netif, sync, evt, joined, used>>

-----------------------------------------------------------------------------
(* cmdWlanConnectCallback *)

ConnectBegin ==
  /\ At("connect", "begin")
  /\ IF "STA" \in roles THEN Goto("call") /\ sync' = [sync EXCEPT !["connect"] = FALSE]
     ELSE Return(-1) /\ UNCHANGED sync
  /\ UNCHANGED <<status, roles, netif, evt, drv, evq, joined, used>>

\* Wlan_Connect: a station that has joined leaves first.
ConnectCall ==
  /\ At("connect", "call")
  /\ \/ /\ drv' = "joining"
        /\ evq' = IF drv = "joined" THEN Append(evq, "disconnect") ELSE evq
        /\ joined' = FALSE
        /\ Goto("test")
     \/ /\ Return(-1)
        /\ UNCHANGED <<drv, evq, joined>>
  /\ UNCHANGED <<status, roles, netif, sync, evt, used>>

ConnectTest ==
  /\ At("connect", "test")
  /\ Goto(IF "STA" \in status THEN "leave" ELSE "retest")
  /\ UNCHANGED <<status, roles, netif, sync, evt, drv, evq, joined, used>>

\* One second for the previous connection to end; a timeout is only logged.
ConnectLeave ==
  /\ At("connect", "leave")
  /\ Taken("disconnect") \/ UNCHANGED sync
  /\ Goto("clear")
  /\ UNCHANGED <<status, roles, netif, evt, drv, evq, joined, used>>

ConnectClear ==
  /\ At("connect", "clear")
  /\ sync' = [sync EXCEPT !["connect"] = FALSE]
  /\ Goto("retest")
  /\ UNCHANGED <<status, roles, netif, evt, drv, evq, joined, used>>

ConnectRetest ==
  /\ At("connect", "retest")
  /\ IF "STA" \in status THEN Return(0) ELSE Goto("wait")
  /\ UNCHANGED <<status, roles, netif, sync, evt, drv, evq, joined, used>>

\* Wlan_Disconnect: leaves what was joined or was being joined.
Leave == IF drv \in {"joining", "joined"}
         THEN drv' = "idle" /\ evq' = Append(evq, "disconnect")
         ELSE UNCHANGED <<drv, evq>>

\* Signalled, or timed out: a WPS connection that times out is left alone, any
\* other is given up.
ConnectWait ==
  /\ At("connect", "wait")
  /\ \/ Taken("connect") /\ Return(0) /\ UNCHANGED <<drv, evq>>
     \/ /\ ~sync["connect"]
        /\ Leave \/ UNCHANGED <<drv, evq>>
        /\ Return(-1)
        /\ UNCHANGED sync
  /\ UNCHANGED <<status, roles, netif, evt, joined, used>>

-----------------------------------------------------------------------------
(* cmdWlanDisconnectCallback *)

DisconnectBegin ==
  /\ At("disconnect", "begin")
  /\ IF "STA" \notin roles THEN Return(0) /\ UNCHANGED <<drv, evq>>
     ELSE IF drv \in {"joining", "joined"} THEN Goto("wait") /\ Leave
     ELSE Return(-1) /\ UNCHANGED <<drv, evq>>
  /\ UNCHANGED <<status, roles, netif, sync, evt, joined, used>>

\* The 60 seconds of the wait outlast the handling of an event already queued.
DisconnectPending == \/ \E i \in 1..Len(evq) : evq[i] = "disconnect"
                     \/ evt.at \in {"netDown", "signalDisconnect"}

DisconnectWait ==
  /\ At("disconnect", "wait")
  /\ \/ Taken("disconnect") /\ Return(0)
     \/ ~sync["disconnect"] /\ ~DisconnectPending /\ Goto("assert") /\ UNCHANGED sync
  /\ UNCHANGED <<status, roles, netif, evt, drv, evq, joined, used>>

-----------------------------------------------------------------------------
(* cmdWlanRoleUpApCallback and cmdWlanRoleDownApCallback: the interface of    *)
(* the access point is not modelled, its bits are.                           *)

ApUpBegin ==
  /\ At("apup", "begin")
  /\ IF "AP" \in roles THEN Return(-1)
     ELSE cmd' = [cmd EXCEPT !.at = "call", !.rmw = <<Clr("AP"), Clr("PEER")>>]
  /\ UNCHANGED <<status, roles, netif, sync, evt, drv, evq, joined, used>>

ApUpCall ==
  /\ At("apup", "call")
  /\ \/ /\ roles' = roles \cup {"AP"}
        /\ cmd' = [cmd EXCEPT !.at = "return", !.ret = 0, !.rmw = <<Set("AP"), Set("IP")>>]
     \/ Return(-1) /\ UNCHANGED roles
  /\ UNCHANGED <<status, netif, sync, evt, drv, evq, joined, used>>

ApDownCall ==
  /\ At("apdown", "begin")
  /\ IF "AP" \notin roles THEN Return(-1) /\ UNCHANGED roles
     ELSE /\ roles' = roles \ {"AP"}
          /\ cmd' = [cmd EXCEPT !.at = "return", !.ret = 0,
                                !.rmw = <<Clr("AP"), Clr("PEER"), Clr("IP")>>]
  /\ UNCHANGED <<status, netif, sync, evt, drv, evq, joined, used>>

-----------------------------------------------------------------------------
(* network_terminal_entry and cmd_prompt: the role, then each known network   *)
(* until one connects, then the prompt.                                       *)

Booting == cmd.net \in 0..NNets

CmdReturn ==
  /\ cmd.at = "return" /\ cmd.rmw = <<>>
  /\ cmd' = IF Booting /\ cmd.net < NNets /\ (cmd.op = "roleup" \/ cmd.ret # 0)
            THEN [cmd EXCEPT !.op = "connect", !.at = "begin", !.net = @ + 1]
            ELSE [cmd EXCEPT !.at = "prompt", !.net = NNets + 1]
  /\ UNCHANGED <<status, roles, netif, sync, evt, drv, evq, joined, used>>

CmdTyped(c) ==
  /\ cmd.at = "prompt" /\ used.cmds < MaxCmds
  /\ cmd' = [cmd EXCEPT !.op = c, !.at = "begin"]
  /\ used' = [used EXCEPT !.cmds = @ + 1]
  /\ UNCHANGED <<status, roles, netif, sync, evt, drv, evq, joined>>

-----------------------------------------------------------------------------
(* WlanStackEventHandler *)

EvtAt(at) == evt.at = at /\ evt.rmw = <<>>

\* Mutant: the disconnect event leaves the station bit.
EvtBeginKeepsSta ==
  /\ EvtAt("idle") /\ evq # <<>>
  /\ evq' = Tail(evq)
  /\ evt' = CASE Head(evq) = "connect" ->
                   [evt EXCEPT !.at = "netUp", !.rmw = <<Set("STA")>>]
              [] Head(evq) = "connectFailed" -> [evt EXCEPT !.at = "signalConnect"]
              [] Head(evq) = "disconnect" ->
                   [evt EXCEPT !.at = "netDown", !.rmw = <<Clr("IP")>>]
  /\ UNCHANGED <<status, roles, netif, sync, cmd, drv, joined, used>>

EvtBegin ==
  /\ EvtAt("idle") /\ evq # <<>>
  /\ evq' = Tail(evq)
  /\ evt' = CASE Head(evq) = "connect" ->
                   [evt EXCEPT !.at = "netUp", !.rmw = <<Set("STA")>>]
              [] Head(evq) = "connectFailed" -> [evt EXCEPT !.at = "signalConnect"]
              [] Head(evq) = "disconnect" ->
                   [evt EXCEPT !.at = "netDown", !.rmw = <<Clr("STA"), Clr("IP")>>]
  /\ UNCHANGED <<status, roles, netif, sync, cmd, drv, joined, used>>

EvtNetUp ==
  /\ EvtAt("netUp")
  /\ netif' = [netif EXCEPT !.up = TRUE]
  /\ evt' = [evt EXCEPT !.at = "signalConnect"]
  /\ UNCHANGED <<status, roles, sync, cmd, drv, evq, joined, used>>

\* Mutant: the interface stays up.
EvtNetDownSkipped ==
  /\ EvtAt("netDown")
  /\ evt' = [evt EXCEPT !.at = "signalDisconnect"]
  /\ UNCHANGED <<status, roles, netif, sync, cmd, drv, evq, joined, used>>

EvtNetDown ==
  /\ EvtAt("netDown")
  /\ netif' = [netif EXCEPT !.up = FALSE]
  /\ evt' = [evt EXCEPT !.at = "signalDisconnect"]
  /\ UNCHANGED <<status, roles, sync, cmd, drv, evq, joined, used>>

\* Mutant: nobody is told.
EvtSignalDisconnectLost ==
  /\ EvtAt("signalDisconnect")
  /\ evt' = [evt EXCEPT !.at = "signalConnect"]
  /\ UNCHANGED <<status, roles, netif, sync, cmd, drv, evq, joined, used>>

EvtSignalDisconnect ==
  /\ EvtAt("signalDisconnect")
  /\ sync' = [sync EXCEPT !["disconnect"] = TRUE]
  /\ evt' = [evt EXCEPT !.at = "signalConnect"]
  /\ UNCHANGED <<status, roles, netif, cmd, drv, evq, joined, used>>

EvtSignalConnect ==
  /\ EvtAt("signalConnect")
  /\ sync' = [sync EXCEPT !["connect"] = TRUE]
  /\ evt' = [evt EXCEPT !.at = "idle"]
  /\ UNCHANGED <<status, roles, netif, cmd, drv, evq, joined, used>>

-----------------------------------------------------------------------------
(* The driver and the access point *)

Joins ==
  /\ drv = "joining"
  /\ drv' = "joined" /\ evq' = Append(evq, "connect") /\ joined' = TRUE
  /\ UNCHANGED <<status, roles, netif, sync, cmd, evt, used>>

JoinFails ==
  /\ drv = "joining"
  /\ drv' = "idle" /\ evq' = Append(evq, "connectFailed")
  /\ UNCHANGED <<status, roles, netif, sync, cmd, evt, joined, used>>

LinkLost ==
  /\ drv = "joined" /\ used.losses < MaxLosses
  /\ drv' = "idle" /\ evq' = Append(evq, "disconnect")
  /\ used' = [used EXCEPT !.losses = @ + 1]
  /\ UNCHANGED <<status, roles, netif, sync, cmd, evt, joined>>

-----------------------------------------------------------------------------
RoleUp      == RoleUpBegin \/ RoleUpAddIf \/ RoleUpWait \/ RoleUpCall
RoleDown    == RoleDownBegin \/ RoleDownWait \/ RoleDownCall
Connect     == ConnectBegin \/ ConnectCall \/ ConnectTest \/ ConnectLeave
               \/ ConnectClear \/ ConnectRetest \/ ConnectWait
Disconnect  == DisconnectBegin \/ DisconnectWait
ApRole      == ApUpBegin \/ ApUpCall \/ ApDownCall
Command     == RoleUp \/ RoleDown \/ Connect \/ Disconnect \/ ApRole
               \/ CmdLoad \/ CmdStore \/ CmdReturn
EventThread == EvtLoad \/ EvtStore \/ EvtBegin \/ EvtNetUp \/ EvtNetDown
               \/ EvtSignalDisconnect \/ EvtSignalConnect
Driver      == Joins \/ JoinFails \/ LinkLost

Next == Command \/ EventThread \/ Driver \/ \E c \in Commands : CmdTyped(c)

Spec == Init /\ [][Next]_vars

\* Both threads are runnable for ever; every wait of the command thread has a
\* timeout.
LiveSpec == Spec /\ WF_vars(Command) /\ WF_vars(EventThread)

-----------------------------------------------------------------------------
RmwOp == [how : {"set", "clr"}, bit : Bits, loaded : BOOLEAN]

\* No event is on its way and no thread is in the middle of something.
Quiet == evq = <<>> /\ evt.at = "idle" /\ evt.rmw = <<>> /\ cmd.at = "prompt"

\* network_terminal.h: "This bit is set: the device is connected to the AP
\* (STA)" -- and is clear when it is not.
StatusTrue == Quiet => (("STA" \in status) <=> (drv = "joined"))

\* The interface is up exactly while the station is connected, so that DHCP and
\* the sockets see the link that is there.
InterfaceTrue == Quiet => (netif.up <=> (drv = "joined")) /\ (netif.up => netif.added)

\* No command thread ever runs into ASSERT_GENERAL(0): every role change gets
\* its signal and every disconnect its event.
NeverAsserts == cmd.at # "assert"

\* cmdWlanDisconnectCallback: its success means that the disconnect event has
\* cleaned the former connection.  False of the code (README, section 6): the
\* token of an earlier event will do.
DisconnectDone ==
  cmd.op = "disconnect" /\ cmd.at = "return" /\ cmd.ret = 0 /\ "STA" \in roles
    => "STA" \notin status

\* Every command comes back to the prompt.
CommandsReturn == (cmd.at # "prompt") ~> (cmd.at = "prompt")
=============================================================================
