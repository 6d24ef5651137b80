---------------------------------- MODULE NetIf ----------------------------------
(* network_lwip.c: the station's lwIP interface, its address and its DHCP client,    *)
(* as the command thread, the WLAN event thread and the TCP/IP thread change them    *)
(* under the core lock; and on_ip_acquired (network_terminal.c), which starts the    *)
(* Tuya task from the status callback.                                               *)
EXTENDS Integers

VARIABLES sta,      \* staif: added, up (netif and link), addr: none, dhcp, static
          apUp,     \* apif is up; its address is never 0
          groupBit, \* STATUS_BIT_P2P_GROUP_STARTED: apif is that of a group owner
          ipMode,   \* sta_ip_mode
          client,   \* the DHCP client of staif runs
          acquired, \* isIpAcquired
          tuya,     \* s_started, and what tuya_app_start returned
          joined,   \* the driver: connected to a network
          netEvt    \* the event thread: idle, up, down (an event waits), locks

netVars == <<sta, apUp, groupBit, ipMode, client, acquired, tuya, joined, netEvt>>

Absent == [added |-> FALSE, up |-> FALSE, addr |-> "none"]

Init ==
  /\ sta = Absent /\ apUp = FALSE /\ groupBit = FALSE
  /\ ipMode = "dhcp" /\ client = FALSE /\ acquired = FALSE
  /\ tuya = "not started" /\ joined = FALSE /\ netEvt = "idle"

\* on_ip_acquired: once, whatever comes of it.
OnIpAcquired(role, addr) ==
  IF role = "sta" /\ addr # "none" /\ tuya = "not started"
  THEN tuya' \in {"started", "failed"} ELSE UNCHANGED tuya

\* Mutant: the level is only ever raised.
StatusCallbackRaises(up, role, addr) ==
  IF up THEN /\ acquired' = (acquired \/ addr # "none")
             /\ OnIpAcquired(role, addr)
        ELSE UNCHANGED <<acquired, tuya>>

\* status_callback: one level for both interfaces, not touched by one that is down.
StatusCallback(up, role, addr) ==
  IF up THEN /\ acquired' = (addr # "none")
             /\ OnIpAcquired(role, addr)
        ELSE UNCHANGED <<acquired, tuya>>

-----------------------------------------------------------------------------
(* The command thread.                                                         *)

\* network_stack_add_if_sta: an interface that is not up is made anew.
AddIfSta ==
  /\ ~sta.added
  /\ sta' = [Absent EXCEPT !.added = TRUE]
  /\ client' = FALSE
  /\ UNCHANGED <<apUp, groupBit, ipMode, acquired, tuya, joined, netEvt>>

\* link_callback of a station whose link goes down, from a state of the interface:
\* dhcp_stop gives an address of the client back.
Stopped(i) == IF client THEN [i EXCEPT !.up = FALSE, !.addr = "none"] ELSE [i EXCEPT !.up = FALSE]

\* network_stack_remove_if_sta; the driver leaves its network with the role.
RemoveIfSta ==
  /\ sta.added
  /\ sta' = [Stopped(sta) EXCEPT !.added = FALSE]
  /\ client' = (client /\ ~sta.up)
  /\ joined' = FALSE
  /\ netEvt' = IF netEvt = "locks" THEN netEvt ELSE "idle"
  /\ UNCHANGED <<apUp, groupBit, ipMode, acquired, tuya>>

\* network_stack_set_static_ip_if_sta: the client stops; the callback comes if the
\* address changed.
SetStaticIp ==
  /\ sta' = [sta EXCEPT !.addr = "static"]
  /\ ipMode' = "static" /\ client' = FALSE
  /\ StatusCallback(sta.up, "sta", "static")
  /\ UNCHANGED <<apUp, groupBit, joined, netEvt>>

\* network_stack_set_dynamic_ip_if_sta: dhcp_start refuses an interface that is down.
SetDynamicIp ==
  /\ sta' = [sta EXCEPT !.addr = "none"]
  /\ ipMode' = "dhcp" /\ client' = sta.up
  /\ IF sta.addr = "none" THEN UNCHANGED <<acquired, tuya>> ELSE StatusCallback(sta.up, "sta", "none")
  /\ UNCHANGED <<apUp, groupBit, joined, netEvt>>

\* The access point's role up and down; its interface has an address from the start.
ApSetUp(group) ==
  /\ ~apUp
  /\ apUp' = TRUE /\ groupBit' = group
  /\ StatusCallback(TRUE, IF group THEN "sta" ELSE "ap", "static")
  /\ UNCHANGED <<sta, ipMode, client, joined, netEvt>>

ApSetDown ==
  /\ apUp /\ apUp' = FALSE /\ groupBit' = FALSE
  /\ UNCHANGED <<sta, ipMode, client, acquired, tuya, joined, netEvt>>

-----------------------------------------------------------------------------
(* The event thread, and what makes it run.                                    *)

Joins ==
  /\ sta.added /\ ~joined /\ netEvt = "idle"
  /\ joined' = TRUE /\ netEvt' = "up"
  /\ UNCHANGED <<sta, apUp, groupBit, ipMode, client, acquired, tuya>>

Drops ==
  /\ joined /\ netEvt = "idle"
  /\ joined' = FALSE /\ netEvt' = "down"
  /\ UNCHANGED <<sta, apUp, groupBit, ipMode, client, acquired, tuya>>

\* network_set_up: netif_set_up with its status callback, then the link with link_callback,
\* both under the lock; the DHCP client starts unless the level says there is an address.
SetUp ==
  /\ netEvt = "up"
  /\ sta' = [sta EXCEPT !.up = TRUE]
  /\ StatusCallback(TRUE, "sta", sta.addr)
  /\ client' = (client \/ (~acquired' /\ ipMode = "dhcp"))
  /\ netEvt' = "idle"
  /\ UNCHANGED <<apUp, groupBit, ipMode, joined>>

\* network_set_down tests the interface before it takes the lock ...
SetDownTests ==
  /\ netEvt = "down"
  /\ netEvt' = IF sta.up THEN "locks" ELSE "idle"
  /\ UNCHANGED <<sta, apUp, groupBit, ipMode, client, acquired, tuya, joined>>

\* ... and takes down what it then finds.
SetDownLocked ==
  /\ netEvt = "locks"
  /\ sta' = IF sta.up THEN Stopped(sta) ELSE sta
  /\ client' = (client /\ ~sta.up)
  /\ netEvt' = "idle"
  /\ UNCHANGED <<apUp, groupBit, ipMode, acquired, tuya, joined>>

-----------------------------------------------------------------------------
(* The TCP/IP thread: the DHCP client gets a lease, or loses it.               *)

Bound ==
  /\ client /\ sta.up /\ sta.addr = "none"
  /\ sta' = [sta EXCEPT !.addr = "dhcp"]
  /\ StatusCallback(TRUE, "sta", "dhcp")
  /\ UNCHANGED <<apUp, groupBit, ipMode, client, joined, netEvt>>

LeaseLost ==
  /\ client /\ sta.up /\ sta.addr = "dhcp"
  /\ sta' = [sta EXCEPT !.addr = "none"]
  /\ StatusCallback(TRUE, "sta", "none")
  /\ UNCHANGED <<apUp, groupBit, ipMode, client, joined, netEvt>>

EventStep == SetUp \/ SetDownTests \/ SetDownLocked

Next ==
  \/ AddIfSta \/ RemoveIfSta \/ SetStaticIp \/ SetDynamicIp
  \/ (\E group \in BOOLEAN : ApSetUp(group)) \/ ApSetDown
  \/ Joins \/ Drops \/ EventStep \/ Bound \/ LeaseLost

Spec == Init /\ [][Next]_netVars /\ WF_netVars(EventStep) /\ WF_netVars(Bound)

-----------------------------------------------------------------------------
\* A station that is up, wants its address by DHCP and has none has a DHCP client that
\* asks for one: the level isIpAcquired, which both interfaces write and nothing clears
\* when a link goes down, is right when link_callback reads it (network_lwip.c:409).
ClientRunsWhenNeeded == sta.up /\ ipMode = "dhcp" /\ sta.addr = "none" => client

\* For a station that is up with an address the start of the Tuya task was tried, whichever
\* of the interfaces got its address first; it may have failed (network_terminal.c:1331).
TuyaTried == sta.up /\ sta.addr # "none" => tuya # "not started"

\* The set-down that tested the interface outside the lock never takes down, or leaves a
\* client on, an interface that was removed meanwhile (network_lwip.c:716).
RemovedStaysDown == ~sta.added => ~sta.up /\ ~client

\* A station that stays up in DHCP mode gets an address.
GetsAddress ==
  (sta.up /\ ipMode = "dhcp") ~> (sta.addr # "none" \/ ~sta.up \/ ipMode # "dhcp")
=============================================================================
