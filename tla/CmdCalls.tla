------------------------------- MODULE CmdCalls ------------------------------
(***************************************************************************)
(* The commands of the terminal from the line to the driver: the parser,   *)
(* the tests of the callback (src/wlan_cmd.c, src/ble_cmd.c,               *)
(* src/socket_examples.c), the driver call, and what is freed on every way *)
(* out.  A command is the sequence of its steps; allocations may fail, the *)
(* device may be in any state and a driver call may return an error.       *)
(***************************************************************************)
EXTENDS CmdParser

VARIABLES name,   \* the command that runs, or "none"
          todo,   \* the steps it has left
          blocks, \* the fields that point to a block
          faults  \* what it did that it should not (history)

cmdVars == <<name, todo, blocks, faults>>

Init == name = "none" /\ todo = <<>> /\ blocks = {} /\ faults = {}

-----------------------------------------------------------------------------
(* What a callback adds to its parser.                                       *)

\* Where a step returns -1, leave is still done.
Or(steps, leave) == [k \in DOMAIN steps |-> [steps[k] EXCEPT !.else = leave]]

\* The driver gets what the line gave, or something else.
CallWith(given) == StrayIf(~given) \o Call

\* parser, usage text on error, driver.
Simple(steps) == steps \o Call

\* cmdWlanAddProfileCallback clears six bytes where mac points, which is NULL.
AddProfile(g) ==
  Or(ParseProfile(g) \o Need \o Need, FreeProfile)
    \o WildIf(TRUE) \o Or(Call, FreeProfile) \o FreeProfile

\* The -1 of the parser goes into a uint8_t, which is never negative: the driver is
\* called with 255, and with a larger number cut to its low byte.
DeleteProfile(g) ==
  Need \o Need \o Or(ParseDelProfile(g), CallWith(FALSE)) \o CallWith(g.i # "bad")
GetProfile(g)    == Or(ParseGetProfile(g), CallWith(FALSE)) \o CallWith(g.i # "bad")
ProfileConnect(g) ==
  ParseProfileConnect(g) \o FailIf(g.i = "bad") \o Need \o Need \o Call

\* cmdWlanConnectCallback: nothing is freed when the device or the role is down.
Connect(g) ==
  Or(ParseConnect(g), FreeConnect) \o Need \o Need
    \o WildIf(~Has(g, "s")) \o Or(Call, FreeConnect) \o FreeConnect

\* cmdWlanRoleUpApCallback: nothing is freed when the device is down or the role is up.
RoleUpAp(g) ==
  Or(ParseRoleUpAp(g), FreeRoleUpAp) \o Need \o Need
    \o Or(Call, FreeRoleUpAp) \o FreeRoleUpAp
RoleDownAp(g)  == Simple(Parse(g))
\* The interface and the role, which a time-out or the driver may refuse.
RoleUpSta(g)   == ParseRoleUpSta(g) \o Need \o Need \o Call \o Call
RoleDownSta(g) == Simple(Parse(g)) \o Call
RoleUpP2P(g)   == Need \o Simple(ParseRoleUpP2P(g))
\* cmdWlanP2PConnectCallback leaves the station's network first.
P2PConnect(g)  ==
  ParseP2PConnect(g) \o Call
    \o FailIf(g.w = "bad" \/ (g.w = "pin" /\ g.p # "ok")) \o CallWith(g.m = "ok")
P2PSetChannel(g) == Simple(ParseSetChannel(g))

\* cmdWlanDisconnectCallback reads its line itself and skips what it does not know.
Disconnect(g) == FailIf(g.m \in {"empty", "bad"}) \o Simple(<<>>)

Scan(g) == Need \o Simple(ParseScan(g))
StopDevice(g) == ParseStop(g) \o Need \o Call
SetEarlyTermination(g) == Simple(ParseEarlyTermination(g))
GetEarlyTermination(g) == Simple(Parse(g))
GetMacAddress(g) == ParseGetMacAddress(g) \o Need \o Need \o Need \o Call
SetMacAddress(g) == Simple(ParseSetMacAddress(g))
SetPsMode(g) == Simple(ParseSetPsMode(g))
SetPmMode(g) == Simple(ParseSetPmMode(g))
SetLsi(g)    == Simple(ParseSetLsi(g))
SetScanDwell(g) == Simple(ParseScanDwell(g))

\* cmdSetWsocPrimaryCallback: the slot is what the stack held when -i has no value.
SetWsocPrimary(g) ==
  ParseSetWsocPrimary(g) \o StrayIf(g.i = "empty") \o FailIf(g.i = "bad") \o Call

CsiSolic(g) == Simple(ParseCsiSolic(g))
CsiSolicSetMac(g) == Simple(ParseCsiSolicSetMac(g))
StartApWps(g) == Simple(ParseWpsSession(g))

\* cmdConfigStaAgingEventCallback: the time is not set when -t has no value.
ConfigStaAging(g) == ParsePeerAging(g) \o CallWith(g.t # "empty")

\* cmdCreateVendorIEListCallback: the role is what -r says.
VendorList(g) == Simple(ParseGetRoleId(g))

SetConnPolicy(g)  == ParseConnPolicySet(g) \o Need \o Call
SetRegDomain(g)   == Simple(ParseRegDomEntrySet(g))
GetRegDomain(g)   == Simple(ParseRegDomEntryGet(g))

-----------------------------------------------------------------------------
(* IP, time and traffic.                                                     *)

SetInterfaceIp(g) == ParseSetInterfaceIp(g) \o Need \o Call

\* Mutant: the way out on an error forgets the block.
GetInterfaceIpLeaks(g) == ParseGetInterfaceIp(g) \o Alloc("params") \o Need \o Call \o Free("params")

GetInterfaceIp(g) ==
  ParseGetInterfaceIp(g) \o Alloc("params")
    \o Or(Need \o Call, Free("params")) \o Free("params")
SetDhcpServer(g) == Need \o Need \o ParseSetDhcpServer(g) \o Call \o Call

\* cmdGetDhcpServerCallback frees its block on the way out that fails only.
GetDhcpServer == Alloc("params") \o Or(Call, Free("params"))

PingStart(g) == ParsePing(g) \o Need \o Need \o Call
PingStop(g)  == Simple(ParsePingStop(g))
Send(g)      == Simple(ParseSend(g))
Recv(g)      == Simple(ParseRecv(g))
TestIperf(g, server) == Simple(ParseTestIperf(g, server))
StopTestIperf(g)     == Simple(ParseStopTestIperf(g))
KillSocket(g)        == Simple(ParseKill(g))
SntpServers(g) == ParseSntpServers(g) \o Free("server")

\* cmdSetDateTime: what the text does not hold is what the stack held.
SetDateTime(g) == ParseSetDateTime(g) \o CallWith(g.t # "bad")

-----------------------------------------------------------------------------
(* Bluetooth.                                                                *)

BleAdvCfg(g)     == Simple(ParseBleAdvCfg(g))
BleAdvEnable(g)  == Simple(ParseBleAdvEnable(g))
BleScanCfg(g)    == Simple(ParseBleScanCfg(g))
BleScanEnable(g) == Simple(ParseBleScanEnable(g))

\* An address type that is neither of the two is taken for the public one.
BleConnect(g)    == ParseBleConnect(g) \o CallWith(g.t # "bad")
BleDisconnect(g) == ParseBleDisconnect(g) \o CallWith(g.t # "bad")
BleGetBdAddr(g)  == ParseBleGetBdAddress(g) \o CallWith(g.t # "bad")
BleSetBdAddr(g)  == ParseBleSetBdAddress(g) \o CallWith(g.t # "bad")
BleSetTxPwr(g)   == Simple(ParseBleSetTxPower(g))
BleConnUpdate(g) == Simple(ParseBleConnUpdate(g))
BleSetPhy(g)     == Simple(ParseBleSetPhy(g))

-----------------------------------------------------------------------------
(* The command thread.                                                       *)

Begins(command, steps) ==
  /\ name' = command /\ todo' = steps
  /\ UNCHANGED <<blocks, faults>>

\* gCmd: each command with a line of every kind.
WlanCommand ==
  /\ name = "none"
  /\ \/ \E g \in GivenAlso({"p", "t", "priority", "s"}, [s |-> {"long"}, t |-> {"open", "wps"}]) :
          Begins("AddProfile", AddProfile(g))
     \/ \E g \in Given({"i"}) :
          \/ Begins("DeleteProfile", DeleteProfile(g)) \/ Begins("GetProfile", GetProfile(g))
          \/ Begins("ProfileConnect", ProfileConnect(g))
          \/ Begins("GetMacAddress", GetMacAddress(g))
          \/ Begins("SetWsocPrimary", SetWsocPrimary(g))
          \/ Begins("GetRegDomain", GetRegDomain(g))
     \/ \E g \in GivenAlso({"s", "t", "p", "e", "i"}, [s |-> {"long"}, t |-> {"open", "wps"}]) :
          Begins("Connect", Connect(g))
     \/ \E g \in Given({"s", "p", "t", "defaults"}) : Begins("RoleUpAp", RoleUpAp(g))
     \/ \E g \in Given({}) :
          \/ Begins("RoleDownAp", RoleDownAp(g)) \/ Begins("RoleDownSta", RoleDownSta(g))
          \/ Begins("GetEarlyTermination", GetEarlyTermination(g))
     \/ \E g \in Given({"defaults"}) :
          \/ Begins("RoleUpSta", RoleUpSta(g)) \/ Begins("RoleUpP2P", RoleUpP2P(g))
          \/ Begins("P2PSetChannel", P2PSetChannel(g)) \/ Begins("Scan", Scan(g))
          \/ Begins("StopDevice", StopDevice(g)) \/ Begins("SetConnPolicy", SetConnPolicy(g))
     \/ \E g \in GivenAlso({"m", "p", "w", "defaults"}, [p |-> {"short"}, w |-> {"pin"}]) :
          Begins("P2PConnect", P2PConnect(g))
     \/ \E g \in Given({"m"}) :
          \/ Begins("Disconnect", Disconnect(g)) \/ Begins("SetPsMode", SetPsMode(g))
          \/ Begins("SetPmMode", SetPmMode(g))
     \/ \E g \in Given({"e"}) : Begins("SetEarlyTermination", SetEarlyTermination(g))
     \/ \E g \in Given({"i", "m"}) : Begins("SetMacAddress", SetMacAddress(g))
     \/ \E g \in Given({"n"}) : Begins("SetLsi", SetLsi(g))
     \/ \E g \in Given({"v"}) : Begins("SetScanDwell", SetScanDwell(g))
     \/ \E g \in Given({"s", "p"}) : Begins("CsiSolic", CsiSolic(g))
     \/ \E g \in Given({"a", "m"}) : Begins("CsiSolicSetMac", CsiSolicSetMac(g))
     \/ \E g \in GivenAlso({"w", "p"}, [w |-> {"pin"}]) : Begins("StartApWps", StartApWps(g))
     \/ \E g \in Given({"t"}) : Begins("ConfigStaAging", ConfigStaAging(g))
     \/ \E g \in Given({"r"}) : Begins("VendorList", VendorList(g))
     \/ \E g \in Given({"i", "p", "bitmap", "b", "n", "d", "flag"}) :
          Begins("SetRegDomain", SetRegDomain(g))

IpCommand ==
  /\ name = "none"
  /\ \/ \E g \in Given({"i", "ip", "defaults"}) : Begins("SetInterfaceIp", SetInterfaceIp(g))
     \/ \E g \in Given({"i"}) :
          \/ Begins("GetInterfaceIp", GetInterfaceIp(g)) \/ Begins("PingStop", PingStop(g))
          \/ Begins("KillSocket", KillSocket(g))
     \/ \E g \in Given({"t", "s", "e"}) : Begins("SetDhcpServer", SetDhcpServer(g))
     \/ Begins("GetDhcpServer", GetDhcpServer)
     \/ \E g \in Given({"target", "I", "defaults"}) : Begins("PingStart", PingStart(g))
     \/ \E g \in GivenAlso({"c", "defaults"}, [c |-> {"twice"}]) : Begins("Send", Send(g))
     \/ \E g \in Given({"defaults"}) : Begins("Recv", Recv(g))
     \/ \E g \in GivenAlso({"c", "B", "flag", "defaults"}, [c |-> {"twice"}, B |-> {"twice"}]) :
          \E server \in IperfServer(g) : Begins("TestIperf", TestIperf(g, server))
     \/ \E g \in Given({"n"}) : Begins("StopTestIperf", StopTestIperf(g))
     \/ \E g \in GivenAlso({"s"}, [s |-> {"twice"}]) : Begins("SntpServers", SntpServers(g))
     \/ \E g \in Given({"t"}) : Begins("SetDateTime", SetDateTime(g))

BleCommand ==
  /\ name = "none"
  /\ \/ \E g \in Given({"defaults"}) :
          \/ Begins("BleAdvCfg", BleAdvCfg(g)) \/ Begins("BleAdvEnable", BleAdvEnable(g))
          \/ Begins("BleScanCfg", BleScanCfg(g)) \/ Begins("BleScanEnable", BleScanEnable(g))
          \/ Begins("BleSetTxPwr", BleSetTxPwr(g)) \/ Begins("BleConnUpdate", BleConnUpdate(g))
          \/ Begins("BleSetPhy", BleSetPhy(g))
     \/ \E g \in Given({"b", "t"}) :
          \/ Begins("BleConnect", BleConnect(g)) \/ Begins("BleDisconnect", BleDisconnect(g))
     \/ \E g \in Given({"t"}) :
          \/ Begins("BleGetBdAddr", BleGetBdAddr(g)) \/ Begins("BleSetBdAddr", BleSetBdAddr(g))

-----------------------------------------------------------------------------
(* Its steps.                                                                *)

At(kinds) == todo # <<>> /\ Head(todo).does \in kinds

GoesOn   == todo' = Tail(todo)
GivesUp  == todo' = Head(todo).else
Stuck(kind) == faults' = faults \cup {kind}

\* -1 is returned: by a test of the parser or of the device, or by the driver.
Fails ==
  /\ At({"fail", "need", "call"})
  /\ GivesUp
  /\ UNCHANGED <<name, blocks, faults>>

Passes ==
  /\ At({"need", "call"})
  /\ GoesOn
  /\ UNCHANGED <<name, blocks, faults>>

\* What C does not define: the command goes on, or takes what it read for an error.
Undefined ==
  /\ At({"null", "wild", "stray", "overrun"})
  /\ GoesOn \/ (At({"null"}) /\ GivesUp)
  /\ Stuck(Head(todo).does)
  /\ UNCHANGED <<name, blocks>>

\* os_malloc; what "take" does with NULL is undefined too.
Allocates ==
  /\ At({"alloc", "take"})
  /\ \/ GoesOn /\ blocks' = blocks \cup {Head(todo).field} /\ UNCHANGED faults
     \/ At({"alloc"}) /\ GivesUp /\ UNCHANGED <<blocks, faults>>
     \/ At({"take"}) /\ GoesOn /\ Stuck("wild") /\ UNCHANGED blocks
  /\ UNCHANGED name

Frees ==
  /\ At({"free"})
  /\ GoesOn
  /\ blocks' = blocks \ {Head(todo).field}
  /\ UNCHANGED <<name, faults>>

\* The command thread takes the next line; what a command lost stays lost.
Returns ==
  /\ name # "none" /\ todo = <<>>
  /\ name' = "none" /\ blocks' = {} /\ faults' = {}
  /\ UNCHANGED todo

Next ==
  \/ WlanCommand \/ IpCommand \/ BleCommand
  \/ Fails \/ Passes \/ Undefined \/ Allocates \/ Frees \/ Returns

Spec == Init /\ [][Next]_cmdVars

-----------------------------------------------------------------------------
(* Properties.                                                               *)

\* What each of these commands leaves behind on some way out.
KnownLost(command) ==
  CASE command = "Connect"       -> {"ssid", "Key"}
    [] command = "RoleUpAp"      -> {"ssid", "Key"}
    [] command = "Send"          -> {"clientIp"}
    [] command = "TestIperf"     -> {"clientIp", "serverIp"}
    [] command = "SntpServers"   -> {"server"}
    [] command = "GetDhcpServer" -> {"params"}
    [] OTHER -> {}

\* The commands that on some way through parse what NULL points to, use NULL (five
\* of the seven only when the heap is used up), pass on what the line did not give, or
\* write past a block.
NullReaders ==
  {"Connect", "GetMacAddress", "SetMacAddress", "GetProfile", "DeleteProfile",
   "ProfileConnect", "SetPsMode", "SetPmMode", "SetLsi", "SetScanDwell",
   "VendorList", "P2PConnect", "GetInterfaceIp", "SetInterfaceIp", "KillSocket",
   "Send", "BleConnect", "BleDisconnect"}
WildUsers ==
  {"AddProfile", "Connect", "RoleUpAp", "Send", "TestIperf", "SntpServers", "SetDateTime"}
StrayPassers ==
  {"DeleteProfile", "GetProfile", "P2PConnect", "SetWsocPrimary", "ConfigStaAging",
   "SetDateTime", "BleConnect", "BleDisconnect", "BleGetBdAddr", "BleSetBdAddr"}
Overrunners == {"RoleUpAp"}

\* However the line is wrong, the heap is used up or the driver refuses, a command gives
\* every block back before it returns, and none but the known ones uses NULL,
\* writes past a block or gives the driver what the line did not say.
ParserSafe ==
  LET done == name # "none" /\ todo = <<>> IN
  /\ done => blocks \subseteq KnownLost(name)
  /\ "null" \in faults => name \in NullReaders
  /\ "wild" \in faults => name \in WildUsers
  /\ "stray" \in faults => name \in StrayPassers
  /\ "overrun" \in faults => name \in Overrunners
=============================================================================
