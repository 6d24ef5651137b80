------------------------------ MODULE CmdParser ------------------------------
(***************************************************************************)
(* The command parsers (src/cmd_parser.c).  What the user typed is a       *)
(* function g from the options of a command to what follows them; a parser *)
(* is the sequence of what it does to the heap and of where it gives up,   *)
(* in the order of the code.  How a word is cut out of the line and turned *)
(* into a number is left out; whether it is there and in range is kept.    *)
(***************************************************************************)
EXTENDS Integers, Sequences

(***************************************************************************)
(* "no": the option is not given; "empty": it is the last word of the      *)
(* line, so strtok returns NULL for its value; "bad": the value is out of  *)
(* range or not of the form.  "other" stands for -h and for a word that is *)
(* no option; "defaults" for an option a default replaces when it is       *)
(* absent, empty or bad.                                                   *)
(***************************************************************************)
Values == {"no", "empty", "ok", "bad"}

\* also: for some options, the values that matter besides these.
GivenAlso(opts, also) ==
  LET more(o)  == IF o \in DOMAIN also THEN also[o] ELSE {}
      may(o)   == IF o \in {"defaults", "flag"} THEN {"no", "ok"} ELSE Values \cup more(o)
      words    == UNION {may(o) : o \in opts}
      line(f, w) == [o \in opts \cup {"other"} |-> IF o = "other" THEN w ELSE f[o]] IN
  {line(f, w) : w \in {"no", "help", "unknown"},
                f \in {h \in [opts -> words] :
                        /\ \A o \in opts : h[o] \in may(o)
                        /\ \A o, p \in opts : h[o] = "empty" /\ h[p] = "empty" => o = p}}

Given(opts) == GivenAlso(opts, <<>>)

NoLine(g)     == \A o \in DOMAIN g : g[o] = "no"
Has(g, o)     == g[o] \notin {"no", "empty"}
Wrong(g)      == g.other # "no"
Help(g)       == NoLine(g) \/ Wrong(g)
Secured(g)    == g.t = "ok"

(***************************************************************************)
(* A step: "fail" returns -1, "need" returns it unless the device is in    *)
(* the right state, "call" is a driver call that may return an error,      *)
(* "null" parses what a NULL pointer points to and "wild" uses one without *)
(* looking at it, "stray" passes on what the line did not give, "overrun"  *)
(* writes past a block, "alloc" tests the new block and "take" does not,   *)
(* "free" gives it back if the pointer is set.  else is what is still done *)
(* after a return of -1.                                                   *)
(***************************************************************************)
Does(what, field) == <<[does |-> what, field |-> field, else |-> <<>>]>>
If(cond, steps)   == IF cond THEN steps ELSE <<>>

FailIf(cond)   == If(cond, Does("fail", ""))
NullIf(cond)   == If(cond, Does("null", ""))
WildIf(cond)   == If(cond, Does("wild", ""))
StrayIf(cond)  == If(cond, Does("stray", ""))
Alloc(field)   == Does("alloc", field)
Take(field)    == Does("take", field)
Free(field)    == Does("free", field)
Need           == Does("need", "")
Call           == Does("call", "")

-----------------------------------------------------------------------------
(* Addresses.                                                                *)

\* macAddressParse: strlen of what may be NULL.
MacParse(g, o) == NullIf(~Has(g, o)) \o FailIf(g[o] = "bad")

\* ipv4AddressParse: strtok(NULL) goes on with a line that is used up, so a missing
\* address fails like a bad one.
Ipv4Fails(g, o) == g[o] # "ok"

-----------------------------------------------------------------------------
(* Wi-Fi commands.                                                           *)

ParseScan(g) == FailIf(NoLine(g) \/ g.other = "help")
ParseStop(g) == FailIf(Wrong(g))

\* A command without options: any word is too much.
Parse(g) == FailIf(Wrong(g))

\* ParseProfileCmd: ssid first, then the options it always makes a block for.
ProfileWords(g) ==
  FailIf(Help(g) \/ g.s \in {"empty", "bad"})
ParseProfile(g) ==
  ProfileWords(g) \o FailIf(g.s # "ok") \o Alloc("ssid")
    \o Alloc("priority") \o FailIf(g.priority = "bad")
    \o Alloc("hidden")
    \o FailIf(g.t = "bad")
    \o IF g.p = "ok" THEN Take("Key") ELSE FailIf(g.t \in {"ok", "wps"})

FreeProfile == Free("ssid") \o Free("priority") \o Free("Key") \o Free("hidden")

ParseGetMacAddress(g) == FailIf(Help(g)) \o NullIf(~Has(g, "i")) \o FailIf(g.i = "bad")
ParseEarlyTermination(g) == FailIf(Help(g) \/ g.e # "ok")
ParseSetMacAddress(g) ==
  FailIf(Help(g)) \o NullIf(~Has(g, "i")) \o FailIf(g.i = "bad") \o MacParse(g, "m")

\* ParseGetProfileCmd, ParseDelProfileCmd, ParseProfileConnectCmd: any number passes.
ParseGetProfile(g) == FailIf(Help(g)) \o NullIf(~Has(g, "i"))
ParseDelProfile(g) == FailIf(Help(g)) \o NullIf(~Has(g, "i"))
ParseProfileConnect(g) == FailIf(Help(g)) \o NullIf(~Has(g, "i"))

\* ParseConnectCmd: the words of an enterprise network are read while they are cut out;
\* the security is compared though it may be missing.
ConnectWords(g) ==
  NullIf(g.e = "empty" \/ g.i = "empty")
    \o FailIf(Help(g) \/ g.s \in {"empty", "bad"})
ConnectSsid(g) ==
  NullIf(~Has(g, "t"))
    \o IF Has(g, "s") THEN FailIf(g.t = "wps" \/ g.s = "long") \o Alloc("ssid")
                      ELSE FailIf(g.t # "wps")
ConnectSecurity(g) ==
  FailIf(g.t = "bad")
    \o IF g.p = "ok" THEN Take("Key")
       ELSE FailIf((Secured(g) \/ (g.t = "wps" /\ Has(g, "p"))) /\ g.e = "no")
ParseConnect(g) == ConnectWords(g) \o ConnectSsid(g) \o ConnectSecurity(g)

FreeConnect == Free("ssid") \o Free("Key")

ParseRoleUpSta(g) == FailIf(Wrong(g))

\* ParseRoleUpApCmd: the block of the key has no room for the NUL strcpy writes.
RoleUpApWords(g) == FailIf(Help(g))
RoleUpApValues(g) ==
  FailIf(g.s # "ok") \o Take("ssid")
    \o If(Has(g, "p"), FailIf(g.p = "bad") \o Take("Key") \o Does("overrun", "Key"))
    \o FailIf(g.t = "bad")
ParseRoleUpAp(g) == RoleUpApWords(g) \o RoleUpApValues(g)

FreeRoleUpAp == Free("ssid") \o Free("Key")

ParseRoleUpP2P(g)  == FailIf(g.other = "help")
ParseSetChannel(g) == FailIf(g.other = "help")

\* ParseP2PConnectCmd: nobody looks at what the address parser returned.
ParseP2PConnect(g) ==
  FailIf(g.p = "bad") \o NullIf(g.m = "empty")
    \o FailIf(g.p = "empty" \/ NoLine(g) \/ g.other = "help")

ParseConnPolicySet(g) == FailIf(Help(g))
ParseCsiSolic(g) == FailIf(Help(g) \/ g.s # "ok" \/ g.p # "ok")
ParseCsiSolicSetMac(g) ==
  FailIf(Help(g) \/ ~Has(g, "a") \/ ~Has(g, "m") \/ g.a = "bad") \o MacParse(g, "m")
ParseSetWsocPrimary(g) == FailIf(Help(g))

\* ParseRegDomEntrySetCmd: -d does not take the word after it, which is then none of its
\* options.  "flag" is -r, which needs the index only.
ParseRegDomEntrySet(g) ==
  FailIf(g.other = "unknown" \/ Has(g, "d") \/ Help(g))
    \o FailIf(~Has(g, "i"))
    \o If(g.flag = "no", FailIf(\E o \in {"p", "bitmap", "b", "n"} : ~Has(g, o)))
ParseRegDomEntryGet(g) == FailIf(g.other = "unknown" \/ Help(g))

ParseGetRoleId(g)   == FailIf(g.other = "unknown") \o NullIf(g.r = "empty") \o FailIf(Help(g))
ParsePeerAging(g)   == FailIf(g.other = "unknown" \/ Help(g))

\* ParseStartApWpsSessionCmd: the method is the button ("ok") or the pin.
ParseWpsSession(g) ==
  FailIf(g.p \in {"empty", "bad"} \/ Help(g))
    \o FailIf(g.w \notin {"ok", "pin"})
    \o FailIf(g.w = "pin" /\ g.p = "no")

\* The parsers that stand in wlan_cmd.c
ParseScanDwell(g) == NullIf(g.v = "empty") \o FailIf(Help(g))
ParseSetPsMode(g) == FailIf(Help(g)) \o NullIf(~Has(g, "m")) \o FailIf(g.m = "bad")
ParseSetPmMode(g) == FailIf(Help(g)) \o NullIf(~Has(g, "m")) \o FailIf(g.m = "bad")
ParseSetLsi(g)    == FailIf(Help(g)) \o NullIf(~Has(g, "n")) \o FailIf(g.n = "bad")

-----------------------------------------------------------------------------
(* IP commands.                                                              *)

\* ParsePingCmd: the first word is the target.
ParsePing(g) == FailIf(NoLine(g) \/ g.target # "ok") \o FailIf(g.I = "bad" \/ Wrong(g))
ParsePingStop(g) == FailIf(g.i = "bad" \/ Help(g))

\* ParseSendCmd: the address of -c is copied when it is read, and freed when it was parsed.
SendWords(g) ==
  If(Has(g, "c"), Take("clientIp")) \o FailIf(g.c \in {"empty", "twice"}) \o FailIf(Help(g))
ParseSend(g) ==
  SendWords(g) \o NullIf(g.c = "no") \o Free("clientIp") \o FailIf(g.c = "bad") \o Need

ParseRecv(g) == FailIf(Help(g)) \o Need

\* ParseTestIperfCmd: -c makes a client, -B and -s a server; the last one decides.
IperfServer(g) ==
  LET server == g.flag = "ok" \/ g.B # "no" IN
  IF g.c = "no" THEN {server} ELSE IF server THEN BOOLEAN ELSE {FALSE}
IperfWords(g) ==
  If(Has(g, "c"), Take("clientIp")) \o If(Has(g, "B"), Take("serverIp"))
    \o FailIf({g.c, g.B} \cap {"empty", "twice"} # {})
    \o FailIf(NoLine(g) \/ g.other = "help")
ParseTestIperf(g, server) ==
  IperfWords(g) \o Need
    \o IF server THEN If(Has(g, "B"), Free("serverIp")) \o FailIf(g.B = "bad")
                 ELSE FailIf(g.c = "no") \o Free("clientIp") \o FailIf(g.c = "bad")
ParseStopTestIperf(g) == FailIf(Help(g) \/ g.n = "bad")

ParseSetInterfaceIp(g) == NullIf(g.i = "empty" \/ g.ip = "empty") \o FailIf(Help(g))
ParseGetInterfaceIp(g) == FailIf(Help(g)) \o NullIf(~Has(g, "i")) \o FailIf(g.i = "bad")
ParseSetDhcpServer(g) ==
  FailIf(g.t \in {"empty", "bad"}) \o FailIf(g.t = "no")
    \o FailIf(Ipv4Fails(g, "s")) \o FailIf(Ipv4Fails(g, "e")) \o FailIf(g.other = "help")

ParseKill(g) == FailIf(Help(g)) \o NullIf(~Has(g, "i")) \o FailIf(g.i = "bad")

\* ParseSntpConfigServersCmd: a copy of each server, of which the model keeps one; after
\* "twice" a fourth server or one without a value follows.
ParseSntpServers(g) ==
  If(Has(g, "s"), Take("server")) \o FailIf(g.s \in {"empty", "twice"}) \o FailIf(Help(g))

\* ParseSetDateTimeCmd: what sscanf does not find stays as it was.
ParseSetDateTime(g) ==
  FailIf(g.t = "empty") \o If(Has(g, "t"), Take("dateTimeStr") \o Free("dateTimeStr"))
    \o FailIf(Help(g))

-----------------------------------------------------------------------------
(* Bluetooth commands.                                                       *)

ParseBleAdvCfg(g)     == FailIf(Wrong(g))
ParseBleAdvEnable(g)  == FailIf(Wrong(g))
ParseBleScanCfg(g)    == FailIf(Wrong(g))
ParseBleScanEnable(g) == FailIf(Wrong(g))

\* ParseBleConnectCmd; ParseBleDisconnectCmd takes an empty line for the last peer.
BlePeer(g) == FailIf(Wrong(g)) \o MacParse(g, "b") \o FailIf(~Has(g, "t"))
ParseBleConnect(g)    == FailIf(NoLine(g)) \o BlePeer(g)
ParseBleDisconnect(g) == If(~NoLine(g), BlePeer(g))

ParseBleGetBdAddress(g) == If(~NoLine(g), FailIf(Wrong(g) \/ ~Has(g, "t")))
ParseBleSetBdAddress(g) == If(~NoLine(g), FailIf(Wrong(g) \/ ~Has(g, "t")))
ParseBleSetTxPower(g)   == FailIf(Help(g))
ParseBleConnUpdate(g)   == FailIf(Help(g))
ParseBleSetPhy(g)       == FailIf(Help(g))
=============================================================================
