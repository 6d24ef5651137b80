----------------------------- MODULE DhcpServer -----------------------------
(* dhcpserver.c: the DHCP server of the access point, its lease list, and    *)
(* the terminal commands and link events that start, stop and configure it.  *)
(* Messages are handled one at a time under lwIP's core lock, so a message   *)
(* and its answer are one step; the answer may be lost.                      *)
(*                                                                           *)
(* An address is 10 * host + net: the server compares addresses in network   *)
(* byte order on a little-endian core, so the last octet weighs most.        *)
EXTENDS Integers, FiniteSets, Sequences, SequencesExt, FiniteSetsExt

CONSTANTS DhcpClients,  \* hardware addresses
          MaxLease,     \* DHCPS_MAX_LEASE, 100 in the code
          HalfHosts,    \* 0x80 in the code
          ApAddrs,      \* addresses the user may give the access point
          Ranges,       \* <<first, last>> of the set-DHCP-server command
          Foreign       \* own addresses a client may bring along, outside the range

VARIABLES leases,   \* plist: records [mac, ip] in the order of the list
          range,    \* dhcps_lease: enable, start_ip, end_ip
          pcb,      \* pcb_dhcps: none, bound to port 67, or a pcb whose bind failed
          orphan,   \* a bound pcb pcb_dhcps no longer points to
          apAddr,   \* address of the netif, server_address and ap_if_ip
          apLink,   \* the access point's link is up
          setCmd,   \* the set-DHCP-server command: idle, stopped or set
          clients,  \* what each client believes: none, offered or bound, and its address
          taint     \* what happened: foreign, restart, static, race (history)

dhcpVars == <<leases, range, pcb, orphan, apAddr, apLink, setCmd, clients, taint>>

ANY == 0
NoAddr == [st |-> "none", ip |-> ANY]
Net(a) == a % 10
HostOrder(a) == 100 * Net(a) + a \div 10     \* the order htonl gives
RangeOK(first, last, ip) ==
  /\ ~(HostOrder(first) <= HostOrder(ip) /\ HostOrder(ip) <= HostOrder(last))
  /\ Net(first) = Net(ip) /\ Net(last) = Net(ip)
  /\ last - first \in 0..10 * MaxLease       \* an unsigned difference

DefaultRange(ip) ==
  LET first == IF ip \div 10 >= HalfHosts THEN ip - 10 * MaxLease ELSE ip + 10
  IN  [enable |-> TRUE, lo |-> first, hi |-> first + 10 * (MaxLease - 1)]

InitLease(ip) ==
  IF range.enable /\ RangeOK(range.lo, range.hi, ip) THEN range ELSE DefaultRange(ip)

Init ==
  /\ leases = <<>>
  /\ range = [enable |-> FALSE, lo |-> ANY, hi |-> ANY]
  /\ pcb = "none" /\ orphan = FALSE
  /\ \E a \in ApAddrs : apAddr = [netif |-> a, server |-> ANY, info |-> ANY]
  /\ apLink = FALSE
  /\ setCmd = "idle"
  /\ clients = [c \in DhcpClients |-> NoAddr]
  /\ taint = {}

-----------------------------------------------------------------------------
(* The list.                                                                 *)

NodesOf(c) == {i \in DOMAIN leases : leases[i].mac = c}
NodesAt(ip) == {i \in DOMAIN leases : leases[i].ip = ip}

\* Mutant: a new node goes to the end of the list.
NodeInsertLast(list, node) == Append(list, node)

NodeInsert(list, node) ==
  LET later == {i \in DOMAIN list : node.ip < list[i].ip}
  IN  IF later = {} THEN Append(list, node) ELSE InsertAt(list, Min(later), node)

NodeRemove(list, i) == RemoveAt(list, i)

\* The address the walk of client_update has reached when it stops: at the
\* client's own node, at the first address that is not the next one, or at the end.
InOrder(k) == \A j \in 1..k : leases[j].ip = range.lo + 10 * (j - 1)
FirstGap(c) ==
  LET before == IF NodesOf(c) = {} THEN Len(leases) ELSE Min(NodesOf(c)) - 1
  IN  range.lo + 10 * Max({k \in 0..before : InOrder(k)})

Full(c) == NodesOf(c) = {} /\ InOrder(Len(leases)) /\ FirstGap(c) > range.hi

\* wifi_softap_dhcps_client_update: the new list, the address of the client
\* (ANY when it gets none) and the flag renew.  An address that is in the list
\* under another client is refused: no caller ever makes a lease OFFLINE.
Refused == [list |-> leases, ip |-> ANY, renew |-> FALSE]
ClientUpdateOr(c, ciaddr, taken) ==
  LET ip    == IF ciaddr = ANY THEN FirstGap(c) ELSE ciaddr
      mine  == NodesOf(c)
      owner == IF ciaddr = ANY THEN {} ELSE NodesAt(ciaddr)
      put(list) == [list |-> NodeInsert(list, [mac |-> c, ip |-> ip]), ip |-> ip,
                    renew |-> FALSE]
  IN  IF ciaddr = ANY /\ Full(c) THEN Refused
      ELSE IF owner # {}
           THEN IF Max(owner) \in mine
                THEN [list |-> leases, ip |-> ip, renew |-> TRUE]
                ELSE taken
           ELSE IF mine # {}
                THEN put(NodeRemove(leases, Max(mine)))
                ELSE IF ip > range.hi THEN Refused ELSE put(leases)

\* Mutant: an address is taken from the client that holds it.
ClientUpdateTakes(c, ciaddr) ==
  ClientUpdateOr(c, ciaddr,
    [list |-> [i \in DOMAIN leases |-> IF leases[i].ip = ciaddr
                                      THEN [mac |-> c, ip |-> ciaddr] ELSE leases[i]],
     ip |-> ciaddr, renew |-> FALSE])
ClientUpdate(c, ciaddr) == ClientUpdateOr(c, ciaddr, Refused)

\* wifi_softap_dhcps_client_leave with force: every caller forces.
ClientLeave(list, c, ip) ==
  LET node == {i \in DOMAIN list : list[i].mac = c /\ list[i].ip = ip}
  IN  IF node = {} THEN list ELSE NodeRemove(list, Min(node))

-----------------------------------------------------------------------------
(* A message: its type, ciaddr and the option 50, ANY when absent.           *)

ParseOptions(m, upd) ==
  LET asked == IF m.req = ANY THEN "idle" ELSE IF m.req = upd.ip THEN "ack" ELSE "nak"
  IN  CASE m.type = "discover" -> "offer"
        [] m.type = "request"  -> IF asked # "idle" THEN asked
                                  ELSE IF upd.renew THEN "ack" ELSE "nak"
        [] m.type = "decline"  -> "idle"
        [] m.type = "release"  -> "release"
        [] OTHER               -> asked

Listening == pcb = "bound" \/ orphan

\* create_msg and the three senders: the answer carries client_address as the
\* client's address; when no pbuf can be had, or on the air, it is lost.
NoReply == [type |-> "none", yiaddr |-> ANY]
CreateMsg(type, ip) == [type |-> type, yiaddr |-> ip]
SendOffer(ip) == {NoReply, CreateMsg("offer", ip)}
SendAck(ip) == {NoReply, CreateMsg("ack", ip)}
SendNak(ip) == {NoReply, CreateMsg("nak", ip)}

\* parse_msg updates the list before it looks at the type of the message.
ParseMsg(c, m, upd, ret) ==
  leases' = IF ret = "release" THEN ClientLeave(upd.list, c, m.ciaddr) ELSE upd.list

\* handle_dhcp, and what the client makes of the answer.
HandleDhcp(c, m, OnReply(_)) ==
  LET upd == ClientUpdate(c, m.ciaddr)
      ret == ParseOptions(m, upd)
  IN  /\ Listening
      /\ ParseMsg(c, m, upd, ret)
      /\ \E reply \in CASE ret = "offer" -> SendOffer(upd.ip)
                         [] ret = "ack"   -> SendAck(upd.ip)
                         [] ret = "nak"   -> SendNak(upd.ip)
                         [] OTHER         -> {NoReply} : OnReply(reply)
      /\ UNCHANGED <<range, pcb, orphan, apAddr, apLink, setCmd>>

Msg(type, ciaddr, req) == [type |-> type, ciaddr |-> ciaddr, req |-> req]
Believes(c, st, ip) == clients' = [clients EXCEPT ![c] = [st |-> st, ip |-> ip]]

Discover(c) ==
  /\ HandleDhcp(c, Msg("discover", ANY, ANY),
        LAMBDA reply : IF reply.yiaddr = ANY THEN Believes(c, "none", ANY)
                                             ELSE Believes(c, "offered", reply.yiaddr))
  /\ UNCHANGED taint

Request(c) ==
  /\ clients[c].st = "offered"
  /\ HandleDhcp(c, Msg("request", ANY, clients[c].ip),
        LAMBDA reply : CASE reply.type = "ack" -> Believes(c, "bound", reply.yiaddr)
                         [] reply.type = "nak" -> Believes(c, "none", ANY)
                         [] OTHER              -> UNCHANGED clients)
  /\ UNCHANGED taint

Renew(c) ==
  /\ clients[c].st = "bound"
  /\ HandleDhcp(c, Msg("request", clients[c].ip, ANY),
        LAMBDA reply : IF reply.type = "nak" THEN Believes(c, "none", ANY)
                                             ELSE UNCHANGED clients)
  /\ UNCHANGED taint

Release(c) ==
  /\ clients[c].st = "bound"
  /\ HandleDhcp(c, Msg("release", clients[c].ip, ANY),
        LAMBDA reply : Believes(c, "none", ANY))
  /\ UNCHANGED taint

Decline(c) ==
  /\ clients[c].st = "offered"
  /\ HandleDhcp(c, Msg("decline", ANY, clients[c].ip),
        LAMBDA reply : Believes(c, "none", ANY))
  /\ UNCHANGED taint

\* A client with an address of its own asks for the other options.
Inform(c, a) ==
  /\ clients[c].st = "none"
  /\ HandleDhcp(c, Msg("inform", a, ANY), LAMBDA reply : UNCHANGED clients)
  /\ taint' = taint \cup {"foreign"}

\* A client leaves without a message, or restarts and asks for its address again.
Vanish(c) ==
  /\ clients[c].st # "none"
  /\ \/ Believes(c, "none", ANY)
     \/ clients[c].st = "bound" /\ Believes(c, "offered", clients[c].ip)
  /\ UNCHANGED <<leases, range, pcb, orphan, apAddr, apLink, setCmd, taint>>

-----------------------------------------------------------------------------
(* Starting and stopping.                                                    *)

DhcpsStart(a) ==
  /\ pcb' = IF Listening THEN "unbound" ELSE "bound"
  /\ orphan' = (orphan \/ pcb = "bound")
  /\ range' = [InitLease(a) EXCEPT !.enable = TRUE]
  /\ apAddr' = [netif |-> a, server |-> a, info |-> a]

DhcpsStop ==
  /\ pcb' = "none"
  /\ leases' = <<>>
  /\ range' = [range EXCEPT !.enable = FALSE]

\* The event thread or the role commands bring the interface up or down; a
\* client loses its link, and with it its address, when it goes down.
LinkUp ==
  /\ ~apLink
  /\ apLink' = TRUE
  /\ DhcpsStart(apAddr.netif)
  /\ taint' = IF setCmd = "idle" THEN taint ELSE taint \cup {"race"}
  /\ UNCHANGED <<leases, setCmd, clients>>

LinkDown ==
  /\ apLink
  /\ apLink' = FALSE
  /\ DhcpsStop
  /\ clients' = [c \in DhcpClients |-> NoAddr]
  /\ taint' = IF setCmd = "idle" THEN taint \ {"foreign", "restart"} ELSE taint \cup {"race"}
  /\ UNCHANGED <<orphan, apAddr, setCmd>>

\* cmdSetDhcpServerCallback: stop, configure, start, each under the core lock alone.
SetServerStop ==
  /\ setCmd = "idle" /\ apLink
  /\ DhcpsStop
  /\ setCmd' = "stopped"
  /\ taint' = IF \E c \in DhcpClients : clients[c].st # "none"
              THEN taint \cup {"restart"} ELSE taint
  /\ UNCHANGED <<orphan, apAddr, apLink, clients>>

SetServerLease(first, last) ==
  /\ setCmd = "stopped"
  /\ setCmd' = "set"
  /\ range' = IF RangeOK(first, last, apAddr.info)
              THEN [enable |-> TRUE, lo |-> first, hi |-> last] ELSE range
  /\ UNCHANGED <<leases, pcb, orphan, apAddr, apLink, clients, taint>>

SetServerStart ==
  /\ setCmd = "set"
  /\ setCmd' = "idle"
  /\ DhcpsStart(apAddr.netif)
  /\ UNCHANGED <<leases, apLink, clients, taint>>

\* cmdSetInterfaceIpCallback for the access point: in DHCP mode the server is
\* restarted around the new address, in static mode only the address changes.
SetApDynamic(a) ==
  /\ setCmd = "idle" /\ apLink
  /\ leases' = <<>>
  /\ pcb' = IF orphan THEN "unbound" ELSE "bound"
  /\ range' = DefaultRange(a)
  /\ apAddr' = [netif |-> a, server |-> a, info |-> a]
  /\ taint' = (taint \ {"static"}) \cup
              (IF \E c \in DhcpClients : clients[c].st # "none" THEN {"restart"} ELSE {})
  /\ UNCHANGED <<orphan, apLink, setCmd, clients>>

SetApStatic(a) ==
  /\ setCmd = "idle" /\ apLink
  /\ apAddr' = [apAddr EXCEPT !.netif = a]
  /\ taint' = taint \cup {"static"}
  /\ UNCHANGED <<leases, range, pcb, orphan, apLink, setCmd, clients>>

Next ==
  \/ \E c \in DhcpClients :
        \/ Discover(c) \/ Request(c) \/ Renew(c) \/ Release(c) \/ Decline(c) \/ Vanish(c)
        \/ \E a \in Foreign : Inform(c, a)
  \/ LinkUp \/ LinkDown
  \/ SetServerStop \/ SetServerStart
  \/ \E r \in Ranges : SetServerLease(r[1], r[2])
  \/ \E a \in ApAddrs : SetApDynamic(a) \/ SetApStatic(a)

Spec == Init /\ [][Next]_dhcpVars

-----------------------------------------------------------------------------
LeasesOf(c) == {leases[i].ip : i \in NodesOf(c)}
Leased == {leases[i].ip : i \in DOMAIN leases}

\* No two clients use one address, unless a client with a foreign address got
\* into the list or the server was restarted under its clients.
Unique ==
  taint \cap {"foreign", "restart", "race"} = {} =>
    \A c, d \in DhcpClients :
      c # d /\ clients[c].st = "bound" /\ clients[d].st = "bound" =>
        clients[c].ip # clients[d].ip

\* A client has at most one lease, and the list is sorted, whatever clients bring.
OneLeaseEach ==
  /\ \A c \in DhcpClients : Cardinality(NodesOf(c)) <= 1
  /\ \A i \in 1..Len(leases) - 1 : leases[i].ip <= leases[i + 1].ip

\* A client is turned away only when every address of the range is leased.
TurnedAwayOnlyWhenFull ==
  Listening => \A c \in DhcpClients :
    ClientUpdate(c, ANY).ip = ANY =>
      \A k \in 0..(range.hi - range.lo) \div 10 : range.lo + 10 * k \in Leased

\* What the server hands out is never its own address, unless the user gave the
\* interface a static address under the running server, or a client came with an
\* address from outside the range or from before a restart, or a second pcb listens.
NeverOwnAddress ==
  taint = {} => apAddr.netif \notin Leased

\* The server answers exactly while the link is up, unless a link event fell
\* into the middle of the configuration command.
ServerFollowsLink == "race" \notin taint /\ setCmd = "idle" => Listening = apLink

\* A message of one client leaves the leases of all others alone.
OthersKeepLeases ==
  [][leases' # <<>> =>
       Cardinality({c \in DhcpClients : LeasesOf(c)' # LeasesOf(c)}) <= 1]_dhcpVars
=============================================================================
