----------------------------- MODULE MCTerminal ------------------------------
(* The DHCP server, the vendor elements, the command line, the commands and the  *)
(* files for TLC.  They share nothing; the first state picks the one that runs.  *)
EXTENDS Integers, Sequences, FiniteSets

CONSTANTS DhcpClients, MaxLease, HalfHosts, ApAddrs, Ranges, Foreign, VieRoles,
          Nodes, Lines, HistoryLen, BleFiles, WlanFiles, Data, Manifests, Open,
          MaxBoots

\* Addresses are numbers other than ANY, and half the hosts of a net are more than a range
\* has (dhcpserver.c: 0x80 and DHCPS_MAX_LEASE); the history has a place.  The tables are
\* finite, and the names of the files and the lines are none of the model's marks.
ASSUME TerminalAssumption ==
  /\ MaxLease \in Nat /\ HalfHosts \in Nat /\ MaxLease < HalfHosts
  /\ ApAddrs \subseteq Nat /\ Foreign \subseteq Nat
  /\ \A r \in Ranges : r[1] \in Nat \ {0} /\ r[2] \in Nat
  /\ HistoryLen \in Nat \ {0} /\ "null" \notin Lines
  /\ Open \in Nat
  /\ (BleFiles \cup WlanFiles) \cap {"fw", "cc35xx-conf", "rambtlr", "closed"} = {}
  /\ IsFiniteSet(Nodes) /\ "null" \notin Nodes

VARIABLE part
VARIABLES
  leases, range, pcb, orphan, apAddr, apLink, setCmd, clients, taint,
  vieHead, heap, firmware, step, untold, stray,
  buf, head, iterCursor, isFull, charBuf, original, replaced, typed, stale,
  nv, file, xmem, confAt, manifest, slot, writes, promised, cut, boots,
  name, todo, blocks, faults

Dhcp    == INSTANCE DhcpServer
Vie     == INSTANCE VendorIe
Uart    == INSTANCE UartHistory
Files   == INSTANCE OsiFile
Cmd     == INSTANCE CmdCalls

dhcpVars == <<leases, range, pcb, orphan, apAddr, apLink, setCmd, clients, taint>>
vieVars  == <<vieHead, heap, firmware, step, untold, stray>>
uartVars == <<buf, head, iterCursor, isFull, charBuf, original, replaced, typed,
               stale>>
filesVars == <<nv, file, xmem, confAt, manifest, slot, writes, promised, cut, boots>>
cmdVars  == <<name, todo, blocks, faults>>

MCInit ==
  /\ part \in {"dhcp", "vie", "uart", "files", "cmd"}
  /\ Dhcp!Init
  /\ Vie!Init
  /\ Uart!Init
  /\ Files!Init
  /\ Cmd!Init
  /\ part # "dhcp" => apAddr.netif = 20
  /\ part # "files" => manifest = <<>>

MCNext ==
  /\ part' = part
  /\ \/ /\ part = "dhcp" /\ Dhcp!Next
        /\ UNCHANGED <<vieVars, uartVars, filesVars, cmdVars>>
     \/ /\ part = "vie" /\ Vie!Next
        /\ UNCHANGED <<dhcpVars, uartVars, filesVars, cmdVars>>
     \/ /\ part = "uart" /\ Uart!Next
        /\ UNCHANGED <<dhcpVars, vieVars, filesVars, cmdVars>>
     \/ /\ part = "files" /\ Files!Next
        /\ UNCHANGED <<dhcpVars, vieVars, uartVars, cmdVars>>
     \/ /\ part = "cmd" /\ Cmd!Next
        /\ UNCHANGED <<dhcpVars, vieVars, uartVars, filesVars>>

MCSpec ==
  /\ MCInit /\ [][MCNext]_<<part, dhcpVars, vieVars, uartVars, filesVars, cmdVars>>

MCApAddrs   == {20, 50}
MCRanges    == {<<60, 60>>, <<10, 20>>, <<61, 71>>}
MCForeign   == {10, 31}
MCManifests == {<<"conf">>, <<"other", "conf", "conf">>, <<>>}

\* No address is leased twice, to two clients or to the access point itself, none is
\* refused while one is free, and the server runs while the link is up
\* (dhcpserver.c:1106, 1182).
DhcpSafe ==
  part = "dhcp" => /\ Dhcp!Unique /\ Dhcp!OneLeaseEach /\ Dhcp!NeverOwnAddress
                   /\ Dhcp!TurnedAwayOnlyWhenFull /\ Dhcp!ServerFollowsLink

\* What one client sends never takes the lease of another away (dhcpserver.c:1143).
OthersKeepLeases == Dhcp!OthersKeepLeases

\* The vendor lists, the command history and the files: what is linked, shown or read is
\* what was added, typed or written (wlan_cmd.c:1577, uart_term.c:869,
\* osi_filesystem.c:711).
KeepsWhatWasGiven ==
  /\ part = "vie" => Vie!ListsSound /\ Vie!FirmwareFollows
  /\ part = "uart" => Uart!WalkReturns
  /\ part = "files" => Files!FilesSafe

\* However a line is wrong, the heap is used up or the driver refuses, a command gives
\* back every block it made, and only the known ones leave what C defines
\* (wlan_cmd.c:910, cmd_parser.c:1240).
ParserSafe == part = "cmd" => Cmd!ParserSafe
=============================================================================
