-------------------------------- MODULE BleHost --------------------------------
(* nimble_host.c and ble_cmd.c: the command thread starts and stops the NimBLE *)
(* host and asks it for advertising, scanning and connections; the host task   *)
(* reports what happened in gap_event_cb.  Both keep the table of connections. *)
EXTENDS Integers, Sequences, FiniteSets, FiniteSetsExt

CONSTANTS BleHandles, \* connection handles the controller may give
          MaxConns,   \* BLE_MAX_SUPPORTED_CONNS
          MaxScan,    \* BLE_MAX_SCAN_RESULTS
          MaxLinks    \* bound: connections made in a behaviour

VARIABLES host,    \* off, starting, on
          syncObj, \* hostInitEventSyncObj: none, empty, signalled
          late,    \* the sync object was signalled when it did not exist
          bleCmd,  \* the command thread: what it does, to which table entry
          bleEvt,  \* the host task: the same
          table,   \* extConnCB.connHandles
          conns,   \* extConnCB.connCount
          links,   \* the connections there are
          reports, \* gap events that wait for the host task
          adv,     \* advertising instance 0: none, configured, on
          scan,    \* active, and extScanResultsCount
          made,    \* how many connections were made
          overlap  \* both threads were in the table at once

bleVars == <<host, syncObj, late, bleCmd, bleEvt, table, conns, links, reports, adv, scan, made, overlap>>

NoHandle == "none"
Entries == 1..MaxConns
Idle == [at |-> "idle", i |-> 0, h |-> NoHandle, read |-> 0]
EmptyTable == [i \in Entries |-> NoHandle]

Init ==
  /\ host = "off" /\ syncObj = "none" /\ late = FALSE
  /\ bleCmd = Idle /\ bleEvt = Idle
  /\ table = EmptyTable /\ conns = 0
  /\ links = {} /\ reports = <<>>
  /\ adv = "none"
  /\ scan = [on |-> FALSE, count |-> 0]
  /\ made = 0 /\ overlap = FALSE

Report(what, h) == Append(reports, [what |-> what, h |-> h])
InTable(t) == t.at \in {"add", "remove", "stored"}

-----------------------------------------------------------------------------
(* The command thread: start and stop.                                         *)

\* cmdBleStartCallback, nimble_host_start up to its wait: the controller may refuse;
\* ble_example_init clears the tables and makes the sync object.
BleStart ==
  /\ bleCmd.at = "idle" /\ host = "off"
  /\ table' = EmptyTable /\ conns' = 0
  /\ scan' = [on |-> FALSE, count |-> 0]
  /\ syncObj' = "empty"
  /\ host' = "starting"
  /\ bleCmd' = [Idle EXCEPT !.at = "wait"]
  /\ UNCHANGED <<late, bleEvt, links, reports, adv, made, overlap>>

\* The wait ends with the signal or after a second; the sync object goes either way.
BleStartEnds ==
  /\ bleCmd.at = "wait"
  /\ syncObj' = "none"
  /\ bleCmd' = Idle
  /\ UNCHANGED <<host, late, bleEvt, table, conns, links, reports, adv, scan, made, overlap>>

\* nimble_host_stop: the host task is removed, wherever it was.
BleStop ==
  /\ bleCmd.at = "idle" /\ host = "on"
  /\ host' = "off"
  /\ links' = {} /\ reports' = <<>> /\ bleEvt' = Idle
  /\ adv' = "none" /\ scan' = [scan EXCEPT !.on = FALSE]
  /\ UNCHANGED <<syncObj, late, bleCmd, table, conns, made, overlap>>

-----------------------------------------------------------------------------
(* The command thread: advertising, scanning, connecting.                      *)

Ready == bleCmd.at = "idle" /\ host = "on"

\* nimble_host_ext_adv_cfg: the set is removed and configured anew; one that is
\* advertising cannot be removed.
AdvCfg ==
  /\ Ready /\ adv # "on"
  /\ adv' \in {"none", "configured"}
  /\ UNCHANGED <<host, syncObj, late, bleCmd, bleEvt, table, conns, links, reports, scan, made, overlap>>

\* nimble_host_ext_adv_enable.
AdvEnable(enable) ==
  /\ Ready /\ adv # "none"
  /\ adv' = IF enable THEN "on" ELSE "configured"
  /\ UNCHANGED <<host, syncObj, late, bleCmd, bleEvt, table, conns, links, reports, scan, made, overlap>>

\* nimble_host_ext_scan_enable: the results are thrown away first, also when the
\* scan is disabled or the host refuses.
ScanEnable ==
  /\ Ready
  /\ \E on \in BOOLEAN : scan' = [on |-> on, count |-> 0]
  /\ UNCHANGED <<host, syncObj, late, bleCmd, bleEvt, table, conns, links, reports, adv, made, overlap>>

\* nimble_host_ext_disconnect without an address: the entries one after the other.
DisconnectAll ==
  /\ Ready
  /\ bleCmd' = [Idle EXCEPT !.at = "entry", !.i = 1]
  /\ UNCHANGED <<host, syncObj, late, bleEvt, table, conns, links, reports, adv, scan, made, overlap>>

DisconnectEntry ==
  /\ bleCmd.at = "entry"
  /\ IF bleCmd.i > MaxConns
     THEN bleCmd' = Idle /\ UNCHANGED <<links, reports, overlap>>
     ELSE LET h == table[bleCmd.i] IN
          /\ bleCmd' = IF h = NoHandle THEN [bleCmd EXCEPT !.i = @ + 1]
                                       ELSE [bleCmd EXCEPT !.at = "remove", !.h = h]
          /\ links' = links \ {h}
          /\ reports' = IF h \in links THEN Report("disconnected", h) ELSE reports
          /\ overlap' = (overlap \/ (h # NoHandle /\ InTable(bleEvt)))
  /\ UNCHANGED <<host, syncObj, late, bleEvt, table, conns, adv, scan, made>>

\* remove_from_connected_peers and add_to_connected_peers, as each thread runs them:
\* the entry is found and written and the count read, then the count is written.
Found(what, h) == {i \in Entries : table[i] = IF what = "add" THEN NoHandle ELSE h}

Writes(t) ==
  LET found == Found(t.at, t.h) IN
    IF found = {} THEN table' = table
    ELSE table' = [table EXCEPT ![Min(found)] = IF t.at = "add" THEN t.h ELSE NoHandle]

Written(t) == [t EXCEPT !.read = IF Found(t.at, t.h) = {} THEN conns
                                 ELSE IF t.at = "add" THEN conns + 1 ELSE conns - 1,
                        !.at = "stored"]

CmdWritesEntry ==
  /\ bleCmd.at = "remove"
  /\ Writes(bleCmd) /\ bleCmd' = Written(bleCmd)
  /\ UNCHANGED <<host, syncObj, late, bleEvt, conns, links, reports, adv, scan, made, overlap>>

CmdStoresCount ==
  /\ bleCmd.at = "stored"
  /\ conns' = bleCmd.read
  /\ bleCmd' = [Idle EXCEPT !.at = "entry", !.i = bleCmd.i + 1]
  /\ UNCHANGED <<host, syncObj, late, bleEvt, table, links, reports, adv, scan, made, overlap>>

-----------------------------------------------------------------------------
(* The host task.                                                              *)

\* ble_sync_cb.
HostSync ==
  /\ host = "starting"
  /\ host' = "on"
  /\ late' = (late \/ syncObj = "none")
  /\ syncObj' = IF syncObj = "empty" THEN "signalled" ELSE syncObj
  /\ UNCHANGED <<bleCmd, bleEvt, table, conns, links, reports, adv, scan, made, overlap>>

\* Mutant: the disconnect event does not reach the table.
GapEventIgnored ==
  /\ host = "on" /\ bleEvt.at = "idle" /\ reports # <<>>
  /\ LET r == Head(reports) IN
     bleEvt' = [Idle EXCEPT !.at = IF r.what = "connected" THEN "add" ELSE "idle", !.h = r.h]
  /\ overlap' = (overlap \/ InTable(bleCmd))
  /\ reports' = Tail(reports)
  /\ UNCHANGED <<host, syncObj, late, bleCmd, table, conns, links, adv, scan, made>>

\* gap_event_cb: a connection is entered, or taken out.
GapEvent ==
  /\ host = "on" /\ bleEvt.at = "idle" /\ reports # <<>>
  /\ LET r == Head(reports) IN
     bleEvt' = [Idle EXCEPT !.at = IF r.what = "connected" THEN "add" ELSE "remove", !.h = r.h]
  /\ overlap' = (overlap \/ InTable(bleCmd))
  /\ reports' = Tail(reports)
  /\ UNCHANGED <<host, syncObj, late, bleCmd, table, conns, links, adv, scan, made>>

EvtWritesEntry ==
  /\ bleEvt.at \in {"add", "remove"}
  /\ Writes(bleEvt) /\ bleEvt' = Written(bleEvt)
  /\ UNCHANGED <<host, syncObj, late, bleCmd, conns, links, reports, adv, scan, made, overlap>>

EvtStoresCount ==
  /\ bleEvt.at = "stored"
  /\ conns' = bleEvt.read
  /\ bleEvt' = Idle
  /\ UNCHANGED <<host, syncObj, late, bleCmd, table, links, reports, adv, scan, made, overlap>>

\* The end of advertising (a connection was made, or the time is over): it starts
\* again while there is room for a connection.
AdvComplete ==
  /\ host = "on" /\ bleEvt.at = "idle" /\ adv = "on"
  /\ adv' = IF conns < MaxConns THEN "on" ELSE "configured"
  /\ UNCHANGED <<host, syncObj, late, bleCmd, bleEvt, table, conns, links, reports, scan, made, overlap>>

\* BLE_GAP_EVENT_EXT_DISC: stored while there is room.  Coarser than the code, whose host
\* task tests, fills and increments while a command may reset the count between them.
ScanResult ==
  /\ host = "on" /\ bleEvt.at = "idle" /\ scan.on
  /\ scan.count < MaxScan
  /\ scan' = [scan EXCEPT !.count = @ + 1]
  /\ UNCHANGED <<host, syncObj, late, bleCmd, bleEvt, table, conns, links, reports, adv, made, overlap>>

\* The peers and the controller: a connection is made, or lost.
LinkUp ==
  /\ host = "on" /\ made < MaxLinks /\ Cardinality(links) < MaxConns
  /\ \E h \in BleHandles \ (links \cup {reports[k].h : k \in 1..Len(reports)}) :
       links' = links \cup {h} /\ reports' = Report("connected", h)
  /\ made' = made + 1
  /\ UNCHANGED <<host, syncObj, late, bleCmd, bleEvt, table, conns, adv, scan, overlap>>

LinkDown ==
  /\ \E h \in links : links' = links \ {h} /\ reports' = Report("disconnected", h)
  /\ UNCHANGED <<host, syncObj, late, bleCmd, bleEvt, table, conns, adv, scan, made, overlap>>

Next ==
  \/ BleStart \/ BleStartEnds \/ BleStop
  \/ AdvCfg \/ (\E enable \in BOOLEAN : AdvEnable(enable)) \/ ScanEnable
  \/ DisconnectAll \/ DisconnectEntry \/ CmdWritesEntry \/ CmdStoresCount
  \/ HostSync \/ GapEvent \/ EvtWritesEntry \/ EvtStoresCount
  \/ AdvComplete \/ ScanResult \/ LinkUp \/ LinkDown

DisconnectAllStep == DisconnectEntry \/ CmdWritesEntry \/ CmdStoresCount
HostStep          == GapEvent \/ EvtWritesEntry \/ EvtStoresCount

\* A start waits with a timeout, a command goes on, and the host task runs.
Spec ==
  /\ Init /\ [][Next]_bleVars
  /\ WF_bleVars(BleStartEnds) /\ WF_bleVars(DisconnectAllStep) /\ WF_bleVars(HostStep)

-----------------------------------------------------------------------------
\* When the host is on and both threads are quiet, the table holds the connections
\* there are, each once, and connCount is their number, which decides whether
\* advertising goes on; but not if both threads were in the table at once, which
\* nothing prevents (nimble_host.c:231, 1170).
QuietTable == host = "on" /\ bleCmd.at = "idle" /\ bleEvt.at = "idle" /\ reports = <<>>

TableTrue ==
  QuietTable /\ ~overlap =>
    /\ {table[i] : i \in Entries} \ {NoHandle} = links
    /\ \A i, j \in Entries : i # j /\ table[i] # NoHandle => table[i] # table[j]
    /\ conns = Cardinality(links)

\* In whatever order scan reports and the commands that throw the results away come, no
\* report is stored behind the table (nimble_host.c:661).
ScanInTable == scan.count <= MaxScan

\* The sync object of a start exists only while the start waits: a host that syncs
\* late signals one that is gone (nimble_host.c:1421) and no later start can take
\* its signal for its own.
SyncObjOfStart == syncObj # "none" => bleCmd.at = "wait"

\* A command to disconnect all peers comes to its end.
DisconnectAllEnds == bleCmd.at = "entry" ~> bleCmd.at = "idle"
=============================================================================
