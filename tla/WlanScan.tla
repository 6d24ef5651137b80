--------------------------------- MODULE WlanScan ---------------------------------
(* The scan command (wlan_cmd.c) and the SCAN_RESULT event (network_terminal.c) that *)
(* fills the one table of results and signals the one sync object; the command never *)
(* clears that object.  A P2P find scans too and does not wait.                      *)
EXTENDS Integers, Sequences

CONSTANT MaxScans \* bound: scan commands

VARIABLES scanCmd,  \* the scan command: idle or wait
          scanDone, \* eventCompletedScanObj
          scanRuns, \* the driver's scans, oldest first
          scanNo,   \* scans so far
          lost,     \* a scan timed out, or ran with nobody to wait for it
          results,  \* the scan whose results netEntries holds; 0: cleared
          said      \* what the last scan command returned

scanVars == <<scanCmd, scanDone, scanRuns, scanNo, lost, results, said>>

Init ==
  /\ scanCmd = "idle" /\ scanDone = FALSE /\ scanRuns = <<>>
  /\ scanNo = 0 /\ lost = FALSE /\ results = 0 /\ said = "none"

\* cmdScan up to the wait: the results are cleared and the driver asked, which may
\* refuse; a P2P find is over with that.
ScanBegins(p2p) ==
  /\ scanCmd = "idle" /\ scanNo < MaxScans
  /\ results' = 0
  /\ \/ /\ scanNo' = scanNo + 1 /\ scanRuns' = Append(scanRuns, scanNo + 1)
        /\ scanCmd' = IF p2p THEN "idle" ELSE "wait"
        /\ lost' = (lost \/ p2p)
     \/ UNCHANGED <<scanNo, scanRuns, scanCmd, lost>>
  /\ said' = "none"
  /\ UNCHANGED scanDone

ScanEnds ==
  /\ scanCmd = "wait" /\ scanDone
  /\ scanCmd' = "idle" /\ scanDone' = FALSE /\ said' = "done"
  /\ UNCHANGED <<scanRuns, scanNo, lost, results>>

ScanTimesOut ==
  /\ scanCmd = "wait" /\ ~scanDone
  /\ scanCmd' = "idle" /\ said' = "failed" /\ lost' = TRUE
  /\ UNCHANGED <<scanDone, scanRuns, scanNo, results>>

\* WLAN_EVENT_SCAN_RESULT.
ScanResult ==
  /\ scanRuns # <<>>
  /\ results' = Head(scanRuns) /\ scanRuns' = Tail(scanRuns)
  /\ scanDone' = TRUE
  /\ UNCHANGED <<scanCmd, scanNo, lost, said>>

Next ==
  \/ (\E p2p \in BOOLEAN : ScanBegins(p2p))
  \/ ScanEnds \/ ScanTimesOut \/ ScanResult

Spec == Init /\ [][Next]_scanVars

\* A scan command that reports success left its own results in the table, unless an
\* earlier scan timed out or was a find: its event then ends the next scan at once, with
\* results that are old or none (wlan_cmd.c:1831).
ScanAnswersOwn == said = "done" /\ ~lost => results = scanNo
=============================================================================
