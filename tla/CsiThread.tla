-------------------------------- MODULE CsiThread --------------------------------
(* CSI collection (wlan_cmd.c): the commands csi_init, csi_start, csi_stop and       *)
(* csi_deinit against the thread that pulls results, through two plain flags and     *)
(* two binary sync objects.                                                          *)
EXTENDS Integers

VARIABLES csiCmd,   \* the command thread
          puller,   \* the CSI thread: none, or where it is
          handle,   \* csi_thread # NULL
          wake,     \* csi_thread_sync: none, empty, signalled
          gone,     \* csi_thread_exit_sync: the same
          keep,     \* csi_keep_reading
          exit,     \* csi_thread_exit
          gaveUp,   \* a deinit stopped waiting for the thread
          touched   \* the thread used a sync object that was deleted

csiVars == <<csiCmd, puller, handle, wake, gone, keep, exit, gaveUp, touched>>

Init ==
  /\ csiCmd = "idle" /\ puller = "none" /\ handle = FALSE
  /\ wake = "none" /\ gone = "none"
  /\ keep = FALSE /\ exit = FALSE
  /\ gaveUp = FALSE /\ touched = FALSE

-----------------------------------------------------------------------------
(* The commands.                                                               *)

\* csiInitCallback: the objects and the thread are made once; any of them may fail,
\* and what was made before it goes again.
InitNew ==
  /\ csiCmd = "idle" /\ ~handle
  /\ exit' = FALSE /\ keep' = FALSE
  /\ \/ puller' = "test" /\ handle' = TRUE /\ wake' = "empty" /\ gone' = "empty"
     \/ wake' = "none" /\ gone' = "none" /\ UNCHANGED <<puller, handle>>
  /\ UNCHANGED <<csiCmd, gaveUp, touched>>

\* csiGetresultsStart: the flag, then the signal.
GetResults ==
  /\ csiCmd = "idle" /\ handle /\ wake # "none" /\ ~exit
  /\ keep' = TRUE /\ csiCmd' = "wakes"
  /\ UNCHANGED <<puller, handle, wake, gone, exit, gaveUp, touched>>

Wakes ==
  /\ csiCmd = "wakes"
  /\ wake' = "signalled" /\ csiCmd' = "idle"
  /\ UNCHANGED <<puller, handle, gone, keep, exit, gaveUp, touched>>

\* csiStopCallback.
Stop ==
  /\ csiCmd = "idle" /\ handle
  /\ keep' = FALSE
  /\ UNCHANGED <<csiCmd, puller, handle, wake, gone, exit, gaveUp, touched>>

\* csiDeinitCallback: both flags, the signal, then the wait for the thread.
Deinit ==
  /\ csiCmd = "idle" /\ handle
  /\ keep' = FALSE /\ exit' = TRUE
  /\ wake' = IF wake = "none" THEN wake ELSE "signalled"
  /\ csiCmd' = "deinit"
  /\ UNCHANGED <<puller, handle, gone, gaveUp, touched>>

\* Mutant: the objects go whether or not the thread answered.
DeinitTimesOutFrees ==
  /\ csiCmd = "deinit" /\ gone # "signalled"
  /\ handle' = FALSE /\ wake' = "none" /\ gone' = "none"
  /\ exit' = FALSE /\ gaveUp' = TRUE
  /\ csiCmd' = "idle"
  /\ UNCHANGED <<puller, keep, touched>>

\* After five seconds: the thread is left running, the exit flag taken back.
DeinitTimesOut ==
  /\ csiCmd = "deinit" /\ gone # "signalled"
  /\ exit' = FALSE /\ gaveUp' = TRUE
  /\ csiCmd' = "idle"
  /\ UNCHANGED <<puller, handle, wake, gone, keep, touched>>

\* The thread said it is leaving: it is deleted with its objects.
DeinitDone ==
  /\ csiCmd = "deinit" /\ gone = "signalled"
  /\ puller' = "none" /\ handle' = FALSE
  /\ wake' = "none" /\ gone' = "none"
  /\ exit' = FALSE /\ keep' = FALSE
  /\ csiCmd' = "idle"
  /\ UNCHANGED <<gaveUp, touched>>

-----------------------------------------------------------------------------
(* csi_thread_entry.                                                           *)

Goes(from, to) == puller = from /\ puller' = to

\* Mutant: an old signal is thrown away before the wait.
TestExitClears ==
  /\ Goes("test", IF exit THEN "leave" ELSE "wait")
  /\ wake' = IF wake = "signalled" THEN "empty" ELSE wake
  /\ UNCHANGED <<csiCmd, handle, gone, keep, exit, gaveUp, touched>>

\* The outer test, the wait, the test after it.
TestExit ==
  /\ Goes("test", IF exit THEN "leave" ELSE "wait")
  /\ UNCHANGED <<csiCmd, handle, wake, gone, keep, exit, gaveUp, touched>>

WaitWake ==
  /\ \/ wake = "signalled" /\ wake' = "empty" /\ UNCHANGED touched
     \/ wake = "none" /\ touched' = TRUE /\ UNCHANGED wake
  /\ Goes("wait", "awake")
  /\ UNCHANGED <<csiCmd, handle, gone, keep, exit, gaveUp>>

Awake ==
  /\ Goes("awake", IF exit THEN "leave" ELSE "read")
  /\ UNCHANGED <<csiCmd, handle, wake, gone, keep, exit, gaveUp, touched>>

\* The inner loop: one result, or back to the outer test.
Read ==
  /\ Goes("read", IF keep /\ ~exit THEN "read" ELSE "test")
  /\ UNCHANGED <<csiCmd, handle, wake, gone, keep, exit, gaveUp, touched>>

Leave ==
  /\ Goes("leave", "ended")
  /\ gone' = IF gone = "none" THEN gone ELSE "signalled"
  /\ UNCHANGED <<csiCmd, handle, wake, keep, exit, gaveUp, touched>>

PullerStep == TestExit \/ WaitWake \/ Awake \/ Read \/ Leave

Next ==
  \/ InitNew \/ GetResults \/ Wakes \/ Stop \/ Deinit \/ DeinitTimesOut \/ DeinitDone
  \/ PullerStep

Spec ==
  /\ Init /\ [][Next]_csiVars
  /\ WF_csiVars(PullerStep)
  /\ WF_csiVars(Wakes) /\ WF_csiVars(DeinitTimesOut \/ DeinitDone)

-----------------------------------------------------------------------------
\* The thread never waits on, or signals, an object that a deinit deleted, however the
\* five seconds of that deinit (wlan_cmd.c:4045) fall against the thread's tests.
PullerKeepsObjects ==
  /\ ~touched
  /\ puller \notin {"none", "ended"} => wake # "none" /\ gone # "none"
  /\ puller # "none" => handle

\* The command to read is never lost between the thread's test of the flag and its
\* wait, until a deinit gave up: the thread may then be gone with the handle kept, and
\* every later csi_start does nothing (wlan_cmd.c:4066).
ReadsWhenAsked == (keep /\ csiCmd = "idle" /\ ~gaveUp) ~> (puller = "read" \/ ~keep \/ gaveUp)

\* A thread told to stop stops reading.
StopsReading == (puller = "read" /\ ~keep) ~> (puller # "read" \/ keep)
=============================================================================
