-------------------------------- MODULE Sntp --------------------------------
(* sntp_task.c and sntp_wrapper.c: the command that updates the clock starts *)
(* the SNTP task, forces an update, waits for it for a limited time and      *)
(* stops the task again; the task asks one server after the other.  The two  *)
(* threads share a mutex, a message queue and two sync objects, all created  *)
(* and deleted by each command.  A receive ends after its time-out and the   *)
(* command's wait may end at any time, so both are steps without a clock.    *)
EXTENDS Integers, Sequences, FiniteSets

CONSTANTS NumServers,  \* at most 3 in the code
          KodMax,      \* SNTP_KOD_MAX
          MsgQLen      \* SNTP_MSGQ_MAX_NUM_MSGS

VARIABLES cmd,       \* where the command thread is
          task,      \* the SNTP task: at, i, forced, numKod; at = "none" when there is none
          objs,      \* the objects that exist: mutex, queue, exit, sem
          mutex,     \* who holds g_sntpMutex
          queue,     \* g_sntpMsgQueue
          tokens,    \* which of the sync objects exit and sem hold a token
          stored,    \* g_storedNtpServers: "ok" or a kiss code per server; its length
          servers,   \* g_sntpNumservers and g_sntpCurrSrvNum
          suspended, \* the task is suspended by sntpTask_forceTimeSync
          clock      \* where the time came from: unset, good, or bad

sntpVars == <<cmd, task, objs, mutex, queue, tokens, stored, servers, suspended, clock>>

NoTask == [at |-> "none", i |-> 0, forced |-> FALSE, numKod |-> 0]

Init ==
  /\ cmd = "idle"
  /\ task = NoTask
  /\ objs = {} /\ mutex = "free" /\ queue = <<>> /\ tokens = {}
  /\ stored = <<>>
  /\ servers = [num |-> 0, cur |-> 0]
  /\ suspended = FALSE
  /\ clock = "unset"

-----------------------------------------------------------------------------
(* The command thread.                                                       *)

\* sntpWrapper_store_servers: every server is taken for valid again.
StoreServers(n) ==
  /\ cmd = "idle"
  /\ stored' = [k \in 1..n |-> "ok"]
  /\ UNCHANGED <<cmd, task, objs, mutex, queue, tokens, servers, suspended, clock>>

\* sntpWrapper_updateDateTime, up to sntpTask_start.
Update ==
  /\ cmd = "idle" /\ stored # <<>>
  /\ objs' = {"sem"}
  /\ cmd' = "start"
  /\ UNCHANGED <<task, mutex, queue, tokens, stored, servers, suspended, clock>>

\* sntpTask_start: three objects and the task; what was made is undone when one
\* cannot be made, and the wrapper deletes its own.
TaskStart ==
  /\ cmd = "start"
  /\ \/ /\ objs' = objs \cup {"mutex", "queue", "exit"}
        /\ task' = [NoTask EXCEPT !.at = "read"]
        /\ cmd' = "config"
     \/ /\ objs' = {}
        /\ cmd' = "idle"
        /\ UNCHANGED task
  /\ UNCHANGED <<mutex, queue, tokens, stored, servers, suspended, clock>>

\* sntpTask_configServers: the mutex is held for a few assignments only.
ConfigServers ==
  /\ cmd = "config" /\ mutex = "free"
  /\ servers' = [num |-> Len(stored), cur |-> 0]
  /\ cmd' = "suspend"
  /\ UNCHANGED <<task, objs, mutex, queue, tokens, stored, suspended, clock>>

\* sntpTask_forceTimeSync.
ForceSuspend ==
  /\ cmd = "suspend"
  /\ suspended' = TRUE
  /\ cmd' = "force"
  /\ UNCHANGED <<task, objs, mutex, queue, tokens, stored, servers, clock>>

MsgQWrite(m) == queue' = IF Len(queue) < MsgQLen THEN Append(queue, m) ELSE queue

ForceWrite ==
  /\ cmd = "force"
  /\ MsgQWrite("force")
  /\ suspended' = FALSE
  /\ cmd' = "wait"
  /\ UNCHANGED <<task, objs, mutex, tokens, stored, servers, clock>>

\* The wait of 50 seconds: answered or timed out.
WaitUpdate ==
  /\ cmd = "wait"
  /\ tokens' = tokens \ {"sem"}
  /\ cmd' = "stop"
  /\ UNCHANGED <<task, objs, mutex, queue, stored, servers, suspended, clock>>

\* sntpTask_stop: post, wait for the task without a limit, delete, in three steps.
StopWrite ==
  /\ cmd = "stop"
  /\ MsgQWrite("stop")
  /\ cmd' = "waitExit"
  /\ UNCHANGED <<task, objs, mutex, tokens, stored, servers, suspended, clock>>

\* Mutant: the objects are deleted without waiting for the task.
StopDeleteAtOnce ==
  /\ cmd = "waitExit"
  /\ tokens' = tokens \ {"exit"}
  /\ objs' = objs \ {"exit", "queue", "mutex"}
  /\ queue' = <<>>
  /\ servers' = [num |-> 0, cur |-> 0]
  /\ cmd' = "delete"
  /\ UNCHANGED <<task, mutex, stored, suspended, clock>>
StopDelete ==
  /\ cmd = "waitExit" /\ "exit" \in tokens
  /\ tokens' = tokens \ {"exit"}
  /\ objs' = objs \ {"exit", "queue", "mutex"}
  /\ queue' = <<>>
  /\ servers' = [num |-> 0, cur |-> 0]
  /\ cmd' = "delete"
  /\ UNCHANGED <<task, mutex, stored, suspended, clock>>

DeleteSem ==
  /\ cmd = "delete"
  /\ objs' = objs \ {"sem"}
  /\ tokens' = tokens \ {"sem"}
  /\ cmd' = "idle"
  /\ UNCHANGED <<task, mutex, queue, stored, servers, suspended, clock>>

Command ==
  \/ Update \/ TaskStart \/ ConfigServers \/ ForceSuspend \/ ForceWrite
  \/ WaitUpdate \/ StopWrite \/ StopDelete \/ DeleteSem

-----------------------------------------------------------------------------
(* The SNTP task, sntpTask_syncTime_task.                                    *)

Goto(at) == task' = [task EXCEPT !.at = at]

\* A message, or none within waitTime; no server known means wait again.
ReadQueue ==
  /\ task.at = "read"
  /\ \/ /\ queue # <<>>
        /\ queue' = Tail(queue)
        /\ task' = IF Head(queue) = "stop" THEN [task EXCEPT !.at = "leave"]
                   ELSE [task EXCEPT !.forced = TRUE,
                                     !.at = IF servers.num = 0 THEN "read" ELSE "lock"]
     \/ /\ queue = <<>> /\ servers.num # 0
        /\ Goto("lock")
        /\ UNCHANGED queue
  /\ UNCHANGED <<mutex, servers, stored, tokens, clock>>

Lock ==
  /\ task.at = "lock" /\ mutex = "free"
  /\ mutex' = "task"
  /\ task' = [task EXCEPT !.at = "server", !.i = 0]
  /\ UNCHANGED <<queue, servers, stored, tokens, clock>>

\* changeServer: the next one, or the first after the last.
ChangeServer == [servers EXCEPT !.cur = IF @ = servers.num - 1 THEN 0 ELSE @ + 1]

NextServer ==
  /\ servers' = ChangeServer
  /\ task' = [task EXCEPT !.i = @ + 1]

Current == servers.cur + 1
AtServer == task.at = "server" /\ task.i < servers.num

\* A server that once sent a kiss code is skipped.
SkipServer ==
  /\ AtServer /\ stored[Current] # "ok"
  /\ NextServer
  /\ UNCHANGED <<mutex, queue, stored, tokens, clock>>

\* sntpConnSetup or the packet fails, or sending for another reason than a
\* missing route: this round is over.
SetupFails ==
  /\ AtServer /\ stored[Current] = "ok"
  /\ Goto("unlock")
  /\ UNCHANGED <<mutex, queue, servers, stored, tokens, clock>>

\* No route, no answer in time, or one of the wrong length.
NoAnswer ==
  /\ AtServer /\ stored[Current] = "ok"
  /\ NextServer
  /\ UNCHANGED <<mutex, queue, stored, tokens, clock>>

\* The kiss code RATE: back off a few times, then take the next server.
KissRate ==
  /\ AtServer /\ stored[Current] = "ok"
  /\ IF task.numKod < KodMax
     THEN /\ task' = [task EXCEPT !.numKod = @ + 1, !.at = "unlock"]
          /\ UNCHANGED servers
     ELSE /\ task' = [task EXCEPT !.numKod = 0, !.i = @ + 1]
          /\ servers' = ChangeServer
  /\ UNCHANGED <<mutex, queue, stored, tokens, clock>>

\* DENY or RSTR: the server is marked in the stored list, for later commands too.
KissDeny ==
  /\ AtServer /\ stored[Current] = "ok"
  /\ stored' = [stored EXCEPT ![Current] = "kiss"]
  /\ NextServer
  /\ UNCHANGED <<mutex, queue, tokens, clock>>

\* An answer: the clock is set, from an answer that marks its server invalid too.
Answer ==
  /\ AtServer /\ stored[Current] = "ok"
  /\ \/ clock' = "good" /\ UNCHANGED stored
     \/ clock' = "bad" /\ stored' = [stored EXCEPT ![Current] = "kiss"]
  /\ task' = [task EXCEPT !.at = IF task.forced THEN "hook" ELSE "unlock",
                          !.numKod = 0]
  /\ UNCHANGED <<mutex, queue, servers, tokens>>

\* sntpWrapper_timeUpdateHook.
Hook ==
  /\ task.at = "hook"
  /\ tokens' = tokens \cup {"sem"}
  /\ task' = [task EXCEPT !.at = "unlock", !.forced = FALSE]
  /\ UNCHANGED <<mutex, queue, servers, stored, clock>>

AllTried ==
  /\ task.at = "server" /\ task.i >= servers.num
  /\ Goto("unlock")
  /\ UNCHANGED <<mutex, queue, servers, stored, tokens, clock>>

\* CONTINUE: the mutex is given back, the connection closed.
Unlock ==
  /\ task.at = "unlock"
  /\ mutex' = "free"
  /\ Goto("read")
  /\ UNCHANGED <<queue, servers, stored, tokens, clock>>

\* The stop message: the mutex is given back though this task does not hold it,
\* which fails; then the exit signal, and the task deletes itself.
Leave ==
  /\ task.at = "leave"
  /\ tokens' = tokens \cup {"exit"}
  /\ task' = NoTask
  /\ UNCHANGED <<mutex, queue, servers, stored, clock>>

TaskStep ==
  /\ ~suspended
  /\ \/ ReadQueue \/ Lock \/ SkipServer \/ SetupFails \/ NoAnswer \/ KissRate
     \/ KissDeny \/ Answer \/ Hook \/ AllTried \/ Unlock \/ Leave
  /\ UNCHANGED <<cmd, objs, suspended>>

Next == Command \/ TaskStep \/ \E n \in 1..NumServers : StoreServers(n)

Spec == Init /\ [][Next]_sntpVars /\ WF_sntpVars(Command) /\ WF_sntpVars(TaskStep)

-----------------------------------------------------------------------------
Uses(at) == CASE at = "read"  -> {"queue"}
              [] at = "lock"  -> {"mutex"}
              [] at \in {"server", "unlock"} -> {"mutex"}
              [] at = "hook"  -> {"mutex", "sem"}
              [] at = "leave" -> {"mutex", "exit"}
              [] OTHER        -> {}

\* The task never uses an object the command has deleted, the hook's sync object
\* included, whenever the command's wait times out; and when no command runs
\* there is no task, and no object is left.
ObjectsAlive ==
  /\ Uses(task.at) \subseteq objs
  /\ cmd = "idle" => task.at = "none" /\ objs = {} /\ tokens = {} /\ queue = <<>>

\* Every update comes back to the prompt, whatever the servers answer.
UpdateReturns == cmd # "idle" ~> cmd = "idle"
=============================================================================
