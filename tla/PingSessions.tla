----------------------------- MODULE PingSessions -----------------------------
(* lwip_ping.c: a session is a slot of a static table, a task that paces it   *)
(* and callbacks that run on tcpip_thread, where the raw pcb is made, used    *)
(* and removed.  The command thread only writes the slot's flag: it does not  *)
(* wait for the task, so a slot may be started again while the task of its    *)
(* last session still sleeps.                                                 *)
EXTENDS Integers, Sequences, FiniteSets

CONSTANTS NumSessions, \* LWIP_PING_MAX_NUM_OF_SESSIONS
          MaxCount,    \* counts of a session: 0 (no end) .. MaxCount
          MaxPcbs,     \* bound: sessions started in a behaviour
          MaxTasks     \* bound: session tasks alive

VARIABLES slots,  \* lwip_ping_sessions
          tasks,  \* the session tasks: a bag, slot -> number at each place
          mail,   \* what tcpip_thread has still to run, in order
          pcbs,   \* the raw pcbs that exist
          made,   \* how many sessions were started
          reused, \* the slots that were started again before their task had ended
          misuse  \* a pcb that did not exist was used or removed

pingVars == <<slots, tasks, mail, pcbs, made, reused, misuse>>

Sessions == 1..NumSessions
FreeSlot == [running |-> FALSE, count |-> 0, sent |-> 0, pcb |-> 0]
At(s, place) == tasks[s][place]
Alive(s) == At(s, "test") + At(s, "sleep")

Init ==
  /\ slots = [s \in Sessions |-> FreeSlot]
  /\ tasks = [s \in Sessions |-> [test |-> 0, sleep |-> 0]]
  /\ mail = <<>>
  /\ pcbs = {} /\ made = 0
  /\ reused = {} /\ misuse = FALSE

\* work for slot s has not ended: a task, or a callback that was posted
Busy(s) == Alive(s) > 0 \/ \E k \in 1..Len(mail) : mail[k].slot = s

Post(what, s) == mail' = Append(mail, [what |-> what, slot |-> s])
Move(s, from, to) ==
  tasks' = [tasks EXCEPT ![s] = [p \in {"test", "sleep"} |->
              @[p] - (IF p = from THEN 1 ELSE 0) + (IF p = to THEN 1 ELSE 0)]]

-----------------------------------------------------------------------------
(* The command thread.                                                        *)

\* lwip_ping_start sleeps until tcpip_thread has run what it posted, so the next
\* command finds no init waiting.
Settled == \A k \in 1..Len(mail) : mail[k].what # "init"

\* lwip_ping_start: the first slot that is not running, cleared whole.
Start(count) ==
  /\ Settled /\ made < MaxPcbs
  /\ \E s \in Sessions :
       /\ ~slots[s].running
       /\ \A r \in 1..(s - 1) : slots[r].running
       /\ slots' = [slots EXCEPT ![s] = [FreeSlot EXCEPT !.running = TRUE, !.count = count]]
       /\ reused' = IF Busy(s) THEN reused \cup {s} ELSE reused
       /\ Post("init", s)
  /\ UNCHANGED <<tasks, pcbs, made, misuse>>

\* lwip_ping_stop with the number of a session: only the flag is cleared.
Stop(s) ==
  /\ Settled /\ slots[s].running
  /\ slots' = [slots EXCEPT ![s].running = FALSE]
  /\ UNCHANGED <<tasks, mail, pcbs, made, reused, misuse>>

-----------------------------------------------------------------------------
(* tcpip_thread: the callbacks, in the order they were posted.                *)

Next1(what) == mail # <<>> /\ Head(mail).what = what /\ mail' = Tail(mail)

\* lwip_ping_init: a pcb that cannot be made or bound, or a task that cannot be
\* created, gives the slot back.
InitSession ==
  /\ Next1("init")
  /\ LET s == Head(mail).slot IN
     \/ /\ Alive(s) < MaxTasks
        /\ made' = made + 1
        /\ pcbs' = pcbs \cup {made + 1}
        /\ slots' = [slots EXCEPT ![s].pcb = made + 1, ![s].sent = 0]
        /\ Move(s, "none", "test")
     \/ /\ slots' = [slots EXCEPT ![s].running = FALSE]
        /\ made' = made + 1
        /\ UNCHANGED <<tasks, pcbs>>
  /\ UNCHANGED <<reused, misuse>>

\* lwip_ping_send: no buffer, or a packet that cannot be sent, is not counted.
Send ==
  /\ Next1("send")
  /\ LET s == Head(mail).slot IN
     /\ misuse' = (misuse \/ (s \notin reused /\ slots[s].pcb \notin pcbs))
     /\ \E ok \in BOOLEAN :
          slots' = IF ok /\ (slots[s].count = 0 => slots[s].sent < MaxCount)
                     THEN [slots EXCEPT ![s].sent = @ + 1] ELSE slots
  /\ UNCHANGED <<tasks, pcbs, made, reused>>

\* lwip_ping_deinit.
Deinit ==
  /\ Next1("deinit")
  /\ LET s == Head(mail).slot IN
     /\ misuse' = (misuse \/ (s \notin reused /\ slots[s].pcb \notin pcbs))
     /\ pcbs' = pcbs \ {slots[s].pcb}
  /\ UNCHANGED <<slots, tasks, made, reused>>

TcpipStep == InitSession \/ Send \/ Deinit

-----------------------------------------------------------------------------
(* ping_session_task.                                                         *)

\* Mutant: only the count ends a session.
GoesOnByCount(s) == slots[s].count = 0 \/ slots[s].sent < slots[s].count

GoesOn(s) == slots[s].running /\ (slots[s].count = 0 \/ slots[s].sent < slots[s].count)

\* ping_send; tcpip_thread runs at a higher priority than the task and is done
\* with the message before the interval (100 ms at least) has passed.
TaskSends(s) ==
  /\ At(s, "test") > 0 /\ GoesOn(s)
  /\ Post("send", s)
  /\ Move(s, "test", "sleep")
  /\ UNCHANGED <<slots, pcbs, made, reused, misuse>>

TaskWakes(s) ==
  /\ At(s, "sleep") > 0
  /\ \A k \in 1..Len(mail) : mail[k] # [what |-> "send", slot |-> s]
  /\ Move(s, "sleep", "test")
  /\ UNCHANGED <<slots, mail, pcbs, made, reused, misuse>>

\* Mutant: the task removes the pcb itself.
TaskEndsAtOnce(s) ==
  /\ At(s, "test") > 0 /\ ~GoesOn(s)
  /\ pcbs' = pcbs \ {slots[s].pcb}
  /\ Post("deinit", s)
  /\ Move(s, "test", "none")
  /\ UNCHANGED <<slots, made, reused, misuse>>

\* The slot is given back when the count was reached; the pcb is removed by
\* tcpip_thread, after everything the task has posted.
TaskEnds(s) ==
  /\ At(s, "test") > 0 /\ ~GoesOn(s)
  /\ slots' = IF slots[s].count > 0 /\ slots[s].sent = slots[s].count
                THEN [slots EXCEPT ![s].running = FALSE] ELSE slots
  /\ Post("deinit", s)
  /\ Move(s, "test", "none")
  /\ UNCHANGED <<pcbs, made, reused, misuse>>

TaskStep(s) == TaskSends(s) \/ TaskWakes(s) \/ TaskEnds(s)

Next ==
  \/ \E count \in 0..MaxCount : Start(count)
  \/ \E s \in Sessions : Stop(s)
  \/ InitSession \/ Send \/ Deinit
  \/ \E s \in Sessions : TaskSends(s) \/ TaskWakes(s) \/ TaskEnds(s)

Spec ==
  /\ Init /\ [][Next]_pingVars
  /\ WF_pingVars(TcpipStep)
  /\ \A s \in Sessions : WF_pingVars(TaskStep(s))

-----------------------------------------------------------------------------
\* As long as no slot is started again before its last session has ended, no
\* callback sends on or removes a pcb that was removed: a task posts its last
\* send before its deinit and ends (lwip_ping.c:279, 306).
PcbAlive == ~misuse

\* ... and every pcb that exists belongs to a session that still runs or is being
\* taken down: none is lost.
NoPcbLost ==
  reused = {} => pcbs \subseteq {slots[s].pcb : s \in {r \in Sessions : Busy(r)}}

\* A slot that is taken is worked for, so it comes back: a table of two slots is
\* not used up by sessions that ended by themselves (lwip_ping.c:300).
NoSlotLost == reused = {} => \A s \in Sessions : slots[s].running => Busy(s)

\* A session that is stopped comes to an end, and its pcb with it, unless its slot
\* is started again before.
StoppedEnds ==
  \A s \in Sessions : ~slots[s].running ~> (slots[s].running \/ ~Busy(s))
=============================================================================
