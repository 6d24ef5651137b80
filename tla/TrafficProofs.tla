----------------------------- MODULE TrafficProofs -----------------------------
(***************************************************************************)
(* Proofs about the traffic tools of MCTraffic: who may still use, delete  *)
(* or abort what, when a session, a thread or a task is stopped in the     *)
(* middle of what it does.                                                 *)
(***************************************************************************)
EXTENDS MCTraffic, SequenceTheorems, FiniteSetTheorems, TLAPS

-----------------------------------------------------------------------------
(* SNTP: the command and its task. *)

SntpPlaces == {"none", "read", "lock", "server", "unlock", "hook", "leave"}
WithTask == {"config", "suspend", "force", "wait", "stop", "waitExit"}
AllObjs == {"sem", "mutex", "queue", "exit"}

SntpTypes ==
  /\ cmd \in {"idle", "start", "delete"} \cup WithTask
  /\ task \in [at : SntpPlaces, i : Int, forced : BOOLEAN, numKod : Int]
  /\ queue \in Seq({"force", "stop"}) /\ tokens \subseteq {"exit", "sem"}

\* The objects exist, all of them, from the start of the task until it has told that it
\* leaves, and it leaves only when the command waits for that.
SntpInv ==
  /\ SntpTypes
  /\ cmd \in WithTask => objs = AllObjs
  /\ cmd \in {"start", "delete"} => objs = {"sem"}
  /\ cmd \notin WithTask => task.at = "none" /\ queue = <<>> /\ "exit" \notin tokens
  /\ cmd \in {"idle", "start"} => tokens = {}
  /\ cmd = "idle" => objs = {}
  /\ "exit" \in tokens => task.at = "none" /\ cmd = "waitExit"
  /\ task.at = "leave" => cmd = "waitExit"
  /\ \A k \in 1..Len(queue) : queue[k] = "stop" => cmd = "waitExit"

\* Each step of the command keeps the objects.
LEMMA SntpCommandStep ==
  ASSUME SntpInv, Sntp!Command \/ \E n \in 1..NumServers : Sntp!StoreServers(n)
  PROVE  SntpInv'
<1> USE DEF SntpInv, SntpTypes, WithTask, AllObjs, SntpPlaces
<1>1. \A m \in {"force", "stop"} : Sntp!MsgQWrite(m) =>
        /\ queue' \in Seq({"force", "stop"})
        /\ m = "force" => \A k \in 1..Len(queue') : queue'[k] = "stop" => \E j \in 1..Len(queue) : queue[j] = "stop"
  BY DEF Sntp!MsgQWrite
<1>2. ASSUME NEW n \in 1..NumServers, Sntp!StoreServers(n) PROVE SntpInv'
  BY <1>2 DEF Sntp!StoreServers
<1>3. CASE Sntp!Update
  BY <1>3 DEF Sntp!Update
<1>4. CASE Sntp!TaskStart
  <2>1. Sntp!NoTask \in [at : SntpPlaces, i : Int, forced : BOOLEAN, numKod : Int]
    BY DEF Sntp!NoTask
  <2>2. CASE cmd' = "config"
    <3>1. task' = [Sntp!NoTask EXCEPT !.at = "read"] /\ objs' = objs \cup {"mutex", "queue", "exit"}
      BY <1>4, <2>2 DEF Sntp!TaskStart
    <3>2. task' \in [at : SntpPlaces, i : Int, forced : BOOLEAN, numKod : Int] /\ task'.at = "read"
      BY <2>1, <3>1
    <3>3. QED BY <1>4, <2>2, <3>1, <3>2 DEF Sntp!TaskStart
  <2>3. CASE cmd' # "config"
    BY <1>4, <2>3 DEF Sntp!TaskStart
  <2>4. QED BY <2>2, <2>3
<1>5. CASE Sntp!ConfigServers
  BY <1>5 DEF Sntp!ConfigServers
<1>6. CASE Sntp!ForceSuspend
  BY <1>6 DEF Sntp!ForceSuspend
<1>7. CASE Sntp!ForceWrite
  BY <1>1, <1>7 DEF Sntp!ForceWrite
<1>8. CASE Sntp!WaitUpdate
  BY <1>8 DEF Sntp!WaitUpdate
<1>9. CASE Sntp!StopWrite
  BY <1>1, <1>9 DEF Sntp!StopWrite
<1>10. CASE Sntp!StopDelete
  BY <1>10 DEF Sntp!StopDelete
<1>11. CASE Sntp!DeleteSem
  BY <1>11 DEF Sntp!DeleteSem
<1>12. QED BY <1>2, <1>3, <1>4, <1>5, <1>6, <1>7, <1>8, <1>9, <1>10, <1>11 DEF Sntp!Command

TaskRecord == [at : SntpPlaces, i : Int, forced : BOOLEAN, numKod : Int]

\* The counter of the servers asked.
LEMMA TaskRecordForm ==
  \A x \in TaskRecord, j \in Int : [x EXCEPT !.i = j] \in TaskRecord /\ [x EXCEPT !.i = j].at = x.at
BY DEF TaskRecord

\* Where the task is after each of its steps.
LEMMA SntpTaskForm ==
  ASSUME SntpInv, Sntp!TaskStep
  PROVE  /\ task' \in TaskRecord
         /\ task.at # "none"
         /\ \/ Sntp!ReadQueue
            \/ UNCHANGED <<queue, tokens>> /\ task'.at \notin {"none", "leave"}
            \/ Sntp!Hook /\ task'.at \notin {"none", "leave"}
            \/ Sntp!Leave
<1>0. /\ task \in TaskRecord /\ task.i \in Int /\ task.numKod \in Int
      /\ task.i + 1 \in Int /\ task.numKod + 1 \in Int
      /\ 0 \in Int /\ "hook" \in SntpPlaces /\ "unlock" \in SntpPlaces
  BY DEF SntpInv, SntpTypes, TaskRecord, SntpPlaces
<1>1. CASE Sntp!ReadQueue
  <2>1. task.at = "read" /\ (\/ task' = [task EXCEPT !.at = "leave"] \/ task' = [task EXCEPT !.at = "lock"]
                             \/ \E a \in {"read", "lock"} : task' = [task EXCEPT !.forced = TRUE, !.at = a])
    BY <1>1 DEF Sntp!ReadQueue, Sntp!Goto
  <2>2. QED BY <1>0, <1>1, <2>1 DEF TaskRecord, SntpPlaces
<1>2. CASE Sntp!Lock
  <2>1. task.at = "lock" /\ UNCHANGED <<queue, tokens>> /\ task' = [task EXCEPT !.at = "server", !.i = 0]
    BY <1>2 DEF Sntp!Lock
  <2>2. task' \in TaskRecord /\ task'.at = "server"
    BY <1>0, <2>1 DEF TaskRecord, SntpPlaces
  <2>3. QED BY <2>1, <2>2
<1>3. CASE Sntp!SkipServer \/ Sntp!NoAnswer \/ Sntp!KissDeny
  <2>1. task.at = "server" /\ task' = [task EXCEPT !.i = @ + 1] /\ UNCHANGED <<queue, tokens>>
    BY <1>3 DEF Sntp!SkipServer, Sntp!NoAnswer, Sntp!KissDeny, Sntp!NextServer, Sntp!AtServer
  <2>2. task' \in TaskRecord /\ task'.at = task.at
    BY <1>0, <2>1, TaskRecordForm
  <2>3. QED BY <2>1, <2>2 DEF TaskRecord
<1>4. CASE Sntp!SetupFails \/ Sntp!AllTried \/ Sntp!Unlock
  <2>1. task.at \in {"server", "unlock"} /\ (\E a \in {"unlock", "read"} : task' = [task EXCEPT !.at = a])
        /\ UNCHANGED <<queue, tokens>>
    BY <1>4 DEF Sntp!SetupFails, Sntp!AllTried, Sntp!Unlock, Sntp!Goto, Sntp!AtServer
  <2>2. QED BY <1>0, <2>1 DEF TaskRecord, SntpPlaces
<1>5. CASE Sntp!KissRate
  <2>1. task.at = "server" /\ UNCHANGED <<queue, tokens>>
        /\ (\/ task' = [task EXCEPT !.numKod = @ + 1, !.at = "unlock"]
            \/ task' = [task EXCEPT !.numKod = 0, !.i = @ + 1])
    BY <1>5 DEF Sntp!KissRate, Sntp!AtServer
  <2>2. CASE task' = [task EXCEPT !.numKod = @ + 1, !.at = "unlock"]
    <3>1. task' \in TaskRecord /\ task'.at = "unlock"
      <4>1. task' = [at |-> "unlock", i |-> task.i, forced |-> task.forced, numKod |-> task.numKod + 1]
        BY <1>0, <2>2 DEF TaskRecord
      <4>2. QED BY <1>0, <4>1 DEF TaskRecord
    <3>2. QED BY <2>1, <3>1 DEF TaskRecord
  <2>3. CASE task' = [task EXCEPT !.numKod = 0, !.i = @ + 1]
    <3>1. task' \in TaskRecord /\ task'.at = task.at
      <4>1. task' = [at |-> task.at, i |-> task.i + 1, forced |-> task.forced, numKod |-> 0]
        BY <1>0, <2>3 DEF TaskRecord
      <4>2. QED BY <1>0, <4>1 DEF TaskRecord
    <3>2. QED BY <2>1, <3>1 DEF TaskRecord
  <2>4. QED BY <2>1, <2>2, <2>3
<1>6. CASE Sntp!Answer
  <2>1. task.at = "server" /\ UNCHANGED <<queue, tokens>>
        /\ (\E a \in {"hook", "unlock"} : task' = [task EXCEPT !.at = a, !.numKod = 0])
    BY <1>6 DEF Sntp!Answer, Sntp!AtServer
  <2>2. PICK a \in {"hook", "unlock"} : task' = [task EXCEPT !.at = a, !.numKod = 0]
    BY <2>1
  <2>3. task' \in TaskRecord /\ task'.at = a
    <3>1. task' = [at |-> a, i |-> task.i, forced |-> task.forced, numKod |-> 0]
      BY <1>0, <2>2 DEF TaskRecord
    <3>2. QED BY <1>0, <3>1 DEF TaskRecord, SntpPlaces
  <2>4. QED BY <2>1, <2>3 DEF TaskRecord
<1>7. CASE Sntp!Hook
  <2>1. task.at = "hook" /\ task' = [task EXCEPT !.at = "unlock", !.forced = FALSE]
    BY <1>7 DEF Sntp!Hook
  <2>2. QED BY <1>0, <1>7, <2>1 DEF TaskRecord, SntpPlaces
<1>8. CASE Sntp!Leave
  BY <1>8 DEF Sntp!Leave, Sntp!NoTask, TaskRecord, SntpPlaces
<1>9. QED BY <1>1, <1>2, <1>3, <1>4, <1>5, <1>6, <1>7, <1>8 DEF Sntp!TaskStep

\* Each step of the task does.
LEMMA SntpTaskStep ==
  ASSUME SntpInv, Sntp!TaskStep
  PROVE  SntpInv'
<1> USE DEF SntpInv, SntpTypes, WithTask, AllObjs
<1>1. UNCHANGED <<cmd, objs>> /\ cmd \in WithTask
  BY SntpTaskForm DEF Sntp!TaskStep
<1>2. task' \in [at : SntpPlaces, i : Int, forced : BOOLEAN, numKod : Int] /\ task.at # "none"
  BY SntpTaskForm DEF TaskRecord
<1>3. CASE Sntp!ReadQueue
  <2>1. UNCHANGED tokens
    BY <1>3 DEF Sntp!ReadQueue
  <2>2. CASE queue # <<>>
    <3>1. /\ queue' = Tail(queue) /\ queue' \in Seq({"force", "stop"}) /\ Len(queue') = Len(queue) - 1
          /\ Head(queue) = queue[1] /\ 1 \in 1..Len(queue)
          /\ \A k \in 1..Len(queue') : queue'[k] = queue[k + 1]
      BY <1>3, <2>2, HeadTailProperties, EmptySeq DEF Sntp!ReadQueue
    <3>2. \A k \in 1..Len(queue') : k + 1 \in 1..Len(queue)
      BY <3>1
    <3>3. task'.at = "leave" => Head(queue) = "stop"
      BY <1>3, <2>2 DEF Sntp!ReadQueue
    <3>4. task'.at # "none"
      BY <1>3, <2>2 DEF Sntp!ReadQueue
    <3>5. QED BY <1>1, <1>2, <2>1, <3>1, <3>2, <3>3, <3>4
  <2>3. CASE queue = <<>>
    <3>1. task' = [task EXCEPT !.at = "lock"] /\ UNCHANGED queue
      BY <1>3, <2>3 DEF Sntp!ReadQueue, Sntp!Goto
    <3>2. task'.at = "lock"
      BY <3>1
    <3>3. QED BY <1>1, <1>2, <2>1, <3>1, <3>2
  <2>4. QED BY <2>2, <2>3
<1>4. CASE UNCHANGED <<queue, tokens>> /\ task'.at \notin {"none", "leave"}
  BY <1>1, <1>2, <1>4
<1>5. CASE Sntp!Hook /\ task'.at \notin {"none", "leave"}
  BY <1>1, <1>2, <1>5 DEF Sntp!Hook
<1>6. CASE Sntp!Leave
  <2>1. task'.at = "none" /\ cmd = "waitExit" /\ tokens' = tokens \cup {"exit"} /\ UNCHANGED queue
    BY <1>6 DEF Sntp!Leave, Sntp!NoTask
  <2>2. QED BY <1>1, <1>2, <2>1
<1>7. QED BY <1>3, <1>4, <1>5, <1>6, SntpTaskForm

\* However the servers answer and whenever the command's wait ends, the task uses its
\* objects only while they exist, and an update that is over leaves none.
THEOREM SntpObjectsKept == MCSpec => []SntpObjectsAlive
<1> DEFINE I == part = "sntp" => SntpInv
<1>1. MCInit => I
  BY DEF MCInit, Sntp!Init, Sntp!NoTask, SntpInv, SntpTypes, SntpPlaces, WithTask
<1>2. I /\ [MCNext]_<<part, pingVars, iperfVars, sockVars, sntpVars>> => I'
  <2> SUFFICES ASSUME I, [MCNext]_<<part, pingVars, iperfVars, sockVars, sntpVars>>, part' = "sntp"
               PROVE  SntpInv'
    OBVIOUS
  <2>1. CASE UNCHANGED <<part, sntpVars>>
    BY <2>1 DEF sntpVars, SntpInv, SntpTypes
  <2>2. CASE part = "sntp" /\ Sntp!Next
    BY <2>2, SntpCommandStep, SntpTaskStep DEF Sntp!Next
  <2>3. QED BY <2>1, <2>2 DEF MCNext
<1>3. I => SntpObjectsAlive
  <2>1. SntpInv => Sntp!ObjectsAlive
    BY DEF SntpInv, SntpTypes, SntpPlaces, WithTask, AllObjs, Sntp!ObjectsAlive, Sntp!Uses
  <2>2. QED BY <2>1 DEF SntpObjectsAlive
<1>4. QED BY <1>1, <1>2, <1>3, PTL DEF MCSpec

-----------------------------------------------------------------------------
(* Ping: a slot, its task and its callbacks. *)

PingMail == [what : {"init", "send", "deinit"}, slot : Ping!Sessions]

PingTypes ==
  /\ slots \in [Ping!Sessions -> [running : BOOLEAN, count : Nat, sent : Nat, pcb : Nat]]
  /\ tasks \in [Ping!Sessions -> [{"test", "sleep"} -> Int]]
  /\ mail \in Seq(PingMail) /\ made \in Nat
  /\ pcbs \subseteq 1..made /\ reused \subseteq Ping!Sessions

\* No pcb is that of two slots.
OwnPcb ==
  /\ \A s \in Ping!Sessions : slots[s].pcb <= made
  /\ \A s, r \in Ping!Sessions : s # r /\ slots[s].pcb # 0 => slots[s].pcb # slots[r].pcb

NoMail(q, s) == \A k \in 1..Len(q) : q[k].slot # s
OnlyMail(q, s, what) ==
  \E k \in 1..Len(q) : /\ q[k] = [what |-> what, slot |-> s]
                       /\ \A j \in 1..Len(q) : q[j].slot = s => j = k

AtMost(s, sent) == slots[s].count > 0 => sent <= slots[s].count

\* The life of a slot that is not started again too soon.
Quiet(s) == ~slots[s].running /\ NoMail(mail, s) /\ tasks[s]["test"] = 0 /\ tasks[s]["sleep"] = 0
Begun(s) == /\ slots[s].running /\ slots[s].pcb = 0 /\ OnlyMail(mail, s, "init")
            /\ tasks[s]["test"] = 0 /\ tasks[s]["sleep"] = 0
Paced(s) == /\ slots[s].pcb \in pcbs
            /\ \/ /\ tasks[s]["test"] = 1 /\ tasks[s]["sleep"] = 0
                  /\ NoMail(mail, s) /\ AtMost(s, slots[s].sent)
               \/ /\ tasks[s]["test"] = 0 /\ tasks[s]["sleep"] = 1
                  /\ NoMail(mail, s) /\ AtMost(s, slots[s].sent)
               \/ /\ tasks[s]["test"] = 0 /\ tasks[s]["sleep"] = 1
                  /\ OnlyMail(mail, s, "send") /\ AtMost(s, slots[s].sent + 1)
Ended(s) == /\ ~slots[s].running /\ slots[s].pcb \in pcbs /\ OnlyMail(mail, s, "deinit")
            /\ tasks[s]["test"] = 0 /\ tasks[s]["sleep"] = 0

Staged(s) == Quiet(s) \/ Begun(s) \/ Paced(s) \/ Ended(s)

PingInv ==
  /\ PingTypes /\ OwnPcb /\ ~pingMisuse
  /\ \A s \in Ping!Sessions \ reused : Staged(s)
  /\ reused = {} => \A p \in pcbs : \E s \in Ping!Sessions : slots[s].pcb = p /\ ~Quiet(s)

\* The mail of a slot after a post, ...
LEMMA PostedMail ==
  ASSUME NEW q \in Seq(PingMail), NEW s \in Ping!Sessions, NEW w \in {"init", "send", "deinit"}
  PROVE  /\ Append(q, [what |-> w, slot |-> s]) \in Seq(PingMail)
         /\ \A r \in Ping!Sessions \ {s} :
              /\ NoMail(q, r) => NoMail(Append(q, [what |-> w, slot |-> s]), r)
              /\ \A v : OnlyMail(q, r, v) => OnlyMail(Append(q, [what |-> w, slot |-> s]), r, v)
         /\ NoMail(q, s) => OnlyMail(Append(q, [what |-> w, slot |-> s]), s, w)
<1> DEFINE m == [what |-> w, slot |-> s]
           a == Append(q, m)
<1>1. m \in PingMail /\ m.slot = s
  BY DEF PingMail
<1>2. /\ a \in Seq(PingMail) /\ Len(a) = Len(q) + 1 /\ a[Len(q) + 1] = m
      /\ \A k \in 1..Len(q) : k \in 1..Len(a) /\ a[k] = q[k]
      /\ \A k \in 1..Len(a) : k \in 1..Len(q) \/ k = Len(q) + 1
  BY <1>1
<1>3. Len(q) + 1 \in 1..Len(a)
  BY <1>2
<1> HIDE DEF m, a
<1>4. \A r \in Ping!Sessions \ {s} : NoMail(q, r) => NoMail(a, r)
  BY <1>1, <1>2 DEF NoMail
<1>5. ASSUME NEW r \in Ping!Sessions \ {s}, NEW v, OnlyMail(q, r, v) PROVE OnlyMail(a, r, v)
  <2>1. PICK k \in 1..Len(q) : q[k] = [what |-> v, slot |-> r] /\ \A j \in 1..Len(q) : q[j].slot = r => j = k
    BY <1>5 DEF OnlyMail
  <2>2. k \in 1..Len(a) /\ a[k] = [what |-> v, slot |-> r]
    BY <1>2, <2>1
  <2>3. \A j \in 1..Len(a) : a[j].slot = r => j = k
    BY <1>1, <1>2, <2>1
  <2>4. QED BY <2>2, <2>3 DEF OnlyMail
<1>6. ASSUME NoMail(q, s) PROVE OnlyMail(a, s, w)
  <2>1. \A j \in 1..Len(a) : a[j].slot = s => j = Len(q) + 1
    BY <1>2, <1>6 DEF NoMail
  <2>2. QED BY <1>2, <1>3, <2>1 DEF OnlyMail, m
<1>7. QED BY <1>2, <1>4, <1>5, <1>6 DEF a, m

\* ... and after tcpip_thread took the first.
LEMMA TakenMail ==
  ASSUME NEW q \in Seq(PingMail), q # <<>>
  PROVE  /\ Tail(q) \in Seq(PingMail) /\ Head(q) \in PingMail
         /\ \A r \in Ping!Sessions \ {Head(q).slot} :
              /\ NoMail(q, r) => NoMail(Tail(q), r)
              /\ \A v : OnlyMail(q, r, v) => OnlyMail(Tail(q), r, v)
         /\ ~NoMail(q, Head(q).slot)
         /\ \A v : OnlyMail(q, Head(q).slot, v) => Head(q).what = v /\ NoMail(Tail(q), Head(q).slot)
<1> DEFINE a == Tail(q)
           s == Head(q).slot
<1>1. /\ a \in Seq(PingMail) /\ Len(a) = Len(q) - 1 /\ Head(q) = q[1] /\ Head(q) \in PingMail
      /\ Len(q) \in Nat /\ Len(q) > 0
      /\ \A k \in 1..Len(a) : a[k] = q[k + 1]
  BY HeadTailProperties, EmptySeq
<1>2. /\ 1 \in 1..Len(q) /\ q[1].slot = s
      /\ \A k \in 1..Len(a) : k + 1 \in 1..Len(q) /\ k + 1 # 1
      /\ \A k \in 1..Len(q) : k = 1 \/ (k - 1 \in 1..Len(a) /\ (k - 1) + 1 = k)
  BY <1>1
<1> HIDE DEF a, s
<1>3. \A r \in Ping!Sessions \ {s} : NoMail(q, r) => NoMail(a, r)
  BY <1>1, <1>2 DEF NoMail
<1>4. ASSUME NEW r \in Ping!Sessions \ {s}, NEW v, OnlyMail(q, r, v) PROVE OnlyMail(a, r, v)
  <2>1. PICK k \in 1..Len(q) : q[k] = [what |-> v, slot |-> r] /\ \A j \in 1..Len(q) : q[j].slot = r => j = k
    BY <1>4 DEF OnlyMail
  <2>2. k # 1 /\ k - 1 \in 1..Len(a) /\ a[k - 1] = [what |-> v, slot |-> r]
    BY <1>1, <1>2, <2>1
  <2>3. \A j \in 1..Len(a) : a[j].slot = r => j = k - 1
    BY <1>1, <1>2, <2>1, SMTT(30)
  <2>4. QED BY <2>2, <2>3 DEF OnlyMail
<1>5. ~NoMail(q, s)
  BY <1>2 DEF NoMail
<1>6. ASSUME NEW v, OnlyMail(q, s, v) PROVE Head(q).what = v /\ NoMail(a, s)
  <2>1. PICK k \in 1..Len(q) : q[k] = [what |-> v, slot |-> s] /\ \A j \in 1..Len(q) : q[j].slot = s => j = k
    BY <1>6 DEF OnlyMail
  <2>2. k = 1
    BY <1>2, <2>1
  <2>3. QED BY <1>1, <1>2, <2>1, <2>2 DEF NoMail
<1>7. QED BY <1>1, <1>3, <1>4, <1>5, <1>6 DEF a, s

\* Two messages are not the only one, and a stage is not another.
LEMMA OnlyOne ==
  ASSUME NEW q \in Seq(PingMail), NEW s \in Ping!Sessions, NEW v, NEW w, OnlyMail(q, s, v)
  PROVE  ~NoMail(q, s) /\ (OnlyMail(q, s, w) => v = w)
BY DEF OnlyMail, NoMail

\* A slot whose own state and mail a step leaves alone stays at its stage.
LEMMA StageKept ==
  ASSUME NEW r \in Ping!Sessions, slots'[r] = slots[r], tasks'[r] = tasks[r],
         slots[r].pcb \in pcbs => slots[r].pcb \in pcbs',
         NoMail(mail, r) => NoMail(mail', r),
         \A v : OnlyMail(mail, r, v) => OnlyMail(mail', r, v)
  PROVE  /\ Quiet(r) => Quiet(r)'
         /\ Begun(r) => Begun(r)'
         /\ Paced(r) => Paced(r)'
         /\ Ended(r) => Ended(r)'
BY DEF Quiet, Begun, Paced, Ended, AtMost

\* A slot at a stage other than the first is worked for.
LEMMA StageBusy ==
  ASSUME NEW r \in Ping!Sessions, PingTypes, Begun(r) \/ Paced(r) \/ Ended(r)
  PROVE  ~Quiet(r) /\ Ping!Busy(r)
<1>1. tasks[r]["test"] \in Int /\ tasks[r]["sleep"] \in Int /\ mail \in Seq(PingMail)
  BY DEF PingTypes
<1>2. \A v : OnlyMail(mail, r, v) => ~NoMail(mail, r)
  BY <1>1, OnlyOne
<1>3. ~NoMail(mail, r) => \E k \in 1..Len(mail) : mail[k].slot = r
  BY DEF NoMail
<1>4. ~NoMail(mail, r) \/ tasks[r]["test"] + tasks[r]["sleep"] > 0
  BY <1>1, <1>2 DEF Begun, Paced, Ended
<1>5. Ping!Busy(r)
  BY <1>3, <1>4 DEF Ping!Busy, Ping!Alive, Ping!At
<1>6. ~Quiet(r)
  BY <1>1, <1>2, <1>4 DEF Quiet
<1>7. QED BY <1>5, <1>6

\* A session that is not busy has no task and no stage of an abort left.
LEMMA QuietNotBusy ==
  ASSUME NEW r \in Ping!Sessions, PingTypes, Staged(r), ~Ping!Busy(r)
  PROVE  Quiet(r)
BY StageBusy DEF Staged

\* What a step on one slot has to show.
LEMMA PingKeep ==
  ASSUME PingInv, NEW s \in Ping!Sessions, PingTypes', OwnPcb', ~pingMisuse',
         reused \subseteq reused', reused' \subseteq reused \cup {s},
         \A r \in Ping!Sessions \ {s} :
           /\ slots'[r] = slots[r] /\ tasks'[r] = tasks[r]
           /\ slots[r].pcb \in pcbs => slots[r].pcb \in pcbs'
           /\ NoMail(mail, r) => NoMail(mail', r)
           /\ \A v : OnlyMail(mail, r, v) => OnlyMail(mail', r, v),
         s \notin reused' => Staged(s)',
         reused' = {} => \A p \in pcbs' : \/ p \in pcbs /\ p # slots[s].pcb
                                          \/ p = slots'[s].pcb /\ ~Quiet(s)'
  PROVE  PingInv'
<1>1. \A r \in Ping!Sessions \ {s} : /\ Quiet(r) => Quiet(r)'
                                     /\ Begun(r) => Begun(r)'
                                     /\ Paced(r) => Paced(r)'
                                     /\ Ended(r) => Ended(r)'
  BY StageKept
<1>2. (\A r \in Ping!Sessions \ reused : Staged(r))'
  BY <1>1 DEF PingInv, Staged
<1>3. ASSUME reused' = {}, NEW p \in pcbs' PROVE \E r \in Ping!Sessions : slots'[r].pcb = p /\ ~Quiet(r)'
  <2>1. CASE p \in pcbs /\ p # slots[s].pcb
    <3>1. PICK r \in Ping!Sessions : slots[r].pcb = p /\ ~Quiet(r)
      BY <1>3, <2>1 DEF PingInv
    <3>2. r # s /\ (Begun(r) \/ Paced(r) \/ Ended(r))
      BY <1>3, <2>1, <3>1 DEF PingInv, Staged
    <3>3. (Begun(r) \/ Paced(r) \/ Ended(r))'
      BY <1>1, <3>2
    <3>4. ~Quiet(r)'
      <4>1. mail' \in Seq(PingMail) /\ \A v : OnlyMail(mail', r, v) => ~NoMail(mail', r)
        BY OnlyOne DEF PingTypes
      <4>2. QED BY <3>3, <4>1 DEF Quiet, Begun, Paced, Ended
    <3>5. QED BY <3>1, <3>2, <3>4
  <2>2. QED BY <1>3, <2>1
<1>4. QED BY <1>2, <1>3 DEF PingInv

\* What a step on the tasks of a slot does to them.
LEMMA MovedTasks ==
  ASSUME PingTypes, NEW s \in Ping!Sessions, NEW from \in {"none", "test", "sleep"},
         NEW to \in {"none", "test", "sleep"}, Ping!Move(s, from, to)
  PROVE  /\ tasks' \in [Ping!Sessions -> [{"test", "sleep"} -> Int]]
         /\ \A r \in Ping!Sessions \ {s} : tasks'[r] = tasks[r]
         /\ \A p \in {"test", "sleep"} :
              tasks'[s][p] = tasks[s][p] - (IF p = from THEN 1 ELSE 0) + (IF p = to THEN 1 ELSE 0)
<1> DEFINE f == [p \in {"test", "sleep"} |->
                   tasks[s][p] - (IF p = from THEN 1 ELSE 0) + (IF p = to THEN 1 ELSE 0)]
<1>1. tasks' = [tasks EXCEPT ![s] = f]
  BY DEF Ping!Move
<1>2. f \in [{"test", "sleep"} -> Int]
  BY DEF PingTypes
<1> HIDE DEF f
<1>3. tasks' \in [Ping!Sessions -> [{"test", "sleep"} -> Int]] /\ tasks'[s] = f
      /\ \A r \in Ping!Sessions \ {s} : tasks'[r] = tasks[r]
  BY <1>1, <1>2 DEF PingTypes
<1>4. QED BY <1>3 DEF f

\* lwip_ping_start: the slot is at its first stage, unless work of its last session is left.
LEMMA PingStartStep ==
  ASSUME PingInv, NEW count \in 0..MaxCount, Ping!Start(count)
  PROVE  PingInv'
<1>1. PICK s \in Ping!Sessions :
        /\ ~slots[s].running
        /\ slots' = [slots EXCEPT ![s] = [Ping!FreeSlot EXCEPT !.running = TRUE, !.count = count]]
        /\ reused' = IF Ping!Busy(s) THEN reused \cup {s} ELSE reused
        /\ mail' = Append(mail, [what |-> "init", slot |-> s])
  BY DEF Ping!Start, Ping!Post
<1>2. UNCHANGED <<tasks, pcbs, made, pingMisuse>>
  BY DEF Ping!Start
<1>3. MaxCount \in Nat /\ count \in Nat
  BY TrafficAssumption
<1>4. /\ mail' \in Seq(PingMail)
      /\ \A r \in Ping!Sessions \ {s} :
           /\ NoMail(mail, r) => NoMail(mail', r)
           /\ \A v : OnlyMail(mail, r, v) => OnlyMail(mail', r, v)
      /\ NoMail(mail, s) => OnlyMail(mail', s, "init")
  BY <1>1, PostedMail DEF PingInv, PingTypes
<1>5. \E x \in [running : BOOLEAN, count : Nat, sent : Nat, pcb : Nat] :
        slots' = [slots EXCEPT ![s] = x] /\ x.running /\ x.pcb = 0
  <2> DEFINE free == Ping!FreeSlot
             x == [free EXCEPT !.running = TRUE, !.count = count]
  <2>1. free \in [running : BOOLEAN, count : Nat, sent : Nat, pcb : Nat] /\ free.pcb = 0
    BY DEF Ping!FreeSlot
  <2>2. slots' = [slots EXCEPT ![s] = x]
    BY <1>1
  <2> HIDE DEF free
  <2>3. x \in [running : BOOLEAN, count : Nat, sent : Nat, pcb : Nat] /\ x.running /\ x.pcb = 0
    BY <1>3, <2>1
  <2>4. QED BY <2>2, <2>3
<1>6. /\ slots' \in [Ping!Sessions -> [running : BOOLEAN, count : Nat, sent : Nat, pcb : Nat]]
      /\ \A r \in Ping!Sessions \ {s} : slots'[r] = slots[r]
      /\ slots'[s].running /\ slots'[s].pcb = 0
  BY <1>5 DEF PingInv, PingTypes
<1>7. PingTypes'
  BY <1>1, <1>2, <1>4, <1>6 DEF PingInv, PingTypes
<1>8. OwnPcb'
  <2>1. ASSUME NEW r \in Ping!Sessions PROVE slots'[r].pcb = 0 \/ (r # s /\ slots'[r].pcb = slots[r].pcb)
    <3>1. CASE r = s
      <4>1. slots'[s].pcb = 0
        BY <1>6
      <4>2. QED BY <3>1, <4>1
    <3>2. CASE r # s
      <4>1. slots'[r] = slots[r]
        BY <1>6, <3>2
      <4>2. QED BY <3>2, <4>1
    <3>3. QED BY <3>1, <3>2
  <2>2. made' = made /\ made \in Nat
    BY <1>2 DEF PingInv, PingTypes
  <2>3. QED BY <2>1, <2>2 DEF PingInv, OwnPcb
<1>9. reused \subseteq reused' /\ reused' \subseteq reused \cup {s}
  BY <1>1
<1>10. s \notin reused' => Quiet(s) /\ Staged(s)'
  <2>1. s \notin reused' => s \notin reused /\ ~Ping!Busy(s)
    BY <1>1
  <2>2. s \notin reused' => Quiet(s)
    BY <2>1, QuietNotBusy DEF PingInv
  <2>3. Quiet(s) => Begun(s)'
    BY <1>2, <1>4, <1>6 DEF Quiet, Begun
  <2>4. QED BY <2>2, <2>3 DEF Staged
<1>11. reused' = {} => \A p \in pcbs' : p \in pcbs /\ p # slots[s].pcb
  <2> SUFFICES ASSUME reused' = {}, NEW p \in pcbs' PROVE p \in pcbs /\ p # slots[s].pcb
    OBVIOUS
  <2>1. reused = {} /\ p \in pcbs /\ Quiet(s) /\ p # 0
    BY <1>2, <1>9, <1>10 DEF PingInv, PingTypes
  <2>2. PICK r \in Ping!Sessions : slots[r].pcb = p /\ ~Quiet(r)
    BY <2>1 DEF PingInv
  <2>3. QED BY <2>1, <2>2 DEF PingInv, OwnPcb
<1>12. \A r \in Ping!Sessions \ {s} :
         /\ slots'[r] = slots[r] /\ tasks'[r] = tasks[r]
         /\ slots[r].pcb \in pcbs => slots[r].pcb \in pcbs'
  BY <1>2, <1>6
<1>13. ~pingMisuse'
  BY <1>2 DEF PingInv
<1>14. QED BY <1>4, <1>7, <1>8, <1>9, <1>10, <1>11, <1>12, <1>13, PingKeep

\* What clearing the flag leaves alone.
LEMMA FlagCleared ==
  ASSUME PingTypes, NEW s \in Ping!Sessions, slots' = [slots EXCEPT ![s].running = FALSE]
  PROVE  /\ slots' \in [Ping!Sessions -> [running : BOOLEAN, count : Nat, sent : Nat, pcb : Nat]]
         /\ \A r \in Ping!Sessions \ {s} : slots'[r] = slots[r]
         /\ \A r \in Ping!Sessions : slots'[r].pcb = slots[r].pcb
         /\ slots'[s].count = slots[s].count /\ slots'[s].sent = slots[s].sent
         /\ slots'[s].running = FALSE
BY DEF PingTypes

\* lwip_ping_stop: only the flag goes.
LEMMA PingStopStep ==
  ASSUME PingInv, NEW s \in Ping!Sessions, Ping!Stop(s)
  PROVE  PingInv'
<1>1. /\ slots[s].running /\ slots' = [slots EXCEPT ![s].running = FALSE]
      /\ UNCHANGED <<tasks, mail, pcbs, made, reused, pingMisuse>>
      /\ \A k \in 1..Len(mail) : mail[k].what # "init"
  BY DEF Ping!Stop, Ping!Settled
<1>2. /\ slots' \in [Ping!Sessions -> [running : BOOLEAN, count : Nat, sent : Nat, pcb : Nat]]
      /\ \A r \in Ping!Sessions \ {s} : slots'[r] = slots[r]
      /\ \A r \in Ping!Sessions : slots'[r].pcb = slots[r].pcb
      /\ slots'[s].count = slots[s].count /\ slots'[s].sent = slots[s].sent
  BY <1>1, FlagCleared DEF PingInv
<1>3. PingTypes' /\ OwnPcb' /\ ~pingMisuse'
  BY <1>1, <1>2 DEF PingInv, PingTypes, OwnPcb
<1>4. s \notin reused => Paced(s)'
  <2>1. s \notin reused => Staged(s)
    BY DEF PingInv
  <2>2. ~Begun(s)
    BY <1>1 DEF Begun, OnlyMail
  <2>3. s \notin reused => Paced(s)
    BY <1>1, <2>1, <2>2 DEF Staged, Quiet, Ended
  <2>4. Paced(s) => Paced(s)'
    BY <1>1, <1>2 DEF Paced, AtMost
  <2>5. QED BY <2>3, <2>4
<1>5. Paced(s)' => ~Quiet(s)'
  BY <1>1, OnlyOne DEF PingInv, PingTypes, Paced, Quiet
<1>6. QED
  BY <1>1, <1>2, <1>3, <1>4, <1>5, PingKeep DEF Staged

\* lwip_ping_init: the slot has its pcb and its task, or is given back.
LEMMA PingInitStep ==
  ASSUME PingInv, Ping!InitSession
  PROVE  PingInv'
<1>1. mail # <<>> /\ Head(mail).what = "init" /\ mail' = Tail(mail) /\ UNCHANGED <<reused, pingMisuse>>
  BY DEF Ping!InitSession, Ping!Next1
<1>0. PICK s \in Ping!Sessions : s = Head(mail).slot
  BY <1>1, TakenMail DEF PingInv, PingTypes, PingMail
<1>2. /\ mail' \in Seq(PingMail) /\ s \in Ping!Sessions
      /\ \A r \in Ping!Sessions \ {s} :
           /\ NoMail(mail, r) => NoMail(mail', r)
           /\ \A v : OnlyMail(mail, r, v) => OnlyMail(mail', r, v)
      /\ ~NoMail(mail, s)
      /\ \A v : OnlyMail(mail, s, v) => v = "init" /\ NoMail(mail', s)
  BY <1>0, <1>1, TakenMail DEF PingInv, PingTypes, PingMail
<1>3. s \notin reused => Begun(s) /\ NoMail(mail', s)
  BY <1>2 DEF PingInv, Staged, Quiet, Begun, Paced, Ended
<1>4. made' = made + 1 /\ made \in Nat /\ pcbs \subseteq 1..made
  BY DEF Ping!InitSession, PingInv, PingTypes
<1>5. CASE /\ pcbs' = pcbs \cup {made + 1} /\ Ping!Move(s, "none", "test")
           /\ slots' = [slots EXCEPT ![s].pcb = made + 1, ![s].sent = 0]
  <2>1. /\ slots' \in [Ping!Sessions -> [running : BOOLEAN, count : Nat, sent : Nat, pcb : Nat]]
        /\ \A r \in Ping!Sessions \ {s} : slots'[r] = slots[r]
        /\ slots'[s].pcb = made + 1 /\ slots'[s].sent = 0 /\ slots'[s].count = slots[s].count
    <3> DEFINE x == [slots[s] EXCEPT !.pcb = made + 1, !.sent = 0]
    <3>1. slots' = [slots EXCEPT ![s] = x]
      BY <1>5 DEF PingInv, PingTypes
    <3>2. /\ x \in [running : BOOLEAN, count : Nat, sent : Nat, pcb : Nat]
          /\ x.pcb = made + 1 /\ x.sent = 0 /\ x.count = slots[s].count
      <4>1. made + 1 \in Nat /\ slots[s] \in [running : BOOLEAN, count : Nat, sent : Nat, pcb : Nat]
        BY <1>4 DEF PingInv, PingTypes
      <4>2. QED BY <4>1
    <3> HIDE DEF x
    <3>3. QED BY <3>1, <3>2 DEF PingInv, PingTypes
  <2>2. /\ tasks' \in [Ping!Sessions -> [{"test", "sleep"} -> Int]]
        /\ \A r \in Ping!Sessions \ {s} : tasks'[r] = tasks[r]
        /\ tasks'[s]["test"] = tasks[s]["test"] + 1 /\ tasks'[s]["sleep"] = tasks[s]["sleep"]
    <3>1. tasks[s]["test"] \in Int /\ tasks[s]["sleep"] \in Int
      BY <1>2 DEF PingInv, PingTypes
    <3>2. QED BY <1>2, <1>5, <3>1, MovedTasks DEF PingInv
  <2>3. PingTypes'
    <3>1. made' \in Nat /\ pcbs' \subseteq 1..made'
      BY <1>4, <1>5
    <3>2. reused' \subseteq Ping!Sessions
      BY <1>1 DEF PingInv, PingTypes
    <3>3. QED BY <1>2, <2>1, <2>2, <3>1, <3>2 DEF PingTypes
  <2>4. OwnPcb'
    <3>1. \A r \in Ping!Sessions \ {s} : slots[r].pcb <= made /\ slots[r].pcb \in Nat
      BY DEF PingInv, PingTypes, OwnPcb
    <3>2. \A r \in Ping!Sessions \ {s} : slots'[r].pcb = slots[r].pcb
      BY <2>1
    <3>3. QED BY <1>4, <2>1, <3>1, <3>2 DEF PingInv, OwnPcb
  <2>5. s \notin reused => Paced(s)'
    <3>1. s \notin reused => tasks'[s]["test"] = 1 /\ tasks'[s]["sleep"] = 0
      BY <1>3, <2>2 DEF Begun
    <3>2. slots'[s].pcb \in pcbs'
      BY <1>5, <2>1
    <3>3. slots'[s].count > 0 => slots'[s].sent <= slots'[s].count
      BY <1>2, <2>1 DEF PingInv, PingTypes
    <3>4. QED BY <1>3, <3>1, <3>2, <3>3 DEF Paced, AtMost
  <2>6. s \notin reused => ~Quiet(s)'
    BY <1>3, <2>2 DEF Quiet, Begun
  <2>7. s \notin reused => \A p \in pcbs' : (p \in pcbs /\ p # slots[s].pcb) \/ p = slots'[s].pcb
    BY <1>3, <1>4, <1>5, <2>1 DEF Begun
  <2>8. \A r \in Ping!Sessions \ {s} :
          /\ slots'[r] = slots[r] /\ tasks'[r] = tasks[r]
          /\ slots[r].pcb \in pcbs => slots[r].pcb \in pcbs'
    BY <1>5, <2>1, <2>2
  <2>9. ~pingMisuse'
    BY <1>1 DEF PingInv
  <2>10. QED
    BY <1>1, <1>2, <2>3, <2>4, <2>5, <2>6, <2>7, <2>8, <2>9, PingKeep DEF Staged
<1>6. CASE slots' = [slots EXCEPT ![s].running = FALSE] /\ UNCHANGED <<tasks, pcbs>>
  <2>1. /\ slots' \in [Ping!Sessions -> [running : BOOLEAN, count : Nat, sent : Nat, pcb : Nat]]
        /\ \A r \in Ping!Sessions \ {s} : slots'[r] = slots[r]
        /\ \A r \in Ping!Sessions : slots'[r].pcb = slots[r].pcb
        /\ ~slots'[s].running
BY <1>6, FlagCleared DEF PingInv
  <2>2. PingTypes' /\ ~pingMisuse'
    <3>1. made' \in Nat /\ pcbs' \subseteq 1..made'
      BY <1>4, <1>6
    <3>2. reused' \subseteq Ping!Sessions /\ ~pingMisuse'
      BY <1>1 DEF PingInv, PingTypes
    <3>3. tasks' \in [Ping!Sessions -> [{"test", "sleep"} -> Int]]
      BY <1>6 DEF PingInv, PingTypes
    <3>4. QED BY <1>2, <2>1, <3>1, <3>2, <3>3 DEF PingTypes
  <2>3. OwnPcb'
    <3>1. \A r \in Ping!Sessions : slots[r].pcb <= made /\ slots[r].pcb \in Nat
      BY DEF PingInv, PingTypes, OwnPcb
    <3>2. QED BY <1>4, <2>1, <3>1 DEF PingInv, OwnPcb
  <2>4. s \notin reused => Quiet(s)'
    BY <1>3, <1>6, <2>1 DEF Quiet, Begun
  <2>5. s \notin reused => \A p \in pcbs' : p \in pcbs /\ p # slots[s].pcb
    BY <1>3, <1>4, <1>6 DEF Begun
  <2>6. QED
    BY <1>1, <1>2, <1>6, <2>1, <2>2, <2>3, <2>4, <2>5, PingKeep DEF Staged
<1>7. QED BY <1>0, <1>5, <1>6 DEF Ping!InitSession

\* lwip_ping_send: the pcb is there, and one more is counted at most.
LEMMA PingSendStep ==
  ASSUME PingInv, Ping!Send
  PROVE  PingInv'
<1>1. /\ mail # <<>> /\ Head(mail).what = "send" /\ mail' = Tail(mail)
      /\ UNCHANGED <<tasks, pcbs, made, reused>>
  BY DEF Ping!Send, Ping!Next1
<1>2. PICK s \in Ping!Sessions : s = Head(mail).slot
  BY <1>1, TakenMail DEF PingInv, PingTypes, PingMail
<1>3. /\ mail' \in Seq(PingMail)
      /\ \A r \in Ping!Sessions \ {s} :
           /\ NoMail(mail, r) => NoMail(mail', r)
           /\ \A v : OnlyMail(mail, r, v) => OnlyMail(mail', r, v)
      /\ ~NoMail(mail, s)
      /\ \A v : OnlyMail(mail, s, v) => v = "send" /\ NoMail(mail', s)
  BY <1>1, <1>2, TakenMail DEF PingInv, PingTypes
<1>4. /\ pingMisuse' = (pingMisuse \/ (s \notin reused /\ slots[s].pcb \notin pcbs))
      /\ slots' = slots \/ slots' = [slots EXCEPT ![s].sent = @ + 1]
  BY <1>2 DEF Ping!Send
<1>5. slots[s].sent \in Nat /\ slots[s].count \in Nat
  BY DEF PingInv, PingTypes
<1>6. /\ slots' \in [Ping!Sessions -> [running : BOOLEAN, count : Nat, sent : Nat, pcb : Nat]]
      /\ \A r \in Ping!Sessions \ {s} : slots'[r] = slots[r]
      /\ \A r \in Ping!Sessions : slots'[r].pcb = slots[r].pcb
      /\ slots'[s].count = slots[s].count
      /\ slots'[s].sent = slots[s].sent \/ slots'[s].sent = slots[s].sent + 1
  <2>1. CASE slots' = slots
    BY <2>1 DEF PingInv, PingTypes
  <2>2. CASE slots' = [slots EXCEPT ![s].sent = @ + 1]
    <3> DEFINE n == slots[s].sent + 1
    <3>1. n \in Nat /\ slots' = [slots EXCEPT ![s].sent = n]
      BY <1>5, <2>2
    <3> HIDE DEF n
    <3>2. /\ slots' \in [Ping!Sessions -> [running : BOOLEAN, count : Nat, sent : Nat, pcb : Nat]]
          /\ \A r \in Ping!Sessions \ {s} : slots'[r] = slots[r]
          /\ \A r \in Ping!Sessions : slots'[r].pcb = slots[r].pcb
          /\ slots'[s].count = slots[s].count /\ slots'[s].sent = n
      BY <3>1 DEF PingInv, PingTypes
    <3>3. QED BY <3>2 DEF n
  <2>3. QED BY <1>4, <2>1, <2>2
<1>7. PingTypes' /\ OwnPcb'
  BY <1>1, <1>3, <1>6, SMTT(30) DEF PingInv, PingTypes, OwnPcb
<1>8. s \notin reused => /\ slots[s].pcb \in pcbs /\ tasks[s]["test"] = 0 /\ tasks[s]["sleep"] = 1
                        /\ NoMail(mail', s) /\ AtMost(s, slots[s].sent + 1)
  BY <1>3 DEF PingInv, Staged, Quiet, Begun, Paced, Ended
<1>9. ~pingMisuse'
  BY <1>4, <1>8 DEF PingInv
<1>10. s \notin reused => Paced(s)' /\ ~Quiet(s)'
  <2>1. s \notin reused => slots'[s].pcb \in pcbs' /\ tasks'[s]["test"] = 0 /\ tasks'[s]["sleep"] = 1
    BY <1>1, <1>6, <1>8
  <2>2. s \notin reused => (slots'[s].count > 0 => slots'[s].sent <= slots'[s].count)
    BY <1>5, <1>6, <1>8 DEF AtMost
  <2>3. QED BY <1>8, <2>1, <2>2 DEF Paced, Quiet, AtMost
<1>11. QED
  BY <1>1, <1>3, <1>6, <1>7, <1>9, <1>10, PingKeep DEF Staged

\* lwip_ping_deinit: the pcb goes, and nothing is left of the slot.
LEMMA PingDeinitStep ==
  ASSUME PingInv, Ping!Deinit
  PROVE  PingInv'
<1>1. /\ mail # <<>> /\ Head(mail).what = "deinit" /\ mail' = Tail(mail)
      /\ UNCHANGED <<slots, tasks, made, reused>>
  BY DEF Ping!Deinit, Ping!Next1
<1>2. PICK s \in Ping!Sessions : s = Head(mail).slot
  BY <1>1, TakenMail DEF PingInv, PingTypes, PingMail
<1>3. /\ mail' \in Seq(PingMail)
      /\ \A r \in Ping!Sessions \ {s} :
           /\ NoMail(mail, r) => NoMail(mail', r)
           /\ \A v : OnlyMail(mail, r, v) => OnlyMail(mail', r, v)
      /\ ~NoMail(mail, s)
      /\ \A v : OnlyMail(mail, s, v) => v = "deinit" /\ NoMail(mail', s)
  BY <1>1, <1>2, TakenMail DEF PingInv, PingTypes
<1>4. /\ pingMisuse' = (pingMisuse \/ (s \notin reused /\ slots[s].pcb \notin pcbs))
      /\ pcbs' = pcbs \ {slots[s].pcb}
  BY <1>2 DEF Ping!Deinit
<1>5. s \notin reused => /\ slots[s].pcb \in pcbs /\ tasks[s]["test"] = 0 /\ tasks[s]["sleep"] = 0
                        /\ ~slots[s].running /\ NoMail(mail', s)
  BY <1>3 DEF PingInv, Staged, Quiet, Begun, Paced, Ended
<1>6. PingTypes' /\ OwnPcb' /\ ~pingMisuse'
  BY <1>1, <1>3, <1>4, <1>5 DEF PingInv, PingTypes, OwnPcb
<1>7. \A r \in Ping!Sessions \ {s} : slots[r].pcb \in pcbs => slots[r].pcb \in pcbs'
  <2>1. \A r \in Ping!Sessions \ {s} : slots[r].pcb \in pcbs => slots[r].pcb # 0
    BY DEF PingInv, PingTypes
  <2>2. QED BY <1>4, <2>1 DEF PingInv, OwnPcb
<1>8. s \notin reused => Quiet(s)'
  BY <1>1, <1>5 DEF Quiet
<1>9. \A p \in pcbs' : p \in pcbs /\ p # slots[s].pcb
  BY <1>4
<1>10. QED
  BY <1>1, <1>3, <1>6, <1>7, <1>8, <1>9, PingKeep DEF Staged

\* ping_session_task: it sends, sleeps and goes on ...
LEMMA PingPaceStep ==
  ASSUME PingInv, NEW s \in Ping!Sessions, Ping!TaskSends(s) \/ Ping!TaskWakes(s)
  PROVE  PingInv'
<1>0. tasks[s]["test"] \in Int /\ tasks[s]["sleep"] \in Int /\ mail \in Seq(PingMail)
  BY DEF PingInv, PingTypes
<1>1. CASE Ping!TaskSends(s)
  <2>1. /\ tasks[s]["test"] > 0 /\ Ping!GoesOn(s) /\ Ping!Move(s, "test", "sleep")
        /\ mail' = Append(mail, [what |-> "send", slot |-> s])
        /\ UNCHANGED <<slots, pcbs, made, reused, pingMisuse>>
    BY <1>1 DEF Ping!TaskSends, Ping!Post, Ping!At
  <2>2. /\ tasks' \in [Ping!Sessions -> [{"test", "sleep"} -> Int]]
        /\ \A r \in Ping!Sessions \ {s} : tasks'[r] = tasks[r]
        /\ tasks'[s]["test"] = tasks[s]["test"] - 1 /\ tasks'[s]["sleep"] = tasks[s]["sleep"] + 1
    BY <1>0, <2>1, MovedTasks DEF PingInv
  <2>3. /\ mail' \in Seq(PingMail)
        /\ \A r \in Ping!Sessions \ {s} :
             /\ NoMail(mail, r) => NoMail(mail', r)
             /\ \A v : OnlyMail(mail, r, v) => OnlyMail(mail', r, v)
        /\ NoMail(mail, s) => OnlyMail(mail', s, "send")
    BY <1>0, <2>1, PostedMail
  <2>4. PingTypes' /\ OwnPcb' /\ ~pingMisuse'
    BY <2>1, <2>2, <2>3 DEF PingInv, PingTypes, OwnPcb
  <2>5. slots[s].count \in Nat /\ slots[s].sent \in Nat
    BY DEF PingInv, PingTypes
  <2>6. s \notin reused => /\ slots[s].pcb \in pcbs /\ tasks[s]["test"] = 1 /\ tasks[s]["sleep"] = 0
                          /\ NoMail(mail, s)
    BY <2>1 DEF PingInv, Staged, Quiet, Begun, Paced, Ended
  <2>7. AtMost(s, slots[s].sent + 1)
    BY <2>1, <2>5 DEF Ping!GoesOn, AtMost
  <2>8. s \notin reused => Paced(s)'
    <3>1. s \notin reused => tasks'[s]["test"] = 0 /\ tasks'[s]["sleep"] = 1
      BY <2>2, <2>6
    <3>2. AtMost(s, slots[s].sent + 1)'
      BY <2>1, <2>7 DEF AtMost
    <3>3. QED BY <2>1, <2>3, <2>6, <3>1, <3>2 DEF Paced
  <2>9. s \notin reused => ~Quiet(s)' /\ \A p \in pcbs' : p \in pcbs
    BY <2>1, <2>2, <2>6 DEF Quiet
  <2>10. QED
    BY <2>1, <2>2, <2>3, <2>4, <2>8, <2>9, PingKeep DEF Staged
<1>2. CASE Ping!TaskWakes(s)
  <2>1. /\ tasks[s]["sleep"] > 0 /\ Ping!Move(s, "sleep", "test")
        /\ \A k \in 1..Len(mail) : mail[k] # [what |-> "send", slot |-> s]
        /\ UNCHANGED <<slots, mail, pcbs, made, reused, pingMisuse>>
    BY <1>2 DEF Ping!TaskWakes, Ping!At
  <2>2. /\ tasks' \in [Ping!Sessions -> [{"test", "sleep"} -> Int]]
        /\ \A r \in Ping!Sessions \ {s} : tasks'[r] = tasks[r]
        /\ tasks'[s]["test"] = tasks[s]["test"] + 1 /\ tasks'[s]["sleep"] = tasks[s]["sleep"] - 1
    BY <1>0, <2>1, MovedTasks DEF PingInv
  <2>3. PingTypes' /\ OwnPcb' /\ ~pingMisuse'
    BY <2>1, <2>2 DEF PingInv, PingTypes, OwnPcb
  <2>4. ~OnlyMail(mail, s, "send")
    BY <2>1 DEF OnlyMail
  <2>5. s \notin reused => /\ slots[s].pcb \in pcbs /\ tasks[s]["test"] = 0 /\ tasks[s]["sleep"] = 1
                          /\ NoMail(mail, s) /\ AtMost(s, slots[s].sent)
    BY <2>1, <2>4 DEF PingInv, Staged, Quiet, Begun, Paced, Ended
  <2>6. s \notin reused => tasks'[s]["test"] = 1 /\ tasks'[s]["sleep"] = 0
    BY <2>2, <2>5
  <2>7. s \notin reused => Paced(s)' /\ ~Quiet(s)'
    BY <2>1, <2>5, <2>6 DEF Paced, Quiet, AtMost
  <2>8. QED
    BY <2>1, <2>2, <2>3, <2>7, PingKeep DEF Staged
<1>3. QED BY <1>1, <1>2

\* ... until its session is over: the slot is free then and its pcb as good as removed.
LEMMA PingEndStep ==
  ASSUME PingInv, NEW s \in Ping!Sessions, Ping!TaskEnds(s)
  PROVE  PingInv'
<1>1. /\ tasks[s]["test"] > 0 /\ ~Ping!GoesOn(s) /\ Ping!Move(s, "test", "none")
      /\ mail' = Append(mail, [what |-> "deinit", slot |-> s])
      /\ slots' = IF slots[s].count > 0 /\ slots[s].sent = slots[s].count
                    THEN [slots EXCEPT ![s].running = FALSE] ELSE slots
      /\ UNCHANGED <<pcbs, made, reused, pingMisuse>>
  BY DEF Ping!TaskEnds, Ping!Post, Ping!At
<1>2. /\ tasks[s]["test"] \in Int /\ tasks[s]["sleep"] \in Int /\ mail \in Seq(PingMail)
      /\ slots[s].count \in Nat /\ slots[s].sent \in Nat
  BY DEF PingInv, PingTypes
<1>3. /\ tasks' \in [Ping!Sessions -> [{"test", "sleep"} -> Int]]
      /\ \A r \in Ping!Sessions \ {s} : tasks'[r] = tasks[r]
      /\ tasks'[s]["test"] = tasks[s]["test"] - 1 /\ tasks'[s]["sleep"] = tasks[s]["sleep"]
  BY <1>1, <1>2, MovedTasks DEF PingInv
<1>4. /\ mail' \in Seq(PingMail)
      /\ \A r \in Ping!Sessions \ {s} :
           /\ NoMail(mail, r) => NoMail(mail', r)
           /\ \A v : OnlyMail(mail, r, v) => OnlyMail(mail', r, v)
      /\ NoMail(mail, s) => OnlyMail(mail', s, "deinit")
  BY <1>1, <1>2, PostedMail
<1>5. /\ slots' \in [Ping!Sessions -> [running : BOOLEAN, count : Nat, sent : Nat, pcb : Nat]]
      /\ \A r \in Ping!Sessions \ {s} : slots'[r] = slots[r]
      /\ \A r \in Ping!Sessions : slots'[r].pcb = slots[r].pcb
  <2>1. CASE slots' = slots
    BY <2>1 DEF PingInv, PingTypes
  <2>2. CASE slots' = [slots EXCEPT ![s].running = FALSE]
    BY <2>2, FlagCleared DEF PingInv
  <2>3. QED BY <1>1, <2>1, <2>2
<1>6. PingTypes' /\ OwnPcb' /\ ~pingMisuse'
  <2>1. PingTypes' /\ ~pingMisuse'
    BY <1>1, <1>3, <1>4, <1>5 DEF PingInv, PingTypes
  <2>2. OwnPcb'
    BY <1>1, <1>5 DEF PingInv, OwnPcb
  <2>3. QED BY <2>1, <2>2
<1>7. s \notin reused => /\ slots[s].pcb \in pcbs /\ tasks[s]["test"] = 1 /\ tasks[s]["sleep"] = 0
                        /\ NoMail(mail, s) /\ AtMost(s, slots[s].sent)
  BY <1>1 DEF PingInv, Staged, Quiet, Begun, Paced, Ended
<1>8. s \notin reused => slots'[s].running = FALSE \/ ~slots'[s].running
  <2>1. CASE slots[s].count > 0 /\ slots[s].sent = slots[s].count
    <3>1. slots' = [slots EXCEPT ![s].running = FALSE]
      BY <1>1, <2>1
    <3>2. slots'[s].running = FALSE
      BY <3>1, FlagCleared DEF PingInv
    <3>3. QED BY <3>2
  <2>2. CASE ~(slots[s].count > 0 /\ slots[s].sent = slots[s].count)
    <3>1. s \notin reused => ~slots[s].running
      BY <1>1, <1>2, <1>7, <2>2 DEF Ping!GoesOn, AtMost
    <3>2. QED BY <1>1, <2>2, <3>1
  <2>3. QED BY <2>1, <2>2
<1>9. s \notin reused => tasks'[s]["test"] = 0 /\ tasks'[s]["sleep"] = 0
  BY <1>3, <1>7
<1>10. s \notin reused => Ended(s)'
  <2>1. s \notin reused => slots'[s].pcb \in pcbs'
    BY <1>1, <1>5, <1>7
  <2>2. QED BY <1>4, <1>7, <1>8, <1>9, <2>1 DEF Ended
<1>11. s \notin reused => ~Quiet(s)'
  <2>1. \A v : OnlyMail(mail', s, v) => ~NoMail(mail', s)
    BY <1>4, OnlyOne
  <2>2. QED BY <1>10, <2>1 DEF Ended, Quiet
<1>12. \A p \in pcbs' : p \in pcbs
  BY <1>1
<1>13. QED
  BY <1>1, <1>3, <1>4, <1>5, <1>6, <1>10, <1>11, <1>12, PingKeep DEF Staged

\* Whenever a session is stopped: no callback uses a pcb that was removed, and neither a
\* pcb nor a slot is lost, as long as no slot was started again too soon.
THEOREM PingPcbsKept == MCSpec => []PingSafe
<1> DEFINE I == part = "ping" => PingInv
<1>1. MCInit => I
  <2> SUFFICES ASSUME MCInit PROVE PingInv
    OBVIOUS
  <2> DEFINE free == Ping!FreeSlot
             none == [test |-> 0, sleep |-> 0]
  <2>1. /\ slots = [s \in Ping!Sessions |-> free] /\ tasks = [s \in Ping!Sessions |-> none]
        /\ mail = <<>> /\ pcbs = {} /\ made = 0 /\ reused = {} /\ pingMisuse = FALSE
    BY DEF MCInit, Ping!Init
  <2>2. /\ free \in [running : BOOLEAN, count : Nat, sent : Nat, pcb : Nat]
        /\ free.running = FALSE /\ free.pcb = 0
    BY DEF Ping!FreeSlot
  <2>3. none \in [{"test", "sleep"} -> Int] /\ none["test"] = 0 /\ none["sleep"] = 0
    OBVIOUS
  <2> HIDE DEF free, none
  <2>4. PingTypes
    BY <2>1, <2>2, <2>3 DEF PingTypes
  <2>5. OwnPcb
    BY <2>1, <2>2 DEF OwnPcb
  <2>6. \A s \in Ping!Sessions : Quiet(s)
    BY <2>1, <2>2, <2>3 DEF Quiet, NoMail
  <2>7. QED BY <2>1, <2>4, <2>5, <2>6 DEF PingInv, Staged
<1>2. I /\ [MCNext]_<<part, pingVars, iperfVars, sockVars, sntpVars>> => I'
  <2> SUFFICES ASSUME I, [MCNext]_<<part, pingVars, iperfVars, sockVars, sntpVars>>, part' = "ping"
               PROVE  PingInv'
    OBVIOUS
  <2>1. CASE UNCHANGED <<part, pingVars>>
    BY <2>1 DEF pingVars, PingInv, PingTypes, OwnPcb, Staged, Quiet, Begun, Paced, Ended, AtMost
  <2>2. CASE part = "ping" /\ Ping!Next
    BY <2>2, PingStartStep, PingStopStep, PingInitStep, PingSendStep, PingDeinitStep, PingPaceStep,
       PingEndStep DEF Ping!Next
  <2>3. QED BY <2>1, <2>2 DEF MCNext
<1>3. I => PingSafe
  <2> SUFFICES ASSUME PingInv PROVE Ping!PcbAlive /\ Ping!NoPcbLost /\ Ping!NoSlotLost
    BY DEF PingSafe
  <2>1. \A s \in Ping!Sessions : reused = {} => Staged(s)
    BY DEF PingInv
  <2>2. \A s \in Ping!Sessions : reused = {} /\ ~Quiet(s) => Ping!Busy(s)
    BY <2>1, StageBusy DEF PingInv, Staged
  <2>3. Ping!PcbAlive
    BY DEF PingInv, Ping!PcbAlive
  <2>4. Ping!NoPcbLost
    BY <2>2 DEF PingInv, Ping!NoPcbLost
  <2>5. Ping!NoSlotLost
    BY <2>2 DEF Quiet, Ping!NoSlotLost
  <2>6. QED BY <2>3, <2>4, <2>5
<1>4. QED BY <1>1, <1>2, <1>3, PTL DEF MCSpec

-----------------------------------------------------------------------------
(* Sockets: an entry, its thread and who destroys it. *)

Working == {"open", "accept", "test", "io", "close", "wait", "done"}
HasSocket == {"accept", "test", "io", "close"}
EntryRecord == [running : BOOLEAN, thread : Nat]
ThreadRecord == [kind : Sock!Kinds, id : Nat, at : Working \cup {"none", "deleted"},
                 wait : {"no", "bounded", "endless"}]
Descriptor == [owner : Nat, ends : BOOLEAN]

SockTypes ==
  /\ entry \in [Sock!Entries -> EntryRecord]
  /\ thread \in [Sock!Threads -> ThreadRecord]
  /\ sockets \in [Sock!Descriptors -> Descriptor]
  /\ killer \in [at : {"idle", "force", "wait", "asserted"}, id : Nat]
  /\ started \in Nat

\* The kill command destroys entry i.
Dying(i) == killer.at # "idle" /\ killer.id = i

\* A thread that was started has its entry to itself until it is deleted, and an entry
\* that was told to stop is one that the kill command destroys.
ThreadsOwnEntries ==
  /\ \A t \in Sock!Threads : t > started => thread[t].at = "none"
  /\ \A t \in Sock!Threads : thread[t].at \in Working =>
       thread[t].id \in Sock!Entries /\ entry[thread[t].id].thread = t
  /\ \A i \in Sock!Entries :
       \/ ~entry[i].running /\ entry[i].thread = 0 /\ ~Dying(i)
       \/ /\ entry[i].thread \in Sock!Threads
          /\ thread[entry[i].thread].at \in Working /\ thread[entry[i].thread].id = i
          /\ ~entry[i].running <=> Dying(i)

KillerHolds == killer.at # "idle" => killer.id \in Sock!Entries

SignalsOfDone == \A t \in token : t \in Sock!Threads /\ thread[t].at = "done"

\* An open descriptor is that of a thread that will come to close it.
SocketsHeld ==
  \A d \in Sock!Descriptors :
    \/ sockets[d].owner \in {0, Sock!Leaked}
    \/ sockets[d].owner \in Sock!Threads /\ thread[sockets[d].owner].at \in HasSocket

SockInv == SockTypes /\ ThreadsOwnEntries /\ KillerHolds /\ SignalsOfDone /\ SocketsHeld

\* What a step may do to the threads: one that it deletes had finished.
DeletesDone ==
  \A u \in Sock!Threads : thread[u].at # "deleted" /\ thread'[u].at = "deleted" => thread[u].at = "done"

\* A thread goes on by itself: its entry and the killer stay as they are.
LEMMA ThreadGoesOn ==
  ASSUME ThreadsOwnEntries, NEW t \in Sock!Threads,
         thread[t].at \in Working, thread'[t].at \in Working, thread'[t].id = thread[t].id,
         \A u \in Sock!Threads \ {t} : thread'[u] = thread[u],
         UNCHANGED <<entry, killer, started>>
  PROVE  ThreadsOwnEntries'
<1>1. \A u \in Sock!Threads : thread'[u].id = thread[u].id /\ (thread'[u].at \in Working <=> thread[u].at \in Working)
  OBVIOUS
<1>2. (\A u \in Sock!Threads : u > started => thread[u].at = "none")'
  BY DEF ThreadsOwnEntries, Working
<1>3. QED BY <1>1, <1>2 DEF ThreadsOwnEntries, Dying

\* The form of the record of a thread that goes on.
LEMMA ThreadForm ==
  ASSUME SockTypes, NEW t \in Sock!Threads, NEW a \in Working, NEW w \in {"no", "bounded", "endless"},
         thread' = [thread EXCEPT ![t].at = a, ![t].wait = w]
  PROVE  /\ thread' \in [Sock!Threads -> ThreadRecord]
         /\ thread'[t].at = a /\ thread'[t].id = thread[t].id
         /\ \A u \in Sock!Threads \ {t} : thread'[u] = thread[u]
<1> DEFINE x == [thread[t] EXCEPT !.at = a, !.wait = w]
<1>1. thread' = [thread EXCEPT ![t] = x]
  BY DEF SockTypes
<1>2. x \in ThreadRecord /\ x.at = a /\ x.id = thread[t].id
  <2>1. thread[t] \in ThreadRecord
    BY DEF SockTypes
  <2>2. QED BY <2>1 DEF ThreadRecord
<1> HIDE DEF x
<1>3. QED BY <1>1, <1>2 DEF SockTypes

\* A descriptor is opened by one who closes it, or not at all.
LEMMA SocketOpened ==
  ASSUME SockTypes, NEW t \in Nat, NEW b \in BOOLEAN, sockets' = Sock!OpenBy(t, b)
  PROVE  /\ sockets' \in [Sock!Descriptors -> Descriptor]
         /\ \A d \in Sock!Descriptors : sockets'[d].owner \in {t, sockets[d].owner}
<1> DEFINE x == [owner |-> t, ends |-> b]
<1>1. PICK m : sockets' = [sockets EXCEPT ![m] = x]
  BY DEF Sock!OpenBy
<1>2. x \in Descriptor /\ x.owner = t
  BY DEF Descriptor
<1>3. sockets \in [Sock!Descriptors -> Descriptor]
  BY DEF SockTypes
<1> HIDE DEF x
<1>4. sockets' \in [Sock!Descriptors -> Descriptor]
  BY <1>1, <1>2, <1>3
<1>5. ASSUME NEW d \in Sock!Descriptors
      PROVE  sockets'[d].owner \in {t, sockets[d].owner}
  <2>1. sockets'[d] = x \/ sockets'[d] = sockets[d]
    BY <1>1, <1>3
  <2>2. QED BY <1>2, <2>1
<1>6. QED BY <1>4, <1>5

\* Thread numbers are positive, and the number of a leaked thread is none of theirs.
LEMMA ThreadNumbers ==
  /\ Sock!Threads \subseteq Nat \ {0} /\ Sock!Leaked \in Nat /\ Sock!Leaked \notin Sock!Threads
  /\ Sock!Entries \subseteq Nat
BY TrafficAssumption DEF Sock!Threads, Sock!Leaked, Sock!Entries

\* What a thread does by itself keeps entries, killer and descriptors in order.
LEMMA SockThreadStep ==
  ASSUME SockInv, NEW t \in Sock!Threads,
         \/ Sock!Opens(t) \/ Sock!Tests(t) \/ Sock!Calls(t) \/ Sock!AcceptsClient(t)
         \/ Sock!Transfers(t) \/ Sock!TimesOut(t) \/ Sock!Closes(t) \/ Sock!Signals(t)
  PROVE  SockInv' /\ DeletesDone
<1>0. SockTypes /\ ThreadsOwnEntries /\ KillerHolds /\ SignalsOfDone /\ SocketsHeld
  BY DEF SockInv
<1>1. UNCHANGED <<entry, killer, frozen, started>>
  BY DEF Sock!Opens, Sock!Tests, Sock!Calls, Sock!AcceptsClient, Sock!Transfers, Sock!TimesOut,
         Sock!Closes, Sock!Signals
<1>2. PICK a \in Working, w \in {"no", "bounded", "endless"} :
        /\ thread[t].at \in Working \ {"done"}
        /\ thread' = [thread EXCEPT ![t].at = a, ![t].wait = w]
        /\ a = "done" => Sock!Signals(t)
        /\ \/ a \in HasSocket /\ \E b \in BOOLEAN : sockets' = Sock!OpenBy(t, b)
           \/ sockets' = sockets /\ (thread[t].at \in HasSocket => a \in HasSocket)
           \/ sockets' = Sock!ClosedBy(t)
  <2>1. CASE Sock!Opens(t)
    BY <2>1 DEF Sock!Opens, Sock!Runs, Sock!Goto, Working, HasSocket
  <2>2. CASE Sock!Tests(t)
    BY <2>2 DEF Sock!Tests, Sock!Runs, Sock!Goto, Working, HasSocket
  <2>3. CASE Sock!Calls(t)
    <3> DEFINE b == \/ thread[t].kind = "udp client"
                    \/ thread[t].kind # "tcp client" /\ \A d \in Sock!Owned(t) : sockets[d].ends
               w == IF b THEN "bounded" ELSE "endless"
    <3>1. /\ thread[t].at \in {"accept", "io"} /\ sockets' = sockets
          /\ thread' = [thread EXCEPT ![t].wait = w]
      BY <2>3 DEF Sock!Calls, Sock!Runs
    <3>2. w \in {"no", "bounded", "endless"}
      OBVIOUS
    <3> HIDE DEF b, w
    <3>3. thread' = [thread EXCEPT ![t].at = thread[t].at, ![t].wait = w]
      <4>1. [thread[t] EXCEPT !.wait = w] = [thread[t] EXCEPT !.at = thread[t].at, !.wait = w]
        <5>1. thread[t] \in ThreadRecord
          BY <1>0 DEF SockTypes
        <5>2. QED BY <5>1 DEF ThreadRecord
      <4>2. /\ thread' = [thread EXCEPT ![t] = [thread[t] EXCEPT !.wait = w]]
            /\ [thread EXCEPT ![t].at = thread[t].at, ![t].wait = w]
                 = [thread EXCEPT ![t] = [thread[t] EXCEPT !.at = thread[t].at, !.wait = w]]
        BY <1>0, <3>1 DEF SockTypes
      <4>3. QED BY <4>1, <4>2
    <3>4. QED BY <3>1, <3>2, <3>3 DEF Working, HasSocket
  <2>4. CASE Sock!AcceptsClient(t)
    BY <2>4 DEF Sock!AcceptsClient, Sock!InCall, Sock!Runs, Sock!Goto, Working, HasSocket
  <2>5. CASE Sock!Transfers(t)
    BY <2>5 DEF Sock!Transfers, Sock!InCall, Sock!Runs, Sock!Goto, Working, HasSocket
  <2>6. CASE Sock!TimesOut(t)
    BY <2>6 DEF Sock!TimesOut, Sock!InCall, Sock!Runs, Sock!Goto, Working, HasSocket
  <2>7. CASE Sock!Closes(t)
    BY <2>7 DEF Sock!Closes, Sock!Runs, Sock!Goto, Working
  <2>8. CASE Sock!Signals(t)
    BY <2>8 DEF Sock!Signals, Sock!Runs, Sock!Goto, Working, HasSocket
  <2>9. QED BY <2>1, <2>2, <2>3, <2>4, <2>5, <2>6, <2>7, <2>8
<1>3. /\ thread' \in [Sock!Threads -> ThreadRecord]
      /\ thread'[t].at = a /\ thread'[t].id = thread[t].id
      /\ \A u \in Sock!Threads \ {t} : thread'[u] = thread[u]
  BY <1>0, <1>2, ThreadForm
<1>4. t \in Nat /\ t # 0 /\ t # Sock!Leaked
  BY ThreadNumbers
<1>5. sockets' \in [Sock!Descriptors -> Descriptor]
  <2>1. CASE sockets' = Sock!ClosedBy(t)
    BY <1>0, <2>1 DEF Sock!ClosedBy, Sock!Closed, SockTypes, Descriptor
  <2>2. CASE sockets' = sockets
    BY <1>0, <2>2 DEF SockTypes
  <2>3. QED BY <1>0, <1>2, <1>4, <2>1, <2>2, SocketOpened
<1>6. SocketsHeld'
  <2> SUFFICES ASSUME NEW d \in Sock!Descriptors
               PROVE  \/ sockets'[d].owner \in {0, Sock!Leaked}
                      \/ /\ sockets'[d].owner \in Sock!Threads
                         /\ thread'[sockets'[d].owner].at \in HasSocket
    BY DEF SocketsHeld
  <2>0. \/ sockets[d].owner \in {0, Sock!Leaked}
        \/ sockets[d].owner \in Sock!Threads /\ thread[sockets[d].owner].at \in HasSocket
    BY <1>0 DEF SocketsHeld
  <2>1. CASE a \in HasSocket /\ \E b \in BOOLEAN : sockets' = Sock!OpenBy(t, b)
    <3>1. sockets'[d].owner \in {t, sockets[d].owner}
      BY <1>0, <1>4, <2>1, SocketOpened
    <3>2. QED BY <1>3, <2>0, <2>1, <3>1
  <2>2. CASE sockets' = sockets /\ (thread[t].at \in HasSocket => a \in HasSocket)
    BY <1>3, <2>0, <2>2
  <2>3. CASE sockets' = Sock!ClosedBy(t)
    <3>1. sockets'[d].owner = 0 \/ (sockets[d].owner # t /\ sockets'[d].owner = sockets[d].owner)
      BY <2>3 DEF Sock!ClosedBy, Sock!Closed
    <3>2. QED BY <1>3, <2>0, <3>1
  <2>4. QED BY <1>2, <2>1, <2>2, <2>3
<1>7. SockTypes'
  BY <1>0, <1>1, <1>3, <1>5 DEF SockTypes
<1>8. ThreadsOwnEntries' /\ KillerHolds'
  <2>1. ThreadsOwnEntries'
    BY <1>0, <1>1, <1>2, <1>3, ThreadGoesOn
  <2>2. QED BY <1>0, <1>1, <2>1 DEF KillerHolds
<1>9. SignalsOfDone'
  <2>1. \A u \in token : u \in Sock!Threads /\ u # t /\ thread'[u] = thread[u] /\ thread[u].at = "done"
    BY <1>0, <1>2, <1>3 DEF SignalsOfDone
  <2>2. CASE token' = token
    BY <2>1, <2>2 DEF SignalsOfDone
  <2>3. CASE Sock!Signals(t)
    <3>1. token' = token \cup {t} /\ thread' = [thread EXCEPT ![t].at = "done", ![t].wait = "no"]
      BY <2>3 DEF Sock!Signals, Sock!Goto
    <3>2. thread'[t].at = "done"
      BY <1>0, <3>1, ThreadForm DEF Working
    <3>3. QED BY <2>1, <3>1, <3>2 DEF SignalsOfDone
  <2>4. token' = token \/ Sock!Signals(t)
    BY DEF Sock!Opens, Sock!Tests, Sock!Calls, Sock!AcceptsClient, Sock!Transfers, Sock!TimesOut, Sock!Closes
  <2>5. QED BY <2>2, <2>3, <2>4
<1>10. DeletesDone
  BY <1>3 DEF DeletesDone, Working
<1>11. QED BY <1>6, <1>7, <1>8, <1>9, <1>10 DEF SockInv

\* socket_ThreadExecute: the new thread has the entry to itself.
LEMMA SockExecuteStep ==
  ASSUME SockInv, NEW kind \in Sock!Kinds, Sock!ThreadExecute(kind)
  PROVE  SockInv' /\ DeletesDone
<1>0. /\ SockTypes /\ ThreadsOwnEntries /\ KillerHolds /\ SignalsOfDone /\ SocketsHeld
      /\ UNCHANGED <<sockets, killer, token>> /\ started < MaxStarts /\ killer.at = "idle"
  BY DEF SockInv, Sock!ThreadExecute
<1>1. CASE UNCHANGED <<entry, thread, started>>
  BY <1>0, <1>1 DEF SockInv, SockTypes, ThreadsOwnEntries, Dying, KillerHolds, SignalsOfDone, SocketsHeld,
                    DeletesDone
<1>2. CASE ~UNCHANGED <<entry, thread, started>>
  <2> DEFINE t == started + 1
             n == [running |-> TRUE, thread |-> t]
             x(i) == [kind |-> kind, id |-> i, at |-> "open", wait |-> "no"]
  <2>1. PICK i \in Sock!Entries :
          /\ ~entry[i].running
          /\ entry' = [entry EXCEPT ![i] = n]
          /\ thread' = [thread EXCEPT ![t] = x(i)]
          /\ started' = t
    BY <1>2 DEF Sock!ThreadExecute
  <2>2. started \in Nat /\ t \in Sock!Threads /\ t \in Nat /\ t # 0 /\ t > started /\ i \in Nat
    BY <1>0, TrafficAssumption, ThreadNumbers DEF SockTypes, Sock!Threads
  <2>3. n \in EntryRecord /\ n.running = TRUE /\ n.thread = t
    BY <2>2 DEF EntryRecord
  <2>4. x(i) \in ThreadRecord /\ x(i).at = "open" /\ x(i).id = i
    BY <2>2 DEF ThreadRecord, Working
  <2> HIDE DEF n, t, x
  <2>5. /\ thread' \in [Sock!Threads -> ThreadRecord]
        /\ thread'[t].at = "open" /\ thread'[t].id = i
        /\ \A u \in Sock!Threads \ {t} : thread'[u] = thread[u]
    BY <1>0, <2>1, <2>2, <2>4 DEF SockTypes
  <2>6. /\ entry' \in [Sock!Entries -> EntryRecord]
        /\ entry'[i] = n /\ \A j \in Sock!Entries \ {i} : entry'[j] = entry[j]
    BY <1>0, <2>1, <2>3 DEF SockTypes
  <2>7. SockTypes'
    BY <1>0, <2>1, <2>2, <2>5, <2>6 DEF SockTypes
  <2>8. entry[i].thread = 0 /\ thread[t].at = "none"
    BY <1>0, <2>1, <2>2 DEF ThreadsOwnEntries, Dying
  <2>9. \A u \in Sock!Threads : thread[u].at \in Working => u # t /\ thread[u].id \in Sock!Entries \ {i}
    <3> SUFFICES ASSUME NEW u \in Sock!Threads, thread[u].at \in Working
                 PROVE  u # t /\ thread[u].id \in Sock!Entries \ {i}
      OBVIOUS
    <3>1. u # t
      BY <2>8 DEF Working
    <3>2. u # 0
      BY ThreadNumbers
    <3>3. thread[u].id \in Sock!Entries /\ entry[thread[u].id].thread = u
      BY <1>0 DEF ThreadsOwnEntries
    <3>4. QED BY <2>8, <3>1, <3>2, <3>3
  <2>10. ThreadsOwnEntries'
    <3>1. (\A u \in Sock!Threads : u > started => thread[u].at = "none")'
      <4>1. \A u \in Sock!Threads : u > t => u # t /\ u > started
        BY <2>2, ThreadNumbers
      <4>2. QED BY <1>0, <2>1, <2>5, <4>1 DEF ThreadsOwnEntries
    <3>2. ASSUME NEW u \in Sock!Threads, thread'[u].at \in Working
          PROVE  thread'[u].id \in Sock!Entries /\ entry'[thread'[u].id].thread = u
      <4>1. CASE u = t
        BY <2>3, <2>5, <2>6, <4>1
      <4>2. CASE u # t
        <5>1. thread'[u] = thread[u]
          BY <2>5, <4>2
        <5>2. entry'[thread[u].id] = entry[thread[u].id]
          BY <2>6, <2>9, <3>2, <5>1
        <5>3. QED BY <1>0, <3>2, <5>1, <5>2 DEF ThreadsOwnEntries
      <4>3. QED BY <4>1, <4>2
    <3>3. ASSUME NEW j \in Sock!Entries
          PROVE  \/ ~entry'[j].running /\ entry'[j].thread = 0 /\ ~Dying(j)'
                 \/ /\ entry'[j].thread \in Sock!Threads
                    /\ thread'[entry'[j].thread].at \in Working /\ thread'[entry'[j].thread].id = j
                    /\ ~entry'[j].running <=> Dying(j)'
      <4>0. ~Dying(j)' /\ ~Dying(j)
        BY <1>0 DEF Dying
      <4>1. CASE j = i
        BY <2>2, <2>3, <2>5, <2>6, <4>0, <4>1 DEF Working
      <4>2. CASE j # i
        <5>1. entry'[j] = entry[j]
          BY <2>6, <4>2
        <5>2. entry[j].thread \in Sock!Threads /\ thread[entry[j].thread].at \in Working
                => thread'[entry[j].thread] = thread[entry[j].thread]
          BY <2>5, <2>9
        <5>3. QED BY <1>0, <4>0, <5>1, <5>2 DEF ThreadsOwnEntries
      <4>3. QED BY <4>1, <4>2
    <3>4. QED BY <3>1, <3>2, <3>3 DEF ThreadsOwnEntries
  <2>11. KillerHolds'
    BY <1>0 DEF KillerHolds
  <2>12. SignalsOfDone'
    BY <1>0, <2>5, <2>8 DEF SignalsOfDone
  <2>13. SocketsHeld'
    <3>1. \A u \in Sock!Threads : thread[u].at \in HasSocket => thread'[u] = thread[u]
      BY <2>5, <2>8 DEF HasSocket
    <3>2. QED BY <1>0, <3>1 DEF SocketsHeld
  <2>14. DeletesDone
    BY <2>5 DEF DeletesDone
  <2>15. QED BY <2>7, <2>10, <2>11, <2>12, <2>13, <2>14 DEF SockInv
<1>3. QED BY <1>1, <1>2

\* A counted transfer that fails leaves an open descriptor, and nothing else.
LEMMA SockLeakStep ==
  ASSUME SockInv, Sock!CountedTransferFails
  PROVE  SockInv' /\ DeletesDone
<1>1. UNCHANGED <<entry, thread, killer, token, frozen, started>> /\ sockets' = Sock!OpenBy(Sock!Leaked, TRUE)
  BY DEF Sock!CountedTransferFails
<1>2. /\ sockets' \in [Sock!Descriptors -> Descriptor]
      /\ \A d \in Sock!Descriptors : sockets'[d].owner \in {Sock!Leaked, sockets[d].owner}
  BY <1>1, SocketOpened, ThreadNumbers DEF SockInv
<1>3. SocketsHeld'
  BY <1>1, <1>2 DEF SockInv, SocketsHeld
<1>4. SockTypes' /\ DeletesDone
  BY <1>1, <1>2 DEF SockInv, SockTypes, DeletesDone
<1>5. QED
  BY <1>1, <1>3, <1>4 DEF SockInv, ThreadsOwnEntries, Dying, KillerHolds, SignalsOfDone

\* KillBegin: the entry is told to stop, and is the killer's from then on.
LEMMA SockKillBeginStep ==
  ASSUME SockInv, NEW i \in Sock!Entries, Sock!KillBegin(i)
  PROVE  SockInv' /\ DeletesDone
<1>0. /\ SockTypes /\ ThreadsOwnEntries /\ KillerHolds /\ SignalsOfDone /\ SocketsHeld
      /\ killer.at = "idle" /\ entry[i].running
      /\ entry' = [entry EXCEPT ![i].running = FALSE] /\ killer' = [at |-> "force", id |-> i]
      /\ UNCHANGED <<thread, sockets, token, started>>
  BY DEF SockInv, Sock!KillBegin
<1>1. /\ entry' \in [Sock!Entries -> EntryRecord]
      /\ entry'[i].running = FALSE /\ entry'[i].thread = entry[i].thread
      /\ \A j \in Sock!Entries \ {i} : entry'[j] = entry[j]
  BY <1>0 DEF SockTypes, EntryRecord
<1>2. killer'.at = "force" /\ killer'.id = i /\ i \in Nat
  BY <1>0, ThreadNumbers
<1>3. SockTypes'
  BY <1>0, <1>1, <1>2 DEF SockTypes
<1>4. \A j \in Sock!Entries : ~Dying(j) /\ (Dying(j)' <=> j = i) /\ entry'[j].thread = entry[j].thread
  BY <1>0, <1>1, <1>2 DEF Dying
<1>5. ASSUME NEW j \in Sock!Entries
      PROVE  \/ ~entry'[j].running /\ entry'[j].thread = 0 /\ ~Dying(j)'
             \/ /\ entry'[j].thread \in Sock!Threads
                /\ thread'[entry'[j].thread].at \in Working /\ thread'[entry'[j].thread].id = j
                /\ ~entry'[j].running <=> Dying(j)'
  <2>1. \/ ~entry[j].running /\ entry[j].thread = 0
        \/ /\ entry[j].thread \in Sock!Threads
           /\ thread[entry[j].thread].at \in Working /\ thread[entry[j].thread].id = j
           /\ entry[j].running
    BY <1>0, <1>4 DEF ThreadsOwnEntries
  <2>2. CASE j = i
    BY <1>0, <1>1, <1>4, <2>1, <2>2
  <2>3. CASE j # i
    BY <1>0, <1>1, <1>4, <2>1, <2>3
  <2>4. QED BY <2>2, <2>3
<1>6. ThreadsOwnEntries'
  <2>1. (\A t \in Sock!Threads : thread[t].at \in Working =>
           thread[t].id \in Sock!Entries /\ entry[thread[t].id].thread = t)'
    BY <1>0, <1>4 DEF ThreadsOwnEntries
  <2>2. (\A t \in Sock!Threads : t > started => thread[t].at = "none")'
    BY <1>0 DEF ThreadsOwnEntries
  <2>3. QED BY <1>5, <2>1, <2>2 DEF ThreadsOwnEntries
<1>7. KillerHolds' /\ SignalsOfDone' /\ SocketsHeld' /\ DeletesDone
  BY <1>0, <1>2 DEF KillerHolds, SignalsOfDone, SocketsHeld, DeletesDone
<1>8. QED BY <1>3, <1>6, <1>7 DEF SockInv

\* KillForce and the assertion: the killer stays at its entry.
LEMMA SockKillWaitStep ==
  ASSUME SockInv, Sock!KillForce \/ Sock!KillAsserts
  PROVE  SockInv' /\ DeletesDone
<1>0. SockTypes /\ ThreadsOwnEntries /\ KillerHolds /\ SignalsOfDone /\ SocketsHeld
  BY DEF SockInv
<1>1. PICK a \in {"wait", "asserted"} :
        killer.at # "idle" /\ killer' = [killer EXCEPT !.at = a] /\ UNCHANGED <<entry, thread, token, started>>
  BY DEF Sock!KillForce, Sock!KillAsserts
<1>2. killer' \in [at : {"idle", "force", "wait", "asserted"}, id : Nat] /\ killer'.at = a /\ killer'.id = killer.id
  BY <1>0, <1>1 DEF SockTypes
<1>3. /\ sockets' \in [Sock!Descriptors -> Descriptor]
      /\ \A d \in Sock!Descriptors : sockets'[d].owner = sockets[d].owner
  <2>1. sockets' = sockets \/ sockets' = [sockets EXCEPT ![0].ends = FALSE]
    BY DEF Sock!KillForce, Sock!KillAsserts
  <2>2. sockets \in [Sock!Descriptors -> Descriptor]
    BY <1>0 DEF SockTypes
  <2>3. CASE sockets' = [sockets EXCEPT ![0].ends = FALSE]
    <3> DEFINE x == [sockets[0] EXCEPT !.ends = FALSE]
    <3>1. sockets' = [sockets EXCEPT ![0] = x]
      BY <2>3
    <3>2. 0 \in Sock!Descriptors => x \in Descriptor /\ x.owner = sockets[0].owner
      <4>1. ASSUME NEW c \in Descriptor
            PROVE  [c EXCEPT !.ends = FALSE] \in Descriptor /\ [c EXCEPT !.ends = FALSE].owner = c.owner
        BY DEF Descriptor
      <4>2. QED BY <2>2, <4>1
    <3> HIDE DEF x
    <3>3. QED BY <2>2, <3>1, <3>2
  <2>4. QED BY <2>1, <2>2, <2>3
<1>4. \A j \in Sock!Entries : Dying(j)' <=> Dying(j)
  BY <1>1, <1>2 DEF Dying
<1>5. ThreadsOwnEntries'
  BY <1>0, <1>1, <1>4 DEF ThreadsOwnEntries
<1>6. SockTypes' /\ KillerHolds' /\ SignalsOfDone' /\ SocketsHeld' /\ DeletesDone
  BY <1>0, <1>1, <1>2, <1>3 DEF SockTypes, KillerHolds, SignalsOfDone, SocketsHeld, DeletesDone
<1>7. QED BY <1>5, <1>6 DEF SockInv

\* KillEnds: what is deleted has signalled, and the entry is free.
LEMMA SockKillEndsStep ==
  ASSUME SockInv, Sock!KillEnds
  PROVE  SockInv' /\ DeletesDone
<1> DEFINE no == Sock!NoEntry
           idle == Sock!IdleKiller
<1>0. /\ SockTypes /\ ThreadsOwnEntries /\ KillerHolds /\ SignalsOfDone /\ SocketsHeld
      /\ killer.at = "wait" /\ killer.id \in Sock!Entries
  BY DEF SockInv, KillerHolds, Sock!KillEnds
<1>1. PICK i, t : i = killer.id /\ t = entry[i].thread /\ i \in Sock!Entries
  BY <1>0
<1>2. /\ t \in token
      /\ thread' = [thread EXCEPT ![t].at = "deleted"]
      /\ token' = token \ {t}
      /\ entry' = [entry EXCEPT ![i] = no]
      /\ killer' = idle
      /\ UNCHANGED <<sockets, started>>
  BY <1>1 DEF Sock!KillEnds, Sock!Deletes
<1>3. no \in EntryRecord /\ no.thread = 0 /\ no.running = FALSE
  BY DEF Sock!NoEntry, EntryRecord
<1>4. idle \in [at : {"idle", "force", "wait", "asserted"}, id : Nat] /\ idle.at = "idle"
  BY DEF Sock!IdleKiller
<1> HIDE DEF no, idle
<1>5. t \in Sock!Threads /\ thread[t].at = "done"
  BY <1>0, <1>2 DEF SignalsOfDone
<1>6. /\ thread' \in [Sock!Threads -> ThreadRecord]
      /\ thread'[t].at = "deleted" /\ \A u \in Sock!Threads \ {t} : thread'[u] = thread[u]
  <2>1. thread \in [Sock!Threads -> ThreadRecord] /\ "deleted" \in Working \cup {"none", "deleted"}
    BY <1>0 DEF SockTypes
  <2>2. QED BY <1>2, <1>5, <2>1 DEF ThreadRecord
<1>7. /\ entry' \in [Sock!Entries -> EntryRecord]
      /\ entry'[i] = no /\ \A j \in Sock!Entries \ {i} : entry'[j] = entry[j]
  <2>1. entry \in [Sock!Entries -> EntryRecord] /\ i \in Sock!Entries
    BY <1>0, <1>1 DEF SockTypes
  <2>2. QED BY <1>2, <1>3, <2>1
<1>8. SockTypes'
  BY <1>0, <1>2, <1>4, <1>6, <1>7 DEF SockTypes
<1>9. \A j \in Sock!Entries : ~Dying(j)' /\ (Dying(j) <=> j = i)
  BY <1>0, <1>1, <1>2, <1>4 DEF Dying
<1>10. (\A u \in Sock!Threads : u > started => thread[u].at = "none")'
  <2>1. ~(t > started)
    BY <1>0, <1>5 DEF ThreadsOwnEntries
  <2>2. ASSUME NEW u \in Sock!Threads, u > started PROVE thread'[u].at = "none"
    <3>1. u # t /\ thread[u].at = "none"
      BY <1>0, <2>1, <2>2 DEF ThreadsOwnEntries
    <3>2. QED BY <1>6, <3>1
  <2>3. QED BY <1>2, <2>2
<1>11. ASSUME NEW u \in Sock!Threads, thread'[u].at \in Working
       PROVE  thread'[u].id \in Sock!Entries /\ entry'[thread'[u].id].thread = u
  <2>1. u # t
    BY <1>6, <1>11 DEF Working
  <2>2. thread'[u] = thread[u]
    BY <1>6, <2>1
  <2>3. thread[u].id \in Sock!Entries /\ entry[thread[u].id].thread = u
    BY <1>0, <1>11, <2>2 DEF ThreadsOwnEntries
  <2>4. thread[u].id # i
    BY <1>1, <2>1, <2>3
  <2>5. QED BY <1>7, <2>2, <2>3, <2>4
<1>12. ASSUME NEW j \in Sock!Entries
       PROVE  \/ ~entry'[j].running /\ entry'[j].thread = 0 /\ ~Dying(j)'
              \/ /\ entry'[j].thread \in Sock!Threads
                 /\ thread'[entry'[j].thread].at \in Working /\ thread'[entry'[j].thread].id = j
                 /\ ~entry'[j].running <=> Dying(j)'
  <2>1. CASE j = i
    BY <1>3, <1>7, <1>9, <2>1
  <2>2. CASE j # i
    <3>1. entry'[j] = entry[j] /\ ~Dying(j) /\ ~Dying(j)'
      BY <1>7, <1>9, <2>2
    <3>2. \/ ~entry[j].running /\ entry[j].thread = 0
          \/ /\ entry[j].thread \in Sock!Threads
             /\ thread[entry[j].thread].at \in Working /\ thread[entry[j].thread].id = j
             /\ entry[j].running
      BY <1>0, <3>1 DEF ThreadsOwnEntries
    <3>3. CASE ~entry[j].running /\ entry[j].thread = 0
      BY <3>1, <3>3
    <3>4. CASE /\ entry[j].thread \in Sock!Threads
               /\ thread[entry[j].thread].at \in Working /\ thread[entry[j].thread].id = j
               /\ entry[j].running
      <4>1. thread[t].id = i
        BY <1>0, <1>1, <1>5, ThreadNumbers DEF ThreadsOwnEntries
      <4>2. thread'[entry[j].thread] = thread[entry[j].thread]
        BY <1>6, <2>2, <3>4, <4>1
      <4>3. QED BY <3>1, <3>4, <4>2
    <3>5. QED BY <3>2, <3>3, <3>4
  <2>3. QED BY <2>1, <2>2
<1>13. ThreadsOwnEntries'
  BY <1>10, <1>11, <1>12 DEF ThreadsOwnEntries
<1>14. KillerHolds'
  BY <1>2, <1>4 DEF KillerHolds
<1>15. SignalsOfDone'
  <2>1. \A u \in token' : u \in token /\ u # t
    BY <1>2
  <2>2. QED BY <1>0, <1>6, <2>1 DEF SignalsOfDone
<1>16. SocketsHeld'
  <2>1. \A u \in Sock!Threads : thread[u].at \in HasSocket => thread'[u] = thread[u]
    BY <1>5, <1>6 DEF HasSocket
  <2>2. QED BY <1>0, <1>2, <2>1 DEF SocketsHeld
<1>17. DeletesDone
  BY <1>5, <1>6 DEF DeletesDone
<1>18. QED BY <1>8, <1>13, <1>14, <1>15, <1>16, <1>17 DEF SockInv

\* Each step keeps the threads and their entries together, and deletes only what has
\* signalled.
LEMMA SockStep ==
  ASSUME SockInv, Sock!Next
  PROVE  SockInv' /\ DeletesDone
<1>1. CASE Sock!SendCmd \/ Sock!RecvCmd
  BY <1>1, SockExecuteStep DEF Sock!SendCmd, Sock!RecvCmd, Sock!Kinds
<1>2. CASE Sock!CountedTransferFails
  BY <1>2, SockLeakStep
<1>3. CASE Sock!KillCmd
  BY <1>3, SockKillBeginStep DEF Sock!KillCmd
<1>4. CASE Sock!KillForce \/ Sock!KillAsserts
  BY <1>4, SockKillWaitStep
<1>5. CASE Sock!KillEnds
  BY <1>5, SockKillEndsStep
<1>6. CASE \E t \in Sock!Threads :
             \/ Sock!Opens(t) \/ Sock!Tests(t) \/ Sock!Calls(t) \/ Sock!AcceptsClient(t)
             \/ Sock!Transfers(t) \/ Sock!TimesOut(t) \/ Sock!Closes(t) \/ Sock!Signals(t)
  BY <1>6, SockThreadStep
<1>7. QED BY <1>1, <1>2, <1>3, <1>4, <1>5, <1>6 DEF Sock!Next

\* The socket examples start with SockInv.
LEMMA SockStarts ==
  ASSUME MCInit
  PROVE  SockInv
<1> DEFINE no == Sock!NoEntry
           idle == Sock!IdleKiller
           x == Sock!NoThread
           c == Sock!Closed
<1>1. /\ entry = [i \in Sock!Entries |-> no] /\ thread = [t \in Sock!Threads |-> x]
      /\ sockets = [d \in Sock!Descriptors |-> c] /\ killer = idle
      /\ token = {} /\ started = 0
  BY DEF MCInit, Sock!Init
<1>2. no \in EntryRecord /\ no.thread = 0 /\ no.running = FALSE
  BY DEF Sock!NoEntry, EntryRecord
<1>3. idle \in [at : {"idle", "force", "wait", "asserted"}, id : Nat] /\ idle.at = "idle"
  BY DEF Sock!IdleKiller
<1>4. x \in ThreadRecord /\ x.at = "none"
  BY DEF ThreadRecord, Sock!NoThread, Sock!Kinds
<1>5. c \in Descriptor /\ c.owner = 0
  BY DEF Sock!Closed, Descriptor
<1> HIDE DEF no, idle, x, c
<1>6. SockTypes
  BY <1>1, <1>2, <1>3, <1>4, <1>5 DEF SockTypes
<1>7. ThreadsOwnEntries /\ KillerHolds
  BY <1>1, <1>2, <1>3, <1>4 DEF ThreadsOwnEntries, KillerHolds, Dying, Working
<1>8. SignalsOfDone /\ SocketsHeld
  BY <1>1, <1>5 DEF SignalsOfDone, SocketsHeld
<1>9. QED BY <1>6, <1>7, <1>8 DEF SockInv

\* Every step of the composed specification keeps the socket examples' invariant while they are the part that runs.
LEMMA SockStepOrStutter ==
  ASSUME part = "sockets" => SockInv, [MCNext]_<<part, pingVars, iperfVars, sockVars, sntpVars>>
  PROVE  part' = "sockets" => SockInv'
<1> SUFFICES ASSUME part' = "sockets" PROVE SockInv'
  OBVIOUS
<1>1. CASE UNCHANGED <<part, sockVars>>
  BY <1>1 DEF sockVars, SockInv, SockTypes, ThreadsOwnEntries, Dying, KillerHolds, SignalsOfDone, SocketsHeld
<1>2. CASE part = "sockets" /\ Sock!Next
  BY <1>2, SockStep
<1>3. QED BY <1>1, <1>2 DEF MCNext

\* Every open descriptor has a thread that will close it, but those that counted
\* transfers left open when they failed.
THEOREM SocketsAreOwned == MCSpec => []SocketsOwned
<1> DEFINE I == part = "sockets" => SockInv
<1>1. MCInit => I
  BY SockStarts
<1>2. I /\ [MCNext]_<<part, pingVars, iperfVars, sockVars, sntpVars>> => I'
  BY SockStepOrStutter
<1>3. I => SocketsOwned
  BY DEF SockInv, SocketsHeld, HasSocket, SocketsOwned, Sock!SocketsOwned
<1>4. QED BY <1>1, <1>2, <1>3, PTL DEF MCSpec

\* A thread that is deleted has ended its loop, closed its sockets and signalled.
THEOREM DeletedHasFinished == MCSpec => DeletesFinished
<1> DEFINE I == part = "sockets" => SockInv
<1>1. MCInit => I
  BY SockStarts
<1>2. I /\ [MCNext]_<<part, pingVars, iperfVars, sockVars, sntpVars>> => I'
  BY SockStepOrStutter
<1>3. I /\ [MCNext]_<<part, pingVars, iperfVars, sockVars, sntpVars>>
        => [\A t \in Sock!Threads :
              (thread[t].at # "deleted" /\ thread'[t].at = "deleted" => thread[t].at = "done")]_Sock!sockVars
  <2> SUFFICES ASSUME I, [MCNext]_<<part, pingVars, iperfVars, sockVars, sntpVars>>
               PROVE  DeletesDone \/ UNCHANGED Sock!sockVars
    BY DEF DeletesDone
  <2>1. CASE UNCHANGED sockVars
    BY <2>1 DEF sockVars, Sock!sockVars
  <2>2. CASE part = "sockets" /\ Sock!Next
    BY <2>2, SockStep
  <2>3. QED BY <2>1, <2>2 DEF MCNext
<1>4. QED BY <1>1, <1>2, <1>3, PTL DEF MCSpec, DeletesFinished, Sock!DeletesFinished

-----------------------------------------------------------------------------
(* iperf: a test and what waits for it. *)

IperfMail == [what : {"init", "stop", "report", "tx", "udp close"}, slot : Iperf!Slots]
Test == [running : BOOLEAN, kind : Iperf!Kind, listen : BOOLEAN,
         conn : {"none", "open", "freed", "closed"}, timer : {"none", "armed", "fired"},
         abort : BOOLEAN, error : BOOLEAN, first : BOOLEAN]

IperfTypes ==
  /\ session \in [Iperf!Slots -> Test] /\ udpTask \in [Iperf!Slots -> Int]
  /\ mbox \in Seq(IperfMail) /\ stopper \in Iperf!Slots \cup {0}

\* An init that waits is all that waits for its slot.
InitWaits(q, s) == \E k \in 1..Len(q) : q[k].what = "init" /\ q[k].slot = s
LoneInit(q) ==
  \A k \in 1..Len(q) : q[k].what = "init" => \A j \in 1..Len(q) : q[j].slot = q[k].slot => j = k

\* A report that no stop comes before.
Reported(q, s) ==
  \E k \in 1..Len(q) : /\ q[k] = [what |-> "report", slot |-> s]
                       /\ \A j \in 1..(k - 1) : q[j] # [what |-> "stop", slot |-> s]

\* A test that ended holds nothing, no pcb and no timer; only one that ended at once
\* points to a pcb that it closed.
Holds(s) ==
  session[s].listen \/ session[s].conn \notin {"none", "closed"} \/ session[s].timer # "none"
HoldsAsEnded(s) == IF session[s].running THEN session[s].conn # "closed" ELSE ~Holds(s)

EndedFree == \A s \in Iperf!Slots : HoldsAsEnded(s)

FreshInit ==
  /\ LoneInit(mbox)
  /\ \A s \in Iperf!Slots : InitWaits(mbox, s) =>
       session[s].running /\ ~Holds(s) /\ udpTask[s] <= 0 /\ stopper # s

\* The report of a broken connection is handled before any stop.
Broken(s) ==
  session[s].running /\ Iperf!Tcp(s) /\ session[s].conn = "freed" /\ s \notin crossed
BrokenReported ==
  \A s \in Iperf!Slots : Broken(s) => session[s].error /\ session[s].abort /\ Reported(mbox, s)

IperfInv ==
  IperfTypes /\ (~mixed => EndedFree /\ FreshInit /\ BrokenReported /\ ~misuse)

\* The places of a sequence after a post.
LEMMA AppendForm ==
  ASSUME NEW M, NEW q \in Seq(M), NEW m \in M
  PROVE  /\ Append(q, m) \in Seq(M) /\ Append(q, m)[Len(q) + 1] = m
         /\ Len(q) + 1 \in 1..Len(Append(q, m)) /\ Len(q) \in Nat
         /\ \A k \in 1..Len(q) : k \in 1..Len(Append(q, m)) /\ Append(q, m)[k] = q[k]
         /\ \A k \in 1..Len(Append(q, m)) : k \in 1..Len(q) \/ k = Len(q) + 1
OBVIOUS

\* The places before a place of a queue are places of it.
LEMMA PlacesBefore ==
  ASSUME NEW n \in Nat
  PROVE  /\ \A k \in 1..n : \A j \in 1..(k - 1) : j \in 1..n
         /\ \A j \in 1..((n + 1) - 1) : j \in 1..n
OBVIOUS

\* What a message that is posted changes.
LEMMA PostedMessage ==
  ASSUME NEW q \in Seq(IperfMail), NEW s \in Iperf!Slots, NEW w \in {"init", "stop", "report", "tx", "udp close"}
  PROVE  /\ Append(q, Iperf!Message(w, s)) \in Seq(IperfMail)
         /\ LoneInit(q) /\ ~InitWaits(q, s) /\ (w = "init" => \A k \in 1..Len(q) : q[k].slot # s)
              => LoneInit(Append(q, Iperf!Message(w, s)))
         /\ \A r : InitWaits(Append(q, Iperf!Message(w, s)), r) => InitWaits(q, r) \/ (w = "init" /\ r = s)
         /\ \A r : Reported(q, r) => Reported(Append(q, Iperf!Message(w, s)), r)
         /\ w = "report" /\ (\A k \in 1..Len(q) : q[k] # [what |-> "stop", slot |-> s])
              => Reported(Append(q, Iperf!Message(w, s)), s)
<1> DEFINE m == Iperf!Message(w, s)
           a == Append(q, m)
<1>1. m \in IperfMail /\ m.slot = s /\ m.what = w /\ (w = "report" => m = [what |-> "report", slot |-> s])
  BY DEF IperfMail, Iperf!Message
<1>2. /\ a \in Seq(IperfMail) /\ a[Len(q) + 1] = m
      /\ Len(q) + 1 \in 1..Len(a) /\ Len(q) \in Nat
      /\ \A k \in 1..Len(q) : k \in 1..Len(a) /\ a[k] = q[k]
      /\ \A k \in 1..Len(a) : k \in 1..Len(q) \/ k = Len(q) + 1
  BY <1>1, AppendForm
<1>3. /\ \A k \in 1..Len(q) : \A j \in 1..(k - 1) : j \in 1..Len(q)
      /\ \A j \in 1..((Len(q) + 1) - 1) : j \in 1..Len(q)
  BY <1>2, PlacesBefore
<1> HIDE DEF m, a
<1>4. ASSUME LoneInit(q), ~InitWaits(q, s), w = "init" => \A k \in 1..Len(q) : q[k].slot # s
      PROVE  LoneInit(a)
  <2> SUFFICES ASSUME NEW k \in 1..Len(a), NEW j \in 1..Len(a), a[k].what = "init", a[j].slot = a[k].slot
               PROVE  j = k
    BY DEF LoneInit
  <2>1. CASE k \in 1..Len(q) /\ j \in 1..Len(q)
    BY <1>2, <1>4, <2>1 DEF LoneInit
  <2>2. CASE k \in 1..Len(q) /\ j = Len(q) + 1
    BY <1>1, <1>2, <1>4, <2>2 DEF InitWaits
  <2>3. CASE k = Len(q) + 1 /\ j \in 1..Len(q)
    BY <1>1, <1>2, <1>4, <2>3
  <2>4. QED BY <1>2, <2>1, <2>2, <2>3
<1>5. \A r : InitWaits(a, r) => InitWaits(q, r) \/ (w = "init" /\ r = s)
  BY <1>1, <1>2 DEF InitWaits
<1>6. ASSUME NEW r, Reported(q, r) PROVE Reported(a, r)
  <2>1. PICK k \in 1..Len(q) : /\ q[k] = [what |-> "report", slot |-> r]
                               /\ \A j \in 1..(k - 1) : q[j] # [what |-> "stop", slot |-> r]
    BY <1>6 DEF Reported
  <2>2. \A j \in 1..(k - 1) : j \in 1..Len(q)
    BY <1>3
  <2>3. QED BY <1>2, <2>1, <2>2 DEF Reported
<1>7. ASSUME w = "report", \A k \in 1..Len(q) : q[k] # [what |-> "stop", slot |-> s] PROVE Reported(a, s)
  <2>1. \A j \in 1..((Len(q) + 1) - 1) : j \in 1..Len(q)
    BY <1>3
  <2>2. QED BY <1>1, <1>2, <1>3, <1>7, <2>1 DEF Reported
<1>8. QED BY <1>2, <1>4, <1>5, <1>6, <1>7 DEF a, m

\* What a message that is taken changes.
LEMMA TakenMessage ==
  ASSUME NEW q \in Seq(IperfMail), q # <<>>
  PROVE  /\ Tail(q) \in Seq(IperfMail) /\ Head(q).slot \in Iperf!Slots
         /\ LoneInit(q) => /\ LoneInit(Tail(q))
                           /\ \A r : InitWaits(Tail(q), r) => InitWaits(q, r) /\ r # Head(q).slot
         /\ Head(q).what = "init" => InitWaits(q, Head(q).slot)
         /\ LoneInit(q) /\ InitWaits(q, Head(q).slot) => Head(q).what = "init"
         /\ \A r : Reported(q, r) /\ (Head(q).slot = r => Head(q).what # "report") =>
              ~(Head(q).what = "stop" /\ Head(q).slot = r) /\ Reported(Tail(q), r)
<1> DEFINE a == Tail(q)
<1>1. /\ a \in Seq(IperfMail) /\ Len(a) = Len(q) - 1 /\ Head(q) = q[1] /\ Head(q) \in IperfMail
      /\ Len(q) \in Nat /\ Len(q) > 0 /\ 1 \in 1..Len(q)
      /\ \A k \in 1..Len(a) : a[k] = q[k + 1]
  BY HeadTailProperties, EmptySeq
<1>2. /\ \A k \in 1..Len(a) : k + 1 \in 1..Len(q) /\ k + 1 # 1
      /\ \A k \in 1..Len(q) : k = 1 \/ (k - 1 \in 1..Len(a) /\ (k - 1) + 1 = k)
  BY <1>1
<1> HIDE DEF a
<1>3. Head(q).slot \in Iperf!Slots /\ Head(q) = [what |-> Head(q).what, slot |-> Head(q).slot]
  BY <1>1 DEF IperfMail
<1>4. ASSUME LoneInit(q) PROVE LoneInit(a)
  <2> SUFFICES ASSUME NEW k \in 1..Len(a), NEW j \in 1..Len(a), a[k].what = "init", a[j].slot = a[k].slot
               PROVE  j = k
    BY DEF LoneInit
  <2>1. k + 1 \in 1..Len(q) /\ j + 1 \in 1..Len(q) /\ q[k + 1].what = "init" /\ q[j + 1].slot = q[k + 1].slot
    BY <1>1, <1>2
  <2>2. j + 1 = k + 1
    BY <1>4, <2>1 DEF LoneInit
  <2>3. QED BY <2>2
<1>5. ASSUME LoneInit(q), NEW r, InitWaits(a, r) PROVE InitWaits(q, r) /\ r # Head(q).slot
  <2>1. PICK k \in 1..Len(a) : a[k].what = "init" /\ a[k].slot = r
    BY <1>5 DEF InitWaits
  <2>2. k + 1 \in 1..Len(q) /\ q[k + 1].what = "init" /\ q[k + 1].slot = r /\ k + 1 # 1
    BY <1>1, <1>2, <2>1
  <2>3. QED BY <1>1, <1>5, <2>2 DEF InitWaits, LoneInit
<1>6. Head(q).what = "init" => InitWaits(q, Head(q).slot)
  BY <1>1 DEF InitWaits
<1>7. LoneInit(q) /\ InitWaits(q, Head(q).slot) => Head(q).what = "init"
  BY <1>1 DEF InitWaits, LoneInit
<1>8. ASSUME NEW r, Reported(q, r), Head(q).slot = r => Head(q).what # "report"
      PROVE  ~(Head(q).what = "stop" /\ Head(q).slot = r) /\ Reported(a, r)
  <2>1. PICK k \in 1..Len(q) : /\ q[k] = [what |-> "report", slot |-> r]
                               /\ \A j \in 1..(k - 1) : q[j] # [what |-> "stop", slot |-> r]
    BY <1>8 DEF Reported
  <2>2. q[k].what = "report" /\ q[k].slot = r
    BY <2>1
  <2>3. k # 1 /\ k - 1 \in 1..Len(a) /\ (k - 1) + 1 = k /\ 1 \in 1..(k - 1)
    BY <1>1, <1>2, <1>8, <2>2
  <2>4. ~(Head(q).what = "stop" /\ Head(q).slot = r)
    BY <1>1, <1>3, <2>1, <2>3
  <2>5. a[k - 1] = [what |-> "report", slot |-> r]
    BY <1>1, <2>1, <2>3
  <2>6. \A j \in 1..((k - 1) - 1) : j \in 1..Len(a) /\ j + 1 \in 1..(k - 1)
    BY <1>1
  <2>7. \A j \in 1..((k - 1) - 1) : a[j] # [what |-> "stop", slot |-> r]
    BY <1>1, <2>1, <2>6
  <2>8. QED BY <2>3, <2>4, <2>5, <2>7 DEF Reported
<1>9. QED BY <1>1, <1>3, <1>4, <1>5, <1>6, <1>7, <1>8 DEF a

\* A step that writes the record of one slot.
LEMMA TestUpdate ==
  ASSUME IperfTypes, NEW s \in Iperf!Slots, NEW x \in Test, session' = [session EXCEPT ![s] = x]
  PROVE  /\ session' \in [Iperf!Slots -> Test] /\ session'[s] = x
         /\ \A r \in Iperf!Slots \ {s} : session'[r] = session[r]
BY DEF IperfTypes

\* What a step on one slot has to show.
LEMMA IperfKeep ==
  ASSUME IperfInv, ~mixed, NEW s \in Iperf!Slots, IperfTypes',
         \A r \in Iperf!Slots \ {s} : session'[r] = session[r] /\ udpTask'[r] = udpTask[r],
         stopper' \in {0, stopper},
         HoldsAsEnded(s)',
         LoneInit(mbox'),
         \A r \in Iperf!Slots : InitWaits(mbox', r) => InitWaits(mbox, r) /\ r # s,
         \A r \in Iperf!Slots \ {s} : Reported(mbox, r) => Reported(mbox', r),
         crossed \subseteq crossed',
         Broken(s)' => session'[s].error /\ session'[s].abort /\ Reported(mbox', s),
         ~misuse'
  PROVE  IperfInv'
<1>1. EndedFree /\ FreshInit /\ BrokenReported /\ 0 \notin Iperf!Slots
  BY TrafficAssumption DEF IperfInv, Iperf!Slots
<1>2. EndedFree'
  BY <1>1 DEF EndedFree, HoldsAsEnded, Holds
<1>3. FreshInit'
  BY <1>1 DEF FreshInit, Holds
<1>4. \A r \in Iperf!Slots \ {s} : Broken(r)' => Broken(r)
  BY DEF Broken, Iperf!Tcp
<1>5. BrokenReported'
  BY <1>1, <1>4 DEF BrokenReported
<1>6. QED BY <1>2, <1>3, <1>5 DEF IperfInv

\* A slot whose init does not wait posts something.
LEMMA IperfPosts ==
  ASSUME IperfInv, ~mixed, NEW s \in Iperf!Slots, NEW w \in {"stop", "report", "tx", "udp close"},
         ~InitWaits(mbox, s), mbox' = Append(mbox, Iperf!Message(w, s))
  PROVE  /\ mbox' \in Seq(IperfMail) /\ LoneInit(mbox')
         /\ \A r \in Iperf!Slots : InitWaits(mbox', r) => InitWaits(mbox, r) /\ r # s
         /\ \A r : Reported(mbox, r) => Reported(mbox', r)
         /\ w = "report" /\ (\A k \in 1..Len(mbox) : mbox[k] # [what |-> "stop", slot |-> s]) => Reported(mbox', s)
<1>1. mbox \in Seq(IperfMail) /\ LoneInit(mbox)
  BY DEF IperfInv, IperfTypes, FreshInit
<1>2. w \in {"init", "stop", "report", "tx", "udp close"} /\ w # "init"
  OBVIOUS
<1> DEFINE a == Append(mbox, Iperf!Message(w, s))
<1>3. /\ a \in Seq(IperfMail) /\ LoneInit(a)
      /\ \A r : InitWaits(a, r) => InitWaits(mbox, r)
      /\ \A r : Reported(mbox, r) => Reported(a, r)
      /\ w = "report" /\ (\A k \in 1..Len(mbox) : mbox[k] # [what |-> "stop", slot |-> s]) => Reported(a, s)
  BY <1>1, <1>2, PostedMessage
<1>4. mbox' = a
  OBVIOUS
<1> HIDE DEF a
<1>5. QED BY <1>3, <1>4

\* tcpip_thread takes a message.
LEMMA IperfTakes ==
  ASSUME IperfInv, ~mixed, mbox # <<>>, NEW q, q = Tail(mbox)
  PROVE  /\ q \in Seq(IperfMail) /\ LoneInit(q) /\ Head(mbox).slot \in Iperf!Slots
         /\ \A r \in Iperf!Slots : InitWaits(q, r) => InitWaits(mbox, r) /\ r # Head(mbox).slot
         /\ \A r : Reported(mbox, r) /\ (Head(mbox).slot = r => Head(mbox).what # "report") =>
              ~(Head(mbox).what = "stop" /\ Head(mbox).slot = r) /\ Reported(q, r)
         /\ InitWaits(mbox, Head(mbox).slot) <=> Head(mbox).what = "init"
<1>1. mbox \in Seq(IperfMail) /\ LoneInit(mbox)
  BY DEF IperfInv, IperfTypes, FreshInit
<1>2. QED BY <1>1, TakenMessage

\* iperflwip_{tcp,udp}_{client,server}_start: the test is fresh, unless its slot was in use.
LEMMA IperfStartStep ==
  ASSUME IperfInv, ~mixed, NEW kind \in Iperf!Kind, Iperf!IperfStart(kind)
  PROVE  IperfInv'
<1>0. IperfTypes /\ EndedFree /\ FreshInit /\ BrokenReported /\ ~misuse
  BY DEF IperfInv
<1>1. /\ stopper = 0 /\ \A k \in 1..Len(mbox) : mbox[k].what # "init"
      /\ UNCHANGED <<udpTask, stopper, crossed, misuse>>
  BY DEF Iperf!IperfStart, Iperf!CommandReady
<1>2. PICK s \in Iperf!Slots :
        /\ session' = [session EXCEPT ![s] = [Iperf!NoTest EXCEPT !.running = TRUE, !.kind = kind]]
        /\ mbox' = Append(mbox, Iperf!Message("init", s))
        /\ mixed' = (mixed \/ udpTask[s] > 0 \/ Iperf!Waiting(s) # {})
  BY DEF Iperf!IperfStart
<1> DEFINE no == Iperf!NoTest
           x == [no EXCEPT !.running = TRUE, !.kind = kind]
<1>3. no \in Test /\ no.listen = FALSE /\ no.conn = "none" /\ no.timer = "none"
  BY DEF Iperf!NoTest, Test, Iperf!Kind
<1>4. session' = [session EXCEPT ![s] = x]
  BY <1>2
<1> HIDE DEF no
<1>5. x \in Test /\ x.running = TRUE /\ x.listen = FALSE /\ x.conn = "none" /\ x.timer = "none"
  BY <1>3 DEF Test
<1> HIDE DEF x
<1>6. /\ session' \in [Iperf!Slots -> Test] /\ \A r \in Iperf!Slots \ {s} : session'[r] = session[r]
      /\ session'[s].running = TRUE /\ session'[s].listen = FALSE
      /\ session'[s].conn = "none" /\ session'[s].timer = "none"
  BY <1>0, <1>4, <1>5, TestUpdate
<1>7. /\ mbox' \in Seq(IperfMail)
      /\ (\A k \in 1..Len(mbox) : mbox[k].slot # s) => LoneInit(mbox')
      /\ \A r : InitWaits(mbox', r) => r = s
      /\ \A r : Reported(mbox, r) => Reported(mbox', r)
  <2> DEFINE a == Append(mbox, Iperf!Message("init", s))
  <2>1. mbox \in Seq(IperfMail) /\ LoneInit(mbox) /\ \A r : ~InitWaits(mbox, r)
    BY <1>0, <1>1 DEF IperfTypes, FreshInit, InitWaits
  <2>2. /\ a \in Seq(IperfMail)
        /\ (\A k \in 1..Len(mbox) : mbox[k].slot # s) => LoneInit(a)
        /\ \A r : InitWaits(a, r) => r = s
        /\ \A r : Reported(mbox, r) => Reported(a, r)
    BY <2>1, PostedMessage
  <2>3. mbox' = a
    BY <1>2
  <2> HIDE DEF a
  <2>4. QED BY <2>2, <2>3
<1>8. IperfTypes'
  BY <1>0, <1>1, <1>6, <1>7 DEF IperfTypes
<1>9. ASSUME ~mixed' PROVE EndedFree' /\ FreshInit' /\ BrokenReported'
  <2>1. udpTask[s] <= 0 /\ \A k \in 1..Len(mbox) : mbox[k].slot # s
    <3>1. ~(udpTask[s] > 0) /\ Iperf!Waiting(s) = {}
      BY <1>2, <1>9
    <3>2. udpTask[s] \in Int
      BY <1>0 DEF IperfTypes
    <3>3. \A k \in 1..Len(mbox) : mbox[k].slot # s
      BY <3>1 DEF Iperf!Waiting
    <3>4. QED BY <3>1, <3>2, <3>3
  <2>2. EndedFree'
    BY <1>0, <1>6 DEF EndedFree, HoldsAsEnded, Holds
  <2>3. 0 \notin Iperf!Slots
    BY TrafficAssumption DEF Iperf!Slots
  <2>4. FreshInit'
    BY <1>1, <1>6, <1>7, <2>1, <2>3 DEF FreshInit, Holds
  <2>5. BrokenReported'
    <3>1. \A r \in Iperf!Slots : Broken(r)' => r # s /\ Broken(r)
      BY <1>1, <1>6 DEF Broken, Iperf!Tcp
    <3>2. QED BY <1>0, <1>6, <1>7, <3>1 DEF BrokenReported
  <2>6. QED BY <2>2, <2>4, <2>5
<1>10. QED BY <1>0, <1>1, <1>8, <1>9 DEF IperfInv

\* iperflwip_stop and udp_client_stop: only asked for, or the timer goes.
LEMMA IperfStopSteps ==
  ASSUME IperfInv, ~mixed, NEW s \in Iperf!Slots, Iperf!IperfStop(s) \/ Iperf!StopUdpClient(s)
  PROVE  IperfInv'
<1>0. IperfTypes /\ EndedFree /\ FreshInit /\ BrokenReported /\ ~misuse
  BY DEF IperfInv
<1>1. \A r : ~InitWaits(mbox, r)
  BY DEF Iperf!IperfStop, Iperf!StopUdpClient, Iperf!CommandReady, InitWaits
<1>2. CASE Iperf!IperfStop(s)
  <2>1. /\ mbox' = Append(mbox, Iperf!Message("stop", s))
        /\ UNCHANGED <<session, udpTask, stopper, mixed, crossed, misuse>>
    BY <1>2 DEF Iperf!IperfStop
  <2>2. /\ mbox' \in Seq(IperfMail) /\ LoneInit(mbox')
        /\ \A r \in Iperf!Slots : InitWaits(mbox', r) => InitWaits(mbox, r) /\ r # s
        /\ \A r : Reported(mbox, r) => Reported(mbox', r)
    BY <1>1, <2>1, IperfPosts
  <2>3. IperfTypes'
    BY <1>0, <2>1, <2>2 DEF IperfTypes
  <2>4. EndedFree'
    BY <1>0, <2>1 DEF EndedFree, HoldsAsEnded, Holds
  <2>5. FreshInit'
    BY <1>1, <2>2 DEF FreshInit
  <2>6. BrokenReported'
    BY <1>0, <2>1, <2>2 DEF BrokenReported, Broken, Iperf!Tcp
  <2>7. QED BY <1>0, <2>1, <2>3, <2>4, <2>5, <2>6 DEF IperfInv
<1>3. CASE Iperf!StopUdpClient(s)
  <2>1. stopper' = s /\ UNCHANGED <<session, udpTask, mbox, mixed, crossed, misuse>>
    BY <1>3 DEF Iperf!StopUdpClient
  <2>2. IperfTypes'
    BY <1>0, <2>1 DEF IperfTypes
  <2>3. FreshInit'
    BY <1>0, <1>1, <2>1 DEF FreshInit
  <2>4. EndedFree' /\ BrokenReported'
    BY <1>0, <2>1 DEF EndedFree, HoldsAsEnded, Holds, BrokenReported, Broken, Iperf!Tcp
  <2>5. QED BY <1>0, <2>1, <2>2, <2>3, <2>4 DEF IperfInv
<1>4. QED BY <1>2, <1>3

\* The rest of udp_client_stop.
LEMMA IperfStopEndsStep ==
  ASSUME IperfInv, ~mixed, Iperf!StopUdpClientEnds
  PROVE  IperfInv'
<1>0. IperfTypes /\ EndedFree /\ FreshInit /\ BrokenReported /\ ~misuse
  BY DEF IperfInv
<1>1. PICK s \in Iperf!Slots : s = stopper
  BY <1>0 DEF IperfTypes, Iperf!StopUdpClientEnds
<1>2. /\ session' = [session EXCEPT ![s].timer = "none", ![s].abort = TRUE]
      /\ mbox' = Append(mbox, Iperf!Message("report", s)) /\ stopper' = 0
      /\ UNCHANGED <<udpTask, tests, mixed, crossed, misuse>>
  BY <1>1 DEF Iperf!StopUdpClientEnds
<1>3. /\ session' \in [Iperf!Slots -> Test] /\ \A r \in Iperf!Slots \ {s} : session'[r] = session[r]
      /\ session'[s].running = session[s].running /\ session'[s].kind = session[s].kind /\ session'[s].listen = session[s].listen /\ session'[s].conn = session[s].conn
      /\ session'[s].timer = "none" /\ session'[s].abort = TRUE /\ session'[s].error = session[s].error /\ session'[s].first = session[s].first
  <2> DEFINE y == session[s]
             x == [y EXCEPT !.timer = "none", !.abort = TRUE]
  <2>1. session' = [session EXCEPT ![s] = x]
    BY <1>0, <1>2 DEF IperfTypes
  <2>2. y \in Test
    BY <1>0 DEF IperfTypes
  <2> HIDE DEF y
  <2>3. /\ x \in Test
        /\ x.running = y.running /\ x.kind = y.kind /\ x.listen = y.listen /\ x.conn = y.conn
        /\ x.timer = "none" /\ x.abort = TRUE /\ x.error = y.error /\ x.first = y.first
    BY <2>2, <1>2 DEF Test
  <2> HIDE DEF x
  <2>4. QED BY <1>0, <2>1, <2>3, TestUpdate DEF y
<1>4. ~InitWaits(mbox, s)
  BY <1>0, <1>1 DEF FreshInit
<1>5. /\ mbox' \in Seq(IperfMail) /\ LoneInit(mbox')
      /\ \A r \in Iperf!Slots : InitWaits(mbox', r) => InitWaits(mbox, r) /\ r # s
      /\ \A r : Reported(mbox, r) => Reported(mbox', r)
  BY <1>2, <1>4, IperfPosts
<1>6. IperfTypes'
  BY <1>0, <1>2, <1>3, <1>5 DEF IperfTypes
<1>7. HoldsAsEnded(s)'
  BY <1>0, <1>3 DEF EndedFree, HoldsAsEnded, Holds
<1>8. Broken(s)' => session'[s].error /\ session'[s].abort /\ Reported(mbox', s)
  <2>1. Broken(s)' => Broken(s)
    BY <1>2, <1>3 DEF Broken, Iperf!Tcp
  <2>2. QED BY <1>0, <1>3, <1>5, <2>1 DEF BrokenReported
<1>9. QED BY <1>0, <1>2, <1>3, <1>5, <1>6, <1>7, <1>8, IperfKeep

\* iperflwip_*_init: the test has its pcb, its timer and its task, or none of them.
LEMMA IperfInitStep ==
  ASSUME IperfInv, ~mixed, Iperf!InitFails \/ Iperf!InitTcp \/ Iperf!InitUdp
  PROVE  IperfInv'
<1>0. IperfTypes /\ EndedFree /\ FreshInit /\ BrokenReported /\ ~misuse
  BY DEF IperfInv
<1>1. mbox # <<>> /\ Head(mbox).what = "init"
  BY DEF Iperf!InitFails, Iperf!InitTcp, Iperf!InitUdp, Iperf!Receives
<1>2. PICK s \in Iperf!Slots : s = Head(mbox).slot
  BY <1>1, IperfTakes
<1> DEFINE q == Tail(mbox)
<1>3. /\ q \in Seq(IperfMail) /\ LoneInit(q)
      /\ \A r \in Iperf!Slots : InitWaits(q, r) => InitWaits(mbox, r) /\ r # s
      /\ \A r : Reported(mbox, r) /\ (s = r => Head(mbox).what # "report") =>
           ~(Head(mbox).what = "stop" /\ s = r) /\ Reported(q, r)
      /\ InitWaits(mbox, s) <=> Head(mbox).what = "init"
  BY <1>1, <1>2, IperfTakes
<1>4. mbox' = q /\ UNCHANGED <<stopper, crossed, misuse>>
  BY DEF Iperf!InitFails, Iperf!InitTcp, Iperf!InitUdp
<1> HIDE DEF q
<1>5. session[s].running /\ ~Holds(s)
  BY <1>0, <1>1, <1>3 DEF FreshInit
<1>6. session[s].conn = "none" /\ session[s].timer = "none" /\ ~session[s].listen
  BY <1>0, <1>5 DEF EndedFree, HoldsAsEnded, Holds
<1>7. /\ session' \in [Iperf!Slots -> Test] /\ \A r \in Iperf!Slots \ {s} : session'[r] = session[r]
      /\ session'[s].conn # "freed" /\ HoldsAsEnded(s)'
  <2>1. CASE Iperf!InitFails
    <3> DEFINE b == session[s].kind = "tcp client"
    <3>1. PICK c \in {"none", "closed"} :
            session' = [session EXCEPT ![s].running = ~b, ![s].conn = c] /\ (~b => c = "none")
      BY <1>2, <2>1 DEF Iperf!InitFails
    <3>2. b \in BOOLEAN
      OBVIOUS
    <3> HIDE DEF b
    <3>3. /\ session' \in [Iperf!Slots -> Test] /\ \A r \in Iperf!Slots \ {s} : session'[r] = session[r]
          /\ session'[s].running = ~b /\ session'[s].kind = session[s].kind /\ session'[s].listen = session[s].listen /\ session'[s].conn = c
          /\ session'[s].timer = session[s].timer /\ session'[s].abort = session[s].abort /\ session'[s].error = session[s].error /\ session'[s].first = session[s].first
      <4> DEFINE y == session[s]
                 x == [y EXCEPT !.running = ~b, !.conn = c]
      <4>1. session' = [session EXCEPT ![s] = x]
        BY <1>0, <3>1, <3>2 DEF IperfTypes
      <4>2. y \in Test
        BY <1>0 DEF IperfTypes
      <4> HIDE DEF y
      <4>3. /\ x \in Test
            /\ x.running = ~b /\ x.kind = y.kind /\ x.listen = y.listen /\ x.conn = c
            /\ x.timer = y.timer /\ x.abort = y.abort /\ x.error = y.error /\ x.first = y.first
        BY <4>2, <3>1, <3>2 DEF Test
      <4> HIDE DEF x
      <4>4. QED BY <1>0, <4>1, <4>3, TestUpdate DEF y
    <3>4. QED BY <1>6, <3>1, <3>2, <3>3 DEF HoldsAsEnded, Holds
  <2>2. CASE Iperf!InitTcp /\ session[s].kind = "tcp server"
    <3>1. session' = [session EXCEPT ![s].listen = TRUE]
      BY <1>2, <2>2 DEF Iperf!InitTcp
    <3>2. /\ session' \in [Iperf!Slots -> Test] /\ \A r \in Iperf!Slots \ {s} : session'[r] = session[r]
          /\ session'[s].running = session[s].running /\ session'[s].kind = session[s].kind /\ session'[s].listen = TRUE /\ session'[s].conn = session[s].conn
          /\ session'[s].timer = session[s].timer /\ session'[s].abort = session[s].abort /\ session'[s].error = session[s].error /\ session'[s].first = session[s].first
      <4> DEFINE y == session[s]
                 x == [y EXCEPT !.listen = TRUE]
      <4>1. session' = [session EXCEPT ![s] = x]
        BY <1>0, <3>1 DEF IperfTypes
      <4>2. y \in Test
        BY <1>0 DEF IperfTypes
      <4> HIDE DEF y
      <4>3. /\ x \in Test
            /\ x.running = y.running /\ x.kind = y.kind /\ x.listen = TRUE /\ x.conn = y.conn
            /\ x.timer = y.timer /\ x.abort = y.abort /\ x.error = y.error /\ x.first = y.first
        BY <4>2, <3>1 DEF Test
      <4> HIDE DEF x
      <4>4. QED BY <1>0, <4>1, <4>3, TestUpdate DEF y
    <3>3. QED BY <1>5, <1>6, <3>2 DEF HoldsAsEnded
  <2>3. CASE (Iperf!InitTcp /\ session[s].kind # "tcp server") \/ (Iperf!InitUdp /\ session[s].kind = "udp server")
    <3>1. session' = [session EXCEPT ![s].conn = "open"]
      BY <1>2, <2>3 DEF Iperf!InitTcp, Iperf!InitUdp
    <3>2. /\ session' \in [Iperf!Slots -> Test] /\ \A r \in Iperf!Slots \ {s} : session'[r] = session[r]
          /\ session'[s].running = session[s].running /\ session'[s].kind = session[s].kind /\ session'[s].listen = session[s].listen /\ session'[s].conn = "open"
          /\ session'[s].timer = session[s].timer /\ session'[s].abort = session[s].abort /\ session'[s].error = session[s].error /\ session'[s].first = session[s].first
      <4> DEFINE y == session[s]
                 x == [y EXCEPT !.conn = "open"]
      <4>1. session' = [session EXCEPT ![s] = x]
        BY <1>0, <3>1 DEF IperfTypes
      <4>2. y \in Test
        BY <1>0 DEF IperfTypes
      <4> HIDE DEF y
      <4>3. /\ x \in Test
            /\ x.running = y.running /\ x.kind = y.kind /\ x.listen = y.listen /\ x.conn = "open"
            /\ x.timer = y.timer /\ x.abort = y.abort /\ x.error = y.error /\ x.first = y.first
        BY <4>2, <3>1 DEF Test
      <4> HIDE DEF x
      <4>4. QED BY <1>0, <4>1, <4>3, TestUpdate DEF y
    <3>3. QED BY <1>5, <3>2 DEF HoldsAsEnded
  <2>4. CASE Iperf!InitUdp /\ session[s].kind # "udp server"
    <3>1. PICK t \in {"none", "armed"} : session' = [session EXCEPT ![s].conn = "open", ![s].timer = t]
      BY <1>2, <2>4 DEF Iperf!InitUdp
    <3>2. /\ session' \in [Iperf!Slots -> Test] /\ \A r \in Iperf!Slots \ {s} : session'[r] = session[r]
          /\ session'[s].running = session[s].running /\ session'[s].kind = session[s].kind /\ session'[s].listen = session[s].listen /\ session'[s].conn = "open"
          /\ session'[s].timer = t /\ session'[s].abort = session[s].abort /\ session'[s].error = session[s].error /\ session'[s].first = session[s].first
      <4> DEFINE y == session[s]
                 x == [y EXCEPT !.conn = "open", !.timer = t]
      <4>1. session' = [session EXCEPT ![s] = x]
        BY <1>0, <3>1 DEF IperfTypes
      <4>2. y \in Test
        BY <1>0 DEF IperfTypes
      <4> HIDE DEF y
      <4>3. /\ x \in Test
            /\ x.running = y.running /\ x.kind = y.kind /\ x.listen = y.listen /\ x.conn = "open"
            /\ x.timer = t /\ x.abort = y.abort /\ x.error = y.error /\ x.first = y.first
        BY <4>2, <3>1 DEF Test
      <4> HIDE DEF x
      <4>4. QED BY <1>0, <4>1, <4>3, TestUpdate DEF y
    <3>3. QED BY <1>5, <3>2 DEF HoldsAsEnded
  <2>5. QED BY <2>1, <2>2, <2>3, <2>4
<1>8. udpTask' \in [Iperf!Slots -> Int] /\ \A r \in Iperf!Slots \ {s} : udpTask'[r] = udpTask[r]
  <2>0. udpTask \in [Iperf!Slots -> Int]
    BY <1>0 DEF IperfTypes
  <2>1. CASE udpTask' = udpTask
    BY <2>0, <2>1
  <2>2. CASE Iperf!InitUdp /\ udpTask' # udpTask
    <3>1. PICK n \in {0, 1} : udpTask' = [udpTask EXCEPT ![s] = @ + n]
      BY <1>2, <2>2 DEF Iperf!InitUdp
    <3>2. udpTask[s] + n \in Int
      BY <2>0
    <3>3. QED BY <2>0, <3>1, <3>2
  <2>3. QED BY <2>1, <2>2 DEF Iperf!InitFails, Iperf!InitTcp
<1>9. IperfTypes'
  BY <1>0, <1>3, <1>4, <1>7, <1>8 DEF IperfTypes
<1>10. \A r \in Iperf!Slots \ {s} : Reported(mbox, r) => Reported(mbox', r)
  BY <1>3, <1>4
<1>11. ~Broken(s)'
  BY <1>7 DEF Broken
<1>12. QED BY <1>0, <1>3, <1>4, <1>7, <1>8, <1>9, <1>10, <1>11, IperfKeep

\* iperflwip_tcp_stop and iperflwip_udp_server_stop: no stop is before the report of a
\* connection that broke.
LEMMA IperfStopMessageStep ==
  ASSUME IperfInv, ~mixed, Iperf!StopMessage
  PROVE  IperfInv'
<1>0. IperfTypes /\ EndedFree /\ FreshInit /\ BrokenReported /\ ~misuse
  BY DEF IperfInv
<1>1. mbox # <<>> /\ Head(mbox).what = "stop"
  BY DEF Iperf!StopMessage, Iperf!Receives
<1>2. PICK s \in Iperf!Slots : s = Head(mbox).slot
  BY <1>1, IperfTakes
<1> DEFINE q == Tail(mbox)
<1>3. /\ q \in Seq(IperfMail) /\ LoneInit(q)
      /\ \A r \in Iperf!Slots : InitWaits(q, r) => InitWaits(mbox, r) /\ r # s
      /\ \A r : Reported(mbox, r) /\ (s = r => Head(mbox).what # "report") =>
           ~(Head(mbox).what = "stop" /\ s = r) /\ Reported(q, r)
      /\ InitWaits(mbox, s) <=> Head(mbox).what = "init"
  BY <1>1, <1>2, IperfTakes
<1>4. UNCHANGED <<udpTask, stopper, tests, mixed, crossed, misuse>>
  BY DEF Iperf!StopMessage
<1>5. CASE UNCHANGED session /\ mbox' = q
  <2> HIDE DEF q
  <2>1. IperfTypes'
    BY <1>0, <1>3, <1>4, <1>5 DEF IperfTypes
  <2>2. HoldsAsEnded(s)'
    BY <1>0, <1>5 DEF EndedFree, HoldsAsEnded, Holds
  <2>3. \A r \in Iperf!Slots : Reported(mbox, r) => Reported(mbox', r)
    BY <1>1, <1>3, <1>5
  <2>4. Broken(s)' => session'[s].error /\ session'[s].abort /\ Reported(mbox', s)
    <3>1. Broken(s)' => Broken(s)
      BY <1>4, <1>5 DEF Broken, Iperf!Tcp
    <3>2. QED BY <1>0, <1>5, <2>3, <3>1 DEF BrokenReported
  <2>5. QED BY <1>0, <1>3, <1>4, <1>5, <2>1, <2>2, <2>3, <2>4, IperfKeep
<1>6. CASE session' = Iperf!Stopped(s, FALSE) /\ mbox' = Append(q, Iperf!Message("report", s))
  <2> HIDE DEF q
  <2>1. session' = [session EXCEPT ![s].timer = "none", ![s].abort = TRUE, ![s].error = FALSE]
    BY <1>6 DEF Iperf!Stopped
  <2>2. /\ session' \in [Iperf!Slots -> Test] /\ \A r \in Iperf!Slots \ {s} : session'[r] = session[r]
        /\ session'[s].running = session[s].running /\ session'[s].kind = session[s].kind /\ session'[s].listen = session[s].listen /\ session'[s].conn = session[s].conn
        /\ session'[s].timer = "none" /\ session'[s].abort = TRUE /\ session'[s].error = FALSE /\ session'[s].first = session[s].first
    <3> DEFINE y == session[s]
               x == [y EXCEPT !.timer = "none", !.abort = TRUE, !.error = FALSE]
    <3>1. session' = [session EXCEPT ![s] = x]
      BY <1>0, <2>1 DEF IperfTypes
    <3>2. y \in Test
      BY <1>0 DEF IperfTypes
    <3> HIDE DEF y
    <3>3. /\ x \in Test
          /\ x.running = y.running /\ x.kind = y.kind /\ x.listen = y.listen /\ x.conn = y.conn
          /\ x.timer = "none" /\ x.abort = TRUE /\ x.error = FALSE /\ x.first = y.first
      BY <3>2, <2>1 DEF Test
    <3> HIDE DEF x
    <3>4. QED BY <1>0, <3>1, <3>3, TestUpdate DEF y
  <2>3. ~InitWaits(q, s)
    BY <1>3
  <2>4. /\ mbox' \in Seq(IperfMail) /\ LoneInit(mbox')
        /\ \A r \in Iperf!Slots : InitWaits(mbox', r) => InitWaits(mbox, r) /\ r # s
        /\ \A r \in Iperf!Slots : Reported(mbox, r) => Reported(mbox', r)
    <3> DEFINE a == Append(q, Iperf!Message("report", s))
    <3>1. /\ a \in Seq(IperfMail) /\ LoneInit(a)
          /\ \A r : InitWaits(a, r) => InitWaits(q, r)
          /\ \A r : Reported(q, r) => Reported(a, r)
      BY <1>3, <2>3, PostedMessage
    <3>2. mbox' = a
      BY <1>6
    <3> HIDE DEF a
    <3>3. QED BY <1>1, <1>3, <3>1, <3>2
  <2>5. IperfTypes'
    BY <1>0, <1>4, <2>2, <2>4 DEF IperfTypes
  <2>6. HoldsAsEnded(s)'
    BY <1>0, <2>2 DEF EndedFree, HoldsAsEnded, Holds
  <2>7. ~Broken(s)'
    <3>1. Broken(s)' => Broken(s)
      BY <1>4, <2>2 DEF Broken, Iperf!Tcp
    <3>2. ~Broken(s)
      BY <1>0, <1>1, <1>3 DEF BrokenReported
    <3>3. QED BY <3>1, <3>2
  <2>8. QED BY <1>0, <1>4, <2>2, <2>4, <2>5, <2>6, <2>7, IperfKeep
<1>7. QED BY <1>2, <1>5, <1>6 DEF Iperf!StopMessage

\* iperflwip_report: what ends the test closes it, and aborts no pcb the stack has freed.
LEMMA IperfReportStep ==
  ASSUME IperfInv, ~mixed, Iperf!Report
  PROVE  IperfInv'
<1>0. IperfTypes /\ EndedFree /\ FreshInit /\ BrokenReported /\ ~misuse
  BY DEF IperfInv
<1>1. mbox # <<>> /\ Head(mbox).what = "report"
  BY DEF Iperf!Report, Iperf!Receives
<1>2. PICK s \in Iperf!Slots : s = Head(mbox).slot
  BY <1>1, IperfTakes
<1> DEFINE q == Tail(mbox)
<1>3. /\ q \in Seq(IperfMail) /\ LoneInit(q)
      /\ \A r \in Iperf!Slots : InitWaits(q, r) => InitWaits(mbox, r) /\ r # s
      /\ \A r : Reported(mbox, r) /\ (s = r => Head(mbox).what # "report") =>
           ~(Head(mbox).what = "stop" /\ s = r) /\ Reported(q, r)
      /\ InitWaits(mbox, s) <=> Head(mbox).what = "init"
  BY <1>1, <1>2, IperfTakes
<1>4. mbox' = q /\ UNCHANGED <<udpTask, stopper, tests, mixed, crossed>>
  BY DEF Iperf!Report
<1> HIDE DEF q
<1>5. \A r \in Iperf!Slots \ {s} : Reported(mbox, r) => Reported(mbox', r)
  BY <1>3, <1>4
<1>6. CASE ~(Iperf!Running(s) /\ Iperf!HasConn(s)) /\ UNCHANGED <<session, misuse>>
  <2>1. IperfTypes'
    BY <1>0, <1>3, <1>4, <1>6 DEF IperfTypes
  <2>2. HoldsAsEnded(s)'
    BY <1>0, <1>6 DEF EndedFree, HoldsAsEnded, Holds
  <2>3. ~Broken(s)'
    BY <1>6 DEF Broken, Iperf!Running, Iperf!HasConn
  <2>4. QED BY <1>0, <1>3, <1>4, <1>5, <1>6, <2>1, <2>2, <2>3, IperfKeep
<1>7. CASE /\ session' = Iperf!Closed(s) /\ Iperf!Running(s) /\ Iperf!HasConn(s)
           /\ misuse' = (misuse \/ (s \notin crossed /\ Iperf!Aborts(s) /\ session[s].conn # "open"))
  <2>1. session' = [session EXCEPT ![s].running = FALSE, ![s].timer = "none", ![s].conn = "none", ![s].listen = FALSE]
    BY <1>7 DEF Iperf!Closed
  <2>2. /\ session' \in [Iperf!Slots -> Test] /\ \A r \in Iperf!Slots \ {s} : session'[r] = session[r]
        /\ session'[s].running = FALSE /\ session'[s].kind = session[s].kind /\ session'[s].listen = FALSE /\ session'[s].conn = "none"
        /\ session'[s].timer = "none" /\ session'[s].abort = session[s].abort /\ session'[s].error = session[s].error /\ session'[s].first = session[s].first
    <3> DEFINE y == session[s]
               x == [y EXCEPT !.running = FALSE, !.timer = "none", !.conn = "none", !.listen = FALSE]
    <3>1. session' = [session EXCEPT ![s] = x]
      BY <1>0, <2>1 DEF IperfTypes
    <3>2. y \in Test
      BY <1>0 DEF IperfTypes
    <3> HIDE DEF y
    <3>3. /\ x \in Test
          /\ x.running = FALSE /\ x.kind = y.kind /\ x.listen = FALSE /\ x.conn = "none"
          /\ x.timer = "none" /\ x.abort = y.abort /\ x.error = y.error /\ x.first = y.first
      BY <3>2, <2>1 DEF Test
    <3> HIDE DEF x
    <3>4. QED BY <1>0, <3>1, <3>3, TestUpdate DEF y
  <2>3. IperfTypes'
    BY <1>0, <1>3, <1>4, <2>2 DEF IperfTypes
  <2>4. HoldsAsEnded(s)' /\ ~Broken(s)'
    BY <2>2 DEF HoldsAsEnded, Holds, Broken
  <2>5. ~misuse'
    <3>1. s \notin crossed /\ Iperf!Tcp(s) /\ session[s].conn = "freed" => session[s].error
      BY <1>0, <1>7 DEF BrokenReported, Broken, Iperf!Running
    <3>3. session[s].conn \in {"open", "freed"}
      <4>1. session[s].conn \in {"none", "open", "freed", "closed"}
        BY <1>0 DEF IperfTypes, Test
      <4>2. QED BY <1>0, <1>7, <4>1 DEF EndedFree, HoldsAsEnded, Iperf!Running, Iperf!HasConn
    <3>2. QED BY <1>0, <1>7, <3>1, <3>3 DEF Iperf!Aborts
  <2>6. QED BY <1>0, <1>3, <1>4, <1>5, <2>2, <2>3, <2>4, <2>5, IperfKeep
<1>8. CASE /\ Iperf!Running(s) /\ ~session[s].abort
           /\ session' = [session EXCEPT ![s].timer = IF @ = "none" THEN @ ELSE "armed"]
           /\ UNCHANGED misuse
  <2> DEFINE t == IF session[s].timer = "none" THEN session[s].timer ELSE "armed"
  <2>1. t \in {"none", "armed"} /\ session' = [session EXCEPT ![s].timer = t]
    BY <1>8
  <2> HIDE DEF t
  <2>2. /\ session' \in [Iperf!Slots -> Test] /\ \A r \in Iperf!Slots \ {s} : session'[r] = session[r]
        /\ session'[s].running = session[s].running /\ session'[s].kind = session[s].kind /\ session'[s].listen = session[s].listen /\ session'[s].conn = session[s].conn
        /\ session'[s].timer = t /\ session'[s].abort = session[s].abort /\ session'[s].error = session[s].error /\ session'[s].first = session[s].first
    <3> DEFINE y == session[s]
               x == [y EXCEPT !.timer = t]
    <3>1. session' = [session EXCEPT ![s] = x]
      BY <1>0, <2>1 DEF IperfTypes
    <3>2. y \in Test
      BY <1>0 DEF IperfTypes
    <3> HIDE DEF y
    <3>3. /\ x \in Test
          /\ x.running = y.running /\ x.kind = y.kind /\ x.listen = y.listen /\ x.conn = y.conn
          /\ x.timer = t /\ x.abort = y.abort /\ x.error = y.error /\ x.first = y.first
      BY <3>2, <2>1 DEF Test
    <3> HIDE DEF x
    <3>4. QED BY <1>0, <3>1, <3>3, TestUpdate DEF y
  <2>3. IperfTypes'
    BY <1>0, <1>3, <1>4, <2>2 DEF IperfTypes
  <2>4. HoldsAsEnded(s)'
    BY <1>0, <1>8, <2>2 DEF Iperf!Running, EndedFree, HoldsAsEnded
  <2>5. ~Broken(s)'
    <3>1. ~Broken(s)
      BY <1>0, <1>8 DEF BrokenReported
    <3>2. Broken(s)' => Broken(s)
      BY <1>4, <2>2 DEF Broken, Iperf!Tcp
    <3>3. QED BY <3>1, <3>2
  <2>6. QED BY <1>0, <1>3, <1>4, <1>5, <1>8, <2>2, <2>3, <2>4, <2>5, IperfKeep
<1>9. QED BY <1>2, <1>6, <1>7, <1>8 DEF Iperf!Report

\* iperflwip_udp_client_tx and iperflwip_udp_close.
LEMMA IperfUdpMessageStep ==
  ASSUME IperfInv, ~mixed, Iperf!Transmit \/ Iperf!UdpClose
  PROVE  IperfInv'
<1>0. IperfTypes /\ EndedFree /\ FreshInit /\ BrokenReported /\ ~misuse
  BY DEF IperfInv
<1>1. mbox # <<>> /\ Head(mbox).what \in {"tx", "udp close"}
  BY DEF Iperf!Transmit, Iperf!UdpClose, Iperf!Receives
<1>2. PICK s \in Iperf!Slots : s = Head(mbox).slot
  BY <1>1, IperfTakes
<1> DEFINE q == Tail(mbox)
<1>3. /\ q \in Seq(IperfMail) /\ LoneInit(q)
      /\ \A r \in Iperf!Slots : InitWaits(q, r) => InitWaits(mbox, r) /\ r # s
      /\ \A r : Reported(mbox, r) /\ (s = r => Head(mbox).what # "report") =>
           ~(Head(mbox).what = "stop" /\ s = r) /\ Reported(q, r)
      /\ InitWaits(mbox, s) <=> Head(mbox).what = "init"
  BY <1>1, <1>2, IperfTakes
<1>4. mbox' = q /\ UNCHANGED <<udpTask, stopper, tests, mixed, crossed, misuse>>
  BY DEF Iperf!Transmit, Iperf!UdpClose
<1> HIDE DEF q
<1>5. \A r \in Iperf!Slots : Reported(mbox, r) => Reported(mbox', r)
  BY <1>1, <1>3, <1>4
<1>6. CASE Iperf!Transmit
  <2>1. UNCHANGED session
    BY <1>6 DEF Iperf!Transmit
  <2>2. IperfTypes'
    BY <1>0, <1>3, <1>4, <2>1 DEF IperfTypes
  <2>3. HoldsAsEnded(s)'
    BY <1>0, <2>1 DEF EndedFree, HoldsAsEnded, Holds
  <2>4. Broken(s)' => session'[s].error /\ session'[s].abort /\ Reported(mbox', s)
    <3>1. Broken(s)' => Broken(s)
      BY <1>4, <2>1 DEF Broken, Iperf!Tcp
    <3>2. QED BY <1>0, <1>5, <2>1, <3>1 DEF BrokenReported
  <2>5. QED BY <1>0, <1>3, <1>4, <1>5, <2>1, <2>2, <2>3, <2>4, IperfKeep
<1>7. CASE Iperf!UdpClose
  <2>1. session' = [session EXCEPT ![s].running = FALSE, ![s].timer = "none", ![s].conn = "none", ![s].listen = FALSE]
    BY <1>2, <1>7 DEF Iperf!UdpClose, Iperf!Closed
  <2>2. /\ session' \in [Iperf!Slots -> Test] /\ \A r \in Iperf!Slots \ {s} : session'[r] = session[r]
        /\ session'[s].running = FALSE /\ session'[s].kind = session[s].kind /\ session'[s].listen = FALSE /\ session'[s].conn = "none"
        /\ session'[s].timer = "none" /\ session'[s].abort = session[s].abort /\ session'[s].error = session[s].error /\ session'[s].first = session[s].first
    <3> DEFINE y == session[s]
               x == [y EXCEPT !.running = FALSE, !.timer = "none", !.conn = "none", !.listen = FALSE]
    <3>1. session' = [session EXCEPT ![s] = x]
      BY <1>0, <2>1 DEF IperfTypes
    <3>2. y \in Test
      BY <1>0 DEF IperfTypes
    <3> HIDE DEF y
    <3>3. /\ x \in Test
          /\ x.running = FALSE /\ x.kind = y.kind /\ x.listen = FALSE /\ x.conn = "none"
          /\ x.timer = "none" /\ x.abort = y.abort /\ x.error = y.error /\ x.first = y.first
      BY <3>2, <2>1 DEF Test
    <3> HIDE DEF x
    <3>4. QED BY <1>0, <3>1, <3>3, TestUpdate DEF y
  <2>3. IperfTypes'
    BY <1>0, <1>3, <1>4, <2>2 DEF IperfTypes
  <2>4. HoldsAsEnded(s)' /\ ~Broken(s)'
    BY <2>2 DEF HoldsAsEnded, Holds, Broken
  <2>5. QED BY <1>0, <1>3, <1>4, <1>5, <2>2, <2>3, <2>4, IperfKeep
<1>8. QED BY <1>6, <1>7

\* A test that holds something, or that is over, has no init waiting.
LEMMA NoInitWaits ==
  ASSUME IperfInv, ~mixed, NEW s \in Iperf!Slots, Holds(s) \/ ~session[s].running \/ udpTask[s] > 0
  PROVE  ~InitWaits(mbox, s)
<1>1. udpTask[s] \in Int
  BY DEF IperfInv, IperfTypes
<1>2. QED BY <1>1 DEF IperfInv, FreshInit

\* What the peers do: connect, accept, end ...
LEMMA IperfPeerStep ==
  ASSUME IperfInv, ~mixed, NEW s \in Iperf!Slots, Iperf!Connected(s) \/ Iperf!Accept(s) \/ Iperf!PeerEnds(s)
  PROVE  IperfInv'
<1>0. IperfTypes /\ EndedFree /\ FreshInit /\ BrokenReported /\ ~misuse
  BY DEF IperfInv
<1>1. UNCHANGED <<udpTask, stopper, tests, crossed, misuse>>
  BY DEF Iperf!Connected, Iperf!Accept, Iperf!PeerEnds
<1>2. ~InitWaits(mbox, s)
  BY <1>0, NoInitWaits DEF Iperf!Connected, Iperf!Accept, Iperf!PeerEnds, Iperf!HasConn, Holds,
     EndedFree, HoldsAsEnded
<1>3. /\ mbox \in Seq(IperfMail) /\ LoneInit(mbox)
      /\ \A r \in Iperf!Slots : InitWaits(mbox, r) => InitWaits(mbox, r) /\ r # s
  BY <1>0, <1>2 DEF IperfTypes, FreshInit
<1>4. CASE Iperf!Connected(s)
  <2>1. session[s].running /\ mbox' = mbox
    BY <1>4 DEF Iperf!Connected
  <2>2. PICK t \in {"none", "armed"} : session' = [session EXCEPT ![s].timer = t, ![s].first = TRUE]
    BY <1>4 DEF Iperf!Connected, Iperf!WithTimer
  <2>3. /\ session' \in [Iperf!Slots -> Test] /\ \A r \in Iperf!Slots \ {s} : session'[r] = session[r]
        /\ session'[s].running = session[s].running /\ session'[s].kind = session[s].kind /\ session'[s].listen = session[s].listen /\ session'[s].conn = session[s].conn
        /\ session'[s].timer = t /\ session'[s].abort = session[s].abort /\ session'[s].error = session[s].error /\ session'[s].first = TRUE
    <3> DEFINE y == session[s]
               x == [y EXCEPT !.timer = t, !.first = TRUE]
    <3>1. session' = [session EXCEPT ![s] = x]
      BY <1>0, <2>2 DEF IperfTypes
    <3>2. y \in Test
      BY <1>0 DEF IperfTypes
    <3> HIDE DEF y
    <3>3. /\ x \in Test
          /\ x.running = y.running /\ x.kind = y.kind /\ x.listen = y.listen /\ x.conn = y.conn
          /\ x.timer = t /\ x.abort = y.abort /\ x.error = y.error /\ x.first = TRUE
      BY <3>2, <2>2 DEF Test
    <3> HIDE DEF x
    <3>4. QED BY <1>0, <3>1, <3>3, TestUpdate DEF y
  <2>4. IperfTypes'
    BY <1>0, <1>1, <2>1, <2>3 DEF IperfTypes
  <2>5. HoldsAsEnded(s)'
    BY <1>0, <2>1, <2>3 DEF EndedFree, HoldsAsEnded
  <2>6. Broken(s)' => session'[s].error /\ session'[s].abort /\ Reported(mbox', s)
    <3>1. Broken(s)' => Broken(s)
      BY <1>1, <2>3 DEF Broken, Iperf!Tcp
    <3>2. QED BY <1>0, <2>1, <2>3, <3>1 DEF BrokenReported
  <2>7. QED BY <1>0, <1>1, <1>3, <2>1, <2>3, <2>4, <2>5, <2>6, IperfKeep
<1>5. CASE Iperf!Accept(s)
  <2>1. mbox' = mbox
    BY <1>5 DEF Iperf!Accept
  <2>2. PICK t \in {"none", "armed"} :
          session' = [session EXCEPT ![s].running = TRUE, ![s].conn = "open", ![s].timer = t]
    BY <1>5 DEF Iperf!Accept
  <2>3. /\ session' \in [Iperf!Slots -> Test] /\ \A r \in Iperf!Slots \ {s} : session'[r] = session[r]
        /\ session'[s].running = TRUE /\ session'[s].kind = session[s].kind /\ session'[s].listen = session[s].listen /\ session'[s].conn = "open"
        /\ session'[s].timer = t /\ session'[s].abort = session[s].abort /\ session'[s].error = session[s].error /\ session'[s].first = session[s].first
    <3> DEFINE y == session[s]
               x == [y EXCEPT !.running = TRUE, !.conn = "open", !.timer = t]
    <3>1. session' = [session EXCEPT ![s] = x]
      BY <1>0, <2>2 DEF IperfTypes
    <3>2. y \in Test
      BY <1>0 DEF IperfTypes
    <3> HIDE DEF y
    <3>3. /\ x \in Test
          /\ x.running = TRUE /\ x.kind = y.kind /\ x.listen = y.listen /\ x.conn = "open"
          /\ x.timer = t /\ x.abort = y.abort /\ x.error = y.error /\ x.first = y.first
      BY <3>2, <2>2 DEF Test
    <3> HIDE DEF x
    <3>4. QED BY <1>0, <3>1, <3>3, TestUpdate DEF y
  <2>4. IperfTypes'
    BY <1>0, <1>1, <2>1, <2>3 DEF IperfTypes
  <2>5. HoldsAsEnded(s)' /\ ~Broken(s)'
    BY <2>3 DEF HoldsAsEnded, Broken
  <2>6. QED BY <1>0, <1>1, <1>3, <2>1, <2>3, <2>4, <2>5, IperfKeep
<1>6. CASE Iperf!PeerEnds(s)
  <2>1. /\ session[s].running /\ session[s].conn = "open"
        /\ session' = [session EXCEPT ![s].timer = "none", ![s].abort = TRUE, ![s].error = FALSE]
        /\ mbox' = Append(mbox, Iperf!Message("report", s))
    BY <1>6 DEF Iperf!PeerEnds, Iperf!Stopped, Iperf!Running
  <2>2. /\ session' \in [Iperf!Slots -> Test] /\ \A r \in Iperf!Slots \ {s} : session'[r] = session[r]
        /\ session'[s].running = session[s].running /\ session'[s].kind = session[s].kind /\ session'[s].listen = session[s].listen /\ session'[s].conn = session[s].conn
        /\ session'[s].timer = "none" /\ session'[s].abort = TRUE /\ session'[s].error = FALSE /\ session'[s].first = session[s].first
    <3> DEFINE y == session[s]
               x == [y EXCEPT !.timer = "none", !.abort = TRUE, !.error = FALSE]
    <3>1. session' = [session EXCEPT ![s] = x]
      BY <1>0, <2>1 DEF IperfTypes
    <3>2. y \in Test
      BY <1>0 DEF IperfTypes
    <3> HIDE DEF y
    <3>3. /\ x \in Test
          /\ x.running = y.running /\ x.kind = y.kind /\ x.listen = y.listen /\ x.conn = y.conn
          /\ x.timer = "none" /\ x.abort = TRUE /\ x.error = FALSE /\ x.first = y.first
      BY <3>2, <2>1 DEF Test
    <3> HIDE DEF x
    <3>4. QED BY <1>0, <3>1, <3>3, TestUpdate DEF y
  <2>3. /\ mbox' \in Seq(IperfMail) /\ LoneInit(mbox')
        /\ \A r \in Iperf!Slots : InitWaits(mbox', r) => InitWaits(mbox, r) /\ r # s
        /\ \A r : Reported(mbox, r) => Reported(mbox', r)
    BY <1>2, <2>1, IperfPosts
  <2>4. IperfTypes'
    BY <1>0, <1>1, <2>2, <2>3 DEF IperfTypes
  <2>5. HoldsAsEnded(s)' /\ ~Broken(s)'
    BY <2>1, <2>2 DEF HoldsAsEnded, Broken
  <2>6. QED BY <1>0, <1>1, <2>2, <2>3, <2>4, <2>5, IperfKeep
<1>7. QED BY <1>4, <1>5, <1>6

\* ... and break: the report is posted at once, and no stop is before it unless one waited.
LEMMA IperfBreakStep ==
  ASSUME IperfInv, ~mixed, NEW s \in Iperf!Slots, Iperf!ConnectionBreaks(s)
  PROVE  IperfInv'
<1>0. IperfTypes /\ EndedFree /\ FreshInit /\ BrokenReported /\ ~misuse
  BY DEF IperfInv
<1>1. /\ session[s].running /\ session[s].conn = "open"
      /\ session' = [Iperf!Stopped(s, TRUE) EXCEPT ![s].conn = "freed"]
      /\ mbox' = Append(mbox, Iperf!Message("report", s))
      /\ crossed' = IF \E k \in Iperf!Waiting(s) : mbox[k].what = "stop" THEN crossed \cup {s} ELSE crossed
      /\ UNCHANGED <<udpTask, stopper, tests, mixed, misuse>>
  BY DEF Iperf!ConnectionBreaks, Iperf!Running
<1>2. session' = [session EXCEPT ![s].timer = "none", ![s].abort = TRUE, ![s].error = TRUE, ![s].conn = "freed"]
  BY <1>1 DEF Iperf!Stopped
<1>3. /\ session' \in [Iperf!Slots -> Test] /\ \A r \in Iperf!Slots \ {s} : session'[r] = session[r]
      /\ session'[s].running = session[s].running /\ session'[s].kind = session[s].kind /\ session'[s].listen = session[s].listen /\ session'[s].conn = "freed"
      /\ session'[s].timer = "none" /\ session'[s].abort = TRUE /\ session'[s].error = TRUE /\ session'[s].first = session[s].first
  <2> DEFINE y == session[s]
             x == [y EXCEPT !.timer = "none", !.abort = TRUE, !.error = TRUE, !.conn = "freed"]
  <2>1. session' = [session EXCEPT ![s] = x]
    BY <1>0, <1>2 DEF IperfTypes
  <2>2. y \in Test
    BY <1>0 DEF IperfTypes
  <2> HIDE DEF y
  <2>3. /\ x \in Test
        /\ x.running = y.running /\ x.kind = y.kind /\ x.listen = y.listen /\ x.conn = "freed"
        /\ x.timer = "none" /\ x.abort = TRUE /\ x.error = TRUE /\ x.first = y.first
    BY <2>2, <1>2 DEF Test
  <2> HIDE DEF x
  <2>4. QED BY <1>0, <2>1, <2>3, TestUpdate DEF y
<1>4. ~InitWaits(mbox, s)
  BY <1>1, NoInitWaits DEF Holds
<1>5. /\ mbox' \in Seq(IperfMail) /\ LoneInit(mbox')
      /\ \A r \in Iperf!Slots : InitWaits(mbox', r) => InitWaits(mbox, r) /\ r # s
      /\ \A r : Reported(mbox, r) => Reported(mbox', r)
      /\ (\A k \in 1..Len(mbox) : mbox[k] # [what |-> "stop", slot |-> s]) => Reported(mbox', s)
  BY <1>1, <1>4, IperfPosts
<1>6. s \notin crossed' => Reported(mbox', s)
  <2> SUFFICES ASSUME s \notin crossed', NEW k \in 1..Len(mbox), mbox[k] = [what |-> "stop", slot |-> s]
               PROVE  FALSE
    BY <1>5
  <2>1. k \in Iperf!Waiting(s) /\ mbox[k].what = "stop"
    BY DEF Iperf!Waiting
  <2>2. QED BY <1>1, <2>1
<1>7. IperfTypes'
  BY <1>0, <1>1, <1>3, <1>5 DEF IperfTypes
<1>8. HoldsAsEnded(s)' /\ session'[s].error /\ session'[s].abort /\ crossed \subseteq crossed'
  BY <1>1, <1>3 DEF HoldsAsEnded
<1>9. Broken(s)' => Reported(mbox', s)
  BY <1>6 DEF Broken
<1>10. QED BY <1>0, <1>1, <1>3, <1>5, <1>7, <1>8, <1>9, IperfKeep

\* An integer less one is an integer.
LEMMA OneLess ==
  ASSUME NEW i \in Int
  PROVE  i - 1 \in Int
OBVIOUS

\* The timer and the task of a UDP client.
LEMMA IperfTimerStep ==
  ASSUME IperfInv, ~mixed, NEW s \in Iperf!Slots,
         Iperf!TimerFires(s) \/ Iperf!TaskPosts(s) \/ Iperf!UdpTaskEnds(s)
  PROVE  IperfInv'
<1>0. IperfTypes /\ EndedFree /\ FreshInit /\ BrokenReported /\ ~misuse
  BY DEF IperfInv
<1>1. UNCHANGED <<stopper, tests, mixed, crossed, misuse>>
  BY DEF Iperf!TimerFires, Iperf!TaskPosts, Iperf!UdpTaskEnds
<1>2. ~InitWaits(mbox, s)
  BY NoInitWaits DEF Iperf!TimerFires, Iperf!TaskPosts, Iperf!UdpTaskEnds, Holds
<1>3. PICK w \in {"report", "tx", "udp close"} : mbox' = Append(mbox, Iperf!Message(w, s))
  BY DEF Iperf!TimerFires, Iperf!TaskPosts, Iperf!UdpTaskEnds
<1>4. /\ mbox' \in Seq(IperfMail) /\ LoneInit(mbox')
      /\ \A r \in Iperf!Slots : InitWaits(mbox', r) => InitWaits(mbox, r) /\ r # s
      /\ \A r : Reported(mbox, r) => Reported(mbox', r)
  BY <1>2, <1>3, IperfPosts
<1>5. udpTask' \in [Iperf!Slots -> Int] /\ \A r \in Iperf!Slots \ {s} : udpTask'[r] = udpTask[r]
  <2>0. udpTask \in [Iperf!Slots -> Int]
    BY <1>0 DEF IperfTypes
  <2>1. CASE udpTask' = udpTask
    BY <2>0, <2>1
  <2>2. CASE udpTask' = [udpTask EXCEPT ![s] = @ - 1]
    <3>1. udpTask[s] \in Int
      BY <2>0
    <3> DEFINE n == udpTask[s] - 1
    <3>2. n \in Int
      BY <3>1, OneLess
    <3>3. udpTask' = [udpTask EXCEPT ![s] = n]
      BY <2>2
    <3> HIDE DEF n
    <3>4. QED BY <2>0, <3>2, <3>3
  <2>3. QED BY <2>1, <2>2 DEF Iperf!TimerFires, Iperf!TaskPosts, Iperf!UdpTaskEnds
<1>6. CASE Iperf!TimerFires(s)
  <2>1. session' = [session EXCEPT ![s].timer = "fired"] /\ session[s].timer = "armed"
    BY <1>6 DEF Iperf!TimerFires
  <2>2. /\ session' \in [Iperf!Slots -> Test] /\ \A r \in Iperf!Slots \ {s} : session'[r] = session[r]
        /\ session'[s].running = session[s].running /\ session'[s].kind = session[s].kind /\ session'[s].listen = session[s].listen /\ session'[s].conn = session[s].conn
        /\ session'[s].timer = "fired" /\ session'[s].abort = session[s].abort /\ session'[s].error = session[s].error /\ session'[s].first = session[s].first
    <3> DEFINE y == session[s]
               x == [y EXCEPT !.timer = "fired"]
    <3>1. session' = [session EXCEPT ![s] = x]
      BY <1>0, <2>1 DEF IperfTypes
    <3>2. y \in Test
      BY <1>0 DEF IperfTypes
    <3> HIDE DEF y
    <3>3. /\ x \in Test
          /\ x.running = y.running /\ x.kind = y.kind /\ x.listen = y.listen /\ x.conn = y.conn
          /\ x.timer = "fired" /\ x.abort = y.abort /\ x.error = y.error /\ x.first = y.first
      BY <3>2, <2>1 DEF Test
    <3> HIDE DEF x
    <3>4. QED BY <1>0, <3>1, <3>3, TestUpdate DEF y
  <2>3. IperfTypes'
    BY <1>0, <1>1, <1>4, <1>5, <2>2 DEF IperfTypes
  <2>4. HoldsAsEnded(s)'
    BY <1>0, <2>1, <2>2 DEF EndedFree, HoldsAsEnded, Holds
  <2>5. Broken(s)' => session'[s].error /\ session'[s].abort /\ Reported(mbox', s)
    <3>1. Broken(s)' => Broken(s)
      BY <1>1, <2>2 DEF Broken, Iperf!Tcp
    <3>2. QED BY <1>0, <1>4, <2>2, <3>1 DEF BrokenReported
  <2>6. QED BY <1>0, <1>1, <1>4, <1>5, <2>2, <2>3, <2>4, <2>5, IperfKeep
<1>7. CASE UNCHANGED session
  <2>1. IperfTypes'
    BY <1>0, <1>1, <1>4, <1>5, <1>7 DEF IperfTypes
  <2>2. HoldsAsEnded(s)'
    BY <1>0, <1>7 DEF EndedFree, HoldsAsEnded, Holds
  <2>3. Broken(s)' => session'[s].error /\ session'[s].abort /\ Reported(mbox', s)
    <3>1. Broken(s)' => Broken(s)
      BY <1>1, <1>7 DEF Broken, Iperf!Tcp
    <3>2. QED BY <1>0, <1>4, <1>7, <3>1 DEF BrokenReported
  <2>4. QED BY <1>0, <1>1, <1>4, <1>5, <1>7, <2>1, <2>2, <2>3, IperfKeep
<1>8. QED BY <1>6, <1>7 DEF Iperf!TaskPosts, Iperf!UdpTaskEnds

\* A test that ended holds no pcb and no timer, and no report aborts a pcb that the stack
\* has freed, in whatever order a stop, the peer, the timer and the task come.
THEOREM IperfTestsEnd == MCSpec => []IperfSafe
<1> DEFINE I == part = "iperf" => IperfInv
<1>1. MCInit => I
  <2> SUFFICES ASSUME MCInit PROVE IperfInv
    OBVIOUS
  <2> DEFINE no == Iperf!NoTest
  <2>1. /\ session = [s \in Iperf!Slots |-> no] /\ udpTask = [s \in Iperf!Slots |-> 0]
        /\ mbox = <<>> /\ stopper = 0 /\ ~misuse
    BY DEF MCInit, Iperf!Init
  <2>2. no \in Test /\ no.running = FALSE /\ no.listen = FALSE /\ no.conn = "none" /\ no.timer = "none"
    BY DEF Iperf!NoTest, Test, Iperf!Kind
  <2> HIDE DEF no
  <2>3. IperfTypes
    BY <2>1, <2>2 DEF IperfTypes
  <2>4. EndedFree /\ BrokenReported
    BY <2>1, <2>2 DEF EndedFree, HoldsAsEnded, Holds, BrokenReported, Broken
  <2>5. FreshInit
    <3>1. Len(mbox) = 0
      BY <2>1
    <3>2. QED BY <3>1 DEF FreshInit, LoneInit, InitWaits
  <2>6. QED BY <2>1, <2>3, <2>4, <2>5 DEF IperfInv
<1>2. I /\ [MCNext]_<<part, pingVars, iperfVars, sockVars, sntpVars>> => I'
  <2> SUFFICES ASSUME I, [MCNext]_<<part, pingVars, iperfVars, sockVars, sntpVars>>, part' = "iperf"
               PROVE  IperfInv'
    OBVIOUS
  <2>1. CASE UNCHANGED <<part, iperfVars>>
    BY <2>1 DEF iperfVars, IperfInv, IperfTypes, EndedFree, HoldsAsEnded, Holds, FreshInit, BrokenReported, Broken, Iperf!Tcp
  <2>2. CASE part = "iperf" /\ Iperf!Next
    BY <2>2, IperfStartStep, IperfStopSteps, IperfStopEndsStep, IperfInitStep, IperfStopMessageStep,
       IperfReportStep, IperfUdpMessageStep, IperfPeerStep, IperfBreakStep, IperfTimerStep
       DEF Iperf!Next, Iperf!Step
  <2>3. QED BY <2>1, <2>2 DEF MCNext
<1>3. I => IperfSafe
  BY DEF IperfInv, EndedFree, HoldsAsEnded, Holds, IperfSafe, Iperf!EndedHoldsNothing, Iperf!FreedNotAborted
<1>4. QED BY <1>1, <1>2, <1>3, PTL DEF MCSpec
================================================================================
