------------------------------ MODULE MCTraffic ------------------------------
(* The traffic tools of the terminal for TLC.  They share nothing with one      *)
(* another, so the first state picks the one that runs.                         *)
EXTENDS Integers, Sequences, FiniteSets

CONSTANTS NumSessions, MaxCount, MaxPcbs, MaxTasks, MaxSessions, MboxSize,
          MaxIperfs, MaxEntries, MaxSockets, MaxStarts, NumServers, KodMax, MsgQLen

\* The sizes of the tables.
ASSUME TrafficAssumption ==
  /\ NumSessions \in Nat /\ MaxCount \in Nat /\ MaxSessions \in Nat
  /\ MaxEntries \in Nat /\ MaxSockets \in Nat /\ MaxStarts \in Nat

VARIABLE part
VARIABLES
  slots, tasks, mail, pcbs, made, reused, pingMisuse,
  session, udpTask, mbox, stopper, tests, mixed, crossed, misuse,
  entry, thread, sockets, killer, token, frozen, started,
  cmd, task, objs, mutex, queue, tokens, stored, servers, suspended, clock

Ping    == INSTANCE PingSessions WITH misuse <- pingMisuse
Iperf   == INSTANCE IperfSessions
Sock    == INSTANCE SocketThreads
Sntp    == INSTANCE Sntp

pingVars == <<slots, tasks, mail, pcbs, made, reused, pingMisuse>>
iperfVars == <<session, udpTask, mbox, stopper, tests, mixed, crossed, misuse>>
sockVars == <<entry, thread, sockets, killer, token, frozen, started>>
sntpVars == <<cmd, task, objs, mutex, queue, tokens, stored, servers, suspended,
               clock>>

MCInit ==
  /\ part \in {"ping", "iperf", "sockets", "sntp"}
  /\ Ping!Init
  /\ Iperf!Init
  /\ Sock!Init
  /\ Sntp!Init

MCNext ==
  /\ part' = part
  /\ \/ /\ part = "ping" /\ Ping!Next
        /\ UNCHANGED <<iperfVars, sockVars, sntpVars>>
     \/ /\ part = "iperf" /\ Iperf!Next
        /\ UNCHANGED <<pingVars, sockVars, sntpVars>>
     \/ /\ part = "sockets" /\ Sock!Next
        /\ UNCHANGED <<pingVars, iperfVars, sntpVars>>
     \/ /\ part = "sntp" /\ Sntp!Next
        /\ UNCHANGED <<pingVars, iperfVars, sockVars>>

MCSpec ==
  /\ MCInit /\ [][MCNext]_<<part, pingVars, iperfVars, sockVars, sntpVars>>
  /\ WF_pingVars(part = "ping" /\ Ping!TcpipStep)
  /\ \A s \in Ping!Sessions : WF_pingVars(part = "ping" /\ Ping!TaskStep(s))
  /\ WF_iperfVars(part = "iperf" /\ Iperf!TcpipRuns)
  /\ WF_iperfVars(part = "iperf" /\ Iperf!StopUdpClientEnds)
  /\ \A s \in Iperf!Slots : WF_iperfVars(part = "iperf" /\ Iperf!UdpTaskEnds(s))
  /\ WF_sockVars(part = "sockets" /\ Sock!KillStep)
  /\ \A t \in Sock!Threads : WF_sockVars(part = "sockets" /\ Sock!ThreadStep(t))
  /\ WF_sntpVars(part = "sntp" /\ Sntp!Command)
  /\ WF_sntpVars(part = "sntp" /\ Sntp!TaskStep)

\* A pcb is used only while it exists, and neither a pcb nor a slot of a ping is lost,
\* whenever a session is stopped (lwip_ping.c:299, 352).
PingSafe == part = "ping" => Ping!PcbAlive /\ Ping!NoPcbLost /\ Ping!NoSlotLost

\* A test that ended holds no pcb and no timer, and what the stack freed, or a failed
\* start closed, is not aborted, until a slot is used again while messages or the task of
\* its last test are left (lwip_iperf_examples.c:300, 360).
IperfSafe == part = "iperf" => Iperf!EndedHoldsNothing /\ Iperf!FreedNotAborted

\* Every open socket has a thread that will close it (socket_examples.c:1307, 1403).
SocketsOwned == part = "sockets" => Sock!SocketsOwned

\* A kill deletes only threads that ended (socket_examples.c:271).
DeletesFinished == Sock!DeletesFinished

\* The SNTP task uses its objects only while they exist, and an update that is over
\* leaves none (sntp_task.c:493).
SntpObjectsAlive == part = "sntp" => Sntp!ObjectsAlive

\* What was told to stop stops: a ping and its pcb, an iperf test that was asked to end,
\* a socket thread that does not wait for its peer without an end, an SNTP update
\* (lwip_ping.c:383, lwip_iperf_examples.c:147, socket_examples.c:240, sntp_task.c:493).
ToldToStopEnds ==
  /\ Ping!StoppedEnds
  /\ Iperf!IperfStopEnds
  /\ Sock!KillReturns
  /\ Sntp!UpdateReturns
=============================================================================
