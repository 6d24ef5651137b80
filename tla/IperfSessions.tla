----------------------------- MODULE IperfSessions -----------------------------
(* lwip_iperf_*.c: traffic tests, each a slot of a static table.  The command  *)
(* thread takes a slot and asks for a stop; tcpip_thread owns the pcbs and the *)
(* timer of a test and ends it in a report callback; a UDP client has a task   *)
(* of its own that paces it.                                                   *)
EXTENDS Integers, Sequences, FiniteSets

CONSTANTS MaxSessions, \* IPERF_LWIP_MAX_NUM_OF_IPERF_SESSIONS
          MboxSize,    \* bound: messages a UDP client has waiting in tcpip_thread's mailbox
          MaxIperfs    \* bound: commands given in a behaviour

VARIABLES session, \* iperf_session
          udpTask, \* slot -> the UDP client tasks that run on it
          mbox,    \* what tcpip_thread has still to run, in order
          stopper, \* a UDP client stop between its test of os_timer and the rest
          tests,   \* how many commands were given
          mixed,   \* a slot was reused too soon, or a second client was accepted
          crossed, \* slots whose connection broke while a stop was waiting
          misuse   \* a pcb that the stack had freed was aborted

iperfVars == <<session, udpTask, mbox, stopper, tests, mixed, crossed, misuse>>

\* The search for a slot runs from 1 up to and including MaxSessions, the table
\* from 0 to MaxSessions - 1: the last slot lies behind the table.
Slots == 1..MaxSessions
Kind == {"tcp client", "tcp server", "udp client", "udp server"}
Tcp(s) == session[s].kind \in {"tcp client", "tcp server"}
NoTest == [running |-> FALSE, kind |-> "tcp client", listen |-> FALSE, conn |-> "none",
           timer |-> "none", abort |-> FALSE, error |-> FALSE, first |-> FALSE]

Init ==
  /\ session = [s \in Slots |-> NoTest]
  /\ udpTask = [s \in Slots |-> 0]
  /\ mbox = <<>> /\ stopper = 0 /\ tests = 0 /\ mixed = FALSE
  /\ crossed = {} /\ misuse = FALSE

Message(what, s) == [what |-> what, slot |-> s]
Waiting(s) == {k \in 1..Len(mbox) : mbox[k].slot = s}
\* the start commands sleep until their init has run
CommandReady == stopper = 0 /\ \A k \in 1..Len(mbox) : mbox[k].what # "init"

-----------------------------------------------------------------------------
(* The command thread.                                                         *)

\* iperflwip_{tcp,udp}_{client,server}_start: the first slot that is not running.
IperfStart(kind) ==
  /\ CommandReady /\ tests < MaxIperfs
  /\ \E s \in Slots :
       /\ ~session[s].running /\ \A r \in 1..(s - 1) : session[r].running
       /\ session' = [session EXCEPT ![s] = [NoTest EXCEPT !.running = TRUE, !.kind = kind]]
       /\ mbox' = Append(mbox, Message("init", s))
       /\ mixed' = (mixed \/ udpTask[s] > 0 \/ Waiting(s) # {})
  /\ tests' = tests + 1
  /\ UNCHANGED <<udpTask, stopper, crossed, misuse>>

\* iperflwip_stop: a TCP test or a UDP server is stopped by tcpip_thread.  The
\* parser refuses the number of the slot behind the table.
IperfStop(s) ==
  /\ CommandReady /\ s < MaxSessions /\ session[s].running
  /\ session[s].kind # "udp client"
  /\ mbox' = Append(mbox, Message("stop", s))
  /\ tests < MaxIperfs /\ tests' = tests + 1
  /\ UNCHANGED <<session, udpTask, stopper, mixed, crossed, misuse>>

\* udp_client_stop works on the timer in the command thread.
StopUdpClient(s) ==
  /\ CommandReady /\ s < MaxSessions /\ session[s].running
  /\ session[s].kind = "udp client"
  /\ stopper' = s
  /\ tests < MaxIperfs /\ tests' = tests + 1
  /\ UNCHANGED <<session, udpTask, mbox, mixed, crossed, misuse>>

StopUdpClientEnds ==
  /\ stopper # 0
  /\ session' = [session EXCEPT ![stopper].timer = "none", ![stopper].abort = TRUE]
  /\ mbox' = Append(mbox, Message("report", stopper))
  /\ stopper' = 0
  /\ UNCHANGED <<udpTask, tests, mixed, crossed, misuse>>

-----------------------------------------------------------------------------
(* tcpip_thread: the messages.                                                 *)

Receives(what) == mbox # <<>> /\ Head(mbox).what = what
Running(s) == session[s].running
HasConn(s) == session[s].conn # "none"

\* iperflwip_*_init.  A TCP client that cannot start gives its slot back, and keeps
\* the pointer to a pcb that it closed because it could not be bound or connected.
\* The others stay running, without a pcb, for ever: the UDP ones return, and a TCP
\* server goes on to listen with no pcb, which lwIP refuses.
InitFails ==
  /\ Receives("init")
  /\ LET s == Head(mbox).slot
         client == session[s].kind = "tcp client" IN
     \E conn \in IF client THEN {"none", "closed"} ELSE {"none"} :
       session' = [session EXCEPT ![s].running = ~client, ![s].conn = conn]
  /\ mbox' = Tail(mbox)
  /\ UNCHANGED <<udpTask, stopper, tests, mixed, crossed, misuse>>

InitTcp ==
  /\ Receives("init") /\ Tcp(Head(mbox).slot)
  /\ LET s == Head(mbox).slot IN
     session' = IF session[s].kind = "tcp server" THEN [session EXCEPT ![s].listen = TRUE]
                                                  ELSE [session EXCEPT ![s].conn = "open"]
  /\ mbox' = Tail(mbox)
  /\ UNCHANGED <<udpTask, stopper, tests, mixed, crossed, misuse>>

InitUdp ==
  /\ Receives("init") /\ ~Tcp(Head(mbox).slot)
  /\ LET s == Head(mbox).slot IN
     IF session[s].kind = "udp server"
     THEN session' = [session EXCEPT ![s].conn = "open"] /\ UNCHANGED udpTask
     ELSE \E timer \in {"none", "armed"}, created \in {0, 1} :
            /\ session' = [session EXCEPT ![s].conn = "open", ![s].timer = timer]
            /\ udpTask' = [udpTask EXCEPT ![s] = @ + created]
  /\ mbox' = Tail(mbox)
  /\ UNCHANGED <<stopper, tests, mixed, crossed, misuse>>

\* iperflwip_tcp_stop and iperflwip_udp_server_stop: the end is left to a report.
Stopped(s, error) ==
  [session EXCEPT ![s].timer = "none", ![s].abort = TRUE, ![s].error = error]

StopMessage ==
  /\ Receives("stop")
  /\ LET s == Head(mbox).slot IN
     IF Tcp(s) /\ ~Running(s)
     THEN mbox' = Tail(mbox) /\ UNCHANGED session
     ELSE /\ session' = Stopped(s, FALSE)
          /\ mbox' = Append(Tail(mbox), Message("report", s))
  /\ UNCHANGED <<udpTask, stopper, tests, mixed, crossed, misuse>>

\* Mutant: the listening pcb outlives the test.
ClosedKeepsListen(s) ==
  [session EXCEPT ![s].running = FALSE, ![s].timer = "none", ![s].conn = "none"]

\* iperflwip_tcp_close, iperflwip_udp_client_close, iperflwip_udp_server_close; the
\* pcb of a connection that broke is already gone.
Closed(s) ==
  [session EXCEPT ![s].running = FALSE, ![s].timer = "none", ![s].conn = "none", ![s].listen = FALSE]

\* iperflwip_tcp_close aborts, or closes, the pcb unless it was told of an error
Aborts(s) == Tcp(s) /\ ~session[s].error

\* iperflwip_report: a test without a connection is left as it is, stopped or not;
\* one that goes on has its timer armed again.
Report ==
  /\ Receives("report")
  /\ LET s == Head(mbox).slot IN
     \/ ~(Running(s) /\ HasConn(s)) /\ UNCHANGED <<session, misuse>>
     \/ /\ Running(s) /\ HasConn(s)
        /\ session' = Closed(s)
        /\ misuse' = (misuse \/ (s \notin crossed /\ Aborts(s) /\ session[s].conn # "open"))
     \/ /\ Running(s) /\ HasConn(s) /\ ~session[s].abort
        /\ session' = [session EXCEPT ![s].timer = IF @ = "none" THEN @ ELSE "armed"]
        /\ UNCHANGED misuse
  /\ mbox' = Tail(mbox)
  /\ UNCHANGED <<udpTask, stopper, tests, mixed, crossed>>

\* iperflwip_udp_client_tx: a pcb that was removed is refused by udp_sendto.
Transmit ==
  /\ Receives("tx")
  /\ mbox' = Tail(mbox)
  /\ UNCHANGED <<session, udpTask, stopper, tests, mixed, crossed, misuse>>

\* iperflwip_udp_close, posted by the task as it ends.
UdpClose ==
  /\ Receives("udp close")
  /\ session' = Closed(Head(mbox).slot)
  /\ mbox' = Tail(mbox)
  /\ UNCHANGED <<udpTask, stopper, tests, mixed, crossed, misuse>>

TcpipRuns == InitTcp \/ InitUdp \/ StopMessage \/ Report \/ Transmit \/ UdpClose

-----------------------------------------------------------------------------
(* tcpip_thread: what the peers do.                                            *)

WithTimer(s) == \E timer \in {"none", "armed"} : session' = [session EXCEPT ![s].timer = timer, ![s].first = TRUE]

\* iperflwip_tcp_session_conected, and the first packet of a UDP server.
Connected(s) ==
  /\ session[s].running /\ HasConn(s) /\ ~session[s].first
  /\ session[s].kind \in {"tcp client", "udp server"}
  /\ WithTimer(s)
  /\ UNCHANGED <<udpTask, mbox, stopper, tests, mixed, crossed, misuse>>

\* iperflwip_tcp_accept: a second connection takes the place of the first, whose pcb
\* and timer nobody holds any more.
Accept(s) ==
  /\ session[s].listen
  /\ \E timer \in {"none", "armed"} :
       session' = [session EXCEPT ![s].running = TRUE, ![s].conn = "open", ![s].timer = timer]
  /\ mixed' = (mixed \/ HasConn(s))
  /\ UNCHANGED <<udpTask, mbox, stopper, tests, crossed, misuse>>

\* lwiperf_tcp_poll on an idle connection, the peer's close, the FIN of a UDP client;
\* only the first is looked at.
PeerEnds(s) ==
  /\ Running(s) /\ session[s].conn = "open" /\ session[s].kind # "udp client"
  /\ ~session[s].abort
  /\ session' = Stopped(s, FALSE)
  /\ mbox' = Append(mbox, Message("report", s))
  /\ UNCHANGED <<udpTask, stopper, tests, mixed, crossed, misuse>>

\* iperflwip_tcp_err: the stack has freed the pcb, which the report must not abort;
\* a stop that is waiting clears the mark again.
ConnectionBreaks(s) ==
  /\ Running(s) /\ Tcp(s) /\ session[s].conn = "open"
  /\ session' = [Stopped(s, TRUE) EXCEPT ![s].conn = "freed"]
  /\ mbox' = Append(mbox, Message("report", s))
  /\ crossed' = IF \E k \in Waiting(s) : mbox[k].what = "stop" THEN crossed \cup {s} ELSE crossed
  /\ UNCHANGED <<udpTask, stopper, tests, mixed, misuse>>

-----------------------------------------------------------------------------
(* The timer thread and the task of a UDP client.                              *)

TimerFires(s) ==
  /\ session[s].timer = "armed"
  /\ session' = [session EXCEPT ![s].timer = "fired"]
  /\ mbox' = Append(mbox, Message("report", s))
  /\ UNCHANGED <<udpTask, stopper, tests, mixed, crossed, misuse>>

\* udp_client_task: a packet is posted while the test runs ...
TaskPosts(s) ==
  /\ udpTask[s] > 0 /\ session[s].running
  /\ Len(mbox) < MboxSize
  /\ mbox' = Append(mbox, Message("tx", s))
  /\ UNCHANGED <<session, udpTask, stopper, tests, mixed, crossed, misuse>>

\* ... and the last thing posted is the end.
UdpTaskEnds(s) ==
  /\ udpTask[s] > 0 /\ ~session[s].running
  /\ udpTask' = [udpTask EXCEPT ![s] = @ - 1]
  /\ mbox' = Append(mbox, Message("udp close", s))
  /\ UNCHANGED <<session, stopper, tests, mixed, crossed, misuse>>

Step ==
  \/ \E kind \in Kind : IperfStart(kind)
  \/ \E s \in Slots : IperfStop(s) \/ StopUdpClient(s)
  \/ StopUdpClientEnds
  \/ InitFails \/ InitTcp \/ InitUdp \/ StopMessage \/ Report \/ Transmit \/ UdpClose
  \/ \E s \in Slots : \/ Connected(s) \/ Accept(s) \/ TimerFires(s)
                      \/ TaskPosts(s) \/ UdpTaskEnds(s)
                      \/ PeerEnds(s) \/ ConnectionBreaks(s)

\* Bound: nothing is claimed of what follows a reuse or a second client, and it is
\* not explored.
Next == ~mixed /\ Step

Spec ==
  /\ Init /\ [][Next]_iperfVars
  /\ WF_iperfVars(TcpipRuns) /\ WF_iperfVars(StopUdpClientEnds)
  /\ \A s \in Slots : WF_iperfVars(UdpTaskEnds(s))

-----------------------------------------------------------------------------
\* A test that ended holds nothing of the stack, whoever ended it and in whatever order
\* its timer, its peer and the command asked for it: no listening pcb, no connection
\* and no timer.  A client that never started may point to the pcb it closed itself.
\* Messages and the task of a UDP client may still be there; they find the test ended.
EndedHoldsNothing ==
  ~mixed => \A s \in Slots : ~session[s].running =>
              /\ ~session[s].listen /\ session[s].conn \in {"none", "closed"}
              /\ session[s].timer = "none"

\* A pcb that the stack has freed, or that its own init closed, is not aborted by the
\* report that ends the test, unless a stop command was waiting when the connection
\* broke: it clears is_stop_due_traffic_error (lwip_iperf_examples.c:296).
FreedNotAborted == ~mixed => ~misuse

\* A test with a connection ends once the report that was asked to end it is posted.
IperfStopEnds ==
  \A s \in Slots :
    (/\ Running(s) /\ HasConn(s) /\ session[s].abort
     /\ \E k \in Waiting(s) : mbox[k].what = "report") ~> (~Running(s) \/ mixed)
=============================================================================
