----------------------------- MODULE SocketThreads -----------------------------
(* socket_examples.c: the send and recv commands run their traffic in spawned  *)
(* threads, one per entry of gSpawThread, or, for a counted transfer, in the   *)
(* command thread itself.  The kill command tells a thread to stop, waits for  *)
(* its signal and deletes it.                                                  *)
EXTENDS Integers, FiniteSets, FiniteSetsExt

CONSTANTS MaxEntries, \* MAX_THREAD_ENTRY
          MaxSockets, \* descriptors lwIP has
          MaxStarts   \* bound: threads started in a behaviour

VARIABLES entry,   \* gSpawThread: running, and the thread whose param, sync and control block it holds
          thread,  \* the threads by number: kind, entry, place, and how the call they are in waits
          sockets, \* descriptor -> who opened it and whether it has a receive time-out
          killer,  \* the kill command: its place and the entry it destroys
          token,   \* the threads whose sync object was signalled
          frozen,  \* interrupts and scheduler stay off: a critical section was not left
          started  \* how many threads were started

sockVars == <<entry, thread, sockets, killer, token, frozen, started>>

Entries == 0..(MaxEntries - 1)
Descriptors == 0..(MaxSockets - 1)
Threads == 1..MaxStarts
\* A server of the last kind is in non-blocking mode (nb), which only its accept minds.
Kinds == {"udp client", "tcp client", "udp server", "tcp server", "tcp server nb"}
Closed == [owner |-> 0, ends |-> TRUE]
Leaked == MaxStarts + 1  \* an owner that will never close its descriptor
NoEntry == [running |-> FALSE, thread |-> 0]
NoThread == [kind |-> "udp client", id |-> 0, at |-> "none", wait |-> "no"]
IdleKiller == [at |-> "idle", id |-> 0]

Init ==
  /\ entry = [i \in Entries |-> NoEntry]
  /\ thread = [t \in Threads |-> NoThread]
  /\ sockets = [d \in Descriptors |-> Closed]
  /\ killer = IdleKiller
  /\ token = {} /\ frozen = FALSE /\ started = 0

FreeSockets == {d \in Descriptors : sockets[d].owner = 0}
Owned(t) == {d \in Descriptors : sockets[d].owner = t}
\* lwip_socket takes the lowest free descriptor; only the caller's own receive
\* time-out ends a read that finds nothing.
OpenBy(t, ends) == [sockets EXCEPT ![Min(FreeSockets)] = [owner |-> t, ends |-> ends]]
ClosedBy(t) == [d \in Descriptors |-> IF sockets[d].owner = t THEN Closed ELSE sockets[d]]
Goto(t, at) == thread' = [thread EXCEPT ![t].at = at, ![t].wait = "no"]

-----------------------------------------------------------------------------
(* The command thread: send, recv and kill.                                    *)

\* socket_ThreadExecute: the first entry that is not running; a thread or sync
\* object that cannot be created returns inside the critical section.
ThreadExecute(kind) ==
  /\ ~frozen /\ killer.at = "idle" /\ started < MaxStarts
  /\ \E i \in Entries :
       /\ ~entry[i].running /\ \A j \in 0..(i - 1) : entry[j].running
       /\ \/ /\ frozen' = TRUE
             /\ UNCHANGED <<entry, thread, started>>
          \/ LET t == started + 1 IN
             /\ entry' = [entry EXCEPT ![i] = [running |-> TRUE, thread |-> t]]
             /\ thread' = [thread EXCEPT ![t] = [kind |-> kind, id |-> i, at |-> "open", wait |-> "no"]]
             /\ started' = t
             /\ UNCHANGED frozen
  /\ UNCHANGED <<sockets, killer, token>>

\* Client and Server with a count open and close a descriptor of their own, but a
\* transfer that fails in Client returns before its lwip_close.
CountedTransferFails ==
  /\ ~frozen /\ killer.at = "idle" /\ FreeSockets # {}
  /\ sockets' = OpenBy(Leaked, TRUE)
  /\ UNCHANGED <<entry, thread, killer, token, frozen, started>>

\* socket_ThreadDestroy clears the flag first; an entry that is not running is refused.
KillBegin(i) ==
  /\ ~frozen /\ killer.at = "idle" /\ entry[i].running
  /\ entry' = [entry EXCEPT ![i].running = FALSE]
  /\ killer' = [at |-> "force", id |-> i]
  /\ UNCHANGED <<thread, sockets, token, frozen, started>>

\* "Force timeout": the entry's sock was never set, so the option is set on
\* descriptor 0, and a receive time-out of zero means none.
KillForce ==
  /\ ~frozen /\ killer.at = "force"
  /\ sockets' = IF sockets[0].owner = 0 THEN sockets ELSE [sockets EXCEPT ![0].ends = FALSE]
  /\ killer' = [killer EXCEPT !.at = "wait"]
  /\ UNCHANGED <<entry, thread, token, frozen, started>>

\* what is deleted and freed once the thread has signalled
Deletes ==
  LET t == entry[killer.id].thread IN
  /\ thread' = [thread EXCEPT ![t].at = "deleted"]
  /\ token' = token \ {t}
  /\ entry' = [entry EXCEPT ![killer.id] = NoEntry]
  /\ killer' = IdleKiller
  /\ UNCHANGED <<sockets, frozen, started>>

\* Mutant: the thread is deleted without waiting for it.
KillEndsEarly == ~frozen /\ killer.at = "wait" /\ Deletes

KillEnds == ~frozen /\ killer.at = "wait" /\ entry[killer.id].thread \in token /\ Deletes

\* A thread waits for a client or for the peer without an end: its call has no
\* time-out, or its accept is repeated for as long as nobody connects.
WaitsForPeer(t) ==
  \/ thread[t].at \in {"accept", "io"} /\ thread[t].wait = "endless"
  \/ thread[t].at = "accept" /\ thread[t].kind = "tcp server nb"

\* A signal that does not come within a minute is an assertion, which never returns;
\* every other call of the threads takes 20 seconds at most (RECEIVE_TIMEOUT).
KillAsserts ==
  /\ ~frozen /\ killer.at = "wait"
  /\ entry[killer.id].thread \notin token /\ WaitsForPeer(entry[killer.id].thread)
  /\ killer' = [killer EXCEPT !.at = "asserted"]
  /\ UNCHANGED <<entry, thread, sockets, token, frozen, started>>

-----------------------------------------------------------------------------
(* socket_ServerExecute and socket_ClientExecute.                              *)

Runs(t, at) == ~frozen /\ thread[t].at = at
InCall(t, at) == Runs(t, at) /\ thread[t].wait # "no"
ToldToRun(t) == entry[thread[t].id].running
IsTcpServer(t) == thread[t].kind \in {"tcp server", "tcp server nb"}

\* Mutant: the descriptor of a socket that cannot be bound is not closed.
OpensLeaks(t) ==
  /\ Runs(t, "open")
  /\ \/ FreeSockets = {} /\ Goto(t, "wait") /\ UNCHANGED sockets
     \/ /\ FreeSockets # {}
        /\ sockets' = OpenBy(t, TRUE)
        /\ Goto(t, IF IsTcpServer(t) THEN "accept" ELSE "test") \/ Goto(t, "wait")
  /\ UNCHANGED <<entry, killer, token, frozen, started>>

\* A socket, with a receive time-out; one that cannot be bound is closed.
Opens(t) ==
  /\ Runs(t, "open")
  /\ \/ FreeSockets = {} /\ Goto(t, "wait") /\ UNCHANGED sockets
     \/ /\ FreeSockets # {}
        /\ sockets' = OpenBy(t, TRUE)
        /\ Goto(t, IF IsTcpServer(t) THEN "accept" ELSE "test")
     \/ FreeSockets # {} /\ Goto(t, "wait") /\ UNCHANGED sockets
  /\ UNCHANGED <<entry, killer, token, frozen, started>>

\* The loops of socket_ServerRecevicer and socket_ClientTransceiver.
Tests(t) ==
  /\ Runs(t, "test")
  /\ Goto(t, IF ToldToRun(t) THEN "io" ELSE "close")
  /\ UNCHANGED <<entry, sockets, killer, token, frozen, started>>

\* lwip_accept, lwip_read or lwip_write: how long it waits is settled when it is
\* called.  The write of a TCP client waits for a peer that does not read.
Calls(t) ==
  /\ \/ Runs(t, "accept") \/ Runs(t, "io")
  /\ thread[t].wait = "no"
  /\ LET bounded == \/ thread[t].kind = "udp client"
                    \/ thread[t].kind # "tcp client" /\ \A d \in Owned(t) : sockets[d].ends IN
     thread' = [thread EXCEPT ![t].wait = IF bounded THEN "bounded" ELSE "endless"]
  /\ UNCHANGED <<entry, sockets, killer, token, frozen, started>>

\* socket_ServerTCP: the descriptor of the connection has no receive time-out of
\* its own.
AcceptsClient(t) ==
  /\ InCall(t, "accept") /\ FreeSockets # {}
  /\ sockets' = OpenBy(t, FALSE)
  /\ Goto(t, "test")
  /\ UNCHANGED <<entry, killer, token, frozen, started>>

\* Data, or an error that ends the loop; an accept that fails ends the server.
Transfers(t) ==
  /\ \/ InCall(t, "io") /\ (Goto(t, "test") \/ Goto(t, "close"))
     \/ InCall(t, "accept") /\ Goto(t, "close")
  /\ UNCHANGED <<entry, sockets, killer, token, frozen, started>>

\* A read that finds nothing ends with the time-out, and in non-blocking mode the
\* server with it; an accept ends the server, but in non-blocking mode it is repeated,
\* whatever the flag says.
TimesOut(t) ==
  /\ thread[t].wait = "bounded"
  /\ \/ InCall(t, "io") /\ (Goto(t, "test") \/ Goto(t, "close"))
     \/ InCall(t, "accept") /\ Goto(t, IF thread[t].kind = "tcp server nb" THEN "accept" ELSE "close")
  /\ UNCHANGED <<entry, sockets, killer, token, frozen, started>>

Closes(t) ==
  /\ Runs(t, "close")
  /\ sockets' = ClosedBy(t)
  /\ Goto(t, "wait")
  /\ UNCHANGED <<entry, killer, token, frozen, started>>

\* "Please close process": the thread polls its flag, then signals the sync
\* object of its entry and spins until it is deleted.
Signals(t) ==
  /\ Runs(t, "wait") /\ ~ToldToRun(t)
  /\ token' = token \cup {t}
  /\ Goto(t, "done")
  /\ UNCHANGED <<entry, sockets, killer, frozen, started>>

\* what a thread does by itself, whether or not there is traffic
ThreadStep(t) == Opens(t) \/ Tests(t) \/ Calls(t) \/ TimesOut(t) \/ Closes(t) \/ Signals(t)
KillStep == KillForce \/ KillEnds

\* cmdSendCallback and cmdRecvCallback without a count; cmdKillCallback.
SendCmd == \E kind \in {"udp client", "tcp client"} : ThreadExecute(kind)
RecvCmd == \E kind \in {"udp server", "tcp server", "tcp server nb"} : ThreadExecute(kind)
KillCmd == \E i \in Entries : KillBegin(i)

Next ==
  \/ SendCmd \/ RecvCmd \/ CountedTransferFails
  \/ KillCmd \/ KillForce \/ KillEnds \/ KillAsserts
  \/ \E t \in Threads :
       \/ Opens(t) \/ Tests(t) \/ Calls(t) \/ AcceptsClient(t) \/ Transfers(t)
       \/ TimesOut(t) \/ Closes(t) \/ Signals(t)

\* Threads are scheduled; nothing makes a peer connect, send or read.
Spec ==
  /\ Init /\ [][Next]_sockVars
  /\ WF_sockVars(KillStep)
  /\ \A t \in Threads : WF_sockVars(ThreadStep(t))

-----------------------------------------------------------------------------
\* A thread is deleted only after it has ended its loop and closed its sockets: "Now
\* the thread finish and we can delete the thread" (socket_examples.c:271).
DeletesFinished == [][\A t \in Threads :
  (thread[t].at # "deleted" /\ thread'[t].at = "deleted" => thread[t].at = "done")]_sockVars

\* Every open descriptor has a thread that will close it; those of counted
\* transfers that failed are lost (socket_examples.c:1646).
SocketsOwned ==
  \A d \in Descriptors : \/ sockets[d].owner \in {0, Leaked}
                         \/ thread[sockets[d].owner].at \in {"accept", "test", "io", "close"}

\* A kill returns without an assertion, unless the system froze or the thread is in a
\* call that only its peer can end.
KillReturns ==
  killer.at = "force" ~>
    \/ killer.at = "idle" \/ frozen
    \/ killer.at \in {"wait", "asserted"} /\ WaitsForPeer(entry[killer.id].thread)
=============================================================================
