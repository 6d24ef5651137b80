---------------------------- MODULE WlanConnProofs ----------------------------
(***************************************************************************)
(* Proofs about WlanConn for any table of known networks, any set of       *)
(* commands and any number of them and of lost links.                      *)
(***************************************************************************)
EXTENDS MCWlanConn, SequenceTheorems, TLAPS

CmdSteps == {"begin", "addIf", "wait", "call", "test", "leave", "clear", "retest",
             "return", "prompt", "assert"}
EvtSteps == {"idle", "netUp", "netDown", "signalDisconnect", "signalConnect"}

\* The types of both threads' variables and of the driver's.
TypeInv ==
  /\ status \in SUBSET Bits
  /\ roles \in SUBSET {"STA", "AP"}
  /\ netif \in [added : BOOLEAN, up : BOOLEAN]
  /\ sync \in [SyncObjs -> BOOLEAN]
  /\ cmd \in [op : AllCommands, at : CmdSteps, net : Int, ret : Int,
              rmw : Seq(RmwOp), reg : SUBSET Bits]
  /\ evt \in [at : EvtSteps, rmw : Seq(RmwOp), reg : SUBSET Bits]
  /\ drv \in {"off", "idle", "joining", "joined"}
  /\ evq \in Seq(Events)

\* The last event that changes the interface, if any waits.
Ends(e) == \E i \in 1..Len(evq) :
             evq[i] = e /\ \A j \in 1..Len(evq) : j > i => evq[j] = "connectFailed"
Untouched == \A i \in 1..Len(evq) : evq[i] = "connectFailed"

\* The interface is up once the events that wait are handled.
WillBeUp ==
  \/ Ends("connect")
  \/ Untouched /\ (evt.at = "netUp" \/ (evt.at # "netDown" /\ netif.up))

\* The command removed the interface and has not left the role yet.
Removed == cmd.op = "roledown" /\ cmd.at \in {"wait", "call"}

RoleTrue == "STA" \in roles <=> drv # "off"

InterfaceFollows ==
  /\ WillBeUp => drv = "joined"
  /\ drv = "joined" /\ ~Removed => WillBeUp

\* The interface of a station with a role is there, but for a role that goes down.
InterfaceAdded == "STA" \in roles /\ ~Removed => netif.added

\* While a role comes up nothing is under way, and its signal is not missing.
RoleUpAlone ==
  cmd.op = "roleup" /\ cmd.at \in {"addIf", "wait", "call"} =>
    /\ evq = <<>> /\ evt.at = "idle" /\ "STA" \notin roles
    /\ cmd.at # "addIf" => netif.added
    /\ cmd.at = "wait" => sync["roleUp"]

RoleDownSignalled == cmd.op = "roledown" /\ cmd.at = "wait" => sync["roleDown"]

DisconnectAnswered ==
  cmd.op = "disconnect" /\ cmd.at = "wait" => sync["disconnect"] \/ DisconnectPending

\* Wlan_Connect is only called with a role.
ConnectHasRole == cmd.op = "connect" /\ cmd.at = "call" => "STA" \in roles

IInv ==
  /\ TypeInv /\ RoleTrue /\ InterfaceFollows /\ InterfaceAdded
  /\ ConnectHasRole /\ RoleUpAlone /\ RoleDownSignalled /\ DisconnectAnswered /\ NeverAsserts

\* A step for any set of commands.
Step == Command \/ EventThread \/ Driver \/ \E c \in AllCommands : CmdTyped(c)

-----------------------------------------------------------------------------
(* The queue of events. *)

\* What appending a driver event changes of the queue's account.
LEMMA AppendEvent ==
  ASSUME evq \in Seq(Events), NEW e \in Events, evq' = Append(evq, e)
  PROVE  /\ evq' \in Seq(Events)
         /\ Untouched' <=> (e = "connectFailed" /\ Untouched)
         /\ \A c \in {"connect", "disconnect"} :
              Ends(c)' <=> IF e = "connectFailed" THEN Ends(c) ELSE c = e
         /\ \A i \in 1..Len(evq) : i \in 1..Len(evq') /\ evq'[i] = evq[i]
         /\ Len(evq') \in 1..Len(evq') /\ evq'[Len(evq')] = e
<1> DEFINE n == Len(evq)
<1>1. /\ evq' \in Seq(Events) /\ Len(evq') = n + 1 /\ n \in Nat
      /\ \A i \in 1..n : evq'[i] = evq[i]
      /\ evq'[n + 1] = e
  BY AppendProperties, LenProperties
<1>2. Untouched' <=> (e = "connectFailed" /\ Untouched)
  BY <1>1 DEF Untouched
<1>3. ASSUME NEW c \in {"connect", "disconnect"}, e = "connectFailed"
      PROVE  Ends(c)' <=> Ends(c)
  BY <1>1, <1>3 DEF Ends
<1>4. ASSUME NEW c \in {"connect", "disconnect"}, e # "connectFailed"
      PROVE  Ends(c)' <=> c = e
  BY <1>1, <1>4 DEF Ends
<1>5. QED BY <1>1, <1>2, <1>3, <1>4

\* What taking the first event changes of it.
LEMMA TailEvent ==
  ASSUME evq \in Seq(Events), evq # <<>>, evq' = Tail(evq)
  PROVE  /\ evq' \in Seq(Events) /\ Head(evq) \in Events
         /\ Untouched <=> (Head(evq) = "connectFailed" /\ Untouched')
         /\ \A c \in {"connect", "disconnect"} :
              Ends(c) <=> Ends(c)' \/ (c = Head(evq) /\ Untouched')
         /\ \A i \in 1..Len(evq) : evq[i] = Head(evq) \/ \E j \in 1..Len(evq') : evq'[j] = evq[i]
<1> DEFINE n == Len(evq)
<1>1. /\ evq' \in Seq(Events) /\ Len(evq') = n - 1 /\ n \in Nat /\ n > 0
      /\ Head(evq) = evq[1] /\ Head(evq) \in Events
      /\ \A i \in 1..(n - 1) : evq'[i] = evq[i + 1]
  BY HeadTailProperties, LenProperties, EmptySeq
<1>2. \A i \in 1..n : i = 1 \/ (i - 1 \in 1..(n - 1) /\ evq'[i - 1] = evq[i])
  BY <1>1
<1> HIDE DEF n
<1>3. Untouched <=> (Head(evq) = "connectFailed" /\ Untouched')
  BY <1>1, <1>2 DEF Untouched, n
<1>4. ASSUME NEW c \in {"connect", "disconnect"}, Ends(c)
      PROVE  Ends(c)' \/ (c = Head(evq) /\ Untouched')
  <2>1. PICK i \in 1..n : evq[i] = c /\ \A j \in 1..n : j > i => evq[j] = "connectFailed"
    BY <1>4 DEF Ends, n
  <2>2. \A k \in 1..(n - 1) : k + 1 > i => evq'[k] = "connectFailed"
    BY <1>1, <2>1
  <2>3. CASE i = 1
    BY <1>1, <2>1, <2>2, <2>3 DEF Untouched
  <2>4. CASE i # 1
    <3>1. i - 1 \in 1..(n - 1) /\ evq'[i - 1] = c
      BY <1>2, <2>1, <2>4
    <3>2. \A k \in 1..(n - 1) : k > i - 1 => evq'[k] = "connectFailed"
      BY <1>1, <2>2
    <3>3. QED BY <1>1, <3>1, <3>2 DEF Ends
  <2>5. QED BY <2>3, <2>4
<1>5. ASSUME NEW c \in {"connect", "disconnect"}, Ends(c)' PROVE Ends(c)
  <2>1. PICK k \in 1..(n - 1) :
          evq'[k] = c /\ \A j \in 1..(n - 1) : j > k => evq'[j] = "connectFailed"
    BY <1>1, <1>5 DEF Ends
  <2>2. k + 1 \in 1..n /\ evq[k + 1] = c
    BY <1>1, <2>1
  <2>3. \A j \in 1..n : j > k + 1 => evq[j] = "connectFailed"
    <3> SUFFICES ASSUME NEW j \in 1..n, j > k + 1 PROVE evq[j] = "connectFailed"
      OBVIOUS
    <3>1. j - 1 \in 1..(n - 1) /\ j - 1 > k /\ evq'[j - 1] = evq[j]
      BY <1>1, <1>2, <2>1
    <3>2. QED BY <2>1, <3>1
  <2>4. QED BY <2>2, <2>3 DEF Ends, n
<1>6. ASSUME NEW c \in {"connect", "disconnect"}, c = Head(evq), Untouched' PROVE Ends(c)
  <2>1. \A j \in 1..n : j > 1 => evq[j] = "connectFailed"
    <3>1. \A k \in 1..(n - 1) : evq'[k] = "connectFailed"
      BY <1>1, <1>6 DEF Untouched
    <3>2. ASSUME NEW j \in 1..n, j > 1 PROVE evq[j] = "connectFailed"
      <4>1. j - 1 \in 1..(n - 1) /\ j # 1
        BY <1>1, <3>2
      <4>2. j = 1 \/ evq'[j - 1] = evq[j]
        BY <1>2, <3>2, Zenon
      <4>3. QED BY <3>1, <3>2, <4>1, <4>2
    <3>3. QED BY <3>2
  <2>2. 1 \in 1..n /\ evq[1] = c
    BY <1>1, <1>6
  <2>3. QED BY <2>1, <2>2 DEF Ends, n
<1>7. \A i \in 1..n : evq[i] = Head(evq) \/ \E j \in 1..Len(evq') : evq'[j] = evq[i]
  BY <1>1, <1>2
<1>8. QED BY <1>1, <1>3, <1>4, <1>5, <1>6, <1>7 DEF n

\* With no event waiting no command's end is under way.
LEMMA NoEvents == evq = <<>> => Untouched /\ \A c : ~Ends(c)
<1>1. Len(<<>>) = 0
  OBVIOUS
<1>2. QED BY <1>1 DEF Untouched, Ends
-----------------------------------------------------------------------------
(* Types. *)

\* The rest of a list of updates, and the list with its head loaded, are lists of updates.
LEMMA RmwTypes ==
  ASSUME NEW w \in Seq(RmwOp), w # <<>>
  PROVE  /\ Head(w) \in RmwOp /\ Tail(w) \in Seq(RmwOp)
         /\ <<[Head(w) EXCEPT !.loaded = TRUE]>> \o Tail(w) \in Seq(RmwOp)
<1>1. Head(w) \in RmwOp /\ Tail(w) \in Seq(RmwOp)
  BY HeadTailProperties
<1>2. [Head(w) EXCEPT !.loaded = TRUE] \in RmwOp
  BY <1>1 DEF RmwOp
<1>3. <<[Head(w) EXCEPT !.loaded = TRUE]>> \in Seq(RmwOp)
  BY <1>2
<1>4. QED BY <1>1, <1>3, ConcatProperties

\* Setting and clearing a bit are updates.
LEMMA SetClrTypes ==
  ASSUME NEW b \in Bits
  PROVE  Set(b) \in RmwOp /\ Clr(b) \in RmwOp
  BY DEF Set, Clr, RmwOp

\* The lists of bits a handler gives its thread to write.
LEMMA RmwListTypes ==
  /\ <<Clr("STA")>> \in Seq(RmwOp) /\ <<Set("STA")>> \in Seq(RmwOp)
  /\ <<Clr("STA"), Clr("IP")>> \in Seq(RmwOp)
  /\ <<Clr("AP"), Clr("PEER")>> \in Seq(RmwOp) /\ <<Set("AP"), Set("IP")>> \in Seq(RmwOp)
  /\ <<Clr("AP"), Clr("PEER"), Clr("IP")>> \in Seq(RmwOp)
<1>1. /\ Clr("STA") \in RmwOp /\ Clr("IP") \in RmwOp /\ Clr("AP") \in RmwOp
      /\ Clr("PEER") \in RmwOp /\ Set("STA") \in RmwOp /\ Set("AP") \in RmwOp
      /\ Set("IP") \in RmwOp
  BY SetClrTypes DEF Bits
<1>2. QED BY <1>1

CmdType == [op : AllCommands, at : CmdSteps, net : Int, ret : Int,
            rmw : Seq(RmwOp), reg : SUBSET Bits]
EvtType == [at : EvtSteps, rmw : Seq(RmwOp), reg : SUBSET Bits]

\* The ways a step rewrites the record of a thread.
LEMMA CmdForms ==
  ASSUME cmd \in CmdType
  PROVE  /\ \A a \in CmdSteps : [cmd EXCEPT !.at = a] \in CmdType
         /\ \A a \in CmdSteps, r \in Int : [cmd EXCEPT !.at = a, !.ret = r] \in CmdType
         /\ \A a \in CmdSteps, w \in Seq(RmwOp) : [cmd EXCEPT !.at = a, !.rmw = w] \in CmdType
         /\ \A a \in CmdSteps, r \in Int, w \in Seq(RmwOp) :
              [cmd EXCEPT !.at = a, !.ret = r, !.rmw = w] \in CmdType
         /\ \A w \in Seq(RmwOp), g \in SUBSET Bits : [cmd EXCEPT !.rmw = w, !.reg = g] \in CmdType
         /\ \A w \in Seq(RmwOp), g \in SUBSET Bits : [cmd EXCEPT !.reg = g, !.rmw = w] \in CmdType
         /\ \A a \in CmdSteps, n \in Int : [cmd EXCEPT !.at = a, !.net = n] \in CmdType
         /\ \A c \in AllCommands, a \in CmdSteps : [cmd EXCEPT !.op = c, !.at = a] \in CmdType
         /\ \A c \in AllCommands, a \in CmdSteps, n \in Int :
              [cmd EXCEPT !.op = c, !.at = a, !.net = n] \in CmdType
  BY DEF CmdType

\* The forms the event thread's record takes.
LEMMA EvtForms ==
  ASSUME evt \in EvtType
  PROVE  /\ \A a \in EvtSteps : [evt EXCEPT !.at = a] \in EvtType
         /\ \A a \in EvtSteps, w \in Seq(RmwOp) : [evt EXCEPT !.at = a, !.rmw = w] \in EvtType
         /\ \A w \in Seq(RmwOp), g \in SUBSET Bits : [evt EXCEPT !.rmw = w, !.reg = g] \in EvtType
         /\ \A w \in Seq(RmwOp), g \in SUBSET Bits : [evt EXCEPT !.reg = g, !.rmw = w] \in EvtType
  BY DEF EvtType

\* Every step keeps the type of the command thread.
LEMMA CmdTypeStep == TypeInv /\ [Step]_vars => cmd' \in CmdType
<1> SUFFICES ASSUME TypeInv, [Step]_vars PROVE cmd' \in CmdType
  OBVIOUS
<1>0. /\ cmd \in CmdType /\ cmd.rmw \in Seq(RmwOp) /\ status \in SUBSET Bits
      /\ cmd.net + 1 \in Int /\ NNets + 1 \in Int /\ 0 \in Int /\ -1 \in Int
  BY WlanAssumption DEF TypeInv, CmdType
<1>1. {} \in SUBSET Bits
  OBVIOUS
<1>2. /\ "begin" \in CmdSteps /\ "addIf" \in CmdSteps /\ "wait" \in CmdSteps
      /\ "call" \in CmdSteps /\ "test" \in CmdSteps /\ "leave" \in CmdSteps
      /\ "clear" \in CmdSteps /\ "retest" \in CmdSteps /\ "return" \in CmdSteps
      /\ "prompt" \in CmdSteps /\ "assert" \in CmdSteps
      /\ "connect" \in AllCommands /\ Commands \subseteq AllCommands
  BY WlanAssumption DEF CmdSteps, AllCommands
<1>01. (Return(0) => cmd' \in CmdType) /\ (Return(-1) => cmd' \in CmdType)
  <2>1. [cmd EXCEPT !.at = "return", !.ret = 0] \in CmdType
    BY <1>0, <1>2, CmdForms
  <2>2. [cmd EXCEPT !.at = "return", !.ret = -1] \in CmdType
    BY <1>0, <1>2, CmdForms
  <2>3. QED BY <2>1, <2>2 DEF Return
<1>02. /\ [cmd EXCEPT !.at = "addIf", !.rmw = <<Clr("STA")>>] \in CmdType
       /\ [cmd EXCEPT !.at = "call", !.rmw = <<Clr("AP"), Clr("PEER")>>] \in CmdType
       /\ [cmd EXCEPT !.at = "return", !.ret = 0, !.rmw = <<Clr("STA"), Clr("IP")>>] \in CmdType
       /\ [cmd EXCEPT !.at = "return", !.ret = 0, !.rmw = <<Set("AP"), Set("IP")>>] \in CmdType
       /\ [cmd EXCEPT !.at = "return", !.ret = 0,
                      !.rmw = <<Clr("AP"), Clr("PEER"), Clr("IP")>>] \in CmdType
  BY <1>0, <1>2, RmwListTypes, CmdForms, Zenon
<1>3. CASE RoleUp
  <2>1. CASE RoleUpBegin
    BY <1>0, <1>01, <1>02, <2>1 DEF RoleUpBegin
  <2>2. CASE RoleUpAddIf
    BY <1>0, <1>01, <1>2, <2>2, CmdForms, Zenon DEF RoleUpAddIf, Goto
  <2>3. CASE RoleUpWait
    BY <1>0, <1>01, <1>2, <2>3, CmdForms, Zenon DEF RoleUpWait, Goto
  <2>4. CASE RoleUpCall
    BY <1>0, <1>01, <1>2, <2>4, CmdForms, Zenon DEF RoleUpCall, Goto
  <2>5. QED BY <1>3, <2>1, <2>2, <2>3, <2>4 DEF RoleUp
<1>4. CASE RoleDown
  <2>1. CASE RoleDownBegin
    BY <1>0, <1>01, <1>2, <2>1, CmdForms, Zenon DEF RoleDownBegin, Goto
  <2>2. CASE RoleDownWait
    BY <1>0, <1>01, <1>2, <2>2, CmdForms, Zenon DEF RoleDownWait, Goto
  <2>3. CASE RoleDownCall
    BY <1>0, <1>01, <1>02, <2>3 DEF RoleDownCall
  <2>4. QED BY <1>4, <2>1, <2>2, <2>3 DEF RoleDown
<1>5. CASE Connect
  <2>1. CASE ConnectBegin
    BY <1>0, <1>01, <1>2, <2>1, CmdForms, Zenon DEF ConnectBegin, Goto
  <2>2. CASE ConnectCall
    BY <1>0, <1>01, <1>2, <2>2, CmdForms, Zenon DEF ConnectCall, Goto
  <2>3. CASE ConnectTest
    BY <1>0, <1>01, <1>2, <2>3, CmdForms, Zenon DEF ConnectTest, Goto
  <2>4. CASE ConnectLeave
    BY <1>0, <1>01, <1>2, <2>4, CmdForms, Zenon DEF ConnectLeave, Goto
  <2>5. CASE ConnectClear
    BY <1>0, <1>01, <1>2, <2>5, CmdForms, Zenon DEF ConnectClear, Goto
  <2>6. CASE ConnectRetest
    BY <1>0, <1>01, <1>2, <2>6, CmdForms, Zenon DEF ConnectRetest, Goto
  <2>7. CASE ConnectWait
    BY <1>0, <1>01, <1>2, <2>7, CmdForms, Zenon DEF ConnectWait, Goto
  <2>8. QED BY <1>5, <2>1, <2>2, <2>3, <2>4, <2>5, <2>6, <2>7 DEF Connect
<1>6. CASE Disconnect
  <2>1. CASE DisconnectBegin
    BY <1>0, <1>01, <1>2, <2>1, CmdForms, Zenon DEF DisconnectBegin, Goto
  <2>2. CASE DisconnectWait
    BY <1>0, <1>01, <1>2, <2>2, CmdForms, Zenon DEF DisconnectWait, Goto
  <2>3. QED BY <1>6, <2>1, <2>2 DEF Disconnect
<1>7. CASE ApRole
  <2>1. CASE ApUpBegin
    BY <1>0, <1>01, <1>02, <2>1 DEF ApUpBegin
  <2>2. CASE ApUpCall
    BY <1>0, <1>01, <1>02, <2>2 DEF ApUpCall
  <2>3. CASE ApDownCall
    BY <1>0, <1>01, <1>02, <2>3 DEF ApDownCall
  <2>4. QED BY <1>7, <2>1, <2>2, <2>3 DEF ApRole
<1>8. CASE CmdLoad
  BY <1>0, <1>8, RmwTypes, CmdForms, Zenon DEF CmdLoad, Load
<1>9. CASE CmdStore
  BY <1>0, <1>1, <1>9, RmwTypes, CmdForms, Zenon DEF CmdStore
<1>10. CASE CmdReturn
  BY <1>0, <1>2, <1>10, CmdForms, Zenon DEF CmdReturn
<1>11. ASSUME NEW c \in AllCommands, CmdTyped(c) PROVE cmd' \in CmdType
  BY <1>0, <1>2, <1>11, CmdForms, Zenon DEF CmdTyped
<1>12. CASE EventThread \/ Driver \/ UNCHANGED vars
  BY <1>0, <1>12
     DEF EventThread, Driver, vars, EvtLoad, EvtStore, EvtBegin, EvtNetUp, EvtNetDown,
         EvtSignalDisconnect, EvtSignalConnect, Joins, JoinFails, LinkLost
<1>13. QED
  BY <1>3, <1>4, <1>5, <1>6, <1>7, <1>8, <1>9, <1>10, <1>11, <1>12 DEF Step, Command

\* Every step keeps the type of the event thread.
LEMMA EvtTypeStep == TypeInv /\ [Step]_vars => evt' \in EvtType
<1> SUFFICES ASSUME TypeInv, [Step]_vars PROVE evt' \in EvtType
  OBVIOUS
<1>0. /\ evt \in EvtType /\ evt.rmw \in Seq(RmwOp) /\ status \in SUBSET Bits
      /\ {} \in SUBSET Bits
  BY DEF TypeInv, EvtType
<1>1. /\ "idle" \in EvtSteps /\ "netUp" \in EvtSteps /\ "netDown" \in EvtSteps
      /\ "signalDisconnect" \in EvtSteps /\ "signalConnect" \in EvtSteps
  BY DEF EvtSteps
<1>2. CASE EvtLoad
  BY <1>0, <1>2, RmwTypes, EvtForms, Zenon DEF EvtLoad, Load
<1>3. CASE EvtStore
  BY <1>0, <1>3, RmwTypes, EvtForms, Zenon DEF EvtStore
<1>4. CASE EvtBegin
  <2>1. Head(evq) \in Events
    BY <1>4, TailEvent DEF EvtBegin, TypeInv
  <2>2. CASE Head(evq) = "connect"
    <3>1. evt' = [evt EXCEPT !.at = "netUp", !.rmw = <<Set("STA")>>]
      BY <1>4, <2>2 DEF EvtBegin
    <3>2. QED BY <1>0, <1>1, <3>1, RmwListTypes, EvtForms, Zenon
  <2>3. CASE Head(evq) = "connectFailed"
    <3>1. evt' = [evt EXCEPT !.at = "signalConnect"]
      BY <1>4, <2>3 DEF EvtBegin
    <3>2. QED BY <1>0, <1>1, <3>1, EvtForms, Zenon
  <2>4. CASE Head(evq) = "disconnect"
    <3>1. evt' = [evt EXCEPT !.at = "netDown", !.rmw = <<Clr("STA"), Clr("IP")>>]
      BY <1>4, <2>4 DEF EvtBegin
    <3>2. QED BY <1>0, <1>1, <3>1, RmwListTypes, EvtForms, Zenon
  <2>5. QED BY <2>1, <2>2, <2>3, <2>4 DEF Events
<1>5. CASE EvtNetUp \/ EvtNetDown \/ EvtSignalDisconnect \/ EvtSignalConnect
  BY <1>0, <1>1, <1>5, EvtForms, Zenon
     DEF EvtNetUp, EvtNetDown, EvtSignalDisconnect, EvtSignalConnect
<1>6. CASE UNCHANGED evt
  BY <1>0, <1>6
<1>7. CASE Command \/ Driver \/ \E c \in AllCommands : CmdTyped(c)
  BY <1>6, <1>7
     DEF Command, RoleUp, RoleDown, Connect, Disconnect, ApRole, Driver, RoleUpBegin,
         RoleUpAddIf, RoleUpWait, RoleUpCall, RoleDownBegin, RoleDownWait, RoleDownCall,
         ConnectBegin, ConnectCall, ConnectTest, ConnectLeave, ConnectClear, ConnectRetest,
         ConnectWait, DisconnectBegin, DisconnectWait, ApUpBegin, ApUpCall, ApDownCall,
         CmdLoad, CmdStore, CmdReturn, CmdTyped, Joins, JoinFails, LinkLost
<1>8. QED
  BY <1>2, <1>3, <1>4, <1>5, <1>6, <1>7 DEF Step, EventThread, vars

\* What a step may do to the queue of events.
LEMMA QueueSteps ==
  ASSUME TypeInv, [Step]_vars
  PROVE  \/ evq' = evq
         \/ \E e \in Events : evq' = Append(evq, e)
         \/ EvtBegin /\ evq # <<>> /\ evq' = Tail(evq)
<1>1. "connect" \in Events /\ "connectFailed" \in Events /\ "disconnect" \in Events
  BY DEF Events
<1>2. CASE Command
  BY <1>1, <1>2, Zenon
     DEF Command, RoleUp, RoleDown, Connect, Disconnect, ApRole, Leave, RoleUpBegin,
         RoleUpAddIf, RoleUpWait, RoleUpCall, RoleDownBegin, RoleDownWait, RoleDownCall,
         ConnectBegin, ConnectCall, ConnectTest, ConnectLeave, ConnectClear, ConnectRetest,
         ConnectWait, DisconnectBegin, DisconnectWait, ApUpBegin, ApUpCall, ApDownCall,
         CmdLoad, CmdStore, CmdReturn
<1>3. CASE EventThread \/ Driver \/ (\E c \in AllCommands : CmdTyped(c)) \/ UNCHANGED vars
  BY <1>1, <1>3
     DEF EventThread, Driver, vars, CmdTyped, Joins, JoinFails, LinkLost, EvtLoad, EvtStore,
         EvtBegin, EvtNetUp, EvtNetDown, EvtSignalDisconnect, EvtSignalConnect
<1>4. QED BY <1>2, <1>3 DEF Step

\* Every step keeps TypeInv.
LEMMA TypeStep == TypeInv /\ [Step]_vars => TypeInv'
<1> SUFFICES ASSUME TypeInv, [Step]_vars PROVE TypeInv'
  OBVIOUS
<1>1. evq' \in Seq(Events)
  <2>1. evq \in Seq(Events)
    BY DEF TypeInv
  <2>2. \A e \in Events : evq' = Append(evq, e) => evq' \in Seq(Events)
    BY <2>1, AppendProperties
  <2>3. evq # <<>> /\ evq' = Tail(evq) => evq' \in Seq(Events)
    BY <2>1, TailEvent, Zenon
  <2>4. QED BY <2>1, <2>2, <2>3, QueueSteps
<1>2. status' \in SUBSET Bits
  <2>1. CASE CmdStore
    <3>1. cmd.rmw # <<>> /\ cmd.rmw \in Seq(RmwOp) /\ cmd.reg \in SUBSET Bits
      BY <2>1 DEF CmdStore, TypeInv
    <3>2. Head(cmd.rmw).bit \in Bits
      BY <3>1, RmwTypes DEF RmwOp
    <3>3. QED BY <2>1, <3>1, <3>2 DEF CmdStore, Stored
  <2>2. CASE EvtStore
    <3>1. evt.rmw # <<>> /\ evt.rmw \in Seq(RmwOp) /\ evt.reg \in SUBSET Bits
      BY <2>2 DEF EvtStore, TypeInv
    <3>2. Head(evt.rmw).bit \in Bits
      BY <3>1, RmwTypes DEF RmwOp
    <3>3. QED BY <2>2, <3>1, <3>2 DEF EvtStore, Stored
  <2>3. CASE ~CmdStore /\ ~EvtStore
    <3>1. status' = status
      BY <2>3
         DEF Step, vars, Command, EventThread, Driver, RoleUp, RoleDown, Connect, Disconnect,
             ApRole, RoleUpBegin, RoleUpAddIf, RoleUpWait, RoleUpCall, RoleDownBegin,
             RoleDownWait, RoleDownCall, ConnectBegin, ConnectCall, ConnectTest, ConnectLeave,
             ConnectClear, ConnectRetest, ConnectWait, DisconnectBegin, DisconnectWait,
             ApUpBegin, ApUpCall, ApDownCall, CmdLoad, CmdReturn, CmdTyped, EvtLoad, EvtBegin,
             EvtNetUp, EvtNetDown, EvtSignalDisconnect, EvtSignalConnect, Joins, JoinFails,
             LinkLost
    <3>2. QED BY <3>1 DEF TypeInv
  <2>4. QED BY <2>1, <2>2, <2>3
<1>3. /\ roles' \in SUBSET {"STA", "AP"}
      /\ netif' \in [added : BOOLEAN, up : BOOLEAN]
      /\ sync' \in [SyncObjs -> BOOLEAN]
      /\ drv' \in {"off", "idle", "joining", "joined"}
  <2>0. \A s \in {"connect", "disconnect", "roleUp", "roleDown"}, v \in BOOLEAN :
          [sync EXCEPT ![s] = v] \in [SyncObjs -> BOOLEAN]
    BY DEF TypeInv, SyncObjs
  <2> USE <2>0 DEF TypeInv, Taken, RemoveIf
  <2>1. CASE RoleUp \/ RoleDown
    <3>1. CASE RoleUpBegin \/ RoleUpAddIf \/ RoleUpWait
      <4>1. CASE RoleUpBegin
        BY <4>1 DEF RoleUpBegin
      <4>2. CASE RoleUpAddIf
        <5>1. [added |-> TRUE, up |-> FALSE] \in [added : BOOLEAN, up : BOOLEAN]
          OBVIOUS
        <5>2. netif' \in [added : BOOLEAN, up : BOOLEAN]
          BY <4>2, <5>1 DEF RoleUpAddIf
        <5>3. sync' \in [SyncObjs -> BOOLEAN]
          BY <4>2 DEF RoleUpAddIf
        <5>4. roles' = roles /\ drv' = drv
          BY <4>2 DEF RoleUpAddIf
        <5>5. QED BY <5>2, <5>3, <5>4
      <4>3. CASE RoleUpWait
        BY <4>3 DEF RoleUpWait
      <4>4. QED BY <3>1, <4>1, <4>2, <4>3
    <3>2. CASE RoleUpCall
      <4>1. CASE drv' = "idle" /\ roles' = roles \cup {"STA"} /\ UNCHANGED <<netif, sync>>
        BY <4>1
      <4>2. CASE RemoveIf /\ UNCHANGED <<drv, roles>>
        BY <4>2
      <4>3. QED BY <3>2, <4>1, <4>2 DEF RoleUpCall
    <3>3. CASE RoleDown
      <4>1. CASE RoleDownBegin
        BY <4>1 DEF RoleDownBegin
      <4>2. CASE RoleDownWait
        BY <4>2 DEF RoleDownWait
      <4>3. CASE RoleDownCall
        BY <4>3 DEF RoleDownCall
      <4>4. QED BY <3>3, <4>1, <4>2, <4>3 DEF RoleDown
    <3>4. QED BY <2>1, <3>1, <3>2, <3>3 DEF RoleUp
  <2>2. CASE Connect \/ Disconnect
    BY <2>2 DEF Connect, Disconnect, Leave, ConnectBegin, ConnectCall, ConnectTest,
                ConnectLeave, ConnectClear, ConnectRetest, ConnectWait, DisconnectBegin,
                DisconnectWait
  <2>3. CASE ApRole \/ CmdLoad \/ CmdStore \/ CmdReturn \/ (\E c \in AllCommands : CmdTyped(c))
    BY <2>3 DEF ApRole, ApUpBegin, ApUpCall, ApDownCall, CmdLoad, CmdStore, CmdReturn, CmdTyped
  <2>4. CASE EventThread
    <3>1. CASE EvtLoad \/ EvtStore \/ EvtBegin
      BY <3>1 DEF EvtLoad, EvtStore, EvtBegin
    <3>2. CASE EvtNetUp \/ EvtNetDown
      BY <3>2 DEF EvtNetUp, EvtNetDown
    <3>3. CASE EvtSignalDisconnect \/ EvtSignalConnect
      BY <3>3 DEF EvtSignalDisconnect, EvtSignalConnect
    <3>4. QED BY <2>4, <3>1, <3>2, <3>3 DEF EventThread
  <2>5. CASE Driver \/ UNCHANGED vars
    BY <2>5 DEF Driver, vars, Joins, JoinFails, LinkLost
  <2>6. QED BY <2>1, <2>2, <2>3, <2>4, <2>5 DEF Step, Command
<1>4. QED BY <1>1, <1>2, <1>3, CmdTypeStep, EvtTypeStep DEF TypeInv, CmdType, EvtType
-----------------------------------------------------------------------------
(* The interface follows the driver. *)

\* The queue as the invariant sees it, after a step that leaves it alone, ...
LEMMA SameQueue ==
  ASSUME evq' = evq
  PROVE  /\ Untouched' <=> Untouched
         /\ Ends("connect")' <=> Ends("connect")
         /\ evt'.at = evt.at => (DisconnectPending' <=> DisconnectPending)
  BY DEF Untouched, Ends, DisconnectPending

\* ... one of the driver, ...
LEMMA DriverQueues ==
  ASSUME TypeInv, NEW e \in Events, evq' = Append(evq, e), evt'.at = evt.at
  PROVE  /\ Untouched' <=> (e = "connectFailed" /\ Untouched)
         /\ Ends("connect")' <=> IF e = "connectFailed" THEN Ends("connect") ELSE e = "connect"
         /\ DisconnectPending \/ e = "disconnect" => DisconnectPending'
         /\ evq' # <<>>
<1>1. evq \in Seq(Events)
  BY DEF TypeInv
<1>2. /\ Untouched' <=> (e = "connectFailed" /\ Untouched)
      /\ \A c \in {"connect", "disconnect"} :
           Ends(c)' <=> IF e = "connectFailed" THEN Ends(c) ELSE c = e
      /\ \A i \in 1..Len(evq) : i \in 1..Len(evq') /\ evq'[i] = evq[i]
      /\ Len(evq') \in 1..Len(evq') /\ evq'[Len(evq')] = e
  BY <1>1, AppendEvent
<1>3. Ends("connect")' <=> IF e = "connectFailed" THEN Ends("connect") ELSE e = "connect"
  BY <1>2
<1>4. DisconnectPending \/ e = "disconnect" => DisconnectPending'
  <2>1. e = "disconnect" => DisconnectPending'
    BY <1>2 DEF DisconnectPending
  <2>2. DisconnectPending => DisconnectPending'
    BY <1>2 DEF DisconnectPending
  <2>3. QED BY <2>1, <2>2
<1>5. evq' # <<>>
  BY <1>1, AppendProperties
<1>6. QED BY <1>2, <1>3, <1>4, <1>5

\* ... or the handler taking an event.
LEMMA EventTaken ==
  ASSUME TypeInv, EvtBegin
  PROVE  /\ Head(evq) \in Events
         /\ Untouched <=> (Head(evq) = "connectFailed" /\ Untouched')
         /\ Ends("connect") <=> Ends("connect")' \/ (Head(evq) = "connect" /\ Untouched')
         /\ DisconnectPending => DisconnectPending'
         /\ evt'.at = CASE Head(evq) = "connect"       -> "netUp"
                        [] Head(evq) = "connectFailed" -> "signalConnect"
                        [] Head(evq) = "disconnect"    -> "netDown"
<1>1. evq \in Seq(Events) /\ evq # <<>> /\ evq' = Tail(evq)
  BY DEF TypeInv, EvtBegin
<1>2. /\ Head(evq) \in Events
      /\ Untouched <=> (Head(evq) = "connectFailed" /\ Untouched')
      /\ \A c \in {"connect", "disconnect"} :
           Ends(c) <=> Ends(c)' \/ (c = Head(evq) /\ Untouched')
      /\ \A i \in 1..Len(evq) : evq[i] = Head(evq) \/ \E j \in 1..Len(evq') : evq'[j] = evq[i]
  BY <1>1, TailEvent
<1>3. Ends("connect") <=> Ends("connect")' \/ (Head(evq) = "connect" /\ Untouched')
  BY <1>2
<1>4. evt'.at = CASE Head(evq) = "connect"       -> "netUp"
                  [] Head(evq) = "connectFailed" -> "signalConnect"
                  [] Head(evq) = "disconnect"    -> "netDown"
  <2>1. evt \in EvtType
    BY DEF TypeInv, EvtType
  <2>2. QED BY <1>2, <2>1 DEF EvtBegin, Events, EvtType
<1>5. DisconnectPending => DisconnectPending'
  <2> SUFFICES ASSUME DisconnectPending PROVE DisconnectPending'
    OBVIOUS
  <2>1. evt.at = "idle"
    BY DEF EvtBegin, EvtAt
  <2>2. PICK i \in 1..Len(evq) : evq[i] = "disconnect"
    BY <2>1 DEF DisconnectPending
  <2>3. CASE Head(evq) = "disconnect"
    BY <1>4, <2>3 DEF DisconnectPending
  <2>4. CASE \E j \in 1..Len(evq') : evq'[j] = "disconnect"
    BY <2>4 DEF DisconnectPending
  <2>5. QED BY <1>2, <2>2, <2>3, <2>4
<1>6. QED BY <1>2, <1>3, <1>4, <1>5

\* Every step keeps the invariant.
LEMMA Inductive == IInv /\ [Step]_vars => IInv'
<1> SUFFICES ASSUME IInv, [Step]_vars PROVE IInv'
  OBVIOUS
<1> DEFINE Rest == /\ RoleTrue /\ InterfaceFollows /\ InterfaceAdded /\ ConnectHasRole
                   /\ RoleUpAlone /\ RoleDownSignalled /\ DisconnectAnswered /\ NeverAsserts
<1>0. TypeInv /\ TypeInv'
  BY TypeStep DEF IInv
<1>00. /\ cmd \in CmdType /\ evt \in EvtType /\ sync \in [SyncObjs -> BOOLEAN]
       /\ netif \in [added : BOOLEAN, up : BOOLEAN]
       /\ drv \in {"off", "idle", "joining", "joined"}
  BY <1>0 DEF TypeInv, CmdType, EvtType
<1> SUFFICES Rest'
  BY <1>0 DEF IInv
<1>01. Rest
  BY DEF IInv
<1>02. /\ \A e \in Events : evq' = Append(evq, e) /\ evt' = evt =>
             /\ Untouched' <=> (e = "connectFailed" /\ Untouched)
             /\ Ends("connect")' <=> IF e = "connectFailed" THEN Ends("connect") ELSE e = "connect"
             /\ DisconnectPending \/ e = "disconnect" => DisconnectPending'
             /\ evq' # <<>>
       /\ "connect" \in Events /\ "connectFailed" \in Events /\ "disconnect" \in Events
  BY <1>0, DriverQueues DEF Events
<1>03. evq = <<>> => Untouched /\ ~Ends("connect")
  BY NoEvents
<1> USE DEF RoleTrue, InterfaceFollows, WillBeUp, Removed, InterfaceAdded, ConnectHasRole,
            RoleUpAlone, RoleDownSignalled, DisconnectAnswered, NeverAsserts, At, Goto, Return,
            CmdType, EvtType, SyncObjs
<1>1. CASE RoleUpBegin
  BY <1>00, <1>01, <1>1, SameQueue DEF RoleUpBegin
<1>2. CASE RoleUpAddIf
  BY <1>00, <1>01, <1>03, <1>2, SameQueue DEF RoleUpAddIf
<1>3. CASE RoleUpWait
  BY <1>00, <1>01, <1>3, SameQueue DEF RoleUpWait, Taken
<1>4. CASE RoleUpCall
  <2>1. /\ cmd.op = "roleup" /\ cmd'.op = "roleup" /\ cmd'.at = "return" /\ evq' = evq
        /\ evt' = evt /\ "STA" \notin roles /\ drv = "off" /\ ~WillBeUp /\ netif.added
    BY <1>00, <1>01, <1>4 DEF RoleUpCall
  <2>2. CASE drv' = "idle" /\ roles' = roles \cup {"STA"} /\ UNCHANGED <<netif, sync>>
    BY <1>00, <1>01, <2>1, <2>2, SameQueue
  <2>3. CASE RemoveIf /\ UNCHANGED <<drv, roles>>
    <3>1. ~netif'.up
      BY <2>3 DEF RemoveIf
    <3>2. QED BY <1>00, <1>01, <2>1, <2>3, <3>1, SameQueue
  <2>4. QED BY <1>4, <2>2, <2>3 DEF RoleUpCall
<1>5. CASE RoleDownBegin
  BY <1>00, <1>01, <1>5, SameQueue DEF RoleDownBegin, RemoveIf
<1>6. CASE RoleDownWait
  BY <1>00, <1>01, <1>6, SameQueue DEF RoleDownWait, Taken
<1>7. CASE RoleDownCall
  BY <1>00, <1>01, <1>02, <1>7, SameQueue DEF RoleDownCall
<1>8. CASE ConnectBegin
  BY <1>00, <1>01, <1>8, SameQueue DEF ConnectBegin
<1>9. CASE ConnectCall
  BY <1>00, <1>01, <1>02, <1>9, SameQueue DEF ConnectCall
<1>10. CASE ConnectTest \/ ConnectLeave \/ ConnectClear \/ ConnectRetest
  BY <1>00, <1>01, <1>10, SameQueue
     DEF ConnectTest, ConnectLeave, ConnectClear, ConnectRetest, Taken
<1>11. CASE ConnectWait
  BY <1>00, <1>01, <1>02, <1>11, SameQueue DEF ConnectWait, Leave, Taken
<1>12. CASE DisconnectBegin
  <2>1. /\ cmd.op = "disconnect" /\ cmd.at = "begin" /\ cmd'.op = "disconnect"
        /\ cmd'.at \in {"wait", "return"} /\ evt' = evt
        /\ UNCHANGED <<netif, roles, sync>>
    BY <1>00, <1>12 DEF DisconnectBegin
  <2>2. CASE drv \in {"joining", "joined"} /\ Leave
    <3>1. drv' = "idle" /\ evq' = Append(evq, "disconnect")
      BY <2>2 DEF Leave
    <3>2. ~Untouched' /\ ~Ends("connect")' /\ DisconnectPending'
      BY <1>02, <2>1, <3>1
    <3>3. QED BY <1>00, <1>01, <2>1, <2>2, <3>1, <3>2
  <2>3. CASE cmd'.at = "return" /\ UNCHANGED <<drv, evq>>
    BY <1>00, <1>01, <2>1, <2>3, SameQueue
  <2>4. QED BY <1>00, <1>12, <2>2, <2>3 DEF DisconnectBegin
<1>13. CASE DisconnectWait
  BY <1>00, <1>01, <1>13, SameQueue DEF DisconnectWait, Taken
<1>14. CASE ApRole
  BY <1>00, <1>01, <1>14, SameQueue, ZenonT(30) DEF ApRole, ApUpBegin, ApUpCall, ApDownCall
<1>15. CASE CmdLoad \/ CmdStore \/ CmdReturn
  BY <1>00, <1>01, <1>15, SameQueue, ZenonT(30) DEF CmdLoad, CmdStore, CmdReturn, Load
<1>16. ASSUME NEW c \in AllCommands, CmdTyped(c) PROVE Rest'
  BY <1>00, <1>01, <1>16, SameQueue DEF CmdTyped
<1>17. CASE EvtLoad \/ EvtStore
  BY <1>00, <1>01, <1>17, SameQueue DEF EvtLoad, EvtStore, Load
<1>18. CASE EvtBegin
  BY <1>0, <1>00, <1>01, <1>18, EventTaken DEF EvtBegin, EvtAt, Events
<1>19. CASE EvtNetUp \/ EvtNetDown
  BY <1>00, <1>01, <1>19, SameQueue DEF EvtNetUp, EvtNetDown, EvtAt, DisconnectPending
<1>20. CASE EvtSignalDisconnect \/ EvtSignalConnect
  BY <1>00, <1>01, <1>20, SameQueue, ZenonT(30)
     DEF EvtSignalDisconnect, EvtSignalConnect, EvtAt, DisconnectPending
<1>21. CASE Driver
  BY <1>00, <1>01, <1>02, <1>21 DEF Driver, Joins, JoinFails, LinkLost
<1>22. CASE UNCHANGED vars
  BY <1>00, <1>01, <1>22, SameQueue DEF vars
<1>23. QED
  BY <1>1, <1>2, <1>3, <1>4, <1>5, <1>6, <1>7, <1>8, <1>9, <1>10, <1>11, <1>12, <1>13, <1>14,
     <1>15, <1>16, <1>17, <1>18, <1>19, <1>20, <1>21, <1>22
     DEF Step, Command, RoleUp, RoleDown, Connect, Disconnect, EventThread
-----------------------------------------------------------------------------
(* The station bit, for a user who only connects and disconnects.            *)

\* The event thread, alone in writing bits, first sets or clears the station bit, then
\* moves the interface: between two events the bit and the interface agree.
BitFollows ==
  /\ evt.at \notin {"netUp", "netDown"} =>
       evt.rmw = <<>> /\ ("STA" \in status <=> netif.up)
  /\ evt.at = "netUp" =>
       \/ evt.rmw = <<>> /\ "STA" \in status
       \/ Len(evt.rmw) = 1 /\ Head(evt.rmw).how = "set" /\ Head(evt.rmw).bit = "STA"
  /\ evt.at = "netDown" =>
       \/ evt.rmw = <<>> /\ "STA" \notin status
       \/ Len(evt.rmw) = 1 /\ Head(evt.rmw).how = "clr" /\ "STA" \notin status
       \/ /\ Len(evt.rmw) = 2 /\ Head(evt.rmw).how = "clr" /\ Head(evt.rmw).bit = "STA"
          /\ Head(Tail(evt.rmw)).how = "clr" /\ ~Head(Tail(evt.rmw)).loaded
  /\ evt.rmw # <<>> /\ Head(evt.rmw).loaded => evt.reg = status

\* The command thread writes a bit only while it brings the role up at the start, when
\* there is none to lose.
BootAlone ==
  /\ cmd.op \in {"roleup", "connect", "disconnect"}
  /\ cmd.rmw # <<>> => /\ cmd.op = "roleup" /\ cmd.at = "addIf"
                       /\ Len(cmd.rmw) = 1 /\ Head(cmd.rmw).how = "clr"
  /\ cmd.op = "roleup" =>
       /\ status = {} /\ cmd.reg = {} /\ ~netif.up /\ evq = <<>> /\ evt.at = "idle"
       /\ \/ drv = "off"
          \/ drv = "idle" /\ cmd.at \in {"return", "prompt"}

SInv == IInv /\ BitFollows /\ BootAlone

\* A step of a user who only connects and disconnects.
ConnectsStep == Command \/ EventThread \/ Driver \/ \E c \in Connects : CmdTyped(c)

\* The lengths and heads of a list of updates as it is worked off.
LEMMA RmwSeq ==
  ASSUME NEW w \in Seq(RmwOp), w # <<>>
  PROVE  /\ Len(Tail(w)) = Len(w) - 1 /\ Len(w) \in Nat /\ Len(w) > 0
         /\ Len(Tail(w)) = 0 => Tail(w) = <<>>
         /\ \A x \in RmwOp : LET v == <<x>> \o Tail(w) IN
              /\ v # <<>> /\ Len(v) = Len(w) /\ Head(v) = x /\ Tail(v) = Tail(w)
<1>1. Len(Tail(w)) = Len(w) - 1 /\ Tail(w) \in Seq(RmwOp) /\ Len(w) \in Nat /\ Len(w) > 0
  BY HeadTailProperties, LenProperties, EmptySeq
<1>2. Len(Tail(w)) = 0 => Tail(w) = <<>>
  BY <1>1, EmptySeq
<1>3. ASSUME NEW x \in RmwOp
      PROVE  LET v == <<x>> \o Tail(w) IN
              /\ v # <<>> /\ Len(v) = Len(w) /\ Head(v) = x /\ Tail(v) = Tail(w)
  <2> DEFINE v == <<x>> \o Tail(w)
  <2>1. v \in Seq(RmwOp) /\ Len(v) = 1 + Len(Tail(w)) /\ v[1] = x
        /\ \A i \in 1..Len(Tail(w)) : v[i + 1] = Tail(w)[i]
    BY <1>1, ConcatProperties
  <2>2. v # <<>> /\ Len(v) = Len(w) /\ Head(v) = x
    BY <1>1, <2>1, EmptySeq, HeadTailProperties
  <2>3. Tail(v) = Tail(w)
    BY <1>1, <2>1, <2>2, HeadTailProperties, SeqEqual
  <2>4. QED BY <2>2, <2>3
<1>4. QED BY <1>1, <1>2, <1>3

\* What the handler's and the command's loads and stores do to a list of bits.
LEMMA ListSteps ==
  ASSUME TypeInv
  PROVE  /\ EvtLoad => /\ evt'.at = evt.at /\ evt'.reg = status
                       /\ evt'.rmw # <<>> /\ Len(evt'.rmw) = Len(evt.rmw)
                       /\ Head(evt'.rmw).how = Head(evt.rmw).how
                       /\ Head(evt'.rmw).bit = Head(evt.rmw).bit
                       /\ Tail(evt'.rmw) = Tail(evt.rmw)
         /\ CmdLoad => /\ cmd'.at = cmd.at /\ cmd'.op = cmd.op /\ cmd'.reg = status
                       /\ Len(cmd'.rmw) = Len(cmd.rmw)
                       /\ Head(cmd'.rmw).how = Head(cmd.rmw).how
         /\ \A w \in Seq(RmwOp) :
              /\ w # <<>> => Len(w) > 0
              /\ Len(w) = 1 => Tail(w) = <<>>
              /\ Len(w) = 2 => Tail(w) # <<>> /\ Len(Tail(w)) = 1
         /\ \A b \in Bits : \A l \in {<<Clr(b)>>, <<Set(b)>>} : Len(l) = 1 /\ Head(l) = l[1]
<1>0. evt \in EvtType /\ cmd \in CmdType /\ status \in SUBSET Bits
  BY DEF TypeInv, EvtType, CmdType
<1>1. ASSUME EvtLoad
      PROVE  /\ evt'.at = evt.at /\ evt'.reg = status
             /\ evt'.rmw # <<>> /\ Len(evt'.rmw) = Len(evt.rmw)
             /\ Head(evt'.rmw).how = Head(evt.rmw).how
             /\ Head(evt'.rmw).bit = Head(evt.rmw).bit
             /\ Tail(evt'.rmw) = Tail(evt.rmw)
  <2> DEFINE x == [Head(evt.rmw) EXCEPT !.loaded = TRUE]
             v == <<x>> \o Tail(evt.rmw)
  <2>1. evt.rmw \in Seq(RmwOp) /\ evt.rmw # <<>> /\ Head(evt.rmw) \in RmwOp
    BY <1>0, <1>1, RmwTypes DEF EvtLoad, EvtType
  <2>2. x \in RmwOp /\ x.how = Head(evt.rmw).how /\ x.bit = Head(evt.rmw).bit
    BY <2>1 DEF RmwOp
  <2>3. v # <<>> /\ Len(v) = Len(evt.rmw) /\ Head(v) = x /\ Tail(v) = Tail(evt.rmw)
    BY <2>1, <2>2, RmwSeq
  <2>4. evt' = [evt EXCEPT !.reg = status, !.rmw = v]
    BY <1>1 DEF EvtLoad, Load
  <2> HIDE DEF v
  <2>5. evt'.at = evt.at /\ evt'.reg = status /\ evt'.rmw = v
    BY <1>0, <2>4 DEF EvtType
  <2> HIDE DEF x
  <2>6. QED BY <2>2, <2>3, <2>5
<1>2. ASSUME CmdLoad
      PROVE  /\ cmd'.at = cmd.at /\ cmd'.op = cmd.op /\ cmd'.reg = status
             /\ Len(cmd'.rmw) = Len(cmd.rmw)
             /\ Head(cmd'.rmw).how = Head(cmd.rmw).how
  <2> DEFINE x == [Head(cmd.rmw) EXCEPT !.loaded = TRUE]
             v == <<x>> \o Tail(cmd.rmw)
  <2>1. cmd.rmw \in Seq(RmwOp) /\ cmd.rmw # <<>> /\ Head(cmd.rmw) \in RmwOp
    BY <1>0, <1>2, RmwTypes DEF CmdLoad, CmdType
  <2>2. x \in RmwOp /\ x.how = Head(cmd.rmw).how
    BY <2>1 DEF RmwOp
  <2>3. Len(v) = Len(cmd.rmw) /\ Head(v) = x
    BY <2>1, <2>2, RmwSeq
  <2>4. cmd' = [cmd EXCEPT !.reg = status, !.rmw = v]
    BY <1>2 DEF CmdLoad, Load
  <2> HIDE DEF v
  <2>5. cmd'.at = cmd.at /\ cmd'.op = cmd.op /\ cmd'.reg = status /\ cmd'.rmw = v
    BY <1>0, <2>4 DEF CmdType
  <2> HIDE DEF x
  <2>6. QED BY <2>2, <2>3, <2>5
<1>3. ASSUME NEW w \in Seq(RmwOp)
      PROVE  /\ w # <<>> => Len(w) > 0
             /\ Len(w) = 1 => Tail(w) = <<>>
             /\ Len(w) = 2 => Tail(w) # <<>> /\ Len(Tail(w)) = 1
  <2>1. Len(<<>>) = 0
    OBVIOUS
  <2>2. ASSUME w # <<>>
        PROVE  /\ Len(w) > 0 /\ Len(w) = 1 => Tail(w) = <<>>
               /\ Len(w) = 2 => Len(Tail(w)) = 1
    BY <2>2, RmwSeq
  <2>3. ASSUME w = <<>> PROVE Len(w) = 0
    BY <2>1, <2>3
  <2>4. Len(Tail(w)) = 1 => Tail(w) # <<>>
    <3>1. \A v : v = <<>> => Len(v) # 1
      BY <2>1
    <3>2. QED BY <3>1
  <2>5. QED BY <2>2, <2>3, <2>4
<1>4. \A b \in Bits : \A l \in {<<Clr(b)>>, <<Set(b)>>} : Len(l) = 1 /\ Head(l) = l[1]
  OBVIOUS
<1>5. QED BY <1>1, <1>2, <1>3, <1>4

\* Every step of such a user keeps the bit and the interface together.
LEMMA BitSteps == SInv /\ [ConnectsStep]_vars => SInv'
<1> SUFFICES ASSUME SInv, [ConnectsStep]_vars PROVE SInv'
  OBVIOUS
<1>0. TypeInv /\ IInv' /\ IInv
  <2>1. [Step]_vars
    BY DEF ConnectsStep, Step, Connects, AllCommands
  <2>2. QED BY <2>1, Inductive DEF SInv, IInv
<1> SUFFICES (BitFollows /\ BootAlone)'
  BY <1>0 DEF SInv
<1>1. BitFollows /\ BootAlone
  BY DEF SInv
<1>2. /\ cmd \in CmdType /\ evt \in EvtType /\ status \in SUBSET Bits
      /\ netif \in [added : BOOLEAN, up : BOOLEAN]
  BY <1>0 DEF TypeInv, CmdType, EvtType
<1>3. RoleTrue /\ InterfaceFollows /\ RoleUpAlone /\ ConnectHasRole
  BY <1>0 DEF IInv
<1> USE DEF BitFollows, BootAlone, At, Goto, Return, CmdType, EvtType
<1>4. CASE RoleUpBegin
  <2>1. CASE cmd' = [cmd EXCEPT !.at = "addIf", !.rmw = <<Clr("STA")>>]
    <3>1. Len(<<Clr("STA")>>) = 1 /\ Head(<<Clr("STA")>>).how = "clr"
      BY DEF Clr
    <3>2. QED BY <1>1, <1>2, <1>3, <1>4, <2>1, <3>1 DEF RoleUpBegin, RoleTrue
  <2>2. CASE Return(-1)
    BY <1>1, <1>2, <1>4, <2>2 DEF RoleUpBegin
  <2>3. QED BY <1>4, <2>1, <2>2 DEF RoleUpBegin
<1>5. CASE RoleUpAddIf
  BY <1>1, <1>2, <1>5 DEF RoleUpAddIf
<1>6. CASE RoleUpWait
  BY <1>1, <1>2, <1>6 DEF RoleUpWait, Taken
<1>7. CASE RoleUpCall
  <2>1. /\ cmd.op = "roleup" /\ cmd'.op = "roleup" /\ cmd'.at = "return" /\ evq' = evq
        /\ cmd'.rmw = <<>> /\ cmd'.reg = {} /\ evt' = evt /\ drv \in {"off", "idle"}
        /\ status' = {} /\ status = {}
    BY <1>1, <1>2, <1>7 DEF RoleUpCall
  <2>2. ~netif'.up
    BY <1>1, <2>1, <1>7 DEF RoleUpCall, RemoveIf
  <2>3. drv' \in {"off", "idle"}
    BY <2>1, <1>7 DEF RoleUpCall
  <2>4. QED BY <1>1, <2>1, <2>2, <2>3
<1>8. CASE RoleDown \/ ApRole
  BY <1>1, <1>8
     DEF RoleDown, RoleDownBegin, RoleDownWait, RoleDownCall, ApRole, ApUpBegin, ApUpCall,
         ApDownCall
<1>9. CASE Connect
  BY <1>1, <1>2, <1>9, ZenonT(30)
     DEF Connect, ConnectBegin, ConnectCall, ConnectTest, ConnectLeave, ConnectClear,
         ConnectRetest, ConnectWait
<1>10. CASE Disconnect
  BY <1>1, <1>2, <1>10, ZenonT(30) DEF Disconnect, DisconnectBegin, DisconnectWait
<1>11. CASE CmdLoad
  BY <1>0, <1>1, <1>2, <1>11, ListSteps DEF CmdLoad
<1>12. CASE CmdStore
  <2>1. cmd.op = "roleup" /\ cmd.at = "addIf" /\ Stored(cmd) = {}
    BY <1>1, <1>12 DEF CmdStore, Stored
  <2>2. Tail(cmd.rmw) = <<>>
    BY <1>0, <1>1, <1>2, <1>12, ListSteps DEF CmdStore
  <2>3. cmd' = [cmd EXCEPT !.rmw = <<>>, !.reg = {}] /\ status' = status
    BY <1>1, <1>12, <2>1, <2>2 DEF CmdStore
  <2>4. QED BY <1>1, <1>2, <1>12, <2>1, <2>3 DEF CmdStore
<1>13. CASE CmdReturn
  BY <1>1, <1>2, <1>13 DEF CmdReturn
<1>14. ASSUME NEW c \in Connects, CmdTyped(c) PROVE (BitFollows /\ BootAlone)'
  BY <1>1, <1>2, <1>14 DEF CmdTyped, Connects
<1>15. CASE EvtLoad
  BY <1>0, <1>1, <1>2, <1>15, ListSteps DEF EvtLoad
<1>16. CASE EvtStore
  <2>1. /\ evt'.at = evt.at /\ evt'.rmw = Tail(evt.rmw) /\ status' = Stored(evt)
        /\ evt.reg = status /\ UNCHANGED <<netif, cmd, drv, evq>>
        /\ evt.rmw # <<>> /\ evt.rmw \in Seq(RmwOp)
    BY <1>1, <1>2, <1>16 DEF EvtStore
  <2>2. /\ Len(evt.rmw) = 1 => Tail(evt.rmw) = <<>>
        /\ Len(evt.rmw) = 2 => Tail(evt.rmw) # <<>> /\ Len(Tail(evt.rmw)) = 1
    BY <1>0, <2>1, ListSteps
  <2>3. CASE evt.at = "netUp"
    BY <1>1, <2>1, <2>2, <2>3 DEF Stored
  <2>4. CASE evt.at = "netDown" /\ Len(evt.rmw) = 1
    BY <1>1, <2>1, <2>2, <2>4 DEF Stored
  <2>5. CASE evt.at = "netDown" /\ Len(evt.rmw) = 2
    <3>1. "STA" \notin status' /\ ~Head(Tail(evt.rmw)).loaded
      BY <1>1, <2>1, <2>2, <2>5 DEF Stored
    <3>2. QED BY <1>1, <2>1, <2>2, <2>5, <3>1
  <2>6. QED BY <1>1, <2>1, <2>3, <2>4, <2>5
<1>17. CASE EvtBegin
  <2>1. /\ evt.at = "idle" /\ evt.rmw = <<>> /\ evq # <<>> /\ Head(evq) \in Events
        /\ "STA" \in status <=> netif.up
        /\ UNCHANGED <<status, netif, cmd, drv>>
    BY <1>0, <1>1, <1>17, EventTaken DEF EvtBegin, EvtAt
  <2>2. cmd.op # "roleup"
    BY <1>1, <2>1
  <2>3. CASE Head(evq) = "connect"
    <3>1. evt' = [evt EXCEPT !.at = "netUp", !.rmw = <<Set("STA")>>]
      BY <1>17, <2>3 DEF EvtBegin
    <3>2. /\ Len(<<Set("STA")>>) = 1 /\ Head(<<Set("STA")>>).how = "set"
          /\ Head(<<Set("STA")>>).bit = "STA" /\ ~Head(<<Set("STA")>>).loaded
      BY DEF Set
    <3>3. QED BY <1>1, <1>2, <2>1, <2>2, <3>1, <3>2
  <2>4. CASE Head(evq) = "connectFailed"
    <3>1. evt' = [evt EXCEPT !.at = "signalConnect"]
      BY <1>17, <2>4 DEF EvtBegin
    <3>2. QED BY <1>1, <1>2, <2>1, <2>2, <3>1
  <2>5. CASE Head(evq) = "disconnect"
    <3> DEFINE l == <<Clr("STA"), Clr("IP")>>
    <3>1. evt' = [evt EXCEPT !.at = "netDown", !.rmw = l]
      BY <1>17, <2>5 DEF EvtBegin
    <3>2. /\ Len(l) = 2 /\ Head(l).how = "clr" /\ Head(l).bit = "STA" /\ ~Head(l).loaded
      BY DEF Clr
    <3>3. Head(Tail(l)).how = "clr" /\ ~Head(Tail(l)).loaded
      <4>1. l \in Seq(RmwOp) /\ l # <<>> /\ l[2] = Clr("IP")
        BY RmwListTypes
      <4>2. Tail(l) \in Seq(RmwOp) /\ Len(Tail(l)) = 1 /\ Tail(l)[1] = Clr("IP")
        BY <3>2, <4>1, HeadTailProperties
      <4>3. Head(Tail(l)) = Clr("IP")
        BY <4>2
      <4>4. QED BY <4>3 DEF Clr
    <3> HIDE DEF l
    <3>4. QED BY <1>1, <1>2, <2>1, <2>2, <3>1, <3>2, <3>3
  <2>6. QED BY <2>1, <2>3, <2>4, <2>5 DEF Events
<1>18. CASE EvtNetUp \/ EvtNetDown
  BY <1>1, <1>2, <1>18 DEF EvtNetUp, EvtNetDown, EvtAt
<1>19. CASE EvtSignalDisconnect \/ EvtSignalConnect
  BY <1>1, <1>2, <1>19 DEF EvtSignalDisconnect, EvtSignalConnect, EvtAt
<1>20. CASE Driver
  BY <1>1, <1>2, <1>20 DEF Driver, Joins, JoinFails, LinkLost
<1>21. CASE UNCHANGED vars
  BY <1>1, <1>21 DEF vars
<1>22. QED
  BY <1>4, <1>5, <1>6, <1>7, <1>8, <1>9, <1>10, <1>11, <1>12, <1>13, <1>14, <1>15, <1>16,
     <1>17, <1>18, <1>19, <1>20, <1>21
     DEF ConnectsStep, Command, RoleUp, EventThread

-----------------------------------------------------------------------------
(* Theorems *)

\* The initial state satisfies IInv.
LEMMA InitInv == Init => IInv
<1> SUFFICES ASSUME Init PROVE IInv
  OBVIOUS
<1>1. Untouched /\ ~Ends("connect")
  BY NoEvents DEF Init
<1>2. TypeInv
  BY DEF Init, TypeInv, AllCommands, CmdSteps, EvtSteps
<1>3. QED
  BY <1>1, <1>2
     DEF Init, IInv, RoleTrue, InterfaceFollows, WillBeUp, Removed, InterfaceAdded,
         ConnectHasRole, RoleUpAlone, RoleDownSignalled, DisconnectAnswered, NeverAsserts

\* IInv holds in every reachable state.
LEMMA SpecInv == Spec => []IInv
<1>1. IInv /\ [Next]_vars => IInv'
  BY Inductive, WlanAssumption DEF Next, Step
<1>2. QED BY <1>1, InitInv, PTL DEF Spec

\* What the invariant says of a quiet system.
LEMMA QuietInterface == IInv => InterfaceTrue
<1> SUFFICES ASSUME IInv, Quiet PROVE (netif.up <=> drv = "joined") /\ (netif.up => netif.added)
  BY DEF InterfaceTrue
<1>1. evq = <<>> /\ evt.at = "idle" /\ cmd.at = "prompt"
  BY DEF Quiet
<1>2. Untouched /\ ~Ends("connect")
  BY <1>1, NoEvents
<1>3. netif.up <=> drv = "joined"
  BY <1>1, <1>2 DEF IInv, InterfaceFollows, WillBeUp, Removed
<1>4. drv = "joined" => netif.added
  BY <1>1 DEF IInv, InterfaceAdded, RoleTrue, Removed
<1>5. QED BY <1>3, <1>4

\* No command thread runs into ASSERT_GENERAL(0), whatever is typed and whatever the
\* network does: every role change gets its signal, every disconnect its event.
THEOREM NoAssertion == Spec => []NeverAsserts
<1>1. IInv => NeverAsserts
  BY DEF IInv
<1>2. QED BY <1>1, SpecInv, PTL

\* When nothing is under way the station's interface is up exactly while the driver has
\* joined a network, whatever was typed before.
THEOREM InterfaceFollowsLink == Spec => []InterfaceTrue
  BY SpecInv, QuietInterface, PTL

\* SInv says what StatusTrue says of a quiet system.
LEMMA QuietBit == SInv => StatusTrue
  BY QuietInterface DEF SInv, BitFollows, StatusTrue, InterfaceTrue, Quiet

\* The initial state satisfies SInv.
LEMMA InitBits == Init => SInv
<1>1. Init => BitFollows /\ BootAlone
  BY DEF Init, BitFollows, BootAlone
<1>2. QED BY <1>1, InitInv DEF SInv

\* With a user who only connects and disconnects, the station bit tells the truth whenever
\* nothing is under way: no update of app_CB.Status is lost between the two threads.
THEOREM StatusOfConnects ==
  ASSUME Commands \subseteq Connects
  PROVE  Spec => []StatusTrue
<1>1. SInv /\ [Next]_vars => SInv'
  BY BitSteps DEF Next, ConnectsStep
<1>2. QED BY <1>1, InitBits, QuietBit, PTL DEF Spec

\* The same of the user of the run who connects and disconnects beside one who may type
\* anything.
THEOREM StatusOfRun == MCSpec => []MCStatusTrue
<1> DEFINE MCInv == user = "connects" => SInv
<1>1. MCInit => MCInv
  BY InitBits DEF MCInit
<1>2. MCInv /\ [MCNext]_<<vars, user>> => MCInv'
  <2> SUFFICES ASSUME user = "connects" => SInv, [MCNext]_<<vars, user>>, user' = "connects"
               PROVE  SInv'
    OBVIOUS
  <2>1. user = "connects"
    BY DEF MCNext
  <2>2. [ConnectsStep]_vars
    BY <2>1 DEF MCNext, ConnectsStep
  <2>3. QED BY <2>1, <2>2, BitSteps
<1>3. MCInv => MCStatusTrue
  BY QuietBit DEF MCStatusTrue
<1>4. QED BY <1>1, <1>2, <1>3, PTL DEF MCSpec
=============================================================================
