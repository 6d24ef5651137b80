----------------------------- MODULE TuyaAppProofs -----------------------------
(***************************************************************************)
(* Proofs about TuyaApp for any LEDs and buttons and any number of cloud   *)
(* writes, presses and connection losses.                                  *)
(***************************************************************************)
EXTENDS TuyaApp, SequenceTheorems, TLAPS

\* What siren_task leaves on its pins: red and buzzer show the phase, and the phase is
\* FALSE once an iteration saw the alarm off.
SirenInv ==
  /\ siren \in [at : {"none", "idle", "flash"}, phase : BOOLEAN, red : BOOLEAN,
                blue : BOOLEAN, buzzer : BOOLEAN]
  /\ siren.red = siren.phase /\ siren.buzzer = siren.phase
  /\ siren.at # "flash" => ~siren.phase

\* Only three actions touch the siren's pins.
LEMMA SirenSteps ==
  ASSUME [Next]_vars
  PROVE  UNCHANGED siren \/ StartServices \/ SirenFlash \/ SirenIdle
  BY DEF Next, vars, Startup, MqttLoop, Drain, Siren, Ended, Press, CloudSend,
         CloudReceive, LinkDrops, CheckTime, InitClient, Connect, Receive, LoopTimesOut,
         Reconnect, DrainEnds, DrainPress, DrainNext

\* Every step of the application keeps SirenInv.
LEMMA SirenInductive == SirenInv /\ [Next]_vars => SirenInv'
<1> SUFFICES ASSUME SirenInv, [Next]_vars PROVE SirenInv'
  OBVIOUS
<1>1. CASE UNCHANGED siren
  BY <1>1 DEF SirenInv
<1>2. CASE StartServices
  BY <1>2 DEF StartServices, SirenInv
<1>3. CASE SirenFlash
  BY <1>3 DEF SirenFlash, SirenInv
<1>4. CASE SirenIdle
  BY <1>4 DEF SirenIdle, SirenInv
<1>5. QED BY <1>1, <1>2, <1>3, <1>4, SirenSteps

\* With the alarm off and seen off the red LED and the buzzer are silent, at whatever
\* point of the flash it went off (siren_task).
THEOREM SirenGoesSilent == Spec => []SirenSilent
<1>1. Init => SirenInv
  BY DEF Init, SirenInv
<1>2. SirenInv => SirenSilent
  BY DEF SirenInv, SirenSilent
<1>3. QED BY <1>1, <1>2, SirenInductive, PTL DEF Spec
-----------------------------------------------------------------------------
\* The types the panel's invariant needs.
AppType ==
  /\ led \in [Leds -> BOOLEAN] /\ alarm \in BOOLEAN
  /\ reported \in [Btns -> BOOLEAN]
  /\ link \in BOOLEAN
  /\ up \in [DP -> Seq(BOOLEAN)]
  /\ panel \in [DP -> BOOLEAN]
  /\ down \in Seq(Payloads)
  /\ unechoed \in SUBSET Btns

deviceVars == <<led, alarm, reported, link, up, panel, unechoed>>

\* A payload gives truth values to data points.
LEMMA PayloadType ==
  ASSUME NEW p \in Payloads
  PROVE  DOMAIN p \subseteq DP /\ \A d \in DOMAIN p : p[d] \in BOOLEAN
  BY DEF Payloads

\* What Reported puts on the wire is what will have arrived.
LEMMA ReportedArrives ==
  ASSUME up \in [DP -> Seq(BOOLEAN)], NEW S, NEW vals, NEW isUp \in BOOLEAN,
         \A d \in DP : d \in S => vals[d] \in BOOLEAN,
         up' = Reported(S, vals, isUp), panel' = panel
  PROVE  /\ up' \in [DP -> Seq(BOOLEAN)]
         /\ \A d \in DP : Arriving(d)' = IF d \in S /\ isUp THEN vals[d] ELSE Arriving(d)
<1>1. ASSUME NEW d \in DP
      PROVE  /\ up'[d] \in Seq(BOOLEAN)
             /\ Arriving(d)' = IF d \in S /\ isUp THEN vals[d] ELSE Arriving(d)
  <2>1. CASE d \in S /\ isUp
    <3>1. /\ up'[d] = Append(up[d], vals[d]) /\ up[d] \in Seq(BOOLEAN)
          /\ vals[d] \in BOOLEAN
      BY <2>1 DEF Reported
    <3>2. /\ up'[d] \in Seq(BOOLEAN) /\ up'[d] # <<>>
          /\ up'[d][Len(up'[d])] = vals[d]
      BY <3>1, AppendProperties
    <3>3. QED BY <2>1, <3>2 DEF Arriving
  <2>2. CASE ~(d \in S /\ isUp)
    <3>1. up'[d] = up[d]
      BY <2>2 DEF Reported
    <3>2. QED BY <2>2, <3>1 DEF Arriving
  <2>3. QED BY <2>1, <2>2
<1>2. DOMAIN up' = DP /\ up' = [d \in DP |-> up'[d]]
  BY DEF Reported
<1>3. QED BY <1>1, <1>2

\* The head of a queue of reports moves to the panel: what will have arrived stays.
LEMMA ReceiveKeepsArriving ==
  ASSUME up \in [DP -> Seq(BOOLEAN)], panel \in [DP -> BOOLEAN], NEW c \in DP, CloudReceive(c)
  PROVE  /\ up' \in [DP -> Seq(BOOLEAN)] /\ panel' \in [DP -> BOOLEAN]
         /\ \A d \in DP : Arriving(d)' = Arriving(d)
<1> DEFINE rest == Tail(up[c])
<1>1. /\ up[c] \in Seq(BOOLEAN) /\ up[c] # <<>>
      /\ panel' = [panel EXCEPT ![c] = Head(up[c])]
      /\ up' = [up EXCEPT ![c] = rest]
  BY DEF CloudReceive
<1>2. /\ Head(up[c]) \in BOOLEAN /\ rest \in Seq(BOOLEAN)
      /\ Len(rest) = Len(up[c]) - 1 /\ Len(up[c]) \in Nat /\ Len(up[c]) > 0
      /\ Head(up[c]) = up[c][1]
      /\ \A i \in 1..(Len(up[c]) - 1) : rest[i] = up[c][i + 1]
      /\ rest = <<>> <=> Len(rest) = 0
  <2>1. /\ Head(up[c]) \in BOOLEAN /\ rest \in Seq(BOOLEAN)
        /\ Len(rest) = Len(up[c]) - 1 /\ Len(up[c]) \in Nat /\ Len(up[c]) > 0
        /\ Head(up[c]) = up[c][1]
        /\ \A i \in 1..(Len(up[c]) - 1) : rest[i] = up[c][i + 1]
    BY <1>1, HeadTailProperties, LenProperties, EmptySeq
  <2>2. \A s \in Seq(BOOLEAN) : s = <<>> <=> Len(s) = 0
    BY EmptySeq
  <2>3. QED BY <2>1, <2>2, Zenon
<1> HIDE DEF rest
<1>3. up' \in [DP -> Seq(BOOLEAN)] /\ panel' \in [DP -> BOOLEAN]
  BY <1>1, <1>2
<1>4. Arriving(c)' = Arriving(c)
  <2>1. up'[c] = rest /\ panel'[c] = Head(up[c])
    BY <1>1
  <2>2. Arriving(c) = up[c][Len(up[c])]
    BY <1>1 DEF Arriving
  <2>3. CASE rest = <<>>
    <3>1. Len(up[c]) = 1
      BY <1>2, <2>3
    <3>2. QED BY <1>2, <2>1, <2>2, <2>3, <3>1 DEF Arriving
  <2>4. CASE rest # <<>>
    <3>1. Len(rest) \in 1..(Len(up[c]) - 1)
      BY <1>2, <2>4
    <3>2. rest[Len(rest)] = up[c][Len(up[c])]
      BY <1>2, <3>1
    <3>3. QED BY <2>1, <2>2, <2>4, <3>2 DEF Arriving
  <2>5. QED BY <2>3, <2>4
<1>5. \A d \in DP \ {c} : up'[d] = up[d] /\ panel'[d] = panel[d]
  BY <1>1
<1>6. QED BY <1>3, <1>4, <1>5 DEF Arriving

\* While the connection is up, what will have arrived is the device's state, for every
\* data point but the buttons the cloud has set itself.
PanelInv == link => \A d \in DP \ unechoed : Arriving(d) = Device(d)

\* What the device reports of a data point is a truth value.
LEMMA DeviceType == ASSUME AppType, NEW d \in DP PROVE Device(d) \in BOOLEAN
  BY DPAssumption DEF AppType, Device, DP, Echoed

\* The report of everything after a connection keeps the panel's account of what is on its way.
LEMMA OnConnectedKeeps ==
  ASSUME AppType, OnConnected, UNCHANGED <<led, alarm, reported, panel, down>>
  PROVE  AppType' /\ PanelInv'
<1> DEFINE vals == [d \in DP |-> Device(d)]
<1>1. \A d \in DP : vals[d] \in BOOLEAN
  BY DeviceType
<1>2. up' = Reported(DP, vals, TRUE) /\ link' = TRUE /\ unechoed' = {}
  BY DEF OnConnected
<1> HIDE DEF vals
<1>3. /\ up' \in [DP -> Seq(BOOLEAN)]
      /\ \A d \in DP : Arriving(d)' = vals[d]
  BY <1>1, <1>2, ReportedArrives, ZenonT(30) DEF AppType
<1>4. \A d \in DP : Device(d)' = vals[d]
  BY DEF Device, vals
<1>5. AppType'
  BY <1>2, <1>3 DEF AppType
<1>6. QED BY <1>3, <1>4, <1>5 DEF PanelInv

\* So does the handler of a write from the cloud.
LEMMA PropertySetKeeps ==
  ASSUME AppType, PanelInv, NEW p \in Payloads, HandlePropertySet(p),
         UNCHANGED <<link, panel>>, down' \in Seq(Payloads)
  PROVE  AppType' /\ PanelInv'
<1>1. DOMAIN p \subseteq DP /\ \A d \in DOMAIN p : p[d] \in BOOLEAN
  BY PayloadType
<1>2. /\ led' = [l \in Leds |-> IF l \in DOMAIN p THEN p[l] ELSE led[l]]
      /\ alarm' = IF Alarm \in DOMAIN p THEN p[Alarm] ELSE alarm
      /\ reported' = [b \in Btns |-> IF b \in Btns \cap DOMAIN p THEN p[b] ELSE reported[b]]
      /\ up' = Reported(Echoed \cap DOMAIN p, p, link)
      /\ unechoed' = unechoed \cup (Btns \cap DOMAIN p)
  BY DEF HandlePropertySet, Presses!CloudSet
<1>3. /\ up' \in [DP -> Seq(BOOLEAN)]
      /\ \A d \in DP : Arriving(d)' =
            IF d \in Echoed \cap DOMAIN p /\ link THEN p[d] ELSE Arriving(d)
  <2>1. \A d \in DP : d \in Echoed \cap DOMAIN p => p[d] \in BOOLEAN
    BY <1>1
  <2>2. up \in [DP -> Seq(BOOLEAN)] /\ link \in BOOLEAN /\ panel' = panel
    BY DEF AppType
  <2>3. QED BY <1>2, <2>1, <2>2, ReportedArrives, Zenon
<1>4. AppType'
  BY <1>1, <1>2, <1>3 DEF AppType
<1>5. ASSUME link, NEW d \in DP \ unechoed' PROVE Arriving(d)' = Device(d)'
  <2>1. Arriving(d) = Device(d)
    BY <1>2, <1>5 DEF PanelInv
  <2>2. Device(d)' = IF d \in DOMAIN p THEN p[d] ELSE Device(d)
    BY <1>2, <1>5, DPAssumption DEF Device, DP, Echoed
  <2>3. d \in DOMAIN p => d \in Echoed
    BY <1>1, <1>2, <1>5 DEF DP
  <2>4. QED BY <1>3, <1>5, <2>1, <2>2, <2>3
<1>6. QED BY <1>4, <1>5 DEF PanelInv

\* So does the drain of a press.
LEMMA PressKeeps ==
  ASSUME AppType, PanelInv, NEW b \in Btns, DrainPress(b)
  PROVE  AppType' /\ PanelInv'
<1> DEFINE flipped == [reported EXCEPT ![b] = ~@]
<1>1. /\ reported' = flipped /\ flipped \in [Btns -> BOOLEAN]
      /\ up' = Reported({b}, flipped, link)
      /\ unechoed' = IF link THEN unechoed \ {b} ELSE unechoed
      /\ UNCHANGED <<led, alarm, link, panel, down>>
  BY DEF DrainPress, Presses!Toggle, AppType
<1> HIDE DEF flipped
<1>2. /\ up' \in [DP -> Seq(BOOLEAN)]
      /\ \A d \in DP : Arriving(d)' = IF d \in {b} /\ link THEN flipped[d] ELSE Arriving(d)
  <2>1. \A d \in DP : d \in {b} => flipped[d] \in BOOLEAN
    BY <1>1
  <2>2. up \in [DP -> Seq(BOOLEAN)] /\ link \in BOOLEAN /\ panel' = panel
    BY <1>1 DEF AppType
  <2>3. QED BY <1>1, <2>1, <2>2, ReportedArrives, Zenon
<1>3. AppType'
  BY <1>1, <1>2 DEF AppType
<1>4. ASSUME link, NEW d \in DP \ unechoed' PROVE Arriving(d)' = Device(d)'
  <2>1. CASE d = b
    <3>1. Device(d)' = flipped[d]
      BY <1>1, <2>1, DPAssumption DEF Device
    <3>2. QED BY <1>1, <1>2, <1>4, <2>1, <3>1
  <2>2. CASE d # b
    <3>1. Device(d)' = Device(d)
      BY <1>1, <1>4, <2>2, DPAssumption DEF Device, DP, Echoed, AppType, flipped
    <3>2. Arriving(d) = Device(d)
      BY <1>1, <1>4, <2>2 DEF PanelInv
    <3>3. QED BY <1>2, <1>4, <2>2, <3>1, <3>2
  <2>3. QED BY <2>1, <2>2
<1>5. QED BY <1>1, <1>3, <1>4 DEF PanelInv

\* Every step of the application keeps AppType and PanelInv.
LEMMA PanelInductive == AppType /\ PanelInv /\ [Next]_vars => AppType' /\ PanelInv'
<1> SUFFICES ASSUME AppType, PanelInv, [Next]_vars PROVE AppType' /\ PanelInv'
  OBVIOUS
<1>1. ASSUME UNCHANGED deviceVars, down' \in Seq(Payloads) PROVE AppType' /\ PanelInv'
  BY <1>1 DEF AppType, PanelInv, Arriving, Device, deviceVars
<1>2. CASE Connect \/ Reconnect
  BY <1>2, OnConnectedKeeps DEF Connect, Reconnect
<1>3. CASE Receive
  <2>1. /\ down # <<>> /\ down \in Seq(Payloads)
        /\ HandlePropertySet(Head(down)) /\ down' = Tail(down)
        /\ UNCHANGED <<link, panel>>
    BY <1>3 DEF Receive, AppType
  <2>2. Head(down) \in Payloads /\ Tail(down) \in Seq(Payloads)
    BY <2>1, HeadTailProperties
  <2>3. QED BY <2>1, <2>2, PropertySetKeeps
<1>4. ASSUME NEW b \in Btns, DrainPress(b) PROVE AppType' /\ PanelInv'
  BY <1>4, PressKeeps
<1>5. ASSUME NEW d \in DP, CloudReceive(d) PROVE AppType' /\ PanelInv'
  <2>1. UNCHANGED <<led, alarm, reported, link, down, unechoed>>
    BY <1>5 DEF CloudReceive, ioVars
  <2>2. /\ up' \in [DP -> Seq(BOOLEAN)] /\ panel' \in [DP -> BOOLEAN]
        /\ \A c \in DP : Arriving(c)' = Arriving(c)
    BY <1>5, ReceiveKeepsArriving DEF AppType
  <2>3. QED BY <2>1, <2>2 DEF AppType, PanelInv, Device
<1>6. CASE LinkDrops
  <2>1. /\ link' = FALSE /\ up' = [d \in DP |-> <<>>] /\ down' = <<>>
        /\ UNCHANGED <<led, alarm, reported, panel, unechoed>>
    BY <1>6 DEF LinkDrops, ioVars
  <2>2. QED BY <2>1, EmptySeq DEF AppType, PanelInv
<1>7. ASSUME NEW p \in Payloads, CloudSend(p) PROVE AppType' /\ PanelInv'
  <2>1. down' = Append(down, p) /\ UNCHANGED deviceVars
    BY <1>7 DEF CloudSend, ioVars, deviceVars
  <2>2. down' \in Seq(Payloads)
    BY <2>1, AppendProperties DEF AppType
  <2>3. QED BY <1>1, <2>1, <2>2
<1>8. ASSUME NEW b \in Btns, Press(b) PROVE AppType' /\ PanelInv'
  BY <1>1, <1>8 DEF Press, Presses!Press, cloudVars, deviceVars, AppType
<1>9. ASSUME NEW b \in Btns, DrainNext(b) PROVE AppType' /\ PanelInv'
  BY <1>1, <1>9 DEF DrainNext, cloudVars, ioVars, deviceVars, AppType
<1>10. CASE \/ CheckTime \/ InitClient \/ StartServices \/ LoopTimesOut \/ DrainEnds
            \/ SirenFlash \/ SirenIdle \/ Ended \/ UNCHANGED vars
  BY <1>1, <1>10 DEF CheckTime, InitClient, StartServices, LoopTimesOut, DrainEnds,
                    SirenFlash, SirenIdle, Ended, vars, cloudVars, ioVars, deviceVars, AppType
<1>11. QED
  BY <1>2, <1>3, <1>4, <1>5, <1>6, <1>7, <1>8, <1>9, <1>10
     DEF Next, Startup, MqttLoop, Drain, Siren

\* AppType and PanelInv hold in every reachable state.
LEMMA PanelInvariant == Spec => [](AppType /\ PanelInv)
<1>1. Init => AppType /\ PanelInv
  BY EmptySeq DEF Init, Presses!EInit, AppType, PanelInv
<1>2. QED BY <1>1, PanelInductive, PTL DEF Spec

\* While the connection is up the app panel is, or is about to be, right about every LED
\* and the alarm, whatever the cloud writes and wherever the connection breaks
\* (handle_property_set, on_connected).
THEOREM PanelFollowsDevice == Spec => []PanelFollows
<1>1. AppType /\ PanelInv => PanelFollows
  BY DPAssumption DEF AppType, PanelInv, PanelFollows, DP, Echoed
<1>2. QED BY <1>1, PanelInvariant, PTL

\* The panel is wrong about a button only between a write of that button by the cloud and
\* its next report (drain_buttons, handle_property_set).
THEOREM PanelFollowsButtons == Spec => []PanelButtons
<1>1. AppType /\ PanelInv => PanelButtons
  BY DEF AppType, PanelInv, PanelButtons, DP
<1>2. QED BY <1>1, PanelInvariant, PTL
=============================================================================
