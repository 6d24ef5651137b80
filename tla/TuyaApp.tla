------------------------------- MODULE TuyaApp -------------------------------
(***************************************************************************)
(* The Tuya application (src/tuya_app_task.c): start-up, the data points   *)
(* (DPs) exchanged with the cloud over MQTT, the button events and the     *)
(* siren task.                                                             *)
(*                                                                         *)
(* The MQTT task is the only writer of the LED pins, of the latched button *)
(* states and of s_alarm_on, and runs a callback to its end before the     *)
(* next, so a callback is one step.  The siren task reads s_alarm_on once  *)
(* per iteration, so an iteration is one step.  The button rings are       *)
(* replaced by ButtonEvents, which TuyaButtons is shown to implement.      *)
(*                                                                         *)
(* The MQTT client and the cloud are external: one TCP connection carries  *)
(* both directions in order, what is in flight when it breaks is lost, and *)
(* tuya_mqtt_loop reconnects and then calls on_connected.  The cloud's     *)
(* copy of a DP changes only when it receives a report.                    *)
(***************************************************************************)
EXTENDS Integers, Sequences

CONSTANTS Leds,        \* s_leds[]
          Btns,        \* s_buttons[]
          Alarm,       \* SIREN_DP_CODE
          QLen,        \* capacity of a button ring
          MaxSets,     \* bound: property/set messages sent by the cloud
          MaxPresses,  \* bound: accepted button presses
          MaxDrops     \* bound: connection losses

ASSUME DPAssumption ==
  /\ Leds \cap Btns = {} /\ Alarm \notin Leds /\ Alarm \notin Btns
  /\ QLen \in Nat \ {0} /\ MaxSets \in Nat /\ MaxPresses \in Nat /\ MaxDrops \in Nat

Echoed == Leds \cup {Alarm}       \* the DPs whose handler reports back
DP     == Echoed \cup Btns

VARIABLES
  pc,        \* tuya_app_task
  todo,      \* buttons drain_buttons has still to visit
  led,       \* the LED pins
  alarm,     \* s_alarm_on
  pending,   \* presses queued on each ring
  reported,  \* latched toggle state of each button
  siren,     \* siren_task: [at, phase, red, blue, buzzer]
  link,      \* the MQTT connection is up
  up,        \* up[d]: reports of DP d in flight to the cloud
  down,      \* property/set messages in flight to the device
  panel,     \* the cloud's copy of each DP, what the app shows
  unechoed,  \* history: buttons set by the cloud since they last reported
  used       \* how much of each bound has been used

cloudVars == <<link, up, down, panel>>
ioVars    == <<led, alarm, reported, unechoed>>
vars == <<pc, todo, led, alarm, pending, reported, siren, link, up, down, panel,
          unechoed, used>>

Presses == INSTANCE ButtonEvents WITH Buttons <- Btns

Device(d) == IF d \in Leds THEN led[d] ELSE IF d = Alarm THEN alarm ELSE reported[d]

-----------------------------------------------------------------------------
Init ==
  /\ pc = "boot"
  /\ todo = {}
  /\ led = [l \in Leds |-> FALSE]
  /\ alarm = FALSE
  /\ Presses!EInit
  /\ siren = [at |-> "none", phase |-> FALSE, red |-> FALSE, blue |-> FALSE,
              buzzer |-> FALSE]
  /\ link = FALSE
  /\ up = [d \in DP |-> <<>>]
  /\ down = <<>>
  /\ panel \in [DP -> BOOLEAN]     \* left by an earlier session
  /\ unechoed = {}
  /\ used = [sets |-> 0, presses |-> 0, drops |-> 0]

-----------------------------------------------------------------------------
(* Reports: tuyalink_thing_property_report, whose result nobody looks at *)

\* One report of each DP in S with the values vals, in flight if the connection
\* is up and lost otherwise.
Reported(S, vals, isUp) ==
  [d \in DP |-> IF d \in S /\ isUp THEN Append(up[d], vals[d]) ELSE up[d]]

\* Mutant: the alarm is forgotten.
OnConnectedNoAlarm ==
  /\ link' = TRUE
  /\ up' = Reported(DP \ {Alarm}, [d \in DP |-> Device(d)], TRUE)
  /\ unechoed' = {}

\* on_connected: publish the current state of every I/O.
OnConnected ==
  /\ link' = TRUE
  /\ up' = Reported(DP, [d \in DP |-> Device(d)], TRUE)
  /\ unechoed' = {}

-----------------------------------------------------------------------------
(* tuya_app_task: start-up *)

\* The wall clock is valid, or becomes valid by SNTP; otherwise the task ends.
CheckTime ==
  /\ pc = "boot"
  /\ pc' \in {"init", "ended"}
  /\ UNCHANGED <<todo, ioVars, pending, siren, cloudVars, used>>

InitClient ==
  /\ pc = "init"
  /\ pc' \in {"connect", "ended"}
  /\ UNCHANGED <<todo, ioVars, pending, siren, cloudVars, used>>

\* A failed tuya_mqtt_connect is retried after five seconds; only success
\* changes the state.
Connect ==
  /\ pc = "connect"
  /\ OnConnected
  /\ pc' = "services"
  /\ UNCHANGED <<todo, led, alarm, pending, reported, siren, down, panel, used>>

\* buttons_start and siren_start; siren_task starts by driving its pins low.
StartServices ==
  /\ pc = "services"
  /\ pc' = "loop"
  /\ siren' = [at |-> "idle", phase |-> FALSE, red |-> FALSE, blue |-> FALSE,
               buzzer |-> FALSE]
  /\ UNCHANGED <<todo, ioVars, pending, cloudVars, used>>

-----------------------------------------------------------------------------
(* tuya_mqtt_loop: one call handles a waiting message, reconnects or times out *)

\* A payload names some DPs and gives each a value.
Payloads == UNION {[S -> BOOLEAN] : S \in SUBSET DP \ {{}}}

\* Mutant: no echo.
HandleWithoutEcho(p) ==
  /\ led' = [l \in Leds |-> IF l \in DOMAIN p THEN p[l] ELSE led[l]]
  /\ alarm' = IF Alarm \in DOMAIN p THEN p[Alarm] ELSE alarm
  /\ Presses!CloudSet(Btns \cap DOMAIN p, p)
  /\ unechoed' = unechoed \cup (Btns \cap DOMAIN p)
  /\ UNCHANGED up

\* handle_property_set: LEDs and alarm are applied and echoed, buttons are
\* applied without a report.
HandlePropertySet(p) ==
  /\ led' = [l \in Leds |-> IF l \in DOMAIN p THEN p[l] ELSE led[l]]
  /\ alarm' = IF Alarm \in DOMAIN p THEN p[Alarm] ELSE alarm
  /\ Presses!CloudSet(Btns \cap DOMAIN p, p)
  /\ up' = Reported(Echoed \cap DOMAIN p, p, link)
  /\ unechoed' = unechoed \cup (Btns \cap DOMAIN p)

Receive ==
  /\ pc = "loop" /\ down # <<>>
  /\ HandlePropertySet(Head(down))
  /\ down' = Tail(down)
  /\ pc' = "drain" /\ todo' = Btns
  /\ UNCHANGED <<siren, link, panel, used>>

Reconnect ==
  /\ pc = "loop" /\ ~link
  /\ OnConnected
  /\ pc' = "drain" /\ todo' = Btns
  /\ UNCHANGED <<led, alarm, pending, reported, siren, down, panel, used>>

LoopTimesOut ==
  /\ pc = "loop" /\ down = <<>>
  /\ pc' = "drain" /\ todo' = Btns
  /\ UNCHANGED <<ioVars, pending, siren, cloudVars, used>>

-----------------------------------------------------------------------------
(* drain_buttons *)

\* Mutant: reports the state from before the toggle.
DrainPressStale(b) ==
  /\ pc = "drain" /\ b \in todo
  /\ Presses!Toggle(b)
  /\ up' = Reported({b}, reported, link)
  /\ unechoed' = IF link THEN unechoed \ {b} ELSE unechoed
  /\ UNCHANGED <<pc, todo, led, alarm, siren, link, down, panel, used>>

DrainPress(b) ==
  /\ pc = "drain" /\ b \in todo
  /\ Presses!Toggle(b)
  /\ up' = Reported({b}, reported', link)
  /\ unechoed' = IF link THEN unechoed \ {b} ELSE unechoed
  /\ UNCHANGED <<pc, todo, led, alarm, siren, link, down, panel, used>>

DrainNext(b) ==
  /\ pc = "drain" /\ b \in todo /\ pending[b] = 0
  /\ todo' = todo \ {b}
  /\ UNCHANGED <<pc, ioVars, pending, siren, cloudVars, used>>

DrainEnds ==
  /\ pc = "drain" /\ todo = {}
  /\ pc' = "loop"
  /\ UNCHANGED <<todo, ioVars, pending, siren, cloudVars, used>>

-----------------------------------------------------------------------------
(* siren_task *)

\* Mutant: the phase never changes.
SirenFlashFrozen ==
  /\ siren.at # "none" /\ alarm
  /\ siren' = [at |-> "flash", phase |-> siren.phase, red |-> siren.phase,
               blue |-> ~siren.phase, buzzer |-> siren.phase]
  /\ UNCHANGED <<pc, todo, ioVars, pending, cloudVars, used>>

\* Every 150 ms: swap the two LEDs, buzzer in step with red.
SirenFlash ==
  /\ siren.at # "none" /\ alarm
  /\ siren' = [at |-> "flash", phase |-> ~siren.phase, red |-> ~siren.phase,
               blue |-> siren.phase, buzzer |-> ~siren.phase]
  /\ UNCHANGED <<pc, todo, ioVars, pending, cloudVars, used>>

\* Mutant: the test of the phase is inverted.
SirenIdleInverted ==
  /\ siren.at # "none" /\ ~alarm
  /\ siren' = IF ~siren.phase
              THEN [at |-> "idle", phase |-> FALSE, red |-> FALSE, blue |-> FALSE,
                    buzzer |-> FALSE]
              ELSE [siren EXCEPT !.at = "idle"]
  /\ UNCHANGED <<pc, todo, ioVars, pending, cloudVars, used>>

\* Every 50 ms: the pins are driven low only if the last flash left phase set.
SirenIdle ==
  /\ siren.at # "none" /\ ~alarm
  /\ siren' = IF siren.phase
              THEN [at |-> "idle", phase |-> FALSE, red |-> FALSE, blue |-> FALSE,
                    buzzer |-> FALSE]
              ELSE [siren EXCEPT !.at = "idle"]
  /\ UNCHANGED <<pc, todo, ioVars, pending, cloudVars, used>>

-----------------------------------------------------------------------------
(* The user, the cloud and the network *)

Press(b) ==
  /\ siren.at # "none"               \* the two services start together
  /\ used.presses < MaxPresses
  /\ Presses!Press(b)
  /\ used' = [used EXCEPT !.presses = @ + 1]
  /\ UNCHANGED <<pc, todo, led, alarm, siren, cloudVars, unechoed>>

CloudSend(p) ==
  /\ link /\ used.sets < MaxSets
  /\ down' = Append(down, p)
  /\ used' = [used EXCEPT !.sets = @ + 1]
  /\ UNCHANGED <<pc, todo, ioVars, pending, siren, link, up, panel>>

CloudReceive(d) ==
  /\ up[d] # <<>>
  /\ panel' = [panel EXCEPT ![d] = Head(up[d])]
  /\ up' = [up EXCEPT ![d] = Tail(@)]
  /\ UNCHANGED <<pc, todo, ioVars, pending, siren, link, down, used>>

LinkDrops ==
  /\ link /\ used.drops < MaxDrops
  /\ link' = FALSE
  /\ up' = [d \in DP |-> <<>>]
  /\ down' = <<>>
  /\ used' = [used EXCEPT !.drops = @ + 1]
  /\ UNCHANGED <<pc, todo, ioVars, pending, siren, panel>>

-----------------------------------------------------------------------------
Startup  == CheckTime \/ InitClient \/ Connect \/ StartServices
MqttLoop == Receive \/ LoopTimesOut \/ Reconnect
Drain    == DrainEnds \/ \E b \in Btns : DrainPress(b) \/ DrainNext(b)
Siren    == SirenFlash \/ SirenIdle

Ended == pc = "ended" /\ UNCHANGED vars      \* vTaskDelete(NULL)

Next ==
  \/ Startup \/ MqttLoop \/ Drain \/ Siren
  \/ \E b \in Btns : Press(b)
  \/ \E p \in Payloads : CloudSend(p)
  \/ \E d \in DP : CloudReceive(d)
  \/ LinkDrops
  \/ Ended

Spec == Init /\ [][Next]_vars

\* Every task is runnable for ever and tuya_mqtt_loop returns.  What is external:
\* the client reconnects if it tries often enough, and the cloud reads.
Fairness ==
  /\ WF_vars(Startup) /\ WF_vars(MqttLoop \/ Drain) /\ WF_vars(Siren)
  /\ SF_vars(Reconnect)
  /\ \A d \in DP : WF_vars(CloudReceive(d))

LiveSpec == Spec /\ Fairness

-----------------------------------------------------------------------------

\* What the cloud will hold once everything in flight has arrived.
Arriving(d) == IF up[d] = <<>> THEN panel[d] ELSE up[d][Len(up[d])]

\* While the connection is up the app panel is, or is about to be, right about
\* every LED and the alarm: handle_property_set's echo and on_connected's
\* reports together cover every change and every loss.
PanelFollows == link => \A d \in Echoed : Arriving(d) = Device(d)

\* The panel is wrong about a button only after the cloud itself has set that
\* button and before the next press or reconnection (handle_property_set does
\* not echo buttons).
PanelButtons == link => \A b \in Btns \ unechoed : Arriving(b) = Device(b)

\* With the alarm off and seen off, the red LED and the buzzer are silent
\* whatever point of the flash the alarm was switched off at (siren_task).
SirenSilent == siren.at = "idle" => ~siren.red /\ ~siren.buzzer

\* The comment above siren_task: "When off, both LEDs and the buzzer are held
\* low."
SirenHeldLow == siren.at = "idle" => ~siren.red /\ ~siren.blue /\ ~siren.buzzer

\* An alarm that stays on flashes both LEDs for ever; one that stays off has red
\* and buzzer silent for ever after some point (siren_task).
SirenFlashes == <>[]alarm => []<>(siren.red) /\ []<>(siren.blue)
SirenStops == <>[](~alarm) => <>[](~siren.red /\ ~siren.buzzer)

\* Online with every press reported and the panel right.
Settled ==
  /\ link /\ down = <<>>
  /\ \A b \in Btns : pending[b] = 0
  /\ \A d \in DP \ unechoed : up[d] = <<>> /\ panel[d] = Device(d)

\* Once the application runs, and after the cloud, the user and the network
\* have done what the bounds let them do, the device ends up settled.
Converges == <>(pc = "loop") => <>[]Settled
=============================================================================
