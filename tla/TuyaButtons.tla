----------------------------- MODULE TuyaButtons -----------------------------
(***************************************************************************)
(* Push buttons of the Tuya application (src/tuya_app_task.c).             *)
(*                                                                         *)
(* button_poll_task samples every button, debounces it and pushes each     *)
(* accepted press onto the button's lock-free ring; the MQTT task drains   *)
(* the rings in drain_buttons and flips the latched state it reports.  The *)
(* two tasks have the same priority and are time-sliced, so they           *)
(* interleave between any two accesses to the shared head, tail and slot.  *)
(***************************************************************************)
EXTENDS Integers, Sequences

CONSTANTS NButtons,      \* BUTTON_COUNT
          QLen,          \* BTN_Q_LEN (8)
          Wrap,          \* number of values of the uint8_t head and tail (256)
          StablePolls    \* BTN_STABLE_POLLS (2)

\* QLen is a power of two no larger than half the counters' range: the slot of
\* an index is index % QLen, also across the wrap of the counter.
ASSUME ConstantsAssumption ==
  /\ NButtons \in Nat \ {0}
  /\ QLen \in Nat \ {0}
  /\ Wrap \in Nat /\ Wrap > QLen /\ Wrap % QLen = 0
  /\ StablePolls \in Nat /\ StablePolls >= 2

Buttons == 1..NButtons

VARIABLES
  level,     \* the pin: TRUE when the button is pressed (environment)
  q,         \* q[b][s]: contents of slot s, 0 until it is first written
  head,      \* written by the poll task only
  tail,      \* written by the MQTT task only
  last,      \* last_logical: the accepted, debounced state
  cand,      \* candidate state
  candN,     \* cand_n
  reported,  \* latched toggle state
  poll,      \* poll task: [at |-> step, b |-> button being processed]
  mqtt,      \* MQTT task: [at |-> step, b |-> button being drained]
  samples    \* history: the last StablePolls samples of each button

pollVars == <<last, cand, candN, samples>>
vars == <<level, q, head, tail, last, cand, candN, reported, poll, mqtt, samples>>

\* uint8_t arithmetic.
Inc(n)    == IF n = Wrap - 1 THEN 0 ELSE n + 1
Sub(m, n) == IF m >= n THEN m - n ELSE m - n + Wrap

Slot(n)  == n % QLen                       \* index & BTN_Q_MASK
Count(b) == Sub(head[b], tail[b])          \* entries in the ring of b

\* The for loops over s_buttons wrap: after the last button the poll task
\* sleeps and starts over.
NextPoll == [at |-> "sample", b |-> (poll.b % NButtons) + 1]

NextDrain == IF mqtt.b = NButtons THEN [at |-> "loop", b |-> 1]
             ELSE [at |-> "test", b |-> mqtt.b + 1]

-----------------------------------------------------------------------------
\* The state after button_poll_task's set-up loop: the rings are empty and the
\* accepted state is what the pin shows.
Init ==
  /\ level \in [Buttons -> BOOLEAN]
  /\ q = [b \in Buttons |-> [s \in 0..(QLen - 1) |-> 0]]
  /\ head = [b \in Buttons |-> 0]
  /\ tail = [b \in Buttons |-> 0]
  /\ last = level
  /\ cand = level
  /\ candN = [b \in Buttons |-> 0]
  /\ reported = [b \in Buttons |-> FALSE]
  /\ poll = [at |-> "sample", b |-> 1]
  /\ mqtt = [at |-> "loop", b |-> 1]
  /\ samples = [b \in Buttons |-> <<>>]

\* The user presses, releases, or the contact bounces.
Move(b) == /\ level' = [level EXCEPT ![b] = ~@]
           /\ UNCHANGED <<q, head, tail, pollVars, reported, poll, mqtt>>

-----------------------------------------------------------------------------
(* button_poll_task *)

\* Mutant: cand_n counts on instead of stopping at StablePolls.
NewCandNUnbounded(b, s) == IF s # cand[b] THEN 1 ELSE candN[b] + 1

\* cand_n after a sample s.
NewCandN(b, s) == IF s # cand[b] THEN 1
                  ELSE IF candN[b] < StablePolls THEN candN[b] + 1
                  ELSE candN[b]

\* Mutants: one sample too many is asked for; the first sample of a candidate
\* is tested too.
AcceptsLate(b, s) == /\ s = cand[b]
                     /\ candN[b] < StablePolls
                     /\ candN[b] + 1 > StablePolls
                     /\ s # last[b]
AcceptsAtOnce(b, s) == candN[b] + 1 >= StablePolls /\ s # last[b]

\* The sample completes a run of StablePolls equal samples of a new state.  The
\* branch is the else-if of the code: a sample that starts a new candidate
\* never completes a run.
Accepts(b, s) == /\ s = cand[b]
                 /\ candN[b] < StablePolls
                 /\ candN[b] + 1 >= StablePolls
                 /\ s # last[b]

\* History only: the last StablePolls samples.
Window(w, s) == IF Len(Append(w, s)) > StablePolls THEN Tail(Append(w, s))
                ELSE Append(w, s)

PollSample ==
  LET b == poll.b
      s == level[b] IN
  /\ poll.at = "sample"
  /\ cand'  = [cand EXCEPT ![b] = s]
  /\ candN' = [candN EXCEPT ![b] = NewCandN(b, s)]
  /\ last'  = IF Accepts(b, s) THEN [last EXCEPT ![b] = s] ELSE last
  /\ samples' = [samples EXCEPT ![b] = Window(@, s)]
  /\ poll' = IF Accepts(b, s) /\ s THEN [poll EXCEPT !.at = "check"] ELSE NextPoll
  /\ UNCHANGED <<level, q, head, tail, reported, mqtt>>

\* Mutant: a full ring still has room.
HasRoomOffByOne(b) == Sub(head[b], tail[b]) <= QLen

HasRoom(b) == Sub(head[b], tail[b]) < QLen

\* button_enqueue reads tail and compares; a full ring drops the press.
PollCheck ==
  /\ poll.at = "check"
  /\ poll' = IF HasRoom(poll.b) THEN [poll EXCEPT !.at = "store"] ELSE NextPoll
  /\ UNCHANGED <<level, q, head, tail, pollVars, reported, mqtt>>

\* Mutant: the slot after the one that is published.
PollStoreNext ==
  /\ poll.at = "store"
  /\ q' = [q EXCEPT ![poll.b][Slot(head[poll.b] + 1)] = 1]
  /\ poll' = [poll EXCEPT !.at = "publish"]
  /\ UNCHANGED <<level, head, tail, pollVars, reported, mqtt>>

PollStore ==
  /\ poll.at = "store"
  /\ q' = [q EXCEPT ![poll.b][Slot(head[poll.b])] = 1]
  /\ poll' = [poll EXCEPT !.at = "publish"]
  /\ UNCHANGED <<level, head, tail, pollVars, reported, mqtt>>

PollPublish ==
  /\ poll.at = "publish"
  /\ head' = [head EXCEPT ![poll.b] = Inc(@)]
  /\ poll' = NextPoll
  /\ UNCHANGED <<level, q, tail, pollVars, reported, mqtt>>

-----------------------------------------------------------------------------
(* The MQTT task: tuya_mqtt_loop, then drain_buttons *)

\* A property/set processed inside tuya_mqtt_loop overwrites the latched state
\* of the buttons it names.
MqttSet(S, v) ==
  /\ mqtt.at = "loop"
  /\ reported' = [b \in Buttons |-> IF b \in S THEN v[b] ELSE reported[b]]
  /\ UNCHANGED <<level, q, head, tail, pollVars, poll, mqtt>>

MqttLoopReturns ==
  /\ mqtt.at = "loop"
  /\ mqtt' = [at |-> "test", b |-> 1]
  /\ UNCHANGED <<level, q, head, tail, pollVars, reported, poll>>

\* Mutant: drains without comparing tail and head.
DrainTestAlways ==
  /\ mqtt.at = "test"
  /\ mqtt' = [mqtt EXCEPT !.at = "load"]
  /\ UNCHANGED <<level, q, head, tail, pollVars, reported, poll>>

DrainTest ==
  /\ mqtt.at = "test"
  /\ mqtt' = IF tail[mqtt.b] # head[mqtt.b] THEN [mqtt EXCEPT !.at = "load"]
             ELSE NextDrain
  /\ UNCHANGED <<level, q, head, tail, pollVars, reported, poll>>

\* Reads the slot; its payload is unused.
DrainLoad ==
  /\ mqtt.at = "load"
  /\ mqtt' = [mqtt EXCEPT !.at = "advance"]
  /\ UNCHANGED <<level, q, head, tail, pollVars, reported, poll>>

\* Mutant: the press is consumed without a toggle.
DrainAdvanceKeeps ==
  /\ mqtt.at = "advance"
  /\ tail' = [tail EXCEPT ![mqtt.b] = Inc(@)]
  /\ mqtt' = [mqtt EXCEPT !.at = "test"]
  /\ UNCHANGED <<level, q, head, pollVars, reported, poll>>

\* Frees the slot, flips the latched state and reports it; only the first
\* write is visible to the poll task.
DrainAdvance ==
  /\ mqtt.at = "advance"
  /\ tail' = [tail EXCEPT ![mqtt.b] = Inc(@)]
  /\ reported' = [reported EXCEPT ![mqtt.b] = ~@]
  /\ mqtt' = [mqtt EXCEPT !.at = "test"]
  /\ UNCHANGED <<level, q, head, pollVars, poll>>

-----------------------------------------------------------------------------
PollTask == PollSample \/ PollCheck \/ PollStore \/ PollPublish
Drain    == DrainTest \/ DrainLoad \/ DrainAdvance

Next ==
  \/ \E b \in Buttons : Move(b)
  \/ PollTask
  \/ \E S \in SUBSET Buttons : \E v \in [S -> BOOLEAN] : MqttSet(S, v)
  \/ MqttLoopReturns
  \/ Drain

Spec == Init /\ [][Next]_vars

\* Both tasks are runnable for ever and time-sliced at the same priority, and
\* tuya_mqtt_loop returns after its receive timeout at the latest.
Fairness == WF_vars(PollTask) /\ WF_vars(Drain) /\ WF_vars(MqttLoopReturns)

LiveSpec == Spec /\ Fairness

-----------------------------------------------------------------------------
PollSteps == {"sample", "check", "store", "publish"}
MqttSteps == {"loop", "test", "load", "advance"}

\* Type invariant of the two tasks' variables.
TypeOK ==
  /\ level \in [Buttons -> BOOLEAN]
  /\ q \in [Buttons -> [0..(QLen - 1) -> {0, 1}]]
  /\ head \in [Buttons -> 0..(Wrap - 1)]
  /\ tail \in [Buttons -> 0..(Wrap - 1)]
  /\ last \in [Buttons -> BOOLEAN]
  /\ cand \in [Buttons -> BOOLEAN]
  /\ candN \in [Buttons -> 0..StablePolls]
  /\ reported \in [Buttons -> BOOLEAN]
  /\ poll \in [at : PollSteps, b : Buttons]
  /\ mqtt \in [at : MqttSteps, b : Buttons]
  /\ samples \in [Buttons -> Seq(BOOLEAN)]

\* The ring never holds more than BTN_Q_LEN entries, although the producer
\* decides from a value of tail that may be stale when it publishes, and across
\* the wrap of the 8-bit counters (button_enqueue, drain_buttons).
RingBounded == \A b \in Buttons : Count(b) <= QLen

\* The slot the producer is about to overwrite, or has just overwritten and not
\* yet published, is never the one the consumer is reading.
SlotExclusive ==
  \A b \in Buttons :
     (/\ poll.b = b /\ poll.at \in {"store", "publish"}
      /\ mqtt.b = b /\ mqtt.at \in {"load", "advance"})
     => Slot(head[b]) # Slot(tail[b])

\* Every entry between tail and head is a press event that was really written:
\* head is never published ahead of its slot.
QueuedArePresses ==
  \A b \in Buttons : \A i \in 0..(Wrap - 1) :
     Sub(i, tail[b]) < Count(b) => q[b][Slot(i)] = 1

\* Debouncing: the accepted state changes only to a value seen in StablePolls
\* consecutive samples, and a value seen that often is always accepted
\* (button_poll_task).
Debounced ==
  \A b \in Buttons :
     (Len(samples[b]) = StablePolls
        /\ \A i \in 1..StablePolls : samples[b][i] = samples[b][1])
     => last[b] = samples[b][1]

AcceptsOnlyStable ==
  [][\A b \in Buttons : last'[b] # last[b] =>
        /\ Len(samples'[b]) = StablePolls
        /\ \A i \in 1..StablePolls : samples'[b][i] = last'[b]]_vars

\* The threaded ring implements the bounded bag of ButtonEvents: presses are
\* neither duplicated nor lost while there is room, and each flips the state
\* exactly once.
Events == INSTANCE ButtonEvents WITH pending <- [b \in Buttons |-> Count(b)]
ImplementsEvents == Events!ESpec

\* Once the buttons are held still, the poll task accepts their levels and the
\* MQTT task drains every ring.
Settles ==
  (\A b \in Buttons : <>[](level[b]) \/ <>[](~level[b]))
    => \A b \in Buttons : <>[](last[b] = level[b] /\ Count(b) = 0)
=============================================================================
