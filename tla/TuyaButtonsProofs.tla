-------------------------- MODULE TuyaButtonsProofs --------------------------
(***************************************************************************)
(* Proofs about TuyaButtons for any number of buttons, ring length and     *)
(* counter width.                                                          *)
(***************************************************************************)
EXTENDS TuyaButtons, SequenceTheorems, TLAPS

\* The modular difference of two counters is a counter; it is zero only for
\* equal counters, and advancing either end moves it by one.
LEMMA SubProperties ==
  ASSUME NEW m \in 0..(Wrap - 1), NEW n \in 0..(Wrap - 1)
  PROVE  /\ Sub(m, n) \in 0..(Wrap - 1)
         /\ Sub(m, n) = 0 <=> m = n
         /\ Inc(m) \in 0..(Wrap - 1)
         /\ Sub(m, n) < Wrap - 1 => Sub(Inc(m), n) = Sub(m, n) + 1
         /\ Sub(m, n) > 0 => Sub(m, Inc(n)) = Sub(m, n) - 1
  BY ConstantsAssumption DEF Sub, Inc

\* Numbers less than QLen apart have different remainders.
LEMMA ModDiffer ==
  ASSUME NEW a \in Nat, NEW c \in Nat, a < c, c - a < QLen
  PROVE  a % QLen # c % QLen
  BY ConstantsAssumption

\* A quotient and a remainder in range are the quotient and the remainder.
LEMMA ModUnique ==
  ASSUME NEW n \in Int, NEW d \in Int, NEW r \in 0..(QLen - 1), n = QLen * d + r
  PROVE  n % QLen = r
<1>1. QLen \in Int /\ QLen > 0
  BY ConstantsAssumption
<1>2. /\ n = QLen * (n \div QLen) + (n % QLen)
      /\ n \div QLen \in Int
      /\ n % QLen \in 0..(QLen - 1)
  BY <1>1
<1>3. QLen * (d - (n \div QLen)) = (n % QLen) - r
  BY <1>1, <1>2
<1>4. d - (n \div QLen) = 0
  <2>1. CASE d - (n \div QLen) >= 1
    <3>1. QLen * (d - (n \div QLen)) >= QLen
      BY <1>1, <1>2, <2>1
    <3>2. QED BY <1>1, <1>2, <1>3, <3>1
  <2>2. CASE d - (n \div QLen) <= -1
    <3>1. QLen * (d - (n \div QLen)) <= -QLen
      BY <1>1, <1>2, <2>2
    <3>2. QED BY <1>1, <1>2, <1>3, <3>1
  <2>3. QED BY <1>2, <2>1, <2>2
<1>5. QED BY <1>1, <1>2, <1>3, <1>4

\* A turn of the 8-bit counter is a whole number of turns of the ring.
LEMMA ModShift ==
  ASSUME NEW a \in Nat
  PROVE  (a + Wrap) % QLen = a % QLen
<1>1. /\ QLen \in Int /\ QLen > 0 /\ Wrap \in Int
      /\ a = QLen * (a \div QLen) + (a % QLen)
      /\ a \div QLen \in Int /\ a % QLen \in 0..(QLen - 1)
      /\ Wrap = QLen * (Wrap \div QLen) /\ Wrap \div QLen \in Int
  BY ConstantsAssumption
<1>2. a + Wrap = QLen * ((a \div QLen) + (Wrap \div QLen)) + (a % QLen)
  BY <1>1
<1>3. /\ a + Wrap \in Int
      /\ (a \div QLen) + (Wrap \div QLen) \in Int
      /\ a % QLen \in 0..(QLen - 1)
  BY <1>1
<1>4. QED BY <1>2, <1>3, ModUnique, Zenon

\* Two indices less than QLen apart, also across the wrap, have different slots.
LEMMA SlotsDiffer ==
  ASSUME NEW m \in 0..(Wrap - 1), NEW n \in 0..(Wrap - 1),
         Sub(m, n) > 0, Sub(m, n) < QLen
  PROVE  Slot(m) # Slot(n)
<1>1. m \in Nat /\ n \in Nat /\ Wrap \in Nat /\ QLen \in Nat
  BY ConstantsAssumption
<1>2. CASE m >= n
  BY <1>1, <1>2, ModDiffer DEF Sub, Slot
<1>3. CASE m < n
  <2>1. n < m + Wrap /\ (m + Wrap) - n < QLen /\ m + Wrap \in Nat
    BY <1>1, <1>3 DEF Sub
  <2>2. n % QLen # (m + Wrap) % QLen
    BY <2>1, <1>1, ModDiffer
  <2>3. QED BY <2>2, <1>1, ModShift DEF Slot
<1>4. QED BY <1>1, <1>2, <1>3

-----------------------------------------------------------------------------
(***************************************************************************)
(* The inductive invariant of the ring.  RingBounded alone is not          *)
(* inductive: when the poll task publishes, the ring must still have the   *)
(* room it found earlier, and when the MQTT task advances there must still *)
(* be the entry it found; each task only makes the other's test truer.     *)
(***************************************************************************)
RoomHeld  == \A b \in Buttons :
               poll.b = b /\ poll.at \in {"store", "publish"} => Count(b) < QLen
EntryHeld == \A b \in Buttons :
               mqtt.b = b /\ mqtt.at \in {"load", "advance"} => Count(b) > 0

IInv == TypeOK /\ RingBounded /\ RoomHeld /\ EntryHeld

\* The button after a button is a button.
LEMMA NextButton == \A p \in Buttons : (p % NButtons) + 1 \in Buttons
  BY ConstantsAssumption DEF Buttons

\* The consumer's next loop step is well typed.
LEMMA NextDrainType ==
  ASSUME mqtt \in [at : MqttSteps, b : Buttons]
  PROVE  NextDrain \in [at : {"loop", "test"}, b : Buttons]
  BY ConstantsAssumption DEF NextDrain, Buttons, MqttSteps

\* The window of samples stays a sequence of samples.
LEMMA WindowType ==
  ASSUME NEW S, NEW w \in Seq(S), NEW e \in S
  PROVE  Window(w, e) \in Seq(S)
<1>1. Append(w, e) \in Seq(S) /\ Append(w, e) # <<>>
  BY AppendProperties
<1>2. Tail(Append(w, e)) \in Seq(S)
  BY <1>1, HeadTailProperties
<1>3. QED BY <1>1, <1>2 DEF Window

\* Type correctness of the two tasks, whatever the number of buttons and the
\* sizes of the ring and its counters.
THEOREM TypeCorrect == Spec => []TypeOK
<1>1. Init => TypeOK
  BY ConstantsAssumption DEF Init, TypeOK, Buttons, PollSteps, MqttSteps
<1>2. TypeOK /\ [Next]_vars => TypeOK'
  <2> SUFFICES ASSUME TypeOK, [Next]_vars PROVE TypeOK'
    OBVIOUS
  <2> USE DEF TypeOK, pollVars
  <2>1. ASSUME NEW b \in Buttons, Move(b) PROVE TypeOK'
    BY <2>1 DEF Move
  <2>2. CASE PollSample
    <3>1. poll.b \in Buttons /\ level[poll.b] \in BOOLEAN
      OBVIOUS
    <3>2. NewCandN(poll.b, level[poll.b]) \in 0..StablePolls
      BY <3>1, ConstantsAssumption DEF NewCandN
    <3>3. candN' \in [Buttons -> 0..StablePolls]
      BY <2>2, <3>1, <3>2 DEF PollSample
    <3>4. /\ cand' \in [Buttons -> BOOLEAN] /\ last' \in [Buttons -> BOOLEAN]
          /\ UNCHANGED <<level, q, head, tail, reported, mqtt>>
      BY <2>2, <3>1 DEF PollSample
    <3>5. samples' \in [Buttons -> Seq(BOOLEAN)]
      <4>1. samples[poll.b] \in Seq(BOOLEAN)
        BY <3>1
      <4>2. Window(samples[poll.b], level[poll.b]) \in Seq(BOOLEAN)
        BY <3>1, <4>1, WindowType, Zenon
      <4>3. samples' = [samples EXCEPT ![poll.b] = Window(samples[poll.b], level[poll.b])]
        BY <2>2 DEF PollSample
      <4>4. QED BY <4>2, <4>3
    <3>6. poll' \in [at : PollSteps, b : Buttons]
      BY <2>2, <3>1, NextButton DEF PollSample, NextPoll, PollSteps
    <3>7. QED BY <3>3, <3>4, <3>5, <3>6
  <2>3. CASE PollCheck
    BY <2>3, NextButton DEF PollCheck, NextPoll, PollSteps
  <2>4. CASE PollStore
    BY <2>4 DEF PollStore, PollSteps
  <2>5. CASE PollPublish
    BY <2>5, NextButton, SubProperties DEF PollPublish, NextPoll, PollSteps
  <2>6. ASSUME NEW S \in SUBSET Buttons, NEW v \in [S -> BOOLEAN], MqttSet(S, v)
        PROVE TypeOK'
    BY <2>6 DEF MqttSet
  <2>7. CASE MqttLoopReturns
    <3>1. [at |-> "test", b |-> 1] \in [at : MqttSteps, b : Buttons]
      BY ConstantsAssumption DEF MqttSteps, Buttons
    <3>2. QED BY <2>7, <3>1 DEF MqttLoopReturns
  <2>8. CASE DrainTest
    BY <2>8, NextDrainType DEF DrainTest, MqttSteps
  <2>9. CASE DrainLoad
    BY <2>9 DEF DrainLoad, MqttSteps
  <2>10. CASE DrainAdvance
    BY <2>10, SubProperties DEF DrainAdvance, MqttSteps
  <2>11. CASE UNCHANGED vars
    BY <2>11 DEF vars
  <2>12. QED
    BY <2>1, <2>2, <2>3, <2>4, <2>5, <2>6, <2>7, <2>8, <2>9, <2>10, <2>11
       DEF Next, PollTask, Drain
<1>3. QED BY <1>1, <1>2, PTL DEF Spec
-----------------------------------------------------------------------------
\* Every step keeps the ring within its capacity, the producer's room and the
\* consumer's entry.
LEMMA RingInductive == IInv /\ TypeOK' /\ [Next]_vars => IInv'
<1> SUFFICES ASSUME IInv, TypeOK', [Next]_vars PROVE IInv'
  OBVIOUS
<1>0. /\ TypeOK /\ RingBounded /\ RoomHeld /\ EntryHeld
      /\ QLen \in Nat /\ Wrap \in Nat /\ QLen < Wrap
      /\ poll.b \in Buttons /\ mqtt.b \in Buttons
      /\ \A b \in Buttons : /\ head[b] \in 0..(Wrap - 1)
                            /\ tail[b] \in 0..(Wrap - 1)
                            /\ Count(b) \in 0..(Wrap - 1)
  BY ConstantsAssumption, SubProperties DEF IInv, TypeOK, Count
<1> DEFINE NewCount(b) == Sub(head'[b], tail'[b])
<1>01. \A b \in Buttons : Count(b)' = NewCount(b)
  BY DEF Count
<1>02. \A b \in Buttons : NewCount(b) \in 0..(Wrap - 1)
  BY SubProperties, <1>0 DEF TypeOK
<1> HIDE DEF NewCount
<1>1. ASSUME UNCHANGED <<head, tail>> PROVE \A b \in Buttons : Count(b)' = Count(b)
  BY <1>1 DEF Count
<1>2. ASSUME UNCHANGED <<head, tail, mqtt>>, poll'.at = "sample" PROVE IInv'
  BY <1>2, <1>0, <1>1 DEF IInv, RingBounded, RoomHeld, EntryHeld
<1>3. ASSUME UNCHANGED <<head, tail, poll>>, mqtt'.at \in {"loop", "test"} PROVE IInv'
  BY <1>3, <1>0, <1>1 DEF IInv, RingBounded, RoomHeld, EntryHeld
<1>4. ASSUME UNCHANGED <<head, tail, poll, mqtt>> PROVE IInv'
  BY <1>4, <1>0, <1>1 DEF IInv, RingBounded, RoomHeld, EntryHeld
<1>5. CASE PollSample
  <2>1. CASE poll'.at = "sample"
    BY <1>5, <2>1, <1>2 DEF PollSample
  <2>2. CASE poll' = [poll EXCEPT !.at = "check"]
    <3>1. UNCHANGED <<head, tail, mqtt>>
      BY <1>5 DEF PollSample
    <3>2. poll'.at = "check"
      BY <2>2, <1>0 DEF TypeOK
    <3>3. QED BY <3>1, <3>2, <1>0, <1>1
              DEF IInv, RingBounded, RoomHeld, EntryHeld
  <2>3. QED BY <1>5, <2>1, <2>2 DEF PollSample, NextPoll
<1>6. CASE PollCheck
  <2>1. CASE HasRoom(poll.b)
    <3>1. poll' = [poll EXCEPT !.at = "store"] /\ UNCHANGED <<head, tail, mqtt>>
      BY <1>6, <2>1 DEF PollCheck
    <3>2. Count(poll.b) < QLen
      BY <2>1 DEF HasRoom, Count
    <3>3. poll'.b = poll.b
      BY <3>1, <1>0 DEF TypeOK
    <3>4. QED BY <3>1, <3>2, <3>3, <1>0, <1>1
              DEF IInv, RingBounded, RoomHeld, EntryHeld
  <2>2. CASE ~HasRoom(poll.b)
    BY <1>6, <2>2, <1>2 DEF PollCheck, NextPoll
  <2>3. QED BY <2>1, <2>2
<1>7. CASE PollStore
  <2>1. /\ poll.at = "store" /\ poll' = [poll EXCEPT !.at = "publish"]
        /\ UNCHANGED <<head, tail, mqtt>>
    BY <1>7 DEF PollStore
  <2>2. poll'.b = poll.b
    BY <2>1, <1>0 DEF TypeOK
  <2>3. QED BY <2>1, <2>2, <1>0, <1>1
            DEF IInv, RingBounded, RoomHeld, EntryHeld
<1>8. CASE PollPublish
  <2>1. /\ poll.at = "publish" /\ poll'.at = "sample" /\ UNCHANGED <<tail, mqtt>>
        /\ head' = [head EXCEPT ![poll.b] = Inc(@)]
    BY <1>8 DEF PollPublish, NextPoll
  <2>2. Count(poll.b) < QLen
    BY <2>1, <1>0 DEF RoomHeld
  <2>3. NewCount(poll.b) = Count(poll.b) + 1
    <3>1. head'[poll.b] = Inc(head[poll.b]) /\ tail'[poll.b] = tail[poll.b]
      BY <2>1, <1>0 DEF TypeOK
    <3>2. Sub(head[poll.b], tail[poll.b]) < Wrap - 1
      BY <2>2, <1>0 DEF Count
    <3>3. Sub(Inc(head[poll.b]), tail[poll.b]) = Sub(head[poll.b], tail[poll.b]) + 1
      BY <3>2, <1>0, SubProperties
    <3>4. QED BY <3>1, <3>3 DEF Count, NewCount
  <2>4. \A b \in Buttons : b # poll.b => NewCount(b) = Count(b)
    BY <2>1, <1>0 DEF Count, NewCount, TypeOK
  <2>5. \A b \in Buttons : NewCount(b) >= Count(b) /\ NewCount(b) <= QLen
    BY <2>2, <2>3, <2>4, <1>0 DEF RingBounded
  <2>6. RingBounded' /\ RoomHeld' /\ EntryHeld'
    BY <2>1, <2>5, <1>0, <1>01, <1>02 DEF RingBounded, RoomHeld, EntryHeld
  <2>7. QED BY <2>6 DEF IInv
<1>9. CASE DrainTest
  <2>1. CASE tail[mqtt.b] # head[mqtt.b]
    <3>1. mqtt' = [mqtt EXCEPT !.at = "load"] /\ UNCHANGED <<head, tail, poll>>
      BY <1>9, <2>1 DEF DrainTest
    <3>2. Count(mqtt.b) > 0
      <4>1. Sub(head[mqtt.b], tail[mqtt.b]) # 0
        BY <2>1, <1>0, SubProperties
      <4>2. QED BY <4>1, <1>0 DEF Count
    <3>3. mqtt'.b = mqtt.b
      BY <3>1, <1>0 DEF TypeOK
    <3>4. QED BY <3>1, <3>2, <3>3, <1>0, <1>1
              DEF IInv, RingBounded, RoomHeld, EntryHeld
  <2>2. CASE tail[mqtt.b] = head[mqtt.b]
    <3>1. mqtt' = NextDrain /\ UNCHANGED <<head, tail, poll>>
      BY <1>9, <2>2 DEF DrainTest
    <3>2. mqtt'.at \in {"loop", "test"}
      BY <3>1 DEF NextDrain
    <3>3. QED BY <3>1, <3>2, <1>3
  <2>3. QED BY <2>1, <2>2
<1>10. CASE DrainLoad
  <2>1. /\ mqtt.at = "load" /\ mqtt' = [mqtt EXCEPT !.at = "advance"]
        /\ UNCHANGED <<head, tail, poll>>
    BY <1>10 DEF DrainLoad
  <2>2. mqtt'.b = mqtt.b
    BY <2>1, <1>0 DEF TypeOK
  <2>3. QED BY <2>1, <2>2, <1>0, <1>1
            DEF IInv, RingBounded, RoomHeld, EntryHeld
<1>11. CASE DrainAdvance
  <2>1. /\ mqtt.at = "advance" /\ mqtt'.at = "test" /\ UNCHANGED <<head, poll>>
        /\ tail' = [tail EXCEPT ![mqtt.b] = Inc(@)]
    BY <1>11, <1>0 DEF DrainAdvance, TypeOK
  <2>2. Count(mqtt.b) > 0
    BY <2>1, <1>0 DEF EntryHeld
  <2>3. NewCount(mqtt.b) = Count(mqtt.b) - 1
    <3>1. tail'[mqtt.b] = Inc(tail[mqtt.b]) /\ head'[mqtt.b] = head[mqtt.b]
      BY <2>1, <1>0 DEF TypeOK
    <3>2. Sub(head[mqtt.b], tail[mqtt.b]) > 0
      BY <2>2 DEF Count
    <3>3. Sub(head[mqtt.b], Inc(tail[mqtt.b])) = Sub(head[mqtt.b], tail[mqtt.b]) - 1
      BY <3>2, <1>0, SubProperties
    <3>4. QED BY <3>1, <3>3 DEF Count, NewCount
  <2>4. \A b \in Buttons : b # mqtt.b => NewCount(b) = Count(b)
    BY <2>1, <1>0 DEF Count, NewCount, TypeOK
  <2>5. \A b \in Buttons : NewCount(b) <= Count(b)
    BY <2>2, <2>3, <2>4, <1>0
  <2>6. RingBounded' /\ RoomHeld' /\ EntryHeld'
    BY <2>1, <2>5, <1>0, <1>01, <1>02 DEF RingBounded, RoomHeld, EntryHeld
  <2>7. QED BY <2>6 DEF IInv
<1>12. CASE MqttLoopReturns
  BY <1>12, <1>3 DEF MqttLoopReturns
<1>13. ASSUME NEW b \in Buttons, Move(b) PROVE IInv'
  BY <1>13, <1>4 DEF Move
<1>14. ASSUME NEW S \in SUBSET Buttons, NEW v \in [S -> BOOLEAN], MqttSet(S, v)
       PROVE IInv'
  BY <1>14, <1>4 DEF MqttSet
<1>15. CASE UNCHANGED vars
  BY <1>15, <1>4 DEF vars
<1>16. QED
  BY <1>5, <1>6, <1>7, <1>8, <1>9, <1>10, <1>11, <1>12, <1>13, <1>14, <1>15
     DEF Next, PollTask, Drain

\* The initial state satisfies IInv.
LEMMA RingInitially == Init => IInv
<1> SUFFICES ASSUME Init PROVE IInv
  OBVIOUS
<1>1. TypeOK
  BY ConstantsAssumption DEF Init, TypeOK, Buttons, PollSteps, MqttSteps
<1>2. \A b \in Buttons : Count(b) = 0
  BY ConstantsAssumption DEF Init, Count, Sub
<1>3. QED BY <1>1, <1>2, ConstantsAssumption
          DEF Init, IInv, RingBounded, RoomHeld, EntryHeld

\* IInv holds in every reachable state.
LEMMA RingInvariant == Spec => []IInv
<1>1. IInv /\ TypeOK' /\ [Next]_vars => IInv'
  BY RingInductive
<1>2. QED BY <1>1, RingInitially, TypeCorrect, PTL DEF Spec

\* The ring never holds more than QLen presses (button_enqueue against
\* drain_buttons, in any interleaving).
THEOREM RingNeverOverflows == Spec => []RingBounded
<1>1. IInv => RingBounded
  BY DEF IInv
<1>2. QED BY <1>1, RingInvariant, PTL

\* Producer and consumer never touch the same slot at once: the lock-free ring
\* needs no lock.
THEOREM SlotsExclusive == Spec => []SlotExclusive
<1>1. IInv => SlotExclusive
  <2> SUFFICES ASSUME IInv, NEW b \in Buttons,
                      poll.b = b, poll.at \in {"store", "publish"},
                      mqtt.b = b, mqtt.at \in {"load", "advance"}
               PROVE  Slot(head[b]) # Slot(tail[b])
    BY DEF SlotExclusive
  <2>1. Count(b) > 0 /\ Count(b) < QLen
    BY DEF IInv, RoomHeld, EntryHeld
  <2>2. head[b] \in 0..(Wrap - 1) /\ tail[b] \in 0..(Wrap - 1)
    BY DEF IInv, TypeOK
  <2>3. QED BY <2>1, <2>2, SlotsDiffer DEF Count
<1>2. QED BY <1>1, RingInvariant, PTL
-----------------------------------------------------------------------------
\* Publishing an index adds that index alone to the entries between tail and head;
\* advancing tail adds none.
LEMMA EntriesAfterPublish ==
  ASSUME NEW h \in 0..(Wrap - 1), NEW t \in 0..(Wrap - 1), NEW i \in 0..(Wrap - 1),
         Sub(h, t) < QLen, Sub(i, t) < Sub(Inc(h), t), i # h
  PROVE  Sub(i, t) < Sub(h, t)
  BY ConstantsAssumption DEF Sub, Inc

\* What is left in the ring after an advance was in it before.
LEMMA EntriesAfterAdvance ==
  ASSUME NEW h \in 0..(Wrap - 1), NEW t \in 0..(Wrap - 1), NEW i \in 0..(Wrap - 1),
         Sub(h, t) > 0, Sub(i, Inc(t)) < Sub(h, Inc(t))
  PROVE  Sub(i, t) < Sub(h, t)
  BY ConstantsAssumption DEF Sub, Inc

\* The slot of a counter is a slot of the ring.
LEMMA SlotType == \A n \in 0..(Wrap - 1) : Slot(n) \in 0..(QLen - 1)
  BY ConstantsAssumption DEF Slot

\* What is about to be published has been written.
WrittenHeld == poll.at = "publish" => q[poll.b][Slot(head[poll.b])] = 1

QInv == QueuedArePresses /\ WrittenHeld

\* Every step keeps QInv.
LEMMA QueueInductive == QInv /\ IInv /\ [Next]_vars => QInv'
<1> SUFFICES ASSUME QInv, IInv, [Next]_vars PROVE QInv'
  OBVIOUS
<1>0. /\ TypeOK /\ QueuedArePresses /\ WrittenHeld /\ RoomHeld /\ EntryHeld
      /\ poll.b \in Buttons /\ mqtt.b \in Buttons
      /\ q \in [Buttons -> [0..(QLen - 1) -> {0, 1}]]
      /\ \A b \in Buttons : head[b] \in 0..(Wrap - 1) /\ tail[b] \in 0..(Wrap - 1)
  BY DEF QInv, IInv, TypeOK
\* A step that keeps the ring and does not end in front of a publication.
<1>1. ASSUME UNCHANGED <<q, head, tail>>, poll' = poll \/ poll'.at # "publish" PROVE QInv'
  <2>1. QueuedArePresses'
    BY <1>0, <1>1 DEF QueuedArePresses, Count
  <2>2. WrittenHeld'
    BY <1>0, <1>1 DEF WrittenHeld
  <2>3. QED BY <2>1, <2>2 DEF QInv
<1>2. CASE PollStore
  <2>1. /\ poll.at = "store" /\ poll' = [poll EXCEPT !.at = "publish"]
        /\ q' = [q EXCEPT ![poll.b][Slot(head[poll.b])] = 1]
        /\ UNCHANGED <<head, tail>>
    BY <1>2 DEF PollStore
  <2>2. Slot(head[poll.b]) \in 0..(QLen - 1) /\ poll'.b = poll.b
    BY <1>0, <2>1, SlotType DEF TypeOK
  <2>3. \A b \in Buttons, s \in 0..(QLen - 1) : q[b][s] = 1 => q'[b][s] = 1
    BY <1>0, <2>1, <2>2
  <2>4. q'[poll.b][Slot(head[poll.b])] = 1
    BY <1>0, <2>1, <2>2
  <2>5. QueuedArePresses'
    <3> SUFFICES ASSUME NEW b \in Buttons, NEW i \in 0..(Wrap - 1),
                        Sub(i, tail[b]) < Sub(head[b], tail[b])
                 PROVE  q'[b][Slot(i)] = 1
      BY <2>1 DEF QueuedArePresses, Count
    <3>1. q[b][Slot(i)] = 1
      BY <1>0 DEF QueuedArePresses, Count
    <3>2. QED BY <2>3, <3>1, SlotType
  <2>6. WrittenHeld'
    BY <2>1, <2>2, <2>4 DEF WrittenHeld
  <2>7. QED BY <2>5, <2>6 DEF QInv
<1>3. CASE PollPublish
  <2>1. /\ poll.at = "publish" /\ poll'.at = "sample" /\ UNCHANGED <<q, tail>>
        /\ head' = [head EXCEPT ![poll.b] = Inc(@)]
    BY <1>3 DEF PollPublish, NextPoll
  <2>2. QueuedArePresses'
    <3> SUFFICES ASSUME NEW b \in Buttons, NEW i \in 0..(Wrap - 1),
                        Sub(i, tail[b]) < Sub(head'[b], tail[b])
                 PROVE  q[b][Slot(i)] = 1
      BY <2>1 DEF QueuedArePresses, Count
    <3>1. CASE b # poll.b
      <4>1. head'[b] = head[b]
        BY <1>0, <2>1, <3>1 DEF TypeOK
      <4>2. QED BY <1>0, <4>1 DEF QueuedArePresses, Count
    <3>2. CASE b = poll.b /\ i = head[b]
      BY <1>0, <2>1, <3>2 DEF WrittenHeld
    <3>3. CASE b = poll.b /\ i # head[b]
      <4>1. head'[b] = Inc(head[b])
        BY <1>0, <2>1, <3>3 DEF TypeOK
      <4>2. Sub(head[b], tail[b]) < QLen
        BY <1>0, <2>1, <3>3 DEF RoomHeld, Count
      <4>3. Sub(i, tail[b]) < Sub(head[b], tail[b])
        BY <1>0, <3>3, <4>1, <4>2, EntriesAfterPublish
      <4>4. QED BY <1>0, <4>3 DEF QueuedArePresses, Count
    <3>4. QED BY <3>1, <3>2, <3>3
  <2>3. QED BY <2>1, <2>2 DEF QInv, WrittenHeld
<1>4. CASE DrainAdvance
  <2>1. /\ mqtt.at = "advance" /\ UNCHANGED <<q, head, poll>>
        /\ tail' = [tail EXCEPT ![mqtt.b] = Inc(@)]
    BY <1>4 DEF DrainAdvance
  <2>2. QueuedArePresses'
    <3> SUFFICES ASSUME NEW b \in Buttons, NEW i \in 0..(Wrap - 1),
                        Sub(i, tail'[b]) < Sub(head[b], tail'[b])
                 PROVE  q[b][Slot(i)] = 1
      BY <2>1 DEF QueuedArePresses, Count
    <3>1. CASE b # mqtt.b
      <4>1. tail'[b] = tail[b]
        BY <1>0, <2>1, <3>1 DEF TypeOK
      <4>2. QED BY <1>0, <4>1 DEF QueuedArePresses, Count
    <3>2. CASE b = mqtt.b
      <4>1. tail'[b] = Inc(tail[b])
        BY <1>0, <2>1, <3>2 DEF TypeOK
      <4>2. Sub(head[b], tail[b]) > 0
        BY <1>0, <2>1, <3>2 DEF EntryHeld, Count
      <4>3. Sub(i, tail[b]) < Sub(head[b], tail[b])
        BY <1>0, <4>1, <4>2, EntriesAfterAdvance
      <4>4. QED BY <1>0, <4>3 DEF QueuedArePresses, Count
    <3>3. QED BY <3>1, <3>2
  <2>3. QED BY <1>0, <2>1, <2>2 DEF QInv, WrittenHeld
<1>5. CASE PollSample \/ PollCheck
  BY <1>0, <1>1, <1>5 DEF PollSample, PollCheck, NextPoll, TypeOK
<1>6. CASE MqttLoopReturns \/ DrainTest \/ DrainLoad \/ UNCHANGED vars
  BY <1>1, <1>6 DEF MqttLoopReturns, DrainTest, DrainLoad, vars
<1>7. ASSUME NEW b \in Buttons, Move(b) PROVE QInv'
  BY <1>1, <1>7 DEF Move
<1>8. ASSUME NEW S \in SUBSET Buttons, NEW v \in [S -> BOOLEAN], MqttSet(S, v)
      PROVE QInv'
  BY <1>1, <1>8 DEF MqttSet
<1>9. QED
  BY <1>2, <1>3, <1>4, <1>5, <1>6, <1>7, <1>8 DEF Next, PollTask, Drain

\* Every entry between tail and head is a press that was written, whatever the two
\* tasks do between the store and its publication (button_enqueue).
THEOREM QueueHoldsPresses == Spec => []QueuedArePresses
<1>1. Init => QInv
  <2> SUFFICES ASSUME Init PROVE QInv
    OBVIOUS
  <2>1. \A b \in Buttons : Count(b) = 0
    BY ConstantsAssumption DEF Init, Count, Sub
  <2>2. \A b \in Buttons, i \in 0..(Wrap - 1) : ~(Sub(i, tail[b]) < 0)
    BY ConstantsAssumption DEF Init, Sub
  <2>3. QED BY <2>1, <2>2 DEF Init, QInv, QueuedArePresses, WrittenHeld
<1>2. QInv /\ IInv /\ [Next]_vars => QInv'
  BY QueueInductive
<1>3. QInv => QueuedArePresses
  BY DEF QInv
<1>4. QED BY <1>1, <1>2, <1>3, RingInvariant, PTL DEF Spec
-----------------------------------------------------------------------------
\* The window after a sample: one longer until it is full, then shifted by one.
LEMMA WindowStep ==
  ASSUME NEW w \in Seq(BOOLEAN), NEW e \in BOOLEAN, Len(w) <= StablePolls
  PROVE  LET v == Window(w, e)
             d == IF Len(w) < StablePolls THEN 0 ELSE 1
         IN  /\ v \in Seq(BOOLEAN) /\ Len(v) = Len(w) + 1 - d
             /\ v[Len(v)] = e
             /\ \A i \in 1..(Len(v) - 1) : v[i] = w[i + d]
<1> DEFINE a == Append(w, e)
<1>0. StablePolls \in Nat /\ StablePolls >= 2 /\ Len(w) \in Nat
  BY ConstantsAssumption, LenProperties
<1>1. /\ a \in Seq(BOOLEAN) /\ a # <<>> /\ Len(a) = Len(w) + 1
      /\ \A i \in 1..Len(w) : a[i] = w[i]
      /\ a[Len(w) + 1] = e
  BY AppendProperties
<1>2. /\ Tail(a) \in Seq(BOOLEAN) /\ Len(Tail(a)) = Len(a) - 1
      /\ \A i \in 1..(Len(a) - 1) : Tail(a)[i] = a[i + 1]
  BY <1>1, HeadTailProperties
<1> HIDE DEF a
<1>3. Window(w, e) = IF Len(a) > StablePolls THEN Tail(a) ELSE a
  BY DEF Window, a
<1>4. CASE Len(w) < StablePolls
  BY <1>0, <1>1, <1>3, <1>4
<1>5. CASE Len(w) = StablePolls
  <2>1. Window(w, e) = Tail(a) /\ Len(a) = StablePolls + 1
    BY <1>0, <1>1, <1>3, <1>5
  <2>2. Tail(a)[StablePolls] = a[StablePolls + 1]
    BY <1>0, <1>2, <2>1
  <2>3. \A i \in 1..(StablePolls - 1) : Tail(a)[i] = w[i + 1]
    BY <1>0, <1>1, <1>2, <1>5, <2>1
  <2>4. QED BY <1>0, <1>1, <1>2, <1>5, <2>1, <2>2, <2>3
<1>6. QED BY <1>0, <1>4, <1>5

\* cand_n counts the samples at the end of the window that equal the candidate, and
\* the sample before them differs; when it has reached StablePolls the candidate is
\* the accepted state.
RunOf(w, c, k, l) ==
  /\ Len(w) <= StablePolls /\ k <= Len(w)
  /\ Len(w) > 0 => k > 0
  /\ \A i \in 1..Len(w) : i > Len(w) - k => w[i] = c
  /\ k < Len(w) => w[Len(w) - k] # c
  /\ k = StablePolls => l = c

DebounceInv == \A b \in Buttons : RunOf(samples[b], cand[b], candN[b], last[b])

\* One sample takes RunOf of a button to RunOf of the longer window.
LEMMA RunStep ==
  ASSUME TypeOK, NEW b \in Buttons, NEW s \in BOOLEAN,
         RunOf(samples[b], cand[b], candN[b], last[b])
  PROVE  RunOf(Window(samples[b], s), s, NewCandN(b, s),
               IF Accepts(b, s) THEN s ELSE last[b])
<1> DEFINE w == samples[b]
           v == Window(w, s)
           k == candN[b]
           d == IF Len(w) < StablePolls THEN 0 ELSE 1
<1>0. /\ StablePolls \in Nat /\ StablePolls >= 2
      /\ w \in Seq(BOOLEAN) /\ k \in 0..StablePolls
      /\ cand[b] \in BOOLEAN /\ last[b] \in BOOLEAN /\ Len(w) \in Nat
  BY ConstantsAssumption, LenProperties DEF TypeOK
<1>1. /\ v \in Seq(BOOLEAN) /\ Len(v) = Len(w) + 1 - d
      /\ v[Len(v)] = s
      /\ \A i \in 1..(Len(v) - 1) : v[i] = w[i + d]
  BY <1>0, WindowStep, Zenon DEF RunOf
<1>2. /\ Len(w) <= StablePolls /\ k <= Len(w)
      /\ Len(w) > 0 => k > 0
      /\ \A i \in 1..Len(w) : i > Len(w) - k => w[i] = cand[b]
      /\ k < Len(w) => w[Len(w) - k] # cand[b]
      /\ k = StablePolls => last[b] = cand[b]
  BY DEF RunOf
<1> HIDE DEF w, v, k
<1>3. CASE s # cand[b]
  <2>1. NewCandN(b, s) = 1 /\ ~Accepts(b, s)
    BY <1>3 DEF NewCandN, Accepts
  <2>2. Len(v) > 1 => v[Len(v) - 1] # s
    <3> SUFFICES ASSUME Len(v) > 1 PROVE v[Len(v) - 1] # s
      OBVIOUS
    <3>1. v[Len(v) - 1] = w[Len(w)]
      <4>1. Len(v) - 1 \in 1..(Len(v) - 1) /\ (Len(v) - 1) + d = Len(w)
        BY <1>0, <1>1
      <4>2. QED BY <1>1, <4>1
    <3>2. w[Len(w)] = cand[b]
      BY <1>0, <1>1, <1>2
    <3>3. QED BY <1>3, <3>1, <3>2
  <2>3. /\ Len(v) <= StablePolls /\ 1 <= Len(v)
        /\ \A i \in 1..Len(v) : i > Len(v) - 1 => v[i] = s
    BY <1>0, <1>1, <1>2
  <2>4. RunOf(v, s, 1, last[b])
    BY <1>0, <2>2, <2>3 DEF RunOf
  <2>5. QED BY <2>1, <2>4 DEF v, w
<1>4. CASE s = cand[b] /\ k < StablePolls
  <2>1. NewCandN(b, s) = k + 1
    BY <1>4 DEF NewCandN, k
  <2>2. k + 1 = StablePolls => (IF Accepts(b, s) THEN s ELSE last[b]) = s
    BY <1>0, <1>4 DEF Accepts, k
  <2>3. k + 1 <= Len(v) /\ Len(v) <= StablePolls /\ Len(v) \in Nat
    BY <1>0, <1>1, <1>2, <1>4
  <2>4. \A i \in 1..Len(v) : i > Len(v) - (k + 1) => v[i] = s
    <3> SUFFICES ASSUME NEW i \in 1..Len(v), i > Len(v) - (k + 1) PROVE v[i] = s
      OBVIOUS
    <3>1. CASE i = Len(v)
      BY <1>1, <3>1
    <3>2. CASE i < Len(v)
      <4>1. v[i] = w[i + d] /\ i + d \in 1..Len(w) /\ i + d > Len(w) - k
        BY <1>0, <1>1, <2>3, <3>2
      <4>2. QED BY <1>2, <1>4, <4>1
    <3>3. QED BY <2>3, <3>1, <3>2
  <2>5. k + 1 < Len(v) => v[Len(v) - (k + 1)] # s
    <3> SUFFICES ASSUME k + 1 < Len(v) PROVE v[Len(v) - (k + 1)] # s
      OBVIOUS
    <3> DEFINE j == Len(v) - (k + 1)
    <3>1. v[j] = w[Len(w) - k] /\ k < Len(w)
      <4>1. j \in 1..(Len(v) - 1) /\ j + d = Len(w) - k /\ k < Len(w)
        BY <1>0, <1>1, <2>3
      <4>2. QED BY <1>1, <4>1
    <3>2. QED BY <1>2, <1>4, <3>1
  <2>6. QED BY <1>0, <2>1, <2>2, <2>3, <2>4, <2>5 DEF RunOf, v, w
<1>5. CASE s = cand[b] /\ k = StablePolls
  <2>1. NewCandN(b, s) = k /\ ~Accepts(b, s)
    BY <1>0, <1>5 DEF NewCandN, Accepts, k
  <2>2. Len(v) = StablePolls /\ Len(w) = StablePolls /\ last[b] = s
    BY <1>0, <1>1, <1>2, <1>5
  <2>3. \A i \in 1..Len(v) : v[i] = s
    BY <1>0, <1>1, <1>2, <1>5, <2>2
  <2>4. QED BY <1>0, <1>5, <2>1, <2>2, <2>3 DEF RunOf, v, w
<1>6. QED BY <1>0, <1>3, <1>4, <1>5

\* What a step may do to the debouncer: PollSample moves the polled button alone,
\* every other step nothing.
LEMMA DebounceSteps ==
  ASSUME TypeOK, [Next]_vars
  PROVE  \/ UNCHANGED pollVars
         \/ LET s == level[poll.b] IN
            /\ poll.b \in Buttons /\ s \in BOOLEAN
            /\ \A b \in Buttons \ {poll.b} :
                 /\ samples'[b] = samples[b] /\ cand'[b] = cand[b]
                 /\ candN'[b] = candN[b] /\ last'[b] = last[b]
            /\ samples'[poll.b] = Window(samples[poll.b], s)
            /\ cand'[poll.b] = s /\ candN'[poll.b] = NewCandN(poll.b, s)
            /\ last'[poll.b] = IF Accepts(poll.b, s) THEN s ELSE last[poll.b]
<1>1. CASE PollSample
  <2>1. poll.b \in Buttons /\ level[poll.b] \in BOOLEAN
    BY DEF TypeOK
  <2>2. /\ cand'  = [cand EXCEPT ![poll.b] = level[poll.b]]
        /\ candN' = [candN EXCEPT ![poll.b] = NewCandN(poll.b, level[poll.b])]
        /\ last'  = IF Accepts(poll.b, level[poll.b])
                    THEN [last EXCEPT ![poll.b] = level[poll.b]] ELSE last
        /\ samples' = [samples EXCEPT ![poll.b] = Window(samples[poll.b], level[poll.b])]
    BY <1>1 DEF PollSample
  <2>3. QED BY <2>1, <2>2 DEF TypeOK
<1>2. CASE ~PollSample
  BY <1>2 DEF Next, PollTask, Drain, vars, Move, MqttSet, PollCheck, PollStore,
              PollPublish, MqttLoopReturns, DrainTest, DrainLoad, DrainAdvance, pollVars
<1>3. QED BY <1>1, <1>2

\* Every step keeps DebounceInv.
LEMMA DebounceInductive == TypeOK /\ DebounceInv /\ [Next]_vars => DebounceInv'
<1> SUFFICES ASSUME TypeOK, DebounceInv, [Next]_vars, NEW b \in Buttons
             PROVE  RunOf(samples'[b], cand'[b], candN'[b], last'[b])
  BY DEF DebounceInv
<1>1. RunOf(samples[b], cand[b], candN[b], last[b])
  BY DEF DebounceInv
<1>2. CASE UNCHANGED pollVars
  BY <1>1, <1>2 DEF pollVars
<1>3. CASE ~UNCHANGED pollVars /\ b # poll.b
  BY <1>1, <1>3, DebounceSteps
<1>4. CASE ~UNCHANGED pollVars /\ b = poll.b
  <2> DEFINE s == level[b]
  <2>1. /\ s \in BOOLEAN /\ samples'[b] = Window(samples[b], s)
        /\ cand'[b] = s /\ candN'[b] = NewCandN(b, s)
        /\ last'[b] = IF Accepts(b, s) THEN s ELSE last[b]
    BY <1>4, DebounceSteps
  <2>2. RunOf(Window(samples[b], s), s, NewCandN(b, s),
              IF Accepts(b, s) THEN s ELSE last[b])
    BY <1>1, <2>1, RunStep
  <2>3. QED BY <2>1, <2>2
<1>5. QED BY <1>2, <1>3, <1>4

\* DebounceInv holds in every reachable state.
LEMMA DebounceInvariant == Spec => []DebounceInv
<1>1. Init => DebounceInv
  <2> SUFFICES ASSUME Init, NEW b \in Buttons
               PROVE  RunOf(samples[b], cand[b], candN[b], last[b])
    BY DEF DebounceInv
  <2>1. samples[b] = <<>> /\ candN[b] = 0
    BY DEF Init
  <2>2. QED BY <2>1, ConstantsAssumption DEF RunOf
<1>2. TypeOK /\ DebounceInv /\ [Next]_vars => DebounceInv'
  BY DebounceInductive
<1>3. QED BY <1>1, <1>2, TypeCorrect, PTL DEF Spec

\* A value seen in StablePolls samples in a row is the accepted state
\* (button_poll_task).
THEOREM StableIsAccepted == Spec => []Debounced
<1>1. TypeOK /\ DebounceInv => Debounced
  <2> SUFFICES ASSUME TypeOK, DebounceInv, NEW b \in Buttons,
                      Len(samples[b]) = StablePolls,
                      \A i \in 1..StablePolls : samples[b][i] = samples[b][1]
               PROVE  last[b] = samples[b][1]
    BY DEF Debounced
  <2>1. RunOf(samples[b], cand[b], candN[b], last[b]) /\ candN[b] \in 0..StablePolls
    BY DEF TypeOK, DebounceInv
  <2>2. samples[b][StablePolls] = cand[b]
    BY <2>1, ConstantsAssumption DEF RunOf
  <2>3. ~(candN[b] < StablePolls)
    BY <2>1, <2>2, ConstantsAssumption DEF RunOf
  <2>4. QED BY <2>1, <2>2, <2>3, ConstantsAssumption DEF RunOf
<1>2. QED BY <1>1, TypeCorrect, DebounceInvariant, PTL

\* The accepted state changes only to a value that the last StablePolls samples show
\* (button_poll_task: a bounce is never accepted).
THEOREM AcceptedIsStable == Spec => AcceptsOnlyStable
<1>1. TypeOK /\ DebounceInv' /\ [Next]_vars =>
        [\A b \in Buttons : last'[b] # last[b] =>
           /\ Len(samples'[b]) = StablePolls
           /\ \A i \in 1..StablePolls : samples'[b][i] = last'[b]]_vars
  <2> SUFFICES ASSUME TypeOK, DebounceInv', [Next]_vars,
                      NEW b \in Buttons, last'[b] # last[b]
               PROVE  /\ Len(samples'[b]) = StablePolls
                      /\ \A i \in 1..StablePolls : samples'[b][i] = last'[b]
    OBVIOUS
  <2>1. b = poll.b
    BY DebounceSteps DEF pollVars
  <2>2. LET s == level[b] IN
          Accepts(b, s) /\ last'[b] = s /\ cand'[b] = s /\ candN'[b] = NewCandN(b, s)
    BY <2>1, DebounceSteps DEF pollVars
  <2>3. candN'[b] = StablePolls
    BY <2>2, ConstantsAssumption DEF Accepts, NewCandN, TypeOK
  <2>4. RunOf(samples'[b], cand'[b], candN'[b], last'[b])
    BY DEF DebounceInv
  <2>5. cand'[b] = last'[b]
    BY <2>2
  <2>6. QED BY <2>3, <2>4, <2>5, ConstantsAssumption DEF RunOf
<1>2. QED BY <1>1, TypeCorrect, DebounceInvariant, PTL DEF Spec, AcceptsOnlyStable
-----------------------------------------------------------------------------
\* How a step of the two tasks changes the abstract bag of pending presses.
LEMMA PublishIsPress == IInv /\ PollPublish => Events!Press(poll.b)
<1> SUFFICES ASSUME IInv, PollPublish PROVE Events!Press(poll.b)
  OBVIOUS
<1>1. /\ poll.b \in Buttons /\ QLen \in Nat /\ Wrap \in Nat /\ QLen < Wrap
      /\ head[poll.b] \in 0..(Wrap - 1) /\ tail[poll.b] \in 0..(Wrap - 1)
      /\ head' = [head EXCEPT ![poll.b] = Inc(@)] /\ tail' = tail
      /\ reported' = reported
  BY ConstantsAssumption DEF IInv, TypeOK, PollPublish
<1>2. Count(poll.b) < QLen
  BY <1>1 DEF IInv, RoomHeld, PollPublish
<1>3. Sub(Inc(head[poll.b]), tail[poll.b]) = Sub(head[poll.b], tail[poll.b]) + 1
  <2>1. Sub(head[poll.b], tail[poll.b]) \in 0..(Wrap - 1)
    BY <1>1, SubProperties
  <2>2. Sub(head[poll.b], tail[poll.b]) < QLen
    BY <1>2 DEF Count
  <2>3. Sub(head[poll.b], tail[poll.b]) < Wrap - 1
    BY <1>1, <2>1, <2>2
  <2>4. QED BY <1>1, <2>3, SubProperties
<1>4. \A b \in Buttons : Sub(head'[b], tail'[b]) =
                           IF b = poll.b THEN Count(b) + 1 ELSE Count(b)
  BY <1>1, <1>3 DEF Count, IInv, TypeOK
<1>5. [b \in Buttons |-> Count(b)]' =
        [[b \in Buttons |-> Count(b)] EXCEPT ![poll.b] = @ + 1]
  BY <1>4, <1>1 DEF Count
<1>6. QED BY <1>1, <1>2, <1>5 DEF Events!Press

\* The consumer's advance of the tail is the abstract toggle of that button.
LEMMA AdvanceIsToggle == IInv /\ DrainAdvance => Events!Toggle(mqtt.b)
<1> SUFFICES ASSUME IInv, DrainAdvance PROVE Events!Toggle(mqtt.b)
  OBVIOUS
<1>1. /\ mqtt.b \in Buttons /\ QLen \in Nat /\ Wrap \in Nat
      /\ head[mqtt.b] \in 0..(Wrap - 1) /\ tail[mqtt.b] \in 0..(Wrap - 1)
      /\ tail' = [tail EXCEPT ![mqtt.b] = Inc(@)] /\ head' = head
      /\ reported' = [reported EXCEPT ![mqtt.b] = ~@]
  BY ConstantsAssumption DEF IInv, TypeOK, DrainAdvance
<1>2. Count(mqtt.b) > 0
  BY <1>1 DEF IInv, EntryHeld, DrainAdvance
<1>3. Sub(head[mqtt.b], Inc(tail[mqtt.b])) = Sub(head[mqtt.b], tail[mqtt.b]) - 1
  BY <1>1, <1>2, SubProperties DEF Count
<1>4. \A b \in Buttons : Sub(head'[b], tail'[b]) =
                           IF b = mqtt.b THEN Count(b) - 1 ELSE Count(b)
  BY <1>1, <1>3 DEF Count, IInv, TypeOK
<1>5. [b \in Buttons |-> Count(b)]' =
        [[b \in Buttons |-> Count(b)] EXCEPT ![mqtt.b] = @ - 1]
  BY <1>4, <1>1 DEF Count
<1>6. QED BY <1>1, <1>2, <1>5 DEF Events!Toggle

\* A step that stores and takes nothing is a stutter of the abstract specification.
LEMMA QuietIsStutter ==
  ASSUME UNCHANGED <<head, tail>>
  PROVE  [b \in Buttons |-> Count(b)]' = [b \in Buttons |-> Count(b)]
  BY DEF Count

\* The lock-free rings implement the bounded bag: the threads add no behaviour
\* that ButtonEvents does not allow (no press duplicated, invented or lost
\* while there is room, one flip of the latched state per press).
THEOREM RingsImplementEvents == Spec => ImplementsEvents
<1>1. Init => Events!EInit
  <2> SUFFICES ASSUME Init PROVE Events!EInit
    OBVIOUS
  <2>1. \A b \in Buttons : Count(b) = 0
    BY ConstantsAssumption DEF Init, Count, Sub
  <2>2. QED BY <2>1 DEF Init, Events!EInit
<1>2. IInv /\ [Next]_vars => [Events!ENext]_(Events!evars)
  <2> SUFFICES ASSUME IInv, [Next]_vars PROVE [Events!ENext]_(Events!evars)
    OBVIOUS
  <2>1. ASSUME UNCHANGED <<head, tail, reported>>
        PROVE  UNCHANGED Events!evars
    BY <2>1, QuietIsStutter DEF Events!evars
  <2>2. CASE PollPublish
    BY <2>2, PublishIsPress DEF Events!ENext, IInv, TypeOK
  <2>3. CASE DrainAdvance
    BY <2>3, AdvanceIsToggle DEF Events!ENext, IInv, TypeOK
  <2>4. ASSUME NEW S \in SUBSET Buttons, NEW v \in [S -> BOOLEAN], MqttSet(S, v)
        PROVE  Events!ENext
    <3>1. Events!CloudSet(S, v)
      BY <2>4, QuietIsStutter DEF MqttSet, Events!CloudSet
    <3>2. QED BY <3>1 DEF Events!ENext
  <2>5. CASE PollSample \/ PollCheck \/ PollStore \/ MqttLoopReturns
             \/ DrainTest \/ DrainLoad \/ UNCHANGED vars
    BY <2>5, <2>1 DEF PollSample, PollCheck, PollStore, MqttLoopReturns,
                      DrainTest, DrainLoad, vars
  <2>6. ASSUME NEW b \in Buttons, Move(b) PROVE UNCHANGED Events!evars
    BY <2>6, <2>1 DEF Move
  <2>7. QED BY <2>2, <2>3, <2>4, <2>5, <2>6, <2>1 DEF Next, PollTask, Drain
<1>3. QED BY <1>1, <1>2, RingInvariant, PTL DEF Spec, ImplementsEvents, Events!ESpec
=============================================================================
