---------------------------- MODULE ButtonEvents ----------------------------
(***************************************************************************)
(* What the push-button path of tuya_app_task.c promises, without its      *)
(* threads: every accepted press waits in a bounded bag, is taken out once *)
(* and flips the latched state that is reported to the cloud; the cloud    *)
(* may overwrite the latched state at any time.                            *)
(***************************************************************************)
EXTENDS Integers

CONSTANTS Buttons,  \* the entries of s_buttons[]
          QLen      \* BTN_Q_LEN, the capacity of one ring

VARIABLES pending,  \* [Buttons -> 0..QLen]: presses accepted, not yet reported
          reported  \* [Buttons -> BOOLEAN]: the latched toggle state

evars == <<pending, reported>>

EInit == /\ pending  = [b \in Buttons |-> 0]
         /\ reported = [b \in Buttons |-> FALSE]

\* A press that finds room is queued; one that finds the queue full is lost,
\* which is a stuttering step here.
Press(b) == /\ pending[b] < QLen
            /\ pending' = [pending EXCEPT ![b] = @ + 1]
            /\ UNCHANGED reported

\* One press is consumed and flips the state, in one step.
Toggle(b) == /\ pending[b] > 0
             /\ pending'  = [pending EXCEPT ![b] = @ - 1]
             /\ reported' = [reported EXCEPT ![b] = ~@]

CloudSet(S, v) == /\ reported' = [b \in Buttons |-> IF b \in S THEN v[b]
                                                    ELSE reported[b]]
                  /\ UNCHANGED pending

ENext == \/ \E b \in Buttons : Press(b) \/ Toggle(b)
         \/ \E S \in SUBSET Buttons : \E v \in [S -> BOOLEAN] : CloudSet(S, v)

ESpec == EInit /\ [][ENext]_evars
=============================================================================
