------------------------------ MODULE MCTuyaApp ------------------------------
(* TuyaApp for TLC: the first state picks the data points the cloud writes in *)
(* this behaviour, either kind MaxSets times or all of them at most once.     *)
EXTENDS TuyaApp

VARIABLE writes

\* The panel starts out wrong about the data points that are not written.
MCInit ==
  /\ Init
  /\ writes \in {Echoed, Btns \cup {Alarm}, DP}
  /\ \A d \in DP \ writes : panel[d]

\* What the step adds to down, if anything, names only data points of writes.
Permitted ==
  used'.sets > used.sets =>
    /\ DOMAIN down'[Len(down')] \subseteq writes
    /\ writes = DP => used.sets = 0

MCNext == Next /\ Permitted /\ writes' = writes

MCSpec == MCInit /\ [][MCNext]_<<vars, writes>> /\ Fairness
=============================================================================
