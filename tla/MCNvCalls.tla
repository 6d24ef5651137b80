------------------------------ MODULE MCNvCalls ------------------------------
(* Three stores for TLC: items of two sizes and no loss of power; one item    *)
(* under losses of power outside a compaction; and items whose writes fail.   *)
(* The first state picks one.                                                 *)
EXTENDS NvStore, TLC

CONSTANTS PowerKeys, FaultyKeys

VARIABLE store

MCSizes == {<<1>>, <<2, 2>>}
Sym     == Permutations(Keys) \cup Permutations(FaultyKeys)

Power == INSTANCE NvStore WITH
           Cap <- 2, Keys <- PowerKeys, Values <- {<<1>>, <<2>>},
           MaxCrashes <- 2, CrashIn <- {"idle", "call", "boot"}

Faulty == INSTANCE NvStore WITH
            Cap <- 2, Keys <- FaultyKeys, Values <- {<<1>>, <<2, 1>>}, MaxFails <- 2

MCInit ==
  \/ store = "steady" /\ Init
  \/ store = "power" /\ Power!Init
  \/ store = "faulty" /\ Faulty!Init

MCNext ==
  /\ store' = store
  /\ \/ store = "steady" /\ Next
     \/ store = "power" /\ Power!Next
     \/ store = "faulty" /\ Faulty!FailingNext

MCSpec == MCInit /\ [][MCNext]_<<vars, store>>

\* No id has two active instances, nor does a page hold more than fits (ItemsUnique and
\* TypeOK, nvocmp_cc35xx.c:2965).
MCItemsUnique == store = "steady" => TypeOK /\ ItemsUnique

\* Both stores are the map nvocmp.h promises (ImplementsMap); where writes fail, only the
\* item of a failed write suffers (OnlyOwnItem, nvocmp_cc35xx.c:3280).
MapInit ==
  /\ store = "steady" => Map!MInit
  /\ store = "power" => Power!Map!MInit
MapNext ==
  /\ store = "steady" => [Map!MNext]_(Map!vars)
  /\ store = "power" => [Power!Map!MNext]_(Map!vars)
  /\ store = "faulty" => Faulty!TypeOK /\ Faulty!OnlyOwnItem
MCImplementsMap == MapInit /\ [][MapNext]_<<vars, store>>

\* A write fails only when there is no room (FailsOnlyWhenFull, nvocmp_cc35xx.c:2965).
WriteFailed == store = "steady" /\ op.kind = "write" /\ at = "fail" /\ at' = "idle"
MCFailsOnlyWhenFull == [][WriteFailed => Full(op.val)]_vars
=============================================================================
