------------------------------ MODULE MCNvStore ------------------------------
(* Values for TLC: sequences of units of data. *)
EXTENDS NvStore

MCOneValue    == {<<1>>}
MCValues      == {<<1>>, <<2>>}
MCShortOrLong == {<<1>>, <<2, 2>>}
=============================================================================
