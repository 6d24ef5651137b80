------------------------------- MODULE NvMap -------------------------------
(***************************************************************************)
(* What the NV item store (src/nvocmp.h) promises its callers: a map from  *)
(* item ids to values, changed by one call at a time.  A call that is cut  *)
(* short by a loss of power, or that reports a failure, has either taken   *)
(* effect or not; nothing else ever changes.                               *)
(***************************************************************************)
CONSTANTS Keys, Values, NoValue

VARIABLES
  store,     \* the value of each item, or NoValue
  pending,   \* the call being executed
  result     \* how the last one ended: ok, fail, or lost with the power

vars == <<store, pending, result>>

Idle == [kind |-> "none"]

Calls == [kind : {"write"}, key : Keys, val : Values]
         \cup [kind : {"delete", "read"}, key : Keys]
         \cup [kind : {"compact", "boot"}]

Applied(c) ==
  CASE c.kind = "write"  -> [store EXCEPT ![c.key] = c.val]
    [] c.kind = "delete" -> [store EXCEPT ![c.key] = NoValue]
    [] OTHER             -> store

MInit == /\ store = [k \in Keys |-> NoValue]
         /\ pending = [kind |-> "boot"]
         /\ result = "ok"

Call(c) == /\ pending = Idle
           /\ pending' = c
           /\ UNCHANGED <<store, result>>

Return == /\ pending # Idle
          /\ store' = Applied(pending)
          /\ pending' = Idle
          /\ result' = "ok"

\* A failure reported, or the store ready again after the power came back.
Abandoned == /\ pending # Idle
             /\ store' \in {store, Applied(pending)}
             /\ pending' = Idle
             /\ result' \in {"fail", "lost"}

MNext == (\E c \in Calls : Call(c)) \/ Return \/ Abandoned

MSpec == MInit /\ [][MNext]_vars
=============================================================================
