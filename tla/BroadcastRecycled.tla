-------------------------- MODULE BroadcastRecycled --------------------------
(***************************************************************************)
(* The promise of module Broadcast for a queue that uses its message       *)
(* objects again: an object is given back when the whole audience of its   *)
(* message has heard it and no payload is left, and then its next message  *)
(* begins.                                                                 *)
(***************************************************************************)
EXTENDS Broadcast

Recycle(m) ==
  /\ audience[m] # 0
  /\ heard[m] = audience[m]
  /\ payload[m] # "alive"
  /\ audience' = [audience EXCEPT ![m] = 0]
  /\ heard' = [heard EXCEPT ![m] = 0]
  /\ payload' = [payload EXCEPT ![m] = "none"]

RecycledNext == Next \/ \E m \in Messages : Recycle(m)

RecycledSpec == Init /\ [][RecycledNext]_vars
=============================================================================
