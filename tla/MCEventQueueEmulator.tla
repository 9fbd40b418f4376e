------------------------ MODULE MCEventQueueEmulator -------------------------
(***************************************************************************)
(* An instance of EventQueueEmulator for TLC: one consumer dispatches by   *)
(* ratio, the other in all other ways.                                     *)
(***************************************************************************)
EXTENDS EventQueueEmulator, TLC

CONSTANTS c1, c2

MCPoliciesOf == (c1 :> {"ratio"}) @@ (c2 :> Policies \ {"ratio"})
=============================================================================
