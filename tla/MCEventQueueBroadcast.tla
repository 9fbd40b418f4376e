------------------------ MODULE MCEventQueueBroadcast ------------------------
(***************************************************************************)
(* Instances of EventQueueBroadcast for TLC.                               *)
(***************************************************************************)
EXTENDS EventQueueBroadcast, TLC
=============================================================================
