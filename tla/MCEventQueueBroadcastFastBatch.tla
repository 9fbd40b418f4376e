------------------- MODULE MCEventQueueBroadcastFastBatch --------------------
(***************************************************************************)
(* An instance of EventQueueBroadcastFastBatch for TLC.                    *)
(***************************************************************************)
EXTENDS EventQueueBroadcastFastBatch, TLC
=============================================================================
