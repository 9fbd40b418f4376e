--------------------------- MODULE MCMessageCenter ---------------------------
(***************************************************************************)
(* Instances of MessageCenter for TLC.                                     *)
(***************************************************************************)
EXTENDS MessageCenter, TLC
=============================================================================
