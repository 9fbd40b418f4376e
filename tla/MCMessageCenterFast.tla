------------------------- MODULE MCMessageCenterFast -------------------------
(***************************************************************************)
(* An instance of MessageCenterFast for TLC.                               *)
(***************************************************************************)
EXTENDS MessageCenterFast, TLC
=============================================================================
