------------------------------ MODULE Broadcast ------------------------------
(***************************************************************************)
(* What a broadcast queue promises about each message, wherever it waits   *)
(* and whoever dispatches it: its audience is fixed when it is accepted,   *)
(* every observer of the audience hears it once while its payload is       *)
(* alive, and a payload of its own is freed after the last of them.        *)
(***************************************************************************)
EXTENDS Naturals

CONSTANTS Messages, MaxAudience

VARIABLES
  audience,  \* of each message: the observers it is for; 0 before it is accepted
  heard,     \* those that heard it
  payload    \* "none", "inline" in the message, "alive" on the heap, or "freed"

vars == <<audience, heard, payload>>

Init ==
  /\ audience = [m \in Messages |-> 0]
  /\ heard = [m \in Messages |-> 0]
  /\ payload = [m \in Messages |-> "none"]

Accept(m) ==
  /\ audience[m] = 0
  /\ \E n \in 1 .. MaxAudience : audience' = [audience EXCEPT ![m] = n]
  /\ \E kind \in {"inline", "alive"} : payload' = [payload EXCEPT ![m] = kind]
  /\ UNCHANGED heard

Hear(m) ==
  /\ heard[m] < audience[m]
  /\ payload[m] # "freed"
  /\ heard' = [heard EXCEPT ![m] = @ + 1]
  /\ UNCHANGED <<audience, payload>>

Free(m) ==
  /\ payload[m] = "alive"
  /\ heard[m] = audience[m]
  /\ payload' = [payload EXCEPT ![m] = "freed"]
  /\ UNCHANGED <<audience, heard>>

Next == \E m \in Messages : Accept(m) \/ Hear(m) \/ Free(m)

Spec == Init /\ [][Next]_vars
=============================================================================
