---------------------------- MODULE MCEventQueue ----------------------------
(***************************************************************************)
(* Instances of EventQueue for TLC.                                        *)
(***************************************************************************)
EXTENDS EventQueue, TLC

\* Clients, dispatchers, handlers and messages are interchangeable.
Symmetry ==
  Permutations(Clients) \cup Permutations(Dispatchers)
    \cup Permutations(Handlers) \cup Permutations(Messages)
=============================================================================
