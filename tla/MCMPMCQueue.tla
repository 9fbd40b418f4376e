---------------------------- MODULE MCMPMCQueue -----------------------------
(***************************************************************************)
(* Instances of MPMCQueue for TLC.  A capacity of 2 with three positions   *)
(* wraps the ring, so that a slot is claimed again while an earlier        *)
(* consumer may still own it.                                              *)
(***************************************************************************)
EXTENDS MPMCQueue, TLC

\* Threads and values are interchangeable in Spec.
Symmetry == Permutations(Threads) \cup Permutations(Values)
=============================================================================
