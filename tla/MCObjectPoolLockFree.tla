------------------------ MODULE MCObjectPoolLockFree ------------------------
(***************************************************************************)
(* Instances of ObjectPoolLockFree for TLC.                                *)
(***************************************************************************)
EXTENDS ObjectPoolLockFree, TLC

Symmetry ==
  Permutations(Nodes) \cup Permutations(Releasers \ Acquirers)
=============================================================================
