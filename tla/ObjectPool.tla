----------------------------- MODULE ObjectPool ------------------------------
(***************************************************************************)
(* The ObjectPool of src/src/objectpool.h, a stack of recycled objects     *)
(* under one mutex: every operation is one step.                           *)
(***************************************************************************)
EXTENDS Integers, Sequences, FiniteSets

CONSTANTS
  Objects,      \* addresses
  InitialSize,  \* objects the constructor allocates
  MaxSize       \* m_maxSize; 0 for no limit

\* What the theorems assume of the constants.
PoolAssumption == InitialSize \in Nat /\ MaxSize \in Nat

VARIABLES
  pool,       \* m_pool, the back last
  inUse,      \* what acquire returned and release did not get back
  allocated,  \* m_allocated before it is reduced modulo 2^64
  alive,      \* the pool has not been destroyed
  orphans     \* history: the objects in use when clear was last called

vars == <<pool, inUse, allocated, alive, orphans>>

Pooled == {pool[k] : k \in DOMAIN pool}

Init ==
  /\ pool \in [1 .. InitialSize -> Objects]
  /\ \A j, k \in 1 .. InitialSize : pool[j] = pool[k] => j = k
  /\ inUse = {}
  /\ allocated = InitialSize
  /\ alive = TRUE
  /\ orphans = 0

\* acquire: the object at the back ...
AcquirePooled ==
  /\ alive
  /\ pool # << >>
  /\ inUse' = inUse \cup {pool[Len(pool)]}
  /\ pool' = SubSeq(pool, 1, Len(pool) - 1)
  /\ UNCHANGED <<allocated, alive, orphans>>

\* ... or a new one, whose address no object has.
AcquireNew(o) ==
  /\ alive
  /\ pool = << >>
  /\ o \notin inUse
  /\ inUse' = inUse \cup {o}
  /\ allocated' = allocated + 1
  /\ UNCHANGED <<pool, alive, orphans>>

Room == MaxSize = 0 \/ Len(pool) < MaxSize

\* release of an object that is in use: it is pooled, or deleted when there is no room.
Release(o) ==
  /\ alive
  /\ o \in inUse
  /\ inUse' = inUse \ {o}
  /\ pool' = IF Room THEN Append(pool, o) ELSE pool
  /\ allocated' = IF Room THEN allocated ELSE allocated - 1
  /\ UNCHANGED <<alive, orphans>>

\* clear deletes what is pooled and forgets what is in use.
Clear ==
  /\ alive
  /\ pool' = << >>
  /\ allocated' = 0
  /\ orphans' = Cardinality(inUse)
  /\ UNCHANGED <<inUse, alive>>

\* The destructor deletes what is pooled.
Destroy ==
  /\ alive
  /\ pool' = << >>
  /\ alive' = FALSE
  /\ UNCHANGED <<inUse, allocated, orphans>>

Next ==
  \/ AcquirePooled
  \/ \E o \in Objects : AcquireNew(o) \/ Release(o)
  \/ Clear
  \/ Destroy

Spec == Init /\ [][Next]_vars

-----------------------------------------------------------------------------
(* Properties *)

\* Every variable has its type.
TypeOK ==
  /\ pool \in Seq(Objects)
  /\ inUse \subseteq Objects /\ IsFiniteSet(inUse)
  /\ allocated \in Int /\ alive \in BOOLEAN /\ orphans \in Nat

\* An object is in one place: pooled once, or in use, or deleted (acquire and release).
OnePlace ==
  /\ \A j, k \in DOMAIN pool : pool[j] = pool[k] => j = k
  /\ Pooled \cap inUse = {}

\* m_allocated is what is pooled and in use (objectpool.h:100), short of the objects
\* that were in use when clear was last called: only without those it never goes
\* below zero.
AllocatedCounts ==
  alive => allocated = Len(pool) + Cardinality(inUse) - orphans

\* The pool grows to its maximum and not beyond, unless it began larger (release).
BoundedPool ==
  MaxSize > 0 => Len(pool) <= IF InitialSize < MaxSize THEN MaxSize ELSE InitialSize
=============================================================================
