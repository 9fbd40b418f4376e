----------------------- MODULE RegistryAndPoolProofs ------------------------
(***************************************************************************)
(* Theorems about the two small parts that the queues are built with:      *)
(* TopicRegistry, for every number of callers and topics and every width   *)
(* of the counter, and ObjectPool, for every number of objects and every   *)
(* size.                                                                   *)
(***************************************************************************)
EXTENDS TopicRegistry, FiniteSetTheorems, SequenceTheorems, TLAPS

CONSTANTS Objects, InitialSize, MaxSize
VARIABLES pool, inUse, allocated, alive, orphans

Pool == INSTANCE ObjectPool

-----------------------------------------------------------------------------
(* The registry *)

\* The callers that found the tables full and have not given their number back.
Full == {t \in Callers : pc[t] = "full"}

\* The first n ids have been handed out, once each, and no other.
HandedUpTo(n) == \A i \in Ids : handed[i] = IF i < n THEN 1 ELSE 0

\* A registry that gives back: the counter is the ids handed out and the numbers
\* still to be given back, of which there are none before the tables are full.
BackInv ==
  \E n \in 0 .. MaxTopics :
    /\ HandedUpTo(n)
    /\ count = n + Cardinality(Full)
    /\ Full # {} => n = MaxTopics

\* One that does not: the counter is the calls, and so far each got an id of its own.
LostInv ==
  /\ Full = {}
  /\ tickets <= Modulus => HandedUpTo(tickets) /\ count = tickets % Modulus

IInv ==
  /\ TypeOK
  /\ GivesBack /\ NotWrapped => BackInv
  /\ ~ GivesBack => LostInv

\* Decrementing modulo the width stays within it.
LEMMA ModuloRange ==
  ASSUME NEW m \in Nat \ {0}, NEW c \in Int
  PROVE  c % m \in 0 .. m - 1
  OBVIOUS

LEMMA TypeInit ==
  ASSUME RegistryAssumption, Init
  PROVE  TypeOK
  BY DEF RegistryAssumption, Init, TypeOK, Ids

LEMMA TypeStep ==
  ASSUME RegistryAssumption, TypeOK, [Next]_vars
  PROVE  TypeOK'
<1> USE DEF RegistryAssumption, TypeOK, Ids
<1>1. ASSUME NEW t \in Callers, FetchAdd(t) PROVE TypeOK'
  <2>1. count' \in 0 .. Modulus - 1
    BY <1>1, ModuloRange, count + 1 \in Int, Modulus \in Nat \ {0} DEF FetchAdd
  <2>2. pc' \in [Callers -> {"idle", "full"}]
    BY <1>1 DEF FetchAdd
  <2>3. handed' \in [Ids -> Nat]
    BY <1>1 DEF FetchAdd
  <2>4. tickets' \in 0 .. MaxTickets
    BY <1>1 DEF FetchAdd
  <2> QED
    BY <2>1, <2>2, <2>3, <2>4
<1>2. ASSUME NEW t \in Callers, FetchSub(t) PROVE TypeOK'
  <2>1. count' \in 0 .. Modulus - 1
    BY <1>2, ModuloRange, count - 1 \in Int, Modulus \in Nat \ {0} DEF FetchSub
  <2> QED
    BY <1>2, <2>1 DEF FetchSub
<1>3. ASSUME UNCHANGED vars PROVE TypeOK'
  BY <1>3 DEF vars
<1> QED
  BY <1>1, <1>2, <1>3 DEF Next

LEMMA Init_IInv ==
  ASSUME RegistryAssumption, Init
  PROVE  IInv
<1>1. TypeOK
  BY TypeInit
<1>2. Full = {}
  BY DEF Full, Init
<1>3. HandedUpTo(0)
  BY DEF HandedUpTo, Init, Ids, RegistryAssumption
<1>4. BackInv
  <2>1. Cardinality(Full) = 0
    BY <1>2, FS_EmptySet
  <2> QED
    BY <1>2, <1>3, <2>1, 0 \in 0 .. MaxTopics DEF BackInv, Init, RegistryAssumption
<1>5. LostInv
  <2>1. 0 % Modulus = 0
    BY DEF RegistryAssumption
  <2> QED
    BY <1>2, <1>3, <2>1 DEF LostInv, Init
<1> QED
  BY <1>1, <1>4, <1>5 DEF IInv

\* A registry that gives back, when a number is taken.
LEMMA BackAdd ==
  ASSUME RegistryAssumption, TypeOK, GivesBack, NotWrapped, BackInv,
         NEW t \in Callers, FetchAdd(t)
  PROVE  BackInv'
<1>1. PICK n \in 0 .. MaxTopics :
        /\ HandedUpTo(n)
        /\ count = n + Cardinality(Full)
        /\ Full # {} => n = MaxTopics
  BY DEF BackInv
<1>2. IsFiniteSet(Full) /\ Cardinality(Full) \in Nat /\ Cardinality(Callers) \in Nat
      /\ Cardinality(Full) <= Cardinality(Callers)
  BY FS_Subset, FS_CardinalityType, Full \subseteq Callers DEF RegistryAssumption, Full
<1>3. count + 1 < Modulus /\ count' = count + 1
  <2>1. Full \subseteq Callers \ {t}
    BY DEF FetchAdd, Full
  <2>2. /\ IsFiniteSet(Callers \ {t})
        /\ Cardinality(Callers \ {t}) = Cardinality(Callers) - 1
    BY FS_RemoveElement DEF RegistryAssumption
  <2>3. Cardinality(Full) <= Cardinality(Callers) - 1
    BY <2>1, <2>2, FS_Subset
  <2>4. count + 1 < Modulus /\ count \in Nat
    BY <1>1, <1>2, <2>3 DEF NotWrapped, RegistryAssumption
  <2> QED
    BY <2>4 DEF FetchAdd, RegistryAssumption
<1>4. CASE count < MaxTopics
  <2>1. Full = {} /\ Cardinality(Full) = 0 /\ count = n
    <3>1. Full = {}
      BY <1>1, <1>2, <1>4 DEF RegistryAssumption
    <3> QED
      BY <1>1, <3>1, FS_EmptySet
  <2>2. Full' = Full
    BY <1>4 DEF FetchAdd, Full
  <2>3. HandedUpTo(n + 1)'
    BY <1>1, <1>4, <2>1 DEF HandedUpTo, FetchAdd, TypeOK, Ids, RegistryAssumption
  <2>4. n + 1 \in 0 .. MaxTopics
    BY <1>4, <2>1 DEF RegistryAssumption
  <2>5. Full' = {} /\ Cardinality(Full)' = 0 /\ count' = (n + 1) + Cardinality(Full)'
    BY <1>3, <2>1, <2>2, FS_EmptySet
  <2> QED
    BY <2>3, <2>4, <2>5 DEF BackInv
<1>5. CASE ~ (count < MaxTopics)
  <2>1. t \notin Full /\ Full' = Full \cup {t}
    BY <1>5 DEF FetchAdd, Full, TypeOK
  <2>2. Cardinality(Full') = Cardinality(Full) + 1
    BY <1>2, <2>1, FS_AddElement
  <2>3. n = MaxTopics
    <3>1. CASE Full = {}
      BY <1>1, <1>5, <3>1, FS_EmptySet DEF TypeOK, RegistryAssumption
    <3> QED
      BY <1>1, <3>1
  <2>4. HandedUpTo(n)'
    BY <1>1, <1>5 DEF HandedUpTo, FetchAdd
  <2>5. count' = n + Cardinality(Full)'
    BY <1>1, <1>2, <1>3, <2>2
  <2> QED
    BY <2>3, <2>4, <2>5 DEF BackInv
<1> QED
  BY <1>4, <1>5

\* A registry that gives back, when a number is given back.
LEMMA BackSub ==
  ASSUME RegistryAssumption, TypeOK, GivesBack, NotWrapped, BackInv,
         NEW t \in Callers, FetchSub(t)
  PROVE  BackInv'
<1>1. PICK n \in 0 .. MaxTopics :
        /\ HandedUpTo(n)
        /\ count = n + Cardinality(Full)
        /\ Full # {} => n = MaxTopics
  BY DEF BackInv
<1>2. IsFiniteSet(Full) /\ Cardinality(Full) \in Nat
  BY FS_Subset, FS_CardinalityType, Full \subseteq Callers DEF RegistryAssumption, Full
<1>3. t \in Full /\ Full' = Full \ {t}
  BY DEF FetchSub, Full, TypeOK
<1>4. Cardinality(Full') = Cardinality(Full) - 1
  BY <1>2, <1>3, FS_RemoveElement
<1>5. n = MaxTopics /\ HandedUpTo(n)'
  BY <1>1, <1>3 DEF HandedUpTo, FetchSub
<1>6. count' = count - 1
  <2>1. count \in 0 .. Modulus - 1 /\ count >= 1
    BY <1>1, <1>2, <1>5 DEF TypeOK, RegistryAssumption
  <2> QED
    BY <2>1 DEF FetchSub, RegistryAssumption
<1> QED
  BY <1>1, <1>2, <1>4, <1>5, <1>6 DEF BackInv

\* A registry that does not give back.
LEMMA LostStep ==
  ASSUME RegistryAssumption, TypeOK, ~ GivesBack, LostInv, NEW t \in Callers,
         FetchAdd(t) \/ FetchSub(t)
  PROVE  LostInv'
<1>1. FetchAdd(t)
  BY DEF LostInv, FetchSub, Full
<1>2. Full' = {}
  BY <1>1 DEF LostInv, Full, FetchAdd, TypeOK
<1>3. ASSUME tickets' <= Modulus PROVE HandedUpTo(tickets)' /\ count' = tickets' % Modulus
  <2>1. tickets < Modulus /\ count = tickets /\ tickets' = tickets + 1 /\ tickets \in Nat
    BY <1>1, <1>3 DEF FetchAdd, LostInv, TypeOK, RegistryAssumption
  <2>2. HandedUpTo(tickets)
    BY <2>1 DEF LostInv, RegistryAssumption
  <2>3. HandedUpTo(tickets)'
    <3>1. CASE count < MaxTopics
      BY <1>1, <2>1, <2>2, <3>1 DEF HandedUpTo, FetchAdd, TypeOK, Ids, RegistryAssumption
    <3>2. CASE ~ (count < MaxTopics)
      BY <1>1, <2>1, <2>2, <3>2 DEF HandedUpTo, FetchAdd, TypeOK, Ids, RegistryAssumption
    <3> QED
      BY <3>1, <3>2
  <2> QED
    BY <1>1, <2>1, <2>3 DEF FetchAdd
<1> QED
  BY <1>2, <1>3 DEF LostInv

LEMMA IInvStep ==
  ASSUME RegistryAssumption, IInv, [Next]_vars
  PROVE  IInv'
<1>1. TypeOK'
  BY TypeStep DEF IInv
<1>2. CASE UNCHANGED vars
  BY <1>1, <1>2 DEF IInv, vars, BackInv, LostInv, Full, HandedUpTo, NotWrapped
<1>3. ASSUME NEW t \in Callers, FetchAdd(t) \/ FetchSub(t) PROVE IInv'
  <2>1. ASSUME GivesBack, NotWrapped' PROVE BackInv'
    BY <1>3, <2>1, BackAdd, BackSub DEF IInv, NotWrapped
  <2>2. ASSUME ~ GivesBack PROVE LostInv'
    BY <1>3, <2>2, LostStep DEF IInv
  <2> QED
    BY <1>1, <2>1, <2>2 DEF IInv
<1> QED
  BY <1>2, <1>3 DEF Next

\* The invariant that the properties follow from.
THEOREM Invariance ==
  ASSUME RegistryAssumption
  PROVE  Spec => []IInv
<1>1. Init => IInv
  BY Init_IInv
<1>2. IInv /\ [Next]_vars => IInv'
  BY IInvStep
<1> QED
  BY <1>1, <1>2, PTL DEF Spec

\* The ids that registerTopic returns are different: for ever when the number is
\* given back (EventQueueEmulator, EventQueueBroadcast) and fewer threads call than
\* the counter has values above the tables, and for the first 2^16 calls when it is
\* not (EventQueueBroadcastFast and -Batch, MessageCenterFast).
THEOREM IdsAreUnique ==
  ASSUME RegistryAssumption
  PROVE  Spec => []UniqueIds
<1>1. IInv => UniqueIds
  <2> SUFFICES ASSUME IInv, NotWrapped PROVE \A i \in Ids : handed[i] <= 1
    BY DEF UniqueIds
  <2>1. \E n \in Int : HandedUpTo(n)
    <3>1. CASE GivesBack
      BY <3>1 DEF IInv, BackInv
    <3>2. CASE ~ GivesBack
      BY <3>2 DEF IInv, LostInv, NotWrapped, TypeOK
    <3> QED
      BY <3>1, <3>2
  <2> QED
    BY <2>1 DEF HandedUpTo
<1> QED
  BY <1>1, Invariance, PTL

\* With the number given back an id that is left is the next one handed out, although
\* calls that found the tables full may still be between their two steps.
THEOREM IdsAreNotLost ==
  ASSUME RegistryAssumption
  PROVE  Spec => []NoIdIsLost
<1>1. IInv => NoIdIsLost
  <2> SUFFICES ASSUME IInv, NotWrapped, GivesBack, NEW i \in Ids, handed[i] = 0
               PROVE  count < MaxTopics /\ handed[count] = 0
    BY DEF NoIdIsLost
  <2>1. PICK n \in 0 .. MaxTopics :
          /\ HandedUpTo(n)
          /\ count = n + Cardinality(Full)
          /\ Full # {} => n = MaxTopics
    BY DEF IInv, BackInv
  <2>2. n < MaxTopics
    BY <2>1 DEF HandedUpTo, Ids, RegistryAssumption
  <2>3. Cardinality(Full) = 0
    BY <2>1, <2>2, FS_EmptySet
  <2>4. count = n /\ n \in Ids
    BY <2>1, <2>2, <2>3 DEF Ids, RegistryAssumption
  <2> QED
    BY <2>1, <2>2, <2>4 DEF HandedUpTo
<1> QED
  BY <1>1, Invariance, PTL

-----------------------------------------------------------------------------
(* The pool *)

PoolInv == Pool!TypeOK /\ Pool!OnePlace /\ Pool!AllocatedCounts /\ Pool!BoundedPool

USE DEF Pool!PoolAssumption

\* Finite sets are the same in the instance.
LEMMA SameFinite ==
  ASSUME NEW S
  PROVE  (Pool!IsFiniteSet(S) <=> IsFiniteSet(S)) /\ Pool!Cardinality(S) = Cardinality(S)
BY DEF Pool!IsFiniteSet, IsFiniteSet, Pool!Cardinality, Cardinality

USE SameFinite

LEMMA Init_PoolInv ==
  ASSUME Pool!PoolAssumption, Pool!Init
  PROVE  PoolInv
<1>1. pool \in Seq(Objects) /\ Len(pool) = InitialSize
  BY DEF Pool!Init
<1>2. IsFiniteSet({}) /\ Cardinality({}) = 0
  BY FS_EmptySet
<1> QED
  BY <1>1, <1>2 DEF Pool!Init, PoolInv, Pool!TypeOK, Pool!OnePlace, Pool!AllocatedCounts, Pool!BoundedPool, Pool!Pooled

\* The prefix of a sequence.
LEMMA Prefix ==
  ASSUME NEW S, NEW s \in Seq(S), NEW n \in 0 .. Len(s)
  PROVE  /\ SubSeq(s, 1, n) \in Seq(S)
         /\ Len(SubSeq(s, 1, n)) = n
         /\ \A k \in 1 .. n : SubSeq(s, 1, n)[k] = s[k]
<1>1. \A k \in 1 .. n : s[k] \in S
  OBVIOUS
<1>2. 1 \in Int /\ n \in Int /\ n - 1 + 1 = n
  OBVIOUS
<1>3. /\ SubSeq(s, 1, n) \in Seq(S)
      /\ Len(SubSeq(s, 1, n)) = IF 1 <= n THEN n - 1 + 1 ELSE 0
      /\ \A k \in 1 .. n - 1 + 1 : SubSeq(s, 1, n)[k] = s[1 + k - 1]
  BY <1>1, <1>2, SubSeqProperties
<1> QED
  BY <1>2, <1>3

LEMMA AcquirePooledStep ==
  ASSUME Pool!PoolAssumption, PoolInv, Pool!AcquirePooled
  PROVE  PoolInv'
<1> DEFINE o == pool[Len(pool)]
<1> USE DEF PoolInv, Pool!TypeOK, Pool!AcquirePooled
<1>1. Len(pool) \in Nat \ {0} /\ o \in Objects /\ o \in Pool!Pooled
  BY DEF Pool!Pooled
<1>2. o \notin inUse
  BY <1>1 DEF Pool!OnePlace
<1>3. /\ pool' \in Seq(Objects) /\ Len(pool') = Len(pool) - 1
      /\ \A k \in 1 .. Len(pool) - 1 : pool'[k] = pool[k]
  BY <1>1, Len(pool) - 1 \in 0 .. Len(pool), Prefix
<1>4. IsFiniteSet(inUse') /\ Cardinality(inUse') = Cardinality(inUse) + 1
  BY <1>2, FS_AddElement
<1>5. Pool!TypeOK'
  BY <1>1, <1>3, <1>4
<1>6. Pool!OnePlace'
  <2>1. \A j, k \in DOMAIN pool' : pool'[j] = pool'[k] => j = k
    BY <1>3 DEF Pool!OnePlace
  <2>2. \A k \in DOMAIN pool' : pool'[k] \notin inUse'
    BY <1>1, <1>3 DEF Pool!OnePlace, Pool!Pooled
  <2> QED
    BY <2>1, <2>2 DEF Pool!OnePlace, Pool!Pooled
<1>7. Cardinality(inUse) \in Nat
  BY FS_CardinalityType
<1>8. Pool!AllocatedCounts'
  BY <1>1, <1>3, <1>4, <1>7 DEF Pool!AllocatedCounts
<1>9. Pool!BoundedPool'
  BY <1>1, <1>3 DEF Pool!BoundedPool
<1> QED
  BY <1>5, <1>6, <1>8, <1>9

LEMMA AcquireNewStep ==
  ASSUME Pool!PoolAssumption, PoolInv, NEW o \in Objects, Pool!AcquireNew(o)
  PROVE  PoolInv'
<1> USE DEF PoolInv, Pool!TypeOK, Pool!AcquireNew
<1>1. IsFiniteSet(inUse') /\ Cardinality(inUse') = Cardinality(inUse) + 1
  BY FS_AddElement
<1>2. Cardinality(inUse) \in Nat
  BY FS_CardinalityType
<1>3. Pool!OnePlace'
  BY DEF Pool!OnePlace, Pool!Pooled
<1>4. Pool!AllocatedCounts'
  BY <1>1, <1>2 DEF Pool!AllocatedCounts
<1> QED
  BY <1>1, <1>3, <1>4 DEF Pool!BoundedPool

LEMMA ReleaseStep ==
  ASSUME Pool!PoolAssumption, PoolInv, NEW o \in Objects, Pool!Release(o)
  PROVE  PoolInv'
<1> USE DEF PoolInv, Pool!TypeOK, Pool!Release
<1>1. IsFiniteSet(inUse') /\ Cardinality(inUse') = Cardinality(inUse) - 1
  BY FS_RemoveElement
<1>2. Cardinality(inUse) \in Nat
  BY FS_CardinalityType
<1>3. \A k \in DOMAIN pool : pool[k] # o
  BY DEF Pool!OnePlace, Pool!Pooled
<1>4. CASE Pool!Room
  <2>1. /\ pool' \in Seq(Objects) /\ Len(pool') = Len(pool) + 1
        /\ pool'[Len(pool) + 1] = o
        /\ \A k \in 1 .. Len(pool) : pool'[k] = pool[k]
    BY <1>4
  <2>2. \A j, k \in DOMAIN pool' : pool'[j] = pool'[k] => j = k
    <3>1. /\ DOMAIN pool' = 1 .. (Len(pool) + 1) /\ DOMAIN pool = 1 .. Len(pool) /\ Len(pool) \in Nat
      BY <2>1
    <3>2. \A j, k \in DOMAIN pool : pool[j] = pool[k] => j = k
      BY DEF Pool!OnePlace
    <3>3. \A k \in DOMAIN pool' :
            \/ k \in DOMAIN pool /\ pool'[k] = pool[k] /\ pool[k] # o
            \/ k = Len(pool) + 1 /\ pool'[k] = o
      BY <1>3, <2>1, <3>1
    <3> QED
      BY <3>2, <3>3, Zenon
  <2>3. \A k \in DOMAIN pool' : pool'[k] \notin inUse'
    BY <2>1 DEF Pool!OnePlace, Pool!Pooled
  <2>4. Pool!OnePlace'
    BY <2>2, <2>3 DEF Pool!OnePlace, Pool!Pooled
  <2>5. Pool!AllocatedCounts'
    <3>1. alive' = alive /\ allocated' = allocated /\ orphans' = orphans
      BY <1>4
    <3>2. /\ Len(pool) \in Nat /\ Len(pool') = Len(pool) + 1
          /\ Cardinality(inUse') = Cardinality(inUse) - 1 /\ orphans \in Nat
      BY <1>1, <2>1
    <3>3. alive => allocated = Len(pool) + Cardinality(inUse) - orphans
      BY DEF Pool!AllocatedCounts
    <3>4. alive' => allocated' = Len(pool') + Cardinality(inUse') - orphans'
      <4> HIDE DEF PoolInv, Pool!TypeOK, Pool!Release
      <4> QED
        BY <1>2, <3>1, <3>2, <3>3
    <3> QED
      BY <3>4 DEF Pool!AllocatedCounts
  <2>6. Pool!BoundedPool'
    BY <1>4, <2>1 DEF Pool!BoundedPool, Pool!Room
  <2> QED
    BY <1>1, <1>4, <2>1, <2>4, <2>5, <2>6
<1>5. CASE ~ Pool!Room
  <2>1. Pool!OnePlace'
    BY <1>5 DEF Pool!OnePlace, Pool!Pooled
  <2>2. Pool!AllocatedCounts'
    BY <1>1, <1>2, <1>5 DEF Pool!AllocatedCounts
  <2> QED
    BY <1>1, <1>5, <2>1, <2>2 DEF Pool!BoundedPool
<1> QED
  BY <1>4, <1>5

LEMMA ClearStep ==
  ASSUME Pool!PoolAssumption, PoolInv, Pool!Clear
  PROVE  PoolInv'
<1>1. Cardinality(inUse) \in Nat
  BY FS_CardinalityType DEF PoolInv, Pool!TypeOK
<1> QED
  BY <1>1 DEF Pool!Clear, PoolInv, Pool!TypeOK, Pool!OnePlace, Pool!Pooled, Pool!AllocatedCounts, Pool!BoundedPool

LEMMA DestroyStep ==
  ASSUME Pool!PoolAssumption, PoolInv, Pool!Destroy
  PROVE  PoolInv'
<1>1. Pool!AllocatedCounts'
  <2>1. ~ alive'
    BY DEF Pool!Destroy
  <2> QED
    BY <2>1, Zenon DEF Pool!AllocatedCounts
<1>2. Pool!TypeOK'
  <2>1. pool' \in Seq(Objects)
    BY DEF Pool!Destroy
  <2>2. inUse' \subseteq Objects /\ allocated' \in Int /\ orphans' \in Nat
    BY DEF Pool!Destroy, PoolInv, Pool!TypeOK
  <2>3. IsFiniteSet(inUse')
    BY DEF Pool!Destroy, PoolInv, Pool!TypeOK
  <2> QED
    BY <2>1, <2>2, <2>3, Zenon DEF Pool!Destroy, Pool!TypeOK
<1>3. Pool!OnePlace'
  BY DEF Pool!Destroy, Pool!OnePlace, Pool!Pooled
<1>4. Pool!BoundedPool'
  BY DEF Pool!Destroy, Pool!BoundedPool
<1> QED
  BY <1>1, <1>2, <1>3, <1>4 DEF PoolInv

LEMMA StutterStep ==
  ASSUME PoolInv, UNCHANGED Pool!vars
  PROVE  PoolInv'
  BY DEF Pool!vars, PoolInv, Pool!TypeOK, Pool!OnePlace, Pool!Pooled, Pool!AllocatedCounts, Pool!BoundedPool

\* The pool keeps its invariant through acquire, release and clear, from any state it
\* was constructed in.
THEOREM PoolInvariance ==
  ASSUME Pool!PoolAssumption
  PROVE  Pool!Spec => []PoolInv
<1>1. Pool!Init => PoolInv
  BY Init_PoolInv
<1>2. PoolInv /\ [Pool!Next]_Pool!vars => PoolInv'
  BY AcquirePooledStep, AcquireNewStep, ReleaseStep, ClearStep, DestroyStep, StutterStep
     DEF Pool!Next
<1> QED
  BY <1>1, <1>2, PTL DEF Pool!Spec

\* acquire never returns an object that is in use, whatever the sizes and although
\* clear may be called at any time (acquire, release, clear).
THEOREM ObjectsAreInOnePlace ==
  ASSUME Pool!PoolAssumption
  PROVE  Pool!Spec => []Pool!OnePlace
<1>1. PoolInv => Pool!OnePlace
  BY DEF PoolInv
<1> QED
  BY <1>1, PoolInvariance, PTL

\* What allocated() returns: the objects pooled and in use, short of those that were in
\* use at the last clear.
THEOREM AllocatedIsCounted ==
  ASSUME Pool!PoolAssumption
  PROVE  Pool!Spec => []Pool!AllocatedCounts
<1>1. PoolInv => Pool!AllocatedCounts
  BY DEF PoolInv
<1> QED
  BY <1>1, PoolInvariance, PTL

\* The pool does not grow beyond its maximum (release).
THEOREM PoolIsBounded ==
  ASSUME Pool!PoolAssumption
  PROVE  Pool!Spec => []Pool!BoundedPool
<1>1. PoolInv => Pool!BoundedPool
  BY DEF PoolInv
<1> QED
  BY <1>1, PoolInvariance, PTL
=============================================================================
