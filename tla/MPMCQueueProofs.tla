-------------------------- MODULE MPMCQueueProofs ---------------------------
(***************************************************************************)
(* Proofs about MPMCQueue for every number of threads and every capacity   *)
(* of at least 2.  The hypothesis is needed: with a capacity of 1 the      *)
(* sequence number pos + 1 means both "contains data" and "ready for the   *)
(* next write", and TLC shows a push that overwrites an unread value.      *)
(***************************************************************************)
EXTENDS MPMCQueue, SequenceTheorems, TLAPS

-----------------------------------------------------------------------------
(* Arithmetic of the ring *)

\* Division with remainder.
LEMMA DivisionLemma ==
  \A c \in Nat \ {0} : \A p \in Nat :
    /\ p % c \in 0 .. c - 1
    /\ p \div c \in Int
    /\ p = c * (p \div c) + (p % c)
  BY Z3

\* A positive multiple of c is at least c.
LEMMA MultipleLemma ==
  ASSUME NEW c \in Nat \ {0}, NEW k \in Int, k >= 1
  PROVE  c * k >= c
  BY SMT

\* Quotient and remainder are unique.
LEMMA UniqueRemainder ==
  ASSUME NEW c \in Nat \ {0}, NEW i \in Int, NEW j \in Int,
         NEW r \in 0 .. c - 1, NEW s \in 0 .. c - 1,
         c * i + r = c * j + s
  PROVE  i = j /\ r = s
<1>1. CASE i = j
  BY <1>1, SMT
<1>2. CASE i > j
  <2>1. c * (i - j) >= c
    BY <1>2, MultipleLemma
  <2>2. c * (i - j) = s - r
    BY SMT
  <2> QED
    BY <2>1, <2>2
<1>3. CASE j > i
  <2>1. c * (j - i) >= c
    BY <1>3, MultipleLemma
  <2>2. c * (j - i) = r - s
    BY SMT
  <2> QED
    BY <2>1, <2>2
<1> QED
  BY <1>1, <1>2, <1>3

\* Two positions that share a slot are at least a round apart.
LEMMA SameSlot ==
  ASSUME NEW p \in Nat, NEW q \in Nat, Slot(p) = Slot(q), p < q
  PROVE  q >= p + Capacity
<1> DEFINE i == p \div Capacity
           j == q \div Capacity
<1>1. /\ i \in Int /\ p = Capacity * i + (p % Capacity)
      /\ j \in Int /\ q = Capacity * j + (q % Capacity)
      /\ p % Capacity \in Int /\ q % Capacity \in Int
  BY DivisionLemma, CapacityAssumption
<1>2. p % Capacity = q % Capacity
  BY DEF Slot
<1> HIDE DEF i, j
<1>3. q - p = Capacity * (j - i)
  BY <1>1, <1>2, CapacityAssumption, SMT
<1>4. j - i >= 1
  <2>1. SUFFICES ASSUME j - i <= 0
                 PROVE  FALSE
    BY <1>1
  <2>2. Capacity * (j - i) <= 0
    BY <2>1, <1>1, CapacityAssumption, SMT
  <2> QED
    BY <2>2, <1>3
<1>5. Capacity * (j - i) >= Capacity
  BY <1>1, <1>4, CapacityAssumption, MultipleLemma
<1> QED
  BY <1>3, <1>5, CapacityAssumption, SMT

\* Less than a round apart, only equal positions share a slot.
LEMMA NearSlots ==
  ASSUME NEW p \in Nat, NEW q \in Nat,
         p < q + Capacity, q < p + Capacity, Slot(p) = Slot(q)
  PROVE  p = q
<1>1. ~(p < q)
  BY SameSlot, CapacityAssumption
<1>2. ~(q < p)
  BY SameSlot, CapacityAssumption
<1> QED
  BY <1>1, <1>2

\* A position and the one a round later share a slot.
LEMMA NextRound ==
  ASSUME NEW p \in Nat
  PROVE  Slot(p + Capacity) = Slot(p)
<1> DEFINE i == p \div Capacity
           j == (p + Capacity) \div Capacity
           r == p % Capacity
           s == (p + Capacity) % Capacity
<1>1. p + Capacity \in Nat
  BY CapacityAssumption
<1>2. /\ i \in Int /\ r \in 0 .. Capacity - 1 /\ p = Capacity * i + r
      /\ j \in Int /\ s \in 0 .. Capacity - 1 /\ p + Capacity = Capacity * j + s
  BY <1>1, DivisionLemma, CapacityAssumption
<1> HIDE DEF i, j, r, s
<1>3. Capacity * (i + 1) + r = Capacity * j + s
  BY <1>2, CapacityAssumption, SMT
<1>4. i + 1 \in Int
  BY <1>2
<1>5. r = s
  BY <1>2, <1>3, <1>4, CapacityAssumption, UniqueRemainder
<1> QED
  BY <1>5 DEF r, s, Slot

\* Appending keeps the elements of a sequence and adds one.
LEMMA AppendLemma ==
  ASSUME NEW S, NEW s \in Seq(S), NEW e \in S
  PROVE  /\ \A i \in 1 .. Len(s) : Append(s, e)[i] = s[i]
         /\ Append(s, e)[Len(s) + 1] = e
         /\ Len(Append(s, e)) = Len(s) + 1
  OBVIOUS

\* Every position has a slot.
LEMMA SlotType ==
  \A p \in Nat : Slot(p) \in Slots
  BY DivisionLemma, CapacityAssumption DEF Slot, Slots

-----------------------------------------------------------------------------
(* The inductive invariant *)

\* The ring holds the claimed positions head .. tail - 1.
Bounds ==
  /\ head <= tail
  /\ tail <= head + Capacity
  /\ Len(log) = tail

\* What a thread in try_push knows.
PushLocals(t) ==
  /\ pc[t] \in {"push", "claim"} => pos[t] <= tail
  /\ pc[t] = "claim" => seq[Slot(pos[t])] >= pos[t]
  /\ Writing(t) =>
       /\ head <= pos[t] /\ pos[t] < tail
       /\ seq[Slot(pos[t])] = pos[t]
       /\ item[t] = log[pos[t] + 1]
  /\ pc[t] = "publish" => data[Slot(pos[t])] = log[pos[t] + 1]

\* What a thread in try_pop knows.
PopLocals(t) ==
  /\ pc[t] \in {"pop", "take"} => pos[t] <= head
  /\ pc[t] = "take" => seq[Slot(pos[t])] >= pos[t] + 1
  /\ Reading(t) =>
       /\ pos[t] < head /\ tail <= pos[t] + Capacity
       /\ seq[Slot(pos[t])] = pos[t] + 1
  /\ pc[t] = "read" => data[Slot(pos[t])] = log[pos[t] + 1]
  /\ pc[t] = "free" => item[t] = log[pos[t] + 1]

\* No position is claimed twice.
Distinct ==
  \A t, u \in Threads :
    /\ t # u
    /\ (Writing(t) /\ Writing(u)) \/ (Reading(t) /\ Reading(u))
    => pos[t] # pos[u]

\* A position of the ring that was claimed holds its value, or its producer
\* is still at work.
Filled ==
  \A p \in Nat :
    (head <= p /\ p < tail) =>
      \/ (seq[Slot(p)] = p + 1 /\ data[Slot(p)] = log[p + 1])
      \/ (\E t \in Threads : Writing(t) /\ pos[t] = p)

\* A position of the ring that was not claimed is ready for writing, or the
\* consumer of the previous round is still at work.
Vacant ==
  \A p \in Nat :
    (tail <= p /\ p < head + Capacity) =>
      \/ seq[Slot(p)] = p
      \/ \E t \in Threads : Reading(t) /\ pos[t] + Capacity = p

\* A slot's sequence number never falls behind a position claimed or taken.
Monotone ==
  \A p \in Nat :
    /\ p < tail => seq[Slot(p)] >= p
    /\ p < head => seq[Slot(p)] >= p + 1

IInv ==
  /\ TypeOK
  /\ Bounds
  /\ \A t \in Threads : PushLocals(t) /\ PopLocals(t)
  /\ Distinct
  /\ Filled
  /\ Vacant
  /\ Monotone

-----------------------------------------------------------------------------
(* Type correctness *)

LEMMA InitType ==
  Init => TypeOK
  BY CapacityAssumption DEF Init, TypeOK, Slots, PcValues

LEMMA NextType ==
  TypeOK /\ [Next]_vars => TypeOK'
<1> SUFFICES ASSUME TypeOK, [Next]_vars
             PROVE  TypeOK'
  OBVIOUS
<1> USE DEF TypeOK, PcValues, Goto
<1>1. ASSUME NEW t \in Threads, NEW v \in Values, PushBegin(t, v)
      PROVE  TypeOK'
  BY <1>1 DEF PushBegin, LoadTail, Relaxed
<1>2. ASSUME NEW t \in Threads, PopBegin(t)
      PROVE  TypeOK'
  BY <1>2 DEF PopBegin, LoadHead, Relaxed
<1>3. ASSUME NEW t \in Threads, PushStep(t)
      PROVE  TypeOK'
  <2>1. CASE PushReady(t)
    BY <2>1 DEF PushReady
  <2>2. CASE PushFull(t)
    BY <2>2 DEF PushFull, Return
  <2>3. CASE PushReload(t)
    BY <2>3 DEF PushReload, LoadTail, Relaxed
  <2>4. CASE PushClaim(t)
    <3>1. item[t] \in Values
      BY <2>4 DEF PushClaim
    <3> QED
      BY <2>4, <3>1 DEF PushClaim
  <2>5. CASE PushClaimFails(t)
    BY <2>5 DEF PushClaimFails, LoadTail, Relaxed
  <2>6. CASE PushWrite(t)
    BY <2>6 DEF PushWrite
  <2>7. CASE PushPublish(t)
    <3>1. pos[t] + 1 \in Nat
      OBVIOUS
    <3>2. seq' \in [Slots -> Nat]
      BY <2>7, <3>1 DEF PushPublish
    <3>3. UNCHANGED <<data, head, tail, log>>
      BY <2>7 DEF PushPublish
    <3>4. /\ pc' = [pc EXCEPT ![t] = "idle"]
          /\ pos' = [pos EXCEPT ![t] = 0]
          /\ item' = [item EXCEPT ![t] = None]
      BY <2>7 DEF PushPublish, Return
    <3> QED
      BY <3>2, <3>3, <3>4
  <2> QED
    BY <1>3, <2>1, <2>2, <2>3, <2>4, <2>5, <2>6, <2>7 DEF PushStep
<1>4. ASSUME NEW t \in Threads, PopStep(t)
      PROVE  TypeOK'
  <2>1. CASE PopReady(t)
    BY <2>1 DEF PopReady
  <2>2. CASE PopEmpty(t)
    BY <2>2 DEF PopEmpty, Return
  <2>3. CASE PopReload(t)
    BY <2>3 DEF PopReload, LoadHead, Relaxed
  <2>4. CASE PopTake(t)
    BY <2>4 DEF PopTake
  <2>5. CASE PopTakeFails(t)
    BY <2>5 DEF PopTakeFails, LoadHead, Relaxed
  <2>6. CASE PopRead(t)
    <3>1. data[Slot(pos[t])] \in Values \cup {None}
      BY SlotType
    <3> QED
      BY <2>6, <3>1 DEF PopRead
  <2>7. CASE PopFree(t)
    <3>1. pos[t] + Capacity \in Nat
      BY CapacityAssumption
    <3> QED
      BY <2>7, <3>1 DEF PopFree, Return
  <2> QED
    BY <1>4, <2>1, <2>2, <2>3, <2>4, <2>5, <2>6, <2>7 DEF PopStep
<1>5. CASE UNCHANGED vars
  BY <1>5 DEF vars
<1> QED
  BY <1>1, <1>2, <1>3, <1>4, <1>5 DEF Next

-----------------------------------------------------------------------------
(* The invariant is inductive *)

LEMMA InitInv ==
  Init => IInv
<1> SUFFICES ASSUME Init
             PROVE  IInv
  OBVIOUS
<1>1. TypeOK
  BY InitType
<1>2. Bounds
  BY CapacityAssumption DEF Init, Bounds
<1>3. \A t \in Threads : PushLocals(t) /\ PopLocals(t) /\ ~Writing(t) /\ ~Reading(t)
  BY DEF Init, PushLocals, PopLocals, Writing, Reading
<1>4. Distinct
  BY <1>3 DEF Distinct
<1>5. Filled /\ Monotone
  BY DEF Init, Filled, Monotone
<1>6. Vacant
  <2> SUFFICES ASSUME NEW p \in Nat, p < Capacity
               PROVE  seq[Slot(p)] = p
    BY CapacityAssumption DEF Init, Vacant
  <2>1. p % Capacity = p
    <3> DEFINE i == p \div Capacity
               r == p % Capacity
    <3>1. i \in Int /\ r \in 0 .. Capacity - 1 /\ p = Capacity * i + r
      BY DivisionLemma, CapacityAssumption
    <3> HIDE DEF i, r
    <3>2. Capacity * i + r = Capacity * 0 + p /\ p \in 0 .. Capacity - 1
      BY <3>1, CapacityAssumption, SMT
    <3>3. r = p
      BY <3>1, <3>2, CapacityAssumption, UniqueRemainder
    <3> QED
      BY <3>3 DEF r
  <2> QED
    BY <2>1, CapacityAssumption DEF Init, Slot, Slots
<1> QED
  BY <1>1, <1>2, <1>3, <1>4, <1>5, <1>6 DEF IInv

\* A step inside one call that touches neither the ring nor its counters.
LEMMA LocalStep ==
  ASSUME IInv, TypeOK',
         UNCHANGED <<seq, data, head, tail, log>>,
         NEW t \in Threads,
         \A u \in Threads \ {t} :
           pc'[u] = pc[u] /\ pos'[u] = pos[u] /\ item'[u] = item[u],
         ~Writing(t), ~Reading(t), ~Writing(t)', ~Reading(t)',
         PushLocals(t)', PopLocals(t)'
  PROVE  IInv'
<1>1. \A u \in Threads : u # t => PushLocals(u)' /\ PopLocals(u)'
  BY DEF IInv, PushLocals, PopLocals, Writing, Reading
<1>2. \A u \in Threads : (Writing(u)' <=> Writing(u)) /\ (Reading(u)' <=> Reading(u))
  BY DEF Writing, Reading
<1>3. \A u \in Threads : Writing(u) \/ Reading(u) => pos'[u] = pos[u]
  OBVIOUS
<1>4. Bounds' /\ Monotone'
  BY DEF IInv, Bounds, Monotone
<1>5. Distinct'
  BY <1>2, <1>3 DEF IInv, Distinct
<1>6. Filled'
  BY <1>2, <1>3 DEF IInv, Filled
<1>7. Vacant'
  BY <1>2, <1>3 DEF IInv, Vacant
<1> QED
  BY <1>1, <1>4, <1>5, <1>6, <1>7 DEF IInv

LEMMA PushBeginInv ==
  ASSUME IInv, TypeOK', NEW t \in Threads, NEW v \in Values, PushBegin(t, v)
  PROVE  IInv'
<1> USE DEF PushBegin, LoadTail, Relaxed, Goto
<1>1. pos'[t] <= tail' /\ pc'[t] = "push" /\ pc[t] = "idle"
  BY DEF IInv, TypeOK
<1>2. ~Writing(t) /\ ~Reading(t) /\ ~Writing(t)' /\ ~Reading(t)'
  BY <1>1 DEF Writing, Reading
<1>3. PushLocals(t)' /\ PopLocals(t)'
  BY <1>1, <1>2 DEF PushLocals, PopLocals
<1>4. \A u \in Threads \ {t} :
        pc'[u] = pc[u] /\ pos'[u] = pos[u] /\ item'[u] = item[u]
  BY DEF IInv, TypeOK
<1> QED
  BY <1>2, <1>3, <1>4, LocalStep

LEMMA PopBeginInv ==
  ASSUME IInv, TypeOK', NEW t \in Threads, PopBegin(t)
  PROVE  IInv'
<1> USE DEF PopBegin, LoadHead, Relaxed, Goto
<1>1. pos'[t] <= head' /\ pc'[t] = "pop" /\ pc[t] = "idle"
  BY DEF IInv, TypeOK
<1>2. ~Writing(t) /\ ~Reading(t) /\ ~Writing(t)' /\ ~Reading(t)'
  BY <1>1 DEF Writing, Reading
<1>3. PushLocals(t)' /\ PopLocals(t)'
  BY <1>1, <1>2 DEF PushLocals, PopLocals
<1>4. \A u \in Threads \ {t} :
        pc'[u] = pc[u] /\ pos'[u] = pos[u] /\ item'[u] = item[u]
  BY DEF IInv, TypeOK
<1> QED
  BY <1>2, <1>3, <1>4, LocalStep

\* The steps of try_push up to its compare_exchange, and its false return.
LEMMA PushLocalInv ==
  ASSUME IInv, TypeOK', NEW t \in Threads,
         \/ PushReady(t) \/ PushFull(t) \/ PushReload(t) \/ PushClaimFails(t)
  PROVE  IInv'
<1> USE DEF Goto, LoadTail, Relaxed, Return
<1>1. UNCHANGED <<seq, data, head, tail, log>>
  BY DEF PushReady, PushFull, PushReload, PushClaimFails
<1>2. pc[t] \in {"push", "claim"} /\ pc'[t] \in {"idle", "push", "claim"}
  BY DEF PushReady, PushFull, PushReload, PushClaimFails, IInv, TypeOK
<1>3. ~Writing(t) /\ ~Reading(t) /\ ~Writing(t)' /\ ~Reading(t)'
  BY <1>2 DEF Writing, Reading
<1>4. pos[t] <= tail
  BY <1>2 DEF IInv, PushLocals
<1>5. pos'[t] <= tail'
  BY <1>1, <1>4 DEF PushReady, PushFull, PushReload, PushClaimFails, IInv, TypeOK
<1>6. pc'[t] = "claim" => seq'[Slot(pos'[t])] >= pos'[t]
  <2>1. pc'[t] = "claim" => pos' = pos /\ seq[Slot(pos[t])] = pos[t]
    BY DEF PushReady, PushFull, PushReload, PushClaimFails, IInv, TypeOK
  <2>2. pos[t] >= pos[t]
    BY DEF IInv, TypeOK
  <2> QED
    BY <1>1, <2>1, <2>2
<1>7. PushLocals(t)' /\ PopLocals(t)'
  BY <1>2, <1>3, <1>5, <1>6 DEF PushLocals, PopLocals
<1>8. \A u \in Threads \ {t} :
        pc'[u] = pc[u] /\ pos'[u] = pos[u] /\ item'[u] = item[u]
  BY DEF PushReady, PushFull, PushReload, PushClaimFails, IInv, TypeOK
<1> QED
  BY <1>1, <1>3, <1>7, <1>8, LocalStep

\* The steps of try_pop up to its compare_exchange, and its false return.
LEMMA PopLocalInv ==
  ASSUME IInv, TypeOK', NEW t \in Threads,
         \/ PopReady(t) \/ PopEmpty(t) \/ PopReload(t) \/ PopTakeFails(t)
  PROVE  IInv'
<1> USE DEF Goto, LoadHead, Relaxed, Return
<1>1. UNCHANGED <<seq, data, head, tail, log>>
  BY DEF PopReady, PopEmpty, PopReload, PopTakeFails
<1>2. pc[t] \in {"pop", "take"} /\ pc'[t] \in {"idle", "pop", "take"}
  BY DEF PopReady, PopEmpty, PopReload, PopTakeFails, IInv, TypeOK
<1>3. ~Writing(t) /\ ~Reading(t) /\ ~Writing(t)' /\ ~Reading(t)'
  BY <1>2 DEF Writing, Reading
<1>4. pos[t] <= head
  BY <1>2 DEF IInv, PopLocals
<1>5. pos'[t] <= head'
  BY <1>1, <1>4 DEF PopReady, PopEmpty, PopReload, PopTakeFails, IInv, TypeOK
<1>6. pc'[t] = "take" => seq'[Slot(pos'[t])] >= pos'[t] + 1
  <2>1. pc'[t] = "take" => pos' = pos /\ seq[Slot(pos[t])] = pos[t] + 1
    BY DEF PopReady, PopEmpty, PopReload, PopTakeFails, IInv, TypeOK
  <2>2. pos[t] + 1 >= pos[t] + 1
    BY DEF IInv, TypeOK
  <2> QED
    BY <1>1, <2>1, <2>2
<1>7. PushLocals(t)' /\ PopLocals(t)'
  BY <1>2, <1>3, <1>5, <1>6 DEF PushLocals, PopLocals
<1>8. \A u \in Threads \ {t} :
        pc'[u] = pc[u] /\ pos'[u] = pos[u] /\ item'[u] = item[u]
  BY DEF PopReady, PopEmpty, PopReload, PopTakeFails, IInv, TypeOK
<1> QED
  BY <1>1, <1>3, <1>7, <1>8, LocalStep

\* A producer that found its slot ready and then moved m_tail has room, and
\* no consumer is left on the slot.
LEMMA ClaimIsReady ==
  ASSUME Capacity >= 2, IInv, NEW t \in Threads, PushClaim(t)
  PROVE  tail < head + Capacity /\ seq[Slot(tail)] = tail
<1> USE CapacityAssumption DEF IInv, TypeOK
<1>1. tail = pos[t] /\ seq[Slot(tail)] >= tail
  BY DEF PushClaim, PushLocals
<1>2. tail < head + Capacity
  <2>1. SUFFICES ASSUME tail = head + Capacity
                 PROVE  FALSE
    BY DEF Bounds
  <2>2. seq[Slot(head)] <= head + 1
    <3>1. CASE seq[Slot(head)] = head + 1
      BY <3>1
    <3>2. CASE \E u \in Threads : Writing(u) /\ pos[u] = head
      BY <3>2 DEF PushLocals
    <3> QED
      BY <2>1, <3>1, <3>2 DEF Filled
  <2>3. Slot(tail) = Slot(head)
    BY <2>1, NextRound
  <2>4. seq[Slot(head)] \in Nat
    BY SlotType
  <2> QED
    BY <1>1, <2>1, <2>2, <2>3, <2>4
<1>3. ASSUME NEW u \in Threads, Reading(u), pos[u] + Capacity = tail
      PROVE  FALSE
  <2>1. seq[Slot(pos[u])] = pos[u] + 1
    BY <1>3 DEF PopLocals
  <2>2. Slot(tail) = Slot(pos[u])
    BY <1>3, NextRound
  <2> QED
    BY <1>1, <1>3, <2>1, <2>2
<1> QED
  BY <1>2, <1>3 DEF Vacant

LEMMA PushClaimInv ==
  ASSUME Capacity >= 2, IInv, TypeOK', NEW t \in Threads, PushClaim(t)
  PROVE  IInv'
<1> USE CapacityAssumption
<1>0. TypeOK /\ Bounds /\ (\A u \in Threads : PushLocals(u) /\ PopLocals(u))
  BY DEF IInv
<1>1. tail < head + Capacity /\ seq[Slot(tail)] = tail
  BY ClaimIsReady
<1>2. /\ pos[t] = tail /\ tail' = tail + 1 /\ log' = Append(log, item[t])
      /\ pc[t] = "claim" /\ pc' = [pc EXCEPT ![t] = "write"]
      /\ UNCHANGED <<seq, data, head, pos, item>>
  BY DEF PushClaim, Goto
<1>3. /\ \A i \in 1 .. tail : log'[i] = log[i]
      /\ log'[tail + 1] = item[t]
      /\ Len(log') = tail + 1
  <2>1. log \in Seq(Values) /\ item[t] \in Values /\ Len(log) = tail
    BY <1>0, <1>2 DEF TypeOK, Bounds
  <2> QED
    BY <1>2, <2>1, AppendLemma
<1>4. /\ ~Writing(t) /\ Writing(t)'
      /\ \A u \in Threads : Reading(u)' <=> Reading(u)
      /\ \A u \in Threads : u # t => (Writing(u)' <=> Writing(u))
  BY <1>0, <1>2 DEF Writing, Reading, TypeOK
<1>5. Bounds'
  BY <1>0, <1>1, <1>2, <1>3 DEF Bounds, TypeOK
<1>6. ASSUME NEW u \in Threads
      PROVE  PushLocals(u)'
  <2>1. CASE u = t
    BY <1>0, <1>1, <1>2, <1>3, <2>1 DEF PushLocals, Writing, TypeOK, Bounds
  <2>2. CASE u # t
    <3>1. PushLocals(u) /\ pc'[u] = pc[u]
      BY <1>0, <1>2, <2>2 DEF TypeOK
    <3>2. Writing(u) => log'[pos[u] + 1] = log[pos[u] + 1]
      BY <1>0, <1>3, <3>1 DEF PushLocals, TypeOK
    <3>3. pos[u] \in Nat /\ tail \in Nat
      BY <1>0 DEF TypeOK
    <3>4. PushLocals(u)' <=>
            /\ pc[u] \in {"push", "claim"} => pos[u] <= tail + 1
            /\ pc[u] = "claim" => seq[Slot(pos[u])] >= pos[u]
            /\ Writing(u) =>
                 /\ head <= pos[u] /\ pos[u] < tail + 1
                 /\ seq[Slot(pos[u])] = pos[u]
                 /\ item[u] = log'[pos[u] + 1]
            /\ pc[u] = "publish" => data[Slot(pos[u])] = log'[pos[u] + 1]
      BY <1>2, <3>1 DEF PushLocals, Writing
    <3> QED
      BY <3>1, <3>2, <3>3, <3>4 DEF PushLocals, Writing
  <2> QED
    BY <2>1, <2>2
<1>7. ASSUME NEW u \in Threads
      PROVE  PopLocals(u)'
  <2>1. PopLocals(u) /\ pos[u] \in Nat /\ head \in Nat /\ tail \in Nat
    BY <1>0 DEF TypeOK
  <2>2. Reading(u) => tail # pos[u] + Capacity
    BY <1>1, <2>1, NextRound DEF PopLocals
  <2>3. Reading(u) => log'[pos[u] + 1] = log[pos[u] + 1]
    BY <1>0, <1>3, <2>1 DEF PopLocals, Bounds
  <2>4. pc'[u] = pc[u] \/ (u = t /\ pc'[u] = "write")
    BY <1>0, <1>2 DEF TypeOK
  <2>5. CASE u = t /\ pc'[u] = "write"
    BY <2>5 DEF PopLocals, Reading
  <2>6. CASE pc'[u] = pc[u]
    <3>1. PopLocals(u)' <=>
            /\ pc[u] \in {"pop", "take"} => pos[u] <= head
            /\ pc[u] = "take" => seq[Slot(pos[u])] >= pos[u] + 1
            /\ Reading(u) =>
                 /\ pos[u] < head /\ tail + 1 <= pos[u] + Capacity
                 /\ seq[Slot(pos[u])] = pos[u] + 1
            /\ pc[u] = "read" => data[Slot(pos[u])] = log'[pos[u] + 1]
            /\ pc[u] = "free" => item[u] = log'[pos[u] + 1]
      BY <1>2, <2>6 DEF PopLocals, Reading
    <3>2. Reading(u) => tail + 1 <= pos[u] + Capacity
      BY <2>1, <2>2 DEF PopLocals
    <3> QED
      BY <2>1, <2>3, <3>1, <3>2 DEF PopLocals, Reading
  <2> QED
    BY <2>4, <2>5, <2>6
<1>8. Distinct'
  <2>1. \A u \in Threads : Writing(u) => pos[u] # tail
    BY <1>0 DEF PushLocals, TypeOK
  <2>2. ~Reading(t)'
    BY <1>4 DEF Reading, Writing
  <2> QED
    BY <1>2, <1>4, <2>1, <2>2 DEF IInv, Distinct
<1>9. Filled'
  <2> SUFFICES ASSUME NEW p \in Nat, head <= p, p < tail + 1
               PROVE  \/ seq[Slot(p)] = p + 1 /\ data[Slot(p)] = log'[p + 1]
                      \/ \E u \in Threads : Writing(u)' /\ pos[u] = p
    BY <1>2 DEF Filled
  <2>1. CASE p = tail
    BY <1>2, <1>4, <2>1
  <2>2. CASE p < tail
    <3>1. log'[p + 1] = log[p + 1]
      BY <1>0, <1>3, <2>2 DEF TypeOK
    <3> QED
      BY <1>4, <2>2, <3>1 DEF IInv, Filled
  <2> QED
    BY <1>0, <2>1, <2>2 DEF TypeOK
<1>10. Vacant'
  <2> SUFFICES ASSUME NEW p \in Nat, tail + 1 <= p, p < head + Capacity
               PROVE  \/ seq[Slot(p)] = p
                      \/ \E u \in Threads : Reading(u) /\ pos[u] + Capacity = p
    BY <1>2, <1>4 DEF Vacant
  <2>1. tail <= p
    BY <1>0 DEF TypeOK
  <2> QED
    BY <2>1 DEF IInv, Vacant
<1>11. Monotone'
  <2> SUFFICES ASSUME NEW p \in Nat
               PROVE  /\ p < tail + 1 => seq[Slot(p)] >= p
                      /\ p < head => seq[Slot(p)] >= p + 1
    BY <1>2 DEF Monotone
  <2>1. p < tail + 1 => p < tail \/ p = tail
    BY <1>0 DEF TypeOK
  <2> QED
    BY <1>0, <1>1, <2>1 DEF IInv, Monotone, TypeOK
<1> QED
  BY <1>5, <1>6, <1>7, <1>8, <1>9, <1>10, <1>11 DEF IInv

\* Mutual exclusion on the slots follows from the invariant: the positions
\* being written and those being read lie within one round.
LEMMA InvExclusive ==
  ASSUME IInv
  PROVE  SlotExclusive
<1> SUFFICES ASSUME NEW t \in Threads, NEW u \in Threads,
                    Writing(t) \/ Reading(t), Writing(u) \/ Reading(u),
                    Slot(pos[t]) = Slot(pos[u])
             PROVE  t = u
  BY DEF SlotExclusive
<1>1. /\ pos[t] \in Nat /\ pos[u] \in Nat /\ head \in Nat /\ tail \in Nat
      /\ Capacity \in Nat /\ head <= tail /\ tail <= head + Capacity
  BY CapacityAssumption DEF IInv, TypeOK, Bounds
<1>2. \A w \in {t, u} :
        \/ Writing(w) /\ head <= pos[w] /\ pos[w] < tail
        \/ Reading(w) /\ pos[w] < head /\ tail <= pos[w] + Capacity
  BY DEF IInv, PushLocals, PopLocals
<1>3. pos[t] < pos[u] + Capacity /\ pos[u] < pos[t] + Capacity
  BY <1>1, <1>2
<1>4. pos[t] = pos[u]
  BY <1>1, <1>3, NearSlots
<1>5. (Writing(t) /\ Writing(u)) \/ (Reading(t) /\ Reading(u))
  BY <1>1, <1>2, <1>4
<1> QED
  BY <1>4, <1>5 DEF IInv, Distinct

LEMMA PushWriteInv ==
  ASSUME IInv, TypeOK', NEW t \in Threads, PushWrite(t)
  PROVE  IInv'
<1> USE CapacityAssumption
<1>0. TypeOK /\ Bounds /\ (\A u \in Threads : PushLocals(u) /\ PopLocals(u))
  BY DEF IInv
<1>1. /\ pc[t] = "write" /\ pc' = [pc EXCEPT ![t] = "publish"]
      /\ data' = [data EXCEPT ![Slot(pos[t])] = item[t]]
      /\ UNCHANGED <<seq, head, tail, pos, item, log>>
  BY DEF PushWrite, Goto
<1>2. /\ Writing(t) /\ Writing(t)'
      /\ \A u \in Threads : Writing(u)' <=> Writing(u)
      /\ \A u \in Threads : Reading(u)' <=> Reading(u)
  BY <1>0, <1>1 DEF Writing, Reading, TypeOK
<1>3. /\ pos[t] \in Nat /\ Slot(pos[t]) \in Slots
      /\ head <= pos[t] /\ pos[t] < tail /\ item[t] = log[pos[t] + 1]
  BY <1>0, <1>2, SlotType DEF PushLocals, TypeOK
<1>4. data'[Slot(pos[t])] = log[pos[t] + 1]
  BY <1>0, <1>1, <1>3 DEF TypeOK
<1>5. \A i \in Slots : i # Slot(pos[t]) => data'[i] = data[i]
  BY <1>0, <1>1 DEF TypeOK
<1>6. ASSUME NEW u \in Threads, u # t
      PROVE  PushLocals(u)' /\ PopLocals(u)'
  <2>1. pc'[u] = pc[u] /\ pos[u] \in Nat
    BY <1>0, <1>1, <1>6 DEF TypeOK
  <2>2. Writing(u) \/ Reading(u) => data'[Slot(pos[u])] = data[Slot(pos[u])]
    BY <1>2, <1>5, <1>6, <2>1, SlotType, InvExclusive DEF SlotExclusive
  <2> QED
    BY <1>0, <1>1, <2>1, <2>2 DEF PushLocals, PopLocals, Writing, Reading
<1>7. PushLocals(t)' /\ PopLocals(t)'
  <2>1. pc'[t] = "publish"
    BY <1>0, <1>1 DEF TypeOK
  <2> QED
    BY <1>0, <1>1, <1>2, <1>4, <2>1 DEF PushLocals, PopLocals, Reading, Writing
<1>8. Bounds' /\ Distinct' /\ Vacant' /\ Monotone'
  <2>1. Bounds' /\ Monotone'
    BY <1>1 DEF IInv, Bounds, Monotone
  <2>2. Distinct'
    BY <1>1, <1>2 DEF IInv, Distinct
  <2>3. Vacant'
    BY <1>1, <1>2 DEF IInv, Vacant
  <2> QED
    BY <2>1, <2>2, <2>3
<1>9. Filled'
  <2> SUFFICES ASSUME NEW p \in Nat, head <= p, p < tail
               PROVE  \/ seq[Slot(p)] = p + 1 /\ data'[Slot(p)] = log[p + 1]
                      \/ \E u \in Threads : Writing(u) /\ pos[u] = p
    BY <1>1, <1>2 DEF Filled
  <2>1. CASE p = pos[t]
    BY <1>2, <2>1
  <2>2. CASE p # pos[t]
    <3>1. Slot(p) # Slot(pos[t])
      BY <1>0, <1>3, <2>2, NearSlots DEF Bounds, TypeOK
    <3>2. data'[Slot(p)] = data[Slot(p)]
      BY <1>5, <3>1, SlotType
    <3> QED
      BY <3>2 DEF IInv, Filled
  <2> QED
    BY <2>1, <2>2
<1> QED
  BY <1>6, <1>7, <1>8, <1>9 DEF IInv

LEMMA PushPublishInv ==
  ASSUME IInv, TypeOK', NEW t \in Threads, PushPublish(t)
  PROVE  IInv'
<1> USE CapacityAssumption
<1>0. TypeOK /\ Bounds /\ (\A u \in Threads : PushLocals(u) /\ PopLocals(u))
  BY DEF IInv
<1>1. /\ pc[t] = "publish" /\ pc' = [pc EXCEPT ![t] = "idle"]
      /\ pos' = [pos EXCEPT ![t] = 0]
      /\ item' = [item EXCEPT ![t] = None]
      /\ seq' = [seq EXCEPT ![Slot(pos[t])] = pos[t] + 1]
      /\ UNCHANGED <<data, head, tail, log>>
  BY DEF PushPublish, Return, Goto
<1>2. /\ Writing(t) /\ ~Writing(t)' /\ ~Reading(t)
      /\ \A u \in Threads : Reading(u)' <=> Reading(u)
      /\ \A u \in Threads : u # t => (Writing(u)' <=> Writing(u))
  BY <1>0, <1>1 DEF Writing, Reading, TypeOK
<1>3. /\ pos[t] \in Nat /\ Slot(pos[t]) \in Slots
      /\ head <= pos[t] /\ pos[t] < tail
      /\ seq[Slot(pos[t])] = pos[t]
      /\ data[Slot(pos[t])] = log[pos[t] + 1]
  BY <1>0, <1>1, <1>2, SlotType DEF PushLocals, TypeOK
<1>4. /\ seq'[Slot(pos[t])] = pos[t] + 1
      /\ \A i \in Slots : i # Slot(pos[t]) => seq'[i] = seq[i]
  BY <1>0, <1>1, <1>3 DEF TypeOK
<1>5. ASSUME NEW i \in Slots
      PROVE  seq[i] \in Nat /\ seq'[i] \in Nat /\ seq'[i] >= seq[i]
  <2>1. seq[i] \in Nat /\ seq'[i] \in Nat
    BY <1>0 DEF TypeOK
  <2> QED
    BY <1>3, <1>4, <2>1
<1>6. \A u \in Threads : u # t =>
        /\ pc'[u] = pc[u] /\ pos'[u] = pos[u] /\ item'[u] = item[u]
        /\ pos[u] \in Nat /\ Slot(pos[u]) \in Slots
  BY <1>0, <1>1, SlotType DEF TypeOK
<1>7. ASSUME NEW u \in Threads, u # t
      PROVE  PushLocals(u)' /\ PopLocals(u)'
  <2>1. Writing(u) \/ Reading(u) => seq'[Slot(pos[u])] = seq[Slot(pos[u])]
    BY <1>2, <1>4, <1>6, <1>7, InvExclusive DEF SlotExclusive
  <2>2. /\ seq'[Slot(pos[u])] >= seq[Slot(pos[u])]
        /\ seq'[Slot(pos[u])] \in Nat /\ seq[Slot(pos[u])] \in Nat
    BY <1>5, <1>6, <1>7
  <2>3. PushLocals(u)'
    BY <1>0, <1>1, <1>6, <1>7, <2>1, <2>2 DEF PushLocals, Writing
  <2>4. PopLocals(u)'
    BY <1>0, <1>1, <1>6, <1>7, <2>1, <2>2 DEF PopLocals, Reading
  <2> QED
    BY <2>3, <2>4
<1>8. PushLocals(t)' /\ PopLocals(t)'
  <2>1. pc'[t] = "idle"
    BY <1>0, <1>1 DEF TypeOK
  <2> QED
    BY <2>1 DEF PushLocals, PopLocals, Reading, Writing
<1>9. Bounds'
  BY <1>0, <1>1 DEF Bounds
<1>10. Distinct'
  BY <1>2, <1>6 DEF IInv, Distinct
<1>11. Filled'
  <2> SUFFICES ASSUME NEW p \in Nat, head <= p, p < tail
               PROVE  \/ seq'[Slot(p)] = p + 1 /\ data[Slot(p)] = log[p + 1]
                      \/ \E u \in Threads : Writing(u)' /\ pos'[u] = p
    BY <1>1 DEF Filled
  <2>1. CASE p = pos[t]
    BY <1>3, <1>4, <2>1
  <2>2. CASE p # pos[t]
    <3>1. Slot(p) # Slot(pos[t])
      BY <1>0, <1>3, <2>2, NearSlots DEF Bounds, TypeOK
    <3>2. seq'[Slot(p)] = seq[Slot(p)]
      BY <1>4, <3>1, SlotType
    <3>3. \A u \in Threads : Writing(u) /\ pos[u] = p => Writing(u)' /\ pos'[u] = p
      BY <1>2, <1>6, <2>2
    <3> QED
      BY <3>2, <3>3 DEF IInv, Filled
  <2> QED
    BY <2>1, <2>2
<1>12. Vacant'
  <2> SUFFICES ASSUME NEW p \in Nat, tail <= p, p < head + Capacity
               PROVE  \/ seq'[Slot(p)] = p
                      \/ \E u \in Threads : Reading(u)' /\ pos'[u] + Capacity = p
    BY <1>1 DEF Vacant
  <2>1. Slot(p) # Slot(pos[t])
    BY <1>0, <1>3, NearSlots DEF Bounds, TypeOK
  <2>2. seq'[Slot(p)] = seq[Slot(p)]
    BY <1>4, <2>1, SlotType
  <2>3. \A u \in Threads : Reading(u) => Reading(u)' /\ pos'[u] = pos[u]
    BY <1>2, <1>6
  <2> QED
    BY <2>2, <2>3 DEF IInv, Vacant
<1>13. Monotone'
  <2> SUFFICES ASSUME NEW p \in Nat
               PROVE  /\ p < tail => seq'[Slot(p)] >= p
                      /\ p < head => seq'[Slot(p)] >= p + 1
    BY <1>1 DEF Monotone
  <2>1. /\ seq'[Slot(p)] >= seq[Slot(p)]
        /\ seq'[Slot(p)] \in Nat /\ seq[Slot(p)] \in Nat
    BY <1>5, SlotType
  <2> QED
    BY <2>1 DEF IInv, Monotone
<1> QED
  BY <1>7, <1>8, <1>9, <1>10, <1>11, <1>12, <1>13 DEF IInv

\* The compare_exchange of m_head succeeds only on a position that is claimed and
\* published, and nobody is writing its slot.
LEMMA TakeIsReady ==
  ASSUME IInv, NEW t \in Threads, PopTake(t)
  PROVE  /\ head < tail
         /\ \A u \in Threads : Writing(u) => pos[u] # head
         /\ seq[Slot(head)] = head + 1
         /\ data[Slot(head)] = log[head + 1]
<1> USE CapacityAssumption
<1>0. TypeOK /\ Bounds /\ (\A u \in Threads : PushLocals(u) /\ PopLocals(u))
  BY DEF IInv
<1>1. pc[t] = "take" /\ head = pos[t]
  BY DEF PopTake
<1>2. head \in Nat /\ tail \in Nat /\ seq[Slot(head)] \in Nat
  BY <1>0, SlotType DEF TypeOK
<1>3. seq[Slot(head)] >= head + 1
  BY <1>0, <1>1 DEF PopLocals
<1>4. head < tail
  <2>1. SUFFICES ASSUME tail = head
                 PROVE  FALSE
    BY <1>0, <1>2 DEF Bounds
  <2>2. CASE seq[Slot(head)] = head
    BY <1>2, <1>3, <2>2
  <2>3. ASSUME NEW u \in Threads, Reading(u), pos[u] + Capacity = head
        PROVE  FALSE
    <3>1. seq[Slot(pos[u])] = pos[u] + 1 /\ pos[u] \in Nat
      BY <1>0, <2>3 DEF PopLocals, TypeOK
    <3>2. Slot(head) = Slot(pos[u])
      BY <2>3, <3>1, NextRound
    <3> QED
      BY <1>2, <1>3, <2>3, <3>1, <3>2
  <2> QED
    BY <1>2, <2>1, <2>2, <2>3 DEF IInv, Vacant
<1>5. /\ \A u \in Threads : Writing(u) => pos[u] # head
      /\ seq[Slot(head)] = head + 1
      /\ data[Slot(head)] = log[head + 1]
  <2>1. ASSUME NEW u \in Threads, Writing(u), pos[u] = head
        PROVE  FALSE
    BY <1>0, <1>2, <1>3, <2>1 DEF PushLocals
  <2> QED
    BY <1>2, <1>4, <2>1 DEF IInv, Filled
<1> QED
  BY <1>4, <1>5

LEMMA PopTakeInv ==
  ASSUME Capacity >= 2, IInv, TypeOK', NEW t \in Threads, PopTake(t)
  PROVE  IInv'
<1> USE CapacityAssumption
<1>0. TypeOK /\ Bounds /\ (\A u \in Threads : PushLocals(u) /\ PopLocals(u))
  BY DEF IInv
<1>1. /\ pc[t] = "take" /\ pc' = [pc EXCEPT ![t] = "read"]
      /\ head = pos[t] /\ head' = head + 1
      /\ UNCHANGED <<seq, data, tail, pos, item, log>>
  BY DEF PopTake, Goto
<1>2. /\ ~Reading(t) /\ Reading(t)' /\ ~Writing(t)'
      /\ \A u \in Threads : Writing(u)' <=> Writing(u)
      /\ \A u \in Threads : u # t => (Reading(u)' <=> Reading(u))
  BY <1>0, <1>1 DEF Writing, Reading, TypeOK
<1>3. head \in Nat /\ tail \in Nat /\ seq[Slot(head)] \in Nat
  BY <1>0, SlotType DEF TypeOK
<1>4. seq[Slot(head)] >= head + 1
  BY <1>0, <1>1 DEF PopLocals
<1>5. head < tail
  BY TakeIsReady
<1>6. /\ \A u \in Threads : Writing(u) => pos[u] # head
      /\ seq[Slot(head)] = head + 1
      /\ data[Slot(head)] = log[head + 1]
  BY TakeIsReady
<1>7. Bounds'
  BY <1>0, <1>1, <1>3, <1>5 DEF Bounds
<1>8. \A u \in Threads : pos[u] \in Nat /\ (u # t => pc'[u] = pc[u])
  BY <1>0, <1>1 DEF TypeOK
<1>9. ASSUME NEW u \in Threads
      PROVE  PushLocals(u)'
  <2>1. Writing(u) => head + 1 <= pos[u]
    BY <1>0, <1>3, <1>6, <1>8 DEF PushLocals
  <2>2. CASE u = t
    BY <1>1, <1>2, <2>2, <1>0 DEF PushLocals, Writing, TypeOK
  <2>3. CASE u # t
    <3>1. PushLocals(u) /\ pc'[u] = pc[u]
      BY <1>0, <1>8, <2>3
    <3> QED
      BY <1>1, <2>1, <3>1 DEF PushLocals, Writing
  <2> QED
    BY <2>2, <2>3
<1>10. ASSUME NEW u \in Threads
       PROVE  PopLocals(u)'
  <2>1. CASE u = t
    <3>1. pc'[u] = "read"
      BY <1>0, <1>1, <2>1 DEF TypeOK
    <3>2. pos[u] < head + 1 /\ tail <= pos[u] + Capacity
      BY <1>0, <1>1, <1>3, <2>1 DEF Bounds
    <3> QED
      BY <1>1, <1>6, <2>1, <3>1, <3>2 DEF PopLocals, Reading
  <2>2. CASE u # t
    <3>1. PopLocals(u) /\ pc'[u] = pc[u] /\ pos[u] \in Nat
      BY <1>0, <1>8, <2>2
    <3>2. /\ pos[u] <= head => pos[u] <= head + 1
          /\ pos[u] < head => pos[u] < head + 1
      BY <1>3, <3>1
    <3> QED
      BY <1>1, <3>1, <3>2 DEF PopLocals, Reading
  <2> QED
    BY <2>1, <2>2
<1>11. Distinct'
  <2>1. \A u \in Threads : Reading(u) => pos[u] # head
    BY <1>0, <1>3, <1>8 DEF PopLocals
  <2> QED
    BY <1>1, <1>2, <2>1 DEF IInv, Distinct
<1>12. Filled'
  <2> SUFFICES ASSUME NEW p \in Nat, head + 1 <= p, p < tail
               PROVE  \/ seq[Slot(p)] = p + 1 /\ data[Slot(p)] = log[p + 1]
                      \/ \E u \in Threads : Writing(u) /\ pos[u] = p
    BY <1>1, <1>2 DEF Filled
  <2>1. head <= p
    BY <1>3
  <2> QED
    BY <2>1 DEF IInv, Filled
<1>13. Vacant'
  <2> SUFFICES ASSUME NEW p \in Nat, tail <= p, p < head + 1 + Capacity
               PROVE  \/ seq[Slot(p)] = p
                      \/ \E u \in Threads : Reading(u)' /\ pos[u] + Capacity = p
    BY <1>1 DEF Vacant
  <2>1. CASE p < head + Capacity
    BY <1>2, <2>1 DEF IInv, Vacant
  <2>2. CASE p = head + Capacity
    BY <1>1, <1>2, <2>2
  <2> QED
    BY <1>3, <2>1, <2>2
<1>14. Monotone'
  <2> SUFFICES ASSUME NEW p \in Nat
               PROVE  /\ p < tail => seq[Slot(p)] >= p
                      /\ p < head + 1 => seq[Slot(p)] >= p + 1
    BY <1>1 DEF Monotone
  <2>1. p < head + 1 => p < head \/ p = head
    BY <1>3
  <2> QED
    BY <1>4, <2>1 DEF IInv, Monotone
<1> QED
  BY <1>7, <1>9, <1>10, <1>11, <1>12, <1>13, <1>14 DEF IInv

LEMMA PopReadInv ==
  ASSUME IInv, TypeOK', NEW t \in Threads, PopRead(t)
  PROVE  IInv'
<1>0. TypeOK /\ (\A u \in Threads : PushLocals(u) /\ PopLocals(u))
  BY DEF IInv
<1>1. /\ pc[t] = "read" /\ pc' = [pc EXCEPT ![t] = "free"]
      /\ item' = [item EXCEPT ![t] = data[Slot(pos[t])]]
      /\ UNCHANGED <<seq, data, head, tail, pos, log>>
  BY DEF PopRead, Goto
<1>2. /\ Reading(t) /\ ~Writing(t) /\ ~Writing(t)'
      /\ \A u \in Threads : (Writing(u)' <=> Writing(u)) /\ (Reading(u)' <=> Reading(u))
  BY <1>0, <1>1 DEF Writing, Reading, TypeOK
<1>3. ASSUME NEW u \in Threads, u # t
      PROVE  PushLocals(u)' /\ PopLocals(u)'
  <2>1. pc'[u] = pc[u] /\ item'[u] = item[u]
    BY <1>0, <1>1, <1>3 DEF TypeOK
  <2> QED
    BY <1>0, <1>1, <2>1 DEF PushLocals, PopLocals, Writing, Reading
<1>4. PushLocals(t)' /\ PopLocals(t)'
  <2>1. pc'[t] = "free" /\ item'[t] = log[pos[t] + 1]
    BY <1>0, <1>1 DEF TypeOK, PopLocals
  <2> QED
    BY <1>0, <1>1, <1>2, <2>1 DEF PushLocals, PopLocals, Reading
<1>5. Bounds' /\ Monotone'
  BY <1>1 DEF IInv, Bounds, Monotone
<1>6. Distinct'
  BY <1>1, <1>2 DEF IInv, Distinct
<1>7. Filled' /\ Vacant'
  BY <1>1, <1>2 DEF IInv, Filled, Vacant
<1> QED
  BY <1>3, <1>4, <1>5, <1>6, <1>7 DEF IInv

LEMMA PopFreeInv ==
  ASSUME IInv, TypeOK', NEW t \in Threads, PopFree(t)
  PROVE  IInv'
<1> USE CapacityAssumption
<1>0. TypeOK /\ Bounds /\ (\A u \in Threads : PushLocals(u) /\ PopLocals(u))
  BY DEF IInv
<1>1. /\ pc[t] = "free" /\ pc' = [pc EXCEPT ![t] = "idle"]
      /\ pos' = [pos EXCEPT ![t] = 0]
      /\ item' = [item EXCEPT ![t] = None]
      /\ seq' = [seq EXCEPT ![Slot(pos[t])] = pos[t] + Capacity]
      /\ UNCHANGED <<data, head, tail, log>>
  BY DEF PopFree, Return, Goto
<1>2. /\ Reading(t) /\ ~Reading(t)' /\ ~Writing(t)
      /\ \A u \in Threads : Writing(u)' <=> Writing(u)
      /\ \A u \in Threads : u # t => (Reading(u)' <=> Reading(u))
  BY <1>0, <1>1 DEF Writing, Reading, TypeOK
<1>3. /\ pos[t] \in Nat /\ Slot(pos[t]) \in Slots
      /\ pos[t] < head /\ tail <= pos[t] + Capacity
      /\ seq[Slot(pos[t])] = pos[t] + 1
  BY <1>0, <1>1, <1>2, SlotType DEF PopLocals, TypeOK
<1>4. /\ seq'[Slot(pos[t])] = pos[t] + Capacity
      /\ \A i \in Slots : i # Slot(pos[t]) => seq'[i] = seq[i]
  BY <1>0, <1>1, <1>3 DEF TypeOK
<1>5. ASSUME NEW i \in Slots
      PROVE  seq[i] \in Nat /\ seq'[i] \in Nat /\ seq'[i] >= seq[i]
  <2>1. seq[i] \in Nat /\ seq'[i] \in Nat
    BY <1>0 DEF TypeOK
  <2> QED
    BY <1>3, <1>4, <2>1
<1>6. \A u \in Threads : u # t =>
        /\ pc'[u] = pc[u] /\ pos'[u] = pos[u] /\ item'[u] = item[u]
        /\ pos[u] \in Nat /\ Slot(pos[u]) \in Slots
  BY <1>0, <1>1, SlotType DEF TypeOK
<1>7. ASSUME NEW u \in Threads, u # t
      PROVE  PushLocals(u)' /\ PopLocals(u)'
  <2>1. Writing(u) \/ Reading(u) => seq'[Slot(pos[u])] = seq[Slot(pos[u])]
    BY <1>2, <1>4, <1>6, <1>7, InvExclusive DEF SlotExclusive
  <2>2. /\ seq'[Slot(pos[u])] >= seq[Slot(pos[u])]
        /\ seq'[Slot(pos[u])] \in Nat /\ seq[Slot(pos[u])] \in Nat
    BY <1>5, <1>6, <1>7
  <2>3. PushLocals(u)'
    BY <1>0, <1>1, <1>6, <1>7, <2>1, <2>2 DEF PushLocals, Writing
  <2>4. PopLocals(u)'
    BY <1>0, <1>1, <1>6, <1>7, <2>1, <2>2 DEF PopLocals, Reading
  <2> QED
    BY <2>3, <2>4
<1>8. PushLocals(t)' /\ PopLocals(t)'
  <2>1. pc'[t] = "idle"
    BY <1>0, <1>1 DEF TypeOK
  <2> QED
    BY <2>1 DEF PushLocals, PopLocals, Reading, Writing
<1>9. Bounds'
  BY <1>0, <1>1 DEF Bounds
<1>10. Distinct'
  BY <1>2, <1>6 DEF IInv, Distinct
<1>11. Filled'
  <2> SUFFICES ASSUME NEW p \in Nat, head <= p, p < tail
               PROVE  \/ seq'[Slot(p)] = p + 1 /\ data[Slot(p)] = log[p + 1]
                      \/ \E u \in Threads : Writing(u)' /\ pos'[u] = p
    BY <1>1 DEF Filled
  <2>1. Slot(p) # Slot(pos[t])
    BY <1>0, <1>3, NearSlots DEF Bounds, TypeOK
  <2>2. seq'[Slot(p)] = seq[Slot(p)]
    BY <1>4, <2>1, SlotType
  <2>3. \A u \in Threads : Writing(u) => Writing(u)' /\ pos'[u] = pos[u]
    BY <1>2, <1>6
  <2> QED
    BY <2>2, <2>3 DEF IInv, Filled
<1>12. Vacant'
  <2> SUFFICES ASSUME NEW p \in Nat, tail <= p, p < head + Capacity
               PROVE  \/ seq'[Slot(p)] = p
                      \/ \E u \in Threads : Reading(u)' /\ pos'[u] + Capacity = p
    BY <1>1 DEF Vacant
  <2>1. CASE p = pos[t] + Capacity
    BY <1>3, <1>4, <2>1, NextRound
  <2>2. CASE p # pos[t] + Capacity
    <3>1. Slot(p) # Slot(pos[t] + Capacity)
      <4>1. pos[t] + Capacity \in Nat
        BY <1>3
      <4>2. p < pos[t] + Capacity + Capacity /\ pos[t] + Capacity < p + Capacity
        BY <1>0, <1>3 DEF Bounds, TypeOK
      <4> QED
        BY <2>2, <4>1, <4>2, NearSlots
    <3>2. seq'[Slot(p)] = seq[Slot(p)]
      BY <1>3, <1>4, <3>1, SlotType, NextRound
    <3>3. \A u \in Threads :
            Reading(u) /\ pos[u] + Capacity = p => Reading(u)' /\ pos'[u] = pos[u]
      BY <1>2, <1>6, <2>2
    <3> QED
      BY <3>2, <3>3 DEF IInv, Vacant
  <2> QED
    BY <2>1, <2>2
<1>13. Monotone'
  <2> SUFFICES ASSUME NEW p \in Nat
               PROVE  /\ p < tail => seq'[Slot(p)] >= p
                      /\ p < head => seq'[Slot(p)] >= p + 1
    BY <1>1 DEF Monotone
  <2>1. /\ seq'[Slot(p)] >= seq[Slot(p)]
        /\ seq'[Slot(p)] \in Nat /\ seq[Slot(p)] \in Nat
    BY <1>5, SlotType
  <2> QED
    BY <2>1 DEF IInv, Monotone
<1> QED
  BY <1>7, <1>8, <1>9, <1>10, <1>11, <1>12, <1>13 DEF IInv

LEMMA NextInv ==
  ASSUME Capacity >= 2, IInv, [Next]_vars
  PROVE  IInv'
<1>1. TypeOK'
  BY NextType DEF IInv
<1>2. ASSUME NEW t \in Threads, NEW v \in Values, PushBegin(t, v)
      PROVE  IInv'
  BY <1>1, <1>2, PushBeginInv
<1>3. ASSUME NEW t \in Threads, PopBegin(t)
      PROVE  IInv'
  BY <1>1, <1>3, PopBeginInv
<1>4. ASSUME NEW t \in Threads, PushStep(t)
      PROVE  IInv'
  BY <1>1, <1>4, PushLocalInv, PushClaimInv, PushWriteInv, PushPublishInv DEF PushStep
<1>5. ASSUME NEW t \in Threads, PopStep(t)
      PROVE  IInv'
  BY <1>1, <1>5, PopLocalInv, PopTakeInv, PopReadInv, PopFreeInv DEF PopStep
<1>6. CASE UNCHANGED vars
  <2>1. Bounds' /\ (\A t \in Threads : PushLocals(t)' /\ PopLocals(t)')
    BY <1>6 DEF vars, IInv, Bounds, PushLocals, PopLocals, Writing, Reading
  <2>2. Distinct' /\ Filled' /\ Vacant' /\ Monotone'
    BY <1>6 DEF vars, IInv, Distinct, Filled, Vacant, Monotone, Writing, Reading
  <2> QED
    BY <1>1, <2>1, <2>2 DEF IInv
<1> QED
  BY <1>2, <1>3, <1>4, <1>5, <1>6 DEF Next

-----------------------------------------------------------------------------
(* Theorems *)

\* Every variable keeps its type, at every capacity.
THEOREM TypeCorrect ==
  Spec => []TypeOK
  BY InitType, NextType, PTL DEF Spec

\* The inductive invariant of the ring holds in every reachable state.
THEOREM Invariant ==
  ASSUME Capacity >= 2
  PROVE  Spec => []IInv
  BY InitInv, NextInv, PTL DEF Spec

\* slot.data is accessed by one thread at a time: the plain store of try_push
\* and the plain load of try_pop never race, for any number of threads.
THEOREM SlotsAreExclusive ==
  ASSUME Capacity >= 2
  PROVE  Spec => []SlotExclusive
  BY Invariant, InvExclusive, PTL

\* A try_push or try_pop that returns false had a reason in the current ring, where the
\* slot.seq it loaded is the current one.
THEOREM FalseIsAlwaysJustified ==
  ASSUME Capacity >= 2
  PROVE  Spec => FalseIsJustified
<1> USE CapacityAssumption
<1>1. ASSUME IInv, NEW t \in Threads, PushFull(t)
      PROVE  /\ pos[t] = tail
             /\ \/ tail - head = Capacity
                \/ \E u \in Threads : Reading(u) /\ pos[u] = tail - Capacity
  <2>1. /\ pos[t] <= tail /\ seq[Slot(pos[t])] < pos[t]
        /\ pos[t] \in Nat /\ tail \in Nat /\ head \in Nat
        /\ seq[Slot(pos[t])] \in Nat
        /\ head <= tail /\ tail <= head + Capacity
    BY <1>1, SlotType DEF PushFull, IInv, PushLocals, TypeOK, Bounds
  <2>2. pos[t] = tail
    BY <1>1, <2>1 DEF IInv, Monotone
  <2>3. CASE tail = head + Capacity
    BY <2>1, <2>2, <2>3
  <2>4. CASE tail < head + Capacity
    <3>1. PICK u \in Threads : Reading(u) /\ pos[u] + Capacity = tail
      BY <1>1, <2>1, <2>2, <2>4 DEF IInv, Vacant
    <3>2. pos[u] = tail - Capacity
      BY <1>1, <2>1, <3>1 DEF IInv, TypeOK
    <3> QED
      BY <2>2, <3>1, <3>2
  <2> QED
    BY <2>1, <2>3, <2>4
<1>2. ASSUME IInv, NEW t \in Threads, PopEmpty(t)
      PROVE  /\ pos[t] = head
             /\ \/ tail = head
                \/ \E u \in Threads : Writing(u) /\ pos[u] = head
  <2>1. /\ pos[t] <= head /\ seq[Slot(pos[t])] < pos[t] + 1
        /\ pos[t] \in Nat /\ tail \in Nat /\ head \in Nat
        /\ seq[Slot(pos[t])] \in Nat
        /\ head <= tail
    BY <1>2, SlotType DEF PopEmpty, IInv, PopLocals, TypeOK, Bounds
  <2>2. pos[t] = head
    BY <1>2, <2>1 DEF IInv, Monotone
  <2>3. CASE tail = head
    BY <2>2, <2>3
  <2>4. CASE head < tail
    BY <1>2, <2>1, <2>2, <2>4 DEF IInv, Filled
  <2> QED
    BY <2>1, <2>3, <2>4
<1> DEFINE Justified ==
      \A t \in Threads :
       /\ PushFull(t) =>
            /\ pos[t] = tail
            /\ \/ tail - head = Capacity
               \/ \E u \in Threads : Reading(u) /\ pos[u] = tail - Capacity
       /\ PopEmpty(t) =>
            /\ pos[t] = head
            /\ \/ tail = head
               \/ \E u \in Threads : Writing(u) /\ pos[u] = head
<1>3. IInv /\ [Next]_vars => [Justified]_vars
  BY <1>1, <1>2
<1> QED
  BY <1>3, Invariant, PTL DEF Spec, FalseIsJustified

-----------------------------------------------------------------------------
(* The ring implements the FIFO queue *)

\* What a thread holds changes only when it acts, because nobody else writes
\* the slot it owns.
LEMMA HeldStable ==
  ASSUME TypeOK, SlotExclusive, NEW t \in Threads, NEW u \in Threads, u # t,
         pc'[u] = pc[u], pos'[u] = pos[u], item'[u] = item[u],
         \/ UNCHANGED data
         \/ Writing(t) /\ data' = [data EXCEPT ![Slot(pos[t])] = item[t]]
  PROVE  Held(u)' = Held(u)
<1>1. pos[u] \in Nat /\ Slot(pos[u]) \in Slots
  BY SlotType DEF TypeOK
<1>2. Reading(u) => data'[Slot(pos[u])] = data[Slot(pos[u])]
  BY <1>1 DEF SlotExclusive, TypeOK
<1>3. pc[u] = "read" => data'[Slot(pos[u])] = data[Slot(pos[u])]
  BY <1>2 DEF Reading
<1> QED
  BY <1>3 DEF Held

\* What the invariant says of the value a thread in try_pop holds.
LEMMA HeldIs ==
  ASSUME IInv, NEW t \in Threads, Reading(t)
  PROVE  Held(t) = log[pos[t] + 1] /\ Held(t) \in Values
<1>1. Held(t) = log[pos[t] + 1]
  BY DEF IInv, PopLocals, Reading, Held
<1>2. pos[t] + 1 \in 1 .. Len(log) /\ log \in Seq(Values)
  BY DEF IInv, PopLocals, Bounds, TypeOK
<1> QED
  BY <1>1, <1>2

\* A step of the ring is a step of the FIFO queue or leaves it unchanged.
LEMMA StepImplements ==
  ASSUME Capacity >= 2, IInv, IInv', [Next]_vars
  PROVE  [FIFO!Next]_(FIFO!fvars)
<1> USE CapacityAssumption
<1> DEFINE held == [u \in Threads |-> Held(u)]
<1>0. TypeOK /\ SlotExclusive
  BY InvExclusive DEF IInv
<1>1. ASSUME UNCHANGED <<log, head>>, \A u \in Threads : Held(u)' = Held(u)
      PROVE  UNCHANGED FIFO!fvars
  BY <1>1 DEF FIFO!fvars
<1>2. ASSUME NEW t \in Threads, UNCHANGED <<log, head, data>>,
             pc[t] \in PcValues \ {"read", "free"},
             pc'[t] \in PcValues \ {"read", "free"},
             \A u \in Threads \ {t} :
               pc'[u] = pc[u] /\ pos'[u] = pos[u] /\ item'[u] = item[u]
      PROVE  UNCHANGED FIFO!fvars
  <2>1. Held(t) = None /\ Held(t)' = None
    BY <1>2 DEF Held, PcValues
  <2>2. \A u \in Threads : Held(u)' = Held(u)
    BY <1>0, <1>2, <2>1, HeldStable
  <2> QED
    BY <1>1, <1>2, <2>2
<1>3. ASSUME NEW t \in Threads, NEW v \in Values, PushBegin(t, v)
      PROVE  UNCHANGED FIFO!fvars
  BY <1>0, <1>2, <1>3 DEF PushBegin, LoadTail, Goto, TypeOK, PcValues
<1>4. ASSUME NEW t \in Threads, PopBegin(t)
      PROVE  UNCHANGED FIFO!fvars
  BY <1>0, <1>2, <1>4 DEF PopBegin, LoadHead, Goto, TypeOK, PcValues
<1>5. ASSUME NEW t \in Threads,
             \/ PushReady(t) \/ PushFull(t) \/ PushReload(t)
             \/ PushClaimFails(t) \/ PushPublish(t)
      PROVE  UNCHANGED FIFO!fvars
  BY <1>0, <1>2, <1>5
     DEF PushReady, PushFull, PushReload, PushClaimFails, PushPublish,
         LoadTail, Return, Goto, TypeOK, PcValues
<1>6. ASSUME NEW t \in Threads,
             PopReady(t) \/ PopEmpty(t) \/ PopReload(t) \/ PopTakeFails(t)
      PROVE  UNCHANGED FIFO!fvars
  BY <1>0, <1>2, <1>6
     DEF PopReady, PopEmpty, PopReload, PopTakeFails,
         LoadHead, Return, Goto, TypeOK, PcValues
<1>7. ASSUME NEW t \in Threads, PushClaim(t)
      PROVE  FIFO!Push(item[t])
  <2>1. tail < head + Capacity /\ Len(log) = tail /\ head \in Nat /\ tail \in Nat
    BY <1>7, ClaimIsReady DEF IInv, Bounds, TypeOK
  <2>2. /\ UNCHANGED <<head, data, pos, item>> /\ log' = Append(log, item[t])
        /\ pc[t] = "claim" /\ pc' = [pc EXCEPT ![t] = "write"]
    BY <1>7 DEF PushClaim, Goto
  <2>3. Held(t)' = Held(t)
    BY <1>0, <2>2 DEF Held, TypeOK
  <2>4. \A u \in Threads : Held(u)' = Held(u)
    BY <1>0, <2>2, <2>3, HeldStable DEF TypeOK
  <2> QED
    BY <2>1, <2>2, <2>4 DEF FIFO!Push
<1>8. ASSUME NEW t \in Threads, PushWrite(t)
      PROVE  UNCHANGED FIFO!fvars
  <2>1. /\ Writing(t) /\ data' = [data EXCEPT ![Slot(pos[t])] = item[t]]
        /\ pc[t] = "write" /\ pc' = [pc EXCEPT ![t] = "publish"]
        /\ UNCHANGED <<log, head, pos, item>>
    BY <1>8 DEF PushWrite, Writing, Goto
  <2>2. Held(t)' = Held(t)
    BY <1>0, <2>1 DEF Held, TypeOK
  <2>3. \A u \in Threads : Held(u)' = Held(u)
    BY <1>0, <2>1, <2>2, HeldStable DEF TypeOK
  <2> QED
    BY <1>1, <2>1, <2>3
<1>9. ASSUME NEW t \in Threads, PopTake(t)
      PROVE  FIFO!Pop(t)
  <2>1. /\ pc[t] = "take" /\ pc' = [pc EXCEPT ![t] = "read"]
        /\ head = pos[t] /\ head' = head + 1
        /\ UNCHANGED <<data, pos, item, log>>
    BY <1>9 DEF PopTake, Goto
  <2>2. Reading(t)' /\ Held(t) = None
    BY <1>0, <2>1 DEF Reading, Held, TypeOK
  <2>3. Held(t)' = log[head + 1]
    <3>1. Held(t)' = (log[pos[t] + 1])'
      BY <2>2 DEF IInv, PopLocals, Reading, Held
    <3> QED
      BY <2>1, <3>1
  <2>4. head < Len(log)
    <3>1. head' <= tail' /\ tail' = tail /\ Len(log) = tail /\ head \in Nat /\ tail \in Nat
      BY <1>9 DEF PopTake, IInv, Bounds, TypeOK
    <3> QED
      BY <2>1, <3>1
  <2>5. \A u \in Threads : u # t => Held(u)' = Held(u)
    BY <1>0, <2>1, HeldStable DEF TypeOK
  <2>6. held' = [held EXCEPT ![t] = log[head + 1]]
    BY <2>3, <2>5
  <2> QED
    BY <2>1, <2>2, <2>4, <2>6 DEF FIFO!Pop
<1>10. ASSUME NEW t \in Threads, PopRead(t)
       PROVE  UNCHANGED FIFO!fvars
  <2>1. /\ pc[t] = "read" /\ pc' = [pc EXCEPT ![t] = "free"]
        /\ item' = [item EXCEPT ![t] = data[Slot(pos[t])]]
        /\ UNCHANGED <<log, head, data, pos>>
    BY <1>10 DEF PopRead, Goto
  <2>2. Held(t)' = Held(t)
    BY <1>0, <2>1 DEF Held, TypeOK
  <2>3. \A u \in Threads : Held(u)' = Held(u)
    BY <1>0, <2>1, <2>2, HeldStable DEF TypeOK
  <2> QED
    BY <1>1, <2>1, <2>3
<1>11. ASSUME NEW t \in Threads, PopFree(t)
       PROVE  FIFO!Return(t)
  <2>1. /\ pc[t] = "free" /\ pc' = [pc EXCEPT ![t] = "idle"]
        /\ pos' = [pos EXCEPT ![t] = 0] /\ item' = [item EXCEPT ![t] = None]
        /\ UNCHANGED <<log, head, data>>
    BY <1>11 DEF PopFree, Return, Goto
  <2>2. Held(t) # None
    BY <2>1, HeldIs, NoneAssumption DEF Reading
  <2>3. Held(t)' = None
    BY <1>0, <2>1 DEF Held, TypeOK
  <2>4. \A u \in Threads : u # t => Held(u)' = Held(u)
    BY <1>0, <2>1, HeldStable DEF TypeOK
  <2>5. held' = [held EXCEPT ![t] = None]
    BY <2>3, <2>4
  <2> QED
    BY <2>1, <2>2, <2>5 DEF FIFO!Return
<1>12. ASSUME NEW t \in Threads, PushStep(t)
       PROVE  [FIFO!Next]_(FIFO!fvars)
  <2>1. PushClaim(t) => item[t] \in Values
    BY <1>0 DEF PushClaim, TypeOK
  <2> QED
    BY <1>5, <1>7, <1>8, <1>12, <2>1 DEF PushStep, FIFO!Next
<1>13. ASSUME NEW t \in Threads, PopStep(t)
       PROVE  [FIFO!Next]_(FIFO!fvars)
  BY <1>6, <1>9, <1>10, <1>11, <1>13 DEF PopStep, FIFO!Next
<1>14. CASE UNCHANGED vars
  BY <1>1, <1>14 DEF vars, Held
<1> QED
  BY <1>3, <1>4, <1>12, <1>13, <1>14 DEF Next

\* Linearizability: for any number of threads and any capacity of at least 2
\* the ring implements the bounded FIFO queue.
THEOREM RingImplementsFifo ==
  ASSUME Capacity >= 2
  PROVE  Spec => ImplementsFifo
<1>1. Init => FIFO!Init
  BY DEF Init, FIFO!Init, Held
<1>2. IInv /\ IInv' /\ [Next]_vars => [FIFO!Next]_(FIFO!fvars)
  BY StepImplements
<1> QED
  BY <1>1, <1>2, Invariant, PTL DEF Spec, ImplementsFifo, FIFO!Spec

-----------------------------------------------------------------------------
(* The ring is what the modules built on Ring take it for *)

RingEntries == [item : [at : Nat, value : Values], ready : BOOLEAN]

ClaimOf(t) == IF Writing(t) THEN {[at |-> pos[t], value |-> item[t]]} ELSE {}
TakenBy(t) == IF Reading(t) THEN {[at |-> pos[t], value |-> Held(t)]} ELSE {}

\* The entries of the ring are a sequence, the oldest position first.
EntriesOk ==
  /\ entries \in Seq(RingEntries)
  /\ Len(entries) = tail - head
  /\ DOMAIN entries = 1 .. tail - head
  /\ \A k \in 1 .. tail - head : entries[k] = Entry(head + k - 1)

LEMMA EntriesAre ==
  IInv => EntriesOk
<1> SUFFICES ASSUME IInv
             PROVE  EntriesOk
  OBVIOUS
<1>1. /\ head \in Nat /\ tail \in Nat /\ tail - head \in Nat
      /\ log \in Seq(Values) /\ Len(log) = tail
  BY DEF IInv, TypeOK, Bounds
<1>2. ASSUME NEW k \in 1 .. tail - head
      PROVE  Entry(head + k - 1) \in RingEntries
  <2>1. head + k - 1 \in Nat /\ head + k - 1 + 1 \in 1 .. Len(log)
    BY <1>1
  <2>2. log[head + k - 1 + 1] \in Values
    BY <1>1, <2>1, ElementOfSeq
  <2>3. [at |-> head + k - 1, value |-> log[head + k - 1 + 1]] \in [at : Nat, value : Values]
    BY <2>1, <2>2
  <2> QED
    BY <2>3 DEF Entry, RingEntries
<1>3. entries \in [1 .. tail - head -> RingEntries]
  BY <1>2 DEF entries
<1>4. entries \in Seq(RingEntries)
  BY <1>1, <1>3, SeqDef
<1>5. DOMAIN entries = 1 .. tail - head
  BY <1>3
<1>6. Len(entries) = tail - head
  BY <1>1, <1>4, <1>5, LenProperties
<1>7. \A k \in 1 .. tail - head : entries[k] = Entry(head + k - 1)
  BY DEF entries
<1> QED
  BY <1>4, <1>5, <1>6, <1>7 DEF EntriesOk

LEMMA NextEntriesAre ==
  IInv' => EntriesOk'
  BY EntriesAre, PTL

\* The entry of the position p in the next state.
LEMMA NextEntry ==
  ASSUME NEW p, NEW k, k \in 1 .. tail' - head', p = head' + k - 1
  PROVE  entries'[k] = [item |-> [at |-> p, value |-> log'[p + 1]],
                        ready |-> seq'[Slot(p)] = p + 1]
  BY DEF entries, Entry

\* The ring stays as it is when no counter and none of its entries changes.
LEMMA EntriesStay ==
  ASSUME TypeOK, UNCHANGED <<head, tail>>,
         \A p \in Nat : head <= p /\ p < tail => Entry(p)' = Entry(p)
  PROVE  entries' = entries
<1>1. ASSUME NEW k \in 1 .. tail - head
      PROVE  Entry(head + k - 1)' = Entry(head + k - 1)
  <2>1. head + k - 1 \in Nat /\ head <= head + k - 1 /\ head + k - 1 < tail
    BY DEF TypeOK
  <2>2. PICK p \in Nat : p = head + k - 1
    BY <2>1
  <2>3. Entry(p)' = Entry(p)
    BY <2>1, <2>2
  <2>4. head' + k - 1 = p
    BY <2>2
  <2> QED
    BY <2>2, <2>3, <2>4 DEF Entry
<1> QED
  BY <1>1 DEF entries

\* A step of t changes what t has claimed and taken and nobody else's.
LEMMA OthersStay ==
  ASSUME TypeOK, SlotExclusive, NEW t \in Threads, NEW u \in Threads, u # t,
         pc'[u] = pc[u], pos'[u] = pos[u], item'[u] = item[u],
         \/ UNCHANGED data
         \/ Writing(t) /\ data' = [data EXCEPT ![Slot(pos[t])] = item[t]]
  PROVE  ClaimOf(u)' = ClaimOf(u) /\ TakenBy(u)' = TakenBy(u)
<1>1. Held(u)' = Held(u)
  BY HeldStable
<1>2. (Writing(u)' <=> Writing(u)) /\ (Reading(u)' <=> Reading(u))
  BY DEF Writing, Reading
<1> QED
  BY <1>1, <1>2 DEF ClaimOf, TakenBy

\* claimed and taken change for t only.
LEMMA OnlyOne ==
  ASSUME TypeOK, SlotExclusive, NEW t \in Threads,
         \A u \in Threads \ {t} :
           pc'[u] = pc[u] /\ pos'[u] = pos[u] /\ item'[u] = item[u],
         \/ UNCHANGED data
         \/ Writing(t) /\ data' = [data EXCEPT ![Slot(pos[t])] = item[t]]
  PROVE  /\ claimed' = [claimed EXCEPT ![t] = ClaimOf(t)']
         /\ taken' = [taken EXCEPT ![t] = TakenBy(t)']
<1>1. \A u \in Threads : u # t => ClaimOf(u)' = ClaimOf(u) /\ TakenBy(u)' = TakenBy(u)
  BY OthersStay
<1>2. /\ claimed = [u \in Threads |-> ClaimOf(u)]
      /\ claimed' = [u \in Threads |-> ClaimOf(u)']
  BY DEF claimed, ClaimOf
<1>3. /\ taken = [u \in Threads |-> TakenBy(u)]
      /\ taken' = [u \in Threads |-> TakenBy(u)']
  BY DEF taken, TakenBy
<1> QED
  BY <1>1, <1>2, <1>3

\* A step that is not seen from outside.
LEMMA RingStutter ==
  ASSUME TypeOK, SlotExclusive, NEW t \in Threads,
         UNCHANGED <<head, tail, seq, log>>,
         \A u \in Threads \ {t} :
           pc'[u] = pc[u] /\ pos'[u] = pos[u] /\ item'[u] = item[u],
         \/ UNCHANGED data
         \/ Writing(t) /\ data' = [data EXCEPT ![Slot(pos[t])] = item[t]],
         ClaimOf(t)' = ClaimOf(t), TakenBy(t)' = TakenBy(t)
  PROVE  UNCHANGED Clients!rvars
<1>1. entries' = entries
  BY EntriesStay DEF Entry
<1>2. /\ claimed' = [claimed EXCEPT ![t] = ClaimOf(t)]
      /\ taken' = [taken EXCEPT ![t] = TakenBy(t)]
  BY OnlyOne
<1>3. claimed[t] = ClaimOf(t) /\ taken[t] = TakenBy(t)
  BY DEF claimed, taken, ClaimOf, TakenBy
<1>4. claimed' = claimed /\ taken' = taken
  BY <1>2, <1>3 DEF claimed, taken
<1> QED
  BY <1>1, <1>4 DEF Clients!rvars

\* What a thread outside its critical accesses does.
LEMMA SearchStutters ==
  ASSUME TypeOK, SlotExclusive, NEW t \in Threads,
         UNCHANGED <<head, tail, seq, log, data>>,
         \A u \in Threads \ {t} :
           pc'[u] = pc[u] /\ pos'[u] = pos[u] /\ item'[u] = item[u],
         ~Writing(t), ~Reading(t), ~Writing(t)', ~Reading(t)'
  PROVE  UNCHANGED Clients!rvars
<1>1. ClaimOf(t)' = ClaimOf(t) /\ TakenBy(t)' = TakenBy(t)
  BY DEF ClaimOf, TakenBy
<1> QED
  BY <1>1, RingStutter

LEMMA PushSearchStutters ==
  ASSUME TypeOK, SlotExclusive, NEW t \in Threads,
         \/ \E v \in Values : PushBegin(t, v)
         \/ PushReady(t) \/ PushFull(t) \/ PushReload(t) \/ PushClaimFails(t)
  PROVE  UNCHANGED Clients!rvars
<1>1. /\ UNCHANGED <<head, tail, seq, log, data>>
      /\ \A u \in Threads \ {t} :
           pc'[u] = pc[u] /\ pos'[u] = pos[u] /\ item'[u] = item[u]
  BY DEF PushBegin, PushReady, PushFull, PushReload, PushClaimFails, LoadTail, Return, Goto, TypeOK
<1>2. pc[t] \in {"idle", "push", "claim"} /\ pc'[t] \in {"idle", "push", "claim"}
  BY DEF PushBegin, PushReady, PushFull, PushReload, PushClaimFails, LoadTail, Return, Goto, TypeOK
<1>3. ~Writing(t) /\ ~Reading(t) /\ ~Writing(t)' /\ ~Reading(t)'
  BY <1>2 DEF Writing, Reading
<1> QED
  BY <1>1, <1>3, SearchStutters

LEMMA PopSearchStutters ==
  ASSUME TypeOK, SlotExclusive, NEW t \in Threads,
         PopBegin(t) \/ PopReady(t) \/ PopEmpty(t) \/ PopReload(t) \/ PopTakeFails(t)
  PROVE  UNCHANGED Clients!rvars
<1>1. /\ UNCHANGED <<head, tail, seq, log, data>>
      /\ \A u \in Threads \ {t} :
           pc'[u] = pc[u] /\ pos'[u] = pos[u] /\ item'[u] = item[u]
  BY DEF PopBegin, PopReady, PopEmpty, PopReload, PopTakeFails, LoadHead, Return, Goto, TypeOK
<1>2. pc[t] \in {"idle", "pop", "take"} /\ pc'[t] \in {"idle", "pop", "take"}
  BY DEF PopBegin, PopReady, PopEmpty, PopReload, PopTakeFails, LoadHead, Return, Goto, TypeOK
<1>3. ~Writing(t) /\ ~Reading(t) /\ ~Writing(t)' /\ ~Reading(t)'
  BY <1>2 DEF Writing, Reading
<1> QED
  BY <1>1, <1>3, SearchStutters

\* The compare_exchange of m_tail claims a position: its slot is free, and no
\* thread still reads the value it held.
LEMMA ClaimClaims ==
  ASSUME Capacity >= 2, IInv, IInv', NEW t \in Threads, PushClaim(t)
  PROVE  Clients!ClaimPosition(t, item[t])
<1> USE CapacityAssumption
<1> DEFINE new == [at |-> tail, value |-> item[t]]
<1>0. TypeOK /\ SlotExclusive /\ EntriesOk /\ EntriesOk'
  BY InvExclusive, EntriesAre, NextEntriesAre DEF IInv
<1>1. /\ pc[t] = "claim" /\ pc' = [pc EXCEPT ![t] = "write"]
      /\ tail = pos[t] /\ tail' = tail + 1
      /\ log' = Append(log, item[t])
      /\ UNCHANGED <<seq, data, head, pos, item>>
      /\ item[t] \in Values
  BY <1>0 DEF PushClaim, Goto, TypeOK
<1>2. /\ head \in Nat /\ tail \in Nat /\ head <= tail /\ tail < head + Capacity
      /\ log \in Seq(Values) /\ Len(log) = tail
      /\ seq[Slot(tail)] = tail
  BY ClaimIsReady DEF IInv, TypeOK, Bounds
<1>3. ASSUME NEW u \in Threads, Reading(u), pos[u] + Capacity = tail
      PROVE  FALSE
  <2>1. seq[Slot(pos[u])] = pos[u] + 1 /\ pos[u] \in Nat
    BY <1>3 DEF IInv, PopLocals, TypeOK
  <2>2. Slot(tail) = Slot(pos[u])
    BY <1>3, <2>1, NextRound
  <2> QED
    BY <1>2, <1>3, <2>1, <2>2
<1>4. Clients!Room
  <2>1. Len(entries) < Capacity
    BY <1>0, <1>2 DEF EntriesOk
  <2>2. ASSUME NEW u \in Threads, NEW e \in taken[u]
        PROVE  tail # e.at + Capacity
    <3>1. Reading(u) /\ e = [at |-> pos[u], value |-> Held(u)]
      BY <2>2 DEF taken
    <3> QED
      BY <1>3, <3>1
  <2> QED
    BY <2>1, <2>2 DEF Clients!Room
<1>5. claimed[t] = {}
  BY <1>1 DEF claimed, Writing
<1>6. entries' = Append(entries, [item |-> new, ready |-> FALSE])
  <2> DEFINE last == [item |-> new, ready |-> FALSE]
  <2>1. /\ entries \in Seq(RingEntries) /\ Len(entries) = tail - head
        /\ entries' \in Seq(RingEntries) /\ Len(entries') = tail - head + 1
    BY <1>0, <1>1, <1>2 DEF EntriesOk
  <2>2. last \in RingEntries
    BY <1>1, <1>2 DEF RingEntries
  <2>3. /\ Append(entries, last) \in Seq(RingEntries)
        /\ Len(Append(entries, last)) = tail - head + 1
        /\ \A k \in 1 .. tail - head : Append(entries, last)[k] = entries[k]
        /\ Append(entries, last)[tail - head + 1] = last
    BY <2>1, <2>2, AppendLemma
  <2>4. ASSUME NEW k \in 1 .. tail - head
        PROVE  entries'[k] = entries[k]
    <3>1. PICK p \in Nat : p = head + k - 1 /\ p < tail
      BY <1>2
    <3>2. log'[p + 1] = log[p + 1]
      <4>1. p + 1 \in 1 .. Len(log)
        BY <1>2, <3>1
      <4> QED
        BY <1>1, <1>2, <4>1, AppendLemma
    <3>3. entries'[k] = [item |-> [at |-> p, value |-> log'[p + 1]],
                         ready |-> seq[Slot(p)] = p + 1]
      <4>1. p = head' + k - 1 /\ k \in 1 .. tail' - head'
        BY <1>1, <1>2, <3>1
      <4>2. entries'[k] = [item |-> [at |-> p, value |-> log'[p + 1]],
                           ready |-> seq'[Slot(p)] = p + 1]
        BY <4>1, NextEntry
      <4> QED
        BY <1>1, <4>2
    <3>4. entries[k] = [item |-> [at |-> p, value |-> log[p + 1]],
                        ready |-> seq[Slot(p)] = p + 1]
      BY <1>0, <1>2, <3>1 DEF EntriesOk, Entry
    <3> QED
      BY <3>2, <3>3, <3>4
  <2>5. entries'[tail - head + 1] = last
    <3>1. log'[tail + 1] = item[t]
      BY <1>1, <1>2, AppendLemma
    <3>2. entries'[tail - head + 1] = [item |-> [at |-> tail, value |-> log'[tail + 1]],
                                       ready |-> seq[Slot(tail)] = tail + 1]
      <4>1. tail - head + 1 \in 1 .. tail' - head'
        BY <1>1, <1>2
      <4>2. tail = head' + (tail - head + 1) - 1
        BY <1>1, <1>2
      <4>3. entries'[tail - head + 1] = [item |-> [at |-> tail, value |-> log'[tail + 1]],
                                         ready |-> seq'[Slot(tail)] = tail + 1]
        BY <4>1, <4>2, NextEntry
      <4> QED
        BY <1>1, <4>3
    <3>3. (seq[Slot(tail)] = tail + 1) = FALSE
      BY <1>2
    <3> QED
      BY <3>1, <3>2, <3>3
  <2>6. \A k \in 1 .. Len(entries') : entries'[k] = Append(entries, last)[k]
    BY <1>2, <2>1, <2>3, <2>4, <2>5
  <2> QED
    BY <2>1, <2>3, <2>6, SeqEqual
<1>7. ClaimOf(t)' = {new} /\ TakenBy(t)' = TakenBy(t) /\ TakenBy(t) = {}
  <2>1. pc'[t] = "write" /\ pos'[t] = tail /\ item'[t] = item[t]
    BY <1>0, <1>1 DEF TypeOK
  <2> QED
    BY <1>1, <2>1 DEF ClaimOf, TakenBy, Writing, Reading
<1>8. \A u \in Threads \ {t} : pc'[u] = pc[u] /\ pos'[u] = pos[u] /\ item'[u] = item[u]
  BY <1>0, <1>1 DEF TypeOK
<1>9. /\ claimed' = [claimed EXCEPT ![t] = {new}]
      /\ taken' = [taken EXCEPT ![t] = TakenBy(t)]
  BY <1>0, <1>1, <1>7, <1>8, OnlyOne
<1>10. taken' = taken
  BY <1>9 DEF taken, TakenBy
<1> QED
  BY <1>1, <1>4, <1>5, <1>6, <1>9, <1>10 DEF Clients!ClaimPosition, Clients!Claim

\* The store of the slot's sequence number publishes the entry that the thread
\* claimed and no other.
LEMMA PublishPublishes ==
  ASSUME IInv, IInv', NEW t \in Threads, PushPublish(t)
  PROVE  Clients!PublishEntry(t)
<1> USE CapacityAssumption
<1> DEFINE mine == [at |-> pos[t], value |-> item[t]]
<1>0. TypeOK /\ SlotExclusive /\ EntriesOk /\ EntriesOk' /\ Bounds
  BY InvExclusive, EntriesAre, NextEntriesAre DEF IInv
<1>1. /\ pc[t] = "publish" /\ pc' = [pc EXCEPT ![t] = "idle"]
      /\ pos' = [pos EXCEPT ![t] = 0] /\ item' = [item EXCEPT ![t] = None]
      /\ seq' = [seq EXCEPT ![Slot(pos[t])] = pos[t] + 1]
      /\ UNCHANGED <<data, head, tail, log>>
  BY DEF PushPublish, Return, Goto
<1>2. /\ head \in Nat /\ tail \in Nat /\ tail <= head + Capacity
      /\ pos[t] \in Nat /\ Slot(pos[t]) \in Slots
      /\ head <= pos[t] /\ pos[t] < tail
      /\ item[t] = log[pos[t] + 1]
  BY <1>0, <1>1, SlotType DEF IInv, PushLocals, Writing, TypeOK, Bounds
<1>3. claimed[t] = {mine}
  BY <1>1 DEF claimed, Writing
<1>4. ASSUME NEW k \in 1 .. tail - head
      PROVE  entries'[k] = IF entries[k].item = mine THEN [item |-> mine, ready |-> TRUE]
                                                     ELSE entries[k]
  <2>1. PICK p \in Nat : p = head + k - 1 /\ head <= p /\ p < tail
    BY <1>2
  <2>2. entries'[k] = [item |-> [at |-> p, value |-> log[p + 1]],
                       ready |-> seq'[Slot(p)] = p + 1]
    BY <1>0, <1>1, <1>2, <2>1 DEF EntriesOk, Entry
  <2>3. entries[k] = [item |-> [at |-> p, value |-> log[p + 1]],
                      ready |-> seq[Slot(p)] = p + 1]
    BY <1>0, <1>2, <2>1 DEF EntriesOk, Entry
  <2>4. CASE p = pos[t]
    <3>1. seq'[Slot(p)] = p + 1
      BY <1>0, <1>1, <1>2, <2>4 DEF TypeOK
    <3>2. (seq'[Slot(p)] = p + 1) = TRUE
      BY <3>1
    <3>3. entries[k].item = mine
      BY <1>2, <2>3, <2>4
    <3>4. entries'[k] = [item |-> mine, ready |-> TRUE]
      BY <1>2, <2>2, <2>4, <3>2
    <3> QED
      BY <3>3, <3>4
  <2>5. CASE p # pos[t]
    <3>1. Slot(p) # Slot(pos[t])
      BY <1>2, <2>1, <2>5, NearSlots
    <3>2. seq'[Slot(p)] = seq[Slot(p)]
      BY <1>0, <1>1, <1>2, <3>1, SlotType DEF TypeOK
    <3>3. entries[k].item.at = p
      BY <2>3
    <3>4. entries[k].item # mine
      BY <2>5, <3>3
    <3> QED
      BY <2>2, <2>3, <3>2, <3>4
  <2> QED
    BY <2>4, <2>5
<1>5. entries' = Clients!Publish(entries, mine)
  <2>1. DOMAIN entries = 1 .. tail - head /\ entries' = [k \in 1 .. tail - head |-> entries'[k]]
    BY <1>0, <1>1 DEF EntriesOk, entries
  <2> QED
    BY <1>4, <2>1 DEF Clients!Publish
<1>6. ClaimOf(t)' = {} /\ TakenBy(t)' = TakenBy(t)
  <2>1. pc'[t] = "idle"
    BY <1>0, <1>1 DEF TypeOK
  <2> QED
    BY <1>1, <2>1 DEF ClaimOf, TakenBy, Writing, Reading
<1>7. \A u \in Threads \ {t} : pc'[u] = pc[u] /\ pos'[u] = pos[u] /\ item'[u] = item[u]
  BY <1>0, <1>1 DEF TypeOK
<1>8. /\ claimed' = [claimed EXCEPT ![t] = {}]
      /\ taken' = [taken EXCEPT ![t] = TakenBy(t)]
  BY <1>0, <1>1, <1>6, <1>7, OnlyOne
<1>9. taken' = taken
  BY <1>8 DEF taken, TakenBy
<1> QED
  BY <1>1, <1>3, <1>5, <1>8, <1>9 DEF Clients!PublishEntry

\* The compare_exchange of m_head takes the oldest position, which is published.
LEMMA TakeTakes ==
  ASSUME IInv, IInv', NEW t \in Threads, PopTake(t)
  PROVE  Clients!TakeOldest(t)
<1> USE CapacityAssumption
<1> DEFINE oldest == [at |-> head, value |-> log[head + 1]]
<1>0. TypeOK /\ SlotExclusive /\ EntriesOk /\ EntriesOk'
  BY InvExclusive, EntriesAre, NextEntriesAre DEF IInv
<1>1. /\ pc[t] = "take" /\ pc' = [pc EXCEPT ![t] = "read"]
      /\ head = pos[t] /\ head' = head + 1
      /\ UNCHANGED <<seq, data, tail, pos, item, log>>
  BY DEF PopTake, Goto
<1>2. /\ head \in Nat /\ tail \in Nat /\ head < tail
      /\ seq[Slot(head)] = head + 1 /\ data[Slot(head)] = log[head + 1]
  BY TakeIsReady DEF IInv, TypeOK
<1>3. entries[1] = [item |-> oldest, ready |-> TRUE] /\ Len(entries) = tail - head
  <2>1. 1 \in 1 .. tail - head /\ head + 1 - 1 = head
    BY <1>2
  <2>2. entries[1] = Entry(head)
    BY <1>0, <2>1 DEF EntriesOk
  <2>3. (seq[Slot(head)] = head + 1) = TRUE
    BY <1>2
  <2> QED
    BY <1>0, <2>2, <2>3 DEF Entry, EntriesOk
<1>4. entries \in Seq(RingEntries) /\ entries # << >>
  BY <1>0, <1>2, <1>3, EmptySeq DEF EntriesOk
<1>5. Clients!Poppable(entries) /\ Head(entries).item = oldest
  BY <1>3, <1>4 DEF Clients!Poppable
<1>6. entries' = Tail(entries)
  <2>1. /\ Tail(entries) \in Seq(RingEntries) /\ Len(Tail(entries)) = tail - head - 1
        /\ \A k \in 1 .. Len(Tail(entries)) : Tail(entries)[k] = entries[k + 1]
    BY <1>3, <1>4, HeadTailProperties
  <2>2. entries' \in Seq(RingEntries) /\ Len(entries') = tail - head - 1
    BY <1>0, <1>1, <1>2 DEF EntriesOk
  <2>3. ASSUME NEW k \in 1 .. Len(entries')
        PROVE  entries'[k] = Tail(entries)[k]
    <3>1. PICK p \in Nat : p = head + k
      BY <1>2
    <3> HIDE DEF oldest
    <3>2. entries'[k] = [item |-> [at |-> p, value |-> log'[p + 1]],
                         ready |-> seq'[Slot(p)] = p + 1]
      <4>1. k \in Int /\ p = (head + 1) + k - 1
        BY <1>2, <2>2, <3>1
      <4>2. tail - (head + 1) = tail - head - 1
        BY <1>2
      <4>3. head' = head + 1 /\ tail' = tail
        BY <1>1
      <4>4. p = head' + k - 1 /\ k \in 1 .. tail' - head'
        BY <2>2, <4>1, <4>2, <4>3
      <4> QED
        BY <4>4, NextEntry
    <3>3. entries[k + 1] = Entry(p)
      <4>1. k + 1 \in 1 .. tail - head /\ head + (k + 1) - 1 = p
        BY <1>2, <2>2, <3>1
      <4> QED
        BY <1>0, <4>1 DEF EntriesOk
    <3>4. Tail(entries)[k] = entries[k + 1]
      BY <2>1, <2>2
    <3> QED
      BY <1>1, <3>2, <3>3, <3>4 DEF Entry
  <2> QED
    BY <2>1, <2>2, <2>3, SeqEqual
<1>7. taken[t] = {}
  BY <1>1 DEF taken, Reading
<1>8. ClaimOf(t)' = ClaimOf(t) /\ TakenBy(t)' = {oldest}
  <2>1. pc'[t] = "read" /\ pos'[t] = head
    BY <1>0, <1>1 DEF TypeOK
  <2>2. Held(t)' = log[head + 1]
    BY <1>1, <1>2, <2>1 DEF Held
  <2> QED
    BY <1>1, <2>1, <2>2 DEF ClaimOf, TakenBy, Writing, Reading
<1>9. \A u \in Threads \ {t} : pc'[u] = pc[u] /\ pos'[u] = pos[u] /\ item'[u] = item[u]
  BY <1>0, <1>1 DEF TypeOK
<1>10. /\ claimed' = [claimed EXCEPT ![t] = ClaimOf(t)]
       /\ taken' = [taken EXCEPT ![t] = {oldest}]
  BY <1>0, <1>1, <1>8, <1>9, OnlyOne
<1>11. claimed' = claimed
  BY <1>10 DEF claimed, ClaimOf
<1> QED
  BY <1>1, <1>5, <1>6, <1>7, <1>10, <1>11 DEF Clients!TakeOldest

\* The store that frees the slot for the next round touches no entry of the ring.
LEMMA FreeFrees ==
  ASSUME IInv, NEW t \in Threads, PopFree(t)
  PROVE  Clients!FreeSlot(t)
<1> USE CapacityAssumption
<1>0. TypeOK /\ SlotExclusive /\ Bounds
  BY InvExclusive DEF IInv
<1>1. /\ pc[t] = "free" /\ pc' = [pc EXCEPT ![t] = "idle"]
      /\ pos' = [pos EXCEPT ![t] = 0] /\ item' = [item EXCEPT ![t] = None]
      /\ seq' = [seq EXCEPT ![Slot(pos[t])] = pos[t] + Capacity]
      /\ UNCHANGED <<data, head, tail, log>>
  BY DEF PopFree, Return, Goto
<1>2. /\ head \in Nat /\ tail \in Nat /\ pos[t] \in Nat /\ Slot(pos[t]) \in Slots
      /\ pos[t] < head /\ tail <= pos[t] + Capacity
  BY <1>0, <1>1, SlotType DEF IInv, PopLocals, Reading, TypeOK
<1>3. entries' = entries
  <2>1. ASSUME NEW p \in Nat, head <= p, p < tail
        PROVE  Entry(p)' = Entry(p)
    <3>1. p < pos[t] + Capacity /\ pos[t] < p + Capacity /\ p # pos[t]
      BY <1>2, <2>1
    <3>2. Slot(p) # Slot(pos[t])
      BY <1>2, <3>1, NearSlots
    <3>3. seq'[Slot(p)] = seq[Slot(p)]
      BY <1>0, <1>1, <1>2, <3>2, SlotType DEF TypeOK
    <3> QED
      BY <1>1, <3>3 DEF Entry
  <2> QED
    BY <1>0, <1>1, <2>1, EntriesStay
<1>4. taken[t] # {}
  BY <1>1 DEF taken, Reading
<1>5. ClaimOf(t)' = ClaimOf(t) /\ TakenBy(t)' = {}
  <2>1. pc'[t] = "idle"
    BY <1>0, <1>1 DEF TypeOK
  <2> QED
    BY <1>1, <2>1 DEF ClaimOf, TakenBy, Writing, Reading
<1>6. \A u \in Threads \ {t} : pc'[u] = pc[u] /\ pos'[u] = pos[u] /\ item'[u] = item[u]
  BY <1>0, <1>1 DEF TypeOK
<1>7. /\ claimed' = [claimed EXCEPT ![t] = ClaimOf(t)]
      /\ taken' = [taken EXCEPT ![t] = {}]
  BY <1>0, <1>1, <1>5, <1>6, OnlyOne
<1>8. claimed' = claimed
  BY <1>7 DEF claimed, ClaimOf
<1> QED
  BY <1>1, <1>3, <1>4, <1>7, <1>8 DEF Clients!FreeSlot

\* Nobody else sees the plain accesses to the slot.
LEMMA WriteStutters ==
  ASSUME IInv, NEW t \in Threads, PushWrite(t)
  PROVE  UNCHANGED Clients!rvars
<1>0. TypeOK /\ SlotExclusive
  BY InvExclusive DEF IInv
<1>1. /\ pc[t] = "write" /\ pc' = [pc EXCEPT ![t] = "publish"]
      /\ data' = [data EXCEPT ![Slot(pos[t])] = item[t]]
      /\ UNCHANGED <<seq, head, tail, pos, item, log>>
  BY DEF PushWrite, Goto
<1>2. pc'[t] = "publish" /\ \A u \in Threads \ {t} : pc'[u] = pc[u]
  BY <1>0, <1>1 DEF TypeOK
<1>3. Writing(t) /\ ClaimOf(t)' = ClaimOf(t) /\ TakenBy(t)' = TakenBy(t)
  BY <1>1, <1>2 DEF ClaimOf, TakenBy, Writing, Reading
<1> QED
  BY <1>0, <1>1, <1>2, <1>3, RingStutter

LEMMA ReadStutters ==
  ASSUME IInv, NEW t \in Threads, PopRead(t)
  PROVE  UNCHANGED Clients!rvars
<1>0. TypeOK /\ SlotExclusive
  BY InvExclusive DEF IInv
<1>1. /\ pc[t] = "read" /\ pc' = [pc EXCEPT ![t] = "free"]
      /\ item' = [item EXCEPT ![t] = data[Slot(pos[t])]]
      /\ UNCHANGED <<seq, data, head, tail, pos, log>>
  BY DEF PopRead, Goto
<1>2. /\ pc'[t] = "free" /\ item'[t] = data[Slot(pos[t])]
      /\ \A u \in Threads \ {t} : pc'[u] = pc[u] /\ item'[u] = item[u]
  BY <1>0, <1>1 DEF TypeOK
<1>3. Held(t)' = Held(t)
  BY <1>1, <1>2 DEF Held
<1>4. ClaimOf(t)' = ClaimOf(t) /\ TakenBy(t)' = TakenBy(t)
  BY <1>1, <1>2, <1>3 DEF ClaimOf, TakenBy, Writing, Reading
<1> QED
  BY <1>0, <1>1, <1>2, <1>4, RingStutter

LEMMA StepImplementsRing ==
  ASSUME Capacity >= 2, IInv, IInv', [Next]_vars
  PROVE  [Clients!Next]_(Clients!rvars)
<1>0. TypeOK /\ SlotExclusive
  BY InvExclusive DEF IInv
<1>1. ASSUME NEW t \in Threads, NEW v \in Values, PushBegin(t, v)
      PROVE  UNCHANGED Clients!rvars
  BY <1>0, <1>1, PushSearchStutters
<1>2. ASSUME NEW t \in Threads, PopBegin(t)
      PROVE  UNCHANGED Clients!rvars
  BY <1>0, <1>2, PopSearchStutters
<1>3. ASSUME NEW t \in Threads, PushStep(t)
      PROVE  [Clients!Next]_(Clients!rvars)
  <2>1. CASE PushReady(t) \/ PushFull(t) \/ PushReload(t) \/ PushClaimFails(t)
    BY <1>0, <2>1, PushSearchStutters
  <2>2. CASE PushClaim(t)
    <3>1. item[t] \in Values
      BY <1>0, <2>2 DEF PushClaim, TypeOK
    <3> QED
      BY <2>2, <3>1, ClaimClaims DEF Clients!Next
  <2>3. CASE PushWrite(t)
    BY <2>3, WriteStutters
  <2>4. CASE PushPublish(t)
    BY <2>4, PublishPublishes DEF Clients!Next
  <2> QED
    BY <1>3, <2>1, <2>2, <2>3, <2>4 DEF PushStep
<1>4. ASSUME NEW t \in Threads, PopStep(t)
      PROVE  [Clients!Next]_(Clients!rvars)
  <2>1. CASE PopReady(t) \/ PopEmpty(t) \/ PopReload(t) \/ PopTakeFails(t)
    BY <1>0, <2>1, PopSearchStutters
  <2>2. CASE PopTake(t)
    BY <2>2, TakeTakes DEF Clients!Next
  <2>3. CASE PopRead(t)
    BY <2>3, ReadStutters
  <2>4. CASE PopFree(t)
    BY <2>4, FreeFrees DEF Clients!Next
  <2> QED
    BY <1>4, <2>1, <2>2, <2>3, <2>4 DEF PopStep
<1>5. CASE UNCHANGED vars
  <2>1. entries' = entries
    BY <1>5 DEF vars, entries, Entry
  <2>2. claimed' = claimed
    BY <1>5 DEF vars, claimed, Writing
  <2>3. taken' = taken
    BY <1>5 DEF vars, taken, Reading, Held
  <2> QED
    BY <1>5, <2>1, <2>2, <2>3 DEF vars, Clients!rvars
<1> QED
  BY <1>1, <1>2, <1>3, <1>4, <1>5 DEF Next

\* What the modules built on Ring use of MPMCQueue is what MPMCQueue does: for any
\* number of threads and any capacity of at least 2, a push of the code is a claim
\* followed by a publication, and a pop takes the oldest position once it is published.
THEOREM RingImplementsRing ==
  ASSUME Capacity >= 2
  PROVE  Spec => ImplementsRing
<1>1. Init => Clients!Init
  <2> SUFFICES ASSUME Init
               PROVE  Clients!Init
    OBVIOUS
  <2>1. IInv /\ tail = 0 /\ head = 0
    BY InitInv DEF Init
  <2>2. entries \in Seq(RingEntries) /\ Len(entries) = 0
    BY <2>1, EntriesAre DEF EntriesOk
  <2>3. entries = << >>
    BY <2>2, EmptySeq
  <2>4. claimed = [t \in Threads |-> {}] /\ taken = [t \in Threads |-> {}]
    BY DEF Init, claimed, taken, Writing, Reading
  <2> QED
    BY <2>1, <2>3, <2>4 DEF Clients!Init
<1>2. IInv /\ IInv' /\ [Next]_vars => [Clients!Next]_(Clients!rvars)
  BY StepImplementsRing
<1> QED
  BY <1>1, <1>2, Invariant, PTL DEF Spec, ImplementsRing, Clients!Spec

\* A call of the code that returns false finds the ring as the guards of the modules
\* built on it say: no slot is free for a try_push, the oldest entry is missing or not
\* published for a try_pop.  As above, this is for a load of the current slot.seq.
THEOREM FalseIsWhatClientsSee ==
  ASSUME Capacity >= 2
  PROVE  Spec => [][\A t \in Threads : /\ PushFull(t) => ~Clients!Room
                                       /\ PopEmpty(t) => ~Clients!Poppable(entries)]_vars
<1> USE CapacityAssumption
<1>1. ASSUME IInv, NEW t \in Threads, PushFull(t)
      PROVE  ~Clients!Room
  <2>1. /\ pos[t] <= tail /\ seq[Slot(pos[t])] < pos[t]
        /\ pos[t] \in Nat /\ tail \in Nat /\ head \in Nat
        /\ seq[Slot(pos[t])] \in Nat
        /\ head <= tail /\ tail <= head + Capacity
    BY <1>1, SlotType DEF PushFull, IInv, PushLocals, TypeOK, Bounds
  <2>2. pos[t] = tail
    BY <1>1, <2>1 DEF IInv, Monotone
  <2>3. CASE tail = head + Capacity
    BY <1>1, <2>1, <2>3, EntriesAre DEF EntriesOk, Clients!Room
  <2>4. CASE tail < head + Capacity
    <3>1. PICK u \in Threads : Reading(u) /\ pos[u] + Capacity = tail
      BY <1>1, <2>1, <2>2, <2>4 DEF IInv, Vacant
    <3>2. [at |-> pos[u], value |-> Held(u)] \in taken[u]
      BY <3>1 DEF taken
    <3> QED
      BY <3>1, <3>2 DEF Clients!Room
  <2> QED
    BY <2>1, <2>3, <2>4
<1>2. ASSUME IInv, NEW t \in Threads, PopEmpty(t)
      PROVE  ~Clients!Poppable(entries)
  <2>1. /\ pos[t] <= head /\ seq[Slot(pos[t])] < pos[t] + 1
        /\ pos[t] \in Nat /\ tail \in Nat /\ head \in Nat
        /\ seq[Slot(pos[t])] \in Nat
        /\ head <= tail
    BY <1>2, SlotType DEF PopEmpty, IInv, PopLocals, TypeOK, Bounds
  <2>2. pos[t] = head
    BY <1>2, <2>1 DEF IInv, Monotone
  <2>3. CASE tail = head
    <3>1. entries \in Seq(RingEntries) /\ Len(entries) = 0
      BY <1>2, <2>1, <2>3, EntriesAre DEF EntriesOk
    <3>2. entries = << >>
      BY <3>1, EmptySeq
    <3> QED
      BY <3>2 DEF Clients!Poppable
  <2>4. CASE head < tail
    <3>1. entries[1] = Entry(head)
      <4>1. 1 \in 1 .. tail - head /\ head + 1 - 1 = head
        BY <2>1, <2>4
      <4> QED
        BY <1>2, <4>1, EntriesAre DEF EntriesOk
    <3>2. (seq[Slot(head)] = head + 1) = FALSE
      BY <2>1, <2>2
    <3>3. entries[1] = [item |-> [at |-> head, value |-> log[head + 1]], ready |-> FALSE]
      BY <3>1, <3>2 DEF Entry
    <3> QED
      BY <3>3 DEF Clients!Poppable
  <2> QED
    BY <2>1, <2>3, <2>4
<1> DEFINE AsSeen ==
      \A t \in Threads : /\ PushFull(t) => ~Clients!Room
                         /\ PopEmpty(t) => ~Clients!Poppable(entries)
<1>3. IInv /\ [Next]_vars => [AsSeen]_vars
  BY <1>1, <1>2
<1> QED
  BY <1>3, Invariant, PTL DEF Spec
=============================================================================
