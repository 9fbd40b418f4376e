----------------------------- MODULE MPMCQueue ------------------------------
(***************************************************************************)
(* The bounded lock-free ring of src/src/mpmc_queue.h, one action per      *)
(* atomic access of try_push and try_pop.  Any thread may push and pop.    *)
(*                                                                         *)
(* m_head and m_tail are read with memory_order_relaxed, so such a load    *)
(* returns the current value or an older one; the compare_exchange_weak    *)
(* acts on the current value and may fail spuriously.  The slot sequence   *)
(* numbers are read with acquire and stored with release; what is written  *)
(* to a slot before its sequence is stored is seen by whoever reads that   *)
(* sequence.  Here such a load returns the current number.  In C++ it may  *)
(* return an older one; the numbers of a slot only grow, so that this adds *)
(* a call that returns false, a reload, or a compare_exchange that fails,  *)
(* and never a claim: safety is not affected, the reasons for a false      *)
(* return are (FalseIsJustified).  Positions are natural numbers: the      *)
(* 64-bit counters of the code do not wrap in any run that a machine can   *)
(* complete.                                                               *)
(***************************************************************************)
EXTENDS Integers, Sequences, FiniteSets

CONSTANTS
  Threads,     \* threads calling try_push and try_pop
  Values,      \* the message pointers that are queued
  None,        \* no value
  Capacity,    \* the template parameter; the code's static_assert admits 1
  MaxPush,     \* bound: no push starts once MaxPush positions are claimed
  Scheduled    \* the threads the scheduler keeps running (FairSpec only)

ASSUME CapacityAssumption == Capacity \in Nat \ {0}
ASSUME MaxPushAssumption == MaxPush \in Nat
ASSUME NoneAssumption == None \notin Values
ASSUME ScheduledAssumption == Scheduled \subseteq Threads

VARIABLES
  seq,      \* m_slots[i].seq
  data,     \* m_slots[i].data
  head,     \* m_head: next position to dequeue
  tail,     \* m_tail: next position to enqueue
  pc,       \* where each thread is
  pos,      \* the local variable tail of try_push, head of try_pop
  item,     \* the argument of try_push, the result of try_pop
  log       \* history: the value claimed at each position, in order

vars == <<seq, data, head, tail, pc, pos, item, log>>

Slots == 0 .. Capacity - 1

\* m_slots[p & MASK]: the capacity is a power of two.
Slot(p) == p % Capacity

\* The values a relaxed load of the counter n may return.
Relaxed(n) == 0 .. n

Init ==
  /\ seq = [i \in Slots |-> i]
  /\ data = [i \in Slots |-> None]
  /\ head = 0
  /\ tail = 0
  /\ pc = [t \in Threads |-> "idle"]
  /\ pos = [t \in Threads |-> 0]
  /\ item = [t \in Threads |-> None]
  /\ log = << >>

Goto(t, l) == pc' = [pc EXCEPT ![t] = l]

\* The call returns and its locals are gone.
Return(t) ==
  /\ Goto(t, "idle")
  /\ pos' = [pos EXCEPT ![t] = 0]
  /\ item' = [item EXCEPT ![t] = None]

-----------------------------------------------------------------------------
(* try_push *)

LoadTail(t) == \E p \in Relaxed(tail) : pos' = [pos EXCEPT ![t] = p]

PushBegin(t, v) ==
  /\ pc[t] = "idle"
  /\ tail < MaxPush
  /\ item' = [item EXCEPT ![t] = v]
  /\ LoadTail(t)
  /\ Goto(t, "push")
  /\ UNCHANGED <<seq, data, head, tail, log>>

\* diff == 0: the slot is ready for writing.
PushReady(t) ==
  /\ pc[t] = "push"
  /\ seq[Slot(pos[t])] = pos[t]
  /\ Goto(t, "claim")
  /\ UNCHANGED <<seq, data, head, tail, pos, item, log>>

\* Mutants of PushFull: a full queue is tried again; an outdated position is
\* taken for a full queue.
PushFullSpins(t) ==
  /\ pc[t] = "push"
  /\ seq[Slot(pos[t])] < pos[t]
  /\ LoadTail(t)
  /\ UNCHANGED <<seq, data, head, tail, pc, item, log>>

PushFullUnlessReady(t) ==
  /\ pc[t] = "push"
  /\ seq[Slot(pos[t])] # pos[t]
  /\ Return(t)
  /\ UNCHANGED <<seq, data, head, tail, log>>

\* diff < 0: "queue is full".
PushFull(t) ==
  /\ pc[t] = "push"
  /\ seq[Slot(pos[t])] < pos[t]
  /\ Return(t)
  /\ UNCHANGED <<seq, data, head, tail, log>>

\* diff > 0: another thread claimed this slot.
PushReload(t) ==
  /\ pc[t] = "push"
  /\ seq[Slot(pos[t])] > pos[t]
  /\ LoadTail(t)
  /\ UNCHANGED <<seq, data, head, tail, pc, item, log>>

\* Mutant of PushClaim: the sequence number is stored before the data.
PushClaimPublishes(t) ==
  /\ pc[t] = "claim"
  /\ tail = pos[t]
  /\ tail' = tail + 1
  /\ log' = Append(log, item[t])
  /\ seq' = [seq EXCEPT ![Slot(pos[t])] = pos[t] + 1]
  /\ Goto(t, "write")
  /\ UNCHANGED <<data, head, pos, item>>

PushClaim(t) ==
  /\ pc[t] = "claim"
  /\ tail = pos[t]
  /\ tail' = tail + 1
  /\ log' = Append(log, item[t])
  /\ Goto(t, "write")
  /\ UNCHANGED <<seq, data, head, pos, item>>

\* The CAS failed, spuriously or not, and loaded the counter.
PushClaimFails(t) ==
  /\ pc[t] = "claim"
  /\ LoadTail(t)
  /\ Goto(t, "push")
  /\ UNCHANGED <<seq, data, head, tail, item, log>>

PushWrite(t) ==
  /\ pc[t] = "write"
  /\ data' = [data EXCEPT ![Slot(pos[t])] = item[t]]
  /\ Goto(t, "publish")
  /\ UNCHANGED <<seq, head, tail, pos, item, log>>

PushPublish(t) ==
  /\ pc[t] = "publish"
  /\ seq' = [seq EXCEPT ![Slot(pos[t])] = pos[t] + 1]
  /\ Return(t)
  /\ UNCHANGED <<data, head, tail, log>>

-----------------------------------------------------------------------------
(* try_pop *)

LoadHead(t) == \E p \in Relaxed(head) : pos' = [pos EXCEPT ![t] = p]

PopBegin(t) ==
  /\ pc[t] = "idle"
  /\ LoadHead(t)
  /\ Goto(t, "pop")
  /\ UNCHANGED <<seq, data, head, tail, item, log>>

\* diff == 0: the slot has data.
PopReady(t) ==
  /\ pc[t] = "pop"
  /\ seq[Slot(pos[t])] = pos[t] + 1
  /\ Goto(t, "take")
  /\ UNCHANGED <<seq, data, head, tail, pos, item, log>>

\* diff < 0: "queue is empty".
PopEmpty(t) ==
  /\ pc[t] = "pop"
  /\ seq[Slot(pos[t])] < pos[t] + 1
  /\ Return(t)
  /\ UNCHANGED <<seq, data, head, tail, log>>

\* diff > 0: another thread took this slot.
PopReload(t) ==
  /\ pc[t] = "pop"
  /\ seq[Slot(pos[t])] > pos[t] + 1
  /\ LoadHead(t)
  /\ UNCHANGED <<seq, data, head, tail, pc, item, log>>

\* Mutant of PopTake: the slot is released before it is read.
PopTakeReleases(t) ==
  /\ pc[t] = "take"
  /\ head = pos[t]
  /\ head' = head + 1
  /\ seq' = [seq EXCEPT ![Slot(pos[t])] = pos[t] + Capacity]
  /\ Goto(t, "read")
  /\ UNCHANGED <<data, tail, pos, item, log>>

PopTake(t) ==
  /\ pc[t] = "take"
  /\ head = pos[t]
  /\ head' = head + 1
  /\ Goto(t, "read")
  /\ UNCHANGED <<seq, data, tail, pos, item, log>>

\* The CAS failed, spuriously or not, and loaded the counter.
PopTakeFails(t) ==
  /\ pc[t] = "take"
  /\ LoadHead(t)
  /\ Goto(t, "pop")
  /\ UNCHANGED <<seq, data, head, tail, item, log>>

PopRead(t) ==
  /\ pc[t] = "read"
  /\ item' = [item EXCEPT ![t] = data[Slot(pos[t])]]
  /\ Goto(t, "free")
  /\ UNCHANGED <<seq, data, head, tail, pos, log>>

\* Mutant of PopFree: the sequence number goes back by a round.
PopFreeBackwards(t) ==
  /\ pc[t] = "free"
  /\ seq' = [seq EXCEPT ![Slot(pos[t])] = pos[t] - Capacity]
  /\ Return(t)
  /\ UNCHANGED <<data, head, tail, log>>

PopFree(t) ==
  /\ pc[t] = "free"
  /\ seq' = [seq EXCEPT ![Slot(pos[t])] = pos[t] + Capacity]
  /\ Return(t)
  /\ UNCHANGED <<data, head, tail, log>>

-----------------------------------------------------------------------------

PushStep(t) ==
  \/ PushReady(t) \/ PushFull(t) \/ PushReload(t) \/ PushClaim(t)
  \/ PushClaimFails(t) \/ PushWrite(t) \/ PushPublish(t)

PopStep(t) ==
  \/ PopReady(t) \/ PopEmpty(t) \/ PopReload(t) \/ PopTake(t)
  \/ PopTakeFails(t) \/ PopRead(t) \/ PopFree(t)

Next ==
  \E t \in Threads :
    \/ \E v \in Values : PushBegin(t, v)
    \/ PopBegin(t)
    \/ PushStep(t)
    \/ PopStep(t)

Spec == Init /\ [][Next]_vars

(***************************************************************************)
(* A scheduled thread takes its steps; a store becomes visible to it in    *)
(* finite time, so a load it repeats sometimes returns the current value;  *)
(* a weak CAS it repeats does not fail spuriously for ever.  The other     *)
(* threads may stop anywhere, in the middle of an operation too.           *)
(***************************************************************************)
Fairness ==
  \A t \in Scheduled :
    /\ WF_vars(PushStep(t) \/ PopStep(t))
    /\ SF_vars((PushReload(t) \/ PushClaimFails(t)) /\ pos'[t] = tail)
    /\ SF_vars((PopReload(t) \/ PopTakeFails(t)) /\ pos'[t] = head)
    /\ SF_vars(PushClaim(t))
    /\ SF_vars(PopTake(t))

FairSpec == Spec /\ Fairness

-----------------------------------------------------------------------------
(* Properties *)

PcValues == {"idle", "push", "claim", "write", "publish",
             "pop", "take", "read", "free"}

\* Every variable has its type, and a thread in try_push carries a value.
TypeOK ==
  /\ seq \in [Slots -> Nat]
  /\ data \in [Slots -> Values \cup {None}]
  /\ head \in Nat
  /\ tail \in Nat
  /\ pc \in [Threads -> PcValues]
  /\ pos \in [Threads -> Nat]
  /\ item \in [Threads -> Values \cup {None}]
  /\ \A t \in Threads : pc[t] \in {"push", "claim", "write"} => item[t] \in Values
  /\ log \in Seq(Values)

Writing(t) == pc[t] \in {"write", "publish"}
Reading(t) == pc[t] \in {"read", "free"}

\* From its successful compare_exchange to its store of the slot's sequence
\* number a thread is alone on the slot: slot.data, which is not atomic, is
\* never written by two threads nor read while another writes it.
SlotExclusive ==
  \A t, u \in Threads :
    /\ Writing(t) \/ Reading(t)
    /\ Writing(u) \/ Reading(u)
    /\ Slot(pos[t]) = Slot(pos[u])
    => t = u

\* A try_push that returns false looked at the current tail, and either the
\* ring is full or a consumer that claimed the slot's last value has not
\* released it.  A try_pop that returns false looked at the current head, and
\* either the ring is empty or the producer of the oldest value has not
\* published it.  An outdated m_head or m_tail never makes a call fail.  An outdated
\* slot.seq, which is not modelled, may: a call of the code can then also return false
\* before it sees a store that no other synchronization orders before it.
FalseIsJustified ==
  [][\A t \in Threads :
       /\ PushFull(t) =>
            /\ pos[t] = tail
            /\ \/ tail - head = Capacity
               \/ \E u \in Threads : Reading(u) /\ pos[u] = tail - Capacity
       /\ PopEmpty(t) =>
            /\ pos[t] = head
            /\ \/ tail = head
               \/ \E u \in Threads : Writing(u) /\ pos[u] = head]_vars

\* The value a thread has taken out of the ring: it owns the slot that still
\* holds it, then its own copy.
Held(t) ==
  CASE pc[t] = "read" -> data[Slot(pos[t])]
    [] pc[t] = "free" -> item[t]
    [] OTHER          -> None

FIFO == INSTANCE FifoQueue
          WITH pushed <- log, popped <- head, holding <- [t \in Threads |-> Held(t)]

\* The ring is a bounded FIFO queue: a push takes effect at its
\* compare_exchange of m_tail, a pop at its compare_exchange of m_head, and
\* every pop returns the value pushed at its position, once.
ImplementsFifo == FIFO!Spec

\* The position p of the ring, the entries that claimed and have taken one.
Entry(p) == [item |-> [at |-> p, value |-> log[p + 1]], ready |-> seq[Slot(p)] = p + 1]
entries == [k \in 1 .. tail - head |-> Entry(head + k - 1)]
claimed == [t \in Threads |-> IF Writing(t) THEN {[at |-> pos[t], value |-> item[t]]} ELSE {}]
taken == [t \in Threads |-> IF Reading(t) THEN {[at |-> pos[t], value |-> Held(t)]} ELSE {}]

Clients == INSTANCE RingQueue WITH ring <- entries, claims <- tail

\* The ring is what the modules built on Ring take it for: a push claims a position when
\* its slot is free and publishes it later, a pop takes the oldest position, only when
\* that is published, and a slot is not claimed again while it is read.
ImplementsRing == Clients!Spec

\* A call of a scheduled thread returns, wherever the other threads stop:
\* neither loop waits for another thread.
CallsReturn == \A t \in Scheduled : (pc[t] # "idle") ~> (pc[t] = "idle")
=============================================================================
