------------------------------ MODULE RingQueue -----------------------------
(***************************************************************************)
(* What MPMCQueue (src/src/mpmc_queue.h) promises the queues that are      *)
(* built on it, in the operators of module Ring that their modules use.    *)
(* FifoQueue says which value a pop returns; this module also says when    *)
(* a pop may return one: a position is claimed and then published, and     *)
(* one that is not published hides those behind it.                        *)
(***************************************************************************)
EXTENDS Ring

CONSTANTS Threads, Values, Capacity

VARIABLES
  ring,     \* the positions that are claimed and not yet taken
  claims,   \* the number of positions claimed so far
  claimed,  \* of each thread: the entry it has claimed and not yet published, if any
  taken     \* of each thread: the entry it has taken and whose slot it still reads, if any

rvars == <<ring, claims, claimed, taken>>

Init ==
  /\ ring = << >>
  /\ claims = 0
  /\ claimed = [t \in Threads |-> {}]
  /\ taken = [t \in Threads |-> {}]

\* A slot is free when its last value has been taken and is not being read.
Room ==
  /\ Len(ring) < Capacity
  /\ \A t \in Threads : \A e \in taken[t] : claims # e.at + Capacity

\* try_push claims a position for v.
ClaimPosition(t, v) ==
  /\ Room
  /\ claimed[t] = {}
  /\ ring' = Claim(ring, [at |-> claims, value |-> v])
  /\ claimed' = [claimed EXCEPT ![t] = {[at |-> claims, value |-> v]}]
  /\ claims' = claims + 1
  /\ UNCHANGED taken

\* It publishes what it claimed.
PublishEntry(t) ==
  /\ \E e \in claimed[t] : ring' = Publish(ring, e)
  /\ claimed' = [claimed EXCEPT ![t] = {}]
  /\ UNCHANGED <<claims, taken>>

\* try_pop takes the oldest position, which is published.
TakeOldest(t) ==
  /\ Poppable(ring)
  /\ taken[t] = {}
  /\ ring' = Tail(ring)
  /\ taken' = [taken EXCEPT ![t] = {Head(ring).item}]
  /\ UNCHANGED <<claims, claimed>>

\* It has read the value and frees the slot.
FreeSlot(t) ==
  /\ taken[t] # {}
  /\ taken' = [taken EXCEPT ![t] = {}]
  /\ UNCHANGED <<ring, claims, claimed>>

Next ==
  \E t \in Threads :
    \/ \E v \in Values : ClaimPosition(t, v)
    \/ PublishEntry(t) \/ TakeOldest(t) \/ FreeSlot(t)

Spec == Init /\ [][Next]_rvars
=============================================================================
