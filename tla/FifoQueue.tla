----------------------------- MODULE FifoQueue ------------------------------
(***************************************************************************)
(* What MPMCQueue (src/src/mpmc_queue.h) promises its callers: a bounded   *)
(* FIFO queue on which every successful try_push and try_pop takes effect  *)
(* at one instant.  The queue is its history: the values pushed so far and *)
(* how many of them were popped.  A popped value is in the hands of the    *)
(* thread that popped it until its try_pop returns.                        *)
(***************************************************************************)
EXTENDS Naturals, Sequences

CONSTANTS Threads, Values, None, Capacity

VARIABLES
  pushed,    \* the values of the successful pushes, in the order they took effect
  popped,    \* the number of successful pops
  holding    \* the value a thread has popped and not yet returned

fvars == <<pushed, popped, holding>>

Init ==
  /\ pushed = << >>
  /\ popped = 0
  /\ holding = [t \in Threads |-> None]

\* try_push takes effect: there is room, and the value becomes the last one.
Push(v) ==
  /\ Len(pushed) - popped < Capacity
  /\ pushed' = Append(pushed, v)
  /\ UNCHANGED <<popped, holding>>

\* try_pop takes effect: the thread receives the oldest value not yet popped.
Pop(t) ==
  /\ popped < Len(pushed)
  /\ holding[t] = None
  /\ holding' = [holding EXCEPT ![t] = pushed[popped + 1]]
  /\ popped' = popped + 1
  /\ UNCHANGED pushed

\* try_pop returns the value to its caller.
Return(t) ==
  /\ holding[t] # None
  /\ holding' = [holding EXCEPT ![t] = None]
  /\ UNCHANGED <<pushed, popped>>

Next ==
  \/ \E v \in Values : Push(v)
  \/ \E t \in Threads : Pop(t) \/ Return(t)

Spec == Init /\ [][Next]_fvars
=============================================================================
