-------------------------------- MODULE Ring ---------------------------------
(***************************************************************************)
(* The MPMCQueue of src/src/mpmc_queue.h as its clients see it, for the    *)
(* queues that are built on it.  A ring is the sequence of the positions   *)
(* that are claimed and not yet taken, the oldest first; an entry is ready *)
(* when its producer has published it.                                     *)
(*                                                                         *)
(* Module MPMCQueue has every atomic access and implements the state       *)
(* machine RingQueue of these operators (ImplementsRing): a push takes     *)
(* effect when the position is claimed, a pop when it is taken; a try_pop  *)
(* returns false when the ring is empty or the oldest entry is not         *)
(* published (FalseIsJustified).                                           *)
(***************************************************************************)
EXTENDS Naturals, Sequences

\* The compare_exchange of m_tail succeeds.
Claim(ring, m) == Append(ring, [item |-> m, ready |-> FALSE])

\* slot.data and slot.seq are stored.
Publish(ring, m) ==
  [k \in DOMAIN ring |-> IF ring[k].item = m THEN [item |-> m, ready |-> TRUE] ELSE ring[k]]

\* try_pop returns true: a producer that stalls before it publishes hides what
\* was pushed after it.
Poppable(ring) == ring # << >> /\ ring[1].ready

Items(ring) == {ring[k].item : k \in DOMAIN ring}

\* The entries that have been claimed and not published.
Stalled(ring) == {ring[k].item : k \in {j \in DOMAIN ring : ~ ring[j].ready}}
=============================================================================
