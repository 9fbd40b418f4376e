----------------------- MODULE EventQueueBroadcastFast -----------------------
(***************************************************************************)
(* The EventQueueBroadcastFast of src/src/eventqueue_fast.h: post copies   *)
(* the observers of the topic into the message, and dispatchOne calls      *)
(* those.  EventQueueBroadcastFastBatch, which extends this module, has    *)
(* the same code for what is modelled here.                                *)
(*                                                                         *)
(* Queues are instances of the class; each has one topic, with one thread  *)
(* that adds observers to it, before and while others post.  The rings are *)
(* those of module Ring; the pool hands out a message nobody holds, which  *)
(* ObjectPoolLockFree promises if one thread acquires (NoSharing): with    *)
(* several producers that is an assumption.                                *)
(***************************************************************************)
EXTENDS Integers, FiniteSets, Ring

CONSTANTS
  Queues, Producers, Consumers,
  MaxPosts,      \* bound: the messages acquired, numbered in that order
  None,
  Capacity,      \* QueueCapacity
  MaxObservers   \* FAST_MAX_OBSERVERS

ASSUME SizesAssumption == Capacity \in Nat \ {0} /\ MaxObservers \in Nat \ {0}
ASSUME BoundAssumption == MaxPosts \in Nat

Messages == 1 .. MaxPosts

VARIABLES
  count,     \* topic.count
  written,   \* how many of topic.observers have been written
  adding,    \* where the thread that adds observers is, and the index it loaded
  ring,      \* m_queue
  state,     \* of each message: unused, filling, batched, pushing, queued, taken, done
  home,      \* the queue a message was posted to
  copied,    \* msg->observerCount; the length of msg->observers
  managed,   \* ~ msg->isInline
  refs,      \* msg->managed->m_refCount; 0 when there is no payload
  ppc,       \* where each producer is in post
  pmsg,      \* the message it fills
  target,    \* the queue it pushes to
  pushing,   \* the messages it still has to push
  cpc,       \* where each consumer is in a dispatch
  source,    \* the queue it dispatches
  got,       \* the messages it took
  pos,       \* the one of them it dispatches
  heard,     \* how many of its observers have had it
  called,    \* history: the callbacks that got a message
  torn,      \* history: the messages that got an observer that was not yet written
  by         \* history: the queue that dispatched a message

registry == <<count, written, adding>>
message == <<home, copied, managed, torn>>
producing == <<ppc, pmsg, target, pushing>>
consuming == <<cpc, source, got, pos, heard>>
fastVars == <<registry, ring, state, message, refs, producing, consuming, called, by>>

FastInit ==
  /\ count = [q \in Queues |-> 0]
  /\ written = [q \in Queues |-> 0]
  /\ adding = [q \in Queues |-> "idle"]
  /\ ring = [q \in Queues |-> << >>]
  /\ state = [m \in Messages |-> "unused"]
  /\ home = [m \in Messages |-> None]
  /\ copied = [m \in Messages |-> 0]
  /\ managed = [m \in Messages |-> FALSE]
  /\ refs = [m \in Messages |-> 0]
  /\ ppc = [p \in Producers |-> "idle"]
  /\ pmsg = [p \in Producers |-> None]
  /\ target = [p \in Producers |-> None]
  /\ pushing = [p \in Producers |-> << >>]
  /\ cpc = [c \in Consumers |-> "idle"]
  /\ source = [c \in Consumers |-> None]
  /\ got = [c \in Consumers |-> << >>]
  /\ pos = [c \in Consumers |-> 0]
  /\ heard = [c \in Consumers |-> 0]
  /\ called = [m \in Messages |-> 0]
  /\ torn = {}
  /\ by = [m \in Messages |-> None]

-----------------------------------------------------------------------------
(* addObserver *)

\* Mutant of AddWrite: the count is stored before the observer is written.
AddWriteLater(q) ==
  /\ adding[q] = "idle"
  /\ count[q] < MaxObservers
  /\ count' = [count EXCEPT ![q] = @ + 1]
  /\ adding' = [adding EXCEPT ![q] = "store"]
  /\ UNCHANGED <<written, ring, state, message, refs, producing, consuming, called, by>>

\* The count is loaded and the observer written behind the others ...
AddWrite(q) ==
  /\ adding[q] = "idle"
  /\ count[q] < MaxObservers
  /\ written' = [written EXCEPT ![q] = @ + 1]
  /\ adding' = [adding EXCEPT ![q] = "store"]
  /\ UNCHANGED <<count, ring, state, message, refs, producing, consuming, called, by>>

\* ... and then counted.
AddStore(q) ==
  /\ adding[q] = "store"
  /\ count' = [count EXCEPT ![q] = written[q]]
  /\ adding' = [adding EXCEPT ![q] = "idle"]
  /\ UNCHANGED <<written, ring, state, message, refs, producing, consuming, called, by>>

-----------------------------------------------------------------------------
(* post *)

\* The count is loaded; without observers there is nothing to do.
PostBegin(p, q, m, large, next) ==
  /\ ppc[p] = "idle"
  /\ state[m] = "unused" /\ \A k \in 1 .. m - 1 : state[k] # "unused"
  /\ count[q] > 0
  /\ state' = [state EXCEPT ![m] = "filling"]
  /\ home' = [home EXCEPT ![m] = q]
  /\ copied' = [copied EXCEPT ![m] = count[q]]
  /\ managed' = [managed EXCEPT ![m] = large]
  /\ pmsg' = [pmsg EXCEPT ![p] = m]
  /\ target' = [target EXCEPT ![p] = q]
  /\ ppc' = [ppc EXCEPT ![p] = next]
  /\ UNCHANGED <<registry, ring, torn, refs, pushing, consuming, called, by>>

\* Mutant of PostRefs: no addRefs.
PostRefsOne(n) == 1

\* The references post takes: create's, and addRefs for the other observers.
PostRefs(n) == IF n > 1 THEN 1 + (n - 1) ELSE 1

\* The observers counted before are copied, and the payload is copied or created.
Fill(p) ==
  LET m == pmsg[p] IN
  /\ torn' = IF copied[m] > written[home[m]] THEN torn \cup {m} ELSE torn
  /\ refs' = [refs EXCEPT ![m] = IF managed[m] THEN PostRefs(copied[m]) ELSE 0]
  /\ pmsg' = [pmsg EXCEPT ![p] = None]

PostFill(p) ==
  /\ ppc[p] = "fill"
  /\ Fill(p)
  /\ state' = [state EXCEPT ![pmsg[p]] = "pushing"]
  /\ pushing' = [pushing EXCEPT ![p] = <<pmsg[p]>>]
  /\ ppc' = [ppc EXCEPT ![p] = "push"]
  /\ UNCHANGED <<registry, ring, home, copied, managed, target, consuming, called, by>>

\* Mutant of PushClaim: what does not fit goes back to the pool.
PushClaimOrDrop(p) ==
  /\ ppc[p] = "push"
  /\ IF Len(ring[target[p]]) < Capacity
       THEN /\ ring' = [ring EXCEPT ![target[p]] = Claim(@, Head(pushing[p]))]
            /\ ppc' = [ppc EXCEPT ![p] = "publish"]
            /\ UNCHANGED <<state, pushing>>
       ELSE /\ pushing' = [pushing EXCEPT ![p] = Tail(@)]
            /\ ppc' = [ppc EXCEPT ![p] = IF Tail(pushing[p]) = << >> THEN "idle" ELSE "push"]
            /\ state' = [state EXCEPT ![Head(pushing[p])] = "unused"]
            /\ UNCHANGED ring
  /\ UNCHANGED <<registry, message, refs, pmsg, target, consuming, called, by>>

\* try_push claims a position: the loop around it ends when there is room ...
PushClaim(p) ==
  /\ ppc[p] = "push"
  /\ Len(ring[target[p]]) < Capacity
  /\ ring' = [ring EXCEPT ![target[p]] = Claim(@, Head(pushing[p]))]
  /\ ppc' = [ppc EXCEPT ![p] = "publish"]
  /\ UNCHANGED <<registry, state, message, refs, pmsg, target, pushing, consuming, called, by>>

\* ... and publishes it.
PushPublish(p) ==
  /\ ppc[p] = "publish"
  /\ ring' = [ring EXCEPT ![target[p]] = Publish(@, Head(pushing[p]))]
  /\ state' = [state EXCEPT ![Head(pushing[p])] = "queued"]
  /\ pushing' = [pushing EXCEPT ![p] = Tail(@)]
  /\ ppc' = [ppc EXCEPT ![p] = IF Tail(pushing[p]) = << >> THEN "idle" ELSE "push"]
  /\ target' = [target EXCEPT ![p] = IF Tail(pushing[p]) = << >> THEN None ELSE @]
  /\ UNCHANGED <<registry, message, refs, pmsg, consuming, called, by>>

-----------------------------------------------------------------------------
(* dispatchOne; dispatchBatch and dispatchAll of this class repeat it *)

Take(c, q) ==
  /\ Poppable(ring[q])
  /\ ring' = [ring EXCEPT ![q] = Tail(@)]
  /\ got' = [got EXCEPT ![c] = Append(@, Head(ring[q]).item)]
  /\ state' = [state EXCEPT ![Head(ring[q]).item] = "taken"]
  /\ by' = [by EXCEPT ![Head(ring[q]).item] = q]

DispatchPop(c, q) ==
  /\ cpc[c] = "idle"
  /\ Take(c, q)
  /\ pos' = [pos EXCEPT ![c] = 1]
  /\ cpc' = [cpc EXCEPT ![c] = "call"]
  /\ source' = [source EXCEPT ![c] = q]
  /\ UNCHANGED <<registry, message, refs, producing, heard, called>>

Current(c) == got[c][pos[c]]

Callback(c) ==
  /\ cpc[c] = "call"
  /\ pos[c] <= Len(got[c])
  /\ called' = [called EXCEPT ![Current(c)] = @ + 1]
  /\ cpc' = [cpc EXCEPT ![c] = "release"]
  /\ UNCHANGED <<registry, ring, state, message, refs, producing, source, got, pos, heard, by>>

\* After the callback of the last observer the next message is looked at.
Advance(c) ==
  /\ cpc' = [cpc EXCEPT ![c] = "call"]
  /\ LET last == heard[c] + 1 = copied[Current(c)] IN
       /\ heard' = [heard EXCEPT ![c] = IF last THEN 0 ELSE @ + 1]
       /\ pos' = [pos EXCEPT ![c] = IF last THEN @ + 1 ELSE @]
  /\ UNCHANGED <<registry, ring, state, message, producing, source, got, called, by>>

\* One reference is released after each callback.
ReleasePayload(c) ==
  /\ cpc[c] = "release"
  /\ IF managed[Current(c)]
       THEN refs[Current(c)] > 0 /\ refs' = [refs EXCEPT ![Current(c)] = @ - 1]
       ELSE UNCHANGED refs
  /\ Advance(c)

\* What was taken goes back to the pool when all of it has been dispatched.
DispatchEnd(c) ==
  /\ cpc[c] = "call"
  /\ pos[c] > Len(got[c])
  /\ state' = [m \in Messages |-> IF m \in {got[c][k] : k \in DOMAIN got[c]} THEN "done" ELSE state[m]]
  /\ got' = [got EXCEPT ![c] = << >>]
  /\ pos' = [pos EXCEPT ![c] = 0]
  /\ cpc' = [cpc EXCEPT ![c] = "idle"]
  /\ source' = [source EXCEPT ![c] = None]
  /\ UNCHANGED <<registry, ring, message, refs, producing, heard, called, by>>

DispatchStep(c) ==
  \/ \E q \in Queues : DispatchPop(c, q)
  \/ Callback(c) \/ ReleasePayload(c) \/ DispatchEnd(c)

PushStep(p) == PushClaim(p) \/ PushPublish(p)
=============================================================================
