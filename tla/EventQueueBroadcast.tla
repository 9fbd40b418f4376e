------------------------- MODULE EventQueueBroadcast -------------------------
(***************************************************************************)
(* The EventQueueBroadcast of src/src/eventqueue_broadcast.h and the       *)
(* RefCountedPayload of src/src/payload_refcounted.h: posts are copied     *)
(* into messages, and a payload too large for a message is shared by the   *)
(* observers and freed by the last of them.                                *)
(*                                                                         *)
(* m_queue is the bounded FIFO of module FifoQueue, which MPMCQueue        *)
(* implements; m_messagePool hands out a message nobody else holds, which  *)
(* ObjectPoolLockFree promises if one thread acquires (NoSharing): with    *)
(* several producers that is an assumption.  Topics are ids that are       *)
(* registered, and the observers of a topic are told apart by their place  *)
(* in its list.                                                            *)
(***************************************************************************)
EXTENDS Integers, Sequences, FiniteSets

CONSTANTS
  Producers, Consumers,
  Topics,
  Messages,       \* the messages that can be posted; bounds the posts
  None,
  Capacity,       \* QueueCapacity
  MaxCount,       \* the largest observerCount: 255, what a uint8_t holds
  MaxObservers,   \* bound: the observers of a topic
  LateObservers   \* whether observers may be added after the first post

ASSUME SizesAssumption ==
  Capacity \in Nat \ {0} /\ MaxCount \in Nat \ {0} /\ MaxObservers \in Nat
ASSUME LateObserversAssumption == LateObservers \in BOOLEAN
ASSUME NoneAssumption == None \notin Messages

VARIABLES
  observers,  \* the length of each list in m_observers
  state,      \* of each message: unused, pushing, queued, dispatched, done
  topic,      \* msg->topicId
  managed,    \* ~ msg->isInline
  refs,       \* msg->managed->m_refCount; 0 when there is no payload
  queue,      \* m_queue
  poster,     \* the message each producer is pushing
  taken,      \* the message each consumer is dispatching
  pc,         \* where each consumer is in dispatchOne
  left,       \* the callbacks of its snapshot that a consumer has not finished
  called      \* history: the callbacks that got a message

vars == <<observers, state, topic, managed, refs, queue, poster, taken, pc, left, called>>
message == <<topic, managed>>
dispatch == <<taken, pc, left, called>>

Init ==
  /\ observers = [tp \in Topics |-> 0]
  /\ state = [m \in Messages |-> "unused"]
  /\ topic = [m \in Messages |-> None]
  /\ managed = [m \in Messages |-> FALSE]
  /\ refs = [m \in Messages |-> 0]
  /\ queue = << >>
  /\ poster = [p \in Producers |-> None]
  /\ taken = [c \in Consumers |-> None]
  /\ pc = [c \in Consumers |-> "idle"]
  /\ left = [c \in Consumers |-> 0]
  /\ called = [m \in Messages |-> 0]

Smaller(a, b) == IF a < b THEN a ELSE b

\* The list is copied, extended and swapped in under m_observerMutex.
AddObserver(tp) ==
  /\ observers[tp] < MaxObservers
  /\ LateObservers \/ \A m \in Messages : state[m] = "unused"
  /\ observers' = [observers EXCEPT ![tp] = @ + 1]
  /\ UNCHANGED <<state, message, refs, queue, poster, dispatch>>

\* Mutant of PostRefs: no addRefs.
PostRefsOne(count) == 1

\* Mutant of PostRefs: addRefs(count), on top of the one create gives.
PostRefsExtra(count) == IF count > 1 THEN 1 + count ELSE 1

\* The references post takes: create's, and addRefs for the other observers.
PostRefs(count) == IF count > 1 THEN 1 + (count - 1) ELSE 1

\* post up to the push: without observers there is nothing to do.
Post(p, m, tp, large) ==
  LET count == Smaller(observers[tp], MaxCount) IN
  /\ poster[p] = None
  /\ state[m] = "unused"
  /\ count > 0
  /\ poster' = [poster EXCEPT ![p] = m]
  /\ state' = [state EXCEPT ![m] = "pushing"]
  /\ topic' = [topic EXCEPT ![m] = tp]
  /\ managed' = [managed EXCEPT ![m] = large]
  /\ refs' = [refs EXCEPT ![m] = IF large THEN PostRefs(count) ELSE 0]
  /\ UNCHANGED <<observers, queue, dispatch>>

\* Mutant of PostPush: a full queue drops the message.
PostPushOrDrop(p) ==
  /\ poster[p] # None
  /\ IF Len(queue) < Capacity
       THEN queue' = Append(queue, poster[p]) /\ state' = [state EXCEPT ![poster[p]] = "queued"]
       ELSE UNCHANGED <<queue, state>>
  /\ poster' = [poster EXCEPT ![p] = None]
  /\ UNCHANGED <<observers, message, refs, dispatch>>

\* The loop around try_push ends when there is room.
PostPush(p) ==
  /\ poster[p] # None
  /\ Len(queue) < Capacity
  /\ queue' = Append(queue, poster[p])
  /\ state' = [state EXCEPT ![poster[p]] = "queued"]
  /\ poster' = [poster EXCEPT ![p] = None]
  /\ UNCHANGED <<observers, message, refs, dispatch>>

DispatchPop(c) ==
  /\ pc[c] = "idle"
  /\ queue # << >>
  /\ taken' = [taken EXCEPT ![c] = Head(queue)]
  /\ state' = [state EXCEPT ![Head(queue)] = "dispatched"]
  /\ queue' = Tail(queue)
  /\ pc' = [pc EXCEPT ![c] = "load"]
  /\ UNCHANGED <<observers, message, refs, poster, left, called>>

\* The list of now, not the one the references were counted for.
LoadObservers(c) ==
  /\ pc[c] = "load"
  /\ left' = [left EXCEPT ![c] = observers[topic[taken[c]]]]
  /\ pc' = [pc EXCEPT ![c] = "call"]
  /\ UNCHANGED <<observers, state, message, refs, queue, poster, taken, called>>

\* A callback reads the payload and returns.
Callback(c) ==
  /\ pc[c] = "call"
  /\ left[c] > 0
  /\ called' = [called EXCEPT ![taken[c]] = @ + 1]
  /\ pc' = [pc EXCEPT ![c] = "release"]
  /\ UNCHANGED <<observers, state, message, refs, queue, poster, taken, left>>

\* RefCountedPayload::release: the payload is freed with its last reference.  What
\* a release of a freed payload does is undefined, and not modelled any further.
Release(m) ==
  /\ refs[m] > 0
  /\ refs' = [refs EXCEPT ![m] = @ - 1]

\* Mutant of ReleasePayload: no release for the last callback.
ReleasePayloadKeeps(c) ==
  /\ pc[c] = "release"
  /\ IF managed[taken[c]] /\ left[c] > 1 THEN Release(taken[c]) ELSE UNCHANGED refs
  /\ left' = [left EXCEPT ![c] = @ - 1]
  /\ pc' = [pc EXCEPT ![c] = "call"]
  /\ UNCHANGED <<observers, state, message, queue, poster, taken, called>>

\* One reference is released after each callback.
ReleasePayload(c) ==
  /\ pc[c] = "release"
  /\ IF managed[taken[c]] THEN Release(taken[c]) ELSE UNCHANGED refs
  /\ left' = [left EXCEPT ![c] = @ - 1]
  /\ pc' = [pc EXCEPT ![c] = "call"]
  /\ UNCHANGED <<observers, state, message, queue, poster, taken, called>>

\* The message goes back to the pool.
DispatchDone(c) ==
  /\ pc[c] = "call"
  /\ left[c] = 0
  /\ state' = [state EXCEPT ![taken[c]] = "done"]
  /\ taken' = [taken EXCEPT ![c] = None]
  /\ pc' = [pc EXCEPT ![c] = "idle"]
  /\ UNCHANGED <<observers, message, refs, queue, poster, left, called>>

DispatchStep(c) ==
  DispatchPop(c) \/ LoadObservers(c) \/ Callback(c) \/ ReleasePayload(c) \/ DispatchDone(c)

Quiescent == \A m \in Messages : state[m] \in {"unused", "done"}
Idle == Quiescent /\ UNCHANGED vars

Next ==
  \/ \E tp \in Topics : AddObserver(tp)
  \/ \E p \in Producers :
       \/ \E m \in Messages, tp \in Topics, large \in BOOLEAN : Post(p, m, tp, large)
       \/ PostPush(p)
  \/ \E c \in Consumers : DispatchStep(c)
  \/ Idle

Spec == Init /\ [][Next]_vars

\* The consumers keep dispatching, and a producer that yields is scheduled.  Nothing keeps
\* others from taking the room before it each time: there is no queue of those who wait.
Fairness ==
  /\ \A p \in Producers : WF_vars(PostPush(p))
  /\ \A c \in Consumers : WF_vars(DispatchStep(c))

FairSpec == Spec /\ Fairness

-----------------------------------------------------------------------------
(* Properties *)

\* Every variable has its type.
TypeOK ==
  /\ observers \in [Topics -> 0 .. MaxObservers]
  /\ state \in [Messages -> {"unused", "pushing", "queued", "dispatched", "done"}]
  /\ topic \in [Messages -> Topics \cup {None}]
  /\ managed \in [Messages -> BOOLEAN]
  /\ refs \in [Messages -> 0 .. MaxCount]
  /\ queue \in Seq(Messages) /\ Len(queue) <= Capacity
  /\ poster \in [Producers -> Messages \cup {None}]
  /\ taken \in [Consumers -> Messages \cup {None}]
  /\ pc \in [Consumers -> {"idle", "load", "call", "release"}]
  /\ left \in [Consumers -> 0 .. MaxObservers]
  /\ called \in [Messages -> 0 .. MaxObservers]

\* A payload is alive while a callback reads it and when it is released
\* (eventqueue_broadcast.h:30: "freed after last observer completes").
PayloadAlive ==
  \A c \in Consumers :
    /\ pc[c] = "call" /\ left[c] > 0 /\ managed[taken[c]] => refs[taken[c]] > 0
    /\ pc[c] = "release" /\ managed[taken[c]] => refs[taken[c]] > 0

\* The payload of a dispatched message is freed by then, and not before each
\* observer of its topic had it.
FreedByLastObserver ==
  \A m \in Messages :
    /\ state[m] = "done" => refs[m] = 0
    /\ managed[m] /\ refs[m] = 0 /\ ~ LateObservers => called[m] = observers[topic[m]]

\* The refinement mapping: the observers a posted message is for, and its payload.
audience == [m \in Messages |-> IF state[m] = "unused" THEN 0 ELSE observers[topic[m]]]
payload == [m \in Messages |->
              IF state[m] = "unused" THEN "none"
              ELSE IF ~ managed[m] THEN "inline"
              ELSE IF refs[m] > 0 THEN "alive" ELSE "freed"]

Promise == INSTANCE Broadcast WITH MaxAudience <- MaxObservers, heard <- called

\* With the observers registered before the first post, the queue keeps the promises
\* of module Broadcast: the list that post counts is the one dispatchOne calls.
ImplementsBroadcast == Promise!Spec

\* A post that finds the ring full waits and its message gets to the observers in the
\* end: it is not dropped, and it is dispatched (post, dispatchOne).  This is for a finite
\* number of posts, which Messages bounds: then room stays for the last of those that
\* compete for it.  A producer that others overtake for ever is promised nothing.
PostDelivers ==
  \A m \in Messages : state[m] = "pushing" ~> state[m] = "done"
=============================================================================
