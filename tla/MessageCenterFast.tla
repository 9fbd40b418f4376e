-------------------------- MODULE MessageCenterFast --------------------------
(***************************************************************************)
(* The MessageCenterFast of src/src/messagecenter_fast.h: posts go through *)
(* a lock-free ring to one dispatch thread, which start creates and stop   *)
(* joins; flush waits until the counters of posted and dispatched messages *)
(* agree.                                                                  *)
(*                                                                         *)
(* The ring is that of module Ring; the pool hands out a message nobody    *)
(* holds, which ObjectPoolLockFree promises if one thread acquires         *)
(* (NoSharing): with several posters that is an assumption.  Messages are  *)
(* numbered in the order they are acquired.  The observers of a topic are  *)
(* told apart by their place in its list.  One thread, the controller,     *)
(* starts, stops and destroys the center; a callback may post.             *)
(***************************************************************************)
EXTENDS Integers, FiniteSets, Ring

CONSTANTS
  Clients,       \* threads that add observers and post
  Flushers,      \* threads that call flush
  Worker,        \* the dispatch thread, as the caller of post in a callback
  Ids,           \* the ids below MC_FAST_MAX_TOPICS
  Capacity,      \* MC_FAST_QUEUE_SIZE
  MaxPosts,      \* bound: the messages acquired
  MaxObservers,  \* bound: the observers of a topic
  MaxStarts      \* bound: the threads start creates

ASSUME ThreadsAssumption == Worker \notin Clients \cup Flushers
ASSUME CapacityAssumption == Capacity \in Nat \ {0, 1}
ASSUME BoundsAssumption ==
  MaxPosts \in Nat /\ MaxObservers \in Nat /\ MaxStarts \in Nat

Posters == Clients \cup {Worker}
Threads == Posters \cup Flushers
Messages == 1 .. MaxPosts

VARIABLES
  observers,     \* the length of each m_observers[id]
  ring,          \* m_queue
  topic,         \* msg->topicId
  posted, dispatched,   \* m_posted, m_dispatched
  running, stopping,    \* m_running, m_stopping
  pc,            \* where each thread is in post or flush
  pmsg,          \* the message a thread posts; 0 for none
  seen,          \* the value of m_posted that flush loaded
  wpc,           \* where the dispatch thread is in dispatchLoop
  draining,      \* it is in the second loop
  wmsg,          \* the message it dispatches; 0 for none
  left,          \* the callbacks it has still to run
  cpc,           \* where the controller is in stop
  alive,         \* the object has not been deleted
  starts,        \* history: the threads created
  accepted,      \* history: the messages whose post was counted, and returns true
  finished,      \* history: the messages counted as dispatched
  due,           \* history: the observers of the topic when a post began
  called,        \* history: the callbacks that got a message
  before,        \* history: what was accepted when the last stop was requested
  stalled,       \* history: what was claimed and not published at the last exit
  counted        \* history: what was accepted when flush loaded m_posted

counters == <<posted, dispatched, accepted, finished>>
message == <<topic, due, called>>
posting == <<pc, pmsg, seen, counted>>
worker == <<draining, wmsg, left, stalled>>
dispatching == <<wpc, worker>>
lifecycle == <<running, stopping, cpc, alive, starts, before>>
vars == <<observers, ring, counters, message, posting, dispatching, lifecycle>>

Init ==
  /\ observers = [id \in Ids |-> 0]
  /\ ring = << >>
  /\ topic = << >> /\ due = << >> /\ called = << >>
  /\ posted = 0 /\ dispatched = 0 /\ accepted = {} /\ finished = {}
  /\ running = FALSE /\ stopping = FALSE /\ cpc = "idle" /\ alive = TRUE
  /\ starts = 0 /\ before = {}
  /\ pc = [t \in Threads |-> "idle"]
  /\ pmsg = [t \in Posters |-> 0]
  /\ seen = [t \in Flushers |-> 0]
  /\ counted = [t \in Flushers |-> {}]
  /\ wpc = "none" /\ draining = FALSE /\ wmsg = 0 /\ left = 0 /\ stalled = {}

Goto(t, l) == pc' = [pc EXCEPT ![t] = l]

\* A client between calls, or the dispatch thread in a callback.
MayCall(t) == alive /\ pc[t] = "idle" /\ (t = Worker => wpc = "run")

\* m_cv.notify_one and notify_all: only a thread that is blocked notices.
Notify == wpc' = IF wpc = "asleep" THEN "wait" ELSE wpc

-----------------------------------------------------------------------------
(* addObserver *)

\* m_observerMutex is held while callbacks run: a callback cannot add an observer.
AddObserver(t, id) ==
  /\ MayCall(t) /\ t # Worker
  /\ wpc \notin {"call", "run"}
  /\ observers[id] < MaxObservers
  /\ observers' = [observers EXCEPT ![id] = @ + 1]
  /\ UNCHANGED <<ring, counters, message, posting, dispatching, lifecycle>>

-----------------------------------------------------------------------------
(* post *)

\* A message is acquired and filled.  Posting to a name is posting to its id.  post does
\* not look at m_stopping: it is accepted while stop waits and the thread drains.  MaxPosts
\* bounds these posts too, which the code does not (StopReturns says what rests on it).
PostBegin(t, id) ==
  /\ MayCall(t)
  /\ Len(topic) < MaxPosts
  /\ topic' = Append(topic, id)
  /\ due' = Append(due, observers[id])
  /\ called' = Append(called, 0)
  /\ pmsg' = [pmsg EXCEPT ![t] = Len(topic) + 1]
  /\ Goto(t, "push")
  /\ UNCHANGED <<observers, ring, counters, seen, counted, dispatching, lifecycle>>

\* try_push claims a position; a slot that the dispatch thread is still reading is
\* not free.
Room == Len(ring) + (IF wpc = "copy" THEN 1 ELSE 0) < Capacity

PostClaim(t) ==
  /\ pc[t] = "push"
  /\ Room
  /\ ring' = Claim(ring, pmsg[t])
  /\ Goto(t, "publish")
  /\ UNCHANGED <<observers, counters, message, pmsg, seen, counted, dispatching, lifecycle>>

\* try_push returns false: the message goes back to the pool, post returns false.
PostFails(t) ==
  /\ pc[t] = "push"
  /\ ~ Room
  /\ pmsg' = [pmsg EXCEPT ![t] = 0]
  /\ Goto(t, "idle")
  /\ UNCHANGED <<observers, ring, counters, message, seen, counted, dispatching, lifecycle>>

PostPublish(t) ==
  /\ pc[t] = "publish"
  /\ ring' = Publish(ring, pmsg[t])
  /\ Goto(t, "count")
  /\ UNCHANGED <<observers, counters, message, pmsg, seen, counted, dispatching, lifecycle>>

\* The message is counted after it was pushed, perhaps after it was dispatched.
PostCount(t) ==
  /\ pc[t] = "count"
  /\ posted' = posted + 1
  /\ accepted' = accepted \cup {pmsg[t]}
  /\ Notify
  /\ pmsg' = [pmsg EXCEPT ![t] = 0]
  /\ Goto(t, "idle")
  /\ UNCHANGED <<observers, ring, dispatched, finished, message, seen, counted,
                 worker, lifecycle>>

-----------------------------------------------------------------------------
(* flush *)

FlushBegin(t) ==
  /\ MayCall(t)
  /\ Goto(t, "load")
  /\ UNCHANGED <<observers, ring, counters, message, pmsg, seen, counted, dispatching, lifecycle>>

\* pending() loads m_posted and m_dispatched, in an order that C++ leaves open.
FlushLoad(t) ==
  /\ pc[t] = "load"
  /\ \/ /\ seen' = [seen EXCEPT ![t] = posted]
        /\ counted' = [counted EXCEPT ![t] = accepted]
        /\ Goto(t, "dispatched")
     \/ /\ seen' = [seen EXCEPT ![t] = dispatched]
        /\ Goto(t, "posted")
        /\ UNCHANGED counted
  /\ UNCHANGED <<observers, ring, counters, message, pmsg, dispatching, lifecycle>>

FlushLeave(t, l) ==
  /\ Goto(t, l)
  /\ seen' = [seen EXCEPT ![t] = 0]
  /\ counted' = [counted EXCEPT ![t] = {}]
  /\ UNCHANGED <<observers, ring, counters, message, pmsg, lifecycle>>

\* The second load, and whether the unsigned difference is zero.
Second(t) == IF pc[t] = "posted" THEN posted ELSE dispatched
Agree(t) == pc[t] \in {"posted", "dispatched"} /\ seen[t] = Second(t)
Differ(t) == pc[t] \in {"posted", "dispatched"} /\ seen[t] # Second(t)

FlushReturns(t) ==
  /\ Agree(t)
  /\ FlushLeave(t, "idle")
  /\ UNCHANGED dispatching

\* They differ, in whatever direction: notify and look again ...
FlushAgain(t) ==
  /\ Differ(t)
  /\ FlushLeave(t, "load")
  /\ Notify
  /\ UNCHANGED worker

\* ... until the deadline.
FlushTimeout(t) ==
  /\ Differ(t)
  /\ FlushLeave(t, "idle")
  /\ UNCHANGED dispatching

-----------------------------------------------------------------------------
(* dispatchLoop and dispatch *)

rest == <<observers, posting, lifecycle>>

\* Mutant of CheckStopping: the second loop is missing.
CheckStoppingExits ==
  /\ wpc = "check"
  /\ wpc' = IF stopping THEN "exited" ELSE "pop"
  /\ UNCHANGED <<rest, ring, counters, message, worker>>

\* The condition of the first loop; when it fails the second loop begins.
CheckStopping ==
  /\ wpc = "check"
  /\ draining' = stopping
  /\ wpc' = "pop"
  /\ UNCHANGED <<rest, ring, counters, message, wmsg, left, stalled>>

PopTake ==
  /\ wpc = "pop"
  /\ Poppable(ring)
  /\ wmsg' = Head(ring).item
  /\ ring' = Tail(ring)
  /\ wpc' = "copy"
  /\ UNCHANGED <<rest, counters, message, draining, left, stalled>>

\* Mutant of DispatchBegin: the message is counted before its callbacks run.
DispatchBeginCounts ==
  /\ wpc = "copy"
  /\ left' = observers[topic[wmsg]]
  /\ wpc' = "call"
  /\ dispatched' = dispatched + 1
  /\ finished' = finished \cup {wmsg}
  /\ UNCHANGED <<rest, ring, posted, accepted, message, draining, wmsg, stalled>>

\* The slot is free; dispatch locks the observers.
DispatchBegin ==
  /\ wpc = "copy"
  /\ left' = observers[topic[wmsg]]
  /\ wpc' = "call"
  /\ UNCHANGED <<rest, ring, counters, message, draining, wmsg, stalled>>

Callback ==
  /\ wpc = "call"
  /\ left > 0
  /\ called' = [called EXCEPT ![wmsg] = @ + 1]
  /\ wpc' = "run"
  /\ UNCHANGED <<rest, ring, counters, topic, due, worker>>

\* Mutant of CallbackReturns: the first callback is the only one.
CallbackReturnsLast ==
  /\ wpc = "run"
  /\ pc[Worker] = "idle"
  /\ left' = 0
  /\ wpc' = "call"
  /\ UNCHANGED <<rest, ring, counters, message, draining, wmsg, stalled>>

CallbackReturns ==
  /\ wpc = "run"
  /\ pc[Worker] = "idle"
  /\ left' = left - 1
  /\ wpc' = "call"
  /\ UNCHANGED <<rest, ring, counters, message, draining, wmsg, stalled>>

\* The message is reset, released and counted.
DispatchEnd ==
  /\ wpc = "call"
  /\ left = 0
  /\ dispatched' = dispatched + 1
  /\ finished' = finished \cup {wmsg}
  /\ wmsg' = 0
  /\ wpc' = IF draining THEN "pop" ELSE "check"
  /\ UNCHANGED <<rest, ring, posted, accepted, message, draining, left, stalled>>

\* Mutant of PopFails: the second loop does not end.
PopFailsDrains ==
  /\ wpc = "pop"
  /\ ~ Poppable(ring)
  /\ wpc' \in IF draining THEN {"pop"} ELSE {"check", "wait"}
  /\ UNCHANGED <<rest, ring, counters, message, worker>>

\* try_pop returns false: the second loop ends; the first yields, or waits after
\* a hundred failures.
PopFails ==
  /\ wpc = "pop"
  /\ ~ Poppable(ring)
  /\ wpc' \in IF draining THEN {"exited"} ELSE {"check", "wait"}
  /\ stalled' = IF draining THEN Stalled(ring) ELSE stalled
  /\ UNCHANGED <<rest, ring, counters, message, draining, wmsg, left>>

\* The predicate of wait_for.  Nobody who makes it true holds m_cvMutex, so that it
\* can become true, and be notified, before the thread is blocked.
WaitTest ==
  /\ wpc = "wait"
  /\ wpc' = IF stopping \/ ring # << >> THEN "check" ELSE "block"
  /\ UNCHANGED <<rest, ring, counters, message, worker>>

Block ==
  /\ wpc = "block"
  /\ wpc' = "asleep"
  /\ UNCHANGED <<rest, ring, counters, message, worker>>

\* Mutant of Timeout: wait in place of wait_for.
TimeoutNever ==
  /\ wpc = "asleep"
  /\ FALSE
  /\ wpc' = "check"
  /\ UNCHANGED <<rest, ring, counters, message, worker>>

Timeout ==
  /\ wpc = "asleep"
  /\ wpc' = "check"
  /\ UNCHANGED <<rest, ring, counters, message, worker>>

-----------------------------------------------------------------------------
(* start, stop, the destructor *)

Start ==
  /\ alive /\ cpc = "idle" /\ ~ running
  /\ starts < MaxStarts
  /\ stopping' = FALSE /\ running' = TRUE
  /\ wpc' = "check" /\ draining' = FALSE
  /\ starts' = starts + 1
  /\ before' = {} /\ stalled' = {}
  /\ UNCHANGED <<observers, ring, counters, message, posting, wmsg, left, cpc, alive>>

StopRequest ==
  /\ cpc = "idle" /\ running
  /\ stopping' = TRUE
  /\ Notify
  /\ before' = accepted
  /\ cpc' = "join"
  /\ UNCHANGED <<observers, ring, counters, message, posting, worker,
                 running, alive, starts>>

\* Mutant of StopJoin: the thread is detached.
StopDetach ==
  /\ cpc = "join"
  /\ wpc' = "none"
  /\ running' = FALSE
  /\ cpc' = "idle"
  /\ UNCHANGED <<observers, ring, counters, message, posting, worker,
                 stopping, alive, starts, before>>

StopJoin ==
  /\ cpc = "join"
  /\ wpc = "exited"
  /\ wpc' = "none"
  /\ running' = FALSE
  /\ cpc' = "idle"
  /\ UNCHANGED <<observers, ring, counters, message, posting, worker,
                 stopping, alive, starts, before>>

\* DisposeDefaultMessageCenter after its stop, when no other thread is in a call.
Destroy ==
  /\ alive /\ cpc = "idle" /\ ~ running
  /\ \A t \in Threads : pc[t] = "idle"
  /\ alive' = FALSE
  /\ UNCHANGED <<observers, ring, counters, message, posting, dispatching,
                 running, stopping, cpc, starts, before>>

Destroyed == ~ alive /\ UNCHANGED vars

-----------------------------------------------------------------------------

PostStep(t) == PostClaim(t) \/ PostFails(t) \/ PostPublish(t) \/ PostCount(t)
FlushStep(t) ==
  FlushLoad(t) \/ FlushReturns(t) \/ FlushAgain(t) \/ FlushTimeout(t)
WorkerStep ==
  \/ CheckStopping \/ PopTake \/ DispatchBegin \/ Callback \/ CallbackReturns
  \/ DispatchEnd \/ PopFails \/ WaitTest \/ Block \/ Timeout

Next ==
  \/ \E t \in Posters :
       \/ \E id \in Ids : AddObserver(t, id) \/ PostBegin(t, id)
       \/ PostStep(t)
  \/ \E t \in Flushers : FlushBegin(t) \/ FlushStep(t)
  \/ WorkerStep
  \/ Start \/ StopRequest \/ StopJoin \/ Destroy \/ Destroyed

Spec == Init /\ [][Next]_vars

\* Threads that run keep running: the dispatch thread, a call of post, and stop.
Fairness ==
  /\ WF_vars(WorkerStep)
  /\ \A t \in Posters : WF_vars(PostStep(t))
  /\ WF_vars(StopJoin)

FairSpec == Spec /\ Fairness

-----------------------------------------------------------------------------
(* Properties *)

\* Every variable has its type; the ring never holds more than its slots.
TypeOK ==
  /\ observers \in [Ids -> 0 .. MaxObservers]
  /\ Len(ring) <= Capacity
  /\ \A k \in DOMAIN ring : ring[k] \in [item : DOMAIN topic, ready : BOOLEAN]
  /\ topic \in Seq(Ids) /\ Len(topic) <= MaxPosts
  /\ DOMAIN due = DOMAIN topic /\ DOMAIN called = DOMAIN topic
  /\ posted = Cardinality(accepted) /\ dispatched = Cardinality(finished)
  /\ accepted \subseteq DOMAIN topic /\ finished \subseteq DOMAIN topic
  /\ before \subseteq accepted /\ stalled \subseteq DOMAIN topic
  /\ pc \in [Threads -> {"idle", "push", "publish", "count", "load", "posted", "dispatched"}]
  /\ pmsg \in [Posters -> DOMAIN topic \cup {0}]
  /\ seen \in [Flushers -> 0 .. MaxPosts]
  /\ counted \in [Flushers -> SUBSET accepted]
  /\ wpc \in {"none", "check", "pop", "copy", "call", "run", "wait", "block",
              "asleep", "exited"}
  /\ wmsg \in DOMAIN topic \cup {0} /\ (wmsg # 0 <=> wpc \in {"copy", "call", "run"})
  /\ left \in 0 .. MaxObservers
  /\ draining \in BOOLEAN /\ running \in BOOLEAN /\ stopping \in BOOLEAN
  /\ alive \in BOOLEAN /\ cpc \in {"idle", "join"} /\ starts \in 0 .. MaxStarts

\* When stop has joined the thread, a message that was accepted before stop was
\* called has been dispatched, unless it is behind an entry of the ring that was
\* claimed and not published when the thread took its last look (dispatchLoop).
StopDrains ==
  starts > 0 /\ wpc \in {"exited", "none"} =>
    \A m \in before \ finished :
      \E j, k \in DOMAIN ring : j < k /\ ring[k].item = m /\ ring[j].item \in stalled

\* A dispatched message ran the callbacks of every observer that was there when its
\* post began, and each at most once (dispatch).
EachObserverOnce ==
  \A m \in finished : due[m] <= called[m] /\ called[m] <= observers[topic[m]]

\* What m_posted counted when flush loaded it, or loads it now.
Counted(t) == IF pc[t] = "posted" THEN accepted ELSE counted[t]

\* A flush that returns before its deadline tells its caller that the callbacks of
\* every message that was counted as posted by then have run, unless a message that
\* was not yet counted as posted was already counted as dispatched (post counts
\* after the push).
FlushTells ==
  [][\A t \in Flushers :
       FlushReturns(t) /\ finished \subseteq Counted(t) =>
         \A m \in Counted(t) : m # wmsg /\ called[m] >= due[m]]_vars

\* A message in the ring is dispatched while the thread is not stopped: neither a
\* notification lost between the test and the wait nor a producer that is slow to
\* publish delays it for good (wait_for has a timeout).
Delivered ==
  \A m \in Messages :
    m \in Items(ring) /\ running /\ ~ stopping ~> m \in finished \/ stopping

\* No post is under way.
Quiet == \A t \in Posters : pc[t] = "idle"

\* After a request to stop the thread leaves its first loop, although the notification may
\* be lost and whatever is posted.  stop returns if posting comes to an end: the second
\* loop runs for as long as there is something to pop, so that producers, or a callback,
\* that post for ever may keep stop waiting (dispatchLoop, stop).
StopReturns ==
  /\ cpc = "join" ~> draining
  /\ <>[]Quiet => (cpc = "join" ~> cpc = "idle")
=============================================================================
