----------------------------- MODULE EventQueue -----------------------------
(***************************************************************************)
(* The mutex-based publish/subscribe queue of src/src/eventqueue.h and     *)
(* eventqueue.cpp: observers per topic, the message queue, and Dispatch    *)
(* with the protocol by which RemoveObserver waits for running handlers.   *)
(*                                                                         *)
(* Each critical section is one action, and an operation is one action     *)
(* when its other critical sections commute with the steps of the other    *)
(* threads: AddObserver is RegisterTopic (an action by itself, too), the   *)
(* choice of an id nobody else has seen, and the insertion; Post and       *)
(* RemoveObserver resolve a topic and then act on its id.  The three kinds *)
(* of callback are one set of handlers.  Registering a handler creates a   *)
(* descriptor with a fresh observer id, which stands for it: the           *)
(* descriptor never changes, and a snapshot holds a copy.  The observers   *)
(* of a topic are a set: in which order they get a message is left open,   *)
(* as concurrent calls of AddObserver may insert their ids in any order.   *)
(*                                                                         *)
(* Client threads call the public operations; dispatcher threads take      *)
(* messages and run handlers, and a running handler may call the public    *)
(* operations too.                                                         *)
(***************************************************************************)
EXTENDS Integers, Sequences, FiniteSets

CONSTANTS
  Clients, Dispatchers,
  Topics,       \* topic names
  Handlers,     \* callbacks
  Messages,     \* the messages that can be posted; bounds the posts
  None,
  MaxTopics,    \* MAX_TOPICS
  MaxId,        \* bound: the observer ids given out and the calls of ClearTopics
  MaxClears     \* bound: the calls of ClearTopics

ASSUME ThreadsAssumption ==
  Clients \cap Dispatchers = {} /\ IsFiniteSet(Dispatchers)
ASSUME BoundsAssumption == MaxTopics \in Nat \ {0} /\ MaxId \in Nat /\ MaxClears \in Nat

Threads == Clients \cup Dispatchers
TopicIds == 0 .. MaxTopics - 1
NoTopic == -1   \* any negative result of ResolveTopic and RegisterTopic
Ids == 1 .. MaxId

ASSUME NoneAssumption == None \notin Messages \cup Ids /\ None \notin Topics \X Handlers

VARIABLES
  resolve,     \* m_topicsResolveMap, and NoTopic for the names not in it
  topicMax,    \* m_topicMax
  observers,   \* m_topicObservers: the observer ids of each topic id
  nextId,      \* m_nextObserverId
  queue,       \* m_messageQueue
  active,      \* m_activeDispatches
  pc,          \* where each thread is
  cur,         \* the message a dispatcher is dispatching
  todo,        \* the part of observersSnapshot not yet reached
  running,     \* the observer whose handler a dispatcher is running
  tid,         \* message->tid, for the messages that were queued
  payload,     \* the state of message->obj and message->cleanupPayload
  clears,      \* history: the calls of ClearTopics so far
  owner,       \* of each observer id: the topic name and the handler it was given to
  removing,    \* history: the ids a pending RemoveObserver has removed
  gone,        \* history: the ids removed by calls that waited and returned
  due,         \* history: the ids observing the topic when a message was posted
  ran          \* history: how often a message was passed to each id

registry == <<resolve, topicMax, clears>>
registrations == <<observers, nextId, owner>>
waiting == <<removing, gone>>
messages == <<tid, payload, due>>
dispatching == <<active, cur, todo, running, ran>>
vars == <<registry, registrations, queue, pc, waiting, messages, dispatching>>

Init ==
  /\ resolve = [tp \in Topics |-> NoTopic]
  /\ topicMax = 0
  /\ clears = 0
  /\ observers = [id \in TopicIds |-> {}]
  /\ nextId = 1
  /\ queue = << >>
  /\ active = 0
  /\ pc = [t \in Threads |-> IF t \in Clients THEN "idle" ELSE "ready"]
  /\ cur = [w \in Dispatchers |-> None]
  /\ todo = [w \in Dispatchers |-> {}]
  /\ running = [w \in Dispatchers |-> None]
  /\ tid = [m \in Messages |-> None]
  /\ payload = [m \in Messages |-> "unused"]
  /\ owner = [i \in Ids |-> None]
  /\ removing = [t \in Threads |-> {}]
  /\ gone = {}
  /\ due = [m \in Messages |-> {}]
  /\ ran = [m \in Messages |-> [i \in Ids |-> 0]]

Goto(t, l) == pc' = [pc EXCEPT ![t] = l]

\* A client between calls, or a dispatcher whose handler is running.
MayCall(t) == pc[t] \in {"idle", "run"}

\* tl_inDispatch, set by MarkDispatchActive and reset by MarkDispatchComplete.
InDispatch(t) == pc[t] \in {"invoke", "run"}

-----------------------------------------------------------------------------
(* The public operations *)

\* The id RegisterTopic returns, and the registry it leaves: a new name gets
\* the next id unless the registry is full.
TopicId(tp) ==
  IF resolve[tp] # NoTopic THEN resolve[tp]
  ELSE IF topicMax < MaxTopics THEN topicMax
  ELSE NoTopic

\* Mutant of Register: the counter grows past the end of a full registry.
RegisterPastEnd(tp) ==
  /\ resolve' = [resolve EXCEPT ![tp] = TopicId(tp)]
  /\ topicMax' = IF resolve[tp] = NoTopic THEN topicMax + 1 ELSE topicMax
  /\ UNCHANGED clears

Register(tp) ==
  /\ resolve' = [resolve EXCEPT ![tp] = TopicId(tp)]
  /\ topicMax' = IF resolve[tp] = NoTopic /\ topicMax < MaxTopics
                   THEN topicMax + 1 ELSE topicMax
  /\ UNCHANGED clears

RegisterTopic(t, tp) ==
  /\ MayCall(t)
  /\ Register(tp)
  /\ UNCHANGED <<registrations, queue, pc, waiting, messages, dispatching>>

\* Bound: what is registered and what is cleared, together.
WithinBound == nextId + clears <= MaxId

\* The ids are given out anew; the observers stay under the ids they have.
ClearTopics(t) ==
  /\ MayCall(t)
  /\ clears < MaxClears
  /\ WithinBound
  /\ resolve' = [tp \in Topics |-> NoTopic]
  /\ topicMax' = 0
  /\ clears' = clears + 1
  /\ UNCHANGED <<registrations, queue, pc, waiting, messages, dispatching>>

AddObserver(t, tp, h) ==
  /\ MayCall(t)
  /\ WithinBound
  /\ Register(tp)
  /\ IF TopicId(tp) = NoTopic
       THEN UNCHANGED registrations
       ELSE /\ nextId' = nextId + 1
            /\ observers' = [observers EXCEPT ![TopicId(tp)] = @ \cup {nextId}]
            /\ owner' = [owner EXCEPT ![nextId] = <<tp, h>>]
  /\ UNCHANGED <<queue, pc, waiting, messages, dispatching>>

\* Post to a name is Post to the id it resolves to.  A topic that has no id
\* gets nothing: the payload is not even freed.
Post(t, m, id, cleanup) ==
  /\ MayCall(t)
  /\ payload[m] = "unused"
  /\ payload' = [payload EXCEPT ![m] = IF cleanup THEN "owned" ELSE "borrowed"]
  /\ IF id = NoTopic
       THEN UNCHANGED <<queue, tid, due>>
       ELSE /\ queue' = Append(queue, m)
            /\ tid' = [tid EXCEPT ![m] = id]
            /\ due' = [due EXCEPT ![m] = observers[id]]
  /\ UNCHANGED <<registry, registrations, pc, waiting, dispatching>>

\* dispose: the messages and descriptors are deleted, the payloads are not.
Dispose(t) ==
  /\ MayCall(t)
  /\ queue' = << >>
  /\ payload' = [m \in Messages |->
                   IF payload[m] = "owned" /\ \E k \in 1 .. Len(queue) : queue[k] = m
                     THEN "lost" ELSE payload[m]]
  /\ observers' = [id \in TopicIds |-> {}]
  /\ UNCHANGED <<registry, nextId, owner, pc, waiting, tid, due, dispatching>>

\* Erase descriptors from the topic that a name resolves to.
Erase(tp, ids) ==
  observers' = [id \in TopicIds |->
                  IF id = resolve[tp] THEN observers[id] \ ids ELSE observers[id]]

\* Mutant of StartWaiting: no call waits.
StartWaitingNever(t, ids) ==
  /\ gone' = gone \cup ids
  /\ UNCHANGED <<pc, removing>>

\* The end of RemoveObserver: a handler returns at once, any other caller
\* waits for the dispatches that are active.
StartWaiting(t, ids) ==
  IF InDispatch(t)
    THEN UNCHANGED <<pc, waiting>>
    ELSE /\ removing' = [removing EXCEPT ![t] = ids]
         /\ Goto(t, "wait")
         /\ UNCHANGED gone

\* Every descriptor of the handler is erased.
RemoveObserver(t, tp, h) ==
  /\ MayCall(t)
  /\ Erase(tp, {i \in Ids : owner[i] # None /\ owner[i][2] = h})
  /\ StartWaiting(t, {i \in Ids : owner[i] = <<tp, h>>})
  /\ UNCHANGED <<registry, nextId, owner, queue, messages, dispatching>>

RemoveObserverById(t, tp, i) ==
  /\ MayCall(t)
  /\ Erase(tp, {i})
  /\ StartWaiting(t, {j \in {i} : owner[j] # None /\ owner[j][1] = tp})
  /\ UNCHANGED <<registry, nextId, owner, queue, messages, dispatching>>

\* The predicate of m_cvDispatches.wait holds.
WaitReturn(t) ==
  /\ pc[t] = "wait"
  /\ active = 0
  /\ Goto(t, "idle")
  /\ gone' = gone \cup removing[t]
  /\ removing' = [removing EXCEPT ![t] = {}]
  /\ UNCHANGED <<registry, registrations, queue, messages, dispatching>>

WaitSleep(t) ==
  /\ pc[t] = "wait"
  /\ active # 0
  /\ Goto(t, "asleep")
  /\ UNCHANGED <<registry, registrations, queue, waiting, messages, dispatching>>

SpuriousWakeup(t) ==
  /\ pc[t] = "asleep"
  /\ Goto(t, "wait")
  /\ UNCHANGED <<registry, registrations, queue, waiting, messages, dispatching>>

-----------------------------------------------------------------------------
(* Dispatching *)

\* Mutant of GetQueueMessage: front without pop_front.
GetQueueMessagePeeks(w) ==
  /\ pc[w] = "ready"
  /\ queue # << >>
  /\ cur' = [cur EXCEPT ![w] = Head(queue)]
  /\ Goto(w, "dispatch")
  /\ UNCHANGED <<registry, registrations, queue, waiting, messages, active, todo, running, ran>>

\* GetQueueMessage returns the oldest message.
GetQueueMessage(w) ==
  /\ pc[w] = "ready"
  /\ queue # << >>
  /\ cur' = [cur EXCEPT ![w] = Head(queue)]
  /\ queue' = Tail(queue)
  /\ Goto(w, "dispatch")
  /\ UNCHANGED <<registry, registrations, waiting, messages, active, todo, running, ran>>

\* Dispatch copies the descriptors and calls MarkDispatchActive under one lock.
Snapshot(w) ==
  /\ pc[w] = "dispatch"
  /\ todo' = [todo EXCEPT ![w] = observers[tid[cur[w]]]]
  /\ active' = active + 1
  /\ Goto(w, "invoke")
  /\ UNCHANGED <<registry, registrations, queue, waiting, messages, cur, running, ran>>

InvokeHandler(w) ==
  /\ pc[w] = "invoke"
  /\ \E i \in todo[w] :
       /\ todo' = [todo EXCEPT ![w] = @ \ {i}]
       /\ running' = [running EXCEPT ![w] = i]
       /\ ran' = [ran EXCEPT ![cur[w]][i] = @ + 1]
  /\ Goto(w, "run")
  /\ UNCHANGED <<registry, registrations, queue, waiting, messages, active, cur>>

\* Mutant of HandlerReturns: only the first observer gets the message.
HandlerReturnsOnce(w) ==
  /\ pc[w] = "run"
  /\ todo' = [todo EXCEPT ![w] = {}]
  /\ running' = [running EXCEPT ![w] = None]
  /\ Goto(w, "invoke")
  /\ UNCHANGED <<registry, registrations, queue, waiting, messages, active, cur, ran>>

HandlerReturns(w) ==
  /\ pc[w] = "run"
  /\ running' = [running EXCEPT ![w] = None]
  /\ Goto(w, "invoke")
  /\ UNCHANGED <<registry, registrations, queue, waiting, messages, active, cur, todo, ran>>

\* Mutant of MarkDispatchComplete: the counter is tested before it is decremented.
MarkDispatchCompleteLate(w) ==
  /\ pc[w] = "invoke"
  /\ todo[w] = {}
  /\ active' = active - 1
  /\ pc' = [t \in Threads |->
              CASE t = w -> "cleanup"
                [] pc[t] = "asleep" /\ active = 0 -> "wait"
                [] OTHER -> pc[t]]
  /\ UNCHANGED <<registry, registrations, queue, waiting, messages, cur, todo, running, ran>>

\* MarkDispatchComplete: the last active dispatch wakes every waiting thread.
MarkDispatchComplete(w) ==
  /\ pc[w] = "invoke"
  /\ todo[w] = {}
  /\ active' = active - 1
  /\ pc' = [t \in Threads |->
              CASE t = w -> "cleanup"
                [] pc[t] = "asleep" /\ active' = 0 -> "wait"
                [] OTHER -> pc[t]]
  /\ UNCHANGED <<registry, registrations, queue, waiting, messages, cur, todo, running, ran>>

\* Mutant of Cleanup: only the message is deleted.
CleanupMessageOnly(w) ==
  /\ pc[w] = "cleanup"
  /\ cur' = [cur EXCEPT ![w] = None]
  /\ Goto(w, "ready")
  /\ UNCHANGED <<registry, registrations, queue, waiting, messages, active, todo, running, ran>>

\* The message, and the payload it owns, are deleted.
Cleanup(w) ==
  /\ pc[w] = "cleanup"
  /\ payload' = [payload EXCEPT ![cur[w]] = IF @ = "owned" THEN "deleted" ELSE @]
  /\ cur' = [cur EXCEPT ![w] = None]
  /\ Goto(w, "ready")
  /\ UNCHANGED <<registry, registrations, queue, waiting, tid, due, active, todo, running, ran>>

-----------------------------------------------------------------------------

Manage(t) ==
  \/ \E tp \in Topics : RegisterTopic(t, tp)
  \/ \E tp \in Topics, h \in Handlers : AddObserver(t, tp, h) \/ RemoveObserver(t, tp, h)
  \/ \E tp \in Topics, i \in Ids : RemoveObserverById(t, tp, i)
  \/ ClearTopics(t) \/ Dispose(t)

PostSome(t) ==
  \E m \in Messages, id \in TopicIds \cup {NoTopic}, c \in BOOLEAN : Post(t, m, id, c)

WaitStep(t) == WaitReturn(t) \/ WaitSleep(t)

DispatchStep(w) ==
  \/ Snapshot(w) \/ InvokeHandler(w) \/ HandlerReturns(w)
  \/ MarkDispatchComplete(w) \/ Cleanup(w)

Next ==
  \/ \E t \in Threads : Manage(t) \/ PostSome(t)
  \/ \E t \in Clients : WaitStep(t) \/ SpuriousWakeup(t)
  \/ \E w \in Dispatchers : GetQueueMessage(w) \/ DispatchStep(w)

Spec == Init /\ [][Next]_vars

-----------------------------------------------------------------------------
(* Properties *)

\* Every variable has its type.
TypeOK ==
  /\ resolve \in [Topics -> TopicIds \cup {NoTopic}]
  /\ topicMax \in 0 .. MaxTopics
  /\ clears \in 0 .. MaxClears
  /\ observers \in [TopicIds -> SUBSET Ids]
  /\ nextId \in 1 .. MaxId + 1
  /\ owner \in [Ids -> (Topics \X Handlers) \cup {None}]
  /\ queue \in Seq(Messages)
  /\ active \in Nat
  /\ pc \in [Threads -> {"idle", "wait", "asleep", "ready", "dispatch", "invoke", "run", "cleanup"}]
  /\ \A t \in Threads : t \in Clients <=> pc[t] \in {"idle", "wait", "asleep"}
  /\ cur \in [Dispatchers -> Messages \cup {None}]
  /\ todo \in [Dispatchers -> SUBSET Ids]
  /\ running \in [Dispatchers -> Ids \cup {None}]
  /\ tid \in [Messages -> TopicIds \cup {None}]
  /\ payload \in [Messages -> {"unused", "owned", "borrowed", "deleted", "lost"}]
  /\ removing \in [Threads -> SUBSET Ids]
  /\ gone \subseteq Ids
  /\ due \in [Messages -> SUBSET Ids]
  /\ ran \in [Messages -> [Ids -> Nat]]

\* The contract of eventqueue.h:118-124 for callers that are not handlers (a handler
\* must not wait for its own dispatch, so what it removed may still start): once
\* RemoveObserver has returned, no dispatch runs a removed handler or still
\* holds it in a snapshot, so it never starts again.  (ClearTopics voids it: a
\* name that no longer resolves removes nothing.)
RemovalContract ==
  clears = 0 =>
    \A w \in Dispatchers : todo[w] \cap gone = {} /\ running[w] \notin gone

\* A message that left the queue and was dispatched.
Dispatched(m) ==
  /\ tid[m] # None
  /\ \A i \in 1 .. Len(queue) : queue[i] # m
  /\ \A w \in Dispatchers : cur[w] # m \/ pc[w] = "cleanup"

\* A dispatched message has been passed once to each observer that was
\* registered when it was posted and still is, and only to observers of its
\* topic: observers come and go while snapshots are being worked through.
EveryObserverOnce ==
  \A m \in Messages :
    /\ Dispatched(m) => \A i \in due[m] \cap observers[tid[m]] : ran[m][i] = 1
    /\ \A i \in Ids :
         /\ ran[m][i] <= 1
         /\ ran[m][i] > 0 /\ clears = 0 => resolve[owner[i][1]] = tid[m]

\* No handler runs on a payload that was deleted, and a message is never in two
\* dispatches, nor dispatched again: its payload is deleted once.
PayloadSafe ==
  /\ \A w \in Dispatchers : cur[w] # None => payload[cur[w]] \in {"owned", "borrowed"}
  /\ \A v, w \in Dispatchers : v # w /\ cur[v] = cur[w] => cur[v] = None
  /\ \A i \in 1 .. Len(queue) : \A w \in Dispatchers : cur[w] # queue[i]

\* RemoveObserver returns, whatever is being dispatched, once posting pauses: no
\* wakeup of WaitForDispatchesToComplete is lost.
RemoveReturns ==
  \A t \in Clients : pc[t] \in {"wait", "asleep"} ~> pc[t] = "idle"

\* A payload handed over with a message that is dispatched gets deleted, however
\* many observers there are and whatever the handlers do.
PayloadDeleted ==
  \A m \in Messages, w \in Dispatchers :
    cur[w] = m /\ payload[m] = "owned" ~> payload[m] = "deleted"
=============================================================================
