-------------------------- MODULE EventQueueEmulator -------------------------
(***************************************************************************)
(* The EventQueueEmulator of src/src/eventqueue_emulator.h: critical       *)
(* messages wait in one ring and bulk messages in another, and a dispatch  *)
(* call takes from both as its policy says.                                *)
(*                                                                         *)
(* The rings are those of module Ring.  A message is an object of one of   *)
(* the two pools and is used again, so that posting never ends.  The ids   *)
(* of topics are those of module TopicRegistry; what tells topics apart    *)
(* here is their priority.  How observers are written and copied is in     *)
(* module EventQueueBroadcastFast, whose code this class repeats: here an  *)
(* observer is added in one step, to all topics.                           *)
(***************************************************************************)
EXTENDS Integers, FiniteSets, Ring

CONSTANTS
  FastProducers,    \* the threads that post to critical topics
  BulkProducers,    \* those that post to other topics; a thread may do both
  Consumers,
  PoliciesOf,       \* of each consumer: the dispatch functions it calls
  FastMessages,     \* the objects of m_fastPool; bounds the fast messages at a time
  BulkMessages,     \* those of m_bulkPool
  None,
  FastCapacity, BulkCapacity,
  MaxObservers,     \* EMU_MAX_OBSERVERS
  FastPerBulk       \* the argument of dispatchRatio

Policies == {"fast", "bulk", "priority", "all", "ratio"}
Messages == FastMessages \cup BulkMessages
Producers == FastProducers \cup BulkProducers

\* One thread acquires from each pool, which is what ObjectPoolLockFree needs to hand out
\* no object that is in use (NeverShared, with SoleAcquirer, of ObjectPoolLockFreeProofs).
SoleAcquirers ==
  /\ \A p, q \in FastProducers : p = q
  /\ \A p, q \in BulkProducers : p = q

ASSUME MessagesAssumption == FastMessages \cap BulkMessages = {} /\ None \notin Messages
ASSUME PoliciesAssumption == PoliciesOf \in [Consumers -> SUBSET Policies]
ASSUME SizesAssumption ==
  /\ FastCapacity \in Nat \ {0} /\ BulkCapacity \in Nat \ {0}
  /\ MaxObservers \in Nat \ {0} /\ FastPerBulk \in Nat

VARIABLES
  observers,   \* topic.observerCount
  fast, bulk,  \* m_fastQueue, m_bulkQueue
  state,       \* of each message: pooled, posting, queued, taken
  copied,      \* msg->observerCount
  managed,     \* ! msg->isInline: the payload is on the heap
  refs,        \* msg->managed->m_refCount; 0 when there is no payload
  ppc, pmsg,   \* where each producer is in a post, and its message
  cpc, cmsg,   \* where each consumer is in a dispatch, and its message
  policy,      \* the function it called
  left,        \* the callbacks it has still to run
  fastCount,   \* of dispatchRatio, up to FastPerBulk: only that much is looked at
  streak,      \* history: the fast messages dispatchRatio took since it last tried bulk,
               \* up to FastPerBulk + 2
  owed         \* history: the fast messages whose post had returned before the call,
               \* and that nobody has taken since

message == <<copied, managed>>
posting == <<ppc, pmsg>>
control == <<cpc, policy, fastCount, streak>>
vars == <<observers, fast, bulk, state, message, refs, posting, control, cmsg, left, owed>>

Init ==
  /\ observers = 0
  /\ fast = << >> /\ bulk = << >>
  /\ state = [m \in Messages |-> "pooled"]
  /\ copied = [m \in Messages |-> 0]
  /\ managed = [m \in Messages |-> FALSE]
  /\ refs = [m \in Messages |-> 0]
  /\ ppc = [p \in Producers |-> "idle"]
  /\ pmsg = [p \in Producers |-> None]
  /\ cpc = [c \in Consumers |-> "idle"]
  /\ cmsg = [c \in Consumers |-> None]
  /\ policy = [c \in Consumers |-> "all"]
  /\ left = [c \in Consumers |-> 0]
  /\ fastCount = [c \in Consumers |-> 0]
  /\ streak = [c \in Consumers |-> 0]
  /\ owed = [c \in Consumers |-> {}]

AddObserver ==
  /\ observers < MaxObservers
  /\ observers' = observers + 1
  /\ UNCHANGED <<fast, bulk, state, message, refs, posting, control, cmsg, left, owed>>

-----------------------------------------------------------------------------
(* postFast, postBulk *)

\* Mutant of PostRefs: addRefs is forgotten.
PostRefsOne(count) == 1

\* create gives the payload one reference, addRefs those of the other observers.
PostRefs(count) == 1 + (count - 1)

\* What acquire may return: an object of the pool or, when several threads acquire from it,
\* any other object, which then has two users (NoSharing of ObjectPoolLockFree is violated).
\* What these do to each other is not modelled any further.
Acquirable(m) == state[m] = "pooled" \/ ~ SoleAcquirers

\* A message is acquired and filled; without observers there is nothing to do.
Acquire(p, m, large) ==
  /\ ppc[p] = "idle"
  /\ observers > 0
  /\ Acquirable(m)
  /\ state' = [state EXCEPT ![m] = "posting"]
  /\ copied' = [copied EXCEPT ![m] = observers]
  /\ managed' = [managed EXCEPT ![m] = large]
  /\ refs' = [refs EXCEPT ![m] = IF large THEN PostRefs(observers) ELSE 0]
  /\ pmsg' = [pmsg EXCEPT ![p] = m]
  /\ ppc' = [ppc EXCEPT ![p] = "push"]
  /\ UNCHANGED <<observers, fast, bulk, control, cmsg, left, owed>>

\* A payload that is too large is refused, and nothing happens.
PostFast(p, m) == p \in FastProducers /\ m \in FastMessages /\ Acquire(p, m, FALSE)

\* A large payload has a reference for each observer.
PostBulk(p, m, large) ==
  p \in BulkProducers /\ m \in BulkMessages /\ Acquire(p, m, large)

\* post: a critical topic goes to the fast queue and is refused a large payload; any
\* other goes to the bulk queue.
Post(p, m, critical, large) ==
  IF critical THEN ~ large /\ PostFast(p, m) ELSE PostBulk(p, m, large)

\* The loop around try_push ends when there is room.
PushClaim(p) ==
  /\ ppc[p] = "push"
  /\ IF pmsg[p] \in FastMessages
       THEN Len(fast) < FastCapacity /\ fast' = Claim(fast, pmsg[p]) /\ UNCHANGED bulk
       ELSE Len(bulk) < BulkCapacity /\ bulk' = Claim(bulk, pmsg[p]) /\ UNCHANGED fast
  /\ ppc' = [ppc EXCEPT ![p] = "publish"]
  /\ UNCHANGED <<observers, state, message, refs, pmsg, control, cmsg, left, owed>>

PushPublish(p) ==
  /\ ppc[p] = "publish"
  /\ fast' = Publish(fast, pmsg[p]) /\ bulk' = Publish(bulk, pmsg[p])
  /\ state' = [state EXCEPT ![pmsg[p]] = "queued"]
  /\ pmsg' = [pmsg EXCEPT ![p] = None]
  /\ ppc' = [ppc EXCEPT ![p] = "idle"]
  /\ UNCHANGED <<observers, message, refs, control, cmsg, left, owed>>

-----------------------------------------------------------------------------
(* The dispatch functions.  A consumer is at "fast" or "bulk" when it is about to   *)
(* try that queue, and at "last" when dispatchRatio tries fast after an empty bulk. *)

Fewer(a, b) == IF a < b THEN a ELSE b

\* What dispatchRatio tries with n fast messages behind it.
RatioTries(n) == IF n < FastPerBulk THEN "fast" ELSE "bulk"

Goto(c, l) == cpc' = [cpc EXCEPT ![c] = l]

DispatchBegin(c, pol) ==
  /\ cpc[c] = "idle"
  /\ Goto(c, CASE pol = "ratio" -> RatioTries(0) [] pol = "bulk" -> "bulk" [] OTHER -> "fast")
  /\ policy' = [policy EXCEPT ![c] = pol]
  /\ owed' = [owed EXCEPT ![c] = {m \in FastMessages : state[m] = "queued"}]
  /\ UNCHANGED <<observers, fast, bulk, state, message, refs, posting, fastCount, streak,
                 cmsg, left>>

\* try_pop returns m.
Taken(c, m) ==
  /\ state' = [state EXCEPT ![m] = "taken"]
  /\ cmsg' = [cmsg EXCEPT ![c] = m]
  /\ left' = [left EXCEPT ![c] = copied[m]]
  /\ owed' = [d \in Consumers |-> owed[d] \ {m}]
  /\ UNCHANGED <<observers, message, refs, posting, policy, fastCount>>

TakeFast(c) ==
  /\ cpc[c] \in {"fast", "last"}
  /\ Poppable(fast)
  /\ Taken(c, Head(fast).item)
  /\ fast' = Tail(fast)
  /\ streak' = [streak EXCEPT ![c] = IF policy[c] = "ratio" THEN Fewer(@ + 1, FastPerBulk + 2) ELSE 0]
  /\ Goto(c, "callFast")
  /\ UNCHANGED bulk

TakeBulk(c) ==
  /\ cpc[c] = "bulk"
  /\ Poppable(bulk)
  /\ Taken(c, Head(bulk).item)
  /\ bulk' = Tail(bulk)
  /\ streak' = [streak EXCEPT ![c] = 0]
  /\ Goto(c, "callBulk")
  /\ UNCHANGED fast

\* try_pop returns false.
TakeFails(c) ==
  /\ \/ cpc[c] \in {"fast", "last"} /\ ~ Poppable(fast)
     \/ cpc[c] = "bulk" /\ ~ Poppable(bulk)
  /\ Goto(c, CASE cpc[c] = "fast" /\ policy[c] # "fast" -> "bulk"
               [] cpc[c] = "bulk" /\ policy[c] = "ratio" -> "last"
               [] OTHER -> "idle")
  /\ streak' = [streak EXCEPT ![c] = IF cpc[c] = "fast" /\ policy[c] # "fast" THEN @ ELSE 0]
  /\ owed' = [owed EXCEPT ![c] = IF cpc'[c] = "idle" THEN {} ELSE @]
  /\ fastCount' = [fastCount EXCEPT ![c] = IF cpc'[c] = "idle" THEN 0 ELSE @]
  /\ UNCHANGED <<observers, fast, bulk, state, message, refs, posting, policy, cmsg, left>>

\* A callback; a large payload is then released.
Callback(c) ==
  /\ cpc[c] \in {"callFast", "callBulk"}
  /\ left[c] > 0
  /\ left' = [left EXCEPT ![c] = @ - 1]
  /\ Goto(c, IF managed[cmsg[c]] THEN "release" ELSE cpc[c])
  /\ UNCHANGED <<observers, fast, bulk, state, message, refs, posting, policy, fastCount, streak,
                 cmsg, owed>>

\* The last release deletes the payload.
ReleasePayload(c) ==
  /\ cpc[c] = "release"
  /\ refs' = [refs EXCEPT ![cmsg[c]] = @ - 1]
  /\ Goto(c, "callBulk")
  /\ UNCHANGED <<observers, fast, bulk, state, message, posting, policy, fastCount, streak,
                 cmsg, left, owed>>

\* The message goes back to its pool, and the function goes on at l.
DispatchEnd(c, l) ==
  /\ left[c] = 0
  /\ state' = [state EXCEPT ![cmsg[c]] = "pooled"]
  /\ copied' = [copied EXCEPT ![cmsg[c]] = 0]
  /\ managed' = [managed EXCEPT ![cmsg[c]] = FALSE]
  /\ cmsg' = [cmsg EXCEPT ![c] = None]
  /\ Goto(c, l)
  /\ owed' = [owed EXCEPT ![c] = IF l = "idle" THEN {} ELSE @]
  /\ UNCHANGED <<observers, fast, bulk, refs, posting, policy, left>>

\* Mutant of FastEnd: the loop of dispatchPriority and dispatchAll is an if.
FastEndOnce(c) ==
  /\ cpc[c] = "callFast"
  /\ fastCount' = [fastCount EXCEPT ![c] = IF policy[c] = "ratio" THEN Fewer(@ + 1, FastPerBulk) ELSE 0]
  /\ DispatchEnd(c, CASE policy[c] = "fast" -> "idle"
                      [] policy[c] = "ratio" -> RatioTries(fastCount'[c])
                      [] OTHER -> "bulk")
  /\ UNCHANGED streak

\* Mutant of FastEnd: dispatchRatio does not count.
FastEndUncounted(c) ==
  /\ cpc[c] = "callFast"
  /\ DispatchEnd(c, CASE policy[c] = "fast" -> "idle"
                      [] policy[c] = "ratio" -> RatioTries(fastCount[c])
                      [] OTHER -> "fast")
  /\ UNCHANGED <<fastCount, streak>>

\* After a fast message: the drain loops look for another one.
FastEnd(c) ==
  /\ cpc[c] = "callFast"
  /\ fastCount' = [fastCount EXCEPT ![c] = IF policy[c] = "ratio" THEN Fewer(@ + 1, FastPerBulk) ELSE 0]
  /\ DispatchEnd(c, CASE policy[c] = "fast" -> "idle"
                      [] policy[c] = "ratio" -> RatioTries(fastCount'[c])
                      [] OTHER -> "fast")
  /\ UNCHANGED streak

\* After a bulk message: dispatchAll looks for another one, dispatchRatio begins anew.
BulkEnd(c) ==
  /\ cpc[c] = "callBulk"
  /\ fastCount' = [fastCount EXCEPT ![c] = 0]
  /\ DispatchEnd(c, CASE policy[c] = "all" -> "bulk"
                      [] policy[c] = "ratio" -> RatioTries(0)
                      [] OTHER -> "idle")
  /\ UNCHANGED streak

-----------------------------------------------------------------------------

PushStep(p) == PushClaim(p) \/ PushPublish(p)
DispatchStep(c) ==
  \/ TakeFast(c) \/ TakeBulk(c) \/ TakeFails(c)
  \/ Callback(c) \/ ReleasePayload(c)
  \/ FastEnd(c) \/ BulkEnd(c)
CallDispatch(c) == \E pol \in PoliciesOf[c] : DispatchBegin(c, pol)

Next ==
  \/ AddObserver
  \/ \E p \in Producers :
       \/ \E m \in Messages, large, critical \in BOOLEAN : Post(p, m, critical, large)
       \/ PushStep(p)
  \/ \E c \in Consumers : CallDispatch(c) \/ DispatchStep(c)

Spec == Init /\ [][Next]_vars

\* A producer that yields is scheduled again (it may find the queue full whenever it
\* is), and a consumer calls its functions again and again.
Fairness ==
  /\ \A p \in Producers : WF_vars(PushStep(p))
  /\ \A c \in Consumers : WF_vars(CallDispatch(c) \/ DispatchStep(c))

FairSpec == Spec /\ Fairness

-----------------------------------------------------------------------------
(* Properties *)

\* Every variable has its type.
TypeOK ==
  /\ observers \in 0 .. MaxObservers
  /\ Len(fast) <= FastCapacity /\ Items(fast) \subseteq FastMessages
  /\ Len(bulk) <= BulkCapacity /\ Items(bulk) \subseteq BulkMessages
  /\ state \in [Messages -> {"pooled", "posting", "queued", "taken"}]
  /\ copied \in [Messages -> 0 .. MaxObservers]
  /\ managed \in [Messages -> BOOLEAN]
  /\ refs \in [Messages -> 0 .. MaxObservers]
  /\ ppc \in [Producers -> {"idle", "push", "publish"}]
  /\ pmsg \in [Producers -> Messages \cup {None}]
  /\ cpc \in [Consumers -> {"idle", "fast", "bulk", "last", "callFast", "callBulk", "release"}]
  /\ cmsg \in [Consumers -> Messages \cup {None}]
  /\ policy \in [Consumers -> Policies]
  /\ left \in [Consumers -> 0 .. MaxObservers]
  /\ fastCount \in [Consumers -> 0 .. FastPerBulk]
  /\ streak \in [Consumers -> 0 .. FastPerBulk + 2]
  /\ owed \in [Consumers -> SUBSET FastMessages]

\* As long as one thread acquires from each pool, a message object that is used again has
\* one user at a time, and gives its payload up before it is pooled (postFast, postBulk,
\* dispatchFast, dispatchBulk).
OneUser ==
  /\ \A c \in Consumers : cmsg[c] # None => state[cmsg[c]] = "taken"
  /\ \A c, d \in Consumers : cmsg[c] = cmsg[d] /\ cmsg[c] # None => c = d
  /\ \A m \in Messages : state[m] = "pooled" => refs[m] = 0

\* As long as one thread posts to the critical topics, dispatchPriority and dispatchAll
\* take no bulk message before the critical messages whose post had returned when they
\* were called: the fast queue never looks empty while it holds one of those
\* (examples/emulator_queue/main.cpp:68: "drain ALL critical before ANY bulk").
CriticalFirst ==
  [][\A c \in Consumers :
       policy[c] \in {"priority", "all"} /\ cpc[c] \in {"fast", "callFast"} /\ cpc'[c] = "bulk" =>
         owed[c] = {}]_vars

\* dispatchRatio tries the bulk queue after at most fastPerBulk fast messages, or
\* after one when that is zero.
RatioBound ==
  \A c \in Consumers :
    policy[c] = "ratio" => streak[c] <= IF FastPerBulk = 0 THEN 1 ELSE FastPerBulk

\* The audience of a message, those of it that heard it, and its payload, until the
\* object goes back to its pool.
Caller(m) == CHOOSE c \in Consumers : cmsg[c] = m
heard == [m \in Messages |->
            IF \E c \in Consumers : cmsg[c] = m THEN copied[m] - left[Caller(m)] ELSE 0]
payload == [m \in Messages |->
              IF state[m] = "pooled" THEN "none"
              ELSE IF ~ managed[m] THEN "inline"
              ELSE IF refs[m] > 0 THEN "alive" ELSE "freed"]

Promise == INSTANCE BroadcastRecycled
             WITH MaxAudience <- MaxObservers, audience <- copied

\* As long as one thread acquires from each pool, each message that is posted is heard by
\* every observer it was posted to, once and before its object is used again, and a large
\* payload is alive for all of them and deleted by the last release (postFast, postBulk,
\* dispatchFast, dispatchBulk).
ImplementsBroadcast == Promise!RecycledSpec

\* With one consumer that calls dispatchRatio every bulk message whose post has
\* returned is dispatched, although critical ones may be posted without end and
\* every other consumer may look at those first.
BulkNotStarved ==
  \A m \in BulkMessages : state[m] = "queued" ~> state[m] = "pooled"
=============================================================================
