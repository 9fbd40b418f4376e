# A TLA+ model of message-center-cpp

The repository is a publish/subscribe library: messages are posted to topics from any
thread, queued, and dispatched to the observers of the topic.  It has a mutex-based
queue with a worker thread (`EventQueue`, `MessageCenter`), a lock-free ring and a
lock-free object pool, and several queues built from those two.  This directory holds
TLA+ modules for all of these, TLC configurations that check them on small instances, and
proofs that TLAPS checks.

Source paths below are relative to `src/src/`.

- [1. The system](#1-the-system)
- [2. The modules](#2-the-modules)
- [3. The runs](#3-the-runs)
- [4. Fairness](#4-fairness)
- [5. The theorems](#5-the-theorems)
- [6. Where the code and what is said of it disagree](#6-where-the-code-and-what-is-said-of-it-disagree)
- [7. What is not modelled](#7-what-is-not-modelled)
- [8. Plan](#8-plan)

## 1. The system

| component | state | operations | hard behaviour |
|---|---|---|---|
| `MPMCQueue` (`mpmc_queue.h`) | ring of slots, each with a sequence number; `m_head`, `m_tail` | `try_push`, `try_pop` | interleavings of compare-and-swap loops; relaxed loads that may be stale; a thread that stalls between claiming a slot and publishing it |
| `ObjectPoolLockFree` (`objectpool_lockfree.h`) | Treiber stack of free nodes, `m_allocated` | constructor, `acquire`, `release`, destructor | ABA, use of a node after it was deleted, shrinking decided on an outdated count |
| `ObjectPool` (`objectpool.h`) | vector of free objects, `m_allocated` | `acquire`, `release`, `clear` | the count after `clear` |
| `EventQueue` (`eventqueue.h`, `.cpp`) | topic registry, observers per topic, message queue, number of active dispatches, a condition variable | `RegisterTopic`, `ClearTopics`, `AddObserver`, `RemoveObserver`, `RemoveObserverById`, `Post`, `GetQueueMessage`, `Dispatch`, `dispose` | removal of an observer against running dispatches and their snapshots; handlers that call the queue; who deletes a payload |
| `MessageCenter` (`messagecenter.h`, `.cpp`) | an `EventQueue`, the worker thread, three flags | `Start`, `Stop`, `ThreadWorker`, the singleton's creation and disposal | notifications that nobody waits for; stopping with messages queued; restarts |
| `RefCountedPayload` (`payload_refcounted.h`) | a reference count and the data | `create`, `addRefs`, `release` | one release too many or too few |
| `EventQueueBroadcast` (`eventqueue_broadcast.h`) | a ring of messages, a pool, copy-on-write observer lists | `addObserver`, `post`, `dispatchOne` | references counted for one observer list and released for another; producers that spin on a full ring |
| `MessageCenterFast` (`messagecenter_fast.h`) | ring, pool, worker thread, counters | `start`, `stop`, `post`, `flush` | `flush` against counters that are updated late; a post after the final drain |
| `EventQueueBroadcastFast`, `...FastBatch` (`eventqueue_fast.h`, `eventqueue_batch.h`) | ring, pool, fixed observer arrays; a thread-local batch | `post`, `postBatched`, `flushBatch`, `dispatchOne`, `dispatchBatch` | observers copied at post; the batch buffer is shared by all instances of a thread |
| `EventQueueEmulator` (`eventqueue_emulator.h`) | two rings with their pools | `postFast`, `postBulk`, `post`, five dispatch functions | order and ratio of the policies, starvation of the bulk queue, recycled messages |

How they interact: `MessageCenter` extends `EventQueue` and runs its `Dispatch` on the
worker.  The lock-free queues put pointers from an `ObjectPoolLockFree` through an
`MPMCQueue`: producers acquire, consumers release, so a pool has several of each.
Handlers run on the dispatching thread and may call the queue that runs them.

What makes each part correct:

- The ring is a bounded FIFO: every value that is pushed is popped once, in order, and
  no two threads are on a slot at a time.  A `false` has a cause.
- The pool never hands out an object that is in use, never touches a deleted node, loses
  none, and shrinks back to its maximum.
- After `RemoveObserver` has returned, the removed handler neither runs nor starts (the
  contract of `eventqueue.h:118-124`), and the call does return.
- A message reaches each observer of its topic exactly once, and its payload is alive
  meanwhile and deleted once afterwards when the queue owns it.
- The center delivers what is posted although notifications may be lost; `Stop` returns,
  and leaves no worker; no second worker ever exists.
- A shared payload is freed by the last observer, neither earlier nor never; a message
  goes to the observers it was meant for, on the queue it was posted to.
- `stop` of `MessageCenterFast` drains what was accepted before it, and `flush` does not
  return early without a reason.
- The dispatch policies of `EventQueueEmulator` keep their order and their ratio, and a
  recycled message object has one user at a time, whose whole audience hears it before it
  is used again (given a pool that hands out no object in use).
- Topic ids are unique; the pools count what they own.

## 2. The modules

| module | models | extends / uses |
|---|---|---|
| `FifoQueue` | the abstract bounded FIFO the ring promises | |
| `Ring` | the ring as its clients see it, as operators | |
| `RingQueue` | the state machine of those operators | `Ring` |
| `MPMCQueue` | the ring | refines `FifoQueue` and `RingQueue` |
| `MPMCQueueProofs` | theorems about the ring | `MPMCQueue` |
| `ObjectPoolLockFree` | the lock-free pool | |
| `ObjectPoolLockFreeProofs` | theorems about the pool | `ObjectPoolLockFree` |
| `EventQueue` | the mutex-based queue | |
| `MessageCenter` | the worker and its lifecycle | `EventQueue` |
| `MessageCenterProofs` | theorems about the queue and the center | `MessageCenter`, hence `EventQueue` |
| `Broadcast` | the abstract promise of a broadcast queue about each message | |
| `EventQueueBroadcast` | the broadcast queue and its payload references | refines `Broadcast` |
| `EventQueueBroadcastProofs` | theorems about it, the refinement among them | `EventQueueBroadcast` |
| `EventQueueBroadcastFast` | what the two fast queues have in common | `Ring` |
| `EventQueueBroadcastFastBatch` | the batch queue | `EventQueueBroadcastFast`; refines `Broadcast` |
| `EventQueueBroadcastFastBatchProofs` | theorems about both fast queues, the refinement among them | `EventQueueBroadcastFastBatch` |
| `MessageCenterFast` | the lock-free center: posts, flush, the dispatch thread, its lifecycle | `Ring` |
| `MessageCenterFastProofs` | theorems about it | `MessageCenterFast` |
| `BroadcastRecycled` | the same promise where message objects are used again | `Broadcast` |
| `EventQueueEmulator` | the two queues, the dispatch policies and the payload references | `Ring`; refines `BroadcastRecycled` |
| `EventQueueEmulatorProofs` | theorems about it, the refinement among them | `EventQueueEmulator` |
| `TopicRegistry` | `registerTopic` of the five lock-free queues | |
| `ObjectPool` | the pool under a mutex | |
| `RegistryAndPoolProofs` | theorems about the two | `TopicRegistry`, `ObjectPool` |
| `MC...` | the instances that TLC checks | the module of the same name |

Definitions keep the names of the code; comments at the variables name the members they
stand for.  Variables marked *history* are not in the code and only serve properties.
Operators introduced by "Mutant of" are variants with a plausible bug; no specification
uses them, they exist to show that each property would notice such a bug.

### MPMCQueue

One action per atomic access.  `PushBegin` loads `m_tail`; `PushReady`, `PushFull` and
`PushReload` are the three outcomes of comparing the slot's sequence number with the
position; `PushClaim` and `PushClaimFails` are the outcomes of `compare_exchange_weak`;
`PushWrite` stores the value, `PushPublish` the sequence number.  Popping is the same
with `m_head`.

Memory order: `m_head` and `m_tail` are loaded with `memory_order_relaxed`, so
`LoadTail` and `LoadHead` return *any* earlier value (`Relaxed`), which is more than a
coherent memory allows and therefore safe.  The slot sequences are acquire/release, and
a sequence number is only ever changed by the thread that owns the slot: what is written to
a slot before its sequence is stored is visible to whoever reads that sequence.  The model
loads the *current* sequence number.  An acquire load may also return an older one.  As the
numbers of a slot only grow and a claim is decided by the compare-exchange, that adds a
reload, a failed compare-exchange, or a `false`: what is shown of claims (`SlotExclusive`,
`ImplementsFifo`, `ImplementsRing`) does not depend on it, while `FalseIsJustified`, and the
theorems `FalseIsAlwaysJustified` and `FalseIsWhatClientsSee`, hold up to that (section 7).
Positions are natural numbers; 64-bit counters
do not wrap in practice.

### ObjectPoolLockFree

One action per access to shared memory.  The heap is explicit: a deleted node's `next`
reads as any pointer, and a deleted address may be handed out again, so that ABA and use
after free can happen in the model.  The roles of the threads are constants,
`Acquirers` and `Releasers`; any releaser may release any object in use, because objects
travel through a queue.  Loads are sequentially consistent here.

### EventQueue

One action per critical section.  Where an operation has several critical sections, they
are one action when the others commute with the steps of other threads:

- `AddObserver` registers the topic (`m_mutexTopics`), draws an id nobody else has seen
  (an atomic increment) and inserts the descriptor (`m_mutexObservers`).  The
  registration is an action of its own too (`RegisterTopic`), so the state between the
  two is reached; the fresh id is invisible before the insertion.
- `Post` and `RemoveObserver` resolve the topic under `m_mutexTopics` and act on the id
  afterwards.  A name keeps its id until `ClearTopics`, so that resolving early or late
  is the same.  `Post` by id is the action; posting by name is posting to the id found.
- The removal itself and `WaitForDispatchesToComplete` are separate: `RemoveObserver`
  erases and enters the wait (`pc = "wait"`); `WaitReturn`, `WaitSleep` and
  `SpuriousWakeup` are the condition variable.
- `Snapshot` is one action: `Dispatch` copies the descriptors and calls
  `MarkDispatchActive` under `m_mutexObservers`.

`MarkDispatchComplete` and `Cleanup` are separate, as in the code: a caller of
`RemoveObserver` may go on before the message is deleted.

A dispatcher whose handler is running (`pc = "run"`) may call every public operation.
The three kinds of callback are one set `Handlers`.  Each registration gets a fresh id
which stands for its descriptor; `owner` remembers what the id was given to.  The
observers of a topic are a *set* and handlers run in any order: concurrent calls of
`AddObserver` may insert their ids in any order, and nothing promises one.

### MessageCenter

The dispatchers of `EventQueue` are the threads that `Start` may create.  The worker
loop is `CheckStop`, `TakeMessage` or `FindNothing`, `WorkerDispatch`, `Sleep`, and
`Timeout`; `FindNothing` and `Sleep` are apart because the code releases
`m_mutexMessages` in between, and a notification in that window is lost.  `Start` and
`Stop` read a flag before they lock (`StartCheck`, `StopCheck`) and then work under
`m_mutexThreads` (`StartThread`, `StopRequest`, `StopJoin`; the join is done with the
lock held).  `Destroy` is the end of `DisposeDefaultMessageCenter`: `~EventQueue` calls
`dispose`.  Every step of the center is a step of the queue or leaves it alone, which is
theorem `ImplementsEventQueue`.

### EventQueueBroadcast

The ring is the abstract FIFO that `MPMCQueue` implements, the pool hands out messages
nobody holds.  `Post` is `post` up to the ring, with the observer count and the
references it takes; `PostPush` is the end of the loop around `try_push`.  `dispatchOne`
is `DispatchPop`, `LoadObservers` (the list of *now*), `Callback` and `ReleasePayload`
per observer, and `DispatchDone`.  Payloads that fit a message are inline and have no
references.  `MaxCount` stands for the 255 at which `post` cuts the count.

`Broadcast` says what any of the broadcast queues should promise: the audience of a
message is fixed when it is accepted, each member hears it once while the payload is
alive, and the payload is freed after that.  The refinement maps a post to `Accept` (the
references are taken there), a callback to `Hear`, and the release of the last reference
to `Free`.  It holds when no observer is added after the first post.

### Ring

The queues below spin or fail on `try_push`, and their consumers see more than a FIFO: a
producer that has claimed a position and not yet published it hides what others pushed
behind it.  `Ring` has entries that are claimed or ready, without the sequence numbers of
`MPMCQueue`.

`RingQueue` is the state machine of these operators: `ClaimPosition`, `PublishEntry`,
`TakeOldest` and `FreeSlot`.  `MPMCQueue` implements it (`ImplementsRing`): the entries of
the ring are the positions `head .. tail - 1`, one is ready when its slot's sequence
number is the position plus one, and a thread has claimed what it is writing and taken
what it is reading.  A slot that is still being read has no `Room` for the next round.
A client that spins until its push succeeds claims when the ring has fewer entries than
slots, which is weaker than `Room`, so its model has every behaviour of the code and
more; `post` of `MessageCenterFast` gives up instead, and there the guard counts the entry
that the dispatch thread is reading, which for one consumer is `Room`.

Of the pool these modules take `NoSharing`: `acquire` returns a message nobody holds.  The
lock-free pool keeps that with one acquiring thread and not with several (section 6, item
1).  In `EventQueueBroadcast`, the fast queues and `MessageCenterFast` a message is used
once, and what is shown of several producers is conditional on the pool.  In
`EventQueueEmulator`, where message objects are recycled, the condition is in the module
(`SoleAcquirers`), and without it `Acquire` may take an object that is in use.

### EventQueueBroadcastFast and EventQueueBroadcastFastBatch

The two classes repeat each other: the batch class adds `postBatched`, `flushBatch` and
another `dispatchBatch`.  `EventQueueBroadcastFast` holds the common operations and
`EventQueueBroadcastFastBatch` extends it; every behaviour of the former is one of the
latter in which nobody batches, so one run covers both.

`addObserver` is two steps (`AddWrite`, `AddStore`) and `post` reads the count
(`PostBegin`) before it copies the observers (`PostFill`), so that registering and posting
interleave.  `eventqueue_fast.h:20` warns against that; `SnapshotWhole` shows that it is
safe as long as one thread registers observers of a topic, because the count is stored last.

`t_batch` is a variable per thread and not per queue, as in the code.  `StaysHome` says
that a message reaches the queue it was posted to *as long as each thread batches on one
queue*; without that premise it does not, since `flushBatch` of any queue pushes whatever
the thread has batched.

### MessageCenterFast

`post` is `PostBegin`, the push (`PostClaim`, `PostPublish`, or `PostFails`), and
`PostCount`, which increments `m_posted` and notifies.  The dispatch thread is
`CheckStopping`, `PopTake`, `DispatchBegin`, `Callback`, `CallbackReturns`, `DispatchEnd`,
`PopFails`, and the wait: `WaitTest` evaluates the predicate, `Block` blocks, and a
notification in between is lost because nobody who changes what the predicate reads holds
`m_cvMutex`.  `draining` tells the second loop of `dispatchLoop` from the first.  A slot
that is being read is not free (`Room`), so a push can fail on a ring with room.

A callback may post (`Worker` is a poster while `wpc = "run"`); it cannot add an observer,
since callbacks run under `m_observerMutex`.  The two loads of `pending()` happen in an
order C++ does not fix: `FlushLoad` takes either first.

Two properties name their exceptions, which the code has:

- `StopDrains`: a message accepted before `stop` may stay in the ring if it is behind an
  entry that a producer had claimed and not published when the thread took its last look.
- `FlushTells`: `m_posted` is incremented after the push, so a message can be counted as
  dispatched first, and the counters then agree while another message is still waiting.

`StopReturns` has a condition.  That the thread leaves its first loop after a request holds
however much is posted.  The second loop, `while (try_pop)` at line 252, has no bound: `post`
does not look at `m_stopping`, so that producers, or a callback, that post for ever may keep
`stop` waiting.  The property says that `stop` returns if posting comes to an end (`Quiet`
from some time on).  `MaxPosts` bounds the posts of the model, also those made while the
thread drains, so every behaviour of the run meets that condition.

### EventQueueEmulator

Message objects are taken from the pools and recycled, so a message can be used again
while an earlier use should be over.  The two pools are `ObjectPoolLockFree`s, which hand
out an object that is in use once two threads acquire from one of them.  `SoleAcquirers` is
the condition that keeps them sound: one thread posts to critical topics (`FastProducers`),
and one, the same or another, to the rest (`BulkProducers`).  Then what `acquire` returns
was pooled (`Acquirable`); otherwise it is any object, used or not, and nothing is claimed.
`Acquire` is `postFast` and `postBulk` up to the
push, `Post` is the routing of `post`.  A consumer is inside one of the five dispatch
functions (`policy`) and at a place in it (`cpc`): about to try a queue, or dispatching.
`FastEnd`, `BulkEnd` and `TakeFails` are the control flow of the loops.  `fastCount` is
the local of `dispatchRatio`, cut at `FastPerBulk` because the code only compares it with
that.  `owed` remembers the critical messages that were in the queue when the function was
called, for `CriticalFirst`.

`managed` is `! isInline`, and `refs` the counter of the payload: `PostRefs` is `create`
and `addRefs` of `postBulk`; a callback (`Callback`) and the release after it
(`ReleasePayload`) are two steps.  `BroadcastRecycled` adds to the promise of `Broadcast`
that an object is given back (`Recycle`) only when all of its audience heard it and no
payload is left.  The mapping: the audience is `copied`, those that heard a message are
`copied` less what its consumer has `left`, and the payload is read off `state`, `managed`
and `refs`.

### TopicRegistry and ObjectPool

Small modules with few states, stated to be proved about; no run needs them.
`TopicRegistry` has two switches: whether the number is given back when the tables are full
(`EventQueueEmulator`, `EventQueueBroadcast`) and whether a mutex is held
(`EventQueueBroadcast`, `MessageCenterFast`).  `ObjectPool` keeps `m_allocated` as an
integer, so that the count going below zero is visible.

## 3. The runs

| run | instance | what it shows |
|---|---|---|
| `mpmc` | 3 threads, capacity 2, 4 positions | the ring implements the FIFO and the ring its clients use; slots are exclusive; `false` is justified |
| `mpmc_fair` | 3 threads, one scheduled, capacity 2, 3 positions | a thread that keeps running finishes its calls, wherever the others stop |
| `pool` | 1 acquirer, 3 releasers, 4 addresses, maximum 2 | no sharing, no use after free, no leak, the pool shrinks back |
| `pool_two_acquirers` | 2 acquirers | *violation*: ABA hands an object out twice |
| `eventqueue` | 1 client, 2 dispatchers, 2 names for 1 topic id, 2 observers, 2 messages | the removal contract, delivery to each observer once, safe payloads |
| `messagecenter` | 1 client, 1 controller, 1 worker, 2 starts, 2 messages | one worker; messages are delivered, `Stop` and `RemoveObserver` return, payloads are deleted |
| `messagecenter_dispose` | the same | *violation*: payloads queued at disposal are leaked |
| `broadcast` | 2 producers, 1 consumer, ring of 1, 2 topics, 3 messages | the queue implements `Broadcast` (payloads live as long as they are read), payloads are freed by the last observer, and posts that wait for room are not lost |
| `broadcast_late_observer` | the same, observers added late | *violation*: a late observer makes the payload be freed early |
| `messagecenter_fast` | 1 client, 1 flusher, ring of 2, 3 messages, 2 observers, 2 starts | `stop` drains, `flush` tells the truth, observers get messages once, nothing is delayed for good, `stop` returns once posting ends |
| `batch` | 2 queues of 1 slot, 2 producers, 1 consumer, 2 messages, batches of 2 | the fast queues implement `Broadcast`, snapshots are whole, batches stay home, pushes are delivered |
| `emulator` | 1 critical and 1 bulk producer, 2 consumers (one calls `dispatchRatio`, one the other functions), 3 critical and 1 bulk message objects, rings of 2 and 1, ratio 1, 2 observers | with one acquirer for each pool the queue implements `BroadcastRecycled`, policies keep order and ratio, bulk is not starved |

Why the bounds are enough to be interesting:

- A ring of two slots with four positions wraps twice: a slot is claimed again while its
  earlier consumer may still own it.  Three threads give two that race and one that
  stalls.
- With four addresses and an initial size of 1 the pool grows past its maximum, deletes
  nodes, and reuses their addresses.
- Two dispatchers make `m_activeDispatches` reach 2, so that a wait has to outlast both;
  two messages per topic give a snapshot taken before and one taken after a removal.
  With `MAX_TOPICS` at 1 and two names the registry is full.  `ClearTopics` happens once,
  with one observer at most before it or after it (`WithinBound`).
- Two starts cover stop, restart and posts in between.
- A ring of one makes two producers compete for the same room; two observers make the
  count exceed one.
- `messagecenter_fast`: three messages exceed the ring of two, so that a push fails; two of
  them can be counted as dispatched before they are counted as posted; the second start
  finds what the first left behind.
- `batch`: two queues are what a shared `t_batch` needs to go wrong; a batch of two is
  filled by both messages, and a full ring of one stops a flush half way.
- `emulator`: messages are recycled without bound, so critical ones can be posted for ever,
  which is what starves the bulk queue; a ratio of 1 is reached and reset at once; two
  observers make a payload have two references; each object is used again with another
  audience and another payload.  Three critical objects fill the fast ring of two.  There is
  one producer for each pool because that is what the pools admit (`SoleAcquirers`); the two
  race with each other and with both consumers.  The theorems cover more bulk messages, other
  capacities and numbers of consumers, and every ratio, zero included; `TypeOK` and `OneUser` are theorems for every instance, and
  the run checks the refinement in their place.

`MaxPush`, `MaxId`, `MaxClears`, `MaxStarts`, `MaxPosts`, `MaxTickets`, `MaxObservers` (of
`EventQueueBroadcast` and `MessageCenterFast`) and the set `Messages` bound what would
grow for ever; none of them is in the code.  Symmetry is used in runs that
check no liveness.  Deadlock is checked except in the two runs of the pool, whose
behaviours end with the destructor.

## 4. Fairness

Threads are scheduled and handlers return; that is all the code can count on.

- `MPMCQueue`: the threads in `Scheduled` keep taking steps, the others may stop
  anywhere.  `compare_exchange_weak` may fail spuriously, but not for ever.
- `MessageCenter`: weak fairness of the worker, which includes the end of its 50 ms wait,
  of `Stop`, and of the callers that wait in `RemoveObserver`.  A spurious wakeup need not
  happen, so a lost notification would be noticed.  Nobody has to call `Start`, `Stop` or
  `Post`.
- `EventQueueBroadcast`: weak fairness of the consumers and of a producer that waits for room.
  A producer that finds the ring full yields and tries again; whoever tries first gets the
  room, so that one producer may lose that race every time as long as others keep posting.
  The code promises nothing to it, and no strong fairness is assumed.  `PostDelivers` is
  about a finite number of posts, which the model bounds: room then stays for the last.
- `MessageCenterFast`: weak fairness of the dispatch thread, which includes the end of its
  10 ms wait, of a call of `post`, and of the join in `stop`.  That posting ends is not a
  fairness condition but the premise of `StopReturns`.
- `EventQueueBroadcastFastBatch`: weak fairness of a producer's push and of each consumer;
  the number of messages is bounded, so that room appears and stays, as above.
- `EventQueueEmulator`: the same, with messages without bound: a producer that keeps losing
  the race for room is *not* promised to get it.  A bulk message that is in its queue is
  promised to be dispatched, because one consumer calls `dispatchRatio` again and again.

## 5. The theorems

For every value of the constants that the assumptions admit.

**The ring** (`MPMCQueueProofs`).  `TypeCorrect` needs nothing more.
The others, `SlotsAreExclusive`, `FalseIsAlwaysJustified`, `RingImplementsFifo`,
`RingImplementsRing` and `FalseIsWhatClientsSee`, assume `Capacity >= 2`; with 1 they are false (section 6).  The inductive invariant says who
owns a slot, in terms of its sequence number: `p` when free for the push at position `p`,
`p + 1` when it holds the value of `p`, and that the value in a published slot is the one
`log` has at that position.  `RingImplementsFifo` is the refinement: a push takes effect
at its compare-exchange of `m_tail`, a pop at its compare-exchange of `m_head`.
`RingImplementsRing` is the finer one, to `RingQueue`: the same two steps, the store of the
sequence number that publishes, and the one that frees; what makes it true is that less
than a round apart two positions never share a slot (`NearSlots`), so neither store
touches another entry.  `FalseIsWhatClientsSee` adds that a call returns false only when
the guard in `RingQueue` is false.  Together they are the licence of the modules that use
`Ring` in place of the ring.

**The pool** (`ObjectPoolLockFreeProofs`).  `TypeCorrect`, `NeverShared`, `ReadsAreSafe`,
`NothingLeaks` and `ShrinksToMaximum` assume `SoleAcquirer`: one thread acquires.  That is what excludes
ABA: as only the acquirer pops, the head it read and finds again has not moved, and what
is below it neither.  The inductive invariant relates the linked list to the history
variable `stack`.  With two acquirers the statements are false (section 6).
`ShrinksToMaximum` needs a second invariant, `Accounting`: `m_allocated` is the number of
nodes that exist and are counted, and the nodes that will stay on the free list are never
more than the maximum, although each `release` decides on an outdated count.

**The queue** (`MessageCenterProofs`).  `TypeCorrect`, and `RemovalIsFinal`: the removal
contract.  The counter equals the number of dispatches that hold a snapshot
(`CountInv`), so a caller that sees 0 knows there is none; an observer is only in the
list of the id its topic resolves to, so erasing it there erases it (`RemovedInv`); and
ids are never given out again (`IdInv`), so a removed observer is not registered later.
The contract is void after `ClearTopics`, since a name that no longer resolves nothing; that is the premise `clears = 0`.

`PayloadsAreSafe` follows from `PlaceInv`: a message is in one place, the queue or one
dispatch.  `ObserversGetItOnce` follows from `OnceInv`, whose parts say what has been
passed to whom (`RanInv`), that what is still to be passed has not been passed
(`FreshInv`), and that an observer a message is due to is either in the snapshot or has had
it, as long as it is registered (`DueInv`).  The hard steps are those in which a handler
registers or removes observers while snapshots of their topic are being worked through.

**The center** (`MessageCenterProofs`).  `ImplementsEventQueue`: a `MessageCenter` is an
`EventQueue`; hence `CenterRemovalIsFinal`.  `CenterTypeCorrect` and `OneWorker` assume
`SingleController`: the thread that creates the singleton starts, stops and disposes of
it.  Two threads that both find `m_started` false would create two workers.  The
invariant adds that a center that is not started has no thread, and that nobody is about
to start one that is.

**The broadcast queue** (`EventQueueBroadcastProofs`).  `TypeCorrect` needs nothing more.
`PayloadIsAlive`, `FreedByTheLast` and `KeepsThePromise` (the refinement of `Broadcast`)
assume `Fixed`: observers are added before the first post, and are no more than a
`uint8_t` counts.  The inductive invariant is an equation: the references of a payload are
the observers of its topic less those that released it, and the callbacks a consumer has
left are the observers less those that were called.  Without `Fixed` the observers in the
two equations are not the same, which is section 6, item 3.

**The fast queues** (`EventQueueBroadcastFastBatchProofs`).  `TypesAreKept`,
`SnapshotsAreWhole`, `MessagesStayHome` and `KeepsThePromise` (the refinement of
`Broadcast`), for any number of queues, threads, messages and observers, every capacity and
every size of a batch.  The sizes are positive (of the code this says something for rings of
two slots or more, section 6), and one thread at a time adds observers to a topic, which is
in the model.  No counterpart of `Fixed` is needed, because `post` copies the observers and
the copy travels with the message.  The inductive invariant is what ties the pieces together:

- a message is in one place, which its `state` names: being filled by one producer
  (`Fills`), in one thread's batch (`Batches`), about to be pushed by one thread
  (`Pushes`), in one ring once (`Rings`), or taken by one consumer (`Takes`).  In the
  middle of a push a message is both in its producer's hands and, claimed, in the ring;
- until it is taken nobody has heard it, and its payload has a reference for each copied
  observer (`Waits`); in a consumer's hands the references are the copied observers less
  those that released, and the calls are as many, or one more between a callback and its
  release (`Calls`);
- an observer is written before it is counted (`Registry`), which is why a snapshot that is
  as long as the count has no hole;
- the queue that has a message is the one it was posted to, or both are queues that one
  thread batched on (`Homes`, with `Mixed`).  The second case is what `StaysHome` has as its
  premise, and the invariant cannot leave it out: it has to hold of executions that break
  the premise later.

In the refinement `PostFill` and the two outcomes of `postBatched` are `Accept`, `Callback`
is `Hear`, the release of the last reference is `Free`, and every other step stutters.

**The lock-free center** (`MessageCenterFastProofs`).  `TypesAreKept`, `StopDrainsTheRing`,
`ObserversAreCalledOnce`, `FlushTellsWhatRan`, and `AcceptedIsNotLost`: a message that was
accepted is published in the ring, or with the dispatch thread, or finished; no message is
in two of these places.  They assume one dispatch thread, as in the code, and a capacity of
two or more, below which the ring is not a FIFO (section 6).  `StopDrains` rests on
`AcceptedIsNotLost`: when the thread gives up its last drain it has no message in hand, so
what was accepted and is not finished is published in the ring, and the ring is then blocked
by an entry that is claimed and not published.  Afterwards the ring only grows at its end
until the next start, so that the order of the two entries stays.  The part that takes care
is `Posts`: a message is counted after it is pushed, so it may be dispatched, or left
behind, before it is accepted.  `FlushTells` rests on `Loads`: the two counters are loaded at
different times, but both only grow, so that equal numbers in the hands of `flush` mean that
no more was posted, when that was loaded, than is dispatched now.  With the premise that all
that is finished was counted, these are two finite sets of one size, one within the other,
hence the same.

**The emulator queue** (`EventQueueEmulatorProofs`).  `TypeCorrect`, `OneUserEach`,
`RatioIsBounded`, `CriticalIsFirst` and `EmulatorKeepsThePromise`, for any number of consumers
and messages, all capacities and any ratio.  All assume `SoleAcquirers`: one thread acquires
from each pool.  With several they are false of the code, because the pool hands out an object
that is in use; the model then lets `acquire` return any object, and the proofs use the
condition in the steps of a post.
The invariant places each message in the pool, with one producer, in its ring once, or with
one consumer (`Rings`, `Posts`, `Dispatches`); gives a large payload as many references as
callbacks are left, and one more between a callback and its release (`Filled`, `Counted`);
and bounds the critical messages since the last look at the bulk queue by the counter of
`dispatchRatio` (`Ratio`).  `CriticalIsFirst` needs a second invariant, `FastOrder`: as the one
thread that posts to the fast ring publishes a position before it claims the next, only the
newest entry is unpublished, and a message whose post has returned is never hidden behind a
stalled producer.  For the refinement `Described` says what `heard` is in terms of
the one consumer that has the message, and `Elsewhere` that a step of one message leaves
`heard` and `payload` of the others alone.  Then a post is `Accept`, a callback `Hear`,
the last release `Free`, the end of a dispatch `Recycle`, and every other step a stutter.

**The registry** (`RegistryAndPoolProofs`).  `IdsAreUnique`: no id is handed out twice, for
ever where the number is given back and fewer threads call at once than the counter has
values above the tables, and for the first 2^16 calls where it is not.  `IdsAreNotLost`:
where it is given back, the next call gets an id if one is left.  The invariant: the counter
is the ids handed out plus the calls between their two steps.  `RegistryAssumption`, in the
module, is what they assume.

**The pool under a mutex** (`RegistryAndPoolProofs`).  `ObjectsAreInOnePlace`, `PoolIsBounded`,
and `AllocatedIsCounted`: `m_allocated` is what `objectpool.h:100` says, pooled and in use,
*less* what was in use at the last `clear`; after a `clear` with objects in use a release
that deletes one takes the unsigned counter below zero.

What is only model-checked: all liveness (`CallsReturn`, `RemoveReturns`, `PayloadDeleted`,
`Delivered`, `StopReturns`, `PostDelivers`, `PushDelivers`, `BulkNotStarved`), which is
beyond the prover.  Every invariant, action property and refinement that a run shows to
hold is also a theorem.

## 6. Where the code and what is said of it disagree

Each is a run that TLC shows violated.

1. `objectpool_lockfree.h:89`: `popFree` compares only the pointer.  With two acquiring
   threads the head may come back with another successor, and an object in use becomes
   the head of the free list.  `doc/CHOOSING_A_QUEUE.md:213` promises several producers,
   and producers acquire.  (Run `pool_two_acquirers`.)
2. `eventqueue.cpp:34`: `dispose` deletes queued messages without the payloads they own.
   `tests/memory_leak_test.cpp:83` asserts that every payload is destroyed, after a
   sleep.  (Run `messagecenter_dispose`.)
3. `eventqueue_broadcast.h:199`: `post` counts references for one observer list,
   `dispatchOne` releases them for a later one.  Line 30 says that the payload is freed
   after the last observer.  (Run `broadcast_late_observer`.)

Worth knowing as well; the models have these behaviours, and no run is spent on them:

- `mpmc_queue.h:54`: a ring of capacity 1, which the `static_assert` at line 20 admits,
  pushes over unread data, because the sequence number of a full slot is the one that the
  next push looks for.  Nothing in the repository uses that capacity, and the theorems
  assume two slots.  In a larger ring `try_push` may also return false while there is
  room, when a consumer is still reading the slot; `FalseIsJustified` says when.
- `eventqueue.cpp:507`: a handler that removes an observer does not wait, so the removed
  handler may still start from the running snapshot, although `eventqueue.h:119-121` says
  in general that it does not.  `RemovalContract` is stated for the other callers.
- `eventqueue.h:176`: `autoCleanupPayload` defaults to false, while `README.md:76` says that
  the payload of such a post is cleaned up.  In the model payloads are `owned` or
  `borrowed`, and only the former are deleted.
- `eventqueue_batch.h:81`: what a thread has batched goes to whichever queue is flushed
  next (`StaysHome` has the premise that excludes it).
- `messagecenter_fast.h:200`: `flush` may return early (`FlushTells` has the exception).
- `messagecenter_fast.h:252`: `stop` waits for as long as others keep posting (`StopReturns`
  has the premise).
- `eventqueue_emulator.h:139` and `:177` acquire in the producers from the pool of item 1: with
  several producers on a pool nothing that is said of `EventQueueEmulator` holds.

## 7. What is not modelled

- `DefaultMessageCenter` creates the singleton without a lock; the model starts after
  it.  Start and Stop from several threads at once, and `Stop` called by a handler, are
  outside the model too.  The same goes for the singleton of `MessageCenterFast`.
- A callback of `MessageCenterFast` that adds an observer locks a mutex twice, and a
  callback of a broadcast queue that posts to a full ring waits for itself: callbacks of
  those models do not.
- Two threads that add observers to one topic of a fast queue write the same slot
  (`eventqueue_fast.h:97`), a data race the documentation leaves to the caller.
- `addObserver` of `EventQueueEmulator` is one step; its two steps are in
  `EventQueueBroadcastFast`, with the same code.
- `tl_inDispatch` is one flag per thread for all queues.  The model has one queue, so a
  handler of one queue that calls another is not covered.
- `size_approx`, `empty`, `GetTopicByID`, the
  debug dumps and `PayloadGuard`: queries, or code that no queue uses.
- Stale loads of `slot.seq` in the ring: a `try_push` or `try_pop` of the code may also return
  false because it loads an older sequence number.  No store that happens before the call is
  missed, and a later call sees the number.  The modules built on `Ring` take
  `FalseIsWhatClientsSee`, so "the post had returned before", in `CriticalFirst` and
  `StopDrains`, is to be read as *happens before* in the sense of C++.
- Two threads that acquire from one pool of `EventQueueEmulator` (section 2), and what a
  message with two users does in the other queues.
- Posting without end: except in `EventQueueEmulator` the number of messages is bounded, so
  that producers that compete for room for ever, a `stop` that others keep from returning, and
  a `RemoveObserver` that never finds the counter at zero do not occur in the runs.
- Stale loads in the pool: a load returns the current value in the model. A stale list head
  (several of those loads are relaxed) only makes the compare-exchange fail; a stale
  `m_allocated` in `release` can shift when a node is deleted, which the model does not show.
- `platform.h`, `main.cpp` and the build files have no state.

## 8. Plan

Every component with state is modelled, and has proofs.  What would follow, in this order:

1. A second queue in `EventQueue`, to cover `tl_inDispatch`, which is one flag per thread
   for all queues.
2. The creation and disposal of the singletons from several threads.
