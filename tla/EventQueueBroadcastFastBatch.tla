-------------------- MODULE EventQueueBroadcastFastBatch ---------------------
(***************************************************************************)
(* The EventQueueBroadcastFastBatch of src/src/eventqueue_batch.h: the     *)
(* operations of EventQueueBroadcastFast, posts that wait in a buffer of   *)
(* their thread, and dispatches that take several messages at a time.  The *)
(* buffer t_batch belongs to the thread and not to an instance: whatever   *)
(* it holds goes to the queue that is flushed.                             *)
(***************************************************************************)
EXTENDS EventQueueBroadcastFast

CONSTANT BatchSize   \* BATCH_SIZE

ASSUME BatchAssumption == BatchSize \in Nat \ {0}

VARIABLES
  batch,      \* t_batch of each thread
  batchedOn   \* history: the queues on which a thread called postBatched or flushBatch

vars == <<fastVars, batch, batchedOn>>
batches == <<batch, batchedOn>>

Init ==
  /\ FastInit
  /\ batch = [p \in Producers |-> << >>]
  /\ batchedOn = [p \in Producers |-> {}]

Elements(s) == {s[k] : k \in DOMAIN s}

\* flushBatch of a queue pushes what the thread has batched, one after the other.
FlushBatch(p, q) ==
  /\ ppc[p] = "idle"
  /\ batch[p] # << >>
  /\ state' = [m \in Messages |-> IF m \in Elements(batch[p]) THEN "pushing" ELSE state[m]]
  /\ pushing' = [pushing EXCEPT ![p] = batch[p]]
  /\ batch' = [batch EXCEPT ![p] = << >>]
  /\ batchedOn' = [batchedOn EXCEPT ![p] = @ \cup {q}]
  /\ target' = [target EXCEPT ![p] = q]
  /\ ppc' = [ppc EXCEPT ![p] = "push"]
  /\ UNCHANGED <<registry, ring, message, refs, pmsg, consuming, called, by>>

\* postBatched, after the count was loaded.
Buffer(p) ==
  /\ batchedOn' = [batchedOn EXCEPT ![p] = @ \cup {target[p]}]
  /\ Fill(p)
  /\ UNCHANGED <<registry, ring, home, copied, managed, consuming, called, by>>

\* Mutant of PostBatched: t_batch is static and not thread_local.
PostBatchedShared(p) ==
  /\ ppc[p] = "fillBatched"
  /\ Len(batch[p]) + 1 < BatchSize
  /\ Buffer(p)
  /\ batch' = [r \in Producers |-> Append(batch[r], pmsg[p])]
  /\ state' = [state EXCEPT ![pmsg[p]] = "batched"]
  /\ ppc' = [ppc EXCEPT ![p] = "idle"]
  /\ target' = [target EXCEPT ![p] = None]
  /\ UNCHANGED pushing

\* The buffer has room for more.
PostBatched(p) ==
  /\ ppc[p] = "fillBatched"
  /\ Len(batch[p]) + 1 < BatchSize
  /\ Buffer(p)
  /\ batch' = [batch EXCEPT ![p] = Append(@, pmsg[p])]
  /\ state' = [state EXCEPT ![pmsg[p]] = "batched"]
  /\ ppc' = [ppc EXCEPT ![p] = "idle"]
  /\ target' = [target EXCEPT ![p] = None]
  /\ UNCHANGED pushing

\* Mutant of PostBatchedFull: the count of the buffer is not reset.
PostBatchedFullKeeps(p) ==
  LET all == Append(batch[p], pmsg[p]) IN
  /\ ppc[p] = "fillBatched"
  /\ Len(all) >= BatchSize
  /\ Buffer(p)
  /\ state' = [m \in Messages |-> IF m \in Elements(all) THEN "pushing" ELSE state[m]]
  /\ pushing' = [pushing EXCEPT ![p] = all]
  /\ ppc' = [ppc EXCEPT ![p] = "push"]
  /\ UNCHANGED <<batch, target>>

\* The buffer is full: it is flushed to the queue of this post.
PostBatchedFull(p) ==
  LET all == Append(batch[p], pmsg[p]) IN
  /\ ppc[p] = "fillBatched"
  /\ Len(all) >= BatchSize
  /\ Buffer(p)
  /\ state' = [m \in Messages |-> IF m \in Elements(all) THEN "pushing" ELSE state[m]]
  /\ pushing' = [pushing EXCEPT ![p] = all]
  /\ batch' = [batch EXCEPT ![p] = << >>]
  /\ ppc' = [ppc EXCEPT ![p] = "push"]
  /\ UNCHANGED target

-----------------------------------------------------------------------------
(* dispatchBatch *)

FetchFirst(c, q) ==
  /\ cpc[c] = "idle"
  /\ Take(c, q)
  /\ cpc' = [cpc EXCEPT ![c] = "fetch"]
  /\ source' = [source EXCEPT ![c] = q]
  /\ UNCHANGED <<registry, message, refs, producing, pos, heard, called, batches>>

FetchMore(c) ==
  /\ cpc[c] = "fetch"
  /\ Len(got[c]) < BatchSize
  /\ Take(c, source[c])
  /\ UNCHANGED <<registry, message, refs, producing, cpc, source, pos, heard, called, batches>>

\* maxCount, which may be anything, or BATCH_SIZE is reached, or try_pop fails.
FetchEnd(c) ==
  /\ cpc[c] = "fetch"
  /\ cpc' = [cpc EXCEPT ![c] = "call"]
  /\ pos' = [pos EXCEPT ![c] = 1]
  /\ UNCHANGED <<registry, ring, state, message, refs, producing, source, got, heard, called, by,
                 batches>>

Quiescent == \A m \in Messages : state[m] \in {"unused", "done"}
Idle == Quiescent /\ UNCHANGED vars

Next ==
  \/ /\ \/ \E q \in Queues : AddWrite(q) \/ AddStore(q)
        \/ \E p \in Producers :
             \/ \E q \in Queues, m \in Messages, large \in BOOLEAN :
                  PostBegin(p, q, m, large, "fill") \/ PostBegin(p, q, m, large, "fillBatched")
             \/ PostFill(p) \/ PushStep(p)
        \/ \E c \in Consumers : DispatchStep(c)
     /\ UNCHANGED batches
  \/ \E p \in Producers :
       PostBatched(p) \/ PostBatchedFull(p) \/ \E q \in Queues : FlushBatch(p, q)
  \/ \E c \in Consumers :
       FetchMore(c) \/ FetchEnd(c) \/ \E q \in Queues : FetchFirst(c, q)
  \/ Idle

Spec == Init /\ [][Next]_vars

ConsumerStep(c) == DispatchStep(c) /\ UNCHANGED batches

\* A producer that yields is scheduled again, and the consumers keep dispatching.
Fairness ==
  /\ \A p \in Producers : WF_vars(PushStep(p) /\ UNCHANGED batches)
  /\ \A c \in Consumers : WF_vars(ConsumerStep(c) \/ FetchEnd(c))

FairSpec == Spec /\ Fairness

-----------------------------------------------------------------------------
(* Properties *)

\* Every variable has its type.
TypeOK ==
  /\ \A q \in Queues : 
       /\ count[q] \in 0 .. MaxObservers /\ written[q] \in count[q] .. MaxObservers
       /\ Len(ring[q]) <= Capacity
       /\ \A k \in DOMAIN ring[q] : ring[q][k] \in [item : Messages, ready : BOOLEAN]
  /\ adding \in [Queues -> {"idle", "store"}]
  /\ state \in [Messages -> {"unused", "filling", "batched", "pushing", "queued", "taken", "done"}]
  /\ home \in [Messages -> Queues \cup {None}] /\ by \in [Messages -> Queues \cup {None}]
  /\ copied \in [Messages -> 0 .. MaxObservers] /\ called \in [Messages -> 0 .. MaxObservers]
  /\ managed \in [Messages -> BOOLEAN]
  /\ refs \in [Messages -> 0 .. MaxObservers]
  /\ ppc \in [Producers -> {"idle", "fill", "fillBatched", "push", "publish"}]
  /\ pmsg \in [Producers -> Messages \cup {None}]
  /\ target \in [Producers -> Queues \cup {None}]
  /\ \A p \in Producers : Len(batch[p]) < BatchSize /\ Len(pushing[p]) <= BatchSize
  /\ \A p \in Producers : (pushing[p] # << >>) = (ppc[p] \in {"push", "publish"})
  /\ cpc \in [Consumers -> {"idle", "fetch", "call", "release"}]
  /\ source \in [Consumers -> Queues \cup {None}]
  /\ \A c \in Consumers : Len(got[c]) <= BatchSize /\ pos[c] \in 0 .. BatchSize + 1
  /\ heard \in [Consumers -> 0 .. MaxObservers]

\* The observers copied into a message are all written, although the topic gets new
\* ones while others post (addObserver stores the count last).
SnapshotWhole == torn = {}

\* What post accepted: a message is accepted when its observers are copied.
Accepted(m) == state[m] \notin {"unused", "filling"}

audience == [m \in Messages |-> IF Accepted(m) THEN copied[m] ELSE 0]
payload == [m \in Messages |->
              IF ~ Accepted(m) THEN "none"
              ELSE IF ~ managed[m] THEN "inline"
              ELSE IF refs[m] > 0 THEN "alive" ELSE "freed"]

Abstract == INSTANCE Broadcast WITH MaxAudience <- MaxObservers, heard <- called

\* A dispatched message had each of its observers once, the payload was alive for
\* all of them, and was freed by the last (dispatchOne and dispatchBatch).
ImplementsBroadcast == Abstract!Spec

\* A message is dispatched by the queue it was posted to, as long as every thread
\* batches and flushes on one queue only (t_batch).
StaysHome ==
  (\A p \in Producers : Cardinality(batchedOn[p]) <= 1) =>
    \A m \in Messages : by[m] \in {None, home[m]}

\* A message on its way to a queue is dispatched to all its observers and its payload
\* is freed, whoever competes for the room and wherever the message is in a batch.
PushDelivers ==
  \A m \in Messages :
    state[m] = "pushing" ~> state[m] = "done" /\ called[m] = copied[m] /\ refs[m] = 0
=============================================================================
