------------------------- MODULE MessageCenterProofs -------------------------
(***************************************************************************)
(* Proofs about EventQueue and about MessageCenter, which extends it, for  *)
(* any number of clients, dispatchers, topics and messages.                *)
(*                                                                         *)
(* First the queue by itself (Spec): the removal contract of               *)
(* RemoveObserver, the payloads, and who gets a message.  The contract     *)
(* rests on three things.  The counter m_activeDispatches is the number of *)
(* dispatches that hold a snapshot, so a caller that waits for zero waits  *)
(* for all of them.  A descriptor that was erased is in no list, so no     *)
(* snapshot taken later contains it.  And an observer is only in the list  *)
(* of the id its topic resolves to, so erasing it from there erases it for *)
(* good.                                                                   *)
(*                                                                         *)
(* Then the center (MCSpec): it implements the queue, and with one         *)
(* controller there is one worker at a time, which Stop leaves no work of. *)
(***************************************************************************)
EXTENDS MessageCenter, FiniteSetTheorems, TLAPS

Dispatching == {w \in Dispatchers : InDispatch(w)}

\* The counter counts the dispatches that hold a snapshot.
CountInv ==
  /\ active = Cardinality(Dispatching)
  /\ \A w \in Dispatchers : ~ InDispatch(w) => todo[w] = {}
  /\ \A w \in Dispatchers : pc[w] # "run" => running[w] = None

\* A message in the queue or in a dispatch has a topic id.
MessageInv ==
  /\ \A k \in 1 .. Len(queue) : tid[queue[k]] \in TopicIds
  /\ \A w \in Dispatchers : pc[w] # "ready" => cur[w] \in Messages
  /\ \A w \in Dispatchers : cur[w] # None => tid[cur[w]] \in TopicIds

\* The ids in use have been given out.
IdInv ==
  /\ \A i \in Ids : i >= nextId => owner[i] = None
  /\ \A id \in TopicIds : \A i \in observers[id] : owner[i] # None
  /\ \A i \in gone : owner[i] # None
  /\ \A t \in Threads : \A i \in removing[t] : owner[i] # None

\* Observers are under the id of their topic, and removed ones are not there.
RemovedInv ==
  clears = 0 =>
    /\ \A id \in TopicIds : \A i \in observers[id] : resolve[owner[i][1]] = id
    /\ \A id \in TopicIds : \A i \in gone : i \notin observers[id]
    /\ \A id \in TopicIds, t \in Threads : \A i \in removing[t] : i \notin observers[id]

IInv == TypeOK /\ CountInv /\ MessageInv /\ IdInv /\ RemovedInv /\ RemovalContract

-----------------------------------------------------------------------------

LEMMA InitInvariant == Init => IInv
<1> SUFFICES ASSUME Init PROVE IInv
  OBVIOUS
<1> USE DEF Init, Threads
<1>1. TypeOK
  BY ThreadsAssumption, BoundsAssumption, NoneAssumption, SMTT(30)
     DEF TypeOK, TopicIds, NoTopic, Ids
<1>2. Dispatching = {}
  BY ThreadsAssumption DEF Dispatching, InDispatch
<1>3. CountInv
  BY <1>2, FS_EmptySet DEF CountInv
<1>4. MessageInv /\ IdInv /\ RemovedInv /\ RemovalContract
  BY ThreadsAssumption, NoneAssumption DEF MessageInv, IdInv, RemovedInv, RemovalContract
<1>5. QED
  BY <1>1, <1>3, <1>4 DEF IInv

-----------------------------------------------------------------------------
(* The counter *)

LEMMA DispatchingFinite == IsFiniteSet(Dispatching) /\ Cardinality(Dispatching) \in Nat
BY ThreadsAssumption, FS_Subset, FS_CardinalityType DEF Dispatching

-----------------------------------------------------------------------------
(* Types *)

\* The registry that Register leaves, and the id it hands out.
LEMMA RegisterType ==
  ASSUME TypeOK, NEW tp \in Topics, Register(tp)
  PROVE  /\ resolve' \in [Topics -> TopicIds \cup {NoTopic}]
         /\ topicMax' \in 0 .. MaxTopics
         /\ clears' \in 0 .. MaxClears
         /\ TopicId(tp) \in TopicIds \cup {NoTopic}
<1>1. TopicId(tp) \in TopicIds \cup {NoTopic}
  BY BoundsAssumption DEF TopicId, TypeOK, TopicIds, NoTopic
<1>2. QED
  BY <1>1, BoundsAssumption DEF Register, TypeOK, TopicIds, NoTopic

\* Calls that leave the threads where they are.
LEMMA ManageType ==
  ASSUME TypeOK, NEW t \in Threads, Manage(t)
  PROVE  TypeOK'
<1>1. ASSUME NEW tp \in Topics, RegisterTopic(t, tp)
      PROVE  TypeOK'
  <2>1. Register(tp)
    BY <1>1 DEF RegisterTopic
  <2>2. QED
    BY <1>1, <2>1, RegisterType
       DEF RegisterTopic, TypeOK, registrations, waiting, messages, dispatching
<1>2. ASSUME NEW tp \in Topics, NEW h \in Handlers, AddObserver(t, tp, h)
      PROVE  TypeOK'
  <2>1. Register(tp)
    BY <1>2 DEF AddObserver
  <2>2. CASE TopicId(tp) = NoTopic
    BY <1>2, <2>1, <2>2, RegisterType
       DEF AddObserver, TypeOK, registrations, waiting, messages, dispatching
  <2>3. CASE TopicId(tp) # NoTopic
    <3>1. nextId \in Ids /\ nextId' = nextId + 1 /\ nextId' \in 1 .. MaxId + 1
      BY <1>2, <2>3, BoundsAssumption DEF AddObserver, WithinBound, TypeOK, Ids
    <3>0. TopicId(tp) \in TopicIds
      BY <2>1, <2>3, RegisterType
    <3>2. observers' \in [TopicIds -> SUBSET Ids]
      <4>1. observers[TopicId(tp)] \cup {nextId} \in SUBSET Ids
        BY <3>0, <3>1 DEF TypeOK
      <4>2. observers' = [observers EXCEPT ![TopicId(tp)] =
                            observers[TopicId(tp)] \cup {nextId}]
        BY <1>2, <2>3 DEF AddObserver
      <4>3. QED
        BY <4>1, <4>2 DEF TypeOK
    <3>3. owner' \in [Ids -> (Topics \X Handlers) \cup {None}]
      <4>1. owner' = [owner EXCEPT ![nextId] = <<tp, h>>]
        BY <1>2, <2>3 DEF AddObserver
      <4>2. <<tp, h>> \in Topics \X Handlers
        OBVIOUS
      <4>3. QED
        BY <4>1, <4>2 DEF TypeOK
    <3>4. QED
      BY <1>2, <2>1, <3>1, <3>2, <3>3, RegisterType
         DEF AddObserver, TypeOK, waiting, messages, dispatching
  <2>4. QED
    BY <2>2, <2>3
<1>3. ASSUME NEW tp \in Topics, NEW ids \in SUBSET Ids, NEW some \in SUBSET Ids,
             MayCall(t), Erase(tp, ids), StartWaiting(t, some),
             UNCHANGED <<registry, nextId, owner, queue, messages, dispatching>>
      PROVE  TypeOK'
  <2>1. observers' \in [TopicIds -> SUBSET Ids]
    BY <1>3 DEF Erase, TypeOK
  <2>2. CASE InDispatch(t)
    BY <1>3, <2>1, <2>2
       DEF StartWaiting, TypeOK, registry, messages, dispatching, waiting
  <2>3. CASE ~ InDispatch(t)
    <3>1. t \in Clients
      BY <1>3, <2>3 DEF MayCall, InDispatch, TypeOK
    <3>2. QED
      BY <1>3, <2>1, <2>3, <3>1
         DEF StartWaiting, Goto, TypeOK, registry, messages, dispatching
  <2>4. QED
    BY <2>2, <2>3
<1>4. ASSUME NEW tp \in Topics, NEW h \in Handlers, RemoveObserver(t, tp, h)
      PROVE  TypeOK'
  BY <1>3, <1>4 DEF RemoveObserver
<1>5. ASSUME NEW tp \in Topics, NEW i \in Ids, RemoveObserverById(t, tp, i)
      PROVE  TypeOK'
  BY <1>3, <1>5 DEF RemoveObserverById
<1>6. ASSUME ClearTopics(t)
      PROVE  TypeOK'
  BY <1>6, BoundsAssumption
     DEF ClearTopics, TypeOK, registrations, waiting, messages, dispatching, NoTopic
<1>7. ASSUME Dispose(t)
      PROVE  TypeOK'
  BY <1>7 DEF Dispose, TypeOK, registry, waiting, dispatching
<1>8. QED
  BY <1>1, <1>2, <1>4, <1>5, <1>6, <1>7 DEF Manage

LEMMA PostType ==
  ASSUME TypeOK, NEW t \in Threads, PostSome(t)
  PROVE  TypeOK'
<1> PICK m \in Messages, id \in TopicIds \cup {NoTopic}, c \in BOOLEAN : Post(t, m, id, c)
  BY DEF PostSome
<1>1. payload' \in [Messages -> {"unused", "owned", "borrowed", "deleted", "lost"}]
  BY DEF Post, TypeOK
<1>2. CASE id = NoTopic
  BY <1>1, <1>2 DEF Post, TypeOK, registry, registrations, waiting, dispatching
<1>3. CASE id # NoTopic
  <2>1. id \in TopicIds /\ observers[id] \in SUBSET Ids
    BY <1>3 DEF TypeOK
  <2>2. /\ tid' = [tid EXCEPT ![m] = id]
        /\ due' = [due EXCEPT ![m] = observers[id]]
        /\ queue' = Append(queue, m)
    BY <1>3 DEF Post
  <2>3. /\ tid' \in [Messages -> TopicIds \cup {None}]
        /\ due' \in [Messages -> SUBSET Ids]
        /\ queue' \in Seq(Messages)
    BY <2>1, <2>2 DEF TypeOK
  <2>4. QED
    BY <1>1, <2>3 DEF Post, TypeOK, registry, registrations, waiting, dispatching
<1>4. QED
  BY <1>2, <1>3

LEMMA WaitType ==
  ASSUME TypeOK, NEW t \in Clients, WaitStep(t) \/ SpuriousWakeup(t)
  PROVE  TypeOK'
<1> USE DEF TypeOK, Goto, Threads, registry, registrations, messages, dispatching, waiting
<1>1. CASE WaitReturn(t)
  BY <1>1 DEF WaitReturn
<1>2. CASE WaitSleep(t)
  BY <1>2 DEF WaitSleep
<1>3. CASE SpuriousWakeup(t)
  BY <1>3 DEF SpuriousWakeup
<1>4. QED
  BY <1>1, <1>2, <1>3 DEF WaitStep

LEMMA DispatchType ==
  ASSUME TypeOK, CountInv, MessageInv, NEW w \in Dispatchers,
         GetQueueMessage(w) \/ DispatchStep(w)
  PROVE  TypeOK'
<1> USE DEF TypeOK, Goto, Threads, registry, registrations, messages, waiting
<1>0. w \notin Clients
  BY ThreadsAssumption
<1>1. CASE GetQueueMessage(w)
  BY <1>0, <1>1 DEF GetQueueMessage
<1>2. CASE Snapshot(w)
  <2>1. observers[tid[cur[w]]] \in SUBSET Ids
    BY <1>2, NoneAssumption DEF Snapshot, MessageInv
  <2>2. todo' \in [Dispatchers -> SUBSET Ids]
    BY <1>2, <2>1 DEF Snapshot
  <2>3. QED
    BY <1>0, <1>2, <2>2 DEF Snapshot
<1>3. CASE InvokeHandler(w)
  BY <1>0, <1>3 DEF InvokeHandler, MessageInv
<1>4. CASE HandlerReturns(w)
  BY <1>0, <1>4 DEF HandlerReturns
<1>5. CASE MarkDispatchComplete(w)
  <2>1. w \in Dispatching
    BY <1>5 DEF MarkDispatchComplete, Dispatching, InDispatch
  <2>2. active' \in Nat
    BY <1>5, <2>1, DispatchingFinite, FS_EmptySet
       DEF MarkDispatchComplete, CountInv
  <2>3. QED
    BY <1>0, <1>5, <2>2 DEF MarkDispatchComplete
<1>6. CASE Cleanup(w)
  BY <1>0, <1>6 DEF Cleanup
<1>7. QED
  BY <1>1, <1>2, <1>3, <1>4, <1>5, <1>6 DEF DispatchStep

-----------------------------------------------------------------------------
(* The counter *)

\* A step that leaves the dispatchers alone leaves CountInv alone.
LEMMA CountFrame ==
  ASSUME CountInv, UNCHANGED <<active, todo, running>>,
         \A w \in Dispatchers : pc'[w] = pc[w]
  PROVE  CountInv'
<1>1. Dispatching' = Dispatching
  BY DEF Dispatching, InDispatch
<1>2. QED
  BY <1>1 DEF CountInv, InDispatch

\* The public operations do not move the dispatchers, nor do the callers that
\* wait for them.
LEMMA CallLeaves ==
  ASSUME TypeOK, NEW t \in Threads, Manage(t) \/ PostSome(t)
  PROVE  /\ UNCHANGED <<active, todo, running>>
         /\ \A w \in Dispatchers : pc'[w] = pc[w]
<1>1. ASSUME NEW ids \in SUBSET Ids, MayCall(t), StartWaiting(t, ids)
      PROVE  \A w \in Dispatchers : pc'[w] = pc[w]
  <2>1. CASE InDispatch(t)
    BY <1>1, <2>1 DEF StartWaiting
  <2>2. CASE ~ InDispatch(t)
    <3>1. t \in Clients
      BY <1>1, <2>2 DEF MayCall, InDispatch, TypeOK
    <3>2. QED
      BY <1>1, <2>2, <3>1, ThreadsAssumption DEF StartWaiting, Goto, TypeOK, Threads
  <2>3. QED
    BY <2>1, <2>2
<1> DEFINE Left == /\ UNCHANGED <<active, todo, running>>
                   /\ \A w \in Dispatchers : pc'[w] = pc[w]
<1>2. Left
  <2>1. CASE PostSome(t)
    BY <2>1 DEF PostSome, Post, dispatching
  <2>2. ASSUME NEW tp \in Topics, NEW h \in Handlers, RemoveObserver(t, tp, h)
        PROVE  Left
    BY <1>1, <2>2 DEF RemoveObserver, dispatching
  <2>3. ASSUME NEW tp \in Topics, NEW i \in Ids, RemoveObserverById(t, tp, i)
        PROVE  Left
    BY <1>1, <2>3 DEF RemoveObserverById, dispatching
  <2>4. ASSUME NEW tp \in Topics, RegisterTopic(t, tp)
        PROVE  Left
    BY <2>4 DEF RegisterTopic, dispatching
  <2>5. ASSUME NEW tp \in Topics, NEW h \in Handlers, AddObserver(t, tp, h)
        PROVE  Left
    BY <2>5 DEF AddObserver, dispatching
  <2>6. CASE ClearTopics(t) \/ Dispose(t)
    BY <2>6 DEF ClearTopics, Dispose, dispatching
  <2>7. QED
    BY <2>1, <2>2, <2>3, <2>4, <2>5, <2>6 DEF Manage
<1>3. QED
  BY <1>2

LEMMA CallCount ==
  ASSUME TypeOK, CountInv, NEW t \in Threads, Manage(t) \/ PostSome(t)
  PROVE  CountInv'
BY CallLeaves, CountFrame

LEMMA WaitLeaves ==
  ASSUME TypeOK, NEW t \in Clients, WaitStep(t) \/ SpuriousWakeup(t)
  PROVE  /\ UNCHANGED <<active, todo, running>>
         /\ \A w \in Dispatchers : pc'[w] = pc[w]
BY ThreadsAssumption
   DEF WaitStep, WaitReturn, WaitSleep, SpuriousWakeup, Goto, TypeOK, Threads, dispatching

LEMMA WaitCount ==
  ASSUME TypeOK, CountInv, NEW t \in Clients, WaitStep(t) \/ SpuriousWakeup(t)
  PROVE  CountInv'
BY WaitLeaves, CountFrame

LEMMA DispatchCount ==
  ASSUME TypeOK, CountInv, NEW w \in Dispatchers, GetQueueMessage(w) \/ DispatchStep(w)
  PROVE  CountInv'
<1>0. /\ w \in Threads
      /\ pc \in [Threads -> {"idle", "wait", "asleep", "ready", "dispatch", "invoke", "run", "cleanup"}]
  BY DEF Threads, TypeOK
<1>1. ASSUME NEW l, Goto(w, l), UNCHANGED active,
             l \in {"invoke", "run"} <=> InDispatch(w),
             \A v \in Dispatchers \ {w} : todo'[v] = todo[v] /\ running'[v] = running[v],
             l \notin {"invoke", "run"} => todo'[w] = {},
             l # "run" => running'[w] = None
      PROVE  CountInv'
  <2>1. /\ pc'[w] = l
        /\ \A v \in Dispatchers \ {w} : pc'[v] = pc[v]
    BY <1>0, <1>1 DEF Goto, Threads
  <2>2. Dispatching' = Dispatching
    BY <1>1, <2>1 DEF Dispatching, InDispatch
  <2>3. QED
    BY <1>1, <2>1, <2>2 DEF CountInv, InDispatch
<1>2. CASE GetQueueMessage(w)
  BY <1>1, <1>2, <1>0 DEF GetQueueMessage, CountInv, InDispatch
<1>3. CASE Snapshot(w)
  <2>1. /\ pc'[w] = "invoke"
        /\ \A v \in Dispatchers \ {w} : pc'[v] = pc[v] /\ todo'[v] = todo[v]
    BY <1>0, <1>3 DEF Snapshot, Goto, TypeOK, Threads
  <2>2. w \notin Dispatching /\ Dispatching' = Dispatching \cup {w}
    BY <1>3, <2>1 DEF Dispatching, InDispatch, Snapshot
  <2>3. active' = Cardinality(Dispatching')
    BY <1>3, <2>2, DispatchingFinite, FS_AddElement DEF CountInv, Snapshot
  <2>4. QED
    BY <1>3, <2>1, <2>3 DEF CountInv, InDispatch, Snapshot
<1>4. CASE InvokeHandler(w)
  <2>1. \A v \in Dispatchers \ {w} : todo'[v] = todo[v] /\ running'[v] = running[v]
    BY <1>4 DEF InvokeHandler, TypeOK
  <2>2. QED
    BY <1>1, <1>4, <2>1 DEF InvokeHandler, InDispatch
<1>5. CASE HandlerReturns(w)
  <2>1. /\ running'[w] = None
        /\ \A v \in Dispatchers \ {w} : running'[v] = running[v]
    BY <1>5 DEF HandlerReturns, TypeOK
  <2>2. QED
    BY <1>1, <1>5, <2>1 DEF HandlerReturns, InDispatch
<1>6. CASE MarkDispatchComplete(w)
  <2>1. /\ pc'[w] = "cleanup"
        /\ \A v \in Dispatchers \ {w} : pc'[v] = pc[v]
    BY <1>0, <1>6, ThreadsAssumption DEF MarkDispatchComplete, TypeOK, Threads
  <2>2. w \in Dispatching /\ Dispatching' = Dispatching \ {w}
    BY <1>6, <2>1 DEF Dispatching, InDispatch, MarkDispatchComplete
  <2>3. active' = Cardinality(Dispatching')
    BY <1>6, <2>2, DispatchingFinite, FS_RemoveElement DEF CountInv, MarkDispatchComplete
  <2>4. QED
    BY <1>6, <2>1, <2>3 DEF CountInv, InDispatch, MarkDispatchComplete
<1>7. CASE Cleanup(w)
  BY <1>0, <1>1, <1>7 DEF Cleanup, CountInv, InDispatch
<1>8. QED
  BY <1>2, <1>3, <1>4, <1>5, <1>6, <1>7 DEF DispatchStep

-----------------------------------------------------------------------------
(* Messages *)

LEMMA MessageFrame ==
  ASSUME MessageInv, UNCHANGED <<queue, tid, cur>>,
         \A w \in Dispatchers : pc'[w] # "ready" => pc[w] # "ready"
  PROVE  MessageInv'
BY DEF MessageInv

LEMMA CallMessage ==
  ASSUME TypeOK, MessageInv, NEW t \in Threads, Manage(t) \/ PostSome(t)
  PROVE  MessageInv'
<1>1. ASSUME NEW ids \in SUBSET Ids, MayCall(t), StartWaiting(t, ids)
      PROVE  \A w \in Dispatchers : pc'[w] # "ready" => pc[w] # "ready"
  <2>1. CASE InDispatch(t)
    BY <1>1, <2>1 DEF StartWaiting
  <2>2. CASE ~ InDispatch(t)
    <3>1. pc' = [pc EXCEPT ![t] = "wait"] /\ pc[t] # "ready"
      BY <1>1, <2>2 DEF StartWaiting, Goto, MayCall
    <3>2. QED
      BY <3>1 DEF TypeOK, Threads
  <2>3. QED
    BY <2>1, <2>2
<1>2. ASSUME NEW m \in Messages, NEW id \in TopicIds \cup {NoTopic}, NEW c \in BOOLEAN,
             Post(t, m, id, c)
      PROVE  MessageInv'
  <2>1. CASE id = NoTopic
    BY <1>2, <2>1, MessageFrame DEF Post, dispatching
  <2>2. CASE id # NoTopic
    <3>1. /\ queue' = Append(queue, m)
          /\ tid' = [tid EXCEPT ![m] = id]
          /\ id \in TopicIds
      BY <1>2, <2>2 DEF Post
    <3>2. \A k \in 1 .. Len(queue') : tid'[queue'[k]] \in TopicIds
      <4> TAKE k \in 1 .. Len(queue')
      <4>1. queue \in Seq(Messages) /\ tid \in [Messages -> TopicIds \cup {None}]
        BY DEF TypeOK
      <4>2. CASE k = Len(queue) + 1
        BY <3>1, <4>1, <4>2
      <4>3. CASE k # Len(queue) + 1
        <5>1. k \in 1 .. Len(queue) /\ queue'[k] = queue[k] /\ queue[k] \in Messages
          BY <3>1, <4>1, <4>3
        <5>2. QED
          BY <3>1, <4>1, <5>1 DEF MessageInv
      <4>4. QED
        BY <4>2, <4>3
    <3>3. QED
      BY <1>2, <3>1, <3>2 DEF Post, MessageInv, TypeOK, dispatching
  <2>3. QED
    BY <2>1, <2>2
<1>3. ASSUME NEW tp \in Topics, NEW h \in Handlers, RemoveObserver(t, tp, h)
      PROVE  MessageInv'
  BY <1>1, <1>3, MessageFrame DEF RemoveObserver, messages, dispatching
<1>4. ASSUME NEW tp \in Topics, NEW i \in Ids, RemoveObserverById(t, tp, i)
      PROVE  MessageInv'
  BY <1>1, <1>4, MessageFrame DEF RemoveObserverById, messages, dispatching
<1>5. ASSUME NEW tp \in Topics, RegisterTopic(t, tp)
      PROVE  MessageInv'
  BY <1>5, MessageFrame DEF RegisterTopic, messages, dispatching
<1>6. ASSUME NEW tp \in Topics, NEW h \in Handlers, AddObserver(t, tp, h)
      PROVE  MessageInv'
  BY <1>6, MessageFrame DEF AddObserver, messages, dispatching
<1>7. CASE ClearTopics(t)
  BY <1>7, MessageFrame DEF ClearTopics, messages, dispatching
<1>8. CASE Dispose(t)
  BY <1>8 DEF Dispose, MessageInv, dispatching
<1>9. QED
  BY <1>2, <1>3, <1>4, <1>5, <1>6, <1>7, <1>8 DEF Manage, PostSome

LEMMA WaitMessage ==
  ASSUME TypeOK, MessageInv, NEW t \in Clients, WaitStep(t) \/ SpuriousWakeup(t)
  PROVE  MessageInv'
BY ThreadsAssumption, MessageFrame
   DEF WaitStep, WaitReturn, WaitSleep, SpuriousWakeup, Goto, TypeOK, Threads, dispatching, messages

LEMMA DispatchMessage ==
  ASSUME TypeOK, MessageInv, NEW w \in Dispatchers, GetQueueMessage(w) \/ DispatchStep(w)
  PROVE  MessageInv'
<1>0. /\ w \in Threads
      /\ pc \in [Threads -> {"idle", "wait", "asleep", "ready", "dispatch", "invoke", "run", "cleanup"}]
      /\ queue \in Seq(Messages)
      /\ cur \in [Dispatchers -> Messages \cup {None}]
  BY DEF Threads, TypeOK
<1>1. CASE GetQueueMessage(w)
  <2>1. /\ queue # << >> /\ queue' = Tail(queue) /\ UNCHANGED tid
        /\ cur' = [cur EXCEPT ![w] = Head(queue)]
    BY <1>1 DEF GetQueueMessage, messages
  <2>2. Head(queue) \in Messages /\ tid[Head(queue)] \in TopicIds
    BY <1>0, <2>1 DEF MessageInv
  <2>3. \A k \in 1 .. Len(queue') : tid'[queue'[k]] \in TopicIds
    BY <1>0, <2>1 DEF MessageInv
  <2>4. \A v \in Dispatchers : pc'[v] # "ready" => cur'[v] \in Messages
    BY <1>0, <1>1, <2>1, <2>2 DEF MessageInv, GetQueueMessage, Goto, Threads
  <2>5. \A v \in Dispatchers : cur'[v] # None => tid'[cur'[v]] \in TopicIds
    BY <1>0, <2>1, <2>2 DEF MessageInv
  <2>6. QED
    BY <2>3, <2>4, <2>5 DEF MessageInv
<1>2. CASE Snapshot(w)
  BY <1>0, <1>2, MessageFrame DEF Snapshot, Goto, messages
<1>3. CASE InvokeHandler(w)
  BY <1>0, <1>3, MessageFrame DEF InvokeHandler, Goto, messages
<1>4. CASE HandlerReturns(w)
  BY <1>0, <1>4, MessageFrame DEF HandlerReturns, Goto, messages
<1>5. CASE MarkDispatchComplete(w)
  BY <1>0, <1>5, MessageFrame, ThreadsAssumption DEF MarkDispatchComplete, messages, Threads
<1>6. CASE Cleanup(w)
  <2>1. /\ UNCHANGED <<queue, tid>>
        /\ cur' = [cur EXCEPT ![w] = None]
        /\ pc' = [pc EXCEPT ![w] = "ready"]
    BY <1>6 DEF Cleanup, Goto
  <2>2. QED
    BY <1>0, <2>1 DEF MessageInv, Threads
<1>7. QED
  BY <1>1, <1>2, <1>3, <1>4, <1>5, <1>6 DEF DispatchStep

-----------------------------------------------------------------------------
(* Ids, and the lists that removed observers are no longer in *)

\* Erasing descriptors and waiting, or returning, for some of them.
LEMMA EraseRemoves ==
  ASSUME TypeOK, IdInv, RemovedInv,
         NEW t \in Threads, NEW tp \in Topics, NEW ids \in SUBSET Ids, NEW some \in SUBSET ids,
         \A i \in some : owner[i] # None /\ owner[i][1] = tp,
         Erase(tp, ids), StartWaiting(t, some), UNCHANGED <<registry, nextId, owner>>
  PROVE  IdInv' /\ RemovedInv'
<1>1. /\ observers' \in [TopicIds -> SUBSET Ids]
      /\ \A id \in TopicIds : observers'[id] \subseteq observers[id]
      /\ resolve[tp] \in TopicIds => observers'[resolve[tp]] \cap ids = {}
  BY DEF Erase, TypeOK
<1>2. /\ gone' = gone
      /\ \A u \in Threads : removing'[u] = removing[u] \/ removing'[u] = some
  BY DEF StartWaiting, TypeOK, waiting
<1>3. IdInv'
  BY <1>1, <1>2 DEF IdInv
<1>4. ASSUME clears = 0
      PROVE  \A id \in TopicIds : \A i \in some : i \notin observers'[id]
  BY <1>1, <1>4 DEF RemovedInv
<1>5. RemovedInv'
  BY <1>1, <1>2, <1>4 DEF RemovedInv, registry
<1>6. QED
  BY <1>3, <1>5

\* A new observer has an id that was never removed, and goes under the id of
\* its topic.
LEMMA AddIds ==
  ASSUME TypeOK, IdInv, RemovedInv,
         NEW t \in Threads, NEW tp \in Topics, NEW h \in Handlers, AddObserver(t, tp, h)
  PROVE  IdInv' /\ RemovedInv'
<1>1. /\ Register(tp) /\ UNCHANGED <<clears, gone, removing>>
      /\ nextId \in Ids /\ owner[nextId] = None
  BY BoundsAssumption DEF AddObserver, WithinBound, Register, waiting, IdInv, TypeOK, Ids
<1>2. /\ resolve' = [resolve EXCEPT ![tp] = TopicId(tp)]
      /\ TopicId(tp) \in TopicIds \cup {NoTopic}
      /\ \A p \in Topics : resolve[p] # NoTopic => resolve'[p] = resolve[p]
      /\ resolve'[tp] = TopicId(tp)
  BY <1>1, RegisterType DEF Register, TopicId, TypeOK
<1>3. \A i \in Ids : owner[i] # None => owner[i][1] \in Topics
  BY DEF TypeOK
<1>4. NoTopic \notin TopicIds
  BY BoundsAssumption DEF NoTopic, TopicIds
<1>5. CASE TopicId(tp) = NoTopic
  <2>1. UNCHANGED <<observers, nextId, owner>>
    BY <1>5 DEF AddObserver, registrations
  <2>2. IdInv'
    BY <1>1, <2>1 DEF IdInv
  <2>3. RemovedInv'
    BY <1>1, <1>2, <1>3, <1>4, <2>1 DEF RemovedInv, IdInv, TypeOK
  <2>4. QED
    BY <2>2, <2>3
<1>6. CASE TopicId(tp) # NoTopic
  <2>1. /\ nextId' = nextId + 1
        /\ observers' = [observers EXCEPT ![TopicId(tp)] =
                            observers[TopicId(tp)] \cup {nextId}]
        /\ owner' = [owner EXCEPT ![nextId] = <<tp, h>>]
        /\ TopicId(tp) \in TopicIds
    BY <1>2, <1>6 DEF AddObserver
  <2>2. /\ \A i \in Ids \ {nextId} : owner'[i] = owner[i]
        /\ owner'[nextId] = <<tp, h>>
        /\ <<tp, h>> # None
    BY <1>1, <2>1, NoneAssumption DEF TypeOK
  <2>3. \A id \in TopicIds : \A i \in observers'[id] :
          i \in observers[id] \/ (i = nextId /\ id = TopicId(tp))
    BY <2>1 DEF TypeOK
  <2>4. /\ \A id \in TopicIds : nextId \notin observers[id]
        /\ nextId \notin gone
        /\ \A u \in Threads : nextId \notin removing[u]
    BY <1>1 DEF IdInv
  <2>5. IdInv'
    <3>1. ASSUME NEW i \in Ids, i >= nextId'
          PROVE  owner'[i] = None
      <4>1. i >= nextId /\ i # nextId
        BY <1>1, <2>1, <3>1 DEF Ids
      <4>2. QED
        BY <2>2, <4>1 DEF IdInv
    <3>2. \A id \in TopicIds : \A i \in observers'[id] : owner'[i] # None
      BY <2>2, <2>3 DEF IdInv, TypeOK
    <3>3. /\ \A i \in gone' : owner'[i] # None
          /\ \A u \in Threads : \A i \in removing'[u] : owner'[i] # None
      BY <1>1, <2>2 DEF IdInv, TypeOK
    <3>4. QED
      BY <3>1, <3>2, <3>3 DEF IdInv
  <2>6. ASSUME clears' = 0
        PROVE  /\ \A id \in TopicIds : \A i \in observers'[id] : resolve'[owner'[i][1]] = id
               /\ \A id \in TopicIds : \A i \in gone' : i \notin observers'[id]
               /\ \A id \in TopicIds, u \in Threads :
                    \A i \in removing'[u] : i \notin observers'[id]
    <3>1. clears = 0
      BY <1>1, <2>6
    <3>2. ASSUME NEW id \in TopicIds, NEW i \in observers'[id]
          PROVE  resolve'[owner'[i][1]] = id
      <4>1. CASE i = nextId
        BY <1>2, <2>2, <2>3, <2>4, <4>1
      <4>2. CASE i # nextId
        <5>1. i \in observers[id] /\ i \in Ids /\ owner'[i] = owner[i] /\ owner[i] # None
          BY <2>2, <2>3, <4>2 DEF IdInv, TypeOK
        <5>2. resolve[owner[i][1]] = id
          BY <3>1, <5>1 DEF RemovedInv
        <5>3. QED
          BY <1>2, <1>3, <1>4, <5>1, <5>2
      <4>3. QED
        BY <4>1, <4>2
    <3>3. QED
      BY <1>1, <2>3, <2>4, <3>1, <3>2 DEF RemovedInv
  <2>7. QED
    BY <2>5, <2>6 DEF RemovedInv
<1>7. QED
  BY <1>5, <1>6

LEMMA CallIds ==
  ASSUME TypeOK, IdInv, RemovedInv, NEW t \in Threads, Manage(t) \/ PostSome(t)
  PROVE  IdInv' /\ RemovedInv'
<1>1. CASE PostSome(t)
  BY <1>1 DEF PostSome, Post, IdInv, RemovedInv, registry, registrations, waiting
<1>2. ASSUME NEW tp \in Topics, RegisterTopic(t, tp)
      PROVE  IdInv' /\ RemovedInv'
  <2>1. /\ UNCHANGED <<clears, observers, nextId, owner, removing, gone>>
        /\ \A p \in Topics : resolve[p] # NoTopic => resolve'[p] = resolve[p]
    BY <1>2 DEF RegisterTopic, Register, TopicId, TypeOK, registrations, waiting
  <2>2. NoTopic \notin TopicIds
    BY BoundsAssumption DEF NoTopic, TopicIds
  <2>3. \A i \in Ids : owner[i] # None => owner[i][1] \in Topics
    BY DEF TypeOK
  <2>4. IdInv'
    BY <2>1 DEF IdInv
  <2>5. RemovedInv'
    BY <2>1, <2>2, <2>3 DEF IdInv, RemovedInv, TypeOK
  <2>6. QED
    BY <2>4, <2>5
<1>3. ASSUME NEW tp \in Topics, NEW h \in Handlers, AddObserver(t, tp, h)
      PROVE  IdInv' /\ RemovedInv'
  BY <1>3, AddIds
<1>4. ASSUME NEW tp \in Topics, NEW h \in Handlers, RemoveObserver(t, tp, h)
      PROVE  IdInv' /\ RemovedInv'
  <2> DEFINE ids == {i \in Ids : owner[i] # None /\ owner[i][2] = h}
             some == {i \in Ids : owner[i] = <<tp, h>>}
  <2>1. \A i \in some : i \in ids /\ owner[i] # None /\ owner[i][1] = tp
    BY NoneAssumption
  <2>2. Erase(tp, ids) /\ StartWaiting(t, some) /\ UNCHANGED <<registry, nextId, owner>>
    BY <1>4 DEF RemoveObserver
  <2>3. ids \in SUBSET Ids /\ some \in SUBSET ids
    BY <2>1
  <2> HIDE DEF ids, some
  <2>4. QED
    BY <2>1, <2>2, <2>3, EraseRemoves
<1>5. ASSUME NEW tp \in Topics, NEW i \in Ids, RemoveObserverById(t, tp, i)
      PROVE  IdInv' /\ RemovedInv'
  <2> DEFINE some == {j \in {i} : owner[j] # None /\ owner[j][1] = tp}
  <2>1. Erase(tp, {i}) /\ StartWaiting(t, some) /\ UNCHANGED <<registry, nextId, owner>>
    BY <1>5 DEF RemoveObserverById
  <2>2. some \in SUBSET {i} /\ \A j \in some : owner[j] # None /\ owner[j][1] = tp
    OBVIOUS
  <2> HIDE DEF some
  <2>3. QED
    BY <2>1, <2>2, EraseRemoves
<1>6. CASE ClearTopics(t)
  <2>1. clears' # 0
    BY <1>6 DEF ClearTopics, TypeOK
  <2>2. QED
    BY <1>6, <2>1 DEF ClearTopics, IdInv, RemovedInv, registrations, waiting
<1>7. CASE Dispose(t)
  BY <1>7 DEF Dispose, IdInv, RemovedInv, registry, waiting
<1>8. QED
  BY <1>1, <1>2, <1>3, <1>4, <1>5, <1>6, <1>7 DEF Manage

LEMMA WaitIds ==
  ASSUME TypeOK, IdInv, RemovedInv, NEW t \in Clients, WaitStep(t) \/ SpuriousWakeup(t)
  PROVE  IdInv' /\ RemovedInv'
<1>1. CASE WaitReturn(t)
  <2>1. /\ UNCHANGED <<registry, registrations>>
        /\ gone' = gone \cup removing[t]
        /\ \A u \in Threads : removing'[u] \subseteq removing[u]
        /\ t \in Threads
    BY <1>1 DEF WaitReturn, TypeOK, Threads
  <2>2. QED
    BY <2>1 DEF IdInv, RemovedInv, registry, registrations
<1>2. CASE WaitSleep(t) \/ SpuriousWakeup(t)
  BY <1>2 DEF WaitSleep, SpuriousWakeup, IdInv, RemovedInv, registry, registrations, waiting
<1>3. QED
  BY <1>1, <1>2 DEF WaitStep

LEMMA DispatchIds ==
  ASSUME IdInv, RemovedInv, NEW w \in Dispatchers, GetQueueMessage(w) \/ DispatchStep(w)
  PROVE  IdInv' /\ RemovedInv'
<1>1. UNCHANGED <<registry, registrations, waiting>>
  BY DEF GetQueueMessage, DispatchStep, Snapshot, InvokeHandler, HandlerReturns,
         MarkDispatchComplete, Cleanup
<1>2. QED
  BY <1>1 DEF IdInv, RemovedInv, registry, registrations, waiting

-----------------------------------------------------------------------------
(* The removal contract *)

LEMMA CallContract ==
  ASSUME TypeOK, RemovalContract, NEW t \in Threads, Manage(t) \/ PostSome(t)
  PROVE  RemovalContract'
<1>1. UNCHANGED <<todo, running, gone>>
  BY DEF Manage, PostSome, RegisterTopic, AddObserver, RemoveObserver, RemoveObserverById,
         StartWaiting, ClearTopics, Dispose, Post, waiting, dispatching
<1>2. clears' = 0 => clears = 0
  <2>1. CASE ClearTopics(t)
    BY <2>1, BoundsAssumption DEF ClearTopics, TypeOK
  <2>2. CASE ~ ClearTopics(t)
    BY <2>2 DEF Manage, PostSome, RegisterTopic, AddObserver, RemoveObserver,
                RemoveObserverById, Register, Dispose, Post, registry
  <2>3. QED
    BY <2>1, <2>2
<1>3. QED
  BY <1>1, <1>2 DEF RemovalContract

\* A caller returns when the counter is 0: then no dispatch holds a snapshot.
LEMMA WaitContract ==
  ASSUME TypeOK, CountInv, RemovalContract,
         NEW t \in Clients, WaitStep(t) \/ SpuriousWakeup(t)
  PROVE  RemovalContract'
<1>1. CASE WaitReturn(t)
  <2>1. Dispatching = {}
    BY <1>1, DispatchingFinite, FS_EmptySet DEF WaitReturn, CountInv
  <2>2. \A w \in Dispatchers : todo[w] = {} /\ running[w] = None
    BY <2>1 DEF CountInv, Dispatching, InDispatch
  <2>3. gone' \subseteq Ids
    BY <1>1 DEF WaitReturn, TypeOK, Threads
  <2>4. QED
    BY <1>1, <2>2, <2>3, NoneAssumption DEF WaitReturn, RemovalContract, dispatching
<1>2. CASE WaitSleep(t) \/ SpuriousWakeup(t)
  BY <1>2 DEF WaitSleep, SpuriousWakeup, RemovalContract, registry, waiting, dispatching
<1>3. QED
  BY <1>1, <1>2 DEF WaitStep

LEMMA DispatchContract ==
  ASSUME TypeOK, MessageInv, RemovedInv, RemovalContract,
         NEW w \in Dispatchers, GetQueueMessage(w) \/ DispatchStep(w)
  PROVE  RemovalContract'
<1> SUFFICES ASSUME clears' = 0
             PROVE  \A v \in Dispatchers : todo'[v] \cap gone' = {} /\ running'[v] \notin gone'
  BY DEF RemovalContract
<1>1. UNCHANGED <<registry, waiting>> /\ clears = 0
  BY DEF GetQueueMessage, DispatchStep, Snapshot, InvokeHandler, HandlerReturns,
         MarkDispatchComplete, Cleanup, registry
<1>2. \A v \in Dispatchers : todo[v] \cap gone = {} /\ running[v] \notin gone
  BY <1>1 DEF RemovalContract
<1>3. CASE Snapshot(w)
  <2>1. tid[cur[w]] \in TopicIds
    BY <1>3, NoneAssumption DEF Snapshot, MessageInv
  <2>2. observers[tid[cur[w]]] \cap gone = {}
    BY <1>1, <2>1 DEF RemovedInv
  <2>3. todo' = [todo EXCEPT ![w] = observers[tid[cur[w]]]] /\ UNCHANGED running
    BY <1>3 DEF Snapshot
  <2>4. QED
    BY <1>1, <1>2, <2>2, <2>3 DEF TypeOK, waiting
<1>4. CASE InvokeHandler(w)
  <2>1. PICK i \in todo[w] : /\ todo' = [todo EXCEPT ![w] = todo[w] \ {i}]
                             /\ running' = [running EXCEPT ![w] = i]
    BY <1>4 DEF InvokeHandler
  <2>2. QED
    BY <1>1, <1>2, <2>1 DEF TypeOK, waiting
<1>5. CASE HandlerReturns(w)
  <2>1. running' = [running EXCEPT ![w] = None] /\ UNCHANGED todo /\ None \notin gone
    BY <1>5, NoneAssumption DEF HandlerReturns, TypeOK
  <2>2. QED
    BY <1>1, <1>2, <2>1 DEF TypeOK, waiting
<1>6. CASE GetQueueMessage(w) \/ MarkDispatchComplete(w) \/ Cleanup(w)
  BY <1>1, <1>2, <1>6 DEF GetQueueMessage, MarkDispatchComplete, Cleanup, waiting
<1>7. QED
  BY <1>3, <1>4, <1>5, <1>6 DEF DispatchStep

-----------------------------------------------------------------------------

LEMMA StutterInvariant == IInv /\ UNCHANGED vars => IInv'
BY DEF vars, registry, registrations, waiting, messages, dispatching, IInv, TypeOK,
       CountInv, Dispatching, InDispatch, MessageInv, IdInv, RemovedInv, RemovalContract

LEMMA NextInvariant == IInv /\ [Next]_vars => IInv'
<1> SUFFICES ASSUME IInv, [Next]_vars PROVE IInv'
  OBVIOUS
<1> USE DEF IInv
<1>1. ASSUME NEW t \in Threads, Manage(t) \/ PostSome(t)
      PROVE  IInv'
  BY <1>1, ManageType, PostType, CallCount, CallMessage, CallIds, CallContract
<1>2. ASSUME NEW t \in Clients, WaitStep(t) \/ SpuriousWakeup(t)
      PROVE  IInv'
  BY <1>2, WaitType, WaitCount, WaitMessage, WaitIds, WaitContract
<1>3. ASSUME NEW w \in Dispatchers, GetQueueMessage(w) \/ DispatchStep(w)
      PROVE  IInv'
  BY <1>3, DispatchType, DispatchCount, DispatchMessage, DispatchIds, DispatchContract
<1>4. CASE UNCHANGED vars
  BY <1>4, StutterInvariant
<1>5. QED
  BY <1>1, <1>2, <1>3, <1>4 DEF Next

LEMMA Invariance == Spec => []IInv
BY InitInvariant, NextInvariant, PTL DEF Spec

\* Every variable of the queue keeps its type, whatever the threads do.
THEOREM TypeCorrect == Spec => []TypeOK
<1>1. IInv => TypeOK
  BY DEF IInv
<1>2. QED
  BY <1>1, Invariance, PTL

\* RemoveObserver keeps its promise to callers that are not handlers: once it
\* has returned, no dispatch runs a removed handler or holds it in a snapshot.
THEOREM RemovalIsFinal == Spec => []RemovalContract
<1>1. IInv => RemovalContract
  BY DEF IInv
<1>2. QED
  BY <1>1, Invariance, PTL

-----------------------------------------------------------------------------
(* Payloads: a message is in one place, the queue or one dispatch *)

Used == {m \in Messages : payload[m] \in {"owned", "borrowed"}}

PlaceInv ==
  /\ \A k \in 1 .. Len(queue) : queue[k] \in Used
  /\ \A j, k \in 1 .. Len(queue) : queue[j] = queue[k] => j = k
  /\ \A w \in Dispatchers : pc[w] = "ready" => cur[w] = None
  /\ PayloadSafe

LEMMA InitPlace == Init => PlaceInv
BY ThreadsAssumption DEF Init, PlaceInv, PayloadSafe, Threads

\* The queue is left as it is and the payloads in use stay so.
LEMMA PlaceFrame ==
  ASSUME PlaceInv, UNCHANGED <<queue, cur>>,
         Used \subseteq Used',
         \A w \in Dispatchers : pc'[w] = "ready" => pc[w] = "ready",
         TypeOK
  PROVE  PlaceInv'
<1>1. \A k \in 1 .. Len(queue') : queue'[k] \in Used'
  BY DEF PlaceInv
<1>2. \A w \in Dispatchers : cur'[w] # None => payload'[cur'[w]] \in {"owned", "borrowed"}
  <2>1. \A w \in Dispatchers : cur[w] # None => cur[w] \in Used
    BY DEF PlaceInv, PayloadSafe, Used, TypeOK
  <2>2. QED
    BY <2>1 DEF Used
<1>3. PayloadSafe'
  BY <1>2 DEF PlaceInv, PayloadSafe
<1>4. QED
  BY <1>1, <1>3 DEF PlaceInv

LEMMA DisposePlace ==
  ASSUME TypeOK, PlaceInv, NEW t \in Threads, Dispose(t)
  PROVE  PlaceInv'
<1>1. /\ queue' = << >> /\ UNCHANGED <<cur, pc>>
      /\ payload' = [m \in Messages |->
                       IF payload[m] = "owned" /\ \E k \in 1 .. Len(queue) : queue[k] = m
                         THEN "lost" ELSE payload[m]]
  BY DEF Dispose, dispatching
<1>2. ASSUME NEW w \in Dispatchers, cur[w] # None
      PROVE  cur[w] \in Used'
  <2>1. cur[w] \in Messages /\ cur[w] \in Used /\ \A k \in 1 .. Len(queue) : queue[k] # cur[w]
    BY <1>2 DEF PlaceInv, PayloadSafe, Used, TypeOK
  <2>2. payload'[cur[w]] = payload[cur[w]]
    BY <1>1, <2>1
  <2>3. QED
    BY <1>1, <2>1, <2>2 DEF Used
<1>3. QED
  BY <1>1, <1>2 DEF PlaceInv, PayloadSafe, Used

LEMMA PostPlace ==
  ASSUME TypeOK, PlaceInv, NEW t \in Threads, PostSome(t)
  PROVE  PlaceInv'
<1> PICK m \in Messages, id \in TopicIds \cup {NoTopic}, c \in BOOLEAN : Post(t, m, id, c)
  BY DEF PostSome
<1>1. /\ payload[m] = "unused" /\ UNCHANGED <<cur, pc>>
      /\ payload' = [payload EXCEPT ![m] = IF c THEN "owned" ELSE "borrowed"]
      /\ queue' = queue \/ queue' = Append(queue, m)
  BY DEF Post, dispatching
<1>2. /\ m \notin Used /\ m \in Used'
      /\ Used \subseteq Used'
  BY <1>1 DEF Used, TypeOK
<1>3. CASE queue' = queue
  BY <1>1, <1>2, <1>3, PlaceFrame
<1>4. CASE queue' = Append(queue, m)
  <2>1. queue \in Seq(Messages) /\ \A k \in 1 .. Len(queue) : queue[k] \in Messages
    BY DEF TypeOK
  <2>2. /\ Len(queue') = Len(queue) + 1
        /\ queue'[Len(queue) + 1] = m
        /\ \A k \in 1 .. Len(queue) : queue'[k] = queue[k]
    BY <1>4, <2>1
  <2>3. \A k \in 1 .. Len(queue) : queue[k] # m
    BY <1>2 DEF PlaceInv
  <2>4. \A w \in Dispatchers : cur[w] # m
    BY <1>2, NoneAssumption DEF PlaceInv, PayloadSafe, Used
  <2>5. \A k \in 1 .. Len(queue') : k = Len(queue) + 1 \/ k \in 1 .. Len(queue)
    BY <2>1, <2>2
  <2>6. \A k \in 1 .. Len(queue') : queue'[k] \in Used'
    <3>1. \A k \in 1 .. Len(queue) : queue[k] \in Used'
      BY <1>2, <2>1 DEF PlaceInv
    <3>2. QED
      BY <1>2, <2>2, <2>5, <3>1 DEF Used
  <2>7. \A j, k \in 1 .. Len(queue') : queue'[j] = queue'[k] => j = k
    BY <2>2, <2>3, <2>5 DEF PlaceInv
  <2>8. PayloadSafe'
    <3>1. \A w \in Dispatchers : cur'[w] # None => payload'[cur'[w]] \in {"owned", "borrowed"}
      BY <1>1, <1>2 DEF PlaceInv, PayloadSafe, Used, TypeOK
    <3>2. \A i \in 1 .. Len(queue') : \A w \in Dispatchers : cur'[w] # queue'[i]
      BY <1>1, <2>2, <2>4, <2>5 DEF PlaceInv, PayloadSafe
    <3>3. QED
      BY <1>1, <3>1, <3>2 DEF PlaceInv, PayloadSafe
  <2>9. QED
    BY <1>1, <2>6, <2>7, <2>8 DEF PlaceInv, Used
<1>5. QED
  BY <1>1, <1>3, <1>4

LEMMA CallPlace ==
  ASSUME TypeOK, PlaceInv, NEW t \in Threads, Manage(t) \/ PostSome(t)
  PROVE  PlaceInv'
<1>1. CASE PostSome(t)
  BY <1>1, PostPlace
<1>2. CASE Dispose(t)
  BY <1>2, DisposePlace
<1>3. CASE ~ PostSome(t) /\ ~ Dispose(t)
  <2>1. UNCHANGED <<queue, payload, cur>>
    BY <1>3 DEF Manage, RegisterTopic, AddObserver, RemoveObserver, RemoveObserverById,
                ClearTopics, messages, dispatching
  <2>2. QED
    BY <2>1, CallLeaves, PlaceFrame DEF Used
<1>4. QED
  BY <1>1, <1>2, <1>3

LEMMA WaitPlace ==
  ASSUME TypeOK, PlaceInv, NEW t \in Clients, WaitStep(t) \/ SpuriousWakeup(t)
  PROVE  PlaceInv'
<1>1. UNCHANGED <<queue, payload, cur>>
  BY DEF WaitStep, WaitReturn, WaitSleep, SpuriousWakeup, messages, dispatching
<1>2. \A w \in Dispatchers : pc'[w] = pc[w]
  BY WaitLeaves
<1>3. QED
  BY <1>1, <1>2, PlaceFrame DEF Used

LEMMA DispatchPlace ==
  ASSUME TypeOK, MessageInv, PlaceInv, NEW w \in Dispatchers,
         GetQueueMessage(w) \/ DispatchStep(w)
  PROVE  PlaceInv'
<1>0. /\ w \in Threads
      /\ pc \in [Threads -> {"idle", "wait", "asleep", "ready", "dispatch", "invoke", "run", "cleanup"}]
      /\ queue \in Seq(Messages)
      /\ cur \in [Dispatchers -> Messages \cup {None}]
      /\ payload \in [Messages -> {"unused", "owned", "borrowed", "deleted", "lost"}]
      /\ Dispatchers \subseteq Threads
  BY DEF Threads, TypeOK
<1>1. CASE GetQueueMessage(w)
  <2>1. /\ queue # << >> /\ queue' = Tail(queue) /\ UNCHANGED payload
        /\ cur' = [cur EXCEPT ![w] = queue[1]]
        /\ pc' = [pc EXCEPT ![w] = "dispatch"]
    BY <1>0, <1>1 DEF GetQueueMessage, messages, Goto
  <2>2. /\ 1 \in 1 .. Len(queue)
        /\ Len(queue') = Len(queue) - 1
        /\ \A k \in 1 .. Len(queue') :
             k + 1 \in 1 .. Len(queue) /\ queue'[k] = queue[k + 1] /\ k + 1 # 1
    BY <1>0, <2>1
  <2>3. /\ queue[1] \in Messages /\ queue[1] \in Used
        /\ \A v \in Dispatchers : cur[v] # queue[1]
        /\ \A k \in 1 .. Len(queue') : queue'[k] # queue[1]
    BY <1>0, <2>2 DEF PlaceInv, PayloadSafe
  <2>4. \A k \in 1 .. Len(queue') : queue'[k] \in Used'
    BY <2>1, <2>2 DEF PlaceInv, Used
  <2>5. \A j, k \in 1 .. Len(queue') : queue'[j] = queue'[k] => j = k
    <3> TAKE j, k \in 1 .. Len(queue')
    <3>1. queue'[j] = queue'[k] => j + 1 = k + 1
      BY <2>2 DEF PlaceInv
    <3>2. QED
      BY <3>1
  <2>6. \A v \in Dispatchers : pc'[v] = "ready" => cur'[v] = None
    BY <1>0, <2>1 DEF PlaceInv
  <2>7. PayloadSafe'
    <3>1. \A v \in Dispatchers : cur'[v] # None => payload'[cur'[v]] \in {"owned", "borrowed"}
      BY <1>0, <2>1, <2>3 DEF PlaceInv, PayloadSafe, Used
    <3>2. \A v, u \in Dispatchers : v # u /\ cur'[v] = cur'[u] => cur'[v] = None
      BY <1>0, <2>1, <2>3 DEF PlaceInv, PayloadSafe
    <3>3. \A i \in 1 .. Len(queue') : \A v \in Dispatchers : cur'[v] # queue'[i]
      BY <1>0, <2>1, <2>2, <2>3 DEF PlaceInv, PayloadSafe
    <3>4. QED
      BY <3>1, <3>2, <3>3 DEF PayloadSafe
  <2>8. QED
    BY <2>4, <2>5, <2>6, <2>7 DEF PlaceInv
<1>2. CASE Snapshot(w) \/ InvokeHandler(w) \/ HandlerReturns(w) \/ MarkDispatchComplete(w)
  <2>1. UNCHANGED <<queue, payload, cur>>
    BY <1>2 DEF Snapshot, InvokeHandler, HandlerReturns, MarkDispatchComplete, messages
  <2>2. \A v \in Dispatchers : pc'[v] = "ready" => pc[v] = "ready"
    BY <1>0, <1>2 DEF Snapshot, InvokeHandler, HandlerReturns, MarkDispatchComplete, Goto
  <2>3. QED
    BY <2>1, <2>2, PlaceFrame DEF Used
<1>3. CASE Cleanup(w)
  <2>1. /\ UNCHANGED queue
        /\ payload' = [payload EXCEPT ![cur[w]] = IF payload[cur[w]] = "owned" THEN "deleted"
                                                  ELSE payload[cur[w]]]
        /\ cur' = [cur EXCEPT ![w] = None]
        /\ pc' = [pc EXCEPT ![w] = "ready"]
        /\ cur[w] \in Messages
    BY <1>3 DEF Cleanup, Goto, MessageInv
  <2>2. /\ \A k \in 1 .. Len(queue) : queue[k] # cur[w]
        /\ \A v \in Dispatchers : v # w => cur[v] # cur[w]
    BY <2>1, NoneAssumption DEF PlaceInv, PayloadSafe
  <2>3. \A m \in Messages : m # cur[w] => payload'[m] = payload[m]
    BY <1>0, <2>1
  <2>4. \A k \in 1 .. Len(queue') : queue'[k] \in Used'
    BY <1>0, <2>1, <2>2, <2>3 DEF PlaceInv, Used
  <2>5. \A v \in Dispatchers : pc'[v] = "ready" => cur'[v] = None
    BY <1>0, <2>1 DEF PlaceInv
  <2>6. PayloadSafe'
    <3>1. \A v \in Dispatchers : cur'[v] # None => payload'[cur'[v]] \in {"owned", "borrowed"}
      BY <1>0, <2>1, <2>2, <2>3 DEF PlaceInv, PayloadSafe
    <3>2. \A v, u \in Dispatchers : v # u /\ cur'[v] = cur'[u] => cur'[v] = None
      BY <1>0, <2>1 DEF PlaceInv, PayloadSafe
    <3>3. \A i \in 1 .. Len(queue') : \A v \in Dispatchers : cur'[v] # queue'[i]
      BY <1>0, <2>1, NoneAssumption DEF PlaceInv, PayloadSafe
    <3>4. QED
      BY <3>1, <3>2, <3>3 DEF PayloadSafe
  <2>7. QED
    BY <2>1, <2>4, <2>5, <2>6 DEF PlaceInv
<1>4. QED
  BY <1>1, <1>2, <1>3 DEF DispatchStep

LEMMA NextPlace == IInv /\ PlaceInv /\ [Next]_vars => PlaceInv'
<1> SUFFICES ASSUME IInv, PlaceInv, [Next]_vars PROVE PlaceInv'
  OBVIOUS
<1> USE DEF IInv
<1>1. ASSUME NEW t \in Threads, Manage(t) \/ PostSome(t)
      PROVE  PlaceInv'
  BY <1>1, CallPlace
<1>2. ASSUME NEW t \in Clients, WaitStep(t) \/ SpuriousWakeup(t)
      PROVE  PlaceInv'
  BY <1>2, WaitPlace
<1>3. ASSUME NEW w \in Dispatchers, GetQueueMessage(w) \/ DispatchStep(w)
      PROVE  PlaceInv'
  BY <1>3, DispatchPlace
<1>4. CASE UNCHANGED vars
  BY <1>4 DEF vars, messages, dispatching, PlaceInv, PayloadSafe, Used
<1>5. QED
  BY <1>1, <1>2, <1>3, <1>4 DEF Next

LEMMA PlaceInvariance == Spec => []PlaceInv
BY InitPlace, NextPlace, Invariance, PTL DEF Spec

\* No handler runs on a deleted payload and no payload is deleted twice, for any
\* number of dispatchers taking messages from the queue.
THEOREM PayloadsAreSafe == Spec => []PayloadSafe
<1>1. PlaceInv => PayloadSafe
  BY DEF PlaceInv
<1>2. QED
  BY <1>1, PlaceInvariance, PTL


-----------------------------------------------------------------------------
(* Observers: what each message has been passed to *)

\* A message was passed to an observer of its topic, and once.
RanInv ==
  \A m \in Messages, i \in Ids :
    ran[m][i] # 0 =>
      /\ ran[m][i] = 1 /\ payload[m] # "unused"
      /\ tid[m] \in TopicIds /\ owner[i] # None
      /\ clears = 0 => resolve[owner[i][1]] = tid[m]

\* A message was not yet passed to the observers it is still to be passed to.
FreshInv ==
  /\ \A k \in 1 .. Len(queue) : \A i \in Ids : ran[queue[k]][i] = 0
  /\ \A w \in Dispatchers : pc[w] = "dispatch" => \A i \in Ids : ran[cur[w]][i] = 0
  /\ \A w \in Dispatchers : \A i \in todo[w] :
       /\ ran[cur[w]][i] = 0 /\ owner[i] # None
       /\ clears = 0 => resolve[owner[i][1]] = tid[cur[w]]

\* The observers a message is due to get it from the snapshot.
DueInv ==
  /\ \A m \in Messages : \A i \in due[m] : owner[i] # None
  /\ \A w \in Dispatchers : InDispatch(w) =>
       \A i \in due[cur[w]] \cap observers[tid[cur[w]]] : i \in todo[w] \/ ran[cur[w]][i] = 1
  /\ \A m \in Messages : Dispatched(m) =>
       \A i \in due[m] \cap observers[tid[m]] : ran[m][i] = 1

OnceInv == RanInv /\ FreshInv /\ DueInv

LEMMA InitOnce == Init => OnceInv
BY ThreadsAssumption
   DEF Init, OnceInv, RanInv, FreshInv, DueInv, Dispatched, Threads, InDispatch

\* What a change of the registrations leaves: topics that resolve keep their
\* ids, ids keep their owners, and an id in use enters no list.
Keeps ==
  /\ clears' = 0 =>
       clears = 0 /\ \A tp \in Topics : resolve[tp] # NoTopic => resolve'[tp] = resolve[tp]
  /\ \A i \in Ids : owner[i] # None => owner'[i] = owner[i]
  /\ \A id \in TopicIds : \A i \in observers'[id] : owner[i] # None => i \in observers[id]

LEMMA ManageKeeps ==
  ASSUME TypeOK, IdInv, NEW t \in Threads, Manage(t)
  PROVE  Keeps
<1>1. CASE ClearTopics(t) \/ Dispose(t)
  BY <1>1, BoundsAssumption DEF ClearTopics, Dispose, Keeps, registrations, registry, TypeOK
<1>2. ASSUME NEW tp \in Topics, Register(tp)
      PROVE  clears' = clears /\ \A p \in Topics : resolve[p] # NoTopic => resolve'[p] = resolve[p]
  BY <1>2 DEF Register, TopicId, TypeOK
<1>3. ASSUME NEW tp \in Topics, RegisterTopic(t, tp)
      PROVE  Keeps
  BY <1>2, <1>3 DEF RegisterTopic, Keeps, registrations
<1>4. ASSUME NEW tp \in Topics, NEW h \in Handlers, AddObserver(t, tp, h)
      PROVE  Keeps
  <2>1. Register(tp)
    BY <1>4 DEF AddObserver
  <2>2. CASE TopicId(tp) = NoTopic
    BY <1>2, <1>4, <2>1, <2>2 DEF AddObserver, Keeps, registrations
  <2>3. CASE TopicId(tp) # NoTopic
    <3>1. /\ nextId \in Ids /\ owner[nextId] = None
          /\ observers' = [observers EXCEPT ![TopicId(tp)] =
                              observers[TopicId(tp)] \cup {nextId}]
          /\ owner' = [owner EXCEPT ![nextId] = <<tp, h>>]
      BY <1>4, <2>3, BoundsAssumption DEF AddObserver, WithinBound, IdInv, TypeOK, Ids
    <3>2. /\ \A i \in Ids : owner[i] # None => owner'[i] = owner[i]
          /\ \A id \in TopicIds : \A i \in observers'[id] :
               owner[i] # None => i \in observers[id]
      BY <3>1 DEF TypeOK
    <3>3. QED
      BY <1>2, <2>1, <3>2 DEF Keeps
  <2>4. QED
    BY <2>2, <2>3
<1>5. ASSUME NEW tp \in Topics, NEW h \in Handlers, RemoveObserver(t, tp, h)
      PROVE  Keeps
  BY <1>5 DEF RemoveObserver, Erase, Keeps, registry, TypeOK
<1>6. ASSUME NEW tp \in Topics, NEW i \in Ids, RemoveObserverById(t, tp, i)
      PROVE  Keeps
  BY <1>6 DEF RemoveObserverById, Erase, Keeps, registry, TypeOK
<1>7. QED
  BY <1>1, <1>3, <1>4, <1>5, <1>6 DEF Manage

\* A change of the registrations, while the messages and dispatches stay as
\* they are, leaves OnceInv alone.
LEMMA OnceFrame ==
  ASSUME TypeOK, MessageInv, CountInv, OnceInv, Keeps, UNCHANGED <<tid, due, dispatching>>,
         queue' = queue, \A m \in Messages : payload[m] # "unused" => payload'[m] # "unused",
         \A w \in Dispatchers : pc'[w] = pc[w]
  PROVE  OnceInv'
<1>0. UNCHANGED <<queue, tid, due, cur, todo, ran>>
  BY DEF dispatching
<1>1. \A i \in Ids : owner[i] # None => owner'[i] = owner[i] /\ owner'[i] # None
  BY DEF Keeps
<1>2. ASSUME clears' = 0, NEW i \in Ids, NEW id \in TopicIds,
             owner[i] # None, clears = 0 => resolve[owner[i][1]] = id
      PROVE  resolve'[owner'[i][1]] = id
  <2>1. owner[i][1] \in Topics /\ resolve[owner[i][1]] = id /\ id # NoTopic
    BY <1>2, BoundsAssumption DEF Keeps, TypeOK, TopicIds, NoTopic
  <2>2. QED
    BY <1>1, <1>2, <2>1 DEF Keeps
<1>3. RanInv'
  BY <1>0, <1>1, <1>2 DEF OnceInv, RanInv
<1>4. \A w \in Dispatchers : \A i \in todo[w] : i \in Ids /\ tid[cur[w]] \in TopicIds
  <2>1. \A w \in Dispatchers : todo[w] # {} => cur[w] \in Messages
    BY DEF CountInv, MessageInv, InDispatch
  <2>2. \A w \in Dispatchers : cur[w] \in Messages => tid[cur[w]] \in TopicIds
    BY NoneAssumption DEF MessageInv
  <2>3. \A w \in Dispatchers : todo[w] \subseteq Ids
    BY DEF TypeOK
  <2>4. QED
    BY <2>1, <2>2, <2>3
<1>5. FreshInv'
  <2>1. \A k \in 1 .. Len(queue') : \A i \in Ids : ran'[queue'[k]][i] = 0
    BY <1>0 DEF OnceInv, FreshInv
  <2>2. \A w \in Dispatchers : pc'[w] = "dispatch" => \A i \in Ids : ran'[cur'[w]][i] = 0
    BY <1>0 DEF OnceInv, FreshInv
  <2>3. ASSUME NEW w \in Dispatchers, NEW i \in todo[w]
        PROVE  /\ ran'[cur'[w]][i] = 0 /\ owner'[i] # None
               /\ clears' = 0 => resolve'[owner'[i][1]] = tid'[cur'[w]]
    <3>1. /\ ran[cur[w]][i] = 0 /\ owner[i] # None
          /\ clears = 0 => resolve[owner[i][1]] = tid[cur[w]]
      BY <2>3 DEF OnceInv, FreshInv
    <3>2. i \in Ids /\ tid[cur[w]] \in TopicIds
      BY <1>4, <2>3
    <3>3. clears' = 0 => resolve'[owner'[i][1]] = tid[cur[w]]
      BY <1>2, <3>1, <3>2
    <3>4. QED
      BY <1>0, <1>1, <3>1, <3>2, <3>3
  <2>4. QED
    BY <1>0, <2>1, <2>2, <2>3 DEF FreshInv
<1>6. ASSUME NEW m \in Messages, tid[m] \in TopicIds, NEW i \in due[m] \cap observers'[tid[m]]
      PROVE  i \in observers[tid[m]]
  BY <1>6 DEF OnceInv, DueInv, Keeps
<1>7. \A w \in Dispatchers : InDispatch(w) => cur[w] \in Messages /\ tid[cur[w]] \in TopicIds
  BY NoneAssumption DEF MessageInv, InDispatch
<1>8. \A m \in Messages : Dispatched(m)' => Dispatched(m) /\ tid[m] \in TopicIds
  <2> TAKE m \in Messages
  <2>1. Dispatched(m)' => Dispatched(m)
    BY <1>0, Zenon DEF Dispatched
  <2>2. Dispatched(m) => tid[m] \in TopicIds
    BY DEF Dispatched, TypeOK
  <2>3. QED
    BY <2>1, <2>2
<1>9. \A w \in Dispatchers : InDispatch(w)' => InDispatch(w)
  BY DEF InDispatch
<1>10. \A m \in Messages : \A i \in due'[m] : owner'[i] # None
  BY <1>0, <1>1 DEF OnceInv, DueInv, TypeOK
<1>11. \A w \in Dispatchers : InDispatch(w)' =>
         \A i \in due'[cur'[w]] \cap observers'[tid'[cur'[w]]] :
           i \in todo'[w] \/ ran'[cur'[w]][i] = 1
  BY <1>0, <1>6, <1>7, <1>9 DEF OnceInv, DueInv
<1>12. \A m \in Messages : Dispatched(m)' =>
         \A i \in due'[m] \cap observers'[tid'[m]] : ran'[m][i] = 1
  BY <1>0, <1>6, <1>8 DEF OnceInv, DueInv
<1>13. DueInv'
  BY <1>10, <1>11, <1>12 DEF DueInv, InDispatch
<1>14. QED
  BY <1>3, <1>5, <1>13 DEF OnceInv


\* dispose empties the lists too: nothing is due any more.
LEMMA DisposeOnce ==
  ASSUME TypeOK, MessageInv, OnceInv, NEW t \in Threads, Dispose(t)
  PROVE  OnceInv'
<1>1. /\ queue' = << >> /\ observers' = [id \in TopicIds |-> {}]
      /\ UNCHANGED <<resolve, clears, owner, pc, tid, due, cur, todo, ran>>
      /\ \A m \in Messages : payload[m] # "unused" => payload'[m] # "unused"
  BY DEF Dispose, registry, dispatching, TypeOK
<1>2. RanInv' /\ FreshInv'
  BY <1>1 DEF OnceInv, RanInv, FreshInv
<1>3. \A id \in TopicIds : observers'[id] = {}
  BY <1>1
<1>4. \A w \in Dispatchers : InDispatch(w)' => tid'[cur'[w]] \in TopicIds
  BY <1>1, NoneAssumption DEF MessageInv, InDispatch
<1>5. \A m \in Messages : Dispatched(m)' => tid'[m] \in TopicIds
  BY <1>1 DEF Dispatched, TypeOK
<1>6. DueInv'
  BY <1>1, <1>3, <1>4, <1>5 DEF OnceInv, DueInv
<1>7. QED
  BY <1>2, <1>6 DEF OnceInv

LEMMA PostOnce ==
  ASSUME TypeOK, MessageInv, IdInv, PlaceInv, OnceInv, NEW t \in Threads, PostSome(t)
  PROVE  OnceInv'
<1> PICK m \in Messages, id \in TopicIds \cup {NoTopic}, c \in BOOLEAN : Post(t, m, id, c)
  BY DEF PostSome
<1>0. UNCHANGED <<resolve, clears, observers, owner, pc, cur, todo, ran>>
  BY DEF Post, registry, registrations, dispatching
<1>1. /\ payload[m] = "unused"
      /\ \A n \in Messages : payload[n] # "unused" => payload'[n] # "unused"
      /\ payload'[m] # "unused"
  BY DEF Post, TypeOK
<1>2. /\ \A i \in Ids : ran[m][i] = 0
      /\ \A w \in Dispatchers : cur[w] # m
  BY <1>1, NoneAssumption DEF OnceInv, RanInv, PlaceInv, PayloadSafe
<1>3. CASE id = NoTopic
  <2>1. UNCHANGED <<queue, tid, due>>
    BY <1>3 DEF Post
  <2>2. RanInv' /\ FreshInv'
    BY <1>0, <1>1, <2>1 DEF OnceInv, RanInv, FreshInv
  <2>3. \A n \in Messages : Dispatched(n)' <=> Dispatched(n)
    BY <1>0, <2>1, Zenon DEF Dispatched
  <2>4. DueInv'
    BY <1>0, <2>1, <2>3 DEF OnceInv, DueInv, InDispatch
  <2>5. QED
    BY <2>2, <2>4 DEF OnceInv
<1>4. CASE id # NoTopic
  <2>1. /\ queue' = Append(queue, m) /\ id \in TopicIds
        /\ tid' = [tid EXCEPT ![m] = id]
        /\ due' = [due EXCEPT ![m] = observers[id]]
    BY <1>4 DEF Post
  <2>2. /\ queue \in Seq(Messages)
        /\ Len(queue') = Len(queue) + 1 /\ queue'[Len(queue) + 1] = m
        /\ \A k \in 1 .. Len(queue) : queue'[k] = queue[k] /\ k \in 1 .. Len(queue')
        /\ \A k \in 1 .. Len(queue') : k = Len(queue) + 1 \/ k \in 1 .. Len(queue)
    BY <2>1 DEF TypeOK
  <2>3. /\ tid'[m] = id /\ due'[m] = observers[id]
        /\ \A n \in Messages : n # m => tid'[n] = tid[n] /\ due'[n] = due[n]
    BY <2>1 DEF TypeOK
  <2>4. RanInv'
    BY <1>0, <1>1, <1>2, <2>3 DEF OnceInv, RanInv
  <2>5. FreshInv'
    <3>1. \A k \in 1 .. Len(queue') : \A i \in Ids : ran'[queue'[k]][i] = 0
      BY <1>0, <1>2, <2>2 DEF OnceInv, FreshInv
    <3>2. \A w \in Dispatchers : pc'[w] = "dispatch" => \A i \in Ids : ran'[cur'[w]][i] = 0
      BY <1>0 DEF OnceInv, FreshInv
    <3>3. \A w \in Dispatchers : \A i \in todo[w] : tid'[cur[w]] = tid[cur[w]]
      BY <1>2, <2>1 DEF TypeOK
    <3>4. \A w \in Dispatchers : \A i \in todo'[w] :
            /\ ran'[cur'[w]][i] = 0 /\ owner'[i] # None
            /\ clears' = 0 => resolve'[owner'[i][1]] = tid'[cur'[w]]
      BY <1>0, <3>3 DEF OnceInv, FreshInv
    <3>5. QED
      BY <3>1, <3>2, <3>4 DEF FreshInv
  <2>6. \A n \in Messages : Dispatched(n)' => n # m /\ Dispatched(n)
    <3> TAKE n \in Messages
    <3>1. n = m => ~ Dispatched(n)'
      BY <2>2 DEF Dispatched
    <3>2. n # m /\ Dispatched(n)' => Dispatched(n)
      BY <1>0, <2>2, <2>3 DEF Dispatched
    <3>3. QED
      BY <3>1, <3>2
  <2>7. \A n \in Messages : \A i \in due'[n] : owner'[i] # None
    BY <1>0, <2>1, <2>3 DEF OnceInv, DueInv, IdInv
  <2>8. \A w \in Dispatchers : InDispatch(w)' =>
          \A i \in due'[cur'[w]] \cap observers'[tid'[cur'[w]]] :
            i \in todo'[w] \/ ran'[cur'[w]][i] = 1
    <3>1. \A w \in Dispatchers : InDispatch(w)' => InDispatch(w) /\ cur[w] \in Messages
      BY <1>0 DEF InDispatch, MessageInv
    <3>2. QED
      BY <1>0, <1>2, <2>3, <3>1 DEF OnceInv, DueInv
  <2>9. \A n \in Messages : Dispatched(n)' =>
          \A i \in due'[n] \cap observers'[tid'[n]] : ran'[n][i] = 1
    BY <1>0, <2>3, <2>6 DEF OnceInv, DueInv
  <2>10. DueInv'
    BY <2>7, <2>8, <2>9 DEF DueInv
  <2>11. QED
    BY <2>4, <2>5, <2>10 DEF OnceInv
<1>5. QED
  BY <1>3, <1>4

LEMMA CallOnce ==
  ASSUME IInv, PlaceInv, OnceInv, NEW t \in Threads, Manage(t) \/ PostSome(t)
  PROVE  OnceInv'
<1> USE DEF IInv
<1>1. CASE PostSome(t)
  BY <1>1, PostOnce
<1>2. CASE Dispose(t)
  BY <1>2, DisposeOnce
<1>3. CASE ~ PostSome(t) /\ ~ Dispose(t)
  <2>1. UNCHANGED <<queue, payload, tid, due, dispatching>>
    BY <1>3 DEF Manage, RegisterTopic, AddObserver, RemoveObserver, RemoveObserverById,
                ClearTopics, messages
  <2>2. \A m \in Messages : payload[m] # "unused" => payload'[m] # "unused"
    BY <2>1
  <2>3. Keeps
    BY <1>3, ManageKeeps
  <2>4. \A w \in Dispatchers : pc'[w] = pc[w]
    BY CallLeaves
  <2>5. QED
    BY <2>1, <2>2, <2>3, <2>4, OnceFrame
<1>4. QED
  BY <1>1, <1>2, <1>3

LEMMA WaitOnce ==
  ASSUME IInv, OnceInv, NEW t \in Clients, WaitStep(t) \/ SpuriousWakeup(t)
  PROVE  OnceInv'
<1> USE DEF IInv
<1>1. UNCHANGED <<registry, registrations, queue, messages, dispatching>>
  BY DEF WaitStep, WaitReturn, WaitSleep, SpuriousWakeup
<1>2. UNCHANGED <<queue, payload, tid, due, dispatching>> /\ Keeps
  BY <1>1 DEF registry, registrations, messages, Keeps
<1>3. \A m \in Messages : payload[m] # "unused" => payload'[m] # "unused"
  BY <1>2
<1>4. \A w \in Dispatchers : pc'[w] = pc[w]
  BY WaitLeaves
<1>5. QED
  BY <1>2, <1>3, <1>4, OnceFrame


LEMMA TakeOnce ==
  ASSUME IInv, PlaceInv, OnceInv, NEW w \in Dispatchers, GetQueueMessage(w)
  PROVE  OnceInv'
<1> USE DEF IInv
<1>1. /\ pc[w] = "ready" /\ queue # << >> /\ queue' = Tail(queue)
      /\ cur' = [cur EXCEPT ![w] = queue[1]]
      /\ pc' = [pc EXCEPT ![w] = "dispatch"]
      /\ UNCHANGED <<registry, registrations, messages, todo, ran>>
      /\ queue \in Seq(Messages)
  BY DEF GetQueueMessage, Goto, TypeOK
<1>2. /\ 1 \in 1 .. Len(queue) /\ queue[1] \in Messages
      /\ Len(queue') = Len(queue) - 1
      /\ \A k \in 1 .. Len(queue') : k + 1 \in 1 .. Len(queue) /\ queue'[k] = queue[k + 1]
      /\ \A k \in 1 .. Len(queue) : k = 1 \/ (k - 1 \in 1 .. Len(queue') /\ queue'[k - 1] = queue[k])
  BY <1>1
<1>3. /\ pc'[w] = "dispatch" /\ cur'[w] = queue[1]
      /\ \A v \in Dispatchers : v # w => pc'[v] = pc[v] /\ cur'[v] = cur[v]
      /\ cur[w] = None /\ todo[w] = {}
  BY <1>1 DEF TypeOK, Threads, PlaceInv, CountInv, InDispatch
<1>4. RanInv'
  BY <1>1 DEF OnceInv, RanInv, registry, registrations, messages
<1>5. FreshInv'
  <2>1. \A k \in 1 .. Len(queue') : \A i \in Ids : ran'[queue'[k]][i] = 0
    BY <1>1, <1>2 DEF OnceInv, FreshInv
  <2>2. \A v \in Dispatchers : pc'[v] = "dispatch" => \A i \in Ids : ran'[cur'[v]][i] = 0
    BY <1>1, <1>2, <1>3 DEF OnceInv, FreshInv
  <2>3. \A v \in Dispatchers : \A i \in todo'[v] :
          /\ ran'[cur'[v]][i] = 0 /\ owner'[i] # None
          /\ clears' = 0 => resolve'[owner'[i][1]] = tid'[cur'[v]]
    BY <1>1, <1>3 DEF OnceInv, FreshInv, registry, registrations, messages
  <2>4. QED
    BY <2>1, <2>2, <2>3 DEF FreshInv
<1>6. \A m \in Messages : Dispatched(m)' => Dispatched(m)
  <2> SUFFICES ASSUME NEW m \in Messages, Dispatched(m)' PROVE Dispatched(m)
    OBVIOUS
  <2>1. m # queue[1] /\ tid[m] # None
    BY <1>1, <1>3 DEF Dispatched, messages
  <2>a. \A k \in 1 .. Len(queue') : queue'[k] # m
    BY DEF Dispatched
  <2>2. \A k \in 1 .. Len(queue) : queue[k] # m
    BY <1>2, <2>1, <2>a
  <2>3. \A v \in Dispatchers : cur[v] # m \/ pc[v] = "cleanup"
    BY <1>3, NoneAssumption DEF Dispatched
  <2>4. QED
    BY <2>1, <2>2, <2>3 DEF Dispatched
<1>7. DueInv'
  BY <1>1, <1>3, <1>6 DEF OnceInv, DueInv, InDispatch, registrations, messages
<1>8. QED
  BY <1>4, <1>5, <1>7 DEF OnceInv

LEMMA SnapshotOnce ==
  ASSUME IInv, PlaceInv, OnceInv, NEW w \in Dispatchers, Snapshot(w)
  PROVE  OnceInv'
<1> USE DEF IInv
<1>1. /\ pc[w] = "dispatch"
      /\ todo' = [todo EXCEPT ![w] = observers[tid[cur[w]]]]
      /\ pc' = [pc EXCEPT ![w] = "invoke"]
      /\ UNCHANGED <<resolve, clears, observers, owner, queue, tid, payload, due, cur, ran>>
  BY DEF Snapshot, Goto, registry, registrations, messages
<1>2. /\ todo'[w] = observers[tid[cur[w]]] /\ pc'[w] = "invoke"
      /\ \A v \in Dispatchers : v # w => pc'[v] = pc[v] /\ todo'[v] = todo[v]
      /\ cur[w] \in Messages /\ tid[cur[w]] \in TopicIds /\ observers[tid[cur[w]]] \subseteq Ids
  BY <1>1, NoneAssumption DEF TypeOK, Threads, MessageInv
<1>3. RanInv'
  BY <1>1 DEF OnceInv, RanInv
<1>4. FreshInv'
  <2>1. \A k \in 1 .. Len(queue') : \A i \in Ids : ran'[queue'[k]][i] = 0
    BY <1>1 DEF OnceInv, FreshInv
  <2>2. \A v \in Dispatchers : pc'[v] = "dispatch" => \A i \in Ids : ran'[cur'[v]][i] = 0
    BY <1>1, <1>2 DEF OnceInv, FreshInv
  <2>3. \A i \in todo'[w] :
          /\ ran[cur[w]][i] = 0 /\ owner[i] # None
          /\ clears = 0 => resolve[owner[i][1]] = tid[cur[w]]
    BY <1>1, <1>2 DEF OnceInv, FreshInv, IdInv, RemovedInv
  <2>4. \A v \in Dispatchers : \A i \in todo'[v] :
          /\ ran'[cur'[v]][i] = 0 /\ owner'[i] # None
          /\ clears' = 0 => resolve'[owner'[i][1]] = tid'[cur'[v]]
    BY <1>1, <1>2, <2>3 DEF OnceInv, FreshInv
  <2>5. QED
    BY <2>1, <2>2, <2>4 DEF FreshInv
<1>5. \A m \in Messages : Dispatched(m)' => Dispatched(m)
  BY <1>1, <1>2 DEF Dispatched
<1>6. DueInv'
  BY <1>1, <1>2, <1>5 DEF OnceInv, DueInv, InDispatch
<1>7. QED
  BY <1>3, <1>4, <1>6 DEF OnceInv

\* The observer whose handler is called leaves the snapshot, and counts.
LEMMA InvokeOnce ==
  ASSUME IInv, PlaceInv, OnceInv, NEW w \in Dispatchers, InvokeHandler(w)
  PROVE  OnceInv'
<1> USE DEF IInv
<1>0. PICK j \in todo[w] :
        /\ todo' = [todo EXCEPT ![w] = todo[w] \ {j}]
        /\ ran' = [ran EXCEPT ![cur[w]][j] = ran[cur[w]][j] + 1]
  BY DEF InvokeHandler
<1>1. /\ pc[w] = "invoke" /\ pc' = [pc EXCEPT ![w] = "run"]
      /\ UNCHANGED <<resolve, clears, observers, owner, queue, tid, payload, due, cur>>
  BY DEF InvokeHandler, Goto, registry, registrations, messages
<1>2. /\ cur[w] \in Messages /\ tid[cur[w]] \in TopicIds /\ j \in Ids
      /\ ran[cur[w]][j] = 0 /\ owner[j] # None
      /\ clears = 0 => resolve[owner[j][1]] = tid[cur[w]]
      /\ payload[cur[w]] # "unused"
  <2>1. cur[w] \in Messages
    BY <1>1 DEF MessageInv
  <2>2. cur[w] # None
    BY <2>1, NoneAssumption
  <2>3. tid[cur[w]] \in TopicIds /\ payload[cur[w]] # "unused"
    BY <2>2 DEF MessageInv, PlaceInv, PayloadSafe
  <2>4. /\ ran[cur[w]][j] = 0 /\ owner[j] # None
        /\ clears = 0 => resolve[owner[j][1]] = tid[cur[w]]
    BY <1>0 DEF OnceInv, FreshInv
  <2>5. j \in Ids
    BY <1>0 DEF TypeOK
  <2>6. QED
    BY <2>1, <2>3, <2>4, <2>5
<1>3. /\ pc'[w] = "run" /\ todo'[w] = todo[w] \ {j}
      /\ \A v \in Dispatchers : v # w => pc'[v] = pc[v] /\ todo'[v] = todo[v]
  BY <1>0, <1>1 DEF TypeOK, Threads
<1>4. /\ ran'[cur[w]][j] = 1
      /\ \A m \in Messages, i \in Ids : m # cur[w] \/ i # j => ran'[m][i] = ran[m][i]
  BY <1>0, <1>2 DEF TypeOK
<1>5. /\ \A k \in 1 .. Len(queue) : queue[k] \in Messages /\ queue[k] # cur[w]
      /\ \A v \in Dispatchers : v # w => cur[v] # cur[w]
  BY <1>2, NoneAssumption DEF PlaceInv, PayloadSafe, TypeOK
<1>6. \A v \in Dispatchers : pc[v] # "ready" => cur[v] \in Messages
  BY DEF MessageInv
<1>7. \A v \in Dispatchers : \A i \in todo[v] : cur[v] \in Messages /\ i \in Ids
  BY <1>6 DEF CountInv, InDispatch, TypeOK
<1>8. RanInv'
  BY <1>1, <1>2, <1>4 DEF OnceInv, RanInv
<1>9. FreshInv'
  <2>1. \A k \in 1 .. Len(queue') : \A i \in Ids : ran'[queue'[k]][i] = 0
    BY <1>1, <1>4, <1>5 DEF OnceInv, FreshInv
  <2>2. \A v \in Dispatchers : pc'[v] = "dispatch" => \A i \in Ids : ran'[cur'[v]][i] = 0
    BY <1>1, <1>3, <1>4, <1>5, <1>6 DEF OnceInv, FreshInv
  <2>3. \A v \in Dispatchers : \A i \in todo'[v] : i \in todo[v] /\ ran'[cur[v]][i] = ran[cur[v]][i]
    BY <1>3, <1>4, <1>5, <1>7
  <2>4. \A v \in Dispatchers : \A i \in todo'[v] :
          /\ ran'[cur'[v]][i] = 0 /\ owner'[i] # None
          /\ clears' = 0 => resolve'[owner'[i][1]] = tid'[cur'[v]]
    BY <1>1, <2>3 DEF OnceInv, FreshInv
  <2>5. QED
    BY <2>1, <2>2, <2>4 DEF FreshInv
<1>10. \A m \in Messages : Dispatched(m)' => Dispatched(m) /\ m # cur[w]
  BY <1>1, <1>3 DEF Dispatched
<1>11. DueInv'
  <2>1. ASSUME NEW v \in Dispatchers, InDispatch(v)',
               NEW i \in due[cur[v]] \cap observers[tid[cur[v]]]
        PROVE  i \in todo'[v] \/ ran'[cur[v]][i] = 1
    <3>1. InDispatch(v)
      BY <1>1, <1>3, <2>1 DEF InDispatch
    <3>2. cur[v] \in Messages /\ i \in Ids
      BY <1>6, <2>1, <3>1 DEF InDispatch, TypeOK
    <3>3. i \in todo[v] \/ ran[cur[v]][i] = 1
      BY <2>1, <3>1 DEF OnceInv, DueInv
    <3>4. QED
      BY <1>3, <1>4, <1>5, <3>2, <3>3
  <2>2. ASSUME NEW m \in Messages, Dispatched(m)', NEW i \in due[m] \cap observers[tid[m]]
        PROVE  ran'[m][i] = 1
    <3>1. m # cur[w] /\ ran[m][i] = 1 /\ i \in Ids
      BY <1>10, <2>2 DEF OnceInv, DueInv, TypeOK
    <3>2. QED
      BY <1>4, <3>1
  <2>3. QED
    BY <1>1, <2>1, <2>2 DEF OnceInv, DueInv
<1>12. QED
  BY <1>8, <1>9, <1>11 DEF OnceInv

\* When the snapshot is worked through, every due observer has the message.
LEMMA CompleteOnce ==
  ASSUME IInv, PlaceInv, OnceInv, NEW w \in Dispatchers, MarkDispatchComplete(w)
  PROVE  OnceInv'
<1> USE DEF IInv
<1>1. /\ pc[w] = "invoke" /\ todo[w] = {}
      /\ UNCHANGED <<resolve, clears, observers, owner, queue, tid, payload, due, cur, todo, ran>>
  BY DEF MarkDispatchComplete, registry, registrations, messages
<1>2. /\ pc'[w] = "cleanup" /\ w \in Threads
      /\ \A v \in Dispatchers : v # w => pc'[v] = pc[v]
  BY ThreadsAssumption DEF MarkDispatchComplete, TypeOK, Threads
<1>3. RanInv' /\ FreshInv'
  BY <1>1, <1>2 DEF OnceInv, RanInv, FreshInv
<1>4. \A m \in Messages : Dispatched(m)' => Dispatched(m) \/ m = cur[w]
  BY <1>1, <1>2 DEF Dispatched
<1>5. \A i \in due[cur[w]] \cap observers[tid[cur[w]]] : ran[cur[w]][i] = 1
  BY <1>1 DEF OnceInv, DueInv, InDispatch
<1>6. DueInv'
  BY <1>1, <1>2, <1>4, <1>5 DEF OnceInv, DueInv, InDispatch
<1>7. QED
  BY <1>3, <1>6 DEF OnceInv

LEMMA CleanupOnce ==
  ASSUME IInv, PlaceInv, OnceInv, NEW w \in Dispatchers, Cleanup(w)
  PROVE  OnceInv'
<1> USE DEF IInv
<1>1. /\ pc[w] = "cleanup"
      /\ cur' = [cur EXCEPT ![w] = None]
      /\ pc' = [pc EXCEPT ![w] = "ready"]
      /\ UNCHANGED <<resolve, clears, observers, owner, queue, tid, due, todo, ran>>
      /\ \A m \in Messages : payload[m] # "unused" => payload'[m] # "unused"
  BY DEF Cleanup, Goto, registry, registrations, TypeOK
<1>2. /\ pc'[w] = "ready" /\ cur'[w] = None /\ todo[w] = {}
      /\ \A v \in Dispatchers : v # w => pc'[v] = pc[v] /\ cur'[v] = cur[v]
  BY <1>1 DEF TypeOK, Threads, CountInv, InDispatch
<1>3. RanInv'
  BY <1>1 DEF OnceInv, RanInv
<1>4. FreshInv'
  BY <1>1, <1>2 DEF OnceInv, FreshInv
<1>5. \A m \in Messages : Dispatched(m)' => Dispatched(m)
  BY <1>1, <1>2 DEF Dispatched
<1>6. DueInv'
  BY <1>1, <1>2, <1>5 DEF OnceInv, DueInv, InDispatch
<1>7. QED
  BY <1>3, <1>4, <1>6 DEF OnceInv

LEMMA DispatchOnce ==
  ASSUME IInv, PlaceInv, OnceInv, NEW w \in Dispatchers, GetQueueMessage(w) \/ DispatchStep(w)
  PROVE  OnceInv'
<1>1. CASE HandlerReturns(w)
  <2>1. /\ pc[w] = "run" /\ pc' = [pc EXCEPT ![w] = "invoke"]
        /\ UNCHANGED <<resolve, clears, observers, owner, queue, tid, payload, due, cur, todo, ran>>
    BY <1>1 DEF HandlerReturns, Goto, registry, registrations, messages
  <2>2. /\ pc'[w] = "invoke"
        /\ \A v \in Dispatchers : v # w => pc'[v] = pc[v]
    BY <2>1 DEF IInv, TypeOK, Threads
  <2>3. RanInv' /\ FreshInv'
    BY <2>1, <2>2 DEF OnceInv, RanInv, FreshInv
  <2>4. \A m \in Messages : Dispatched(m)' => Dispatched(m)
    BY <2>1, <2>2 DEF Dispatched
  <2>5. DueInv'
    BY <2>1, <2>2, <2>4 DEF OnceInv, DueInv, InDispatch
  <2>6. QED
    BY <2>3, <2>5 DEF OnceInv
<1>2. QED
  BY <1>1, TakeOnce, SnapshotOnce, InvokeOnce, CompleteOnce, CleanupOnce DEF DispatchStep

LEMMA NextOnce == IInv /\ PlaceInv /\ OnceInv /\ [Next]_vars => OnceInv'
<1> SUFFICES ASSUME IInv, PlaceInv, OnceInv, [Next]_vars PROVE OnceInv'
  OBVIOUS
<1>1. ASSUME NEW t \in Threads, Manage(t) \/ PostSome(t)
      PROVE  OnceInv'
  BY <1>1, CallOnce
<1>2. ASSUME NEW t \in Clients, WaitStep(t) \/ SpuriousWakeup(t)
      PROVE  OnceInv'
  BY <1>2, WaitOnce
<1>3. ASSUME NEW w \in Dispatchers, GetQueueMessage(w) \/ DispatchStep(w)
      PROVE  OnceInv'
  BY <1>3, DispatchOnce
<1>4. CASE UNCHANGED vars
  <2>1. UNCHANGED <<resolve, clears, observers, owner, queue, tid, payload, due, cur, todo, ran, pc>>
    BY <1>4 DEF vars, registry, registrations, messages, dispatching
  <2>2. QED
    BY <2>1 DEF OnceInv, RanInv, FreshInv, DueInv, Dispatched, InDispatch
<1>5. QED
  BY <1>1, <1>2, <1>3, <1>4 DEF Next

LEMMA OnceInvariance == Spec => []OnceInv
BY InitOnce, NextOnce, Invariance, PlaceInvariance, PTL DEF Spec

\* A dispatched message was passed once to every observer that was registered
\* when it was posted and still is, and to observers of its topic only, whatever
\* the handlers and the other threads register and remove meanwhile.
THEOREM ObserversGetItOnce == Spec => []EveryObserverOnce
<1>1. TypeOK /\ OnceInv => EveryObserverOnce
  <2> SUFFICES ASSUME TypeOK, OnceInv PROVE EveryObserverOnce
    OBVIOUS
  <2>0. ASSUME NEW m \in Messages, NEW i \in Ids
        PROVE  ran[m][i] \in Nat /\ (ran[m][i] = 0 \/ ran[m][i] = 1)
    BY DEF OnceInv, RanInv, TypeOK
  <2>1. \A m \in Messages, i \in Ids : ran[m][i] <= 1
    BY <2>0
  <2>2. \A m \in Messages, i \in Ids : ran[m][i] > 0 /\ clears = 0 => resolve[owner[i][1]] = tid[m]
    BY <2>0 DEF OnceInv, RanInv
  <2>3. \A m \in Messages : Dispatched(m) => \A i \in due[m] \cap observers[tid[m]] : ran[m][i] = 1
    BY DEF OnceInv, DueInv
  <2>4. QED
    BY <2>1, <2>2, <2>3 DEF EveryObserverOnce
<1>2. QED
  BY <1>1, OnceInvariance, TypeCorrect, PTL

-----------------------------------------------------------------------------
(* The center *)

\* Start and Stop are called by one thread: the one that creates and disposes of
\* the singleton.
SingleController == \A c, d \in Controllers : c = d

\* Without a thread the center is not started, and Start sees to it that there is
\* none when it creates one.
ThreadInv ==
  /\ ~ started => thread = None
  /\ \A c \in Controllers : cpc[c] = "start" => ~ started /\ starts < MaxStarts
  /\ \A c \in Controllers : cpc[c] = "join" => thread # None

MCInv == MCTypeOK /\ OnlyTheThreadWorks /\ ThreadInv

-----------------------------------------------------------------------------
(* Every step of the center is a step of the queue or leaves it alone *)

LEMMA StepOfQueue == [MCNext]_mcvars => [Next]_vars
<1> SUFFICES ASSUME [MCNext]_mcvars PROVE [Next]_vars
  OBVIOUS
<1>1. ASSUME NEW w \in Dispatchers, WorkerStep(w)
      PROVE  [Next]_vars
  BY <1>1 DEF WorkerStep, CheckStop, TakeMessage, FindNothing, Sleep, Timeout,
              WorkerDispatch, Next
<1>2. ASSUME NEW t \in Threads, ManageQueue(t) \/ PostMessage(t)
      PROVE  [Next]_vars
  BY <1>2 DEF ManageQueue, PostMessage, Next
<1>3. ASSUME NEW t \in Clients, WaitForDispatches(t) \/ Destroy(t)
      PROVE  [Next]_vars
  BY <1>3 DEF WaitForDispatches, Destroy, Next, Manage, Threads
<1>4. ASSUME NEW c \in Controllers,
             StartCheck(c) \/ StartThread(c) \/ StopCheck(c) \/ StopStep(c)
      PROVE  [Next]_vars
  BY <1>4 DEF StartCheck, StartThread, StopCheck, StopStep, StopRequest, StopJoin
<1>5. CASE UNCHANGED mcvars
  BY <1>5 DEF mcvars
<1>6. QED
  BY <1>1, <1>2, <1>3, <1>4, <1>5 DEF MCNext, Destroyed

\* A MessageCenter is an EventQueue: whatever the worker and the controllers do,
\* the queue takes steps that its specification allows.
THEOREM ImplementsEventQueue == MCSpec => Spec
<1>1. MCInit => Init
  BY DEF MCInit
<1>2. QED
  BY <1>1, StepOfQueue, PTL DEF MCSpec, Spec

\* RemoveObserver keeps its promise in a MessageCenter: once it has returned to a
\* caller that is not a handler, the worker does not run a removed handler.
THEOREM CenterRemovalIsFinal == MCSpec => []RemovalContract
<1>1. MCSpec => Spec
  BY ImplementsEventQueue
<1>2. Spec => []RemovalContract
  BY RemovalIsFinal
<1>3. QED
  BY <1>1, <1>2, PTL

-----------------------------------------------------------------------------
(* One worker at a time *)

LEMMA InitCenter == MCInit => MCInv
<1> SUFFICES ASSUME MCInit PROVE MCInv
  OBVIOUS
<1>1. \A w \in Dispatchers : pc[w] = "ready"
  BY ThreadsAssumption DEF MCInit, Init, Threads
<1>2. MCTypeOK
  <2>1. /\ started \in BOOLEAN /\ requestStop \in BOOLEAN /\ stopped \in BOOLEAN
        /\ alive \in BOOLEAN
    BY Zenon DEF MCInit
  <2>2. /\ thread = None /\ mutexThreads = None /\ starts \in 0 .. MaxStarts
        /\ wpc = [w \in Dispatchers |-> "none"] /\ cpc = [c \in Controllers |-> "idle"]
    BY MaxStartsAssumption DEF MCInit
  <2>3. QED
    BY <2>1, <2>2, ControllersAssumption DEF MCTypeOK
<1>3. OnlyTheThreadWorks
  BY <1>1 DEF MCInit, OnlyTheThreadWorks
<1>4. ThreadInv
  BY DEF MCInit, ThreadInv
<1>5. QED
  BY <1>2, <1>3, <1>4 DEF MCInv

\* A step that leaves the dispatchers where they are, and may wake a sleeper.
LEMMA CallCenter ==
  ASSUME MCInv, \A w \in Dispatchers : pc'[w] = pc[w],
         wpc' \in [Dispatchers ->
                     {"none", "check", "get", "lock", "sleep", "dispatch", "exited"}],
         \A w \in Dispatchers : wpc'[w] = wpc[w] \/ (wpc[w] = "sleep" /\ wpc'[w] = "check"),
         UNCHANGED <<flags, thread, mutexThreads, cpc, starts>>, alive' \in BOOLEAN
  PROVE  MCInv'
<1>1. MCTypeOK'
  BY DEF MCInv, MCTypeOK, flags
<1>2. OnlyTheThreadWorks'
  BY DEF MCInv, OnlyTheThreadWorks
<1>3. ThreadInv'
  BY DEF MCInv, ThreadInv, flags
<1>4. QED
  BY <1>1, <1>2, <1>3 DEF MCInv

LEMMA WorkerCenter ==
  ASSUME TypeOK, MCInv, NEW w \in Dispatchers, WorkerStep(w)
  PROVE  MCInv'
<1> USE DEF MCInv
<1>0. /\ w \in Threads /\ thread = w
      /\ wpc \in [Dispatchers ->
                     {"none", "check", "get", "lock", "sleep", "dispatch", "exited"}]
  BY DEF WorkerStep, CheckStop, TakeMessage, FindNothing, Sleep, Timeout, WorkerDispatch,
         OnlyTheThreadWorks, MCTypeOK, Threads
<1>1. ASSUME NEW l \in {"check", "get", "lock", "sleep", "dispatch", "exited"},
             WorkerGoto(w, l), \A v \in Dispatchers \ {w} : pc'[v] = pc[v],
             l # "dispatch" => pc'[w] = "ready",
             stopped' \in BOOLEAN,
             UNCHANGED <<started, requestStop, thread, mutexThreads, cpc, alive, starts>>
      PROVE  MCInv'
  <2>1. /\ wpc' = [wpc EXCEPT ![w] = l]
        /\ wpc'[w] = l /\ \A v \in Dispatchers \ {w} : wpc'[v] = wpc[v]
    BY <1>0, <1>1 DEF WorkerGoto
  <2>2. MCTypeOK'
    BY <1>0, <1>1, <2>1 DEF MCTypeOK
  <2>3. OnlyTheThreadWorks'
    BY <1>0, <1>1, <2>1 DEF OnlyTheThreadWorks
  <2>4. ThreadInv'
    BY <1>1 DEF ThreadInv
  <2>5. QED
    BY <2>2, <2>3, <2>4
<1>2. CASE CheckStop(w)
  BY <1>0, <1>1, <1>2 DEF CheckStop, MCTypeOK, OnlyTheThreadWorks, vars
<1>3. CASE TakeMessage(w)
  <2>1. \A v \in Dispatchers \ {w} : pc'[v] = pc[v]
    BY <1>0, <1>3 DEF TakeMessage, GetQueueMessage, Goto, TypeOK
  <2>2. QED
    BY <1>1, <1>3, <2>1 DEF TakeMessage, MCTypeOK, flags
<1>4. CASE FindNothing(w) \/ Sleep(w) \/ Timeout(w)
  BY <1>0, <1>1, <1>4
     DEF FindNothing, Sleep, Timeout, MCTypeOK, OnlyTheThreadWorks, vars, flags
<1>5. CASE WorkerDispatch(w)
  <2>1. \A v \in Dispatchers \ {w} : pc'[v] = pc[v]
    <3>1. CASE MarkDispatchComplete(w)
      BY <1>0, <3>1, ThreadsAssumption DEF MarkDispatchComplete, TypeOK, Threads
    <3>2. ASSUME NEW l, Goto(w, l)
          PROVE  \A v \in Dispatchers \ {w} : pc'[v] = pc[v]
      BY <1>0, <3>2 DEF Goto, TypeOK, Threads
    <3>3. CASE ~ MarkDispatchComplete(w)
      BY <1>5, <3>2, <3>3
         DEF WorkerDispatch, DispatchStep, Snapshot, InvokeHandler, HandlerReturns, Cleanup
    <3>4. QED
      BY <3>1, <3>3
  <2>2. QED
    BY <1>1, <1>5, <2>1 DEF WorkerDispatch, MCTypeOK, flags
<1>6. QED
  BY <1>2, <1>3, <1>4, <1>5 DEF WorkerStep

LEMMA QueueCenter ==
  ASSUME TypeOK, MCInv, NEW t \in Threads, ManageQueue(t) \/ PostMessage(t)
  PROVE  MCInv'
<1>1. \A w \in Dispatchers : pc'[w] = pc[w]
  BY CallLeaves DEF ManageQueue, PostMessage
<1>2. CASE ManageQueue(t)
  BY <1>1, <1>2, CallCenter DEF ManageQueue, lifecycle, MCInv, MCTypeOK
<1>3. CASE PostMessage(t)
  <2>1. wpc' = wpc \/ \E w \in Sleepers : wpc' = [wpc EXCEPT ![w] = "check"]
    BY <1>3 DEF PostMessage, NotifyOne, WorkerGoto
  <2>2. QED
    BY <1>1, <1>3, <2>1, CallCenter DEF PostMessage, Sleepers, MCInv, MCTypeOK
<1>4. QED
  BY <1>2, <1>3

LEMMA ClientCenter ==
  ASSUME TypeOK, MCInv, NEW t \in Clients, WaitForDispatches(t) \/ Destroy(t)
  PROVE  MCInv'
<1>1. \A w \in Dispatchers : pc'[w] = pc[w]
  BY WaitLeaves DEF WaitForDispatches, Destroy, Dispose
<1>2. QED
  BY <1>1, CallCenter DEF WaitForDispatches, Destroy, lifecycle, MCInv, MCTypeOK

\* Start creates a thread when there is none, and Stop takes it away when it has
\* left its loop.
LEMMA ControllerCenter ==
  ASSUME SingleController, MCInv, NEW c \in Controllers,
         StartCheck(c) \/ StartThread(c) \/ StopCheck(c) \/ StopStep(c)
  PROVE  MCInv'
<1> USE DEF MCInv
<1>0. /\ UNCHANGED pc
      /\ cpc \in [Controllers -> {"idle", "start", "stop", "join"}]
      /\ wpc \in [Dispatchers ->
                     {"none", "check", "get", "lock", "sleep", "dispatch", "exited"}]
      /\ \A d \in Controllers : d = c
  BY DEF StartCheck, StartThread, StopCheck, StopStep, StopRequest, StopJoin, vars, MCTypeOK,
         SingleController
<1>1. CASE StartCheck(c)
  <2>1. cpc' = [cpc EXCEPT ![c] = "start"] /\ ~ started
    BY <1>1 DEF StartCheck, ControllerGoto
  <2>2. QED
    BY <1>0, <1>1, <2>1
       DEF StartCheck, MCTypeOK, OnlyTheThreadWorks, ThreadInv, flags
<1>2. CASE StartThread(c)
  <2>1. thread = None /\ mutexThreads = None
    BY <1>2 DEF StartThread, ThreadInv
  <2>2. PICK w \in Dispatchers : thread' = w /\ wpc' = [wpc EXCEPT ![w] = "check"]
    BY <1>2 DEF StartThread, WorkerGoto
  <2>3. \A v \in Dispatchers : wpc[v] = "none" /\ pc[v] = "ready"
    BY <2>1, ControllersAssumption DEF OnlyTheThreadWorks
  <2>4. OnlyTheThreadWorks'
    BY <1>0, <2>2, <2>3 DEF OnlyTheThreadWorks
  <2>5. /\ cpc' = [cpc EXCEPT ![c] = "idle"]
        /\ started' = TRUE /\ requestStop' = FALSE /\ stopped' = FALSE
        /\ UNCHANGED <<mutexThreads, alive>>
    BY <1>2 DEF StartThread, ControllerGoto
  <2>6. starts' \in 0 .. MaxStarts
    <3>1. starts \in 0 .. MaxStarts /\ starts < MaxStarts /\ starts' = starts + 1
      BY <1>2 DEF StartThread, ThreadInv, MCTypeOK
    <3>2. QED
      BY <3>1, MaxStartsAssumption
  <2>7. MCTypeOK'
    BY <1>0, <2>1, <2>2, <2>5, <2>6, ControllersAssumption DEF MCTypeOK
  <2>8. ThreadInv'
    BY <1>0, <2>5 DEF ThreadInv
  <2>9. QED
    BY <2>4, <2>7, <2>8
<1>3. CASE StopCheck(c)
  <2>1. cpc' = [cpc EXCEPT ![c] = "stop"] /\ cpc[c] = "idle"
    BY <1>3 DEF StopCheck, ControllerGoto
  <2>2. QED
    BY <1>0, <1>3, <2>1
       DEF StopCheck, MCTypeOK, OnlyTheThreadWorks, ThreadInv, flags
<1>4. CASE StopRequest(c)
  <2>1. /\ cpc[c] = "stop" /\ mutexThreads = None /\ requestStop'
        /\ UNCHANGED <<stopped, thread, alive, starts>>
        /\ wpc' = [w \in Dispatchers |-> IF w \in Sleepers THEN "check" ELSE wpc[w]]
    BY <1>4 DEF StopRequest
  <2>2. OnlyTheThreadWorks'
    BY <1>0, <2>1 DEF OnlyTheThreadWorks, Sleepers
  <2>3. wpc' \in [Dispatchers ->
                    {"none", "check", "get", "lock", "sleep", "dispatch", "exited"}]
    BY <1>0, <2>1
  <2>4. CASE thread # None
    <3>1. /\ cpc' = [cpc EXCEPT ![c] = "join"] /\ mutexThreads' = c
          /\ started' = started
      BY <1>4, <2>4 DEF StopRequest, ControllerGoto
    <3>2. MCTypeOK'
      BY <1>0, <2>1, <2>3, <3>1 DEF MCTypeOK
    <3>3. ThreadInv'
      BY <1>0, <2>1, <2>4, <3>1 DEF ThreadInv
    <3>4. QED
      BY <2>2, <3>2, <3>3
  <2>5. CASE thread = None
    <3>1. /\ cpc' = [cpc EXCEPT ![c] = "idle"] /\ mutexThreads' = mutexThreads
          /\ ~ started' /\ started' \in BOOLEAN
      BY <1>4, <2>5 DEF StopRequest, ControllerGoto
    <3>2. MCTypeOK'
      BY <1>0, <2>1, <2>3, <3>1, ControllersAssumption DEF MCTypeOK
    <3>3. ThreadInv'
      BY <1>0, <2>1, <2>5, <3>1 DEF ThreadInv
    <3>4. QED
      BY <2>2, <3>2, <3>3
  <2>6. QED
    BY <2>4, <2>5
<1>5. CASE StopJoin(c)
  <2>1. /\ cpc[c] = "join" /\ wpc[thread] = "exited" /\ thread \in Dispatchers
        /\ wpc' = [wpc EXCEPT ![thread] = "none"]
        /\ thread' = None /\ ~ started' /\ started' \in BOOLEAN /\ mutexThreads' = None
        /\ cpc' = [cpc EXCEPT ![c] = "idle"]
        /\ UNCHANGED <<requestStop, stopped, alive, starts>>
    BY <1>5 DEF StopJoin, ControllerGoto, WorkerGoto, MCTypeOK, ThreadInv
  <2>2. OnlyTheThreadWorks'
    BY <1>0, <2>1 DEF OnlyTheThreadWorks
  <2>3. MCTypeOK'
    BY <1>0, <2>1, ControllersAssumption DEF MCTypeOK
  <2>4. ThreadInv'
    BY <1>0, <2>1 DEF ThreadInv
  <2>5. QED
    BY <2>2, <2>3, <2>4
<1>6. QED
  BY <1>1, <1>2, <1>3, <1>4, <1>5 DEF StopStep

LEMMA NextCenter ==
  ASSUME SingleController, TypeOK, MCInv, [MCNext]_mcvars
  PROVE  MCInv'
<1>1. CASE UNCHANGED mcvars
  BY <1>1 DEF mcvars, vars, lifecycle, flags, MCInv, MCTypeOK, OnlyTheThreadWorks, ThreadInv
<1>2. CASE MCNext
  BY <1>1, <1>2, WorkerCenter, QueueCenter, ClientCenter, ControllerCenter
     DEF MCNext, Destroyed
<1>3. QED
  BY <1>1, <1>2

LEMMA CenterInvariant ==
  ASSUME SingleController
  PROVE  MCSpec => []MCInv
<1>1. MCSpec => []TypeOK
  BY ImplementsEventQueue, TypeCorrect, PTL
<1>2. QED
  BY <1>1, InitCenter, NextCenter, PTL DEF MCSpec

\* Every variable of the lifecycle keeps its type, and only the controller that
\* joins the thread holds m_mutexThreads.
THEOREM CenterTypeCorrect ==
  ASSUME SingleController
  PROVE  MCSpec => []MCTypeOK
<1>1. MCInv => MCTypeOK
  BY DEF MCInv
<1>2. QED
  BY <1>1, CenterInvariant, PTL

\* However often the center is started and stopped, one worker at most takes
\* messages, and no message is being dispatched when Stop has returned.
THEOREM OneWorker ==
  ASSUME SingleController
  PROVE  MCSpec => []OnlyTheThreadWorks
<1>1. MCInv => OnlyTheThreadWorks
  BY DEF MCInv
<1>2. QED
  BY <1>1, CenterInvariant, PTL
=============================================================================
