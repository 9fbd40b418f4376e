---------------------- MODULE EventQueueBroadcastProofs ----------------------
(***************************************************************************)
(* Theorems about EventQueueBroadcast, for every number of threads, topics *)
(* and messages.  What concerns the payload assumes Fixed: the observers   *)
(* are registered before the first post, and are not more than a uint8_t   *)
(* counts.                                                                 *)
(***************************************************************************)
EXTENDS EventQueueBroadcast, SequenceTheorems, TLAPS

Fixed == ~ LateObservers /\ MaxObservers <= MaxCount

\* A message is with one thread, or in the queue once.
Places ==
  /\ \A p \in Producers : poster[p] # None => state[poster[p]] = "pushing"
  /\ \A p, q \in Producers : poster[p] = poster[q] /\ poster[p] # None => p = q
  /\ \A i \in DOMAIN queue : state[queue[i]] = "queued"
  /\ \A i, j \in DOMAIN queue : queue[i] = queue[j] => i = j
  /\ \A c \in Consumers : taken[c] # None => state[taken[c]] = "dispatched"
  /\ \A c, d \in Consumers : taken[c] = taken[d] /\ taken[c] # None => c = d
  /\ \A c \in Consumers : taken[c] = None <=> pc[c] = "idle"

\* What is known of a message before it is posted and before it is dispatched.
Fresh ==
  \A m \in Messages :
    /\ state[m] = "unused" => ~ managed[m]
    /\ ~ managed[m] => refs[m] = 0
    /\ state[m] # "unused" => topic[m] \in Topics
    /\ state[m] \in {"unused", "pushing", "queued"} => called[m] = 0

\* The callbacks that ran and those to come are no more than the observers.
Progress ==
  \A c \in Consumers :
    /\ pc[c] = "load" => called[taken[c]] = 0
    /\ pc[c] = "call" => called[taken[c]] + left[c] <= MaxObservers
    /\ pc[c] = "release" => left[c] > 0 /\ called[taken[c]] + left[c] <= MaxObservers + 1

Struct == TypeOK /\ Places /\ Fresh /\ Progress

\* Whether a callback for m returned and its reference is not released yet.
Releasing(m) == \E c \in Consumers : taken[c] = m /\ pc[c] = "release"

\* The references of a payload are the observers that did not release it.
RefsCount ==
  \A m \in Messages :
    /\ managed[m] /\ ~ Releasing(m) => refs[m] = observers[topic[m]] - called[m]
    /\ managed[m] /\ Releasing(m) => refs[m] = observers[topic[m]] - called[m] + 1

\* Each observer is called, and none twice.
CallsCount ==
  /\ \A m \in Messages : state[m] = "done" => called[m] = observers[topic[m]]
  /\ \A c \in Consumers :
       /\ pc[c] = "call" => called[taken[c]] + left[c] = observers[topic[taken[c]]]
       /\ pc[c] = "release" => called[taken[c]] + left[c] = observers[topic[taken[c]]] + 1

IInv == Struct /\ RefsCount /\ CallsCount

USE SizesAssumption, LateObserversAssumption, NoneAssumption

LEMMA Init_Struct == Init => Struct
  BY DEF Init, Struct, TypeOK, Places, Fresh, Progress

\* The members of TypeOK that are not Boolean.
Numbers ==
  /\ observers \in [Topics -> 0 .. MaxObservers]
  /\ state \in [Messages -> {"unused", "pushing", "queued", "dispatched", "done"}]
  /\ topic \in [Messages -> Topics \cup {None}]
  /\ refs \in [Messages -> 0 .. MaxCount]
  /\ queue \in Seq(Messages) /\ Len(queue) <= Capacity
  /\ poster \in [Producers -> Messages \cup {None}]
  /\ taken \in [Consumers -> Messages \cup {None}]
  /\ pc \in [Consumers -> {"idle", "load", "call", "release"}]
  /\ left \in [Consumers -> 0 .. MaxObservers]
  /\ called \in [Messages -> 0 .. MaxObservers]

LEMMA TypeSplit == TypeOK <=> Numbers /\ managed \in [Messages -> BOOLEAN]
  BY Zenon DEF TypeOK, Numbers

LEMMA AddObserver_Struct ==
  ASSUME Struct, NEW tp \in Topics, AddObserver(tp)
  PROVE  Struct'
<1> USE DEF AddObserver, message, dispatch
<1>1. Numbers'
  BY TypeSplit DEF Struct, Numbers
<1>2. TypeOK'
  BY <1>1, TypeSplit, Zenon DEF Struct, TypeOK, Numbers
<1>3. Places' /\ Fresh' /\ Progress'
  BY DEF Struct, Places, Fresh, Progress
<1> QED
  BY <1>2, <1>3 DEF Struct

LEMMA Post_Struct ==
  ASSUME Struct, NEW p \in Producers, NEW m \in Messages, NEW tp \in Topics,
         NEW large \in BOOLEAN, Post(p, m, tp, large)
  PROVE  Struct'
<1> DEFINE count == Smaller(observers[tp], MaxCount)
<1> USE DEF Struct, dispatch
<1>1. Numbers /\ managed \in [Messages -> BOOLEAN]
  BY TypeSplit
<1>2. count \in 1 .. MaxCount /\ PostRefs(count) = count
  BY <1>1 DEF Post, Smaller, PostRefs, Numbers
<1>3. managed' \in [Messages -> BOOLEAN]
  BY <1>1, Zenon DEF Post
<1>4. Numbers'
  BY <1>1, <1>2 DEF Post, Numbers
<1>5. Places'
  BY <1>1 DEF Post, Places, Numbers
<1>6. Fresh'
  BY <1>1 DEF Post, Fresh, Numbers
<1>7. Progress'
  BY DEF Post, Progress
<1>8. TypeOK'
  BY <1>3, <1>4, Zenon DEF TypeOK, Numbers
<1> QED
  BY <1>5, <1>6, <1>7, <1>8

LEMMA PostPush_Struct ==
  ASSUME Struct, NEW p \in Producers, PostPush(p)
  PROVE  Struct'
<1> USE DEF Struct, message, dispatch
<1>1. Numbers /\ managed' = managed /\ managed \in [Messages -> BOOLEAN]
  BY TypeSplit DEF PostPush
<1>2. /\ queue' \in Seq(Messages) /\ Len(queue') = Len(queue) + 1
      /\ queue'[Len(queue) + 1] = poster[p]
      /\ \A i \in 1 .. Len(queue) : queue'[i] = queue[i]
  BY <1>1 DEF PostPush, Numbers
<1>3. Numbers'
  BY <1>1, <1>2 DEF PostPush, Numbers
<1>4. TypeOK'
  BY <1>1, <1>3, Zenon DEF TypeOK, Numbers
<1>m. PICK m \in Messages : m = poster[p] /\ m # None /\ state[m] = "pushing"
  BY <1>1 DEF PostPush, Places, Numbers
<1>c. /\ state'[m] = "queued" /\ \A n \in Messages : n # m => state'[n] = state[n]
      /\ poster'[p] = None /\ \A q \in Producers : q # p => poster'[q] = poster[q]
      /\ taken' = taken /\ pc' = pc
  BY <1>1, <1>m DEF PostPush, Numbers
<1>5. Places'
  <2>1. /\ \A q \in Producers : poster'[q] # None => state'[poster'[q]] = "pushing"
        /\ \A q, r \in Producers : poster'[q] = poster'[r] /\ poster'[q] # None => q = r
    <3>1. \A q \in Producers : q # p /\ poster[q] # None =>
            poster[q] \in Messages /\ poster[q] # m /\ state[poster[q]] = "pushing"
      BY <1>1, <1>m DEF Places, Numbers
    <3>2. \A q \in Producers : poster'[q] # None =>
            q # p /\ poster'[q] = poster[q] /\ state'[poster'[q]] = "pushing"
      BY <1>c, <3>1
    <3>3. \A q, r \in Producers : poster[q] = poster[r] /\ poster[q] # None => q = r
      BY DEF Places
    <3> QED
      BY <3>2, <3>3
  <2>2. \A i \in 1 .. Len(queue) : queue[i] \in Messages /\ queue[i] # m
    BY <1>1, <1>m DEF Places, Numbers
  <2>3. DOMAIN queue' = 1 .. Len(queue) + 1 /\ DOMAIN queue = 1 .. Len(queue) /\ Len(queue) \in Nat
    BY <1>1, <1>2 DEF Numbers
  <2>4. \A i \in DOMAIN queue' : state'[queue'[i]] = "queued"
    BY <1>2, <1>m, <1>c, <2>2, <2>3 DEF Places
  <2>5. \A i, j \in DOMAIN queue' : queue'[i] = queue'[j] => i = j
    BY <1>2, <1>m, <2>2, <2>3 DEF Places
  <2>6. \A c \in Consumers : taken[c] # None => taken[c] \in Messages /\ taken[c] # m
    BY <1>1, <1>m DEF Places, Numbers
  <2>7. /\ \A c \in Consumers : taken'[c] # None => state'[taken'[c]] = "dispatched"
        /\ \A c, d \in Consumers : taken'[c] = taken'[d] /\ taken'[c] # None => c = d
        /\ \A c \in Consumers : taken'[c] = None <=> pc'[c] = "idle"
    <3>1. \A c \in Consumers : taken[c] # None => state'[taken[c]] = state[taken[c]]
      BY <1>c, <2>6
    <3> QED
      BY <1>c, <3>1 DEF Places
  <2> QED
    BY <2>1, <2>4, <2>5, <2>7 DEF Places
<1>6. Fresh'
  BY <1>1, <1>m, <1>c DEF PostPush, Fresh, Numbers
<1>7. Progress'
  BY DEF PostPush, Progress
<1> QED
  BY <1>4, <1>5, <1>6, <1>7

LEMMA DispatchPop_Struct ==
  ASSUME Struct, NEW c \in Consumers, DispatchPop(c)
  PROVE  Struct'
<1> DEFINE h == Head(queue)
<1> USE DEF Struct, message
<1>1. Numbers /\ managed' = managed /\ managed \in [Messages -> BOOLEAN]
  BY TypeSplit DEF DispatchPop
<1>2. /\ queue' \in Seq(Messages) /\ Len(queue') = Len(queue) - 1
      /\ Len(queue) \in Nat \ {0} /\ h = queue[1] /\ h \in Messages
      /\ \A i \in 1 .. Len(queue') : queue'[i] = queue[i + 1]
  BY <1>1 DEF DispatchPop, Numbers
<1>3. Numbers'
  BY <1>1, <1>2 DEF DispatchPop, Numbers
<1>4. TypeOK'
  BY <1>1, <1>3, Zenon DEF TypeOK, Numbers
<1>5. /\ h # None /\ state[h] = "queued"
      /\ \A i \in DOMAIN queue' : i + 1 \in DOMAIN queue /\ queue[i + 1] # h
  BY <1>1, <1>2 DEF Places
<1>6. /\ state'[h] = "dispatched" /\ taken'[c] = h /\ pc'[c] = "load"
      /\ \A m \in Messages : m # h => state'[m] = state[m]
      /\ \A d \in Consumers : d # c => taken'[d] = taken[d] /\ pc'[d] = pc[d]
      /\ poster' = poster /\ topic' = topic /\ refs' = refs /\ left' = left /\ called' = called
  BY <1>1, <1>2 DEF DispatchPop, Numbers
<1> HIDE DEF h
<1>7. Places'
  <2>1. \A i \in DOMAIN queue' : state'[queue'[i]] = "queued"
    <3> SUFFICES ASSUME NEW i \in DOMAIN queue'
                 PROVE  state'[queue'[i]] = "queued"
      OBVIOUS
    <3>1. i \in 1 .. Len(queue')
      BY <1>2
    <3>2. queue'[i] = queue[i + 1] /\ i + 1 \in DOMAIN queue /\ queue[i + 1] # h
      BY <1>2, <1>5, <3>1
    <3>3. queue[i + 1] \in Messages
      BY <1>1, <3>2 DEF Numbers
    <3> QED
      BY <1>6, <3>2, <3>3 DEF Places
  <2>2. \A i, j \in DOMAIN queue' : queue'[i] = queue'[j] => i = j
    <3> SUFFICES ASSUME NEW i \in DOMAIN queue', NEW j \in DOMAIN queue', queue'[i] = queue'[j]
                 PROVE  i = j
      OBVIOUS
    <3>1. i \in 1 .. Len(queue') /\ j \in 1 .. Len(queue')
      BY <1>2
    <3>2. queue[i + 1] = queue[j + 1] /\ i + 1 \in DOMAIN queue /\ j + 1 \in DOMAIN queue
      BY <1>2, <1>5, <3>1
    <3>3. i + 1 = j + 1
      BY <3>2 DEF Places
    <3> QED
      BY <3>1, <3>3
  <2>3. \A d \in Consumers : taken[d] # h
    BY <1>5 DEF Places
  <2>4. /\ \A p \in Producers : poster'[p] # None => state'[poster'[p]] = "pushing"
        /\ \A p, q \in Producers : poster'[p] = poster'[q] /\ poster'[p] # None => p = q
    BY <1>1, <1>5, <1>6 DEF Places, Numbers
  <2>5. \A d \in Consumers : taken'[d] # None => state'[taken'[d]] = "dispatched"
    <3>1. \A d \in Consumers : taken[d] # None => taken[d] \in Messages
      BY <1>1 DEF Numbers
    <3> QED
      BY <1>6, <2>3, <3>1 DEF Places
  <2>6. \A d, e \in Consumers : taken'[d] = taken'[e] /\ taken'[d] # None => d = e
    BY <1>6, <2>3 DEF Places
  <2>7. \A d \in Consumers : taken'[d] = None <=> pc'[d] = "idle"
    <3>1. taken'[c] # None /\ pc'[c] # "idle"
      BY <1>5, <1>6
    <3>2. ASSUME NEW d \in Consumers, d # c
          PROVE  taken'[d] = None <=> pc'[d] = "idle"
      <4>1. taken'[d] = taken[d] /\ pc'[d] = pc[d]
        BY <1>6, <3>2
      <4>2. taken[d] = None <=> pc[d] = "idle"
        BY DEF Places
      <4> QED
        BY <4>1, <4>2
    <3> QED
      BY <3>1, <3>2, Zenon
  <2> QED
    BY <2>1, <2>2, <2>4, <2>5, <2>6, <2>7 DEF Places
<1>8. Fresh'
  BY <1>1, <1>5, <1>6 DEF Fresh
<1>9. Progress'
  BY <1>1, <1>2, <1>5, <1>6 DEF Progress, Fresh
<1> QED
  BY <1>4, <1>7, <1>8, <1>9

LEMMA LoadObservers_Struct ==
  ASSUME Struct, NEW c \in Consumers, LoadObservers(c)
  PROVE  Struct'
<1> USE DEF Struct, message
<1>1. Numbers /\ managed' = managed /\ managed \in [Messages -> BOOLEAN]
  BY TypeSplit DEF LoadObservers
<1>2. taken[c] \in Messages /\ state[taken[c]] = "dispatched" /\ topic[taken[c]] \in Topics
  BY <1>1 DEF LoadObservers, Places, Fresh, Numbers
<1>3. Numbers'
  BY <1>1, <1>2 DEF LoadObservers, Numbers
<1>4. TypeOK'
  BY <1>1, <1>3, Zenon DEF TypeOK, Numbers
<1>5. Places' /\ Fresh'
  BY <1>1 DEF LoadObservers, Places, Fresh, Numbers
<1>6. Progress'
  BY <1>1, <1>2 DEF LoadObservers, Progress, Numbers
<1> QED
  BY <1>4, <1>5, <1>6

LEMMA Callback_Struct ==
  ASSUME Struct, NEW c \in Consumers, Callback(c)
  PROVE  Struct'
<1> USE DEF Struct, message
<1>1. Numbers /\ managed' = managed /\ managed \in [Messages -> BOOLEAN]
  BY TypeSplit DEF Callback
<1>2. taken[c] \in Messages /\ state[taken[c]] = "dispatched"
  BY <1>1 DEF Callback, Places, Numbers
<1>3. /\ called[taken[c]] + left[c] <= MaxObservers
      /\ called[taken[c]] \in Nat /\ left[c] \in Nat \ {0}
      /\ called'[taken[c]] = called[taken[c]] + 1
  BY <1>1, <1>2 DEF Callback, Progress, Numbers
<1>4. Numbers'
  BY <1>1, <1>2, <1>3 DEF Callback, Numbers
<1>5. TypeOK'
  BY <1>1, <1>4, Zenon DEF TypeOK, Numbers
<1>6. Places' /\ Fresh'
  BY <1>1, <1>2 DEF Callback, Places, Fresh, Numbers
<1>7. \A d \in Consumers : d # c => taken[d] # taken[c]
  BY <1>2 DEF Places
<1>8. Progress'
  BY <1>1, <1>2, <1>3, <1>7 DEF Callback, Progress, Places, Numbers
<1> QED
  BY <1>5, <1>6, <1>8

LEMMA ReleasePayload_Struct ==
  ASSUME Struct, NEW c \in Consumers, ReleasePayload(c)
  PROVE  Struct'
<1> USE DEF Struct, message
<1>1. Numbers /\ managed' = managed /\ managed \in [Messages -> BOOLEAN]
  BY TypeSplit DEF ReleasePayload
<1>2. taken[c] \in Messages /\ state[taken[c]] = "dispatched"
  BY <1>1 DEF ReleasePayload, Places, Numbers
<1>3. refs' \in [Messages -> 0 .. MaxCount] /\ \A m \in Messages : ~ managed[m] => refs'[m] = refs[m]
  <2>1. CASE managed[taken[c]]
    <3>1. Release(taken[c])
      BY <2>1, Zenon DEF ReleasePayload
    <3>2. /\ refs' \in [Messages -> 0 .. MaxCount]
          /\ \A m \in Messages : m # taken[c] => refs'[m] = refs[m]
      BY <1>1, <1>2, <3>1 DEF Release, Numbers
    <3> QED
      BY <2>1, <3>2, Zenon
  <2>2. CASE ~ managed[taken[c]]
    BY <1>1, <2>2 DEF ReleasePayload, Numbers
  <2> QED
    BY <2>1, <2>2
<1>4. left[c] \in 1 .. MaxObservers
  BY <1>1 DEF ReleasePayload, Progress, Numbers
<1>5. Numbers'
  BY <1>1, <1>3, <1>4 DEF ReleasePayload, Numbers
<1>6. TypeOK'
  BY <1>1, <1>5, Zenon DEF TypeOK, Numbers
<1>7. Places'
  BY <1>1 DEF ReleasePayload, Places, Numbers
<1>8. Fresh'
  BY <1>1, <1>3 DEF ReleasePayload, Fresh, Numbers
<1>9. Progress'
  BY <1>1, <1>2, <1>4 DEF ReleasePayload, Progress, Numbers
<1> QED
  BY <1>6, <1>7, <1>8, <1>9

LEMMA DispatchDone_Struct ==
  ASSUME Struct, NEW c \in Consumers, DispatchDone(c)
  PROVE  Struct'
<1> USE DEF Struct, message
<1>1. Numbers /\ managed' = managed /\ managed \in [Messages -> BOOLEAN]
  BY TypeSplit DEF DispatchDone
<1>2. taken[c] \in Messages /\ state[taken[c]] = "dispatched"
  BY <1>1 DEF DispatchDone, Places, Numbers
<1>3. Numbers'
  BY <1>1, <1>2 DEF DispatchDone, Numbers
<1>4. TypeOK'
  BY <1>1, <1>3, Zenon DEF TypeOK, Numbers
<1>5. Places'
  BY <1>1, <1>2 DEF DispatchDone, Places, Numbers
<1>6. Fresh'
  BY <1>1, <1>2 DEF DispatchDone, Fresh, Numbers
<1>7. Progress'
  BY <1>1 DEF DispatchDone, Progress, Numbers
<1> QED
  BY <1>4, <1>5, <1>6, <1>7

LEMMA Stutter_Struct ==
  ASSUME Struct, UNCHANGED vars
  PROVE  Struct'
  BY Zenon DEF vars, message, dispatch, Struct, TypeOK, Places, Fresh, Progress

\* Where every message is and how far its dispatch has come (post, dispatchOne).
THEOREM Structure == Spec => []Struct
<1>1. Struct /\ [Next]_vars => Struct'
  BY AddObserver_Struct, Post_Struct, PostPush_Struct, DispatchPop_Struct,
     LoadObservers_Struct, Callback_Struct, ReleasePayload_Struct, DispatchDone_Struct,
     Stutter_Struct DEF Next, DispatchStep, Idle
<1> QED
  BY <1>1, Init_Struct, PTL DEF Spec
-----------------------------------------------------------------------------
(* What Fixed adds *)

LEMMA Init_Counts == Init => RefsCount /\ CallsCount
  BY DEF Init, RefsCount, CallsCount

LEMMA AddObserver_Counts ==
  ASSUME IInv, Fixed, NEW tp \in Topics, AddObserver(tp)
  PROVE  RefsCount' /\ CallsCount'
<1> USE DEF IInv, Struct, AddObserver, message, dispatch
<1>1. Numbers /\ managed' = managed
  BY TypeSplit
<1>2. \A m \in Messages : state[m] = "unused" /\ ~ managed[m]
  BY DEF Fixed, Fresh
<1>3. \A c \in Consumers : pc[c] = "idle"
  BY <1>1, <1>2 DEF Places, Numbers
<1>4. RefsCount'
  BY <1>2, Zenon DEF RefsCount
<1>5. CallsCount'
  BY <1>2, <1>3 DEF CallsCount
<1> QED
  BY <1>4, <1>5

LEMMA Post_Counts ==
  ASSUME IInv, Fixed, NEW p \in Producers, NEW m \in Messages, NEW tp \in Topics,
         NEW large \in BOOLEAN, Post(p, m, tp, large)
  PROVE  RefsCount' /\ CallsCount'
<1> USE DEF IInv, Struct, dispatch
<1>1. Numbers /\ managed \in [Messages -> BOOLEAN]
  BY TypeSplit
<1>2. PostRefs(Smaller(observers[tp], MaxCount)) = observers[tp] /\ observers[tp] \in Nat
  BY <1>1 DEF Post, Smaller, PostRefs, Numbers, Fixed
<1>3. \A c \in Consumers : taken[c] # m
  BY DEF Post, Places
<1>4. state[m] = "unused" /\ called[m] = 0 /\ called' = called /\ observers' = observers
  BY DEF Post, Fresh
<1>5. \A n \in Messages : Releasing(n)' = Releasing(n)
  BY DEF Post, Releasing
<1>6. ~ Releasing(m)
  BY <1>3 DEF Releasing
<1>7. /\ topic'[m] = tp /\ managed'[m] = large
      /\ large => refs'[m] = observers[tp]
      /\ \A n \in Messages : n # m => topic'[n] = topic[n] /\ managed'[n] = managed[n] /\ refs'[n] = refs[n]
  <2>1. topic'[m] = tp /\ \A n \in Messages : n # m => topic'[n] = topic[n]
    BY <1>1 DEF Post, Numbers
  <2>2. managed'[m] = large /\ \A n \in Messages : n # m => managed'[n] = managed[n]
    BY <1>1, Zenon DEF Post
  <2>3. large => refs'[m] = observers[tp]
    BY <1>1, <1>2 DEF Post, Numbers
  <2>4. \A n \in Messages : n # m => refs'[n] = refs[n]
    BY <1>1 DEF Post, Numbers
  <2> QED
    BY <2>1, <2>2, <2>3, <2>4, Zenon
<1>8. RefsCount'
  <2> SUFFICES ASSUME NEW n \in Messages
               PROVE  /\ managed'[n] /\ ~ Releasing(n)' => refs'[n] = observers[topic'[n]] - called[n]
                      /\ managed'[n] /\ Releasing(n)' => refs'[n] = observers[topic'[n]] - called[n] + 1
    BY <1>4, Zenon DEF RefsCount
  <2>1. CASE n = m
    BY <1>2, <1>4, <1>5, <1>6, <1>7, <2>1
  <2>2. CASE n # m
    BY <1>5, <1>7, <2>2, Zenon DEF RefsCount
  <2> QED
    BY <2>1, <2>2
<1>9. CallsCount'
  <2>1. \A c \in Consumers : pc[c] # "idle" => taken[c] \in Messages /\ taken[c] # m
    BY <1>1, <1>3 DEF Places, Numbers
  <2>2. \A n \in Messages : state'[n] = "done" => called'[n] = observers'[topic'[n]]
    BY <1>1, <1>4, <1>7 DEF Post, CallsCount, Numbers
  <2>3. pc' = pc /\ left' = left /\ taken' = taken
    BY DEF Post
  <2> QED
    BY <1>4, <1>7, <2>1, <2>2, <2>3 DEF CallsCount
<1> QED
  BY <1>8, <1>9

LEMMA PostPush_Counts ==
  ASSUME IInv, NEW p \in Producers, PostPush(p)
  PROVE  RefsCount' /\ CallsCount'
<1> USE DEF IInv, Struct, PostPush, message, dispatch
<1>1. Numbers
  BY TypeSplit
<1>2. RefsCount'
  BY Zenon DEF RefsCount, Releasing
<1>3. CallsCount'
  BY <1>1 DEF CallsCount, Numbers
<1> QED
  BY <1>2, <1>3

LEMMA DispatchPop_Counts ==
  ASSUME IInv, NEW c \in Consumers, DispatchPop(c)
  PROVE  RefsCount' /\ CallsCount'
<1> USE DEF IInv, Struct, message
<1>1. Numbers
  BY TypeSplit
<1>2. pc'[c] = "load" /\ pc[c] = "idle"
      /\ \A d \in Consumers : d # c => pc'[d] = pc[d] /\ taken'[d] = taken[d]
  BY <1>1 DEF DispatchPop, Numbers
<1>3. \A n \in Messages : Releasing(n)' <=> Releasing(n)
  BY <1>2 DEF Releasing
<1>4. RefsCount'
  BY <1>3, Zenon DEF DispatchPop, RefsCount
<1>5. CallsCount'
  <2>1. Head(queue) \in Messages
    BY <1>1 DEF DispatchPop, Numbers
  <2> QED
    BY <1>1, <1>2, <2>1 DEF DispatchPop, CallsCount, Numbers
<1> QED
  BY <1>4, <1>5

LEMMA LoadObservers_Counts ==
  ASSUME IInv, NEW c \in Consumers, LoadObservers(c)
  PROVE  RefsCount' /\ CallsCount'
<1> USE DEF IInv, Struct, message
<1>1. Numbers
  BY TypeSplit
<1>2. /\ taken[c] \in Messages /\ topic[taken[c]] \in Topics /\ called[taken[c]] = 0
      /\ observers[topic[taken[c]]] \in Nat
  BY <1>1 DEF LoadObservers, Places, Fresh, Progress, Numbers
<1>3. /\ pc[c] = "load" /\ pc'[c] = "call" /\ left'[c] = observers[topic[taken[c]]]
      /\ \A d \in Consumers : d # c => pc'[d] = pc[d] /\ left'[d] = left[d]
      /\ taken' = taken /\ called' = called /\ topic' = topic /\ observers' = observers /\ state' = state
  BY <1>1 DEF LoadObservers, Numbers
<1>4. \A n \in Messages : Releasing(n)' <=> Releasing(n)
  BY <1>3 DEF Releasing
<1>5. RefsCount'
  BY <1>4, Zenon DEF LoadObservers, RefsCount
<1>6. CallsCount'
  BY <1>2, <1>3 DEF CallsCount
<1> QED
  BY <1>5, <1>6

LEMMA Callback_Counts ==
  ASSUME IInv, NEW c \in Consumers, Callback(c)
  PROVE  RefsCount' /\ CallsCount'
<1> USE DEF IInv, Struct, message
<1>1. Numbers
  BY TypeSplit
<1>0. PICK t \in Messages : t = taken[c]
  BY <1>1 DEF Callback, Places, Numbers
<1>2. t # None /\ state[t] = "dispatched" /\ topic[t] \in Topics
  BY <1>0, <1>1 DEF Callback, Places, Fresh, Numbers
<1>3. /\ pc[c] = "call" /\ pc'[c] = "release" /\ called'[t] = called[t] + 1
      /\ \A d \in Consumers : d # c => pc'[d] = pc[d] /\ taken[d] # t
      /\ \A n \in Messages : n # t => called'[n] = called[n]
      /\ taken' = taken /\ left' = left /\ topic' = topic /\ observers' = observers
      /\ state' = state /\ refs' = refs
  BY <1>0, <1>1, <1>2 DEF Callback, Places, Numbers
<1>4. managed' = managed
  BY DEF Callback
<1>5. called[t] \in Nat /\ observers[topic[t]] \in Nat /\ left[c] \in Nat /\ refs[t] \in Nat
  BY <1>0, <1>1, <1>2 DEF Numbers
<1>6. ~ Releasing(t) /\ Releasing(t)' /\ \A n \in Messages : n # t => (Releasing(n)' <=> Releasing(n))
  BY <1>0, <1>3 DEF Releasing
<1>7. managed[t] => refs[t] = observers[topic[t]] - called[t]
  BY <1>2, <1>6, Zenon DEF RefsCount
<1>8. managed[t] => refs[t] = observers[topic[t]] - (called[t] + 1) + 1
  <2>1. observers[topic[t]] - called[t] = observers[topic[t]] - (called[t] + 1) + 1
    BY <1>5
  <2> QED
    BY <1>7, <2>1, Zenon
<1>9. RefsCount'
  <2> SUFFICES ASSUME NEW n \in Messages
               PROVE  /\ managed[n] /\ ~ Releasing(n)' => refs[n] = observers[topic[n]] - called'[n]
                      /\ managed[n] /\ Releasing(n)' => refs[n] = observers[topic[n]] - called'[n] + 1
    BY <1>3, <1>4, Zenon DEF RefsCount
  <2>1. CASE n = t
    <3>1. managed[t] => refs[t] = observers[topic[t]] - called'[t] + 1
      BY <1>3, <1>8, Zenon
    <3>2. Releasing(n)'
      BY <1>6, <2>1
    <3> QED
      BY <2>1, <3>1, <3>2, Zenon
  <2>2. CASE n # t
    BY <1>3, <1>6, <2>2, Zenon DEF RefsCount
  <2> QED
    BY <2>1, <2>2
<1>10. CallsCount'
  <2>1. \A d \in Consumers : d # c /\ pc[d] # "idle" => taken[d] \in Messages
    BY <1>1 DEF Places, Numbers
  <2>2. called[t] + left[c] = observers[topic[t]]
    BY <1>0, <1>3 DEF CallsCount
  <2>3. \A d \in Consumers :
          /\ pc'[d] = "call" => called'[taken[d]] + left[d] = observers[topic[taken[d]]]
          /\ pc'[d] = "release" => called'[taken[d]] + left[d] = observers[topic[taken[d]]] + 1
    BY <1>0, <1>3, <1>5, <2>1, <2>2 DEF CallsCount
  <2>4. \A n \in Messages : state[n] = "done" => called'[n] = observers[topic[n]]
    BY <1>2, <1>3 DEF CallsCount
  <2> QED
    BY <1>3, <2>3, <2>4 DEF CallsCount
<1> QED
  BY <1>9, <1>10

LEMMA ReleasePayload_Counts ==
  ASSUME IInv, NEW c \in Consumers, ReleasePayload(c)
  PROVE  RefsCount' /\ CallsCount'
<1> USE DEF IInv, Struct, message
<1>1. Numbers
  BY TypeSplit
<1>0. PICK t \in Messages : t = taken[c]
  BY <1>1 DEF ReleasePayload, Places, Numbers
<1>2. t # None /\ state[t] = "dispatched" /\ topic[t] \in Topics
  BY <1>0, <1>1 DEF ReleasePayload, Places, Fresh, Numbers
<1>3. /\ pc[c] = "release" /\ pc'[c] = "call" /\ left'[c] = left[c] - 1
      /\ \A d \in Consumers : d # c => pc'[d] = pc[d] /\ left'[d] = left[d] /\ taken[d] # t
      /\ taken' = taken /\ called' = called /\ topic' = topic /\ observers' = observers
      /\ state' = state
  BY <1>0, <1>1, <1>2 DEF ReleasePayload, Places, Numbers
<1>4. managed' = managed
  BY DEF ReleasePayload
<1>5. called[t] \in Nat /\ observers[topic[t]] \in Nat /\ left[c] \in Nat /\ refs[t] \in Nat
  BY <1>0, <1>1, <1>2 DEF Numbers
<1>6. Releasing(t) /\ ~ Releasing(t)' /\ \A n \in Messages : n # t => (Releasing(n)' <=> Releasing(n))
  BY <1>0, <1>3 DEF Releasing
<1>7. /\ \A n \in Messages : n # t => refs'[n] = refs[n]
      /\ managed[t] => refs[t] > 0 /\ refs'[t] = refs[t] - 1
  <2>1. CASE managed[t]
    <3>1. Release(t)
      BY <1>0, <2>1, Zenon DEF ReleasePayload
    <3>2. /\ \A n \in Messages : n # t => refs'[n] = refs[n]
          /\ refs[t] > 0 /\ refs'[t] = refs[t] - 1
      BY <1>0, <1>1, <1>2, <3>1 DEF Release, Numbers
    <3> QED
      BY <3>2, Zenon
  <2>2. CASE ~ managed[t]
    BY <1>0, <2>2, Zenon DEF ReleasePayload
  <2> QED
    BY <2>1, <2>2
<1>8. managed[t] => refs'[t] = observers[topic[t]] - called[t]
  <2>1. managed[t] => refs[t] = observers[topic[t]] - called[t] + 1
    BY <1>2, <1>6, Zenon DEF RefsCount
  <2>2. refs[t] = observers[topic[t]] - called[t] + 1 /\ refs'[t] = refs[t] - 1
        => refs'[t] = observers[topic[t]] - called[t]
    BY <1>5
  <2> QED
    BY <1>7, <2>1, <2>2, Zenon
<1>9. RefsCount'
  <2> SUFFICES ASSUME NEW n \in Messages
               PROVE  /\ managed[n] /\ ~ Releasing(n)' => refs'[n] = observers[topic[n]] - called[n]
                      /\ managed[n] /\ Releasing(n)' => refs'[n] = observers[topic[n]] - called[n] + 1
    BY <1>3, <1>4, Zenon DEF RefsCount
  <2>1. CASE n = t
    <3>1. ~ Releasing(n)'
      BY <1>6, <2>1
    <3> QED
      BY <1>8, <2>1, <3>1, Zenon
  <2>2. CASE n # t
    BY <1>6, <1>7, <2>2, Zenon DEF RefsCount
  <2> QED
    BY <2>1, <2>2
<1>10. CallsCount'
  <2>1. called[t] + left[c] = observers[topic[t]] + 1
    BY <1>0, <1>3 DEF CallsCount
  <2>2. \A d \in Consumers :
          /\ pc'[d] = "call" => called[taken[d]] + left'[d] = observers[topic[taken[d]]]
          /\ pc'[d] = "release" => called[taken[d]] + left'[d] = observers[topic[taken[d]]] + 1
    BY <1>0, <1>3, <1>5, <2>1 DEF CallsCount
  <2> QED
    BY <1>3, <2>2 DEF CallsCount
<1> QED
  BY <1>9, <1>10

LEMMA DispatchDone_Counts ==
  ASSUME IInv, NEW c \in Consumers, DispatchDone(c)
  PROVE  RefsCount' /\ CallsCount'
<1> USE DEF IInv, Struct, message
<1>1. Numbers
  BY TypeSplit
<1>2. taken[c] \in Messages /\ called[taken[c]] = observers[topic[taken[c]]]
  <2>1. taken[c] \in Messages /\ topic[taken[c]] \in Topics
    BY <1>1 DEF DispatchDone, Places, Fresh, Numbers
  <2> QED
    BY <1>1, <2>1 DEF DispatchDone, CallsCount, Numbers
<1>3. /\ pc[c] = "call" /\ pc'[c] = "idle"
      /\ \A d \in Consumers : d # c => pc'[d] = pc[d] /\ taken'[d] = taken[d]
      /\ left' = left /\ called' = called /\ topic' = topic /\ observers' = observers
      /\ \A n \in Messages : n # taken[c] => state'[n] = state[n]
  BY <1>1 DEF DispatchDone, Numbers
<1>4. \A n \in Messages : Releasing(n)' <=> Releasing(n)
  BY <1>3 DEF Releasing
<1>5. RefsCount'
  BY <1>4, Zenon DEF DispatchDone, RefsCount
<1>6. CallsCount'
  BY <1>2, <1>3 DEF CallsCount
<1> QED
  BY <1>5, <1>6

LEMMA Stutter_Counts ==
  ASSUME IInv, UNCHANGED vars
  PROVE  RefsCount' /\ CallsCount'
  BY Zenon DEF vars, message, dispatch, IInv, RefsCount, CallsCount, Releasing

\* With the observers registered first, the references of a payload are those of the
\* callbacks to come (addRefs, dispatchOne).
THEOREM Invariance == Fixed => (Spec => []IInv)
<1> SUFFICES ASSUME Fixed PROVE Spec => []IInv
  OBVIOUS
<1>1. Init => RefsCount /\ CallsCount
  BY Init_Counts
<1>2. Struct /\ Struct' /\ RefsCount /\ CallsCount /\ [Next]_vars => (RefsCount /\ CallsCount)'
  BY AddObserver_Counts, Post_Counts, PostPush_Counts, DispatchPop_Counts,
     LoadObservers_Counts, Callback_Counts, ReleasePayload_Counts, DispatchDone_Counts,
     Stutter_Counts DEF Next, DispatchStep, Idle, IInv
<1>3. IInv <=> Struct /\ RefsCount /\ CallsCount
  BY DEF IInv
<1> QED
  BY <1>1, <1>2, <1>3, Structure, PTL DEF Spec

-----------------------------------------------------------------------------
(* The theorems *)

\* Every variable keeps its type, whenever observers are added.
THEOREM TypeCorrect == Spec => []TypeOK
<1>1. Struct => TypeOK
  BY DEF Struct
<1> QED
  BY <1>1, Structure, PTL

LEMMA AliveState == IInv => PayloadAlive
<1> SUFFICES ASSUME IInv, NEW c \in Consumers, pc[c] \in {"call", "release"}, managed[taken[c]],
                    pc[c] = "call" => left[c] > 0
             PROVE  refs[taken[c]] > 0
  BY Zenon DEF PayloadAlive
<1> USE DEF IInv, Struct
<1>1. Numbers
  BY TypeSplit
<1>2. PICK t \in Messages : t = taken[c]
  BY <1>1 DEF Places, Numbers
<1>3. t # None /\ state[t] = "dispatched" /\ topic[t] \in Topics
  BY <1>1, <1>2 DEF Places, Fresh, Numbers
<1>4. called[t] \in Nat /\ observers[topic[t]] \in Nat /\ left[c] \in Nat
  BY <1>1, <1>3 DEF Numbers
<1>5. CASE pc[c] = "call"
  <2>1. ~ Releasing(t)
    BY <1>2, <1>3, <1>5 DEF Releasing, Places
  <2>2. refs[t] = observers[topic[t]] - called[t]
    BY <1>2, <2>1, Zenon DEF RefsCount
  <2> QED
    BY <1>2, <1>4, <1>5, <2>2 DEF CallsCount
<1>6. CASE pc[c] = "release"
  <2>1. Releasing(t)
    BY <1>2, <1>6 DEF Releasing
  <2>2. refs[t] = observers[topic[t]] - called[t] + 1
    BY <1>2, <2>1, Zenon DEF RefsCount
  <2> QED
    BY <1>2, <1>4, <1>6, <2>2 DEF CallsCount, Progress
<1> QED
  BY <1>5, <1>6

\* With the observers registered first, a callback reads a payload that is alive, and a
\* reference that is released is there (dispatchOne, RefCountedPayload::release).
THEOREM PayloadIsAlive == Fixed => (Spec => []PayloadAlive)
  BY Invariance, AliveState, PTL

LEMMA FreedState == IInv => FreedByLastObserver
<1> SUFFICES ASSUME IInv, NEW m \in Messages
             PROVE  /\ state[m] = "done" => refs[m] = 0
                    /\ managed[m] /\ refs[m] = 0 => called[m] = observers[topic[m]]
  BY Zenon DEF FreedByLastObserver
<1> USE DEF IInv, Struct
<1>1. Numbers
  BY TypeSplit
<1>2. managed[m] => topic[m] \in Topics
  <2>1. managed[m] => state[m] # "unused"
    BY Zenon DEF Fresh
  <2> QED
    BY <2>1, Zenon DEF Fresh
<1>3. ASSUME Releasing(m), topic[m] \in Topics
      PROVE  called[m] <= observers[topic[m]] /\ state[m] = "dispatched"
  <2>1. PICK c \in Consumers : taken[c] = m /\ pc[c] = "release"
    BY <1>3 DEF Releasing
  <2>2. left[c] \in Nat \ {0} /\ called[m] + left[c] = observers[topic[m]] + 1
    BY <1>1, <2>1 DEF Progress, CallsCount, Numbers
  <2> QED
    BY <1>1, <1>3, <2>1, <2>2 DEF Places, Numbers
<1>4. CASE ~ managed[m]
  BY <1>4, Zenon DEF Fresh
<1>5. CASE managed[m] /\ Releasing(m)
  <2>1. refs[m] = observers[topic[m]] - called[m] + 1 /\ topic[m] \in Topics
    BY <1>2, <1>5, Zenon DEF RefsCount
  <2> QED
    BY <1>1, <1>3, <1>5, <2>1 DEF Numbers
<1>6. CASE managed[m] /\ ~ Releasing(m)
  <2>1. refs[m] = observers[topic[m]] - called[m] /\ topic[m] \in Topics
    BY <1>2, <1>6, Zenon DEF RefsCount
  <2> QED
    BY <1>1, <2>1 DEF CallsCount, Numbers
<1> QED
  BY <1>4, <1>5, <1>6

\* With the observers registered first, a payload is freed once every observer had it,
\* and by the time its message is pooled (dispatchOne, eventqueue_broadcast.h:30).
THEOREM FreedByTheLast == Fixed => (Spec => []FreedByLastObserver)
  BY Invariance, FreedState, PTL

-----------------------------------------------------------------------------
(* The refinement of Broadcast *)

\* A step that neither accepts a message nor touches a reference.
LEMMA SameView ==
  ASSUME TypeOK, UNCHANGED <<observers, message, refs>>,
         \A m \in Messages : state'[m] = "unused" <=> state[m] = "unused"
  PROVE  audience' = audience /\ payload' = payload
<1>1. audience' = audience
  BY DEF audience, message
<1>2. payload' = payload
  BY Zenon DEF payload, message
<1> QED
  BY <1>1, <1>2

LEMMA Init_Promise == Init => Promise!Init
<1> SUFFICES ASSUME Init PROVE Promise!Init
  OBVIOUS
<1>1. audience = [m \in Messages |-> 0]
  BY DEF Init, audience
<1>2. payload = [m \in Messages |-> "none"]
  BY DEF Init, payload
<1> QED
  BY <1>1, <1>2 DEF Init, Promise!Init

LEMMA AddObserver_Promise ==
  ASSUME IInv, Fixed, NEW tp \in Topics, AddObserver(tp)
  PROVE  UNCHANGED Promise!vars
<1>1. /\ \A m \in Messages : state[m] = "unused" /\ state'[m] = "unused"
      /\ called' = called
  BY DEF AddObserver, Fixed, dispatch
<1>2. audience' = audience /\ payload' = payload
  BY <1>1 DEF audience, payload
<1> QED
  BY <1>1, <1>2 DEF Promise!vars

LEMMA Post_Promise ==
  ASSUME IInv, Fixed, NEW p \in Producers, NEW m \in Messages, NEW tp \in Topics,
         NEW large \in BOOLEAN, Post(p, m, tp, large)
  PROVE  Promise!Accept(m)
<1> DEFINE n == observers[tp]
           kind == IF large THEN "alive" ELSE "inline"
<1>1. Numbers /\ managed \in [Messages -> BOOLEAN]
  BY TypeSplit DEF IInv, Struct
<1>2. n \in 1 .. MaxObservers /\ PostRefs(Smaller(n, MaxCount)) = n
  BY <1>1 DEF Post, Smaller, PostRefs, Numbers, Fixed
<1>3. /\ state[m] = "unused" /\ state'[m] = "pushing" /\ topic'[m] = tp
      /\ \A k \in Messages : k # m => state'[k] = state[k] /\ topic'[k] = topic[k] /\ refs'[k] = refs[k]
      /\ observers' = observers /\ called' = called
      /\ large => refs'[m] = n
  BY <1>1, <1>2 DEF Post, Numbers, dispatch
<1>4. managed'[m] = large /\ \A k \in Messages : k # m => managed'[k] = managed[k]
  BY <1>1, Zenon DEF Post
<1>5. audience[m] = 0 /\ audience' = [audience EXCEPT ![m] = n]
  BY <1>3 DEF audience
<1>6. payload' = [payload EXCEPT ![m] = kind]
  <2>1. \A k \in Messages : k # m => payload'[k] = payload[k]
    BY <1>3, <1>4, Zenon DEF payload
  <2>2. payload'[m] = kind
    <3>1. CASE large
      <4>1. managed'[m] /\ refs'[m] > 0 /\ state'[m] # "unused"
        BY <1>2, <1>3, <1>4, <3>1
      <4> QED
        BY <3>1, <4>1, Zenon DEF payload
    <3>2. CASE ~ large
      <4>1. ~ managed'[m] /\ state'[m] # "unused"
        BY <1>3, <1>4, <3>2
      <4> QED
        BY <3>2, <4>1, Zenon DEF payload
    <3> QED
      BY <3>1, <3>2
  <2>3. payload = [k \in Messages |-> payload[k]] /\ payload' = [k \in Messages |-> payload'[k]]
    BY DEF payload
  <2> HIDE DEF kind, payload
  <2> QED
    BY <2>1, <2>2, <2>3
<1>7. kind \in {"inline", "alive"}
  OBVIOUS
<1> QED
  BY <1>2, <1>3, <1>5, <1>6, <1>7 DEF Promise!Accept

LEMMA Callback_Promise ==
  ASSUME IInv, NEW c \in Consumers, Callback(c)
  PROVE  \E m \in Messages : Promise!Hear(m)
<1> USE DEF IInv, Struct, message
<1>1. Numbers
  BY TypeSplit
<1>2. PICK t \in Messages : t = taken[c]
  BY <1>1 DEF Callback, Places, Numbers
<1>3. state[t] = "dispatched" /\ topic[t] \in Topics
  BY <1>1, <1>2 DEF Callback, Places, Fresh, Numbers
<1>4. called[t] + left[c] = observers[topic[t]] /\ left[c] > 0
  BY <1>2 DEF Callback, CallsCount
<1>5. called[t] < audience[t]
  BY <1>1, <1>3, <1>4 DEF audience, Numbers
<1>6. payload[t] # "freed"
  <2>1. managed[t] => refs[t] > 0
    BY <1>2, <1>4, AliveState, Zenon DEF PayloadAlive, Callback
  <2> QED
    BY <1>3, <2>1, Zenon DEF payload
<1>7. audience' = audience /\ payload' = payload
  BY SameView DEF Callback
<1>8. called' = [called EXCEPT ![t] = @ + 1]
  BY <1>2 DEF Callback
<1> QED
  BY <1>5, <1>6, <1>7, <1>8 DEF Promise!Hear

LEMMA ReleasePayload_Promise ==
  ASSUME IInv, NEW c \in Consumers, ReleasePayload(c)
  PROVE  (\E m \in Messages : Promise!Free(m)) \/ UNCHANGED Promise!vars
<1> USE DEF IInv, Struct, message
<1>1. Numbers
  BY TypeSplit
<1>2. PICK t \in Messages : t = taken[c]
  BY <1>1 DEF ReleasePayload, Places, Numbers
<1>3. state[t] = "dispatched" /\ topic[t] \in Topics
  BY <1>1, <1>2 DEF ReleasePayload, Places, Fresh, Numbers
<1>4. called' = called /\ observers' = observers /\ state' = state /\ topic' = topic /\ managed' = managed
  BY DEF ReleasePayload
<1>5. audience' = audience
  BY <1>4 DEF audience
<1>6. CASE managed[t] /\ refs[t] = 1
  <2>1. Release(t)
    BY <1>2, <1>6, Zenon DEF ReleasePayload
  <2>2. refs'[t] = 0 /\ \A k \in Messages : k # t => refs'[k] = refs[k]
    BY <1>1, <1>6, <2>1 DEF Release, Numbers
  <2>3. payload[t] = "alive" /\ payload'[t] = "freed"
    <3>1. refs[t] > 0 /\ ~ (refs'[t] > 0) /\ state[t] # "unused"
      BY <1>3, <1>6, <2>2
    <3> QED
      BY <1>4, <1>6, <3>1, Zenon DEF payload
  <2>4. \A k \in Messages : k # t => payload'[k] = payload[k]
    BY <1>4, <2>2, Zenon DEF payload
  <2>5. payload = [k \in Messages |-> payload[k]] /\ payload' = [k \in Messages |-> payload'[k]]
    BY DEF payload
  <2>6. payload' = [payload EXCEPT ![t] = "freed"]
    <3> HIDE DEF payload
    <3> QED
      BY <2>3, <2>4, <2>5
  <2>7. called[t] = audience[t]
    <3>1. Releasing(t)
      BY <1>2 DEF Releasing, ReleasePayload
    <3>2. refs[t] = observers[topic[t]] - called[t] + 1
      BY <1>6, <3>1, Zenon DEF RefsCount
    <3> QED
      BY <1>1, <1>3, <1>6, <3>2 DEF audience, Numbers
  <2> QED
    BY <1>4, <1>5, <2>3, <2>6, <2>7 DEF Promise!Free
<1>7. CASE managed[t] /\ refs[t] # 1
  <2>1. Release(t)
    BY <1>2, <1>7, Zenon DEF ReleasePayload
  <2>2. refs[t] > 0 /\ refs'[t] > 0 /\ \A k \in Messages : k # t => refs'[k] = refs[k]
    BY <1>1, <1>7, <2>1 DEF Release, Numbers
  <2>3. \A k \in Messages : refs'[k] > 0 <=> refs[k] > 0
    BY <2>2
  <2>4. payload' = payload
    BY <1>4, <2>3, Zenon DEF payload
  <2> QED
    BY <1>4, <1>5, <2>4 DEF Promise!vars
<1>8. CASE ~ managed[t]
  <2>1. refs' = refs
    BY <1>2, <1>8, Zenon DEF ReleasePayload
  <2>2. payload' = payload
    BY <1>4, <2>1 DEF payload
  <2> QED
    BY <1>4, <1>5, <2>2 DEF Promise!vars
<1> QED
  BY <1>6, <1>7, <1>8

LEMMA Other_Promise ==
  ASSUME IInv,
         \/ \E p \in Producers : PostPush(p)
         \/ \E c \in Consumers : DispatchPop(c) \/ LoadObservers(c) \/ DispatchDone(c)
         \/ UNCHANGED vars
  PROVE  UNCHANGED Promise!vars
<1> USE DEF IInv, Struct
<1>1. Numbers
  BY TypeSplit
<1>2. UNCHANGED <<observers, message, refs, called>>
  BY DEF PostPush, DispatchPop, LoadObservers, DispatchDone, dispatch, vars, message
<1>3. \A m \in Messages : state'[m] = "unused" <=> state[m] = "unused"
  <2>1. ASSUME NEW p \in Producers, PostPush(p)
        PROVE  \A m \in Messages : state'[m] = "unused" <=> state[m] = "unused"
    BY <1>1, <2>1 DEF PostPush, Places, Numbers
  <2>2. ASSUME NEW c \in Consumers, DispatchPop(c)
        PROVE  \A m \in Messages : state'[m] = "unused" <=> state[m] = "unused"
    <3>1. Head(queue) \in Messages /\ state[Head(queue)] = "queued"
      BY <1>1, <2>2 DEF DispatchPop, Places, Numbers
    <3> QED
      BY <1>1, <2>2, <3>1 DEF DispatchPop, Numbers
  <2>3. ASSUME NEW c \in Consumers, DispatchDone(c)
        PROVE  \A m \in Messages : state'[m] = "unused" <=> state[m] = "unused"
    BY <1>1, <2>3 DEF DispatchDone, Places, Numbers
  <2>4. ASSUME NEW c \in Consumers, LoadObservers(c)
        PROVE  state' = state
    BY <2>4 DEF LoadObservers
  <2> QED
    BY <2>1, <2>2, <2>3, <2>4 DEF vars
<1>4. audience' = audience /\ payload' = payload
  BY <1>2, <1>3, SameView
<1> QED
  BY <1>2, <1>4 DEF Promise!vars

\* With the observers registered first, the queue keeps the promises of Broadcast:
\* every observer hears each message once while its payload is alive (post, dispatchOne).
THEOREM KeepsThePromise == Fixed => (Spec => ImplementsBroadcast)
<1> SUFFICES ASSUME Fixed PROVE Spec => ImplementsBroadcast
  OBVIOUS
<1>1. IInv /\ [Next]_vars => [Promise!Next]_Promise!vars
  BY AddObserver_Promise, Post_Promise, Callback_Promise, ReleasePayload_Promise,
     Other_Promise DEF Next, DispatchStep, Idle, Promise!Next
<1>2. Spec => []IInv
  BY Invariance
<1> QED
  BY <1>1, <1>2, Init_Promise, PTL DEF Spec, ImplementsBroadcast, Promise!Spec
=============================================================================
