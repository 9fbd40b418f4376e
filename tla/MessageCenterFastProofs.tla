----------------------- MODULE MessageCenterFastProofs -----------------------
(***************************************************************************)
(* Theorems about MessageCenterFast, for every number of clients, threads  *)
(* that flush, ids and observers, every capacity and every bound.          *)
(***************************************************************************)
EXTENDS MessageCenterFast, FiniteSetTheorems, SequenceTheorems, TLAPS

Entries == [item : Messages, ready : BOOLEAN]

\* The items of a ring that its producers have published.
Ready(r) == {r[k].item : k \in {j \in DOMAIN r : r[j].ready}}

Distinct(r) == \A j, k \in DOMAIN r : r[j].item = r[k].item => j = k

\* What the type invariant leaves out: the sequences, and who is at what.
Shapes ==
  /\ ring \in Seq(Entries) /\ Distinct(ring)
  /\ due \in Seq(0 .. MaxObservers) /\ called \in Seq(Nat)
  /\ DOMAIN topic = 1 .. Len(topic) /\ DOMAIN topic \subseteq Messages
  /\ IsFiniteSet(accepted) /\ IsFiniteSet(finished)

\* Where a message is that was published.
Pushed(m) == m \in Ready(ring) \/ m = wmsg \/ m \in finished

\* A message is in one place: with the thread that posts it, in the ring, with the
\* dispatch thread, or finished.
Places ==
  /\ Items(ring) \cap finished = {}
  /\ wmsg # 0 => wmsg \notin Items(ring) \cup finished
  /\ \A m \in accepted : Pushed(m)

\* A message that is posted belongs to one thread and is not yet counted.
Posts ==
  /\ \A t \in Posters : pmsg[t] # 0 <=> pc[t] \in {"push", "publish", "count"}
  /\ \A s, t \in Posters : pmsg[s] = pmsg[t] /\ pmsg[t] # 0 => s = t
  /\ \A t \in Posters : pmsg[t] # 0 => pmsg[t] \notin accepted
  /\ \A t \in Posters : pc[t] = "push" =>
       pmsg[t] \notin Items(ring) \cup finished /\ pmsg[t] # wmsg
  /\ \A t \in Posters : pc[t] = "publish" => pmsg[t] \in Stalled(ring)
  /\ \A t \in Posters : pc[t] = "count" => Pushed(pmsg[t])

\* What is called and what is still to be called make up the observers of the topic.
Calls ==
  /\ \A m \in DOMAIN topic : due[m] <= observers[topic[m]]
  /\ \A m \in DOMAIN topic : m \notin finished /\ m # wmsg => called[m] = 0
  /\ wpc = "copy" => called[wmsg] = 0
  /\ wpc = "call" => called[wmsg] + left = observers[topic[wmsg]]
  /\ wpc = "run" => called[wmsg] + left = observers[topic[wmsg]] + 1 /\ left > 0

\* The dispatch thread exists while the center runs, and drains when it is stopped.
Life ==
  /\ running <=> wpc # "none"
  /\ wpc = "exited" => draining
  /\ draining /\ running => stopping
  /\ stopping /\ running => cpc = "join"
  /\ cpc = "join" => running

\* What a flush loaded first.
Loads ==
  \A t \in Flushers :
    /\ pc[t] = "dispatched" => seen[t] = Cardinality(counted[t])
    /\ pc[t] = "posted" => seen[t] <= dispatched

IInv ==
  /\ TypeOK /\ Shapes
  /\ Places /\ Posts /\ Calls /\ Life /\ Loads
  /\ EachObserverOnce /\ StopDrains

-----------------------------------------------------------------------------
(* The ring *)

LEMMA EntryFacts ==
  /\ \A e \in Entries : e.item \in Messages /\ e.ready \in BOOLEAN
  /\ \A m \in Messages, b \in BOOLEAN : [item |-> m, ready |-> b] \in Entries
BY DEF Entries

LEMMA RingFacts ==
  ASSUME NEW r \in Seq(Entries)
  PROVE  /\ Len(r) \in Nat /\ DOMAIN r = 1 .. Len(r)
         /\ \A k \in DOMAIN r : r[k] \in Entries
         /\ \A k \in DOMAIN r : r[k].item \in Messages /\ r[k].ready \in BOOLEAN
         /\ \A m : m \in Items(r) <=> m \in Ready(r) \/ m \in Stalled(r)
         /\ Distinct(r) => \A m \in Ready(r) : m \notin Stalled(r)
<1>1. Len(r) \in Nat /\ DOMAIN r = 1 .. Len(r) /\ \A k \in DOMAIN r : r[k] \in Entries
  OBVIOUS
<1>2. \A k \in DOMAIN r : r[k].item \in Messages /\ r[k].ready \in BOOLEAN
  BY <1>1, EntryFacts, Zenon
<1>3. \A m : m \in Items(r) <=> m \in Ready(r) \/ m \in Stalled(r)
  BY Zenon DEF Items, Ready, Stalled
<1>4. Distinct(r) => \A m \in Ready(r) : m \notin Stalled(r)
  BY Zenon DEF Distinct, Ready, Stalled
<1> QED
  BY <1>1, <1>2, <1>3, <1>4

LEMMA Members ==
  ASSUME NEW r
  PROVE  /\ \A m : m \in Items(r) <=> \E k \in DOMAIN r : r[k].item = m
         /\ \A m : m \in Ready(r) <=> \E k \in DOMAIN r : r[k].item = m /\ r[k].ready
         /\ \A m : m \in Stalled(r) <=> \E k \in DOMAIN r : r[k].item = m /\ ~ r[k].ready
BY DEF Items, Ready, Stalled

LEMMA RingType ==
  ASSUME NEW r \in Seq(Entries), NEW D, Items(r) \subseteq D
  PROVE  \A k \in DOMAIN r : r[k] \in [item : D, ready : BOOLEAN]
<1> SUFFICES ASSUME NEW k \in DOMAIN r PROVE r[k] \in [item : D, ready : BOOLEAN]
  OBVIOUS
<1>1. r[k] \in Entries /\ r[k].item \in D
  BY RingFacts DEF Items
<1> QED
  BY <1>1 DEF Entries

\* What a producer claims is at the end of the ring, and not ready.
LEMMA ClaimRing ==
  ASSUME NEW r \in Seq(Entries), Distinct(r), NEW m \in Messages, m \notin Items(r)
  PROVE  /\ Claim(r, m) \in Seq(Entries) /\ Distinct(Claim(r, m))
         /\ Len(Claim(r, m)) = Len(r) + 1
         /\ \A k \in DOMAIN r : k \in DOMAIN Claim(r, m) /\ Claim(r, m)[k] = r[k]
         /\ Items(Claim(r, m)) = Items(r) \cup {m}
         /\ Ready(Claim(r, m)) = Ready(r)
         /\ Stalled(Claim(r, m)) = Stalled(r) \cup {m}
<1>1. PICK e : e = [item |-> m, ready |-> FALSE]
  OBVIOUS
<1>2. PICK c : c = Claim(r, m)
  OBVIOUS
<1>3. e \in Entries /\ e.item = m /\ ~ e.ready
  BY <1>1, EntryFacts
<1>4. c = Append(r, e)
  BY <1>1, <1>2 DEF Claim
<1>5. /\ c \in Seq(Entries) /\ Len(c) = Len(r) + 1 /\ Len(r) \in Nat
      /\ DOMAIN c = 1 .. (Len(r) + 1) /\ DOMAIN r = 1 .. Len(r)
      /\ c[Len(r) + 1] = e /\ \A k \in 1 .. Len(r) : c[k] = r[k]
  BY <1>3, <1>4, AppendProperties
<1>6. PICK n : n = Len(r) + 1
  OBVIOUS
<1>7. /\ \A k \in DOMAIN r : k \in DOMAIN c /\ c[k] = r[k] /\ r[k].item # m
      /\ n \in DOMAIN c /\ c[n].item = m /\ ~ c[n].ready
      /\ \A k \in DOMAIN c : k \in DOMAIN r \/ k = n
  BY <1>3, <1>5, <1>6 DEF Items
<1>8. Distinct(c)
  BY <1>7, Zenon DEF Distinct
<1>9. Items(c) = Items(r) \cup {m}
  BY <1>7, Zenon DEF Items
<1>10. Ready(c) = Ready(r)
  BY <1>7, Zenon DEF Ready
<1>11. Stalled(c) = Stalled(r) \cup {m}
  BY <1>7, Zenon DEF Stalled
<1> QED
  BY <1>2, <1>5, <1>7, <1>8, <1>9, <1>10, <1>11

\* Publishing changes no item and no order.
LEMMA PublishRing ==
  ASSUME NEW r \in Seq(Entries), Distinct(r), NEW m \in Stalled(r)
  PROVE  /\ Publish(r, m) \in Seq(Entries) /\ Distinct(Publish(r, m))
         /\ Len(Publish(r, m)) = Len(r) /\ DOMAIN Publish(r, m) = DOMAIN r
         /\ \A k \in DOMAIN r : Publish(r, m)[k].item = r[k].item
         /\ Items(Publish(r, m)) = Items(r)
         /\ Ready(Publish(r, m)) = Ready(r) \cup {m}
         /\ Stalled(Publish(r, m)) = Stalled(r) \ {m}
<1>1. PICK e : e = [item |-> m, ready |-> TRUE]
  OBVIOUS
<1>2. PICK c : c = Publish(r, m)
  OBVIOUS
<1>3. \E k \in DOMAIN r : r[k].item = m
  BY DEF Stalled
<1>4. e \in Entries /\ e.item = m /\ e.ready
  BY <1>1, <1>3, EntryFacts, RingFacts
<1>5. /\ c = [k \in DOMAIN r |-> IF r[k].item = m THEN e ELSE r[k]] /\ DOMAIN c = DOMAIN r
  BY <1>1, <1>2 DEF Publish
<1>6. \A k \in DOMAIN r : (r[k].item = m => c[k] = e) /\ (r[k].item # m => c[k] = r[k])
  BY <1>5
<1>7. c \in Seq(Entries) /\ Len(c) = Len(r)
  <2>1. DOMAIN r = 1 .. Len(r) /\ Len(r) \in Nat /\ \A k \in DOMAIN r : r[k] \in Entries
    BY RingFacts
  <2>2. c = [k \in 1 .. Len(r) |-> c[k]] /\ \A k \in 1 .. Len(r) : c[k] \in Entries
    BY <1>4, <1>5, <1>6, <2>1
  <2> QED
    BY <2>1, <2>2
<1>8. \A k \in DOMAIN r : c[k].item = r[k].item
  BY <1>4, <1>6, Zenon
<1>9. \A k \in DOMAIN r : c[k].ready <=> r[k].ready \/ r[k].item = m
  BY <1>4, <1>6, Zenon
<1>10. Distinct(c)
  <2> SUFFICES ASSUME NEW j \in DOMAIN r, NEW k \in DOMAIN r, c[j].item = c[k].item
               PROVE  j = k
    BY <1>5 DEF Distinct
  <2> QED
    BY <1>8 DEF Distinct
<1>11. Items(c) = Items(r)
  BY <1>5, <1>8, Zenon DEF Items
<1>12. Ready(c) = Ready(r) \cup {m}
  <2>1. \A x : x \in Ready(c) <=> \E k \in DOMAIN r : r[k].item = x /\ (r[k].ready \/ r[k].item = m)
    BY <1>5, <1>8, <1>9, Members
  <2> QED
    BY <1>3, <2>1, Members
<1>13. Stalled(c) = Stalled(r) \ {m}
  <2>1. \A x : x \in Stalled(c) <=> \E k \in DOMAIN r : r[k].item = x /\ ~ (r[k].ready \/ r[k].item = m)
    BY <1>5, <1>8, <1>9, Members
  <2> QED
    BY <2>1, Members
<1> QED
  BY <1>2, <1>5, <1>7, <1>8, <1>10, <1>11, <1>12, <1>13

\* What is taken was published.
LEMMA PopRing ==
  ASSUME NEW r \in Seq(Entries), Distinct(r), Poppable(r), NEW m, m = Head(r).item
  PROVE  /\ Tail(r) \in Seq(Entries) /\ Distinct(Tail(r))
         /\ Len(Tail(r)) = Len(r) - 1
         /\ m \in Ready(r) /\ m \in Messages
         /\ Items(Tail(r)) = Items(r) \ {m}
         /\ Ready(Tail(r)) = Ready(r) \ {m}
         /\ Stalled(Tail(r)) = Stalled(r)
<1>1. PICK c : c = Tail(r)
  OBVIOUS
<1>2. /\ Len(r) \in Nat \ {0} /\ DOMAIN r = 1 .. Len(r) /\ 1 \in DOMAIN r
      /\ r[1].item = m /\ r[1].ready
  BY DEF Poppable
<1>3. /\ c \in Seq(Entries) /\ Len(c) = Len(r) - 1 /\ DOMAIN c = 1 .. (Len(r) - 1)
      /\ \A k \in DOMAIN c : c[k] = r[k + 1]
  BY <1>1, <1>2
<1>4. /\ \A k \in DOMAIN c : k + 1 \in DOMAIN r /\ c[k] = r[k + 1] /\ k + 1 # 1
      /\ \A k \in DOMAIN r : k # 1 => \E j \in DOMAIN c : c[j] = r[k]
      /\ \A j, k \in DOMAIN c : j + 1 = k + 1 => j = k
  <2>1. \A k \in DOMAIN r : k # 1 => k - 1 \in DOMAIN c /\ c[k - 1] = r[k]
    BY <1>2, <1>3
  <2> QED
    BY <1>2, <1>3, <2>1
<1>5. \A k \in DOMAIN r : r[k].item = m => k = 1
  BY <1>2, Zenon DEF Distinct
<1>6. \A k \in DOMAIN c : \E j \in DOMAIN r : c[k] = r[j] /\ r[j].item # m
  BY <1>4, <1>5, Zenon
<1>7. \A k \in DOMAIN r : r[k].item # m => \E j \in DOMAIN c : c[j] = r[k]
  BY <1>2, <1>4, Zenon
<1>8. Distinct(c)
  <2> SUFFICES ASSUME NEW j \in DOMAIN c, NEW k \in DOMAIN c, c[j].item = c[k].item
               PROVE  j = k
    BY DEF Distinct
  <2>1. j + 1 = k + 1
    BY <1>4 DEF Distinct
  <2> QED
    BY <1>4, <2>1
<1>9. Items(c) = Items(r) \ {m}
  <2>1. \A x : x \in Items(c) => x \in Items(r) \ {m}
    BY <1>6, Members
  <2>2. \A x : x \in Items(r) \ {m} => x \in Items(c)
    BY <1>7, Members
  <2> QED
    BY <2>1, <2>2
<1>10. Ready(c) = Ready(r) \ {m}
  <2>1. \A x : x \in Ready(c) => x \in Ready(r) \ {m}
    BY <1>6, Members
  <2>2. \A x : x \in Ready(r) \ {m} => x \in Ready(c)
    BY <1>7, Members
  <2> QED
    BY <2>1, <2>2
<1>11. Stalled(c) = Stalled(r)
  <2>1. \A k \in DOMAIN r : ~ r[k].ready => r[k].item # m
    BY <1>2, <1>5, Zenon
  <2> QED
    <3>1. \A x : x \in Stalled(c) => x \in Stalled(r)
      BY <1>6, Members
    <3>2. \A x : x \in Stalled(r) => x \in Stalled(c)
      BY <1>7, <2>1, Members
    <3> QED
      BY <3>1, <3>2
<1>12. m \in Ready(r) /\ m \in Messages
  BY <1>2, RingFacts DEF Ready
<1> QED
  BY <1>1, <1>3, <1>8, <1>9, <1>10, <1>11, <1>12

-----------------------------------------------------------------------------
(* What an action leaves alone *)

USE ThreadsAssumption, CapacityAssumption, BoundsAssumption

LEMMA SameShapes ==
  ASSUME Shapes, UNCHANGED <<ring, due, called, topic, accepted, finished>>
  PROVE  Shapes'
  BY DEF Shapes, Distinct

LEMMA SamePlaces ==
  ASSUME Places, UNCHANGED <<ring, wmsg, accepted, finished>>
  PROVE  Places'
  BY DEF Places, Pushed, Ready, Items

LEMMA SamePosts ==
  ASSUME Posts, UNCHANGED <<pc, pmsg, accepted, finished, ring, wmsg>>
  PROVE  Posts'
<1>1. Items(ring') = Items(ring) /\ Ready(ring') = Ready(ring) /\ Stalled(ring') = Stalled(ring)
  OBVIOUS
<1>2. \A m : Pushed(m)' <=> Pushed(m)
  BY <1>1 DEF Pushed
<1> QED
  BY <1>1, <1>2 DEF Posts

LEMMA SameCalls ==
  ASSUME Calls, UNCHANGED <<topic, due, observers, called, finished, wmsg, left>>,
         wpc' = wpc \/ wpc' \notin {"copy", "call", "run"}
  PROVE  Calls'
  BY DEF Calls

LEMMA SameLoads ==
  ASSUME Loads, UNCHANGED <<pc, seen, counted, dispatched>>
  PROVE  Loads'
  BY Zenon DEF Loads

LEMMA SameOnce ==
  ASSUME EachObserverOnce, UNCHANGED <<finished, due, called, observers, topic>>
  PROVE  EachObserverOnce'
  BY DEF EachObserverOnce

\* StopDrains speaks of a thread that has left its loops.
LEMMA SameDrains ==
  ASSUME StopDrains, UNCHANGED <<starts, before, finished, ring, stalled>>,
         wpc' \in {"exited", "none"} => wpc \in {"exited", "none"}
  PROVE  StopDrains'
  BY Zenon DEF StopDrains

\* A ring that keeps its entries where they are keeps the reason why one is left.
LEMMA GrowDrains ==
  ASSUME StopDrains, UNCHANGED <<starts, wpc, before, finished, stalled>>,
         \A k \in DOMAIN ring : k \in DOMAIN ring' /\ ring'[k].item = ring[k].item
  PROVE  StopDrains'
<1> SUFFICES ASSUME starts > 0, wpc \in {"exited", "none"}, NEW m \in before \ finished
             PROVE  \E j, k \in DOMAIN ring' : j < k /\ ring'[k].item = m /\ ring'[j].item \in stalled
  BY DEF StopDrains
<1>1. PICK j \in DOMAIN ring, k \in DOMAIN ring : j < k /\ ring[k].item = m /\ ring[j].item \in stalled
  BY DEF StopDrains
<1> QED
  BY <1>1

LEMMA SameLife ==
  ASSUME Life, UNCHANGED <<running, draining, stopping, cpc>>,
         wpc' = wpc \/ (wpc \notin {"none", "exited"} /\ wpc' \notin {"none", "exited"})
  PROVE  Life'
  BY DEF Life

LEMMA Notified ==
  ASSUME TypeOK, Notify
  PROVE  /\ wpc' = wpc \/ (wpc = "asleep" /\ wpc' = "wait")
         /\ wpc' \in {"none", "check", "pop", "copy", "call", "run", "wait", "block",
                     "asleep", "exited"}
         /\ wpc' \in {"copy", "call", "run"} <=> wpc \in {"copy", "call", "run"}
  BY DEF TypeOK, Notify

\* The counters are within the bound of the messages.
LEMMA Bounded ==
  ASSUME TypeOK, Shapes
  PROVE  /\ Len(topic) \in 0 .. MaxPosts /\ DOMAIN topic = 1 .. Len(topic)
         /\ posted \in 0 .. MaxPosts /\ dispatched \in 0 .. MaxPosts
<1>1. Len(topic) \in 0 .. MaxPosts /\ DOMAIN topic = 1 .. Len(topic)
  BY DEF TypeOK
<1>2. IsFiniteSet(1 .. Len(topic)) /\ Cardinality(1 .. Len(topic)) = Len(topic)
  <2>1. /\ IsFiniteSet(1 .. Len(topic))
        /\ Cardinality(1 .. Len(topic)) = IF 1 > Len(topic) THEN 0 ELSE Len(topic) - 1 + 1
    BY <1>1, FS_Interval, 1 \in Int, Len(topic) \in Int, Zenon
  <2> QED
    BY <1>1, <2>1
<1>3. accepted \in SUBSET (1 .. Len(topic)) /\ finished \in SUBSET (1 .. Len(topic))
  BY <1>1 DEF TypeOK
<1>4. Cardinality(accepted) <= Len(topic) /\ Cardinality(finished) <= Len(topic)
  <2>1. \A T \in SUBSET (1 .. Len(topic)) : Cardinality(T) <= Cardinality(1 .. Len(topic))
    BY <1>2, FS_Subset, Zenon
  <2> QED
    BY <1>2, <1>3, <2>1
<1>5. Cardinality(accepted) \in Nat /\ Cardinality(finished) \in Nat
  BY FS_CardinalityType DEF Shapes
<1> QED
  BY <1>1, <1>4, <1>5 DEF TypeOK

-----------------------------------------------------------------------------
(* addObserver and post *)

LEMMA Init_IInv == Init => IInv
<1> SUFFICES ASSUME Init PROVE IInv
  OBVIOUS
<1>1. IsFiniteSet({}) /\ Cardinality({}) = 0
  BY FS_EmptySet
<1>2. Items(ring) = {}
  BY DEF Init, Items
<1>3. TypeOK
  <2>1. Len(ring) = 0 /\ DOMAIN ring = {} /\ topic \in Seq(Ids) /\ Len(topic) = 0 /\ DOMAIN topic = {}
    BY DEF Init
  <2>2. /\ observers \in [Ids -> 0 .. MaxObservers]
        /\ pc \in [Threads -> {"idle", "push", "publish", "count", "load", "posted", "dispatched"}]
        /\ pmsg \in [Posters -> DOMAIN topic \cup {0}]
        /\ seen \in [Flushers -> 0 .. MaxPosts]
        /\ counted \in [Flushers -> SUBSET accepted]
    BY <2>1 DEF Init
  <2>3. /\ DOMAIN due = DOMAIN topic /\ DOMAIN called = DOMAIN topic
        /\ posted = Cardinality(accepted) /\ dispatched = Cardinality(finished)
        /\ accepted \subseteq DOMAIN topic /\ finished \subseteq DOMAIN topic
        /\ before \subseteq accepted /\ stalled \subseteq DOMAIN topic
    BY <1>1, <2>1 DEF Init
  <2>4. /\ wmsg \in DOMAIN topic \cup {0} /\ wmsg = 0 /\ wpc = "none"
        /\ left \in 0 .. MaxObservers /\ starts \in 0 .. MaxStarts
        /\ draining = FALSE /\ running = FALSE /\ stopping = FALSE /\ alive = TRUE /\ cpc = "idle"
    BY <2>1 DEF Init
  <2>5. Len(ring) <= Capacity /\ Len(topic) <= MaxPosts
    BY <2>1
  <2> QED
    BY <2>1, <2>2, <2>3, <2>4, <2>5 DEF TypeOK
<1>4. Shapes
  BY <1>1 DEF Init, Shapes, Distinct
<1>5. Places /\ Posts /\ Calls /\ Life /\ Loads /\ EachObserverOnce /\ StopDrains
  BY <1>2 DEF Init, Places, Posts, Calls, Life, Loads, EachObserverOnce, StopDrains, Threads, Posters
<1> QED
  BY <1>3, <1>4, <1>5 DEF IInv

LEMMA AddObserver_IInv ==
  ASSUME IInv, NEW t \in Posters, NEW id \in Ids, AddObserver(t, id)
  PROVE  IInv'
<1> USE DEF AddObserver, counters, message, posting, dispatching, worker, lifecycle
<1>1. TypeOK /\ Shapes
  BY DEF IInv
<1>2. /\ \A i \in Ids : observers[i] \in Nat /\ observers'[i] \in Nat /\ observers[i] <= observers'[i]
      /\ \A m \in DOMAIN topic : topic[m] \in Ids /\ due[m] \in Nat /\ called[m] \in Nat
  <2>1. \A i \in Ids : observers[i] \in Nat /\ observers'[i] \in Nat /\ observers[i] <= observers'[i]
    BY <1>1 DEF TypeOK
  <2>2. \A m \in DOMAIN topic : topic[m] \in Ids
    BY <1>1 DEF TypeOK
  <2>3. \A m \in DOMAIN topic : due[m] \in Nat /\ called[m] \in Nat
    BY <1>1 DEF TypeOK, Shapes
  <2> QED
    BY <2>1, <2>2, <2>3
<1>3. TypeOK'
  BY <1>1 DEF TypeOK
<1>4. Calls'
  <2>1. \A m \in DOMAIN topic : due[m] <= observers'[topic[m]]
    BY <1>2 DEF IInv, Calls
  <2>2. wpc \notin {"call", "run"}
    OBVIOUS
  <2> QED
    BY <2>1, <2>2 DEF IInv, Calls
<1>5. EachObserverOnce'
  BY <1>1, <1>2 DEF IInv, EachObserverOnce, TypeOK
<1>6. Life'
  BY DEF IInv, Life
<1> QED
  BY <1>3, <1>4, <1>5, <1>6, SameShapes, SamePlaces, SamePosts, SameLoads, SameDrains DEF IInv

LEMMA PostBegin_IInv ==
  ASSUME IInv, NEW t \in Posters, NEW id \in Ids, PostBegin(t, id)
  PROVE  IInv'
<1> USE DEF PostBegin, MayCall, Goto, counters, dispatching, worker, lifecycle
<1>1. TypeOK /\ Shapes
  BY DEF IInv
<1>2. PICK n : n = Len(topic) + 1
  OBVIOUS
<1>3. /\ n \in Messages /\ n \notin DOMAIN topic /\ n # 0
      /\ topic' \in Seq(Ids) /\ Len(topic') = n /\ DOMAIN topic' = DOMAIN topic \cup {n}
      /\ topic'[n] = id /\ \A m \in DOMAIN topic : topic'[m] = topic[m]
      /\ DOMAIN topic' = 1 .. Len(topic')
  <2>1. Len(topic) \in 0 .. MaxPosts /\ DOMAIN topic = 1 .. Len(topic) /\ topic \in Seq(Ids)
    BY <1>1, Bounded DEF TypeOK
  <2>2. n \in Messages /\ n \notin DOMAIN topic /\ n # 0
    BY <1>2, <2>1 DEF Messages
  <2>3. /\ topic' \in Seq(Ids) /\ Len(topic') = n /\ topic'[n] = id
        /\ \A m \in 1 .. Len(topic) : topic'[m] = topic[m]
    BY <1>2, <2>1
  <2>4. DOMAIN topic' = 1 .. Len(topic')
    BY <2>3
  <2> QED
    BY <1>2, <2>1, <2>2, <2>3, <2>4
<1>4. observers[id] \in 0 .. MaxObservers /\ Len(due) = Len(topic) /\ Len(called) = Len(topic)
  BY <1>1 DEF TypeOK, Shapes
<1>5. /\ due' \in Seq(0 .. MaxObservers) /\ DOMAIN due' = DOMAIN topic'
      /\ due'[n] = observers[id] /\ \A m \in DOMAIN topic : due'[m] = due[m]
      /\ called' \in Seq(Nat) /\ DOMAIN called' = DOMAIN topic'
      /\ called'[n] = 0 /\ \A m \in DOMAIN topic : called'[m] = called[m]
  <2>1. due \in Seq(0 .. MaxObservers) /\ called \in Seq(Nat) /\ DOMAIN topic = 1 .. Len(topic)
    BY <1>1 DEF Shapes
  <2>2. due' = Append(due, observers[id]) /\ called' = Append(called, 0)
    OBVIOUS
  <2>3. /\ due' \in Seq(0 .. MaxObservers) /\ Len(due') = n /\ due'[n] = observers[id]
        /\ \A m \in 1 .. Len(topic) : due'[m] = due[m]
    BY <1>2, <1>4, <2>1, <2>2
  <2>4. /\ called' \in Seq(Nat) /\ Len(called') = n /\ called'[n] = 0
        /\ \A m \in 1 .. Len(topic) : called'[m] = called[m]
    BY <1>2, <1>4, <2>1, <2>2
  <2>5. DOMAIN due' = 1 .. n /\ DOMAIN called' = 1 .. n /\ DOMAIN topic' = 1 .. n
    BY <1>3, <2>3, <2>4
  <2> QED
    BY <2>1, <2>3, <2>4, <2>5
<1>6. /\ pc'[t] = "push" /\ pmsg'[t] = n
      /\ \A s \in Threads : s # t => pc'[s] = pc[s]
      /\ \A s \in Posters : s # t => pmsg'[s] = pmsg[s]
      /\ \A s \in Posters : pmsg[s] # n
  BY <1>1, <1>2, <1>3 DEF TypeOK, Threads, Posters
<1>7. TypeOK'
  <2>1. DOMAIN topic \subseteq DOMAIN topic' /\ Len(topic') <= MaxPosts
    BY <1>3 DEF Messages
  <2>2. \A k \in DOMAIN ring' : ring'[k] \in [item : DOMAIN topic', ready : BOOLEAN]
    BY <1>1, <2>1 DEF TypeOK
  <2>3. /\ pc' \in [Threads -> {"idle", "push", "publish", "count", "load", "posted", "dispatched"}]
        /\ pmsg' \in [Posters -> DOMAIN topic' \cup {0}]
        /\ counted' \in [Flushers -> SUBSET accepted']
        /\ wmsg' \in DOMAIN topic' \cup {0}
    BY <1>1, <1>2, <1>3 DEF TypeOK
  <2>4. accepted' \subseteq DOMAIN topic' /\ finished' \subseteq DOMAIN topic'
        /\ stalled' \subseteq DOMAIN topic'
    BY <1>1, <2>1 DEF TypeOK
  <2>5. DOMAIN due' = DOMAIN topic' /\ DOMAIN called' = DOMAIN topic' /\ topic' \in Seq(Ids)
    BY <1>3, <1>5
  <2> QED
    BY <1>1, <2>1, <2>2, <2>3, <2>4, <2>5 DEF TypeOK
<1>8. Shapes'
  <2>1. DOMAIN topic' \subseteq Messages
    BY <1>1, <1>3 DEF Shapes
  <2> QED
    BY <1>1, <1>3, <1>5, <2>1 DEF Shapes, Distinct
<1>9. n \notin Items(ring) /\ n \notin accepted /\ n \notin finished /\ n # wmsg
  BY <1>1, <1>3 DEF TypeOK, Items
<1>10. Posts'
  <2>1. Posts /\ n # 0 /\ \A s \in Posters : s \in Threads
    BY <1>3 DEF IInv, Threads
  <2>2. /\ accepted' = accepted /\ finished' = finished /\ wmsg' = wmsg
        /\ Items(ring)' = Items(ring) /\ Stalled(ring)' = Stalled(ring)
    OBVIOUS
  <2>3. \A m : Pushed(m)' <=> Pushed(m)
    BY <2>2 DEF Pushed
  <2>4. \A s \in Posters : s # t =>
          /\ pmsg'[s] = pmsg[s] /\ pc'[s] = pc[s] /\ pmsg'[s] # n
    BY <1>6, <2>1
  <2>5. /\ \A s \in Posters : pmsg'[s] # 0 <=> pc'[s] \in {"push", "publish", "count"}
        /\ \A r, s \in Posters : pmsg'[r] = pmsg'[s] /\ pmsg'[s] # 0 => r = s
    BY <1>6, <2>1, <2>4 DEF Posts
  <2>6. /\ \A s \in Posters : pmsg'[s] # 0 => pmsg'[s] \notin accepted
        /\ \A s \in Posters : pc'[s] = "push" =>
             pmsg'[s] \notin Items(ring) \cup finished /\ pmsg'[s] # wmsg
    BY <1>6, <1>9, <2>1, <2>4 DEF Posts
  <2>7. /\ \A s \in Posters : pc'[s] = "publish" => pmsg'[s] \in Stalled(ring)
        /\ \A s \in Posters : pc'[s] = "count" => Pushed(pmsg'[s])
    BY <1>6, <2>1, <2>4 DEF Posts
  <2>8. \A s \in Posters : pc'[s] = "count" => Pushed(pmsg[s])'
    BY <2>2, <2>7 DEF Pushed
  <2> HIDE DEF PostBegin
  <2> QED
    BY <2>2, <2>5, <2>6, <2>7, <2>8 DEF Posts
<1>11. Calls'
  <2>1. /\ \A m \in DOMAIN topic' : m \in DOMAIN topic \/ m = n
        /\ wmsg # 0 => wmsg \in DOMAIN topic
    BY <1>1, <1>3 DEF TypeOK
  <2>2. /\ UNCHANGED <<observers, finished, wmsg, wpc, left>>
        /\ wpc \in {"copy", "call", "run"} => wmsg # 0
    BY <1>1 DEF TypeOK
  <2>3. Calls /\ observers[id] <= observers[id]
    BY <1>4 DEF IInv
  <2>4. \A m \in DOMAIN topic' : due'[m] <= observers[topic'[m]]
    BY <1>3, <1>5, <2>1, <2>3 DEF Calls
  <2>5. \A m \in DOMAIN topic' : m \notin finished /\ m # wmsg => called'[m] = 0
    BY <1>3, <1>5, <2>1, <2>3 DEF Calls
  <2>6. wmsg # 0 => called'[wmsg] = called[wmsg] /\ topic'[wmsg] = topic[wmsg]
    BY <1>3, <1>5, <2>1
  <2> HIDE DEF PostBegin
  <2> QED
    BY <2>2, <2>3, <2>4, <2>5, <2>6 DEF Calls
<1>12. EachObserverOnce'
  <2>1. /\ finished \subseteq DOMAIN topic /\ EachObserverOnce
        /\ UNCHANGED <<observers, finished>>
    BY <1>1 DEF IInv, TypeOK
  <2> HIDE DEF PostBegin
  <2> QED
    BY <1>3, <1>5, <2>1 DEF EachObserverOnce
<1>13. Loads'
  BY <1>6 DEF IInv, Loads, Threads
<1>14. Life'
  BY DEF IInv, Life
<1> QED
  BY <1>7, <1>8, <1>10, <1>11, <1>12, <1>13, <1>14, SamePlaces, SameDrains DEF IInv

LEMMA PostClaim_IInv ==
  ASSUME IInv, NEW t \in Posters, PostClaim(t)
  PROVE  IInv'
<1> USE DEF PostClaim, Goto, counters, message, dispatching, worker, lifecycle
<1>1. TypeOK /\ Shapes /\ Places /\ Posts
  BY DEF IInv
<1>2. PICK m : m = pmsg[t]
  OBVIOUS
<1>3. /\ m \in DOMAIN topic /\ m # 0 /\ m \in Messages
      /\ m \notin Items(ring) \cup finished /\ m # wmsg /\ m \notin accepted
  BY <1>1, <1>2 DEF TypeOK, Shapes, Posts
<1>4. /\ ring' \in Seq(Entries) /\ Distinct(ring') /\ Len(ring') = Len(ring) + 1
      /\ \A k \in DOMAIN ring : k \in DOMAIN ring' /\ ring'[k] = ring[k]
      /\ Items(ring') = Items(ring) \cup {m} /\ Ready(ring') = Ready(ring)
      /\ Stalled(ring') = Stalled(ring) \cup {m}
  BY <1>1, <1>2, <1>3, ClaimRing DEF Shapes
<1>5. /\ pc'[t] = "publish" /\ \A s \in Threads : s # t => pc'[s] = pc[s]
      /\ pc' \in [Threads -> {"idle", "push", "publish", "count", "load", "posted", "dispatched"}]
  BY <1>1 DEF TypeOK, Threads
<1>6. \A n : Pushed(n)' <=> Pushed(n)
  BY <1>4 DEF Pushed
<1>7. TypeOK'
  <2>1. \A n \in Items(ring) : n \in DOMAIN topic
    BY <1>1 DEF TypeOK, Items
  <2>2. Items(ring') \subseteq DOMAIN topic
    BY <1>3, <1>4, <2>1
  <2>3. \A k \in DOMAIN ring' : ring'[k] \in [item : DOMAIN topic, ready : BOOLEAN]
    BY <1>4, <2>2, RingType
  <2>4. Len(ring') <= Capacity
    BY <1>1, <1>4, RingFacts DEF Room, Shapes
  <2> QED
    BY <1>1, <1>5, <2>3, <2>4 DEF TypeOK
<1>8. Shapes'
  BY <1>1, <1>4 DEF Shapes
<1>9. Places'
  BY <1>1, <1>3, <1>4, <1>6 DEF Places
<1>10. Posts'
  <2>1. \A s \in Posters : s # t /\ pmsg[s] # 0 => pmsg[s] # m
    BY <1>1, <1>2, <1>3 DEF Posts
  <2> QED
    BY <1>1, <1>2, <1>3, <1>4, <1>5, <1>6, <2>1 DEF Posts, Threads
<1>11. Loads'
  BY <1>5 DEF IInv, Loads, Threads
<1>12. StopDrains'
  BY <1>4, GrowDrains DEF IInv
<1>13. Calls' /\ Life' /\ EachObserverOnce'
  BY SameCalls, SameLife, SameOnce DEF IInv
<1> QED
  BY <1>7, <1>8, <1>9, <1>10, <1>11, <1>12, <1>13 DEF IInv

LEMMA PostFails_IInv ==
  ASSUME IInv, NEW t \in Posters, PostFails(t)
  PROVE  IInv'
<1> USE DEF PostFails, Goto, counters, message, dispatching, worker, lifecycle
<1>1. TypeOK /\ Shapes /\ Posts
  BY DEF IInv
<1>2. /\ pc'[t] = "idle" /\ \A s \in Threads : s # t => pc'[s] = pc[s]
      /\ pmsg'[t] = 0 /\ \A s \in Posters : s # t => pmsg'[s] = pmsg[s]
  BY <1>1 DEF TypeOK, Threads
<1>3. TypeOK'
  BY <1>1 DEF TypeOK
<1>4. \A n : Pushed(n)' <=> Pushed(n)
  BY DEF Pushed
<1>5. Posts'
  BY <1>1, <1>2, <1>4 DEF Posts, Threads
<1>6. Loads'
  BY <1>2 DEF IInv, Loads, Threads
<1> QED
  BY <1>3, <1>5, <1>6, SameShapes, SamePlaces, SameCalls, SameLife, SameOnce, SameDrains DEF IInv

LEMMA PostPublish_IInv ==
  ASSUME IInv, NEW t \in Posters, PostPublish(t)
  PROVE  IInv'
<1> USE DEF PostPublish, Goto, counters, message, dispatching, worker, lifecycle
<1>1. TypeOK /\ Shapes /\ Places /\ Posts
  BY DEF IInv
<1>2. PICK m : m = pmsg[t]
  OBVIOUS
<1>3. m \in Stalled(ring) /\ m # 0
  BY <1>1, <1>2 DEF Posts
<1>4. /\ ring' \in Seq(Entries) /\ Distinct(ring') /\ Len(ring') = Len(ring)
      /\ DOMAIN ring' = DOMAIN ring
      /\ \A k \in DOMAIN ring : ring'[k].item = ring[k].item
      /\ Items(ring') = Items(ring) /\ Ready(ring') = Ready(ring) \cup {m}
      /\ Stalled(ring') = Stalled(ring) \ {m}
  BY <1>1, <1>2, <1>3, PublishRing DEF Shapes
<1>5. /\ pc'[t] = "count" /\ \A s \in Threads : s # t => pc'[s] = pc[s]
      /\ pc' \in [Threads -> {"idle", "push", "publish", "count", "load", "posted", "dispatched"}]
  BY <1>1 DEF TypeOK, Threads
<1>6. \A n : Pushed(n) \/ n = m => Pushed(n)'
  BY <1>4 DEF Pushed
<1>7. TypeOK'
  <2>1. Items(ring) \subseteq DOMAIN topic
    BY <1>1 DEF TypeOK, Items
  <2>2. \A k \in DOMAIN ring' : ring'[k] \in [item : DOMAIN topic, ready : BOOLEAN]
    BY <1>4, <2>1, RingType
  <2> QED
    BY <1>1, <1>4, <1>5, <2>2 DEF TypeOK
<1>8. Shapes'
  BY <1>1, <1>4 DEF Shapes
<1>9. Places'
  BY <1>1, <1>4, <1>6 DEF Places
<1>10. Posts'
  <2>1. \A s \in Posters : s # t /\ pmsg[s] # 0 => pmsg[s] # m
    BY <1>1, <1>2, <1>3 DEF Posts
  <2> QED
    BY <1>1, <1>2, <1>3, <1>4, <1>5, <1>6, <2>1 DEF Posts, Threads
<1>11. Loads'
  BY <1>5 DEF IInv, Loads, Threads
<1>12. StopDrains'
  BY <1>4, GrowDrains DEF IInv
<1>13. Calls' /\ Life' /\ EachObserverOnce'
  BY SameCalls, SameLife, SameOnce DEF IInv
<1> QED
  BY <1>7, <1>8, <1>9, <1>10, <1>11, <1>12, <1>13 DEF IInv

LEMMA PostCount_IInv ==
  ASSUME IInv, NEW t \in Posters, PostCount(t)
  PROVE  IInv'
<1> USE DEF PostCount, Goto, message, worker, lifecycle
<1>1. TypeOK /\ Shapes /\ Places /\ Posts
  BY DEF IInv
<1>2. PICK m : m = pmsg[t]
  OBVIOUS
<1>3. m \in DOMAIN topic /\ m # 0 /\ m \notin accepted /\ Pushed(m)
  BY <1>1, <1>2 DEF TypeOK, Posts
<1>4. /\ pc'[t] = "idle" /\ \A s \in Threads : s # t => pc'[s] = pc[s]
      /\ pc' \in [Threads -> {"idle", "push", "publish", "count", "load", "posted", "dispatched"}]
      /\ pmsg'[t] = 0 /\ \A s \in Posters : s # t => pmsg'[s] = pmsg[s]
      /\ pmsg' \in [Posters -> DOMAIN topic \cup {0}]
  BY <1>1 DEF TypeOK, Threads
<1>5. IsFiniteSet(accepted') /\ Cardinality(accepted') = Cardinality(accepted) + 1
  BY <1>1, <1>2, <1>3, FS_AddElement DEF Shapes
<1>6. /\ wpc' = wpc \/ (wpc = "asleep" /\ wpc' = "wait")
      /\ wpc' \in {"none", "check", "pop", "copy", "call", "run", "wait", "block", "asleep", "exited"}
      /\ wpc' \in {"copy", "call", "run"} <=> wpc \in {"copy", "call", "run"}
  BY <1>1, Notified
<1>7. \A n : Pushed(n)' <=> Pushed(n)
  BY DEF Pushed
<1>8. TypeOK'
  <2>1. \A f \in Flushers : counted[f] \subseteq accepted'
    BY <1>1 DEF TypeOK
  <2>2. counted' \in [Flushers -> SUBSET accepted']
    BY <1>1, <2>1 DEF TypeOK
  <2> QED
    BY <1>1, <1>2, <1>3, <1>4, <1>5, <1>6, <2>2 DEF TypeOK
<1>9. Shapes'
  BY <1>1, <1>5 DEF Shapes
<1>10. Places'
  BY <1>1, <1>2, <1>3, <1>7 DEF Places
<1>11. Posts'
  <2>1. \A s \in Posters : s # t /\ pmsg[s] # 0 => pmsg[s] # m
    BY <1>1, <1>2, <1>3 DEF Posts
  <2> QED
    BY <1>1, <1>2, <1>3, <1>4, <1>7, <2>1 DEF Posts, Threads
<1>12. Loads'
  BY <1>4 DEF IInv, Loads, Threads
<1>13. Calls' /\ Life' /\ EachObserverOnce' /\ StopDrains'
  BY <1>6, SameCalls, SameLife, SameOnce, SameDrains DEF IInv
<1> QED
  BY <1>8, <1>9, <1>10, <1>11, <1>12, <1>13 DEF IInv

-----------------------------------------------------------------------------
(* flush *)

\* A step of flush moves a thread among the labels of flush.
LEMMA FlushFrame ==
  ASSUME IInv, NEW t \in Flushers, NEW l \in {"idle", "load", "posted", "dispatched"},
         pc[t] \in {"idle", "load", "posted", "dispatched"}, Goto(t, l),
         UNCHANGED <<observers, ring, counters, message, pmsg, worker, lifecycle>>,
         wpc' = wpc \/ Notify
  PROVE  /\ pc'[t] = l /\ \A s \in Threads : s # t => pc'[s] = pc[s]
         /\ (seen' \in [Flushers -> 0 .. MaxPosts] /\ counted' \in [Flushers -> SUBSET accepted]) => TypeOK'
         /\ Shapes' /\ Places' /\ Posts' /\ Calls' /\ Life' /\ EachObserverOnce' /\ StopDrains'
<1> USE DEF counters, message, worker, lifecycle
<1>1. TypeOK /\ Shapes /\ Posts
  BY DEF IInv
<1>2. /\ pc'[t] = l /\ \A s \in Threads : s # t => pc'[s] = pc[s]
      /\ pc' \in [Threads -> {"idle", "push", "publish", "count", "load", "posted", "dispatched"}]
  BY <1>1 DEF Goto, TypeOK, Threads
<1>3. /\ wpc' = wpc \/ (wpc = "asleep" /\ wpc' = "wait")
      /\ wpc' \in {"none", "check", "pop", "copy", "call", "run", "wait", "block", "asleep", "exited"}
      /\ wpc' \in {"copy", "call", "run"} <=> wpc \in {"copy", "call", "run"}
  BY <1>1, Notified DEF TypeOK
<1>4. (seen' \in [Flushers -> 0 .. MaxPosts] /\ counted' \in [Flushers -> SUBSET accepted]) => TypeOK'
  BY <1>1, <1>2, <1>3 DEF TypeOK
<1>5. Posts'
  <2>1. \A m : Pushed(m)' <=> Pushed(m)
    BY DEF Pushed
  <2>2. /\ pc'[t] \notin {"push", "publish", "count"} /\ pc[t] \notin {"push", "publish", "count"}
        /\ \A s \in Posters : s # t => pc'[s] = pc[s]
    BY <1>2 DEF Threads
  <2> QED
    BY <1>1, <2>1, <2>2 DEF Posts
<1> QED
  BY <1>2, <1>3, <1>4, <1>5, SameShapes, SamePlaces, SameCalls, SameLife, SameOnce, SameDrains DEF IInv

LEMMA FlushBegin_IInv ==
  ASSUME IInv, NEW t \in Flushers, FlushBegin(t)
  PROVE  IInv'
<1> USE DEF FlushBegin, MayCall, dispatching
<1>1. /\ pc'[t] = "load" /\ \A s \in Threads : s # t => pc'[s] = pc[s]
      /\ Shapes' /\ Places' /\ Posts' /\ Calls' /\ Life' /\ EachObserverOnce' /\ StopDrains' /\ TypeOK'
  BY FlushFrame DEF IInv, TypeOK
<1>2. Loads'
  BY <1>1 DEF IInv, Loads, Threads, counters
<1> QED
  BY <1>1, <1>2 DEF IInv

LEMMA FlushLoad_IInv ==
  ASSUME IInv, NEW t \in Flushers, FlushLoad(t)
  PROVE  IInv'
<1> USE DEF FlushLoad, dispatching, counters
<1>1. TypeOK /\ Shapes
  BY DEF IInv
<1>2. posted \in 0 .. MaxPosts /\ dispatched \in 0 .. MaxPosts
  BY <1>1, Bounded
<1>3. seen' \in [Flushers -> 0 .. MaxPosts] /\ counted' \in [Flushers -> SUBSET accepted]
  <2>1. seen' = [seen EXCEPT ![t] = posted] \/ seen' = [seen EXCEPT ![t] = dispatched]
    OBVIOUS
  <2>2. counted' = [counted EXCEPT ![t] = accepted] \/ counted' = counted
    OBVIOUS
  <2>3. seen' \in [Flushers -> 0 .. MaxPosts]
    BY <1>1, <1>2, <2>1 DEF TypeOK
  <2>4. counted' \in [Flushers -> SUBSET accepted]
    BY <1>1, <2>2 DEF TypeOK
  <2> QED
    BY <2>3, <2>4
<1>4. \/ /\ Goto(t, "dispatched") /\ seen'[t] = posted /\ counted'[t] = accepted
      \/ Goto(t, "posted") /\ seen'[t] = dispatched
  BY <1>1 DEF TypeOK
<1>5. \A s \in Flushers : s # t => seen'[s] = seen[s] /\ counted'[s] = counted[s]
  BY <1>1 DEF TypeOK
<1>6. PICK l \in {"posted", "dispatched"} :
        /\ Goto(t, l)
        /\ l = "dispatched" => seen'[t] = posted /\ counted'[t] = accepted
        /\ l = "posted" => seen'[t] = dispatched
  BY <1>4
<1>7. /\ pc'[t] = l /\ \A s \in Threads : s # t => pc'[s] = pc[s]
      /\ TypeOK' /\ Shapes' /\ Places' /\ Posts' /\ Calls' /\ Life' /\ EachObserverOnce' /\ StopDrains'
  BY <1>3, <1>6, FlushFrame
<1>8. Loads'
  <2>1. posted = Cardinality(accepted) /\ dispatched' = dispatched
    BY <1>1 DEF TypeOK
  <2>2. l = "posted" => seen'[t] <= dispatched
    BY <1>2, <1>6
  <2>3. l = "dispatched" => seen'[t] = Cardinality(counted'[t])
    BY <1>6, <2>1
  <2> QED
    BY <1>5, <1>7, <2>1, <2>2, <2>3 DEF IInv, Loads, Threads
<1> QED
  BY <1>7, <1>8 DEF IInv

LEMMA FlushLeave_IInv ==
  ASSUME IInv, NEW t \in Flushers, FlushReturns(t) \/ FlushAgain(t) \/ FlushTimeout(t)
  PROVE  IInv'
<1> USE DEF counters
<1>1. TypeOK /\ Shapes
  BY DEF IInv
<1>2. PICK l \in {"idle", "load"} :
        /\ pc[t] \in {"posted", "dispatched"} /\ FlushLeave(t, l)
        /\ UNCHANGED worker /\ (wpc' = wpc \/ Notify)
  BY DEF FlushReturns, FlushAgain, FlushTimeout, Agree, Differ, dispatching
<1>3. seen' \in [Flushers -> 0 .. MaxPosts] /\ counted' \in [Flushers -> SUBSET accepted]
  BY <1>1, <1>2 DEF TypeOK, FlushLeave
<1>4. \A s \in Flushers : s # t => seen'[s] = seen[s] /\ counted'[s] = counted[s]
  BY <1>1, <1>2 DEF TypeOK, FlushLeave
<1>5. /\ pc'[t] = l /\ \A s \in Threads : s # t => pc'[s] = pc[s]
      /\ TypeOK' /\ Shapes' /\ Places' /\ Posts' /\ Calls' /\ Life' /\ EachObserverOnce' /\ StopDrains'
  BY <1>2, <1>3, FlushFrame DEF FlushLeave
<1>6. Loads'
  BY <1>2, <1>4, <1>5 DEF IInv, Loads, Threads, FlushLeave
<1> QED
  BY <1>5, <1>6 DEF IInv

-----------------------------------------------------------------------------
(* dispatchLoop and dispatch *)

\* A step that moves no message.
LEMMA ControlFrame ==
  ASSUME IInv, UNCHANGED <<observers, ring, counters, message, posting, wmsg>>
  PROVE  Shapes' /\ Places' /\ Posts' /\ Loads' /\ EachObserverOnce'
  BY SameShapes, SamePlaces, SamePosts, SameLoads, SameOnce DEF IInv, counters, message, posting

LEMMA LoopControl_IInv ==
  ASSUME IInv, CheckStopping \/ PopFails \/ WaitTest \/ Block \/ Timeout
  PROVE  IInv'
<1> USE DEF rest, worker, lifecycle
<1>1. TypeOK /\ Shapes /\ Places /\ Life
  BY DEF IInv
<1>2. UNCHANGED <<observers, ring, counters, message, posting, wmsg, left, lifecycle>>
  BY DEF CheckStopping, PopFails, WaitTest, Block, Timeout
<1>3. /\ wpc \in {"check", "pop", "wait", "block", "asleep"}
      /\ wpc' \in {"check", "pop", "wait", "block", "asleep", "exited"}
  BY DEF CheckStopping, PopFails, WaitTest, Block, Timeout
<1>4. draining' = draining \/ draining' = stopping
  BY DEF CheckStopping, PopFails, WaitTest, Block, Timeout
<1>5. stalled' = stalled \/ stalled' = Stalled(ring)
  BY DEF CheckStopping, PopFails, WaitTest, Block, Timeout
<1>6. TypeOK'
  <2>1. Stalled(ring) \subseteq DOMAIN topic
    BY <1>1 DEF TypeOK, Stalled
  <2>2. stalled' \subseteq DOMAIN topic
    BY <1>1, <1>5, <2>1 DEF TypeOK
  <2> QED
    BY <1>1, <1>2, <1>3, <1>4, <2>2 DEF TypeOK, counters, message, posting
<1>7. Calls'
  BY <1>2, <1>3, SameCalls DEF IInv, message, counters
<1>8. Life'
  <2>1. wpc' = "exited" => draining'
    BY <1>1 DEF CheckStopping, PopFails, WaitTest, Block, Timeout, TypeOK
  <2>2. draining' /\ running => stopping
    BY <1>1, <1>4 DEF Life
  <2> QED
    BY <1>1, <1>2, <1>3, <2>1, <2>2 DEF Life
<1>9. StopDrains'
  <2>1. CASE wpc' # "exited"
    BY <1>3, <2>1 DEF StopDrains
  <2>2. CASE wpc' = "exited"
    <3>1. PopFails /\ stalled' = Stalled(ring) /\ ~ Poppable(ring) /\ wpc = "pop"
      BY <1>1, <2>2 DEF CheckStopping, PopFails, WaitTest, Block, Timeout, TypeOK
    <3> SUFFICES ASSUME NEW m \in before \ finished
                 PROVE  \E j, k \in DOMAIN ring : j < k /\ ring[k].item = m /\ ring[j].item \in Stalled(ring)
      BY <1>2, <3>1 DEF StopDrains, counters
    <3>2. m \in Ready(ring)
      BY <1>1, <3>1 DEF TypeOK, Places, Pushed
    <3>3. PICK k \in DOMAIN ring : ring[k].item = m /\ ring[k].ready
      BY <3>2, Members
    <3>4. /\ 1 \in DOMAIN ring /\ k \in Nat /\ k >= 1
      BY <1>1, <3>3, RingFacts DEF Shapes
    <3>5. ~ ring[1].ready
      BY <3>1, <3>3, <3>4, <1>1 DEF Poppable, Shapes
    <3>6. ring[1].item \in Stalled(ring) /\ k # 1
      BY <3>3, <3>4, <3>5, Members
    <3> QED
      BY <3>3, <3>4, <3>6
  <2> QED
    BY <2>1, <2>2
<1> QED
  BY <1>2, <1>6, <1>7, <1>8, <1>9, ControlFrame DEF IInv

LEMMA PopTake_IInv ==
  ASSUME IInv, PopTake
  PROVE  IInv'
<1> USE DEF PopTake, rest, counters, message, posting, lifecycle
<1>1. TypeOK /\ Shapes /\ Places /\ Posts
  BY DEF IInv
<1>2. PICK m : m = Head(ring).item
  OBVIOUS
<1>3. /\ ring' \in Seq(Entries) /\ Distinct(ring') /\ Len(ring') = Len(ring) - 1
      /\ m \in Ready(ring) /\ m \in Messages
      /\ Items(ring') = Items(ring) \ {m} /\ Ready(ring') = Ready(ring) \ {m}
      /\ Stalled(ring') = Stalled(ring)
  BY <1>1, <1>2, PopRing DEF Shapes
<1>4. /\ m \in Items(ring) /\ m \notin Stalled(ring) /\ m \in DOMAIN topic /\ m # 0
      /\ m \notin finished /\ wmsg = 0 /\ wmsg' = m
  <2>1. Items(ring) \subseteq DOMAIN topic
    BY <1>1 DEF TypeOK, Items
  <2>2. m \in Items(ring) /\ m \notin Stalled(ring)
    BY <1>1, <1>3, RingFacts DEF Shapes
  <2> QED
    BY <1>1, <1>2, <1>3, <2>1, <2>2 DEF TypeOK, Places, Messages
<1>5. \A n : Pushed(n) /\ n # 0 => Pushed(n)'
  BY <1>3, <1>4 DEF Pushed
<1>6. TypeOK'
  <2>1. Items(ring') \subseteq DOMAIN topic
    BY <1>1, <1>3 DEF TypeOK, Items
  <2>2. \A k \in DOMAIN ring' : ring'[k] \in [item : DOMAIN topic, ready : BOOLEAN]
    BY <1>3, <2>1, RingType
  <2>3. Len(ring') <= Capacity
    BY <1>1, <1>3, RingFacts DEF TypeOK, Shapes
  <2> QED
    BY <1>1, <1>4, <2>2, <2>3 DEF TypeOK
<1>7. Shapes'
  BY <1>1, <1>3 DEF Shapes
<1>8. Places'
  BY <1>1, <1>3, <1>4, <1>5 DEF Places, TypeOK, Shapes, Messages
<1>9. Posts'
  <2>1. \A t \in Posters : pc[t] = "push" => pmsg[t] # m
    BY <1>1, <1>4 DEF Posts
  <2> QED
    BY <1>1, <1>3, <1>4, <1>5, <2>1 DEF Posts
<1>10. Calls'
  <2>1. \A n \in DOMAIN topic : n # wmsg
    BY <1>1, <1>4 DEF Shapes, Messages
  <2> QED
    BY <1>4, <2>1 DEF IInv, Calls
<1>11. Life'
  BY SameLife DEF IInv
<1>12. StopDrains'
  BY DEF StopDrains
<1> QED
  BY <1>6, <1>7, <1>8, <1>9, <1>10, <1>11, <1>12, SameLoads, SameOnce DEF IInv

\* The steps of dispatch for the message that was taken.
LEMMA Current ==
  ASSUME TypeOK, Shapes, wpc \in {"copy", "call", "run"}
  PROVE  /\ wmsg \in DOMAIN topic /\ wmsg # 0 /\ topic[wmsg] \in Ids
         /\ called[wmsg] \in Nat /\ due[wmsg] \in Nat
         /\ observers[topic[wmsg]] \in 0 .. MaxObservers
         /\ wmsg \in 1 .. Len(called)
<1>1. wmsg \in DOMAIN topic /\ wmsg # 0
  BY DEF TypeOK
<1>2. topic[wmsg] \in Ids /\ wmsg \in 1 .. Len(called)
  BY <1>1 DEF TypeOK, Shapes
<1>3. called[wmsg] \in Nat /\ due[wmsg] \in Nat
  BY <1>1 DEF TypeOK, Shapes
<1> QED
  BY <1>1, <1>2, <1>3 DEF TypeOK

LEMMA DispatchBegin_IInv ==
  ASSUME IInv, DispatchBegin
  PROVE  IInv'
<1> USE DEF DispatchBegin, rest, lifecycle
<1>1. TypeOK /\ Shapes
  BY DEF IInv
<1>2. wmsg # 0 /\ called[wmsg] \in Nat /\ observers[topic[wmsg]] \in 0 .. MaxObservers
  BY <1>1, Current
<1>3. TypeOK'
  BY <1>1, <1>2 DEF TypeOK, counters, message, posting
<1>4. Calls'
  BY <1>2 DEF IInv, Calls, counters, message
<1>5. Life'
  BY SameLife DEF IInv
<1>6. StopDrains'
  BY DEF StopDrains
<1> QED
  BY <1>3, <1>4, <1>5, <1>6, ControlFrame DEF IInv

LEMMA CallbackReturns_IInv ==
  ASSUME IInv, CallbackReturns
  PROVE  IInv'
<1> USE DEF CallbackReturns, rest, lifecycle
<1>1. TypeOK /\ Shapes
  BY DEF IInv
<1>2. wmsg # 0 /\ called[wmsg] \in Nat /\ observers[topic[wmsg]] \in 0 .. MaxObservers
  BY <1>1, Current
<1>3. left \in 0 .. MaxObservers /\ left > 0 /\ left' = left - 1
  BY <1>1 DEF IInv, TypeOK, Calls
<1>4. TypeOK'
  <2>1. left' \in 0 .. MaxObservers
    BY <1>3
  <2>2. wmsg' = wmsg /\ wpc' \in {"call", "run"} /\ wpc \in {"call", "run"}
    OBVIOUS
  <2>3. UNCHANGED <<observers, ring, counters, message, posting>>
    OBVIOUS
  <2> QED
    BY <1>1, <2>1, <2>2, <2>3 DEF TypeOK, counters, message, posting
<1>5. Calls'
  BY <1>2, <1>3 DEF IInv, Calls, counters, message
<1>6. Life'
  BY SameLife DEF IInv
<1>7. StopDrains'
  BY DEF StopDrains
<1> QED
  BY <1>4, <1>5, <1>6, <1>7, ControlFrame DEF IInv

LEMMA Callback_IInv ==
  ASSUME IInv, Callback
  PROVE  IInv'
<1> USE DEF Callback, rest, counters, worker, posting, lifecycle
<1>1. TypeOK /\ Shapes /\ Places
  BY DEF IInv
<1>2. /\ wmsg \in DOMAIN topic /\ wmsg # 0 /\ called[wmsg] \in Nat
      /\ observers[topic[wmsg]] \in 0 .. MaxObservers /\ wmsg \in 1 .. Len(called)
  BY <1>1, Current
<1>3. /\ called' \in Seq(Nat) /\ DOMAIN called' = DOMAIN called
      /\ called'[wmsg] = called[wmsg] + 1
      /\ \A m \in DOMAIN called : m # wmsg => called'[m] = called[m]
  BY <1>1, <1>2 DEF Shapes
<1>4. TypeOK'
  BY <1>1, <1>2, <1>3 DEF TypeOK
<1>5. Shapes'
  BY <1>1, <1>3 DEF Shapes
<1>6. Calls'
  <2>1. called[wmsg] + left = observers[topic[wmsg]] /\ left \in Nat /\ left > 0
    BY <1>1 DEF IInv, Calls, TypeOK
  <2>2. called'[wmsg] + left = observers[topic[wmsg]] + 1
    BY <1>2, <1>3, <2>1
  <2>3. \A m \in DOMAIN topic : m \notin finished /\ m # wmsg => called'[m] = 0
    BY <1>1, <1>3 DEF IInv, Calls, TypeOK
  <2> QED
    BY <2>1, <2>2, <2>3 DEF IInv, Calls
<1>7. EachObserverOnce'
  <2>1. \A m \in finished : m # wmsg /\ m \in DOMAIN called
    BY <1>1 DEF Places, TypeOK
  <2>2. \A m \in finished : called'[m] = called[m]
    BY <1>3, <2>1
  <2> QED
    BY <2>2 DEF IInv, EachObserverOnce
<1>8. Life'
  BY SameLife DEF IInv
<1>9. StopDrains'
  BY DEF StopDrains
<1> QED
  BY <1>4, <1>5, <1>6, <1>7, <1>8, <1>9, SamePlaces, SamePosts, SameLoads DEF IInv

LEMMA DispatchEnd_IInv ==
  ASSUME IInv, DispatchEnd
  PROVE  IInv'
<1> USE DEF DispatchEnd, rest, message, posting, lifecycle
<1>1. TypeOK /\ Shapes /\ Places /\ Posts
  BY DEF IInv
<1>2. /\ wmsg \in DOMAIN topic /\ wmsg # 0 /\ called[wmsg] \in Nat /\ due[wmsg] \in Nat
      /\ topic[wmsg] \in Ids /\ observers[topic[wmsg]] \in 0 .. MaxObservers
  BY <1>1, Current
<1>3. wmsg \notin finished /\ wmsg \notin Items(ring) /\ wmsg' = 0
  BY <1>1, <1>2 DEF Places
<1>4. IsFiniteSet(finished') /\ Cardinality(finished') = Cardinality(finished) + 1
  BY <1>1, <1>3, FS_AddElement DEF Shapes
<1>5. wpc = "call" /\ wpc' \in {"pop", "check"}
  OBVIOUS
<1>6. TypeOK'
  BY <1>1, <1>2, <1>4, <1>5 DEF TypeOK
<1>7. Shapes'
  BY <1>1, <1>4 DEF Shapes
<1>8. \A m : Pushed(m) => Pushed(m)'
  BY DEF Pushed
<1>9. Places'
  BY <1>1, <1>3, <1>8 DEF Places
<1>10. Posts'
  <2>1. \A t \in Posters : pc[t] = "push" => pmsg[t] # 0 /\ pmsg[t] # wmsg
    BY <1>1 DEF Posts
  <2> QED
    BY <1>1, <1>3, <1>8, <2>1 DEF Posts
<1>11. Calls'
  <2>1. \A m \in DOMAIN topic : m \notin finished' /\ m # wmsg' => called[m] = 0
    BY <1>1 DEF IInv, Calls
  <2> QED
    BY <1>5, <2>1 DEF IInv, Calls
<1>12. EachObserverOnce'
  <2>1. called[wmsg] = observers[topic[wmsg]] /\ due[wmsg] <= observers[topic[wmsg]]
    BY <1>2 DEF IInv, Calls
  <2>2. due[wmsg] <= called[wmsg] /\ called[wmsg] <= observers[topic[wmsg]]
    BY <1>2, <2>1
  <2> QED
    BY <2>2 DEF IInv, EachObserverOnce
<1>13. Loads'
  <2>1. dispatched \in Nat /\ dispatched' = dispatched + 1
    BY <1>1, Bounded
  <2>2. \A t \in Flushers : seen[t] \in Nat
    BY <1>1 DEF TypeOK
  <2> QED
    BY <2>1, <2>2 DEF IInv, Loads
<1>14. Life'
  BY <1>5, SameLife DEF IInv
<1>15. StopDrains'
  BY <1>5 DEF StopDrains
<1> QED
  BY <1>6, <1>7, <1>9, <1>10, <1>11, <1>12, <1>13, <1>14, <1>15 DEF IInv

-----------------------------------------------------------------------------
(* start, stop, the destructor *)

LEMMA Start_IInv ==
  ASSUME IInv, Start
  PROVE  IInv'
<1> USE DEF Start
<1>1. TypeOK
  BY DEF IInv
<1>2. wpc = "none"
  BY DEF IInv, Life
<1>3. TypeOK'
  <2>1. starts' \in 0 .. MaxStarts /\ wpc' = "check" /\ wmsg' = 0
    BY <1>1, <1>2 DEF TypeOK
  <2>2. /\ draining' = FALSE /\ running' = TRUE /\ stopping' = FALSE
        /\ before' = {} /\ stalled' = {}
    OBVIOUS
  <2> HIDE DEF Start
  <2>3. UNCHANGED <<observers, ring, counters, message, posting, left, cpc, alive>>
    BY DEF Start
  <2> QED
    BY <1>1, <2>1, <2>2, <2>3 DEF TypeOK, counters, message, posting
<1>4. Calls'
  BY SameCalls DEF IInv, message, counters
<1>5. Life'
  BY DEF IInv, Life
<1>6. StopDrains'
  BY DEF StopDrains
<1> QED
  BY <1>3, <1>4, <1>5, <1>6, ControlFrame DEF IInv

LEMMA StopRequest_IInv ==
  ASSUME IInv, StopRequest
  PROVE  IInv'
<1> USE DEF StopRequest, worker
<1>1. TypeOK
  BY DEF IInv
<1>2. /\ wpc' = wpc \/ (wpc = "asleep" /\ wpc' = "wait")
      /\ wpc' \in {"none", "check", "pop", "copy", "call", "run", "wait", "block", "asleep", "exited"}
      /\ wpc' \in {"copy", "call", "run"} <=> wpc \in {"copy", "call", "run"}
  BY <1>1, Notified
<1>3. TypeOK'
  BY <1>1, <1>2 DEF TypeOK, counters, message, posting
<1>4. Calls'
  BY <1>2, SameCalls DEF IInv, message, counters
<1>5. Life'
  BY <1>2 DEF IInv, Life
<1>6. StopDrains'
  <2>1. wpc \notin {"exited", "none"}
    BY DEF IInv, Life
  <2> QED
    BY <1>2, <2>1 DEF StopDrains
<1> QED
  BY <1>3, <1>4, <1>5, <1>6, ControlFrame DEF IInv

LEMMA StopJoin_IInv ==
  ASSUME IInv, StopJoin
  PROVE  IInv'
<1> USE DEF StopJoin, worker
<1>1. TypeOK
  BY DEF IInv
<1>2. TypeOK'
  BY <1>1 DEF TypeOK, counters, message, posting
<1>3. Calls'
  BY SameCalls DEF IInv, message, counters
<1>4. Life'
  BY DEF IInv, Life
<1>5. StopDrains'
  BY SameDrains DEF IInv, counters
<1> QED
  BY <1>2, <1>3, <1>4, <1>5, ControlFrame DEF IInv

LEMMA Quiet_IInv ==
  ASSUME IInv, Destroy \/ UNCHANGED vars
  PROVE  IInv'
<1> USE DEF dispatching, worker, vars, lifecycle
<1>1. UNCHANGED <<observers, ring, counters, message, posting, dispatching, running, stopping,
                  cpc, starts, before>>
  BY DEF Destroy
<1>2. alive' \in BOOLEAN
  BY DEF Destroy, IInv, TypeOK
<1>3. TypeOK'
  BY <1>1, <1>2 DEF IInv, TypeOK, counters, message, posting
<1>4. Calls' /\ Life' /\ StopDrains'
  BY <1>1, SameCalls, SameLife, SameDrains DEF IInv, counters, message
<1> QED
  BY <1>1, <1>3, <1>4, ControlFrame DEF IInv

-----------------------------------------------------------------------------
(* The theorems *)

\* The invariant of the proofs: every accepted message is in one place, and what the
\* counters say of it lags behind (post, dispatchLoop, stop).
THEOREM Invariance == Spec => []IInv
<1>1. IInv /\ [Next]_vars => IInv'
  <2> SUFFICES ASSUME IInv, [Next]_vars PROVE IInv'
    OBVIOUS
  <2>1. ASSUME NEW t \in Posters, NEW id \in Ids, AddObserver(t, id) \/ PostBegin(t, id)
        PROVE  IInv'
    BY <2>1, AddObserver_IInv, PostBegin_IInv
  <2>2. ASSUME NEW t \in Posters, PostStep(t)
        PROVE  IInv'
    BY <2>2, PostClaim_IInv, PostFails_IInv, PostPublish_IInv, PostCount_IInv DEF PostStep
  <2>3. ASSUME NEW t \in Flushers, FlushBegin(t) \/ FlushStep(t)
        PROVE  IInv'
    BY <2>3, FlushBegin_IInv, FlushLoad_IInv, FlushLeave_IInv DEF FlushStep
  <2>4. CASE WorkerStep
    BY <2>4, LoopControl_IInv, PopTake_IInv, DispatchBegin_IInv, Callback_IInv,
       CallbackReturns_IInv, DispatchEnd_IInv DEF WorkerStep
  <2>5. CASE Start \/ StopRequest \/ StopJoin
    BY <2>5, Start_IInv, StopRequest_IInv, StopJoin_IInv
  <2>6. CASE Destroy \/ Destroyed \/ UNCHANGED vars
    BY <2>6, Quiet_IInv DEF Destroyed
  <2> QED
    BY <2>1, <2>2, <2>3, <2>4, <2>5, <2>6 DEF Next
<1> QED
  BY <1>1, Init_IInv, PTL DEF Spec

\* Every variable keeps its type, the ring its capacity, and the counters of pending
\* and flush the numbers of messages accepted and dispatched.
THEOREM TypesAreKept == Spec => []TypeOK
<1>1. IInv => TypeOK
  BY DEF IInv
<1> QED
  BY <1>1, Invariance, PTL

\* What stop leaves behind is only what waits behind a post that was not published
\* when the dispatch thread took its last look (stop, dispatchLoop).
THEOREM StopDrainsTheRing == Spec => []StopDrains
<1>1. IInv => StopDrains
  BY DEF IInv
<1> QED
  BY <1>1, Invariance, PTL

\* A dispatched message had every observer that its post could know of, each at most
\* once (post, dispatch, addObserver).
THEOREM ObserversAreCalledOnce == Spec => []EachObserverOnce
<1>1. IInv => EachObserverOnce
  BY DEF IInv
<1> QED
  BY <1>1, Invariance, PTL

\* A message that post accepted is in the ring, with the dispatch thread, or dispatched,
\* and in one of these only, although it is counted after it is pushed (post, try_pop).
THEOREM AcceptedIsNotLost == Spec => []Places
<1>1. IInv => Places
  BY DEF IInv
<1> QED
  BY <1>1, Invariance, PTL

\* The difference that flush saw to be zero says that what it counted is dispatched,
\* unless a dispatched message was not yet counted.
LEMMA FlushSaw ==
  ASSUME IInv, NEW t \in Flushers, Agree(t), finished \subseteq Counted(t)
  PROVE  Counted(t) = finished
<1>1. TypeOK /\ Shapes /\ Loads
  BY DEF IInv
<1>2. Cardinality(accepted) \in Nat /\ Cardinality(finished) \in Nat
  BY <1>1, FS_CardinalityType DEF Shapes
<1>3. CASE pc[t] = "posted"
  <2>1. Counted(t) = accepted /\ finished \in SUBSET accepted
    BY <1>3 DEF Counted
  <2>2. Cardinality(accepted) <= Cardinality(finished)
    BY <1>1, <1>3 DEF Agree, Second, Loads, TypeOK
  <2>3. Cardinality(finished) <= Cardinality(accepted)
    BY <1>1, <2>1, FS_Subset DEF Shapes
  <2>4. Cardinality(accepted) = Cardinality(finished)
    BY <1>2, <2>2, <2>3
  <2> QED
    BY <1>1, <2>1, <2>4, FS_Subset DEF Shapes
<1>4. CASE pc[t] = "dispatched"
  <2>1. Counted(t) = counted[t] /\ finished \in SUBSET counted[t] /\ counted[t] \in SUBSET accepted
    BY <1>1, <1>4 DEF Counted, TypeOK
  <2>2. Cardinality(counted[t]) = Cardinality(finished)
    BY <1>1, <1>4 DEF Agree, Second, Loads, TypeOK
  <2>3. IsFiniteSet(counted[t])
    BY <1>1, <2>1, FS_Subset DEF Shapes
  <2> QED
    BY <2>1, <2>2, <2>3, FS_Subset
<1> QED
  BY <1>3, <1>4 DEF Agree

\* A flush that returns before its deadline tells that the callbacks have run of all
\* that it counted (flush, pending).
THEOREM FlushTellsWhatRan == Spec => FlushTells
<1>1. IInv => [\A t \in Flushers :
                 FlushReturns(t) /\ finished \subseteq Counted(t) =>
                   \A m \in Counted(t) : m # wmsg /\ called[m] >= due[m]]_vars
  <2> SUFFICES ASSUME IInv, NEW t \in Flushers, FlushReturns(t), finished \subseteq Counted(t),
                      NEW m \in Counted(t)
               PROVE  m # wmsg /\ called[m] >= due[m]
    BY Zenon
  <2>1. m \in finished
    BY FlushSaw DEF FlushReturns
  <2>2. m \in DOMAIN topic /\ m # 0 /\ due[m] \in Nat /\ called[m] \in Nat
    BY <2>1 DEF IInv, TypeOK, Shapes, Messages
  <2>3. m # wmsg
    BY <2>1, <2>2 DEF IInv, Places
  <2> QED
    BY <2>1, <2>2, <2>3 DEF IInv, EachObserverOnce
<1> QED
  BY <1>1, Invariance, PTL DEF FlushTells
=============================================================================
