----------------- MODULE EventQueueBroadcastFastBatchProofs ------------------
(***************************************************************************)
(* Theorems about EventQueueBroadcastFastBatch, for every number of        *)
(* queues, threads, messages and observers, every capacity and every size  *)
(* of a batch: among them that it implements Broadcast.                    *)
(***************************************************************************)
EXTENDS EventQueueBroadcastFastBatch, FiniteSetTheorems, SequenceTheorems, TLAPS

Entries == [item : Messages, ready : BOOLEAN]

\* The items of a ring that its producers have published.
Ready(r) == {r[k].item : k \in {j \in DOMAIN r : r[j].ready}}

Distinct(r) == \A j, k \in DOMAIN r : r[j].item = r[k].item => j = k

\* A sequence that holds nothing twice.
Unique(s) == \A j, k \in DOMAIN s : s[j] = s[k] => j = k

\* The thread that adds an observer writes it before it counts it.
Registry ==
  /\ count \in [Queues -> 0 .. MaxObservers] /\ written \in [Queues -> 0 .. MaxObservers]
  /\ \A q \in Queues : written[q] = IF adding[q] = "idle" THEN count[q] ELSE count[q] + 1

\* The sequences and sets that the type invariant says little of.
Shapes ==
  /\ ring \in [Queues -> Seq(Entries)]
  /\ batch \in [Producers -> Seq(Messages)] /\ pushing \in [Producers -> Seq(Messages)]
  /\ got \in [Consumers -> Seq(Messages)] /\ pos \in [Consumers -> Nat]
  /\ batchedOn \in [Producers -> SUBSET Queues] /\ \A p \in Producers : IsFiniteSet(batchedOn[p])

\* A message that is filled belongs to one producer, and its observers are counted.
Filling(p) == ppc[p] \in {"fill", "fillBatched"}

Fills ==
  /\ \A p \in Producers : Filling(p) =>
       /\ pmsg[p] \in Messages /\ state[pmsg[p]] = "filling"
       /\ home[pmsg[p]] = target[p]
  /\ \A p, r \in Producers : Filling(p) /\ Filling(r) /\ pmsg[p] = pmsg[r] => p = r
  /\ \A p \in Producers : ppc[p] # "idle" => target[p] \in Queues
  /\ \A m \in Messages : state[m] = "filling" =>
       home[m] \in Queues /\ copied[m] \in 1 .. MaxObservers /\ copied[m] <= count[home[m]]

\* A message that waits in a buffer is in the buffer of one thread, once.
Batches ==
  /\ \A p \in Producers : Unique(batch[p])
  /\ \A p \in Producers : \A m \in Elements(batch[p]) : state[m] = "batched"
  /\ \A p, r \in Producers : \A m \in Elements(batch[p]) : m \in Elements(batch[r]) => p = r

\* So is one that is pushed.  Of these only the one whose position is claimed is in a ring.
Unclaimed(p) == IF ppc[p] = "publish" THEN Tail(pushing[p]) ELSE pushing[p]

Pushes ==
  /\ \A p \in Producers : Unique(pushing[p])
  /\ \A p \in Producers : \A m \in Elements(pushing[p]) : state[m] = "pushing"
  /\ \A p, r \in Producers : \A m \in Elements(pushing[p]) : m \in Elements(pushing[r]) => p = r
  /\ \A p \in Producers, q \in Queues : \A m \in Elements(Unclaimed(p)) : m \notin Items(ring[q])
  /\ \A p \in Producers : ppc[p] = "publish" => Head(pushing[p]) \in Stalled(ring[target[p]])

\* A message is in one ring once, and is queued when it is published.
Rings ==
  /\ \A q \in Queues : Distinct(ring[q])
  /\ \A q \in Queues : \A m \in Ready(ring[q]) : state[m] = "queued"
  /\ \A q \in Queues : \A m \in Stalled(ring[q]) : state[m] = "pushing"
  /\ \A q, r \in Queues : \A m \in Items(ring[q]) : m \in Items(ring[r]) => q = r

\* A message that was taken belongs to one consumer.
Takes ==
  /\ \A c \in Consumers : Unique(got[c])
  /\ \A c \in Consumers : \A m \in Elements(got[c]) : state[m] = "taken"
  /\ \A c, d \in Consumers : \A m \in Elements(got[c]) : m \in Elements(got[d]) => c = d

\* The payload has a reference for each of n callbacks to come.
Owes(m, n) == managed[m] => refs[m] = n

\* No observer has heard the message, and it has a reference for each.
Fresh(m) == called[m] = 0 /\ copied[m] \in 1 .. MaxObservers /\ Owes(m, copied[m])

Waits ==
  \A m \in Messages :
    /\ state[m] \in {"unused", "filling"} => called[m] = 0
    /\ state[m] \in {"batched", "pushing", "queued"} => Fresh(m)

\* Of the messages a consumer took, those before the current one have been heard by
\* all, and those behind it by nobody.
InHand(c, m) ==
  /\ copied[m] \in 1 .. MaxObservers
  /\ heard[c] < copied[m]
  /\ Owes(m, copied[m] - heard[c])
  /\ called[m] = IF cpc[c] = "release" THEN heard[c] + 1 ELSE heard[c]

Bounds(c) ==
  /\ cpc[c] = "idle" => got[c] = << >>
  /\ cpc[c] \in {"idle", "fetch"} => pos[c] = 0 /\ heard[c] = 0
  /\ cpc[c] # "idle" => source[c] \in Queues
  /\ cpc[c] = "call" => pos[c] \in 1 .. Len(got[c]) + 1
  /\ cpc[c] = "release" => pos[c] \in 1 .. Len(got[c])
  /\ cpc[c] = "call" /\ pos[c] = Len(got[c]) + 1 => heard[c] = 0

Calls ==
  \A c \in Consumers :
    /\ Bounds(c)
    /\ \A k \in DOMAIN got[c] : k > pos[c] => Fresh(got[c][k])
    /\ \A k \in DOMAIN got[c] : k = pos[c] => InHand(c, got[c][k])

\* The queue that has a message is the one it was posted to, or one that the same thread
\* batches on too.
Mixed(a, b) == a = b \/ \E p \in Producers : a \in batchedOn[p] /\ b \in batchedOn[p]

Homes ==
  /\ \A p \in Producers : \A m \in Elements(batch[p]) : home[m] \in batchedOn[p]
  /\ \A p \in Producers : \A m \in Elements(pushing[p]) : Mixed(home[m], target[p])
  /\ \A q \in Queues : \A m \in Items(ring[q]) : Mixed(home[m], q)
  /\ \A m \in Messages : by[m] = None \/ (Mixed(home[m], by[m]) /\ state[m] # "unused")

IInv ==
  /\ TypeOK /\ Registry /\ Shapes /\ SnapshotWhole
  /\ Fills /\ Batches /\ Pushes /\ Rings /\ Takes
  /\ Waits /\ Calls /\ Homes

-----------------------------------------------------------------------------
(* The ring *)

LEMMA EntryFacts ==
  /\ \A e \in Entries : e.item \in Messages /\ e.ready \in BOOLEAN
  /\ \A m \in Messages, b \in BOOLEAN : [item |-> m, ready |-> b] \in Entries
BY DEF Entries

LEMMA RingFacts ==
  ASSUME NEW r \in Seq(Entries)
  PROVE  /\ Len(r) \in Nat /\ DOMAIN r = 1 .. Len(r)
         /\ \A k \in DOMAIN r : r[k] \in Entries
         /\ \A k \in DOMAIN r : r[k].item \in Messages /\ r[k].ready \in BOOLEAN
         /\ \A m : m \in Items(r) <=> m \in Ready(r) \/ m \in Stalled(r)
         /\ Distinct(r) => \A m \in Ready(r) : m \notin Stalled(r)
<1>1. Len(r) \in Nat /\ DOMAIN r = 1 .. Len(r) /\ \A k \in DOMAIN r : r[k] \in Entries
  OBVIOUS
<1>2. \A k \in DOMAIN r : r[k].item \in Messages /\ r[k].ready \in BOOLEAN
  BY <1>1, EntryFacts, Zenon
<1>3. \A m : m \in Items(r) <=> m \in Ready(r) \/ m \in Stalled(r)
  BY Zenon DEF Items, Ready, Stalled
<1>4. Distinct(r) => \A m \in Ready(r) : m \notin Stalled(r)
  BY Zenon DEF Distinct, Ready, Stalled
<1> QED
  BY <1>1, <1>2, <1>3, <1>4

LEMMA Members ==
  ASSUME NEW r
  PROVE  /\ \A m : m \in Items(r) <=> \E k \in DOMAIN r : r[k].item = m
         /\ \A m : m \in Ready(r) <=> \E k \in DOMAIN r : r[k].item = m /\ r[k].ready
         /\ \A m : m \in Stalled(r) <=> \E k \in DOMAIN r : r[k].item = m /\ ~ r[k].ready
BY DEF Items, Ready, Stalled

LEMMA RingType ==
  ASSUME NEW r \in Seq(Entries), NEW D, Items(r) \subseteq D
  PROVE  \A k \in DOMAIN r : r[k] \in [item : D, ready : BOOLEAN]
<1> SUFFICES ASSUME NEW k \in DOMAIN r PROVE r[k] \in [item : D, ready : BOOLEAN]
  OBVIOUS
<1>1. r[k] \in Entries /\ r[k].item \in D
  BY RingFacts DEF Items
<1> QED
  BY <1>1 DEF Entries

\* What a producer claims is at the end of the ring, and not ready.
LEMMA ClaimRing ==
  ASSUME NEW r \in Seq(Entries), Distinct(r), NEW m \in Messages, m \notin Items(r)
  PROVE  /\ Claim(r, m) \in Seq(Entries) /\ Distinct(Claim(r, m))
         /\ Len(Claim(r, m)) = Len(r) + 1
         /\ \A k \in DOMAIN r : k \in DOMAIN Claim(r, m) /\ Claim(r, m)[k] = r[k]
         /\ Items(Claim(r, m)) = Items(r) \cup {m}
         /\ Ready(Claim(r, m)) = Ready(r)
         /\ Stalled(Claim(r, m)) = Stalled(r) \cup {m}
<1>1. PICK e : e = [item |-> m, ready |-> FALSE]
  OBVIOUS
<1>2. PICK c : c = Claim(r, m)
  OBVIOUS
<1>3. e \in Entries /\ e.item = m /\ ~ e.ready
  BY <1>1, EntryFacts
<1>4. c = Append(r, e)
  BY <1>1, <1>2 DEF Claim
<1>5. /\ c \in Seq(Entries) /\ Len(c) = Len(r) + 1 /\ Len(r) \in Nat
      /\ DOMAIN c = 1 .. (Len(r) + 1) /\ DOMAIN r = 1 .. Len(r)
      /\ c[Len(r) + 1] = e /\ \A k \in 1 .. Len(r) : c[k] = r[k]
  BY <1>3, <1>4, AppendProperties
<1>6. PICK n : n = Len(r) + 1
  OBVIOUS
<1>7. /\ \A k \in DOMAIN r : k \in DOMAIN c /\ c[k] = r[k] /\ r[k].item # m
      /\ n \in DOMAIN c /\ c[n].item = m /\ ~ c[n].ready
      /\ \A k \in DOMAIN c : k \in DOMAIN r \/ k = n
  BY <1>3, <1>5, <1>6 DEF Items
<1>8. Distinct(c)
  BY <1>7, Zenon DEF Distinct
<1>9. Items(c) = Items(r) \cup {m}
  BY <1>7, Zenon DEF Items
<1>10. Ready(c) = Ready(r)
  BY <1>7, Zenon DEF Ready
<1>11. Stalled(c) = Stalled(r) \cup {m}
  BY <1>7, Zenon DEF Stalled
<1> QED
  BY <1>2, <1>5, <1>7, <1>8, <1>9, <1>10, <1>11

\* Publishing changes no item and no order.
LEMMA PublishRing ==
  ASSUME NEW r \in Seq(Entries), Distinct(r), NEW m \in Stalled(r)
  PROVE  /\ Publish(r, m) \in Seq(Entries) /\ Distinct(Publish(r, m))
         /\ Len(Publish(r, m)) = Len(r) /\ DOMAIN Publish(r, m) = DOMAIN r
         /\ \A k \in DOMAIN r : Publish(r, m)[k].item = r[k].item
         /\ Items(Publish(r, m)) = Items(r)
         /\ Ready(Publish(r, m)) = Ready(r) \cup {m}
         /\ Stalled(Publish(r, m)) = Stalled(r) \ {m}
<1>1. PICK e : e = [item |-> m, ready |-> TRUE]
  OBVIOUS
<1>2. PICK c : c = Publish(r, m)
  OBVIOUS
<1>3. \E k \in DOMAIN r : r[k].item = m
  BY DEF Stalled
<1>4. e \in Entries /\ e.item = m /\ e.ready
  BY <1>1, <1>3, EntryFacts, RingFacts
<1>5. /\ c = [k \in DOMAIN r |-> IF r[k].item = m THEN e ELSE r[k]] /\ DOMAIN c = DOMAIN r
  BY <1>1, <1>2 DEF Publish
<1>6. \A k \in DOMAIN r : (r[k].item = m => c[k] = e) /\ (r[k].item # m => c[k] = r[k])
  BY <1>5
<1>7. c \in Seq(Entries) /\ Len(c) = Len(r)
  <2>1. DOMAIN r = 1 .. Len(r) /\ Len(r) \in Nat /\ \A k \in DOMAIN r : r[k] \in Entries
    BY RingFacts
  <2>2. c = [k \in 1 .. Len(r) |-> c[k]] /\ \A k \in 1 .. Len(r) : c[k] \in Entries
    BY <1>4, <1>5, <1>6, <2>1
  <2> QED
    BY <2>1, <2>2
<1>8. \A k \in DOMAIN r : c[k].item = r[k].item
  BY <1>4, <1>6, Zenon
<1>9. \A k \in DOMAIN r : c[k].ready <=> r[k].ready \/ r[k].item = m
  BY <1>4, <1>6, Zenon
<1>10. Distinct(c)
  <2> SUFFICES ASSUME NEW j \in DOMAIN r, NEW k \in DOMAIN r, c[j].item = c[k].item
               PROVE  j = k
    BY <1>5 DEF Distinct
  <2> QED
    BY <1>8 DEF Distinct
<1>11. Items(c) = Items(r)
  BY <1>5, <1>8, Zenon DEF Items
<1>12. Ready(c) = Ready(r) \cup {m}
  <2>1. \A x : x \in Ready(c) <=> \E k \in DOMAIN r : r[k].item = x /\ (r[k].ready \/ r[k].item = m)
    BY <1>5, <1>8, <1>9, Members
  <2> QED
    BY <1>3, <2>1, Members
<1>13. Stalled(c) = Stalled(r) \ {m}
  <2>1. \A x : x \in Stalled(c) <=> \E k \in DOMAIN r : r[k].item = x /\ ~ (r[k].ready \/ r[k].item = m)
    BY <1>5, <1>8, <1>9, Members
  <2> QED
    BY <2>1, Members
<1> QED
  BY <1>2, <1>5, <1>7, <1>8, <1>10, <1>11, <1>12, <1>13

\* What is taken was published.
LEMMA PopRing ==
  ASSUME NEW r \in Seq(Entries), Distinct(r), Poppable(r), NEW m, m = Head(r).item
  PROVE  /\ Tail(r) \in Seq(Entries) /\ Distinct(Tail(r))
         /\ Len(Tail(r)) = Len(r) - 1
         /\ m \in Ready(r) /\ m \in Messages
         /\ Items(Tail(r)) = Items(r) \ {m}
         /\ Ready(Tail(r)) = Ready(r) \ {m}
         /\ Stalled(Tail(r)) = Stalled(r)
<1>1. PICK c : c = Tail(r)
  OBVIOUS
<1>2. /\ Len(r) \in Nat \ {0} /\ DOMAIN r = 1 .. Len(r) /\ 1 \in DOMAIN r
      /\ r[1].item = m /\ r[1].ready
  BY DEF Poppable
<1>3. /\ c \in Seq(Entries) /\ Len(c) = Len(r) - 1 /\ DOMAIN c = 1 .. (Len(r) - 1)
      /\ \A k \in DOMAIN c : c[k] = r[k + 1]
  BY <1>1, <1>2
<1>4. /\ \A k \in DOMAIN c : k + 1 \in DOMAIN r /\ c[k] = r[k + 1] /\ k + 1 # 1
      /\ \A k \in DOMAIN r : k # 1 => \E j \in DOMAIN c : c[j] = r[k]
      /\ \A j, k \in DOMAIN c : j + 1 = k + 1 => j = k
  <2>1. \A k \in DOMAIN r : k # 1 => k - 1 \in DOMAIN c /\ c[k - 1] = r[k]
    BY <1>2, <1>3
  <2> QED
    BY <1>2, <1>3, <2>1
<1>5. \A k \in DOMAIN r : r[k].item = m => k = 1
  BY <1>2, Zenon DEF Distinct
<1>6. \A k \in DOMAIN c : \E j \in DOMAIN r : c[k] = r[j] /\ r[j].item # m
  BY <1>4, <1>5, Zenon
<1>7. \A k \in DOMAIN r : r[k].item # m => \E j \in DOMAIN c : c[j] = r[k]
  BY <1>2, <1>4, Zenon
<1>8. Distinct(c)
  <2> SUFFICES ASSUME NEW j \in DOMAIN c, NEW k \in DOMAIN c, c[j].item = c[k].item
               PROVE  j = k
    BY DEF Distinct
  <2>1. j + 1 = k + 1
    BY <1>4 DEF Distinct
  <2> QED
    BY <1>4, <2>1
<1>9. Items(c) = Items(r) \ {m}
  <2>1. \A x : x \in Items(c) => x \in Items(r) \ {m}
    BY <1>6, Members
  <2>2. \A x : x \in Items(r) \ {m} => x \in Items(c)
    BY <1>7, Members
  <2> QED
    BY <2>1, <2>2
<1>10. Ready(c) = Ready(r) \ {m}
  <2>1. \A x : x \in Ready(c) => x \in Ready(r) \ {m}
    BY <1>6, Members
  <2>2. \A x : x \in Ready(r) \ {m} => x \in Ready(c)
    BY <1>7, Members
  <2> QED
    BY <2>1, <2>2
<1>11. Stalled(c) = Stalled(r)
  <2>1. \A k \in DOMAIN r : ~ r[k].ready => r[k].item # m
    BY <1>2, <1>5, Zenon
  <2> QED
    <3>1. \A x : x \in Stalled(c) => x \in Stalled(r)
      BY <1>6, Members
    <3>2. \A x : x \in Stalled(r) => x \in Stalled(c)
      BY <1>7, <2>1, Members
    <3> QED
      BY <3>1, <3>2
<1>12. m \in Ready(r) /\ m \in Messages
  BY <1>2, RingFacts DEF Ready
<1> QED
  BY <1>1, <1>3, <1>8, <1>9, <1>10, <1>11, <1>12

-----------------------------------------------------------------------------
(* Sequences of messages *)

LEMMA InElements ==
  ASSUME NEW s
  PROVE  \A m : m \in Elements(s) <=> \E k \in DOMAIN s : s[k] = m
BY DEF Elements

LEMMA SeqFacts ==
  ASSUME NEW s \in Seq(Messages)
  PROVE  /\ Len(s) \in Nat /\ DOMAIN s = 1 .. Len(s)
         /\ \A k \in DOMAIN s : s[k] \in Messages /\ s[k] \in Elements(s)
         /\ \A m \in Elements(s) : m \in Messages
         /\ s # << >> <=> Len(s) > 0
<1>1. /\ Len(s) \in Nat /\ DOMAIN s = 1 .. Len(s) /\ \A k \in DOMAIN s : s[k] \in Messages
      /\ s # << >> <=> Len(s) > 0
  OBVIOUS
<1> QED
  BY <1>1, InElements

LEMMA NoElements ==
  /\ << >> \in Seq(Messages) /\ Len(<< >>) = 0 /\ DOMAIN << >> = {}
  /\ Unique(<< >>) /\ Elements(<< >>) = {}
BY DEF Unique, Elements

LEMMA OneElement ==
  ASSUME NEW m \in Messages
  PROVE  /\ <<m>> \in Seq(Messages) /\ Len(<<m>>) = 1 /\ DOMAIN <<m>> = {1} /\ <<m>>[1] = m
         /\ Unique(<<m>>) /\ Elements(<<m>>) = {m}
<1>1. <<m>> \in Seq(Messages) /\ Len(<<m>>) = 1 /\ DOMAIN <<m>> = {1} /\ <<m>>[1] = m
  OBVIOUS
<1> QED
  BY <1>1 DEF Unique, Elements

LEMMA TailElements ==
  ASSUME NEW s \in Seq(Messages), s # << >>, Unique(s)
  PROVE  /\ Head(s) \in Messages /\ Head(s) \in Elements(s)
         /\ Tail(s) \in Seq(Messages) /\ Unique(Tail(s)) /\ Len(Tail(s)) = Len(s) - 1
         /\ Elements(Tail(s)) = Elements(s) \ {Head(s)}
<1>1. PICK t : t = Tail(s)
  OBVIOUS
<1>2. /\ Len(s) \in Nat \ {0} /\ DOMAIN s = 1 .. Len(s) /\ Head(s) = s[1] /\ 1 \in DOMAIN s
      /\ s[1] \in Messages
  OBVIOUS
<1>3. /\ t \in Seq(Messages) /\ Len(t) = Len(s) - 1 /\ DOMAIN t = 1 .. (Len(s) - 1)
      /\ \A k \in DOMAIN t : t[k] = s[k + 1]
  BY <1>1, <1>2
<1>4. /\ \A k \in DOMAIN t : k + 1 \in DOMAIN s /\ t[k] = s[k + 1] /\ k + 1 # 1
      /\ \A j, k \in DOMAIN t : j + 1 = k + 1 => j = k
      /\ \A k \in DOMAIN s : k # 1 => \E j \in DOMAIN t : t[j] = s[k]
  <2>1. \A k \in DOMAIN s : k # 1 => k - 1 \in DOMAIN t /\ t[k - 1] = s[k]
    BY <1>2, <1>3
  <2> QED
    BY <1>2, <1>3, <2>1
<1>5. Unique(t)
  <2> SUFFICES ASSUME NEW j \in DOMAIN t, NEW k \in DOMAIN t, t[j] = t[k]
               PROVE  j = k
    BY DEF Unique
  <2>1. j + 1 = k + 1
    BY <1>4 DEF Unique
  <2> QED
    BY <1>4, <2>1
<1>6. Elements(t) = Elements(s) \ {s[1]}
  <2>1. \A m : m \in Elements(t) => m \in Elements(s) \ {s[1]}
    <3> SUFFICES ASSUME NEW k \in DOMAIN t PROVE t[k] \in Elements(s) \ {s[1]}
      BY InElements
    <3>1. s[k + 1] # s[1]
      BY <1>2, <1>4 DEF Unique
    <3> QED
      BY <1>4, <3>1, InElements
  <2>2. \A m : m \in Elements(s) \ {s[1]} => m \in Elements(t)
    BY <1>4, InElements
  <2> QED
    BY <2>1, <2>2
<1> QED
  BY <1>1, <1>2, <1>3, <1>5, <1>6, InElements

LEMMA AppendElements ==
  ASSUME NEW s \in Seq(Messages), NEW m \in Messages
  PROVE  /\ Append(s, m) \in Seq(Messages) /\ Len(Append(s, m)) = Len(s) + 1
         /\ DOMAIN Append(s, m) = DOMAIN s \cup {Len(s) + 1} /\ Len(s) + 1 \notin DOMAIN s
         /\ Append(s, m)[Len(s) + 1] = m /\ \A k \in DOMAIN s : Append(s, m)[k] = s[k]
         /\ Elements(Append(s, m)) = Elements(s) \cup {m}
         /\ Unique(s) /\ m \notin Elements(s) => Unique(Append(s, m))
<1>1. PICK t : t = Append(s, m)
  OBVIOUS
<1>2. PICK n : n = Len(s) + 1
  OBVIOUS
<1>3. /\ t \in Seq(Messages) /\ Len(t) = n /\ DOMAIN t = DOMAIN s \cup {n} /\ n \notin DOMAIN s
      /\ t[n] = m /\ \A k \in DOMAIN s : t[k] = s[k]
  BY <1>1, <1>2, AppendProperties
<1>4. Elements(t) = Elements(s) \cup {m}
  BY <1>3, InElements
<1>5. Unique(s) /\ m \notin Elements(s) => Unique(t)
  <2>1. m \notin Elements(s) => \A k \in DOMAIN s : s[k] # m
    BY InElements
  <2> QED
    BY <1>3, <2>1, Zenon DEF Unique
<1> QED
  BY <1>1, <1>2, <1>3, <1>4, <1>5

-----------------------------------------------------------------------------
(* What an action leaves alone *)

USE SizesAssumption, BoundAssumption, BatchAssumption

LEMMA KeepFills ==
  ASSUME Fills, UNCHANGED <<ppc, pmsg, target, home, copied, count>>,
         \A m \in Messages : state'[m] = "filling" <=> state[m] = "filling"
  PROVE  Fills'
  BY Zenon DEF Fills, Filling

LEMMA KeepBatches ==
  ASSUME Batches, Shapes, batch' = batch,
         \A m \in Messages : state[m] = "batched" => state'[m] = "batched"
  PROVE  Batches'
<1>1. \A p \in Producers : \A m \in Elements(batch[p]) : m \in Messages
  BY SeqFacts DEF Shapes
<1> QED
  BY <1>1 DEF Batches, Unique, Elements

LEMMA KeepPushes ==
  ASSUME Pushes, Shapes, UNCHANGED <<pushing, ring>>,
         \A m \in Messages : state[m] = "pushing" => state'[m] = "pushing",
         \A p \in Producers : ppc[p] = "publish" \/ ppc'[p] = "publish" =>
           ppc'[p] = ppc[p] /\ target'[p] = target[p]
  PROVE  Pushes'
<1>1. \A p \in Producers : \A m \in Elements(pushing[p]) : m \in Messages
  BY SeqFacts DEF Shapes
<1>2. \A p \in Producers : Unclaimed(p)' = Unclaimed(p)
  BY DEF Unclaimed
<1> QED
  BY <1>1, <1>2, Zenon DEF Pushes

LEMMA KeepRings ==
  ASSUME Rings, Shapes, ring' = ring,
         \A m \in Messages : state[m] \in {"pushing", "queued"} => state'[m] = state[m]
  PROVE  Rings'
<1>1. \A q \in Queues : \A m : m \in Ready(ring[q]) \/ m \in Stalled(ring[q]) => m \in Messages
  <2> SUFFICES ASSUME NEW q \in Queues
               PROVE  \A m : m \in Ready(ring[q]) \/ m \in Stalled(ring[q]) => m \in Messages
    OBVIOUS
  <2>1. ring[q] \in Seq(Entries)
    BY DEF Shapes
  <2> QED
    BY <2>1, RingFacts, Members
<1> QED
  BY <1>1 DEF Rings

LEMMA KeepTakes ==
  ASSUME Takes, Shapes, got' = got,
         \A m \in Messages : state[m] = "taken" => state'[m] = "taken"
  PROVE  Takes'
<1>1. \A c \in Consumers : \A m \in Elements(got[c]) : m \in Messages
  BY SeqFacts DEF Shapes
<1> QED
  BY <1>1 DEF Takes

LEMMA KeepWaits ==
  ASSUME Waits, UNCHANGED <<called, copied, managed, refs>>,
         \A m \in Messages :
           \/ state'[m] = state[m] \/ state'[m] \in {"taken", "done"}
           \/ state[m] \in {"batched", "pushing", "queued"} /\ state'[m] \in {"batched", "pushing", "queued"}
  PROVE  Waits'
  BY DEF Waits, Fresh, Owes

LEMMA KeepCalls ==
  ASSUME Calls, Shapes, UNCHANGED <<consuming, called>>,
         \A c \in Consumers : \A m \in Elements(got[c]) :
           copied'[m] = copied[m] /\ managed'[m] = managed[m] /\ refs'[m] = refs[m]
  PROVE  Calls'
<1> SUFFICES ASSUME NEW c \in Consumers
             PROVE  /\ Bounds(c)'
                    /\ \A k \in DOMAIN got[c] : k > pos[c] => Fresh(got[c][k])'
                    /\ \A k \in DOMAIN got[c] : k = pos[c] => InHand(c, got[c][k])'
  BY Zenon DEF Calls, consuming
<1>1. Bounds(c)'
  BY DEF Calls, Bounds, consuming
<1>2. ASSUME NEW k \in DOMAIN got[c]
      PROVE  (k > pos[c] => Fresh(got[c][k])') /\ (k = pos[c] => InHand(c, got[c][k])')
  <2>1. PICK m : m = got[c][k]
    OBVIOUS
  <2>2. /\ m' = m
        /\ copied'[m] = copied[m] /\ managed'[m] = managed[m] /\ refs'[m] = refs[m]
    BY <2>1, InElements
  <2>3. (k > pos[c] => Fresh(m)) /\ (k = pos[c] => InHand(c, m))
    BY <2>1, Zenon DEF Calls
  <2> QED
    BY <2>1, <2>2, <2>3 DEF Fresh, InHand, Owes, consuming
<1> QED
  BY <1>1, <1>2

LEMMA Contents ==
  ASSUME Shapes
  PROVE  /\ \A p \in Producers : \A m \in Elements(batch[p]) : m \in Messages
         /\ \A p \in Producers : \A m \in Elements(pushing[p]) : m \in Messages
         /\ \A c \in Consumers : \A m \in Elements(got[c]) : m \in Messages
         /\ \A q \in Queues : \A m \in Items(ring[q]) : m \in Messages
<1>1. ASSUME NEW q \in Queues, NEW m \in Items(ring[q])
      PROVE  m \in Messages
  <2>1. ring[q] \in Seq(Entries)
    BY DEF Shapes
  <2> QED
    BY <1>1, <2>1, RingFacts, Members
<1> QED
  BY <1>1, SeqFacts DEF Shapes

LEMMA RingStates ==
  ASSUME Shapes, Rings, NEW q \in Queues, NEW m \in Items(ring[q])
  PROVE  state[m] \in {"pushing", "queued"}
<1>1. ring[q] \in Seq(Entries)
  BY DEF Shapes
<1>2. m \in Ready(ring[q]) \/ m \in Stalled(ring[q])
  BY <1>1, RingFacts
<1> QED
  BY <1>2 DEF Rings

LEMMA MixedGrows ==
  ASSUME \A p \in Producers : batchedOn[p] \subseteq batchedOn'[p]
  PROVE  \A a, b : Mixed(a, b) => Mixed(a, b)'
  BY DEF Mixed

LEMMA KeepHomes ==
  ASSUME Homes, Shapes, Batches, Pushes, Rings, UNCHANGED <<batch, pushing, ring, by>>,
         \A p \in Producers : batchedOn[p] \subseteq batchedOn'[p],
         \A m \in Messages : state[m] # "unused" => home'[m] = home[m] /\ state'[m] # "unused",
         \A p \in Producers : pushing[p] # << >> => target'[p] = target[p]
  PROVE  Homes'
<1>1. \A a, b : Mixed(a, b) => Mixed(a, b)'
  BY MixedGrows
<1>2. \A p \in Producers : \A m \in Elements(batch[p]) : home'[m] \in batchedOn'[p]
  <2>1. \A p \in Producers : \A m \in Elements(batch[p]) : home'[m] = home[m]
    BY Contents DEF Batches
  <2> QED
    BY <2>1 DEF Homes
<1>3. \A p \in Producers : \A m \in Elements(pushing[p]) : Mixed(home[m], target[p])'
  <2>1. \A p \in Producers : \A m \in Elements(pushing[p]) : pushing[p] # << >>
    BY NoElements
  <2>2. \A p \in Producers : \A m \in Elements(pushing[p]) : home'[m] = home[m] /\ target'[p] = target[p]
    BY <2>1, Contents DEF Pushes
  <2>3. \A p \in Producers : \A m \in Elements(pushing[p]) : Mixed(home[m], target[p])
    BY DEF Homes
  <2> QED
    BY <2>2, <2>3 DEF Mixed
<1>4. \A q \in Queues : \A m \in Items(ring[q]) : Mixed(home[m], q)'
  <2>1. \A q \in Queues : \A m \in Items(ring[q]) : home'[m] = home[m]
    BY Contents, RingStates
  <2> QED
    BY <2>1 DEF Homes, Mixed
<1>5. \A m \in Messages : by'[m] = None \/ (Mixed(home[m], by[m])' /\ state'[m] # "unused")
  BY DEF Homes, Mixed
<1> QED
  BY <1>2, <1>3, <1>4, <1>5 DEF Homes

-----------------------------------------------------------------------------
(* addObserver *)

LEMMA Init_IInv == Init => IInv
<1> SUFFICES ASSUME Init PROVE IInv
  OBVIOUS
<1>1. \A q \in Queues : Items(ring[q]) = {} /\ Ready(ring[q]) = {} /\ Stalled(ring[q]) = {}
  BY DEF Init, FastInit, Items, Ready, Stalled
<1>2. /\ \A p \in Producers : Elements(batch[p]) = {} /\ Elements(pushing[p]) = {}
      /\ \A c \in Consumers : Elements(got[c]) = {}
  BY NoElements DEF Init, FastInit
<1>3. TypeOK
  BY DEF Init, FastInit, TypeOK
<1>4. Registry /\ SnapshotWhole
  BY DEF Init, FastInit, Registry, SnapshotWhole
<1>5. Shapes
  <2>1. IsFiniteSet({})
    BY FS_EmptySet
  <2> QED
    BY <2>1 DEF Init, FastInit, Shapes
<1>6. Fills
  BY DEF Init, FastInit, Fills, Filling
<1>7. Batches /\ Takes
  BY <1>2 DEF Init, FastInit, Batches, Takes, Unique
<1>8. Pushes
  <2>1. \A p \in Producers : Unclaimed(p) = << >> /\ ppc[p] # "publish"
    BY DEF Init, FastInit, Unclaimed
  <2> QED
    BY <1>2, <2>1, NoElements DEF Init, FastInit, Pushes
<1>9. Rings
  BY <1>1 DEF Init, FastInit, Rings, Distinct
<1>10. Waits
  BY DEF Init, FastInit, Waits
<1>11. Calls
  <2>1. \A c \in Consumers : got[c] = << >> /\ cpc[c] = "idle" /\ pos[c] = 0 /\ heard[c] = 0
    BY DEF Init, FastInit
  <2>2. \A c \in Consumers : \A k : k \notin DOMAIN got[c]
    BY <2>1, NoElements
  <2>3. \A c \in Consumers : Bounds(c)
    BY <2>1 DEF Bounds
  <2> QED
    BY <2>2, <2>3, Zenon DEF Calls
<1>12. Homes
  <2>1. \A m \in Messages : by[m] = None
    BY DEF Init, FastInit
  <2>2. /\ \A p \in Producers : \A m : m \notin Elements(batch[p]) /\ m \notin Elements(pushing[p])
        /\ \A q \in Queues : \A m : m \notin Items(ring[q])
    BY <1>1, <1>2
  <2> QED
    BY <2>1, <2>2 DEF Homes
<1> QED
  BY <1>3, <1>4, <1>5, <1>6, <1>7, <1>8, <1>9, <1>10, <1>11, <1>12 DEF IInv

LEMMA AddWrite_IInv ==
  ASSUME IInv, NEW q \in Queues, AddWrite(q), UNCHANGED batches
  PROVE  IInv'
<1> USE DEF AddWrite, batches, message, producing, consuming
<1>1. Registry'
  BY DEF IInv, Registry, TypeOK
<1>2. TypeOK'
  BY DEF IInv, TypeOK, Registry
<1>3. Shapes' /\ SnapshotWhole'
  BY DEF IInv, Shapes, SnapshotWhole
<1>4. Fills'
  BY KeepFills DEF IInv
<1>5. Batches' /\ Pushes' /\ Rings' /\ Takes'
  BY KeepBatches, KeepPushes, KeepRings, KeepTakes DEF IInv
<1>6. Waits' /\ Calls'
  BY KeepWaits, KeepCalls DEF IInv
<1>7. Homes'
  BY KeepHomes DEF IInv
<1> QED
  BY <1>1, <1>2, <1>3, <1>4, <1>5, <1>6, <1>7 DEF IInv

LEMMA AddStore_IInv ==
  ASSUME IInv, NEW q \in Queues, AddStore(q), UNCHANGED batches
  PROVE  IInv'
<1> USE DEF AddStore, batches, message, producing, consuming
<1>1. Registry'
  BY DEF IInv, Registry, TypeOK
<1>2. TypeOK'
  BY DEF IInv, TypeOK, Registry
<1>3. Shapes' /\ SnapshotWhole'
  BY DEF IInv, Shapes, SnapshotWhole
<1>4. Fills'
  <2>1. \A r \in Queues : count'[r] \in Nat /\ count[r] \in Nat /\ count[r] <= count'[r]
    BY <1>1 DEF IInv, Registry
  <2>2. \A m \in Messages : copied[m] \in Nat
    BY DEF IInv, TypeOK
  <2> QED
    BY <2>1, <2>2 DEF IInv, Fills, Filling
<1>5. Batches' /\ Pushes' /\ Rings' /\ Takes'
  BY KeepBatches, KeepPushes, KeepRings, KeepTakes DEF IInv
<1>6. Waits' /\ Calls'
  BY KeepWaits, KeepCalls DEF IInv
<1>7. Homes'
  BY KeepHomes DEF IInv
<1> QED
  BY <1>1, <1>2, <1>3, <1>4, <1>5, <1>6, <1>7 DEF IInv

-----------------------------------------------------------------------------
(* post *)

LEMMA PostBegin_IInv ==
  ASSUME IInv, NEW p \in Producers, NEW q \in Queues, NEW m \in Messages,
         NEW large \in BOOLEAN, NEW next \in {"fill", "fillBatched"},
         PostBegin(p, q, m, large, next), UNCHANGED batches
  PROVE  IInv'
<1> USE DEF PostBegin, batches, registry, consuming
<1>1. /\ ppc[p] = "idle" /\ state[m] = "unused" /\ called[m] = 0
      /\ state' = [state EXCEPT ![m] = "filling"] /\ home' = [home EXCEPT ![m] = q]
      /\ copied' = [copied EXCEPT ![m] = count[q]] /\ managed' = [managed EXCEPT ![m] = large]
      /\ pmsg' = [pmsg EXCEPT ![p] = m] /\ target' = [target EXCEPT ![p] = q]
      /\ ppc' = [ppc EXCEPT ![p] = next]
      /\ UNCHANGED <<count, written, adding, ring, torn, refs, pushing, cpc, source, got, pos,
                     heard, called, by, batch, batchedOn>>
  BY DEF IInv, Waits
<1>2. count[q] \in 1 .. MaxObservers
  BY DEF IInv, Registry
<1>3. pushing[p] = << >>
  BY <1>1 DEF IInv, TypeOK
<1> HIDE DEF PostBegin
<1>4. /\ state \in [Messages -> {"unused", "filling", "batched", "pushing", "queued", "taken", "done"}]
      /\ home \in [Messages -> Queues \cup {None}] /\ copied \in [Messages -> 0 .. MaxObservers]
      /\ managed \in [Messages -> BOOLEAN]
      /\ ppc \in [Producers -> {"idle", "fill", "fillBatched", "push", "publish"}]
      /\ pmsg \in [Producers -> Messages \cup {None}]
      /\ target \in [Producers -> Queues \cup {None}]
  BY DEF IInv, TypeOK
<1>5. \A k \in Messages : state[k] # "unused" =>
        /\ state'[k] = state[k] /\ home'[k] = home[k] /\ copied'[k] = copied[k]
        /\ managed'[k] = managed[k] /\ k # m
  BY <1>1, <1>4
<1>6. TypeOK'
  <2>1. /\ state' \in [Messages -> {"unused", "filling", "batched", "pushing", "queued", "taken", "done"}]
        /\ home' \in [Messages -> Queues \cup {None}] /\ copied' \in [Messages -> 0 .. MaxObservers]
        /\ ppc' \in [Producers -> {"idle", "fill", "fillBatched", "push", "publish"}]
        /\ pmsg' \in [Producers -> Messages \cup {None}]
        /\ target' \in [Producers -> Queues \cup {None}]
    BY <1>1, <1>2, <1>4
  <2>2. managed' \in [Messages -> BOOLEAN]
    BY <1>1, <1>4, Zenon
  <2>3. \A r \in Producers : (pushing'[r] # << >>) = (ppc'[r] \in {"push", "publish"})
    BY <1>1, <1>3, <1>4 DEF IInv, TypeOK
  <2> QED
    BY <1>1, <2>1, <2>2, <2>3 DEF IInv, TypeOK
<1>7. Registry' /\ Shapes' /\ SnapshotWhole'
  BY <1>1 DEF IInv, Registry, Shapes, SnapshotWhole
<1>8. Fills'
  BY <1>1, <1>2, <1>4 DEF IInv, Fills, Filling
<1>9. Batches' /\ Rings' /\ Takes'
  BY <1>1, <1>5, KeepBatches, KeepRings, KeepTakes DEF IInv
<1>10. Pushes'
  BY <1>1, <1>4, <1>5, KeepPushes DEF IInv
<1>11. Waits'
  BY <1>1, <1>4, <1>5 DEF IInv, Waits, Fresh, Owes
<1>12. Calls'
  <2>1. \A c \in Consumers : \A k \in Elements(got[c]) :
          copied'[k] = copied[k] /\ managed'[k] = managed[k] /\ refs'[k] = refs[k]
    BY <1>1, <1>5, Contents DEF IInv, Takes
  <2> QED
    BY <1>1, <2>1, KeepCalls DEF IInv
<1>13. Homes'
  BY <1>1, <1>3, <1>4, <1>5, KeepHomes DEF IInv
<1> QED
  BY <1>6, <1>7, <1>8, <1>9, <1>10, <1>11, <1>12, <1>13 DEF IInv

\* What post does to the message it fills, and where the message is not yet.
LEMMA FillFacts ==
  ASSUME IInv, NEW p \in Producers, Filling(p), Fill(p), NEW m, m = pmsg[p]
  PROVE  /\ m \in Messages /\ state[m] = "filling"
         /\ home[m] = target[p] /\ target[p] \in Queues
         /\ copied[m] \in 1 .. MaxObservers /\ called[m] = 0
         /\ torn' = {}
         /\ refs' \in [Messages -> 0 .. MaxObservers]
         /\ managed[m] => refs'[m] = copied[m]
         /\ \A k \in Messages : k # m => refs'[k] = refs[k]
         /\ pmsg' = [pmsg EXCEPT ![p] = None] /\ pmsg' \in [Producers -> Messages \cup {None}]
         /\ \A r \in Producers : m \notin Elements(batch[r]) /\ m \notin Elements(pushing[r])
         /\ \A c \in Consumers : m \notin Elements(got[c])
         /\ \A q \in Queues : m \notin Items(ring[q])
<1>1. /\ m \in Messages /\ state[m] = "filling" /\ home[m] = target[p] /\ target[p] \in Queues
      /\ copied[m] \in 1 .. MaxObservers /\ copied[m] <= count[target[p]]
  BY DEF IInv, Fills, Filling
<1>2. called[m] = 0
  BY <1>1 DEF IInv, Waits
<1>3. torn' = {}
  <2>1. count[target[p]] \in Nat /\ written[target[p]] \in Nat /\ count[target[p]] <= written[target[p]]
    BY <1>1 DEF IInv, Registry
  <2>2. ~ (copied[m] > written[home[m]])
    BY <1>1, <2>1
  <2> QED
    BY <2>2 DEF Fill, IInv, SnapshotWhole
<1>4. PostRefs(copied[m]) = copied[m]
  BY <1>1 DEF PostRefs
<1>5. refs \in [Messages -> 0 .. MaxObservers] /\ pmsg \in [Producers -> Messages \cup {None}]
  BY DEF IInv, TypeOK
<1>6. refs' = [refs EXCEPT ![m] = IF managed[m] THEN copied[m] ELSE 0]
      /\ pmsg' = [pmsg EXCEPT ![p] = None]
  BY <1>4 DEF Fill
<1>7. \E n \in 0 .. MaxObservers : refs' = [refs EXCEPT ![m] = n] /\ (managed[m] => n = copied[m])
  <2>1. copied[m] \in 0 .. MaxObservers /\ 0 \in 0 .. MaxObservers
    BY <1>1
  <2> QED
    BY <1>6, <2>1, Zenon
<1>8. /\ \A r \in Producers : m \notin Elements(batch[r]) /\ m \notin Elements(pushing[r])
      /\ \A c \in Consumers : m \notin Elements(got[c])
  BY <1>1 DEF IInv, Batches, Pushes, Takes
<1>9. \A q \in Queues : m \notin Items(ring[q])
  BY <1>1, RingStates DEF IInv
<1> QED
  BY <1>1, <1>2, <1>3, <1>5, <1>6, <1>7, <1>8, <1>9

LEMMA PostFill_IInv ==
  ASSUME IInv, NEW p \in Producers, PostFill(p), UNCHANGED batches
  PROVE  IInv'
<1>1. PICK m : m = pmsg[p]
  OBVIOUS
<1>2. /\ ppc[p] = "fill" /\ Fill(p)
      /\ state' = [state EXCEPT ![m] = "pushing"] /\ pushing' = [pushing EXCEPT ![p] = <<m>>]
      /\ ppc' = [ppc EXCEPT ![p] = "push"]
      /\ UNCHANGED <<count, written, adding, ring, home, copied, managed, target, cpc, source, got,
                     pos, heard, called, by, batch, batchedOn>>
  BY <1>1 DEF PostFill, batches, registry, consuming
<1>3. /\ m \in Messages /\ state[m] = "filling"
      /\ home[m] = target[p] /\ target[p] \in Queues
      /\ copied[m] \in 1 .. MaxObservers /\ called[m] = 0
      /\ torn' = {}
      /\ refs' \in [Messages -> 0 .. MaxObservers]
      /\ managed[m] => refs'[m] = copied[m]
      /\ \A k \in Messages : k # m => refs'[k] = refs[k]
      /\ pmsg' = [pmsg EXCEPT ![p] = None] /\ pmsg' \in [Producers -> Messages \cup {None}]
      /\ \A r \in Producers : m \notin Elements(batch[r]) /\ m \notin Elements(pushing[r])
      /\ \A c \in Consumers : m \notin Elements(got[c])
      /\ \A q \in Queues : m \notin Items(ring[q])
  <2>1. Filling(p)
    BY <1>2 DEF Filling
  <2> QED
    BY <1>1, <1>2, <2>1, FillFacts
<1>4. /\ state \in [Messages -> {"unused", "filling", "batched", "pushing", "queued", "taken", "done"}]
      /\ ppc \in [Producers -> {"idle", "fill", "fillBatched", "push", "publish"}]
      /\ pushing \in [Producers -> Seq(Messages)] /\ pmsg \in [Producers -> Messages \cup {None}]
  BY DEF IInv, TypeOK, Shapes
<1>5. /\ <<m>> \in Seq(Messages) /\ Len(<<m>>) = 1 /\ Unique(<<m>>) /\ Elements(<<m>>) = {m}
      /\ <<m>> # << >>
  BY <1>3, OneElement
<1>6. /\ state'[m] = "pushing" /\ \A k \in Messages : k # m => state'[k] = state[k]
      /\ pushing'[p] = <<m>> /\ \A r \in Producers : r # p => pushing'[r] = pushing[r]
      /\ ppc'[p] = "push" /\ \A r \in Producers : r # p => ppc'[r] = ppc[r] /\ pmsg'[r] = pmsg[r]
  BY <1>2, <1>3, <1>4
<1>7. TypeOK'
  <2>1. /\ state' \in [Messages -> {"unused", "filling", "batched", "pushing", "queued", "taken", "done"}]
        /\ ppc' \in [Producers -> {"idle", "fill", "fillBatched", "push", "publish"}]
    BY <1>2, <1>3, <1>4
  <2>2. \A r \in Producers : Len(pushing'[r]) <= BatchSize
    <3>1. 1 <= BatchSize /\ \A r \in Producers : Len(pushing[r]) <= BatchSize
      BY DEF IInv, TypeOK
    <3> QED
      BY <1>5, <1>6, <3>1
  <2>3. \A r \in Producers : (pushing'[r] # << >>) = (ppc'[r] \in {"push", "publish"})
    BY <1>5, <1>6 DEF IInv, TypeOK
  <2> QED
    BY <1>2, <1>3, <2>1, <2>2, <2>3 DEF IInv, TypeOK
<1>8. Registry' /\ SnapshotWhole'
  BY <1>2, <1>3 DEF IInv, Registry, SnapshotWhole
<1>9. Shapes'
  <2>1. pushing' \in [Producers -> Seq(Messages)]
    BY <1>2, <1>4, <1>5
  <2> QED
    BY <1>2, <2>1 DEF IInv, Shapes
<1>10. Fills'
  <2>1. \A r \in Producers : Filling(r)' => Filling(r) /\ r # p
    BY <1>6 DEF Filling
  <2>2. \A r \in Producers : Filling(r) /\ r # p => pmsg[r] # m
    BY <1>1, <1>2 DEF IInv, Fills, Filling
  <2> QED
    BY <1>2, <1>3, <1>6, <2>1, <2>2 DEF IInv, Fills
<1>11. Batches' /\ Rings' /\ Takes'
  BY <1>2, <1>3, <1>6, KeepBatches, KeepRings, KeepTakes DEF IInv
<1>12. Pushes'
  <2>1. Unclaimed(p)' = <<m>> /\ \A r \in Producers : r # p => Unclaimed(r)' = Unclaimed(r)
    BY <1>6 DEF Unclaimed
  <2>2. \A r \in Producers : \A k \in Elements(pushing[r]) : k # m /\ k \in Messages
    BY <1>3, Contents DEF IInv
  <2>3. \A r \in Producers : Unique(pushing'[r])
    BY <1>5, <1>6 DEF IInv, Pushes
  <2>4. \A r \in Producers : \A k \in Elements(pushing'[r]) : state'[k] = "pushing"
    BY <1>5, <1>6, <2>2 DEF IInv, Pushes
  <2>5. \A r, s \in Producers : \A k \in Elements(pushing'[r]) : k \in Elements(pushing'[s]) => r = s
    BY <1>5, <1>6, <2>2 DEF IInv, Pushes
  <2>6. \A r \in Producers, q \in Queues : \A k \in Elements(Unclaimed(r)') : k \notin Items(ring'[q])
    BY <1>2, <1>3, <1>5, <1>6, <2>1 DEF IInv, Pushes
  <2>7. \A r \in Producers : ppc'[r] = "publish" => Head(pushing'[r]) \in Stalled(ring'[target'[r]])
    BY <1>2, <1>6 DEF IInv, Pushes
  <2> QED
    BY <2>3, <2>4, <2>5, <2>6, <2>7 DEF Pushes
<1>13. Waits'
  BY <1>2, <1>3, <1>6 DEF IInv, Waits, Fresh, Owes
<1>14. Calls'
  <2>1. \A c \in Consumers : \A k \in Elements(got[c]) : k # m /\ k \in Messages
    BY <1>3, Contents DEF IInv
  <2> QED
    BY <1>2, <1>3, <2>1, KeepCalls DEF IInv, consuming
<1>15. Homes'
  <2>1. \A a, b : Mixed(a, b)' <=> Mixed(a, b)
    BY <1>2 DEF Mixed
  <2>2. \A r \in Producers : \A k \in Elements(pushing'[r]) : Mixed(home[k], target[r])
    BY <1>3, <1>5, <1>6 DEF IInv, Homes, Mixed
  <2>3. \A k \in Messages : state[k] # "unused" => state'[k] # "unused"
    BY <1>6
  <2> QED
    BY <1>2, <2>1, <2>2, <2>3 DEF IInv, Homes
<1> QED
  BY <1>7, <1>8, <1>9, <1>10, <1>11, <1>12, <1>13, <1>14, <1>15 DEF IInv

LEMMA PostBatched_IInv ==
  ASSUME IInv, NEW p \in Producers, PostBatched(p)
  PROVE  IInv'
<1>1. PICK m : m = pmsg[p]
  OBVIOUS
<1>2. /\ ppc[p] = "fillBatched" /\ Fill(p) /\ Len(batch[p]) + 1 < BatchSize
      /\ state' = [state EXCEPT ![m] = "batched"] /\ batch' = [batch EXCEPT ![p] = Append(@, m)]
      /\ ppc' = [ppc EXCEPT ![p] = "idle"] /\ target' = [target EXCEPT ![p] = None]
      /\ batchedOn' = [batchedOn EXCEPT ![p] = @ \cup {target[p]}]
      /\ UNCHANGED <<count, written, adding, ring, home, copied, managed, pushing, cpc, source, got,
                     pos, heard, called, by>>
  BY <1>1 DEF PostBatched, Buffer, registry, consuming
<1>3. /\ m \in Messages /\ state[m] = "filling"
      /\ home[m] = target[p] /\ target[p] \in Queues
      /\ copied[m] \in 1 .. MaxObservers /\ called[m] = 0
      /\ torn' = {}
      /\ refs' \in [Messages -> 0 .. MaxObservers]
      /\ managed[m] => refs'[m] = copied[m]
      /\ \A k \in Messages : k # m => refs'[k] = refs[k]
      /\ pmsg' = [pmsg EXCEPT ![p] = None] /\ pmsg' \in [Producers -> Messages \cup {None}]
      /\ \A r \in Producers : m \notin Elements(batch[r]) /\ m \notin Elements(pushing[r])
      /\ \A c \in Consumers : m \notin Elements(got[c])
      /\ \A q \in Queues : m \notin Items(ring[q])
  <2>1. Filling(p)
    BY <1>2 DEF Filling
  <2> QED
    BY <1>1, <1>2, <2>1, FillFacts
<1>4. /\ state \in [Messages -> {"unused", "filling", "batched", "pushing", "queued", "taken", "done"}]
      /\ ppc \in [Producers -> {"idle", "fill", "fillBatched", "push", "publish"}]
      /\ target \in [Producers -> Queues \cup {None}]
      /\ batch \in [Producers -> Seq(Messages)] /\ pmsg \in [Producers -> Messages \cup {None}]
      /\ batchedOn \in [Producers -> SUBSET Queues]
  BY DEF IInv, TypeOK, Shapes
<1>5. PICK all : all = Append(batch[p], m)
  OBVIOUS
<1>6. /\ all \in Seq(Messages) /\ Len(all) < BatchSize /\ Unique(all)
      /\ Elements(all) = Elements(batch[p]) \cup {m}
  <2>1. batch[p] \in Seq(Messages) /\ Unique(batch[p])
    BY <1>4 DEF IInv, Batches
  <2> QED
    BY <1>2, <1>3, <1>5, <2>1, AppendElements
<1>7. /\ state'[m] = "batched" /\ \A k \in Messages : k # m => state'[k] = state[k]
      /\ batch'[p] = all /\ \A r \in Producers : r # p => batch'[r] = batch[r]
      /\ ppc'[p] = "idle" /\ target'[p] = None /\ batchedOn'[p] = batchedOn[p] \cup {target[p]}
      /\ \A r \in Producers : r # p =>
           ppc'[r] = ppc[r] /\ pmsg'[r] = pmsg[r] /\ target'[r] = target[r] /\ batchedOn'[r] = batchedOn[r]
  BY <1>2, <1>3, <1>4, <1>5
<1>8. pushing[p] = << >>
  BY <1>2 DEF IInv, TypeOK
<1>9. TypeOK'
  <2>1. /\ state' \in [Messages -> {"unused", "filling", "batched", "pushing", "queued", "taken", "done"}]
        /\ ppc' \in [Producers -> {"idle", "fill", "fillBatched", "push", "publish"}]
        /\ target' \in [Producers -> Queues \cup {None}]
    BY <1>2, <1>3, <1>4
  <2>2. \A r \in Producers : Len(batch'[r]) < BatchSize
    <3>1. \A r \in Producers : Len(batch[r]) < BatchSize
      BY DEF IInv, TypeOK
    <3> QED
      BY <1>6, <1>7, <3>1
  <2>3. \A r \in Producers : (pushing'[r] # << >>) = (ppc'[r] \in {"push", "publish"})
    BY <1>2, <1>7, <1>8 DEF IInv, TypeOK
  <2> QED
    BY <1>2, <1>3, <2>1, <2>2, <2>3 DEF IInv, TypeOK
<1>10. Registry' /\ SnapshotWhole'
  BY <1>2, <1>3 DEF IInv, Registry, SnapshotWhole
<1>11. Shapes'
  <2>1. batch' \in [Producers -> Seq(Messages)] /\ batchedOn' \in [Producers -> SUBSET Queues]
    BY <1>2, <1>3, <1>4, <1>5, <1>6
  <2>2. \A r \in Producers : IsFiniteSet(batchedOn'[r])
    <3>1. \A r \in Producers : IsFiniteSet(batchedOn[r])
      BY DEF IInv, Shapes
    <3>2. IsFiniteSet(batchedOn[p] \cup {target[p]})
      BY <3>1, FS_AddElement
    <3> QED
      BY <1>7, <3>1, <3>2
  <2> QED
    BY <1>2, <2>1, <2>2 DEF IInv, Shapes
<1>12. Fills'
  <2>1. \A r \in Producers : Filling(r)' => Filling(r) /\ r # p
    BY <1>7 DEF Filling
  <2>2. \A r \in Producers : Filling(r) /\ r # p => pmsg[r] # m
    BY <1>1, <1>2 DEF IInv, Fills, Filling
  <2> QED
    BY <1>2, <1>3, <1>7, <2>1, <2>2 DEF IInv, Fills
<1>13. Rings' /\ Takes'
  BY <1>2, <1>3, <1>7, KeepRings, KeepTakes DEF IInv
<1>14. Batches'
  <2>1. \A r \in Producers : \A k \in Elements(batch[r]) : k # m /\ k \in Messages
    BY <1>3, Contents DEF IInv
  <2>2. \A r \in Producers : Unique(batch'[r])
    BY <1>6, <1>7 DEF IInv, Batches
  <2>3. \A r \in Producers : \A k \in Elements(batch'[r]) : state'[k] = "batched"
    BY <1>6, <1>7, <2>1 DEF IInv, Batches
  <2>4. \A r, s \in Producers : \A k \in Elements(batch'[r]) : k \in Elements(batch'[s]) => r = s
    BY <1>6, <1>7, <2>1 DEF IInv, Batches
  <2> QED
    BY <2>2, <2>3, <2>4 DEF Batches
<1>15. Pushes'
  BY <1>2, <1>3, <1>7, KeepPushes DEF IInv
<1>16. Waits'
  BY <1>2, <1>3, <1>7 DEF IInv, Waits, Fresh, Owes
<1>17. Calls'
  <2>1. \A c \in Consumers : \A k \in Elements(got[c]) : k # m /\ k \in Messages
    BY <1>3, Contents DEF IInv
  <2> QED
    BY <1>2, <1>3, <2>1, KeepCalls DEF IInv, consuming
<1>18. Homes'
  <2>1. \A a, b : Mixed(a, b) => Mixed(a, b)'
    BY <1>4, <1>7, MixedGrows
  <2>2. \A r \in Producers : \A k \in Elements(batch'[r]) : home[k] \in batchedOn'[r]
    BY <1>3, <1>6, <1>7 DEF IInv, Homes
  <2>3. \A r \in Producers : \A k \in Elements(pushing[r]) : Mixed(home[k], target[r])'
    <3>1. \A k : k \notin Elements(pushing[p])
      BY <1>8, NoElements
    <3>2. \A r \in Producers : \A k \in Elements(pushing[r]) : Mixed(home[k], target[r]) /\ r # p
      BY <3>1 DEF IInv, Homes
    <3>3. SUFFICES ASSUME NEW r \in Producers, NEW k \in Elements(pushing[r])
                   PROVE  Mixed(home[k], target[r])'
      OBVIOUS
    <3>4. home'[k] = home[k] /\ target'[r] = target[r] /\ Mixed(home[k], target[r])
      BY <1>2, <1>7, <3>2
    <3> QED
      BY <2>1, <3>4 DEF Mixed
  <2>4. \A k \in Messages : state[k] # "unused" => state'[k] # "unused"
    BY <1>7
  <2>5. \A q \in Queues : \A k \in Items(ring[q]) : Mixed(home[k], q)'
    BY <1>2, <2>1 DEF IInv, Homes, Mixed
  <2>6. \A k \in Messages : by[k] = None \/ (Mixed(home[k], by[k])' /\ state'[k] # "unused")
    BY <1>2, <2>1, <2>4 DEF IInv, Homes, Mixed
  <2> QED
    BY <1>2, <2>2, <2>3, <2>5, <2>6 DEF Homes, Mixed
<1> QED
  BY <1>9, <1>10, <1>11, <1>12, <1>13, <1>14, <1>15, <1>16, <1>17, <1>18 DEF IInv

\* A buffer that is flushed moves as it is to what its thread pushes.
LEMMA Flushed ==
  ASSUME IInv, NEW p \in Producers, ppc[p] \notin {"push", "publish"},
         NEW all \in Seq(Messages), all # << >>, Unique(all), Len(all) <= BatchSize,
         \A k \in Elements(all) : k \in Elements(batch[p]) \/ state[k] = "filling",
         state' = [m \in Messages |-> IF m \in Elements(all) THEN "pushing" ELSE state[m]],
         pushing' = [pushing EXCEPT ![p] = all], batch' = [batch EXCEPT ![p] = << >>],
         ppc' = [ppc EXCEPT ![p] = "push"], UNCHANGED <<ring, got>>,
         \A r \in Producers : r # p => target'[r] = target[r]
  PROVE  /\ Batches' /\ Pushes' /\ Rings' /\ Takes'
         /\ state' \in [Messages -> {"unused", "filling", "batched", "pushing", "queued", "taken", "done"}]
         /\ ppc' \in [Producers -> {"idle", "fill", "fillBatched", "push", "publish"}]
         /\ \A r \in Producers : Len(batch'[r]) < BatchSize /\ Len(pushing'[r]) <= BatchSize
         /\ \A r \in Producers : (pushing'[r] # << >>) = (ppc'[r] \in {"push", "publish"})
         /\ batch' \in [Producers -> Seq(Messages)] /\ pushing' \in [Producers -> Seq(Messages)]
         /\ \A k \in Elements(all) : k \in Messages /\ state'[k] = "pushing" /\ state[k] \in {"batched", "filling"}
         /\ \A k \in Messages : k \notin Elements(all) => state'[k] = state[k]
         /\ pushing'[p] = all /\ batch'[p] = << >> /\ ppc'[p] = "push"
         /\ \A r \in Producers : r # p => pushing'[r] = pushing[r] /\ batch'[r] = batch[r] /\ ppc'[r] = ppc[r]
<1>1. /\ state \in [Messages -> {"unused", "filling", "batched", "pushing", "queued", "taken", "done"}]
      /\ ppc \in [Producers -> {"idle", "fill", "fillBatched", "push", "publish"}]
      /\ pushing \in [Producers -> Seq(Messages)] /\ batch \in [Producers -> Seq(Messages)]
      /\ \A r \in Producers : Len(batch[r]) < BatchSize /\ Len(pushing[r]) <= BatchSize
      /\ \A r \in Producers : (pushing[r] # << >>) = (ppc[r] \in {"push", "publish"})
  BY DEF IInv, TypeOK, Shapes
<1>2. \A k \in Elements(all) : k \in Messages /\ state[k] \in {"batched", "filling"}
  BY SeqFacts DEF IInv, Batches
<1>3. /\ \A k \in Elements(all) : state'[k] = "pushing"
      /\ \A k \in Messages : k \notin Elements(all) => state'[k] = state[k]
      /\ pushing'[p] = all /\ batch'[p] = << >> /\ ppc'[p] = "push"
      /\ \A r \in Producers : r # p => pushing'[r] = pushing[r] /\ batch'[r] = batch[r] /\ ppc'[r] = ppc[r]
  BY <1>1, <1>2
<1>4. \A r \in Producers : \A k \in Elements(batch[r]) : k \in Messages /\ (r # p => k \notin Elements(all))
  <2> SUFFICES ASSUME NEW r \in Producers, NEW k \in Elements(batch[r]), r # p, k \in Elements(all)
               PROVE  FALSE
    BY Contents DEF IInv
  <2>1. k \in Messages /\ state[k] = "batched"
    BY Contents DEF IInv, Batches
  <2> QED
    BY <2>1 DEF IInv, Batches
<1>5. /\ \A r \in Producers : \A k \in Elements(pushing[r]) : k \in Messages /\ k \notin Elements(all)
      /\ \A c \in Consumers : \A k \in Elements(got[c]) : k \in Messages /\ k \notin Elements(all)
      /\ \A q \in Queues : \A k \in Items(ring[q]) : k \notin Elements(all)
  <2>1. \A r \in Producers : \A k \in Elements(pushing[r]) : k \in Messages /\ k \notin Elements(all)
    BY <1>2, Contents DEF IInv, Pushes
  <2>2. \A c \in Consumers : \A k \in Elements(got[c]) : k \in Messages /\ k \notin Elements(all)
    BY <1>2, Contents DEF IInv, Takes
  <2>3. \A q \in Queues : \A k \in Items(ring[q]) : k \notin Elements(all)
    BY <1>2, RingStates DEF IInv
  <2> QED
    BY <2>1, <2>2, <2>3
<1>6. Batches'
  <2>1. \A r \in Producers : Unique(batch'[r])
    BY <1>3, NoElements DEF IInv, Batches
  <2>2. \A r \in Producers : \A k \in Elements(batch'[r]) : r # p /\ k \in Elements(batch[r])
    BY <1>3, NoElements
  <2>3. \A r \in Producers : \A k \in Elements(batch'[r]) : state'[k] = "batched"
    BY <1>3, <1>4, <2>2 DEF IInv, Batches
  <2>4. \A r, s \in Producers : \A k \in Elements(batch'[r]) : k \in Elements(batch'[s]) => r = s
    BY <2>2 DEF IInv, Batches
  <2> QED
    BY <2>1, <2>3, <2>4 DEF Batches
<1>7. Pushes'
  <2>1. Unclaimed(p)' = all /\ \A r \in Producers : r # p => Unclaimed(r)' = Unclaimed(r)
    BY <1>3 DEF Unclaimed
  <2>2. \A r \in Producers : Unique(pushing'[r])
    BY <1>3 DEF IInv, Pushes
  <2>3. \A r \in Producers : \A k \in Elements(pushing'[r]) : state'[k] = "pushing"
    BY <1>3, <1>5 DEF IInv, Pushes
  <2>4. \A r, s \in Producers : \A k \in Elements(pushing'[r]) : k \in Elements(pushing'[s]) => r = s
    BY <1>3, <1>5 DEF IInv, Pushes
  <2>5. \A r \in Producers, q \in Queues : \A k \in Elements(Unclaimed(r)') : k \notin Items(ring'[q])
    BY <1>3, <1>5, <2>1 DEF IInv, Pushes
  <2>6. \A r \in Producers : ppc'[r] = "publish" => Head(pushing'[r]) \in Stalled(ring'[target'[r]])
    BY <1>3 DEF IInv, Pushes
  <2> QED
    BY <2>2, <2>3, <2>4, <2>5, <2>6 DEF Pushes
<1>8. \A k \in Messages : state[k] \in {"pushing", "queued", "taken"} => state'[k] = state[k]
  BY <1>2, <1>3
<1>9. Rings' /\ Takes'
  BY <1>8, KeepRings, KeepTakes DEF IInv
<1>10. /\ state' \in [Messages -> {"unused", "filling", "batched", "pushing", "queued", "taken", "done"}]
       /\ ppc' \in [Producers -> {"idle", "fill", "fillBatched", "push", "publish"}]
       /\ batch' \in [Producers -> Seq(Messages)] /\ pushing' \in [Producers -> Seq(Messages)]
  BY <1>1, NoElements
<1>11. \A r \in Producers : Len(batch'[r]) < BatchSize /\ Len(pushing'[r]) <= BatchSize
  <2>1. 0 < BatchSize /\ Len(batch'[p]) = 0
    BY <1>3, NoElements
  <2> QED
    BY <1>1, <1>3, <2>1
<1>12. \A r \in Producers : (pushing'[r] # << >>) = (ppc'[r] \in {"push", "publish"})
  BY <1>1, <1>3
<1> QED
  BY <1>2, <1>3, <1>6, <1>7, <1>9, <1>10, <1>11, <1>12

LEMMA PostBatchedFull_IInv ==
  ASSUME IInv, NEW p \in Producers, PostBatchedFull(p)
  PROVE  IInv'
<1>1. PICK m : m = pmsg[p]
  OBVIOUS
<1>2. PICK all : all = Append(batch[p], m)
  OBVIOUS
<1>3. /\ ppc[p] = "fillBatched" /\ Fill(p) /\ Len(all) >= BatchSize
      /\ state' = [k \in Messages |-> IF k \in Elements(all) THEN "pushing" ELSE state[k]]
      /\ pushing' = [pushing EXCEPT ![p] = all] /\ batch' = [batch EXCEPT ![p] = << >>]
      /\ ppc' = [ppc EXCEPT ![p] = "push"]
      /\ batchedOn' = [batchedOn EXCEPT ![p] = @ \cup {target[p]}]
      /\ UNCHANGED <<count, written, adding, ring, home, copied, managed, target, cpc, source, got,
                     pos, heard, called, by>>
  BY <1>1, <1>2 DEF PostBatchedFull, Buffer, registry, consuming
<1>4. /\ m \in Messages /\ state[m] = "filling"
      /\ home[m] = target[p] /\ target[p] \in Queues
      /\ copied[m] \in 1 .. MaxObservers /\ called[m] = 0
      /\ torn' = {}
      /\ refs' \in [Messages -> 0 .. MaxObservers]
      /\ managed[m] => refs'[m] = copied[m]
      /\ \A k \in Messages : k # m => refs'[k] = refs[k]
      /\ pmsg' = [pmsg EXCEPT ![p] = None] /\ pmsg' \in [Producers -> Messages \cup {None}]
      /\ \A r \in Producers : m \notin Elements(batch[r]) /\ m \notin Elements(pushing[r])
      /\ \A c \in Consumers : m \notin Elements(got[c])
      /\ \A q \in Queues : m \notin Items(ring[q])
  <2>1. Filling(p)
    BY <1>3 DEF Filling
  <2> QED
    BY <1>1, <1>3, <2>1, FillFacts
<1>5. /\ batch \in [Producers -> Seq(Messages)] /\ batchedOn \in [Producers -> SUBSET Queues]
      /\ pmsg \in [Producers -> Messages \cup {None}]
  BY DEF IInv, TypeOK, Shapes
<1>6. /\ all \in Seq(Messages) /\ Len(all) <= BatchSize /\ all # << >> /\ Unique(all)
      /\ Elements(all) = Elements(batch[p]) \cup {m}
  <2>1. batch[p] \in Seq(Messages) /\ Unique(batch[p]) /\ Len(batch[p]) < BatchSize
    BY <1>5 DEF IInv, Batches, TypeOK
  <2>2. Len(all) = Len(batch[p]) + 1 /\ Len(batch[p]) \in Nat /\ all \in Seq(Messages)
    BY <1>2, <1>4, <2>1, AppendElements, SeqFacts
  <2> QED
    BY <1>2, <1>4, <2>1, <2>2, AppendElements
<1>7. ppc[p] \notin {"push", "publish"} /\ \A k \in Elements(all) : k \in Elements(batch[p]) \/ state[k] = "filling"
  BY <1>3, <1>4, <1>6
<1>8. /\ Batches' /\ Pushes' /\ Rings' /\ Takes'
      /\ state' \in [Messages -> {"unused", "filling", "batched", "pushing", "queued", "taken", "done"}]
      /\ ppc' \in [Producers -> {"idle", "fill", "fillBatched", "push", "publish"}]
      /\ \A r \in Producers : Len(batch'[r]) < BatchSize /\ Len(pushing'[r]) <= BatchSize
      /\ \A r \in Producers : (pushing'[r] # << >>) = (ppc'[r] \in {"push", "publish"})
      /\ batch' \in [Producers -> Seq(Messages)] /\ pushing' \in [Producers -> Seq(Messages)]
      /\ \A k \in Elements(all) : k \in Messages /\ state'[k] = "pushing" /\ state[k] \in {"batched", "filling"}
      /\ \A k \in Messages : k \notin Elements(all) => state'[k] = state[k]
      /\ pushing'[p] = all /\ batch'[p] = << >> /\ ppc'[p] = "push"
      /\ \A r \in Producers : r # p => pushing'[r] = pushing[r] /\ batch'[r] = batch[r] /\ ppc'[r] = ppc[r]
  BY <1>3, <1>6, <1>7, Flushed
<1>9. /\ batchedOn'[p] = batchedOn[p] \cup {target[p]}
      /\ \A r \in Producers : r # p => pmsg'[r] = pmsg[r] /\ batchedOn'[r] = batchedOn[r]
  BY <1>3, <1>4, <1>5
<1>10. TypeOK'
  BY <1>3, <1>4, <1>8 DEF IInv, TypeOK
<1>11. Registry' /\ SnapshotWhole'
  BY <1>3, <1>4 DEF IInv, Registry, SnapshotWhole
<1>12. Shapes'
  <2>1. batchedOn' \in [Producers -> SUBSET Queues]
    BY <1>3, <1>4, <1>5
  <2>2. \A r \in Producers : IsFiniteSet(batchedOn'[r])
    <3>1. \A r \in Producers : IsFiniteSet(batchedOn[r])
      BY DEF IInv, Shapes
    <3>2. IsFiniteSet(batchedOn[p] \cup {target[p]})
      BY <3>1, FS_AddElement
    <3> QED
      BY <1>9, <3>1, <3>2
  <2> QED
    BY <1>3, <1>8, <2>1, <2>2 DEF IInv, Shapes
<1>13. Fills'
  <2>1. \A r \in Producers : Filling(r)' => Filling(r) /\ r # p
    BY <1>8 DEF Filling
  <2>2. \A r \in Producers : Filling(r) /\ r # p => pmsg[r] # m
    BY <1>1, <1>3 DEF IInv, Fills, Filling
  <2>3. \A r \in Producers : Filling(r) /\ r # p => pmsg[r] \in Messages /\ pmsg[r] \notin Elements(all)
    <3>1. \A r \in Producers : Filling(r) => pmsg[r] \in Messages /\ state[pmsg[r]] = "filling"
      BY DEF IInv, Fills
    <3>2. \A k \in Elements(batch[p]) : state[k] = "batched"
      BY DEF IInv, Batches
    <3> QED
      BY <1>6, <2>2, <3>1, <3>2
  <2>4. \A r \in Producers : Filling(r)' =>
          /\ pmsg'[r] \in Messages /\ state'[pmsg'[r]] = "filling"
          /\ home'[pmsg'[r]] = target'[r]
    BY <1>3, <1>8, <1>9, <2>1, <2>3 DEF IInv, Fills
  <2>5. \A r, s \in Producers : Filling(r)' /\ Filling(s)' /\ pmsg'[r] = pmsg'[s] => r = s
    BY <1>9, <2>1 DEF IInv, Fills
  <2>6. \A r \in Producers : ppc'[r] # "idle" => target'[r] \in Queues
    BY <1>3, <1>4, <1>8 DEF IInv, Fills
  <2>7. \A k \in Messages : state'[k] = "filling" =>
          home'[k] \in Queues /\ copied'[k] \in 1 .. MaxObservers /\ copied'[k] <= count'[home'[k]]
    BY <1>3, <1>8 DEF IInv, Fills
  <2> QED
    BY <2>4, <2>5, <2>6, <2>7 DEF Fills
<1>14. Waits'
  <2>1. \A k \in Elements(all) : k = m \/ (k # m /\ Fresh(k))
    BY <1>6, <1>8 DEF IInv, Waits, Batches
  <2>2. Fresh(m)' /\ \A k \in Messages : k # m /\ Fresh(k) => Fresh(k)'
    BY <1>3, <1>4 DEF Fresh, Owes
  <2>3. \A k \in Messages : k \in Elements(all) => Fresh(k)' /\ state'[k] = "pushing"
    BY <1>8, <2>1, <2>2
  <2>4. \A k \in Messages : k \notin Elements(all) => k # m /\ state'[k] = state[k]
    BY <1>6, <1>8
  <2> QED
    BY <1>3, <2>2, <2>3, <2>4 DEF IInv, Waits
<1>15. Calls'
  <2>1. \A c \in Consumers : \A k \in Elements(got[c]) : k # m /\ k \in Messages
    BY <1>4, Contents DEF IInv
  <2> QED
    BY <1>3, <1>4, <2>1, KeepCalls DEF IInv, consuming
<1>16. Homes'
  <2>1. \A a, b : Mixed(a, b) => Mixed(a, b)'
    BY <1>5, <1>9, MixedGrows
  <2>2. \A r \in Producers : \A k \in Elements(batch'[r]) : home[k] \in batchedOn'[r]
    BY <1>8, <1>9, NoElements DEF IInv, Homes
  <2>3. \A r \in Producers : \A k \in Elements(pushing'[r]) : Mixed(home[k], target[r])'
    <3>1. SUFFICES ASSUME NEW r \in Producers, NEW k \in Elements(pushing'[r])
                   PROVE  Mixed(home[k], target[r])'
      OBVIOUS
    <3>2. CASE r = p
      <4>1. home[k] \in batchedOn'[p] /\ target[p] \in batchedOn'[p]
        BY <1>4, <1>6, <1>8, <1>9, <3>1, <3>2 DEF IInv, Homes
      <4> QED
        BY <1>3, <3>2, <4>1 DEF Mixed
    <3>3. CASE r # p
      <4>1. Mixed(home[k], target[r])
        BY <1>8, <3>1, <3>3 DEF IInv, Homes
      <4> QED
        BY <1>3, <2>1, <4>1 DEF Mixed
    <3> QED
      BY <3>2, <3>3
  <2>4. \A k \in Messages : state[k] # "unused" => state'[k] # "unused"
    BY <1>8
  <2>5. \A q \in Queues : \A k \in Items(ring[q]) : Mixed(home[k], q)'
    BY <1>3, <2>1 DEF IInv, Homes, Mixed
  <2>6. \A k \in Messages : by[k] = None \/ (Mixed(home[k], by[k])' /\ state'[k] # "unused")
    BY <1>3, <2>1, <2>4 DEF IInv, Homes, Mixed
  <2> QED
    BY <1>3, <2>2, <2>3, <2>5, <2>6 DEF Homes, Mixed
<1> QED
  BY <1>8, <1>10, <1>11, <1>12, <1>13, <1>14, <1>15, <1>16 DEF IInv

LEMMA FlushBatch_IInv ==
  ASSUME IInv, NEW p \in Producers, NEW q \in Queues, FlushBatch(p, q)
  PROVE  IInv'
<1>1. PICK all : all = batch[p]
  OBVIOUS
<1>2. /\ ppc[p] = "idle" /\ all # << >>
      /\ state' = [k \in Messages |-> IF k \in Elements(all) THEN "pushing" ELSE state[k]]
      /\ pushing' = [pushing EXCEPT ![p] = all] /\ batch' = [batch EXCEPT ![p] = << >>]
      /\ ppc' = [ppc EXCEPT ![p] = "push"] /\ target' = [target EXCEPT ![p] = q]
      /\ batchedOn' = [batchedOn EXCEPT ![p] = @ \cup {q}]
      /\ UNCHANGED <<count, written, adding, ring, home, copied, managed, torn, refs, pmsg, cpc, source,
                     got, pos, heard, called, by>>
  BY <1>1 DEF FlushBatch, registry, message, consuming
<1>3. /\ batch \in [Producers -> Seq(Messages)] /\ batchedOn \in [Producers -> SUBSET Queues]
      /\ target \in [Producers -> Queues \cup {None}]
  BY DEF IInv, TypeOK, Shapes
<1>4. /\ all \in Seq(Messages) /\ Len(all) <= BatchSize /\ Unique(all)
      /\ \A k \in Elements(all) : k \in Elements(batch[p]) /\ state[k] = "batched"
  <2>1. batch[p] \in Seq(Messages) /\ Unique(batch[p]) /\ Len(batch[p]) < BatchSize
    BY <1>3 DEF IInv, Batches, TypeOK
  <2>2. Len(batch[p]) \in Nat
    BY <2>1, SeqFacts
  <2> QED
    BY <1>1, <2>1, <2>2 DEF IInv, Batches
<1>5. ppc[p] \notin {"push", "publish"} /\ \A r \in Producers : r # p => target'[r] = target[r]
  BY <1>2, <1>3
<1>6. /\ Batches' /\ Pushes' /\ Rings' /\ Takes'
      /\ state' \in [Messages -> {"unused", "filling", "batched", "pushing", "queued", "taken", "done"}]
      /\ ppc' \in [Producers -> {"idle", "fill", "fillBatched", "push", "publish"}]
      /\ \A r \in Producers : Len(batch'[r]) < BatchSize /\ Len(pushing'[r]) <= BatchSize
      /\ \A r \in Producers : (pushing'[r] # << >>) = (ppc'[r] \in {"push", "publish"})
      /\ batch' \in [Producers -> Seq(Messages)] /\ pushing' \in [Producers -> Seq(Messages)]
      /\ \A k \in Elements(all) : k \in Messages /\ state'[k] = "pushing" /\ state[k] \in {"batched", "filling"}
      /\ \A k \in Messages : k \notin Elements(all) => state'[k] = state[k]
      /\ pushing'[p] = all /\ batch'[p] = << >> /\ ppc'[p] = "push"
      /\ \A r \in Producers : r # p => pushing'[r] = pushing[r] /\ batch'[r] = batch[r] /\ ppc'[r] = ppc[r]
  BY <1>2, <1>4, <1>5, Flushed
<1>7. /\ batchedOn'[p] = batchedOn[p] \cup {q} /\ target'[p] = q
      /\ \A r \in Producers : r # p => batchedOn'[r] = batchedOn[r]
  BY <1>2, <1>3
<1>8. TypeOK'
  <2>1. target' \in [Producers -> Queues \cup {None}]
    BY <1>2, <1>3
  <2> QED
    BY <1>2, <1>6, <2>1 DEF IInv, TypeOK
<1>9. Registry' /\ SnapshotWhole'
  BY <1>2 DEF IInv, Registry, SnapshotWhole
<1>10. Shapes'
  <2>1. batchedOn' \in [Producers -> SUBSET Queues]
    BY <1>2, <1>3
  <2>2. \A r \in Producers : IsFiniteSet(batchedOn'[r])
    <3>1. \A r \in Producers : IsFiniteSet(batchedOn[r])
      BY DEF IInv, Shapes
    <3>2. IsFiniteSet(batchedOn[p] \cup {q})
      BY <3>1, FS_AddElement
    <3> QED
      BY <1>7, <3>1, <3>2
  <2> QED
    BY <1>2, <1>6, <2>1, <2>2 DEF IInv, Shapes
<1>11. Fills'
  <2>1. \A r \in Producers : Filling(r)' => Filling(r) /\ r # p
    BY <1>6 DEF Filling
  <2>2. \A r \in Producers : Filling(r) => pmsg[r] \in Messages /\ pmsg[r] \notin Elements(all)
    BY <1>4 DEF IInv, Fills
  <2>3. \A r \in Producers : Filling(r)' =>
          /\ pmsg'[r] \in Messages /\ state'[pmsg'[r]] = "filling"
          /\ home'[pmsg'[r]] = target'[r]
    BY <1>2, <1>5, <1>6, <2>1, <2>2 DEF IInv, Fills
  <2>4. \A r, s \in Producers : Filling(r)' /\ Filling(s)' /\ pmsg'[r] = pmsg'[s] => r = s
    BY <1>2, <2>1 DEF IInv, Fills
  <2>5. \A r \in Producers : ppc'[r] # "idle" => target'[r] \in Queues
    BY <1>5, <1>6, <1>7 DEF IInv, Fills
  <2>6. \A k \in Messages : state'[k] = "filling" =>
          home'[k] \in Queues /\ copied'[k] \in 1 .. MaxObservers /\ copied'[k] <= count'[home'[k]]
    BY <1>2, <1>6 DEF IInv, Fills
  <2> QED
    BY <2>3, <2>4, <2>5, <2>6 DEF Fills
<1>12. Waits'
  BY <1>2, <1>4, <1>6, KeepWaits DEF IInv
<1>13. Calls'
  BY <1>2, KeepCalls DEF IInv, consuming
<1>14. Homes'
  <2>1. \A a, b : Mixed(a, b) => Mixed(a, b)'
    BY <1>3, <1>7, MixedGrows
  <2>2. \A r \in Producers : \A k \in Elements(batch'[r]) : home[k] \in batchedOn'[r]
    BY <1>6, <1>7, NoElements DEF IInv, Homes
  <2>3. \A r \in Producers : \A k \in Elements(pushing'[r]) : Mixed(home[k], target[r])'
    <3>1. SUFFICES ASSUME NEW r \in Producers, NEW k \in Elements(pushing'[r])
                   PROVE  Mixed(home[k], target[r])'
      OBVIOUS
    <3>2. CASE r = p
      <4>1. home[k] \in batchedOn'[p] /\ target'[p] \in batchedOn'[p]
        BY <1>4, <1>6, <1>7, <3>1, <3>2 DEF IInv, Homes
      <4> QED
        BY <1>2, <3>2, <4>1 DEF Mixed
    <3>3. CASE r # p
      <4>1. Mixed(home[k], target[r]) /\ target'[r] = target[r]
        BY <1>5, <1>6, <3>1, <3>3 DEF IInv, Homes
      <4> QED
        BY <1>2, <2>1, <4>1 DEF Mixed
    <3> QED
      BY <3>2, <3>3
  <2>4. \A k \in Messages : state[k] # "unused" => state'[k] # "unused"
    BY <1>6
  <2>5. \A r \in Queues : \A k \in Items(ring[r]) : Mixed(home[k], r)'
    BY <1>2, <2>1 DEF IInv, Homes, Mixed
  <2>6. \A k \in Messages : by[k] = None \/ (Mixed(home[k], by[k])' /\ state'[k] # "unused")
    BY <1>2, <2>1, <2>4 DEF IInv, Homes, Mixed
  <2> QED
    BY <1>2, <2>2, <2>3, <2>5, <2>6 DEF Homes, Mixed
<1> QED
  BY <1>6, <1>8, <1>9, <1>10, <1>11, <1>12, <1>13, <1>14 DEF IInv

\* What a producer has not claimed yet is among what it pushes.
LEMMA UnclaimedIsPushed ==
  ASSUME IInv, NEW p \in Producers
  PROVE  /\ pushing[p] \in Seq(Messages) /\ Unique(pushing[p])
         /\ ppc[p] \in {"push", "publish"} => pushing[p] # << >> /\ target[p] \in Queues
         /\ \A k \in Elements(Unclaimed(p)) : k \in Elements(pushing[p])
<1>1. pushing[p] \in Seq(Messages) /\ Unique(pushing[p])
  BY DEF IInv, Shapes, Pushes
<1>2. ppc[p] \in {"push", "publish"} => pushing[p] # << >> /\ target[p] \in Queues
  BY DEF IInv, TypeOK, Fills
<1>3. \A k \in Elements(Unclaimed(p)) : k \in Elements(pushing[p])
  BY <1>1, <1>2, TailElements DEF Unclaimed
<1> QED
  BY <1>1, <1>2, <1>3

LEMMA PushClaim_IInv ==
  ASSUME IInv, NEW p \in Producers, PushClaim(p), UNCHANGED batches
  PROVE  IInv'
<1>1. PICK m : m = Head(pushing[p])
  OBVIOUS
<1>2. PICK q : q = target[p]
  OBVIOUS
<1>3. /\ ppc[p] = "push" /\ Len(ring[q]) < Capacity
      /\ ring' = [ring EXCEPT ![q] = Claim(@, m)] /\ ppc' = [ppc EXCEPT ![p] = "publish"]
      /\ UNCHANGED <<count, written, adding, state, home, copied, managed, torn, refs, pmsg, target,
                     pushing, cpc, source, got, pos, heard, called, by, batch, batchedOn>>
  BY <1>1, <1>2 DEF PushClaim, registry, message, consuming, batches
<1>4. /\ pushing[p] \in Seq(Messages) /\ Unique(pushing[p]) /\ pushing[p] # << >> /\ q \in Queues
      /\ Unclaimed(p) = pushing[p]
  BY <1>2, <1>3, UnclaimedIsPushed DEF Unclaimed
<1>5. /\ m \in Messages /\ m \in Elements(pushing[p]) /\ m \notin Elements(Tail(pushing[p]))
      /\ \A k \in Elements(Tail(pushing[p])) : k \in Elements(pushing[p])
  BY <1>1, <1>4, TailElements
<1>6. state[m] = "pushing" /\ \A r \in Queues : m \notin Items(ring[r])
  BY <1>4, <1>5 DEF IInv, Pushes
<1>7. ring \in [Queues -> Seq(Entries)] /\ ppc \in [Producers -> {"idle", "fill", "fillBatched", "push", "publish"}]
  BY DEF IInv, TypeOK, Shapes
<1>8. /\ ring'[q] \in Seq(Entries) /\ Distinct(ring'[q]) /\ Len(ring'[q]) = Len(ring[q]) + 1
      /\ Items(ring'[q]) = Items(ring[q]) \cup {m} /\ Ready(ring'[q]) = Ready(ring[q])
      /\ Stalled(ring'[q]) = Stalled(ring[q]) \cup {m}
  <2>1. ring[q] \in Seq(Entries) /\ Distinct(ring[q]) /\ m \notin Items(ring[q])
    BY <1>4, <1>6, <1>7 DEF IInv, Rings
  <2>2. ring'[q] = Claim(ring[q], m)
    BY <1>3, <1>4, <1>7
  <2> QED
    BY <1>5, <2>1, <2>2, ClaimRing
<1>9. /\ \A r \in Queues : r # q => ring'[r] = ring[r]
      /\ ppc'[p] = "publish" /\ \A r \in Producers : r # p => ppc'[r] = ppc[r]
  BY <1>3, <1>7
<1>10. TypeOK'
  <2>1. \A k \in DOMAIN ring'[q] : ring'[q][k] \in [item : Messages, ready : BOOLEAN]
    <3>1. \A k \in DOMAIN ring'[q] : ring'[q][k] \in Entries
      BY <1>8, RingFacts
    <3> QED
      BY <3>1 DEF Entries
  <2>2. Len(ring'[q]) <= Capacity
    <3>1. Len(ring[q]) \in Nat
      BY <1>4, <1>7
    <3> QED
      BY <1>3, <1>8, <3>1
  <2>3. \A r \in Queues : /\ Len(ring'[r]) <= Capacity
                          /\ \A k \in DOMAIN ring'[r] : ring'[r][k] \in [item : Messages, ready : BOOLEAN]
    BY <1>9, <2>1, <2>2 DEF IInv, TypeOK
  <2>4. ppc' \in [Producers -> {"idle", "fill", "fillBatched", "push", "publish"}]
    BY <1>3, <1>7
  <2>5. \A r \in Producers : (pushing'[r] # << >>) = (ppc'[r] \in {"push", "publish"})
    BY <1>3, <1>9 DEF IInv, TypeOK
  <2> QED
    BY <1>3, <2>3, <2>4, <2>5 DEF IInv, TypeOK
<1>11. Registry' /\ SnapshotWhole'
  BY <1>3 DEF IInv, Registry, SnapshotWhole
<1>12. Shapes'
  <2>1. ring' \in [Queues -> Seq(Entries)]
    BY <1>3, <1>7, <1>8, <1>9
  <2> QED
    BY <1>3, <2>1 DEF IInv, Shapes
<1>13. Fills'
  <2>1. \A r \in Producers : (Filling(r)' <=> Filling(r)) /\ (ppc'[r] # "idle" <=> ppc[r] # "idle")
    BY <1>3, <1>9 DEF Filling
  <2> QED
    BY <1>3, <2>1 DEF IInv, Fills
<1>14. Batches' /\ Takes'
  BY <1>3, KeepBatches, KeepTakes DEF IInv
<1>15. Pushes'
  <2>1. Unclaimed(p)' = Tail(pushing[p]) /\ \A r \in Producers : r # p => Unclaimed(r)' = Unclaimed(r)
    BY <1>3, <1>9 DEF Unclaimed
  <2>2. \A r \in Producers : \A k \in Elements(Unclaimed(r)') :
          k # m /\ \A s \in Queues : k \notin Items(ring[s])
    <3> SUFFICES ASSUME NEW r \in Producers, NEW k \in Elements(Unclaimed(r)')
                 PROVE  k # m /\ \A s \in Queues : k \notin Items(ring[s])
      OBVIOUS
    <3>1. CASE r = p
      BY <1>4, <1>5, <2>1, <3>1 DEF IInv, Pushes
    <3>2. CASE r # p
      <4>1. k \in Elements(Unclaimed(r)) /\ k \in Elements(pushing[r])
        BY <2>1, <3>2, UnclaimedIsPushed
      <4> QED
        BY <1>5, <3>2, <4>1 DEF IInv, Pushes
    <3> QED
      BY <3>1, <3>2
  <2>3. \A r \in Producers, s \in Queues : \A k \in Elements(Unclaimed(r)') : k \notin Items(ring'[s])
    BY <1>8, <1>9, <2>2
  <2>4. \A r \in Producers : ppc'[r] = "publish" => Head(pushing'[r]) \in Stalled(ring'[target'[r]])
    <3> SUFFICES ASSUME NEW r \in Producers, ppc'[r] = "publish"
                 PROVE  Head(pushing[r]) \in Stalled(ring'[target[r]])
      BY <1>3
    <3>1. CASE r = p
      BY <1>1, <1>2, <1>8, <3>1
    <3>2. CASE r # p
      <4>1. ppc[r] = "publish"
        BY <1>9, <3>2
      <4>2. Head(pushing[r]) \in Stalled(ring[target[r]]) /\ target[r] \in Queues
        BY <4>1, UnclaimedIsPushed DEF IInv, Pushes
      <4> QED
        BY <1>8, <1>9, <4>2
    <3> QED
      BY <3>1, <3>2
  <2> QED
    BY <1>3, <2>3, <2>4 DEF IInv, Pushes
<1>16. Rings'
  <2>1. \A r \in Queues : Distinct(ring'[r])
    BY <1>8, <1>9 DEF IInv, Rings
  <2>2. \A r \in Queues : \A k \in Ready(ring'[r]) : state[k] = "queued"
    BY <1>8, <1>9 DEF IInv, Rings
  <2>3. \A r \in Queues : \A k \in Stalled(ring'[r]) : state[k] = "pushing"
    BY <1>6, <1>8, <1>9 DEF IInv, Rings
  <2>4. \A r, s \in Queues : \A k \in Items(ring'[r]) : k \in Items(ring'[s]) => r = s
    BY <1>6, <1>8, <1>9 DEF IInv, Rings
  <2> QED
    BY <1>3, <2>1, <2>2, <2>3, <2>4 DEF Rings
<1>17. Waits' /\ Calls'
  BY <1>3, KeepWaits, KeepCalls DEF IInv, consuming
<1>18. Homes'
  <2>1. \A a, b : Mixed(a, b)' <=> Mixed(a, b)
    BY <1>3 DEF Mixed
  <2>2. \A r \in Queues : \A k \in Items(ring'[r]) : Mixed(home[k], r)
    BY <1>2, <1>5, <1>8, <1>9 DEF IInv, Homes
  <2> QED
    BY <1>3, <2>1, <2>2 DEF IInv, Homes, Mixed
<1> QED
  BY <1>10, <1>11, <1>12, <1>13, <1>14, <1>15, <1>16, <1>17, <1>18 DEF IInv

LEMMA PushPublish_IInv ==
  ASSUME IInv, NEW p \in Producers, PushPublish(p), UNCHANGED batches
  PROVE  IInv'
<1>1. PICK m : m = Head(pushing[p])
  OBVIOUS
<1>2. PICK q : q = target[p]
  OBVIOUS
<1>3. PICK rest : rest = Tail(pushing[p])
  OBVIOUS
<1>4. /\ ppc[p] = "publish" /\ ring' = [ring EXCEPT ![q] = Publish(@, m)]
      /\ state' = [state EXCEPT ![m] = "queued"] /\ pushing' = [pushing EXCEPT ![p] = rest]
      /\ ppc' = [ppc EXCEPT ![p] = IF rest = << >> THEN "idle" ELSE "push"]
      /\ target' = [target EXCEPT ![p] = IF rest = << >> THEN None ELSE @]
      /\ UNCHANGED <<count, written, adding, home, copied, managed, torn, refs, pmsg, cpc, source,
                     got, pos, heard, called, by, batch, batchedOn>>
  BY <1>1, <1>2, <1>3 DEF PushPublish, registry, message, consuming, batches
<1>5. /\ pushing[p] \in Seq(Messages) /\ Unique(pushing[p]) /\ pushing[p] # << >> /\ q \in Queues
      /\ Unclaimed(p) = rest
  BY <1>2, <1>3, <1>4, UnclaimedIsPushed DEF Unclaimed
<1>6. /\ m \in Messages /\ m \in Elements(pushing[p])
      /\ rest \in Seq(Messages) /\ Unique(rest) /\ Len(rest) = Len(pushing[p]) - 1
      /\ Elements(rest) = Elements(pushing[p]) \ {m}
  BY <1>1, <1>3, <1>5, TailElements
<1>7. state[m] = "pushing" /\ m \in Stalled(ring[q])
  BY <1>1, <1>2, <1>4, <1>6 DEF IInv, Pushes
<1>8. /\ state \in [Messages -> {"unused", "filling", "batched", "pushing", "queued", "taken", "done"}]
      /\ ppc \in [Producers -> {"idle", "fill", "fillBatched", "push", "publish"}]
      /\ target \in [Producers -> Queues \cup {None}]
      /\ ring \in [Queues -> Seq(Entries)] /\ pushing \in [Producers -> Seq(Messages)]
  BY DEF IInv, TypeOK, Shapes
<1>9. /\ ring'[q] \in Seq(Entries) /\ Distinct(ring'[q]) /\ Len(ring'[q]) = Len(ring[q])
      /\ Items(ring'[q]) = Items(ring[q]) /\ Ready(ring'[q]) = Ready(ring[q]) \cup {m}
      /\ Stalled(ring'[q]) = Stalled(ring[q]) \ {m}
  <2>1. ring[q] \in Seq(Entries) /\ Distinct(ring[q])
    BY <1>5, <1>8 DEF IInv, Rings
  <2>2. ring'[q] = Publish(ring[q], m)
    BY <1>4, <1>5, <1>8
  <2> QED
    BY <1>7, <2>1, <2>2, PublishRing
<1>10. /\ \A r \in Queues : r # q => ring'[r] = ring[r]
       /\ ppc'[p] = (IF rest = << >> THEN "idle" ELSE "push")
       /\ target'[p] = (IF rest = << >> THEN None ELSE q)
       /\ pushing'[p] = rest
       /\ \A r \in Producers : r # p => ppc'[r] = ppc[r] /\ target'[r] = target[r] /\ pushing'[r] = pushing[r]
       /\ state'[m] = "queued" /\ \A k \in Messages : k # m => state'[k] = state[k]
  BY <1>2, <1>4, <1>6, <1>8
<1>11. m \in Items(ring[q]) /\ \A r \in Queues : r # q => m \notin Items(ring[r])
  <2>1. m \in Items(ring[q])
    BY <1>7, Members
  <2> QED
    BY <1>5, <2>1 DEF IInv, Rings
<1>12. \A r \in Queues : \A k : (k \in Ready(ring[r]) => k \in Items(ring[r]))
                             /\ (k \in Stalled(ring[r]) => k \in Items(ring[r]))
                             /\ (k \in Items(ring[r]) => k \in Messages)
  <2>1. \A r \in Queues : \A k : (k \in Ready(ring[r]) => k \in Items(ring[r]))
                             /\ (k \in Stalled(ring[r]) => k \in Items(ring[r]))
    BY Members
  <2> QED
    BY <2>1, Contents DEF IInv
<1>13. TypeOK'
  <2>1. \A r \in Queues : /\ Len(ring'[r]) <= Capacity
                          /\ \A k \in DOMAIN ring'[r] : ring'[r][k] \in [item : Messages, ready : BOOLEAN]
    <3>1. \A k \in DOMAIN ring'[q] : ring'[q][k] \in Entries
      BY <1>9, RingFacts
    <3>2. Len(ring'[q]) <= Capacity
      BY <1>5, <1>9 DEF IInv, TypeOK
    <3> QED
      BY <1>10, <3>1, <3>2 DEF IInv, TypeOK, Entries
  <2>2. /\ state' \in [Messages -> {"unused", "filling", "batched", "pushing", "queued", "taken", "done"}]
        /\ ppc' \in [Producers -> {"idle", "fill", "fillBatched", "push", "publish"}]
        /\ target' \in [Producers -> Queues \cup {None}]
    BY <1>4, <1>5, <1>6, <1>8, <1>10
  <2>3. \A r \in Producers : Len(pushing'[r]) <= BatchSize
    <3>1. Len(pushing[p]) \in Nat /\ \A r \in Producers : Len(pushing[r]) <= BatchSize
      BY <1>5 DEF IInv, TypeOK
    <3> QED
      BY <1>6, <1>10, <3>1
  <2>4. \A r \in Producers : (pushing'[r] # << >>) = (ppc'[r] \in {"push", "publish"})
    <3>1. \A r \in Producers : (pushing[r] # << >>) = (ppc[r] \in {"push", "publish"})
      BY DEF IInv, TypeOK
    <3>2. pushing'[p] = rest /\ ppc'[p] = (IF rest = << >> THEN "idle" ELSE "push")
      BY <1>10
    <3>3. (pushing'[p] # << >>) = (ppc'[p] \in {"push", "publish"})
      BY <3>2
    <3> QED
      BY <1>10, <3>1, <3>3
  <2> QED
    BY <1>4, <2>1, <2>2, <2>3, <2>4 DEF IInv, TypeOK
<1>14. Registry' /\ SnapshotWhole'
  BY <1>4 DEF IInv, Registry, SnapshotWhole
<1>15. Shapes'
  <2>1. ring' \in [Queues -> Seq(Entries)] /\ pushing' \in [Producers -> Seq(Messages)]
    BY <1>4, <1>6, <1>8, <1>9, <1>10
  <2> QED
    BY <1>4, <2>1 DEF IInv, Shapes
<1>16. Fills'
  <2>1. \A r \in Producers : Filling(r)' => Filling(r) /\ r # p
    BY <1>10 DEF Filling
  <2>2. \A r \in Producers : Filling(r) => pmsg[r] \in Messages /\ pmsg[r] # m
    BY <1>7 DEF IInv, Fills
  <2>3. \A r \in Producers : Filling(r)' =>
          /\ pmsg'[r] \in Messages /\ state'[pmsg'[r]] = "filling"
          /\ home'[pmsg'[r]] = target'[r]
    BY <1>4, <1>10, <2>1, <2>2 DEF IInv, Fills
  <2>4. \A r, s \in Producers : Filling(r)' /\ Filling(s)' /\ pmsg'[r] = pmsg'[s] => r = s
    BY <1>4, <2>1 DEF IInv, Fills
  <2>5. \A r \in Producers : ppc'[r] # "idle" => target'[r] \in Queues
    BY <1>5, <1>10 DEF IInv, Fills
  <2>6. \A k \in Messages : state'[k] = "filling" =>
          home'[k] \in Queues /\ copied'[k] \in 1 .. MaxObservers /\ copied'[k] <= count'[home'[k]]
    BY <1>4, <1>10 DEF IInv, Fills
  <2> QED
    BY <2>3, <2>4, <2>5, <2>6 DEF Fills
<1>17. Batches' /\ Takes'
  BY <1>4, <1>7, <1>10, KeepBatches, KeepTakes DEF IInv
<1>18. Pushes'
  <2>1. Unclaimed(p)' = rest /\ \A r \in Producers : r # p => Unclaimed(r)' = Unclaimed(r)
    BY <1>10 DEF Unclaimed
  <2>2. \A r \in Producers : Unique(pushing'[r])
    BY <1>6, <1>10 DEF IInv, Pushes
  <2>3. \A r \in Producers : \A k \in Elements(pushing'[r]) :
          k \in Messages /\ k # m /\ k \in Elements(pushing[r])
    <3>1. \A r \in Producers : r # p => m \notin Elements(pushing[r])
      BY <1>6 DEF IInv, Pushes
    <3> QED
      BY <1>6, <1>10, <3>1, Contents DEF IInv
  <2>4. \A r \in Producers : \A k \in Elements(pushing'[r]) : state'[k] = "pushing"
    BY <1>10, <2>3 DEF IInv, Pushes
  <2>5. \A r, s \in Producers : \A k \in Elements(pushing'[r]) : k \in Elements(pushing'[s]) => r = s
    BY <2>3 DEF IInv, Pushes
  <2>6. \A r \in Producers, s \in Queues : \A k \in Elements(Unclaimed(r)') : k \notin Items(ring'[s])
    <3>1. \A r \in Producers : Unclaimed(r)' = Unclaimed(r)
      BY <1>5, <2>1
    <3>2. \A s \in Queues : Items(ring'[s]) = Items(ring[s])
      BY <1>9, <1>10
    <3> QED
      BY <3>1, <3>2 DEF IInv, Pushes
  <2>7. \A r \in Producers : ppc'[r] = "publish" => Head(pushing'[r]) \in Stalled(ring'[target'[r]])
    <3> SUFFICES ASSUME NEW r \in Producers, ppc'[r] = "publish"
                 PROVE  Head(pushing'[r]) \in Stalled(ring'[target'[r]])
      OBVIOUS
    <3>1. r # p /\ ppc[r] = "publish" /\ pushing'[r] = pushing[r] /\ target'[r] = target[r]
      BY <1>10
    <3>2. Head(pushing[r]) \in Stalled(ring[target[r]]) /\ target[r] \in Queues
      BY <3>1, UnclaimedIsPushed DEF IInv, Pushes
    <3>3. Head(pushing[r]) # m
      <4>1. Head(pushing[r]) \in Elements(pushing[r])
        BY <3>1, UnclaimedIsPushed, TailElements
      <4> QED
        BY <1>6, <3>1, <4>1 DEF IInv, Pushes
    <3> QED
      BY <1>9, <1>10, <3>1, <3>2, <3>3
  <2> QED
    BY <2>2, <2>4, <2>5, <2>6, <2>7 DEF Pushes
<1>19. Rings'
  <2>1. \A r \in Queues : Distinct(ring'[r])
    BY <1>9, <1>10 DEF IInv, Rings
  <2>2. \A r \in Queues : \A k \in Ready(ring'[r]) : state'[k] = "queued"
    <3>1. \A r \in Queues : \A k \in Ready(ring'[r]) : k = m \/ (k # m /\ k \in Ready(ring[r]))
      BY <1>9, <1>10
    <3> QED
      BY <1>10, <1>12, <3>1 DEF IInv, Rings
  <2>3. \A r \in Queues : \A k \in Stalled(ring'[r]) : state'[k] = "pushing"
    <3>1. \A r \in Queues : \A k \in Stalled(ring'[r]) : k # m /\ k \in Stalled(ring[r])
      BY <1>9, <1>10, <1>11, <1>12
    <3> QED
      BY <1>10, <1>12, <3>1 DEF IInv, Rings
  <2>4. \A r, s \in Queues : \A k \in Items(ring'[r]) : k \in Items(ring'[s]) => r = s
    BY <1>9, <1>10 DEF IInv, Rings
  <2> QED
    BY <2>1, <2>2, <2>3, <2>4 DEF Rings
<1>20. Waits' /\ Calls'
  BY <1>4, <1>7, <1>10, KeepWaits, KeepCalls DEF IInv, consuming
<1>21. Homes'
  <2>1. \A a, b : Mixed(a, b)' <=> Mixed(a, b)
    BY <1>4 DEF Mixed
  <2>2. \A r \in Queues : \A k \in Items(ring'[r]) : Mixed(home[k], r)
    BY <1>9, <1>10 DEF IInv, Homes
  <2>3. \A r \in Producers : \A k \in Elements(pushing'[r]) : Mixed(home[k], target'[r])
    <3>1. \A k \in Elements(pushing'[p]) : target'[p] = q /\ k \in Elements(pushing[p])
      BY <1>6, <1>10, NoElements
    <3> QED
      BY <1>2, <1>10, <3>1 DEF IInv, Homes
  <2>4. \A k \in Messages : state[k] # "unused" => state'[k] # "unused"
    BY <1>10
  <2> QED
    BY <1>4, <2>1, <2>2, <2>3, <2>4 DEF IInv, Homes, Mixed
<1> QED
  BY <1>13, <1>14, <1>15, <1>16, <1>17, <1>18, <1>19, <1>20, <1>21 DEF IInv

-----------------------------------------------------------------------------
(* dispatchOne and dispatchBatch *)

\* What a dispatch takes was queued, so that nobody has heard it.
LEMMA Taken ==
  ASSUME IInv, NEW c \in Consumers, NEW q \in Queues, Take(c, q), Len(got[c]) < BatchSize,
         UNCHANGED <<registry, message, refs, producing, called, batches>>,
         NEW m, m = Head(ring[q]).item
  PROVE  /\ m \in Messages /\ Fresh(m)
         /\ got'[c] = Append(got[c], m) /\ \A d \in Consumers : d # c => got'[d] = got[d]
         /\ got' \in [Consumers -> Seq(Messages)] /\ \A d \in Consumers : Len(got'[d]) <= BatchSize
         /\ \A r \in Queues : /\ Len(ring'[r]) <= Capacity
                              /\ \A k \in DOMAIN ring'[r] : ring'[r][k] \in [item : Messages, ready : BOOLEAN]
         /\ state' \in [Messages -> {"unused", "filling", "batched", "pushing", "queued", "taken", "done"}]
         /\ by' \in [Messages -> Queues \cup {None}]
         /\ ring' \in [Queues -> Seq(Entries)]
         /\ Registry' /\ SnapshotWhole' /\ Fills' /\ Batches' /\ Pushes' /\ Rings' /\ Takes' /\ Waits' /\ Homes'
<1>1. /\ Poppable(ring[q]) /\ ring' = [ring EXCEPT ![q] = Tail(@)]
      /\ got' = [got EXCEPT ![c] = Append(@, m)] /\ state' = [state EXCEPT ![m] = "taken"]
      /\ by' = [by EXCEPT ![m] = q]
      /\ UNCHANGED <<count, written, adding, home, copied, managed, torn, refs, ppc, pmsg, target,
                     pushing, called, batch, batchedOn>>
  BY DEF Take, registry, message, producing, batches
<1>2. /\ state \in [Messages -> {"unused", "filling", "batched", "pushing", "queued", "taken", "done"}]
      /\ by \in [Messages -> Queues \cup {None}]
      /\ ring \in [Queues -> Seq(Entries)] /\ got \in [Consumers -> Seq(Messages)]
  BY DEF IInv, TypeOK, Shapes
<1>3. /\ ring'[q] \in Seq(Entries) /\ Distinct(ring'[q]) /\ Len(ring'[q]) = Len(ring[q]) - 1
      /\ Len(ring[q]) \in Nat
      /\ m \in Ready(ring[q]) /\ m \in Messages
      /\ Items(ring'[q]) = Items(ring[q]) \ {m} /\ Ready(ring'[q]) = Ready(ring[q]) \ {m}
      /\ Stalled(ring'[q]) = Stalled(ring[q])
  <2>1. ring[q] \in Seq(Entries) /\ Distinct(ring[q])
    BY <1>2 DEF IInv, Rings
  <2>2. ring'[q] = Tail(ring[q])
    BY <1>1, <1>2
  <2> QED
    BY <1>1, <2>1, <2>2, PopRing
<1>4. state[m] = "queued" /\ Fresh(m) /\ m \in Items(ring[q])
  <2>1. state[m] = "queued"
    BY <1>3 DEF IInv, Rings
  <2>2. m \in Items(ring[q])
    BY <1>3, Members
  <2> QED
    BY <1>3, <2>1, <2>2 DEF IInv, Waits
<1>5. /\ \A r \in Queues : r # q => ring'[r] = ring[r]
      /\ got'[c] = Append(got[c], m) /\ \A d \in Consumers : d # c => got'[d] = got[d]
      /\ state'[m] = "taken" /\ \A k \in Messages : k # m => state'[k] = state[k] /\ by'[k] = by[k]
      /\ by'[m] = q
  BY <1>1, <1>2, <1>3
<1>6. \A r \in Queues : \A k : (k \in Ready(ring[r]) => k \in Items(ring[r]))
                            /\ (k \in Stalled(ring[r]) => k \in Items(ring[r]))
                            /\ (k \in Items(ring[r]) => k \in Messages)
  <2>1. \A r \in Queues : \A k : (k \in Ready(ring[r]) => k \in Items(ring[r]))
                             /\ (k \in Stalled(ring[r]) => k \in Items(ring[r]))
    BY Members
  <2> QED
    BY <2>1, Contents DEF IInv
<1>7. \A r \in Queues : \A k \in Items(ring'[r]) : k # m /\ k \in Items(ring[r])
  <2>1. \A r \in Queues : r # q => m \notin Items(ring[r])
    BY <1>4 DEF IInv, Rings
  <2> QED
    BY <1>3, <1>5, <2>1
<1>8. /\ got[c] \in Seq(Messages) /\ got'[c] \in Seq(Messages) /\ Len(got'[c]) = Len(got[c]) + 1
      /\ Len(got[c]) \in Nat /\ Unique(got'[c]) /\ Elements(got'[c]) = Elements(got[c]) \cup {m}
      /\ \A d \in Consumers : m \notin Elements(got[d])
  <2>1. got[c] \in Seq(Messages) /\ Unique(got[c])
    BY <1>2 DEF IInv, Takes
  <2>2. \A d \in Consumers : m \notin Elements(got[d])
    BY <1>4 DEF IInv, Takes
  <2> QED
    BY <1>3, <1>5, <2>1, <2>2, AppendElements
<1>9. \A r \in Queues : /\ Len(ring'[r]) <= Capacity
                        /\ \A k \in DOMAIN ring'[r] : ring'[r][k] \in [item : Messages, ready : BOOLEAN]
  <2>1. \A k \in DOMAIN ring'[q] : ring'[q][k] \in Entries
    BY <1>3, RingFacts
  <2>2. Len(ring'[q]) <= Capacity
    <3>1. Len(ring[q]) <= Capacity
      BY DEF IInv, TypeOK
    <3> QED
      BY <1>3, <3>1
  <2> QED
    BY <1>5, <2>1, <2>2 DEF IInv, TypeOK, Entries
<1>10. \A d \in Consumers : Len(got'[d]) <= BatchSize
  <2>1. \A d \in Consumers : Len(got[d]) <= BatchSize
    BY DEF IInv, TypeOK
  <2> QED
    BY <1>5, <1>8, <2>1
<1>11. /\ state' \in [Messages -> {"unused", "filling", "batched", "pushing", "queued", "taken", "done"}]
       /\ by' \in [Messages -> Queues \cup {None}]
       /\ ring' \in [Queues -> Seq(Entries)] /\ got' \in [Consumers -> Seq(Messages)]
  BY <1>1, <1>2, <1>3, <1>5, <1>8
<1>12. Registry' /\ SnapshotWhole'
  BY <1>1 DEF IInv, Registry, SnapshotWhole
<1>13. Fills'
  BY <1>1, <1>4, <1>5, KeepFills DEF IInv
<1>14. Batches'
  BY <1>1, <1>4, <1>5, KeepBatches DEF IInv
<1>15. Pushes'
  <2>1. \A r \in Producers : Unclaimed(r)' = Unclaimed(r)
    BY <1>1 DEF Unclaimed
  <2>2. \A r \in Producers : \A k \in Elements(pushing[r]) : k \in Messages /\ state'[k] = "pushing"
    <3>1. \A r \in Producers : \A k \in Elements(pushing[r]) : k \in Messages /\ state[k] = "pushing"
      BY Contents DEF IInv, Pushes
    <3> QED
      BY <1>4, <1>5, <3>1
  <2>3. \A r \in Producers, s \in Queues : \A k \in Elements(Unclaimed(r)) : k \notin Items(ring'[s])
    BY <1>7 DEF IInv, Pushes
  <2>4. \A r \in Producers : ppc[r] = "publish" => Head(pushing[r]) \in Stalled(ring'[target[r]])
    <3>1. \A r \in Producers : ppc[r] = "publish" =>
            target[r] \in Queues /\ Head(pushing[r]) \in Stalled(ring[target[r]])
      BY UnclaimedIsPushed DEF IInv, Pushes
    <3> QED
      BY <1>3, <1>5, <3>1
  <2> QED
    BY <1>1, <2>1, <2>2, <2>3, <2>4 DEF IInv, Pushes
<1>16. Rings'
  <2>1. \A r \in Queues : Distinct(ring'[r])
    BY <1>3, <1>5 DEF IInv, Rings
  <2>2. \A r \in Queues : \A k : /\ k \in Ready(ring'[r]) => k # m /\ k \in Ready(ring[r])
                                 /\ k \in Stalled(ring'[r]) => k # m /\ k \in Stalled(ring[r])
    <3>1. \A r \in Queues : \A k : /\ k \in Ready(ring'[r]) => k \in Items(ring'[r])
                                   /\ k \in Stalled(ring'[r]) => k \in Items(ring'[r])
      BY Members
    <3> QED
      BY <1>3, <1>5, <1>7, <3>1
  <2>3. \A r \in Queues : \A k \in Ready(ring'[r]) : state'[k] = "queued"
    BY <1>5, <1>6, <2>2 DEF IInv, Rings
  <2>4. \A r \in Queues : \A k \in Stalled(ring'[r]) : state'[k] = "pushing"
    BY <1>5, <1>6, <2>2 DEF IInv, Rings
  <2>5. \A r, s \in Queues : \A k \in Items(ring'[r]) : k \in Items(ring'[s]) => r = s
    BY <1>7 DEF IInv, Rings
  <2> QED
    BY <2>1, <2>3, <2>4, <2>5 DEF Rings
<1>17. Takes'
  <2>1. \A d \in Consumers : Unique(got'[d])
    BY <1>5, <1>8 DEF IInv, Takes
  <2>2. \A d \in Consumers : \A k \in Elements(got'[d]) :
          (k = m /\ d = c) \/ (k # m /\ k \in Elements(got[d]) /\ k \in Messages)
    BY <1>5, <1>8, Contents DEF IInv
  <2>3. \A d \in Consumers : \A k \in Elements(got'[d]) : state'[k] = "taken"
    BY <1>5, <2>2 DEF IInv, Takes
  <2>4. \A d, e \in Consumers : \A k \in Elements(got'[d]) : k \in Elements(got'[e]) => d = e
    BY <2>2 DEF IInv, Takes
  <2> QED
    BY <2>1, <2>3, <2>4 DEF Takes
<1>18. Waits'
  BY <1>1, <1>5, KeepWaits DEF IInv
<1>19. Homes'
  <2>1. \A a, b : Mixed(a, b)' <=> Mixed(a, b)
    BY <1>1 DEF Mixed
  <2>2. \A r \in Queues : \A k \in Items(ring'[r]) : Mixed(home[k], r)
    BY <1>7 DEF IInv, Homes
  <2>3. \A k \in Messages : by'[k] = None \/ (Mixed(home[k], by'[k]) /\ state'[k] # "unused")
    <3>1. Mixed(home[m], q)
      BY <1>4 DEF IInv, Homes
    <3> QED
      BY <1>5, <3>1 DEF IInv, Homes
  <2> QED
    BY <1>1, <2>1, <2>2, <2>3 DEF IInv, Homes, Mixed
<1> QED
  BY <1>3, <1>4, <1>5, <1>9, <1>10, <1>11, <1>12, <1>13, <1>14, <1>15, <1>16, <1>17, <1>18, <1>19

\* The other consumers are where they were.
LEMMA OthersCalls ==
  ASSUME Calls, Shapes, UNCHANGED <<copied, managed>>, NEW c \in Consumers, NEW d \in Consumers,
         cpc'[d] = cpc[d], source'[d] = source[d],
         got'[d] = got[d], pos'[d] = pos[d], heard'[d] = heard[d],
         \A m \in Elements(got[d]) : refs'[m] = refs[m] /\ called'[m] = called[m]
  PROVE  /\ Bounds(d)'
         /\ \A k \in DOMAIN got'[d] : k > pos'[d] => Fresh(got[d][k])'
         /\ \A k \in DOMAIN got'[d] : k = pos'[d] => InHand(d, got[d][k])'
<1>1. Bounds(d)'
  BY DEF Calls, Bounds
<1>2. ASSUME NEW k \in DOMAIN got[d]
      PROVE  (k > pos[d] => Fresh(got[d][k])') /\ (k = pos[d] => InHand(d, got[d][k])')
  <2>1. PICK m : m = got[d][k]
    OBVIOUS
  <2>2. /\ m' = m /\ got'[d][k] = m
        /\ copied'[m] = copied[m] /\ managed'[m] = managed[m] /\ refs'[m] = refs[m]
        /\ called'[m] = called[m]
    BY <2>1, InElements
  <2>3. (k > pos[d] => Fresh(m)) /\ (k = pos[d] => InHand(d, m))
    BY <2>1, Zenon DEF Calls
  <2> QED
    BY <2>1, <2>2, <2>3 DEF Fresh, InHand, Owes
<1> QED
  BY <1>1, <1>2

LEMMA Collected ==
  ASSUME IInv, NEW c \in Consumers, cpc[c] \in {"idle", "fetch"}, NEW m \in Messages, Fresh(m),
         got'[c] = Append(got[c], m), UNCHANGED <<copied, managed, refs, called>>
  PROVE  /\ Len(got[c]) \in Nat /\ Len(got'[c]) = Len(got[c]) + 1 /\ DOMAIN got'[c] = 1 .. (Len(got[c]) + 1)
         /\ \A k \in DOMAIN got'[c] : Fresh(got[c][k])'
         /\ pos[c] = 0 /\ heard[c] = 0 /\ (cpc[c] = "idle" => Len(got[c]) = 0)
<1>1. got[c] \in Seq(Messages) /\ pos[c] = 0 /\ heard[c] = 0 /\ (cpc[c] = "idle" => got[c] = << >>)
  BY DEF IInv, Shapes, Calls, Bounds
<1>2. /\ Len(got[c]) \in Nat /\ DOMAIN got[c] = 1 .. Len(got[c])
      /\ Len(got'[c]) = Len(got[c]) + 1 /\ DOMAIN got'[c] = 1 .. (Len(got[c]) + 1)
      /\ got'[c][Len(got[c]) + 1] = m /\ \A k \in DOMAIN got[c] : got'[c][k] = got[c][k]
  BY <1>1, SeqFacts, AppendProperties
<1>3. \A k \in DOMAIN got[c] : Fresh(got[c][k])
  <2>1. \A k \in DOMAIN got[c] : k > pos[c]
    BY <1>1, <1>2
  <2> QED
    BY <2>1 DEF IInv, Calls
<1>4. ASSUME NEW k \in DOMAIN got'[c]
      PROVE  Fresh(got[c][k])'
  <2>1. PICK n : n = got'[c][k]
    OBVIOUS
  <2>2. Fresh(n)
    <3>1. CASE k = Len(got[c]) + 1
      BY <1>2, <2>1, <3>1
    <3>2. CASE k # Len(got[c]) + 1
      BY <1>2, <1>3, <2>1, <3>2
    <3> QED
      BY <3>1, <3>2
  <2> QED
    BY <2>1, <2>2 DEF Fresh, Owes
<1> QED
  BY <1>1, <1>2, <1>4, NoElements

LEMMA FetchFirst_IInv ==
  ASSUME IInv, NEW c \in Consumers, NEW q \in Queues, FetchFirst(c, q)
  PROVE  IInv'
<1>1. PICK m : m = Head(ring[q]).item
  OBVIOUS
<1>2. /\ cpc[c] = "idle" /\ Take(c, q) /\ cpc' = [cpc EXCEPT ![c] = "fetch"]
      /\ source' = [source EXCEPT ![c] = q]
      /\ UNCHANGED <<registry, message, refs, producing, called, batches>> /\ UNCHANGED <<pos, heard>>
  BY DEF FetchFirst
<1>3. Len(got[c]) < BatchSize
  <2>1. got[c] = << >>
    BY <1>2 DEF IInv, Calls, Bounds
  <2> QED
    BY <2>1, NoElements
<1>4. /\ m \in Messages /\ Fresh(m)
      /\ got'[c] = Append(got[c], m) /\ \A d \in Consumers : d # c => got'[d] = got[d]
      /\ got' \in [Consumers -> Seq(Messages)] /\ \A d \in Consumers : Len(got'[d]) <= BatchSize
      /\ \A r \in Queues : /\ Len(ring'[r]) <= Capacity
                           /\ \A k \in DOMAIN ring'[r] : ring'[r][k] \in [item : Messages, ready : BOOLEAN]
      /\ state' \in [Messages -> {"unused", "filling", "batched", "pushing", "queued", "taken", "done"}]
      /\ by' \in [Messages -> Queues \cup {None}]
      /\ ring' \in [Queues -> Seq(Entries)]
      /\ Registry' /\ SnapshotWhole' /\ Fills' /\ Batches' /\ Pushes' /\ Rings' /\ Takes' /\ Waits' /\ Homes'
  BY <1>1, <1>2, <1>3, Taken
<1>5. /\ cpc \in [Consumers -> {"idle", "fetch", "call", "release"}]
      /\ source \in [Consumers -> Queues \cup {None}]
  BY DEF IInv, TypeOK
<1>6. UNCHANGED <<copied, managed, refs, called>>
  BY <1>2 DEF message
<1>7. TypeOK'
  <2>1. /\ cpc' \in [Consumers -> {"idle", "fetch", "call", "release"}]
        /\ source' \in [Consumers -> Queues \cup {None}]
    BY <1>2, <1>5
  <2> QED
    BY <1>2, <1>4, <2>1 DEF IInv, TypeOK, registry, message, producing, batches
<1>8. Shapes'
  BY <1>2, <1>4 DEF IInv, Shapes, producing, batches
<1>9. Calls'
  <2> SUFFICES ASSUME NEW d \in Consumers
               PROVE  /\ Bounds(d)'
                      /\ \A k \in DOMAIN got'[d] : k > pos'[d] => Fresh(got[d][k])'
                      /\ \A k \in DOMAIN got'[d] : k = pos'[d] => InHand(d, got[d][k])'
    BY Zenon DEF Calls
  <2>1. CASE d # c
    <3>1. /\ cpc'[d] = cpc[d] /\ source'[d] = source[d]
          /\ got'[d] = got[d] /\ pos'[d] = pos[d] /\ heard'[d] = heard[d]
      BY <1>2, <1>4, <1>5, <2>1
    <3> QED
      BY <1>6, <3>1, OthersCalls DEF IInv
  <2>2. CASE d = c
    <3>1. /\ Len(got[c]) \in Nat /\ DOMAIN got'[c] = 1 .. (Len(got[c]) + 1)
          /\ \A k \in DOMAIN got'[c] : Fresh(got[c][k])'
          /\ pos[c] = 0 /\ heard[c] = 0
      BY <1>2, <1>4, <1>6, Collected
    <3>2. cpc'[c] = "fetch" /\ pos'[c] = 0 /\ heard'[c] = 0 /\ source'[c] \in Queues
      BY <1>2, <1>5, <3>1
    <3>3. \A k \in DOMAIN got'[c] : k # pos'[c]
      BY <3>1, <3>2
    <3>4. Bounds(c)'
      BY <3>2 DEF Bounds
    <3> QED
      BY <2>2, <3>1, <3>3, <3>4
  <2> QED
    BY <2>1, <2>2
<1> QED
  BY <1>4, <1>7, <1>8, <1>9 DEF IInv

LEMMA FetchMore_IInv ==
  ASSUME IInv, NEW c \in Consumers, FetchMore(c)
  PROVE  IInv'
<1>1. PICK q : q = source[c]
  OBVIOUS
<1>2. PICK m : m = Head(ring[q]).item
  OBVIOUS
<1>3. /\ cpc[c] = "fetch" /\ Take(c, q) /\ Len(got[c]) < BatchSize
      /\ UNCHANGED <<registry, message, refs, producing, called, batches>>
      /\ UNCHANGED <<cpc, source, pos, heard>>
  BY <1>1 DEF FetchMore
<1>4. q \in Queues
  BY <1>1, <1>3 DEF IInv, Bounds, Calls
<1>5. /\ m \in Messages /\ Fresh(m)
      /\ got'[c] = Append(got[c], m) /\ \A d \in Consumers : d # c => got'[d] = got[d]
      /\ got' \in [Consumers -> Seq(Messages)] /\ \A d \in Consumers : Len(got'[d]) <= BatchSize
      /\ \A r \in Queues : /\ Len(ring'[r]) <= Capacity
                           /\ \A k \in DOMAIN ring'[r] : ring'[r][k] \in [item : Messages, ready : BOOLEAN]
      /\ state' \in [Messages -> {"unused", "filling", "batched", "pushing", "queued", "taken", "done"}]
      /\ by' \in [Messages -> Queues \cup {None}]
      /\ ring' \in [Queues -> Seq(Entries)]
      /\ Registry' /\ SnapshotWhole' /\ Fills' /\ Batches' /\ Pushes' /\ Rings' /\ Takes' /\ Waits' /\ Homes'
  BY <1>2, <1>3, <1>4, Taken
<1>6. UNCHANGED <<copied, managed, refs, called>>
  BY <1>3 DEF message
<1>7. TypeOK'
  BY <1>3, <1>5 DEF IInv, TypeOK, registry, message, producing, batches
<1>8. Shapes'
  BY <1>3, <1>5 DEF IInv, Shapes, producing, batches
<1>9. Calls'
  <2> SUFFICES ASSUME NEW d \in Consumers
               PROVE  /\ Bounds(d)'
                      /\ \A k \in DOMAIN got'[d] : k > pos'[d] => Fresh(got[d][k])'
                      /\ \A k \in DOMAIN got'[d] : k = pos'[d] => InHand(d, got[d][k])'
    BY Zenon DEF Calls
  <2>1. CASE d # c
    <3>1. /\ cpc'[d] = cpc[d] /\ source'[d] = source[d]
          /\ got'[d] = got[d] /\ pos'[d] = pos[d] /\ heard'[d] = heard[d]
      BY <1>3, <1>5, <2>1
    <3> QED
      BY <1>6, <3>1, OthersCalls DEF IInv
  <2>2. CASE d = c
    <3>1. /\ Len(got[c]) \in Nat /\ DOMAIN got'[c] = 1 .. (Len(got[c]) + 1)
          /\ \A k \in DOMAIN got'[c] : Fresh(got[c][k])'
          /\ pos[c] = 0 /\ heard[c] = 0
      BY <1>3, <1>5, <1>6, Collected
    <3>2. cpc'[c] = "fetch" /\ pos'[c] = 0 /\ heard'[c] = 0 /\ source'[c] \in Queues
      BY <1>1, <1>3, <1>4, <3>1
    <3>3. \A k \in DOMAIN got'[c] : k # pos'[c]
      BY <3>1, <3>2
    <3>4. Bounds(c)'
      BY <3>2 DEF Bounds
    <3> QED
      BY <2>2, <3>1, <3>3, <3>4
  <2> QED
    BY <2>1, <2>2
<1> QED
  BY <1>5, <1>7, <1>8, <1>9 DEF IInv

LEMMA DispatchPop_IInv ==
  ASSUME IInv, NEW c \in Consumers, NEW q \in Queues, DispatchPop(c, q), UNCHANGED batches
  PROVE  IInv'
<1>1. PICK m : m = Head(ring[q]).item
  OBVIOUS
<1>2. /\ cpc[c] = "idle" /\ Take(c, q) /\ cpc' = [cpc EXCEPT ![c] = "call"]
      /\ source' = [source EXCEPT ![c] = q] /\ pos' = [pos EXCEPT ![c] = 1]
      /\ UNCHANGED <<registry, message, refs, producing, called, batches>> /\ heard' = heard
  BY DEF DispatchPop
<1>3. Len(got[c]) < BatchSize
  <2>1. got[c] = << >>
    BY <1>2 DEF IInv, Calls, Bounds
  <2> QED
    BY <2>1, NoElements
<1>4. /\ m \in Messages /\ Fresh(m)
      /\ got'[c] = Append(got[c], m) /\ \A d \in Consumers : d # c => got'[d] = got[d]
      /\ got' \in [Consumers -> Seq(Messages)] /\ \A d \in Consumers : Len(got'[d]) <= BatchSize
      /\ \A r \in Queues : /\ Len(ring'[r]) <= Capacity
                           /\ \A k \in DOMAIN ring'[r] : ring'[r][k] \in [item : Messages, ready : BOOLEAN]
      /\ state' \in [Messages -> {"unused", "filling", "batched", "pushing", "queued", "taken", "done"}]
      /\ by' \in [Messages -> Queues \cup {None}]
      /\ ring' \in [Queues -> Seq(Entries)]
      /\ Registry' /\ SnapshotWhole' /\ Fills' /\ Batches' /\ Pushes' /\ Rings' /\ Takes' /\ Waits' /\ Homes'
  BY <1>1, <1>2, <1>3, Taken
<1>5. /\ cpc \in [Consumers -> {"idle", "fetch", "call", "release"}]
      /\ source \in [Consumers -> Queues \cup {None}] /\ pos \in [Consumers -> Nat]
      /\ \A d \in Consumers : pos[d] \in 0 .. BatchSize + 1
  BY DEF IInv, TypeOK, Shapes
<1>6. UNCHANGED <<copied, managed, refs, called>>
  BY <1>2 DEF message
<1>7. /\ \A d \in Consumers : d # c => cpc'[d] = cpc[d] /\ source'[d] = source[d] /\ pos'[d] = pos[d]
      /\ cpc'[c] = "call" /\ source'[c] = q /\ pos'[c] = 1
  BY <1>2, <1>5
<1>8. TypeOK'
  <2>1. /\ cpc' \in [Consumers -> {"idle", "fetch", "call", "release"}]
        /\ source' \in [Consumers -> Queues \cup {None}]
    BY <1>2, <1>5
  <2>2. \A d \in Consumers : pos'[d] \in 0 .. BatchSize + 1
    BY <1>5, <1>7
  <2> QED
    BY <1>2, <1>4, <2>1, <2>2 DEF IInv, TypeOK, registry, message, producing, batches
<1>9. Shapes'
  <2>1. pos' \in [Consumers -> Nat]
    BY <1>2, <1>5
  <2> QED
    BY <1>2, <1>4, <2>1 DEF IInv, Shapes, producing, batches
<1>10. Calls'
  <2> SUFFICES ASSUME NEW d \in Consumers
               PROVE  /\ Bounds(d)'
                      /\ \A k \in DOMAIN got'[d] : k > pos'[d] => Fresh(got[d][k])'
                      /\ \A k \in DOMAIN got'[d] : k = pos'[d] => InHand(d, got[d][k])'
    BY Zenon DEF Calls
  <2>1. CASE d # c
    <3>1. /\ cpc'[d] = cpc[d] /\ source'[d] = source[d]
          /\ got'[d] = got[d] /\ pos'[d] = pos[d] /\ heard'[d] = heard[d]
      BY <1>2, <1>4, <1>7, <2>1
    <3> QED
      BY <1>6, <3>1, OthersCalls DEF IInv
  <2>2. CASE d = c
    <3>1. /\ Len(got'[c]) = 1 /\ DOMAIN got'[c] = 1 .. 1
          /\ \A k \in DOMAIN got'[c] : Fresh(got[c][k])'
          /\ heard[c] = 0
      <4>1. /\ Len(got[c]) = 0 /\ heard[c] = 0
            /\ Len(got'[c]) = Len(got[c]) + 1 /\ DOMAIN got'[c] = 1 .. (Len(got[c]) + 1)
            /\ \A k \in DOMAIN got'[c] : Fresh(got[c][k])'
        BY <1>2, <1>4, <1>6, Collected
      <4> QED
        BY <4>1
    <3>2. Bounds(c)'
      <4>1. /\ cpc'[c] = "call" /\ source'[c] = q /\ pos'[c] = 1 /\ heard'[c] = 0
            /\ Len(got'[c]) = 1
        BY <1>2, <1>7, <3>1
      <4> QED
        BY <4>1 DEF Bounds
    <3>3. \A k \in DOMAIN got'[c] : InHand(c, got[c][k])'
      <4> SUFFICES ASSUME NEW k \in DOMAIN got'[c] PROVE InHand(c, got[c][k])'
        OBVIOUS
      <4>1. Fresh(got[c][k])' /\ heard'[c] = 0 /\ cpc'[c] = "call"
        BY <1>2, <1>7, <3>1
      <4> QED
        BY <4>1 DEF Fresh, InHand, Owes
    <3> QED
      BY <1>7, <2>2, <3>1, <3>2, <3>3
  <2> QED
    BY <2>1, <2>2
<1> QED
  BY <1>4, <1>8, <1>9, <1>10 DEF IInv

LEMMA FetchEnd_IInv ==
  ASSUME IInv, NEW c \in Consumers, FetchEnd(c)
  PROVE  IInv'
<1>1. /\ cpc[c] = "fetch" /\ cpc' = [cpc EXCEPT ![c] = "call"] /\ pos' = [pos EXCEPT ![c] = 1]
      /\ UNCHANGED <<count, written, adding, ring, state, home, copied, managed, torn, refs, ppc, pmsg,
                     target, pushing, source, got, heard, called, by, batch, batchedOn>>
  BY DEF FetchEnd, registry, message, producing, batches
<1>2. /\ cpc \in [Consumers -> {"idle", "fetch", "call", "release"}] /\ pos \in [Consumers -> Nat]
      /\ \A d \in Consumers : pos[d] \in 0 .. BatchSize + 1
  BY DEF IInv, TypeOK, Shapes
<1>3. /\ \A d \in Consumers : d # c => cpc'[d] = cpc[d] /\ pos'[d] = pos[d]
      /\ cpc'[c] = "call" /\ pos'[c] = 1
  BY <1>1, <1>2
<1>4. TypeOK'
  <2>1. cpc' \in [Consumers -> {"idle", "fetch", "call", "release"}]
    BY <1>1, <1>2
  <2>2. \A d \in Consumers : pos'[d] \in 0 .. BatchSize + 1
    BY <1>2, <1>3
  <2> QED
    BY <1>1, <2>1, <2>2 DEF IInv, TypeOK
<1>5. Shapes'
  <2>1. pos' \in [Consumers -> Nat]
    BY <1>1, <1>2
  <2> QED
    BY <1>1, <2>1 DEF IInv, Shapes
<1>6. Registry' /\ SnapshotWhole'
  BY <1>1 DEF IInv, Registry, SnapshotWhole
<1>7. Fills' /\ Batches' /\ Pushes' /\ Rings' /\ Takes' /\ Waits'
  BY <1>1, KeepFills, KeepBatches, KeepPushes, KeepRings, KeepTakes, KeepWaits DEF IInv
<1>8. Homes'
  BY <1>1, KeepHomes DEF IInv
<1>9. Calls'
  <2> SUFFICES ASSUME NEW d \in Consumers
               PROVE  /\ Bounds(d)'
                      /\ \A k \in DOMAIN got'[d] : k > pos'[d] => Fresh(got[d][k])'
                      /\ \A k \in DOMAIN got'[d] : k = pos'[d] => InHand(d, got[d][k])'
    BY Zenon DEF Calls
  <2>1. CASE d # c
    <3>1. /\ cpc'[d] = cpc[d] /\ source'[d] = source[d]
          /\ got'[d] = got[d] /\ pos'[d] = pos[d] /\ heard'[d] = heard[d]
      BY <1>1, <1>3, <2>1
    <3> QED
      BY <1>1, <3>1, OthersCalls DEF IInv
  <2>2. CASE d = c
    <3>1. /\ got[c] \in Seq(Messages) /\ Len(got[c]) \in Nat /\ DOMAIN got[c] = 1 .. Len(got[c])
          /\ pos[c] = 0 /\ heard[c] = 0 /\ source[c] \in Queues
      BY <1>1, SeqFacts DEF IInv, Shapes, Calls, Bounds
    <3>2. \A k \in DOMAIN got[c] : Fresh(got[c][k])
      <4>1. \A k \in DOMAIN got[c] : k > pos[c]
        BY <3>1
      <4> QED
        BY <4>1 DEF IInv, Calls
    <3>3. Bounds(c)'
      BY <1>1, <1>3, <3>1 DEF Bounds
    <3>4. \A k \in DOMAIN got[c] : Fresh(got[c][k])' /\ InHand(c, got[c][k])'
      BY <1>1, <1>3, <3>1, <3>2 DEF Fresh, InHand, Owes
    <3> QED
      BY <1>1, <2>2, <3>3, <3>4
  <2> QED
    BY <2>1, <2>2
<1> QED
  BY <1>4, <1>5, <1>6, <1>7, <1>8, <1>9 DEF IInv

\* The message a consumer dispatches is its own, and no other of its messages.
LEMMA CurrentFacts ==
  ASSUME IInv, NEW c \in Consumers, cpc[c] \in {"call", "release"}, pos[c] <= Len(got[c]),
         NEW m, m = Current(c)
  PROVE  /\ got[c] \in Seq(Messages) /\ Len(got[c]) \in Nat /\ DOMAIN got[c] = 1 .. Len(got[c])
         /\ Len(got[c]) <= BatchSize
         /\ pos[c] \in DOMAIN got[c] /\ got[c][pos[c]] = m /\ m \in Messages /\ state[m] = "taken"
         /\ InHand(c, m) /\ source[c] \in Queues
         /\ \A k \in DOMAIN got[c] : k # pos[c] => got[c][k] # m
         /\ \A d \in Consumers : d # c => \A k \in Elements(got[d]) : k # m
         /\ \A k \in Elements(got[c]) : k \in Messages
<1>1. /\ got[c] \in Seq(Messages) /\ Len(got[c]) \in Nat /\ DOMAIN got[c] = 1 .. Len(got[c])
      /\ Len(got[c]) <= BatchSize
      /\ \A k \in DOMAIN got[c] : got[c][k] \in Messages /\ got[c][k] \in Elements(got[c])
      /\ \A k \in Elements(got[c]) : k \in Messages
  BY SeqFacts DEF IInv, Shapes, TypeOK
<1>2. pos[c] \in DOMAIN got[c] /\ source[c] \in Queues
  BY <1>1 DEF IInv, Calls, Bounds
<1>3. got[c][pos[c]] = m /\ m \in Messages /\ m \in Elements(got[c])
  BY <1>1, <1>2 DEF Current
<1>4. state[m] = "taken" /\ \A d \in Consumers : d # c => \A k \in Elements(got[d]) : k # m
  BY <1>3 DEF IInv, Takes
<1>5. \A k \in DOMAIN got[c] : k # pos[c] => got[c][k] # m
  BY <1>2, <1>3, Zenon DEF IInv, Takes, Unique
<1>6. InHand(c, m)
  BY <1>2, <1>3, Zenon DEF IInv, Calls
<1> QED
  BY <1>1, <1>2, <1>3, <1>4, <1>5, <1>6

LEMMA Callback_IInv ==
  ASSUME IInv, NEW c \in Consumers, Callback(c), UNCHANGED batches
  PROVE  IInv'
<1>1. PICK m : m = Current(c)
  OBVIOUS
<1>2. /\ cpc[c] = "call" /\ pos[c] <= Len(got[c])
      /\ called' = [called EXCEPT ![m] = @ + 1] /\ cpc' = [cpc EXCEPT ![c] = "release"]
      /\ UNCHANGED <<count, written, adding, ring, state, home, copied, managed, torn, refs, ppc, pmsg,
                     target, pushing, source, got, pos, heard, by, batch, batchedOn>>
  BY <1>1 DEF Callback, registry, message, producing, batches
<1>3. /\ got[c] \in Seq(Messages) /\ Len(got[c]) \in Nat /\ DOMAIN got[c] = 1 .. Len(got[c])
      /\ pos[c] \in DOMAIN got[c] /\ got[c][pos[c]] = m /\ m \in Messages /\ state[m] = "taken"
      /\ InHand(c, m) /\ source[c] \in Queues
      /\ \A k \in DOMAIN got[c] : k # pos[c] => got[c][k] # m
      /\ \A d \in Consumers : d # c => \A k \in Elements(got[d]) : k # m
      /\ \A k \in Elements(got[c]) : k \in Messages
  BY <1>1, <1>2, CurrentFacts
<1>4. /\ cpc \in [Consumers -> {"idle", "fetch", "call", "release"}]
      /\ called \in [Messages -> 0 .. MaxObservers] /\ heard \in [Consumers -> 0 .. MaxObservers]
  BY DEF IInv, TypeOK
<1>5. copied[m] \in 1 .. MaxObservers /\ heard[c] < copied[m] /\ called[m] = heard[c]
  BY <1>2, <1>3 DEF InHand
<1>6. /\ called'[m] = heard[c] + 1 /\ \A k \in Messages : k # m => called'[k] = called[k]
      /\ cpc'[c] = "release" /\ \A d \in Consumers : d # c => cpc'[d] = cpc[d]
  BY <1>2, <1>3, <1>4, <1>5
<1>7. TypeOK'
  <2>1. called' \in [Messages -> 0 .. MaxObservers]
    <3>1. called[m] + 1 \in 0 .. MaxObservers
      BY <1>4, <1>5
    <3> QED
      BY <1>2, <1>4, <3>1
  <2>2. cpc' \in [Consumers -> {"idle", "fetch", "call", "release"}]
    BY <1>2, <1>4
  <2> QED
    BY <1>2, <2>1, <2>2 DEF IInv, TypeOK
<1>8. Registry' /\ Shapes' /\ SnapshotWhole'
  BY <1>2 DEF IInv, Registry, Shapes, SnapshotWhole
<1>9. Fills' /\ Batches' /\ Pushes' /\ Rings' /\ Takes' /\ Homes'
  BY <1>2, KeepFills, KeepBatches, KeepPushes, KeepRings, KeepTakes, KeepHomes DEF IInv
<1>10. Waits'
  <2>1. \A k \in Messages : state[k] # "taken" => called'[k] = called[k]
    BY <1>3, <1>6
  <2> QED
    <3>1. \A k \in Messages : state[k] # "taken" /\ Fresh(k) => Fresh(k)'
      BY <1>2, <2>1 DEF Fresh, Owes
    <3> QED
      BY <1>2, <2>1, <3>1 DEF IInv, Waits
<1>11. Calls'
  <2> SUFFICES ASSUME NEW d \in Consumers
               PROVE  /\ Bounds(d)'
                      /\ \A k \in DOMAIN got'[d] : k > pos'[d] => Fresh(got[d][k])'
                      /\ \A k \in DOMAIN got'[d] : k = pos'[d] => InHand(d, got[d][k])'
    BY Zenon DEF Calls
  <2>1. CASE d # c
    <3>1. cpc'[d] = cpc[d] /\ \A k \in Elements(got[d]) : called'[k] = called[k]
      BY <1>3, <1>6, <2>1, Contents DEF IInv
    <3> QED
      BY <1>2, <3>1, OthersCalls DEF IInv
  <2>2. CASE d = c
    <3>1. Bounds(c)'
      BY <1>2, <1>3, <1>6 DEF Bounds
    <3>2. InHand(c, m)'
      BY <1>2, <1>3, <1>6 DEF InHand, Owes
    <3>3. ASSUME NEW k \in DOMAIN got[c], k > pos[c]
          PROVE  Fresh(got[c][k])'
      <4>1. PICK n : n = got[c][k]
        OBVIOUS
      <4>2. n # m /\ n \in Messages
        BY <1>3, <3>3, <4>1
      <4>3. Fresh(n)
        BY <3>3, <4>1 DEF IInv, Calls
      <4> QED
        BY <1>2, <1>6, <4>1, <4>2, <4>3 DEF Fresh, Owes
    <3>4. got'[c][pos'[c]] = m
      BY <1>2, <1>3
    <3>5. \A k \in DOMAIN got'[c] : k = pos'[c] => InHand(c, got[c][k])'
      <4> SUFFICES ASSUME NEW k \in DOMAIN got'[c], k = pos'[c] PROVE InHand(c, got[c][k])'
        OBVIOUS
      <4>1. got'[c][k] = m
        BY <3>4
      <4> QED
        BY <3>2, <4>1 DEF InHand
    <3> QED
      BY <1>2, <2>2, <3>1, <3>3, <3>5
  <2> QED
    BY <2>1, <2>2
<1> QED
  BY <1>7, <1>8, <1>9, <1>10, <1>11 DEF IInv

LEMMA ReleasePayload_IInv ==
  ASSUME IInv, NEW c \in Consumers, ReleasePayload(c), UNCHANGED batches
  PROVE  IInv'
<1>1. PICK m : m = Current(c)
  OBVIOUS
<1>2. /\ cpc[c] = "release"
      /\ IF managed[m] THEN refs[m] > 0 /\ refs' = [refs EXCEPT ![m] = @ - 1] ELSE UNCHANGED refs
      /\ cpc' = [cpc EXCEPT ![c] = "call"]
      /\ heard' = [heard EXCEPT ![c] = IF heard[c] + 1 = copied[m] THEN 0 ELSE @ + 1]
      /\ pos' = [pos EXCEPT ![c] = IF heard[c] + 1 = copied[m] THEN @ + 1 ELSE @]
      /\ UNCHANGED <<count, written, adding, ring, state, home, copied, managed, torn, ppc, pmsg,
                     target, pushing, source, got, called, by, batch, batchedOn>>
  BY <1>1 DEF ReleasePayload, Advance, registry, message, producing, batches
<1>3. /\ got[c] \in Seq(Messages) /\ Len(got[c]) \in Nat /\ DOMAIN got[c] = 1 .. Len(got[c])
      /\ Len(got[c]) <= BatchSize
      /\ pos[c] \in DOMAIN got[c] /\ got[c][pos[c]] = m /\ m \in Messages /\ state[m] = "taken"
      /\ InHand(c, m) /\ source[c] \in Queues
      /\ \A k \in DOMAIN got[c] : k # pos[c] => got[c][k] # m
      /\ \A d \in Consumers : d # c => \A k \in Elements(got[d]) : k # m
      /\ \A k \in Elements(got[c]) : k \in Messages
  <2>1. pos[c] <= Len(got[c])
    <3>1. pos[c] \in 1 .. Len(got[c]) /\ got[c] \in Seq(Messages)
      BY <1>2 DEF IInv, Calls, Bounds, Shapes
    <3> QED
      BY <3>1
  <2> QED
    BY <1>1, <1>2, <2>1, CurrentFacts
<1>4. /\ cpc \in [Consumers -> {"idle", "fetch", "call", "release"}]
      /\ refs \in [Messages -> 0 .. MaxObservers] /\ heard \in [Consumers -> 0 .. MaxObservers]
      /\ pos \in [Consumers -> Nat] /\ \A d \in Consumers : pos[d] \in 0 .. BatchSize + 1
  BY DEF IInv, TypeOK, Shapes
<1>5. /\ copied[m] \in 1 .. MaxObservers /\ heard[c] \in Nat /\ heard[c] < copied[m]
      /\ called[m] = heard[c] + 1 /\ (managed[m] => refs[m] = copied[m] - heard[c])
  BY <1>2, <1>3, <1>4 DEF InHand, Owes
<1>6. /\ managed[m] => refs'[m] = copied[m] - (heard[c] + 1)
      /\ refs' \in [Messages -> 0 .. MaxObservers]
      /\ \A k \in Messages : k # m => refs'[k] = refs[k]
  <2>1. CASE managed[m]
    <3>1. refs' = [refs EXCEPT ![m] = refs[m] - 1] /\ refs[m] - 1 = copied[m] - (heard[c] + 1)
          /\ refs[m] - 1 \in 0 .. MaxObservers
      <4>1. refs' = [refs EXCEPT ![m] = refs[m] - 1]
        BY <1>2, <2>1, Zenon
      <4>2. refs[m] = copied[m] - heard[c]
        BY <1>5, <2>1, Zenon
      <4>3. refs[m] - 1 = copied[m] - (heard[c] + 1) /\ refs[m] - 1 \in 0 .. MaxObservers
        BY <1>5, <4>2
      <4> QED
        BY <4>1, <4>3
    <3> QED
      BY <1>3, <1>4, <3>1
  <2>2. CASE ~ managed[m]
    BY <1>2, <1>4, <2>2
  <2> QED
    BY <2>1, <2>2
<1>7. /\ cpc'[c] = "call" /\ \A d \in Consumers : d # c => cpc'[d] = cpc[d] /\ heard'[d] = heard[d] /\ pos'[d] = pos[d]
      /\ heard'[c] = IF heard[c] + 1 = copied[m] THEN 0 ELSE heard[c] + 1
      /\ pos'[c] = IF heard[c] + 1 = copied[m] THEN pos[c] + 1 ELSE pos[c]
  BY <1>2, <1>4
<1>8. TypeOK'
  <2>1. cpc' \in [Consumers -> {"idle", "fetch", "call", "release"}]
    BY <1>2, <1>4
  <2>2. heard' \in [Consumers -> 0 .. MaxObservers]
    <3>1. (IF heard[c] + 1 = copied[m] THEN 0 ELSE heard[c] + 1) \in 0 .. MaxObservers
      BY <1>5
    <3> QED
      BY <1>2, <1>4, <3>1
  <2>3. \A d \in Consumers : pos'[d] \in 0 .. BatchSize + 1
    <3>1. pos[c] \in 1 .. BatchSize /\ BatchSize \in Nat
      BY <1>3, BatchAssumption
    <3>2. pos'[c] \in 0 .. BatchSize + 1
      BY <1>7, <3>1
    <3> QED
      BY <1>4, <1>7, <3>2
  <2> QED
    BY <1>2, <1>6, <2>1, <2>2, <2>3 DEF IInv, TypeOK
<1>9. Shapes'
  <2>1. pos' \in [Consumers -> Nat]
    BY <1>2, <1>4
  <2> QED
    BY <1>2, <2>1 DEF IInv, Shapes
<1>10. Registry' /\ SnapshotWhole'
  BY <1>2 DEF IInv, Registry, SnapshotWhole
<1>11. Fills' /\ Batches' /\ Pushes' /\ Rings' /\ Takes' /\ Homes'
  BY <1>2, KeepFills, KeepBatches, KeepPushes, KeepRings, KeepTakes, KeepHomes DEF IInv
<1>12. Waits'
  <2>1. \A k \in Messages : state[k] # "taken" => refs'[k] = refs[k]
    BY <1>3, <1>6
  <2>2. \A k \in Messages : state[k] # "taken" /\ Fresh(k) => Fresh(k)'
    BY <1>2, <2>1 DEF Fresh, Owes
  <2> QED
    BY <1>2, <2>2 DEF IInv, Waits
<1>13. Calls'
  <2> SUFFICES ASSUME NEW d \in Consumers
               PROVE  /\ Bounds(d)'
                      /\ \A k \in DOMAIN got'[d] : k > pos'[d] => Fresh(got[d][k])'
                      /\ \A k \in DOMAIN got'[d] : k = pos'[d] => InHand(d, got[d][k])'
    BY Zenon DEF Calls
  <2>1. CASE d # c
    <3>1. /\ cpc'[d] = cpc[d] /\ heard'[d] = heard[d] /\ pos'[d] = pos[d]
          /\ \A k \in Elements(got[d]) : refs'[k] = refs[k]
      BY <1>3, <1>6, <1>7, <2>1, Contents DEF IInv
    <3> QED
      BY <1>2, <3>1, OthersCalls DEF IInv
  <2>2. CASE d = c
    <3>1. ASSUME NEW k \in DOMAIN got[c], k > pos[c]
          PROVE  Fresh(got[c][k]) /\ Fresh(got[c][k])' /\ got[c][k] \in Messages
      <4>1. PICK n : n = got[c][k]
        OBVIOUS
      <4>2. n # m /\ n \in Messages
        BY <1>3, <3>1, <4>1
      <4>3. Fresh(n)
        BY <3>1, <4>1 DEF IInv, Calls
      <4> QED
        BY <1>2, <1>6, <4>1, <4>2, <4>3 DEF Fresh, Owes
    <3>2. CASE heard[c] + 1 = copied[m]
      <4>1. heard'[c] = 0 /\ pos'[c] = pos[c] + 1 /\ cpc'[c] = "call"
        BY <1>7, <3>2
      <4>2. Bounds(c)'
        BY <1>2, <1>3, <4>1 DEF Bounds
      <4>3. \A k \in DOMAIN got[c] : k > pos'[c] => Fresh(got[c][k])'
        BY <1>3, <3>1, <4>1
      <4>4. \A k \in DOMAIN got[c] : k = pos'[c] => InHand(c, got[c][k])'
        <5> SUFFICES ASSUME NEW k \in DOMAIN got[c], k = pos'[c] PROVE InHand(c, got[c][k])'
          OBVIOUS
        <5>1. Fresh(got[c][k])'
          BY <1>3, <3>1, <4>1
        <5> QED
          BY <4>1, <5>1 DEF Fresh, InHand, Owes
      <4> QED
        BY <1>2, <2>2, <4>2, <4>3, <4>4
    <3>3. CASE heard[c] + 1 # copied[m]
      <4>1. heard'[c] = heard[c] + 1 /\ pos'[c] = pos[c] /\ cpc'[c] = "call" /\ heard[c] + 1 < copied[m]
        BY <1>5, <1>7, <3>3
      <4>2. Bounds(c)'
        BY <1>2, <1>3, <4>1 DEF Bounds
      <4>3. \A k \in DOMAIN got[c] : k > pos'[c] => Fresh(got[c][k])'
        BY <3>1, <4>1
      <4>4. \A k \in DOMAIN got[c] : k = pos'[c] => InHand(c, got[c][k])'
        <5> SUFFICES ASSUME NEW k \in DOMAIN got[c], k = pos'[c] PROVE InHand(c, got[c][k])'
          OBVIOUS
        <5>1. got'[c][k] = m
          BY <1>2, <1>3, <4>1
        <5> QED
          BY <1>2, <1>5, <1>6, <4>1, <5>1 DEF InHand, Owes
      <4> QED
        BY <1>2, <2>2, <4>2, <4>3, <4>4
    <3> QED
      BY <3>2, <3>3
  <2> QED
    BY <2>1, <2>2
<1> QED
  BY <1>6, <1>8, <1>9, <1>10, <1>11, <1>12, <1>13 DEF IInv

LEMMA DispatchEnd_IInv ==
  ASSUME IInv, NEW c \in Consumers, DispatchEnd(c), UNCHANGED batches
  PROVE  IInv'
<1>1. /\ cpc[c] = "call" /\ pos[c] > Len(got[c])
      /\ state' = [m \in Messages |-> IF m \in Elements(got[c]) THEN "done" ELSE state[m]]
      /\ got' = [got EXCEPT ![c] = << >>] /\ pos' = [pos EXCEPT ![c] = 0]
      /\ cpc' = [cpc EXCEPT ![c] = "idle"] /\ source' = [source EXCEPT ![c] = None]
      /\ UNCHANGED <<count, written, adding, ring, home, copied, managed, torn, refs, ppc, pmsg,
                     target, pushing, heard, called, by, batch, batchedOn>>
  BY DEF DispatchEnd, Elements, registry, message, producing, batches
<1>2. /\ state \in [Messages -> {"unused", "filling", "batched", "pushing", "queued", "taken", "done"}]
      /\ cpc \in [Consumers -> {"idle", "fetch", "call", "release"}]
      /\ source \in [Consumers -> Queues \cup {None}]
      /\ got \in [Consumers -> Seq(Messages)] /\ pos \in [Consumers -> Nat]
      /\ \A d \in Consumers : Len(got[d]) <= BatchSize /\ pos[d] \in 0 .. BatchSize + 1
  BY DEF IInv, TypeOK, Shapes
<1>3. heard[c] = 0
  <2>1. pos[c] \in 1 .. Len(got[c]) + 1 /\ Len(got[c]) \in Nat
    BY <1>1, <1>2 DEF IInv, Calls, Bounds
  <2>2. pos[c] = Len(got[c]) + 1
    BY <1>1, <2>1
  <2> QED
    BY <1>1, <2>2 DEF IInv, Calls, Bounds
<1>4. \A k \in Messages : (state'[k] = state[k]) \/ (state[k] = "taken" /\ state'[k] = "done")
  BY <1>1, <1>2 DEF IInv, Takes
<1>5. /\ got'[c] = << >> /\ pos'[c] = 0 /\ cpc'[c] = "idle"
      /\ \A d \in Consumers : d # c =>
           /\ got'[d] = got[d] /\ pos'[d] = pos[d] /\ cpc'[d] = cpc[d] /\ source'[d] = source[d]
  BY <1>1, <1>2
<1>6. TypeOK'
  <2>1. /\ state' \in [Messages -> {"unused", "filling", "batched", "pushing", "queued", "taken", "done"}]
        /\ cpc' \in [Consumers -> {"idle", "fetch", "call", "release"}]
        /\ source' \in [Consumers -> Queues \cup {None}]
    BY <1>1, <1>2
  <2>2. \A d \in Consumers : Len(got'[d]) <= BatchSize /\ pos'[d] \in 0 .. BatchSize + 1
    <3>1. Len(got'[c]) <= BatchSize /\ pos'[c] \in 0 .. BatchSize + 1
      BY <1>5, NoElements
    <3> QED
      BY <1>2, <1>5, <3>1
  <2> QED
    BY <1>1, <2>1, <2>2 DEF IInv, TypeOK
<1>7. Shapes'
  <2>1. got' \in [Consumers -> Seq(Messages)] /\ pos' \in [Consumers -> Nat]
    BY <1>1, <1>2, NoElements
  <2> QED
    BY <1>1, <2>1 DEF IInv, Shapes
<1>8. Registry' /\ SnapshotWhole'
  BY <1>1 DEF IInv, Registry, SnapshotWhole
<1>9. Fills' /\ Batches' /\ Pushes' /\ Rings' /\ Waits'
  BY <1>1, <1>4, KeepFills, KeepBatches, KeepPushes, KeepRings, KeepWaits DEF IInv
<1>10. Homes'
  <2>1. \A k \in Messages : state[k] # "unused" => state'[k] # "unused"
    BY <1>4
  <2> QED
    BY <1>1, <2>1, KeepHomes DEF IInv
<1>11. Takes'
  <2>1. \A d \in Consumers : Unique(got'[d])
    BY <1>5, NoElements DEF IInv, Takes
  <2>2. \A d \in Consumers : \A k \in Elements(got'[d]) : d # c /\ k \in Elements(got[d]) /\ k \in Messages
    BY <1>5, NoElements, Contents DEF IInv
  <2>3. \A d \in Consumers : \A k \in Elements(got'[d]) : state'[k] = "taken"
    <3> SUFFICES ASSUME NEW d \in Consumers, NEW k \in Elements(got'[d]) PROVE state'[k] = "taken"
      OBVIOUS
    <3>1. d # c /\ k \in Messages /\ state[k] = "taken" /\ k \notin Elements(got[c])
      BY <2>2 DEF IInv, Takes
    <3> QED
      BY <1>1, <3>1
  <2>4. \A d, e \in Consumers : \A k \in Elements(got'[d]) : k \in Elements(got'[e]) => d = e
    BY <2>2 DEF IInv, Takes
  <2> QED
    BY <2>1, <2>3, <2>4 DEF Takes
<1>12. Calls'
  <2> SUFFICES ASSUME NEW d \in Consumers
               PROVE  /\ Bounds(d)'
                      /\ \A k \in DOMAIN got'[d] : k > pos'[d] => Fresh(got[d][k])'
                      /\ \A k \in DOMAIN got'[d] : k = pos'[d] => InHand(d, got[d][k])'
    BY Zenon DEF Calls
  <2>1. CASE d # c
    <3>1. /\ cpc'[d] = cpc[d] /\ source'[d] = source[d]
          /\ got'[d] = got[d] /\ pos'[d] = pos[d] /\ heard'[d] = heard[d]
      BY <1>1, <1>5, <2>1
    <3> QED
      BY <1>1, <3>1, OthersCalls DEF IInv
  <2>2. CASE d = c
    <3>1. Bounds(c)'
      BY <1>1, <1>3, <1>5 DEF Bounds
    <3>2. \A k : k \notin DOMAIN got'[c]
      BY <1>5, NoElements
    <3> QED
      BY <2>2, <3>1, <3>2
  <2> QED
    BY <2>1, <2>2
<1> QED
  BY <1>6, <1>7, <1>8, <1>9, <1>10, <1>11, <1>12 DEF IInv

-----------------------------------------------------------------------------
(* The theorems *)

LEMMA Stutter_IInv ==
  ASSUME IInv, UNCHANGED vars
  PROVE  IInv'
<1>1. UNCHANGED <<count, written, adding, ring, state, home, copied, managed, torn, refs, ppc, pmsg,
                  target, pushing, cpc, source, got, pos, heard, called, by, batch, batchedOn>>
  BY DEF vars, fastVars, registry, message, producing, consuming
<1>2. TypeOK' /\ Registry' /\ Shapes' /\ SnapshotWhole'
  BY <1>1 DEF IInv, TypeOK, Registry, Shapes, SnapshotWhole
<1>3. Fills' /\ Batches' /\ Pushes' /\ Rings' /\ Takes' /\ Waits' /\ Calls' /\ Homes'
  BY <1>1, KeepFills, KeepBatches, KeepPushes, KeepRings, KeepTakes, KeepWaits, KeepCalls, KeepHomes
     DEF IInv, consuming
<1> QED
  BY <1>2, <1>3 DEF IInv

\* The invariant of the proof holds: the message of every post is in one buffer, one
\* ring or one dispatch, with a reference for each observer that has not heard it.
THEOREM Invariance == Spec => []IInv
<1>1. IInv /\ [Next]_vars => IInv'
  <2> SUFFICES ASSUME IInv, [Next]_vars PROVE IInv'
    OBVIOUS
  <2>1. ASSUME NEW q \in Queues, AddWrite(q) \/ AddStore(q), UNCHANGED batches
        PROVE  IInv'
    BY <2>1, AddWrite_IInv, AddStore_IInv
  <2>2. ASSUME NEW p \in Producers, NEW q \in Queues, NEW m \in Messages, NEW large \in BOOLEAN,
               PostBegin(p, q, m, large, "fill") \/ PostBegin(p, q, m, large, "fillBatched"),
               UNCHANGED batches
        PROVE  IInv'
    BY <2>2, PostBegin_IInv
  <2>3. ASSUME NEW p \in Producers, PostFill(p) \/ PushStep(p), UNCHANGED batches
        PROVE  IInv'
    BY <2>3, PostFill_IInv, PushClaim_IInv, PushPublish_IInv DEF PushStep
  <2>4. ASSUME NEW c \in Consumers, DispatchStep(c), UNCHANGED batches
        PROVE  IInv'
    BY <2>4, DispatchPop_IInv, Callback_IInv, ReleasePayload_IInv, DispatchEnd_IInv DEF DispatchStep
  <2>5. ASSUME NEW p \in Producers,
               PostBatched(p) \/ PostBatchedFull(p) \/ \E q \in Queues : FlushBatch(p, q)
        PROVE  IInv'
    BY <2>5, PostBatched_IInv, PostBatchedFull_IInv, FlushBatch_IInv
  <2>6. ASSUME NEW c \in Consumers,
               FetchMore(c) \/ FetchEnd(c) \/ \E q \in Queues : FetchFirst(c, q)
        PROVE  IInv'
    BY <2>6, FetchMore_IInv, FetchEnd_IInv, FetchFirst_IInv
  <2>7. CASE UNCHANGED vars
    BY <2>7, Stutter_IInv
  <2> QED
    BY <2>1, <2>2, <2>3, <2>4, <2>5, <2>6, <2>7 DEF Next, Idle
<1> QED
  BY <1>1, Init_IInv, PTL DEF Spec

\* Every variable keeps its type; in particular no reference count goes below zero, no
\* batch grows beyond BATCH_SIZE and no ring beyond its capacity.
THEOREM TypesAreKept == Spec => []TypeOK
<1>1. IInv => TypeOK
  BY DEF IInv
<1> QED
  BY <1>1, Invariance, PTL

\* The observers that post and postBatched copy have all been written, while
\* addObserver goes on.
THEOREM SnapshotsAreWhole == Spec => []SnapshotWhole
<1>1. IInv => SnapshotWhole
  BY DEF IInv
<1> QED
  BY <1>1, Invariance, PTL

LEMMA AtMostOne ==
  ASSUME NEW S, IsFiniteSet(S), Cardinality(S) <= 1, NEW a \in S, NEW b \in S
  PROVE  a = b
<1> SUFFICES ASSUME a # b PROVE FALSE
  OBVIOUS
<1>1. IsFiniteSet({b}) /\ Cardinality({b}) = 1
  BY FS_Singleton
<1>2. Cardinality({b} \cup {a}) = 2
  BY <1>1, FS_AddElement
<1>3. {b} \cup {a} \in SUBSET S
  OBVIOUS
<1>4. Cardinality({b} \cup {a}) <= Cardinality(S)
  BY <1>3, FS_Subset
<1>5. Cardinality(S) \in Nat
  BY FS_CardinalityType
<1> QED
  BY <1>2, <1>4, <1>5

\* A message is dispatched by the queue it was posted to, as long as every thread
\* batches on one queue only (t_batch belongs to the thread).
THEOREM MessagesStayHome == Spec => []StaysHome
<1>1. IInv => StaysHome
  <2> SUFFICES ASSUME IInv, \A p \in Producers : Cardinality(batchedOn[p]) <= 1,
                      NEW m \in Messages, by[m] # None
               PROVE  by[m] = home[m]
    BY DEF StaysHome
  <2>1. Mixed(home[m], by[m])
    BY DEF IInv, Homes
  <2>2. ASSUME NEW p \in Producers, home[m] \in batchedOn[p], by[m] \in batchedOn[p]
        PROVE  by[m] = home[m]
    <3>1. IsFiniteSet(batchedOn[p])
      BY DEF IInv, Shapes
    <3> QED
      BY <2>2, <3>1, AtMostOne
  <2> QED
    BY <2>1, <2>2 DEF Mixed
<1> QED
  BY <1>1, Invariance, PTL

-----------------------------------------------------------------------------
(* The refinement *)

\* The view changes only with what it shows of a message.
LEMMA SameView ==
  ASSUME called' = called,
         \A m \in Messages :
           /\ Accepted(m)' <=> Accepted(m)
           /\ Accepted(m) =>
                /\ copied'[m] = copied[m] /\ (managed'[m] <=> managed[m])
                /\ managed[m] => (refs'[m] > 0 <=> refs[m] > 0)
  PROVE  UNCHANGED Abstract!vars
<1>1. audience' = audience
  BY Zenon DEF audience
<1>2. \A m \in Messages : payload'[m] = payload[m]
  BY Zenon DEF payload
<1>3. payload = [m \in Messages |-> payload[m]] /\ payload' = [m \in Messages |-> payload'[m]]
  BY DEF payload
<1>4. payload' = payload
  <2> HIDE DEF payload
  <2> QED
    BY <1>2, <1>3
<1> QED
  BY <1>1, <1>4 DEF Abstract!vars

LEMMA Init_Abstract == Init => Abstract!Init
<1> SUFFICES ASSUME Init PROVE Abstract!Init
  OBVIOUS
<1>1. \A m \in Messages : ~ Accepted(m)
  BY DEF Init, FastInit, Accepted
<1>2. audience = [m \in Messages |-> 0]
  BY <1>1, Zenon DEF audience
<1>3. payload = [m \in Messages |-> "none"]
  BY <1>1, Zenon DEF payload
<1> QED
  BY <1>2, <1>3 DEF Init, FastInit, Abstract!Init

\* A post accepts its message when it has copied the observers.
LEMMA Fill_Abstract ==
  ASSUME IInv, NEW p \in Producers, Filling(p), Fill(p), UNCHANGED <<copied, managed, called>>,
         state'[pmsg[p]] \notin {"unused", "filling"},
         \A k \in Messages : k # pmsg[p] =>
           state'[k] = state[k] \/ (Accepted(k) /\ Accepted(k)')
  PROVE  \E m \in Messages : Abstract!Accept(m)
<1>1. PICK m : m = pmsg[p]
  OBVIOUS
<1>2. /\ m \in Messages /\ state[m] = "filling"
      /\ copied[m] \in 1 .. MaxObservers /\ called[m] = 0
      /\ managed[m] => refs'[m] = copied[m]
      /\ \A k \in Messages : k # m => refs'[k] = refs[k]
  BY <1>1, FillFacts
<1>3. /\ ~ Accepted(m) /\ Accepted(m)'
      /\ \A k \in Messages : k # m => (Accepted(k)' <=> Accepted(k))
  BY <1>1, <1>2 DEF Accepted
<1>4. audience[m] = 0 /\ audience' = [audience EXCEPT ![m] = copied[m]]
  <2>1. audience[m] = 0 /\ audience'[m] = copied[m] /\ \A k \in Messages : k # m => audience'[k] = audience[k]
    BY <1>2, <1>3, Zenon DEF audience
  <2>2. audience = [k \in Messages |-> audience[k]] /\ audience' = [k \in Messages |-> audience'[k]]
    BY DEF audience
  <2> HIDE DEF audience
  <2> QED
    BY <2>1, <2>2
<1> DEFINE kind == IF managed[m] THEN "alive" ELSE "inline"
<1>5. payload' = [payload EXCEPT ![m] = kind]
  <2>1. \A k \in Messages : k # m => payload'[k] = payload[k]
    BY <1>2, <1>3, Zenon DEF payload
  <2>2. payload'[m] = kind
    <3>1. CASE managed[m]
      <4>1. refs'[m] = copied[m]
        BY <1>2, <3>1, Zenon
      <4>2. refs'[m] > 0
        BY <1>2, <4>1
      <4> QED
        BY <1>2, <1>3, <3>1, <4>2, Zenon DEF payload
    <3>2. CASE ~ managed[m]
      BY <1>2, <1>3, <3>2, Zenon DEF payload
    <3> QED
      BY <3>1, <3>2
  <2>3. payload = [k \in Messages |-> payload[k]] /\ payload' = [k \in Messages |-> payload'[k]]
    BY DEF payload
  <2> HIDE DEF kind, payload
  <2> QED
    BY <2>1, <2>2, <2>3
<1>6. kind \in {"inline", "alive"}
  OBVIOUS
<1> QED
  BY <1>2, <1>4, <1>5, <1>6 DEF Abstract!Accept

LEMMA Callback_Abstract ==
  ASSUME IInv, NEW c \in Consumers, Callback(c), UNCHANGED batches
  PROVE  \E m \in Messages : Abstract!Hear(m)
<1>1. PICK m : m = Current(c)
  OBVIOUS
<1>2. /\ cpc[c] = "call" /\ pos[c] <= Len(got[c]) /\ called' = [called EXCEPT ![m] = @ + 1]
      /\ UNCHANGED <<state, copied, managed, refs>>
  BY <1>1 DEF Callback, message
<1>3. m \in Messages /\ state[m] = "taken" /\ InHand(c, m)
  BY <1>1, <1>2, CurrentFacts
<1>4. heard[c] \in Nat /\ copied[m] \in Nat
  BY <1>3 DEF IInv, TypeOK
<1>5. Accepted(m) /\ called[m] < copied[m] /\ (managed[m] => refs[m] > 0)
  BY <1>2, <1>3, <1>4 DEF Accepted, InHand, Owes
<1>6. called[m] < audience[m]
  BY <1>3, <1>5 DEF audience
<1>7. payload[m] # "freed"
  BY <1>3, <1>5, Zenon DEF payload
<1>8. audience' = audience /\ payload' = payload
  BY <1>2 DEF audience, payload, Accepted
<1> QED
  BY <1>2, <1>3, <1>6, <1>7, <1>8 DEF Abstract!Hear

\* The payload is freed with the reference of the last observer, after its callback.
LEMMA ReleasePayload_Abstract ==
  ASSUME IInv, NEW c \in Consumers, ReleasePayload(c), UNCHANGED batches
  PROVE  (\E m \in Messages : Abstract!Free(m)) \/ UNCHANGED Abstract!vars
<1>1. PICK m : m = Current(c)
  OBVIOUS
<1>2. /\ cpc[c] = "release" /\ UNCHANGED <<state, copied, managed, called>>
      /\ IF managed[m] THEN refs[m] > 0 /\ refs' = [refs EXCEPT ![m] = @ - 1] ELSE UNCHANGED refs
  BY <1>1 DEF ReleasePayload, Advance, message
<1>3. m \in Messages /\ state[m] = "taken" /\ InHand(c, m)
  <2>1. pos[c] \in 1 .. Len(got[c]) /\ got[c] \in Seq(Messages)
    BY <1>2 DEF IInv, Calls, Bounds, Shapes
  <2>2. pos[c] <= Len(got[c])
    BY <2>1
  <2> QED
    BY <1>1, <1>2, <2>2, CurrentFacts
<1>4. \A k \in Messages : Accepted(k)' <=> Accepted(k)
  BY <1>2 DEF Accepted
<1>5. refs \in [Messages -> 0 .. MaxObservers] /\ heard[c] \in Nat /\ copied[m] \in Nat
  BY <1>3 DEF IInv, TypeOK
<1>6. CASE managed[m] /\ refs[m] = 1
  <2>1. refs' = [refs EXCEPT ![m] = @ - 1]
    BY <1>2, <1>6, Zenon
  <2>2. refs'[m] = 0 /\ \A k \in Messages : k # m => refs'[k] = refs[k]
    BY <1>3, <1>5, <1>6, <2>1
  <2>3. Accepted(m) /\ refs[m] > 0 /\ ~ (refs'[m] > 0)
    BY <1>3, <1>6, <2>2 DEF Accepted
  <2>4. payload[m] = "alive" /\ payload'[m] = "freed"
    BY <1>2, <1>3, <1>4, <1>6, <2>3, Zenon DEF payload
  <2>5. \A k \in Messages : k # m => payload'[k] = payload[k]
    BY <1>2, <1>4, <2>2, Zenon DEF payload
  <2>6. payload = [k \in Messages |-> payload[k]] /\ payload' = [k \in Messages |-> payload'[k]]
    BY DEF payload
  <2>7. payload' = [payload EXCEPT ![m] = "freed"]
    <3> HIDE DEF payload
    <3> QED
      BY <2>4, <2>5, <2>6
  <2>8. called[m] = audience[m]
    <3>1. called[m] = heard[c] + 1 /\ refs[m] = copied[m] - heard[c]
      <4>1. Owes(m, copied[m] - heard[c]) /\ called[m] = heard[c] + 1
        BY <1>2, <1>3 DEF InHand
      <4> QED
        BY <1>6, <4>1, Zenon DEF Owes
    <3>2. called[m] = copied[m]
      BY <1>5, <1>6, <3>1
    <3> QED
      BY <1>3, <2>3, <3>2 DEF audience
  <2>9. audience' = audience
    BY <1>2, <1>4, Zenon DEF audience
  <2> QED
    BY <1>2, <1>3, <2>4, <2>7, <2>8, <2>9 DEF Abstract!Free
<1>7. CASE managed[m] /\ refs[m] # 1
  <2>1. refs[m] > 0 /\ refs' = [refs EXCEPT ![m] = @ - 1]
    BY <1>2, <1>7, Zenon
  <2>2. \A k \in Messages : refs'[k] > 0 <=> refs[k] > 0
    BY <1>3, <1>5, <1>7, <2>1
  <2> QED
    BY <1>2, <1>4, <2>2, SameView
<1>8. CASE ~ managed[m]
  <2>1. refs' = refs
    BY <1>2, <1>8, Zenon
  <2> QED
    BY <1>2, <1>4, <2>1, SameView
<1> QED
  BY <1>6, <1>7, <1>8

LEMMA Posts_Abstract ==
  ASSUME IInv, NEW p \in Producers,
         (PostFill(p) /\ UNCHANGED batches) \/ PostBatched(p) \/ PostBatchedFull(p)
  PROVE  \E m \in Messages : Abstract!Accept(m)
<1>1. PICK m : m = pmsg[p]
  OBVIOUS
<1>2. /\ Filling(p) /\ Fill(p) /\ UNCHANGED <<copied, managed, called>>
  BY DEF PostFill, PostBatched, PostBatchedFull, Buffer, Filling
<1>3. m \in Messages /\ state[m] = "filling"
  BY <1>1, <1>2, FillFacts
<1>4. state \in [Messages -> {"unused", "filling", "batched", "pushing", "queued", "taken", "done"}]
  BY DEF IInv, TypeOK
<1>5. CASE PostFill(p) \/ PostBatched(p)
  <2>1. \/ state' = [state EXCEPT ![m] = "pushing"]
        \/ state' = [state EXCEPT ![m] = "batched"]
    BY <1>1, <1>5 DEF PostFill, PostBatched
  <2>2. state'[m] \notin {"unused", "filling"} /\ \A k \in Messages : k # m => state'[k] = state[k]
    BY <1>3, <1>4, <2>1
  <2> QED
    BY <1>1, <1>2, <2>2, Fill_Abstract
<1>6. CASE PostBatchedFull(p)
  <2>1. PICK all : all = Append(batch[p], m)
    OBVIOUS
  <2>2. state' = [k \in Messages |-> IF k \in Elements(all) THEN "pushing" ELSE state[k]]
    BY <1>1, <1>6, <2>1 DEF PostBatchedFull
  <2>3. Elements(all) = Elements(batch[p]) \cup {m} /\ \A k \in Elements(batch[p]) : state[k] = "batched"
    BY <1>3, <2>1, AppendElements DEF IInv, Shapes, Batches
  <2>4. state'[m] \notin {"unused", "filling"}
    BY <1>3, <2>2, <2>3
  <2>5. \A k \in Messages : k # m => state'[k] = state[k] \/ (state[k] = "batched" /\ state'[k] = "pushing")
    BY <2>2, <2>3
  <2>6. \A k \in Messages : k # m => state'[k] = state[k] \/ (Accepted(k) /\ Accepted(k)')
    BY <2>5 DEF Accepted
  <2> QED
    BY <1>1, <1>2, <2>4, <2>6, Fill_Abstract
<1> QED
  BY <1>5, <1>6

\* What is left only moves messages.
LEMMA Begins_Abstract ==
  ASSUME IInv, UNCHANGED batches,
         \/ \E q \in Queues : AddWrite(q) \/ AddStore(q)
         \/ \E p \in Producers, q \in Queues, m \in Messages, large \in BOOLEAN :
              PostBegin(p, q, m, large, "fill") \/ PostBegin(p, q, m, large, "fillBatched")
  PROVE  UNCHANGED Abstract!vars
<1>1. CASE \E q \in Queues : AddWrite(q) \/ AddStore(q)
  <2>1. UNCHANGED <<state, copied, managed, refs, called>>
    BY <1>1 DEF AddWrite, AddStore, message
  <2> QED
    BY <2>1, SameView DEF Accepted
<1>2. ASSUME NEW p \in Producers, NEW q \in Queues, NEW m \in Messages, NEW large \in BOOLEAN,
             NEW next, PostBegin(p, q, m, large, next)
      PROVE  UNCHANGED Abstract!vars
  <2>1. /\ state[m] = "unused" /\ state' = [state EXCEPT ![m] = "filling"]
        /\ copied' = [copied EXCEPT ![m] = count[q]] /\ managed' = [managed EXCEPT ![m] = large]
        /\ refs' = refs /\ called' = called
    BY <1>2 DEF PostBegin
  <2>2. /\ state \in [Messages -> {"unused", "filling", "batched", "pushing", "queued", "taken", "done"}]
        /\ copied \in [Messages -> 0 .. MaxObservers] /\ managed \in [Messages -> BOOLEAN]
    BY DEF IInv, TypeOK
  <2>3. /\ ~ Accepted(m) /\ ~ Accepted(m)'
        /\ \A k \in Messages : k # m => /\ Accepted(k)' <=> Accepted(k)
                                        /\ copied'[k] = copied[k] /\ managed'[k] = managed[k]
    BY <2>1, <2>2 DEF Accepted
  <2>4. \A k \in Messages :
          /\ Accepted(k)' <=> Accepted(k)
          /\ Accepted(k) =>
               /\ copied'[k] = copied[k] /\ (managed'[k] <=> managed[k])
               /\ managed[k] => (refs'[k] > 0 <=> refs[k] > 0)
    BY <2>1, <2>3, Zenon
  <2> QED
    BY <2>1, <2>4, SameView
<1> QED
  BY <1>1, <1>2

LEMMA Moves_Abstract ==
  ASSUME IInv,
         \/ \E p \in Producers : PushStep(p) \/ \E q \in Queues : FlushBatch(p, q)
         \/ \E c \in Consumers :
              \/ DispatchEnd(c) \/ FetchMore(c) \/ FetchEnd(c)
              \/ \E q \in Queues : DispatchPop(c, q) \/ FetchFirst(c, q)
         \/ UNCHANGED vars
  PROVE  UNCHANGED Abstract!vars
<1>1. state \in [Messages -> {"unused", "filling", "batched", "pushing", "queued", "taken", "done"}]
  BY DEF IInv, TypeOK
<1>2. SUFFICES ASSUME UNCHANGED <<copied, managed, refs, called>>
               PROVE  \A m \in Messages : Accepted(m)' <=> Accepted(m)
  <2>1. UNCHANGED <<copied, managed, refs, called>>
    BY DEF PushStep, PushClaim, PushPublish, FlushBatch, DispatchEnd, FetchMore, FetchEnd, DispatchPop,
           FetchFirst, message, vars, fastVars
  <2> QED
    BY <1>2, <2>1, SameView
<1>3. ASSUME NEW p \in Producers, PushStep(p)
      PROVE  \A m \in Messages : Accepted(m)' <=> Accepted(m)
  <2>1. CASE PushClaim(p)
    BY <2>1 DEF PushClaim, Accepted
  <2>2. CASE PushPublish(p)
    <3>1. PICK m : m = Head(pushing[p])
      OBVIOUS
    <3>2. ppc[p] = "publish" /\ state' = [state EXCEPT ![m] = "queued"]
      BY <2>2, <3>1 DEF PushPublish
    <3>3. m \in Messages /\ state[m] = "pushing"
      <4>1. m \in Messages /\ m \in Elements(pushing[p])
        BY <3>1, <3>2, UnclaimedIsPushed, TailElements
      <4> QED
        BY <4>1 DEF IInv, Pushes
    <3> QED
      BY <1>1, <3>2, <3>3 DEF Accepted
  <2> QED
    BY <1>3, <2>1, <2>2 DEF PushStep
<1>4. ASSUME NEW p \in Producers, NEW q \in Queues, FlushBatch(p, q)
      PROVE  \A m \in Messages : Accepted(m)' <=> Accepted(m)
  <2>1. state' = [m \in Messages |-> IF m \in Elements(batch[p]) THEN "pushing" ELSE state[m]]
    BY <1>4 DEF FlushBatch
  <2>2. \A m \in Elements(batch[p]) : state[m] = "batched"
    BY DEF IInv, Batches
  <2> QED
    BY <2>1, <2>2 DEF Accepted
<1>5. ASSUME NEW c \in Consumers, DispatchEnd(c)
      PROVE  \A m \in Messages : Accepted(m)' <=> Accepted(m)
  <2>1. state' = [m \in Messages |-> IF m \in Elements(got[c]) THEN "done" ELSE state[m]]
    BY <1>5 DEF DispatchEnd, Elements
  <2>2. \A m \in Elements(got[c]) : state[m] = "taken"
    BY DEF IInv, Takes
  <2> QED
    BY <2>1, <2>2 DEF Accepted
<1>6. ASSUME NEW c \in Consumers, NEW q \in Queues, Take(c, q)
      PROVE  \A m \in Messages : Accepted(m)' <=> Accepted(m)
  <2>1. PICK m : m = Head(ring[q]).item
    OBVIOUS
  <2>2. ring[q] \in Seq(Entries) /\ Distinct(ring[q]) /\ Poppable(ring[q])
    BY <1>6 DEF IInv, Shapes, Rings, Take
  <2>3. m \in Ready(ring[q]) /\ m \in Messages
    BY <2>1, <2>2, PopRing
  <2>4. state[m] = "queued" /\ state' = [state EXCEPT ![m] = "taken"]
    BY <1>6, <2>1, <2>3 DEF IInv, Rings, Take
  <2> QED
    BY <1>1, <2>3, <2>4 DEF Accepted
<1>7. ASSUME NEW c \in Consumers, FetchMore(c)
      PROVE  \A m \in Messages : Accepted(m)' <=> Accepted(m)
  <2>1. Take(c, source[c]) /\ cpc[c] = "fetch"
    BY <1>7 DEF FetchMore
  <2>2. source[c] \in Queues
    BY <2>1 DEF IInv, Calls, Bounds
  <2> QED
    BY <1>6, <2>1, <2>2
<1>8. ASSUME state' = state
      PROVE  \A m \in Messages : Accepted(m)' <=> Accepted(m)
  BY <1>8 DEF Accepted
<1> QED
  BY <1>3, <1>4, <1>5, <1>6, <1>7, <1>8 DEF FetchEnd, DispatchPop, FetchFirst, vars, fastVars

\* post, postBatched and the dispatches keep the promises of Broadcast: every observer
\* that was copied into a message hears it once, while its payload is alive, and the
\* last reference is released after all of them.
THEOREM KeepsThePromise == Spec => ImplementsBroadcast
<1>1. IInv /\ [Next]_vars => [Abstract!Next]_Abstract!vars
  <2> SUFFICES ASSUME IInv, [Next]_vars PROVE [Abstract!Next]_Abstract!vars
    OBVIOUS
  <2>1. ASSUME NEW c \in Consumers, DispatchStep(c), UNCHANGED batches
        PROVE  [Abstract!Next]_Abstract!vars
    BY <2>1, Callback_Abstract, ReleasePayload_Abstract, Moves_Abstract DEF DispatchStep, Abstract!Next
  <2>2. ASSUME NEW p \in Producers, PostFill(p) \/ PushStep(p), UNCHANGED batches
        PROVE  [Abstract!Next]_Abstract!vars
    BY <2>2, Posts_Abstract, Moves_Abstract DEF Abstract!Next
  <2>3. ASSUME NEW p \in Producers,
               PostBatched(p) \/ PostBatchedFull(p) \/ \E q \in Queues : FlushBatch(p, q)
        PROVE  [Abstract!Next]_Abstract!vars
    BY <2>3, Posts_Abstract, Moves_Abstract DEF Abstract!Next
  <2>4. ASSUME NEW c \in Consumers,
               FetchMore(c) \/ FetchEnd(c) \/ \E q \in Queues : FetchFirst(c, q)
        PROVE  [Abstract!Next]_Abstract!vars
    BY <2>4, Moves_Abstract
  <2>5. CASE UNCHANGED vars
    BY <2>5, Moves_Abstract
  <2> QED
    BY <2>1, <2>2, <2>3, <2>4, <2>5, Begins_Abstract DEF Next, Idle
<1>2. Spec => []IInv
  BY Invariance
<1> QED
  BY <1>1, <1>2, Init_Abstract, PTL DEF Spec, ImplementsBroadcast, Abstract!Spec
=============================================================================
