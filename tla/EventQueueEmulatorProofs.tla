----------------------- MODULE EventQueueEmulatorProofs ----------------------
(***************************************************************************)
(* Theorems about EventQueueEmulator, for every number of consumers and    *)
(* messages, every capacity, and every ratio.  All assume SoleAcquirers:   *)
(* one thread acquires from each pool.  With several, ObjectPoolLockFree   *)
(* hands out objects that are in use (NoSharing there).                    *)
(***************************************************************************)
EXTENDS EventQueueEmulator, SequenceTheorems, TLAPS

Entries(S) == [item : S, ready : BOOLEAN]

\* A ring of messages of S, whose states are st, holds each message once, and holds
\* every message that is queued.
RingInv(ring, st, S) ==
  /\ ring \in Seq(Entries(S))
  /\ \A j, k \in DOMAIN ring : ring[j].item = ring[k].item => j = k
  /\ \A k \in DOMAIN ring :
       /\ ring[k].ready => st[ring[k].item] = "queued"
       /\ ~ ring[k].ready => st[ring[k].item] = "posting"
  /\ \A m \in S : st[m] = "queued" => m \in Items(ring)

Rings == RingInv(fast, state, FastMessages) /\ RingInv(bulk, state, BulkMessages)

\* A message in a post belongs to one producer, which claims a position for it once.
Posts ==
  /\ \A p \in Producers : pmsg[p] = None <=> ppc[p] = "idle"
  /\ \A p \in Producers : pmsg[p] # None => state[pmsg[p]] = "posting"
  /\ \A p, q \in Producers : pmsg[p] = pmsg[q] /\ pmsg[p] # None => p = q
  /\ \A p \in Producers : ppc[p] = "push" => pmsg[p] \notin Items(fast) \cup Items(bulk)
  /\ \A p \in Producers :
       ppc[p] = "publish" =>
         /\ pmsg[p] \in FastMessages => pmsg[p] \in Items(fast)
         /\ pmsg[p] \in BulkMessages => pmsg[p] \in Items(bulk)

\* A message that is dispatched belongs to one consumer, and what a consumer owes waits.
Dispatches ==
  /\ \A c \in Consumers : cmsg[c] = None <=> cpc[c] \notin {"callFast", "callBulk", "release"}
  /\ \A c \in Consumers : cmsg[c] # None => state[cmsg[c]] = "taken"
  /\ \A c, d \in Consumers : cmsg[c] = cmsg[d] /\ cmsg[c] # None => c = d
  /\ \A c \in Consumers : \A m \in owed[c] : state[m] = "queued"

\* A message that is posted has an audience, and a large payload a reference for each
\* member of it.
Filled(m) ==
  /\ state[m] = "pooled" => copied[m] = 0 /\ ~ managed[m] /\ refs[m] = 0
  /\ state[m] # "pooled" => copied[m] > 0
  /\ state[m] \in {"posting", "queued"} => refs[m] = IF managed[m] THEN copied[m] ELSE 0
  /\ m \in FastMessages => ~ managed[m]

\* While c dispatches, a reference is left for each callback to come, and one for the
\* callback that has just returned.
Counted(c) ==
  /\ cmsg[c] # None =>
       /\ left[c] <= copied[cmsg[c]]
       /\ ~ managed[cmsg[c]] => refs[cmsg[c]] = 0
       /\ managed[cmsg[c]] => refs[cmsg[c]] = left[c] + IF cpc[c] = "release" THEN 1 ELSE 0
  /\ cpc[c] = "release" => managed[cmsg[c]]
  /\ cpc[c] = "callFast" => ~ managed[cmsg[c]]

Payloads ==
  /\ \A m \in Messages : Filled(m)
  /\ \A c \in Consumers : Counted(c)

Bound == IF FastPerBulk = 0 THEN 1 ELSE FastPerBulk

\* dispatchRatio counts at least the messages since it last tried the bulk queue.
Ratio ==
  \A c \in Consumers :
    /\ streak[c] <= Bound
    /\ cpc[c] = "idle" => streak[c] = 0 /\ fastCount[c] = 0
    /\ policy[c] # "ratio" => streak[c] = 0 /\ fastCount[c] = 0
    /\ policy[c] = "ratio" =>
         /\ cpc[c] = "fast" => fastCount[c] < FastPerBulk /\ streak[c] <= fastCount[c]
         /\ cpc[c] = "callFast" => streak[c] <= fastCount[c] + 1
         /\ cpc[c] \in {"last", "callBulk", "release"} => streak[c] = 0

IInv == TypeOK /\ Rings /\ Posts /\ Dispatches /\ Payloads /\ Ratio

\* Only the newest entry of a ring is still to be published.
LastUnready(ring) == \A k \in DOMAIN ring : ~ ring[k].ready => k = Len(ring)

\* A critical message in a post is that of a thread that posts such messages.
Owned == \A m \in FastMessages : state[m] = "posting" => \E p \in FastProducers : pmsg[p] = m

\* What one thread posts to the critical topics is published in the order it was claimed.
FastOrder == Owned /\ LastUnready(fast)

USE MessagesAssumption, PoliciesAssumption, SizesAssumption

-----------------------------------------------------------------------------
(* The rings *)

LEMMA EmptyRing ==
  ASSUME NEW S, NEW st, \A m \in S : st[m] # "queued"
  PROVE  RingInv(<< >>, st, S) /\ Items(<< >>) = {}
  BY DEF RingInv, Items

LEMMA EntryFacts ==
  ASSUME NEW S
  PROVE  /\ \A e \in Entries(S) : e.item \in S
         /\ \A m \in S, b \in BOOLEAN : [item |-> m, ready |-> b] \in Entries(S)
  BY DEF Entries

\* What RingInv says of the entries.
LEMMA RingFacts ==
  ASSUME NEW S, NEW ring, NEW st, RingInv(ring, st, S)
  PROVE  /\ Len(ring) \in Nat /\ DOMAIN ring = 1 .. Len(ring)
         /\ \A k \in DOMAIN ring : ring[k] \in Entries(S) /\ ring[k].item \in S
         /\ \A k \in DOMAIN ring : st[ring[k].item] \in {"posting", "queued"}
         /\ \A k \in DOMAIN ring : ring[k].item \in Items(ring)
<1>1. ring \in Seq(Entries(S))
  BY DEF RingInv
<1>2. Len(ring) \in Nat /\ DOMAIN ring = 1 .. Len(ring) /\ \A k \in DOMAIN ring : ring[k] \in Entries(S)
  BY <1>1
<1>3. \A k \in DOMAIN ring : ring[k].item \in S
  BY <1>2, EntryFacts, Zenon
<1>4. \A k \in DOMAIN ring : st[ring[k].item] = "posting" \/ st[ring[k].item] = "queued"
  BY Zenon DEF RingInv
<1>5. \A k \in DOMAIN ring : ring[k].item \in Items(ring)
  BY DEF Items
<1> QED
  BY <1>2, <1>3, <1>4, <1>5

LEMMA OtherMessage ==
  ASSUME NEW S, NEW ring, NEW st, NEW st2, NEW m, RingInv(ring, st, S),
         \A n \in S : n # m => st2[n] = st[n],
         st[m] \notin {"posting", "queued"}, st2[m] # "queued"
  PROVE  RingInv(ring, st2, S)
<1>1. \A k \in DOMAIN ring : st2[ring[k].item] = st[ring[k].item]
  <2>1. \A k \in DOMAIN ring : ring[k].item # m
    BY RingFacts
  <2> QED
    BY <2>1, RingFacts
<1>2. \A n \in S : st2[n] = "queued" => n \in Items(ring)
  BY Zenon DEF RingInv
<1> QED
  BY <1>1, <1>2, Zenon DEF RingInv

LEMMA ClaimRing ==
  ASSUME NEW S, NEW ring, NEW st, NEW m \in S, RingInv(ring, st, S),
         m \notin Items(ring), st[m] = "posting"
  PROVE  /\ RingInv(Claim(ring, m), st, S)
         /\ Len(Claim(ring, m)) = Len(ring) + 1
<1>1. PICK e : e = [item |-> m, ready |-> FALSE]
  OBVIOUS
<1>2. PICK r : r = Claim(ring, m)
  OBVIOUS
<1>3. e \in Entries(S) /\ e.item = m /\ ~ e.ready
  BY <1>1, EntryFacts
<1>4. ring \in Seq(Entries(S)) /\ r = Append(ring, e)
  BY <1>1, <1>2 DEF RingInv, Claim
<1>5. /\ r \in Seq(Entries(S)) /\ Len(r) = Len(ring) + 1
      /\ r[Len(ring) + 1] = e /\ \A k \in 1 .. Len(ring) : r[k] = ring[k]
      /\ DOMAIN r = 1 .. (Len(ring) + 1) /\ DOMAIN ring = 1 .. Len(ring) /\ Len(ring) \in Nat
  BY <1>3, <1>4, AppendProperties
<1>6. \A k \in DOMAIN r : (k \in DOMAIN ring /\ r[k] = ring[k]) \/ (k = Len(ring) + 1 /\ r[k] = e)
  BY <1>5
<1>7. \A k \in DOMAIN ring : k \in DOMAIN r /\ r[k] = ring[k] /\ ring[k].item # m
  BY <1>5 DEF Items
<1>8. \A j, k \in DOMAIN r : r[j].item = r[k].item => j = k
  BY <1>3, <1>6, <1>7 DEF RingInv
<1>9. \A n : n \in Items(r) <=> n \in Items(ring) \/ n = m
  <2>1. Len(ring) + 1 \in DOMAIN r
    BY <1>5
  <2> QED
    BY <1>3, <1>5, <1>6, <1>7, <2>1 DEF Items
<1>10. \A k \in DOMAIN r : (r[k].ready => st[r[k].item] = "queued")
                           /\ (~ r[k].ready => st[r[k].item] = "posting")
  BY <1>3, <1>6, Zenon DEF RingInv
<1>11. \A n \in S : st[n] = "queued" => n \in Items(r)
  BY <1>9 DEF RingInv
<1>12. RingInv(r, st, S)
  BY <1>5, <1>8, <1>10, <1>11, Zenon DEF RingInv
<1> QED
  BY <1>2, <1>5, <1>12

LEMMA ClaimItems ==
  ASSUME NEW S, NEW ring \in Seq(Entries(S)), NEW m \in S
  PROVE  Items(Claim(ring, m)) = Items(ring) \cup {m}
<1>1. PICK e : e = [item |-> m, ready |-> FALSE]
  OBVIOUS
<1>2. e \in Entries(S) /\ e.item = m
  BY <1>1, EntryFacts
<1>3. PICK r : r = Append(ring, e)
  OBVIOUS
<1>4. /\ r[Len(ring) + 1] = e /\ \A k \in 1 .. Len(ring) : r[k] = ring[k]
      /\ DOMAIN r = 1 .. (Len(ring) + 1) /\ DOMAIN ring = 1 .. Len(ring) /\ Len(ring) \in Nat
  BY <1>2, <1>3, AppendProperties
<1>5. Items(r) = Items(ring) \cup {m}
  <2>1. Len(ring) + 1 \in DOMAIN r /\ \A k \in DOMAIN ring : k \in DOMAIN r
    BY <1>4
  <2>2. \A k \in DOMAIN r : k \in DOMAIN ring \/ k = Len(ring) + 1
    BY <1>4
  <2> QED
    BY <1>2, <1>4, <2>1, <2>2 DEF Items
<1> QED
  BY <1>1, <1>3, <1>5 DEF Claim

LEMMA PublishRing ==
  ASSUME NEW S, NEW ring, NEW st, NEW st2, NEW m, RingInv(ring, st, S),
         m \in S => m \in Items(ring),
         st[m] = "posting", st2[m] = "queued", \A n \in S : n # m => st2[n] = st[n]
  PROVE  /\ RingInv(Publish(ring, m), st2, S)
         /\ Items(Publish(ring, m)) = Items(ring)
         /\ Len(Publish(ring, m)) = Len(ring)
<1>1. PICK r : r = Publish(ring, m)
  OBVIOUS
<1>2. /\ r = [k \in DOMAIN ring |-> IF ring[k].item = m THEN [item |-> m, ready |-> TRUE] ELSE ring[k]]
      /\ DOMAIN r = DOMAIN ring
  BY <1>1 DEF Publish
<1>3. \A k \in DOMAIN ring :
        /\ ring[k].item = m => r[k] = [item |-> m, ready |-> TRUE]
        /\ ring[k].item # m => r[k] = ring[k]
  BY <1>2
<1>4. \A k \in DOMAIN ring : r[k] \in Entries(S)
  <2> SUFFICES ASSUME NEW k \in DOMAIN ring
               PROVE  r[k] \in Entries(S)
    OBVIOUS
  <2>1. ring[k] \in Entries(S) /\ ring[k].item \in S
    BY RingFacts
  <2>2. CASE ring[k].item = m
    <3>1. [item |-> m, ready |-> TRUE] \in Entries(S)
      BY <2>1, <2>2, EntryFacts
    <3> QED
      BY <1>3, <2>2, <3>1
  <2>3. CASE ring[k].item # m
    BY <1>3, <2>1, <2>3
  <2> QED
    BY <2>2, <2>3
<1>5. \A k \in DOMAIN ring : r[k].item = ring[k].item
  BY <1>3
<1>6. \A k \in DOMAIN ring : ring[k].item = m => r[k].ready
  BY <1>3
<1>7. r \in Seq(Entries(S)) /\ Len(r) = Len(ring)
  <2>1. DOMAIN r = 1 .. Len(ring) /\ Len(ring) \in Nat
    BY <1>2, RingFacts
  <2>2. r = [k \in 1 .. Len(ring) |-> r[k]] /\ \A k \in 1 .. Len(ring) : r[k] \in Entries(S)
    BY <1>2, <1>4, <2>1
  <2> QED
    BY <2>1, <2>2
<1>8. Items(r) = Items(ring)
  BY <1>2, <1>5 DEF Items
<1>9. \A k \in DOMAIN r : (r[k].ready => st2[r[k].item] = "queued")
                          /\ (~ r[k].ready => st2[r[k].item] = "posting")
  <2> SUFFICES ASSUME NEW k \in DOMAIN ring
               PROVE  (r[k].ready => st2[r[k].item] = "queued") /\ (~ r[k].ready => st2[r[k].item] = "posting")
    BY <1>2
  <2>1. ring[k].item \in S
    BY RingFacts
  <2>2. CASE ring[k].item = m
    BY <1>5, <1>6, <2>2, Zenon
  <2>3. CASE ring[k].item # m
    <3>1. r[k] = ring[k] /\ st2[ring[k].item] = st[ring[k].item]
      BY <1>3, <2>1, <2>3
    <3>2. (ring[k].ready => st[ring[k].item] = "queued") /\ (~ ring[k].ready => st[ring[k].item] = "posting")
      BY Zenon DEF RingInv
    <3> QED
      BY <3>1, <3>2, Zenon
  <2> QED
    BY <2>2, <2>3
<1>10. \A n \in S : st2[n] = "queued" => n \in Items(r)
  BY <1>8, Zenon DEF RingInv
<1>11. \A j, k \in DOMAIN r : r[j].item = r[k].item => j = k
  <2> SUFFICES ASSUME NEW j \in DOMAIN ring, NEW k \in DOMAIN ring, r[j].item = r[k].item
               PROVE  j = k
    BY <1>2
  <2>1. ring[j].item = ring[k].item
    BY <1>5
  <2> QED
    BY <2>1, Zenon DEF RingInv
<1>12. RingInv(r, st2, S)
  BY <1>7, <1>9, <1>10, <1>11, Zenon DEF RingInv
<1> QED
  BY <1>1, <1>7, <1>8, <1>12

LEMMA TailItems ==
  ASSUME NEW E, NEW ring \in Seq(E), ring # << >>
  PROVE  /\ \A n \in Items(Tail(ring)) : n \in Items(ring)
         /\ \A n \in Items(ring) : n # Head(ring).item => n \in Items(Tail(ring))
<1>1. PICK r : r = Tail(ring)
  OBVIOUS
<1>2. /\ Len(ring) \in Nat \ {0} /\ DOMAIN ring = 1 .. Len(ring) /\ Head(ring) = ring[1]
      /\ DOMAIN r = 1 .. (Len(ring) - 1) /\ \A k \in DOMAIN r : r[k] = ring[k + 1]
  BY <1>1
<1>3. \A k \in DOMAIN r : k + 1 \in DOMAIN ring
  BY <1>2
<1>4. \A k \in DOMAIN ring : k # 1 => k - 1 \in DOMAIN r /\ r[k - 1] = ring[k]
  BY <1>2
<1>5. \A n \in Items(r) : n \in Items(ring)
  BY <1>2, <1>3 DEF Items
<1>6. \A n \in Items(ring) : n # Head(ring).item => n \in Items(r)
  BY <1>2, <1>4 DEF Items
<1> QED
  BY <1>1, <1>5, <1>6

LEMMA PopRing ==
  ASSUME NEW S, NEW ring, NEW st, NEW st2, RingInv(ring, st, S), Poppable(ring),
         NEW m, m = Head(ring).item,
         st2[m] = "taken", \A n \in S : n # m => st2[n] = st[n]
  PROVE  /\ m \in S /\ st[m] = "queued"
         /\ RingInv(Tail(ring), st2, S)
<1>1. PICK r : r = Tail(ring)
  OBVIOUS
<1>2. /\ ring \in Seq(Entries(S)) /\ Len(ring) \in Nat \ {0} /\ DOMAIN ring = 1 .. Len(ring)
      /\ Head(ring) = ring[1]
  BY DEF RingInv, Poppable
<1>3. /\ r \in Seq(Entries(S)) /\ Len(r) = Len(ring) - 1 /\ DOMAIN r = 1 .. (Len(ring) - 1)
      /\ \A k \in DOMAIN r : r[k] = ring[k + 1]
  BY <1>1, <1>2
<1>4. 1 \in DOMAIN ring /\ ring[1].item = m
  BY <1>2
<1>5. m \in S /\ st[m] = "queued"
  <2>1. ring[1].ready /\ m \in S
    BY <1>4, RingFacts DEF Poppable
  <2>2. ring[1].ready => st[ring[1].item] = "queued"
    BY <1>4, Zenon DEF RingInv
  <2> QED
    BY <1>4, <2>1, <2>2
<1>6. \A k \in DOMAIN r : k + 1 \in DOMAIN ring /\ k + 1 # 1
  BY <1>2, <1>3
<1>7. \A k \in DOMAIN ring : k # 1 => k - 1 \in DOMAIN r /\ r[k - 1] = ring[k]
  BY <1>2, <1>3
<1>8. \A j, k \in DOMAIN r : j + 1 = k + 1 => j = k
  BY <1>3
<1>once. \A j, k \in DOMAIN ring : ring[j].item = ring[k].item => j = k
  BY Zenon DEF RingInv
<1>where. \A k \in DOMAIN ring :
            /\ ring[k].ready => st[ring[k].item] = "queued"
            /\ ~ ring[k].ready => st[ring[k].item] = "posting"
  BY Zenon DEF RingInv
<1>9. \A k \in DOMAIN r : ring[k + 1].item # m
  BY <1>4, <1>6, <1>once, Zenon
<1>10. \A k \in DOMAIN r : r[k].item \in S
  BY <1>3, EntryFacts
<1>11. \A n \in Items(ring) : n # m => n \in Items(r)
  BY <1>4, <1>7 DEF Items
<1>12. \A j, k \in DOMAIN r : r[j].item = r[k].item => j = k
  <2> SUFFICES ASSUME NEW j \in DOMAIN r, NEW k \in DOMAIN r, r[j].item = r[k].item
               PROVE  j = k
    OBVIOUS
  <2>1. ring[j + 1].item = ring[k + 1].item /\ j + 1 \in DOMAIN ring /\ k + 1 \in DOMAIN ring
    BY <1>3, <1>6
  <2>2. j + 1 = k + 1
    BY <2>1, <1>once, Zenon
  <2> QED
    BY <1>8, <2>2
<1>13. \A k \in DOMAIN r : (r[k].ready => st2[r[k].item] = "queued")
                           /\ (~ r[k].ready => st2[r[k].item] = "posting")
  <2> SUFFICES ASSUME NEW k \in DOMAIN r
               PROVE  (r[k].ready => st2[r[k].item] = "queued") /\ (~ r[k].ready => st2[r[k].item] = "posting")
    OBVIOUS
  <2>1. /\ k + 1 \in DOMAIN ring /\ r[k] = ring[k + 1]
        /\ r[k].item \in S /\ r[k].item # m
    BY <1>3, <1>6, <1>9, <1>10
  <2>2. (r[k].ready => st[r[k].item] = "queued") /\ (~ r[k].ready => st[r[k].item] = "posting")
    BY <2>1, <1>where, Zenon
  <2> QED
    BY <2>1, <2>2, Zenon
<1>14. \A n \in S : st2[n] = "queued" => n \in Items(r)
  BY <1>11 DEF RingInv
<1>15. RingInv(r, st2, S)
  BY <1>3, <1>12, <1>13, <1>14, Zenon DEF RingInv
<1> QED
  BY <1>1, <1>5, <1>15
-----------------------------------------------------------------------------
(* One step of each action *)

LEMMA Init_IInv == Init => IInv
<1> SUFFICES ASSUME Init PROVE IInv
  OBVIOUS
<1>1. Rings /\ Items(fast) = {} /\ Items(bulk) = {}
  BY EmptyRing DEF Init, Rings, Messages
<1>2. TypeOK
  BY <1>1 DEF Init, TypeOK, Policies
<1>3. Posts /\ Dispatches /\ Payloads /\ Ratio
  BY DEF Init, Posts, Dispatches, Payloads, Filled, Counted, Ratio, Bound
<1> QED
  BY <1>1, <1>2, <1>3 DEF IInv

LEMMA Frame ==
  ASSUME UNCHANGED <<fast, bulk, state, message, refs, posting, control, cmsg, left, owed>>,
         Rings, Posts, Dispatches, Payloads, Ratio
  PROVE  Rings' /\ Posts' /\ Dispatches' /\ Payloads' /\ Ratio'
<1> USE DEF message, posting, control
<1>1. Rings'
  BY Zenon DEF Rings
<1>2. Posts'
  BY Zenon DEF Posts
<1>3. Dispatches'
  BY Zenon DEF Dispatches
<1>4. Payloads'
  BY Zenon DEF Payloads, Filled, Counted
<1>5. Ratio'
  BY Zenon DEF Ratio
<1> QED
  BY <1>1, <1>2, <1>3, <1>4, <1>5

LEMMA AddObserver_IInv ==
  ASSUME IInv, AddObserver
  PROVE  IInv'
<1> USE DEF AddObserver, message, posting, control
<1>1. TypeOK'
  BY DEF IInv, TypeOK
<1>2. UNCHANGED <<fast, bulk, state, message, refs, posting, control, cmsg, left, owed>>
  OBVIOUS
<1>3. Rings' /\ Posts' /\ Dispatches' /\ Payloads' /\ Ratio'
  BY <1>2, Frame DEF IInv
<1> QED
  BY <1>1, <1>3 DEF IInv

LEMMA Acquire_IInv ==
  ASSUME SoleAcquirers, IInv, NEW p \in Producers, NEW m \in Messages, NEW large \in BOOLEAN,
         m \in FastMessages => ~ large, Acquire(p, m, large)
  PROVE  IInv'
<1> USE DEF IInv
<1>1. TypeOK'
  <2>1. PostRefs(observers) = observers /\ observers \in 0 .. MaxObservers
    BY DEF PostRefs, TypeOK
  <2>2. /\ refs' \in [Messages -> 0 .. MaxObservers]
        /\ managed' \in [Messages -> BOOLEAN]
        /\ copied' \in [Messages -> 0 .. MaxObservers]
    BY <2>1 DEF Acquire, TypeOK
  <2>3. /\ state' \in [Messages -> {"pooled", "posting", "queued", "taken"}]
        /\ ppc' \in [Producers -> {"idle", "push", "publish"}]
        /\ pmsg' \in [Producers -> Messages \cup {None}]
    BY DEF Acquire, TypeOK
  <2> QED
    BY <2>2, <2>3, Zenon DEF Acquire, TypeOK, control
<1>2. /\ state[m] = "pooled" /\ state'[m] = "posting" /\ \A n \in Messages : n # m => state'[n] = state[n]
      /\ ppc'[p] = "push" /\ pmsg'[p] = m
      /\ \A q \in Producers : q # p => ppc'[q] = ppc[q] /\ pmsg'[q] = pmsg[q]
      /\ copied'[m] = observers /\ managed'[m] = large
      /\ refs'[m] = IF large THEN PostRefs(observers) ELSE 0
      /\ \A n \in Messages :
           n # m => refs'[n] = refs[n] /\ copied'[n] = copied[n] /\ managed'[n] = managed[n]
      /\ fast' = fast /\ bulk' = bulk /\ cpc' = cpc /\ cmsg' = cmsg /\ left' = left /\ owed' = owed
  BY DEF Acquire, Acquirable, TypeOK, control
<1>3. Rings'
  <2>1. /\ \A n \in FastMessages : n # m => state'[n] = state[n]
        /\ \A n \in BulkMessages : n # m => state'[n] = state[n]
        /\ state[m] \notin {"posting", "queued"} /\ state'[m] # "queued"
    BY <1>2 DEF Messages
  <2>2. RingInv(fast, state', FastMessages)
    BY <2>1, OtherMessage DEF Rings
  <2>3. RingInv(bulk, state', BulkMessages)
    BY <2>1, OtherMessage DEF Rings
  <2> QED
    BY <1>2, <2>2, <2>3 DEF Rings
<1>4. m # None /\ m \notin Items(fast) \cup Items(bulk)
  <2>1. \A k \in DOMAIN fast : fast[k].item # m
    BY <1>2, RingFacts DEF Rings
  <2>2. \A k \in DOMAIN bulk : bulk[k].item # m
    BY <1>2, RingFacts DEF Rings
  <2> QED
    BY <2>1, <2>2 DEF Items
<1>5. Posts'
  <2>1. \A q \in Producers : pmsg[q] # m
    BY <1>2, <1>4 DEF Posts
  <2>2. \A q \in Producers : pmsg[q] # None => pmsg[q] \in Messages
    BY DEF TypeOK
  <2> QED
    BY <1>2, <1>4, <2>1, <2>2 DEF Posts
<1>6. Dispatches'
  <2>1. \A c \in Consumers : cmsg[c] # None => cmsg[c] \in Messages
    BY DEF TypeOK
  <2>2. \A c \in Consumers : \A n \in owed[c] : n \in Messages
    BY DEF TypeOK, Messages
  <2> QED
    BY <1>2, <2>1, <2>2 DEF Dispatches
<1>7. Payloads'
  <2>1. \A c \in Consumers : cmsg[c] # None => cmsg[c] \in Messages /\ cmsg[c] # m
    BY <1>2 DEF TypeOK, Dispatches
  <2>2. Filled(m)'
    <3>1. observers > 0 /\ PostRefs(observers) = observers
      BY DEF Acquire, PostRefs, TypeOK
    <3> QED
      BY <1>2, <3>1 DEF Filled
  <2>3. \A n \in Messages : n # m => Filled(n)'
    BY <1>2 DEF Payloads, Filled
  <2>4. ASSUME NEW c \in Consumers
        PROVE  Counted(c)'
    <3>1. Counted(c)
      BY DEF Payloads
    <3>2. cmsg[c] = None => cpc[c] \notin {"callFast", "callBulk", "release"}
      BY DEF Dispatches
    <3> QED
      BY <1>2, <2>1, <3>1, <3>2 DEF Counted
  <2> QED
    BY <2>2, <2>3, <2>4 DEF Payloads
<1>8. Ratio'
  BY Zenon DEF Acquire, control, Ratio
<1> QED
  BY <1>1, <1>3, <1>5, <1>6, <1>7, <1>8

LEMMA Post_IInv ==
  ASSUME SoleAcquirers, IInv, NEW p \in Producers, NEW m \in Messages, NEW large \in BOOLEAN,
         NEW critical \in BOOLEAN, Post(p, m, critical, large)
  PROVE  IInv'
<1>1. \E b \in BOOLEAN : (m \in FastMessages => ~ b) /\ Acquire(p, m, b)
  BY DEF Post, PostFast, PostBulk
<1> QED
  BY <1>1, Acquire_IInv

LEMMA PushClaim_IInv ==
  ASSUME IInv, NEW p \in Producers, PushClaim(p)
  PROVE  IInv'
<1> USE DEF IInv
<1>1. PICK m \in Messages : m = pmsg[p] /\ m # None /\ state[m] = "posting" /\ m \notin Items(fast) \cup Items(bulk)
  BY DEF PushClaim, TypeOK, Posts
<1>2. /\ ppc[p] = "push" /\ ppc'[p] = "publish" /\ pmsg' = pmsg
      /\ \A q \in Producers : q # p => ppc'[q] = ppc[q]
      /\ state' = state /\ refs' = refs /\ copied' = copied /\ managed' = managed
      /\ cpc' = cpc /\ cmsg' = cmsg /\ left' = left /\ owed' = owed
  BY DEF PushClaim, TypeOK, message, control
<1>3. /\ Rings'
      /\ Items(fast) \subseteq Items(fast') /\ Items(fast') \subseteq Items(fast) \cup {m}
      /\ Items(bulk) \subseteq Items(bulk') /\ Items(bulk') \subseteq Items(bulk) \cup {m}
      /\ m \in FastMessages => m \in Items(fast')
      /\ m \in BulkMessages => m \in Items(bulk')
      /\ Len(fast') <= FastCapacity /\ Items(fast') \subseteq FastMessages
      /\ Len(bulk') <= BulkCapacity /\ Items(bulk') \subseteq BulkMessages
  <2>1. CASE m \in FastMessages
    <3>1. /\ Len(fast) < FastCapacity /\ fast' = Claim(fast, m) /\ bulk' = bulk
          /\ RingInv(fast', state, FastMessages) /\ Items(fast') = Items(fast) \cup {m}
          /\ Len(fast') = Len(fast) + 1
      <4>1. Len(fast) < FastCapacity /\ fast' = Claim(fast, m) /\ bulk' = bulk
        BY <1>1, <2>1 DEF PushClaim
      <4>2. RingInv(fast, state, FastMessages) /\ m \notin Items(fast) /\ state[m] = "posting"
        BY <1>1 DEF Rings
      <4>3. /\ RingInv(Claim(fast, m), state, FastMessages) /\ Items(Claim(fast, m)) = Items(fast) \cup {m}
            /\ Len(Claim(fast, m)) = Len(fast) + 1
        <5>1. RingInv(Claim(fast, m), state, FastMessages)
          BY <2>1, <4>2, ClaimRing, Zenon
        <5>2. Items(Claim(fast, m)) = Items(fast) \cup {m}
          <6>1. fast \in Seq(Entries(FastMessages))
            BY <4>2, Zenon DEF RingInv
          <6> QED
            BY <2>1, <6>1, ClaimItems
        <5>3. Len(Claim(fast, m)) = Len(fast) + 1
          BY <4>2 DEF Claim, RingInv
        <5> QED
          BY <5>1, <5>2, <5>3
      <4> QED
        BY <4>1, <4>3
    <3>2. Len(fast) \in Nat
      BY RingFacts DEF Rings
    <3> QED
      BY <1>1, <1>2, <2>1, <3>1, <3>2 DEF Rings, TypeOK
  <2>2. CASE m \in BulkMessages
    <3>1. /\ Len(bulk) < BulkCapacity /\ bulk' = Claim(bulk, m) /\ fast' = fast
          /\ RingInv(bulk', state, BulkMessages) /\ Items(bulk') = Items(bulk) \cup {m}
          /\ Len(bulk') = Len(bulk) + 1
      <4>1. Len(bulk) < BulkCapacity /\ bulk' = Claim(bulk, m) /\ fast' = fast
        BY <1>1, <2>2 DEF PushClaim
      <4>2. RingInv(bulk, state, BulkMessages) /\ m \notin Items(bulk) /\ state[m] = "posting"
        BY <1>1 DEF Rings
      <4>3. /\ RingInv(Claim(bulk, m), state, BulkMessages) /\ Items(Claim(bulk, m)) = Items(bulk) \cup {m}
            /\ Len(Claim(bulk, m)) = Len(bulk) + 1
        <5>1. RingInv(Claim(bulk, m), state, BulkMessages)
          BY <2>2, <4>2, ClaimRing, Zenon
        <5>2. Items(Claim(bulk, m)) = Items(bulk) \cup {m}
          <6>1. bulk \in Seq(Entries(BulkMessages))
            BY <4>2, Zenon DEF RingInv
          <6> QED
            BY <2>2, <6>1, ClaimItems
        <5>3. Len(Claim(bulk, m)) = Len(bulk) + 1
          BY <4>2 DEF Claim, RingInv
        <5> QED
          BY <5>1, <5>2, <5>3
      <4> QED
        BY <4>1, <4>3
    <3>2. Len(bulk) \in Nat
      BY RingFacts DEF Rings
    <3>3. m \notin FastMessages
      BY <2>2
    <3> QED
      BY <1>1, <1>2, <2>2, <3>1, <3>2, <3>3 DEF Rings, TypeOK
  <2> QED
    BY <2>1, <2>2 DEF Messages
<1>4. TypeOK'
  BY <1>3 DEF PushClaim, TypeOK, message, control
<1>5. Posts'
  <2>1. \A q \in Producers : q # p => pmsg[q] # m
    BY <1>1 DEF Posts
  <2> QED
    BY <1>1, <1>2, <1>3, <2>1 DEF Posts
<1>6. Dispatches' /\ Payloads'
  BY <1>2, Zenon DEF Dispatches, Payloads, Filled, Counted
<1>7. Ratio'
  BY Zenon DEF PushClaim, control, Ratio
<1> QED
  BY <1>3, <1>4, <1>5, <1>6, <1>7

LEMMA PushPublish_IInv ==
  ASSUME IInv, NEW p \in Producers, PushPublish(p)
  PROVE  IInv'
<1> USE DEF IInv
<1>1. PICK m \in Messages : m = pmsg[p] /\ m # None /\ state[m] = "posting"
                            /\ (m \in FastMessages => m \in Items(fast))
                            /\ (m \in BulkMessages => m \in Items(bulk))
  BY DEF PushPublish, TypeOK, Posts
<1>2. /\ ppc'[p] = "idle" /\ pmsg'[p] = None
      /\ \A q \in Producers : q # p => ppc'[q] = ppc[q] /\ pmsg'[q] = pmsg[q]
      /\ state'[m] = "queued" /\ \A n \in Messages : n # m => state'[n] = state[n]
      /\ refs' = refs /\ copied' = copied /\ managed' = managed
      /\ cpc' = cpc /\ cmsg' = cmsg /\ left' = left /\ owed' = owed
  BY <1>1 DEF PushPublish, TypeOK, message, control
<1>3. fast' = Publish(fast, m) /\ bulk' = Publish(bulk, m)
  BY <1>1 DEF PushPublish
<1>4. RingInv(fast', state', FastMessages) /\ Items(fast') = Items(fast) /\ Len(fast') = Len(fast)
  BY <1>1, <1>2, <1>3, PublishRing DEF Rings, Messages
<1>5. RingInv(bulk', state', BulkMessages) /\ Items(bulk') = Items(bulk) /\ Len(bulk') = Len(bulk)
  BY <1>1, <1>2, <1>3, PublishRing DEF Rings, Messages
<1>6. TypeOK'
  BY <1>1, <1>4, <1>5 DEF PushPublish, TypeOK, message, control
<1>7. Posts'
  <2>1. \A q \in Producers : q # p => pmsg[q] # m
    BY <1>1 DEF Posts
  <2>2. \A q \in Producers : pmsg[q] # None => pmsg[q] \in Messages
    BY DEF TypeOK
  <2> QED
    BY <1>1, <1>2, <1>4, <1>5, <2>1, <2>2 DEF Posts
<1>8. Dispatches'
  <2>1. \A c \in Consumers : cmsg[c] # None => cmsg[c] \in Messages /\ cmsg[c] # m
    BY <1>1 DEF TypeOK, Dispatches
  <2>2. \A c \in Consumers : \A n \in owed[c] : n \in Messages
    BY DEF TypeOK, Messages
  <2> QED
    BY <1>2, <2>1, <2>2 DEF Dispatches
<1>9. Payloads'
  BY <1>1, <1>2 DEF Payloads, Filled, Counted
<1>10. Ratio'
  BY Zenon DEF PushPublish, control, Ratio
<1> QED
  BY <1>4, <1>5, <1>6, <1>7, <1>8, <1>9, <1>10 DEF Rings

LEMMA DispatchBegin_IInv ==
  ASSUME IInv, NEW c \in Consumers, NEW pol \in Policies, DispatchBegin(c, pol)
  PROVE  IInv'
<1> USE DEF IInv
<1>1. /\ cpc[c] = "idle" /\ cpc'[c] \in {"fast", "bulk"}
      /\ cpc'[c] = "fast" /\ pol = "ratio" => 0 < FastPerBulk
      /\ policy'[c] = pol
      /\ \A d \in Consumers : d # c => cpc'[d] = cpc[d] /\ policy'[d] = policy[d] /\ owed'[d] = owed[d]
      /\ owed'[c] = {m \in FastMessages : state[m] = "queued"}
      /\ state' = state /\ refs' = refs /\ copied' = copied /\ managed' = managed
      /\ fast' = fast /\ bulk' = bulk
      /\ pmsg' = pmsg /\ ppc' = ppc /\ cmsg' = cmsg /\ left' = left
      /\ fastCount' = fastCount /\ streak' = streak
  BY DEF DispatchBegin, Goto, RatioTries, TypeOK, message, posting
<1>2. TypeOK'
  BY <1>1 DEF DispatchBegin, Goto, RatioTries, TypeOK, message, posting
<1>3. Rings' /\ Posts' /\ Payloads'
  <2>1. Rings' /\ Posts'
    BY <1>1, Zenon DEF Rings, Posts
  <2>2. \A m \in Messages : Filled(m)'
    BY <1>1, Zenon DEF Payloads, Filled
  <2>3. \A d \in Consumers : d # c => Counted(d)'
    BY <1>1 DEF Payloads, Counted
  <2>4. Counted(c)'
    <3>1. cmsg[c] = None
      BY <1>1 DEF Dispatches
    <3> QED
      BY <1>1, <3>1 DEF Counted
  <2> QED
    BY <2>1, <2>2, <2>3, <2>4 DEF Payloads
<1>4. Dispatches'
  BY <1>1 DEF Dispatches
<1>5. Ratio'
  BY <1>1 DEF Ratio, TypeOK
<1> QED
  BY <1>2, <1>3, <1>4, <1>5

\* Taking a queued message, whatever the ring it was in.
LEMMA Taken_Data ==
  ASSUME IInv, NEW c \in Consumers, NEW m \in Messages, state[m] = "queued",
         cpc[c] \notin {"callFast", "callBulk", "release"}, Taken(c, m),
         NEW l \in {"callFast", "callBulk"}, cpc' = [cpc EXCEPT ![c] = l],
         l = "callFast" => m \in FastMessages,
         Items(fast') \subseteq Items(fast), Items(bulk') \subseteq Items(bulk),
         \A n \in Items(fast) : n # m => n \in Items(fast'),
         \A n \in Items(bulk) : n # m => n \in Items(bulk')
  PROVE  Posts' /\ Dispatches' /\ Payloads'
<1> USE DEF IInv
<1>1. /\ state'[m] = "taken" /\ \A n \in Messages : n # m => state'[n] = state[n]
      /\ cmsg'[c] = m /\ cpc'[c] = l /\ left'[c] = copied[m]
      /\ \A d \in Consumers : d # c => cmsg'[d] = cmsg[d] /\ cpc'[d] = cpc[d] /\ left'[d] = left[d]
      /\ \A d \in Consumers : owed'[d] = owed[d] \ {m}
      /\ copied' = copied /\ managed' = managed /\ refs' = refs /\ pmsg' = pmsg /\ ppc' = ppc
  BY DEF Taken, TypeOK, message, posting
<1>2. m # None
  BY DEF Messages
<1>3. Posts'
  <2>1. \A q \in Producers : pmsg[q] # None => pmsg[q] \in Messages /\ pmsg[q] # m
    BY DEF TypeOK, Posts
  <2>2. /\ \A q \in Producers : pmsg'[q] = None <=> ppc'[q] = "idle"
        /\ \A q \in Producers : pmsg'[q] # None => state'[pmsg'[q]] = "posting"
        /\ \A q, u \in Producers : pmsg'[q] = pmsg'[u] /\ pmsg'[q] # None => q = u
    BY <1>1, <2>1 DEF Posts
  <2>3. \A q \in Producers : ppc'[q] = "push" => pmsg'[q] \notin Items(fast') \cup Items(bulk')
    BY <1>1 DEF Posts
  <2>4. \A q \in Producers :
          ppc'[q] = "publish" =>
            /\ pmsg'[q] \in FastMessages => pmsg'[q] \in Items(fast')
            /\ pmsg'[q] \in BulkMessages => pmsg'[q] \in Items(bulk')
    BY <1>1, <2>1, <2>2 DEF Posts
  <2> QED
    BY <2>2, <2>3, <2>4 DEF Posts
<1>4. \A d \in Consumers : cmsg[d] # None => cmsg[d] \in Messages /\ cmsg[d] # m
  BY DEF TypeOK, Dispatches
<1>5. Dispatches'
  <2>1. \A d \in Consumers : \A n \in owed'[d] : n \in Messages /\ n # m /\ state[n] = "queued"
    BY <1>1 DEF TypeOK, Messages, Dispatches
  <2>2. \A d \in Consumers : cmsg'[d] = None <=> cpc'[d] \notin {"callFast", "callBulk", "release"}
    BY <1>1, <1>2 DEF Dispatches
  <2> QED
    BY <1>1, <1>2, <1>4, <2>1, <2>2 DEF Dispatches
<1>6. Payloads'
  <2>1. \A n \in Messages : Filled(n)'
    BY <1>1 DEF Payloads, Filled
  <2>2. \A d \in Consumers : d # c => Counted(d)'
    BY <1>1, <1>4 DEF Payloads, Counted
  <2>3. Counted(c)'
    <3>1. Filled(m) /\ copied[m] \in Nat
      BY DEF Payloads, TypeOK
    <3>2. /\ refs[m] = IF managed[m] THEN copied[m] ELSE 0
          /\ l = "callFast" => ~ managed[m]
      BY <3>1 DEF Filled
    <3> QED
      BY <1>1, <3>1, <3>2 DEF Counted
  <2> QED
    BY <2>1, <2>2, <2>3 DEF Payloads
<1> QED
  BY <1>3, <1>5, <1>6

LEMMA TakeFast_IInv ==
  ASSUME IInv, NEW c \in Consumers, TakeFast(c)
  PROVE  IInv'
<1> DEFINE m == Head(fast).item
<1> USE DEF IInv
<1>1. /\ cpc[c] \in {"fast", "last"} /\ Poppable(fast) /\ Taken(c, m)
      /\ fast' = Tail(fast) /\ bulk' = bulk /\ cpc' = [cpc EXCEPT ![c] = "callFast"]
      /\ streak' = [streak EXCEPT ![c] = IF policy[c] = "ratio" THEN Fewer(@ + 1, FastPerBulk + 2) ELSE 0]
  BY DEF TakeFast, Goto
<1> HIDE DEF m
<1>2. PICK n : n = m
  OBVIOUS
<1>3. state' = [state EXCEPT ![n] = "taken"]
  BY <1>1, <1>2 DEF Taken
<1>4. n \in FastMessages /\ state[n] = "queued"
  <2>1. Len(fast) \in Nat \ {0} /\ Head(fast) = fast[1] /\ 1 \in DOMAIN fast
    BY <1>1 DEF Rings, RingInv, Poppable
  <2>2. fast[1].item \in FastMessages
    BY <2>1, RingFacts DEF Rings
  <2>3. fast[1].ready => state[fast[1].item] = "queued"
    BY <2>1, Zenon DEF Rings, RingInv
  <2> QED
    BY <1>1, <1>2, <2>1, <2>2, <2>3 DEF Poppable, m
<1>5. state'[n] = "taken" /\ \A k \in Messages : k # n => state'[k] = state[k]
  BY <1>3, <1>4 DEF TypeOK, Messages
<1>6. /\ RingInv(fast', state', FastMessages)
      /\ Items(fast') \subseteq Items(fast)
      /\ \A k \in Items(fast) : k # n => k \in Items(fast')
      /\ Len(fast') <= Len(fast)
  <2>1. \A k \in FastMessages : k # n => state'[k] = state[k]
    BY <1>5 DEF Messages
  <2>2. n = Head(fast).item
    BY <1>2 DEF m
  <2>3. RingInv(fast, state, FastMessages) /\ Poppable(fast) /\ state'[n] = "taken"
    BY <1>1, <1>5 DEF Rings
  <2>4. RingInv(Tail(fast), state', FastMessages)
    BY <2>1, <2>2, <2>3, PopRing
  <2>5. fast \in Seq(Entries(FastMessages)) /\ fast # << >>
    BY <2>3 DEF RingInv, Poppable
  <2>6. /\ \A k \in Items(Tail(fast)) : k \in Items(fast)
        /\ \A k \in Items(fast) : k # Head(fast).item => k \in Items(Tail(fast))
    BY <2>5, TailItems
  <2>7. Len(Tail(fast)) <= Len(fast)
    BY <2>3 DEF RingInv, Poppable
  <2> QED
    BY <1>1, <2>2, <2>4, <2>6, <2>7
<1>7. RingInv(bulk', state', BulkMessages)
  <2>1. /\ RingInv(bulk, state, BulkMessages) /\ \A k \in BulkMessages : state'[k] = state[k]
    BY <1>4, <1>5 DEF Rings, Messages
  <2>2. \A k \in DOMAIN bulk : state'[bulk[k].item] = state[bulk[k].item]
    BY <2>1, RingFacts
  <2> QED
    BY <1>1, <2>1, <2>2, Zenon DEF RingInv
<1>8. Posts' /\ Dispatches' /\ Payloads'
  <2>1. n \in Messages
    BY <1>4 DEF Messages
  <2>2. \A k \in Items(bulk) : k # n => k \in Items(bulk')
    BY <1>1
  <2>3. cpc[c] \notin {"callFast", "callBulk", "release"} /\ Taken(c, n)
    BY <1>1, <1>2
  <2> QED
    BY <1>1, <1>4, <1>6, <2>1, <2>2, <2>3, Taken_Data
<1>9. streak'[c] \in 0 .. FastPerBulk + 2 /\ \A d \in Consumers : d # c => streak'[d] = streak[d]
  BY <1>1 DEF Fewer, TypeOK
<1>10. TypeOK'
  <2>1. Len(fast') <= FastCapacity /\ Items(fast') \subseteq FastMessages
    <3>1. Len(fast) \in Nat /\ Len(fast') \in Nat
      BY <1>6, RingFacts DEF Rings
    <3> QED
      BY <1>6, <3>1 DEF TypeOK
  <2>2. streak' \in [Consumers -> 0 .. FastPerBulk + 2]
    BY <1>1 DEF Fewer, TypeOK
  <2> QED
    BY <1>1, <1>2, <1>4, <2>1, <2>2 DEF Taken, message, posting, TypeOK, Messages
<1>11. Ratio'
  <2>1. /\ policy' = policy /\ fastCount' = fastCount /\ cpc'[c] = "callFast"
        /\ \A d \in Consumers : d # c => cpc'[d] = cpc[d]
    BY <1>1 DEF Taken, TypeOK
  <2>2. CASE policy[c] = "ratio"
    <3>1. streak[c] \in Nat /\ fastCount[c] \in Nat /\ streak'[c] \in Nat /\ Bound \in Nat /\ Bound >= 1
      BY <1>9 DEF TypeOK, Bound
    <3>2. streak[c] <= fastCount[c] /\ streak[c] + 1 <= Bound
      <4>1. CASE cpc[c] = "fast"
        BY <2>2, <3>1, <4>1 DEF Ratio, Bound
      <4>2. CASE cpc[c] = "last"
        BY <2>2, <3>1, <4>2 DEF Ratio
      <4> QED
        BY <1>1, <4>1, <4>2
    <3>3. streak'[c] <= streak[c] + 1
      BY <1>1, <2>2 DEF Fewer, TypeOK
    <3>4. streak'[c] <= Bound /\ streak'[c] <= fastCount[c] + 1
      BY <3>1, <3>2, <3>3
    <3> QED
      BY <1>9, <2>1, <2>2, <3>4 DEF Ratio
  <2>3. CASE policy[c] # "ratio"
    <3>1. streak'[c] = 0 /\ 0 <= Bound
      BY <1>1, <2>3 DEF TypeOK, Bound
    <3> QED
      BY <1>9, <2>1, <2>3, <3>1 DEF Ratio
  <2> QED
    BY <2>2, <2>3
<1> QED
  BY <1>6, <1>7, <1>8, <1>10, <1>11 DEF Rings

LEMMA TakeBulk_IInv ==
  ASSUME IInv, NEW c \in Consumers, TakeBulk(c)
  PROVE  IInv'
<1> DEFINE m == Head(bulk).item
<1> USE DEF IInv
<1>1. /\ cpc[c] = "bulk" /\ Poppable(bulk) /\ Taken(c, m)
      /\ bulk' = Tail(bulk) /\ fast' = fast /\ cpc' = [cpc EXCEPT ![c] = "callBulk"]
      /\ streak' = [streak EXCEPT ![c] = 0]
  BY DEF TakeBulk, Goto
<1> HIDE DEF m
<1>2. PICK n : n = m
  OBVIOUS
<1>3. state' = [state EXCEPT ![n] = "taken"]
  BY <1>1, <1>2 DEF Taken
<1>4. n \in BulkMessages /\ state[n] = "queued"
  <2>1. Len(bulk) \in Nat \ {0} /\ Head(bulk) = bulk[1] /\ 1 \in DOMAIN bulk
    BY <1>1 DEF Rings, RingInv, Poppable
  <2>2. bulk[1].item \in BulkMessages
    BY <2>1, RingFacts DEF Rings
  <2>3. bulk[1].ready => state[bulk[1].item] = "queued"
    BY <2>1, Zenon DEF Rings, RingInv
  <2> QED
    BY <1>1, <1>2, <2>1, <2>2, <2>3 DEF Poppable, m
<1>5. state'[n] = "taken" /\ \A k \in Messages : k # n => state'[k] = state[k]
  BY <1>3, <1>4 DEF TypeOK, Messages
<1>6. /\ RingInv(bulk', state', BulkMessages)
      /\ Items(bulk') \subseteq Items(bulk)
      /\ \A k \in Items(bulk) : k # n => k \in Items(bulk')
      /\ Len(bulk') <= Len(bulk)
  <2>1. \A k \in BulkMessages : k # n => state'[k] = state[k]
    BY <1>5 DEF Messages
  <2>2. n = Head(bulk).item
    BY <1>2 DEF m
  <2>3. RingInv(bulk, state, BulkMessages) /\ Poppable(bulk) /\ state'[n] = "taken"
    BY <1>1, <1>5 DEF Rings
  <2>4. RingInv(Tail(bulk), state', BulkMessages)
    BY <2>1, <2>2, <2>3, PopRing
  <2>5. bulk \in Seq(Entries(BulkMessages)) /\ bulk # << >>
    BY <2>3 DEF RingInv, Poppable
  <2>6. /\ \A k \in Items(Tail(bulk)) : k \in Items(bulk)
        /\ \A k \in Items(bulk) : k # Head(bulk).item => k \in Items(Tail(bulk))
    BY <2>5, TailItems
  <2>7. Len(Tail(bulk)) <= Len(bulk)
    BY <2>3 DEF RingInv, Poppable
  <2> QED
    BY <1>1, <2>2, <2>4, <2>6, <2>7
<1>7. RingInv(fast', state', FastMessages)
  <2>1. /\ RingInv(fast, state, FastMessages) /\ \A k \in FastMessages : state'[k] = state[k]
    BY <1>4, <1>5 DEF Rings, Messages
  <2>2. \A k \in DOMAIN fast : state'[fast[k].item] = state[fast[k].item]
    BY <2>1, RingFacts
  <2> QED
    BY <1>1, <2>1, <2>2, Zenon DEF RingInv
<1>8. Posts' /\ Dispatches' /\ Payloads'
  <2>1. n \in Messages
    BY <1>4 DEF Messages
  <2>2. \A k \in Items(fast) : k # n => k \in Items(fast')
    BY <1>1
  <2>3. cpc[c] \notin {"callFast", "callBulk", "release"} /\ Taken(c, n)
    BY <1>1, <1>2
  <2> QED
    BY <1>1, <1>4, <1>6, <2>1, <2>2, <2>3, Taken_Data
<1>9. TypeOK'
  <2>1. Len(bulk') <= BulkCapacity /\ Items(bulk') \subseteq BulkMessages
    <3>1. Len(bulk) \in Nat /\ Len(bulk') \in Nat
      BY <1>6, RingFacts DEF Rings
    <3> QED
      BY <1>6, <3>1 DEF TypeOK
  <2> QED
    BY <1>1, <1>2, <1>4, <2>1 DEF Taken, message, posting, TypeOK, Messages
<1>10. Ratio'
  <2>1. /\ policy' = policy /\ fastCount' = fastCount /\ cpc'[c] = "callBulk" /\ streak'[c] = 0
        /\ \A d \in Consumers : d # c => cpc'[d] = cpc[d] /\ streak'[d] = streak[d]
    BY <1>1 DEF Taken, TypeOK
  <2>2. 0 <= Bound
    BY DEF Bound
  <2> QED
    BY <1>1, <2>1, <2>2 DEF Ratio
<1> QED
  BY <1>6, <1>7, <1>8, <1>9, <1>10 DEF Rings

LEMMA TakeFails_IInv ==
  ASSUME IInv, NEW c \in Consumers, TakeFails(c)
  PROVE  IInv'
<1> USE DEF IInv
<1>1. /\ cpc[c] \in {"fast", "last", "bulk"} /\ cpc'[c] \in {"idle", "bulk", "last"}
      /\ cpc'[c] = "last" => cpc[c] = "bulk"
      /\ \A d \in Consumers : d # c => /\ cpc'[d] = cpc[d] /\ streak'[d] = streak[d]
                                       /\ fastCount'[d] = fastCount[d] /\ owed'[d] = owed[d]
      /\ streak'[c] \in {0, streak[c]} /\ fastCount'[c] \in {0, fastCount[c]}
      /\ owed'[c] \in {{}, owed[c]}
      /\ state' = state /\ refs' = refs /\ copied' = copied /\ managed' = managed
      /\ fast' = fast /\ bulk' = bulk
      /\ pmsg' = pmsg /\ ppc' = ppc /\ cmsg' = cmsg /\ left' = left /\ policy' = policy
  BY DEF TakeFails, Goto, TypeOK, message, posting
<1>2. /\ cpc'[c] = "idle" => streak'[c] = 0 /\ fastCount'[c] = 0
      /\ cpc'[c] = "last" => streak'[c] = 0
  <2>1. cpc'[c] = "idle" => fastCount'[c] = 0
    BY DEF TakeFails, Goto, TypeOK
  <2>2. cpc'[c] \in {"idle", "last"} => streak'[c] = 0
    BY DEF TakeFails, Goto, TypeOK
  <2> QED
    BY <2>1, <2>2
<1>3. TypeOK'
  <2>1. cpc' \in [Consumers -> {"idle", "fast", "bulk", "last", "callFast", "callBulk", "release"}]
    BY <1>1 DEF TakeFails, Goto, TypeOK
  <2>2. /\ fastCount' \in [Consumers -> 0 .. FastPerBulk]
        /\ streak' \in [Consumers -> 0 .. FastPerBulk + 2]
    BY DEF TakeFails, TypeOK
  <2>3. owed' \in [Consumers -> SUBSET FastMessages]
    BY DEF TakeFails, TypeOK
  <2> QED
    BY <1>1, <2>1, <2>2, <2>3, Zenon DEF TakeFails, TypeOK
<1>4. Rings' /\ Posts' /\ Payloads'
  <2>1. Rings' /\ Posts'
    BY <1>1, Zenon DEF Rings, Posts
  <2>2. \A m \in Messages : Filled(m)'
    BY <1>1, Zenon DEF Payloads, Filled
  <2>3. \A d \in Consumers : d # c => Counted(d)'
    BY <1>1 DEF Payloads, Counted
  <2>4. Counted(c)'
    <3>1. cmsg[c] = None
      BY <1>1 DEF Dispatches
    <3> QED
      BY <1>1, <3>1 DEF Counted
  <2> QED
    BY <2>1, <2>2, <2>3, <2>4 DEF Payloads
<1>5. Dispatches'
  BY <1>1 DEF Dispatches
<1>6. Ratio'
  <2>1. 0 <= Bound /\ streak'[c] <= Bound
    BY <1>1 DEF Ratio, Bound
  <2> QED
    BY <1>1, <1>2, <2>1 DEF Ratio
<1> QED
  BY <1>3, <1>4, <1>5, <1>6

LEMMA Callback_IInv ==
  ASSUME IInv, NEW c \in Consumers, Callback(c)
  PROVE  IInv'
<1> USE DEF IInv
<1>1. PICK m \in Messages : m = cmsg[c] /\ m # None /\ state[m] = "taken"
  BY DEF Callback, TypeOK, Dispatches
<1>2. /\ left[c] > 0 /\ left'[c] = left[c] - 1 /\ \A d \in Consumers : d # c => left'[d] = left[d]
      /\ cpc[c] \in {"callFast", "callBulk"} /\ \A d \in Consumers : d # c => cpc'[d] = cpc[d]
      /\ cpc'[c] = IF managed[m] THEN "release" ELSE cpc[c]
      /\ left[c] \in Nat /\ refs[m] \in Nat /\ copied[m] \in Nat
      /\ refs' = refs /\ managed' = managed
      /\ state' = state /\ copied' = copied /\ fast' = fast /\ bulk' = bulk /\ pmsg' = pmsg
      /\ ppc' = ppc /\ cmsg' = cmsg /\ owed' = owed
      /\ policy' = policy /\ fastCount' = fastCount /\ streak' = streak
  BY <1>1 DEF Callback, Goto, TypeOK, message, posting
<1>3. TypeOK'
  <2>1. left' \in [Consumers -> 0 .. MaxObservers]
    BY <1>2 DEF Callback, TypeOK
  <2>2. cpc' \in [Consumers -> {"idle", "fast", "bulk", "last", "callFast", "callBulk", "release"}]
    BY <1>2 DEF Callback, Goto, TypeOK
  <2>3. UNCHANGED <<observers, fast, bulk, state, copied, managed, refs, ppc, pmsg, cmsg, policy,
                    fastCount, streak, owed>>
    BY <1>2 DEF Callback
  <2> QED
    BY <2>1, <2>2, <2>3, Zenon DEF TypeOK
<1>4. Rings' /\ Posts'
  BY <1>2, Zenon DEF Rings, Posts
<1>5. Dispatches'
  BY <1>1, <1>2 DEF Dispatches
<1>6. Counted(c) /\ (cpc[c] = "callFast" => ~ managed[m])
  BY <1>1 DEF Payloads, Counted
<1>7. Payloads'
  <2>1. \A n \in Messages : Filled(n)'
    BY <1>2, Zenon DEF Payloads, Filled
  <2>2. \A d \in Consumers : d # c => Counted(d)'
    BY <1>2 DEF Payloads, Counted
  <2>3. Counted(c)'
    BY <1>1, <1>2, <1>6 DEF Counted
  <2> QED
    BY <2>1, <2>2, <2>3 DEF Payloads
<1>8. Ratio'
  BY <1>2, <1>6 DEF Ratio
<1> QED
  BY <1>3, <1>4, <1>5, <1>7, <1>8

LEMMA ReleasePayload_IInv ==
  ASSUME IInv, NEW c \in Consumers, ReleasePayload(c)
  PROVE  IInv'
<1> USE DEF IInv
<1>1. PICK m \in Messages : m = cmsg[c] /\ m # None /\ state[m] = "taken"
  BY DEF ReleasePayload, TypeOK, Dispatches
<1>2. /\ cpc[c] = "release" /\ cpc'[c] = "callBulk" /\ \A d \in Consumers : d # c => cpc'[d] = cpc[d]
      /\ refs'[m] = refs[m] - 1 /\ \A n \in Messages : n # m => refs'[n] = refs[n]
      /\ left[c] \in 0 .. MaxObservers /\ refs[m] \in 0 .. MaxObservers /\ left' = left
      /\ managed' = managed /\ state' = state /\ copied' = copied /\ fast' = fast /\ bulk' = bulk
      /\ pmsg' = pmsg /\ ppc' = ppc /\ cmsg' = cmsg /\ owed' = owed
      /\ policy' = policy /\ fastCount' = fastCount /\ streak' = streak
  BY <1>1 DEF ReleasePayload, Goto, TypeOK, message, posting
<1>3. managed[m] /\ refs[m] = left[c] + 1 /\ left[c] <= copied[m]
  BY <1>1, <1>2 DEF Payloads, Counted
<1>4. TypeOK'
  <2>1. refs' \in [Messages -> 0 .. MaxObservers]
    BY <1>1, <1>2, <1>3 DEF ReleasePayload, TypeOK
  <2>2. cpc' \in [Consumers -> {"idle", "fast", "bulk", "last", "callFast", "callBulk", "release"}]
    BY DEF ReleasePayload, Goto, TypeOK
  <2>3. UNCHANGED <<observers, fast, bulk, state, copied, managed, left, ppc, pmsg, cmsg, policy,
                    fastCount, streak, owed>>
    BY <1>2 DEF ReleasePayload
  <2> QED
    BY <2>1, <2>2, <2>3, Zenon DEF TypeOK
<1>5. Rings' /\ Posts'
  BY <1>2, Zenon DEF Rings, Posts
<1>6. Dispatches'
  BY <1>1, <1>2 DEF Dispatches
<1>7. Payloads'
  <2>1. \A n \in Messages : Filled(n)'
    BY <1>1, <1>2 DEF Payloads, Filled
  <2>2. ASSUME NEW d \in Consumers, d # c
        PROVE  Counted(d)'
    <3>1. Counted(d) /\ (cmsg[d] # None => cmsg[d] \in Messages /\ cmsg[d] # m)
      BY <1>1, <2>2 DEF Payloads, TypeOK, Dispatches
    <3>2. cmsg[d] = None => cpc[d] \notin {"callFast", "callBulk", "release"}
      BY DEF Dispatches
    <3> QED
      BY <1>2, <2>2, <3>1, <3>2 DEF Counted
  <2>3. Counted(c)'
    BY <1>1, <1>2, <1>3 DEF Counted
  <2> QED
    BY <2>1, <2>2, <2>3 DEF Payloads
<1>8. Ratio'
  BY <1>2 DEF Ratio
<1> QED
  BY <1>4, <1>5, <1>6, <1>7, <1>8

\* The message goes back to its pool, wherever the function goes on.
LEMMA DispatchEnd_Data ==
  ASSUME IInv, NEW c \in Consumers, cpc[c] \in {"callFast", "callBulk"},
         NEW l \in {"idle", "fast", "bulk"}, DispatchEnd(c, l),
         fastCount' \in [Consumers -> 0 .. FastPerBulk],
         streak' \in [Consumers -> 0 .. FastPerBulk + 2]
  PROVE  TypeOK' /\ Rings' /\ Posts' /\ Dispatches' /\ Payloads'
<1> USE DEF IInv
<1>1. PICK m \in Messages : m = cmsg[c] /\ m # None /\ state[m] = "taken"
  BY DEF TypeOK, Dispatches
<1>2. /\ left[c] = 0 /\ state'[m] = "pooled" /\ \A n \in Messages : n # m => state'[n] = state[n]
      /\ copied'[m] = 0 /\ \A n \in Messages : n # m => copied'[n] = copied[n]
      /\ ~ managed'[m] /\ \A n \in Messages : n # m => managed'[n] = managed[n]
      /\ cmsg'[c] = None /\ cpc'[c] = l /\ owed'[c] \in {{}, owed[c]}
      /\ \A d \in Consumers : d # c => cmsg'[d] = cmsg[d] /\ cpc'[d] = cpc[d] /\ owed'[d] = owed[d]
      /\ refs' = refs /\ fast' = fast /\ bulk' = bulk /\ pmsg' = pmsg /\ ppc' = ppc /\ left' = left
  BY <1>1 DEF DispatchEnd, Goto, TypeOK, posting
<1>3. TypeOK'
  <2>1. /\ state' \in [Messages -> {"pooled", "posting", "queued", "taken"}]
        /\ copied' \in [Messages -> 0 .. MaxObservers]
        /\ managed' \in [Messages -> BOOLEAN]
    BY <1>1 DEF DispatchEnd, TypeOK
  <2>2. /\ cpc' \in [Consumers -> {"idle", "fast", "bulk", "last", "callFast", "callBulk", "release"}]
        /\ cmsg' \in [Consumers -> Messages \cup {None}]
    BY DEF DispatchEnd, Goto, TypeOK
  <2>3. owed' \in [Consumers -> SUBSET FastMessages]
    BY DEF DispatchEnd, TypeOK
  <2> QED
    BY <1>2, <2>1, <2>2, <2>3, Zenon DEF DispatchEnd, TypeOK
<1>4. Rings'
  <2>1. /\ \A n \in FastMessages : n # m => state'[n] = state[n]
        /\ \A n \in BulkMessages : n # m => state'[n] = state[n]
        /\ state[m] \notin {"posting", "queued"} /\ state'[m] # "queued"
    BY <1>1, <1>2 DEF Messages
  <2>2. RingInv(fast, state', FastMessages)
    BY <2>1, OtherMessage DEF Rings
  <2>3. RingInv(bulk, state', BulkMessages)
    BY <2>1, OtherMessage DEF Rings
  <2> QED
    BY <1>2, <2>2, <2>3 DEF Rings
<1>5. Posts'
  <2>1. \A q \in Producers : pmsg[q] # None => pmsg[q] \in Messages /\ pmsg[q] # m
    BY <1>1 DEF TypeOK, Posts
  <2> QED
    BY <1>2, <2>1 DEF Posts
<1>6. \A d \in Consumers : d # c /\ cmsg[d] # None => cmsg[d] \in Messages /\ cmsg[d] # m
  BY <1>1 DEF TypeOK, Dispatches
<1>7. Dispatches'
  <2>1. \A d \in Consumers : \A n \in owed[d] : n \in Messages /\ n # m /\ state[n] = "queued"
    BY <1>1 DEF TypeOK, Messages, Dispatches
  <2>2. \A d \in Consumers : \A n \in owed'[d] : n \in owed[d]
    BY <1>2
  <2> QED
    BY <1>2, <1>6, <2>1, <2>2 DEF Dispatches
<1>8. Payloads'
  <2>1. refs[m] = 0
    <3>1. Counted(c)
      BY DEF Payloads
    <3> QED
      BY <1>1, <1>2, <3>1 DEF Counted
  <2>2. \A n \in Messages : Filled(n)'
    BY <1>1, <1>2, <2>1 DEF Payloads, Filled
  <2>3. ASSUME NEW d \in Consumers, d # c
        PROVE  Counted(d)'
    <3>1. Counted(d)
      BY DEF Payloads
    <3>2. cmsg[d] = None => cpc[d] \notin {"callFast", "callBulk", "release"}
      BY DEF Dispatches
    <3> QED
      BY <1>2, <1>6, <2>3, <3>1, <3>2 DEF Counted
  <2>4. Counted(c)'
    BY <1>2 DEF Counted
  <2> QED
    BY <2>2, <2>3, <2>4 DEF Payloads
<1> QED
  BY <1>3, <1>4, <1>5, <1>7, <1>8

LEMMA FastEnd_IInv ==
  ASSUME IInv, NEW c \in Consumers, FastEnd(c)
  PROVE  IInv'
<1> DEFINE l == CASE policy[c] = "fast" -> "idle"
                  [] policy[c] = "ratio" -> RatioTries(fastCount'[c])
                  [] OTHER -> "fast"
<1> USE DEF IInv
<1>1. cpc[c] = "callFast" /\ DispatchEnd(c, l) /\ l \in {"idle", "fast", "bulk"} /\ streak' = streak
  BY DEF FastEnd, RatioTries
<1>2. /\ fastCount' = [fastCount EXCEPT ![c] = IF policy[c] = "ratio" THEN Fewer(@ + 1, FastPerBulk) ELSE 0]
      /\ fastCount' \in [Consumers -> 0 .. FastPerBulk]
  BY DEF FastEnd, Fewer, TypeOK
<1>3. TypeOK' /\ Rings' /\ Posts' /\ Dispatches' /\ Payloads'
  <2> HIDE DEF l
  <2>1. streak' \in [Consumers -> 0 .. FastPerBulk + 2]
    BY <1>1 DEF TypeOK
  <2> QED
    BY <1>1, <1>2, <2>1, DispatchEnd_Data
<1>4. /\ cpc'[c] = l /\ policy' = policy
      /\ \A d \in Consumers : d # c => cpc'[d] = cpc[d] /\ fastCount'[d] = fastCount[d]
  BY <1>1, <1>2 DEF DispatchEnd, Goto, TypeOK
<1>5. /\ policy[c] # "ratio" => fastCount'[c] = 0
      /\ policy[c] = "ratio" => l \in {"fast", "bulk"} /\ fastCount'[c] = Fewer(fastCount[c] + 1, FastPerBulk)
      /\ policy[c] = "ratio" /\ l = "fast" => fastCount'[c] < FastPerBulk
  BY <1>2 DEF TypeOK, RatioTries
<1>6. policy[c] = "ratio" /\ l = "fast" => fastCount'[c] = fastCount[c] + 1
  BY <1>5 DEF Fewer, TypeOK
<1> HIDE DEF l
<1>7. Ratio'
  BY <1>1, <1>4, <1>5, <1>6 DEF Ratio
<1> QED
  BY <1>3, <1>7

LEMMA BulkEnd_IInv ==
  ASSUME IInv, NEW c \in Consumers, BulkEnd(c)
  PROVE  IInv'
<1> DEFINE l == CASE policy[c] = "all" -> "bulk"
                  [] policy[c] = "ratio" -> RatioTries(0)
                  [] OTHER -> "idle"
<1> USE DEF IInv
<1>1. cpc[c] = "callBulk" /\ DispatchEnd(c, l) /\ l \in {"idle", "fast", "bulk"} /\ streak' = streak
  BY DEF BulkEnd, RatioTries
<1>2. /\ fastCount' \in [Consumers -> 0 .. FastPerBulk] /\ fastCount'[c] = 0
      /\ \A d \in Consumers : d # c => fastCount'[d] = fastCount[d]
  BY DEF BulkEnd, TypeOK
<1>3. TypeOK' /\ Rings' /\ Posts' /\ Dispatches' /\ Payloads'
  <2> HIDE DEF l
  <2>1. streak' \in [Consumers -> 0 .. FastPerBulk + 2]
    BY <1>1 DEF TypeOK
  <2> QED
    BY <1>1, <1>2, <2>1, DispatchEnd_Data
<1>4. /\ cpc'[c] = l /\ policy' = policy /\ \A d \in Consumers : d # c => cpc'[d] = cpc[d]
  BY <1>1 DEF DispatchEnd, Goto, TypeOK
<1>5. policy[c] = "ratio" => l \in {"fast", "bulk"} /\ (l = "fast" => 0 < FastPerBulk)
  BY DEF RatioTries
<1>6. streak[c] = 0
  BY <1>1 DEF Ratio
<1> HIDE DEF l
<1>7. Ratio'
  BY <1>1, <1>2, <1>4, <1>5, <1>6 DEF Ratio
<1> QED
  BY <1>3, <1>7

LEMMA Stutter_IInv ==
  ASSUME IInv, UNCHANGED vars
  PROVE  IInv'
<1>1. UNCHANGED <<fast, bulk, state, message, refs, posting, control, cmsg, left, owed>>
  BY DEF vars
<1>2. TypeOK'
  BY Zenon DEF vars, message, posting, control, IInv, TypeOK
<1> QED
  BY <1>1, <1>2, Frame DEF IInv

LEMMA Next_IInv ==
  ASSUME SoleAcquirers, IInv, [Next]_vars
  PROVE  IInv'
<1>1. \A c \in Consumers : PoliciesOf[c] \subseteq Policies
  OBVIOUS
<1>2. ASSUME NEW c \in Consumers, CallDispatch(c)
      PROVE  IInv'
  BY <1>1, <1>2, DispatchBegin_IInv DEF CallDispatch
<1>3. ASSUME NEW c \in Consumers, DispatchStep(c)
      PROVE  IInv'
  BY <1>3, TakeFast_IInv, TakeBulk_IInv, TakeFails_IInv, Callback_IInv, ReleasePayload_IInv,
     FastEnd_IInv, BulkEnd_IInv DEF DispatchStep
<1>4. ASSUME NEW p \in Producers, PushStep(p)
      PROVE  IInv'
  BY <1>4, PushClaim_IInv, PushPublish_IInv DEF PushStep
<1> QED
  BY <1>2, <1>3, <1>4, AddObserver_IInv, Post_IInv, Stutter_IInv, Zenon DEF Next

-----------------------------------------------------------------------------
(* The theorems *)

\* The invariant of the proofs: with one thread that acquires from each pool every message
\* object is in one place, and the counts of a dispatch are those of what it took (post,
\* dispatchRatio, dispatchPriority).
THEOREM Invariance == SoleAcquirers => (Spec => []IInv)
<1> SUFFICES ASSUME SoleAcquirers PROVE Spec => []IInv
  OBVIOUS
<1>1. IInv /\ [Next]_vars => IInv'
  BY Next_IInv
<1> QED
  BY <1>1, Init_IInv, PTL DEF Spec

\* With one thread that acquires from each pool every variable keeps its type, and neither
\* ring holds more than its capacity (try_push, try_pop).
THEOREM TypeCorrect == SoleAcquirers => (Spec => []TypeOK)
<1>1. IInv => TypeOK
  BY DEF IInv
<1> QED
  BY <1>1, Invariance, PTL

\* However many threads dispatch: as long as one thread acquires from each pool, a message
\* has one consumer, and its payload is released by the time it is pooled (dispatchFast,
\* dispatchBulk).
THEOREM OneUserEach == SoleAcquirers => (Spec => []OneUser)
<1>1. IInv => OneUser
  BY DEF IInv, OneUser, Dispatches, Payloads, Filled
<1> QED
  BY <1>1, Invariance, PTL

\* For every ratio dispatchRatio tries the bulk queue in time, with one thread that
\* acquires from each pool (dispatchRatio).
THEOREM RatioIsBounded == SoleAcquirers => (Spec => []RatioBound)
<1>1. IInv => RatioBound
  BY DEF IInv, RatioBound, Ratio, Bound
<1> QED
  BY <1>1, Invariance, PTL

-----------------------------------------------------------------------------
(* The order of the critical messages *)

LEMMA ClaimLast ==
  ASSUME NEW S, NEW ring \in Seq(Entries(S)), NEW m \in S, \A k \in DOMAIN ring : ring[k].ready
  PROVE  LastUnready(Claim(ring, m))
<1>1. PICK e : e = [item |-> m, ready |-> FALSE]
  OBVIOUS
<1>2. PICK r : r = Append(ring, e)
  OBVIOUS
<1>3. e \in Entries(S)
  BY <1>1, EntryFacts
<1>4. /\ Len(r) = Len(ring) + 1 /\ \A k \in 1 .. Len(ring) : r[k] = ring[k]
      /\ DOMAIN r = 1 .. (Len(ring) + 1) /\ DOMAIN ring = 1 .. Len(ring) /\ Len(ring) \in Nat
  BY <1>2, <1>3, AppendProperties
<1>5. \A k \in DOMAIN r : k # Len(r) => k \in DOMAIN ring /\ r[k] = ring[k]
  BY <1>4
<1> QED
  BY <1>1, <1>2, <1>5 DEF Claim, LastUnready

LEMMA PublishLength ==
  ASSUME NEW S, NEW ring \in Seq(S), NEW m
  PROVE  Len(Publish(ring, m)) = Len(ring)
<1>1. PICK r : r = Publish(ring, m)
  OBVIOUS
<1>2. DOMAIN r = 1 .. Len(ring) /\ Len(ring) \in Nat /\ r = [k \in 1 .. Len(ring) |-> r[k]]
  BY <1>1 DEF Publish
<1>3. r \in Seq({r[k] : k \in 1 .. Len(ring)})
  BY <1>2
<1> QED
  BY <1>1, <1>2, <1>3

LEMMA PublishLast ==
  ASSUME NEW ring, NEW m, LastUnready(ring), Len(Publish(ring, m)) = Len(ring)
  PROVE  LastUnready(Publish(ring, m))
<1>1. PICK r : r = Publish(ring, m)
  OBVIOUS
<1>2. DOMAIN r = DOMAIN ring /\ \A k \in DOMAIN ring : ~ r[k].ready => ~ ring[k].ready
  BY <1>1 DEF Publish
<1> QED
  BY <1>1, <1>2 DEF LastUnready

LEMMA TailLast ==
  ASSUME NEW S, NEW ring \in Seq(Entries(S)), ring # << >>, LastUnready(ring)
  PROVE  LastUnready(Tail(ring))
<1>1. PICK r : r = Tail(ring)
  OBVIOUS
<1>2. /\ Len(ring) \in Nat \ {0} /\ DOMAIN ring = 1 .. Len(ring) /\ Len(r) = Len(ring) - 1
      /\ DOMAIN r = 1 .. (Len(ring) - 1) /\ \A k \in DOMAIN r : r[k] = ring[k + 1]
  BY <1>1
<1>3. \A k \in DOMAIN r : k + 1 \in DOMAIN ring /\ (k + 1 = Len(ring) => k = Len(r))
  BY <1>2
<1>4. \A k \in DOMAIN r : ~ r[k].ready => k = Len(r)
  BY <1>2, <1>3 DEF LastUnready
<1> QED
  BY <1>1, <1>4 DEF LastUnready

LEMMA Post_FastOrder ==
  ASSUME IInv, FastOrder, NEW p \in Producers, NEW n \in Messages, NEW large \in BOOLEAN,
         NEW critical \in BOOLEAN, Post(p, n, critical, large)
  PROVE  FastOrder'
<1>1. /\ \E b \in BOOLEAN : Acquire(p, n, b)
      /\ n \in FastMessages => p \in FastProducers
  BY DEF Post, PostFast, PostBulk
<1>2. /\ ppc[p] = "idle" /\ pmsg' = [pmsg EXCEPT ![p] = n] /\ state' = [state EXCEPT ![n] = "posting"]
      /\ fast' = fast
  BY <1>1 DEF Acquire
<1>3. /\ pmsg'[p] = n /\ \A q \in Producers : q # p => pmsg'[q] = pmsg[q]
      /\ \A m \in Messages : m # n => state'[m] = state[m]
  BY <1>2 DEF IInv, TypeOK
<1>4. pmsg[p] = None
  BY <1>2 DEF IInv, Posts
<1>5. ASSUME NEW m \in FastMessages, state'[m] = "posting"
      PROVE  \E q \in FastProducers : pmsg'[q] = m
  <2>1. CASE m = n
    BY <1>1, <1>3, <2>1
  <2>2. CASE m # n
    <3>1. m \in Messages /\ m # None
      BY DEF Messages
    <3>2. PICK q \in FastProducers : pmsg[q] = m
      BY <1>3, <1>5, <2>2, <3>1 DEF FastOrder, Owned
    <3>3. q \in Producers /\ q # p
      BY <1>4, <3>1, <3>2 DEF Producers
    <3> QED
      BY <1>3, <3>2, <3>3
  <2> QED
    BY <2>1, <2>2
<1> QED
  BY <1>2, <1>5 DEF FastOrder, Owned, LastUnready

\* The one thread that claims a position of the fast ring has published the one before.
LEMMA PushClaim_FastOrder ==
  ASSUME SoleAcquirers, IInv, FastOrder, NEW p \in Producers, PushClaim(p)
  PROVE  FastOrder'
<1>1. Owned'
  BY DEF PushClaim, FastOrder, Owned
<1>2. CASE pmsg[p] \in FastMessages
  <2>1. PICK m \in FastMessages : m = pmsg[p]
    BY <1>2
  <2>2. /\ fast' = Claim(fast, m) /\ fast \in Seq(Entries(FastMessages))
        /\ m # None /\ state[m] = "posting" /\ m \notin Items(fast)
    BY <2>1 DEF PushClaim, IInv, Rings, RingInv, Posts
  <2>3. PICK q \in FastProducers : pmsg[q] = m
    BY <2>2 DEF FastOrder, Owned
  <2>4. ASSUME NEW k \in DOMAIN fast, ~ fast[k].ready
        PROVE  FALSE
    <3>1. fast[k].item \in FastMessages /\ fast[k].item # m
      BY <2>2, RingFacts DEF IInv, Rings, Items
    <3>2. state[fast[k].item] = "posting"
      BY <2>4, Zenon DEF IInv, Rings, RingInv
    <3>3. PICK u \in FastProducers : pmsg[u] = fast[k].item
      BY <3>1, <3>2 DEF FastOrder, Owned
    <3>4. u = q
      BY Zenon DEF SoleAcquirers
    <3> QED
      BY <2>3, <3>1, <3>3, <3>4
  <2>5. LastUnready(Claim(fast, m))
    BY <2>2, <2>4, ClaimLast
  <2> QED
    BY <1>1, <2>2, <2>5 DEF FastOrder, LastUnready
<1>3. CASE pmsg[p] \notin FastMessages
  BY <1>1, <1>3 DEF PushClaim, FastOrder, LastUnready
<1> QED
  BY <1>2, <1>3

LEMMA PushPublish_FastOrder ==
  ASSUME IInv, FastOrder, NEW p \in Producers, PushPublish(p)
  PROVE  FastOrder'
<1>1. PICK n \in Messages : n = pmsg[p] /\ n # None /\ state[n] = "posting"
                            /\ (n \in FastMessages => n \in Items(fast))
  BY DEF PushPublish, IInv, TypeOK, Posts
<1>2. /\ \A q \in Producers : q # p => pmsg'[q] = pmsg[q]
      /\ state'[n] = "queued" /\ \A m \in Messages : m # n => state'[m] = state[m]
      /\ fast' = Publish(fast, n)
  BY <1>1 DEF PushPublish, IInv, TypeOK
<1>3. Owned'
  <2> SUFFICES ASSUME NEW m \in FastMessages, state'[m] = "posting"
               PROVE  \E q \in FastProducers : pmsg'[q] = m
    BY DEF Owned
  <2>1. m \in Messages /\ m # n /\ state[m] = "posting"
    BY <1>2 DEF Messages
  <2>2. PICK q \in FastProducers : pmsg[q] = m
    BY <2>1 DEF FastOrder, Owned
  <2>3. q \in Producers /\ q # p
    BY <1>1, <2>1, <2>2 DEF Producers
  <2> QED
    BY <1>2, <2>2, <2>3
<1>4. Len(Publish(fast, n)) = Len(fast)
  <2>1. fast \in Seq(Entries(FastMessages))
    BY DEF IInv, Rings, RingInv
  <2> QED
    BY <2>1, PublishLength
<1>5. LastUnready(Publish(fast, n))
  BY <1>4, PublishLast DEF FastOrder
<1> QED
  BY <1>2, <1>3, <1>5 DEF FastOrder, LastUnready

LEMMA Dispatch_FastOrder ==
  ASSUME IInv, FastOrder, NEW c \in Consumers, CallDispatch(c) \/ DispatchStep(c)
  PROVE  FastOrder'
<1>1. pmsg' = pmsg
  BY DEF CallDispatch, DispatchBegin, DispatchStep, TakeFast, TakeBulk, Taken, TakeFails, Callback,
         ReleasePayload, FastEnd, BulkEnd, DispatchEnd, posting
<1>2. \A m \in FastMessages : state'[m] = "posting" => state[m] = "posting"
  <2>1. \/ state' = state
        \/ \E n, s : s \in {"taken", "pooled"} /\ state' = [state EXCEPT ![n] = s]
    BY DEF CallDispatch, DispatchBegin, DispatchStep, TakeFast, TakeBulk, Taken, TakeFails, Callback,
           ReleasePayload, FastEnd, BulkEnd, DispatchEnd
  <2>2. \A m \in FastMessages : m \in DOMAIN state
    BY DEF IInv, TypeOK, Messages
  <2> QED
    BY <2>1, <2>2
<1>3. LastUnready(fast')
  <2>1. CASE TakeFast(c)
    <3>1. fast \in Seq(Entries(FastMessages)) /\ fast # << >> /\ fast' = Tail(fast)
      BY <2>1 DEF TakeFast, Poppable, IInv, Rings, RingInv
    <3> QED
      BY <3>1, TailLast DEF FastOrder
  <2>2. CASE ~ TakeFast(c)
    <3>1. fast' = fast
      BY <2>2 DEF CallDispatch, DispatchBegin, DispatchStep, TakeBulk, TakeFails, Callback,
                  ReleasePayload, FastEnd, BulkEnd, DispatchEnd
    <3> QED
      BY <3>1 DEF FastOrder
  <2> QED
    BY <2>1, <2>2
<1> QED
  BY <1>1, <1>2, <1>3 DEF FastOrder, Owned, LastUnready

LEMMA Next_FastOrder ==
  ASSUME SoleAcquirers, IInv, FastOrder, [Next]_vars
  PROVE  FastOrder'
<1>1. CASE AddObserver \/ UNCHANGED vars
  BY <1>1 DEF AddObserver, vars, posting, FastOrder, Owned, LastUnready
<1> QED
  BY <1>1, Post_FastOrder, PushClaim_FastOrder, PushPublish_FastOrder, Dispatch_FastOrder, Zenon
     DEF Next, PushStep

\* A critical message that waits in the fast ring can be taken, or one before it can.
LEMMA OwedIsThere ==
  ASSUME IInv, FastOrder, NEW m \in FastMessages, state[m] = "queued"
  PROVE  Poppable(fast)
<1>1. RingInv(fast, state, FastMessages)
  BY DEF IInv, Rings
<1>2. PICK k \in DOMAIN fast : fast[k].item = m
  BY <1>1 DEF RingInv, Items
<1>3. fast[k].ready
  <2>1. ~ fast[k].ready => state[fast[k].item] = "posting"
    BY <1>1, Zenon DEF RingInv
  <2> QED
    BY <1>2, <2>1
<1>4. Len(fast) \in Nat /\ DOMAIN fast = 1 .. Len(fast) /\ fast # << >>
  BY <1>1, <1>2 DEF RingInv
<1>5. fast[1].ready
  <2>1. ~ fast[1].ready => 1 = Len(fast)
    BY <1>2, <1>4 DEF FastOrder, LastUnready
  <2> QED
    BY <1>2, <1>3, <1>4, <2>1
<1> QED
  BY <1>4, <1>5 DEF Poppable

\* dispatchPriority and dispatchAll drain what is critical before they look at the bulk
\* queue, for any number of consumers that take from both, when one thread posts what is
\* critical (dispatchPriority, dispatchAll).
THEOREM CriticalIsFirst == SoleAcquirers => (Spec => CriticalFirst)
<1> SUFFICES ASSUME SoleAcquirers PROVE Spec => CriticalFirst
  OBVIOUS
<1> DEFINE A == \A c \in Consumers :
                  policy[c] \in {"priority", "all"} /\ cpc[c] \in {"fast", "callFast"} /\ cpc'[c] = "bulk" =>
                    owed[c] = {}
<1>1. ASSUME IInv, FastOrder, [Next]_vars
      PROVE  A
  <2> SUFFICES ASSUME NEW c \in Consumers, policy[c] \in {"priority", "all"},
                      cpc[c] \in {"fast", "callFast"}, cpc'[c] = "bulk", owed[c] # {}
               PROVE  FALSE
    OBVIOUS
  <2>1. PICK m \in owed[c] : TRUE
    OBVIOUS
  <2>2. m \in FastMessages /\ state[m] = "queued"
    BY <1>1, <2>1 DEF IInv, TypeOK, Dispatches
  <2>3. Poppable(fast)
    BY <1>1, <2>2, OwedIsThere
  <2>4. \A d \in Consumers : d # c /\ (CallDispatch(d) \/ DispatchStep(d)) => cpc'[c] = cpc[c]
    BY <1>1 DEF CallDispatch, DispatchBegin, DispatchStep, TakeFast, TakeBulk, TakeFails,
                Callback, ReleasePayload, FastEnd, BulkEnd, DispatchEnd, Goto, control, IInv, TypeOK
  <2>5. CallDispatch(c) \/ DispatchStep(c)
    <3>1. ASSUME NEW p \in Producers, NEW n \in Messages, NEW large \in BOOLEAN,
                 NEW critical \in BOOLEAN, Post(p, n, critical, large)
          PROVE  cpc' = cpc
      BY <3>1 DEF Post, PostFast, PostBulk, Acquire, control
    <3>2. ASSUME NEW p \in Producers, PushStep(p)
          PROVE  cpc' = cpc
      BY <3>2 DEF PushStep, PushClaim, PushPublish, control
    <3>3. AddObserver \/ UNCHANGED vars => cpc' = cpc
      BY DEF AddObserver, vars, control
    <3> QED
      BY <1>1, <2>4, <3>1, <3>2, <3>3 DEF Next
  <2>6. ~ CallDispatch(c)
    BY DEF CallDispatch, DispatchBegin
  <2>7. ~ TakeFast(c) /\ ~ TakeBulk(c) /\ ~ Callback(c) /\ ~ ReleasePayload(c) /\ ~ BulkEnd(c)
    BY <1>1 DEF TakeFast, TakeBulk, Callback, ReleasePayload, BulkEnd, Goto, control, IInv, TypeOK
  <2>8. ~ FastEnd(c)
    BY <1>1 DEF FastEnd, DispatchEnd, Goto, IInv, TypeOK
  <2>9. ~ TakeFails(c)
    BY <2>3 DEF TakeFails
  <2> QED
    BY <2>5, <2>6, <2>7, <2>8, <2>9 DEF DispatchStep
<1>2. IInv /\ FastOrder /\ [Next]_vars => [A]_vars
  BY <1>1
<1>3. Init => FastOrder
  BY DEF Init, FastOrder, Owned, LastUnready, Messages
<1>4. IInv /\ FastOrder /\ [Next]_vars => FastOrder'
  BY Next_FastOrder
<1>5. Spec => []IInv
  BY Invariance
<1> QED
  BY <1>2, <1>3, <1>4, <1>5, PTL DEF Spec, CriticalFirst

-----------------------------------------------------------------------------
(* The promise of a broadcast queue whose objects are used again *)

\* What those have heard whose message is dispatched, and that no other was heard.
Described ==
  /\ \A c \in Consumers : cmsg[c] # None => heard[cmsg[c]] = copied[cmsg[c]] - left[c]
  /\ \A m \in Messages : (\A c \in Consumers : cmsg[c] # m) => heard[m] = 0

LEMMA CallerIs ==
  ASSUME IInv, NEW c \in Consumers, cmsg[c] # None
  PROVE  Caller(cmsg[c]) = c
<1>1. \A d \in Consumers : cmsg[d] = cmsg[c] => d = c
  BY Zenon DEF IInv, Dispatches
<1> QED
  BY <1>1 DEF Caller

LEMMA Heard == IInv => Described
<1> SUFFICES ASSUME IInv PROVE Described
  OBVIOUS
<1>1. ASSUME NEW c \in Consumers, cmsg[c] # None
      PROVE  heard[cmsg[c]] = copied[cmsg[c]] - left[c]
  <2>1. cmsg[c] \in Messages
    BY <1>1 DEF IInv, TypeOK
  <2> QED
    BY <1>1, <2>1, CallerIs DEF heard
<1>2. \A m \in Messages : (\A c \in Consumers : cmsg[c] # m) => heard[m] = 0
  BY DEF heard
<1> QED
  BY <1>1, <1>2 DEF Described

LEMMA HeardNext == IInv' => Described'
  BY Heard, PTL

\* The functions of the promise are given message by message.
LEMMA ByMessage ==
  /\ heard = [n \in Messages |-> heard[n]] /\ heard' = [n \in Messages |-> heard'[n]]
  /\ payload = [n \in Messages |-> payload[n]] /\ payload' = [n \in Messages |-> payload'[n]]
  BY DEF heard, payload

LEMMA PayloadIs ==
  ASSUME NEW m \in Messages
  PROVE  /\ payload[m] = IF state[m] = "pooled" THEN "none"
                         ELSE IF ~ managed[m] THEN "inline"
                         ELSE IF refs[m] > 0 THEN "alive" ELSE "freed"
         /\ payload'[m] = IF state'[m] = "pooled" THEN "none"
                          ELSE IF ~ managed'[m] THEN "inline"
                          ELSE IF refs'[m] > 0 THEN "alive" ELSE "freed"
  BY DEF payload

\* A step of one message leaves the others as they were.
LEMMA Elsewhere ==
  ASSUME IInv, IInv', NEW m \in Messages,
         \A n \in Messages \ {m} :
           /\ state'[n] = state[n] /\ copied'[n] = copied[n]
           /\ managed'[n] = managed[n] /\ refs'[n] = refs[n],
         \A c \in Consumers :
           \/ cmsg'[c] = cmsg[c] /\ (cmsg[c] # m => left'[c] = left[c])
           \/ cmsg[c] \in {m, None} /\ cmsg'[c] \in {m, None}
  PROVE  \A n \in Messages \ {m} : heard'[n] = heard[n] /\ payload'[n] = payload[n]
<1> SUFFICES ASSUME NEW n \in Messages, n # m
             PROVE  heard'[n] = heard[n] /\ payload'[n] = payload[n]
  OBVIOUS
<1>1. payload'[n] = payload[n]
  BY PayloadIs
<1>2. Described /\ Described'
  BY Heard, HeardNext
<1>3. CASE \E c \in Consumers : cmsg[c] = n
  <2>1. PICK c \in Consumers : cmsg[c] = n
    BY <1>3
  <2>2. cmsg'[c] = n /\ left'[c] = left[c] /\ n # None
    BY <2>1
  <2>3. heard[n] = copied[n] - left[c]
    BY <1>2, <2>1, <2>2 DEF Described
  <2>4. heard'[n] = copied'[n] - left'[c]
    BY <1>2, <2>2 DEF Described
  <2> QED
    BY <1>1, <2>2, <2>3, <2>4
<1>4. CASE \A c \in Consumers : cmsg[c] # n
  <2>1. \A c \in Consumers : cmsg'[c] # n
    BY <1>4
  <2>2. heard[n] = 0
    BY <1>2, <1>4 DEF Described
  <2>3. heard'[n] = 0
    BY <1>2, <2>1 DEF Described
  <2> QED
    BY <1>1, <2>2, <2>3
<1> QED
  BY <1>3, <1>4

LEMMA Init_Promise == Init => Promise!Init
<1> SUFFICES ASSUME Init PROVE Promise!Init
  OBVIOUS
<1>1. \A m \in Messages : \A c \in Consumers : cmsg[c] # m
  BY DEF Init
<1>2. heard = [m \in Messages |-> 0]
  BY <1>1 DEF heard
<1>3. payload = [m \in Messages |-> "none"]
  BY DEF Init, payload
<1> QED
  BY <1>2, <1>3 DEF Init, Promise!Init

\* A step that leaves what each message is alone.
LEMMA Stutters ==
  ASSUME UNCHANGED <<state, message, refs, cmsg, left>>
  PROVE  UNCHANGED Promise!vars
<1>1. heard' = heard
  BY Zenon DEF heard, Caller, message
<1>2. payload' = payload
  BY Zenon DEF payload, message
<1> QED
  BY <1>1, <1>2 DEF Promise!vars, message

LEMMA Acquire_Promise ==
  ASSUME SoleAcquirers, IInv, IInv', NEW p \in Producers, NEW m \in Messages,
         NEW large \in BOOLEAN, Acquire(p, m, large)
  PROVE  Promise!Accept(m)
<1>1. /\ state[m] = "pooled" /\ state'[m] = "posting" /\ observers \in 1 .. MaxObservers
      /\ copied' = [copied EXCEPT ![m] = observers]
      /\ managed'[m] = large /\ refs'[m] = IF large THEN PostRefs(observers) ELSE 0
      /\ \A n \in Messages \ {m} : /\ state'[n] = state[n] /\ copied'[n] = copied[n]
                                   /\ managed'[n] = managed[n] /\ refs'[n] = refs[n]
      /\ cmsg' = cmsg /\ left' = left
  BY DEF Acquire, Acquirable, IInv, TypeOK
<1>2. \A c \in Consumers : cmsg[c] # m
  BY <1>1 DEF IInv, Dispatches
<1>3. \A n \in Messages \ {m} : heard'[n] = heard[n] /\ payload'[n] = payload[n]
  BY <1>1, Elsewhere
<1>4. heard[m] = 0 /\ heard'[m] = 0
  <2>1. Described /\ Described'
    BY Heard, HeardNext
  <2>2. heard[m] = 0
    BY <1>2, <2>1 DEF Described
  <2>3. heard'[m] = 0
    BY <1>1, <1>2, <2>1 DEF Described
  <2> QED
    BY <2>2, <2>3
<1>5. copied[m] = 0
  BY <1>1 DEF IInv, Payloads, Filled
<1>6. payload'[m] = IF large THEN "alive" ELSE "inline"
  BY <1>1, PayloadIs DEF PostRefs
<1>7. heard' = heard
  BY <1>3, <1>4, ByMessage
<1>8. payload' = [payload EXCEPT ![m] = IF large THEN "alive" ELSE "inline"]
  BY <1>3, <1>6, ByMessage
<1>9. \E n \in 1 .. MaxObservers : copied' = [copied EXCEPT ![m] = n]
  BY <1>1
<1>10. \E kind \in {"inline", "alive"} : payload' = [payload EXCEPT ![m] = kind]
  BY <1>8
<1> QED
  BY <1>5, <1>7, <1>9, <1>10, Zenon DEF Promise!Accept

LEMMA PushPublish_Promise ==
  ASSUME IInv, IInv', NEW p \in Producers, PushPublish(p)
  PROVE  UNCHANGED Promise!vars
<1>1. PICK m \in Messages : m = pmsg[p] /\ m # None /\ state[m] = "posting"
  BY DEF PushPublish, IInv, TypeOK, Posts
<1>2. /\ state'[m] = "queued" /\ \A n \in Messages \ {m} : state'[n] = state[n]
      /\ copied' = copied /\ managed' = managed /\ refs' = refs /\ cmsg' = cmsg /\ left' = left
  BY <1>1 DEF PushPublish, message, IInv, TypeOK
<1>3. heard' = heard
  BY <1>2, Zenon DEF heard, Caller
<1>4. \A n \in Messages : payload'[n] = payload[n]
  BY <1>1, <1>2, PayloadIs
<1> QED
  BY <1>2, <1>3, <1>4, ByMessage DEF Promise!vars

\* Nobody has heard a message that has just been taken.
LEMMA Taken_Promise ==
  ASSUME IInv, IInv', NEW c \in Consumers, NEW m \in Messages, state[m] = "queued",
         cmsg[c] = None, Taken(c, m)
  PROVE  UNCHANGED Promise!vars
<1>1. /\ state'[m] = "taken" /\ \A n \in Messages \ {m} : state'[n] = state[n]
      /\ copied' = copied /\ managed' = managed /\ refs' = refs
      /\ cmsg'[c] = m /\ left'[c] = copied[m] /\ m # None /\ copied[m] \in Nat
      /\ \A d \in Consumers \ {c} : cmsg'[d] = cmsg[d] /\ left'[d] = left[d]
  BY DEF Taken, message, IInv, TypeOK
<1>2. \A d \in Consumers : cmsg[d] # m
  BY <1>1 DEF IInv, Dispatches
<1>3. \A n \in Messages \ {m} : heard'[n] = heard[n] /\ payload'[n] = payload[n]
  <2>1. \A d \in Consumers :
          \/ cmsg'[d] = cmsg[d] /\ (cmsg[d] # m => left'[d] = left[d])
          \/ cmsg[d] \in {m, None} /\ cmsg'[d] \in {m, None}
    BY <1>1
  <2> QED
    BY <1>1, <2>1, Elsewhere
<1>4. heard[m] = 0 /\ heard'[m] = 0
  <2>1. Described /\ Described'
    BY Heard, HeardNext
  <2>2. heard[m] = 0
    BY <1>2, <2>1 DEF Described
  <2>3. heard'[m] = copied'[m] - left'[c]
    BY <1>1, <2>1 DEF Described
  <2> QED
    BY <1>1, <2>2, <2>3
<1>5. payload'[m] = payload[m]
  BY <1>1, PayloadIs
<1>6. \A n \in Messages : heard'[n] = heard[n] /\ payload'[n] = payload[n]
  BY <1>3, <1>4, <1>5
<1>7. heard' = heard /\ payload' = payload
  BY <1>6, ByMessage
<1> QED
  BY <1>1, <1>7 DEF Promise!vars

\* What a consumer takes is a message that waits.
LEMMA TakeIsQueued ==
  ASSUME NEW S, NEW ring, NEW st, RingInv(ring, st, S), Poppable(ring)
  PROVE  Head(ring).item \in S /\ st[Head(ring).item] = "queued"
<1>1. Head(ring) = ring[1] /\ 1 \in DOMAIN ring /\ ring[1].ready
  <2>1. ring \in Seq(Entries(S)) /\ ring # << >> /\ ring[1].ready
    BY Zenon DEF RingInv, Poppable
  <2> QED
    BY <2>1
<1>2. ring[1].item \in S
  BY <1>1, RingFacts, Zenon
<1>3. st[ring[1].item] = "queued"
  BY <1>1, Zenon DEF RingInv
<1> QED
  BY <1>1, <1>2, <1>3

LEMMA Take_Promise ==
  ASSUME IInv, IInv', NEW c \in Consumers, TakeFast(c) \/ TakeBulk(c)
  PROVE  UNCHANGED Promise!vars
<1>1. cmsg[c] = None
  BY DEF TakeFast, TakeBulk, IInv, Dispatches
<1>2. RingInv(fast, state, FastMessages) /\ RingInv(bulk, state, BulkMessages)
  BY DEF IInv, Rings
<1>3. CASE TakeFast(c)
  <2>1. Poppable(fast) /\ Taken(c, Head(fast).item)
    BY <1>3 DEF TakeFast
  <2>2. Head(fast).item \in FastMessages /\ state[Head(fast).item] = "queued"
    BY <1>2, <2>1, TakeIsQueued
  <2>3. Head(fast).item \in Messages
    BY <2>2, Zenon DEF Messages
  <2> QED
    BY <1>1, <2>1, <2>2, <2>3, Taken_Promise
<1>4. CASE TakeBulk(c)
  <2>1. Poppable(bulk) /\ Taken(c, Head(bulk).item)
    BY <1>4 DEF TakeBulk
  <2>2. Head(bulk).item \in BulkMessages /\ state[Head(bulk).item] = "queued"
    BY <1>2, <2>1, TakeIsQueued
  <2>3. Head(bulk).item \in Messages
    BY <2>2, Zenon DEF Messages
  <2> QED
    BY <1>1, <2>1, <2>2, <2>3, Taken_Promise
<1> QED
  BY <1>3, <1>4

\* Each callback is one more observer that hears the message, whose payload is there.
LEMMA Callback_Promise ==
  ASSUME IInv, IInv', NEW c \in Consumers, Callback(c)
  PROVE  \E m \in Messages : Promise!Hear(m)
<1>1. PICK m \in Messages : m = cmsg[c] /\ m # None /\ state[m] = "taken"
  BY DEF Callback, IInv, TypeOK, Dispatches
<1>2. /\ cpc[c] \in {"callFast", "callBulk"} /\ left[c] > 0 /\ left'[c] = left[c] - 1
      /\ \A d \in Consumers \ {c} : left'[d] = left[d]
      /\ state' = state /\ copied' = copied /\ managed' = managed /\ refs' = refs /\ cmsg' = cmsg
      /\ left[c] \in Nat /\ copied[m] \in Nat
  BY <1>1 DEF Callback, message, IInv, TypeOK
<1>3. heard[m] = copied[m] - left[c] /\ heard'[m] = copied[m] - left'[c]
  <2>1. Described /\ Described'
    BY Heard, HeardNext
  <2>2. heard[m] = copied[m] - left[c]
    BY <1>1, <2>1 DEF Described
  <2>3. heard'[m] = copied'[m] - left'[c]
    BY <1>1, <1>2, <2>1 DEF Described
  <2> QED
    BY <1>2, <2>2, <2>3
<1>4. heard[m] < copied[m] /\ heard'[m] = heard[m] + 1
  BY <1>2, <1>3
<1>5. \A n \in Messages \ {m} : heard'[n] = heard[n] /\ payload'[n] = payload[n]
  <2>1. \A d \in Consumers : cmsg'[d] = cmsg[d] /\ (cmsg[d] # m => left'[d] = left[d])
    BY <1>1, <1>2
  <2> QED
    BY <1>2, <2>1, Elsewhere
<1>6. payload'[m] = payload[m]
  BY <1>2, PayloadIs
<1>7. payload[m] # "freed"
  <2>1. Counted(c)
    BY DEF IInv, Payloads
  <2>2. managed[m] => refs[m] > 0
    BY <1>1, <1>2, <2>1 DEF Counted
  <2> QED
    BY <2>2, PayloadIs
<1>8. heard' = [heard EXCEPT ![m] = @ + 1]
  BY <1>4, <1>5, ByMessage
<1>9. payload' = payload
  BY <1>5, <1>6, ByMessage
<1> QED
  BY <1>1, <1>2, <1>4, <1>7, <1>8, <1>9, Zenon DEF Promise!Hear

\* The last release of a payload frees it, and the others leave it alive.
LEMMA ReleasePayload_Promise ==
  ASSUME IInv, IInv', NEW c \in Consumers, ReleasePayload(c)
  PROVE  (\E m \in Messages : Promise!Free(m)) \/ UNCHANGED Promise!vars
<1>1. PICK m \in Messages : m = cmsg[c] /\ m # None /\ state[m] = "taken"
  BY DEF ReleasePayload, IInv, TypeOK, Dispatches
<1>2. /\ cpc[c] = "release" /\ refs'[m] = refs[m] - 1
      /\ \A n \in Messages \ {m} : refs'[n] = refs[n]
      /\ state' = state /\ copied' = copied /\ managed' = managed /\ cmsg' = cmsg /\ left' = left
      /\ left[c] \in Nat /\ copied[m] \in Nat
  BY <1>1 DEF ReleasePayload, message, IInv, TypeOK
<1>3. managed[m] /\ refs[m] = left[c] + 1
  BY <1>1, <1>2 DEF IInv, Payloads, Counted
<1>4. heard' = heard
  BY <1>2, Zenon DEF heard, Caller
<1>5. \A n \in Messages \ {m} : payload'[n] = payload[n]
  BY <1>2, PayloadIs
<1>6. payload[m] = "alive" /\ payload'[m] = IF left[c] > 0 THEN "alive" ELSE "freed"
  BY <1>1, <1>2, <1>3, PayloadIs
<1>7. CASE left[c] = 0
  <2>1. heard[m] = copied[m]
    <3>1. heard[m] = copied[m] - left[c]
      BY <1>1, Heard DEF Described
    <3> QED
      BY <1>2, <1>7, <3>1
  <2>2. payload' = [payload EXCEPT ![m] = "freed"]
    BY <1>5, <1>6, <1>7, ByMessage
  <2> QED
    BY <1>2, <1>4, <1>6, <2>1, <2>2, Zenon DEF Promise!Free
<1>8. CASE left[c] # 0
  <2>1. payload' = payload
    BY <1>2, <1>5, <1>6, <1>8, ByMessage
  <2> QED
    BY <1>2, <1>4, <2>1 DEF Promise!vars
<1> QED
  BY <1>7, <1>8

\* A message is given back when all have heard it and its payload is gone.
LEMMA DispatchEnd_Promise ==
  ASSUME IInv, IInv', NEW c \in Consumers, cpc[c] \in {"callFast", "callBulk"},
         NEW l, DispatchEnd(c, l)
  PROVE  \E m \in Messages : Promise!Recycle(m)
<1>1. PICK m \in Messages : m = cmsg[c] /\ m # None /\ state[m] = "taken"
  BY DEF IInv, TypeOK, Dispatches
<1>2. /\ left[c] = 0 /\ state'[m] = "pooled" /\ cmsg'[c] = None
      /\ copied' = [copied EXCEPT ![m] = 0]
      /\ \A n \in Messages \ {m} : /\ state'[n] = state[n] /\ copied'[n] = copied[n]
                                   /\ managed'[n] = managed[n] /\ refs'[n] = refs[n]
      /\ \A d \in Consumers \ {c} : cmsg'[d] = cmsg[d]
      /\ left' = left /\ copied[m] \in Nat
  BY <1>1 DEF DispatchEnd, IInv, TypeOK
<1>3. copied[m] # 0
  BY <1>1, <1>2 DEF IInv, Payloads, Filled
<1>4. payload[m] # "alive"
  <2>1. Counted(c)
    BY DEF IInv, Payloads
  <2>2. refs[m] = 0
    BY <1>1, <1>2, <2>1 DEF Counted
  <2> QED
    BY <2>2, PayloadIs
<1>5. heard[m] = copied[m]
  <2>1. heard[m] = copied[m] - left[c]
    BY <1>1, Heard DEF Described
  <2> QED
    BY <1>2, <2>1
<1>6. heard'[m] = 0
  <2>1. \A d \in Consumers \ {c} : cmsg[d] # m
    BY <1>1, Zenon DEF IInv, Dispatches
  <2>2. \A d \in Consumers : cmsg'[d] # m
    BY <1>1, <1>2, <2>1
  <2> QED
    BY <2>2, HeardNext DEF Described
<1>7. payload'[m] = "none"
  BY <1>2, PayloadIs
<1>8. \A n \in Messages \ {m} : heard'[n] = heard[n] /\ payload'[n] = payload[n]
  <2>1. \A d \in Consumers :
          \/ cmsg'[d] = cmsg[d] /\ (cmsg[d] # m => left'[d] = left[d])
          \/ cmsg[d] \in {m, None} /\ cmsg'[d] \in {m, None}
    BY <1>1, <1>2
  <2> QED
    BY <1>2, <2>1, Elsewhere
<1>9. heard' = [heard EXCEPT ![m] = 0]
  BY <1>6, <1>8, ByMessage
<1>10. payload' = [payload EXCEPT ![m] = "none"]
  BY <1>7, <1>8, ByMessage
<1> QED
  BY <1>2, <1>3, <1>4, <1>5, <1>9, <1>10, Zenon DEF Promise!Recycle

\* Every step of the emulator is a step of the promise, or none.
LEMMA Next_Promise ==
  ASSUME SoleAcquirers, IInv, IInv', [Next]_vars
  PROVE  [Promise!RecycledNext]_(Promise!vars)
<1> USE DEF Promise!RecycledNext, Promise!Next
<1>1. CASE AddObserver \/ UNCHANGED vars
  BY <1>1, Stutters DEF AddObserver, vars
<1>2. ASSUME NEW p \in Producers, NEW m \in Messages, NEW large \in BOOLEAN,
             NEW critical \in BOOLEAN, Post(p, m, critical, large)
      PROVE  [Promise!RecycledNext]_(Promise!vars)
  <2>1. \E b \in BOOLEAN : Acquire(p, m, b)
    BY <1>2 DEF Post, PostFast, PostBulk
  <2> QED
    BY <2>1, Acquire_Promise
<1>3. ASSUME NEW p \in Producers, PushStep(p)
      PROVE  [Promise!RecycledNext]_(Promise!vars)
  <2>1. PushClaim(p) => UNCHANGED Promise!vars
    BY Stutters DEF PushClaim, control
  <2> QED
    BY <1>3, <2>1, PushPublish_Promise DEF PushStep
<1>4. ASSUME NEW c \in Consumers, CallDispatch(c)
      PROVE  [Promise!RecycledNext]_(Promise!vars)
  BY <1>4, Stutters DEF CallDispatch, DispatchBegin
<1>5. ASSUME NEW c \in Consumers, DispatchStep(c)
      PROVE  [Promise!RecycledNext]_(Promise!vars)
  <2>1. TakeFails(c) => UNCHANGED Promise!vars
    BY Stutters DEF TakeFails
  <2>2. ASSUME FastEnd(c) \/ BulkEnd(c)
        PROVE  \E m \in Messages : Promise!Recycle(m)
    <3>1. cpc[c] \in {"callFast", "callBulk"} /\ \E l : DispatchEnd(c, l)
      BY <2>2, Zenon DEF FastEnd, BulkEnd
    <3> QED
      BY <3>1, DispatchEnd_Promise
  <2> QED
    BY <1>5, <2>1, <2>2, Take_Promise, Callback_Promise, ReleasePayload_Promise DEF DispatchStep
<1> QED
  BY <1>1, <1>2, <1>3, <1>4, <1>5 DEF Next

\* As long as one thread acquires from each pool, every message that is posted is heard
\* once by each observer it was posted to, its payload is alive for all of them, and its
\* object is given back only when the last has heard it, so that the next message in it is
\* another one (postFast, postBulk, dispatchFast, dispatchBulk).
THEOREM EmulatorKeepsThePromise == SoleAcquirers => (Spec => ImplementsBroadcast)
<1> SUFFICES ASSUME SoleAcquirers PROVE Spec => ImplementsBroadcast
  OBVIOUS
<1>1. IInv /\ IInv' /\ [Next]_vars => [Promise!RecycledNext]_(Promise!vars)
  BY Next_Promise
<1>2. Spec => []IInv
  BY Invariance
<1> QED
  BY <1>1, <1>2, Init_Promise, PTL DEF Spec, ImplementsBroadcast, Promise!RecycledSpec
=============================================================================
