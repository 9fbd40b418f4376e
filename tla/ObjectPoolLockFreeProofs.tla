---------------------- MODULE ObjectPoolLockFreeProofs ----------------------
(***************************************************************************)
(* Proofs about ObjectPoolLockFree for any number of releasing threads,    *)
(* any sizes and any heap, under one hypothesis: a single thread acquires. *)
(* With two acquirers the compare_exchange of popFree can succeed on a     *)
(* list that has changed underneath (TLC shows it).                        *)
(***************************************************************************)
EXTENDS ObjectPoolLockFree, SequenceTheorems, FiniteSetTheorems, TLAPS

SoleAcquirer == \A t, u \in Acquirers : t = u

-----------------------------------------------------------------------------
(* Sequences *)

\* Removing the last element keeps the others.
LEMMA PopLemma ==
  ASSUME NEW S, NEW s \in Seq(S), Len(s) > 0
  PROVE  /\ Pop(s) \in Seq(S)
         /\ Len(Pop(s)) = Len(s) - 1
         /\ \A i \in 1 .. Len(s) - 1 : Pop(s)[i] = s[i]
<1>1. \A i \in 1 .. Len(s) - 1 : s[i] \in S
  OBVIOUS
<1>2. Len(s) \in Nat /\ Len(s) - 1 \in Int
  OBVIOUS
<1> DEFINE n == Len(s) - 1
<1>3. /\ SubSeq(s, 1, n) \in Seq(S)
      /\ Len(SubSeq(s, 1, n)) = IF 1 <= n THEN n - 1 + 1 ELSE 0
      /\ \A i \in 1 .. n - 1 + 1 : SubSeq(s, 1, n)[i] = s[1 + i - 1]
  <2>1. n \in Int /\ 1 \in Int /\ \A i \in 1 .. n : s[i] \in S
    BY <1>1, <1>2
  <2> HIDE DEF n
  <2> QED
    BY <2>1, SubSeqProperties
<1>4. n - 1 + 1 = n /\ n \in Nat /\ \A i \in 1 .. n : 1 + i - 1 = i
  BY <1>2
<1> QED
  BY <1>3, <1>4 DEF Pop

\* Appending keeps the elements of a sequence and adds one.
LEMMA AppendLemma ==
  ASSUME NEW S, NEW s \in Seq(S), NEW e \in S
  PROVE  /\ Append(s, e) \in Seq(S)
         /\ Len(Append(s, e)) = Len(s) + 1
         /\ \A i \in 1 .. Len(s) : Append(s, e)[i] = s[i]
         /\ Append(s, e)[Len(s) + 1] = e
  OBVIOUS

-----------------------------------------------------------------------------
(* The inductive invariant *)

\* The node at position i of the list points to the one pushed before it.
Below(s, i) == IF i = 1 THEN Null ELSE s[i - 1]
Top(s) == IF Len(s) = 0 THEN Null ELSE s[Len(s)]

\* The linked list is the stack, and no node is on it twice.
ListIsStack ==
  /\ alive => freeList = Top(stack)
  /\ \A i \in 1 .. Len(stack) : next[stack[i]] = Below(stack, i)
  /\ \A i, j \in 1 .. Len(stack) : stack[i] = stack[j] => i = j

Holding == {"count", "delete", "load", "link", "push"}

\* Every live node has one owner: the list, the callers, or one thread.
OneOwner ==
  /\ \A i \in 1 .. Len(stack) : stack[i] \in heap \ out
  /\ out \subseteq heap
  /\ \A t \in Threads :
       /\ pc[t] \in Holding => node[t] \in heap \ (out \cup Free)
       /\ pc[t] \notin Holding => node[t] = Null
  /\ \A t, u \in Threads : t # u /\ node[t] = node[u] => node[t] = Null
  /\ \A n \in heap : n \in Free \/ n \in out \/ \E t \in Threads : node[t] = n

\* What a thread in popFree or pushFree knows of its local variables.
Locals ==
  \A t \in Threads :
    /\ pc[t] \in {"next", "pop"} => t \in Acquirers /\ old[t] \in Free
    /\ pc[t] = "pop" => new[t] = next[old[t]]
    /\ pc[t] = "push" => next[node[t]] = old[t]

\* The destructor runs alone.
Destruction ==
  /\ alive => \A t \in Threads : pc[t] # "destroy"
  /\ ~alive => \A t \in Threads :
       /\ pc[t] \in {"idle", "destroy"}
       /\ pc[t] = "destroy" => old[t] = Top(stack)
  /\ \A t, u \in Threads : pc[t] = "destroy" /\ pc[u] = "destroy" => t = u

IInv ==
  /\ TypeOK
  /\ ListIsStack
  /\ OneOwner
  /\ Locals
  /\ Destruction

LEMMA InitInv ==
  Init => IInv
<1> SUFFICES ASSUME Init
             PROVE  IInv
  OBVIOUS
<1> USE SizesAssumption, NullAssumption
<1>1. PICK s \in [1 .. InitialSize -> Nodes] :
        /\ \A i, j \in 1 .. InitialSize : s[i] = s[j] => i = j
        /\ stack = s
        /\ heap = {s[i] : i \in 1 .. InitialSize}
        /\ next = [n \in Nodes |->
                    IF \E i \in 2 .. InitialSize : s[i] = n
                      THEN s[(CHOOSE i \in 2 .. InitialSize : s[i] = n) - 1]
                      ELSE Null]
        /\ freeList = IF InitialSize = 0 THEN Null ELSE s[InitialSize]
  BY DEF Init
<1>2. /\ allocated = InitialSize /\ alive = TRUE /\ out = {}
      /\ pc = [t \in Threads |-> "idle"] /\ node = [t \in Threads |-> Null]
      /\ old = [t \in Threads |-> Null] /\ new = [t \in Threads |-> Null]
  BY DEF Init
<1>3. stack \in Seq(Nodes) /\ Len(stack) = InitialSize
  BY <1>1
<1>4. \A i \in 1 .. InitialSize : next[stack[i]] = Below(stack, i)
  <2> SUFFICES ASSUME NEW i \in 1 .. InitialSize
               PROVE  next[s[i]] = Below(s, i)
    BY <1>1
  <2>1. s[i] \in Nodes
    BY <1>1
  <2>2. CASE i = 1
    <3>1. ~ \E j \in 2 .. InitialSize : s[j] = s[i]
      BY <1>1, <2>2
    <3> QED
      BY <1>1, <2>1, <2>2, <3>1 DEF Below
  <2>3. CASE i # 1
    <3>1. i \in 2 .. InitialSize
      BY <2>3
    <3>2. (CHOOSE j \in 2 .. InitialSize : s[j] = s[i]) = i
      BY <1>1, <3>1
    <3>3. \E j \in 2 .. InitialSize : s[j] = s[i]
      BY <3>1
    <3>4. next[s[i]] = s[(CHOOSE j \in 2 .. InitialSize : s[j] = s[i]) - 1]
      BY <1>1, <2>1, <3>3
    <3> QED
      BY <2>3, <3>2, <3>4 DEF Below
  <2> QED
    BY <2>2, <2>3
<1>5. next \in [Nodes -> Pointers]
  <2> SUFFICES ASSUME NEW n \in Nodes
               PROVE  next[n] \in Pointers
    BY <1>1
  <2>1. CASE \E i \in 2 .. InitialSize : s[i] = n
    <3>1. (CHOOSE i \in 2 .. InitialSize : s[i] = n) \in 2 .. InitialSize
      BY <2>1
    <3>2. (CHOOSE i \in 2 .. InitialSize : s[i] = n) - 1 \in 1 .. InitialSize
      BY <3>1
    <3>3. next[n] = s[(CHOOSE i \in 2 .. InitialSize : s[i] = n) - 1]
      BY <1>1, <2>1
    <3> QED
      BY <1>1, <3>2, <3>3 DEF Pointers
  <2>2. CASE ~ \E i \in 2 .. InitialSize : s[i] = n
    BY <1>1, <2>2 DEF Pointers
  <2> QED
    BY <2>1, <2>2
<1>6. TypeOK
  <2>1. freeList \in Pointers /\ heap \subseteq Nodes
    BY <1>1 DEF Pointers
  <2> QED
    BY <1>2, <1>3, <1>5, <2>1 DEF TypeOK, Pointers, PcValues
<1>7. ListIsStack
  BY <1>1, <1>3, <1>4 DEF ListIsStack, Top
<1>8. OneOwner
  BY <1>1, <1>2, <1>3 DEF OneOwner, Holding, Free
<1>9. Locals /\ Destruction
  BY <1>2 DEF Locals, Destruction
<1> QED
  BY <1>6, <1>7, <1>8, <1>9 DEF IInv

\* A step of one call that changes only the pc and the locals oldHead and
\* newHead of the thread.
LEMMA LocalStep ==
  ASSUME IInv, TypeOK', NEW t \in Threads, alive,
         UNCHANGED <<heap, next, freeList, alive, node, out, stack>>,
         pc[t] \notin Holding \cup {"destroy"} <=> pc'[t] \notin Holding \cup {"destroy"},
         pc[t] # "destroy", pc'[t] # "destroy",
         \A u \in Threads \ {t} :
           pc'[u] = pc[u] /\ old'[u] = old[u] /\ new'[u] = new[u],
         pc'[t] \in {"next", "pop"} => t \in Acquirers /\ old'[t] \in Free,
         pc'[t] = "pop" => new'[t] = next[old'[t]],
         pc'[t] # "push"
  PROVE  IInv'
<1>1. Free' = Free
  BY DEF Free
<1>2. ListIsStack'
  BY DEF IInv, ListIsStack, Top, Below
<1>3. \A u \in Threads : pc'[u] \in Holding <=> pc[u] \in Holding
  BY DEF Holding
<1>4. OneOwner'
  BY <1>1, <1>3 DEF IInv, OneOwner
<1>5. Locals'
  BY <1>1 DEF IInv, Locals
<1>6. Destruction'
  BY DEF IInv, Destruction
<1> QED
  BY <1>2, <1>4, <1>5, <1>6 DEF IInv

\* A thread in the middle of a call keeps the pool alive.
LEMMA BusyAlive ==
  ASSUME IInv, NEW t \in Threads, pc[t] \notin {"idle", "destroy"}
  PROVE  alive
  BY DEF IInv, Destruction, TypeOK

\* While the pool is alive, the head of the list is the top of the stack.
LEMMA HeadIsFree ==
  ASSUME IInv, alive, freeList # Null
  PROVE  /\ Len(stack) > 0 /\ Len(stack) \in Nat
         /\ freeList = stack[Len(stack)]
         /\ freeList \in Free
<1>1. Len(stack) \in Nat
  BY DEF IInv, TypeOK
<1>2. freeList = Top(stack)
  BY DEF IInv, ListIsStack
<1>3. Len(stack) > 0
  BY <1>1, <1>2 DEF Top
<1> QED
  BY <1>1, <1>2, <1>3 DEF Top, Free

\* The node that popFree works on is not Null.
LEMMA FreeIsNode ==
  ASSUME IInv, NEW n \in Free
  PROVE  n \in Nodes /\ n # Null /\ n \in heap \ out
  BY NullAssumption DEF IInv, TypeOK, OneOwner, Free

\* The steps of acquire up to its compare_exchange.
LEMMA AcquireLocalInv ==
  ASSUME IInv, NEW t \in Acquirers,
         AcquireLoad(t) \/ AcquireNext(t) \/ AcquirePopFails(t)
  PROVE  IInv'
<1> USE RolesAssumption, NullAssumption
<1>0. TypeOK /\ t \in Threads
  BY DEF IInv
<1>1. UNCHANGED <<heap, next, freeList, allocated, alive, node, out, stack>>
  BY DEF AcquireLoad, AcquireNext, AcquirePopFails, Examine
<1>2. alive
  BY BusyAlive, <1>0 DEF AcquireLoad, AcquireNext, AcquirePopFails
<1>3. pc[t] \in {"idle", "next", "pop"}
  BY DEF AcquireLoad, AcquireNext, AcquirePopFails
<1>4. CASE AcquireNext(t)
  <2>1. old[t] \in Free /\ old[t] \in heap /\ old[t] \in Nodes
    BY <1>0, <1>4, FreeIsNode DEF AcquireNext, IInv, Locals
  <2>2. /\ new' = [new EXCEPT ![t] = next[old[t]]]
        /\ pc' = [pc EXCEPT ![t] = "pop"] /\ old' = old
    BY <1>4, <2>1 DEF AcquireNext, Goto, Set
  <2>3. TypeOK'
    BY <1>0, <1>1, <2>1, <2>2 DEF TypeOK, PcValues
  <2>4. /\ pc'[t] = "pop" /\ new'[t] = next[old'[t]] /\ old'[t] \in Free
        /\ \A u \in Threads \ {t} :
             pc'[u] = pc[u] /\ old'[u] = old[u] /\ new'[u] = new[u]
    BY <1>0, <2>1, <2>2 DEF TypeOK
  <2> QED
    BY <1>0, <1>1, <1>2, <1>3, <2>3, <2>4, LocalStep DEF Holding
<1>5. CASE AcquireLoad(t) \/ AcquirePopFails(t)
  <2>1. /\ old' = [old EXCEPT ![t] = freeList]
        /\ pc' = [pc EXCEPT ![t] = IF freeList = Null THEN "new" ELSE "next"]
        /\ new' = new \/ new' = [new EXCEPT ![t] = Null]
    BY <1>5 DEF AcquireLoad, AcquirePopFails, Examine, Goto, Set
  <2>2. TypeOK'
    BY <1>0, <1>1, <2>1 DEF TypeOK, PcValues, Pointers
  <2>3. /\ pc'[t] \in {"new", "next"}
        /\ pc'[t] = "next" => freeList # Null /\ old'[t] = freeList
        /\ \A u \in Threads \ {t} :
             pc'[u] = pc[u] /\ old'[u] = old[u] /\ new'[u] = new[u]
    BY <1>0, <2>1 DEF TypeOK
  <2>4. pc'[t] = "next" => old'[t] \in Free
    BY <1>2, <2>3, HeadIsFree
  <2> QED
    BY <1>0, <1>1, <1>2, <1>3, <2>2, <2>3, <2>4, LocalStep DEF Holding
<1> QED
  BY <1>4, <1>5

\* Removing the top of the stack.
LEMMA PopFree ==
  ASSUME IInv, Len(stack) > 0, stack' = Pop(stack)
  PROVE  /\ stack' \in Seq(Nodes) /\ Len(stack') = Len(stack) - 1
         /\ \A i \in 1 .. Len(stack') : stack'[i] = stack[i]
         /\ Free' = Free \ {stack[Len(stack)]}
         /\ next[stack[Len(stack)]] = Top(stack')
<1>1. stack \in Seq(Nodes) /\ Len(stack) \in Nat
  BY DEF IInv, TypeOK
<1>2. /\ stack' \in Seq(Nodes) /\ Len(stack') = Len(stack) - 1
      /\ \A i \in 1 .. Len(stack') : stack'[i] = stack[i]
  BY <1>1, PopLemma
<1>3. \A i \in 1 .. Len(stack') : i # Len(stack) /\ i \in 1 .. Len(stack)
  BY <1>1, <1>2
<1>4. \A i \in 1 .. Len(stack') : stack'[i] # stack[Len(stack)]
  BY <1>1, <1>2, <1>3 DEF IInv, ListIsStack
<1>5. \A i \in 1 .. Len(stack) : i # Len(stack) => i \in 1 .. Len(stack')
  BY <1>1, <1>2
<1>6. Free' = Free \ {stack[Len(stack)]}
  <2>1. \A n \in Free' : n \in Free \ {stack[Len(stack)]}
    BY <1>2, <1>3, <1>4 DEF Free
  <2>2. \A n \in Free \ {stack[Len(stack)]} : n \in Free'
    <3> SUFFICES ASSUME NEW n \in Free, n # stack[Len(stack)] PROVE n \in Free'
      OBVIOUS
    <3>1. PICK i \in 1 .. Len(stack) : n = stack[i]
      BY DEF Free
    <3>2. i \in 1 .. Len(stack') /\ stack'[i] = n
      BY <1>2, <1>5, <3>1
    <3> QED
      BY <3>2 DEF Free
  <2> QED
    BY <2>1, <2>2
<1>7. next[stack[Len(stack)]] = Below(stack, Len(stack))
  BY <1>1 DEF IInv, ListIsStack
<1>8. Below(stack, Len(stack)) = Top(stack')
  BY <1>1, <1>2 DEF Below, Top
<1> QED
  BY <1>2, <1>6, <1>7, <1>8

\* The links of a stack that lost its top.
LEMMA PopLinks ==
  ASSUME IInv, Len(stack) > 0, stack' = Pop(stack), next' = next
  PROVE  /\ \A i \in 1 .. Len(stack') : next'[stack'[i]] = Below(stack', i)
         /\ \A i, j \in 1 .. Len(stack') : stack'[i] = stack'[j] => i = j
<1>1. /\ Len(stack) \in Nat /\ Len(stack') = Len(stack) - 1
      /\ \A i \in 1 .. Len(stack') : stack'[i] = stack[i]
  BY PopFree DEF IInv, TypeOK
<1>2. \A i \in 1 .. Len(stack') : i \in 1 .. Len(stack)
  BY <1>1
<1>3. ASSUME NEW i \in 1 .. Len(stack')
      PROVE  next'[stack'[i]] = Below(stack', i)
  <2>1. next[stack[i]] = Below(stack, i)
    BY <1>2 DEF IInv, ListIsStack
  <2>2. i = 1 \/ i - 1 \in 1 .. Len(stack')
    BY <1>1
  <2> QED
    BY <1>1, <2>1, <2>2 DEF Below
<1>4. \A i, j \in 1 .. Len(stack') : stack'[i] = stack'[j] => i = j
  BY <1>1, <1>2 DEF IInv, ListIsStack
<1> QED
  BY <1>3, <1>4

\* The sole acquirer's compare_exchange succeeds on the list it has read.
LEMMA AcquirePopInv ==
  ASSUME SoleAcquirer, IInv, NEW t \in Acquirers, AcquirePop(t)
  PROVE  IInv'
<1> USE RolesAssumption, NullAssumption
<1>0. TypeOK /\ t \in Threads
  BY DEF IInv
<1>1. /\ pc[t] = "pop" /\ pc' = [pc EXCEPT ![t] = "idle"]
      /\ freeList = old[t] /\ freeList' = new[t]
      /\ stack' = Pop(stack) /\ out' = out \cup {old[t]}
      /\ old' = [old EXCEPT ![t] = Null] /\ new' = [new EXCEPT ![t] = Null]
      /\ UNCHANGED <<heap, next, allocated, alive, node>>
  BY DEF AcquirePop, Goto, Set
<1>2. old[t] \in Free /\ new[t] = next[old[t]]
  BY <1>0, <1>1 DEF IInv, Locals
<1>3. old[t] \in Nodes /\ old[t] # Null /\ old[t] \in heap \ out
  BY <1>2, FreeIsNode
<1>4. alive /\ Len(stack) > 0 /\ old[t] = stack[Len(stack)]
  BY <1>0, <1>1, <1>3, BusyAlive, HeadIsFree
<1>5. Free' = Free \ {old[t]} /\ freeList' = Top(stack') /\ stack' \in Seq(Nodes)
  BY <1>1, <1>2, <1>4, PopFree
<1>6. TypeOK'
  <2>1. new[t] \in Pointers /\ old[t] \in Nodes
    BY <1>0, <1>3 DEF TypeOK
  <2> QED
    BY <1>0, <1>1, <1>5, <2>1 DEF TypeOK, PcValues, Pointers
<1>7. ListIsStack'
  BY <1>1, <1>4, <1>5, PopLinks DEF ListIsStack
<1>8. \A u \in Threads : node[u] # old[t]
  BY <1>2, <1>3 DEF IInv, OneOwner
<1>9. \A u \in Threads : (pc'[u] \in Holding <=> pc[u] \in Holding)
  BY <1>0, <1>1 DEF Holding, TypeOK
<1>10. OneOwner'
  <2>1. \A i \in 1 .. Len(stack') : stack'[i] \in heap' \ out'
    <3>1. \A n \in Free' : n \in heap /\ n \notin out /\ n # old[t]
      BY <1>5, FreeIsNode
    <3> QED
      BY <1>1, <3>1 DEF Free
  <2>2. out' \subseteq heap'
    BY <1>1, <1>3 DEF IInv, OneOwner
  <2>3. \A u \in Threads :
         /\ pc'[u] \in Holding => node'[u] \in heap' \ (out' \cup Free')
         /\ pc'[u] \notin Holding => node'[u] = Null
    BY <1>1, <1>5, <1>8, <1>9 DEF IInv, OneOwner
  <2>4. \A n \in heap' : n \in Free' \/ n \in out' \/ \E u \in Threads : node'[u] = n
    BY <1>1, <1>5 DEF IInv, OneOwner
  <2> QED
    BY <1>1, <2>1, <2>2, <2>3, <2>4 DEF IInv, OneOwner
<1>11. Locals'
  <2> SUFFICES ASSUME NEW u \in Threads
               PROVE  Locals!(u)'
    BY DEF Locals
  <2>1. CASE u = t
    BY <1>0, <1>1, <2>1 DEF TypeOK
  <2>2. CASE u # t
    <3>1. pc'[u] = pc[u] /\ pc[u] \notin {"next", "pop"}
      BY <1>0, <1>1, <2>2 DEF TypeOK, IInv, Locals, SoleAcquirer
    <3> QED
      BY <1>0, <1>1, <2>2, <3>1 DEF IInv, Locals, TypeOK
  <2> QED
    BY <2>1, <2>2
<1>12. Destruction'
  BY <1>0, <1>1, <1>4 DEF IInv, Destruction, TypeOK
<1> QED
  BY <1>6, <1>7, <1>10, <1>11, <1>12 DEF IInv

\* A new node belongs to the thread that created it.
LEMMA AcquireNewInv ==
  ASSUME IInv, NEW t \in Threads, AcquireNew(t)
  PROVE  IInv'
<1> USE NullAssumption
<1>0. TypeOK /\ alive
  BY BusyAlive DEF IInv, AcquireNew
<1>1. PICK n \in Nodes \ heap :
        /\ heap' = heap \cup {n}
        /\ next' = [next EXCEPT ![n] = Null]
        /\ node' = [node EXCEPT ![t] = n]
        /\ pc[t] = "new" /\ pc' = [pc EXCEPT ![t] = "count"]
        /\ UNCHANGED <<freeList, allocated, alive, old, new, out, stack>>
  BY DEF AcquireNew, Goto, Set
<1>2. Free' = Free
  BY <1>1 DEF Free
<1>3. \A m \in Free : m \in heap /\ m # n
  BY <1>1, FreeIsNode
<1>4. \A i \in 1 .. Len(stack) : stack[i] \in Free /\ next'[stack[i]] = next[stack[i]]
  BY <1>0, <1>1, <1>3 DEF Free, TypeOK
<1>5. \A u \in Threads : node[u] # n
  BY <1>1 DEF IInv, OneOwner
<1>6. \A u \in Threads : u # t => pc'[u] = pc[u] /\ node'[u] = node[u]
  BY <1>0, <1>1 DEF TypeOK
<1>7. pc'[t] = "count" /\ node'[t] = n
  BY <1>0, <1>1 DEF TypeOK
<1>8. TypeOK'
  BY <1>0, <1>1 DEF TypeOK, PcValues, Pointers
<1>9. ListIsStack'
  BY <1>1, <1>4 DEF IInv, ListIsStack, Top, Below
<1>10. OneOwner'
  <2>1. n \notin Free /\ n \notin out
    BY <1>1, <1>3 DEF IInv, OneOwner
  <2>2. \A u \in Threads :
         /\ pc'[u] \in Holding => node'[u] \in heap' \ (out' \cup Free')
         /\ pc'[u] \notin Holding => node'[u] = Null
    BY <1>1, <1>2, <1>6, <1>7, <2>1 DEF IInv, OneOwner, Holding
  <2>3. \A u, w \in Threads : u # w /\ node'[u] = node'[w] => node'[u] = Null
    BY <1>5, <1>6, <1>7 DEF IInv, OneOwner
  <2>4. \A m \in heap' : m \in Free' \/ m \in out' \/ \E u \in Threads : node'[u] = m
    <3>1. node[t] = Null
      BY <1>1 DEF IInv, OneOwner, Holding
    <3>2. \A m \in heap : m # Null
      BY <1>0 DEF TypeOK
    <3>3. \A m \in heap : m \in Free \/ m \in out \/ \E u \in Threads : u # t /\ node[u] = m
      BY <3>1, <3>2 DEF IInv, OneOwner
    <3> QED
      BY <1>1, <1>2, <1>6, <1>7, <3>3
  <2>5. out' \subseteq heap' /\ \A i \in 1 .. Len(stack') : stack'[i] \in heap' \ out'
    BY <1>1 DEF IInv, OneOwner
  <2> QED
    BY <2>2, <2>3, <2>4, <2>5 DEF OneOwner
<1>11. Locals'
  <2>1. \A u \in Threads : pc[u] = "push" => next'[node[u]] = next[node[u]]
    BY <1>0, <1>1, <1>5 DEF TypeOK, IInv, OneOwner, Holding
  <2>2. \A m \in Free : next'[m] = next[m]
    BY <1>0, <1>1, <1>3 DEF TypeOK
  <2> QED
    BY <1>1, <1>2, <1>6, <1>7, <2>1, <2>2 DEF IInv, Locals
<1>12. Destruction'
  BY <1>0, <1>1, <1>6, <1>7 DEF IInv, Destruction
<1> QED
  BY <1>8, <1>9, <1>10, <1>11, <1>12 DEF IInv

\* Steps that leave the list and the links alone and change the owner of a
\* node between the callers and thread t.
LEMMA OwnerStep ==
  ASSUME IInv, TypeOK', NEW t \in Threads, alive, OneOwner',
         UNCHANGED <<next, freeList, alive, old, new, stack>>,
         \A u \in Threads \ {t} : pc'[u] = pc[u] /\ node'[u] = node[u],
         pc'[t] \notin {"next", "pop", "push", "destroy"}
  PROVE  IInv'
<1>1. Free' = Free
  BY DEF Free
<1>2. ListIsStack'
  BY DEF IInv, ListIsStack, Top, Below
<1>3. Locals'
  BY <1>1 DEF IInv, Locals
<1>4. Destruction'
  BY DEF IInv, Destruction
<1> QED
  BY <1>2, <1>3, <1>4 DEF IInv

LEMMA AcquireCountInv ==
  ASSUME IInv, NEW t \in Threads, AcquireCount(t)
  PROVE  IInv'
<1>0. TypeOK /\ alive
  BY BusyAlive DEF IInv, AcquireCount
<1>1. /\ pc[t] = "count" /\ pc' = [pc EXCEPT ![t] = "idle"]
      /\ allocated' = allocated + 1
      /\ out' = out \cup {node[t]} /\ node' = [node EXCEPT ![t] = Null]
      /\ UNCHANGED <<heap, next, freeList, alive, old, new, stack>>
  BY DEF AcquireCount, Goto, Set
<1>2. node[t] \in heap /\ node[t] \notin Free /\ node[t] \in Nodes
  BY <1>0, <1>1 DEF IInv, OneOwner, Holding, TypeOK
<1>3. Free' = Free
  BY <1>1 DEF Free
<1>4. /\ pc'[t] = "idle" /\ node'[t] = Null
      /\ \A u \in Threads \ {t} : pc'[u] = pc[u] /\ node'[u] = node[u]
  BY <1>0, <1>1 DEF TypeOK
<1>5. TypeOK'
  BY <1>0, <1>1, <1>2 DEF TypeOK, PcValues, Pointers
<1>6. OneOwner'
  <2>1. \A i \in 1 .. Len(stack) : stack[i] # node[t]
    BY <1>2 DEF Free
  <2>2. \A u \in Threads \ {t} : pc[u] \in Holding => node[u] # node[t]
    BY <1>2, NullAssumption DEF IInv, OneOwner
  <2> QED
    BY <1>1, <1>2, <1>3, <1>4, <2>1, <2>2 DEF IInv, OneOwner, Holding
<1> QED
  BY <1>0, <1>1, <1>4, <1>5, <1>6, OwnerStep

LEMMA ReleaseCheckInv ==
  ASSUME IInv, NEW t \in Threads, ReleaseCheck(t)
  PROVE  IInv'
<1>0. TypeOK
  BY DEF IInv
<1>1. PICK n \in out :
        /\ out' = out \ {n} /\ node' = [node EXCEPT ![t] = n]
        /\ pc[t] = "idle" /\ alive
        /\ pc' = [pc EXCEPT ![t] =
                    IF MaxSize > 0 /\ allocated > MaxSize THEN "delete" ELSE "load"]
        /\ UNCHANGED <<heap, next, freeList, allocated, alive, old, new, stack>>
  BY DEF ReleaseCheck, Goto, Set
<1>2. n \in heap /\ n \in Nodes /\ n \notin Free
  BY <1>0 DEF IInv, OneOwner, TypeOK, Free
<1>3. Free' = Free
  BY <1>1 DEF Free
<1>4. /\ pc'[t] \in {"delete", "load"} /\ node'[t] = n
      /\ \A u \in Threads \ {t} : pc'[u] = pc[u] /\ node'[u] = node[u]
  BY <1>0, <1>1 DEF TypeOK
<1>5. TypeOK'
  BY <1>0, <1>1, <1>2 DEF TypeOK, PcValues, Pointers
<1>6. \A u \in Threads : node[u] # n
  BY <1>1, <1>2, NullAssumption DEF IInv, OneOwner
<1>7. OneOwner'
  <2>1. node[t] = Null
    BY <1>1 DEF IInv, OneOwner, Holding
  <2>2. \A m \in heap : m \in Free \/ m \in out \/ \E u \in Threads : u # t /\ node[u] = m
    BY <1>0, <2>1, NullAssumption DEF IInv, OneOwner, TypeOK
  <2>3. \A m \in heap' : m \in Free' \/ m \in out' \/ \E u \in Threads : node'[u] = m
    BY <1>1, <1>3, <1>4, <2>2
  <2>4. \A u, w \in Threads : u # w /\ node'[u] = node'[w] => node'[u] = Null
    BY <1>4, <1>6 DEF IInv, OneOwner
  <2>5. \A u \in Threads :
         /\ pc'[u] \in Holding => node'[u] \in heap' \ (out' \cup Free')
         /\ pc'[u] \notin Holding => node'[u] = Null
    BY <1>1, <1>2, <1>3, <1>4 DEF IInv, OneOwner, Holding
  <2>6. out' \subseteq heap' /\ \A i \in 1 .. Len(stack') : stack'[i] \in heap' \ out'
    BY <1>1 DEF IInv, OneOwner
  <2> QED
    BY <2>3, <2>4, <2>5, <2>6 DEF OneOwner
<1> QED
  BY <1>1, <1>4, <1>5, <1>7, OwnerStep

LEMMA ReleaseDeleteInv ==
  ASSUME IInv, NEW t \in Threads, ReleaseDelete(t)
  PROVE  IInv'
<1>0. TypeOK /\ alive
  BY BusyAlive DEF IInv, ReleaseDelete
<1>1. /\ pc[t] = "delete" /\ pc' = [pc EXCEPT ![t] = "uncount"]
      /\ heap' = heap \ {node[t]} /\ node' = [node EXCEPT ![t] = Null]
      /\ UNCHANGED <<next, freeList, allocated, alive, old, new, out, stack>>
  BY DEF ReleaseDelete, Goto, Set
<1>2. node[t] \in heap /\ node[t] \notin out /\ node[t] \notin Free /\ node[t] \in Nodes
  BY <1>0, <1>1 DEF IInv, OneOwner, Holding, TypeOK
<1>3. Free' = Free
  BY <1>1 DEF Free
<1>4. /\ pc'[t] = "uncount" /\ node'[t] = Null
      /\ \A u \in Threads \ {t} : pc'[u] = pc[u] /\ node'[u] = node[u]
  BY <1>0, <1>1 DEF TypeOK
<1>5. TypeOK'
  BY <1>0, <1>1 DEF TypeOK, PcValues, Pointers
<1>6. OneOwner'
  <2>1. \A i \in 1 .. Len(stack) : stack[i] # node[t]
    BY <1>2 DEF Free
  <2>2. \A u \in Threads \ {t} : node[u] # node[t]
    BY <1>2, NullAssumption DEF IInv, OneOwner
  <2> QED
    BY <1>1, <1>2, <1>3, <1>4, <2>1, <2>2 DEF IInv, OneOwner, Holding
<1> QED
  BY <1>0, <1>1, <1>4, <1>5, <1>6, OwnerStep

LEMMA ReleaseUncountInv ==
  ASSUME IInv, NEW t \in Threads, ReleaseUncount(t)
  PROVE  IInv'
<1>0. TypeOK /\ alive
  BY BusyAlive DEF IInv, ReleaseUncount
<1>1. /\ pc[t] = "uncount" /\ pc' = [pc EXCEPT ![t] = "idle"]
      /\ allocated' = allocated - 1
      /\ UNCHANGED <<heap, next, freeList, alive, node, old, new, out, stack>>
  BY DEF ReleaseUncount, Goto
<1>2. pc'[t] = "idle" /\ \A u \in Threads \ {t} : pc'[u] = pc[u]
  BY <1>0, <1>1 DEF TypeOK
<1>3. TypeOK'
  BY <1>0, <1>1 DEF TypeOK, PcValues
<1> QED
  BY <1>0, <1>1, <1>2, <1>3, LocalStep DEF Holding

\* pushFree reads the list head.
LEMMA PushLoadInv ==
  ASSUME IInv, NEW t \in Threads, PushLoad(t) \/ PushFails(t)
  PROVE  IInv'
<1>0. TypeOK /\ alive
  BY BusyAlive DEF IInv, PushLoad, PushFails
<1>1. /\ pc[t] \in {"load", "push"} /\ pc' = [pc EXCEPT ![t] = "link"]
      /\ old' = [old EXCEPT ![t] = freeList]
      /\ UNCHANGED <<heap, next, freeList, allocated, alive, node, new, out, stack>>
  BY DEF PushLoad, PushFails, Goto, Set
<1>2. /\ pc'[t] = "link"
      /\ \A u \in Threads \ {t} : pc'[u] = pc[u] /\ old'[u] = old[u] /\ new'[u] = new[u]
  BY <1>0, <1>1 DEF TypeOK
<1>3. TypeOK'
  BY <1>0, <1>1 DEF TypeOK, PcValues
<1> QED
  BY <1>0, <1>1, <1>2, <1>3, LocalStep DEF Holding

\* pushFree links a node that nobody else can reach.
LEMMA PushLinkInv ==
  ASSUME IInv, NEW t \in Threads, PushLink(t)
  PROVE  IInv'
<1>0. TypeOK /\ alive
  BY BusyAlive DEF IInv, PushLink
<1>1. /\ pc[t] = "link" /\ pc' = [pc EXCEPT ![t] = "push"]
      /\ next' = [next EXCEPT ![node[t]] = old[t]]
      /\ UNCHANGED <<heap, freeList, allocated, alive, node, old, new, out, stack>>
  BY DEF PushLink, Goto
<1>2. node[t] \in heap /\ node[t] \notin Free /\ node[t] \in Nodes /\ node[t] # Null
  BY <1>0, <1>1, NullAssumption DEF IInv, OneOwner, Holding, TypeOK
<1>3. Free' = Free
  BY <1>1 DEF Free
<1>4. pc'[t] = "push" /\ \A u \in Threads \ {t} : pc'[u] = pc[u]
  BY <1>0, <1>1 DEF TypeOK
<1>5. \A m \in Free : next'[m] = next[m]
  BY <1>0, <1>1, <1>2 DEF TypeOK
<1>6. TypeOK'
  BY <1>0, <1>1, <1>2 DEF TypeOK, PcValues
<1>7. ListIsStack'
  <2>1. \A i \in 1 .. Len(stack) : stack[i] \in Free
    BY DEF Free
  <2> QED
    BY <1>1, <1>5, <2>1 DEF IInv, ListIsStack, Top, Below
<1>8. \A u \in Threads : pc'[u] \in Holding <=> pc[u] \in Holding
  BY <1>1, <1>4 DEF Holding
<1>9. OneOwner'
  BY <1>1, <1>3, <1>8 DEF IInv, OneOwner
<1>10. Locals'
  <2>1. next'[node[t]] = old[t]
    BY <1>0, <1>1, <1>2 DEF TypeOK
  <2>2. \A u \in Threads \ {t} : pc[u] = "push" => next'[node[u]] = next[node[u]]
    BY <1>0, <1>1, <1>2 DEF TypeOK, IInv, OneOwner, Holding
  <2> QED
    BY <1>1, <1>3, <1>4, <1>5, <2>1, <2>2 DEF IInv, Locals
<1>11. Destruction'
  BY <1>0, <1>1, <1>4 DEF IInv, Destruction
<1> QED
  BY <1>6, <1>7, <1>9, <1>10, <1>11 DEF IInv

\* pushFree's compare_exchange puts the node on top of the list.
LEMMA PushInv ==
  ASSUME IInv, NEW t \in Threads, Push(t)
  PROVE  IInv'
<1> DEFINE k == Len(stack)
<1>0. TypeOK /\ alive /\ k \in Nat
  BY BusyAlive DEF IInv, Push, TypeOK
<1>1. /\ pc[t] = "push" /\ pc' = [pc EXCEPT ![t] = "idle"]
      /\ freeList = old[t] /\ freeList' = node[t]
      /\ stack' = Append(stack, node[t])
      /\ old' = [old EXCEPT ![t] = Null] /\ node' = [node EXCEPT ![t] = Null]
      /\ UNCHANGED <<heap, next, allocated, alive, new, out>>
  BY DEF Push, Goto, Set
<1>2. /\ node[t] \in heap /\ node[t] \notin Free /\ node[t] \in Nodes
      /\ node[t] # Null /\ node[t] \notin out /\ next[node[t]] = freeList
  BY <1>0, <1>1, NullAssumption DEF IInv, OneOwner, Locals, Holding, TypeOK
<1>3. /\ stack' \in Seq(Nodes) /\ Len(stack') = k + 1
      /\ \A i \in 1 .. k : stack'[i] = stack[i]
      /\ stack'[k + 1] = node[t]
  BY <1>0, <1>1, <1>2, AppendLemma DEF TypeOK
<1>4. Free' = Free \cup {node[t]}
  <2>1. \A i \in 1 .. k + 1 : i \in 1 .. k \/ i = k + 1
    BY <1>0
  <2>2. k + 1 \in 1 .. k + 1 /\ \A i \in 1 .. k : i \in 1 .. k + 1
    BY <1>0
  <2> QED
    BY <1>3, <2>1, <2>2 DEF Free
<1>5. /\ pc'[t] = "idle" /\ node'[t] = Null
      /\ \A u \in Threads \ {t} :
           pc'[u] = pc[u] /\ node'[u] = node[u] /\ old'[u] = old[u]
  BY <1>0, <1>1 DEF TypeOK
<1>6. TypeOK'
  BY <1>0, <1>1, <1>2, <1>3 DEF TypeOK, PcValues, Pointers
<1>7. ListIsStack'
  <2>1. freeList' = Top(stack')
    BY <1>0, <1>1, <1>3 DEF Top
  <2>2. ASSUME NEW i \in 1 .. k + 1
        PROVE  next'[stack'[i]] = Below(stack', i)
    <3>1. CASE i = k + 1
      <4>1. freeList = Top(stack)
        BY <1>0 DEF IInv, ListIsStack
      <4>2. Below(stack', k + 1) = Top(stack)
        BY <1>0, <1>3 DEF Below, Top
      <4> QED
        BY <1>1, <1>2, <1>3, <3>1, <4>1, <4>2
    <3>2. CASE i \in 1 .. k
      <4>1. next[stack[i]] = Below(stack, i)
        BY <3>2 DEF IInv, ListIsStack
      <4>2. i = 1 \/ i - 1 \in 1 .. k
        BY <1>0, <3>2
      <4> QED
        BY <1>1, <1>3, <3>2, <4>1, <4>2 DEF Below
    <3> QED
      BY <1>0, <3>1, <3>2
  <2>3. ASSUME NEW i \in 1 .. k + 1, NEW j \in 1 .. k + 1, stack'[i] = stack'[j]
        PROVE  i = j
    <3>1. \A h \in 1 .. k : stack'[h] # node[t]
      BY <1>2, <1>3 DEF Free
    <3>2. (i \in 1 .. k \/ i = k + 1) /\ (j \in 1 .. k \/ j = k + 1)
      BY <1>0
    <3>3. CASE i \in 1 .. k /\ j \in 1 .. k
      BY <1>3, <2>3, <3>3 DEF IInv, ListIsStack
    <3> QED
      BY <1>3, <2>3, <3>1, <3>2, <3>3
  <2> QED
    BY <1>3, <2>1, <2>2, <2>3 DEF ListIsStack
<1>8. OneOwner'
  <2>1. \A i \in 1 .. Len(stack') : stack'[i] \in heap' \ out'
    <3>1. \A m \in Free' : m \in heap /\ m \notin out
      BY <1>2, <1>4, FreeIsNode
    <3> QED
      BY <1>1, <3>1 DEF Free
  <2>2. \A u \in Threads \ {t} : pc[u] \in Holding => node[u] # node[t]
    BY <1>2 DEF IInv, OneOwner
  <2>3. \A u \in Threads :
         /\ pc'[u] \in Holding => node'[u] \in heap' \ (out' \cup Free')
         /\ pc'[u] \notin Holding => node'[u] = Null
    BY <1>1, <1>4, <1>5, <2>2 DEF IInv, OneOwner, Holding
  <2>4. \A m \in heap' : m \in Free' \/ m \in out' \/ \E u \in Threads : node'[u] = m
    BY <1>1, <1>4, <1>5 DEF IInv, OneOwner
  <2>5. \A u, w \in Threads : u # w /\ node'[u] = node'[w] => node'[u] = Null
    BY <1>5 DEF IInv, OneOwner
  <2>6. out' \subseteq heap'
    BY <1>1 DEF IInv, OneOwner
  <2> QED
    BY <2>1, <2>3, <2>4, <2>5, <2>6 DEF OneOwner
<1>9. Locals'
  <2> SUFFICES ASSUME NEW u \in Threads
               PROVE  /\ pc'[u] \in {"next", "pop"} => u \in Acquirers /\ old'[u] \in Free'
                      /\ pc'[u] = "pop" => new'[u] = next'[old'[u]]
                      /\ pc'[u] = "push" => next'[node'[u]] = old'[u]
    BY DEF Locals
  <2>1. CASE u = t
    BY <1>5, <2>1
  <2>2. CASE u # t
    BY <1>1, <1>4, <1>5, <2>2 DEF IInv, Locals
  <2> QED
    BY <2>1, <2>2
<1>10. Destruction'
  BY <1>0, <1>1, <1>5 DEF IInv, Destruction
<1> QED
  BY <1>6, <1>7, <1>8, <1>9, <1>10 DEF IInv

LEMMA DestroyBeginInv ==
  ASSUME IInv, NEW t \in Threads, DestroyBegin(t)
  PROVE  IInv'
<1>0. TypeOK
  BY DEF IInv
<1>1. /\ alive /\ (\A u \in Threads : pc[u] = "idle") /\ alive' = FALSE
      /\ old' = [old EXCEPT ![t] = freeList] /\ pc' = [pc EXCEPT ![t] = "destroy"]
      /\ UNCHANGED <<heap, next, freeList, allocated, node, new, out, stack>>
  BY DEF DestroyBegin, Goto, Set
<1>2. /\ pc'[t] = "destroy" /\ old'[t] = Top(stack)
      /\ \A u \in Threads \ {t} : pc'[u] = "idle"
  BY <1>0, <1>1 DEF TypeOK, IInv, ListIsStack
<1>3. TypeOK'
  BY <1>0, <1>1 DEF TypeOK, PcValues
<1>4. Free' = Free /\ Top(stack') = Top(stack)
  BY <1>1 DEF Free, Top
<1>5. ListIsStack'
  BY <1>1 DEF IInv, ListIsStack, Below
<1>6. OneOwner'
  <2>1. \A u \in Threads : pc[u] \notin Holding /\ pc'[u] \notin Holding
    BY <1>1, <1>2 DEF Holding
  <2> QED
    BY <1>1, <1>4, <2>1 DEF IInv, OneOwner
<1>7. Locals'
  BY <1>2 DEF Locals
<1>8. Destruction'
  <2>1. \A u \in Threads : pc'[u] = "destroy" => u = t
    BY <1>2
  <2> QED
    BY <1>1, <1>2, <1>4, <2>1 DEF Destruction
<1> QED
  BY <1>3, <1>5, <1>6, <1>7, <1>8 DEF IInv

LEMMA DestroyNodeInv ==
  ASSUME IInv, NEW t \in Threads, DestroyNode(t)
  PROVE  IInv'
<1>0. TypeOK /\ ~alive
  BY DEF IInv, Destruction, DestroyNode
<1>1. /\ pc[t] = "destroy" /\ old[t] # Null
      /\ heap' = heap \ {old[t]} /\ old' = [old EXCEPT ![t] = next[old[t]]]
      /\ stack' = Pop(stack)
      /\ UNCHANGED <<next, freeList, allocated, alive, pc, node, new, out>>
  BY DEF DestroyNode, Set
<1>2. old[t] = Top(stack) /\ Len(stack) \in Nat
  BY <1>0, <1>1 DEF IInv, Destruction, TypeOK
<1>3. Len(stack) > 0 /\ old[t] = stack[Len(stack)] /\ old[t] \in Free
  BY <1>1, <1>2 DEF Top, Free
<1>4. /\ stack' \in Seq(Nodes) /\ Free' = Free \ {old[t]}
      /\ next[old[t]] = Top(stack')
  BY <1>1, <1>3, PopFree
<1>5. old[t] \in Nodes /\ old[t] \in heap /\ old[t] \notin out
  BY <1>3, FreeIsNode
<1>6. old'[t] = Top(stack')
  BY <1>0, <1>1, <1>4 DEF TypeOK
<1>7. TypeOK'
  BY <1>0, <1>1, <1>4, <1>5 DEF TypeOK
<1>8. ListIsStack'
  BY <1>0, <1>1, <1>3, PopLinks DEF ListIsStack
<1>9. \A u \in Threads : pc[u] \in {"idle", "destroy"} /\ node[u] = Null
  BY <1>0 DEF IInv, Destruction, OneOwner, Holding
<1>10. OneOwner'
  <2>1. \A i \in 1 .. Len(stack') : stack'[i] \in heap' \ out'
    <3>1. \A m \in Free' : m \in heap /\ m \notin out /\ m # old[t]
      BY <1>4, FreeIsNode
    <3> QED
      BY <1>1, <3>1 DEF Free
  <2>2. out' \subseteq heap'
    BY <1>1, <1>5 DEF IInv, OneOwner
  <2>3. \A m \in heap' : m \in Free' \/ m \in out' \/ \E u \in Threads : node'[u] = m
    BY <1>1, <1>4 DEF IInv, OneOwner
  <2> QED
    BY <1>1, <1>9, <2>1, <2>2, <2>3 DEF OneOwner, Holding
<1>11. Locals'
  BY <1>1, <1>9 DEF Locals
<1>12. Destruction'
  BY <1>0, <1>1, <1>6, <1>9 DEF IInv, Destruction
<1> QED
  BY <1>7, <1>8, <1>10, <1>11, <1>12 DEF IInv

LEMMA NextInv ==
  ASSUME SoleAcquirer, IInv, [Next]_vars
  PROVE  IInv'
<1> USE RolesAssumption
<1>1. ASSUME NEW t \in Acquirers, AcquireStep(t)
      PROVE  IInv'
  BY <1>1, AcquireLocalInv, AcquirePopInv, AcquireNewInv, AcquireCountInv DEF AcquireStep
<1>2. ASSUME NEW t \in Releasers, ReleaseStep(t)
      PROVE  IInv'
  BY <1>2, ReleaseCheckInv, ReleaseDeleteInv, ReleaseUncountInv, PushLoadInv,
     PushLinkInv, PushInv DEF ReleaseStep
<1>3. ASSUME NEW t \in Threads, DestroyBegin(t) \/ DestroyNode(t)
      PROVE  IInv'
  BY <1>3, DestroyBeginInv, DestroyNodeInv
<1>4. CASE UNCHANGED vars
  <2>1. Free' = Free /\ Top(stack') = Top(stack)
    BY <1>4 DEF vars, Free, Top
  <2>2. TypeOK' /\ ListIsStack'
    BY <1>4, <2>1 DEF vars, IInv, TypeOK, ListIsStack, Below
  <2>3. OneOwner' /\ Locals' /\ Destruction'
    BY <1>4, <2>1 DEF vars, IInv, OneOwner, Locals, Destruction
  <2> QED
    BY <2>2, <2>3 DEF IInv
<1> QED
  BY <1>1, <1>2, <1>3, <1>4 DEF Next

-----------------------------------------------------------------------------
(* Theorems *)

\* The list, the links and the owners fit together in every reachable state.
THEOREM Invariant ==
  ASSUME SoleAcquirer
  PROVE  Spec => []IInv
  BY InitInv, NextInv, PTL DEF Spec

\* Every variable keeps its type: in particular acquire never returns nullptr.
THEOREM TypeCorrect ==
  ASSUME SoleAcquirer
  PROVE  Spec => []TypeOK
<1>1. IInv => TypeOK
  BY DEF IInv
<1> QED
  BY <1>1, Invariant, PTL

\* With one acquiring thread, acquire never hands out an object that is in use
\* or being released, whatever the releasing threads do.
THEOREM NeverShared ==
  ASSUME SoleAcquirer
  PROVE  Spec => []NoSharing
<1>1. ASSUME IInv
      PROVE  NoSharing
  <2> SUFFICES ASSUME alive, freeList # Null
               PROVE  freeList \in heap \ (out \cup InHand)
    BY DEF NoSharing
  <2>1. freeList \in Free
    BY <1>1, HeadIsFree
  <2>2. freeList \in heap \ out
    BY <1>1, <2>1, FreeIsNode
  <2>3. \A t \in Threads : node[t] # freeList
    BY <1>1, <2>1 DEF IInv, OneOwner
  <2> QED
    BY <2>2, <2>3 DEF InHand
<1> QED
  BY <1>1, Invariant, PTL

\* popFree never reads a deleted node, nor a field that a release is writing.
THEOREM ReadsAreSafe ==
  ASSUME SoleAcquirer
  PROVE  Spec => []SafeRead
<1>1. ASSUME IInv, NEW t \in Threads, pc[t] = "next"
      PROVE  /\ old[t] \in heap
             /\ \A u \in Threads : pc[u] = "link" => node[u] # old[t]
  <2>1. old[t] \in Free
    BY <1>1 DEF IInv, Locals
  <2>2. old[t] \in heap
    BY <1>1, <2>1, FreeIsNode
  <2>3. \A u \in Threads : pc[u] = "link" => node[u] # old[t]
    BY <1>1, <2>1 DEF IInv, OneOwner, Holding
  <2> QED
    BY <2>2, <2>3
<1>2. IInv => SafeRead
  BY <1>1 DEF SafeRead
<1> QED
  BY <1>2, Invariant, PTL

\* No node is lost, and the destructor deletes all that are not in use.
THEOREM NothingLeaks ==
  ASSUME SoleAcquirer
  PROVE  Spec => []NoLeak
<1>1. ASSUME IInv
      PROVE  heap = Free \cup out \cup InHand
  <2>1. \A n \in heap : n \in Free \cup out \cup InHand
    BY <1>1, NullAssumption DEF IInv, TypeOK, OneOwner, InHand
  <2>2. \A n \in Free : n \in heap
    BY <1>1, FreeIsNode
  <2>3. \A n \in InHand : n \in heap
    BY <1>1 DEF InHand, IInv, OneOwner
  <2>4. out \subseteq heap
    BY <1>1 DEF IInv, OneOwner
  <2> QED
    BY <2>1, <2>2, <2>3, <2>4
<1>2. ASSUME IInv, NEW t \in Threads, pc[t] = "destroy", old[t] = Null
      PROVE  heap = out
  <2>1. ~alive /\ old[t] = Top(stack) /\ Len(stack) \in Nat /\ stack \in Seq(Nodes)
    BY <1>2 DEF IInv, Destruction, TypeOK
  <2>2. Len(stack) = 0
    BY <1>2, <2>1, NullAssumption DEF Top
  <2>3. Free = {}
    BY <2>2 DEF Free
  <2>4. InHand = {}
    BY <1>2, <2>1 DEF InHand, IInv, Destruction, OneOwner, Holding
  <2> QED
    BY <1>1, <1>2, <2>3, <2>4
<1>3. IInv => NoLeak
  BY <1>1, <1>2 DEF NoLeak
<1> QED
  BY <1>3, Invariant, PTL


-----------------------------------------------------------------------------
(* Accounting: m_allocated lags behind the heap while a thread is between a *)
(* new or delete and its fetch_add or fetch_sub, and never counts too low   *)
(* for the test in release.                                                 *)

\* The nodes whose creation has been counted.
Counted == {n \in heap : \A t \in Threads : pc[t] = "count" => node[t] # n}

\* The threads that have deleted a node and not yet counted that.
Uncounted == {t \in Threads : pc[t] = "uncount"}

\* The nodes on the free list, and those on the way to it.
Kept ==
  {n \in heap : \/ n \in Free
                \/ \E t \in Threads : pc[t] \in {"load", "link", "push"} /\ node[t] = n}

Limited == MaxSize > 0 /\ InitialSize <= MaxSize

Accounting ==
  alive =>
    /\ IsFiniteSet(Counted) /\ IsFiniteSet(Uncounted)
    /\ allocated = Cardinality(Counted) + Cardinality(Uncounted)
    /\ Limited => Cardinality(Kept) <= MaxSize

LEMMA InitAccounting ==
  ASSUME Init
  PROVE  Accounting
<1> USE SizesAssumption
<1>1. PICK s \in [1 .. InitialSize -> Nodes] :
        /\ \A i, j \in 1 .. InitialSize : s[i] = s[j] => i = j
        /\ stack = s /\ heap = {s[i] : i \in 1 .. InitialSize}
  BY DEF Init
<1>2. s \in Bijection(1 .. InitialSize, heap)
  <2>1. s \in [1 .. InitialSize -> heap]
    BY <1>1
  <2>2. s \in Injection(1 .. InitialSize, heap)
    BY <1>1, <2>1 DEF Injection, IsInjective
  <2>3. s \in Surjection(1 .. InitialSize, heap)
    BY <1>1, <2>1 DEF Surjection
  <2> QED
    BY <2>2, <2>3 DEF Bijection
<1>3. IsFiniteSet(1 .. InitialSize) /\ Cardinality(1 .. InitialSize) = InitialSize
  BY FS_Interval
<1>4. IsFiniteSet(heap) /\ Cardinality(heap) = InitialSize
  BY <1>2, <1>3, FS_Bijection DEF ExistsBijection
<1>5. Counted = heap /\ Uncounted = {}
  BY DEF Init, Counted, Uncounted
<1>6. Kept \subseteq heap
  BY DEF Kept
<1>7. Cardinality(Kept) <= InitialSize
  BY <1>4, <1>6, FS_Subset
<1>8. IsFiniteSet(Kept) /\ Cardinality(Kept) \in Nat
  BY <1>4, <1>6, FS_Subset, FS_CardinalityType
<1> QED
  BY <1>4, <1>5, <1>7, <1>8, FS_EmptySet DEF Accounting, Init, Limited

LEMMA KeptIsCounted ==
  ASSUME IInv
  PROVE  Kept \subseteq Counted
<1> SUFFICES ASSUME NEW n \in Kept, NEW t \in Threads, pc[t] = "count"
             PROVE  node[t] # n
  BY DEF Kept, Counted
<1>1. node[t] \notin Free /\ n \in heap /\ n # Null
  BY NullAssumption DEF IInv, OneOwner, Holding, Kept, TypeOK
<1>2. ASSUME NEW u \in Threads, pc[u] \in {"load", "link", "push"}, node[u] = n
      PROVE  node[t] # n
  BY <1>1, <1>2 DEF IInv, OneOwner
<1> QED
  BY <1>1, <1>2 DEF Kept

\* Most steps count nothing and keep nothing more.
LEMMA AccountingFrame ==
  ASSUME IInv, Accounting, alive' => alive,
         Counted' = Counted, Uncounted' = Uncounted, allocated' = allocated,
         Kept' \subseteq Kept
  PROVE  Accounting'
<1> SUFFICES ASSUME alive' PROVE Accounting'
  BY DEF Accounting
<1>1. alive /\ IsFiniteSet(Counted) /\ IsFiniteSet(Uncounted)
  BY DEF Accounting
<1>2. IsFiniteSet(Kept) /\ Cardinality(Kept) \in Nat
  BY <1>1, KeptIsCounted, FS_Subset, FS_CardinalityType
<1>3. IsFiniteSet(Kept') /\ Cardinality(Kept') <= Cardinality(Kept) /\ Cardinality(Kept') \in Nat
  BY <1>2, FS_Subset, FS_CardinalityType
<1>4. Limited => Cardinality(Kept') <= MaxSize
  BY <1>1, <1>2, <1>3, SizesAssumption DEF Accounting
<1> QED
  BY <1>1, <1>4 DEF Accounting, Limited

\* The steps of t that neither create nor delete, nor count, nor keep.
LEMMA LocalAccounting ==
  ASSUME IInv, Accounting, NEW t \in Threads,
         UNCHANGED <<heap, allocated, alive>>,
         pc[t] \notin {"count", "uncount"}, pc'[t] \notin {"count", "uncount"},
         pc'[t] \in {"load", "link", "push"} =>
           pc[t] \in {"load", "link", "push"} /\ node'[t] = node[t],
         \A u \in Threads \ {t} : pc'[u] = pc[u] /\ node'[u] = node[u],
         Free' \subseteq Kept \cup Free
  PROVE  Accounting'
<1>1. Counted' = Counted
  BY DEF Counted
<1>2. Uncounted' = Uncounted
  BY DEF Uncounted
<1>3. Kept' \subseteq Kept
  BY DEF Kept
<1> QED
  BY <1>1, <1>2, <1>3, AccountingFrame

LEMMA AcquireAccounting ==
  ASSUME IInv, Accounting, NEW t \in Acquirers, AcquireStep(t)
  PROVE  Accounting'
<1> USE RolesAssumption
<1>0. TypeOK /\ t \in Threads
  BY DEF IInv
<1>1. CASE AcquireLoad(t) \/ AcquireNext(t) \/ AcquirePopFails(t)
  <2>1. /\ UNCHANGED <<heap, allocated, alive, node, stack>>
        /\ pc[t] \in {"idle", "next", "pop"}
        /\ \E l \in {"new", "next", "pop"} : pc' = [pc EXCEPT ![t] = l]
    BY <1>1 DEF AcquireLoad, AcquireNext, AcquirePopFails, Examine, Goto
  <2>2. Free' = Free
    BY <2>1 DEF Free
  <2>3. pc'[t] \in {"new", "next", "pop"} /\ \A u \in Threads \ {t} : pc'[u] = pc[u]
    BY <1>0, <2>1 DEF TypeOK
  <2> QED
    BY <1>0, <2>1, <2>2, <2>3, LocalAccounting
<1>2. CASE AcquirePop(t)
  <2>1. /\ UNCHANGED <<heap, allocated, alive, node>>
        /\ pc[t] = "pop" /\ pc' = [pc EXCEPT ![t] = "idle"]
        /\ stack' = Pop(stack) /\ freeList = old[t]
    BY <1>2 DEF AcquirePop, Goto
  <2>2. old[t] \in Free
    BY <1>0, <2>1 DEF IInv, Locals
  <2>3. Len(stack) > 0 /\ stack \in Seq(Nodes)
    BY <1>0, <2>2 DEF Free, TypeOK
  <2>4. Free' \subseteq Free
    BY <2>1, <2>3, PopLemma DEF Free
  <2>5. pc'[t] = "idle" /\ \A u \in Threads \ {t} : pc'[u] = pc[u]
    BY <1>0, <2>1 DEF TypeOK
  <2> QED
    BY <1>0, <2>1, <2>4, <2>5, LocalAccounting
<1>3. CASE AcquireNew(t)
  <2>1. PICK n \in Nodes \ heap : heap' = heap \cup {n} /\ node' = [node EXCEPT ![t] = n]
    BY <1>3 DEF AcquireNew, Set
  <2>2. /\ pc[t] = "new" /\ pc' = [pc EXCEPT ![t] = "count"]
        /\ UNCHANGED <<allocated, alive, stack>>
    BY <1>3 DEF AcquireNew, Goto
  <2>3. /\ pc'[t] = "count" /\ node'[t] = n
        /\ \A u \in Threads \ {t} : pc'[u] = pc[u] /\ node'[u] = node[u]
    BY <1>0, <2>1, <2>2 DEF TypeOK
  <2>4. Counted' = Counted
    BY <1>0, <2>1, <2>2, <2>3 DEF Counted
  <2>5. Uncounted' = Uncounted
    BY <2>2, <2>3 DEF Uncounted
  <2>6. /\ Free' = Free /\ \A m \in Free : m \in heap
        /\ \A u \in Threads : pc[u] \in {"load", "link", "push"} => node[u] \in heap
    BY <2>2 DEF Free, IInv, OneOwner, Holding
  <2>7. Kept' \subseteq Kept
    BY <2>1, <2>3, <2>6 DEF Kept
  <2> QED
    BY <2>2, <2>4, <2>5, <2>7, AccountingFrame
<1>4. CASE AcquireCount(t)
  <2>1. /\ pc[t] = "count" /\ pc' = [pc EXCEPT ![t] = "idle"]
        /\ allocated' = allocated + 1 /\ node' = [node EXCEPT ![t] = Null]
        /\ UNCHANGED <<heap, alive, stack>>
    BY <1>4 DEF AcquireCount, Goto, Set
  <2>2. /\ pc'[t] = "idle"
        /\ \A u \in Threads \ {t} : pc'[u] = pc[u] /\ node'[u] = node[u]
    BY <1>0, <2>1 DEF TypeOK
  <2>3. /\ node[t] \in heap /\ node[t] # Null
        /\ \A u \in Threads \ {t} : node[u] # node[t]
    BY <1>0, <2>1, NullAssumption DEF IInv, OneOwner, Holding, TypeOK
  <2>4. Counted' = Counted \cup {node[t]} /\ node[t] \notin Counted
    BY <1>0, <2>1, <2>2, <2>3 DEF Counted
  <2>5. Uncounted' = Uncounted
    BY <2>1, <2>2 DEF Uncounted
  <2>6. Kept' = Kept
    BY <2>1, <2>2 DEF Kept, Free
  <2>7. ASSUME alive
        PROVE  /\ IsFiniteSet(Counted')
               /\ allocated' = Cardinality(Counted') + Cardinality(Uncounted)
    <3>1. /\ IsFiniteSet(Counted) /\ IsFiniteSet(Uncounted)
          /\ allocated = Cardinality(Counted) + Cardinality(Uncounted)
      BY <2>7 DEF Accounting
    <3>2. Cardinality(Counted') = Cardinality(Counted) + 1 /\ IsFiniteSet(Counted')
      BY <2>4, <3>1, FS_AddElement
    <3>3. Cardinality(Counted) \in Nat /\ Cardinality(Uncounted) \in Nat
      BY <3>1, FS_CardinalityType
    <3> QED
      BY <2>1, <3>1, <3>2, <3>3
  <2> QED
    BY <2>1, <2>5, <2>6, <2>7 DEF Accounting, Limited
<1> QED
  BY <1>1, <1>2, <1>3, <1>4 DEF AcquireStep

\* A release keeps its node when at most MaxSize are counted: the node itself
\* and everything kept before are among them.
LEMMA KeepAccounting ==
  ASSUME IInv, Accounting, NEW t \in Releasers, ReleaseCheck(t)
  PROVE  Accounting'
<1> USE RolesAssumption
<1>0. TypeOK /\ t \in Threads
  BY DEF IInv
<1>1. PICK n \in out : node' = [node EXCEPT ![t] = n]
  BY DEF ReleaseCheck, Set
<1>2. /\ pc[t] = "idle" /\ alive
      /\ pc' = [pc EXCEPT ![t] = IF MaxSize > 0 /\ allocated > MaxSize THEN "delete" ELSE "load"]
      /\ UNCHANGED <<heap, allocated, alive, stack>>
  BY DEF ReleaseCheck, Goto
<1>3. /\ pc'[t] = IF MaxSize > 0 /\ allocated > MaxSize THEN "delete" ELSE "load"
      /\ node'[t] = n
      /\ \A u \in Threads \ {t} : pc'[u] = pc[u] /\ node'[u] = node[u]
  BY <1>0, <1>1, <1>2 DEF TypeOK
<1>4. /\ n \in heap
      /\ \A u \in Threads : pc[u] = "count" => node[u] # n
  BY DEF IInv, OneOwner, Holding
<1>5. Counted' = Counted /\ n \in Counted
  BY <1>0, <1>2, <1>3, <1>4 DEF Counted
<1>6. Uncounted' = Uncounted
  BY <1>2, <1>3 DEF Uncounted
<1>7. Free' = Free
  BY <1>2 DEF Free
<1>8. CASE pc'[t] = "delete"
  <2>1. Kept' \subseteq Kept
    BY <1>2, <1>3, <1>7, <1>8 DEF Kept
  <2> QED
    BY <1>2, <1>5, <1>6, <2>1, AccountingFrame
<1>9. CASE pc'[t] = "load"
  <2>1. Kept' \subseteq Kept \cup {n}
    BY <1>2, <1>3, <1>7 DEF Kept
  <2>2. Kept' \subseteq Counted
    BY <1>5, <2>1, KeptIsCounted
  <2>3. /\ IsFiniteSet(Counted) /\ IsFiniteSet(Uncounted)
        /\ allocated = Cardinality(Counted) + Cardinality(Uncounted)
        /\ Cardinality(Counted) \in Nat /\ Cardinality(Uncounted) \in Nat
    BY <1>2, FS_CardinalityType DEF Accounting
  <2>4. Cardinality(Kept') <= Cardinality(Counted) /\ Cardinality(Kept') \in Nat
    BY <2>2, <2>3, FS_Subset, FS_CardinalityType
  <2>5. Limited => allocated <= MaxSize
    BY <1>0, <1>3, <1>9, SizesAssumption DEF Limited, TypeOK
  <2>6. Limited => Cardinality(Kept') <= MaxSize
    BY <2>3, <2>4, <2>5, SizesAssumption
  <2> QED
    BY <1>2, <1>5, <1>6, <2>3, <2>6 DEF Accounting, Limited
<1> QED
  BY <1>3, <1>8, <1>9


LEMMA ReleaseAccounting ==
  ASSUME IInv, Accounting, NEW t \in Releasers, ReleaseStep(t)
  PROVE  Accounting'
<1> USE RolesAssumption
<1>0. TypeOK /\ t \in Threads
  BY DEF IInv
<1>1. CASE ReleaseCheck(t)
  BY <1>1, KeepAccounting
<1>2. CASE ReleaseDelete(t)
  <2>1. /\ pc[t] = "delete" /\ pc' = [pc EXCEPT ![t] = "uncount"]
        /\ heap' = heap \ {node[t]} /\ node' = [node EXCEPT ![t] = Null]
        /\ UNCHANGED <<allocated, alive, stack>>
    BY <1>2 DEF ReleaseDelete, Goto, Set
  <2>2. /\ pc'[t] = "uncount" /\ node'[t] = Null
        /\ \A u \in Threads \ {t} : pc'[u] = pc[u] /\ node'[u] = node[u]
    BY <1>0, <2>1 DEF TypeOK
  <2>3. /\ node[t] \in heap /\ node[t] # Null
        /\ \A u \in Threads \ {t} : node[u] # node[t]
    BY <1>0, <2>1, NullAssumption DEF IInv, OneOwner, Holding, TypeOK
  <2>4. Counted' = Counted \ {node[t]} /\ node[t] \in Counted
    BY <1>0, <2>1, <2>2, <2>3 DEF Counted
  <2>5. Uncounted' = Uncounted \cup {t} /\ t \notin Uncounted
    BY <1>0, <2>1, <2>2 DEF Uncounted
  <2>6. Kept' \subseteq Kept
    BY <2>1, <2>2 DEF Kept, Free
  <2>7. ASSUME alive
        PROVE  /\ IsFiniteSet(Counted') /\ IsFiniteSet(Uncounted')
               /\ allocated' = Cardinality(Counted') + Cardinality(Uncounted')
               /\ Limited => Cardinality(Kept') <= MaxSize
    <3>1. /\ IsFiniteSet(Counted) /\ IsFiniteSet(Uncounted)
          /\ allocated = Cardinality(Counted) + Cardinality(Uncounted)
          /\ Limited => Cardinality(Kept) <= MaxSize
      BY <2>7 DEF Accounting
    <3>2. /\ Cardinality(Counted') = Cardinality(Counted) - 1 /\ IsFiniteSet(Counted')
          /\ Cardinality(Uncounted') = Cardinality(Uncounted) + 1 /\ IsFiniteSet(Uncounted')
      BY <2>4, <2>5, <3>1, FS_AddElement, FS_RemoveElement
    <3>3. Cardinality(Counted) \in Nat /\ Cardinality(Uncounted) \in Nat
      BY <3>1, FS_CardinalityType
    <3>4. IsFiniteSet(Kept) /\ Cardinality(Kept) \in Nat
      BY <3>1, KeptIsCounted, FS_Subset, FS_CardinalityType
    <3>5. Cardinality(Kept') <= Cardinality(Kept) /\ Cardinality(Kept') \in Nat
      BY <2>6, <3>4, FS_Subset, FS_CardinalityType
    <3> QED
      BY <2>1, <3>1, <3>2, <3>3, <3>4, <3>5, SizesAssumption
  <2> QED
    BY <2>1, <2>7 DEF Accounting, Limited
<1>3. CASE ReleaseUncount(t)
  <2>1. /\ pc[t] = "uncount" /\ pc' = [pc EXCEPT ![t] = "idle"]
        /\ allocated' = allocated - 1
        /\ UNCHANGED <<heap, alive, stack, node>>
    BY <1>3 DEF ReleaseUncount, Goto
  <2>2. /\ pc'[t] = "idle"
        /\ \A u \in Threads \ {t} : pc'[u] = pc[u]
    BY <1>0, <2>1 DEF TypeOK
  <2>3. Counted' = Counted
    BY <2>1, <2>2 DEF Counted
  <2>4. Uncounted' = Uncounted \ {t} /\ t \in Uncounted
    BY <1>0, <2>1, <2>2 DEF Uncounted
  <2>5. Kept' = Kept
    BY <2>1, <2>2 DEF Kept, Free
  <2>6. ASSUME alive
        PROVE  /\ IsFiniteSet(Uncounted')
               /\ allocated' = Cardinality(Counted) + Cardinality(Uncounted')
    <3>1. /\ IsFiniteSet(Counted) /\ IsFiniteSet(Uncounted)
          /\ allocated = Cardinality(Counted) + Cardinality(Uncounted)
      BY <2>6 DEF Accounting
    <3>2. Cardinality(Uncounted') = Cardinality(Uncounted) - 1 /\ IsFiniteSet(Uncounted')
      BY <2>4, <3>1, FS_RemoveElement
    <3>3. Cardinality(Counted) \in Nat /\ Cardinality(Uncounted) \in Nat
      BY <3>1, FS_CardinalityType
    <3> QED
      BY <2>1, <3>1, <3>2, <3>3
  <2> QED
    BY <2>1, <2>3, <2>5, <2>6 DEF Accounting, Limited
<1>4. CASE PushLoad(t) \/ PushLink(t) \/ PushFails(t)
  <2>1. /\ UNCHANGED <<heap, allocated, alive, node, stack>>
        /\ pc[t] \in {"load", "link", "push"}
        /\ \E l \in {"link", "push"} : pc' = [pc EXCEPT ![t] = l]
    BY <1>4 DEF PushLoad, PushLink, PushFails, Goto
  <2>2. pc'[t] \in {"link", "push"} /\ \A u \in Threads \ {t} : pc'[u] = pc[u]
    BY <1>0, <2>1 DEF TypeOK
  <2>3. Free' = Free
    BY <2>1 DEF Free
  <2> QED
    BY <1>0, <2>1, <2>2, <2>3, LocalAccounting
<1>5. CASE Push(t)
  <2>1. /\ UNCHANGED <<heap, allocated, alive>>
        /\ pc[t] = "push" /\ pc' = [pc EXCEPT ![t] = "idle"]
        /\ node' = [node EXCEPT ![t] = Null]
        /\ stack' = Append(stack, node[t])
    BY <1>5 DEF Push, Goto, Set
  <2>2. pc'[t] = "idle" /\ \A u \in Threads \ {t} : pc'[u] = pc[u] /\ node'[u] = node[u]
    BY <1>0, <2>1 DEF TypeOK
  <2>3. node[t] \in heap /\ node[t] \in Nodes /\ stack \in Seq(Nodes)
    BY <1>0, <2>1 DEF IInv, OneOwner, Holding, TypeOK
  <2>4. /\ Len(stack') = Len(stack) + 1 /\ Len(stack) \in Nat
        /\ \A i \in 1 .. Len(stack) : stack'[i] = stack[i]
        /\ stack'[Len(stack) + 1] = node[t]
    BY <2>1, <2>3, AppendLemma
  <2>5. Free' \subseteq Free \cup {node[t]}
    BY <2>4 DEF Free
  <2>6. node[t] \in Kept
    BY <1>0, <2>1, <2>3 DEF Kept
  <2> QED
    BY <1>0, <2>1, <2>2, <2>5, <2>6, LocalAccounting
<1> QED
  BY <1>1, <1>2, <1>3, <1>4, <1>5 DEF ReleaseStep

LEMMA NextAccounting ==
  ASSUME IInv, Accounting, [Next]_vars
  PROVE  Accounting'
<1>1. ASSUME NEW t \in Threads, DestroyBegin(t) \/ DestroyNode(t)
      PROVE  Accounting'
  <2>1. CASE DestroyBegin(t)
    BY <2>1 DEF DestroyBegin, Accounting
  <2>2. CASE DestroyNode(t)
    BY <2>2 DEF DestroyNode, Accounting, IInv, Destruction
  <2> QED
    BY <1>1, <2>1, <2>2
<1>2. CASE UNCHANGED vars
  BY <1>2 DEF vars, Accounting, Counted, Uncounted, Kept, Free, Limited
<1> QED
  BY <1>1, <1>2, AcquireAccounting, ReleaseAccounting DEF Next

\* Once no object is in use and no thread is at work, at most MaxSize nodes are
\* allocated, however many releases decided on an outdated count.
THEOREM ShrinksToMaximum ==
  ASSUME SoleAcquirer
  PROVE  Spec => []ShrinksBack
<1>1. Spec => []Accounting
  BY InitAccounting, NextAccounting, Invariant, PTL DEF Spec
<1>2. ASSUME IInv, Accounting
      PROVE  ShrinksBack
  <2> SUFFICES ASSUME MaxSize > 0 /\ InitialSize <= MaxSize, alive, out = {},
                      \A t \in Threads : pc[t] = "idle"
               PROVE  Len(stack) <= MaxSize /\ allocated = Len(stack)
    BY DEF ShrinksBack
  <2>1. heap = Free
    <3>1. \A t \in Threads : node[t] = Null
      BY <1>2 DEF IInv, OneOwner, Holding
    <3>2. \A n \in heap : n \in Free
      BY <1>2, <3>1, NullAssumption DEF IInv, OneOwner, TypeOK
    <3>3. Free \subseteq heap
      BY <1>2, FreeIsNode
    <3> QED
      BY <3>2, <3>3
  <2>2. Counted = Free /\ Kept = Free /\ Uncounted = {}
    BY <2>1 DEF Counted, Kept, Uncounted
  <2>3. Len(stack) \in Nat /\ stack \in [1 .. Len(stack) -> Free]
    <3>1. stack \in Seq(Nodes)
      BY <1>2 DEF IInv, TypeOK
    <3>2. Len(stack) \in Nat /\ stack \in [1 .. Len(stack) -> Nodes]
      BY <3>1, LenProperties
    <3> QED
      BY <3>2 DEF Free
  <2>4. stack \in Bijection(1 .. Len(stack), Free)
    <3>1. stack \in Injection(1 .. Len(stack), Free)
      BY <1>2, <2>3 DEF Injection, IsInjective, IInv, ListIsStack
    <3>2. stack \in Surjection(1 .. Len(stack), Free)
      BY <2>3 DEF Surjection, Free
    <3> QED
      BY <3>1, <3>2 DEF Bijection
  <2>5. IsFiniteSet(1 .. Len(stack)) /\ Cardinality(1 .. Len(stack)) = Len(stack)
    BY <2>3, FS_Interval
  <2>6. Cardinality(Free) = Len(stack)
    BY <2>4, <2>5, FS_Bijection DEF ExistsBijection
  <2>7. /\ allocated = Cardinality(Free) + Cardinality(Uncounted)
        /\ Cardinality(Free) <= MaxSize
    BY <1>2, <2>2 DEF Accounting, Limited
  <2> QED
    BY <2>2, <2>3, <2>6, <2>7, FS_EmptySet
<1> QED
  BY <1>1, <1>2, Invariant, PTL
=============================================================================
