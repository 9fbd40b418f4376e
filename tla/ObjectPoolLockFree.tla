------------------------- MODULE ObjectPoolLockFree -------------------------
(***************************************************************************)
(* The object pool of src/src/objectpool_lockfree.h: a Treiber stack of    *)
(* free nodes, one action per access to shared memory.  An object is       *)
(* acquired by one thread, handed to another one through a queue, and      *)
(* released there, so any releaser may release any object in use.          *)
(*                                                                         *)
(* A load returns the current value.  The plain field node->next of a      *)
(* deleted node reads as any pointer.  The allocator may give the address  *)
(* of a deleted node to a new one.                                         *)
(***************************************************************************)
EXTENDS Integers, Sequences

CONSTANTS
  Nodes,         \* the addresses a Node can have; bounds the heap
  Null,          \* nullptr
  Threads,
  Acquirers,     \* the threads that call acquire
  Releasers,     \* the threads that call release
  InitialSize,   \* constructor parameter
  MaxSize        \* constructor parameter m_maxSize; 0 means no maximum

ASSUME NullAssumption == Null \notin Nodes
ASSUME RolesAssumption == Acquirers \subseteq Threads /\ Releasers \subseteq Threads
ASSUME SizesAssumption == InitialSize \in Nat /\ MaxSize \in Nat

VARIABLES
  heap,        \* the nodes that were created and not deleted
  next,        \* node->next
  freeList,    \* m_freeList
  allocated,   \* m_allocated
  alive,       \* the destructor has not started
  pc,          \* where each thread is
  node,        \* the local variable node of acquire and release
  old,         \* the local variable oldHead; node in the destructor
  new,         \* the local variable newHead
  out,         \* history: the objects that callers have acquired and not released
  stack        \* history: the free nodes in the order they were pushed

vars == <<heap, next, freeList, allocated, alive, pc, node, old, new, out, stack>>

Pointers == Nodes \cup {Null}

Goto(t, l) == pc' = [pc EXCEPT ![t] = l]
Set(f, t, p) == [f EXCEPT ![t] = p]

\* The constructor has pushed InitialSize nodes.
Init ==
  /\ \E s \in [1 .. InitialSize -> Nodes] :
       /\ \A i, j \in 1 .. InitialSize : s[i] = s[j] => i = j
       /\ stack = s
       /\ heap = {s[i] : i \in 1 .. InitialSize}
       /\ next = [n \in Nodes |->
                    IF \E i \in 2 .. InitialSize : s[i] = n
                      THEN s[(CHOOSE i \in 2 .. InitialSize : s[i] = n) - 1]
                      ELSE Null]
       /\ freeList = IF InitialSize = 0 THEN Null ELSE s[InitialSize]
  /\ allocated = InitialSize
  /\ alive = TRUE
  /\ pc = [t \in Threads |-> "idle"]
  /\ node = [t \in Threads |-> Null]
  /\ old = [t \in Threads |-> Null]
  /\ new = [t \in Threads |-> Null]
  /\ out = {}

Pop(s) == SubSeq(s, 1, Len(s) - 1)

-----------------------------------------------------------------------------
(* acquire and popFree *)

\* Mutant of Examine: the null test is dropped.
ExamineUnchecked(t, head) ==
  /\ old' = Set(old, t, head)
  /\ Goto(t, "next")

\* The while condition: an empty list means a new node.
Examine(t, head) ==
  /\ old' = Set(old, t, head)
  /\ Goto(t, IF head = Null THEN "new" ELSE "next")

AcquireLoad(t) ==
  /\ pc[t] = "idle"
  /\ alive
  /\ Examine(t, freeList)
  /\ UNCHANGED <<heap, next, freeList, allocated, alive, node, new, out, stack>>

\* newHead = oldHead->next
AcquireNext(t) ==
  /\ pc[t] = "next"
  /\ IF old[t] \in heap
       THEN new' = Set(new, t, next[old[t]])
       ELSE \E p \in Pointers : new' = Set(new, t, p)
  /\ Goto(t, "pop")
  /\ UNCHANGED <<heap, next, freeList, allocated, alive, node, old, out, stack>>

\* Mutant of AcquirePop: a store in place of the compare_exchange.
AcquirePopStores(t) ==
  /\ pc[t] = "pop"
  /\ freeList' = new[t]
  /\ stack' = Pop(stack)
  /\ out' = out \cup {old[t]}
  /\ Goto(t, "idle")
  /\ old' = Set(old, t, Null)
  /\ new' = Set(new, t, Null)
  /\ UNCHANGED <<heap, next, allocated, alive, node>>

\* The compare_exchange looks at the pointer only.
AcquirePop(t) ==
  /\ pc[t] = "pop"
  /\ freeList = old[t]
  /\ freeList' = new[t]
  /\ stack' = Pop(stack)
  /\ out' = out \cup {old[t]}
  /\ Goto(t, "idle")
  /\ old' = Set(old, t, Null)
  /\ new' = Set(new, t, Null)
  /\ UNCHANGED <<heap, next, allocated, alive, node>>

\* The compare_exchange failed, spuriously or not, and loaded the list head.
AcquirePopFails(t) ==
  /\ pc[t] = "pop"
  /\ Examine(t, freeList)
  /\ new' = Set(new, t, Null)
  /\ UNCHANGED <<heap, next, freeList, allocated, alive, node, out, stack>>

\* new Node(), at an address that is not in use.
AcquireNew(t) ==
  /\ pc[t] = "new"
  /\ \E n \in Nodes \ heap :
       /\ heap' = heap \cup {n}
       /\ next' = [next EXCEPT ![n] = Null]
       /\ node' = Set(node, t, n)
  /\ Goto(t, "count")
  /\ UNCHANGED <<freeList, allocated, alive, old, new, out, stack>>

AcquireCount(t) ==
  /\ pc[t] = "count"
  /\ allocated' = allocated + 1
  /\ out' = out \cup {node[t]}
  /\ Goto(t, "idle")
  /\ node' = Set(node, t, Null)
  /\ UNCHANGED <<heap, next, freeList, alive, old, new, stack>>

-----------------------------------------------------------------------------
(* release and pushFree *)

\* The load of m_allocated decides whether the object is deleted or kept.
ReleaseCheck(t) ==
  /\ pc[t] = "idle"
  /\ alive
  /\ \E n \in out :
       /\ out' = out \ {n}
       /\ node' = Set(node, t, n)
  /\ Goto(t, IF MaxSize > 0 /\ allocated > MaxSize THEN "delete" ELSE "load")
  /\ UNCHANGED <<heap, next, freeList, allocated, alive, old, new, stack>>

ReleaseDelete(t) ==
  /\ pc[t] = "delete"
  /\ heap' = heap \ {node[t]}
  /\ Goto(t, "uncount")
  /\ node' = Set(node, t, Null)
  /\ UNCHANGED <<next, freeList, allocated, alive, old, new, out, stack>>

\* Mutant of ReleaseUncount: the fetch_sub is missing.
ReleaseUncountNothing(t) ==
  /\ pc[t] = "uncount"
  /\ Goto(t, "idle")
  /\ UNCHANGED <<heap, next, freeList, allocated, alive, node, old, new, out, stack>>

ReleaseUncount(t) ==
  /\ pc[t] = "uncount"
  /\ allocated' = allocated - 1
  /\ Goto(t, "idle")
  /\ UNCHANGED <<heap, next, freeList, alive, node, old, new, out, stack>>

\* Mutant of PushLoad: the node is published before it is linked.
PushLoadPublishes(t) ==
  /\ pc[t] = "load"
  /\ old' = Set(old, t, freeList)
  /\ freeList' = node[t]
  /\ stack' = Append(stack, node[t])
  /\ Goto(t, "link")
  /\ UNCHANGED <<heap, next, allocated, alive, node, new, out>>

PushLoad(t) ==
  /\ pc[t] = "load"
  /\ old' = Set(old, t, freeList)
  /\ Goto(t, "link")
  /\ UNCHANGED <<heap, next, freeList, allocated, alive, node, new, out, stack>>

\* node->next = oldHead
PushLink(t) ==
  /\ pc[t] = "link"
  /\ next' = [next EXCEPT ![node[t]] = old[t]]
  /\ Goto(t, "push")
  /\ UNCHANGED <<heap, freeList, allocated, alive, node, old, new, out, stack>>

\* Mutant of Push: a store in place of the compare_exchange.
PushStores(t) ==
  /\ pc[t] = "push"
  /\ freeList' = node[t]
  /\ stack' = Append(stack, node[t])
  /\ Goto(t, "idle")
  /\ old' = Set(old, t, Null)
  /\ node' = Set(node, t, Null)
  /\ UNCHANGED <<heap, next, allocated, alive, new, out>>

Push(t) ==
  /\ pc[t] = "push"
  /\ freeList = old[t]
  /\ freeList' = node[t]
  /\ stack' = Append(stack, node[t])
  /\ Goto(t, "idle")
  /\ old' = Set(old, t, Null)
  /\ node' = Set(node, t, Null)
  /\ UNCHANGED <<heap, next, allocated, alive, new, out>>

\* The compare_exchange failed, spuriously or not, and loaded the list head.
PushFails(t) ==
  /\ pc[t] = "push"
  /\ old' = Set(old, t, freeList)
  /\ Goto(t, "link")
  /\ UNCHANGED <<heap, next, freeList, allocated, alive, node, new, out, stack>>

-----------------------------------------------------------------------------
(* The destructor; the owner of the pool has stopped using it. *)

DestroyBegin(t) ==
  /\ alive
  /\ \A u \in Threads : pc[u] = "idle"
  /\ alive' = FALSE
  /\ old' = Set(old, t, freeList)
  /\ Goto(t, "destroy")
  /\ UNCHANGED <<heap, next, freeList, allocated, node, new, out, stack>>

\* The loop reads node->next and deletes the node.
DestroyNode(t) ==
  /\ pc[t] = "destroy"
  /\ old[t] # Null
  /\ heap' = heap \ {old[t]}
  /\ old' = Set(old, t, next[old[t]])
  /\ stack' = Pop(stack)
  /\ UNCHANGED <<next, freeList, allocated, alive, pc, node, new, out>>

-----------------------------------------------------------------------------

AcquireStep(t) ==
  \/ AcquireLoad(t) \/ AcquireNext(t) \/ AcquirePop(t) \/ AcquirePopFails(t)
  \/ AcquireNew(t) \/ AcquireCount(t)

ReleaseStep(t) ==
  \/ ReleaseCheck(t) \/ ReleaseDelete(t) \/ ReleaseUncount(t)
  \/ PushLoad(t) \/ PushLink(t) \/ Push(t) \/ PushFails(t)

Next ==
  \/ \E t \in Acquirers : AcquireStep(t)
  \/ \E t \in Releasers : ReleaseStep(t)
  \/ \E t \in Threads : DestroyBegin(t) \/ DestroyNode(t)

Spec == Init /\ [][Next]_vars

-----------------------------------------------------------------------------
(* Properties *)

PcValues == {"idle", "next", "pop", "new", "count",
             "delete", "uncount", "load", "link", "push", "destroy"}

\* Every variable has its type.
TypeOK ==
  /\ heap \subseteq Nodes
  /\ next \in [Nodes -> Pointers]
  /\ freeList \in Pointers
  /\ allocated \in Int
  /\ alive \in BOOLEAN
  /\ pc \in [Threads -> PcValues]
  /\ node \in [Threads -> Pointers]
  /\ old \in [Threads -> Pointers]
  /\ new \in [Threads -> Pointers]
  /\ out \subseteq Nodes
  /\ stack \in Seq(Nodes)

\* The nodes on the free list, and those that a thread is creating or releasing.
Free == {stack[i] : i \in 1 .. Len(stack)}
InHand == {node[t] : t \in Threads} \ {Null}

\* The next object that acquire would hand out is a live one that no caller
\* uses and no thread is releasing.
NoSharing ==
  alive /\ freeList # Null => freeList \in heap \ (out \cup InHand)

\* popFree dereferences a live node, and nobody writes the field it reads.
SafeRead ==
  \A t \in Threads : pc[t] = "next" =>
    /\ old[t] \in heap
    /\ \A u \in Threads : pc[u] = "link" => node[u] # old[t]

\* No node is lost: a live node is free, in use, or in a thread's hands; after
\* the destructor only the objects still in use are left.
NoLeak ==
  /\ heap = Free \cup out \cup InHand
  /\ \A t \in Threads : pc[t] = "destroy" /\ old[t] = Null => heap = out

\* The pool gives back what exceeds its maximum: once no object is in use and
\* no thread is at work, at most MaxSize nodes are allocated.
ShrinksBack ==
  /\ MaxSize > 0 /\ InitialSize <= MaxSize
  /\ alive /\ out = {} /\ (\A t \in Threads : pc[t] = "idle")
  => Len(stack) <= MaxSize /\ allocated = Len(stack)
=============================================================================
