---------------------------- MODULE TopicRegistry ----------------------------
(***************************************************************************)
(* How the ids of topics are given out: registerTopic of                   *)
(* EventQueueEmulator (lock-free, gives a number back that it cannot use), *)
(* EventQueueBroadcast (the same under m_topicMutex),                      *)
(* EventQueueBroadcastFast and -Batch (lock-free, never gives back) and    *)
(* MessageCenterFast (never gives back, under m_topicMutex).               *)
(*                                                                         *)
(* The map from names to ids, which the mutex protects together with the   *)
(* counter, makes a call with a known name return its id and change        *)
(* nothing; the calls of this module are the others.                       *)
(***************************************************************************)
EXTENDS Integers, FiniteSets

CONSTANTS
  Callers,     \* threads that call registerTopic
  MaxTopics,   \* EMU_MAX_TOPICS and its like: the length of the tables
  Modulus,     \* 2^16: the counter is a uint16_t
  GivesBack,   \* whether the number is given back when the tables are full
  Locked,      \* whether a call holds m_topicMutex
  MaxTickets   \* bound: the calls

\* What the theorems assume of the constants.
RegistryAssumption ==
  /\ MaxTopics \in Nat \ {0} /\ Modulus \in Nat /\ MaxTopics < Modulus
  /\ IsFiniteSet(Callers)
  /\ GivesBack \in BOOLEAN /\ Locked \in BOOLEAN
  /\ MaxTickets \in Nat

Ids == 0 .. MaxTopics - 1

VARIABLES
  count,    \* m_topicCount, m_nextTopicId
  pc,       \* where each caller is in registerTopic
  handed,   \* history: how many calls got each id
  tickets   \* history: the calls that took a number

vars == <<count, pc, handed, tickets>>

Init ==
  /\ count = 0
  /\ pc = [t \in Callers |-> "idle"]
  /\ handed = [i \in Ids |-> 0]
  /\ tickets = 0

\* fetch_add: a number below the length of the tables is an id, any other is given
\* back or lost.
FetchAdd(t) ==
  /\ tickets < MaxTickets
  /\ pc[t] = "idle"
  /\ Locked => \A u \in Callers : pc[u] = "idle"
  /\ count' = (count + 1) % Modulus
  /\ tickets' = tickets + 1
  /\ IF count < MaxTopics
       THEN handed' = [handed EXCEPT ![count] = @ + 1] /\ UNCHANGED pc
       ELSE /\ pc' = [pc EXCEPT ![t] = IF GivesBack THEN "full" ELSE "idle"]
            /\ UNCHANGED handed

\* fetch_sub, and UINT16_MAX is returned.
FetchSub(t) ==
  /\ pc[t] = "full"
  /\ count' = (count - 1) % Modulus
  /\ pc' = [pc EXCEPT ![t] = "idle"]
  /\ UNCHANGED <<handed, tickets>>

Next == \E t \in Callers : FetchAdd(t) \/ FetchSub(t)

Spec == Init /\ [][Next]_vars

-----------------------------------------------------------------------------
(* Properties *)

\* Every variable has its type.
TypeOK ==
  /\ count \in 0 .. Modulus - 1
  /\ pc \in [Callers -> {"idle", "full"}]
  /\ handed \in [Ids -> Nat]
  /\ tickets \in 0 .. MaxTickets

\* The counter has not come round to the first id again: a registry that does not
\* give back has that many calls; one that does can only get there when that many
\* calls that find it full are between their two steps.
NotWrapped ==
  IF GivesBack THEN Cardinality(Callers) < Modulus - MaxTopics ELSE tickets <= Modulus

\* Two calls never get the same id (registerTopic of all five classes), whatever the
\* order of their two steps and although the counter is above the tables' length in
\* between.
UniqueIds == NotWrapped => \A i \in Ids : handed[i] <= 1

\* No id is lost either: when the tables are not full the next call gets an id.
NoIdIsLost ==
  NotWrapped /\ GivesBack /\ (\E i \in Ids : handed[i] = 0) =>
    count < MaxTopics /\ handed[count] = 0
=============================================================================
