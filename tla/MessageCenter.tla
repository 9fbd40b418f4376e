---------------------------- MODULE MessageCenter ----------------------------
(***************************************************************************)
(* The MessageCenter of src/src/messagecenter.h and messagecenter.cpp: an  *)
(* EventQueue with a worker thread, and the Start, Stop and disposal of    *)
(* that thread.  Every step is a step of the EventQueue or leaves it as it *)
(* is; the worker's loop decides when the worker takes a message.          *)
(*                                                                         *)
(* The dispatchers of the EventQueue are the threads Start may create.     *)
(* Controllers call Start, Stop and DisposeDefaultMessageCenter.           *)
(***************************************************************************)
EXTENDS EventQueue

CONSTANTS
  Controllers,
  MaxStarts     \* bound: the threads Start creates

ASSUME ControllersAssumption == None \notin Controllers \cup Dispatchers
ASSUME MaxStartsAssumption == MaxStarts \in Nat

VARIABLES
  started, requestStop, stopped,  \* the flags m_started, m_requestStop, m_stopped
  thread,        \* m_thread
  mutexThreads,  \* the controller that holds m_mutexThreads
  wpc,           \* where each thread is in ThreadWorker
  cpc,           \* where each controller is in Start or Stop
  alive,         \* the object has not been deleted
  starts         \* history: the threads created so far

flags == <<started, requestStop, stopped>>
lifecycle == <<flags, thread, mutexThreads, wpc, cpc, alive, starts>>
mcvars == <<vars, lifecycle>>

MCInit ==
  /\ Init
  /\ started = FALSE /\ requestStop = FALSE /\ stopped = TRUE
  /\ thread = None
  /\ mutexThreads = None
  /\ wpc = [w \in Dispatchers |-> "none"]
  /\ cpc = [c \in Controllers |-> "idle"]
  /\ alive = TRUE
  /\ starts = 0

-----------------------------------------------------------------------------
(* ThreadWorker *)

Sleepers == {w \in Dispatchers : wpc[w] = "sleep"}
WorkerGoto(w, l) == wpc' = [wpc EXCEPT ![w] = l]

\* The loop ends, and m_stopped is set, when a stop was requested.
CheckStop(w) ==
  /\ wpc[w] = "check"
  /\ WorkerGoto(w, IF requestStop THEN "exited" ELSE "get")
  /\ stopped' = (stopped \/ requestStop)
  /\ UNCHANGED <<vars, started, requestStop, thread, mutexThreads, cpc, alive, starts>>

TakeMessage(w) ==
  /\ wpc[w] = "get"
  /\ GetQueueMessage(w)
  /\ WorkerGoto(w, "dispatch")
  /\ UNCHANGED <<flags, thread, mutexThreads, cpc, alive, starts>>

\* No message: the worker is about to wait.  GetQueueMessage has released
\* m_mutexMessages, and the wait has no predicate: a message that is posted now
\* goes unnoticed.
FindNothing(w) ==
  /\ wpc[w] = "get"
  /\ queue = << >>
  /\ WorkerGoto(w, "lock")
  /\ UNCHANGED <<vars, flags, thread, mutexThreads, cpc, alive, starts>>

Sleep(w) ==
  /\ wpc[w] = "lock"
  /\ WorkerGoto(w, "sleep")
  /\ UNCHANGED <<vars, flags, thread, mutexThreads, cpc, alive, starts>>

\* Mutant of Timeout: wait in place of wait_for.
TimeoutNever(w) ==
  /\ FALSE
  /\ WorkerGoto(w, "check")
  /\ UNCHANGED <<vars, flags, thread, mutexThreads, cpc, alive, starts>>

\* 50 ms have passed.
Timeout(w) ==
  /\ wpc[w] = "sleep"
  /\ WorkerGoto(w, "check")
  /\ UNCHANGED <<vars, flags, thread, mutexThreads, cpc, alive, starts>>

WorkerDispatch(w) ==
  /\ wpc[w] = "dispatch"
  /\ DispatchStep(w)
  /\ WorkerGoto(w, IF pc'[w] = "ready" THEN "check" ELSE "dispatch")
  /\ UNCHANGED <<flags, thread, mutexThreads, cpc, alive, starts>>

-----------------------------------------------------------------------------
(* The operations of the EventQueue; Post wakes a sleeping worker *)

NotifyOne ==
  IF Sleepers = {} THEN UNCHANGED wpc ELSE \E w \in Sleepers : WorkerGoto(w, "check")

ManageQueue(t) ==
  /\ alive
  /\ Manage(t)
  /\ UNCHANGED lifecycle

PostMessage(t) ==
  /\ alive
  /\ PostSome(t)
  /\ IF queue' = queue THEN UNCHANGED wpc ELSE NotifyOne
  /\ UNCHANGED <<flags, thread, mutexThreads, cpc, alive, starts>>

WaitForDispatches(t) ==
  /\ WaitStep(t) \/ SpuriousWakeup(t)
  /\ UNCHANGED lifecycle

-----------------------------------------------------------------------------
(* Start, Stop and the destructor *)

ControllerGoto(c, l) == cpc' = [cpc EXCEPT ![c] = l]

\* m_started is read before the lock is taken.
StartCheck(c) ==
  /\ alive
  /\ cpc[c] = "idle"
  /\ ~ started
  /\ starts < MaxStarts
  /\ ControllerGoto(c, "start")
  /\ UNCHANGED <<vars, flags, thread, mutexThreads, wpc, alive, starts>>

StartThread(c) ==
  /\ cpc[c] = "start"
  /\ mutexThreads = None
  /\ requestStop' = FALSE /\ stopped' = FALSE /\ started' = TRUE
  /\ \E w \in Dispatchers :
       /\ wpc[w] = "none"
       /\ thread' = w
       /\ WorkerGoto(w, "check")
  /\ starts' = starts + 1
  /\ ControllerGoto(c, "idle")
  /\ UNCHANGED <<vars, mutexThreads, alive>>

\* m_stopped is read before the lock is taken.
StopCheck(c) ==
  /\ alive
  /\ cpc[c] = "idle"
  /\ ~ stopped
  /\ ControllerGoto(c, "stop")
  /\ UNCHANGED <<vars, flags, thread, mutexThreads, wpc, alive, starts>>

\* Mutant of StopRequest: the join is not done under the lock.
StopRequestUnlocked(c) ==
  /\ cpc[c] = "stop"
  /\ mutexThreads = None
  /\ requestStop' = TRUE
  /\ wpc' = [w \in Dispatchers |-> IF w \in Sleepers THEN "check" ELSE wpc[w]]
  /\ ControllerGoto(c, IF thread # None THEN "join" ELSE "idle")
  /\ started' = (started /\ thread # None)
  /\ UNCHANGED <<vars, mutexThreads, stopped, thread, alive, starts>>

\* The request, and notify_all.
StopRequest(c) ==
  /\ cpc[c] = "stop"
  /\ mutexThreads = None
  /\ requestStop' = TRUE
  /\ wpc' = [w \in Dispatchers |-> IF w \in Sleepers THEN "check" ELSE wpc[w]]
  /\ IF thread # None
       THEN /\ mutexThreads' = c
            /\ ControllerGoto(c, "join")
            /\ UNCHANGED started
       ELSE /\ started' = FALSE
            /\ ControllerGoto(c, "idle")
            /\ UNCHANGED mutexThreads
  /\ UNCHANGED <<vars, stopped, thread, alive, starts>>

\* Mutant of StopJoin: the thread is detached instead of joined.
StopDetach(c) ==
  /\ cpc[c] = "join"
  /\ thread' = None
  /\ started' = FALSE
  /\ mutexThreads' = None
  /\ ControllerGoto(c, "idle")
  /\ UNCHANGED <<vars, requestStop, stopped, wpc, alive, starts>>

StopJoin(c) ==
  /\ cpc[c] = "join"
  /\ wpc[thread] = "exited"
  /\ WorkerGoto(thread, "none")
  /\ thread' = None
  /\ started' = FALSE
  /\ mutexThreads' = None
  /\ ControllerGoto(c, "idle")
  /\ UNCHANGED <<vars, requestStop, stopped, alive, starts>>

\* The end of DisposeDefaultMessageCenter: Stop has returned and nobody uses the
\* object any more, which is the caller's obligation.  ~EventQueue disposes.
Destroy(t) ==
  /\ alive
  /\ ~ started /\ thread = None
  /\ \A c \in Controllers : cpc[c] = "idle"
  /\ \A s \in Clients : pc[s] = "idle"
  /\ Dispose(t)
  /\ alive' = FALSE
  /\ UNCHANGED <<flags, thread, mutexThreads, wpc, cpc, starts>>

Destroyed == ~ alive /\ UNCHANGED mcvars

-----------------------------------------------------------------------------

WorkerStep(w) ==
  CheckStop(w) \/ TakeMessage(w) \/ FindNothing(w) \/ Sleep(w) \/ Timeout(w) \/ WorkerDispatch(w)

StopStep(c) == StopRequest(c) \/ StopJoin(c)

MCNext ==
  \/ \E w \in Dispatchers : WorkerStep(w)
  \/ \E t \in Threads : ManageQueue(t) \/ PostMessage(t)
  \/ \E t \in Clients : WaitForDispatches(t) \/ Destroy(t)
  \/ \E c \in Controllers : StartCheck(c) \/ StartThread(c) \/ StopCheck(c) \/ StopStep(c)
  \/ Destroyed

MCSpec == MCInit /\ [][MCNext]_mcvars

(***************************************************************************)
(* Threads are scheduled, handlers return, and a wait of 50 ms ends.       *)
(***************************************************************************)
MCFairness ==
  /\ \A w \in Dispatchers : WF_mcvars(WorkerStep(w))
  /\ \A t \in Clients : WF_mcvars(WaitStep(t) /\ UNCHANGED lifecycle)
  /\ \A c \in Controllers : WF_mcvars(StopStep(c))

MCFairSpec == MCSpec /\ MCFairness

-----------------------------------------------------------------------------
(* Properties *)

\* Every variable of the lifecycle has its type, and m_mutexThreads is held by
\* the controller that joins the thread and by no other.
MCTypeOK ==
  /\ started \in BOOLEAN /\ requestStop \in BOOLEAN /\ stopped \in BOOLEAN
  /\ thread \in Dispatchers \cup {None}
  /\ mutexThreads \in Controllers \cup {None}
  /\ wpc \in [Dispatchers -> {"none", "check", "get", "lock", "sleep", "dispatch", "exited"}]
  /\ cpc \in [Controllers -> {"idle", "start", "stop", "join"}]
  /\ alive \in BOOLEAN
  /\ starts \in 0 .. MaxStarts
  /\ \A c \in Controllers : cpc[c] = "join" <=> mutexThreads = c

\* One thread at most works the queue, it is m_thread, and without it no message
\* is being dispatched: once Stop has returned, no handler runs.
OnlyTheThreadWorks ==
  \A w \in Dispatchers :
    /\ w # thread => wpc[w] = "none" /\ pc[w] = "ready"
    /\ wpc[w] # "dispatch" => pc[w] = "ready"

\* A message is taken out of the queue although its notification may find nobody
\* waiting, unless the center is stopped.
Delivered ==
  \A m \in Messages :
    started /\ (\E k \in 1 .. Len(queue) : queue[k] = m)
      ~> requestStop \/ \A k \in 1 .. Len(queue) : queue[k] # m

\* Stop returns, though its notification may find the worker not yet waiting.
StopReturns ==
  \A c \in Controllers : cpc[c] \in {"stop", "join"} ~> cpc[c] = "idle"

\* memory_leak_test.cpp:83-84: no payload that was posted for cleanup outlives a
\* center that was started and disposed.
NoPayloadOutlives ==
  ~ alive /\ starts > 0 => \A m \in Messages : payload[m] # "lost"
=============================================================================
