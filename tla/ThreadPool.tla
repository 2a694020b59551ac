----------------------------- MODULE ThreadPool -----------------------------
(***************************************************************************)
(* The thread pool of util/threadpool.c: workers that take tasks from a     *)
(* ring under one mutex and one condition variable, threadpool_add, and     *)
(* the two ways of threadpool_destroy.  What a thread does between lock and  *)
(* unlock is one action.  The mutex itself is a variable because one path   *)
(* of threadpool_destroy returns without releasing it.                      *)
(***************************************************************************)
EXTENDS Integers, FiniteSets

CONSTANTS ThreadCount,  \* thread_count given to threadpool_create
          QueueSize,    \* queue_size
          Tasks,        \* the tasks clients may add
          Destroyers,   \* the client threads that call threadpool_destroy
          Creator,      \* the thread in threadpool_create
          NoTask

ASSUME ThreadCountAssumption == ThreadCount \in Nat \ {0}
ASSUME QueueSizeAssumption == QueueSize \in Nat \ {0}
ASSUME NamesAssumption == NoTask \notin Tasks /\ Creator \notin Destroyers

Worker == 1 .. ThreadCount
Closer == Destroyers \cup {Creator}
Slot == 0 .. QueueSize - 1

(* The values of threadpool_shutdown_t, and 0 for a pool in service. *)
immediate_shutdown == 1
graceful_shutdown == 2

VARIABLES
    thread_count, started, queue, head, tail, count, shutdown,  \* threadpool_t
    lock,     \* "free", or "held" by a thread that never unlocks
    freed,    \* threadpool_free has released the pool
    cpc,      \* where threadpool_create is
    wpc,      \* wpc[w]: where worker w is
    work,     \* work[w]: the task w has grabbed
    dpc,      \* dpc[d]: where the call of threadpool_destroy by d is
    joined,   \* joined[d]: i of its join loop
    status    \* status[t]: what became of task t

poolVars == <<thread_count, started, queue, head, tail, count, shutdown>>
vars == <<poolVars, lock, freed, cpc, wpc, work, dpc, joined, status>>

Init ==
    /\ thread_count = 0 /\ started = 0
    /\ queue = [i \in Slot |-> NoTask]
    /\ head = 0 /\ tail = 0 /\ count = 0 /\ shutdown = 0
    /\ lock = "free" /\ freed = FALSE /\ cpc = "start"
    /\ wpc = [w \in Worker |-> "none"]
    /\ work = [w \in Worker |-> NoTask]
    /\ dpc = [d \in Closer |-> "idle"]
    /\ joined = [d \in Closer |-> 0]
    /\ status = [t \in Tasks |-> "new"]
-----------------------------------------------------------------------------
(* threadpool_create: one round of the loop that starts the workers... *)
CreateThread ==
    /\ cpc = "start"
    /\ wpc' = [wpc EXCEPT ![thread_count + 1] = "ready"]
    /\ thread_count' = thread_count + 1
    /\ started' = started + 1
    /\ cpc' = IF thread_count + 1 = ThreadCount THEN "returned" ELSE "start"
    /\ UNCHANGED <<queue, head, tail, count, shutdown, lock, freed, work, dpc,
                   joined, status>>

(* ... and the round in which pthread_create fails: the pool is destroyed    *)
(* with flags 0 and the caller gets NULL.                                   *)
CreateFails ==
    /\ cpc = "start"
    /\ cpc' = "failed"
    /\ dpc' = [dpc EXCEPT ![Creator] = "immediate"]
    /\ UNCHANGED <<poolVars, lock, freed, wpc, work, joined, status>>
-----------------------------------------------------------------------------
Waiting == {w \in Worker : wpc[w] = "wait"}

(* pthread_cond_signal: one of the waiting workers wakes, if there is one. *)
NoSignal == UNCHANGED wpc   \* mutant: the signal is missing
Signal ==
    \/ Waiting = {} /\ UNCHANGED wpc
    \/ \E w \in Waiting : wpc' = [wpc EXCEPT ![w] = "woken"]

(* threadpool_add by a client that holds the pool threadpool_create returned. *)
Client(t) == cpc = "returned" /\ ~freed /\ lock = "free" /\ status[t] = "new"

AddFull(t) ==
    /\ Client(t)
    /\ count = QueueSize
    /\ status' = [status EXCEPT ![t] = "full"]
    /\ UNCHANGED <<poolVars, lock, freed, cpc, wpc, work, dpc, joined>>

AddShutdown(t) ==
    /\ Client(t)
    /\ count # QueueSize /\ shutdown # 0
    /\ status' = [status EXCEPT ![t] = "shutdown"]
    /\ UNCHANGED <<poolVars, lock, freed, cpc, wpc, work, dpc, joined>>

AcceptsAlways == shutdown = 0   \* mutant: a full queue is not noticed
Accepts == count # QueueSize /\ shutdown = 0

AddTask(t) ==
    /\ Client(t)
    /\ Accepts
    /\ queue' = [queue EXCEPT ![tail] = t]
    /\ tail' = (tail + 1) % QueueSize
    /\ count' = count + 1
    /\ Signal
    /\ status' = [status EXCEPT ![t] = "queued"]
    /\ UNCHANGED <<thread_count, started, head, shutdown, lock, freed, cpc, work,
                   dpc, joined>>
-----------------------------------------------------------------------------
(* threadpool_thread.  A worker that is ready or woken gets the mutex. *)
Locks(w) == wpc[w] \in {"ready", "woken"} /\ lock = "free"

WorkerWait(w) ==
    /\ Locks(w)
    /\ count = 0 /\ shutdown = 0
    /\ wpc' = [wpc EXCEPT ![w] = "wait"]
    /\ UNCHANGED <<poolVars, lock, freed, cpc, work, dpc, joined, status>>

(* When a worker leaves its loop. *)
LeavesAtOnce == shutdown # 0   \* mutant: graceful is treated like immediate
Leaves == \/ shutdown = immediate_shutdown
          \/ shutdown = graceful_shutdown /\ count = 0

WorkerExit(w) ==
    /\ Locks(w)
    /\ Leaves
    /\ started' = started - 1
    /\ wpc' = [wpc EXCEPT ![w] = "exited"]
    /\ UNCHANGED <<thread_count, queue, head, tail, count, shutdown, lock, freed,
                   cpc, work, dpc, joined, status>>

NextHeadStays == head   \* mutant: head is not moved on
NextHead == (head + 1) % QueueSize

WorkerTake(w) ==
    /\ Locks(w)
    /\ ~(count = 0 /\ shutdown = 0) /\ ~Leaves
    /\ work' = [work EXCEPT ![w] = queue[head]]
    /\ status' = [status EXCEPT ![queue[head]] = "running"]
    /\ head' = NextHead
    /\ count' = count - 1
    /\ wpc' = [wpc EXCEPT ![w] = "run"]
    /\ UNCHANGED <<thread_count, started, queue, tail, shutdown, lock, freed, cpc,
                   dpc, joined>>

WorkerRun(w) ==
    /\ wpc[w] = "run"
    /\ status' = [status EXCEPT ![work[w]] = "done"]
    /\ wpc' = [wpc EXCEPT ![w] = "ready"]
    /\ UNCHANGED <<poolVars, lock, freed, cpc, work, dpc, joined>>

SpuriousWake(w) ==
    /\ wpc[w] = "wait"
    /\ wpc' = [wpc EXCEPT ![w] = "woken"]
    /\ UNCHANGED <<poolVars, lock, freed, cpc, work, dpc, joined, status>>
-----------------------------------------------------------------------------
(* threadpool_destroy. *)
CallDestroy(d) ==
    /\ d # Creator /\ dpc[d] = "idle"
    /\ cpc = "returned" /\ ~freed
    /\ \E flags \in {"immediate", "graceful"} : dpc' = [dpc EXCEPT ![d] = flags]
    /\ UNCHANGED <<poolVars, lock, freed, cpc, wpc, work, joined, status>>

(* Already shutting down: the error return keeps the mutex. *)
DestroyAgain(d) ==
    /\ dpc[d] \in {"immediate", "graceful"}
    /\ lock = "free" /\ shutdown # 0
    /\ lock' = "held"
    /\ dpc' = [dpc EXCEPT ![d] = "error"]
    /\ UNCHANGED <<poolVars, freed, cpc, wpc, work, joined, status>>

WakeOne == Signal   \* mutant: signal instead of broadcast
WakeAll == wpc' = [w \in Worker |-> IF w \in Waiting THEN "woken" ELSE wpc[w]]

DestroyBegin(d) ==
    /\ dpc[d] \in {"immediate", "graceful"}
    /\ lock = "free" /\ shutdown = 0
    /\ shutdown' = IF dpc[d] = "graceful" THEN graceful_shutdown
                                          ELSE immediate_shutdown
    /\ WakeAll
    /\ dpc' = [dpc EXCEPT ![d] = "join"]
    /\ UNCHANGED <<thread_count, started, queue, head, tail, count, lock, freed,
                   cpc, work, joined, status>>

(* One pthread_join of the loop. *)
ExitedOrBusy(w) == wpc[w] \in {"exited", "run"}   \* mutant: does not wait for tasks
Exited(w) == wpc[w] = "exited"

DestroyJoin(d) ==
    /\ dpc[d] = "join" /\ joined[d] < thread_count
    /\ Exited(joined[d] + 1)
    /\ joined' = [joined EXCEPT ![d] = @ + 1]
    /\ UNCHANGED <<poolVars, lock, freed, cpc, wpc, work, dpc, status>>

(* threadpool_free, which refuses while workers are counted as started, and  *)
(* otherwise releases the arrays and takes the mutex "just in case".         *)
DestroyFree(d) ==
    /\ dpc[d] = "join" /\ joined[d] = thread_count
    /\ freed' = (started = 0)
    /\ dpc' = [dpc EXCEPT ![d] = IF started = 0 THEN "free" ELSE "returned"]
    /\ UNCHANGED <<poolVars, lock, cpc, wpc, work, joined, status>>

DestroyReturn(d) ==
    /\ dpc[d] = "free" /\ lock = "free"
    /\ dpc' = [dpc EXCEPT ![d] = "returned"]
    /\ UNCHANGED <<poolVars, lock, freed, cpc, wpc, work, joined, status>>

Work(w) == WorkerWait(w) \/ WorkerExit(w) \/ WorkerTake(w) \/ WorkerRun(w)
Destroy(d) == \/ DestroyAgain(d) \/ DestroyBegin(d) \/ DestroyJoin(d)
              \/ DestroyFree(d) \/ DestroyReturn(d)
Add(t) == AddFull(t) \/ AddShutdown(t) \/ AddTask(t)

Next ==
    \/ CreateThread \/ CreateFails
    \/ \E t \in Tasks : Add(t)
    \/ \E w \in Worker : Work(w) \/ SpuriousWake(w)
    \/ \E d \in Closer : CallDestroy(d) \/ Destroy(d)

Spec == Init /\ [][Next]_vars

(* Workers that can run do run, tasks end, and a call of threadpool_destroy  *)
(* goes on; nobody has to add a task or to call it.                         *)
FairSpec == /\ Spec
            /\ \A w \in Worker : WF_vars(Work(w))
            /\ \A d \in Closer : WF_vars(Destroy(d))
-----------------------------------------------------------------------------
(* Properties. *)

TypeOK ==
    /\ thread_count \in 0 .. ThreadCount /\ started \in Int
    /\ queue \in [Slot -> Tasks \cup {NoTask}]
    /\ head \in Slot /\ tail \in Slot /\ count \in 0 .. QueueSize
    /\ shutdown \in {0, immediate_shutdown, graceful_shutdown}
    /\ lock \in {"free", "held"} /\ freed \in BOOLEAN
    /\ cpc \in {"start", "returned", "failed"}
    /\ wpc \in [Worker -> {"none", "ready", "wait", "woken", "run", "exited"}]
    /\ work \in [Worker -> Tasks \cup {NoTask}]
    /\ dpc \in [Closer -> {"idle", "immediate", "graceful", "join", "free",
                           "returned", "error"}]
    /\ joined \in [Closer -> 0 .. ThreadCount]
    /\ status \in [Tasks -> {"new", "queued", "running", "done", "full", "shutdown"}]

(* The ring between head and tail holds exactly the accepted tasks that no   *)
(* worker has grabbed, each once: threadpool_add neither drops nor repeats   *)
(* a task, also where the ring wraps and where it is full.                  *)
Pending == [i \in 1 .. count |-> queue[(head + (i - 1)) % QueueSize]]

RingHoldsQueued ==
    /\ tail = (head + count) % QueueSize
    /\ {Pending[i] : i \in 1 .. count} = {t \in Tasks : status[t] = "queued"}
    /\ \A i, j \in 1 .. count : Pending[i] = Pending[j] => i = j

(* Workers grab the tasks in the order in which threadpool_add accepted       *)
(* them, each task once, and none after an immediate shutdown: what lies       *)
(* between head and tail is a bounded FIFO queue that a shutdown may close.    *)
Fifo == INSTANCE BoundedFifo WITH
            Item <- Tasks, Getter <- Worker, MaxElems <- QueueSize, NoItem <- NoTask,
            queue <- Pending, closed <- (shutdown = immediate_shutdown), ret <- work

TasksInOrder == Fifo!Spec

(* No worker sleeps while a task waits for one that is busy: as long as       *)
(* somebody sleeps there is, for every queued task, a worker of its own that   *)
(* is about to look at the ring, although threadpool_add signals one worker     *)
(* at a time and a worker that was not asleep may take the task first; and      *)
(* nobody sleeps in a pool that is shut down.                                 *)
Alert == {w \in Worker : wpc[w] \in {"ready", "woken"}}

SleepersLeaveNoWork ==
    Waiting # {} => shutdown = 0 /\ count <= Cardinality(Alert)

(* No two workers run the same task. *)
OneWorkerPerTask ==
    \A v, w \in Worker : wpc[v] = "run" /\ wpc[w] = "run" /\ v # w => work[v] # work[w]

(* threadpool_destroy releases the pool before it returns, and not before     *)
(* every worker that was started has left, so that nobody touches it          *)
(* afterwards: threadpool_free finds started at 0 after the joins.  This also *)
(* covers a threadpool_create that fails half way.                          *)
FreedAfterWorkers ==
    /\ freed => \A w \in Worker : wpc[w] \in {"none", "exited"}
    /\ \A d \in Closer : dpc[d] = "returned" => freed

(* A graceful threadpool_destroy that releases the pool has seen every       *)
(* accepted task to its end.                                                *)
GracefulDrains ==
    freed /\ shutdown = graceful_shutdown =>
        \A t \in Tasks : status[t] \notin {"queued", "running"}

(* threadpool_destroy returns, whatever the workers are doing when it is    *)
(* called, as long as no other call has returned with the mutex held.       *)
DestroyReturns ==
    \A d \in Closer : dpc[d] \in {"immediate", "graceful"} ~>
                         (dpc[d] = "returned" \/ lock = "held")

(* An accepted task is run, unless the pool is shut down immediately or a    *)
(* call has returned with the mutex held.                                   *)
AcceptedTasksRun ==
    \A t \in Tasks : status[t] = "queued" ~>
        (status[t] = "done" \/ shutdown = immediate_shutdown \/ lock = "held")

(* "processes all pending tasks before shutdown": every task accepted before *)
(* a graceful threadpool_destroy is run.                                    *)
GracefulRunsPending ==
    \A t \in Tasks : status[t] = "queued" /\ shutdown = graceful_shutdown ~>
                        status[t] = "done"
=============================================================================
