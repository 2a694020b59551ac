--------------------------- MODULE ThreadPoolProofs ---------------------------
(***************************************************************************)
(* Proofs about ThreadPool for any number of workers, tasks and callers of  *)
(* threadpool_destroy and any size of the ring: types, the contents of the  *)
(* ring and that it is a bounded FIFO queue, that no worker sleeps while a   *)
(* task waits for a busy one, and that the pool is released once, after its *)
(* workers and, when the shutdown is graceful, after all its tasks.         *)
(***************************************************************************)
EXTENDS ThreadPool, FiniteSetTheorems, SequenceTheorems, TLAPS

(* threadpool_create: the workers started so far are 1 .. thread_count, and   *)
(* nobody destroys or releases a pool that is still being made.              *)
CreateInv ==
    /\ cpc = "start" => thread_count < ThreadCount /\ ~freed
    /\ cpc = "returned" => thread_count = ThreadCount
    /\ \A d \in Closer : dpc[d] # "idle" => cpc # "start"
    /\ \A w \in Worker : wpc[w] = "none" <=> w > thread_count

LEMMA SlotFacts ==
    /\ 0 \in Slot
    /\ \A i \in Slot : (i + 1) % QueueSize \in Slot
  BY QueueSizeAssumption DEF Slot

(* What pthread_cond_signal and pthread_cond_broadcast do to the workers. *)
LEMMA WakeFacts ==
    ASSUME TypeOK, Signal \/ WakeAll
    PROVE  /\ wpc' \in [Worker -> {"none", "ready", "wait", "woken", "run", "exited"}]
           /\ \A w \in Worker : wpc'[w] = wpc[w] \/ (wpc[w] = "wait" /\ wpc'[w] = "woken")
<1>1. CASE Signal
  BY <1>1 DEF Signal, Waiting, TypeOK
<1>2. CASE WakeAll
  BY <1>2 DEF WakeAll, Waiting, TypeOK
<1> QED
  BY <1>1, <1>2

(* A worker takes a task only when there is one. *)
LEMMA TakeFacts ==
    ASSUME TypeOK, NEW w \in Worker, WorkerTake(w)
    PROVE  count > 0 /\ count \in Nat /\ count - 1 \in 0 .. QueueSize
  BY QueueSizeAssumption
     DEF TypeOK, WorkerTake, Leaves, immediate_shutdown, graceful_shutdown

TypeInv == TypeOK /\ CreateInv

LEMMA TypeStep == TypeInv /\ [Next]_vars => TypeInv'
<1> SUFFICES ASSUME TypeInv, [Next]_vars PROVE TypeInv'
  OBVIOUS
<1> USE ThreadCountAssumption, QueueSizeAssumption, SlotFacts
    DEF TypeInv, TypeOK, CreateInv, poolVars
<1>1. CASE CreateThread
  <2>1. thread_count + 1 \in Worker /\ thread_count + 1 \in 0 .. ThreadCount
    BY <1>1 DEF CreateThread, Worker
  <2> QED
    BY <1>1, <2>1 DEF CreateThread, Worker
<1>2. CASE CreateFails
  BY <1>2 DEF CreateFails, Closer
<1>3. ASSUME NEW t \in Tasks, Add(t) PROVE TypeInv'
  <2>1. CASE AddFull(t)
    BY <2>1 DEF AddFull
  <2>2. CASE AddShutdown(t)
    BY <2>2 DEF AddShutdown
  <2>3. CASE AddTask(t)
    <3>1. tail' \in Slot /\ count' \in 0 .. QueueSize
      BY <2>3 DEF AddTask, Accepts
    <3>2. queue' \in [Slot -> Tasks \cup {NoTask}]
      BY <2>3 DEF AddTask
    <3>3. /\ wpc' \in [Worker -> {"none", "ready", "wait", "woken", "run", "exited"}]
          /\ \A w \in Worker : wpc'[w] = "none" <=> wpc[w] = "none"
      BY <2>3, WakeFacts DEF AddTask
    <3> QED
      BY <2>3, <3>1, <3>2, <3>3 DEF AddTask
  <2> QED
    BY <1>3, <2>1, <2>2, <2>3 DEF Add
<1>4. ASSUME NEW w \in Worker, Work(w) PROVE TypeInv'
  <2>1. CASE WorkerWait(w)
    BY <2>1 DEF WorkerWait, Locks
  <2>2. CASE WorkerExit(w)
    BY <2>2 DEF WorkerExit, Locks
  <2>3. CASE WorkerTake(w)
    <3>1. head' \in Slot /\ count' \in 0 .. QueueSize /\ queue[head] \in Tasks \cup {NoTask}
      BY <2>3, TakeFacts DEF WorkerTake, NextHead
    <3> QED
      BY <2>3, <3>1 DEF WorkerTake, Locks
  <2>4. CASE WorkerRun(w)
    BY <2>4 DEF WorkerRun
  <2> QED
    BY <1>4, <2>1, <2>2, <2>3, <2>4 DEF Work
<1>5. ASSUME NEW w \in Worker, SpuriousWake(w) PROVE TypeInv'
  BY <1>5 DEF SpuriousWake
<1>6. ASSUME NEW d \in Closer, CallDestroy(d) PROVE TypeInv'
  BY <1>6 DEF CallDestroy
<1>7. ASSUME NEW d \in Closer, Destroy(d) PROVE TypeInv'
  <2>1. CASE DestroyAgain(d)
    BY <2>1 DEF DestroyAgain
  <2>2. CASE DestroyBegin(d)
    <3>1. /\ wpc' \in [Worker -> {"none", "ready", "wait", "woken", "run", "exited"}]
          /\ \A w \in Worker : wpc'[w] = "none" <=> wpc[w] = "none"
      BY <2>2, WakeFacts DEF DestroyBegin
    <3> QED
      BY <2>2, <3>1 DEF DestroyBegin
  <2>3. CASE DestroyJoin(d)
    BY <2>3 DEF DestroyJoin
  <2>4. CASE DestroyFree(d)
    BY <2>4 DEF DestroyFree
  <2>5. CASE DestroyReturn(d)
    BY <2>5 DEF DestroyReturn
  <2> QED
    BY <1>7, <2>1, <2>2, <2>3, <2>4, <2>5 DEF Destroy
<1>8. CASE UNCHANGED vars
  BY <1>8 DEF vars
<1> QED
  BY <1>1, <1>2, <1>3, <1>4, <1>5, <1>6, <1>7, <1>8 DEF Next

LEMMA TypeInvariant == Spec => []TypeInv
<1>1. ASSUME Init PROVE TypeInv
  <2> USE <1>1, ThreadCountAssumption, QueueSizeAssumption, SlotFacts DEF Init
  <2>1. /\ wpc \in [Worker -> {"none", "ready", "wait", "woken", "run", "exited"}]
        /\ work \in [Worker -> Tasks \cup {NoTask}]
        /\ joined \in [Closer -> 0 .. ThreadCount]
        /\ queue \in [Slot -> Tasks \cup {NoTask}]
    OBVIOUS
  <2>2. /\ dpc \in [Closer -> {"idle", "immediate", "graceful", "join", "free",
                               "returned", "error"}]
        /\ status \in [Tasks -> {"new", "queued", "running", "done", "full", "shutdown"}]
    OBVIOUS
  <2>3. /\ thread_count \in 0 .. ThreadCount /\ started \in Int
        /\ head \in Slot /\ tail \in Slot /\ count \in 0 .. QueueSize
        /\ shutdown \in {0, immediate_shutdown, graceful_shutdown}
        /\ lock \in {"free", "held"}
        /\ cpc \in {"start", "returned", "failed"}
    OBVIOUS
  <2>4. freed \in BOOLEAN
    OBVIOUS
  <2>5. CreateInv
    BY DEF CreateInv, Worker
  <2> QED
    BY <2>1, <2>2, <2>3, <2>4, <2>5 DEF TypeInv, TypeOK
<1> QED
  BY <1>1, TypeStep, PTL DEF Spec

(* The variables keep their types: the indices stay in the ring, count        *)
(* within its size, and threadpool_create within its array of threads.       *)
THEOREM TypeCorrect == Spec => []TypeOK
  BY TypeInvariant, PTL DEF TypeInv
-----------------------------------------------------------------------------
(* The workers that run or may run, which started counts. *)
Active == {w \in Worker : wpc[w] \notin {"none", "exited"}}

(* What the joins rely on.  threadpool_free trusts started, so it must be      *)
(* exact; a worker that was joined has left and never comes back.             *)
JoinInv ==
    /\ started = Cardinality(Active)
    /\ \A d \in Closer : joined[d] <= thread_count
    /\ \A d \in Closer : \A w \in Worker : w <= joined[d] => wpc[w] = "exited"
    /\ \A d \in Closer : dpc[d] \in {"free", "returned"} => freed
    /\ freed => Active = {}

LEMMA ActiveFinite == IsFiniteSet(Active)
<1>1. IsFiniteSet(Worker)
  BY FS_Interval, ThreadCountAssumption DEF Worker
<1> QED
  BY <1>1, FS_Subset DEF Active

(* Steps that neither start nor end a worker. *)
LEMMA JoinFrame ==
    ASSUME TypeInv, JoinInv,
           \A w \in Worker : wpc'[w] = wpc[w] \/ {wpc[w], wpc'[w]} \cap {"none", "exited"} = {},
           UNCHANGED <<started, joined, thread_count, freed>>,
           \A d \in Closer : dpc'[d] \in {"free", "returned"} => dpc[d] \in {"free", "returned"}
    PROVE  JoinInv'
<1>1. Active' = Active
  BY DEF Active
<1>2. \A w \in Worker : wpc[w] = "exited" => wpc'[w] = "exited"
  OBVIOUS
<1> QED
  BY <1>1, <1>2 DEF JoinInv

LEMMA JoinStep == TypeInv /\ JoinInv /\ [Next]_vars => JoinInv'
<1> SUFFICES ASSUME TypeInv, JoinInv, [Next]_vars PROVE JoinInv'
  OBVIOUS
<1> USE DEF TypeInv, poolVars
<1>1. CASE CreateThread
  <2> DEFINE w0 == thread_count + 1
  <2> USE <1>1 DEF CreateThread
  <2>1. w0 \in Worker /\ wpc[w0] = "none" /\ thread_count \in Nat
    BY ThreadCountAssumption DEF TypeOK, CreateInv, Worker
  <2>2. Active' = Active \cup {w0} /\ w0 \notin Active
    BY <2>1 DEF Active, TypeOK
  <2>3. Cardinality(Active') = Cardinality(Active) + 1
    BY <2>2, ActiveFinite, FS_AddElement
  <2>4. \A d \in Closer : \A w \in Worker : w <= joined[d] => wpc'[w] = "exited"
    BY <2>1 DEF JoinInv, TypeOK
  <2>5. \A d \in Closer : joined[d] <= thread_count + 1
    BY <2>1 DEF JoinInv, TypeOK
  <2>6. ~freed
    BY DEF CreateInv
  <2> QED
    BY <2>3, <2>4, <2>5, <2>6 DEF JoinInv
<1>2. CASE CreateFails
  BY <1>2, JoinFrame DEF CreateFails, TypeOK, Closer
<1>3. ASSUME NEW t \in Tasks, Add(t) PROVE JoinInv'
  <2>1. CASE AddFull(t) \/ AddShutdown(t)
    BY <2>1, JoinFrame DEF AddFull, AddShutdown
  <2>2. CASE AddTask(t)
    <3>1. Signal /\ UNCHANGED <<started, joined, thread_count, freed, dpc>>
      BY <2>2 DEF AddTask
    <3>2. \A w \in Worker : wpc'[w] = wpc[w] \/ {wpc[w], wpc'[w]} \cap {"none", "exited"} = {}
      BY <3>1, WakeFacts
    <3> QED
      BY <3>1, <3>2, JoinFrame
  <2> QED
    BY <1>3, <2>1, <2>2 DEF Add
<1>4. ASSUME NEW w \in Worker, Work(w) PROVE JoinInv'
  <2>1. CASE WorkerWait(w)
    BY <2>1, JoinFrame DEF WorkerWait, Locks, TypeOK
  <2>2. CASE WorkerExit(w)
    <3> USE <2>2 DEF WorkerExit, Locks
    <3>1. w \in Active /\ Active' = Active \ {w}
      BY DEF Active, TypeOK
    <3>2. Cardinality(Active') = Cardinality(Active) - 1
      BY <3>1, ActiveFinite, FS_RemoveElement
    <3>3. ~freed
      BY <3>1 DEF JoinInv
    <3> QED
      BY <3>2, <3>3 DEF JoinInv, TypeOK
  <2>3. CASE WorkerTake(w)
    BY <2>3, JoinFrame DEF WorkerTake, Locks, TypeOK
  <2>4. CASE WorkerRun(w)
    BY <2>4, JoinFrame DEF WorkerRun, TypeOK
  <2> QED
    BY <1>4, <2>1, <2>2, <2>3, <2>4 DEF Work
<1>5. ASSUME NEW w \in Worker, SpuriousWake(w) PROVE JoinInv'
  BY <1>5, JoinFrame DEF SpuriousWake, TypeOK
<1>6. ASSUME NEW d \in Closer, CallDestroy(d) PROVE JoinInv'
  BY <1>6, JoinFrame DEF CallDestroy, TypeOK
<1>7. ASSUME NEW d \in Closer, Destroy(d) PROVE JoinInv'
  <2>1. CASE DestroyAgain(d)
    BY <2>1, JoinFrame DEF DestroyAgain, TypeOK
  <2>2. CASE DestroyBegin(d)
    <3>1. \A w \in Worker : wpc'[w] = wpc[w] \/ {wpc[w], wpc'[w]} \cap {"none", "exited"} = {}
      BY <2>2, WakeFacts DEF DestroyBegin
    <3> QED
      BY <2>2, <3>1, JoinFrame DEF DestroyBegin, TypeOK
  <2>3. CASE DestroyJoin(d)
    <3> USE <2>3 DEF DestroyJoin, Exited
    <3>1. joined[d] \in Nat /\ thread_count \in Nat /\ joined[d] < thread_count
      BY ThreadCountAssumption DEF TypeOK
    <3>2. wpc[joined[d] + 1] = "exited"
      OBVIOUS
    <3>3. \A e \in Closer : joined'[e] = IF e = d THEN joined[d] + 1 ELSE joined[e]
      BY DEF TypeOK
    <3>4. \A w \in Worker : w <= joined[d] + 1 => w <= joined[d] \/ w = joined[d] + 1
      BY <3>1 DEF Worker
    <3>5. Active' = Active
      BY DEF Active
    <3> QED
      BY <3>1, <3>2, <3>3, <3>4, <3>5 DEF JoinInv
  <2>4. CASE DestroyFree(d)
    <3> USE <2>4 DEF DestroyFree
    <3>1. Active = {}
      BY ThreadCountAssumption DEF JoinInv, CreateInv, Active, Worker, TypeOK
    <3>2. started = 0 /\ freed' = TRUE
      BY <3>1, FS_EmptySet DEF JoinInv
    <3>3. Active' = Active
      BY DEF Active
    <3> QED
      BY <3>1, <3>2, <3>3 DEF JoinInv
  <2>5. CASE DestroyReturn(d)
    BY <2>5, JoinFrame DEF DestroyReturn, TypeOK
  <2> QED
    BY <1>7, <2>1, <2>2, <2>3, <2>4, <2>5 DEF Destroy
<1>8. CASE UNCHANGED vars
  BY <1>8, JoinFrame DEF vars
<1> QED
  BY <1>1, <1>2, <1>3, <1>4, <1>5, <1>6, <1>7, <1>8 DEF Next

LEMMA JoinInvariant == Spec => []JoinInv
<1>1. ASSUME Init PROVE JoinInv
  <2>1. Active = {}
    BY <1>1 DEF Init, Active
  <2>2. /\ started = 0 /\ thread_count = 0 /\ ~freed
        /\ \A d \in Closer : joined[d] = 0 /\ dpc[d] = "idle"
    BY <1>1 DEF Init
  <2> QED
    BY <2>1, <2>2, FS_EmptySet DEF JoinInv, Worker
<1> QED
  BY <1>1, JoinStep, TypeInvariant, PTL DEF Spec

(* threadpool_free releases the pool when and only when every worker that      *)
(* was started has left it, however many there are and however far           *)
(* threadpool_create came.                                                   *)
THEOREM ReleasedAfterWorkers == Spec => []FreedAfterWorkers
<1>1. JoinInv => FreedAfterWorkers
  BY DEF JoinInv, FreedAfterWorkers, Active
<1> QED
  BY <1>1, JoinInvariant, PTL
-----------------------------------------------------------------------------
(* The ring, position by position. *)
At(i) == queue[(head + i) % QueueSize]

RingInv ==
    /\ tail = (head + count) % QueueSize
    /\ \A i \in 0 .. count - 1 : At(i) \in Tasks /\ status[At(i)] = "queued"
    /\ \A t \in Tasks : status[t] = "queued" => \E i \in 0 .. count - 1 : At(i) = t
    /\ \A i, j \in 0 .. count - 1 : At(i) = At(j) => i = j

(* The tasks that run are those of the workers that run, one each. *)
RunInv ==
    /\ \A w \in Worker : wpc[w] = "run" => work[w] \in Tasks /\ status[work[w]] = "running"
    /\ \A t \in Tasks : status[t] = "running" => \E w \in Worker : wpc[w] = "run" /\ work[w] = t
    /\ OneWorkerPerTask

LEMMA ModFacts ==
    \A a \in Nat : a < 2 * QueueSize =>
        a % QueueSize = IF a < QueueSize THEN a ELSE a - QueueSize
  BY QueueSizeAssumption

LEMMA RingFacts ==
    ASSUME NEW h \in Slot
    PROVE  /\ \A i \in 0 .. QueueSize : (h + i) % QueueSize \in Slot
           /\ \A i, j \in 0 .. QueueSize - 1 :
                 (h + i) % QueueSize = (h + j) % QueueSize => i = j
           /\ \A i \in 0 .. QueueSize - 1 :
                 (((h + 1) % QueueSize) + i) % QueueSize = (h + (i + 1)) % QueueSize
           /\ \A i \in 0 .. QueueSize - 1 :
                 (((h + i) % QueueSize) + 1) % QueueSize = (h + (i + 1)) % QueueSize
<1> USE QueueSizeAssumption DEF Slot
<1>1. \A i \in 0 .. QueueSize : (h + i) % QueueSize =
                IF h + i < QueueSize THEN h + i ELSE h + i - QueueSize
  BY ModFacts
<1>2. \A i \in 0 .. QueueSize : (h + i) % QueueSize \in Slot
  BY <1>1
<1>3. \A i, j \in 0 .. QueueSize - 1 :
          (h + i) % QueueSize = (h + j) % QueueSize => i = j
  BY <1>1
<1>4. ASSUME NEW i \in 0 .. QueueSize - 1
      PROVE  (((h + 1) % QueueSize) + i) % QueueSize = (h + (i + 1)) % QueueSize
  <2> DEFINE g == (h + 1) % QueueSize
  <2>1. g = (IF h + 1 < QueueSize THEN h + 1 ELSE 0) /\ g \in Slot
    BY <1>1
  <2>2. (g + i) % QueueSize = IF g + i < QueueSize THEN g + i ELSE g + i - QueueSize
    BY <2>1, ModFacts
  <2>3. (h + (i + 1)) % QueueSize =
            IF h + (i + 1) < QueueSize THEN h + (i + 1) ELSE h + (i + 1) - QueueSize
    BY <1>1
  <2> QED
    BY <2>1, <2>2, <2>3
<1>5. ASSUME NEW i \in 0 .. QueueSize - 1
      PROVE  (((h + i) % QueueSize) + 1) % QueueSize = (h + (i + 1)) % QueueSize
  <2> DEFINE g == (h + i) % QueueSize
  <2>1. g = (IF h + i < QueueSize THEN h + i ELSE h + i - QueueSize) /\ g \in Slot
    BY <1>1
  <2>2. (g + 1) % QueueSize = IF g + 1 < QueueSize THEN g + 1 ELSE g + 1 - QueueSize
    BY <2>1, ModFacts
  <2>3. (h + (i + 1)) % QueueSize =
            IF h + (i + 1) < QueueSize THEN h + (i + 1) ELSE h + (i + 1) - QueueSize
    BY <1>1
  <2> QED
    BY <2>1, <2>2, <2>3
<1> QED
  BY <1>2, <1>3, <1>4, <1>5

LEMMA AddRing ==
    ASSUME TypeOK, RingInv, NEW t \in Tasks, AddTask(t)
    PROVE  RingInv'
<1> USE QueueSizeAssumption
<1>1. /\ count \in Nat /\ count < QueueSize /\ head \in Slot /\ head' = head
      /\ tail \in Slot /\ tail = (head + count) % QueueSize /\ count' = count + 1
      /\ status[t] = "new" /\ tail' = (tail + 1) % QueueSize
      /\ queue \in [Slot -> Tasks \cup {NoTask}]
      /\ queue' = [queue EXCEPT ![tail] = t]
  BY DEF AddTask, Client, Accepts, TypeOK, RingInv
<1>2. PICK n \in 0 .. QueueSize - 1 : n = count
  BY <1>1
<1>3. At(n)' = t
  BY <1>1, <1>2 DEF At
<1>4. ASSUME NEW i \in 0 .. n - 1 PROVE At(i)' = At(i) /\ At(i) # t
  <2>1. (head + i) % QueueSize # tail /\ (head + i) % QueueSize \in Slot
    <3>1. i \in 0 .. QueueSize - 1 /\ i # n
      BY <1>2
    <3> QED
      <4>1. (head + i) % QueueSize # (head + n) % QueueSize /\ (head + i) % QueueSize \in Slot
        <5>1. \A x, y \in 0 .. QueueSize - 1 :
                 (head + x) % QueueSize = (head + y) % QueueSize => x = y
          BY <1>1, RingFacts, Zenon
        <5>2. \A x \in 0 .. QueueSize : (head + x) % QueueSize \in Slot
          BY <1>1, RingFacts, Zenon
        <5>3. i \in 0 .. QueueSize
          BY <3>1
        <5> QED
          BY <3>1, <5>1, <5>2, <5>3, Zenon
      <4> QED
        BY <1>1, <1>2, <4>1
  <2>2. At(i)' = At(i)
    BY <1>1, <2>1 DEF At
  <2>3. status[At(i)] = "queued"
    BY <1>2 DEF RingInv
  <2> QED
    BY <1>1, <2>2, <2>3
<1>5. \A u \in Tasks : status'[u] = IF u = t THEN "queued" ELSE status[u]
  BY DEF AddTask, TypeOK
<1>6. /\ \A i \in 0 .. count' - 1 : i \in 0 .. n - 1 \/ i = n
      /\ \A i \in 0 .. n - 1 : i \in 0 .. count' - 1
      /\ n \in 0 .. count' - 1
  BY <1>1, <1>2
<1>7. /\ \A i \in 0 .. n - 1 : At(i) \in Tasks /\ status[At(i)] = "queued"
      /\ \A u \in Tasks : status[u] = "queued" => \E i \in 0 .. n - 1 : At(i) = u
      /\ \A i, j \in 0 .. n - 1 : At(i) = At(j) => i = j
  BY <1>2 DEF RingInv
<1>8. \A i \in 0 .. count' - 1 : At(i)' \in Tasks /\ status'[At(i)'] = "queued"
  BY <1>3, <1>4, <1>5, <1>6, <1>7
<1>10. \A u \in Tasks : status'[u] = "queued" => \E i \in 0 .. count' - 1 : At(i)' = u
  BY <1>3, <1>4, <1>5, <1>6, <1>7
<1>11. \A i, j \in 0 .. count' - 1 : At(i)' = At(j)' => i = j
  BY <1>3, <1>4, <1>6, <1>7
<1>9. tail' = (head' + count') % QueueSize
  <2>1. \A i \in 0 .. QueueSize - 1 :
            (((head + i) % QueueSize) + 1) % QueueSize = (head + (i + 1)) % QueueSize
    BY <1>1, RingFacts, Zenon
  <2>2. (((head + n) % QueueSize) + 1) % QueueSize = (head + (n + 1)) % QueueSize
    BY <2>1
  <2> QED
    BY <1>1, <1>2, <2>2
<1> QED
  BY <1>8, <1>9, <1>10, <1>11 DEF RingInv

LEMMA TakeRing ==
    ASSUME TypeOK, RingInv, NEW w \in Worker, WorkerTake(w)
    PROVE  RingInv' /\ queue[head] \in Tasks /\ status[queue[head]] = "queued"
<1> USE QueueSizeAssumption
<1>1. /\ count \in Nat /\ 0 < count /\ count <= QueueSize /\ head \in Slot
      /\ head' = (head + 1) % QueueSize /\ count' = count - 1
      /\ queue' = queue /\ tail' = tail
  <2>1. 0 < count
    BY TakeFacts
  <2> QED
    BY <2>1 DEF TypeOK, WorkerTake, NextHead
<1>2. At(0) = queue[head] /\ 0 \in 0 .. count - 1
  BY <1>1, ModFacts DEF At, Slot
<1>3. queue[head] \in Tasks /\ status[queue[head]] = "queued"
  BY <1>2 DEF RingInv
<1>4. ASSUME NEW i \in 0 .. count' - 1
      PROVE  i + 1 \in 0 .. count - 1 /\ At(i)' = At(i + 1) /\ At(i + 1) # queue[head]
  <2>1. i + 1 \in 0 .. count - 1 /\ i \in 0 .. QueueSize - 1
    BY <1>1
  <2>2. At(i)' = At(i + 1)
    BY <1>1, <2>1, RingFacts DEF At
  <2> QED
    BY <1>1, <1>2, <2>1, <2>2 DEF RingInv
<1>5. \A u \in Tasks : status'[u] = IF u = queue[head] THEN "running" ELSE status[u]
  BY DEF WorkerTake, TypeOK
<1>6. \A i \in 0 .. count' - 1 : At(i)' \in Tasks /\ status'[At(i)'] = "queued"
  BY <1>4, <1>5 DEF RingInv
<1>7. \A u \in Tasks : status'[u] = "queued" => \E i \in 0 .. count' - 1 : At(i)' = u
  <2> SUFFICES ASSUME NEW u \in Tasks, status'[u] = "queued"
               PROVE  \E i \in 0 .. count' - 1 : At(i)' = u
    OBVIOUS
  <2>1. PICK j \in 0 .. count - 1 : At(j) = u
    BY <1>5 DEF RingInv
  <2>2. j # 0
    BY <1>2, <1>5, <2>1
  <2>3. j - 1 \in 0 .. count' - 1 /\ (j - 1) + 1 = j
    BY <1>1, <2>2
  <2>4. At(j - 1)' = u
    BY <1>4, <2>1, <2>3
  <2> QED
    BY <2>3, <2>4
<1>8. \A i, j \in 0 .. count' - 1 : At(i)' = At(j)' => i = j
  <2> SUFFICES ASSUME NEW i \in 0 .. count' - 1, NEW j \in 0 .. count' - 1, At(i)' = At(j)'
               PROVE  i = j
    OBVIOUS
  <2>1. i + 1 = j + 1
    BY <1>4 DEF RingInv
  <2> QED
    BY <1>1, <2>1
<1>9. tail' = (head' + count') % QueueSize
  <2>1. count - 1 \in 0 .. QueueSize - 1 /\ (count - 1) + 1 = count
    BY <1>1
  <2> QED
    BY <1>1, <2>1, RingFacts DEF RingInv
<1> QED
  BY <1>3, <1>6, <1>7, <1>8, <1>9 DEF RingInv

(* Steps that leave the ring, the tasks and the running workers alone. *)
LEMMA TaskFrame ==
    ASSUME RingInv, RunInv, UNCHANGED <<queue, head, tail, count, status, work>>,
           \A w \in Worker : wpc'[w] = "run" <=> wpc[w] = "run"
    PROVE  RingInv' /\ RunInv'
<1>1. \A i : At(i)' = At(i)
  BY DEF At
<1>2. RingInv'
  BY <1>1 DEF RingInv
<1> QED
  BY <1>2 DEF RunInv, OneWorkerPerTask

(* Steps that change what becomes of a task outside of the ring. *)
LEMMA RingFrame ==
    ASSUME RingInv, UNCHANGED <<queue, head, tail, count>>,
           \A t \in Tasks : status'[t] = "queued" <=> status[t] = "queued"
    PROVE  RingInv'
<1>1. \A i : At(i)' = At(i)
  BY DEF At
<1> QED
  BY <1>1 DEF RingInv

LEMMA TaskStep == TypeInv /\ RingInv /\ RunInv /\ [Next]_vars => RingInv' /\ RunInv'
<1> SUFFICES ASSUME TypeInv, RingInv, RunInv, [Next]_vars PROVE RingInv' /\ RunInv'
  OBVIOUS
<1> USE DEF TypeInv, poolVars
<1>1. CASE CreateThread
  BY <1>1, ThreadCountAssumption, TaskFrame DEF CreateThread, TypeOK, CreateInv, Worker
<1>2. CASE CreateFails
  BY <1>2, TaskFrame DEF CreateFails
<1>3. ASSUME NEW t \in Tasks, Add(t) PROVE RingInv' /\ RunInv'
  <2>1. CASE AddFull(t) \/ AddShutdown(t)
    <3>1. /\ UNCHANGED <<queue, head, tail, count, work, wpc>> /\ status[t] = "new"
          /\ \A u \in Tasks : u # t => status'[u] = status[u]
          /\ status'[t] \in {"full", "shutdown"}
      BY <2>1 DEF AddFull, AddShutdown, Client, TypeOK
    <3>2. RingInv'
      BY <3>1, RingFrame
    <3>3. RunInv'
      BY <3>1 DEF RunInv, OneWorkerPerTask
    <3> QED
      BY <3>2, <3>3
  <2>2. CASE AddTask(t)
    <3>1. /\ UNCHANGED work /\ status[t] = "new"
          /\ \A u \in Tasks : u # t => status'[u] = status[u]
          /\ status'[t] = "queued"
      BY <2>2 DEF AddTask, Client, TypeOK
    <3>2. \A w \in Worker : wpc'[w] = "run" <=> wpc[w] = "run"
      BY <2>2, WakeFacts DEF AddTask
    <3>3. RunInv'
      BY <3>1, <3>2 DEF RunInv, OneWorkerPerTask
    <3> QED
      BY <2>2, <3>3, AddRing
  <2> QED
    BY <1>3, <2>1, <2>2 DEF Add
<1>4. ASSUME NEW w \in Worker, Work(w) PROVE RingInv' /\ RunInv'
  <2>1. CASE WorkerWait(w)
    BY <2>1, TaskFrame DEF WorkerWait, Locks, TypeOK
  <2>2. CASE WorkerExit(w)
    BY <2>2, TaskFrame DEF WorkerExit, Locks, TypeOK
  <2>3. CASE WorkerTake(w)
    <3>1. RingInv' /\ queue[head] \in Tasks /\ status[queue[head]] = "queued"
      BY <2>3, TakeRing
    <3>2. /\ \A u \in Tasks : status'[u] = IF u = queue[head] THEN "running" ELSE status[u]
          /\ \A v \in Worker : work'[v] = IF v = w THEN queue[head] ELSE work[v]
          /\ \A v \in Worker : wpc'[v] = IF v = w THEN "run" ELSE wpc[v]
          /\ wpc[w] # "run"
      BY <2>3 DEF WorkerTake, Locks, TypeOK
    <3>3. RunInv'
      BY <3>1, <3>2 DEF RunInv, OneWorkerPerTask
    <3> QED
      BY <3>1, <3>3
  <2>4. CASE WorkerRun(w)
    <3>1. /\ wpc[w] = "run" /\ UNCHANGED <<queue, head, tail, count, work>>
          /\ \A u \in Tasks : status'[u] = IF u = work[w] THEN "done" ELSE status[u]
          /\ \A v \in Worker : wpc'[v] = IF v = w THEN "ready" ELSE wpc[v]
      BY <2>4 DEF WorkerRun, TypeOK
    <3>2. RingInv'
      BY <3>1, RingFrame DEF RunInv
    <3>3. RunInv'
      BY <3>1 DEF RunInv, OneWorkerPerTask
    <3> QED
      BY <3>2, <3>3
  <2> QED
    BY <1>4, <2>1, <2>2, <2>3, <2>4 DEF Work
<1>5. ASSUME NEW w \in Worker, SpuriousWake(w) PROVE RingInv' /\ RunInv'
  BY <1>5, TaskFrame DEF SpuriousWake, TypeOK
<1>6. ASSUME NEW d \in Closer, CallDestroy(d) PROVE RingInv' /\ RunInv'
  BY <1>6, TaskFrame DEF CallDestroy
<1>7. ASSUME NEW d \in Closer, Destroy(d) PROVE RingInv' /\ RunInv'
  <2>1. \A w \in Worker : wpc'[w] = "run" <=> wpc[w] = "run"
    <3>1. CASE DestroyBegin(d)
      BY <3>1, WakeFacts DEF DestroyBegin
    <3>2. CASE ~DestroyBegin(d)
      BY <1>7, <3>2 DEF Destroy, DestroyAgain, DestroyJoin, DestroyFree, DestroyReturn
    <3> QED
      BY <3>1, <3>2
  <2>2. UNCHANGED <<queue, head, tail, count, status, work>>
    BY <1>7 DEF Destroy, DestroyAgain, DestroyBegin, DestroyJoin, DestroyFree, DestroyReturn
  <2> QED
    BY <2>1, <2>2, TaskFrame
<1>8. CASE UNCHANGED vars
  BY <1>8, TaskFrame DEF vars
<1> QED
  BY <1>1, <1>2, <1>3, <1>4, <1>5, <1>6, <1>7, <1>8 DEF Next

LEMMA TaskInvariant == Spec => [](RingInv /\ RunInv)
<1>1. ASSUME Init PROVE RingInv /\ RunInv
  <2>1. /\ head = 0 /\ tail = 0 /\ count = 0
        /\ \A t \in Tasks : status[t] = "new"
        /\ \A w \in Worker : wpc[w] = "none"
    BY <1>1 DEF Init
  <2>2. (0 + 0) % QueueSize = 0
    BY QueueSizeAssumption
  <2>3. RingInv
    BY <2>1, <2>2 DEF RingInv
  <2> QED
    BY <2>1, <2>3 DEF RunInv, OneWorkerPerTask
<1> QED
  BY <1>1, TaskStep, TypeInvariant, PTL DEF Spec

LEMMA RingInvImplies == TypeOK /\ RingInv => RingHoldsQueued
<1> SUFFICES ASSUME TypeOK, RingInv PROVE RingHoldsQueued
  OBVIOUS
<1>1. count \in Nat
  BY QueueSizeAssumption DEF TypeOK
<1>2. \A i \in 1 .. count : Pending[i] = At(i - 1) /\ i - 1 \in 0 .. count - 1
  BY <1>1 DEF Pending, At
<1>3. \A i \in 0 .. count - 1 : i + 1 \in 1 .. count /\ (i + 1) - 1 = i
  BY <1>1
<1>4. \A i \in 0 .. count - 1 : Pending[i + 1] = At(i)
  BY <1>2, <1>3
<1>5. {Pending[i] : i \in 1 .. count} \subseteq {u \in Tasks : status[u] = "queued"}
  BY <1>2 DEF RingInv
<1>6. ASSUME NEW u \in Tasks, status[u] = "queued" PROVE u \in {Pending[i] : i \in 1 .. count}
  <2>1. PICK i \in 0 .. count - 1 : At(i) = u
    BY <1>6 DEF RingInv
  <2> QED
    BY <1>3, <1>4, <2>1
<1>7. ASSUME NEW i \in 1 .. count, NEW j \in 1 .. count, Pending[i] = Pending[j] PROVE i = j
  <2>1. i - 1 = j - 1
    BY <1>2, <1>7 DEF RingInv
  <2> QED
    BY <1>1, <2>1
<1> QED
  BY <1>5, <1>6, <1>7 DEF RingHoldsQueued, RingInv

(* threadpool_add and the workers neither drop nor repeat a task, for any     *)
(* size of the ring.                                                         *)
THEOREM RingIsExact == Spec => []RingHoldsQueued
  BY RingInvImplies, TaskInvariant, TypeCorrect, PTL

(* A task is grabbed by one worker only, however many there are. *)
THEOREM TasksRunOnce == Spec => []OneWorkerPerTask
<1>1. RunInv => OneWorkerPerTask
  BY DEF RunInv
<1> QED
  BY <1>1, TaskInvariant, PTL
-----------------------------------------------------------------------------
(* A worker leaves a graceful shutdown only when the ring is empty, which it   *)
(* stays; and only a pool that was completely made is shut down gracefully,    *)
(* so that there is a worker to leave.                                       *)
DrainInv ==
    /\ \A w \in Worker : wpc[w] = "exited" =>
           shutdown # 0 /\ (shutdown = graceful_shutdown => count = 0)
    /\ shutdown = graceful_shutdown => cpc = "returned"
    /\ \A d \in Closer : dpc[d] = "graceful" => cpc = "returned"

LEMMA DrainStep == TypeInv /\ DrainInv /\ [Next]_vars => DrainInv'
<1> SUFFICES ASSUME TypeInv, DrainInv, [Next]_vars PROVE DrainInv'
  OBVIOUS
<1> USE DEF TypeInv, poolVars, DrainInv, immediate_shutdown, graceful_shutdown
<1>1. CASE CreateThread
  BY <1>1 DEF CreateThread, TypeOK, CreateInv
<1>2. CASE CreateFails
  BY <1>2 DEF CreateFails, TypeOK
<1>3. ASSUME NEW t \in Tasks, Add(t) PROVE DrainInv'
  <2>1. CASE AddFull(t) \/ AddShutdown(t)
    BY <2>1 DEF AddFull, AddShutdown
  <2>2. CASE AddTask(t)
    <3>1. \A w \in Worker : wpc'[w] = "exited" => wpc[w] = "exited"
      BY <2>2, WakeFacts DEF AddTask
    <3>2. shutdown = 0 /\ UNCHANGED <<shutdown, cpc, dpc>>
      BY <2>2 DEF AddTask, Accepts
    <3> QED
      BY <3>1, <3>2
  <2> QED
    BY <1>3, <2>1, <2>2 DEF Add
<1>4. ASSUME NEW w \in Worker, Work(w) PROVE DrainInv'
  <2>1. CASE WorkerWait(w)
    BY <2>1 DEF WorkerWait, TypeOK
  <2>2. CASE WorkerExit(w)
    BY <2>2 DEF WorkerExit, Leaves, TypeOK
  <2>3. CASE WorkerTake(w)
    <3>1. count > 0 /\ UNCHANGED <<shutdown, cpc, dpc>>
      BY <2>3, TakeFacts DEF WorkerTake
    <3>2. \A v \in Worker : wpc'[v] = "exited" => wpc[v] = "exited"
      BY <2>3 DEF WorkerTake, TypeOK
    <3> QED
      BY <3>1, <3>2
  <2>4. CASE WorkerRun(w)
    BY <2>4 DEF WorkerRun, TypeOK
  <2> QED
    BY <1>4, <2>1, <2>2, <2>3, <2>4 DEF Work
<1>5. ASSUME NEW w \in Worker, SpuriousWake(w) PROVE DrainInv'
  BY <1>5 DEF SpuriousWake, TypeOK
<1>6. ASSUME NEW d \in Closer, CallDestroy(d) PROVE DrainInv'
  BY <1>6 DEF CallDestroy, TypeOK
<1>7. ASSUME NEW d \in Closer, Destroy(d) PROVE DrainInv'
  <2>1. CASE DestroyAgain(d)
    BY <2>1 DEF DestroyAgain, TypeOK
  <2>2. CASE DestroyBegin(d)
    <3>1. \A w \in Worker : wpc'[w] = "exited" => wpc[w] = "exited"
      BY <2>2, WakeFacts DEF DestroyBegin
    <3>2. \A w \in Worker : wpc[w] # "exited"
      BY <2>2 DEF DestroyBegin
    <3> QED
      BY <2>2, <3>1, <3>2 DEF DestroyBegin, TypeOK
  <2>3. CASE DestroyJoin(d)
    BY <2>3 DEF DestroyJoin
  <2>4. CASE DestroyFree(d)
    BY <2>4 DEF DestroyFree, TypeOK
  <2>5. CASE DestroyReturn(d)
    BY <2>5 DEF DestroyReturn, TypeOK
  <2> QED
    BY <1>7, <2>1, <2>2, <2>3, <2>4, <2>5 DEF Destroy
<1>8. CASE UNCHANGED vars
  BY <1>8 DEF vars
<1> QED
  BY <1>1, <1>2, <1>3, <1>4, <1>5, <1>6, <1>7, <1>8 DEF Next

LEMMA DrainInvariant == Spec => []DrainInv
<1>1. Init => DrainInv
  BY DEF Init, DrainInv, graceful_shutdown
<1> QED
  BY <1>1, DrainStep, TypeInvariant, PTL DEF Spec

(* "processes all pending tasks before shutdown", for a call that gets as far  *)
(* as releasing the pool: when threadpool_free has run after a graceful        *)
(* shutdown no accepted task is left waiting or running.                     *)
THEOREM GracefulShutdownDrains == Spec => []GracefulDrains
<1>1. ASSUME TypeInv, JoinInv, RingInv, RunInv, DrainInv PROVE GracefulDrains
  <2> SUFFICES ASSUME freed, shutdown = graceful_shutdown, NEW t \in Tasks
               PROVE  status[t] \notin {"queued", "running"}
    BY DEF GracefulDrains
  <2>1. \A w \in Worker : wpc[w] \in {"none", "exited"}
    BY <1>1 DEF JoinInv, Active
  <2>2. 1 \in Worker /\ wpc[1] # "none"
    BY <1>1, ThreadCountAssumption DEF TypeInv, CreateInv, DrainInv, Worker
  <2>3. count = 0
    BY <1>1, <2>1, <2>2 DEF DrainInv
  <2>4. status[t] # "queued"
    BY <1>1, <2>3 DEF RingInv
  <2>5. status[t] # "running"
    BY <1>1, <2>1 DEF RunInv
  <2> QED
    BY <2>4, <2>5
<1> QED
  BY <1>1, TypeInvariant, JoinInvariant, TaskInvariant, DrainInvariant, PTL
-----------------------------------------------------------------------------
(* Sleeping workers. *)

LEMMA AlertFinite ==
    /\ IsFiniteSet(Alert) /\ Cardinality(Alert) \in Nat
    /\ IsFiniteSet(Alert') /\ Cardinality(Alert') \in Nat
<1>1. IsFiniteSet(Worker)
  BY FS_Interval, ThreadCountAssumption DEF Worker
<1>2. Alert \subseteq Worker /\ Alert' \subseteq Worker
  BY DEF Alert
<1> QED
  BY <1>1, <1>2, FS_Subset, FS_CardinalityType

(* A worker that becomes ready or is woken makes the alert ones no fewer. *)
LEMMA AlertGrows ==
    ASSUME Alert \subseteq Alert' PROVE Cardinality(Alert) <= Cardinality(Alert')
  BY AlertFinite, FS_Subset

(* Steps after which no more workers sleep, no fewer are alert and no task    *)
(* more waits.                                                               *)
LEMMA SleepFrame ==
    ASSUME TypeInv, SleepersLeaveNoWork, Waiting' \subseteq Waiting, Alert \subseteq Alert',
           UNCHANGED <<count, shutdown>>
    PROVE  SleepersLeaveNoWork'
<1> SUFFICES ASSUME Waiting' # {} PROVE shutdown' = 0 /\ count' <= Cardinality(Alert')
  BY DEF SleepersLeaveNoWork
<1>1. shutdown = 0 /\ count <= Cardinality(Alert) /\ count \in Nat
  BY QueueSizeAssumption DEF SleepersLeaveNoWork, TypeInv, TypeOK
<1>2. Cardinality(Alert) <= Cardinality(Alert')
  BY AlertGrows
<1> QED
  BY <1>1, <1>2, AlertFinite

LEMMA SleepStep == TypeInv /\ SleepersLeaveNoWork /\ [Next]_vars => SleepersLeaveNoWork'
<1> SUFFICES ASSUME TypeInv, SleepersLeaveNoWork, [Next]_vars PROVE SleepersLeaveNoWork'
  OBVIOUS
<1> USE DEF TypeInv, poolVars
<1>0. count \in Nat
  BY QueueSizeAssumption DEF TypeOK
<1>1. CASE CreateThread
  BY <1>1, SleepFrame DEF CreateThread, Waiting, Alert, TypeOK
<1>2. CASE CreateFails
  BY <1>2, SleepFrame DEF CreateFails, Waiting, Alert
<1>3. ASSUME NEW t \in Tasks, Add(t) PROVE SleepersLeaveNoWork'
  <2>1. CASE AddFull(t) \/ AddShutdown(t)
    BY <2>1, SleepFrame DEF AddFull, AddShutdown, Waiting, Alert
  <2>2. CASE AddTask(t)
    <3>1. Signal /\ count' = count + 1 /\ shutdown' = shutdown
      BY <2>2 DEF AddTask
    <3>2. CASE Waiting = {} /\ UNCHANGED wpc
      BY <3>2 DEF SleepersLeaveNoWork, Waiting
    <3>3. ASSUME NEW w \in Waiting, wpc' = [wpc EXCEPT ![w] = "woken"]
          PROVE  SleepersLeaveNoWork'
      <4>1. w \in Worker /\ w \notin Alert /\ Alert' = Alert \cup {w}
        BY <3>3 DEF Waiting, Alert, TypeOK
      <4>2. Cardinality(Alert') = Cardinality(Alert) + 1
        BY <4>1, AlertFinite, FS_AddElement
      <4>3. shutdown = 0 /\ count <= Cardinality(Alert)
        BY <3>3 DEF SleepersLeaveNoWork
      <4> QED
        BY <1>0, <3>1, <4>2, <4>3, AlertFinite DEF SleepersLeaveNoWork
    <3> QED
      BY <3>1, <3>2, <3>3 DEF Signal
  <2> QED
    BY <1>3, <2>1, <2>2 DEF Add
<1>4. ASSUME NEW w \in Worker, Work(w) PROVE SleepersLeaveNoWork'
  <2>1. CASE WorkerWait(w)
    <3>1. count' = 0 /\ shutdown' = 0
      BY <2>1 DEF WorkerWait
    <3> QED
      BY <3>1, AlertFinite DEF SleepersLeaveNoWork
  <2>2. CASE WorkerExit(w)
    <3>1. shutdown # 0 /\ Waiting' = Waiting
      BY <2>2 DEF WorkerExit, Leaves, Locks, Waiting, TypeOK, immediate_shutdown,
                  graceful_shutdown
    <3> QED
      BY <3>1 DEF SleepersLeaveNoWork
  <2>3. CASE WorkerTake(w)
    <3>1. count' = count - 1 /\ shutdown' = shutdown /\ w \in Alert
      BY <2>3 DEF WorkerTake, Locks, Alert
    <3>2. Alert' = Alert \ {w} /\ Waiting' = Waiting
      BY <2>3 DEF WorkerTake, Locks, Alert, Waiting, TypeOK
    <3>3. Cardinality(Alert') = Cardinality(Alert) - 1
      BY <3>1, <3>2, AlertFinite, FS_RemoveElement
    <3> QED
      BY <1>0, <3>1, <3>2, <3>3, AlertFinite DEF SleepersLeaveNoWork
  <2>4. CASE WorkerRun(w)
    BY <2>4, SleepFrame DEF WorkerRun, Waiting, Alert, TypeOK
  <2> QED
    BY <1>4, <2>1, <2>2, <2>3, <2>4 DEF Work
<1>5. ASSUME NEW w \in Worker, SpuriousWake(w) PROVE SleepersLeaveNoWork'
  BY <1>5, SleepFrame DEF SpuriousWake, Waiting, Alert, TypeOK
<1>6. ASSUME NEW d \in Closer, CallDestroy(d) PROVE SleepersLeaveNoWork'
  BY <1>6, SleepFrame DEF CallDestroy, Waiting, Alert
<1>7. ASSUME NEW d \in Closer, Destroy(d) PROVE SleepersLeaveNoWork'
  <2>1. CASE DestroyBegin(d)
    <3>1. Waiting' = {}
      BY <2>1 DEF DestroyBegin, WakeAll, Waiting
    <3> QED
      BY <3>1 DEF SleepersLeaveNoWork
  <2>2. CASE DestroyAgain(d) \/ DestroyJoin(d) \/ DestroyFree(d) \/ DestroyReturn(d)
    BY <2>2, SleepFrame
       DEF DestroyAgain, DestroyJoin, DestroyFree, DestroyReturn, Waiting, Alert
  <2> QED
    BY <1>7, <2>1, <2>2 DEF Destroy
<1>8. CASE UNCHANGED vars
  BY <1>8, SleepFrame DEF vars, Waiting, Alert
<1> QED
  BY <1>1, <1>2, <1>3, <1>4, <1>5, <1>6, <1>7, <1>8 DEF Next

(* The one signal per accepted task and the broadcast of threadpool_destroy    *)
(* are enough, for any number of workers and tasks: whoever sleeps is not      *)
(* needed, although signalled workers race with those that never slept.      *)
THEOREM SleepersAreNotNeeded == Spec => []SleepersLeaveNoWork
<1>1. Init => SleepersLeaveNoWork
  BY DEF Init, SleepersLeaveNoWork, Waiting
<1> QED
  BY <1>1, SleepStep, TypeInvariant, PTL DEF Spec
-----------------------------------------------------------------------------
(* The refinement: the tasks between head and tail, read around the end of     *)
(* the ring, are the abstract queue.                                         *)

(* A function on 1 .. n is a sequence of length n. *)
LEMMA FunctionIsSeq ==
    ASSUME NEW V, NEW n \in Nat, NEW f \in [1 .. n -> V]
    PROVE  f \in Seq(V) /\ Len(f) = n
<1>1. f \in Seq(V)
  BY SeqDef
<1>2. DOMAIN f = 1 .. Len(f) /\ Len(f) \in Nat /\ DOMAIN f = 1 .. n
  BY <1>1, LenProperties
<1> QED
  BY <1>1, <1>2

PendingFact ==
    /\ Pending \in Seq(Tasks) /\ Len(Pending) = count
    /\ \A i \in 1 .. count : Pending[i] = At(i - 1)

LEMMA PendingIsSeq == TypeOK /\ RingInv => PendingFact
<1> SUFFICES ASSUME TypeOK, RingInv PROVE PendingFact
  OBVIOUS
<1>1. count \in Nat
  BY QueueSizeAssumption DEF TypeOK
<1>2. Pending = [i \in 1 .. count |-> At(i - 1)]
  BY DEF Pending, At
<1>3. \A i \in 1 .. count : At(i - 1) \in Tasks
  BY <1>1 DEF RingInv
<1>4. Pending \in [1 .. count -> Tasks]
  BY <1>2, <1>3
<1> QED
  BY <1>1, <1>2, <1>4, FunctionIsSeq DEF PendingFact

LEMMA PendingIsSeqNext == TypeOK' /\ RingInv' => PendingFact'
  BY PendingIsSeq, PTL

(* threadpool_add appends to the abstract queue, also where the ring wraps. *)
LEMMA AddAppends ==
    ASSUME TypeOK, RingInv, TypeOK', RingInv', NEW t \in Tasks, AddTask(t)
    PROVE  Pending' = Append(Pending, t) /\ Len(Pending) < QueueSize
<1>1. /\ count \in Nat /\ count < QueueSize /\ count' = count + 1
      /\ head \in Slot /\ head' = head /\ tail \in Slot
      /\ tail = (head + count) % QueueSize
      /\ queue \in [Slot -> Tasks \cup {NoTask}]
      /\ queue' = [queue EXCEPT ![tail] = t]
  BY QueueSizeAssumption DEF AddTask, Accepts, TypeOK, RingInv
<1>2. /\ Pending \in Seq(Tasks) /\ Len(Pending) = count
      /\ \A i \in 1 .. count : Pending[i] = At(i - 1)
  BY PendingIsSeq DEF PendingFact
<1>3. /\ Pending' \in Seq(Tasks) /\ Len(Pending') = count + 1
      /\ \A i \in 1 .. count + 1 : Pending'[i] = At(i - 1)'
  BY <1>1, PendingIsSeqNext DEF PendingFact
<1>4. /\ Append(Pending, t) \in Seq(Tasks) /\ Len(Append(Pending, t)) = count + 1
      /\ \A i \in 1 .. count : Append(Pending, t)[i] = Pending[i]
      /\ Append(Pending, t)[count + 1] = t
  BY <1>2, AppendProperties
<1>0. PICK n \in 0 .. QueueSize - 1 : n = count
  BY <1>1, QueueSizeAssumption
<1>5. At(n)' = t
  BY <1>0, <1>1 DEF At
<1>6. ASSUME NEW i \in 0 .. count - 1 PROVE At(i)' = At(i)
  <2>1. i \in 0 .. QueueSize - 1 /\ count \in 0 .. QueueSize - 1 /\ i # count
    BY <1>1, QueueSizeAssumption
  <2>2. (head + i) % QueueSize # tail
    BY <1>1, <2>1, RingFacts
  <2> QED
    BY <1>1, <2>2 DEF At
<1>7. ASSUME NEW i \in 1 .. count + 1 PROVE Pending'[i] = Append(Pending, t)[i]
  <2>1. CASE i = count + 1
    <3>1. i - 1 = n
      BY <1>0, <1>1, <2>1
    <3> QED
      BY <1>3, <1>4, <1>5, <2>1, <3>1
  <2>2. CASE i \in 1 .. count
    <3>1. i - 1 \in 0 .. count - 1
      BY <1>1, <2>2
    <3> QED
      BY <1>2, <1>3, <1>4, <1>6, <2>2, <3>1
  <2>3. i = count + 1 \/ i \in 1 .. count
    BY <1>1
  <2> QED
    BY <2>1, <2>2, <2>3
<1> QED
  BY <1>1, <1>2, <1>3, <1>4, <1>7, SeqEqual

(* A worker grabs the head and leaves the tail. *)
LEMMA TakeTails ==
    ASSUME TypeOK, RingInv, TypeOK', RingInv', NEW w \in Worker, WorkerTake(w)
    PROVE  /\ Pending # <<>> /\ Head(Pending) = queue[head]
           /\ Pending' = Tail(Pending)
<1>1. /\ count \in Nat /\ 0 < count /\ count <= QueueSize /\ count' = count - 1
      /\ head \in Slot /\ head' = (head + 1) % QueueSize /\ queue' = queue
  BY TakeFacts, QueueSizeAssumption DEF TypeOK, WorkerTake, NextHead
<1>2. /\ Pending \in Seq(Tasks) /\ Len(Pending) = count
      /\ \A i \in 1 .. count : Pending[i] = At(i - 1)
  BY PendingIsSeq DEF PendingFact
<1>3. /\ Pending' \in Seq(Tasks) /\ Len(Pending') = count - 1
      /\ \A i \in 1 .. count - 1 : Pending'[i] = At(i - 1)'
  BY <1>1, PendingIsSeqNext DEF PendingFact
<1>4. Pending # <<>>
  BY <1>1, <1>2, EmptySeq
<1>5. /\ Tail(Pending) \in Seq(Tasks) /\ Len(Tail(Pending)) = count - 1
      /\ \A i \in 1 .. count - 1 : Tail(Pending)[i] = Pending[i + 1]
  BY <1>2, <1>4, HeadTailProperties
<1>6. At(0) = queue[head]
  BY <1>1, ModFacts, QueueSizeAssumption DEF At, Slot
<1>7. ASSUME NEW i \in 1 .. count - 1 PROVE Pending'[i] = Tail(Pending)[i]
  <2>1. /\ i - 1 \in 0 .. QueueSize - 1 /\ (i - 1) + 1 = i
        /\ i + 1 \in 1 .. count /\ (i + 1) - 1 = i
    BY <1>1, QueueSizeAssumption
  <2>2. At(i - 1)' = At(i)
    BY <1>1, <2>1, RingFacts DEF At
  <2>3. Pending[i + 1] = At(i)
    BY <1>2, <2>1
  <2> QED
    BY <1>3, <1>5, <2>2, <2>3
<1>8. Pending' = Tail(Pending)
  BY <1>3, <1>5, <1>7, SeqEqual
<1>9. Head(Pending) = queue[head]
  BY <1>1, <1>2, <1>6
<1> QED
  BY <1>4, <1>8, <1>9

(* The pool serves its tasks in the order in which it accepted them, for any   *)
(* number of workers and any size of the ring: an accepted task joins the end  *)
(* of the queue, a worker gets the first one, and an immediate shutdown closes *)
(* the queue for good.                                                       *)
THEOREM PoolImplementsFifo == Spec => TasksInOrder
<1> DEFINE closed == shutdown = immediate_shutdown
<1>1. Init => Fifo!Init
  <2> SUFFICES ASSUME Init PROVE Fifo!Init
    OBVIOUS
  <2>1. Pending = <<>>
    BY DEF Init, Pending
  <2>2. closed = FALSE
    BY DEF Init, immediate_shutdown
  <2> QED
    BY <2>1, <2>2 DEF Init, Fifo!Init
<1>2. ASSUME TypeInv, TypeInv', RingInv, RingInv', [Next]_vars
      PROVE  [Fifo!Next]_(Fifo!fifoVars)
  <2> SUFFICES Fifo!Next \/ UNCHANGED <<Pending, closed, work>>
    BY DEF Fifo!fifoVars
  <2> USE <1>2 DEF TypeInv, poolVars
  <2>0. ASSUME UNCHANGED <<queue, head, count>> PROVE Pending' = Pending
    BY <2>0 DEF Pending
  <2>1. ASSUME NEW t \in Tasks, AddTask(t) PROVE Fifo!Next
    <3>1. Pending' = Append(Pending, t) /\ Len(Pending) < QueueSize
      BY <2>1, AddAppends
    <3>2. ~closed /\ UNCHANGED <<shutdown, work>>
      BY <2>1 DEF AddTask, Accepts, immediate_shutdown
    <3>3. Fifo!Put(t)
      BY <3>1, <3>2 DEF Fifo!Put
    <3> QED
      BY <3>3 DEF Fifo!Next
  <2>2. ASSUME NEW w \in Worker, WorkerTake(w) PROVE Fifo!Next
    <3>1. Pending # <<>> /\ Head(Pending) = queue[head] /\ Pending' = Tail(Pending)
      BY <2>2, TakeTails
    <3>2. ~closed /\ UNCHANGED shutdown /\ work' = [work EXCEPT ![w] = queue[head]]
      BY <2>2 DEF WorkerTake, Leaves
    <3>3. Fifo!Get(w)
      BY <3>1, <3>2 DEF Fifo!Get
    <3> QED
      BY <3>3 DEF Fifo!Next
  <2>3. ASSUME NEW d \in Closer, DestroyBegin(d)
        PROVE  Fifo!Next \/ UNCHANGED <<Pending, closed, work>>
    <3>1. Pending' = Pending /\ work' = work /\ shutdown = 0
      BY <2>0, <2>3 DEF DestroyBegin
    <3>2. CASE shutdown' = immediate_shutdown
      BY <3>1, <3>2 DEF Fifo!Close, Fifo!Next
    <3>3. CASE shutdown' # immediate_shutdown
      BY <3>1, <3>3 DEF immediate_shutdown
    <3> QED
      BY <3>2, <3>3
  <2>4. ASSUME UNCHANGED <<queue, head, count, shutdown, work>>
        PROVE  UNCHANGED <<Pending, closed, work>>
    BY <2>0, <2>4
  <2>5. CASE CreateThread \/ CreateFails \/ UNCHANGED vars
    BY <2>4, <2>5 DEF CreateThread, CreateFails, vars
  <2>6. ASSUME NEW t \in Tasks, AddFull(t) \/ AddShutdown(t)
        PROVE  UNCHANGED <<Pending, closed, work>>
    BY <2>4, <2>6 DEF AddFull, AddShutdown
  <2>7. ASSUME NEW w \in Worker,
               WorkerWait(w) \/ WorkerExit(w) \/ WorkerRun(w) \/ SpuriousWake(w)
        PROVE  UNCHANGED <<Pending, closed, work>>
    BY <2>4, <2>7 DEF WorkerWait, WorkerExit, WorkerRun, SpuriousWake
  <2>8. ASSUME NEW d \in Closer,
               \/ CallDestroy(d) \/ DestroyAgain(d) \/ DestroyJoin(d)
               \/ DestroyFree(d) \/ DestroyReturn(d)
        PROVE  UNCHANGED <<Pending, closed, work>>
    BY <2>4, <2>8 DEF CallDestroy, DestroyAgain, DestroyJoin, DestroyFree, DestroyReturn
  <2> QED
    BY <2>1, <2>2, <2>3, <2>5, <2>6, <2>7, <2>8 DEF Next, Add, Work, Destroy
<1> QED
  BY <1>1, <1>2, TypeInvariant, TaskInvariant, PTL DEF Spec, TasksInOrder, Fifo!Spec
=============================================================================
