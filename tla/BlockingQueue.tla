---------------------------- MODULE BlockingQueue ----------------------------
(***************************************************************************)
(* The bounded blocking queue of util/bounded_blocking_queue.h (and of the  *)
(* C++ class in bounded_blocking_queue.hpp): a ring under one mutex with    *)
(* two condition variables.  Everything a thread does while it holds the    *)
(* mutex is one action; pthread_cond_wait gives the mutex up and the woken  *)
(* thread tests everything again when it gets it back.                      *)
(***************************************************************************)
EXTENDS Integers, Sequences, FiniteSets

CONSTANTS Putters,   \* the threads that call queue_put
          Getters,   \* the threads that call queue_get until it is closed
          MaxElems,  \* the size given to queue_init
          Cells,     \* the number of cells allocated for data
          PutsEach,  \* how many items each putter puts (bound)
          NoItem     \* NULL

ASSUME MaxElemsAssumption == MaxElems \in Nat \ {0}
ASSUME PutsEachAssumption == PutsEach \in Nat \ {0}
ASSUME ThreadsAssumption == /\ IsFiniteSet(Putters) /\ IsFiniteSet(Getters)
                            /\ Putters \cap Getters = {}
ASSUME NoItemAssumption == NoItem \notin Putters \X (1 .. PutsEach)

Item == Putters \X (1 .. PutsEach)
Threads == Putters \cup Getters

(* queue_init keeps one cell free to tell full from empty. *)
Size == MaxElems + 1
Slot == 0 .. Size - 1

(* The cells that exist: queue_init allocates Size of them, the constructor   *)
(* of the C++ class MaxElems.                                               *)
AllocatedCell == 0 .. Cells - 1

VARIABLES
    out, in, closed, data,  \* queue_t
    pc,      \* pc[t]: "ready" to lock, in "wait", "woken" from it, or at "end"
    puts,    \* puts[p]: the items p has put
    ret,     \* ret[g]: what the last queue_get of g returned
    closer   \* where the thread that calls queue_close is

vars == <<out, in, closed, data, pc, puts, ret, closer>>

Init ==
    /\ out = 0 /\ in = 0 /\ closed = FALSE
    /\ data = [i \in Slot |-> NoItem]
    /\ pc = [t \in Threads |-> "ready"]
    /\ puts = [p \in Putters |-> 0]
    /\ ret = [g \in Getters |-> NoItem]
    /\ closer = "idle"
-----------------------------------------------------------------------------
Succ(i) == (i + 1) % Size

NeverFull == FALSE   \* mutant: no test for room
Full == Succ(in) = out
Empty == in = out

Waiting(T) == {t \in T : pc[t] = "wait"}
Woken(T) == {t \in T : pc[t] = "woken"}

Runs(t) == pc[t] \in {"ready", "woken"}

(* What happens to pc when t goes on to state s and signals the condition    *)
(* variable on which threads of T wait: one of them wakes, if there is one. *)
SignalNobody(T, t, s) == pc' = [pc EXCEPT ![t] = s]   \* mutant: no signal
Signal(T, t, s) ==
    \/ /\ Waiting(T) = {}
       /\ pc' = [pc EXCEPT ![t] = s]
    \/ \E w \in Waiting(T) : pc' = [pc EXCEPT ![t] = s, ![w] = "woken"]

(* queue_put: one pass through the loop, with the mutex. *)
PutClosed(p) ==
    /\ Runs(p) /\ closed
    /\ pc' = [pc EXCEPT ![p] = "end"]
    /\ UNCHANGED <<out, in, closed, data, puts, ret, closer>>

PutWait(p) ==
    /\ Runs(p) /\ ~closed /\ Full
    /\ pc' = [pc EXCEPT ![p] = "wait"]
    /\ UNCHANGED <<out, in, closed, data, puts, ret, closer>>

PutStore(p) ==
    /\ Runs(p) /\ ~closed /\ ~Full
    /\ data' = [data EXCEPT ![in] = <<p, puts[p] + 1>>]
    /\ in' = Succ(in)
    /\ puts' = [puts EXCEPT ![p] = @ + 1]
    /\ Signal(Getters, p, IF puts[p] + 1 = PutsEach THEN "end" ELSE "ready")
    /\ UNCHANGED <<out, closed, ret, closer>>

(* queue_get: one pass through the loop, with the mutex. *)
GetClosed(g) ==
    /\ Runs(g) /\ closed
    /\ ret' = [ret EXCEPT ![g] = NoItem]
    /\ pc' = [pc EXCEPT ![g] = "end"]
    /\ UNCHANGED <<out, in, closed, data, puts, closer>>

GetWait(g) ==
    /\ Runs(g) /\ ~closed /\ Empty
    /\ pc' = [pc EXCEPT ![g] = "wait"]
    /\ UNCHANGED <<out, in, closed, data, puts, ret, closer>>

GetTake(g) ==
    /\ Runs(g) /\ ~closed /\ ~Empty
    /\ ret' = [ret EXCEPT ![g] = data[out]]
    /\ out' = Succ(out)
    /\ Signal(Putters, g, "ready")
    /\ UNCHANGED <<in, closed, data, puts, closer>>

(* queue_close: the flag under the mutex, then the two broadcasts without it. *)
CloseSet ==
    /\ closer = "idle"
    /\ closed' = TRUE
    /\ closer' = "not_empty"
    /\ UNCHANGED <<out, in, data, pc, puts, ret>>

WakeAll(T) == pc' = [t \in Threads |-> IF t \in Waiting(T) THEN "woken" ELSE pc[t]]

CloseNotEmpty ==
    /\ closer = "not_empty"
    /\ WakeAll(Getters)
    /\ closer' = "not_full"
    /\ UNCHANGED <<out, in, closed, data, puts, ret>>

CloseNotFullForgotten ==   \* mutant: only one broadcast
    /\ closer = "not_full"
    /\ closer' = "returned"
    /\ UNCHANGED <<out, in, closed, data, pc, puts, ret>>

CloseNotFull ==
    /\ closer = "not_full"
    /\ WakeAll(Putters)
    /\ closer' = "returned"
    /\ UNCHANGED <<out, in, closed, data, puts, ret>>

(* pthread_cond_wait may return without a signal. *)
SpuriousWake(t) ==
    /\ pc[t] = "wait"
    /\ pc' = [pc EXCEPT ![t] = "woken"]
    /\ UNCHANGED <<out, in, closed, data, puts, ret, closer>>

PutStep(p) == PutClosed(p) \/ PutWait(p) \/ PutStore(p)
GetStep(g) == GetClosed(g) \/ GetWait(g) \/ GetTake(g)
Broadcast == CloseNotEmpty \/ CloseNotFull

Next ==
    \/ \E p \in Putters : PutStep(p)
    \/ \E g \in Getters : GetStep(g)
    \/ CloseSet \/ Broadcast
    \/ \E t \in Threads : SpuriousWake(t)

Spec == Init /\ [][Next]_vars

(* Threads that can run do run, a queue_close that was called goes on; nobody *)
(* has to call it.                                                           *)
FairSpec == /\ Spec
            /\ \A p \in Putters : WF_vars(PutStep(p))
            /\ \A g \in Getters : WF_vars(GetStep(g))
            /\ WF_vars(Broadcast)
-----------------------------------------------------------------------------
(* Properties. *)

TypeOK ==
    /\ out \in Slot /\ in \in Slot
    /\ closed \in BOOLEAN
    /\ data \in [Slot -> Item \cup {NoItem}]
    /\ pc \in [Threads -> {"ready", "wait", "woken", "end"}]
    /\ puts \in [Putters -> 0 .. PutsEach]
    /\ \A p \in Putters : pc[p] # "end" => puts[p] < PutsEach
    /\ ret \in [Getters -> Item \cup {NoItem}]
    /\ closer \in {"idle", "not_empty", "not_full", "returned"}

(* How many items are inside, and how many more fit. *)
Used == IF in >= out THEN in - out ELSE in - out + Size
Free == MaxElems - Used

(* No wake-up is lost although queue_put and queue_get signal one thread at  *)
(* a time and a third thread may overtake the one that was woken: while      *)
(* somebody sleeps on not_empty there is a woken getter for every item, and  *)
(* while somebody sleeps on not_full a woken putter for every free cell.    *)
NoLostWakeup ==
    ~closed =>
        /\ Waiting(Getters) # {} => Used <= Cardinality(Woken(Getters))
        /\ Waiting(Putters) # {} => Free <= Cardinality(Woken(Putters))

(* Nobody sleeps on the queue any more when queue_close returns, although it *)
(* broadcasts without holding the mutex.                                    *)
CloseWakesEverybody == closer = "returned" => Waiting(Threads) = {}

(* The ring behind the two indices is a bounded FIFO queue. *)
Contents == [i \in 1 .. Used |-> data[(out + i - 1) % Size]]

Fifo == INSTANCE BoundedFifo WITH Getter <- Getters, queue <- Contents

FifoSpec == Fifo!Spec

(* No put waits for ever: all putters come to their end, whether or not the   *)
(* queue is closed meanwhile.                                               *)
PuttersFinish == \A p \in Putters : <>(pc[p] = "end")

(* After queue_close every thread comes out of the queue. *)
CloseEndsEverybody == closed ~> (\A t \in Threads : pc[t] = "end")

(* "One more cell is kept to tell full from empty": every item inside lies   *)
(* in a cell that was allocated.                                            *)
InAllocatedCells == \A i \in 1 .. Used : (out + i - 1) % Size \in AllocatedCell
=============================================================================
