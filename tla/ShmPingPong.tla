----------------------------- MODULE ShmPingPong -----------------------------
(***************************************************************************)
(* 20230108-pubsub-shm-udp-3/message_bench.cc: thread 1 publishes on topic 1 *)
(* and subscribes to topic 2, thread 2 the other way round, and each answers *)
(* a message from inside the callback that received it.  Two segments of     *)
(* ShmBlock, one per topic, and one datagram socket per subscriber.  Both     *)
(* publishers know their subscriber, as after the first uv_run.              *)
(***************************************************************************)
EXTENDS ShmBlock

CONSTANTS COUNT   \* the number of round trips

ASSUME CountAssumption == COUNT \in Nat \ {0}
ASSUME TopicsAssumption == Segment = {1, 2}

Thread == {1, 2}
PubTopic(t) == t
SubTopic(t) == 3 - t

VARIABLES
    pc,        \* pc[t]: where thread t is
    pos, word, \* locals of LockForRead
    blk,       \* the block Send has acquired
    next,      \* the number Send is to write
    got,       \* got[t]: the number RecvProc read last
    inbox,     \* inbox[k]: datagrams waiting at the subscriber of topic k
    open       \* open[k]: the subscriber of topic k has not stopped

threadVars == <<pc, pos, word, blk, next, got, inbox, open>>
vars == <<shmVars, threadVars>>

(* multi_thread_main: both segments are constructed, thread 1 is in Send(1)  *)
(* outside of any callback, thread 2 in uv_run.                             *)
Init ==
    /\ locks = [k \in Segment |-> [i \in Block |-> kRWLockFree]]
    /\ read_pos = [k \in Segment |-> -1]
    /\ data = [k \in Segment |-> [i \in Block |-> Unwritten]]
    /\ pc = [t \in Thread |-> IF t = 1 THEN "lock" ELSE "loop"]
    /\ pos = [t \in Thread |-> -1] /\ word = [t \in Thread |-> 0]
    /\ blk = [t \in Thread |-> 0]
    /\ next = [t \in Thread |-> IF t = 1 THEN 1 ELSE 0]
    /\ got = [t \in Thread |-> 0]
    /\ inbox = [k \in Segment |-> 0]
    /\ open = [k \in Segment |-> TRUE]

Goto(t, from, to) == pc[t] = from /\ pc' = [pc EXCEPT ![t] = to]
-----------------------------------------------------------------------------
(* message_read_cb. *)
Receive(t) ==
    /\ open[SubTopic(t)] /\ inbox[SubTopic(t)] > 0
    /\ Goto(t, "loop", "pos")
    /\ inbox' = [inbox EXCEPT ![SubTopic(t)] = @ - 1]
    /\ UNCHANGED <<shmVars, pos, word, blk, next, got, open>>

LoadReadPos(t) ==
    /\ Goto(t, "pos", IF read_pos[SubTopic(t)] < 0 THEN "assert" ELSE "word")
    /\ pos' = [pos EXCEPT ![t] = read_pos[SubTopic(t)]]
    /\ UNCHANGED <<shmVars, word, blk, next, got, inbox, open>>

LoadLock(t) ==
    /\ Goto(t, "word", IF SeesWriter(pos[t], locks[SubTopic(t)][pos[t]]) THEN "pos"
                                                                         ELSE "cas")
    /\ word' = [word EXCEPT ![t] = locks[SubTopic(t)][pos[t]]]
    /\ UNCHANGED <<shmVars, pos, blk, next, got, inbox, open>>

CasLock(t) ==
    /\ \/ Goto(t, "cas", "callback") /\ AddReader(SubTopic(t), pos[t], word[t])
       \/ /\ Goto(t, "cas", "pos")
          /\ locks[SubTopic(t)][pos[t]] # word[t]
          /\ UNCHANGED shmVars
    /\ UNCHANGED <<pos, word, blk, next, got, inbox, open>>

(* RecvProc up to Send: stop the subscriber behind the last number, thread 1  *)
(* answers with the next number, thread 2 with the same.                    *)
Last(v) == v > COUNT

RecvProc(t) ==
    /\ Goto(t, "callback", "lock")
    /\ LET v == data[SubTopic(t)][pos[t]]
       IN  /\ got' = [got EXCEPT ![t] = v]
           /\ next' = [next EXCEPT ![t] = IF t = 1 THEN v + 1 ELSE v]
           /\ open' = [open EXCEPT ![SubTopic(t)] = @ /\ ~Last(v)]
    /\ blk' = [blk EXCEPT ![t] = 0]
    /\ UNCHANGED <<shmVars, pos, word, inbox>>

(* Send: Acquire... *)
LockForWrite(t) ==
    /\ \/ Goto(t, "lock", "write") /\ TakeForWrite(PubTopic(t), blk[t]) /\ UNCHANGED blk
       \/ /\ Goto(t, "lock", "lock")
          /\ ~FreeForWrite(PubTopic(t), blk[t])
          /\ blk' = [blk EXCEPT ![t] = (@ + 1) % BlockNum]
          /\ UNCHANGED shmVars
    /\ UNCHANGED <<pos, word, next, got, inbox, open>>

Write(t) ==
    /\ Goto(t, "write", "unlock")
    /\ WriteBlock(PubTopic(t), blk[t], next[t])
    /\ UNCHANGED <<pos, word, blk, next, got, inbox, open>>

(* ... and Publish. *)
ReleaseLock(t) ==
    /\ Goto(t, "unlock", "publish")
    /\ StoreFree(PubTopic(t), blk[t])
    /\ UNCHANGED <<pos, word, blk, next, got, inbox, open>>

ReleasePos(t) ==
    /\ Goto(t, "publish", "notify")
    /\ StoreReadPos(PubTopic(t), blk[t])
    /\ UNCHANGED <<pos, word, blk, next, got, inbox, open>>

NotifyNobody(t) ==   \* mutant: the datagram is not sent
    /\ Goto(t, "notify", "release")
    /\ UNCHANGED <<shmVars, pos, word, blk, next, got, inbox, open>>

NotifyTwice(t) ==   \* mutant: the subscriber is in subs_ twice
    /\ Goto(t, "notify", "release")
    /\ inbox' = IF open[PubTopic(t)] THEN [inbox EXCEPT ![PubTopic(t)] = @ + 2] ELSE inbox
    /\ UNCHANGED <<shmVars, pos, word, blk, next, got, open>>

Notify(t) ==
    /\ Goto(t, "notify", "release")
    /\ inbox' = IF open[PubTopic(t)] THEN [inbox EXCEPT ![PubTopic(t)] = @ + 1] ELSE inbox
    /\ UNCHANGED <<shmVars, pos, word, blk, next, got, open>>

(* The callback returns and the block is released; a thread whose handles     *)
(* are closed leaves uv_run.  The first Send of thread 1 was no callback.    *)
Release(t) ==
    /\ Goto(t, "release", IF Last(got[t]) THEN "done" ELSE "loop")
    /\ IF pos[t] = -1 THEN UNCHANGED shmVars ELSE DropReader(SubTopic(t), pos[t])
    /\ UNCHANGED <<pos, word, blk, next, got, inbox, open>>

Step(t) == \/ Receive(t) \/ LoadReadPos(t) \/ LoadLock(t) \/ CasLock(t) \/ RecvProc(t)
           \/ LockForWrite(t) \/ Write(t) \/ ReleaseLock(t) \/ ReleasePos(t)
           \/ Notify(t) \/ Release(t)

Finished == (\A t \in Thread : pc[t] = "done") /\ UNCHANGED vars

Next == (\E t \in Thread : Step(t)) \/ Finished

Spec == Init /\ [][Next]_vars

(* Both threads keep running, and datagrams arrive (they are to the own host). *)
FairSpec == Spec /\ \A t \in Thread : WF_vars(Step(t))
-----------------------------------------------------------------------------
(* Properties. *)

Holds(t) == pc[t] \in {"callback", "lock", "write", "unlock", "publish", "notify",
                       "release"} /\ pos[t] # -1

(* A thread that is in its callback has its block for itself: the other one    *)
(* writes the next message elsewhere, although the answer leaves the callback  *)
(* before the block is released.                                            *)
CallbackOwnsBlock ==
    \A t, u \in Thread : Holds(t) /\ pc[u] \in {"write", "unlock"} /\ u # t
                            => blk[u] # pos[t]

(* The lock words say exactly who is in a block, so none is lost by the time    *)
(* the benchmark ends.                                                       *)
LocksAreExact ==
    \A t \in Thread : \A i \in Block :
        locks[SubTopic(t)][i] =
            IF pc[3 - t] \in {"write", "unlock"} /\ blk[3 - t] = i THEN kWriteExclusive
            ELSE IF Holds(t) /\ pos[t] = i THEN 1 ELSE kRWLockFree

(* RecvProc sees every number exactly once and in order, on both sides.       *)
EveryNumberOnce ==
    [][\A t \in Thread : RecvProc(t) => got'[t] = got[t] + 1]_vars

(* The benchmark ends: both threads leave uv_run, with both subscribers closed. *)
BenchmarkEnds == <>[](\A t \in Thread : pc[t] = "done" /\ ~open[t])
=============================================================================
