-------------------------- MODULE ShmPingPongProofs --------------------------
(***************************************************************************)
(* The safety properties of ShmPingPong for any number of blocks and round  *)
(* trips.                                                                   *)
(*                                                                         *)
(* None of them is inductive.  They hold because one message is under way   *)
(* at a time: it is being written, waits as a datagram, or is being read,   *)
(* and the thread that has passed it on only releases its own block         *)
(* (OneMessage).  Numbers says which number that message has, Delivery      *)
(* that it lies where the reader will look for it.                          *)
(***************************************************************************)
EXTENDS ShmPingPong, TLAPS

Types ==
    /\ locks \in [Segment -> [Block -> Int]]
    /\ read_pos \in [Segment -> Block \cup {-1}]
    /\ data \in [Segment -> [Block -> Nat]]
    /\ pc \in [Thread -> {"loop", "pos", "word", "cas", "callback", "lock", "write",
                          "unlock", "publish", "notify", "release", "done"}]
    /\ pos \in [Thread -> Block \cup {-1}] /\ word \in [Thread -> Int]
    /\ blk \in [Thread -> Block]
    /\ next \in [Thread -> Nat] /\ got \in [Thread -> Nat]
    /\ inbox \in [Segment -> 0 .. 1]

Receiving(t) == pc[t] \in {"pos", "word", "cas", "callback"}
Sending(t) == pc[t] \in {"lock", "write", "unlock", "publish", "notify"}
Arrived(t) == inbox[SubTopic(t)] > 0 \/ Receiving(t)
Toward(t) == Sending(3 - t) \/ Arrived(t)

(* There is one message, and one of the two threads deals with it. *)
OneMessage ==
    \A t \in Thread :
        /\ Toward(t) => ~Toward(3 - t)
        /\ Sending(3 - t) => ~Arrived(t)
        /\ inbox[SubTopic(t)] > 0 => ~Receiving(t)

(* Thread 1 counts up and thread 2 repeats what it got. *)
Numbers ==
    \A t \in Thread :
        /\ Toward(t) => got[3 - t] = IF t = 1 THEN got[t] + 1 ELSE got[t]
        /\ Sending(3 - t) => next[3 - t] = got[t] + 1

(* The message lies in the block that read_pos_ names. *)
Delivery ==
    \A t \in Thread :
        /\ pc[t] \in {"unlock", "publish", "notify"} => data[PubTopic(t)][blk[t]] = next[t]
        /\ pc[t] = "notify" => read_pos[PubTopic(t)] = blk[t]
        /\ Arrived(t) => /\ read_pos[SubTopic(t)] \in Block
                         /\ data[SubTopic(t)][read_pos[SubTopic(t)]] = got[t] + 1
        /\ pc[t] \in {"word", "cas", "callback"} => pos[t] = read_pos[SubTopic(t)]

IInv == Types /\ OneMessage /\ Numbers /\ Delivery /\ LocksAreExact /\ CallbackOwnsBlock
-----------------------------------------------------------------------------
(* The search of LockForWrite stays among the blocks. *)
LEMMA NextBlock == \A i \in Block : (i + 1) % BlockNum \in Block
  BY BlockNumAssumption DEF Block

(* The variables keep their types; the assert of LockForRead is not reached. *)
LEMMA TypesStep == Types /\ OneMessage /\ Delivery /\ [Next]_vars => Types'
<1> SUFFICES ASSUME Types, OneMessage, Delivery, [Next]_vars PROVE Types'
  OBVIOUS
<1> USE TopicsAssumption, BlockNumAssumption DEF Types, Thread, SubTopic, PubTopic
<1>1. ASSUME NEW t \in Thread, Receive(t) PROVE Types'
  BY <1>1 DEF Receive, Goto, shmVars
<1>2. ASSUME NEW t \in Thread, LoadReadPos(t) PROVE Types'
  <2>1. Receiving(t) /\ read_pos[SubTopic(t)] \in Block
    BY <1>2 DEF LoadReadPos, Goto, shmVars, Delivery, Arrived, Receiving
  <2>2. ~(read_pos[SubTopic(t)] < 0)
    BY <2>1 DEF Block
  <2>3. pc[t] \in {"word", "cas", "callback"} => pos[t] \in Block /\ ~(pos[t] < 0)
    BY <2>1, <2>2 DEF Delivery
  <2>4. 0 \in Block
    BY DEF Block
  <2> QED
    BY <1>2, <2>1, <2>2 DEF LoadReadPos, Goto, shmVars
<1>3. ASSUME NEW t \in Thread, LoadLock(t) PROVE Types'
  <2>1. Receiving(t) /\ read_pos[SubTopic(t)] \in Block
    BY <1>3
    DEF LoadLock, Goto, SeesWriter, kRWLockFree, shmVars, Delivery, Arrived, Receiving
  <2>2. ~(read_pos[SubTopic(t)] < 0)
    BY <2>1 DEF Block
  <2>3. pc[t] \in {"word", "cas", "callback"} => pos[t] \in Block /\ ~(pos[t] < 0)
    BY <2>1, <2>2 DEF Delivery
  <2>4. 0 \in Block
    BY DEF Block
  <2>5. locks[SubTopic(t)][pos[t]] \in Int
    BY <1>3, <2>3 DEF LoadLock, Goto
  <2>6. pc' = [pc EXCEPT ![t] = "cas"]
    BY <1>3, <2>3 DEF LoadLock, Goto, SeesWriter, kRWLockFree
  <2> QED
    BY <1>3, <2>5, <2>6 DEF LoadLock, Goto, SeesWriter, kRWLockFree, shmVars
<1>4. ASSUME NEW t \in Thread, CasLock(t) PROVE Types'
  BY <1>4 DEF CasLock, Goto, AddReader, SetLock, shmVars
<1>5. ASSUME NEW t \in Thread, RecvProc(t) PROVE Types'
  <2>1. Receiving(t) /\ read_pos[SubTopic(t)] \in Block
    BY <1>5 DEF RecvProc, Goto, shmVars, Delivery, Arrived, Receiving
  <2>2. ~(read_pos[SubTopic(t)] < 0)
    BY <2>1 DEF Block
  <2>3. pc[t] \in {"word", "cas", "callback"} => pos[t] \in Block /\ ~(pos[t] < 0)
    BY <2>1, <2>2 DEF Delivery
  <2>4. 0 \in Block
    BY DEF Block
  <2>5. data[SubTopic(t)][pos[t]] \in Nat
    BY <1>5, <2>3 DEF RecvProc, Goto, shmVars
  <2> QED
    BY <1>5, <2>4, <2>5 DEF RecvProc, Goto, shmVars
<1>6. ASSUME NEW t \in Thread, LockForWrite(t) PROVE Types'
  <2>1. blk[t] \in Block /\ (blk[t] + 1) % BlockNum \in Block
    BY NextBlock
  <2> QED
    BY <1>6, <2>1
    DEF LockForWrite, Goto, TakeForWrite, FreeForWrite, SetLock, kRWLockFree,
        kWriteExclusive, shmVars
<1>7. ASSUME NEW t \in Thread, Write(t) PROVE Types'
  BY <1>7 DEF Write, Goto, WriteBlock, shmVars
<1>8. ASSUME NEW t \in Thread, ReleaseLock(t) PROVE Types'
  BY <1>8 DEF ReleaseLock, Goto, StoreFree, SetLock, kRWLockFree, shmVars
<1>9. ASSUME NEW t \in Thread, ReleasePos(t) PROVE Types'
  BY <1>9 DEF ReleasePos, Goto, StoreReadPos, shmVars
<1>10. ASSUME NEW t \in Thread, Notify(t) PROVE Types'
  <2>1. inbox[PubTopic(t)] = 0
    BY <1>10 DEF Notify, Goto, shmVars, OneMessage, Toward, Arrived, Sending
  <2> QED
    BY <1>10, <2>1 DEF Notify, Goto, shmVars
<1>11. ASSUME NEW t \in Thread, Release(t) PROVE Types'
  BY <1>11 DEF Release, Goto, DropReader, SetLock, shmVars
<1>12. CASE UNCHANGED vars
  BY <1>12 DEF vars, shmVars, threadVars
<1> QED
  BY <1>1, <1>2, <1>3, <1>4, <1>5, <1>6, <1>7, <1>8, <1>9,
     <1>10, <1>11, <1>12
  DEF Next, Step, Finished

(* Receive, RecvProc and Notify pass the message on, nobody doubles it. *)
LEMMA OneMessageStep == Types /\ OneMessage /\ [Next]_vars => OneMessage'
<1> SUFFICES ASSUME Types, OneMessage, [Next]_vars PROVE OneMessage'
  OBVIOUS
<1> USE TopicsAssumption, BlockNumAssumption
    DEF Types, OneMessage, Toward, Arrived, Sending, Receiving, Thread, SubTopic,
        PubTopic
<1>1. ASSUME NEW t \in Thread, Receive(t) PROVE OneMessage'
  BY <1>1 DEF Receive, Goto, shmVars
<1>2. ASSUME NEW t \in Thread, LoadReadPos(t) PROVE OneMessage'
  BY <1>2 DEF LoadReadPos, Goto, shmVars
<1>3. ASSUME NEW t \in Thread, LoadLock(t) PROVE OneMessage'
  BY <1>3 DEF LoadLock, Goto, SeesWriter, kRWLockFree, shmVars
<1>4. ASSUME NEW t \in Thread, CasLock(t) PROVE OneMessage'
  BY <1>4 DEF CasLock, Goto, AddReader, SetLock, shmVars
<1>5. ASSUME NEW t \in Thread, RecvProc(t) PROVE OneMessage'
  BY <1>5 DEF RecvProc, Goto, shmVars
<1>6. ASSUME NEW t \in Thread, LockForWrite(t) PROVE OneMessage'
  BY <1>6
  DEF LockForWrite, Goto, TakeForWrite, FreeForWrite, SetLock, kRWLockFree,
      kWriteExclusive, shmVars
<1>7. ASSUME NEW t \in Thread, Write(t) PROVE OneMessage'
  BY <1>7 DEF Write, Goto, WriteBlock, shmVars
<1>8. ASSUME NEW t \in Thread, ReleaseLock(t) PROVE OneMessage'
  BY <1>8 DEF ReleaseLock, Goto, StoreFree, SetLock, kRWLockFree, shmVars
<1>9. ASSUME NEW t \in Thread, ReleasePos(t) PROVE OneMessage'
  BY <1>9 DEF ReleasePos, Goto, StoreReadPos, shmVars
<1>10. ASSUME NEW t \in Thread, Notify(t) PROVE OneMessage'
  BY <1>10 DEF Notify, Goto, shmVars
<1>11. ASSUME NEW t \in Thread, Release(t) PROVE OneMessage'
  BY <1>11 DEF Release, Goto, DropReader, SetLock, shmVars
<1>12. CASE UNCHANGED vars
  BY <1>12 DEF vars, shmVars, threadVars
<1> QED
  BY <1>1, <1>2, <1>3, <1>4, <1>5, <1>6, <1>7, <1>8, <1>9,
     <1>10, <1>11, <1>12
  DEF Next, Step, Finished

(* Only RecvProc changes the numbers. *)
LEMMA NumbersStep ==
    Types /\ OneMessage /\ Numbers
        /\ Delivery /\ [Next]_vars => Numbers'
<1> SUFFICES ASSUME Types, OneMessage, Numbers, Delivery, [Next]_vars PROVE Numbers'
  OBVIOUS
<1> USE TopicsAssumption, BlockNumAssumption
    DEF Types, OneMessage, Numbers, Delivery, Toward, Arrived, Sending, Receiving,
        Thread, SubTopic, PubTopic
<1>1. ASSUME NEW t \in Thread, Receive(t) PROVE Numbers'
  BY <1>1 DEF Receive, Goto, shmVars
<1>2. ASSUME NEW t \in Thread, LoadReadPos(t) PROVE Numbers'
  BY <1>2 DEF LoadReadPos, Goto, shmVars
<1>3. ASSUME NEW t \in Thread, LoadLock(t) PROVE Numbers'
  BY <1>3 DEF LoadLock, Goto, SeesWriter, kRWLockFree, shmVars
<1>4. ASSUME NEW t \in Thread, CasLock(t) PROVE Numbers'
  BY <1>4 DEF CasLock, Goto, AddReader, SetLock, shmVars
<1>5. ASSUME NEW t \in Thread, RecvProc(t) PROVE Numbers'
  BY <1>5 DEF RecvProc, Goto, shmVars
<1>6. ASSUME NEW t \in Thread, LockForWrite(t) PROVE Numbers'
  BY <1>6
  DEF LockForWrite, Goto, TakeForWrite, FreeForWrite, SetLock, kRWLockFree,
      kWriteExclusive, shmVars
<1>7. ASSUME NEW t \in Thread, Write(t) PROVE Numbers'
  BY <1>7 DEF Write, Goto, WriteBlock, shmVars
<1>8. ASSUME NEW t \in Thread, ReleaseLock(t) PROVE Numbers'
  BY <1>8 DEF ReleaseLock, Goto, StoreFree, SetLock, kRWLockFree, shmVars
<1>9. ASSUME NEW t \in Thread, ReleasePos(t) PROVE Numbers'
  BY <1>9 DEF ReleasePos, Goto, StoreReadPos, shmVars
<1>10. ASSUME NEW t \in Thread, Notify(t) PROVE Numbers'
  BY <1>10 DEF Notify, Goto, shmVars
<1>11. ASSUME NEW t \in Thread, Release(t) PROVE Numbers'
  BY <1>11 DEF Release, Goto, DropReader, SetLock, shmVars
<1>12. CASE UNCHANGED vars
  BY <1>12 DEF vars, shmVars, threadVars
<1> QED
  BY <1>1, <1>2, <1>3, <1>4, <1>5, <1>6, <1>7, <1>8, <1>9,
     <1>10, <1>11, <1>12
  DEF Next, Step, Finished

(* Nobody writes a block between Write and RecvProc of the same message. *)
LEMMA DeliveryStep ==
    Types /\ OneMessage /\ Numbers
        /\ Delivery /\ [Next]_vars => Delivery'
<1> SUFFICES ASSUME Types, OneMessage, Numbers, Delivery, [Next]_vars PROVE Delivery'
  OBVIOUS
<1> USE TopicsAssumption, BlockNumAssumption
    DEF Types, OneMessage, Numbers, Delivery, Toward, Arrived, Sending, Receiving,
        Thread, SubTopic, PubTopic
<1>1. ASSUME NEW t \in Thread, Receive(t) PROVE Delivery'
  BY <1>1 DEF Receive, Goto, shmVars
<1>2. ASSUME NEW t \in Thread, LoadReadPos(t) PROVE Delivery'
  BY <1>2 DEF LoadReadPos, Goto, shmVars
<1>3. ASSUME NEW t \in Thread, LoadLock(t) PROVE Delivery'
  BY <1>3 DEF LoadLock, Goto, SeesWriter, kRWLockFree, shmVars
<1>4. ASSUME NEW t \in Thread, CasLock(t) PROVE Delivery'
  BY <1>4 DEF CasLock, Goto, AddReader, SetLock, shmVars
<1>5. ASSUME NEW t \in Thread, RecvProc(t) PROVE Delivery'
  BY <1>5 DEF RecvProc, Goto, shmVars
<1>6. ASSUME NEW t \in Thread, LockForWrite(t) PROVE Delivery'
  BY <1>6
  DEF LockForWrite, Goto, TakeForWrite, FreeForWrite, SetLock, kRWLockFree,
      kWriteExclusive, shmVars
<1>7. ASSUME NEW t \in Thread, Write(t) PROVE Delivery'
  BY <1>7 DEF Write, Goto, WriteBlock, shmVars
<1>8. ASSUME NEW t \in Thread, ReleaseLock(t) PROVE Delivery'
  BY <1>8 DEF ReleaseLock, Goto, StoreFree, SetLock, kRWLockFree, shmVars
<1>9. ASSUME NEW t \in Thread, ReleasePos(t) PROVE Delivery'
  BY <1>9 DEF ReleasePos, Goto, StoreReadPos, shmVars
<1>10. ASSUME NEW t \in Thread, Notify(t) PROVE Delivery'
  BY <1>10 DEF Notify, Goto, shmVars
<1>11. ASSUME NEW t \in Thread, Release(t) PROVE Delivery'
  BY <1>11 DEF Release, Goto, DropReader, SetLock, shmVars
<1>12. CASE UNCHANGED vars
  BY <1>12 DEF vars, shmVars, threadVars
<1> QED
  BY <1>1, <1>2, <1>3, <1>4, <1>5, <1>6, <1>7, <1>8, <1>9,
     <1>10, <1>11, <1>12
  DEF Next, Step, Finished

(* Reader and writer meet in the lock word only. *)
LEMMA OwnStep ==
    Types /\ OneMessage /\ LocksAreExact
        /\ CallbackOwnsBlock /\ [Next]_vars => CallbackOwnsBlock'
<1> SUFFICES ASSUME Types, OneMessage, LocksAreExact, CallbackOwnsBlock, [Next]_vars
             PROVE  CallbackOwnsBlock'
  OBVIOUS
<1> USE TopicsAssumption, BlockNumAssumption
    DEF Types, OneMessage, LocksAreExact, CallbackOwnsBlock, Holds, Toward, Arrived,
        Sending, Receiving, Thread, SubTopic, PubTopic
<1>1. ASSUME NEW t \in Thread, Receive(t) PROVE CallbackOwnsBlock'
  BY <1>1 DEF Receive, Goto, shmVars
<1>2. ASSUME NEW t \in Thread, LoadReadPos(t) PROVE CallbackOwnsBlock'
  BY <1>2 DEF LoadReadPos, Goto, shmVars
<1>3. ASSUME NEW t \in Thread, LoadLock(t) PROVE CallbackOwnsBlock'
  BY <1>3 DEF LoadLock, Goto, SeesWriter, kRWLockFree, shmVars
<1>4. ASSUME NEW t \in Thread, CasLock(t) PROVE CallbackOwnsBlock'
  BY <1>4 DEF CasLock, Goto, AddReader, SetLock, shmVars
<1>5. ASSUME NEW t \in Thread, RecvProc(t) PROVE CallbackOwnsBlock'
  BY <1>5 DEF RecvProc, Goto, shmVars
<1>6. ASSUME NEW t \in Thread, LockForWrite(t) PROVE CallbackOwnsBlock'
  BY <1>6
  DEF LockForWrite, Goto, TakeForWrite, FreeForWrite, SetLock, kRWLockFree,
      kWriteExclusive, shmVars
<1>7. ASSUME NEW t \in Thread, Write(t) PROVE CallbackOwnsBlock'
  BY <1>7 DEF Write, Goto, WriteBlock, shmVars
<1>8. ASSUME NEW t \in Thread, ReleaseLock(t) PROVE CallbackOwnsBlock'
  BY <1>8 DEF ReleaseLock, Goto, StoreFree, SetLock, kRWLockFree, shmVars
<1>9. ASSUME NEW t \in Thread, ReleasePos(t) PROVE CallbackOwnsBlock'
  BY <1>9 DEF ReleasePos, Goto, StoreReadPos, shmVars
<1>10. ASSUME NEW t \in Thread, Notify(t) PROVE CallbackOwnsBlock'
  BY <1>10 DEF Notify, Goto, shmVars
<1>11. ASSUME NEW t \in Thread, Release(t) PROVE CallbackOwnsBlock'
  BY <1>11 DEF Release, Goto, DropReader, SetLock, shmVars
<1>12. CASE UNCHANGED vars
  BY <1>12 DEF vars, shmVars, threadVars
<1> QED
  BY <1>1, <1>2, <1>3, <1>4, <1>5, <1>6, <1>7, <1>8, <1>9,
     <1>10, <1>11, <1>12
  DEF Next, Step, Finished

(* Every change of a lock word goes with a change of who is in the block. *)
LEMMA LocksStep ==
    Types /\ OneMessage /\ Delivery
        /\ LocksAreExact /\ CallbackOwnsBlock /\ [Next]_vars => LocksAreExact'
<1> SUFFICES ASSUME Types, OneMessage, Delivery, LocksAreExact, CallbackOwnsBlock, [Next]_vars
             PROVE  LocksAreExact'
  OBVIOUS
<1> USE TopicsAssumption, BlockNumAssumption
    DEF Types, OneMessage, Delivery, LocksAreExact, CallbackOwnsBlock, Holds, Toward,
        Arrived, Sending, Receiving, kRWLockFree, kWriteExclusive, Thread, SubTopic,
        PubTopic
<1>1. ASSUME NEW t \in Thread, Receive(t) PROVE LocksAreExact'
  BY <1>1 DEF Receive, Goto, shmVars
<1>2. ASSUME NEW t \in Thread, LoadReadPos(t) PROVE LocksAreExact'
  BY <1>2 DEF LoadReadPos, Goto, shmVars
<1>3. ASSUME NEW t \in Thread, LoadLock(t) PROVE LocksAreExact'
  BY <1>3 DEF LoadLock, Goto, SeesWriter, kRWLockFree, shmVars
<1>4. ASSUME NEW t \in Thread, CasLock(t) PROVE LocksAreExact'
  <2>0. pos[t] \in Block /\ ~Sending(3 - t)
    BY <1>4 DEF CasLock, Goto, AddReader, SetLock, shmVars
  <2>1. pos[t] \in Block /\ ~Sending(3 - t) /\ pos[t] # -1
    BY <2>0 DEF Block
  <2>2. locks[SubTopic(t)][pos[t]] = 0
    BY <1>4, <2>1 DEF CasLock, Goto, AddReader, SetLock, shmVars
  <2>3. CASE AddReader(SubTopic(t), pos[t], word[t]) /\ Goto(t, "cas", "callback")
    <3>0. word[t] + 1 = 1
      BY <2>2, <2>3 DEF AddReader
    <3>1. /\ locks' = [locks EXCEPT ![SubTopic(t)][pos[t]] = 1]
          /\ pc' = [pc EXCEPT ![t] = "callback"] /\ pos' = pos /\ blk' = blk
      BY <1>4, <3>0, <2>3 DEF CasLock, Goto, AddReader, SetLock, shmVars
    <3>2. ASSUME NEW r \in Thread, NEW i \in Block
          PROVE  locks'[SubTopic(r)][i] =
                   IF pc'[3 - r] \in {"write", "unlock"} /\ blk'[3 - r] = i
                   THEN kWriteExclusive
                   ELSE IF Holds(r)' /\ pos'[r] = i THEN 1 ELSE kRWLockFree
      <4>1. CASE r = t
        BY <1>4, <2>1, <3>1, <4>1 DEF CasLock, Goto
      <4>2. CASE r # t
        BY <1>4, <2>1, <3>1, <4>2 DEF CasLock, Goto
      <4> QED
        BY <4>1, <4>2
    <3> QED
      BY <3>2
  <2>4. CASE UNCHANGED shmVars /\ Goto(t, "cas", "pos")
    BY <1>4, <2>1, <2>4 DEF CasLock, Goto, AddReader, SetLock, shmVars
  <2> QED
    BY <1>4, <2>3, <2>4 DEF CasLock
<1>5. ASSUME NEW t \in Thread, RecvProc(t) PROVE LocksAreExact'
  BY <1>5 DEF RecvProc, Goto, shmVars
<1>6. ASSUME NEW t \in Thread, LockForWrite(t) PROVE LocksAreExact'
  BY <1>6
  DEF LockForWrite, Goto, TakeForWrite, FreeForWrite, SetLock, kRWLockFree,
      kWriteExclusive, shmVars
<1>7. ASSUME NEW t \in Thread, Write(t) PROVE LocksAreExact'
  BY <1>7 DEF Write, Goto, WriteBlock, shmVars
<1>8. ASSUME NEW t \in Thread, ReleaseLock(t) PROVE LocksAreExact'
  BY <1>8 DEF ReleaseLock, Goto, StoreFree, SetLock, kRWLockFree, shmVars
<1>9. ASSUME NEW t \in Thread, ReleasePos(t) PROVE LocksAreExact'
  BY <1>9 DEF ReleasePos, Goto, StoreReadPos, shmVars
<1>10. ASSUME NEW t \in Thread, Notify(t) PROVE LocksAreExact'
  BY <1>10 DEF Notify, Goto, shmVars
<1>11. ASSUME NEW t \in Thread, Release(t) PROVE LocksAreExact'
  BY <1>11 DEF Release, Goto, DropReader, SetLock, shmVars
<1>12. CASE UNCHANGED vars
  BY <1>12 DEF vars, shmVars, threadVars
<1> QED
  BY <1>1, <1>2, <1>3, <1>4, <1>5, <1>6, <1>7, <1>8, <1>9,
     <1>10, <1>11, <1>12
  DEF Next, Step, Finished

(* The inductive invariant. *)
LEMMA Inductive == Spec => []IInv
<1>1. Init => IInv
  <2> USE TopicsAssumption, BlockNumAssumption
      DEF Init, Thread, SubTopic, PubTopic, Block, kRWLockFree, Unwritten
  <2>1. Init => Types
    BY DEF Types
  <2>2. Init => OneMessage /\ Numbers
    BY DEF OneMessage, Numbers, Toward, Arrived, Sending, Receiving
  <2>3. Init => Delivery /\ LocksAreExact /\ CallbackOwnsBlock
    BY DEF Delivery, LocksAreExact, CallbackOwnsBlock, Holds, Arrived, Receiving
  <2> QED
    BY <2>1, <2>2, <2>3 DEF IInv
<1>2. IInv /\ [Next]_vars => IInv'
  BY TypesStep, OneMessageStep, NumbersStep, DeliveryStep, OwnStep, LocksStep DEF IInv
<1> QED
  BY <1>1, <1>2, PTL DEF Spec

(* The lock words say exactly who is in a block (shm.hpp, LockForRead to      *)
(* ReleaseWriteLock), for any number of blocks: none is lost, although        *)
(* LockForRead does not look for a writer.                                    *)
THEOREM LocksStayExact == Spec => []LocksAreExact
<1>1. IInv => LocksAreExact
  BY DEF IInv
<1> QED
  BY <1>1, Inductive, PTL

(* A callback of message_bench.cc has its block for itself until it returns,  *)
(* although the peer already writes the answer to the answer.                 *)
THEOREM CallbacksOwnTheirBlock == Spec => []CallbackOwnsBlock
<1>1. IInv => CallbackOwnsBlock
  BY DEF IInv
<1> QED
  BY <1>1, Inductive, PTL

(* RecvProc of message_bench.cc gets every number once and in order, on both  *)
(* sides and for any COUNT: each message it reads is the one behind the last. *)
THEOREM NumbersInOrder == Spec => EveryNumberOnce
<1>1. IInv => \A t \in Thread : RecvProc(t) => got'[t] = got[t] + 1
  BY DEF IInv, Types, Delivery, Arrived, Receiving, RecvProc, Goto
<1>2. IInv /\ [Next]_vars
        => [\A t \in Thread : RecvProc(t) => got'[t] = got[t] + 1]_vars
  BY <1>1
<1> QED
  BY <1>2, Inductive, PTL DEF Spec, EveryNumberOnce
=============================================================================
