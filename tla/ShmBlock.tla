------------------------------ MODULE ShmBlock ------------------------------
(***************************************************************************)
(* The shared-memory segments of 20230108-pubsub-shm-udp-3/shm.hpp: class   *)
(* State (a lock word per block and the position of the newest message) and *)
(* the blocks behind it.  Each operator below is one atomic access, the    *)
(* constructor excepted; the modules that extend this one say which process *)
(* makes it, and when.                                                      *)
(***************************************************************************)
EXTENDS Integers

CONSTANTS Segment,    \* the segments that exist in the end
          BlockNum    \* block_num_

ASSUME BlockNumAssumption == BlockNum \in Nat \ {0}

Block == 0 .. BlockNum - 1

kRWLockFree == 0
kWriteExclusive == -1
Unwritten == 0   \* a block nobody has written; messages are numbered from 1

VARIABLES
    locks,      \* locks[k][i]: locks_[i] of segment k
    read_pos,   \* read_pos[k]: read_pos_ of segment k
    data        \* data[k][i]: the message in block i of segment k

shmVars == <<locks, read_pos, data>>

(* The bytes that ftruncate adds are zero, and so is read_pos_. *)
ZeroSegments ==
    /\ locks = [k \in Segment |-> [i \in Block |-> 0]]
    /\ read_pos = [k \in Segment |-> 0]
    /\ data = [k \in Segment |-> [i \in Block |-> Unwritten]]

(* The constructor of State, placed over whatever the segment holds: the one   *)
(* operator here that is several stores, read_pos_ first and then each lock     *)
(* word (shm.hpp:87-89).  A reader cannot tell: once it loads the new read_pos_ *)
(* it touches no lock word, and before that it has one word to touch, which is  *)
(* cleared before or after.                                                   *)
ConstructState(k) ==
    /\ locks' = [locks EXCEPT ![k] = [i \in Block |-> kRWLockFree]]
    /\ read_pos' = [read_pos EXCEPT ![k] = -1]
    /\ UNCHANGED data

SetLock(k, i, n) == locks' = [locks EXCEPT ![k][i] = n]
-----------------------------------------------------------------------------
(* LockForWrite: one compare-exchange of its loop.  write_pos_ is never       *)
(* advanced, so the search always starts at block 0.                        *)
FreeOrRead(k, i) == locks[k][i] >= kRWLockFree   \* mutant: readers are ignored
FreeForWrite(k, i) == locks[k][i] = kRWLockFree

TakeForWrite(k, i) ==
    /\ FreeForWrite(k, i)
    /\ SetLock(k, i, kWriteExclusive)
    /\ UNCHANGED <<read_pos, data>>

WriteBlock(k, i, m) ==
    /\ data' = [data EXCEPT ![k][i] = m]
    /\ UNCHANGED <<locks, read_pos>>

(* ReleaseWriteLock: first the lock, then the position. *)
StoreFree(k, i) == SetLock(k, i, kRWLockFree) /\ UNCHANGED <<read_pos, data>>

StoreNextPos(k, i) ==   \* mutant: the position after the block is published
    /\ read_pos' = [read_pos EXCEPT ![k] = (i + 1) % BlockNum]
    /\ UNCHANGED <<locks, data>>

StoreReadPos(k, i) ==
    /\ read_pos' = [read_pos EXCEPT ![k] = i]
    /\ UNCHANGED <<locks, data>>

(* LockForRead: the test that is meant to see a writer looks at the position *)
(* of the block, not at its lock word...                                    *)
SeesWriter(i, n) == i < kRWLockFree

(* ... and the compare-exchange that follows. *)
AddReader(k, i, n) ==
    /\ locks[k][i] = n
    /\ SetLock(k, i, n + 1)
    /\ UNCHANGED <<read_pos, data>>

(* ReleaseReadLock. *)
KeepReader(k, i) == UNCHANGED shmVars   \* mutant: the count is not taken back
DropReader(k, i) == SetLock(k, i, locks[k][i] - 1) /\ UNCHANGED <<read_pos, data>>
=============================================================================
