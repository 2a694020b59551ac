--------------------------- MODULE ShmPubSubProofs ---------------------------
(***************************************************************************)
(* The invariants of ShmPubSub for any number of subscribers, segments,     *)
(* blocks, messages, stops and crashes.                                     *)
(*                                                                         *)
(* TypeOK bounds the lock words.  Alone that is not inductive: a release    *)
(* counts down whatever the word holds, also after a new publisher has      *)
(* cleared it.  LockDebt says how far a word may be from the number of its  *)
(* readers.  Fresh is what makes a read new enough, Quiet what holds as     *)
(* long as no process has stopped or crashed.                               *)
(***************************************************************************)
EXTENDS ShmPubSub, FiniteSetTheorems, TLAPS

ShmTypes ==
    /\ locks \in [Segment -> [Block -> Int]]
    /\ read_pos \in [Segment -> Block \cup {-1}]
    /\ data \in [Segment -> [Block -> 0 .. MaxMessages]]

PubTypes ==
    /\ name \in Segment \cup {NoSegment} /\ created \in 0 .. Cardinality(Segment)
    /\ pub \in [pc : {"down", "construct", "idle", "lock", "write", "unlock",
                      "publish", "notify"},
                map : Segment \cup {NoSegment}, i : Block]
    /\ last \in 0 .. MaxMessages /\ newest \in [Segment -> 0 .. MaxMessages]
    /\ subs \subseteq Subscribers

SubRec == [pc : {"down", "loop", "pos", "assert", "word", "cas", "read", "release"},
           map : Segment \cup {NoSegment}, i : Block \cup {-1}, n : Int]
SubTypes == sub \in [Subscribers -> SubRec]

CountTypes ==
    /\ inbox \in [Subscribers -> 0 .. MaxInbox]
    /\ told \in [Subscribers -> 0 .. MaxMessages]
    /\ seen \in [Subscribers -> 0 .. MaxMessages]
    /\ floor \in [Subscribers -> 0 .. MaxMessages]
    /\ stops \in Nat /\ crashes \in 0 .. MaxCrashes

Types == ShmTypes /\ PubTypes /\ SubTypes /\ CountTypes

(* Who works on a segment has mapped it, and who works on a block has one.   *)
Mapped ==
    /\ pub.pc # "down" => pub.map \in Segment
    /\ pub.pc \in {"lock", "write"} => last < MaxMessages
    /\ \A s \in Subscribers :
          /\ sub[s].pc \notin {"down", "loop"} => sub[s].map \in Segment
          /\ sub[s].pc \in {"word", "cas", "read", "release"} => sub[s].i \in Block

(* The subscribers that have counted themselves in at block i.               *)
Readers(k, i) == {s \in Subscribers : /\ sub[s].pc \in {"read", "release"}
                                      /\ sub[s].map = k /\ sub[s].i = i}

(* A crash leaves one count too many; a new State, or a writer's release,    *)
(* forgets the readers there are, who then count down below zero.            *)
Owed(k, i) == locks[k][i] - Cardinality(Readers(k, i))

LockDebt ==
    \A k \in Segment, i \in Block :
        Owed(k, i) <= crashes /\ Owed(k, i) >= -1 - Cardinality(Subscribers)

(* Blocks only get newer, and the block that read_pos_ names holds the       *)
(* newest message or a later one.                                            *)
BlocksFresh ==
    \A k \in Segment : /\ newest[k] <= last
                       /\ \A i \in Block : data[k][i] <= last
                       /\ read_pos[k] \in Block => data[k][read_pos[k]] >= newest[k]

WrittenFresh == pub.pc \in {"unlock", "publish"} => data[pub.map][pub.i] = last

ReadsFresh ==
    \A s \in Subscribers :
        /\ sub[s].pc \in {"word", "cas", "read"} => data[sub[s].map][sub[s].i] >= floor[s]
        /\ sub[s].pc = "release" => seen[s] >= floor[s]

Fresh == BlocksFresh /\ WrittenFresh /\ ReadsFresh

(* Until a process stops or crashes there is one segment, which everybody    *)
(* has mapped who has mapped any, and no datagram comes before a message.    *)
Calm == stops = 0 /\ crashes = 0

Attached(s) ==
    /\ sub[s].map \in {NoSegment, name}
    /\ s \in subs \/ told[s] > 0 \/ inbox[s] > 0 => sub[s].pc # "down"
    /\ pub.pc \in {"down", "construct"} =>
          told[s] = 0 /\ inbox[s] = 0 /\ sub[s].pc \in {"down", "loop"}

OneSegment ==
    /\ name = IF pub.pc = "down" THEN NoSegment ELSE pub.map
    /\ \A s \in Subscribers : Attached(s)

Answering(s) ==
    /\ inbox[s] > 0 \/ sub[s].pc \notin {"down", "loop"} =>
          name \in Segment /\ read_pos[name] \in Block
    /\ name \in Segment => told[s] <= newest[name]
    /\ sub[s].pc # "assert"
    /\ inbox[s] = 0 =>
          /\ sub[s].pc \in {"word", "cas", "read"} => floor[s] >= told[s]
          /\ sub[s].pc \in {"loop", "release"} => seen[s] >= told[s]

Answers ==
    /\ pub.pc = "notify" => newest[pub.map] = last /\ read_pos[pub.map] \in Block
    /\ \A s \in Subscribers : Answering(s)

Quiet == Calm => OneSegment /\ Answers

IInv == Types /\ Mapped /\ LockDebt /\ Fresh /\ Quiet
-----------------------------------------------------------------------------
(* The constants in a form the steps can use. *)
LEMMA ConstantFacts ==
    /\ Cardinality(Segment) \in Nat /\ Cardinality(Subscribers) \in Nat
    /\ NoSegment = 0 /\ NoSegment \notin Segment
    /\ MaxMessages \in Nat /\ MaxInbox \in Nat /\ MaxStops \in Nat /\ MaxCrashes \in Nat
    /\ 0 \in Block /\ -1 \notin Block /\ Block \subseteq Nat
<1>1. Cardinality(Segment) \in Nat /\ Cardinality(Subscribers) \in Nat
  BY SegmentAssumption, SubscribersAssumption, FS_CardinalityType
<1>2. 0 \in Block /\ -1 \notin Block /\ Block \subseteq Nat
  BY BlockNumAssumption DEF Block
<1> QED
  BY <1>1, <1>2, SegmentAssumption, BoundsAssumption DEF NoSegment

(* What the process records that the actions build are made of. *)
LEMMA LoopRecord ==
    ASSUME NEW m \in Segment \cup {NoSegment}
    PROVE  [DownSubscriber EXCEPT !.pc = "loop", !.map = m] \in SubRec
<1>1. DownSubscriber \in SubRec
  BY ConstantFacts DEF SubRec, DownSubscriber
<1>2. ASSUME NEW d \in SubRec PROVE [d EXCEPT !.pc = "loop", !.map = m] \in SubRec
  BY DEF SubRec
<1> QED
  BY <1>1, <1>2

LEMMA LoopFields ==
    ASSUME NEW m
    PROVE  /\ [DownSubscriber EXCEPT !.pc = "loop", !.map = m].pc = "loop"
           /\ [DownSubscriber EXCEPT !.pc = "loop", !.map = m].map = m
           /\ [DownSubscriber EXCEPT !.pc = "loop", !.map = m].i = 0
  BY DEF DownSubscriber

LEMMA CreateFields ==
    ASSUME NEW m
    PROVE  /\ [DownPublisher EXCEPT !.pc = "construct", !.map = m].pc = "construct"
           /\ [DownPublisher EXCEPT !.pc = "construct", !.map = m].map = m
           /\ [DownPublisher EXCEPT !.pc = "construct", !.map = m].i = 0
  BY DEF DownPublisher

LEMMA NextBlock == \A i \in Block : (i + 1) % BlockNum \in Block
  BY BlockNumAssumption DEF Block

(* Who works on what is mapped, action by action. *)
LEMMA PubHasBlock ==
    ASSUME Types, Mapped
    PROVE  pub.i \in Block /\ (pub.pc # "down" => pub.map \in Segment)
  BY DEF Types, PubTypes, Mapped

LEMMA SubHasBlock ==
    ASSUME Types, Mapped, NEW s \in Subscribers
    PROVE  /\ sub[s].pc \notin {"down", "loop"} => sub[s].map \in Segment
           /\ sub[s].pc \in {"word", "cas", "read", "release"} => sub[s].i \in Block
  BY DEF Types, SubTypes, SubRec, Mapped

(* A lock word stays a number, a block keeps a message. *)
LEMMA ShmTypesStep == Types /\ Mapped /\ [Next]_vars => ShmTypes'
<1> SUFFICES ASSUME Types, Mapped, [Next]_vars PROVE ShmTypes'
  OBVIOUS
<1> USE DEF Types, ShmTypes
<1>1. CASE PubCreate
  BY <1>1 DEF PubCreate, DownPublisher, shmVars
<1>2. CASE PubConstruct
  <2>1. pub.map \in Segment /\ pub.i \in Block
    BY <1>2, PubHasBlock DEF PubConstruct
  <2> QED
    BY <1>2, <2>1 DEF PubConstruct, ConstructState, kRWLockFree, shmVars
<1>3. CASE Acquire
  BY <1>3 DEF Acquire, PubStep, shmVars
<1>4. CASE LockForWrite
  <2>1. pub.map \in Segment /\ pub.i \in Block
    BY <1>4, PubHasBlock DEF LockForWrite
  <2>2. CASE TakeForWrite(pub.map, pub.i)
    BY <2>1, <2>2 DEF TakeForWrite, SetLock, kWriteExclusive
  <2>3. CASE UNCHANGED shmVars
    BY <2>3 DEF shmVars
  <2> QED
    BY <1>4, <2>2, <2>3 DEF LockForWrite
<1>5. CASE Write
  <2>1. pub.map \in Segment /\ pub.i \in Block
    BY <1>5, PubHasBlock DEF Write
  <2>2. last + 1 \in 0 .. MaxMessages
    BY <1>5, ConstantFacts DEF Write, PubStep, WriteBlock, shmVars, PubTypes, Mapped
  <2> QED
    BY <1>5, <2>1, <2>2 DEF Write, PubStep, WriteBlock, shmVars
<1>6. CASE ReleaseLock
  <2>1. pub.map \in Segment /\ pub.i \in Block
    BY <1>6, PubHasBlock DEF ReleaseLock
  <2> QED
    BY <1>6, <2>1 DEF ReleaseLock, PubStep, StoreFree, SetLock, kRWLockFree, shmVars
<1>7. CASE ReleasePos
  <2>1. pub.map \in Segment /\ pub.i \in Block
    BY <1>7, PubHasBlock DEF ReleasePos
  <2> QED
    BY <1>7, <2>1 DEF ReleasePos, PubStep, StoreReadPos, shmVars
<1>8. CASE Notify
  BY <1>8 DEF Notify, PubStep, Delivered, shmVars
<1>9. CASE PubStop
  BY <1>9 DEF PubStop, DownPublisher, shmVars
<1>10. CASE PubCrash
  BY <1>10 DEF PubCrash, DownPublisher, shmVars
<1>11. ASSUME NEW r \in Subscribers, Discover(r) PROVE ShmTypes'
  BY <1>11 DEF Discover, shmVars
<1>12. ASSUME NEW r \in Subscribers, SubStart(r) PROVE ShmTypes'
  BY <1>12 DEF SubStart, DownSubscriber, shmVars
<1>13. ASSUME NEW r \in Subscribers, Receive(r) PROVE ShmTypes'
  BY <1>13 DEF Receive, shmVars
<1>14. ASSUME NEW r \in Subscribers, LoadReadPos(r) PROVE ShmTypes'
  BY <1>14 DEF LoadReadPos, shmVars
<1>15. ASSUME NEW r \in Subscribers, LoadLock(r) PROVE ShmTypes'
  BY <1>15 DEF LoadLock, SeesWriter, kRWLockFree, shmVars
<1>16. ASSUME NEW r \in Subscribers, CasLock(r) PROVE ShmTypes'
  <2>1. sub[r].map \in Segment /\ sub[r].i \in Block
    BY <1>16, SubHasBlock DEF CasLock
  <2>2. CASE AddReader(sub[r].map, sub[r].i, sub[r].n)
    <3>1. sub[r].n + 1 \in Int
      BY DEF SubTypes, SubRec
    <3> QED
      BY <2>1, <2>2, <3>1 DEF AddReader, SetLock
  <2>3. CASE UNCHANGED shmVars
    BY <2>3 DEF shmVars
  <2> QED
    BY <1>16, <2>2, <2>3 DEF CasLock
<1>17. ASSUME NEW r \in Subscribers, Read(r) PROVE ShmTypes'
  BY <1>17 DEF Read, shmVars
<1>18. ASSUME NEW r \in Subscribers, Release(r) PROVE ShmTypes'
  <2>1. sub[r].map \in Segment /\ sub[r].i \in Block
    BY <1>18, SubHasBlock DEF Release
  <2>2. locks[sub[r].map][sub[r].i] - 1 \in Int
    BY <2>1
  <2> QED
    BY <1>18, <2>1, <2>2 DEF Release, DropReader, SetLock, DownSubscriber, shmVars
<1>19. ASSUME NEW r \in Subscribers, SubStop(r) PROVE ShmTypes'
  BY <1>19 DEF SubStop, Gone, DownSubscriber, Unwritten, shmVars
<1>20. ASSUME NEW r \in Subscribers, SubCrash(r) PROVE ShmTypes'
  BY <1>20 DEF SubCrash, Gone, DownSubscriber, Unwritten, shmVars
<1>21. CASE UNCHANGED vars
  BY <1>21 DEF vars, shmVars, procVars
<1> QED
  BY <1>1, <1>2, <1>3, <1>4, <1>5, <1>6, <1>7, <1>8, <1>9, <1>10, <1>11,
     <1>12, <1>13, <1>14, <1>15, <1>16, <1>17, <1>18, <1>19, <1>20, <1>21
  DEF Next, Publishing, Reading

(* The publisher maps a segment that exists. *)
LEMMA PubTypesStep == Types /\ Mapped /\ [Next]_vars => PubTypes'
<1> SUFFICES ASSUME Types, Mapped, [Next]_vars PROVE PubTypes'
  OBVIOUS
<1> USE DEF Types, PubTypes
<1>1. CASE PubCreate
  <2>1. \/ created + 1 \in Segment /\ created + 1 \in 0 .. Cardinality(Segment)
        \/ name # NoSegment
    BY <1>1, SegmentAssumption, ConstantFacts DEF PubCreate, DownPublisher, shmVars
  <2>2. pub' \in [pc : {"construct"}, map : Segment \cup {NoSegment}, i : Block]
    BY <1>1, <2>1, ConstantFacts DEF PubCreate, DownPublisher, shmVars
  <2> QED
    BY <1>1, <2>1, <2>2 DEF PubCreate, DownPublisher, shmVars
<1>2. CASE PubConstruct
  <2>1. pub.map \in Segment /\ pub.i \in Block
    BY <1>2, PubHasBlock DEF PubConstruct
  <2> QED
    BY <1>2, <2>1, ConstantFacts DEF PubConstruct, ConstructState, kRWLockFree, shmVars
<1>3. CASE Acquire
  BY <1>3, ConstantFacts DEF Acquire, PubStep, shmVars
<1>4. CASE LockForWrite
  BY <1>4, NextBlock
  DEF LockForWrite, PubStep, TakeForWrite, FreeForWrite, SetLock, kRWLockFree,
      kWriteExclusive, shmVars
<1>5. CASE Write
  <2>1. last + 1 \in 0 .. MaxMessages
    BY <1>5, ConstantFacts DEF Write, PubStep, WriteBlock, shmVars, Mapped
  <2> QED
    BY <1>5, <2>1 DEF Write, PubStep, WriteBlock, shmVars
<1>6. CASE ReleaseLock
  BY <1>6 DEF ReleaseLock, PubStep, StoreFree, SetLock, kRWLockFree, shmVars
<1>7. CASE ReleasePos
  BY <1>7 DEF ReleasePos, PubStep, StoreReadPos, shmVars
<1>8. CASE Notify
  BY <1>8, ConstantFacts DEF Notify, PubStep, Delivered, shmVars
<1>9. CASE PubStop
  BY <1>9, ConstantFacts DEF PubStop, DownPublisher, shmVars
<1>10. CASE PubCrash
  BY <1>10, ConstantFacts DEF PubCrash, DownPublisher, shmVars
<1>11. ASSUME NEW r \in Subscribers, Discover(r) PROVE PubTypes'
  BY <1>11 DEF Discover, shmVars
<1>12. ASSUME NEW r \in Subscribers, SubStart(r) PROVE PubTypes'
  BY <1>12 DEF SubStart, DownSubscriber, shmVars
<1>13. ASSUME NEW r \in Subscribers, Receive(r) PROVE PubTypes'
  BY <1>13 DEF Receive, shmVars
<1>14. ASSUME NEW r \in Subscribers, LoadReadPos(r) PROVE PubTypes'
  BY <1>14 DEF LoadReadPos, shmVars
<1>15. ASSUME NEW r \in Subscribers, LoadLock(r) PROVE PubTypes'
  BY <1>15 DEF LoadLock, SeesWriter, kRWLockFree, shmVars
<1>16. ASSUME NEW r \in Subscribers, CasLock(r) PROVE PubTypes'
  BY <1>16 DEF CasLock, AddReader, SetLock, shmVars
<1>17. ASSUME NEW r \in Subscribers, Read(r) PROVE PubTypes'
  BY <1>17 DEF Read, shmVars
<1>18. ASSUME NEW r \in Subscribers, Release(r) PROVE PubTypes'
  BY <1>18 DEF Release, DropReader, SetLock, DownSubscriber, shmVars
<1>19. ASSUME NEW r \in Subscribers, SubStop(r) PROVE PubTypes'
  BY <1>19 DEF SubStop, Gone, DownSubscriber, Unwritten, shmVars
<1>20. ASSUME NEW r \in Subscribers, SubCrash(r) PROVE PubTypes'
  BY <1>20 DEF SubCrash, Gone, DownSubscriber, Unwritten, shmVars
<1>21. CASE UNCHANGED vars
  BY <1>21 DEF vars, shmVars, procVars
<1> QED
  BY <1>1, <1>2, <1>3, <1>4, <1>5, <1>6, <1>7, <1>8, <1>9, <1>10, <1>11,
     <1>12, <1>13, <1>14, <1>15, <1>16, <1>17, <1>18, <1>19, <1>20, <1>21
  DEF Next, Publishing, Reading

(* A subscriber's locals keep their types. *)
LEMMA SubTypesStep == Types /\ Mapped /\ [Next]_vars => SubTypes'
<1> SUFFICES ASSUME Types, Mapped, [Next]_vars PROVE SubTypes'
  OBVIOUS
<1> USE DEF Types, SubTypes
<1>1. CASE PubCreate
  BY <1>1 DEF PubCreate
<1>2. CASE PubConstruct
  BY <1>2 DEF PubConstruct, ConstructState, kRWLockFree, shmVars
<1>3. CASE Acquire
  BY <1>3 DEF Acquire, PubStep, shmVars
<1>4. CASE LockForWrite
  BY <1>4
  DEF LockForWrite, PubStep, TakeForWrite, FreeForWrite, SetLock, kRWLockFree,
      kWriteExclusive, shmVars
<1>5. CASE Write
  BY <1>5 DEF Write, PubStep, WriteBlock, shmVars
<1>6. CASE ReleaseLock
  BY <1>6 DEF ReleaseLock, PubStep, StoreFree, SetLock, kRWLockFree, shmVars
<1>7. CASE ReleasePos
  BY <1>7 DEF ReleasePos, PubStep, StoreReadPos, shmVars
<1>8. CASE Notify
  BY <1>8 DEF Notify, PubStep, Delivered, shmVars
<1>9. CASE PubStop
  BY <1>9 DEF PubStop, DownPublisher, shmVars
<1>10. CASE PubCrash
  BY <1>10 DEF PubCrash, DownPublisher, shmVars
<1>11. ASSUME NEW r \in Subscribers, Discover(r) PROVE SubTypes'
  BY <1>11 DEF Discover, shmVars
<1>12. ASSUME NEW r \in Subscribers, SubStart(r) PROVE SubTypes'
  <2>1. [DownSubscriber EXCEPT !.pc = "loop", !.map = name] \in SubRec
    BY LoopRecord DEF PubTypes
  <2> QED
    BY <1>12, <2>1 DEF SubStart
<1>13. ASSUME NEW r \in Subscribers, Receive(r) PROVE SubTypes'
  <2> DEFINE map == IF sub[r].map # NoSegment THEN sub[r].map ELSE name
             pc == IF map = NoSegment THEN "loop" ELSE "pos"
  <2>1. map \in Segment \cup {NoSegment} /\ pc \in {"loop", "pos"}
    BY DEF PubTypes, SubRec
  <2>2. sub' = [sub EXCEPT ![r].map = map, ![r].pc = pc]
    BY <1>13 DEF Receive
  <2> HIDE DEF map, pc
  <2> QED
    BY <2>1, <2>2 DEF SubRec
<1>14. ASSUME NEW r \in Subscribers, LoadReadPos(r) PROVE SubTypes'
  <2>1. sub[r].map \in Segment /\ read_pos[sub[r].map] \in Block \cup {-1}
    BY <1>14, SubHasBlock DEF LoadReadPos, ShmTypes
  <2> QED
    BY <1>14, <2>1 DEF LoadReadPos, SubRec
<1>15. ASSUME NEW r \in Subscribers, LoadLock(r) PROVE SubTypes'
  <2>1. locks[sub[r].map][sub[r].i] \in Int
    BY <1>15, SubHasBlock DEF LoadLock, ShmTypes
  <2> QED
    BY <1>15, <2>1 DEF LoadLock, SubRec
<1>16. ASSUME NEW r \in Subscribers, CasLock(r) PROVE SubTypes'
  BY <1>16 DEF CasLock, SubRec
<1>17. ASSUME NEW r \in Subscribers, Read(r) PROVE SubTypes'
  BY <1>17 DEF Read, SubRec
<1>18. ASSUME NEW r \in Subscribers, Release(r) PROVE SubTypes'
  <2>1. sub[r].map \in Segment \cup {NoSegment}
    BY DEF SubRec
  <2>2. [DownSubscriber EXCEPT !.pc = "loop", !.map = sub[r].map] \in SubRec
    BY <2>1, LoopRecord
  <2> QED
    BY <1>18, <2>2 DEF Release
<1>19. ASSUME NEW r \in Subscribers, SubStop(r) PROVE SubTypes'
  <2>1. DownSubscriber \in SubRec
    BY ConstantFacts DEF DownSubscriber, SubRec
  <2> QED
    BY <1>19, <2>1 DEF SubStop, Gone
<1>20. ASSUME NEW r \in Subscribers, SubCrash(r) PROVE SubTypes'
  <2>1. DownSubscriber \in SubRec
    BY ConstantFacts DEF DownSubscriber, SubRec
  <2> QED
    BY <1>20, <2>1 DEF SubCrash, Gone
<1>21. CASE UNCHANGED vars
  BY <1>21 DEF vars, shmVars, procVars
<1> QED
  BY <1>1, <1>2, <1>3, <1>4, <1>5, <1>6, <1>7, <1>8, <1>9, <1>10, <1>11,
     <1>12, <1>13, <1>14, <1>15, <1>16, <1>17, <1>18, <1>19, <1>20, <1>21
  DEF Next, Publishing, Reading

(* The counters stay within their bounds. *)
LEMMA CountTypesStep == Types /\ Mapped /\ [Next]_vars => CountTypes'
<1> SUFFICES ASSUME Types, Mapped, [Next]_vars PROVE CountTypes'
  OBVIOUS
<1> USE DEF Types, CountTypes
<1>1. CASE PubCreate
  BY <1>1 DEF PubCreate, DownPublisher, shmVars
<1>2. CASE PubConstruct
  BY <1>2 DEF PubConstruct, ConstructState, kRWLockFree, shmVars
<1>3. CASE Acquire
  BY <1>3 DEF Acquire, PubStep, shmVars
<1>4. CASE LockForWrite
  BY <1>4
  DEF LockForWrite, PubStep, TakeForWrite, FreeForWrite, SetLock, kRWLockFree,
      kWriteExclusive, shmVars
<1>5. CASE Write
  BY <1>5 DEF Write, PubStep, WriteBlock, shmVars
<1>6. CASE ReleaseLock
  BY <1>6 DEF ReleaseLock, PubStep, StoreFree, SetLock, kRWLockFree, shmVars
<1>7. CASE ReleasePos
  BY <1>7 DEF ReleasePos, PubStep, StoreReadPos, shmVars
<1>8. CASE Notify
  <2>1. PICK d \in Delivered :
          /\ inbox' = [s \in Subscribers |-> inbox[s] + d[s]]
          /\ told' = [s \in Subscribers |-> IF d[s] = 1 THEN last ELSE told[s]]
    BY <1>8 DEF Notify
  <2>2. ASSUME NEW s \in Subscribers PROVE inbox[s] + d[s] \in 0 .. MaxInbox
    BY ConstantFacts DEF Delivered
  <2>3. last \in 0 .. MaxMessages
    BY DEF PubTypes
  <2> QED
    BY <1>8, <2>1, <2>2, <2>3 DEF Notify
<1>9. CASE PubStop
  BY <1>9 DEF PubStop
<1>10. CASE PubCrash
  BY <1>10, ConstantFacts DEF PubCrash
<1>11. ASSUME NEW r \in Subscribers, Discover(r) PROVE CountTypes'
  BY <1>11 DEF Discover, shmVars
<1>12. ASSUME NEW r \in Subscribers, SubStart(r) PROVE CountTypes'
  BY <1>12 DEF SubStart, DownSubscriber, shmVars
<1>13. ASSUME NEW r \in Subscribers, Receive(r) PROVE CountTypes'
  <2>1. inbox[r] - 1 \in 0 .. MaxInbox
    BY <1>13, ConstantFacts DEF Receive
  <2> QED
    BY <1>13, <2>1 DEF Receive
<1>14. ASSUME NEW r \in Subscribers, LoadReadPos(r) PROVE CountTypes'
  <2>1. newest[sub[r].map] \in 0 .. MaxMessages
    BY <1>14, SubHasBlock DEF LoadReadPos, PubTypes
  <2> QED
    BY <1>14, <2>1 DEF LoadReadPos
<1>15. ASSUME NEW r \in Subscribers, LoadLock(r) PROVE CountTypes'
  BY <1>15 DEF LoadLock, SeesWriter, kRWLockFree, shmVars
<1>16. ASSUME NEW r \in Subscribers, CasLock(r) PROVE CountTypes'
  BY <1>16 DEF CasLock, AddReader, SetLock, shmVars
<1>17. ASSUME NEW r \in Subscribers, Read(r) PROVE CountTypes'
  <2>1. data[sub[r].map][sub[r].i] \in 0 .. MaxMessages
    BY <1>17, SubHasBlock DEF Read, ShmTypes
  <2> QED
    BY <1>17, <2>1 DEF Read
<1>18. ASSUME NEW r \in Subscribers, Release(r) PROVE CountTypes'
  BY <1>18, ConstantFacts DEF Release
<1>19. ASSUME NEW r \in Subscribers, SubStop(r) PROVE CountTypes'
  BY <1>19, ConstantFacts DEF SubStop, Gone, Unwritten
<1>20. ASSUME NEW r \in Subscribers, SubCrash(r) PROVE CountTypes'
  <2>1. crashes + 1 \in 0 .. MaxCrashes
    BY <1>20, ConstantFacts DEF SubCrash
  <2> QED
    BY <1>20, <2>1, ConstantFacts DEF SubCrash, Gone, Unwritten
<1>21. CASE UNCHANGED vars
  BY <1>21 DEF vars, shmVars, procVars
<1> QED
  BY <1>1, <1>2, <1>3, <1>4, <1>5, <1>6, <1>7, <1>8, <1>9, <1>10, <1>11,
     <1>12, <1>13, <1>14, <1>15, <1>16, <1>17, <1>18, <1>19, <1>20, <1>21
  DEF Next, Publishing, Reading

(* A mapping is made before it is used. *)
LEMMA MappedStep == Types /\ Mapped /\ [Next]_vars => Mapped'
<1> SUFFICES ASSUME Types, Mapped, [Next]_vars PROVE Mapped'
  OBVIOUS
<1> USE DEF Mapped, PubTypes, SubTypes, SubRec
<1>1. CASE PubCreate
  <2>1. pub'.map \in Segment /\ pub'.pc = "construct"
    <3>1. CASE name # NoSegment /\ pub' = [DownPublisher EXCEPT !.pc = "construct", !.map = name]
      BY <3>1, CreateFields DEF Types
    <3>2. CASE /\ created < Cardinality(Segment)
               /\ pub' = [DownPublisher EXCEPT !.pc = "construct", !.map = created + 1]
      <4>1. created + 1 \in Segment
        BY <3>2, SegmentAssumption, ConstantFacts DEF Types
      <4> QED
        BY <3>2, <4>1, CreateFields
    <3> QED
      BY <1>1, <3>1, <3>2 DEF PubCreate
  <2> QED
    BY <1>1, <2>1 DEF PubCreate
<1>2. CASE PubConstruct
  BY <1>2 DEF PubConstruct, ConstructState, kRWLockFree, shmVars, Types
<1>3. CASE Acquire
  BY <1>3 DEF Acquire, PubStep, shmVars, Types
<1>4. CASE LockForWrite
  BY <1>4
  DEF LockForWrite, PubStep, TakeForWrite, FreeForWrite, SetLock, kRWLockFree,
      kWriteExclusive, shmVars, Types
<1>5. CASE Write
  BY <1>5 DEF Write, PubStep, WriteBlock, shmVars, Types
<1>6. CASE ReleaseLock
  BY <1>6 DEF ReleaseLock, PubStep, StoreFree, SetLock, kRWLockFree, shmVars, Types
<1>7. CASE ReleasePos
  BY <1>7 DEF ReleasePos, PubStep, StoreReadPos, shmVars, Types
<1>8. CASE Notify
  BY <1>8 DEF Notify, PubStep, Delivered, shmVars, Types
<1>9. CASE PubStop
  BY <1>9 DEF PubStop, DownPublisher, shmVars, Types
<1>10. CASE PubCrash
  BY <1>10 DEF PubCrash, DownPublisher, shmVars, Types
<1>11. ASSUME NEW r \in Subscribers, Discover(r) PROVE Mapped'
  BY <1>11 DEF Discover, shmVars, Types
<1>12. ASSUME NEW r \in Subscribers, SubStart(r) PROVE Mapped'
  BY <1>12 DEF SubStart, DownSubscriber, shmVars, Types
<1>13. ASSUME NEW r \in Subscribers, Receive(r) PROVE Mapped'
  <2> DEFINE map == IF sub[r].map # NoSegment THEN sub[r].map ELSE name
             pc == IF map = NoSegment THEN "loop" ELSE "pos"
  <2>1. map \in Segment \/ pc = "loop"
    BY DEF Types
  <2>2. sub' = [sub EXCEPT ![r].map = map, ![r].pc = pc]
    BY <1>13 DEF Receive
  <2>3. pc \in {"loop", "pos"}
    OBVIOUS
  <2> HIDE DEF map, pc
  <2> QED
    BY <1>13, <2>1, <2>2, <2>3 DEF Receive, Types
<1>14. ASSUME NEW r \in Subscribers, LoadReadPos(r) PROVE Mapped'
  <2>1. sub[r].map \in Segment /\ read_pos[sub[r].map] \in Block \cup {-1}
    BY <1>14 DEF LoadReadPos, ShmTypes, Types
  <2>2. ~(read_pos[sub[r].map] < 0) => read_pos[sub[r].map] \in Block
    BY <2>1, ConstantFacts
  <2> QED
    BY <1>14, <2>1, <2>2 DEF LoadReadPos, Types
<1>15. ASSUME NEW r \in Subscribers, LoadLock(r) PROVE Mapped'
  BY <1>15 DEF LoadLock, Types
<1>16. ASSUME NEW r \in Subscribers, CasLock(r) PROVE Mapped'
  BY <1>16 DEF CasLock, Types
<1>17. ASSUME NEW r \in Subscribers, Read(r) PROVE Mapped'
  BY <1>17 DEF Read, Types
<1>18. ASSUME NEW r \in Subscribers, Release(r) PROVE Mapped'
  BY <1>18 DEF Release, DropReader, SetLock, DownSubscriber, shmVars, Types
<1>19. ASSUME NEW r \in Subscribers, SubStop(r) PROVE Mapped'
  BY <1>19 DEF SubStop, Gone, DownSubscriber, Unwritten, shmVars, Types
<1>20. ASSUME NEW r \in Subscribers, SubCrash(r) PROVE Mapped'
  BY <1>20 DEF SubCrash, Gone, DownSubscriber, Unwritten, shmVars, Types
<1>21. CASE UNCHANGED vars
  BY <1>21 DEF vars, shmVars, procVars
<1> QED
  BY <1>1, <1>2, <1>3, <1>4, <1>5, <1>6, <1>7, <1>8, <1>9, <1>10, <1>11,
     <1>12, <1>13, <1>14, <1>15, <1>16, <1>17, <1>18, <1>19, <1>20, <1>21
  DEF Next, Publishing, Reading

(* What a step does to its subscriber, field by field; the others stay.       *)
Moves(r, pc, map, i) ==
    /\ sub'[r].pc = pc /\ sub'[r].map = map /\ sub'[r].i = i
    /\ \A s \in Subscribers \ {r} : sub'[s] = sub[s]

LEMMA SubMoves ==
    ASSUME SubTypes, NEW r \in Subscribers
    PROVE  /\ SubStart(r) => Moves(r, "loop", name, 0)
           /\ Receive(r) =>
                 \E m : /\ m = IF sub[r].map # NoSegment THEN sub[r].map ELSE name
                        /\ Moves(r, IF m = NoSegment THEN "loop" ELSE "pos", m, sub[r].i)
           /\ LoadReadPos(r) =>
                 Moves(r, IF read_pos[sub[r].map] < 0 THEN "assert" ELSE "word",
                       sub[r].map, read_pos[sub[r].map])
           /\ LoadLock(r) =>
                 Moves(r, IF sub[r].i < 0 THEN "pos" ELSE "cas", sub[r].map, sub[r].i)
           /\ CasLock(r) =>
                 \/ /\ AddReader(sub[r].map, sub[r].i, sub[r].n)
                    /\ Moves(r, "read", sub[r].map, sub[r].i)
                 \/ UNCHANGED shmVars /\ Moves(r, "pos", sub[r].map, sub[r].i)
           /\ Read(r) => Moves(r, "release", sub[r].map, sub[r].i)
           /\ Release(r) => Moves(r, "loop", sub[r].map, 0)
           /\ Gone(r) => Moves(r, "down", NoSegment, 0)
<1> USE DEF SubTypes, Moves
<1>1. SubStart(r) => Moves(r, "loop", name, 0)
  BY LoopFields DEF SubStart
<1>2. ASSUME Receive(r)
      PROVE  \E m : /\ m = IF sub[r].map # NoSegment THEN sub[r].map ELSE name
                    /\ Moves(r, IF m = NoSegment THEN "loop" ELSE "pos", m, sub[r].i)
  <2> DEFINE m == IF sub[r].map # NoSegment THEN sub[r].map ELSE name
             pc == IF m = NoSegment THEN "loop" ELSE "pos"
  <2>1. sub' = [sub EXCEPT ![r].map = m, ![r].pc = pc]
    BY <1>2 DEF Receive
  <2>2. Moves(r, pc, m, sub[r].i)
    <3> HIDE DEF m, pc
    <3> QED BY <2>1 DEF SubRec
  <2> QED
    BY <2>2
<1>3. LoadReadPos(r) => Moves(r, IF read_pos[sub[r].map] < 0 THEN "assert" ELSE "word",
                              sub[r].map, read_pos[sub[r].map])
  BY DEF LoadReadPos, SubRec
<1>4. LoadLock(r) => Moves(r, IF sub[r].i < 0 THEN "pos" ELSE "cas", sub[r].map, sub[r].i)
  BY DEF LoadLock, SeesWriter, kRWLockFree, SubRec
<1>5. CasLock(r) => \/ /\ AddReader(sub[r].map, sub[r].i, sub[r].n)
                       /\ Moves(r, "read", sub[r].map, sub[r].i)
                    \/ UNCHANGED shmVars /\ Moves(r, "pos", sub[r].map, sub[r].i)
  BY DEF CasLock, SubRec
<1>6. Read(r) => Moves(r, "release", sub[r].map, sub[r].i)
  BY DEF Read, SubRec
<1>7. Release(r) => Moves(r, "loop", sub[r].map, 0)
  BY LoopFields DEF Release
<1>8. Gone(r) => Moves(r, "down", NoSegment, 0)
  BY DEF Gone, DownSubscriber
<1> QED
  BY <1>1, <1>2, <1>3, <1>4, <1>5, <1>6, <1>7, <1>8

(* The publisher likewise. *)
PubMoves(pc, i) == pub'.pc = pc /\ pub'.map = pub.map /\ pub'.i = i

LEMMA PubStepMoves ==
    ASSUME PubTypes, NEW pc, NEW i, PubStep(pc, i)
    PROVE  PubMoves(pc, i)
  BY DEF PubTypes, PubStep, PubMoves

(* Readers are counted, and nobody else. *)
LEMMA ReadersCount ==
    ASSUME NEW k, NEW i
    PROVE  /\ IsFiniteSet(Readers(k, i)) /\ Cardinality(Readers(k, i)) \in Nat
           /\ Cardinality(Readers(k, i)) <= Cardinality(Subscribers)
<1>1. Readers(k, i) \subseteq Subscribers
  BY DEF Readers
<1> QED
  BY <1>1, SubscribersAssumption, FS_Subset, FS_CardinalityType

LEMMA ReadersKept ==
    ASSUME NEW r \in Subscribers, NEW pc, NEW m, NEW j, Moves(r, pc, m, j),
           \/ pc \notin {"read", "release"} /\ sub[r].pc \notin {"read", "release"}
           \/ /\ pc = "release" /\ sub[r].pc = "read" /\ m = sub[r].map /\ j = sub[r].i,
           NEW k, NEW i
    PROVE  Readers(k, i)' = Readers(k, i)
  BY DEF Readers, Moves

LEMMA ReaderAdded ==
    ASSUME NEW r \in Subscribers, Moves(r, "read", sub[r].map, sub[r].i),
           sub[r].pc = "cas", NEW k, NEW i
    PROVE  /\ k = sub[r].map /\ i = sub[r].i =>
                 Cardinality(Readers(k, i)') = Cardinality(Readers(k, i)) + 1
           /\ k # sub[r].map \/ i # sub[r].i => Readers(k, i)' = Readers(k, i)
<1>1. k # sub[r].map \/ i # sub[r].i => Readers(k, i)' = Readers(k, i)
  BY DEF Readers, Moves
<1>2. k = sub[r].map /\ i = sub[r].i =>
        Readers(k, i)' = Readers(k, i) \cup {r} /\ r \notin Readers(k, i)
  BY DEF Readers, Moves
<1> QED
  BY <1>1, <1>2, ReadersCount, FS_AddElement

LEMMA ReaderGone ==
    ASSUME NEW r \in Subscribers, NEW pc, NEW m, NEW j, Moves(r, pc, m, j),
           pc \notin {"read", "release"}, sub[r].pc \in {"read", "release"},
           NEW k, NEW i
    PROVE  /\ k = sub[r].map /\ i = sub[r].i =>
                 Cardinality(Readers(k, i)') = Cardinality(Readers(k, i)) - 1
           /\ k # sub[r].map \/ i # sub[r].i => Readers(k, i)' = Readers(k, i)
<1>1. k # sub[r].map \/ i # sub[r].i => Readers(k, i)' = Readers(k, i)
  BY DEF Readers, Moves
<1>2. k = sub[r].map /\ i = sub[r].i =>
        Readers(k, i)' = Readers(k, i) \ {r} /\ r \in Readers(k, i)
  BY DEF Readers, Moves
<1> QED
  BY <1>1, <1>2, ReadersCount, FS_RemoveElement

(* A step that keeps the words and the readers keeps the debt, and so does a  *)
(* word that is set to 0 or -1.                                              *)
LEMMA SameDebt ==
    ASSUME ShmTypes, CountTypes, LockDebt, crashes' \in Nat, crashes' >= crashes,
           NEW k \in Segment, NEW i \in Block,
           \/ Readers(k, i)' = Readers(k, i) /\ locks'[k][i] = locks[k][i]
           \/ Readers(k, i)' = Readers(k, i) /\ locks'[k][i] \in {0, -1}
    PROVE  Owed(k, i)' <= crashes' /\ Owed(k, i)' >= -1 - Cardinality(Subscribers)
<1>1. locks[k][i] \in Int /\ crashes \in Nat
  BY DEF ShmTypes, CountTypes
<1>2. /\ Cardinality(Readers(k, i)) \in Nat
      /\ Cardinality(Readers(k, i)) <= Cardinality(Subscribers)
  BY ReadersCount
<1>3. Cardinality(Subscribers) \in Nat
  BY ConstantFacts
<1>4. /\ locks[k][i] - Cardinality(Readers(k, i)) <= crashes
      /\ locks[k][i] - Cardinality(Readers(k, i)) >= -1 - Cardinality(Subscribers)
  BY DEF LockDebt, Owed
<1> QED
  BY <1>1, <1>2, <1>3, <1>4 DEF Owed

(* The debt of a lock word stays within its bounds. *)
LEMMA LockDebtStep == Types /\ Mapped /\ LockDebt /\ [Next]_vars => LockDebt'
<1> SUFFICES ASSUME Types, Mapped, LockDebt, [Next]_vars PROVE LockDebt'
  OBVIOUS
<1>0. ShmTypes /\ SubTypes /\ CountTypes /\ crashes \in Nat
  BY ConstantFacts DEF Types, CountTypes
<1> USE <1>0
<1>1. CASE PubCreate
  <2>1. locks' = locks /\ sub' = sub /\ crashes' \in Nat /\ crashes' >= crashes
    BY <1>1 DEF PubCreate, shmVars
  <2>2. ASSUME NEW k, NEW i PROVE Readers(k, i)' = Readers(k, i)
    BY <2>1 DEF Readers
  <2> QED
    BY <2>1, <2>2, SameDebt DEF LockDebt
<1>2. CASE PubConstruct
  <2>1. sub' = sub /\ crashes' = crashes /\ pub.map \in Segment /\ pub.i \in Block
    BY <1>2, PubHasBlock DEF PubConstruct
  <2>2. ASSUME NEW k, NEW i PROVE Readers(k, i)' = Readers(k, i)
    BY <2>1 DEF Readers
  <2>3. ASSUME NEW k \in Segment, NEW i \in Block
        PROVE  locks'[k][i] = locks[k][i] \/ locks'[k][i] \in {0, -1}
    BY <1>2, <2>1
    DEF PubConstruct, ConstructState, kRWLockFree, shmVars, Types, ShmTypes
  <2> QED
    BY <2>1, <2>2, <2>3, SameDebt DEF LockDebt
<1>3. CASE Acquire
  <2>1. locks' = locks /\ sub' = sub /\ crashes' \in Nat /\ crashes' >= crashes
    BY <1>3 DEF Acquire, shmVars
  <2>2. ASSUME NEW k, NEW i PROVE Readers(k, i)' = Readers(k, i)
    BY <2>1 DEF Readers
  <2> QED
    BY <2>1, <2>2, SameDebt DEF LockDebt
<1>4. CASE LockForWrite
  <2>1. sub' = sub /\ crashes' = crashes /\ pub.map \in Segment /\ pub.i \in Block
    BY <1>4, PubHasBlock DEF LockForWrite
  <2>2. ASSUME NEW k, NEW i PROVE Readers(k, i)' = Readers(k, i)
    BY <2>1 DEF Readers
  <2>3. ASSUME NEW k \in Segment, NEW i \in Block
        PROVE  locks'[k][i] = locks[k][i] \/ locks'[k][i] \in {0, -1}
    BY <1>4, <2>1
    DEF LockForWrite, PubStep, TakeForWrite, FreeForWrite, SetLock, kRWLockFree,
        kWriteExclusive, shmVars, Types, ShmTypes
  <2> QED
    BY <2>1, <2>2, <2>3, SameDebt DEF LockDebt
<1>5. CASE Write
  <2>1. locks' = locks /\ sub' = sub /\ crashes' \in Nat /\ crashes' >= crashes
    BY <1>5 DEF Write, WriteBlock, shmVars
  <2>2. ASSUME NEW k, NEW i PROVE Readers(k, i)' = Readers(k, i)
    BY <2>1 DEF Readers
  <2> QED
    BY <2>1, <2>2, SameDebt DEF LockDebt
<1>6. CASE ReleaseLock
  <2>1. sub' = sub /\ crashes' = crashes /\ pub.map \in Segment /\ pub.i \in Block
    BY <1>6, PubHasBlock DEF ReleaseLock
  <2>2. ASSUME NEW k, NEW i PROVE Readers(k, i)' = Readers(k, i)
    BY <2>1 DEF Readers
  <2>3. ASSUME NEW k \in Segment, NEW i \in Block
        PROVE  locks'[k][i] = locks[k][i] \/ locks'[k][i] \in {0, -1}
    BY <1>6, <2>1
    DEF ReleaseLock, PubStep, StoreFree, SetLock, kRWLockFree, shmVars, Types,
        ShmTypes
  <2> QED
    BY <2>1, <2>2, <2>3, SameDebt DEF LockDebt
<1>7. CASE ReleasePos
  <2>1. locks' = locks /\ sub' = sub /\ crashes' \in Nat /\ crashes' >= crashes
    BY <1>7 DEF ReleasePos, StoreReadPos, shmVars
  <2>2. ASSUME NEW k, NEW i PROVE Readers(k, i)' = Readers(k, i)
    BY <2>1 DEF Readers
  <2> QED
    BY <2>1, <2>2, SameDebt DEF LockDebt
<1>8. CASE Notify
  <2>1. locks' = locks /\ sub' = sub /\ crashes' \in Nat /\ crashes' >= crashes
    BY <1>8 DEF Notify, shmVars
  <2>2. ASSUME NEW k, NEW i PROVE Readers(k, i)' = Readers(k, i)
    BY <2>1 DEF Readers
  <2> QED
    BY <2>1, <2>2, SameDebt DEF LockDebt
<1>9. CASE PubStop
  <2>1. locks' = locks /\ sub' = sub /\ crashes' \in Nat /\ crashes' >= crashes
    BY <1>9 DEF PubStop, shmVars
  <2>2. ASSUME NEW k, NEW i PROVE Readers(k, i)' = Readers(k, i)
    BY <2>1 DEF Readers
  <2> QED
    BY <2>1, <2>2, SameDebt DEF LockDebt
<1>10. CASE PubCrash
  <2>1. locks' = locks /\ sub' = sub /\ crashes' \in Nat /\ crashes' >= crashes
    BY <1>10 DEF PubCrash, shmVars
  <2>2. ASSUME NEW k, NEW i PROVE Readers(k, i)' = Readers(k, i)
    BY <2>1 DEF Readers
  <2> QED
    BY <2>1, <2>2, SameDebt DEF LockDebt
<1>11. ASSUME NEW r \in Subscribers, Discover(r) PROVE LockDebt'
  <2>1. locks' = locks /\ sub' = sub /\ crashes' \in Nat /\ crashes' >= crashes
    BY <1>11 DEF Discover, shmVars
  <2>2. ASSUME NEW k, NEW i PROVE Readers(k, i)' = Readers(k, i)
    BY <2>1 DEF Readers
  <2> QED
    BY <2>1, <2>2, SameDebt DEF LockDebt
<1>12. ASSUME NEW r \in Subscribers, SubStart(r) PROVE LockDebt'
  <2>1. locks' = locks /\ crashes' = crashes /\ sub[r].pc \notin {"read", "release"}
    BY <1>12 DEF SubStart, shmVars
  <2>2. ASSUME NEW k, NEW i PROVE Readers(k, i)' = Readers(k, i)
    BY <1>12, <2>1, SubMoves, ReadersKept
  <2> QED
    BY <2>1, <2>2, SameDebt DEF LockDebt
<1>13. ASSUME NEW r \in Subscribers, Receive(r) PROVE LockDebt'
  <2>1. locks' = locks /\ crashes' = crashes /\ sub[r].pc \notin {"read", "release"}
    BY <1>13 DEF Receive, shmVars
  <2>2. PICK m : Moves(r, IF m = NoSegment THEN "loop" ELSE "pos", m, sub[r].i)
    BY <1>13, SubMoves
  <2>3. ASSUME NEW k, NEW i PROVE Readers(k, i)' = Readers(k, i)
    BY <2>1, <2>2, ReadersKept
  <2> QED
    BY <2>1, <2>3, SameDebt DEF LockDebt
<1>14. ASSUME NEW r \in Subscribers, LoadReadPos(r) PROVE LockDebt'
  <2>1. locks' = locks /\ crashes' = crashes /\ sub[r].pc \notin {"read", "release"}
    BY <1>14 DEF LoadReadPos, shmVars
  <2>2. ASSUME NEW k, NEW i PROVE Readers(k, i)' = Readers(k, i)
    BY <1>14, <2>1, SubMoves, ReadersKept
  <2> QED
    BY <2>1, <2>2, SameDebt DEF LockDebt
<1>15. ASSUME NEW r \in Subscribers, LoadLock(r) PROVE LockDebt'
  <2>1. locks' = locks /\ crashes' = crashes /\ sub[r].pc \notin {"read", "release"}
    BY <1>15 DEF LoadLock, shmVars
  <2>2. ASSUME NEW k, NEW i PROVE Readers(k, i)' = Readers(k, i)
    BY <1>15, <2>1, SubMoves, ReadersKept
  <2> QED
    BY <2>1, <2>2, SameDebt DEF LockDebt
<1>16. ASSUME NEW r \in Subscribers, CasLock(r) PROVE LockDebt'
  <2>1. sub[r].map \in Segment /\ sub[r].i \in Block /\ crashes' = crashes /\ sub[r].pc = "cas"
    BY <1>16, SubHasBlock DEF CasLock
  <2>2. CASE UNCHANGED shmVars /\ Moves(r, "pos", sub[r].map, sub[r].i)
    <3>1. ASSUME NEW k, NEW i PROVE Readers(k, i)' = Readers(k, i)
      BY <2>1, <2>2, ReadersKept
    <3> QED
      BY <2>1, <2>2, <3>1, SameDebt DEF LockDebt, shmVars
  <2>3. CASE /\ AddReader(sub[r].map, sub[r].i, sub[r].n)
             /\ Moves(r, "read", sub[r].map, sub[r].i)
    <3> SUFFICES ASSUME NEW k \in Segment, NEW i \in Block
                 PROVE  /\ Owed(k, i)' <= crashes'
                        /\ Owed(k, i)' >= -1 - Cardinality(Subscribers)
      BY DEF LockDebt
    <3>1. CASE k = sub[r].map /\ i = sub[r].i
      <4>1. locks'[k][i] = locks[k][i] + 1 /\ locks[k][i] \in Int
        BY <2>1, <2>3, <3>1 DEF AddReader, SetLock, Types, ShmTypes
      <4>2. Cardinality(Readers(k, i)') = Cardinality(Readers(k, i)) + 1
        BY <2>1, <2>3, <3>1, ReaderAdded
      <4>3. Owed(k, i)' = Owed(k, i)
        BY <4>1, <4>2, ReadersCount DEF Owed
      <4> QED
        BY <2>1, <4>3 DEF LockDebt
    <3>2. CASE k # sub[r].map \/ i # sub[r].i
      <4>1. locks'[k][i] = locks[k][i]
        BY <2>1, <2>3, <3>2 DEF AddReader, SetLock, Types, ShmTypes
      <4>2. Readers(k, i)' = Readers(k, i)
        BY <2>1, <2>3, <3>2, ReaderAdded
      <4> QED
        BY <2>1, <4>1, <4>2, SameDebt
    <3> QED
      BY <3>1, <3>2
  <2> QED
    BY <1>16, <2>2, <2>3, SubMoves
<1>17. ASSUME NEW r \in Subscribers, Read(r) PROVE LockDebt'
  <2>1. locks' = locks /\ crashes' = crashes /\ sub[r].pc = "read"
    BY <1>17 DEF Read, shmVars
  <2>2. ASSUME NEW k, NEW i PROVE Readers(k, i)' = Readers(k, i)
    BY <1>17, <2>1, SubMoves, ReadersKept
  <2> QED
    BY <2>1, <2>2, SameDebt DEF LockDebt
<1>18. ASSUME NEW r \in Subscribers, Release(r) PROVE LockDebt'
  <2>1. /\ sub[r].map \in Segment /\ sub[r].i \in Block /\ crashes' = crashes
        /\ sub[r].pc = "release" /\ Moves(r, "loop", sub[r].map, 0)
    BY <1>18, SubHasBlock, SubMoves DEF Release
  <2> SUFFICES ASSUME NEW k \in Segment, NEW i \in Block
               PROVE  /\ Owed(k, i)' <= crashes'
                      /\ Owed(k, i)' >= -1 - Cardinality(Subscribers)
    BY DEF LockDebt
  <2>2. CASE k = sub[r].map /\ i = sub[r].i
    <3>1. locks'[k][i] = locks[k][i] - 1 /\ locks[k][i] \in Int
      BY <1>18, <2>1, <2>2 DEF Release, DropReader, SetLock, Types, ShmTypes
    <3>2. Cardinality(Readers(k, i)') = Cardinality(Readers(k, i)) - 1
      BY <2>1, <2>2, ReaderGone
    <3>3. Owed(k, i)' = Owed(k, i)
      BY <3>1, <3>2, ReadersCount DEF Owed
    <3> QED
      BY <2>1, <3>3 DEF LockDebt
  <2>3. CASE k # sub[r].map \/ i # sub[r].i
    <3>1. locks'[k][i] = locks[k][i]
      BY <1>18, <2>1, <2>3 DEF Release, DropReader, SetLock, Types, ShmTypes
    <3>2. Readers(k, i)' = Readers(k, i)
      BY <2>1, <2>3, ReaderGone
    <3> QED
      BY <2>1, <3>1, <3>2, SameDebt
  <2> QED
    BY <2>2, <2>3
<1>19. ASSUME NEW r \in Subscribers, SubStop(r) PROVE LockDebt'
  <2>1. locks' = locks /\ crashes' = crashes /\ sub[r].pc = "loop" /\ Gone(r)
    BY <1>19 DEF SubStop, shmVars
  <2>2. ASSUME NEW k, NEW i PROVE Readers(k, i)' = Readers(k, i)
    BY <2>1, SubMoves, ReadersKept
  <2> QED
    BY <2>1, <2>2, SameDebt DEF LockDebt
<1>20. ASSUME NEW r \in Subscribers, SubCrash(r) PROVE LockDebt'
  <2>1. /\ locks' = locks /\ crashes' = crashes + 1 /\ Gone(r)
        /\ Moves(r, "down", NoSegment, 0)
    BY <1>20, SubMoves DEF SubCrash, shmVars
  <2> SUFFICES ASSUME NEW k \in Segment, NEW i \in Block
               PROVE  /\ Owed(k, i)' <= crashes'
                      /\ Owed(k, i)' >= -1 - Cardinality(Subscribers)
    BY DEF LockDebt
  <2>2. CASE Readers(k, i)' = Readers(k, i)
    BY <2>1, <2>2, SameDebt
  <2>3. CASE Readers(k, i)' # Readers(k, i)
    <3>1. sub[r].pc \in {"read", "release"}
      BY <2>1, <2>3, ReadersKept
    <3>2. Cardinality(Readers(k, i)') = Cardinality(Readers(k, i)) - 1
      BY <2>1, <2>3, <3>1, ReaderGone
    <3>3. locks[k][i] \in Int
      BY DEF Types, ShmTypes
    <3>4. Owed(k, i)' = Owed(k, i) + 1 /\ Owed(k, i) \in Int
      BY <2>1, <3>2, <3>3, ReadersCount DEF Owed
    <3>5. Owed(k, i) <= crashes /\ Owed(k, i) >= -1 - Cardinality(Subscribers)
      BY DEF LockDebt
    <3> QED
      BY <2>1, <3>4, <3>5, ConstantFacts
  <2> QED
    BY <2>2, <2>3
<1>21. CASE UNCHANGED vars
  <2>1. locks' = locks /\ sub' = sub /\ crashes' \in Nat /\ crashes' >= crashes
    BY <1>21 DEF vars, shmVars, procVars
  <2>2. ASSUME NEW k, NEW i PROVE Readers(k, i)' = Readers(k, i)
    BY <2>1 DEF Readers
  <2> QED
    BY <2>1, <2>2, SameDebt DEF LockDebt
<1> QED
  BY <1>1, <1>2, <1>3, <1>4, <1>5, <1>6, <1>7, <1>8, <1>9, <1>10, <1>11,
     <1>12, <1>13, <1>14, <1>15, <1>16, <1>17, <1>18, <1>19, <1>20, <1>21
  DEF Next, Publishing, Reading

(* Blocks get newer. *)
LEMMA DataGrows ==
    ASSUME Types, BlocksFresh, Write, pub.map \in Segment, pub.i \in Block,
           NEW k \in Segment, NEW i \in Block
    PROVE  /\ data[k][i] \in Nat /\ data'[k][i] \in Nat
           /\ data'[k][i] >= data[k][i] /\ data'[k][i] <= last'
<1>1. data[k][i] \in Nat /\ last \in Nat
  BY ConstantFacts DEF Types, ShmTypes, PubTypes
<1>2. data[k][i] <= last
  BY DEF BlocksFresh
<1>3. last' = last + 1 /\ data' = [data EXCEPT ![pub.map][pub.i] = last + 1]
  BY DEF Write, WriteBlock
<1>4. data'[k][i] = last + 1 \/ data'[k][i] = data[k][i]
  BY <1>3 DEF Types, ShmTypes
<1> QED
  BY <1>1, <1>2, <1>3, <1>4

LEMMA BlocksFreshStep ==
    Types /\ Mapped /\ BlocksFresh /\ WrittenFresh /\ [Next]_vars => BlocksFresh'
<1> SUFFICES ASSUME Types, Mapped, BlocksFresh, WrittenFresh, [Next]_vars PROVE BlocksFresh'
  OBVIOUS
<1>1. CASE PubCreate
  <2>1. data' = data /\ newest' = newest /\ read_pos' = read_pos /\ last' = last
    BY <1>1 DEF PubCreate, shmVars
  <2> QED
    BY <2>1 DEF BlocksFresh
<1>2. CASE PubConstruct
  <2>1. pub.map \in Segment /\ last \in Nat
    BY <1>2, PubHasBlock, ConstantFacts DEF PubConstruct, Types, PubTypes
  <2> SUFFICES ASSUME NEW k \in Segment
               PROVE  /\ newest'[k] <= last'
                      /\ \A i \in Block : data'[k][i] <= last'
                      /\ read_pos'[k] \in Block => data'[k][read_pos'[k]] >= newest'[k]
    BY DEF BlocksFresh
  <2>2. /\ data' = data /\ last' = last
        /\ newest' = [newest EXCEPT ![pub.map] = 0]
        /\ read_pos' = [read_pos EXCEPT ![pub.map] = -1]
    BY <1>2 DEF PubConstruct, ConstructState
  <2>3. CASE k = pub.map
    <3>1. newest'[k] = 0 /\ read_pos'[k] = -1
      BY <2>1, <2>2, <2>3 DEF Types, PubTypes, ShmTypes
    <3> QED
      BY <2>1, <2>2, <3>1, ConstantFacts DEF BlocksFresh
  <2>4. CASE k # pub.map
    <3>1. newest'[k] = newest[k] /\ read_pos'[k] = read_pos[k]
      BY <2>1, <2>2, <2>4 DEF Types, PubTypes, ShmTypes
    <3> QED
      BY <2>2, <3>1 DEF BlocksFresh
  <2> QED
    BY <2>3, <2>4
<1>3. CASE Acquire
  <2>1. data' = data /\ newest' = newest /\ read_pos' = read_pos /\ last' = last
    BY <1>3 DEF Acquire, shmVars
  <2> QED
    BY <2>1 DEF BlocksFresh
<1>4. CASE LockForWrite
  <2>1. data' = data /\ newest' = newest /\ read_pos' = read_pos /\ last' = last
    BY <1>4 DEF LockForWrite, TakeForWrite, shmVars
  <2> QED
    BY <2>1 DEF BlocksFresh
<1>5. CASE Write
  <2>1. pub.map \in Segment /\ pub.i \in Block /\ last \in Nat
    BY <1>5, PubHasBlock, ConstantFacts DEF Write, Types, PubTypes
  <2>2. newest' = newest /\ read_pos' = read_pos /\ last' = last + 1
    BY <1>5 DEF Write, WriteBlock
  <2>3. ASSUME NEW k \in Segment, NEW i \in Block
        PROVE  /\ data[k][i] \in Nat /\ data'[k][i] \in Nat
               /\ data'[k][i] >= data[k][i] /\ data'[k][i] <= last'
    BY <2>1, DataGrows, <1>5
  <2>4. ASSUME NEW k \in Segment PROVE newest[k] \in Nat /\ newest[k] <= last
    BY ConstantFacts DEF Types, PubTypes, BlocksFresh
  <2> SUFFICES ASSUME NEW k \in Segment
               PROVE  /\ newest'[k] <= last'
                      /\ \A i \in Block : data'[k][i] <= last'
                      /\ read_pos'[k] \in Block => data'[k][read_pos'[k]] >= newest'[k]
    BY DEF BlocksFresh
  <2>5. newest'[k] <= last'
    BY <2>1, <2>2, <2>4
  <2>6. ASSUME read_pos[k] \in Block PROVE data'[k][read_pos[k]] >= newest[k]
    BY <2>3, <2>4, <2>6 DEF BlocksFresh
  <2> QED
    BY <2>2, <2>3, <2>5, <2>6
<1>6. CASE ReleaseLock
  <2>1. data' = data /\ newest' = newest /\ read_pos' = read_pos /\ last' = last
    BY <1>6 DEF ReleaseLock, StoreFree
  <2> QED
    BY <2>1 DEF BlocksFresh
<1>7. CASE ReleasePos
  <2>1. pub.map \in Segment /\ pub.i \in Block /\ last \in Nat
    BY <1>7, PubHasBlock, ConstantFacts DEF ReleasePos, Types, PubTypes
  <2>2. /\ data' = data /\ last' = last /\ data[pub.map][pub.i] = last
        /\ newest' = [newest EXCEPT ![pub.map] = last]
        /\ read_pos' = [read_pos EXCEPT ![pub.map] = pub.i]
    BY <1>7 DEF ReleasePos, StoreReadPos, WrittenFresh
  <2> SUFFICES ASSUME NEW k \in Segment
               PROVE  /\ newest'[k] <= last'
                      /\ \A i \in Block : data'[k][i] <= last'
                      /\ read_pos'[k] \in Block => data'[k][read_pos'[k]] >= newest'[k]
    BY DEF BlocksFresh
  <2>3. CASE k = pub.map
    <3>1. newest'[k] = last /\ read_pos'[k] = pub.i
      BY <2>1, <2>2, <2>3 DEF Types, PubTypes, ShmTypes
    <3> QED
      BY <2>1, <2>2, <2>3, <3>1 DEF BlocksFresh
  <2>4. CASE k # pub.map
    <3>1. newest'[k] = newest[k] /\ read_pos'[k] = read_pos[k]
      BY <2>1, <2>2, <2>4 DEF Types, PubTypes, ShmTypes
    <3> QED
      BY <2>2, <3>1 DEF BlocksFresh
  <2> QED
    BY <2>3, <2>4
<1>8. CASE Notify
  <2>1. data' = data /\ newest' = newest /\ read_pos' = read_pos /\ last' = last
    BY <1>8 DEF Notify, shmVars
  <2> QED
    BY <2>1 DEF BlocksFresh
<1>9. CASE PubStop
  <2>1. data' = data /\ newest' = newest /\ read_pos' = read_pos /\ last' = last
    BY <1>9 DEF PubStop, shmVars
  <2> QED
    BY <2>1 DEF BlocksFresh
<1>10. CASE PubCrash
  <2>1. data' = data /\ newest' = newest /\ read_pos' = read_pos /\ last' = last
    BY <1>10 DEF PubCrash, shmVars
  <2> QED
    BY <2>1 DEF BlocksFresh
<1>11. ASSUME NEW r \in Subscribers, Discover(r) PROVE BlocksFresh'
  <2>1. data' = data /\ newest' = newest /\ read_pos' = read_pos /\ last' = last
    BY <1>11 DEF Discover, shmVars
  <2> QED
    BY <2>1 DEF BlocksFresh
<1>12. ASSUME NEW r \in Subscribers, SubStart(r) PROVE BlocksFresh'
  <2>1. data' = data /\ newest' = newest /\ read_pos' = read_pos /\ last' = last
    BY <1>12 DEF SubStart, shmVars
  <2> QED
    BY <2>1 DEF BlocksFresh
<1>13. ASSUME NEW r \in Subscribers, Receive(r) PROVE BlocksFresh'
  <2>1. data' = data /\ newest' = newest /\ read_pos' = read_pos /\ last' = last
    BY <1>13 DEF Receive, shmVars
  <2> QED
    BY <2>1 DEF BlocksFresh
<1>14. ASSUME NEW r \in Subscribers, LoadReadPos(r) PROVE BlocksFresh'
  <2>1. data' = data /\ newest' = newest /\ read_pos' = read_pos /\ last' = last
    BY <1>14 DEF LoadReadPos, shmVars
  <2> QED
    BY <2>1 DEF BlocksFresh
<1>15. ASSUME NEW r \in Subscribers, LoadLock(r) PROVE BlocksFresh'
  <2>1. data' = data /\ newest' = newest /\ read_pos' = read_pos /\ last' = last
    BY <1>15 DEF LoadLock, shmVars
  <2> QED
    BY <2>1 DEF BlocksFresh
<1>16. ASSUME NEW r \in Subscribers, CasLock(r) PROVE BlocksFresh'
  <2>1. data' = data /\ newest' = newest /\ read_pos' = read_pos /\ last' = last
    BY <1>16 DEF CasLock, AddReader, shmVars
  <2> QED
    BY <2>1 DEF BlocksFresh
<1>17. ASSUME NEW r \in Subscribers, Read(r) PROVE BlocksFresh'
  <2>1. data' = data /\ newest' = newest /\ read_pos' = read_pos /\ last' = last
    BY <1>17 DEF Read, shmVars
  <2> QED
    BY <2>1 DEF BlocksFresh
<1>18. ASSUME NEW r \in Subscribers, Release(r) PROVE BlocksFresh'
  <2>1. data' = data /\ newest' = newest /\ read_pos' = read_pos /\ last' = last
    BY <1>18 DEF Release, DropReader
  <2> QED
    BY <2>1 DEF BlocksFresh
<1>19. ASSUME NEW r \in Subscribers, SubStop(r) PROVE BlocksFresh'
  <2>1. data' = data /\ newest' = newest /\ read_pos' = read_pos /\ last' = last
    BY <1>19 DEF SubStop, shmVars
  <2> QED
    BY <2>1 DEF BlocksFresh
<1>20. ASSUME NEW r \in Subscribers, SubCrash(r) PROVE BlocksFresh'
  <2>1. data' = data /\ newest' = newest /\ read_pos' = read_pos /\ last' = last
    BY <1>20 DEF SubCrash, shmVars
  <2> QED
    BY <2>1 DEF BlocksFresh
<1>21. CASE UNCHANGED vars
  <2>1. data' = data /\ newest' = newest /\ read_pos' = read_pos /\ last' = last
    BY <1>21 DEF vars, shmVars, procVars
  <2> QED
    BY <2>1 DEF BlocksFresh
<1> QED
  BY <1>1, <1>2, <1>3, <1>4, <1>5, <1>6, <1>7, <1>8, <1>9, <1>10, <1>11,
     <1>12, <1>13, <1>14, <1>15, <1>16, <1>17, <1>18, <1>19, <1>20, <1>21
  DEF Next, Publishing, Reading

(* What is published is what was written. *)
LEMMA WrittenFreshStep == Types /\ Mapped /\ WrittenFresh /\ [Next]_vars => WrittenFresh'
<1> SUFFICES ASSUME Types, Mapped, WrittenFresh, [Next]_vars PROVE WrittenFresh'
  OBVIOUS
<1>1. CASE PubCreate
  <2>1. pub'.pc = "construct"
    BY <1>1, CreateFields DEF PubCreate
  <2> QED
    BY <2>1 DEF WrittenFresh
<1>2. CASE PubConstruct
  <2>1. pub'.pc = "idle"
    BY <1>2 DEF PubConstruct, Types, PubTypes
  <2> QED
    BY <2>1 DEF WrittenFresh
<1>3. CASE Acquire
  <2>1. PubMoves("lock", 0)
    BY <1>3, PubStepMoves DEF Acquire, Types
  <2> QED
    BY <2>1 DEF PubMoves, WrittenFresh
<1>4. CASE LockForWrite
  <2>1. PubMoves("write", pub.i) \/ PubMoves("lock", (pub.i + 1) % BlockNum)
    BY <1>4, PubStepMoves DEF LockForWrite, Types
  <2> QED
    BY <2>1 DEF PubMoves, WrittenFresh
<1>5. CASE Write
  <2>1. PubMoves("unlock", pub.i)
    BY <1>5, PubStepMoves DEF Write, Types
  <2>2. pub.map \in Segment /\ pub.i \in Block
    BY <1>5, PubHasBlock DEF Write
  <2>3. data'[pub.map][pub.i] = last' 
    BY <1>5, <2>2 DEF Write, WriteBlock, Types, ShmTypes
  <2> QED
    BY <2>1, <2>3 DEF PubMoves, WrittenFresh
<1>6. CASE ReleaseLock
  <2>1. PubMoves("publish", pub.i)
    BY <1>6, PubStepMoves DEF ReleaseLock, Types
  <2> QED
    BY <1>6, <2>1 DEF PubMoves, WrittenFresh, ReleaseLock, StoreFree
<1>7. CASE ReleasePos
  <2>1. PubMoves("notify", pub.i)
    BY <1>7, PubStepMoves DEF ReleasePos, Types
  <2> QED
    BY <2>1 DEF PubMoves, WrittenFresh
<1>8. CASE Notify
  <2>1. PubMoves("idle", 0)
    BY <1>8, PubStepMoves DEF Notify, Types
  <2> QED
    BY <2>1 DEF PubMoves, WrittenFresh
<1>9. CASE PubStop
  BY <1>9 DEF PubStop, DownPublisher, WrittenFresh
<1>10. CASE PubCrash
  BY <1>10 DEF PubCrash, DownPublisher, WrittenFresh
<1>11. ASSUME NEW r \in Subscribers, Discover(r) PROVE WrittenFresh'
  BY <1>11 DEF Discover, shmVars, WrittenFresh
<1>12. ASSUME NEW r \in Subscribers, SubStart(r) PROVE WrittenFresh'
  BY <1>12 DEF SubStart, shmVars, WrittenFresh
<1>13. ASSUME NEW r \in Subscribers, Receive(r) PROVE WrittenFresh'
  BY <1>13 DEF Receive, shmVars, WrittenFresh
<1>14. ASSUME NEW r \in Subscribers, LoadReadPos(r) PROVE WrittenFresh'
  BY <1>14 DEF LoadReadPos, shmVars, WrittenFresh
<1>15. ASSUME NEW r \in Subscribers, LoadLock(r) PROVE WrittenFresh'
  BY <1>15 DEF LoadLock, shmVars, WrittenFresh
<1>16. ASSUME NEW r \in Subscribers, CasLock(r) PROVE WrittenFresh'
  BY <1>16 DEF CasLock, AddReader, shmVars, WrittenFresh
<1>17. ASSUME NEW r \in Subscribers, Read(r) PROVE WrittenFresh'
  BY <1>17 DEF Read, shmVars, WrittenFresh
<1>18. ASSUME NEW r \in Subscribers, Release(r) PROVE WrittenFresh'
  BY <1>18 DEF Release, DropReader, WrittenFresh
<1>19. ASSUME NEW r \in Subscribers, SubStop(r) PROVE WrittenFresh'
  BY <1>19 DEF SubStop, shmVars, WrittenFresh
<1>20. ASSUME NEW r \in Subscribers, SubCrash(r) PROVE WrittenFresh'
  BY <1>20 DEF SubCrash, shmVars, WrittenFresh
<1>21. CASE UNCHANGED vars
  BY <1>21 DEF vars, shmVars, procVars, WrittenFresh
<1> QED
  BY <1>1, <1>2, <1>3, <1>4, <1>5, <1>6, <1>7, <1>8, <1>9, <1>10, <1>11,
     <1>12, <1>13, <1>14, <1>15, <1>16, <1>17, <1>18, <1>19, <1>20, <1>21
  DEF Next, Publishing, Reading

(* A block that a subscriber has chosen stays as new as it was. *)
LEMMA ReadsFreshStep == Types /\ Mapped /\ BlocksFresh /\ ReadsFresh /\ [Next]_vars => ReadsFresh'
<1> SUFFICES ASSUME Types, Mapped, BlocksFresh, ReadsFresh, [Next]_vars PROVE ReadsFresh'
  OBVIOUS
<1>1. CASE PubCreate
  <2>1. UNCHANGED <<data, sub, floor, seen>>
    BY <1>1 DEF PubCreate, shmVars
  <2> QED
    BY <2>1 DEF ReadsFresh
<1>2. CASE PubConstruct
  <2>1. UNCHANGED <<data, sub, floor, seen>>
    BY <1>2 DEF PubConstruct, ConstructState
  <2> QED
    BY <2>1 DEF ReadsFresh
<1>3. CASE Acquire
  <2>1. UNCHANGED <<data, sub, floor, seen>>
    BY <1>3 DEF Acquire, shmVars
  <2> QED
    BY <2>1 DEF ReadsFresh
<1>4. CASE LockForWrite
  <2>1. UNCHANGED <<data, sub, floor, seen>>
    BY <1>4 DEF LockForWrite, TakeForWrite, shmVars
  <2> QED
    BY <2>1 DEF ReadsFresh
<1>5. CASE Write
  <2>1. pub.map \in Segment /\ pub.i \in Block /\ UNCHANGED <<sub, floor, seen>>
    BY <1>5, PubHasBlock DEF Write
  <2> SUFFICES ASSUME NEW s \in Subscribers, sub[s].pc \in {"word", "cas", "read"}
               PROVE  data'[sub[s].map][sub[s].i] >= floor[s]
    BY <2>1 DEF ReadsFresh
  <2>2. sub[s].map \in Segment /\ sub[s].i \in Block /\ floor[s] \in Nat
    BY SubHasBlock, ConstantFacts DEF Types, CountTypes
  <2>3. data[sub[s].map][sub[s].i] >= floor[s]
    BY DEF ReadsFresh
  <2>4. /\ data[sub[s].map][sub[s].i] \in Nat /\ data'[sub[s].map][sub[s].i] \in Nat
        /\ data'[sub[s].map][sub[s].i] >= data[sub[s].map][sub[s].i]
    BY <1>5, <2>1, <2>2, DataGrows
  <2> QED
    BY <2>2, <2>3, <2>4
<1>6. CASE ReleaseLock
  <2>1. UNCHANGED <<data, sub, floor, seen>>
    BY <1>6 DEF ReleaseLock, StoreFree
  <2> QED
    BY <2>1 DEF ReadsFresh
<1>7. CASE ReleasePos
  <2>1. UNCHANGED <<data, sub, floor, seen>>
    BY <1>7 DEF ReleasePos, StoreReadPos
  <2> QED
    BY <2>1 DEF ReadsFresh
<1>8. CASE Notify
  <2>1. UNCHANGED <<data, sub, floor, seen>>
    BY <1>8 DEF Notify, shmVars
  <2> QED
    BY <2>1 DEF ReadsFresh
<1>9. CASE PubStop
  <2>1. UNCHANGED <<data, sub, floor, seen>>
    BY <1>9 DEF PubStop, shmVars
  <2> QED
    BY <2>1 DEF ReadsFresh
<1>10. CASE PubCrash
  <2>1. UNCHANGED <<data, sub, floor, seen>>
    BY <1>10 DEF PubCrash, shmVars
  <2> QED
    BY <2>1 DEF ReadsFresh
<1>11. ASSUME NEW r \in Subscribers, Discover(r) PROVE ReadsFresh'
  <2>1. UNCHANGED <<data, sub, floor, seen>>
    BY <1>11 DEF Discover, shmVars
  <2> QED
    BY <2>1 DEF ReadsFresh
<1>12. ASSUME NEW r \in Subscribers, SubStart(r) PROVE ReadsFresh'
  <2>1. Moves(r, "loop", name, 0) /\ UNCHANGED <<data, floor, seen>>
    BY <1>12, SubMoves DEF SubStart, shmVars, Types
  <2> QED
    BY <1>12, <2>1 DEF Moves, ReadsFresh
<1>13. ASSUME NEW r \in Subscribers, Receive(r) PROVE ReadsFresh'
  <2>1. PICK m : Moves(r, IF m = NoSegment THEN "loop" ELSE "pos", m, sub[r].i)
    BY <1>13, SubMoves DEF Types
  <2>2. UNCHANGED <<data, floor, seen>>
    BY <1>13 DEF Receive, shmVars
  <2> QED
    BY <2>1, <2>2 DEF Moves, ReadsFresh
<1>14. ASSUME NEW r \in Subscribers, LoadReadPos(r) PROVE ReadsFresh'
  <2>1. Moves(r, IF read_pos[sub[r].map] < 0 THEN "assert" ELSE "word",
              sub[r].map, read_pos[sub[r].map])
    BY <1>14, SubMoves DEF Types
  <2>2. /\ UNCHANGED <<data, seen>> /\ sub[r].map \in Segment
        /\ floor' = [floor EXCEPT ![r] = newest[sub[r].map]]
    BY <1>14, SubHasBlock DEF LoadReadPos, shmVars
  <2>3. /\ floor'[r] = newest[sub[r].map]
        /\ \A s \in Subscribers \ {r} : floor'[s] = floor[s]
    BY <2>2 DEF Types, CountTypes
  <2>4. read_pos[sub[r].map] < 0 \/ read_pos[sub[r].map] \in Block
    BY <2>2 DEF Types, ShmTypes
  <2>5. \/ sub'[r].pc = "assert"
        \/ sub'[r].pc = "word" /\ data[sub[r].map][read_pos[sub[r].map]] >= newest[sub[r].map]
    BY <2>1, <2>2, <2>4 DEF Moves, BlocksFresh
  <2> QED
    BY <2>1, <2>2, <2>3, <2>5 DEF Moves, ReadsFresh
<1>15. ASSUME NEW r \in Subscribers, LoadLock(r) PROVE ReadsFresh'
  <2>1. Moves(r, IF sub[r].i < 0 THEN "pos" ELSE "cas", sub[r].map, sub[r].i)
    BY <1>15, SubMoves DEF Types
  <2>2. UNCHANGED <<data, floor, seen>> /\ sub[r].pc = "word"
    BY <1>15 DEF LoadLock, shmVars
  <2> QED
    BY <2>1, <2>2 DEF Moves, ReadsFresh
<1>16. ASSUME NEW r \in Subscribers, CasLock(r) PROVE ReadsFresh'
  <2>1. Moves(r, "read", sub[r].map, sub[r].i) \/ Moves(r, "pos", sub[r].map, sub[r].i)
    BY <1>16, SubMoves DEF Types
  <2>2. UNCHANGED <<data, floor, seen>> /\ sub[r].pc = "cas"
    BY <1>16 DEF CasLock, AddReader, shmVars
  <2> QED
    BY <2>1, <2>2 DEF Moves, ReadsFresh
<1>17. ASSUME NEW r \in Subscribers, Read(r) PROVE ReadsFresh'
  <2>1. Moves(r, "release", sub[r].map, sub[r].i) /\ UNCHANGED <<data, floor>>
    BY <1>17, SubMoves DEF Read, Types, shmVars
  <2>2. /\ seen'[r] = data[sub[r].map][sub[r].i] /\ sub[r].pc = "read"
        /\ \A s \in Subscribers \ {r} : seen'[s] = seen[s]
    BY <1>17 DEF Read, Types, CountTypes
  <2> QED
    BY <2>1, <2>2 DEF Moves, ReadsFresh
<1>18. ASSUME NEW r \in Subscribers, Release(r) PROVE ReadsFresh'
  <2>1. Moves(r, "loop", sub[r].map, 0) /\ UNCHANGED <<data, seen>>
    BY <1>18, SubMoves DEF Release, DropReader, Types
  <2>2. \A s \in Subscribers \ {r} : floor'[s] = floor[s]
    BY <1>18 DEF Release, Types, CountTypes
  <2> QED
    BY <2>1, <2>2 DEF Moves, ReadsFresh
<1>19. ASSUME NEW r \in Subscribers, SubStop(r) PROVE ReadsFresh'
  <2>1. Gone(r) /\ Moves(r, "down", NoSegment, 0) /\ UNCHANGED data
    BY <1>19, SubMoves DEF SubStop, Types, shmVars
  <2>2. \A s \in Subscribers \ {r} : floor'[s] = floor[s] /\ seen'[s] = seen[s]
    BY <2>1 DEF Gone, Types, CountTypes
  <2> QED
    BY <2>1, <2>2 DEF Moves, ReadsFresh
<1>20. ASSUME NEW r \in Subscribers, SubCrash(r) PROVE ReadsFresh'
  <2>1. Gone(r) /\ Moves(r, "down", NoSegment, 0) /\ UNCHANGED data
    BY <1>20, SubMoves DEF SubCrash, Types, shmVars
  <2>2. \A s \in Subscribers \ {r} : floor'[s] = floor[s] /\ seen'[s] = seen[s]
    BY <2>1 DEF Gone, Types, CountTypes
  <2> QED
    BY <2>1, <2>2 DEF Moves, ReadsFresh
<1>21. CASE UNCHANGED vars
  <2>1. UNCHANGED <<data, sub, floor, seen>>
    BY <1>21 DEF vars, shmVars, procVars
  <2> QED
    BY <2>1 DEF ReadsFresh
<1> QED
  BY <1>1, <1>2, <1>3, <1>4, <1>5, <1>6, <1>7, <1>8, <1>9, <1>10, <1>11,
     <1>12, <1>13, <1>14, <1>15, <1>16, <1>17, <1>18, <1>19, <1>20, <1>21
  DEF Next, Publishing, Reading

(* Counters of stops and crashes never go back. *)
LEMMA CalmBefore == Types /\ [Next]_vars /\ Calm' => Calm
<1> SUFFICES ASSUME Types, [Next]_vars, Calm' PROVE Calm
  OBVIOUS
<1>1. stops \in Nat /\ crashes \in Nat
  BY ConstantFacts DEF Types, CountTypes
<1>2. /\ stops' = stops \/ stops' = stops + 1
      /\ crashes' = crashes \/ crashes' = crashes + 1
  BY
  DEF Next, Publishing, Reading, PubCreate, PubConstruct, Acquire, LockForWrite,
      Write,
         ReleaseLock, ReleasePos, Notify, PubStop, PubCrash, Discover, SubStart, Receive,
         LoadReadPos, LoadLock, CasLock, Read, Release, SubStop, SubCrash, vars, procVars
<1> QED
  BY <1>1, <1>2 DEF Calm

(* While nobody leaves there is one segment. *)
LEMMA OneSegmentStep == Types /\ Calm' /\ OneSegment /\ [Next]_vars => OneSegment'
<1> SUFFICES ASSUME Types, Calm', OneSegment, [Next]_vars PROVE OneSegment'
  OBVIOUS
<1>1. CASE PubCreate
  <2>1. /\ pub.pc = "down" /\ name = NoSegment /\ subs' = {} /\ UNCHANGED <<sub, told, inbox>>
        /\ pub' = [DownPublisher EXCEPT !.pc = "construct", !.map = created + 1]
        /\ name' = created + 1
    BY <1>1 DEF PubCreate, OneSegment
  <2>2. pub'.pc = "construct" /\ pub'.map = created + 1
    BY <2>1, CreateFields
  <2> QED
    BY <2>1, <2>2 DEF OneSegment, Attached
<1>2. CASE PubConstruct
  <2>1. /\ UNCHANGED <<name, sub, subs, told, inbox>> /\ pub.pc = "construct"
        /\ pub'.pc = "idle" /\ pub'.map = pub.map
    BY <1>2 DEF PubConstruct, Types, PubTypes
  <2> QED
    BY <2>1 DEF OneSegment, Attached
<1>3. CASE Acquire
  <2>1. UNCHANGED <<name, sub, subs, told, inbox>> /\ pub'.map = pub.map
        /\ pub.pc \notin {"down", "construct"} /\ pub'.pc \notin {"down", "construct"}
    BY <1>3, PubStepMoves DEF Acquire, PubMoves, Types
  <2> QED
    BY <2>1 DEF OneSegment, Attached
<1>4. CASE LockForWrite
  <2>1. UNCHANGED <<name, sub, subs, told, inbox>> /\ pub'.map = pub.map
        /\ pub.pc \notin {"down", "construct"} /\ pub'.pc \notin {"down", "construct"}
    BY <1>4, PubStepMoves DEF LockForWrite, PubMoves, Types
  <2> QED
    BY <2>1 DEF OneSegment, Attached
<1>5. CASE Write
  <2>1. UNCHANGED <<name, sub, subs, told, inbox>> /\ pub'.map = pub.map
        /\ pub.pc \notin {"down", "construct"} /\ pub'.pc \notin {"down", "construct"}
    BY <1>5, PubStepMoves DEF Write, PubMoves, Types
  <2> QED
    BY <2>1 DEF OneSegment, Attached
<1>6. CASE ReleaseLock
  <2>1. UNCHANGED <<name, sub, subs, told, inbox>> /\ pub'.map = pub.map
        /\ pub.pc \notin {"down", "construct"} /\ pub'.pc \notin {"down", "construct"}
    BY <1>6, PubStepMoves DEF ReleaseLock, PubMoves, Types
  <2> QED
    BY <2>1 DEF OneSegment, Attached
<1>7. CASE ReleasePos
  <2>1. UNCHANGED <<name, sub, subs, told, inbox>> /\ pub'.map = pub.map
        /\ pub.pc \notin {"down", "construct"} /\ pub'.pc \notin {"down", "construct"}
    BY <1>7, PubStepMoves DEF ReleasePos, PubMoves, Types
  <2> QED
    BY <2>1 DEF OneSegment, Attached
<1>8. CASE Notify
  <2>1. PICK d \in Delivered :
          /\ inbox' = [s \in Subscribers |-> inbox[s] + d[s]]
          /\ told' = [s \in Subscribers |-> IF d[s] = 1 THEN last ELSE told[s]]
    BY <1>8 DEF Notify
  <2>2. UNCHANGED <<name, sub, subs>> /\ PubMoves("idle", 0) /\ pub.pc = "notify"
    BY <1>8, PubStepMoves DEF Notify, Types
  <2>3. ASSUME NEW s \in Subscribers PROVE Attached(s)'
    <3>1. Attached(s) /\ inbox[s] \in Nat
      BY ConstantFacts DEF OneSegment, Types, CountTypes
    <3>2. /\ d[s] = 0 => inbox'[s] = inbox[s] /\ told'[s] = told[s]
          /\ d[s] # 0 => s \in subs
      BY <2>1, <3>1 DEF Delivered
    <3> QED
      BY <2>2, <3>1, <3>2 DEF Attached, PubMoves
  <2> QED
    BY <2>2, <2>3 DEF OneSegment, PubMoves
<1>9. CASE PubStop
  <2>1. stops \in Nat /\ crashes \in Nat
    BY ConstantFacts DEF Types, CountTypes
  <2>2. stops' = stops + 1 \/ crashes' = crashes + 1
    BY <1>9 DEF PubStop
  <2> QED
    BY <2>1, <2>2 DEF Calm
<1>10. CASE PubCrash
  <2>1. stops \in Nat /\ crashes \in Nat
    BY ConstantFacts DEF Types, CountTypes
  <2>2. stops' = stops + 1 \/ crashes' = crashes + 1
    BY <1>10 DEF PubCrash
  <2> QED
    BY <2>1, <2>2 DEF Calm
<1>11. ASSUME NEW r \in Subscribers, Discover(r) PROVE OneSegment'
  <2>1. /\ UNCHANGED <<name, pub, sub, told, inbox>> /\ sub[r].pc # "down"
        /\ subs' = subs \cup {r}
    BY <1>11 DEF Discover
  <2> QED
    BY <2>1 DEF OneSegment, Attached
<1>12. ASSUME NEW r \in Subscribers, SubStart(r) PROVE OneSegment'
  <2>1. Moves(r, "loop", name, 0) /\ UNCHANGED <<name, pub, subs, told, inbox>>
    BY <1>12, SubMoves DEF SubStart, Types
  <2>2. sub[r].pc \in {"down"}
    BY <1>12 DEF SubStart
  <2> QED
    BY <2>1, <2>2 DEF Moves, OneSegment, Attached
<1>13. ASSUME NEW r \in Subscribers, Receive(r) PROVE OneSegment'
  <2>1. PICK m : /\ m = IF sub[r].map # NoSegment THEN sub[r].map ELSE name
                 /\ Moves(r, IF m = NoSegment THEN "loop" ELSE "pos", m, sub[r].i)
    BY <1>13, SubMoves DEF Types
  <2>2. UNCHANGED <<name, pub, subs, told>> /\ inbox[r] > 0 /\ sub[r].pc = "loop"
    BY <1>13 DEF Receive
  <2>3. \A s \in Subscribers \ {r} : inbox'[s] = inbox[s]
    BY <1>13 DEF Receive, Types, CountTypes
  <2>4. inbox[r] \in Nat
    BY ConstantFacts DEF Types, CountTypes
  <2> QED
    BY <2>1, <2>2, <2>3, <2>4 DEF Moves, OneSegment, Attached
<1>14. ASSUME NEW r \in Subscribers, LoadReadPos(r) PROVE OneSegment'
  <2>1. /\ Moves(r, IF read_pos[sub[r].map] < 0 THEN "assert" ELSE "word",
                 sub[r].map, read_pos[sub[r].map])
        /\ UNCHANGED <<name, pub, subs, told, inbox>> /\ sub[r].pc = "pos"
    BY <1>14, SubMoves DEF LoadReadPos, Types
  <2> QED
    BY <2>1 DEF Moves, OneSegment, Attached
<1>15. ASSUME NEW r \in Subscribers, LoadLock(r) PROVE OneSegment'
  <2>1. /\ Moves(r, IF sub[r].i < 0 THEN "pos" ELSE "cas", sub[r].map, sub[r].i)
        /\ UNCHANGED <<name, pub, subs, told, inbox>> /\ sub[r].pc = "word"
    BY <1>15, SubMoves DEF LoadLock, Types
  <2> QED
    BY <2>1 DEF Moves, OneSegment, Attached
<1>16. ASSUME NEW r \in Subscribers, CasLock(r) PROVE OneSegment'
  <2>1. /\ Moves(r, "read", sub[r].map, sub[r].i) \/ Moves(r, "pos", sub[r].map, sub[r].i)
        /\ UNCHANGED <<name, pub, subs, told, inbox>> /\ sub[r].pc = "cas"
    BY <1>16, SubMoves DEF CasLock, Types
  <2> QED
    BY <2>1 DEF Moves, OneSegment, Attached
<1>17. ASSUME NEW r \in Subscribers, Read(r) PROVE OneSegment'
  <2>1. Moves(r, "release", sub[r].map, sub[r].i) /\ UNCHANGED <<name, pub, subs, told, inbox>>
    BY <1>17, SubMoves DEF Read, Types
  <2>2. sub[r].pc \in {"read"}
    BY <1>17 DEF Read
  <2> QED
    BY <2>1, <2>2 DEF Moves, OneSegment, Attached
<1>18. ASSUME NEW r \in Subscribers, Release(r) PROVE OneSegment'
  <2>1. Moves(r, "loop", sub[r].map, 0) /\ UNCHANGED <<name, pub, subs, told, inbox>>
    BY <1>18, SubMoves DEF Release, Types
  <2>2. sub[r].pc \in {"release"}
    BY <1>18 DEF Release
  <2> QED
    BY <2>1, <2>2 DEF Moves, OneSegment, Attached
<1>19. ASSUME NEW r \in Subscribers, SubStop(r) PROVE OneSegment'
  <2>1. stops \in Nat /\ crashes \in Nat
    BY ConstantFacts DEF Types, CountTypes
  <2>2. stops' = stops + 1 \/ crashes' = crashes + 1
    BY <1>19 DEF SubStop
  <2> QED
    BY <2>1, <2>2 DEF Calm
<1>20. ASSUME NEW r \in Subscribers, SubCrash(r) PROVE OneSegment'
  <2>1. stops \in Nat /\ crashes \in Nat
    BY ConstantFacts DEF Types, CountTypes
  <2>2. stops' = stops + 1 \/ crashes' = crashes + 1
    BY <1>20 DEF SubCrash
  <2> QED
    BY <2>1, <2>2 DEF Calm
<1>21. CASE UNCHANGED vars
  <2>1. UNCHANGED <<name, pub, sub, subs, told, inbox>>
    BY <1>21 DEF vars, procVars
  <2> QED
    BY <2>1 DEF OneSegment, Attached
<1> QED
  BY <1>1, <1>2, <1>3, <1>4, <1>5, <1>6, <1>7, <1>8, <1>9, <1>10, <1>11,
     <1>12, <1>13, <1>14, <1>15, <1>16, <1>17, <1>18, <1>19, <1>20, <1>21
  DEF Next, Publishing, Reading

(* While nobody leaves every answer is as new as the datagram. *)
LEMMA AnswersStep ==
    Types /\ Mapped /\ Fresh /\ Calm' /\ OneSegment /\ Answers /\ [Next]_vars => Answers'
<1> SUFFICES ASSUME Types, Mapped, Fresh, Calm', OneSegment, Answers, [Next]_vars PROVE Answers'
  OBVIOUS
<1> USE DEF Fresh
<1>1. CASE PubCreate
  <2>1. /\ pub.pc = "down" /\ UNCHANGED <<sub, told, inbox, newest, read_pos, floor, seen>>
        /\ pub'.pc = "construct"
    BY <1>1, CreateFields DEF PubCreate, shmVars
  <2>2. ASSUME NEW s \in Subscribers PROVE Answering(s)'
    <3>1. Attached(s) /\ Answering(s)
      BY DEF OneSegment, Answers
    <3>2. told[s] = 0 /\ inbox[s] = 0 /\ sub[s].pc \in {"down", "loop"}
      BY <2>1, <3>1 DEF Attached
    <3>3. name' \in Segment => newest[name'] \in Nat
      BY ConstantFacts DEF Types, PubTypes
    <3> QED
      BY <2>1, <3>1, <3>2, <3>3 DEF Answering
  <2> QED
    BY <2>1, <2>2 DEF Answers
<1>2. CASE PubConstruct
  <2>1. /\ pub.pc = "construct" /\ UNCHANGED <<name, sub, told, inbox, floor, seen>>
        /\ pub'.pc = "idle" /\ pub.map = name /\ pub.map \in Segment
        /\ newest' = [newest EXCEPT ![pub.map] = 0]
    BY <1>2, PubHasBlock DEF PubConstruct, Types, PubTypes, OneSegment
  <2>2. newest'[name] = 0
    BY <2>1 DEF Types, PubTypes
  <2>3. ASSUME NEW s \in Subscribers PROVE Answering(s)'
    <3>1. Attached(s) /\ Answering(s)
      BY DEF OneSegment, Answers
    <3>2. told[s] = 0 /\ inbox[s] = 0 /\ sub[s].pc \in {"down", "loop"}
      BY <2>1, <3>1 DEF Attached
    <3> QED
      BY <2>1, <2>2, <3>1, <3>2 DEF Answering
  <2> QED
    BY <2>1, <2>3 DEF Answers
<1>3. CASE Acquire
  <2>1. UNCHANGED <<name, sub, told, inbox, newest, read_pos, floor, seen>>
    BY <1>3 DEF Acquire, shmVars
  <2>2. pub'.pc # "notify"
    BY <1>3, PubStepMoves DEF Acquire, PubMoves, Types
  <2> QED
    BY <2>1, <2>2 DEF Answers, Answering
<1>4. CASE LockForWrite
  <2>1. UNCHANGED <<name, sub, told, inbox, newest, read_pos, floor, seen>>
    BY <1>4 DEF LockForWrite, TakeForWrite, shmVars
  <2>2. pub'.pc # "notify"
    BY <1>4, PubStepMoves DEF LockForWrite, PubMoves, Types
  <2> QED
    BY <2>1, <2>2 DEF Answers, Answering
<1>5. CASE Write
  <2>1. UNCHANGED <<name, sub, told, inbox, newest, read_pos, floor, seen>>
    BY <1>5 DEF Write, WriteBlock
  <2>2. pub'.pc # "notify"
    BY <1>5, PubStepMoves DEF Write, PubMoves, Types
  <2> QED
    BY <2>1, <2>2 DEF Answers, Answering
<1>6. CASE ReleaseLock
  <2>1. UNCHANGED <<name, sub, told, inbox, newest, read_pos, floor, seen>>
    BY <1>6 DEF ReleaseLock, StoreFree
  <2>2. pub'.pc # "notify"
    BY <1>6, PubStepMoves DEF ReleaseLock, PubMoves, Types
  <2> QED
    BY <2>1, <2>2 DEF Answers, Answering
<1>7. CASE ReleasePos
  <2>1. /\ UNCHANGED <<name, sub, told, inbox, floor, seen, last>>
        /\ PubMoves("notify", pub.i)
    BY <1>7, PubStepMoves DEF ReleasePos, Types
  <2>2. pub.map = name /\ pub.map \in Segment /\ pub.i \in Block
    BY <1>7, PubHasBlock DEF ReleasePos, OneSegment
  <2>3. newest'[name] = last /\ read_pos'[name] = pub.i
    BY <1>7, <2>2 DEF ReleasePos, StoreReadPos, Types, ShmTypes, PubTypes
  <2>4. ASSUME NEW s \in Subscribers PROVE Answering(s)'
    <3>1. Answering(s) /\ told[s] <= newest[name] /\ newest[name] <= last
      BY <2>2 DEF Answers, Answering, BlocksFresh
    <3>2. told[s] \in Nat /\ newest[name] \in Nat /\ last \in Nat
      BY <2>2, ConstantFacts DEF Types, PubTypes, CountTypes
    <3>3. told[s] <= newest'[name]
      BY <2>3, <3>1, <3>2
    <3> QED
      BY <2>1, <2>2, <2>3, <3>1, <3>3 DEF Answering
  <2> QED
    BY <2>1, <2>2, <2>3, <2>4 DEF Answers, PubMoves
<1>8. CASE Notify
  <2>1. PICK d \in Delivered :
          /\ inbox' = [s \in Subscribers |-> inbox[s] + d[s]]
          /\ told' = [s \in Subscribers |-> IF d[s] = 1 THEN last ELSE told[s]]
    BY <1>8 DEF Notify
  <2>2. /\ UNCHANGED <<name, sub, newest, read_pos, floor, seen>> /\ PubMoves("idle", 0)
        /\ newest[pub.map] = last /\ read_pos[pub.map] \in Block
    BY <1>8, PubStepMoves DEF Notify, Types, shmVars, Answers
  <2>3. pub.map = name /\ pub.map \in Segment /\ last \in Nat
    BY <1>8, PubHasBlock, ConstantFacts DEF Notify, OneSegment, Types, PubTypes
  <2>4. ASSUME NEW s \in Subscribers PROVE Answering(s)'
    <3>1. Answering(s) /\ inbox[s] \in Nat
      BY ConstantFacts DEF Answers, Types, CountTypes
    <3>2. /\ d[s] = 0 => inbox'[s] = inbox[s] /\ told'[s] = told[s]
          /\ d[s] # 0 => inbox'[s] > 0 /\ told'[s] = last
      BY <2>1, <3>1 DEF Delivered
    <3>3. told'[s] <= newest[name]
      BY <2>2, <2>3, <3>1, <3>2 DEF Answering
    <3>4. inbox'[s] = 0 => inbox[s] = 0 /\ told'[s] = told[s]
      BY <3>1, <3>2
    <3> QED
      BY <2>2, <2>3, <3>1, <3>3, <3>4 DEF Answering
  <2> QED
    BY <2>2, <2>4 DEF Answers, PubMoves
<1>9. CASE PubStop
  <2>1. stops \in Nat /\ crashes \in Nat
    BY ConstantFacts DEF Types, CountTypes
  <2>2. stops' = stops + 1 \/ crashes' = crashes + 1
    BY <1>9 DEF PubStop
  <2> QED
    BY <2>1, <2>2 DEF Calm
<1>10. CASE PubCrash
  <2>1. stops \in Nat /\ crashes \in Nat
    BY ConstantFacts DEF Types, CountTypes
  <2>2. stops' = stops + 1 \/ crashes' = crashes + 1
    BY <1>10 DEF PubCrash
  <2> QED
    BY <2>1, <2>2 DEF Calm
<1>11. ASSUME NEW r \in Subscribers, Discover(r) PROVE Answers'
  <2>1. UNCHANGED <<name, pub, sub, told, inbox, newest, read_pos, floor, seen, last>>
    BY <1>11 DEF Discover, shmVars
  <2> QED
    BY <2>1 DEF Answers, Answering
<1>12. ASSUME NEW r \in Subscribers, SubStart(r) PROVE Answers'
  <2>1. UNCHANGED <<name, pub, told, inbox, newest, read_pos, floor, seen, last>>
    BY <1>12 DEF SubStart, shmVars
  <2>2. Moves(r, "loop", name, 0) /\ sub[r].pc = "down"
    BY <1>12, SubMoves DEF SubStart, Types
  <2>3. seen[r] >= told[r]
    <3>1. told[r] \in Nat /\ seen[r] \in Nat
      BY ConstantFacts DEF Types, CountTypes
    <3>2. ~(told[r] > 0)
      BY <2>2 DEF OneSegment, Attached
    <3> QED
      BY <3>1, <3>2
  <2>4. ASSUME NEW s \in Subscribers PROVE Answering(s)'
    BY <2>1, <2>2, <2>3 DEF Answers, Answering, Moves
  <2> QED
    BY <2>1, <2>4 DEF Answers
<1>13. ASSUME NEW r \in Subscribers, Receive(r) PROVE Answers'
  <2>1. UNCHANGED <<name, pub, told, newest, read_pos, floor, seen, last>>
    BY <1>13 DEF Receive, shmVars
  <2>2. inbox[r] > 0 /\ sub[r].pc = "loop" /\ name \in Segment /\ read_pos[name] \in Block
    BY <1>13 DEF Receive, Answers, Answering
  <2>3. Moves(r, "pos", name, sub[r].i)
    BY <1>13, <2>2, SubMoves, ConstantFacts DEF Types, OneSegment, Attached
  <2>4. \A s \in Subscribers \ {r} : inbox'[s] = inbox[s]
    BY <1>13 DEF Receive, Types, CountTypes
  <2>5. ASSUME NEW s \in Subscribers PROVE Answering(s)'
    BY <2>1, <2>2, <2>3, <2>4 DEF Answers, Answering, Moves
  <2> QED
    BY <2>1, <2>5 DEF Answers
<1>14. ASSUME NEW r \in Subscribers, LoadReadPos(r) PROVE Answers'
  <2>1. UNCHANGED <<name, pub, told, inbox, newest, read_pos, seen, last>> /\ sub[r].pc = "pos"
    BY <1>14 DEF LoadReadPos, shmVars
  <2>2. sub[r].map = name /\ name \in Segment /\ read_pos[name] \in Block
    BY <2>1, SubHasBlock, ConstantFacts DEF OneSegment, Attached, Answers, Answering
  <2>3. ~(read_pos[name] < 0)
    <3>1. \A i \in Block : ~(i < 0)
      BY BlockNumAssumption DEF Block
    <3> QED
      BY <2>2, <3>1
  <2>4. Moves(r, "word", name, read_pos[name])
    BY <1>14, <2>2, <2>3, SubMoves DEF Types
  <2>5. /\ floor'[r] = newest[name]
        /\ \A s \in Subscribers \ {r} : floor'[s] = floor[s]
    BY <1>14, <2>2 DEF LoadReadPos, Types, CountTypes
  <2>6. floor'[r] >= told[r]
    <3>1. told[r] <= newest[name]
      BY <2>2 DEF Answers, Answering
    <3>2. told[r] \in Nat /\ newest[name] \in Nat
      BY <2>2, ConstantFacts DEF Types, CountTypes, PubTypes
    <3> QED
      BY <2>5, <3>1, <3>2
  <2>7. ASSUME NEW s \in Subscribers PROVE Answering(s)'
    BY <2>1, <2>2, <2>4, <2>5, <2>6 DEF Answers, Answering, Moves
  <2> QED
    BY <2>1, <2>7 DEF Answers
<1>15. ASSUME NEW r \in Subscribers, LoadLock(r) PROVE Answers'
  <2>1. /\ UNCHANGED <<name, pub, told, inbox, newest, read_pos, floor, seen, last>>
        /\ sub[r].pc = "word"
    BY <1>15 DEF LoadLock, shmVars
  <2>2. Moves(r, IF sub[r].i < 0 THEN "pos" ELSE "cas", sub[r].map, sub[r].i)
    BY <1>15, SubMoves DEF Types
  <2>3. ASSUME NEW s \in Subscribers PROVE Answering(s)'
    BY <2>1, <2>2 DEF Answers, Answering, Moves
  <2> QED
    BY <2>1, <2>3 DEF Answers
<1>16. ASSUME NEW r \in Subscribers, CasLock(r) PROVE Answers'
  <2>1. /\ UNCHANGED <<name, pub, told, inbox, newest, read_pos, floor, seen, last>>
        /\ sub[r].pc = "cas"
    BY <1>16 DEF CasLock, AddReader, shmVars
  <2>2. Moves(r, "read", sub[r].map, sub[r].i) \/ Moves(r, "pos", sub[r].map, sub[r].i)
    BY <1>16, SubMoves DEF Types
  <2>3. ASSUME NEW s \in Subscribers PROVE Answering(s)'
    BY <2>1, <2>2 DEF Answers, Answering, Moves
  <2> QED
    BY <2>1, <2>3 DEF Answers
<1>17. ASSUME NEW r \in Subscribers, Read(r) PROVE Answers'
  <2>1. /\ UNCHANGED <<name, pub, told, inbox, newest, read_pos, floor, last>>
        /\ sub[r].pc = "read"
    BY <1>17 DEF Read, shmVars
  <2>2. Moves(r, "release", sub[r].map, sub[r].i)
    BY <1>17, SubMoves DEF Types
  <2>3. /\ seen'[r] = data[sub[r].map][sub[r].i]
        /\ \A s \in Subscribers \ {r} : seen'[s] = seen[s]
    BY <1>17 DEF Read, Types, CountTypes
  <2>4. inbox[r] = 0 => seen'[r] >= told[r]
    <3>1. data[sub[r].map][sub[r].i] >= floor[r] /\ (inbox[r] = 0 => floor[r] >= told[r])
      BY <2>1 DEF ReadsFresh, Answers, Answering
    <3>2. told[r] \in Nat /\ floor[r] \in Nat
      BY ConstantFacts DEF Types, CountTypes
    <3>3. sub[r].map \in Segment /\ sub[r].i \in Block
      BY <2>1, SubHasBlock
    <3>4. data[sub[r].map][sub[r].i] \in 0 .. MaxMessages
      BY <3>3 DEF Types, ShmTypes
    <3> QED
      BY <2>3, <3>1, <3>2, <3>4
  <2>5. ASSUME NEW s \in Subscribers PROVE Answering(s)'
    BY <2>1, <2>2, <2>3, <2>4 DEF Answers, Answering, Moves
  <2> QED
    BY <2>1, <2>5 DEF Answers
<1>18. ASSUME NEW r \in Subscribers, Release(r) PROVE Answers'
  <2>1. /\ UNCHANGED <<name, pub, told, inbox, newest, read_pos, seen, last>>
        /\ sub[r].pc = "release"
    BY <1>18 DEF Release, DropReader
  <2>2. Moves(r, "loop", sub[r].map, 0)
    BY <1>18, SubMoves DEF Types
  <2>3. \A s \in Subscribers \ {r} : floor'[s] = floor[s]
    BY <1>18 DEF Release, Types, CountTypes
  <2>4. ASSUME NEW s \in Subscribers PROVE Answering(s)'
    BY <2>1, <2>2, <2>3 DEF Answers, Answering, Moves
  <2> QED
    BY <2>1, <2>4 DEF Answers
<1>19. ASSUME NEW r \in Subscribers, SubStop(r) PROVE Answers'
  <2>1. stops \in Nat /\ crashes \in Nat
    BY ConstantFacts DEF Types, CountTypes
  <2>2. stops' = stops + 1 \/ crashes' = crashes + 1
    BY <1>19 DEF SubStop
  <2> QED
    BY <2>1, <2>2 DEF Calm
<1>20. ASSUME NEW r \in Subscribers, SubCrash(r) PROVE Answers'
  <2>1. stops \in Nat /\ crashes \in Nat
    BY ConstantFacts DEF Types, CountTypes
  <2>2. stops' = stops + 1 \/ crashes' = crashes + 1
    BY <1>20 DEF SubCrash
  <2> QED
    BY <2>1, <2>2 DEF Calm
<1>21. CASE UNCHANGED vars
  <2>1. UNCHANGED <<name, pub, sub, told, inbox, newest, read_pos, floor, seen, last>>
    BY <1>21 DEF vars, shmVars, procVars
  <2> QED
    BY <2>1 DEF Answers, Answering
<1> QED
  BY <1>1, <1>2, <1>3, <1>4, <1>5, <1>6, <1>7, <1>8, <1>9, <1>10, <1>11,
     <1>12, <1>13, <1>14, <1>15, <1>16, <1>17, <1>18, <1>19, <1>20, <1>21
  DEF Next, Publishing, Reading

(* IInv holds in the initial states, and every step keeps it. *)
LEMMA Initial == Init => IInv
<1> SUFFICES ASSUME Init PROVE IInv
  OBVIOUS
<1> USE ConstantFacts DEF Init, ZeroSegments, DownPublisher, DownSubscriber, Unwritten
<1>1. ShmTypes
  BY DEF ShmTypes
<1>2. PubTypes
  BY DEF PubTypes
<1>3. SubTypes
  BY DEF SubTypes, SubRec
<1>4. CountTypes
  BY DEF CountTypes
<1>5. Mapped
  BY DEF Mapped
<1>6. LockDebt
  <2>1. ASSUME NEW k \in Segment, NEW i \in Block
        PROVE  Owed(k, i) = 0
    <3>1. Readers(k, i) = {}
      BY DEF Readers
    <3>2. locks[k][i] = 0
      OBVIOUS
    <3> QED
      BY <3>1, <3>2, FS_EmptySet DEF Owed
  <2> QED
    BY <2>1 DEF LockDebt
<1>7. Fresh
  BY DEF Fresh, BlocksFresh, WrittenFresh, ReadsFresh
<1>8. Quiet
  <2>1. OneSegment
    BY DEF OneSegment, Attached
  <2>2. Answers
    BY DEF Answers, Answering
  <2> QED
    BY <2>1, <2>2 DEF Quiet
<1> QED
  BY <1>1, <1>2, <1>3, <1>4, <1>5, <1>6, <1>7, <1>8 DEF IInv, Types

LEMMA Inductive == IInv /\ [Next]_vars => IInv'
<1> SUFFICES ASSUME IInv, [Next]_vars PROVE IInv'
  OBVIOUS
<1>1. Types'
  BY ShmTypesStep, PubTypesStep, SubTypesStep, CountTypesStep DEF IInv, Types
<1>2. Mapped'
  BY MappedStep DEF IInv
<1>3. LockDebt'
  BY LockDebtStep DEF IInv
<1>4. Fresh'
  BY BlocksFreshStep, WrittenFreshStep, ReadsFreshStep DEF IInv, Fresh
<1>5. Quiet'
  BY CalmBefore, OneSegmentStep, AnswersStep DEF IInv, Quiet
<1> QED
  BY <1>1, <1>2, <1>3, <1>4, <1>5 DEF IInv

LEMMA Invariance == Spec => []IInv
  BY Initial, Inductive, PTL DEF Spec
-----------------------------------------------------------------------------
LEMMA WordsBounded ==
    ASSUME Types, LockDebt
    PROVE  locks \in [Segment -> [Block -> -1 - Cardinality(Subscribers) ..
                                          Cardinality(Subscribers) + MaxCrashes]]
<1>1. ASSUME NEW k \in Segment, NEW i \in Block
      PROVE  locks[k][i] \in -1 - Cardinality(Subscribers) ..
                             Cardinality(Subscribers) + MaxCrashes
  <2>1. locks[k][i] \in Int /\ crashes \in 0 .. MaxCrashes
    BY DEF Types, ShmTypes, CountTypes
  <2>2. /\ Cardinality(Readers(k, i)) \in Nat
        /\ Cardinality(Readers(k, i)) <= Cardinality(Subscribers)
    BY ReadersCount
  <2>3. /\ locks[k][i] - Cardinality(Readers(k, i)) <= crashes
        /\ locks[k][i] - Cardinality(Readers(k, i)) >= -1 - Cardinality(Subscribers)
    BY DEF LockDebt, Owed
  <2>4. Cardinality(Subscribers) \in Nat /\ MaxCrashes \in Nat
    BY ConstantFacts
  <2> QED
    BY <2>1, <2>2, <2>3, <2>4
<1> QED
  BY <1>1 DEF Types, ShmTypes

(* TypeOK of the run: also a lock word that crashes, new publishers and      *)
(* releases of readers it has forgotten have disturbed stays within the      *)
(* number of subscribers and crashes.                                        *)
THEOREM WordsStayBounded == Spec => []TypeOK
<1>1. IInv => TypeOK
  BY WordsBounded
  DEF IInv, Types, ShmTypes, PubTypes, SubTypes, SubRec, CountTypes, TypeOK
<1> QED
  BY <1>1, Invariance, PTL

(* NoOlderThanPublished: what callback_ gets is at least as new as the        *)
(* newest message when LockForRead loaded read_pos_, although a writer may    *)
(* hold the block, processes crash and a new State is constructed over it.    *)
THEOREM ReadsAreFresh == Spec => []NoOlderThanPublished
<1>1. IInv => NoOlderThanPublished
  BY DEF IInv, Fresh, ReadsFresh, NoOlderThanPublished
<1> QED
  BY <1>1, Invariance, PTL

(* AnsweredIsSeen: while no process stops or crashes, the assertion of        *)
(* AcquireBlockToRead never fails, and who has answered every 'r' it was sent *)
(* has seen the message of the last one, or a later one.                      *)
THEOREM AnswersAreSeen == Spec => []AnsweredIsSeen
<1>1. IInv => AnsweredIsSeen
  BY DEF IInv, Quiet, Calm, Answers, Answering, AnsweredIsSeen
<1> QED
  BY <1>1, Invariance, PTL
=============================================================================
