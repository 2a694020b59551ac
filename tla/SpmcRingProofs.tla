--------------------------- MODULE SpmcRingProofs ---------------------------
(***************************************************************************)
(* Proofs about SpmcRing for every number of blocks, values and consumers:  *)
(* type correctness, exclusion between the producer and the consumers, how  *)
(* far the counts can be off after a reset under readers, the freshness of  *)
(* what consumer_alloc returns, and that the ring implements the pool of    *)
(* locked blocks.                                                           *)
(***************************************************************************)
EXTENDS SpmcRing, FiniteSetTheorems, TLAPS

(* The count of block i has been reset by this run's spmc_init.             *)
Reset(i) == Initialised \/ (ppc = "counts" /\ i < slot)

Readers(i) == Cardinality(Holders(i))
Forgotten(i) == Cardinality(forgot[i])
Writers(i) == IF Owns(i) THEN 1 ELSE 0

(* Until spmc_init has finished nothing is written or published.            *)
BeforeInit ==
    ~Initialised => /\ next = 0
                    /\ written = {}
                    /\ \A c \in Consumers : floor[c] = -1

(* A consumer about to compare-exchange has seen a count of readers.        *)
ConsumerSane ==
    /\ \A c \in Consumers : cpc[c] = "cas" => seen[c] >= 0
    /\ ppc # "init" => buf_size = 1

(* After its reset a count is too low by what the reset has forgotten, at    *)
(* most, and negative while the producer has the block...                   *)
CloseInv ==
    \A i \in Entry :
        /\ Reset(i) => /\ nconsumers[i] + Writers(i) <= Readers(i)
                       /\ Readers(i) <= nconsumers[i] + Writers(i) + Forgotten(i)
        /\ Owns(i) => nconsumers[i] <= -1

(* ... before it, it has at least those that have come in.                  *)
EarlyInv ==
    \A i \in Entry : ~Reset(i) =>
        /\ forgot[i] = {}
        /\ Holders(i) # {} => Readers(i) <= nconsumers[i]

ErrorInv == \A c \in Consumers : cpc[c] = "error" => forgot[pos[c]] # {}

LockInv == BeforeInit /\ ConsumerSane /\ CloseInv /\ EarlyInv /\ ErrorInv

-----------------------------------------------------------------------------
LEMMA EntryFacts ==
    /\ Capacity \in Nat /\ Capacity > 0
    /\ 0 \in Entry /\ 0 \in 0 .. Capacity
    /\ \A i \in Entry : /\ i \in Nat
                        /\ i + 1 \in 0 .. Capacity
                        /\ i + 1 < Capacity => i + 1 \in Entry
  BY CapacityAssumption DEF Entry

LEMMA AdvanceType == \A i \in Entry : Advance(i) \in Entry
  BY CapacityAssumption DEF Entry, Advance

LEMMA InitTypeOK == Init => TypeOK
<1> SUFFICES ASSUME Init PROVE TypeOK
  OBVIOUS
<1> USE CapacityAssumption, CountAssumption
<1>1. 0 \in Entry /\ 0 \in Value
  BY DEF Entry, Value
<1>2. CASE FreshSegment
  BY <1>1, <1>2 DEF Init, TypeOK, FreshSegment, Entry
<1>3. CASE LeftoverSegment
  <2>1. /\ buf_size = 1 /\ size = Capacity
        /\ write_pos \in Entry /\ read_pos \in Entry
    BY <1>3 DEF LeftoverSegment, Entry
  <2>2. nconsumers \in [Entry -> Int]
    BY <1>3, ConsumersAssumption, FS_CardinalityType DEF LeftoverSegment
  <2>3. ASSUME NEW i \in Entry
        PROVE  Count - 1 - ((Count - 1 - i) % Capacity) \in Value
    <3>1. (Count - 1 - i) \in Nat
      BY <1>3, <2>3 DEF LeftoverSegment, Entry
    <3>2. (Count - 1 - i) % Capacity \in 0 .. (Count - 1 - i)
      BY <3>1, SMT
    <3> QED
      BY <3>1, <3>2, <2>3 DEF Value, Entry
  <2>4. buf \in [Entry -> Value]
    BY <1>3, <2>3 DEF LeftoverSegment
  <2> QED
    BY <1>1, <2>1, <2>2, <2>4 DEF Init, TypeOK, Entry
<1> QED
  BY <1>2, <1>3 DEF Init

(* Every variable of the model keeps its type: in particular no position    *)
(* ever leaves the ring and the values stay below Count.                    *)
THEOREM TypeCorrect == Spec => []TypeOK
<1>1. TypeOK /\ [Next]_vars => TypeOK'
  <2> SUFFICES ASSUME TypeOK, [Next]_vars PROVE TypeOK'
    OBVIOUS
  <2> USE CapacityAssumption, CountAssumption, AdvanceType DEF TypeOK
  <2>1. CASE InitHeader
    BY <2>1, EntryFacts DEF InitHeader, consVars
  <2>2. CASE InitCount
    BY <2>2, EntryFacts DEF InitCount, consVars, Holders
  <2>3. CASE AllocFree
    BY <2>3, EntryFacts DEF AllocFree, consVars, histVars
  <2>4. CASE AllocBusy
    BY <2>4 DEF AllocBusy, consVars, shmVars, histVars
  <2>5. CASE ProduceWrite
    BY <2>5 DEF ProduceWrite, consVars, Value
  <2>6. CASE AllocEndUnlock
    BY <2>6 DEF AllocEndUnlock, consVars, histVars
  <2>7. CASE AllocEndPublish
    BY <2>7 DEF AllocEndPublish, consVars, histVars
  <2>8. ASSUME NEW c \in Consumers, Consumer(c) PROVE TypeOK'
    <3>1. CASE Attach(c)
      BY <3>1 DEF Attach, Goto, shmVars, prodVars, histVars
    <3>2. CASE LoadPos(c)
      BY <3>2 DEF LoadPos, Goto, shmVars, prodVars
    <3>3. CASE LoadCount(c)
      BY <3>3 DEF LoadCount, shmVars, prodVars, histVars
    <3>4. CASE CasCount(c)
      BY <3>4 DEF CasCount, prodVars, histVars
    <3>5. CASE ConsumeRead(c)
      BY <3>5 DEF ConsumeRead, Goto, shmVars, prodVars, histVars
    <3>6. CASE ConsumeCompare(c)
      <4>1. \A v \in Value : v % 256 \in 0 .. 255
        BY DEF Value
      <4>2. buf[pos[c]] % 256 \in 0 .. 255
        BY <4>1
      <4>3. 0 \in Value
        BY DEF Value
      <4> QED
        BY <3>6, <4>2, <4>3 DEF ConsumeCompare, shmVars, prodVars, histVars
    <3>7. CASE AllocEnd(c)
      BY <3>7 DEF AllocEnd, prodVars, histVars
    <3> QED
      BY <2>8, <3>1, <3>2, <3>3, <3>4, <3>5, <3>6, <3>7 DEF Consumer, Running
  <2>9. CASE UNCHANGED vars
    BY <2>9 DEF vars, shmVars, prodVars, consVars, histVars
  <2> QED
    BY <2>1, <2>2, <2>3, <2>4, <2>5, <2>6, <2>7, <2>8, <2>9 DEF Next, Producer
<1> QED
  BY InitTypeOK, <1>1, PTL DEF Spec

-----------------------------------------------------------------------------
LEMMA HoldersFinite ==
    \A i \in Entry : /\ IsFiniteSet(Holders(i))
                     /\ Readers(i) \in Nat
                     /\ Readers(i) = 0 <=> Holders(i) = {}
<1> SUFFICES ASSUME NEW i \in Entry
             PROVE  /\ IsFiniteSet(Holders(i))
                    /\ Readers(i) \in Nat
                    /\ Readers(i) = 0 <=> Holders(i) = {}
  OBVIOUS
<1>1. Holders(i) \subseteq Consumers
  BY DEF Holders
<1>2. IsFiniteSet(Holders(i))
  BY <1>1, ConsumersAssumption, FS_Subset
<1> QED
  BY <1>2, FS_CardinalityType, FS_EmptySet DEF Readers

LEMMA ForgottenFinite ==
    ASSUME TypeOK
    PROVE  \A i \in Entry : Forgotten(i) \in Nat /\ (Forgotten(i) = 0 <=> forgot[i] = {})
<1> SUFFICES ASSUME NEW i \in Entry
             PROVE  Forgotten(i) \in Nat /\ (Forgotten(i) = 0 <=> forgot[i] = {})
  OBVIOUS
<1>1. IsFiniteSet(forgot[i])
  BY ConsumersAssumption, FS_Subset DEF TypeOK
<1> QED
  BY <1>1, FS_CardinalityType, FS_EmptySet DEF Forgotten

LEMMA CountTypes ==
    ASSUME TypeOK
    PROVE  /\ \A i \in Entry : /\ nconsumers[i] \in Int
                               /\ Writers(i) = IF Owns(i) THEN 1 ELSE 0
           /\ slot \in Entry /\ Entry \subseteq Nat
           /\ \A c \in Consumers : pos[c] \in Entry
  BY EntryFacts DEF TypeOK, Writers

(* No consumer step but the two below changes who holds what. *)
LEMMA HoldersFrame ==
    ASSUME TypeOK, NEW c \in Consumers,
           \/ Attach(c) \/ LoadPos(c) \/ LoadCount(c)
           \/ ConsumeRead(c) \/ ConsumeCompare(c)
    PROVE  /\ \A i \in Entry : Holders(i)' = Holders(i)
           /\ UNCHANGED <<nconsumers, ppc, slot, buf_size, next, written, forgot>>
<1>1. UNCHANGED <<nconsumers, ppc, slot, buf_size, next, written, forgot>>
  BY DEF Attach, LoadPos, LoadCount, ConsumeRead, ConsumeCompare, Goto,
         shmVars, prodVars, histVars
<1>2. ASSUME NEW i \in Entry, NEW d \in Consumers
      PROVE  Holds(d, i)' <=> Holds(d, i)
  <2>1. CASE Attach(c)
    BY <2>1 DEF Attach, Goto, Holds, TypeOK
  <2>2. CASE LoadPos(c)
    BY <2>2 DEF LoadPos, Goto, Holds, TypeOK
  <2>3. CASE LoadCount(c)
    BY <2>3 DEF LoadCount, Holds, TypeOK
  <2>4. CASE ConsumeRead(c)
    BY <2>4 DEF ConsumeRead, Goto, Holds, TypeOK
  <2>5. CASE ConsumeCompare(c)
    BY <2>5 DEF ConsumeCompare, Holds, TypeOK
  <2> QED
    BY <2>1, <2>2, <2>3, <2>4, <2>5
<1> QED
  BY <1>1, <1>2 DEF Holders

(* The producer's steps leave the consumers alone. *)
LEMMA ProducerFrame ==
    ASSUME Producer
    PROVE  /\ UNCHANGED consVars
           /\ \A i \in Entry : Holders(i)' = Holders(i) /\ Readers(i)' = Readers(i)
<1>1. UNCHANGED consVars
  BY DEF Producer, InitHeader, InitCount, AllocFree, AllocBusy, ProduceWrite,
         AllocEndUnlock, AllocEndPublish
<1> QED
  BY <1>1 DEF consVars, Readers, Holders, Holds

(* A step that changes neither the counts nor who has which block.          *)
LEMMA QuietStep ==
    ASSUME TypeOK, LockInv, UNCHANGED <<nconsumers, forgot, cpc, pos>>,
           \A i \in Entry : (Owns(i)' <=> Owns(i)) /\ (Reset(i)' <=> Reset(i))
    PROVE  CloseInv' /\ EarlyInv' /\ ErrorInv'
<1>1. \A i \in Entry : /\ Holders(i)' = Holders(i) /\ Readers(i)' = Readers(i)
                       /\ Forgotten(i)' = Forgotten(i) /\ Writers(i)' = Writers(i)
  BY DEF Holders, Holds, Readers, Forgotten, Writers
<1>2. CloseInv'
  BY <1>1 DEF LockInv, CloseInv
<1>3. EarlyInv'
  BY <1>1 DEF LockInv, EarlyInv
<1> QED
  BY <1>2, <1>3 DEF LockInv, ErrorInv

-----------------------------------------------------------------------------
(* The producer preserves the locking invariant. *)
LEMMA ProducerLockStep ==
    ASSUME TypeOK, LockInv, Producer
    PROVE  LockInv'
<1>0. /\ UNCHANGED <<cpc, pos, seen>>
      /\ \A i \in Entry : Holders(i)' = Holders(i) /\ Readers(i)' = Readers(i)
  BY ProducerFrame DEF consVars
<1>1. BeforeInit'
  BY DEF Producer, InitHeader, InitCount, AllocFree, AllocBusy, ProduceWrite,
         AllocEndUnlock, AllocEndPublish, histVars, LockInv, BeforeInit, Initialised
<1>2. ConsumerSane'
  BY <1>0 DEF Producer, InitHeader, InitCount, AllocFree, AllocBusy, ProduceWrite,
         AllocEndUnlock, AllocEndPublish, shmVars, LockInv, ConsumerSane
<1>3. CASE InitHeader \/ AllocBusy \/ ProduceWrite \/ AllocEndPublish
  <2>1. UNCHANGED <<nconsumers, forgot>>
    BY <1>3 DEF InitHeader, AllocBusy, ProduceWrite, AllocEndPublish, shmVars, histVars
  <2>2. \A i \in Entry : (Owns(i)' <=> Owns(i)) /\ (Reset(i)' <=> Reset(i))
    BY <1>3, CountTypes DEF InitHeader, AllocBusy, ProduceWrite, AllocEndPublish, Owns, Reset,
                Initialised
  <2> QED
    BY <1>0, <1>1, <1>2, <2>1, <2>2, QuietStep DEF LockInv
<1>4. CASE InitCount
  <2>1. \A i \in Entry : Reset(i)' <=> Reset(i) \/ i = slot
    BY <1>4, EntryFacts, CountTypes DEF InitCount, Reset, Initialised, Entry
  <2>2. /\ \A i \in Entry : ~Owns(i) /\ ~Owns(i)'
        /\ \A i \in Entry : Writers(i) = 0 /\ Writers(i)' = 0
    BY <1>4 DEF InitCount, Owns, Writers
  <2>3. /\ nconsumers' = [nconsumers EXCEPT ![slot] = 0]
        /\ forgot' = [forgot EXCEPT ![slot] = Holders(slot)]
    BY <1>4 DEF InitCount
  <2>4. \A i \in Entry : IF i = slot
                          THEN nconsumers'[i] = 0 /\ Forgotten(i)' = Readers(i)
                          ELSE nconsumers'[i] = nconsumers[i] /\ forgot'[i] = forgot[i]
    BY <2>3 DEF TypeOK, Forgotten, Readers
  <2>5. \A i \in Entry : i # slot => Forgotten(i)' = Forgotten(i)
    BY <2>4 DEF Forgotten
  <2>6. CloseInv'
    <3> SUFFICES ASSUME NEW i \in Entry, Reset(i)'
                 PROVE  /\ nconsumers'[i] + Writers(i)' <= Readers(i)'
                        /\ Readers(i)' <= nconsumers'[i] + Writers(i)' + Forgotten(i)'
      BY <2>2 DEF CloseInv
    <3>1. CASE i = slot
      BY <1>0, <2>2, <2>4, <3>1, HoldersFinite
    <3>2. CASE i # slot
      BY <1>0, <2>1, <2>2, <2>4, <2>5, <3>2 DEF LockInv, CloseInv
    <3> QED
      BY <3>1, <3>2
  <2>7. EarlyInv'
    <3> SUFFICES ASSUME NEW i \in Entry, ~Reset(i)'
                 PROVE  /\ forgot'[i] = {}
                        /\ Holders(i)' # {} => Readers(i)' <= nconsumers'[i]
      BY DEF EarlyInv
    <3> QED
      BY <1>0, <2>1, <2>4 DEF LockInv, EarlyInv
  <2>8. ErrorInv'
    <3>1. ~Reset(slot)
      BY <1>4, CountTypes DEF InitCount, Reset, Initialised
    <3>2. \A c \in Consumers : cpc[c] = "error" => pos[c] # slot
      BY <3>1, CountTypes DEF LockInv, ErrorInv, EarlyInv
    <3> QED
      BY <1>0, <2>4, <3>2, CountTypes DEF LockInv, ErrorInv
  <2> QED
    BY <1>1, <1>2, <2>6, <2>7, <2>8 DEF LockInv
<1>5. CASE AllocFree \/ AllocEndUnlock
  <2>1. /\ \A i \in Entry : Reset(i) /\ Reset(i)'
        /\ forgot' = forgot /\ slot' = slot
        /\ \A i \in Entry : Forgotten(i)' = Forgotten(i)
    BY <1>5 DEF AllocFree, AllocEndUnlock, Reset, Initialised, histVars, Forgotten
  <2>2. \A i \in Entry : i # slot => /\ nconsumers'[i] = nconsumers[i]
                                     /\ ~Owns(i) /\ ~Owns(i)'
                                     /\ Writers(i) = 0 /\ Writers(i)' = 0
    BY <1>5 DEF AllocFree, AllocEndUnlock, TypeOK, Owns, Writers
  <2>3. /\ nconsumers'[slot] + Writers(slot)' <= Readers(slot)
        /\ Readers(slot) <= nconsumers'[slot] + Writers(slot)' + Forgotten(slot)
        /\ Owns(slot)' => nconsumers'[slot] <= -1
    <3>1. /\ nconsumers[slot] + Writers(slot) <= Readers(slot)
          /\ Readers(slot) <= nconsumers[slot] + Writers(slot) + Forgotten(slot)
          /\ Owns(slot) => nconsumers[slot] <= -1
      BY <2>1, CountTypes DEF LockInv, CloseInv
    <3>2. CASE AllocFree
      <4>1. /\ nconsumers[slot] = 0 /\ nconsumers'[slot] = -1
            /\ Writers(slot) = 0 /\ Writers(slot)' = 1
        BY <3>2 DEF AllocFree, Takes, TypeOK, Owns, Writers
      <4> QED
        BY <3>1, <4>1, HoldersFinite, ForgottenFinite, CountTypes
    <3>3. CASE AllocEndUnlock
      <4>1. /\ Owns(slot) /\ Writers(slot) = 1
            /\ nconsumers'[slot] = 0 /\ Writers(slot)' = 0 /\ ~Owns(slot)'
        BY <3>3 DEF AllocEndUnlock, TypeOK, Owns, Writers
      <4> QED
        BY <3>1, <4>1, HoldersFinite, ForgottenFinite, CountTypes
    <3> QED
      BY <1>5, <3>2, <3>3
  <2>4. CloseInv'
    <3> SUFFICES ASSUME NEW i \in Entry
                 PROVE  /\ nconsumers'[i] + Writers(i)' <= Readers(i)'
                        /\ Readers(i)' <= nconsumers'[i] + Writers(i)' + Forgotten(i)'
                        /\ Owns(i)' => nconsumers'[i] <= -1
      BY DEF CloseInv
    <3>1. CASE i = slot
      BY <1>0, <2>1, <2>3, <3>1
    <3>2. CASE i # slot
      BY <1>0, <2>1, <2>2, <3>2 DEF LockInv, CloseInv
    <3> QED
      BY <3>1, <3>2
  <2>5. EarlyInv'
    BY <2>1 DEF EarlyInv
  <2> QED
    BY <1>0, <1>1, <1>2, <2>1, <2>4, <2>5 DEF LockInv, ErrorInv
<1> QED
  BY <1>3, <1>4, <1>5 DEF Producer

(* What a consumer that comes in or goes out does to the count of its block  *)
(* and to the number of its readers; one that traps is not counted out, but  *)
(* that is before the reset.                                                *)
LEMMA ComeAndGo ==
    ASSUME TypeOK, LockInv, NEW c \in Consumers,
           (CasCount(c) /\ CountUnchanged(c)) \/ AllocEnd(c)
    PROVE  LET p == pos[c]
               n == IF AllocEnd(c) THEN -1 ELSE 1
           IN  /\ p \in Entry /\ UNCHANGED <<pos, prodVars, forgot>>
               /\ \A i \in Entry : /\ Owns(i)' <=> Owns(i)
                                   /\ Reset(i)' <=> Reset(i)
                                   /\ Writers(i)' = Writers(i)
                                   /\ Forgotten(i)' = Forgotten(i)
               /\ \A i \in Entry : i # p => /\ nconsumers'[i] = nconsumers[i]
                                            /\ Holders(i)' = Holders(i)
                                            /\ Readers(i)' = Readers(i)
               /\ Readers(p)' = Readers(p) + n
               /\ \/ nconsumers'[p] = nconsumers[p] + n
                  \/ AllocEnd(c) /\ ~Reset(p) /\ nconsumers'[p] = nconsumers[p]
               /\ AllocEnd(c) => Readers(p) >= 1
               /\ ~AllocEnd(c) => nconsumers[p] >= 0
<1> DEFINE p == pos[c]
<1>1. p \in Entry /\ UNCHANGED <<pos, prodVars, forgot>>
  BY DEF CasCount, AllocEnd, histVars, TypeOK
<1>2. \A i \in Entry : /\ Owns(i)' <=> Owns(i)
                       /\ Reset(i)' <=> Reset(i)
                       /\ Writers(i)' = Writers(i)
                       /\ Forgotten(i)' = Forgotten(i)
  BY <1>1 DEF prodVars, Owns, Reset, Initialised, Writers, Forgotten
<1>3. \A i \in Entry : i # p => /\ nconsumers'[i] = nconsumers[i]
                                /\ Holders(i)' = Holders(i)
                                /\ Readers(i)' = Readers(i)
  <2>1. \A i \in Entry : i # p => nconsumers'[i] = nconsumers[i]
    BY DEF CasCount, AllocEnd, TypeOK
  <2>2. \A i \in Entry : i # p => Holders(i)' = Holders(i)
    BY DEF CasCount, AllocEnd, Holders, Holds, TypeOK
  <2> QED
    BY <2>1, <2>2 DEF Readers
<1>4. CASE AllocEnd(c)
  <2>1. c \in Holders(p) /\ Holders(p)' = Holders(p) \ {c}
    BY <1>4 DEF AllocEnd, Holders, Holds, TypeOK
  <2>2. Readers(p)' = Readers(p) - 1 /\ Readers(p) >= 1
    <3>1. Cardinality(Holders(p)') = Cardinality(Holders(p)) - 1
      BY <1>1, <2>1, HoldersFinite, FS_RemoveElement
    <3> QED
      BY <1>1, <2>1, <3>1, HoldersFinite DEF Readers
  <2>3. CASE buf_size = 0
    <3>1. ~Reset(p)
      BY <2>3 DEF LockInv, ConsumerSane, Reset, Initialised
    <3>2. nconsumers' = nconsumers
      BY <1>4, <2>3 DEF AllocEnd
    <3> QED
      BY <1>1, <1>2, <1>3, <1>4, <2>2, <3>1, <3>2, HoldersFinite
  <2>4. CASE buf_size # 0
    <3>1. nconsumers'[p] = nconsumers[p] - 1
      BY <1>1, <1>4, <2>4 DEF AllocEnd, TypeOK
    <3> QED
      BY <1>1, <1>2, <1>3, <1>4, <2>2, <3>1, HoldersFinite, CountTypes
  <2> QED
    BY <2>3, <2>4
<1>5. CASE ~AllocEnd(c)
  <2>1. c \notin Holders(p) /\ Holders(p)' = Holders(p) \cup {c}
    BY <1>5 DEF CasCount, Holders, Holds, TypeOK
  <2>2. Readers(p)' = Readers(p) + 1
    BY <1>1, <2>1, HoldersFinite, FS_AddElement DEF Readers
  <2>3. nconsumers'[p] = nconsumers[p] + 1 /\ nconsumers[p] >= 0
    BY <1>1, <1>5 DEF CasCount, CountUnchanged, LockInv, ConsumerSane, TypeOK
  <2> QED
    BY <1>1, <1>2, <1>3, <1>5, <2>2, <2>3
<1> QED
  BY <1>4, <1>5

(* Every consumer preserves the locking invariant. *)
LEMMA ConsumerLockStep ==
    ASSUME TypeOK, LockInv, NEW c \in Consumers, Consumer(c)
    PROVE  LockInv'
<1>1. UNCHANGED <<prodVars, buf_size, forgot, written>>
  BY DEF Consumer, Running, Attach, LoadPos, LoadCount, CasCount, ConsumeRead,
         ConsumeCompare, AllocEnd, shmVars, histVars
<1>2. BeforeInit'
  <2>1. floor' = floor \/ floor' = [floor EXCEPT ![c] = next - 1]
    BY DEF Consumer, Running, Attach, LoadPos, LoadCount, CasCount, ConsumeRead,
           ConsumeCompare, AllocEnd, histVars
  <2> QED
    BY <1>1, <2>1 DEF LockInv, BeforeInit, Initialised, prodVars, TypeOK
<1>3. ConsumerSane'
  <2>1. ASSUME NEW d \in Consumers, cpc'[d] = "cas" PROVE seen'[d] >= 0
    BY <2>1 DEF LockInv, ConsumerSane, Consumer, Running, Attach, Goto, LoadPos, LoadCount,
                CasCount, ConsumeRead, ConsumeCompare, AllocEnd, BeingWritten, TypeOK
  <2> QED
    BY <1>1, <2>1 DEF LockInv, ConsumerSane, prodVars
<1>4. CASE \/ Attach(c) \/ LoadPos(c) \/ LoadCount(c)
           \/ ConsumeRead(c) \/ ConsumeCompare(c)
  <2>1. \A i \in Entry : /\ Holders(i)' = Holders(i) /\ Readers(i)' = Readers(i)
                         /\ Forgotten(i)' = Forgotten(i) /\ Writers(i)' = Writers(i)
                         /\ (Owns(i)' <=> Owns(i)) /\ (Reset(i)' <=> Reset(i))
    BY <1>1, <1>4, HoldersFrame DEF Readers, Forgotten, Writers, Owns, Reset, Initialised,
                                    prodVars
  <2>2. CloseInv'
    BY <1>4, <2>1, HoldersFrame DEF LockInv, CloseInv
  <2>3. EarlyInv'
    BY <1>1, <1>4, <2>1, HoldersFrame DEF LockInv, EarlyInv
  <2>4. \A d \in Consumers : cpc'[d] = "error" => cpc[d] = "error" /\ pos'[d] = pos[d]
    BY <1>4 DEF Attach, Goto, LoadPos, LoadCount, ConsumeRead, ConsumeCompare, TypeOK
  <2> QED
    BY <1>1, <1>2, <1>3, <2>2, <2>3, <2>4 DEF LockInv, ErrorInv
<1>5. CASE CasCount(c) /\ ~CountUnchanged(c)
  <2>1. /\ UNCHANGED <<nconsumers, pos>>
        /\ \A i \in Entry : Holders(i)' = Holders(i)
    BY <1>5 DEF CasCount, Holders, Holds, TypeOK
  <2>2. \A i \in Entry : /\ Holders(i)' = Holders(i) /\ Readers(i)' = Readers(i)
                         /\ Forgotten(i)' = Forgotten(i) /\ Writers(i)' = Writers(i)
                         /\ (Owns(i)' <=> Owns(i)) /\ (Reset(i)' <=> Reset(i))
    BY <1>1, <2>1 DEF Readers, Forgotten, Writers, Owns, Reset, Initialised, prodVars
  <2>3. CloseInv'
    BY <2>1, <2>2 DEF LockInv, CloseInv
  <2>4. EarlyInv'
    BY <1>1, <2>1, <2>2 DEF LockInv, EarlyInv
  <2>5. ErrorInv'
    BY <1>1, <1>5, <2>1 DEF LockInv, ErrorInv, CasCount, TypeOK
  <2> QED
    BY <1>2, <1>3, <2>3, <2>4, <2>5 DEF LockInv
<1>6. CASE (CasCount(c) /\ CountUnchanged(c)) \/ AllocEnd(c)
  <2> DEFINE p == pos[c]
  <2>1. /\ p \in Entry
        /\ nconsumers[p] \in Int /\ nconsumers'[p] \in Int
        /\ Readers(p) \in Nat /\ Forgotten(p) \in Nat /\ Writers(p) \in {0, 1}
        /\ Owns(p) <=> Writers(p) = 1
    <3>1. nconsumers'[p] \in Int
      BY <1>6, CountTypes DEF CasCount, AllocEnd, TypeOK
    <3> QED
      BY <3>1, CountTypes, HoldersFinite, ForgottenFinite DEF Writers
  <2>2. CloseInv'
    <3> SUFFICES ASSUME NEW i \in Entry
                 PROVE  /\ Reset(i) => /\ nconsumers'[i] + Writers(i) <= Readers(i)'
                                       /\ Readers(i)' <= nconsumers'[i] + Writers(i) + Forgotten(i)
                        /\ Owns(i) => nconsumers'[i] <= -1
      BY <1>6, ComeAndGo DEF CloseInv
    <3>1. /\ Reset(i) => /\ nconsumers[i] + Writers(i) <= Readers(i)
                         /\ Readers(i) <= nconsumers[i] + Writers(i) + Forgotten(i)
          /\ Owns(i) => nconsumers[i] <= -1
      BY DEF LockInv, CloseInv
    <3>2. CASE i # p
      BY <1>6, <3>1, <3>2, ComeAndGo
    <3>3. CASE i = p /\ AllocEnd(c)
      <4>1. Owns(p) => Reset(p)
        BY DEF Owns, Reset, Initialised
      <4> QED
        BY <1>6, <2>1, <3>1, <3>3, <4>1, ComeAndGo
    <3>4. CASE i = p /\ ~AllocEnd(c)
      BY <1>6, <2>1, <3>1, <3>4, ComeAndGo
    <3> QED
      BY <3>2, <3>3, <3>4
  <2>3. EarlyInv'
    <3> SUFFICES ASSUME NEW i \in Entry, ~Reset(i), Holders(i)' # {}
                 PROVE  Readers(i)' <= nconsumers'[i]
      BY <1>1, <1>6, ComeAndGo DEF LockInv, EarlyInv
    <3>1. Holders(i) # {} => Readers(i) <= nconsumers[i]
      BY DEF LockInv, EarlyInv
    <3>2. CASE i # p
      BY <1>6, <3>1, <3>2, ComeAndGo
    <3>3. CASE i = p
      <4>1. Readers(p) = 0 <=> Holders(p) = {}
        BY <2>1, HoldersFinite
      <4> QED
        BY <1>6, <2>1, <3>1, <3>3, <4>1, ComeAndGo
    <3> QED
      BY <3>2, <3>3
  <2>4. ErrorInv'
    <3> SUFFICES ASSUME NEW d \in Consumers, cpc'[d] = "error" PROVE forgot[pos[d]] # {}
      BY <1>6, ComeAndGo DEF ErrorInv
    <3>1. CASE cpc[d] = "error"
      BY <3>1 DEF LockInv, ErrorInv
    <3>2. CASE cpc[d] # "error"
      <4>1. d = c /\ AllocEnd(c) /\ nconsumers[p] - 1 < 0
        BY <1>6, <3>2 DEF CasCount, AllocEnd, TypeOK
      <4>2. Readers(p) >= 1 /\ Holders(p) # {}
        BY <1>6, <2>1, <4>1, ComeAndGo, HoldersFinite
      <4>3. Reset(p)
        BY <2>1, <4>1, <4>2 DEF LockInv, EarlyInv
      <4>4. /\ Readers(p) <= nconsumers[p] + Writers(p) + Forgotten(p)
            /\ Owns(p) => nconsumers[p] <= -1
        BY <2>1, <4>3 DEF LockInv, CloseInv
      <4>5. Forgotten(p) # 0
        BY <2>1, <4>1, <4>2, <4>4
      <4> QED
        BY <2>1, <4>1, <4>5, ForgottenFinite
    <3> QED
      BY <3>1, <3>2
  <2> QED
    BY <1>2, <1>3, <2>2, <2>3, <2>4 DEF LockInv
<1> QED
  BY <1>4, <1>5, <1>6 DEF Consumer, Running

(* The counts follow the readers up to what the reset has forgotten, for     *)
(* every capacity and any number of consumers, however they start.          *)
THEOREM LockInvariant == Spec => []LockInv
<1>1. Init => LockInv
  <2> SUFFICES ASSUME Init PROVE LockInv
    OBVIOUS
  <2>1. \A i \in Entry : ~Reset(i) /\ ~Owns(i) /\ Holders(i) = {} /\ forgot[i] = {}
    BY DEF Init, Reset, Initialised, Owns, Holders, Holds
  <2>2. CloseInv /\ EarlyInv
    BY <2>1 DEF CloseInv, EarlyInv
  <2> QED
    BY <2>2 DEF Init, LockInv, BeforeInit, ConsumerSane, ErrorInv, Initialised
<1>2. TypeOK /\ LockInv /\ [Next]_vars => LockInv'
  <2> SUFFICES ASSUME TypeOK, LockInv, [Next]_vars PROVE LockInv'
    OBVIOUS
  <2>1. CASE UNCHANGED vars
    <3>1. /\ UNCHANGED <<nconsumers, forgot, cpc, pos, ppc, slot, buf_size, next, written,
                         floor, seen>>
          /\ \A i \in Entry : (Owns(i)' <=> Owns(i)) /\ (Reset(i)' <=> Reset(i))
      BY <2>1 DEF vars, shmVars, prodVars, consVars, histVars, Owns, Reset, Initialised
    <3> QED
      BY <3>1, QuietStep DEF LockInv, BeforeInit, ConsumerSane, Initialised
  <2> QED
    BY <2>1, ProducerLockStep, ConsumerLockStep DEF Next
<1> QED
  BY <1>1, <1>2, TypeCorrect, PTL DEF Spec

(* While the producer owns a block, at most as many consumers hold it as the *)
(* reset has forgotten there: none, where the reset found nobody.           *)
LEMMA ExclusionFact == TypeOK /\ LockInv => Exclusion
<1> SUFFICES ASSUME TypeOK, LockInv, NEW i \in Entry, Owns(i)
             PROVE  Readers(i) <= Forgotten(i)
  BY DEF Exclusion, Readers, Forgotten
<1>1. Reset(i) /\ Writers(i) = 1
  BY DEF Owns, Reset, Initialised, Writers
<1>2. Readers(i) <= nconsumers[i] + 1 + Forgotten(i) /\ nconsumers[i] <= -1
  BY <1>1 DEF LockInv, CloseInv
<1> QED
  BY <1>2, HoldersFinite, ForgottenFinite, CountTypes

(* producer_alloc never hands out a block a consumer holds, and             *)
(* consumer_alloc never one the producer owns, but for the readers that      *)
(* spmc_init has forgotten.                                                 *)
THEOREM ExclusionHolds == Spec => []Exclusion
  BY LockInvariant, TypeCorrect, ExclusionFact, PTL

(* nconsumers[i] is the number of readers of block i, less the producer and  *)
(* less some of the readers that the reset of this block has forgotten, and  *)
(* only there a consumer finds the count below zero; whatever the order in   *)
(* which the processes of spmc_test.c start.                                *)
THEOREM CountsStayClose == Spec => []CountsAreClose
<1>1. TypeOK /\ LockInv => CountsAreClose
  <2> SUFFICES ASSUME TypeOK, LockInv PROVE CountsAreClose
    OBVIOUS
  <2>1. ASSUME Initialised, NEW i \in Entry
        PROVE  LET exact == Cardinality(Holders(i)) - (IF Owns(i) THEN 1 ELSE 0)
               IN  nconsumers[i] \in exact - Cardinality(forgot[i]) .. exact
    <3>1. /\ nconsumers[i] + Writers(i) <= Readers(i)
          /\ Readers(i) <= nconsumers[i] + Writers(i) + Forgotten(i)
      BY <2>1 DEF LockInv, CloseInv, Reset
    <3>2. /\ nconsumers[i] \in Int /\ Writers(i) \in {0, 1}
          /\ Readers(i) \in Nat /\ Forgotten(i) \in Nat
      BY HoldersFinite, ForgottenFinite, CountTypes
    <3>3. nconsumers[i] \in (Readers(i) - Writers(i)) - Forgotten(i) .. Readers(i) - Writers(i)
      BY <3>1, <3>2
    <3> QED
      BY <3>3 DEF Readers, Writers, Forgotten
  <2> QED
    BY <2>1 DEF CountsAreClose, LockInv, ErrorInv
<1> QED
  BY <1>1, LockInvariant, TypeCorrect, PTL

(* A step that changes a block is the producer's, on a block it owns.       *)
LEMMA OnlyOwnedBlocksChange ==
    ASSUME TypeOK, [Next]_vars, NEW i \in Entry, buf'[i] # buf[i]
    PROVE  Owns(i)
<1>1. CASE Producer
  BY <1>1 DEF Producer, InitHeader, InitCount, AllocFree, AllocBusy, ProduceWrite,
              AllocEndUnlock, AllocEndPublish, shmVars, Owns, TypeOK
<1>2. ASSUME NEW c \in Consumers, Consumer(c) PROVE buf' = buf
  BY <1>2 DEF Consumer, Running, Attach, LoadPos, LoadCount, CasCount,
              ConsumeRead, ConsumeCompare, AllocEnd, shmVars
<1>3. CASE UNCHANGED vars
  BY <1>3 DEF vars, shmVars
<1> QED
  BY <1>1, <1>2, <1>3 DEF Next

(* The message a consumer holds does not change under it, however often the  *)
(* producer laps the ring, unless the block was reset under a reader.       *)
THEOREM HeldBlocksAreStable == Spec => StableWhileHeld
<1>1. TypeOK /\ LockInv /\ [Next]_vars =>
        [\A c \in Consumers :
            Holds(c, pos[c]) /\ forgot[pos[c]] = {} => buf'[pos[c]] = buf[pos[c]]]_vars
  <2> SUFFICES ASSUME TypeOK, LockInv, [Next]_vars, NEW c \in Consumers, Holds(c, pos[c]),
                      forgot[pos[c]] = {}, buf'[pos[c]] # buf[pos[c]]
               PROVE  FALSE
    OBVIOUS
  <2>1. pos[c] \in Entry
    BY DEF TypeOK
  <2>2. Owns(pos[c])
    BY <2>1, OnlyOwnedBlocksChange
  <2>3. Readers(pos[c]) <= Forgotten(pos[c]) /\ Forgotten(pos[c]) = 0
    BY <2>1, <2>2, ExclusionFact, ForgottenFinite DEF Exclusion, Readers, Forgotten
  <2>4. Holders(pos[c]) = {}
    BY <2>1, <2>3, HoldersFinite
  <2> QED
    BY <2>4 DEF Holders
<1> QED
  BY <1>1, TypeCorrect, LockInvariant, PTL DEF Spec, StableWhileHeld

-----------------------------------------------------------------------------
(* Freshness.  The published block holds the last published message or a     *)
(* newer one; a block only ever gets newer messages; and a consumer keeps    *)
(* the block it found published, or a newer content of it.                  *)
PublishedInv == Initialised /\ next > 0 =>
                    read_pos \in written /\ buf[read_pos] >= next - 1

WrittenBound == \A i \in written : buf[i] <= next

InFlight == ppc \in {"unlock", "publish"} => slot \in written /\ buf[slot] = next

Carried ==
    \A c \in Consumers :
        /\ cpc[c] \in {"count", "cas", "read", "compare", "end", "done"}
        /\ floor[c] >= 0
        => pos[c] \in written /\ buf[pos[c]] >= floor[c]

FreshInv == PublishedInv /\ WrittenBound /\ InFlight /\ Carried

LEMMA ProducerFreshStep ==
    ASSUME TypeOK, LockInv, FreshInv, Producer
    PROVE  FreshInv'
<1> USE DEF FreshInv, LockInv, Initialised
<1>1. CASE InitHeader \/ InitCount
  <2>1. written' = {} /\ next' = 0
    BY <1>1 DEF InitHeader, InitCount, BeforeInit
  <2>2. /\ ppc' \notin {"unlock", "publish"}
        /\ \A c \in Consumers : floor'[c] = -1
    BY <1>1 DEF InitHeader, InitCount, BeforeInit
  <2> QED
    BY <2>1, <2>2 DEF PublishedInv, WrittenBound, InFlight, Carried
<1>2. CASE AllocFree \/ AllocBusy
  BY <1>2 DEF AllocFree, AllocBusy, shmVars, consVars, histVars, PublishedInv, WrittenBound,
              InFlight, Carried
<1>3. CASE ProduceWrite
  <2> USE <1>3 DEF ProduceWrite, consVars
  <2>1. /\ slot \in Entry /\ next \in Nat
        /\ \A i \in Entry : buf[i] \in Int /\ buf'[i] = IF i = slot THEN next ELSE buf[i]
        /\ written \subseteq Entry
        /\ read_pos \in Entry
        /\ \A c \in Consumers : pos[c] \in Entry /\ floor[c] \in Int
    BY CountAssumption DEF TypeOK, Value
  <2>2. \A i \in written : buf'[i] >= buf[i]
    BY <2>1 DEF WrittenBound
  <2>3. PublishedInv'
    BY <2>1, <2>2 DEF PublishedInv
  <2>4. WrittenBound' /\ InFlight'
    BY <2>1 DEF WrittenBound, InFlight
  <2>5. Carried'
    <3> SUFFICES ASSUME NEW c \in Consumers,
                        cpc[c] \in {"count", "cas", "read", "compare", "end", "done"},
                        floor[c] >= 0
                 PROVE  pos[c] \in written' /\ buf'[pos[c]] >= floor[c]
      BY DEF Carried
    <3>1. pos[c] \in written /\ buf[pos[c]] >= floor[c]
      BY DEF Carried
    <3> QED
      BY <2>1, <2>2, <3>1
  <2> QED
    BY <2>3, <2>4, <2>5
<1>4. CASE AllocEndUnlock
  BY <1>4 DEF AllocEndUnlock, consVars, histVars, PublishedInv, WrittenBound, InFlight, Carried
<1>5. CASE AllocEndPublish
  <2>1. next \in Nat /\ slot \in written /\ buf[slot] = next
    BY <1>5, CountAssumption DEF AllocEndPublish, InFlight, TypeOK
  <2>2. PublishedInv'
    BY <1>5, <2>1 DEF AllocEndPublish, histVars, PublishedInv
  <2>3. WrittenBound'
    <3>1. \A i \in written : buf[i] \in Int
      BY DEF TypeOK, Value
    <3> QED
      BY <1>5, <2>1, <3>1 DEF AllocEndPublish, histVars, WrittenBound
  <2> QED
    BY <1>5, <2>2, <2>3 DEF AllocEndPublish, consVars, histVars, InFlight, Carried
<1> QED
  BY <1>1, <1>2, <1>3, <1>4, <1>5 DEF Producer

LEMMA ConsumerFreshStep ==
    ASSUME TypeOK, LockInv, FreshInv, NEW c \in Consumers, Consumer(c)
    PROVE  FreshInv'
<1> USE DEF FreshInv, LockInv
<1>1. UNCHANGED <<read_pos, buf, written, prodVars>>
  BY DEF Consumer, Running, Attach, LoadPos, LoadCount, CasCount,
         ConsumeRead, ConsumeCompare, AllocEnd, shmVars, histVars
<1>2. PublishedInv' /\ WrittenBound' /\ InFlight'
  BY <1>1 DEF prodVars, PublishedInv, WrittenBound, InFlight, Initialised
<1>3. Carried'
  <2> SUFFICES ASSUME NEW d \in Consumers,
                      cpc'[d] \in {"count", "cas", "read", "compare", "end", "done"},
                      floor'[d] >= 0
               PROVE  pos'[d] \in written /\ buf[pos'[d]] >= floor'[d]
    BY <1>1 DEF Carried
  <2>1. CASE LoadPos(c) /\ d = c
    <3>1. pos'[d] = read_pos /\ floor'[d] = next - 1
      BY <2>1 DEF LoadPos, TypeOK
    <3>2. Initialised /\ next \in Nat
      BY <3>1, CountAssumption DEF BeforeInit, TypeOK
    <3> QED
      BY <3>1, <3>2 DEF PublishedInv
  <2>2. CASE ~(LoadPos(c) /\ d = c)
    <3>1. pos'[d] = pos[d] /\ floor'[d] = floor[d]
      BY <2>2 DEF Consumer, Running, Attach, LoadPos, LoadCount, CasCount,
                  ConsumeRead, ConsumeCompare, AllocEnd, histVars, TypeOK
    <3>2. cpc[d] \in {"count", "cas", "read", "compare", "end", "done"}
      BY <2>2 DEF Consumer, Running, Attach, Goto, LoadPos, LoadCount, CasCount,
                  ConsumeRead, ConsumeCompare, AllocEnd, TypeOK
    <3> QED
      BY <3>1, <3>2 DEF Carried
  <2> QED
    BY <2>1, <2>2
<1> QED
  BY <1>2, <1>3

(* consumer_alloc returns the message that was the newest published when it  *)
(* loaded read_pos, or a newer one, at every capacity.                      *)
THEOREM Freshness == Spec => []NoOlderThanPublished
<1>1. Init => FreshInv
  BY DEF Init, FreshInv, PublishedInv, WrittenBound, InFlight, Carried, Initialised
<1>2. TypeOK /\ LockInv /\ FreshInv /\ [Next]_vars => FreshInv'
  <2> SUFFICES ASSUME TypeOK, LockInv, FreshInv, [Next]_vars PROVE FreshInv'
    OBVIOUS
  <2>1. CASE UNCHANGED vars
    BY <2>1 DEF vars, shmVars, prodVars, consVars, histVars, FreshInv, PublishedInv,
                WrittenBound, InFlight, Carried, Initialised
  <2> QED
    BY <2>1, ProducerFreshStep, ConsumerFreshStep DEF Next
<1>3. FreshInv => NoOlderThanPublished
  BY DEF FreshInv, Carried, NoOlderThanPublished, Holds
<1> QED
  BY <1>1, <1>2, <1>3, TypeCorrect, LockInvariant, PTL DEF Spec

-----------------------------------------------------------------------------
(* Refinement.  The abstract state is what the code keeps in nconsumers and  *)
(* in the two sides' local variables.                                       *)
Writing == {i \in Entry : Owns(i)}
Reading == [c \in Consumers |-> {i \in Entry : Holds(c, i)}]
Lost == {i \in Entry : forgot[i] # {}}

(* The ring implements the pool of reader/writer locked blocks: whatever the *)
(* interleaving, each access to shared memory is a lock, an unlock, a write  *)
(* of a locked block or the loss of a lock, or invisible to the users of the *)
(* pool.                                                                    *)
THEOREM RingImplementsPool == Spec => PoolSpec
<1>1. Init => Pool!Init
  <2> SUFFICES ASSUME Init PROVE Pool!Init
    OBVIOUS
  <2>1. TypeOK
    BY InitTypeOK
  <2> QED
    BY <2>1 DEF Init, Pool!Init, Owns, Holds, TypeOK
<1>2. TypeOK /\ TypeOK' /\ LockInv /\ [Next]_vars => [Pool!Next]_(Pool!lbVars)
  <2> SUFFICES ASSUME TypeOK, TypeOK', LockInv, [Next]_vars
               PROVE  Pool!Next \/ UNCHANGED <<Writing, Reading, buf, Lost>>
    BY DEF Pool!lbVars, Writing, Reading, Lost
  <2>1. CASE AllocFree
    <3>1. slot \in Entry /\ ~Owns(slot)
      BY <2>1 DEF AllocFree, Owns, TypeOK
    <3>2. Holders(slot) = {} \/ slot \in Lost
      <4>1. Reset(slot) /\ nconsumers[slot] = 0 /\ Writers(slot) = 0
        BY <2>1, <3>1 DEF AllocFree, Takes, Reset, Initialised, Writers
      <4>2. Readers(slot) <= Forgotten(slot)
        BY <3>1, <4>1, ForgottenFinite DEF LockInv, CloseInv
      <4> QED
        BY <3>1, <4>2, HoldersFinite, ForgottenFinite DEF Lost
    <3>3. Writing' = Writing \cup {slot}
      BY <2>1, <3>1 DEF AllocFree, Writing, Owns
    <3>4. Reading' = Reading /\ buf' = buf /\ Lost' = Lost
      BY <2>1 DEF AllocFree, consVars, histVars, Reading, Holds, Lost
    <3>5. Pool!BeginWrite(slot)
      BY <3>1, <3>2, <3>3, <3>4 DEF Pool!BeginWrite, Pool!Readers, Writing, Reading, Holders, Lost
    <3> QED
      BY <3>1, <3>5 DEF Pool!Next
  <2>2. CASE ProduceWrite
    <3>1. slot \in Entry /\ Owns(slot) /\ next \in Value
      BY <2>2, CountAssumption DEF ProduceWrite, Owns, TypeOK, Value
    <3>2. Writing' = Writing /\ Reading' = Reading /\ Lost' = Lost
      BY <2>2 DEF ProduceWrite, consVars, Writing, Reading, Owns, Holds, Lost
    <3>3. Pool!Write(slot, next)
      BY <2>2, <3>1, <3>2 DEF ProduceWrite, Pool!Write, Writing, Reading, Lost
    <3> QED
      BY <3>1, <3>3 DEF Pool!Next
  <2>3. CASE AllocEndUnlock
    <3>1. slot \in Entry /\ Owns(slot)
      BY <2>3 DEF AllocEndUnlock, Owns, TypeOK
    <3>2. Writing' = Writing \ {slot}
      BY <2>3 DEF AllocEndUnlock, Writing, Owns
    <3>3. Reading' = Reading /\ buf' = buf /\ Lost' = Lost
      BY <2>3 DEF AllocEndUnlock, consVars, histVars, Reading, Holds, Lost
    <3>4. Pool!EndWrite(slot)
      BY <3>1, <3>2, <3>3 DEF Pool!EndWrite, Writing, Reading, Lost
    <3> QED
      BY <3>1, <3>4 DEF Pool!Next
  <2>4. CASE InitHeader \/ AllocBusy \/ AllocEndPublish
    BY <2>4 DEF InitHeader, AllocBusy, AllocEndPublish, shmVars, consVars, histVars,
                Writing, Reading, Owns, Holds, Lost
  <2>5. CASE InitCount
    <3>1. /\ slot \in Entry /\ forgot[slot] = {}
          /\ forgot' = [forgot EXCEPT ![slot] = Holders(slot)]
      BY <2>5, CountTypes DEF InitCount, LockInv, EarlyInv, Reset, Initialised
    <3>2. /\ Writing = {} /\ Writing' = {}
          /\ Reading' = Reading /\ buf' = buf
      BY <2>5 DEF InitCount, consVars, Writing, Reading, Owns, Holds
    <3>3. CASE Holders(slot) = {}
      BY <3>1, <3>2, <3>3 DEF Lost, TypeOK
    <3>4. CASE Holders(slot) # {}
      <4>1. Lost' = Lost \cup {slot}
        BY <3>1, <3>4 DEF Lost, TypeOK
      <4>2. Pool!LoseLock(slot)
        BY <3>1, <3>2, <3>4, <4>1 DEF Pool!LoseLock, Pool!Readers, Writing, Reading, Holders, Lost
      <4>3. slot \in Entry
        BY <3>1
      <4> QED
        BY <4>2, <4>3 DEF Pool!Next, Pool!LoseLock
    <3> QED
      BY <3>3, <3>4
  <2>6. ASSUME NEW c \in Consumers, CasCount(c), CountUnchanged(c)
        PROVE  Pool!Next
    <3>1. pos[c] \in Entry /\ ~Holds(c, pos[c])
      BY <2>6 DEF CasCount, Holds, TypeOK
    <3>2. ~Owns(pos[c])
      BY <2>6, <3>1, CountTypes DEF CasCount, CountUnchanged, LockInv, ConsumerSane, CloseInv
    <3>3. Writing' = Writing /\ buf' = buf /\ Lost' = Lost
      BY <2>6 DEF CasCount, prodVars, histVars, Writing, Owns, Lost
    <3>4. Reading[c] = {} /\ Reading' = [Reading EXCEPT ![c] = {pos[c]}]
      <4>1. Reading[c] = {}
        BY <2>6 DEF CasCount, Reading, Holds
      <4>2. ASSUME NEW d \in Consumers
            PROVE  Reading'[d] = IF d = c THEN {pos[c]} ELSE Reading[d]
        BY <2>6, <3>1 DEF CasCount, Reading, Holds, TypeOK
      <4> QED
        BY <4>1, <4>2 DEF Reading
    <3>5. Pool!BeginRead(c, pos[c])
      BY <3>1, <3>2, <3>3, <3>4 DEF Pool!BeginRead, Writing, Reading, Lost
    <3> QED
      BY <3>1, <3>5 DEF Pool!Next
  <2>7. ASSUME NEW c \in Consumers, AllocEnd(c)
        PROVE  Pool!Next
    <3>1. pos[c] \in Entry /\ Holds(c, pos[c])
      BY <2>7 DEF AllocEnd, Holds, TypeOK
    <3>2. Writing' = Writing /\ buf' = buf /\ Lost' = Lost
      BY <2>7 DEF AllocEnd, prodVars, histVars, Writing, Owns, Lost
    <3>3. Reading' = [Reading EXCEPT ![c] = {}]
      <4>1. ASSUME NEW d \in Consumers
            PROVE  Reading'[d] = IF d = c THEN {} ELSE Reading[d]
        BY <2>7 DEF AllocEnd, Reading, Holds, TypeOK
      <4> QED
        BY <4>1 DEF Reading
    <3>4. Pool!EndRead(c)
      BY <3>1, <3>2, <3>3 DEF Pool!EndRead, Writing, Reading, Lost
    <3> QED
      BY <3>4 DEF Pool!Next
  <2>8. ASSUME NEW c \in Consumers, Consumer(c), ~AllocEnd(c),
               ~(CasCount(c) /\ CountUnchanged(c))
        PROVE  UNCHANGED <<Writing, Reading, buf, Lost>>
    <3>1. Writing' = Writing /\ buf' = buf /\ Lost' = Lost
      BY <2>8 DEF Consumer, Running, Attach, LoadPos, LoadCount, CasCount, ConsumeRead,
                  ConsumeCompare, shmVars, prodVars, histVars, Writing, Owns, Lost
    <3>2. ASSUME NEW d \in Consumers, NEW i \in Entry
          PROVE  Holds(d, i)' <=> Holds(d, i)
      BY <2>8 DEF Consumer, Running, Attach, Goto, LoadPos, LoadCount, CasCount,
                  ConsumeRead, ConsumeCompare, TypeOK, Holds
    <3> QED
      BY <3>1, <3>2 DEF Reading
  <2>9. CASE UNCHANGED vars
    BY <2>9 DEF vars, shmVars, prodVars, consVars, histVars, Writing, Reading, Owns, Holds, Lost
  <2> QED
    BY <2>1, <2>2, <2>3, <2>4, <2>5, <2>6, <2>7, <2>8, <2>9 DEF Next, Producer
<1> QED
  BY <1>1, <1>2, TypeCorrect, LockInvariant, PTL DEF Spec, PoolSpec, Pool!Spec
=============================================================================
