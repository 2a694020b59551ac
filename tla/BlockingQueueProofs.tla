------------------------- MODULE BlockingQueueProofs -------------------------
(***************************************************************************)
(* Proofs about BlockingQueue for any number of threads, any size and any   *)
(* number of items: types, no lost wake-up, that queue_close leaves nobody  *)
(* asleep, and that the ring implements BoundedFifo.                        *)
(***************************************************************************)
EXTENDS BlockingQueue, FiniteSetTheorems, SequenceTheorems, TLAPS

LEMMA SlotFacts ==
    /\ Size \in Nat /\ Size > 1 /\ 0 \in Slot
    /\ \A i \in Slot : Succ(i) \in Slot /\ Succ(i) = IF i = MaxElems THEN 0 ELSE i + 1
  BY MaxElemsAssumption DEF Size, Slot, Succ

(* Every variable keeps its type; in particular the indices stay in the ring. *)
THEOREM TypeCorrect == Spec => []TypeOK
<1>1. Init => TypeOK
  <2>1. 0 \in 0 .. PutsEach /\ 0 < PutsEach /\ 0 \in Slot
    BY SlotFacts, PutsEachAssumption
  <2> QED
    BY <2>1 DEF Init, TypeOK, Threads
<1>2. TypeOK /\ [Next]_vars => TypeOK'
  <2> SUFFICES ASSUME TypeOK, [Next]_vars PROVE TypeOK'
    OBVIOUS
  <2> USE SlotFacts, ThreadsAssumption DEF TypeOK, Threads
  <2>1. ASSUME NEW p \in Putters, PutClosed(p) PROVE TypeOK'
    BY <2>1 DEF PutClosed
  <2>2. ASSUME NEW p \in Putters, PutWait(p) PROVE TypeOK'
    BY <2>2 DEF PutWait, Runs
  <2>3. ASSUME NEW p \in Putters, PutStore(p) PROVE TypeOK'
    <3>1. puts[p] < PutsEach /\ puts[p] \in Nat
      BY <2>3, PutsEachAssumption DEF PutStore, Runs
    <3>2. <<p, puts[p] + 1>> \in Item /\ puts[p] + 1 \in 0 .. PutsEach
      BY <3>1, PutsEachAssumption DEF Item
    <3> DEFINE s == IF puts[p] + 1 = PutsEach THEN "end" ELSE "ready"
    <3>3. /\ pc' \in [Threads -> {"ready", "wait", "woken", "end"}]
          /\ pc'[p] = s
          /\ \A q \in Putters \ {p} : pc'[q] = pc[q]
      <4>1. CASE pc' = [pc EXCEPT ![p] = s]
        BY <4>1
      <4>2. ASSUME NEW w \in Waiting(Getters),
                   pc' = [pc EXCEPT ![p] = s, ![w] = "woken"]
            PROVE  <3>3
        BY <4>2 DEF Waiting
      <4> QED
        BY <2>3, <4>1, <4>2 DEF PutStore, Signal
    <3>4. puts' = [puts EXCEPT ![p] = @ + 1] /\ in' \in Slot
          /\ data' \in [Slot -> Item \cup {NoItem}]
          /\ UNCHANGED <<out, closed, ret, closer>>
      BY <2>3, <3>2 DEF PutStore
    <3>5. \A q \in Putters : pc'[q] # "end" => puts'[q] < PutsEach
      BY <3>1, <3>3, <3>4, PutsEachAssumption
    <3> QED
      BY <3>2, <3>3, <3>4, <3>5
  <2>4. ASSUME NEW g \in Getters, GetClosed(g) PROVE TypeOK'
    BY <2>4 DEF GetClosed
  <2>5. ASSUME NEW g \in Getters, GetWait(g) PROVE TypeOK'
    BY <2>5 DEF GetWait
  <2>6. ASSUME NEW g \in Getters, GetTake(g) PROVE TypeOK'
    BY <2>6 DEF GetTake, Signal, Waiting
  <2>7. CASE CloseSet
    BY <2>7 DEF CloseSet
  <2>8. CASE Broadcast
    BY <2>8 DEF Broadcast, CloseNotEmpty, CloseNotFull, WakeAll, Waiting
  <2>9. ASSUME NEW t \in Threads, SpuriousWake(t) PROVE TypeOK'
    BY <2>9 DEF SpuriousWake
  <2>10. CASE UNCHANGED vars
    BY <2>10 DEF vars
  <2> QED
    BY <2>1, <2>2, <2>3, <2>4, <2>5, <2>6, <2>7, <2>8, <2>9, <2>10
       DEF Next, PutStep, GetStep
<1> QED
  BY <1>1, <1>2, PTL DEF Spec

-----------------------------------------------------------------------------
(* After the flag is set nobody goes to sleep, and each broadcast empties    *)
(* one of the two condition variables.                                      *)
CloseInv ==
    /\ closer # "idle" => closed
    /\ closer \in {"not_full", "returned"} => Waiting(Getters) = {}
    /\ closer = "returned" => Waiting(Putters) = {}

(* queue_close returns only when no thread sleeps on the queue, and from then *)
(* on none ever does.                                                        *)
THEOREM CloseLeavesNobodyAsleep == Spec => []CloseWakesEverybody
<1>1. Init => CloseInv
  BY DEF Init, CloseInv
<1>2. TypeOK /\ CloseInv /\ [Next]_vars => CloseInv'
  <2> SUFFICES ASSUME TypeOK, CloseInv, [Next]_vars PROVE CloseInv'
    OBVIOUS
  <2> USE ThreadsAssumption DEF TypeOK, CloseInv, Waiting, Threads
  <2>1. ASSUME NEW p \in Putters, PutStep(p) PROVE CloseInv'
    BY <2>1 DEF PutStep, PutClosed, PutWait, PutStore, Signal
  <2>2. ASSUME NEW g \in Getters, GetStep(g) PROVE CloseInv'
    BY <2>2 DEF GetStep, GetClosed, GetWait, GetTake, Signal
  <2>3. CASE CloseSet
    BY <2>3 DEF CloseSet
  <2>4. CASE Broadcast
    BY <2>4 DEF Broadcast, CloseNotEmpty, CloseNotFull, WakeAll
  <2>5. ASSUME NEW t \in Threads, SpuriousWake(t) PROVE CloseInv'
    BY <2>5 DEF SpuriousWake
  <2>6. CASE UNCHANGED vars
    BY <2>6 DEF vars
  <2> QED
    BY <2>1, <2>2, <2>3, <2>4, <2>5, <2>6 DEF Next
<1>3. CloseInv => CloseWakesEverybody
  BY DEF CloseInv, CloseWakesEverybody, Waiting, Threads
<1> QED
  BY <1>1, <1>2, <1>3, TypeCorrect, PTL DEF Spec

-----------------------------------------------------------------------------
IndexFacts ==
    /\ MaxElems \in Nat /\ MaxElems > 0 /\ Size = MaxElems + 1
    /\ in \in Int /\ 0 <= in /\ in <= MaxElems
    /\ out \in Int /\ 0 <= out /\ out <= MaxElems
    /\ Succ(in) = IF in = MaxElems THEN 0 ELSE in + 1
    /\ Succ(out) = IF out = MaxElems THEN 0 ELSE out + 1

LEMMA IndicesInRange == TypeOK => IndexFacts
<1>1. TypeOK => in \in Slot /\ out \in Slot
  BY DEF TypeOK
<1>2. \A i \in Slot : i \in Int /\ 0 <= i /\ i <= MaxElems
  BY MaxElemsAssumption DEF Slot, Size
<1> QED
  BY <1>1, <1>2, SlotFacts, MaxElemsAssumption DEF IndexFacts, Size

(* What the two indices say about the number of items. *)
LEMMA UsedFacts ==
    ASSUME TypeOK
    PROVE  /\ Used \in 0 .. MaxElems /\ Free \in 0 .. MaxElems
           /\ Full <=> Free = 0
           /\ Empty <=> Used = 0
<1>1. IndexFacts
  BY IndicesInRange
<1> QED
  BY <1>1 DEF IndexFacts, Used, Free, Full, Empty

LEMMA UsedSteps ==
    ASSUME TypeOK
    PROVE  /\ ~Full /\ in' = Succ(in) /\ out' = out =>
                Used' = Used + 1 /\ Free' = Free - 1
           /\ ~Empty /\ out' = Succ(out) /\ in' = in =>
                Used' = Used - 1 /\ Free' = Free + 1
           /\ in' = in /\ out' = out => Used' = Used /\ Free' = Free
<1>1. IndexFacts
  BY IndicesInRange
<1>2. ~Full /\ in' = Succ(in) /\ out' = out => Used' = Used + 1
  BY <1>1 DEF IndexFacts, Used, Full
<1>3. ~Empty /\ out' = Succ(out) /\ in' = in => Used' = Used - 1
  BY <1>1 DEF IndexFacts, Used, Empty
<1>4. Used \in Int /\ (in' = in /\ out' = out => Used' = Used)
  BY <1>1 DEF IndexFacts, Used
<1> QED
  BY <1>1, <1>2, <1>3, <1>4 DEF Free, IndexFacts

LEMMA WokenFinite ==
    ASSUME NEW T, IsFiniteSet(T)
    PROVE  IsFiniteSet(Woken(T)) /\ Cardinality(Woken(T)) \in Nat
<1>1. Woken(T) \subseteq T
  BY DEF Woken
<1> QED
  BY <1>1, FS_Subset, FS_CardinalityType

(* Signalling the threads of T moves one of them from Waiting to Woken.     *)
LEMMA SignalWakes ==
    ASSUME TypeOK, NEW T, T \subseteq Threads, IsFiniteSet(T),
           NEW t \in Threads \ T, NEW s, Signal(T, t, s)
    PROVE  /\ \/ Waiting(T)' = {}
              \/ Cardinality(Woken(T)') = Cardinality(Woken(T)) + 1
           /\ Waiting(T)' # {} => Waiting(T) # {}
           /\ \A u \in Threads \ (T \cup {t}) : pc'[u] = pc[u]
           /\ pc'[t] = s
<1>1. CASE Waiting(T) = {} /\ pc' = [pc EXCEPT ![t] = s]
  BY <1>1 DEF Waiting, TypeOK
<1>2. ASSUME NEW w \in Waiting(T), pc' = [pc EXCEPT ![t] = s, ![w] = "woken"]
      PROVE  /\ Cardinality(Woken(T)') = Cardinality(Woken(T)) + 1
             /\ Waiting(T) # {}
             /\ \A u \in Threads \ (T \cup {t}) : pc'[u] = pc[u]
             /\ pc'[t] = s
  <2>1. w \in T /\ w # t /\ w \notin Woken(T)
    BY <1>2 DEF Waiting, Woken
  <2>2. Woken(T)' = Woken(T) \cup {w}
    BY <1>2, <2>1 DEF Woken, TypeOK
  <2>3. Cardinality(Woken(T)') = Cardinality(Woken(T)) + 1
    BY <2>1, <2>2, WokenFinite, FS_AddElement
  <2> QED
    BY <1>2, <2>1, <2>3 DEF TypeOK
<1> QED
  BY <1>1, <1>2 DEF Signal

(* A thread of T that stops being woken takes at most one from Woken(T).    *)
LEMMA WokenLosesOne ==
    ASSUME TypeOK, NEW T, T \subseteq Threads, IsFiniteSet(T), NEW t \in T,
           \A u \in T \ {t} : pc'[u] = pc[u], pc'[t] # "woken"
    PROVE  Cardinality(Woken(T)') >= Cardinality(Woken(T)) - 1
<1>1. Woken(T)' = Woken(T) \ {t}
  BY DEF Woken
<1>2. CASE t \in Woken(T)
  <2>1. Cardinality(Woken(T) \ {t}) = Cardinality(Woken(T)) - 1
    BY <1>2, WokenFinite, FS_RemoveElement
  <2> QED
    BY <1>1, <2>1, WokenFinite
<1>3. CASE t \notin Woken(T)
  <2>1. Woken(T) \ {t} = Woken(T)
    BY <1>3
  <2> QED
    BY <1>1, <2>1, WokenFinite
<1> QED
  BY <1>2, <1>3

(* No wake-up is lost, for any number of putters and getters: while somebody *)
(* sleeps there is a woken thread for every item, and for every free cell.   *)
THEOREM WakeupsAreNotLost == Spec => []NoLostWakeup
<1>1. Init => NoLostWakeup
  BY DEF Init, NoLostWakeup, Waiting, Threads
<1>2. TypeOK /\ TypeOK' /\ NoLostWakeup /\ [Next]_vars => NoLostWakeup'
  <2> SUFFICES ASSUME TypeOK, TypeOK', NoLostWakeup, [Next]_vars, ~closed'
               PROVE  /\ Waiting(Getters)' # {} => Used' <= Cardinality(Woken(Getters)')
                      /\ Waiting(Putters)' # {} => Free' <= Cardinality(Woken(Putters)')
    BY DEF NoLostWakeup
  <2> DEFINE wg == Cardinality(Woken(Getters))
             wp == Cardinality(Woken(Putters))
             Goal == /\ Waiting(Getters)' # {} => Used' <= wg'
                     /\ Waiting(Putters)' # {} => Free' <= wp'
  <2>0. /\ wg \in Nat /\ wp \in Nat /\ wg' \in Nat /\ wp' \in Nat
        /\ Used \in Nat /\ Free \in Nat
        /\ Putters \subseteq Threads /\ Getters \subseteq Threads
        /\ IsFiniteSet(Putters) /\ IsFiniteSet(Getters)
        /\ Putters \cap Getters = {}
    <3>1. IsFiniteSet(Woken(Getters)') /\ IsFiniteSet(Woken(Putters)')
      <4>1. Woken(Getters)' \subseteq Getters /\ Woken(Putters)' \subseteq Putters
        BY DEF Woken
      <4> QED
        BY <4>1, ThreadsAssumption, FS_Subset
    <3> QED
      BY <3>1, WokenFinite, ThreadsAssumption, FS_CardinalityType, UsedFacts,
         MaxElemsAssumption DEF Threads
  <2>1. ASSUME NEW p \in Putters, PutStore(p) PROVE Goal
    <3>1. ~closed /\ Used' = Used + 1 /\ Free' = Free - 1
      BY <2>1, UsedSteps DEF PutStore
    <3>2. PICK s : s \in {"ready", "end"} /\ Signal(Getters, p, s)
      BY <2>1 DEF PutStore
    <3>3. /\ Waiting(Getters)' = {} \/ wg' = wg + 1
          /\ Waiting(Getters)' # {} => Waiting(Getters) # {}
          /\ \A u \in Putters \ {p} : pc'[u] = pc[u]
          /\ pc'[p] \in {"ready", "end"}
      BY <2>0, <3>2, SignalWakes
    <3>4. wp' >= wp - 1
      BY <2>0, <3>3, WokenLosesOne
    <3>5. Waiting(Putters)' # {} => Waiting(Putters) # {}
      BY <3>3 DEF Waiting
    <3>6. Waiting(Getters)' # {} => Used' <= wg'
      BY <2>0, <3>1, <3>3 DEF NoLostWakeup
    <3>7. Waiting(Putters)' # {} => Free' <= wp'
      BY <2>0, <3>1, <3>4, <3>5 DEF NoLostWakeup
    <3> QED
      BY <3>6, <3>7
  <2>2. ASSUME NEW g \in Getters, GetTake(g) PROVE Goal
    <3>1. ~closed /\ Used' = Used - 1 /\ Free' = Free + 1
      BY <2>2, UsedSteps DEF GetTake
    <3>2. Signal(Putters, g, "ready")
      BY <2>2 DEF GetTake
    <3>3. /\ Waiting(Putters)' = {} \/ wp' = wp + 1
          /\ Waiting(Putters)' # {} => Waiting(Putters) # {}
          /\ \A u \in Getters \ {g} : pc'[u] = pc[u]
          /\ pc'[g] = "ready"
      BY <2>0, <3>2, SignalWakes
    <3>4. wg' >= wg - 1
      BY <2>0, <3>3, WokenLosesOne
    <3>5. Waiting(Getters)' # {} => Waiting(Getters) # {}
      BY <3>3 DEF Waiting
    <3>6. Waiting(Putters)' # {} => Free' <= wp'
      BY <2>0, <3>1, <3>3 DEF NoLostWakeup
    <3>7. Waiting(Getters)' # {} => Used' <= wg'
      BY <2>0, <3>1, <3>4, <3>5 DEF NoLostWakeup
    <3> QED
      BY <3>6, <3>7
  <2>3. ASSUME NEW p \in Putters, PutWait(p) PROVE Goal
    <3>1. ~closed /\ Free' = 0 /\ Used' = Used
      BY <2>3, UsedFacts, UsedSteps DEF PutWait
    <3>2. Waiting(Getters)' = Waiting(Getters) /\ Woken(Getters)' = Woken(Getters)
      BY <2>0, <2>3 DEF PutWait, Waiting, Woken, TypeOK
    <3> QED
      BY <2>0, <3>1, <3>2 DEF NoLostWakeup
  <2>4. ASSUME NEW g \in Getters, GetWait(g) PROVE Goal
    <3>1. ~closed /\ Used' = 0 /\ Free' = Free
      BY <2>4, UsedFacts, UsedSteps DEF GetWait
    <3>2. Waiting(Putters)' = Waiting(Putters) /\ Woken(Putters)' = Woken(Putters)
      BY <2>0, <2>4 DEF GetWait, Waiting, Woken, TypeOK
    <3> QED
      BY <2>0, <3>1, <3>2 DEF NoLostWakeup
  <2>5. ASSUME NEW t \in Threads, SpuriousWake(t) PROVE Goal
    <3>1. ~closed /\ Used' = Used /\ Free' = Free
      BY <2>5, UsedSteps DEF SpuriousWake
    <3>2. ASSUME NEW T, T \subseteq Threads, IsFiniteSet(T)
          PROVE  /\ Waiting(T)' # {} => Waiting(T) # {}
                 /\ Cardinality(Woken(T)') >= Cardinality(Woken(T))
      <4>1. Waiting(T)' \subseteq Waiting(T) /\ Woken(T) \subseteq Woken(T)'
        BY <2>5, <3>2 DEF SpuriousWake, Waiting, Woken, TypeOK
      <4>2. Woken(T)' \subseteq T
        BY DEF Woken
      <4>3. IsFiniteSet(Woken(T)')
        BY <3>2, <4>2, FS_Subset
      <4>4. Cardinality(Woken(T)) <= Cardinality(Woken(T)')
        BY <4>1, <4>3, FS_Subset
      <4>5. Cardinality(Woken(T)) \in Nat /\ Cardinality(Woken(T)') \in Nat
        BY <3>2, <4>3, WokenFinite, FS_CardinalityType
      <4> QED
        BY <4>1, <4>4, <4>5
    <3>3. /\ Waiting(Getters)' # {} => Waiting(Getters) # {}
          /\ Waiting(Putters)' # {} => Waiting(Putters) # {}
          /\ wg' >= wg /\ wp' >= wp
      BY <2>0, <3>2
    <3> QED
      BY <2>0, <3>1, <3>3 DEF NoLostWakeup
  <2>6. CASE UNCHANGED vars
    BY <2>6, UsedSteps DEF vars, NoLostWakeup, Waiting, Woken
  <2>7. \A p \in Putters : ~PutClosed(p)
    BY DEF PutClosed
  <2>8. \A g \in Getters : ~GetClosed(g)
    BY DEF GetClosed
  <2>9. ASSUME CloseSet \/ Broadcast PROVE Goal
    <3>1. CASE CloseSet
      BY <3>1 DEF CloseSet
    <3>2. CASE Broadcast
      <4>1. ~closed /\ Used' = Used /\ Free' = Free
        BY <3>2, UsedSteps DEF Broadcast, CloseNotEmpty, CloseNotFull
      <4> HIDE DEF Goal
      <4>2. CASE CloseNotEmpty
        <5>1. /\ Waiting(Getters)' = {}
              /\ Waiting(Putters)' = Waiting(Putters) /\ Woken(Putters)' = Woken(Putters)
          BY <2>0, <4>2 DEF CloseNotEmpty, WakeAll, Waiting, Woken, TypeOK
        <5> QED
          BY <2>0, <4>1, <5>1 DEF NoLostWakeup, Goal
      <4>3. CASE CloseNotFull
        <5>1. /\ Waiting(Putters)' = {}
              /\ Waiting(Getters)' = Waiting(Getters) /\ Woken(Getters)' = Woken(Getters)
          BY <2>0, <4>3 DEF CloseNotFull, WakeAll, Waiting, Woken, TypeOK
        <5> QED
          BY <2>0, <4>1, <5>1 DEF NoLostWakeup, Goal
      <4> QED
        BY <3>2, <4>2, <4>3 DEF Broadcast
    <3> QED
      BY <2>9, <3>1, <3>2
  <2> QED
    BY <2>1, <2>2, <2>3, <2>4, <2>5, <2>6, <2>7, <2>8, <2>9 DEF Next, PutStep, GetStep
<1> QED
  BY <1>1, <1>2, TypeCorrect, PTL DEF Spec
-----------------------------------------------------------------------------
(* The refinement: the cells between the two indices, read around the end of *)
(* the ring, are the abstract queue.                                         *)

(* A function on 1 .. n is a sequence of length n.                          *)
LEMMA FunctionIsSeq ==
    ASSUME NEW V, NEW n \in Nat, NEW f \in [1 .. n -> V]
    PROVE  f \in Seq(V) /\ Len(f) = n
<1>1. f \in Seq(V)
  BY SeqDef
<1>2. DOMAIN f = 1 .. Len(f) /\ Len(f) \in Nat /\ DOMAIN f = 1 .. n
  BY <1>1, LenProperties
<1> QED
  BY <1>1, <1>2

(* The cell of the i-th item.                                               *)
Cell(o, i) == (o + i - 1) % Size

LEMMA CellFacts ==
    ASSUME NEW o \in Slot, NEW i \in 1 .. Size
    PROVE  /\ Cell(o, i) \in Slot
           /\ Cell(o, i) = IF o + i - 1 < Size THEN o + i - 1 ELSE o + i - 1 - Size
<1>1. Size \in Nat /\ Size > 1 /\ o \in Nat /\ o < Size /\ i \in Nat /\ i > 0 /\ i <= Size
  BY SlotFacts DEF Slot
<1>2. CASE o + i - 1 < Size
  BY <1>1, <1>2 DEF Cell, Slot
<1>3. CASE o + i - 1 >= Size
  <2>1. (o + i - 1) % Size = (o + i - 1 - Size) % Size
    BY <1>1, <1>3
  <2> QED
    BY <1>1, <1>3, <2>1 DEF Cell, Slot
<1> QED
  BY <1>1, <1>2, <1>3

Stored == Item \cup {NoItem}

LEMMA ContentsIsSeq ==
    ASSUME TypeOK
    PROVE  /\ Contents \in Seq(Stored) /\ Len(Contents) = Used
           /\ \A i \in 1 .. Used : Contents[i] = data[Cell(out, i)]
<1>1. Used \in Nat /\ Used < Size
  BY UsedFacts, MaxElemsAssumption DEF Size
<1>2. \A i \in 1 .. Used : data[Cell(out, i)] \in Stored
  BY <1>1, CellFacts, SlotFacts DEF TypeOK, Stored
<1>3. Contents \in [1 .. Used -> Stored]
  BY <1>2 DEF Contents, Cell
<1> QED
  BY <1>1, <1>3, FunctionIsSeq DEF Contents, Cell

(* The same of the next state.                                              *)
ContentsFact ==
    /\ Contents \in Seq(Stored) /\ Len(Contents) = Used
    /\ \A i \in 1 .. Used : Contents[i] = data[Cell(out, i)]

LEMMA ContentsIsSeqNow == TypeOK => ContentsFact
  BY ContentsIsSeq DEF ContentsFact

LEMMA ContentsIsSeqNext == TypeOK' => ContentsFact'
  BY ContentsIsSeqNow, PTL

(* queue_put appends to the abstract queue, also where the ring wraps.      *)
LEMMA StoreAppends ==
    ASSUME TypeOK, TypeOK', ~Full, NEW v \in Item,
           data' = [data EXCEPT ![in] = v], in' = Succ(in), out' = out
    PROVE  Contents' = Append(Contents, v)
<1>0. IndexFacts /\ v \in Stored
  BY IndicesInRange DEF Stored
<1>1. Used' = Used + 1 /\ Used \in Nat /\ Used < MaxElems
  BY UsedSteps, UsedFacts, MaxElemsAssumption DEF Free
<1>2. /\ Contents \in Seq(Stored) /\ Len(Contents) = Used
      /\ Contents' \in Seq(Stored) /\ Len(Contents') = Used + 1
      /\ \A i \in 1 .. Used : Contents[i] = data[Cell(out, i)]
      /\ \A i \in 1 .. Used + 1 : Contents'[i] = data'[Cell(out, i)]
  <2>1. /\ Contents' \in Seq(Stored) /\ Len(Contents') = Used'
        /\ \A i \in 1 .. Used' : Contents'[i] = data'[Cell(out', i)]
    BY ContentsIsSeqNext DEF ContentsFact
  <2> QED
    BY <1>1, <2>1, ContentsIsSeq
<1>3. /\ Append(Contents, v) \in Seq(Stored) /\ Len(Append(Contents, v)) = Used + 1
      /\ \A i \in 1 .. Used : Append(Contents, v)[i] = Contents[i]
      /\ Append(Contents, v)[Used + 1] = v
  BY <1>0, <1>2, AppendProperties
<1>4. Cell(out, Used + 1) = in /\ in \in Slot
  <2>1. out \in Slot /\ Used + 1 \in 1 .. Size
    BY <1>0, <1>1 DEF IndexFacts, TypeOK
  <2>2. Cell(out, Used + 1) =
          IF out + Used < Size THEN out + Used ELSE out + Used - Size
    BY <1>1, <2>1, CellFacts DEF TypeOK, IndexFacts
  <2> QED
    BY <1>0, <2>2 DEF IndexFacts, Used, TypeOK
<1>5. ASSUME NEW i \in 1 .. Used PROVE Cell(out, i) \in Slot /\ Cell(out, i) # in
  <2>1. out \in Slot /\ i \in 1 .. Size
    BY <1>0, <1>1 DEF IndexFacts, TypeOK
  <2>2. /\ Cell(out, i) \in Slot
        /\ Cell(out, i) = IF out + i - 1 < Size THEN out + i - 1 ELSE out + i - 1 - Size
    BY <2>1, CellFacts
  <2> QED
    BY <1>0, <1>1, <2>2 DEF IndexFacts, Used
<1>6. ASSUME NEW i \in 1 .. Used + 1 PROVE Contents'[i] = Append(Contents, v)[i]
  <2>1. CASE i = Used + 1
    BY <1>2, <1>3, <1>4, <2>1 DEF TypeOK
  <2>2. CASE i \in 1 .. Used
    BY <1>2, <1>3, <1>5, <2>2 DEF TypeOK
  <2>3. i = Used + 1 \/ i \in 1 .. Used
    BY <1>1
  <2> QED
    BY <2>1, <2>2, <2>3
<1> QED
  BY <1>2, <1>3, <1>6, SeqEqual

(* queue_get returns the head and leaves the tail.                          *)
LEMMA TakeTails ==
    ASSUME TypeOK, TypeOK', ~Empty, data' = data, in' = in, out' = Succ(out)
    PROVE  /\ Contents # <<>> /\ Head(Contents) = data[out]
           /\ Contents' = Tail(Contents)
<1>0. IndexFacts
  BY IndicesInRange
<1>1. Used' = Used - 1 /\ Used \in Nat /\ Used > 0 /\ Used <= MaxElems
  BY UsedSteps, UsedFacts, MaxElemsAssumption
<1>2. /\ Contents \in Seq(Stored) /\ Len(Contents) = Used
      /\ Contents' \in Seq(Stored) /\ Len(Contents') = Used - 1
      /\ \A i \in 1 .. Used : Contents[i] = data[Cell(out, i)]
      /\ \A i \in 1 .. Used - 1 : Contents'[i] = data[Cell(Succ(out), i)]
  <2>1. /\ Contents' \in Seq(Stored) /\ Len(Contents') = Used'
        /\ \A i \in 1 .. Used' : Contents'[i] = data'[Cell(out', i)]
    BY ContentsIsSeqNext DEF ContentsFact
  <2> QED
    BY <1>1, <2>1, ContentsIsSeq
<1>3. Contents # <<>>
  BY <1>1, <1>2, EmptySeq
<1>4. /\ Tail(Contents) \in Seq(Stored) /\ Len(Tail(Contents)) = Used - 1
      /\ \A i \in 1 .. Used - 1 : Tail(Contents)[i] = Contents[i + 1]
  BY <1>2, <1>3, HeadTailProperties
<1>5. Cell(out, 1) = out
  BY <1>0, CellFacts, SlotFacts DEF IndexFacts, TypeOK
<1>6. ASSUME NEW i \in 1 .. Used - 1 PROVE Cell(Succ(out), i) = Cell(out, i + 1)
  <2>1. /\ out \in Slot /\ Succ(out) \in Slot
        /\ i \in 1 .. Size /\ i + 1 \in 1 .. Size /\ i \in Nat
    BY <1>0, <1>1, SlotFacts DEF IndexFacts, TypeOK
  <2>2. Cell(out, i + 1) = IF out + i < Size THEN out + i ELSE out + i - Size
    BY <1>0, <2>1, CellFacts DEF IndexFacts
  <2>3. Cell(Succ(out), i) =
          IF Succ(out) + i - 1 < Size THEN Succ(out) + i - 1 ELSE Succ(out) + i - 1 - Size
    BY <2>1, CellFacts
  <2> QED
    BY <1>0, <1>1, <2>1, <2>2, <2>3 DEF IndexFacts
<1>7. Contents' = Tail(Contents)
  <2>1. \A i \in 1 .. Used - 1 : Contents'[i] = Tail(Contents)[i]
    BY <1>1, <1>2, <1>4, <1>6
  <2> QED
    BY <1>2, <1>4, <2>1, SeqEqual
<1>8. Head(Contents) = data[out]
  BY <1>1, <1>2, <1>5
<1> QED
  BY <1>3, <1>7, <1>8

(* The ring is a closable bounded FIFO queue, for any number of threads and   *)
(* any size: every put appends one item, every get returns the oldest one,    *)
(* and nothing moves once closed is set.                                      *)
THEOREM RingImplementsFifo == Spec => FifoSpec
<1>1. Init => Fifo!Init
  <2> SUFFICES ASSUME Init PROVE Contents = <<>>
    BY DEF Init, Fifo!Init
  <2>1. Used = 0
    BY DEF Init, Used
  <2> QED
    BY <2>1 DEF Contents
<1>2. TypeOK /\ TypeOK' /\ [Next]_vars => [Fifo!Next]_(Fifo!fifoVars)
  <2> SUFFICES ASSUME TypeOK, TypeOK', [Next]_vars
               PROVE  Fifo!Next \/ UNCHANGED <<Contents, closed, ret>>
    BY DEF Fifo!fifoVars
  <2>0. ASSUME UNCHANGED <<out, in, data>> PROVE Contents' = Contents
    BY <2>0 DEF Contents, Used
  <2>1. ASSUME NEW p \in Putters, PutStore(p) PROVE Fifo!Next
    <3> DEFINE v == <<p, puts[p] + 1>>
    <3>1. v \in Item /\ ~closed /\ ~Full
      BY <2>1, PutsEachAssumption DEF PutStore, Runs, TypeOK, Item
    <3>2. Contents' = Append(Contents, v)
      BY <2>1, <3>1, StoreAppends DEF PutStore
    <3>3. Len(Contents) < MaxElems
      BY <3>1, ContentsIsSeq, UsedFacts, MaxElemsAssumption DEF Free
    <3>4. Fifo!Put(v)
      BY <2>1, <3>1, <3>2, <3>3 DEF PutStore, Fifo!Put
    <3> QED
      BY <3>1, <3>4 DEF Fifo!Next
  <2>2. ASSUME NEW g \in Getters, GetTake(g) PROVE Fifo!Next
    <3>1. /\ Contents # <<>> /\ Head(Contents) = data[out]
          /\ Contents' = Tail(Contents)
      BY <2>2, TakeTails DEF GetTake
    <3>2. Fifo!Get(g)
      BY <2>2, <3>1 DEF GetTake, Fifo!Get
    <3> QED
      BY <3>2 DEF Fifo!Next
  <2>3. ASSUME NEW g \in Getters, GetClosed(g) PROVE Fifo!Next
    <3>1. Fifo!GetClosed(g)
      BY <2>0, <2>3 DEF GetClosed, Fifo!GetClosed
    <3> QED
      BY <3>1 DEF Fifo!Next
  <2>4. CASE CloseSet
    BY <2>0, <2>4 DEF CloseSet, Fifo!Close, Fifo!Next
  <2>5. ASSUME \/ \E p \in Putters : PutClosed(p) \/ PutWait(p)
               \/ \E g \in Getters : GetWait(g)
               \/ Broadcast
               \/ \E t \in Threads : SpuriousWake(t)
               \/ UNCHANGED vars
        PROVE  UNCHANGED <<Contents, closed, ret>>
    <3>1. UNCHANGED <<out, in, data, closed, ret>>
      BY <2>5 DEF PutClosed, PutWait, GetWait, Broadcast, CloseNotEmpty, CloseNotFull,
                  SpuriousWake, vars
    <3> QED
      BY <2>0, <3>1
  <2> QED
    BY <2>1, <2>2, <2>3, <2>4, <2>5 DEF Next, PutStep, GetStep
<1> QED
  BY <1>1, <1>2, TypeCorrect, PTL DEF Spec, FifoSpec, Fifo!Spec
=============================================================================
