------------------------------ MODULE SpmcRing ------------------------------
(***************************************************************************)
(* The shared-memory single-producer/multi-consumer ring spmc10.c, driven   *)
(* by spmc_test.c.  The producer writes into the first free block after     *)
(* the one it wrote last and then publishes that block in read_pos; a       *)
(* consumer goes for the published block only.  nconsumers[i] is the whole  *)
(* synchronisation: -1 while the producer owns block i, otherwise the       *)
(* number of consumers that read it.                                        *)
(*                                                                          *)
(* One action is one access to shared memory.  The accesses interleave in   *)
(* one total order: the program is built with gcc -g for x86-64, where the  *)
(* read-modify-writes are locked and plain stores leave a core in order.    *)
(***************************************************************************)
EXTENDS Integers, FiniteSets

CONSTANTS Consumers,  \* the consumer processes
          Capacity,   \* entry_num: the number of blocks
          Count       \* how many values the producer writes: 0 .. Count - 1

ASSUME CapacityAssumption == Capacity \in Nat \ {0}
ASSUME CountAssumption == Count \in Nat \ {0}
ASSUME ConsumersAssumption == IsFiniteSet(Consumers)

Entry == 0 .. Capacity - 1
Value == 0 .. Count - 1

VARIABLES
    (* spmc_t, in the shared segment *)
    buf_size,    \* whether the geometry (capacity, buf_size) is set: 0 or 1
    size,        \* the number of blocks in use
    write_pos,   \* where the producer's next search starts
    read_pos,    \* the published block
    nconsumers,  \* nconsumers[i]
    buf,         \* buf[i]: the int at the start of block i
    (* the producer process *)
    ppc,         \* where the producer is
    next,        \* i of produce(): the value it writes next
    slot,        \* i of producer_alloc and of the spmc_init loop
    (* the consumer processes *)
    cpc,         \* cpc[c]: where consumer c is
    pos,         \* i of consumer_alloc: the position c loaded
    seen,        \* old of consumer_alloc: the count c loaded
    value,       \* value of consume()
    last,        \* old of consume(): the byte read last
    (* history, for the properties *)
    written,     \* the blocks written since spmc_init reset the ring
    floor,       \* floor[c]: newest value published when c loaded read_pos
    forgot       \* forgot[i]: the consumers that held block i when its count was reset

shmVars == <<buf_size, size, write_pos, read_pos, nconsumers, buf>>
prodVars == <<ppc, next, slot>>
consVars == <<cpc, pos, seen, value, last>>
histVars == <<written, floor, forgot>>
vars == <<shmVars, prodVars, consVars, histVars>>

(* The producer owns block i between the two calls of producer_alloc and     *)
(* producer_alloc_end; consumer c holds block i between consumer_alloc and   *)
(* consumer_alloc_end, and for ever once consume() has broken out.          *)
Owns(i) == ppc \in {"write", "unlock"} /\ slot = i

Holds(c, i) == cpc[c] \in {"read", "compare", "end", "done"} /\ pos[c] = i

Holders(i) == {c \in Consumers : Holds(c, i)}
-----------------------------------------------------------------------------
(* A segment that no run has used yet is all zeros. *)
FreshSegment ==
    /\ buf_size = 0
    /\ size = 0
    /\ write_pos = 0
    /\ read_pos = 0
    /\ nconsumers = [i \in Entry |-> 0]
    /\ buf = [i \in Entry |-> 0]

(* The segment of an earlier run that ended: shmget finds it again, because  *)
(* nobody removes it.  Consumers leave consume() at the last value with      *)
(* their block still counted; the count is below zero where that run's own  *)
(* reset had forgotten readers.                                             *)
LeftoverSegment ==
    /\ Count >= Capacity
    /\ buf_size = 1
    /\ size = Capacity
    /\ write_pos = Count % Capacity
    /\ read_pos = (Count - 1) % Capacity
    /\ \E leaked \in -Cardinality(Consumers) .. Cardinality(Consumers) :
         nconsumers = [i \in Entry |-> IF i = (Count - 1) % Capacity
                                       THEN leaked ELSE 0]
    /\ buf = [i \in Entry |-> Count - 1 - ((Count - 1 - i) % Capacity)]

Init ==
    /\ FreshSegment \/ LeftoverSegment
    /\ ppc = "init" /\ next = 0 /\ slot = 0
    /\ cpc = [c \in Consumers |-> "start"]
    /\ pos = [c \in Consumers |-> 0]
    /\ seen = [c \in Consumers |-> 0]
    /\ value = [c \in Consumers |-> 0]
    /\ last = [c \in Consumers |-> 1]
    /\ written = {}
    /\ floor = [c \in Consumers |-> -1]
    /\ forgot = [i \in Entry |-> {}]
-----------------------------------------------------------------------------
(* The producer: main_p. *)

(* spmc_init, the header.  No consumer can tell its stores apart: buf_size   *)
(* changes in a fresh segment only, and read_pos only in one left over.      *)
InitHeader ==
    /\ ppc = "init"
    /\ buf_size' = 1 /\ size' = 0 /\ write_pos' = 0 /\ read_pos' = 0
    /\ written' = {}
    /\ ppc' = "counts" /\ slot' = 0
    /\ UNCHANGED <<nconsumers, buf, next, consVars, floor, forgot>>

(* spmc_init, one round of the loop that resets nconsumers, whoever is       *)
(* counted there.                                                           *)
InitCount ==
    /\ ppc = "counts"
    /\ nconsumers' = [nconsumers EXCEPT ![slot] = 0]
    /\ forgot' = [forgot EXCEPT ![slot] = Holders(slot)]
    /\ IF slot + 1 < Capacity
       THEN slot' = slot + 1 /\ UNCHANGED ppc
       ELSE slot' = write_pos /\ ppc' = "alloc"
    /\ UNCHANGED <<buf_size, size, write_pos, read_pos, buf, next, consVars,
                   written, floor>>

(* How producer_alloc walks the ring, and the count it may take. *)
AdvanceNever(i) == i        \* mutant: the search does not move on
Advance(i) == (i + 1) % Capacity

TakesIdleOrRead(n) == n >= 0   \* mutant: readers do not count
Takes(n) == n = 0

(* producer_alloc, one round of its loop whose compare-exchange succeeds... *)
AllocFree ==
    /\ ppc = "alloc"
    /\ Takes(nconsumers[slot])
    /\ nconsumers' = [nconsumers EXCEPT ![slot] = -1]
    /\ size' = IF size <= slot THEN slot + 1 ELSE size
    /\ write_pos' = Advance(slot)
    /\ ppc' = "write"
    /\ UNCHANGED <<buf_size, read_pos, buf, next, slot, consVars, histVars>>

(* ... and one whose compare-exchange fails. *)
AllocBusy ==
    /\ ppc = "alloc"
    /\ ~Takes(nconsumers[slot])
    /\ slot' = Advance(slot)
    /\ UNCHANGED <<shmVars, ppc, next, consVars, histVars>>

(* produce: the store into the block. *)
ProduceWrite ==
    /\ ppc = "write"
    /\ buf' = [buf EXCEPT ![slot] = next]
    /\ written' = written \cup {slot}
    /\ ppc' = "unlock"
    /\ UNCHANGED <<buf_size, size, write_pos, read_pos, nconsumers, next, slot,
                   consVars, floor, forgot>>

(* producer_alloc_end, the store that releases the block. *)
AllocEndUnlock ==
    /\ ppc = "unlock"
    /\ nconsumers' = [nconsumers EXCEPT ![slot] = 0]
    /\ ppc' = "publish"
    /\ UNCHANGED <<buf_size, size, write_pos, read_pos, buf, next, slot,
                   consVars, histVars>>

(* producer_alloc_end, the store of read_pos; then the next round of         *)
(* produce(), whose search starts at write_pos.                             *)
AllocEndPublish ==
    /\ ppc = "publish"
    /\ read_pos' = slot
    /\ next' = next + 1
    /\ slot' = write_pos
    /\ ppc' = IF next + 1 < Count THEN "alloc" ELSE "done"
    /\ UNCHANGED <<buf_size, size, write_pos, nconsumers, buf, consVars,
                   histVars>>

Producer ==
    \/ InitHeader \/ InitCount
    \/ AllocFree \/ AllocBusy
    \/ ProduceWrite \/ AllocEndUnlock \/ AllocEndPublish
-----------------------------------------------------------------------------
(* A consumer: main_c. *)

Goto(c, from, to) == cpc[c] = from /\ cpc' = [cpc EXCEPT ![c] = to]

(* spmc_init by a consumer only maps the segment. *)
Attach(c) ==
    /\ Goto(c, "start", "load")
    /\ UNCHANGED <<shmVars, prodVars, pos, seen, value, last, histVars>>

(* Mutant of LoadPos: the wrong position. *)
LoadWritePos(c) ==
    /\ Goto(c, "load", "count")
    /\ pos' = [pos EXCEPT ![c] = write_pos]
    /\ floor' = [floor EXCEPT ![c] = next - 1]
    /\ UNCHANGED <<shmVars, prodVars, seen, value, last, written, forgot>>

(* consumer_alloc: the load of read_pos. *)
LoadPos(c) ==
    /\ Goto(c, "load", "count")
    /\ pos' = [pos EXCEPT ![c] = read_pos]
    /\ floor' = [floor EXCEPT ![c] = next - 1]
    /\ UNCHANGED <<shmVars, prodVars, seen, value, last, written, forgot>>

(* A block being written is not for readers. *)
NeverBeingWritten(n) == FALSE   \* mutant: the check is missing
BeingWritten(n) == n < 0

(* consumer_alloc: the load of the count; a block being written is retried. *)
LoadCount(c) ==
    /\ cpc[c] = "count"
    /\ seen' = [seen EXCEPT ![c] = nconsumers[pos[c]]]
    /\ cpc' = [cpc EXCEPT ![c] = IF BeingWritten(nconsumers[pos[c]])
                                    THEN "load" ELSE "cas"]
    /\ UNCHANGED <<shmVars, prodVars, pos, value, last, histVars>>

(* The comparison of the compare-exchange. *)
StoreAnyway(c) == TRUE   \* mutant: a plain store
CountUnchanged(c) == nconsumers[pos[c]] = seen[c]

(* consumer_alloc: the compare-exchange.  The block is the caller's when it  *)
(* succeeds, and everything starts again when it fails; old goes out of       *)
(* scope.                                                                   *)
CasCount(c) ==
    /\ cpc[c] = "cas"
    /\ \/ /\ CountUnchanged(c)
          /\ nconsumers' = [nconsumers EXCEPT ![pos[c]] = seen[c] + 1]
          /\ cpc' = [cpc EXCEPT ![c] = "read"]
       \/ /\ ~CountUnchanged(c)
          /\ cpc' = [cpc EXCEPT ![c] = "load"]
          /\ UNCHANGED nconsumers
    /\ seen' = [seen EXCEPT ![c] = 0]
    /\ UNCHANGED <<buf_size, size, write_pos, read_pos, buf, prodVars, pos,
                   value, last, histVars>>

(* consume: the first read of the block. *)
ConsumeRead(c) ==
    /\ Goto(c, "read", "compare")
    /\ value' = [value EXCEPT ![c] = buf[pos[c]]]
    /\ UNCHANGED <<shmVars, prodVars, pos, seen, last, histVars>>

(* The value after which consume() ends. *)
IsLast(v) == v = Count - 1

(* consume: buf[0], the low byte of the int, is read again and compared with *)
(* the one read last; the loop ends, without consumer_alloc_end, when the    *)
(* byte is the same and the value was the last one.  Then value goes out of   *)
(* scope.                                                                   *)
ConsumeCompare(c) ==
    LET byte == buf[pos[c]] % 256
    IN  /\ cpc[c] = "compare"
        /\ \/ /\ last[c] # byte
              /\ last' = [last EXCEPT ![c] = byte]
              /\ cpc' = [cpc EXCEPT ![c] = "end"]
           \/ /\ last[c] = byte
              /\ cpc' = [cpc EXCEPT ![c] = IF IsLast(value[c]) THEN "done"
                                                               ELSE "end"]
              /\ UNCHANGED last
        /\ value' = [value EXCEPT ![c] = 0]
        /\ UNCHANGED <<shmVars, prodVars, pos, seen, histVars>>

(* consumer_alloc_end: the index is computed with a division by buf_size;   *)
(* a count that drops below zero ends the process.                          *)
AllocEnd(c) ==
    /\ cpc[c] = "end"
    /\ \/ /\ buf_size = 0
          /\ cpc' = [cpc EXCEPT ![c] = "trap"]
          /\ UNCHANGED nconsumers
       \/ /\ buf_size # 0
          /\ nconsumers' = [nconsumers EXCEPT ![pos[c]] = @ - 1]
          /\ cpc' = [cpc EXCEPT ![c] =
                        IF nconsumers[pos[c]] - 1 < 0 THEN "error" ELSE "load"]
    /\ UNCHANGED <<buf_size, size, write_pos, read_pos, buf, prodVars, pos,
                   seen, value, last, histVars>>

Running(c) ==
    \/ LoadPos(c) \/ LoadCount(c) \/ CasCount(c)
    \/ ConsumeRead(c) \/ ConsumeCompare(c) \/ AllocEnd(c)
-----------------------------------------------------------------------------
(* main of spmc_test.c forks: nothing orders the consumers' start and the    *)
(* producer's spmc_init, so that a consumer may be anywhere in the ring that  *)
(* is being reset.                                                          *)
Consumer(c) == Attach(c) \/ Running(c)

Next == Producer \/ \E c \in Consumers : Consumer(c)

Spec == Init /\ [][Next]_vars

FairSpec == /\ Spec
            /\ WF_vars(Producer)
            /\ \A c \in Consumers : WF_vars(Consumer(c))

-----------------------------------------------------------------------------
(* Properties. *)

TypeOK ==
    /\ buf_size \in {0, 1}
    /\ size \in 0 .. Capacity
    /\ write_pos \in Entry
    /\ read_pos \in Entry
    /\ nconsumers \in [Entry -> Int]
    /\ buf \in [Entry -> Value]
    /\ ppc \in {"init", "counts", "alloc", "write", "unlock", "publish", "done"}
    /\ next \in 0 .. Count
    /\ (ppc # "done" => next < Count)
    /\ slot \in Entry
    /\ cpc \in [Consumers -> {"start", "load", "count", "cas", "read", "compare",
                              "end", "done", "error", "trap"}]
    /\ pos \in [Consumers -> Entry]
    /\ seen \in [Consumers -> Int]
    /\ value \in [Consumers -> Value]
    /\ last \in [Consumers -> 0 .. 255]
    /\ written \in SUBSET Entry
    /\ floor \in [Consumers -> -1 .. Count - 1]
    /\ forgot \in [Entry -> SUBSET Consumers]

Initialised == ppc \notin {"init", "counts"}

(* producer_alloc and consumer_alloc never hand out the same block to the    *)
(* producer and to a consumer at the same time, unless spmc_init has reset    *)
(* its count under a reader (the parent and the child of spmc_test.c:120      *)
(* start together); and then to no more consumers than it has forgotten.     *)
Exclusion ==
    \A i \in Entry : Owns(i) => Cardinality(Holders(i)) <= Cardinality(forgot[i])

(* nconsumers[i] against what the comment on the field says (spmc10.c:25),    *)
(* -1 while the producer writes block i and otherwise the number of consumers *)
(* reading it: it is never too high, and too low by no more than the readers  *)
(* that the reset of this very block (spmc10.c:71) has forgotten, whoever     *)
(* came and left since.  So it is exact where the reset found nobody, and a   *)
(* consumer gets into the "unexpected" branch of consumer_alloc_end           *)
(* (spmc10.c:183) only at a block where it did not.                          *)
CountsAreClose ==
    /\ Initialised =>
          \A i \in Entry :
             LET exact == Cardinality(Holders(i)) - (IF Owns(i) THEN 1 ELSE 0)
             IN  nconsumers[i] \in exact - Cardinality(forgot[i]) .. exact
    /\ \A c \in Consumers : cpc[c] = "error" => forgot[pos[c]] # {}

(* Between consumer_alloc and consumer_alloc_end nobody changes the block,   *)
(* whatever the producer does to the ring meanwhile, unless the block's count *)
(* was reset under a reader: both reads of consume() see the same message.   *)
StableWhileHeld ==
    [][\A c \in Consumers :
          Holds(c, pos[c]) /\ forgot[pos[c]] = {} => buf'[pos[c]] = buf[pos[c]]]_vars

(* consumer_alloc never returns something older than what was published when *)
(* it loaded read_pos, although the block may have been rewritten, or        *)
(* released and not yet published, before its compare-exchange.             *)
NoOlderThanPublished ==
    \A c \in Consumers :
        Holds(c, pos[c]) /\ floor[c] >= 0 =>
            pos[c] \in written /\ buf[pos[c]] >= floor[c]

(* The ring implements a pool of reader/writer locked blocks, in which a      *)
(* block that was reset while it was read has lost its lock.                *)
Pool == INSTANCE LockedBlocks
            WITH Block <- Entry, Reader <- Consumers,
                 writing <- {i \in Entry : Owns(i)},
                 reading <- [c \in Consumers |-> {i \in Entry : Holds(c, i)}],
                 content <- buf, lost <- {i \in Entry : forgot[i] # {}}

PoolSpec == Pool!Spec

(* Both sides end: the search of producer_alloc does, so that the producer   *)
(* writes all its values whatever the consumers hold and whomever its reset   *)
(* has forgotten; and where it has forgotten nobody, consume() ends in every   *)
(* consumer, at the last value of a run, except in one that has come to a     *)
(* segment without geometry and divides by a buf_size of zero.              *)
EverybodyFinishes ==
    /\ <>(ppc = "done")
    /\ \A c \in Consumers :
          <>(cpc[c] \in {"done", "trap"} \/ \E i \in Entry : forgot[i] # {})
=============================================================================
