------------------------------ MODULE ShmPubSub ------------------------------
(***************************************************************************)
(* One topic of 20230108-pubsub-shm-udp-3/message.hpp: a publisher process   *)
(* writes messages into a shared-memory segment and sends every subscriber   *)
(* it knows the datagram 'r'; a subscriber answers each 'r' by reading the   *)
(* newest block.  Processes start, stop and crash; a new publisher creates   *)
(* the segment again.  How the publisher gets to know its subscribers is     *)
(* ServiceDiscovery's subject and one action here.                          *)
(***************************************************************************)
EXTENDS ShmBlock, FiniteSets

CONSTANTS Subscribers,
          MaxMessages,   \* bound: messages published
          MaxInbox,      \* bound: datagrams waiting at one subscriber
          MaxStops,      \* bound: how often processes stop
          MaxCrashes,    \* bound: how often processes crash
          Lossy          \* datagrams may be lost

ASSUME SegmentAssumption == IsFiniteSet(Segment) /\ Segment = 1 .. Cardinality(Segment)
ASSUME SubscribersAssumption == IsFiniteSet(Subscribers)
ASSUME BoundsAssumption == {MaxMessages, MaxInbox, MaxStops, MaxCrashes} \subseteq Nat

NoSegment == 0

VARIABLES
    name,     \* the segment that shm_open finds under the topic's name
    created,  \* the segments created so far are 1 .. created
    pub,      \* the publisher: pc, its mapping, its block
    last,     \* number of the newest message
    newest,   \* newest[k]: the newest message published in segment k
    subs,     \* subs_ of the publisher: the live subscribers among them
    inbox,    \* inbox[s]: datagrams on their way to s
    sub,      \* sub[s]: pc, mapping, block, expected lock word
    told,     \* told[s]: the newest message whose 'r' reached s
    seen,     \* seen[s]: the message s has read last
    floor,    \* floor[s]: newest[k] when s loaded read_pos_
    stops, crashes

procVars == <<name, created, pub, last, newest, subs, inbox, sub, told, seen,
              floor, stops, crashes>>
vars == <<shmVars, procVars>>

DownPublisher == [pc |-> "down", map |-> NoSegment, i |-> 0]
DownSubscriber == [pc |-> "down", map |-> NoSegment, i |-> 0, n |-> 0]

Init ==
    /\ ZeroSegments
    /\ name = NoSegment /\ created = 0
    /\ pub = DownPublisher
    /\ last = 0 /\ newest = [k \in Segment |-> 0]
    /\ subs = {}
    /\ inbox = [s \in Subscribers |-> 0]
    /\ sub = [s \in Subscribers |-> DownSubscriber]
    /\ told = [s \in Subscribers |-> Unwritten]
    /\ seen = [s \in Subscribers |-> Unwritten]
    /\ floor = [s \in Subscribers |-> 0]
    /\ stops = 0 /\ crashes = 0
-----------------------------------------------------------------------------
(* The publisher.  Create opens the segment of that name or makes one...     *)
PubCreate ==
    /\ pub.pc = "down"
    /\ \/ /\ name # NoSegment
          /\ pub' = [DownPublisher EXCEPT !.pc = "construct", !.map = name]
          /\ UNCHANGED <<name, created>>
       \/ /\ name = NoSegment /\ created < Cardinality(Segment)
          /\ created' = created + 1 /\ name' = created + 1
          /\ pub' = [DownPublisher EXCEPT !.pc = "construct", !.map = created + 1]
    /\ subs' = {}
    /\ UNCHANGED <<shmVars, last, newest, inbox, sub, told, seen, floor, stops,
                   crashes>>

(* ... and constructs State in it, whether or not there is one already.      *)
PubConstruct ==
    /\ pub.pc = "construct"
    /\ ConstructState(pub.map)
    /\ pub' = [pub EXCEPT !.pc = "idle"]
    /\ newest' = [newest EXCEPT ![pub.map] = 0]
    /\ UNCHANGED <<name, created, last, subs, inbox, sub, told, seen, floor,
                   stops, crashes>>

(* discover_callback: subs_.push_back. *)
Discover(s) ==
    /\ pub.pc # "down" /\ sub[s].pc # "down" /\ s \notin subs
    /\ subs' = subs \cup {s}
    /\ UNCHANGED <<shmVars, name, created, pub, last, newest, inbox, sub, told,
                   seen, floor, stops, crashes>>

PubStep(pc, i) == pub' = [pub EXCEPT !.pc = pc, !.i = i]

(* Acquire. *)
Acquire ==
    /\ pub.pc = "idle" /\ last < MaxMessages
    /\ PubStep("lock", 0)
    /\ UNCHANGED <<shmVars, name, created, last, newest, subs, inbox, sub, told,
                   seen, floor, stops, crashes>>

LockForWrite ==
    /\ pub.pc = "lock"
    /\ \/ TakeForWrite(pub.map, pub.i) /\ PubStep("write", pub.i)
       \/ /\ ~FreeForWrite(pub.map, pub.i)
          /\ PubStep("lock", (pub.i + 1) % BlockNum)
          /\ UNCHANGED shmVars
    /\ UNCHANGED <<name, created, last, newest, subs, inbox, sub, told, seen,
                   floor, stops, crashes>>

Write ==
    /\ pub.pc = "write"
    /\ WriteBlock(pub.map, pub.i, last + 1)
    /\ last' = last + 1
    /\ PubStep("unlock", pub.i)
    /\ UNCHANGED <<name, created, newest, subs, inbox, sub, told, seen, floor,
                   stops, crashes>>

ReleaseLockOnly ==   \* mutant: read_pos_ is not stored
    /\ pub.pc = "unlock"
    /\ StoreFree(pub.map, pub.i)
    /\ PubStep("notify", pub.i)
    /\ UNCHANGED <<name, created, last, newest, subs, inbox, sub, told, seen,
                   floor, stops, crashes>>

(* Publish: ReleaseWrittenBlock... *)
ReleaseLock ==
    /\ pub.pc = "unlock"
    /\ StoreFree(pub.map, pub.i)
    /\ PubStep("publish", pub.i)
    /\ UNCHANGED <<name, created, last, newest, subs, inbox, sub, told, seen,
                   floor, stops, crashes>>

ReleasePos ==
    /\ pub.pc = "publish"
    /\ StoreReadPos(pub.map, pub.i)
    /\ newest' = [newest EXCEPT ![pub.map] = last]
    /\ PubStep("notify", pub.i)
    /\ UNCHANGED <<name, created, last, subs, inbox, sub, told, seen, floor,
                   stops, crashes>>

(* ... and the loop over subs_.  A datagram is lost where it finds no room.  *)
Delivered == {d \in [Subscribers -> 0 .. 1] :
                 \A s \in Subscribers :
                    /\ s \notin subs \/ inbox[s] = MaxInbox => d[s] = 0
                    /\ s \in subs /\ inbox[s] < MaxInbox /\ ~Lossy => d[s] = 1}

Notify ==
    /\ pub.pc = "notify"
    /\ \E d \in Delivered :
          /\ inbox' = [s \in Subscribers |-> inbox[s] + d[s]]
          /\ told' = [s \in Subscribers |-> IF d[s] = 1 THEN last ELSE told[s]]
    /\ PubStep("idle", 0)
    /\ UNCHANGED <<shmVars, name, created, last, newest, subs, sub, seen, floor,
                   stops, crashes>>

(* ~ShmBlock of the publisher removes the name, a crash does not.            *)
PubStop ==
    /\ pub.pc = "idle" /\ stops < MaxStops
    /\ stops' = stops + 1
    /\ name' = NoSegment
    /\ pub' = DownPublisher
    /\ UNCHANGED <<shmVars, created, last, newest, subs, inbox, sub, told, seen,
                   floor, crashes>>

PubCrash ==
    /\ pub.pc # "down" /\ crashes < MaxCrashes
    /\ crashes' = crashes + 1
    /\ pub' = DownPublisher
    /\ UNCHANGED <<shmVars, name, created, last, newest, subs, inbox, sub, told,
                   seen, floor, stops>>
-----------------------------------------------------------------------------
(* A subscriber.  Its constructor tries to open the segment. *)
SubStart(s) ==
    /\ sub[s].pc = "down"
    /\ sub' = [sub EXCEPT ![s] = [DownSubscriber EXCEPT !.pc = "loop", !.map = name]]
    /\ UNCHANGED <<shmVars, name, created, pub, last, newest, subs, inbox, told,
                   seen, floor, stops, crashes>>

(* message_read_cb on 'r': AcquireBlockToRead opens the segment if there is   *)
(* no mapping, and the datagram is dropped when that fails.                 *)
Receive(s) ==
    /\ sub[s].pc = "loop" /\ inbox[s] > 0
    /\ inbox' = [inbox EXCEPT ![s] = @ - 1]
    /\ LET map == IF sub[s].map # NoSegment THEN sub[s].map ELSE name
       IN  sub' = [sub EXCEPT ![s].map = map,
                              ![s].pc = IF map = NoSegment THEN "loop" ELSE "pos"]
    /\ UNCHANGED <<shmVars, name, created, pub, last, newest, subs, told, seen,
                   floor, stops, crashes>>

(* LockForRead; AcquireBlockToRead asserts that it returns a block.          *)
LoadReadPos(s) ==
    /\ sub[s].pc = "pos"
    /\ LET i == read_pos[sub[s].map]
       IN  sub' = [sub EXCEPT ![s].i = i, ![s].pc = IF i < 0 THEN "assert" ELSE "word"]
    /\ floor' = [floor EXCEPT ![s] = newest[sub[s].map]]
    /\ UNCHANGED <<shmVars, name, created, pub, last, newest, subs, inbox, told,
                   seen, stops, crashes>>

LoadLock(s) ==
    /\ sub[s].pc = "word"
    /\ LET n == locks[sub[s].map][sub[s].i]
       IN  sub' = [sub EXCEPT ![s].n = n,
                              ![s].pc = IF SeesWriter(sub[s].i, n) THEN "pos" ELSE "cas"]
    /\ UNCHANGED <<shmVars, name, created, pub, last, newest, subs, inbox, told,
                   seen, floor, stops, crashes>>

CasLock(s) ==
    /\ sub[s].pc = "cas"
    /\ \/ /\ AddReader(sub[s].map, sub[s].i, sub[s].n)
          /\ sub' = [sub EXCEPT ![s].pc = "read"]
       \/ /\ locks[sub[s].map][sub[s].i] # sub[s].n
          /\ sub' = [sub EXCEPT ![s].pc = "pos"]
          /\ UNCHANGED shmVars
    /\ UNCHANGED <<name, created, pub, last, newest, subs, inbox, told, seen,
                   floor, stops, crashes>>

(* callback_. *)
Read(s) ==
    /\ sub[s].pc = "read"
    /\ seen' = [seen EXCEPT ![s] = data[sub[s].map][sub[s].i]]
    /\ sub' = [sub EXCEPT ![s].pc = "release"]
    /\ UNCHANGED <<shmVars, name, created, pub, last, newest, subs, inbox, told,
                   floor, stops, crashes>>

Release(s) ==
    /\ sub[s].pc = "release"
    /\ DropReader(sub[s].map, sub[s].i)
    /\ sub' = [sub EXCEPT ![s] = [DownSubscriber EXCEPT !.pc = "loop", !.map = sub[s].map]]
    /\ floor' = [floor EXCEPT ![s] = 0]
    /\ UNCHANGED <<name, created, pub, last, newest, subs, inbox, told, seen,
                   stops, crashes>>

(* A subscriber that leaves closes its socket; its address stays in subs_ but *)
(* nobody listens there.  ~ShmBlock removes the name if there is a mapping.  *)
Gone(s) ==
    /\ sub' = [sub EXCEPT ![s] = DownSubscriber]
    /\ inbox' = [inbox EXCEPT ![s] = 0]
    /\ floor' = [floor EXCEPT ![s] = 0]
    /\ told' = [told EXCEPT ![s] = Unwritten]
    /\ seen' = [seen EXCEPT ![s] = Unwritten]
    /\ subs' = subs \ {s}

SubStop(s) ==
    /\ sub[s].pc = "loop" /\ stops < MaxStops
    /\ stops' = stops + 1
    /\ name' = IF sub[s].map # NoSegment THEN NoSegment ELSE name
    /\ Gone(s)
    /\ UNCHANGED <<shmVars, created, pub, last, newest, crashes>>

SubCrash(s) ==
    /\ sub[s].pc # "down" /\ crashes < MaxCrashes
    /\ crashes' = crashes + 1
    /\ Gone(s)
    /\ UNCHANGED <<shmVars, name, created, pub, last, newest, stops>>

Publishing == \/ PubConstruct \/ Acquire \/ LockForWrite \/ Write
              \/ ReleaseLock \/ ReleasePos \/ Notify
Reading(s) == \/ Receive(s) \/ LoadReadPos(s) \/ LoadLock(s) \/ CasLock(s)
              \/ Read(s) \/ Release(s)

Next ==
    \/ PubCreate \/ Publishing \/ PubStop \/ PubCrash
    \/ \E s \in Subscribers :
          Discover(s) \/ SubStart(s) \/ Reading(s) \/ SubStop(s) \/ SubCrash(s)

Spec == Init /\ [][Next]_vars
-----------------------------------------------------------------------------
(* Properties. *)

TypeOK ==
    /\ locks \in [Segment -> [Block -> -1 - Cardinality(Subscribers) ..
                                       Cardinality(Subscribers) + MaxCrashes]]
    /\ read_pos \in [Segment -> Block \cup {-1}]
    /\ data \in [Segment -> [Block -> 0 .. MaxMessages]]
    /\ name \in Segment \cup {NoSegment} /\ created \in 0 .. Cardinality(Segment)
    /\ pub \in [pc : {"down", "construct", "idle", "lock", "write", "unlock",
                      "publish", "notify"},
                map : Segment \cup {NoSegment}, i : Block]
    /\ last \in 0 .. MaxMessages /\ newest \in [Segment -> 0 .. MaxMessages]
    /\ subs \subseteq Subscribers
    /\ inbox \in [Subscribers -> 0 .. MaxInbox]
    /\ sub \in [Subscribers -> [pc : {"down", "loop", "pos", "assert", "word", "cas",
                                      "read", "release"},
                                map : Segment \cup {NoSegment}, i : Block \cup {-1},
                                n : Int]]
    /\ told \in [Subscribers -> 0 .. MaxMessages]
    /\ seen \in [Subscribers -> 0 .. MaxMessages]
    /\ floor \in [Subscribers -> 0 .. MaxMessages]

(* What a subscriber reads is never older than what was published when it     *)
(* looked, whatever starts, stops and crashes in between.                   *)
NoOlderThanPublished ==
    \A s \in Subscribers : sub[s].pc = "release" => seen[s] >= floor[s]

(* "Being written": a subscriber never reads a block while the publisher      *)
(* writes it.                                                               *)
Exclusion ==
    \A s \in Subscribers :
        ~(sub[s].pc = "read" /\ pub.pc = "write" /\ sub[s].map = pub.map /\ sub[s].i = pub.i)

(* While no process stops or crashes, assert(i >= 0) (shm.hpp:127) holds and  *)
(* a subscriber that has answered its datagrams has seen the message of the   *)
(* last one it was sent, or a later one.  Once a publisher was replaced, an   *)
(* 'r' of the old one may find a segment with nothing in it.                  *)
AnsweredIsSeen ==
    stops = 0 /\ crashes = 0 =>
        \A s \in Subscribers :
            /\ sub[s].pc # "assert"
            /\ sub[s].pc = "loop" /\ inbox[s] = 0 => seen[s] >= told[s]
=============================================================================
