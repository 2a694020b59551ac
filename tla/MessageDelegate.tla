--------------------------- MODULE MessageDelegate ---------------------------
(***************************************************************************)
(* One topic of 20221206-pubsub/message.hpp.  Publishers and subscribers of  *)
(* a topic find each other through a delegate that a static map keeps under  *)
(* the topic's name; each subscriber owns a worker thread and one buffer,    *)
(* which the newest message overwrites.  What is done under one mutex is one *)
(* action, except where it overlaps what another thread does without it: the *)
(* constructor of a subscriber inserts into subscribers_ under a mutex of    *)
(* its own, and sets stop_ under none.  The code notifies after the unlock   *)
(* in both Stop functions.                                                   *)
(***************************************************************************)
EXTENDS Naturals, FiniteSets

CONSTANTS Publishers, Subscribers,
          MaxDelegates,  \* bound: delegates made for the topic
          MaxMessages    \* bound: messages published

ASSUME BoundsAssumption == MaxDelegates \in Nat \ {0} /\ MaxMessages \in Nat \ {0}
ASSUME NamesAssumption == Publishers \cap Subscribers = {}

None == 0
Delegate == 1 .. MaxDelegates
nullptr == 0
Message == 1 .. MaxMessages

VARIABLES
    topics,       \* the delegate in the map, or None
    made,         \* delegates 1 .. made have been made
    subscribers,  \* subscribers[d]: subscribers_ of delegate d
    tree,         \* tree[d]: "sound"; "raced" by an insert while Stop goes through
                  \* it; "torn" by an erase and an insert that overlapped
    sent,         \* the number of the newest message
    ppc,          \* ppc[p]: where the thread that owns publisher p is
    stops,        \* stops[p]: calls of Stop by p, its destructor's included
    ref,          \* ref[x]: delegate_ of a publisher, publisher_ of a subscriber
    opc,          \* opc[s]: where the thread that owns subscriber s is
    wpc,          \* wpc[s]: where its worker is
    stop_, buffer_,  \* fields of the subscribers
    buf,          \* buf[s]: the message the worker has taken
    got           \* got[s]: the last message callback_ was given

mapVars == <<topics, made>>
pubVars == <<ppc, stops, sent>>
subVars == <<opc, wpc, stop_, buffer_, buf, got>>
vars == <<mapVars, subscribers, tree, pubVars, ref, subVars>>

Init ==
    /\ topics = None /\ made = 0
    /\ subscribers = [d \in Delegate |-> {}]
    /\ tree = [d \in Delegate |-> "sound"]
    /\ sent = 0
    /\ ppc = [p \in Publishers |-> "new"] /\ stops = [p \in Publishers |-> 0]
    /\ ref = [x \in Publishers \cup Subscribers |-> None]
    /\ opc = [s \in Subscribers |-> "new"] /\ wpc = [s \in Subscribers |-> "none"]
    /\ stop_ = [s \in Subscribers |-> FALSE]   \* not initialised; set before it is read
    /\ buffer_ = [s \in Subscribers |-> nullptr] /\ buf = [s \in Subscribers |-> nullptr]
    /\ got = [s \in Subscribers |-> nullptr]
-----------------------------------------------------------------------------
(* The topics mutex is held for ever by a thread that locks it twice. *)
TopicsMutexFree == /\ \A p \in Publishers : ppc[p] # "stuck"
                   /\ \A s \in Subscribers : opc[s] # "stuck"

GetOrNew(x) ==
    /\ TopicsMutexFree
    /\ \/ /\ topics # None
          /\ ref' = [ref EXCEPT ![x] = topics]
          /\ UNCHANGED mapVars
       \/ /\ topics = None /\ made < MaxDelegates
          /\ made' = made + 1 /\ topics' = made + 1
          /\ ref' = [ref EXCEPT ![x] = made + 1]

(* The objects that share delegate d, besides the map. *)
Holders(d) == {x \in Publishers \cup Subscribers : ref[x] = d}

(* erase(topic_) with the mutex held.  When the map's reference was the last  *)
(* one, the destructor runs right there, calls Stop and waits for the mutex.  *)
EraseDeadlocks == topics # None /\ Holders(topics) = {}

(* notify_all on the condition variable of delegate d. *)
NotifyNone(d) == wpc   \* mutant: no notification
NotifyAll(d) == [s \in Subscribers |-> IF wpc[s] = "wait" /\ ref[s] = d THEN "woken"
                                                                        ELSE wpc[s]]

(* The last shared_ptr to ref[x] goes: ~MessagePublisherDelegate calls Stop,  *)
(* which again erases whatever the map holds under the topic's name.         *)
Drop(x) ==
    /\ ref' = [ref EXCEPT ![x] = None]
    /\ IF Holders(ref[x]) = {x} /\ topics # ref[x]
       THEN TopicsMutexFree /\ topics' = None
       ELSE UNCHANGED topics

DropDeadlocks(x) == Holders(ref[x]) = {x} /\ topics # ref[x] /\ EraseDeadlocks

(* mutex_ of delegate d, but for a Stop that is going through subscribers_.  *)
MutexFree(d) == \A p \in Publishers : ~(ppc[p] = "marking" /\ ref[p] = d)

(* Who is in the middle of an insert into subscribers_ of delegate d, which    *)
(* mutex_ does not keep out.                                                 *)
Inserting(d) == {s \in Subscribers : opc[s] = "inserting" /\ ref[s] = d}

(* The subscribers a loop over subscribers_ of delegate d visits: all of them  *)
(* when nobody has changed the tree meanwhile.  Otherwise it may miss any (a    *)
(* node that is being rotated hides those below it) and meet one that is        *)
(* being inserted; subscribers[d] is all that a torn tree can lead to.  A       *)
(* thread that crashes on such a node takes no more steps.                     *)
Walks(d) == IF tree[d] = "sound" /\ Inserting(d) = {}
            THEN {subscribers[d]}
            ELSE SUBSET (subscribers[d] \cup Inserting(d))
-----------------------------------------------------------------------------
(* A publisher: its constructor; Publish, which is one step whatever overlaps  *)
(* it, because nobody looks at buffer_ without mutex_; and Stop in four,       *)
(* called directly at most once, and by the destructor.                       *)
PubConstruct(p) ==
    /\ ppc[p] = "new"
    /\ GetOrNew(p)
    /\ ppc' = [ppc EXCEPT ![p] = "up"]
    /\ UNCHANGED <<subscribers, tree, stops, sent, subVars>>

PublishQuietly(p) ==   \* mutant: Publish does not notify
    /\ ppc[p] = "up" /\ MutexFree(ref[p]) /\ sent < MaxMessages
    /\ sent' = sent + 1
    /\ \E S \in Walks(ref[p]) :
          buffer_' = [s \in Subscribers |-> IF s \in S THEN sent + 1 ELSE buffer_[s]]
    /\ UNCHANGED <<mapVars, subscribers, tree, ppc, stops, ref, opc, wpc, stop_, buf,
                   got>>

Publish(p) ==
    /\ ppc[p] = "up" /\ MutexFree(ref[p]) /\ sent < MaxMessages
    /\ sent' = sent + 1
    /\ \E S \in Walks(ref[p]) :
          buffer_' = [s \in Subscribers |-> IF s \in S THEN sent + 1 ELSE buffer_[s]]
    /\ wpc' = NotifyAll(ref[p])
    /\ UNCHANGED <<mapVars, subscribers, tree, ppc, stops, ref, opc, stop_, buf, got>>

StopErase(p) ==
    /\ ppc[p] = "up" /\ TopicsMutexFree
    /\ topics' = None
    /\ stops' = [stops EXCEPT ![p] = @ + 1]
    /\ ppc' = [ppc EXCEPT ![p] = IF EraseDeadlocks THEN "stuck" ELSE "mark"]
    /\ UNCHANGED <<made, subscribers, tree, sent, ref, subVars>>

(* Stop locks mutex_ and begins its loop... *)
StopLock(p) ==
    /\ ppc[p] = "mark" /\ MutexFree(ref[p])
    /\ tree' = [tree EXCEPT ![ref[p]] = IF @ = "sound" /\ Inserting(ref[p]) # {}
                                        THEN "raced" ELSE @]
    /\ ppc' = [ppc EXCEPT ![p] = "marking"]
    /\ UNCHANGED <<mapVars, subscribers, stops, sent, ref, subVars>>

(* ... and has ended it, with the constructors that ran meanwhile before or     *)
(* after their stop_ = false.                                                *)
StopMark(p) ==
    /\ ppc[p] = "marking"
    /\ \E S \in Walks(ref[p]) : stop_' = [s \in Subscribers |-> stop_[s] \/ s \in S]
    /\ tree' = [tree EXCEPT ![ref[p]] = IF @ = "raced" THEN "sound" ELSE @]
    /\ ppc' = [ppc EXCEPT ![p] = "notify"]
    /\ UNCHANGED <<mapVars, subscribers, stops, sent, ref, opc, wpc, buffer_,
                   buf, got>>

StopNotify(p) ==
    /\ ppc[p] = "notify"
    /\ wpc' = NotifyAll(ref[p])
    /\ \/ stops[p] < 2 /\ ppc' = [ppc EXCEPT ![p] = "up"]
       \/ ppc' = [ppc EXCEPT ![p] = "drop"]
    /\ UNCHANGED <<mapVars, subscribers, tree, stops, sent, ref, opc, stop_, buffer_,
                   buf, got>>

PubDestruct(p) ==
    /\ ppc[p] = "drop"
    /\ Drop(p)
    /\ ppc' = [ppc EXCEPT ![p] = IF DropDeadlocks(p) THEN "stuck" ELSE "gone"]
    /\ UNCHANGED <<made, subscribers, tree, stops, sent, subVars>>
-----------------------------------------------------------------------------
(* A subscriber's owner: the constructor, whose insert has a beginning and an   *)
(* end (subscribers_mutex_ keeps other inserts out, and nothing else)...       *)
SubConstruct(s) ==
    /\ opc[s] = "new"
    /\ GetOrNew(s)
    /\ opc' = [opc EXCEPT ![s] = "insert"]
    /\ UNCHANGED <<subscribers, tree, pubVars, wpc, stop_, buffer_, buf, got>>

SubInsertBegin(s) ==
    /\ opc[s] = "insert" /\ Inserting(ref[s]) = {}
    /\ tree' = [tree EXCEPT ![ref[s]] = IF @ = "sound" /\ ~MutexFree(ref[s])
                                        THEN "raced" ELSE @]
    /\ opc' = [opc EXCEPT ![s] = "inserting"]
    /\ UNCHANGED <<mapVars, subscribers, pubVars, ref, wpc, stop_, buffer_, buf, got>>

SubInsertEnd(s) ==
    /\ opc[s] = "inserting"
    /\ subscribers' = [subscribers EXCEPT ![ref[s]] = @ \cup {s}]
    /\ opc' = [opc EXCEPT ![s] = "fields"]
    /\ UNCHANGED <<mapVars, tree, pubVars, ref, wpc, stop_, buffer_, buf, got>>

SubStartWorker(s) ==
    /\ opc[s] = "fields"
    /\ stop_' = [stop_ EXCEPT ![s] = FALSE]
    /\ wpc' = [wpc EXCEPT ![s] = "run"]
    /\ opc' = [opc EXCEPT ![s] = "up"]
    /\ UNCHANGED <<mapVars, subscribers, tree, pubVars, ref, buffer_, buf, got>>

SubStopStays(s) ==   \* mutant: Stop does not erase the subscriber
    /\ opc[s] = "up" /\ MutexFree(ref[s])
    /\ stop_' = [stop_ EXCEPT ![s] = TRUE]
    /\ opc' = [opc EXCEPT ![s] = "notify"]
    /\ UNCHANGED <<mapVars, subscribers, tree, pubVars, ref, wpc, buffer_, buf, got>>

(* ... Stop, called by the destructor if stop_ is not set, or directly.  Its    *)
(* erase tears the tree when it overlaps an insert, and what it takes out of a   *)
(* torn tree may still be reached...                                         *)
SubStop(s) ==
    /\ opc[s] = "up" /\ MutexFree(ref[s])
    /\ stop_' = [stop_ EXCEPT ![s] = TRUE]
    /\ tree' = [tree EXCEPT ![ref[s]] = IF Inserting(ref[s]) # {} THEN "torn" ELSE @]
    /\ subscribers' = [subscribers EXCEPT ![ref[s]] = IF tree'[ref[s]] = "torn"
                                                      THEN @ ELSE @ \ {s}]
    /\ opc' = [opc EXCEPT ![s] = "notify"]
    /\ UNCHANGED <<mapVars, pubVars, ref, wpc, buffer_, buf, got>>

SubNotify(s) ==
    /\ opc[s] = "notify"
    /\ wpc' = NotifyAll(ref[s])
    /\ opc' = [opc EXCEPT ![s] = "join"]
    /\ UNCHANGED <<mapVars, subscribers, tree, pubVars, ref, stop_, buffer_, buf, got>>

(* ... and a destructor that finds stop_ set by the publisher: it skips Stop,  *)
(* and with it the erase.                                                    *)
SubSkipStop(s) ==
    /\ opc[s] = "up" /\ stop_[s]
    /\ opc' = [opc EXCEPT ![s] = "join"]
    /\ UNCHANGED <<mapVars, subscribers, tree, pubVars, ref, wpc, stop_, buffer_, buf,
                   got>>

SubDestruct(s) ==
    /\ opc[s] = "join" /\ wpc[s] = "ended"
    /\ Drop(s)
    /\ opc' = [opc EXCEPT ![s] = IF DropDeadlocks(s) THEN "stuck" ELSE "gone"]
    /\ UNCHANGED <<made, subscribers, tree, pubVars, wpc, stop_, buffer_, buf, got>>
-----------------------------------------------------------------------------
(* The worker.  It waits without a predicate: what woke it is found out by     *)
(* taking the buffer, and stop_ is looked at in the next round only.           *)
TakeCopy(s) ==   \* mutant: buf = buffer_ instead of buf.swap(buffer_)
    /\ buf' = [buf EXCEPT ![s] = buffer_[s]]
    /\ wpc' = [wpc EXCEPT ![s] = IF buffer_[s] # nullptr THEN "call" ELSE "run"]
    /\ UNCHANGED buffer_

Take(s) ==
    /\ buf' = [buf EXCEPT ![s] = buffer_[s]]
    /\ buffer_' = [buffer_ EXCEPT ![s] = nullptr]
    /\ wpc' = [wpc EXCEPT ![s] = IF buffer_[s] # nullptr THEN "call" ELSE "run"]

WorkerEnd(s) ==
    /\ wpc[s] = "run" /\ MutexFree(ref[s]) /\ stop_[s]
    /\ wpc' = [wpc EXCEPT ![s] = "ended"]
    /\ UNCHANGED <<mapVars, subscribers, tree, pubVars, ref, opc, stop_, buffer_, buf,
                   got>>

WorkerWait(s) ==
    /\ wpc[s] = "run" /\ MutexFree(ref[s]) /\ ~stop_[s] /\ buffer_[s] = nullptr
    /\ wpc' = [wpc EXCEPT ![s] = "wait"]
    /\ UNCHANGED <<mapVars, subscribers, tree, pubVars, ref, opc, stop_, buffer_, buf,
                   got>>

WorkerTake(s) ==
    /\ MutexFree(ref[s])
    /\ \/ wpc[s] = "run" /\ ~stop_[s] /\ buffer_[s] # nullptr
       \/ wpc[s] = "woken"
    /\ Take(s)
    /\ UNCHANGED <<mapVars, subscribers, tree, pubVars, ref, opc, stop_, got>>

WorkerCall(s) ==
    /\ wpc[s] = "call"
    /\ got' = [got EXCEPT ![s] = buf[s]]
    /\ buf' = [buf EXCEPT ![s] = nullptr]
    /\ wpc' = [wpc EXCEPT ![s] = "run"]
    /\ UNCHANGED <<mapVars, subscribers, tree, pubVars, ref, opc, stop_, buffer_>>

SpuriousWake(s) ==
    /\ wpc[s] = "wait"
    /\ wpc' = [wpc EXCEPT ![s] = "woken"]
    /\ UNCHANGED <<mapVars, subscribers, tree, pubVars, ref, opc, stop_, buffer_, buf,
                   got>>

Publisher(p) == \/ PubConstruct(p) \/ Publish(p) \/ StopErase(p)
                \/ StopLock(p) \/ StopMark(p) \/ StopNotify(p) \/ PubDestruct(p)
Owner(s) == \/ SubConstruct(s) \/ SubInsertBegin(s) \/ SubInsertEnd(s)
            \/ SubStartWorker(s) \/ SubStop(s) \/ SubNotify(s) \/ SubSkipStop(s) \/ SubDestruct(s)
Worker(s) == WorkerEnd(s) \/ WorkerWait(s) \/ WorkerTake(s) \/ WorkerCall(s)

Next ==
    \/ \E p \in Publishers : Publisher(p)
    \/ \E s \in Subscribers : Owner(s) \/ Worker(s) \/ SpuriousWake(s)

Spec == Init /\ [][Next]_vars

(* Workers run, and a Stop that has begun goes on; nobody has to publish, to   *)
(* stop or to destroy anything.                                              *)
FairSpec == /\ Spec
            /\ \A s \in Subscribers : WF_vars(Worker(s)) /\ WF_vars(SubNotify(s))
            /\ \A p \in Publishers : WF_vars(StopLock(p) \/ StopMark(p) \/ StopNotify(p))
-----------------------------------------------------------------------------
(* Properties. *)

(* No worker sleeps on work although it waits without a predicate and both     *)
(* Stop functions notify after they have released the mutex: a worker asleep    *)
(* with a message in its buffer does not exist, and one asleep with stop_ set    *)
(* is about to be notified by a Stop of its own delegate.                      *)
NobodySleepsOnWork ==
    \A s \in Subscribers : wpc[s] = "wait" =>
        /\ buffer_[s] = nullptr
        /\ stop_[s] => \/ opc[s] = "notify"
                       \/ \E p \in Publishers : ppc[p] = "notify" /\ ref[p] = ref[s]

(* A worker whose subscriber was told to stop ends, so that WaitStop and the    *)
(* destructor return.                                                         *)
StopEndsWorker ==
    \A s \in Subscribers : wpc[s] # "none" /\ stop_[s] ~> wpc[s] = "ended"

(* A message in a subscriber's buffer reaches its callback, or a newer one      *)
(* does, unless the subscriber is told to stop.                               *)
MessagesArrive ==
    \A s \in Subscribers : \A m \in Message :
        wpc[s] # "none" /\ buffer_[s] = m ~> (got[s] >= m \/ stop_[s])

(* Some publisher has called Stop. *)
Stopped == \E p \in Publishers : stops[p] > 0

(* An erase and an insert have overlapped in some delegate. *)
Torn == \E d \in Delegate : tree[d] = "torn"

(* The pointers in subscribers_ are good until a publisher of the topic is     *)
(* stopped: a subscriber may be constructed, stopped and destroyed at any       *)
(* moment of another thread's Publish, with its insert in the middle of the     *)
(* loop.  Afterwards they are not: a subscriber that finds stop_ set             *)
(* (message.hpp:111) goes without leaving subscribers_, and the publisher's      *)
(* second Stop, in its destructor, writes to it.  Nor are they where one         *)
(* subscriber's erase has overlapped another's insert, which two different       *)
(* mutexes guard (message.hpp:96 and 200).                                      *)
PointersAreLive ==
    \A d \in Delegate : \A s \in subscribers[d] :
        opc[s] = "gone" => stop_[s] /\ (Stopped \/ tree[d] = "torn")

Phase(s) == IF wpc[s] = "none" THEN "shut"
            ELSE IF ~stop_[s] THEN "open"
            ELSE IF wpc[s] \in {"wait", "woken", "call"} THEN "closing" ELSE "closed"

Phases == [s \in Subscribers |-> Phase(s)]
Joining == {s \in Subscribers : opc[s] = "inserting"}
Members == UNION {subscribers[d] : d \in Delegate}

Box == INSTANCE Mailboxes WITH
           Reader <- Subscribers, members <- Members,
           joining <- Joining, split <- Stopped \/ Torn, newest <- sent,
           slot <- buffer_, hand <- buf, seen <- got, phase <- Phases

(* The topic is a set of one-message mailboxes, although its delegate may be    *)
(* replaced under it and a worker that wakes does not look at stop_: every       *)
(* message reaches all subscribers until a publisher is stopped, a callback      *)
(* never sees a message twice or an older one later, and after a Stop it is      *)
(* called once more at most.  The two mutexes of subscribers_ cost this much     *)
(* and no more: a message published while a subscriber is being inserted may     *)
(* miss any of the others, that one message only; and a subscriber that leaves    *)
(* while another is inserted splits the topic for good.                         *)
MailboxSpec == Box!Spec
=============================================================================
