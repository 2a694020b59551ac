------------------------ MODULE MessageDelegateProofs ------------------------
(***************************************************************************)
(* NobodySleepsOnWork and PointersAreLive of MessageDelegate, and that it   *)
(* implements Mailboxes, for any number of publishers, subscribers,         *)
(* delegates and messages.                                                  *)
(*                                                                         *)
(* Neither invariant is inductive.  That a notification of a delegate       *)
(* reaches every worker the delegate has written to needs Membership:       *)
(* subscribers_ of a delegate holds a subscriber only while publisher_ of   *)
(* that subscriber is the delegate, or after it is destroyed.  That a       *)
(* destroyed one is there only after a publisher's Stop, or in a tree torn   *)
(* by an erase and an insert, needs LeftBehind: where a subscriber may skip  *)
(* its own Stop, some publisher has called Stop before.  The refinement      *)
(* needs OneDelegate and Settled, so that a message reaches all members when *)
(* no insert overlaps its Publish, and Ordered, so that a callback sees      *)
(* newer messages only.                                                      *)
(***************************************************************************)
EXTENDS MessageDelegate, TLAPS

Types ==
    /\ topics \in 0 .. MaxDelegates /\ made \in 0 .. MaxDelegates /\ sent \in Nat
    /\ subscribers \in [Delegate -> SUBSET Subscribers]
    /\ tree \in [Delegate -> {"sound", "raced", "torn"}]
    /\ ppc \in [Publishers -> {"new", "up", "mark", "marking", "notify", "drop", "gone",
                               "stuck"}]
    /\ stops \in [Publishers -> Nat]
    /\ ref \in [Publishers \cup Subscribers -> 0 .. MaxDelegates]
    /\ opc \in [Subscribers -> {"new", "insert", "inserting", "fields", "up", "notify",
                                "join", "gone", "stuck"}]
    /\ wpc \in [Subscribers -> {"none", "run", "wait", "woken", "call", "ended"}]
    /\ stop_ \in [Subscribers -> BOOLEAN]
    /\ buffer_ \in [Subscribers -> Nat] /\ buf \in [Subscribers -> Nat]
    /\ got \in [Subscribers -> Nat]

(* Everybody has a delegate from the constructor to the destructor.          *)
HasDelegate ==
    /\ \A p \in Publishers :
            ppc[p] \in {"up", "mark", "marking", "notify", "drop"} => ref[p] \in Delegate
    /\ \A s \in Subscribers :
            opc[s] \in {"insert", "inserting", "fields", "up", "notify", "join"} =>
                ref[s] \in Delegate

(* The worker lives inside its owner: it is started by the constructor and   *)
(* joined before the object goes.                                            *)
WorkerInOwner ==
    \A s \in Subscribers :
        /\ opc[s] \in {"new", "insert", "inserting", "fields"} => wpc[s] = "none"
        /\ opc[s] \in {"gone", "stuck"} => wpc[s] = "ended"

(* Who is in subscribers_ of which delegate.                                 *)
Membership ==
    \A d \in Delegate : \A s \in subscribers[d] :
        /\ opc[s] \notin {"new", "insert", "inserting"}
        /\ opc[s] \in {"fields", "up", "notify", "join"} => ref[s] = d

(* Who may go without leaving subscribers_.                                  *)
LeftBehind ==
    /\ \A p \in Publishers : ppc[p] \in {"mark", "marking", "notify", "drop"} => stops[p] > 0
    /\ \A s \in Subscribers : opc[s] = "up" /\ stop_[s] => Stopped
    /\ \A d \in Delegate : \A s \in subscribers[d] :
            opc[s] \in {"notify", "join", "gone", "stuck"} =>
                stop_[s] /\ (Stopped \/ tree[d] = "torn")

(* Until a publisher is stopped everybody shares the delegate in the map.    *)
OneDelegate ==
    /\ topics <= made
    /\ \A x \in Publishers \cup Subscribers : ref[x] <= made
    /\ \A d \in Delegate : subscribers[d] # {} => d <= made
    /\ ~Stopped => made <= 1 /\ topics = made

(* A message on its way to the callback is newer than what the callback has   *)
(* seen, and the worker has one in its hand exactly while it is to call.      *)
Ordered ==
    \A s \in Subscribers :
        /\ got[s] <= sent /\ buf[s] <= sent /\ buffer_[s] <= sent
        /\ buf[s] # nullptr <=> wpc[s] = "call"
        /\ buf[s] # nullptr => got[s] < buf[s]
        /\ buffer_[s] # nullptr => got[s] < buffer_[s] /\ buf[s] < buffer_[s]

(* A raced tree is one that a Stop is going through.                         *)
Settled == \A d \in Delegate : tree[d] = "raced" => ~MutexFree(d)

IInv == Types /\ HasDelegate /\ WorkerInOwner /\ Membership /\ LeftBehind /\ NobodySleepsOnWork
        /\ OneDelegate /\ Ordered /\ Settled
-----------------------------------------------------------------------------
(* The fields keep their types. *)
LEMMA TypesStep == Types /\ [Next]_vars => Types'
<1> SUFFICES ASSUME Types, [Next]_vars PROVE Types'
  OBVIOUS
<1> USE DEF Types, None, nullptr
<1>1. ASSUME NEW q \in Publishers, PubConstruct(q) PROVE Types'
  BY <1>1, BoundsAssumption DEF PubConstruct, GetOrNew, mapVars, pubVars, subVars
<1>2. ASSUME NEW q \in Publishers, Publish(q) PROVE Types'
  BY <1>2 DEF Publish, NotifyAll, mapVars, pubVars, subVars
<1>3. ASSUME NEW q \in Publishers, StopErase(q) PROVE Types'
  BY <1>3, BoundsAssumption DEF StopErase, mapVars, pubVars, subVars
<1>4. ASSUME NEW q \in Publishers, StopMark(q) PROVE Types'
  BY <1>4 DEF StopMark, mapVars, pubVars, subVars
<1>5. ASSUME NEW q \in Publishers, StopNotify(q) PROVE Types'
  BY <1>5 DEF StopNotify, NotifyAll, mapVars, pubVars, subVars
<1>6. ASSUME NEW q \in Publishers, PubDestruct(q) PROVE Types'
  BY <1>6, BoundsAssumption DEF PubDestruct, Drop, mapVars, pubVars, subVars
<1>7. ASSUME NEW r \in Subscribers, SubConstruct(r) PROVE Types'
  BY <1>7, BoundsAssumption DEF SubConstruct, GetOrNew, mapVars, pubVars, subVars
<1>8. ASSUME NEW r \in Subscribers, SubInsertEnd(r) PROVE Types'
  BY <1>8 DEF SubInsertEnd, mapVars, pubVars, subVars
<1>9. ASSUME NEW r \in Subscribers, SubStartWorker(r) PROVE Types'
  BY <1>9 DEF SubStartWorker, mapVars, pubVars, subVars
<1>10. ASSUME NEW r \in Subscribers, SubStop(r) PROVE Types'
  BY <1>10 DEF SubStop, mapVars, pubVars, subVars
<1>11. ASSUME NEW r \in Subscribers, SubNotify(r) PROVE Types'
  BY <1>11 DEF SubNotify, NotifyAll, mapVars, pubVars, subVars
<1>12. ASSUME NEW r \in Subscribers, SubSkipStop(r) PROVE Types'
  BY <1>12 DEF SubSkipStop, mapVars, pubVars, subVars
<1>13. ASSUME NEW r \in Subscribers, SubDestruct(r) PROVE Types'
  BY <1>13, BoundsAssumption DEF SubDestruct, Drop, mapVars, pubVars, subVars
<1>14. ASSUME NEW r \in Subscribers, WorkerEnd(r) PROVE Types'
  BY <1>14 DEF WorkerEnd, mapVars, pubVars, subVars
<1>15. ASSUME NEW r \in Subscribers, WorkerWait(r) PROVE Types'
  BY <1>15 DEF WorkerWait, mapVars, pubVars, subVars
<1>16. ASSUME NEW r \in Subscribers, WorkerTake(r) PROVE Types'
  BY <1>16 DEF WorkerTake, Take, mapVars, pubVars, subVars
<1>17. ASSUME NEW r \in Subscribers, WorkerCall(r) PROVE Types'
  BY <1>17 DEF WorkerCall, mapVars, pubVars, subVars
<1>18. ASSUME NEW r \in Subscribers, SpuriousWake(r) PROVE Types'
  BY <1>18 DEF SpuriousWake, mapVars, pubVars, subVars
<1>19. CASE UNCHANGED vars
  BY <1>19 DEF vars, mapVars, pubVars, subVars
<1>20. ASSUME NEW r \in Subscribers, SubInsertBegin(r) PROVE Types'
  BY <1>20 DEF SubInsertBegin, mapVars, pubVars, subVars
<1>21. ASSUME NEW q \in Publishers, StopLock(q) PROVE Types'
  BY <1>21 DEF StopLock, mapVars, pubVars, subVars
<1> QED
  BY <1>1, <1>2, <1>3, <1>4, <1>5, <1>6, <1>7, <1>8, <1>9,
     <1>10, <1>11, <1>12, <1>13, <1>14, <1>15, <1>16, <1>17, <1>18, <1>19,
     <1>20, <1>21
  DEF Next, Publisher, Owner, Worker

(* GetOrNew gives its caller the delegate in the map, which it makes if need be. *)
LEMMA GetOrNewGives ==
    ASSUME Types, NEW x \in Publishers \cup Subscribers, GetOrNew(x)
    PROVE  /\ ref'[x] \in Delegate /\ topics' = ref'[x]
           /\ \A y \in Publishers \cup Subscribers : y # x => ref'[y] = ref[y]
           /\ \/ made' = made /\ topics' = topics
              \/ topics = None /\ made' = made + 1 /\ topics' = made + 1
  BY BoundsAssumption DEF Types, GetOrNew, Delegate, None, mapVars

(* Drop gives up one reference, and erases only another delegate's entry. *)
LEMMA DropGives ==
    ASSUME Types, NEW x \in Publishers \cup Subscribers, Drop(x)
    PROVE  /\ ref'[x] = None
           /\ \A y \in Publishers \cup Subscribers : y # x => ref'[y] = ref[y]
           /\ \/ topics' = topics
              \/ topics' = None /\ topics # ref[x]
<1>1. CASE Holders(ref[x]) = {x} /\ topics # ref[x]
  BY <1>1 DEF Types, Drop
<1>2. CASE ~(Holders(ref[x]) = {x} /\ topics # ref[x])
  BY <1>2 DEF Types, Drop
<1> QED
  BY <1>1, <1>2

(* Everybody keeps the delegate until the own destructor. *)
LEMMA HasDelegateStep == Types /\ HasDelegate /\ [Next]_vars => HasDelegate'
<1> SUFFICES ASSUME Types, HasDelegate, [Next]_vars PROVE HasDelegate'
  OBVIOUS
<1> USE DEF Types, HasDelegate, Delegate, None
<1>1. ASSUME NEW q \in Publishers, PubConstruct(q) PROVE HasDelegate'
  BY <1>1, GetOrNewGives, NamesAssumption DEF PubConstruct, subVars
<1>2. ASSUME NEW q \in Publishers, Publish(q) PROVE HasDelegate'
  BY <1>2 DEF Publish, NotifyAll, mapVars, pubVars, subVars
<1>3. ASSUME NEW q \in Publishers, StopErase(q) PROVE HasDelegate'
  BY <1>3 DEF StopErase, mapVars, pubVars, subVars
<1>4. ASSUME NEW q \in Publishers, StopMark(q) PROVE HasDelegate'
  BY <1>4 DEF StopMark, mapVars, pubVars, subVars
<1>5. ASSUME NEW q \in Publishers, StopNotify(q) PROVE HasDelegate'
  BY <1>5 DEF StopNotify, NotifyAll, mapVars, pubVars, subVars
<1>6. ASSUME NEW q \in Publishers, PubDestruct(q) PROVE HasDelegate'
  BY <1>6, BoundsAssumption, NamesAssumption DEF PubDestruct, Drop, mapVars, pubVars, subVars
<1>7. ASSUME NEW r \in Subscribers, SubConstruct(r) PROVE HasDelegate'
  BY <1>7, GetOrNewGives, NamesAssumption DEF SubConstruct, pubVars
<1>8. ASSUME NEW r \in Subscribers, SubInsertEnd(r) PROVE HasDelegate'
  BY <1>8 DEF SubInsertEnd, mapVars, pubVars, subVars
<1>9. ASSUME NEW r \in Subscribers, SubStartWorker(r) PROVE HasDelegate'
  BY <1>9 DEF SubStartWorker, mapVars, pubVars, subVars
<1>10. ASSUME NEW r \in Subscribers, SubStop(r) PROVE HasDelegate'
  BY <1>10 DEF SubStop, mapVars, pubVars, subVars
<1>11. ASSUME NEW r \in Subscribers, SubNotify(r) PROVE HasDelegate'
  BY <1>11 DEF SubNotify, NotifyAll, mapVars, pubVars, subVars
<1>12. ASSUME NEW r \in Subscribers, SubSkipStop(r) PROVE HasDelegate'
  BY <1>12 DEF SubSkipStop, mapVars, pubVars, subVars
<1>13. ASSUME NEW r \in Subscribers, SubDestruct(r) PROVE HasDelegate'
  BY <1>13, BoundsAssumption, NamesAssumption DEF SubDestruct, Drop, mapVars, pubVars, subVars
<1>14. ASSUME NEW r \in Subscribers, WorkerEnd(r) PROVE HasDelegate'
  BY <1>14 DEF WorkerEnd, mapVars, pubVars, subVars
<1>15. ASSUME NEW r \in Subscribers, WorkerWait(r) PROVE HasDelegate'
  BY <1>15 DEF WorkerWait, mapVars, pubVars, subVars
<1>16. ASSUME NEW r \in Subscribers, WorkerTake(r) PROVE HasDelegate'
  BY <1>16 DEF WorkerTake, Take, mapVars, pubVars, subVars
<1>17. ASSUME NEW r \in Subscribers, WorkerCall(r) PROVE HasDelegate'
  BY <1>17 DEF WorkerCall, mapVars, pubVars, subVars
<1>18. ASSUME NEW r \in Subscribers, SpuriousWake(r) PROVE HasDelegate'
  BY <1>18 DEF SpuriousWake, mapVars, pubVars, subVars
<1>19. CASE UNCHANGED vars
  BY <1>19 DEF vars, mapVars, pubVars, subVars
<1>20. ASSUME NEW r \in Subscribers, SubInsertBegin(r) PROVE HasDelegate'
  BY <1>20 DEF SubInsertBegin, mapVars, pubVars, subVars
<1>21. ASSUME NEW q \in Publishers, StopLock(q) PROVE HasDelegate'
  BY <1>21 DEF StopLock, mapVars, pubVars, subVars
<1> QED
  BY <1>1, <1>2, <1>3, <1>4, <1>5, <1>6, <1>7, <1>8, <1>9,
     <1>10, <1>11, <1>12, <1>13, <1>14, <1>15, <1>16, <1>17, <1>18, <1>19,
     <1>20, <1>21
  DEF Next, Publisher, Owner, Worker

(* The owner's steps and the worker's stay in phase. *)
LEMMA WorkerInOwnerStep == Types /\ WorkerInOwner /\ [Next]_vars => WorkerInOwner'
<1> SUFFICES ASSUME Types, WorkerInOwner, [Next]_vars PROVE WorkerInOwner'
  OBVIOUS
<1> USE DEF Types, WorkerInOwner
<1>1. ASSUME NEW q \in Publishers, PubConstruct(q) PROVE WorkerInOwner'
  BY <1>1 DEF PubConstruct, GetOrNew, mapVars, pubVars, subVars
<1>2. ASSUME NEW q \in Publishers, Publish(q) PROVE WorkerInOwner'
  BY <1>2 DEF Publish, NotifyAll, mapVars, pubVars, subVars
<1>3. ASSUME NEW q \in Publishers, StopErase(q) PROVE WorkerInOwner'
  BY <1>3 DEF StopErase, mapVars, pubVars, subVars
<1>4. ASSUME NEW q \in Publishers, StopMark(q) PROVE WorkerInOwner'
  BY <1>4 DEF StopMark, mapVars, pubVars, subVars
<1>5. ASSUME NEW q \in Publishers, StopNotify(q) PROVE WorkerInOwner'
  BY <1>5 DEF StopNotify, NotifyAll, mapVars, pubVars, subVars
<1>6. ASSUME NEW q \in Publishers, PubDestruct(q) PROVE WorkerInOwner'
  BY <1>6 DEF PubDestruct, Drop, mapVars, pubVars, subVars
<1>7. ASSUME NEW r \in Subscribers, SubConstruct(r) PROVE WorkerInOwner'
  BY <1>7 DEF SubConstruct, GetOrNew, mapVars, pubVars, subVars
<1>8. ASSUME NEW r \in Subscribers, SubInsertEnd(r) PROVE WorkerInOwner'
  BY <1>8 DEF SubInsertEnd, mapVars, pubVars, subVars
<1>9. ASSUME NEW r \in Subscribers, SubStartWorker(r) PROVE WorkerInOwner'
  BY <1>9 DEF SubStartWorker, mapVars, pubVars, subVars
<1>10. ASSUME NEW r \in Subscribers, SubStop(r) PROVE WorkerInOwner'
  BY <1>10 DEF SubStop, mapVars, pubVars, subVars
<1>11. ASSUME NEW r \in Subscribers, SubNotify(r) PROVE WorkerInOwner'
  BY <1>11 DEF SubNotify, NotifyAll, mapVars, pubVars, subVars
<1>12. ASSUME NEW r \in Subscribers, SubSkipStop(r) PROVE WorkerInOwner'
  BY <1>12 DEF SubSkipStop, mapVars, pubVars, subVars
<1>13. ASSUME NEW r \in Subscribers, SubDestruct(r) PROVE WorkerInOwner'
  BY <1>13 DEF SubDestruct, Drop, mapVars, pubVars, subVars
<1>14. ASSUME NEW r \in Subscribers, WorkerEnd(r) PROVE WorkerInOwner'
  BY <1>14 DEF WorkerEnd, mapVars, pubVars, subVars
<1>15. ASSUME NEW r \in Subscribers, WorkerWait(r) PROVE WorkerInOwner'
  BY <1>15 DEF WorkerWait, mapVars, pubVars, subVars
<1>16. ASSUME NEW r \in Subscribers, WorkerTake(r) PROVE WorkerInOwner'
  BY <1>16 DEF WorkerTake, Take, mapVars, pubVars, subVars
<1>17. ASSUME NEW r \in Subscribers, WorkerCall(r) PROVE WorkerInOwner'
  BY <1>17 DEF WorkerCall, mapVars, pubVars, subVars
<1>18. ASSUME NEW r \in Subscribers, SpuriousWake(r) PROVE WorkerInOwner'
  BY <1>18 DEF SpuriousWake, mapVars, pubVars, subVars
<1>19. CASE UNCHANGED vars
  BY <1>19 DEF vars, mapVars, pubVars, subVars
<1>20. ASSUME NEW r \in Subscribers, SubInsertBegin(r) PROVE WorkerInOwner'
  BY <1>20 DEF SubInsertBegin, mapVars, pubVars, subVars
<1>21. ASSUME NEW q \in Publishers, StopLock(q) PROVE WorkerInOwner'
  BY <1>21 DEF StopLock, mapVars, pubVars, subVars
<1> QED
  BY <1>1, <1>2, <1>3, <1>4, <1>5, <1>6, <1>7, <1>8, <1>9,
     <1>10, <1>11, <1>12, <1>13, <1>14, <1>15, <1>16, <1>17, <1>18, <1>19,
     <1>20, <1>21
  DEF Next, Publisher, Owner, Worker

(* Only SubInsertEnd and SubStop change subscribers_, both at the owner's own delegate. *)
LEMMA MembershipStep == Types /\ Membership /\ [Next]_vars => Membership'
<1> SUFFICES ASSUME Types, Membership, [Next]_vars PROVE Membership'
  OBVIOUS
<1> USE DEF Types, Membership
<1>1. ASSUME NEW q \in Publishers, PubConstruct(q) PROVE Membership'
  BY <1>1, NamesAssumption DEF PubConstruct, GetOrNew, mapVars, pubVars, subVars
<1>2. ASSUME NEW q \in Publishers, Publish(q) PROVE Membership'
  BY <1>2 DEF Publish, NotifyAll, mapVars, pubVars, subVars
<1>3. ASSUME NEW q \in Publishers, StopErase(q) PROVE Membership'
  BY <1>3 DEF StopErase, mapVars, pubVars, subVars
<1>4. ASSUME NEW q \in Publishers, StopMark(q) PROVE Membership'
  BY <1>4 DEF StopMark, mapVars, pubVars, subVars
<1>5. ASSUME NEW q \in Publishers, StopNotify(q) PROVE Membership'
  BY <1>5 DEF StopNotify, NotifyAll, mapVars, pubVars, subVars
<1>6. ASSUME NEW q \in Publishers, PubDestruct(q) PROVE Membership'
  BY <1>6, NamesAssumption DEF PubDestruct, Drop, mapVars, pubVars, subVars
<1>7. ASSUME NEW r \in Subscribers, SubConstruct(r) PROVE Membership'
  BY <1>7 DEF SubConstruct, GetOrNew, mapVars, pubVars, subVars
<1>8. ASSUME NEW r \in Subscribers, SubInsertEnd(r) PROVE Membership'
  BY <1>8 DEF SubInsertEnd, mapVars, pubVars, subVars
<1>9. ASSUME NEW r \in Subscribers, SubStartWorker(r) PROVE Membership'
  BY <1>9 DEF SubStartWorker, mapVars, pubVars, subVars
<1>10. ASSUME NEW r \in Subscribers, SubStop(r) PROVE Membership'
  BY <1>10 DEF SubStop, mapVars, pubVars, subVars
<1>11. ASSUME NEW r \in Subscribers, SubNotify(r) PROVE Membership'
  BY <1>11 DEF SubNotify, NotifyAll, mapVars, pubVars, subVars
<1>12. ASSUME NEW r \in Subscribers, SubSkipStop(r) PROVE Membership'
  BY <1>12 DEF SubSkipStop, mapVars, pubVars, subVars
<1>13. ASSUME NEW r \in Subscribers, SubDestruct(r) PROVE Membership'
  BY <1>13 DEF SubDestruct, Drop, mapVars, pubVars, subVars
<1>14. ASSUME NEW r \in Subscribers, WorkerEnd(r) PROVE Membership'
  BY <1>14 DEF WorkerEnd, mapVars, pubVars, subVars
<1>15. ASSUME NEW r \in Subscribers, WorkerWait(r) PROVE Membership'
  BY <1>15 DEF WorkerWait, mapVars, pubVars, subVars
<1>16. ASSUME NEW r \in Subscribers, WorkerTake(r) PROVE Membership'
  BY <1>16 DEF WorkerTake, Take, mapVars, pubVars, subVars
<1>17. ASSUME NEW r \in Subscribers, WorkerCall(r) PROVE Membership'
  BY <1>17 DEF WorkerCall, mapVars, pubVars, subVars
<1>18. ASSUME NEW r \in Subscribers, SpuriousWake(r) PROVE Membership'
  BY <1>18 DEF SpuriousWake, mapVars, pubVars, subVars
<1>19. CASE UNCHANGED vars
  BY <1>19 DEF vars, mapVars, pubVars, subVars
<1>20. ASSUME NEW r \in Subscribers, SubInsertBegin(r) PROVE Membership'
  BY <1>20 DEF SubInsertBegin, mapVars, pubVars, subVars
<1>21. ASSUME NEW q \in Publishers, StopLock(q) PROVE Membership'
  BY <1>21 DEF StopLock, mapVars, pubVars, subVars
<1> QED
  BY <1>1, <1>2, <1>3, <1>4, <1>5, <1>6, <1>7, <1>8, <1>9,
     <1>10, <1>11, <1>12, <1>13, <1>14, <1>15, <1>16, <1>17, <1>18, <1>19,
     <1>20, <1>21
  DEF Next, Publisher, Owner, Worker

(* Only a publisher's Stop sets stop_ of a subscriber that is up. *)
LEMMA LeftBehindStep == Types /\ Membership /\ LeftBehind /\ [Next]_vars => LeftBehind'
<1> SUFFICES ASSUME Types, Membership, LeftBehind, [Next]_vars PROVE LeftBehind'
  OBVIOUS
<1> USE DEF Types, Membership, LeftBehind, Stopped
<1>1. ASSUME NEW q \in Publishers, PubConstruct(q) PROVE LeftBehind'
  BY <1>1 DEF PubConstruct, GetOrNew, mapVars, pubVars, subVars
<1>2. ASSUME NEW q \in Publishers, Publish(q) PROVE LeftBehind'
  BY <1>2 DEF Publish, NotifyAll, mapVars, pubVars, subVars
<1>3. ASSUME NEW q \in Publishers, StopErase(q) PROVE LeftBehind'
  BY <1>3 DEF StopErase, mapVars, pubVars, subVars
<1>4. ASSUME NEW q \in Publishers, StopMark(q) PROVE LeftBehind'
  BY <1>4 DEF StopMark, mapVars, pubVars, subVars
<1>5. ASSUME NEW q \in Publishers, StopNotify(q) PROVE LeftBehind'
  BY <1>5 DEF StopNotify, NotifyAll, mapVars, pubVars, subVars
<1>6. ASSUME NEW q \in Publishers, PubDestruct(q) PROVE LeftBehind'
  BY <1>6 DEF PubDestruct, Drop, mapVars, pubVars, subVars
<1>7. ASSUME NEW r \in Subscribers, SubConstruct(r) PROVE LeftBehind'
  BY <1>7 DEF SubConstruct, GetOrNew, mapVars, pubVars, subVars
<1>8. ASSUME NEW r \in Subscribers, SubInsertEnd(r) PROVE LeftBehind'
  BY <1>8 DEF SubInsertEnd, mapVars, pubVars, subVars
<1>9. ASSUME NEW r \in Subscribers, SubStartWorker(r) PROVE LeftBehind'
  BY <1>9 DEF SubStartWorker, mapVars, pubVars, subVars
<1>10. ASSUME NEW r \in Subscribers, SubStop(r) PROVE LeftBehind'
  BY <1>10 DEF SubStop, mapVars, pubVars, subVars
<1>11. ASSUME NEW r \in Subscribers, SubNotify(r) PROVE LeftBehind'
  BY <1>11 DEF SubNotify, NotifyAll, mapVars, pubVars, subVars
<1>12. ASSUME NEW r \in Subscribers, SubSkipStop(r) PROVE LeftBehind'
  BY <1>12 DEF SubSkipStop, mapVars, pubVars, subVars
<1>13. ASSUME NEW r \in Subscribers, SubDestruct(r) PROVE LeftBehind'
  BY <1>13 DEF SubDestruct, Drop, mapVars, pubVars, subVars
<1>14. ASSUME NEW r \in Subscribers, WorkerEnd(r) PROVE LeftBehind'
  BY <1>14 DEF WorkerEnd, mapVars, pubVars, subVars
<1>15. ASSUME NEW r \in Subscribers, WorkerWait(r) PROVE LeftBehind'
  BY <1>15 DEF WorkerWait, mapVars, pubVars, subVars
<1>16. ASSUME NEW r \in Subscribers, WorkerTake(r) PROVE LeftBehind'
  BY <1>16 DEF WorkerTake, Take, mapVars, pubVars, subVars
<1>17. ASSUME NEW r \in Subscribers, WorkerCall(r) PROVE LeftBehind'
  BY <1>17 DEF WorkerCall, mapVars, pubVars, subVars
<1>18. ASSUME NEW r \in Subscribers, SpuriousWake(r) PROVE LeftBehind'
  BY <1>18 DEF SpuriousWake, mapVars, pubVars, subVars
<1>19. CASE UNCHANGED vars
  BY <1>19 DEF vars, mapVars, pubVars, subVars
<1>20. ASSUME NEW r \in Subscribers, SubInsertBegin(r) PROVE LeftBehind'
  BY <1>20 DEF SubInsertBegin, mapVars, pubVars, subVars
<1>21. ASSUME NEW q \in Publishers, StopLock(q) PROVE LeftBehind'
  BY <1>21 DEF StopLock, mapVars, pubVars, subVars
<1> QED
  BY <1>1, <1>2, <1>3, <1>4, <1>5, <1>6, <1>7, <1>8, <1>9,
     <1>10, <1>11, <1>12, <1>13, <1>14, <1>15, <1>16, <1>17, <1>18, <1>19,
     <1>20, <1>21
  DEF Next, Publisher, Owner, Worker

(* A loop over subscribers_ visits nobody but members and those who join. *)
LEMMA WalksGive ==
    ASSUME Types, NEW d \in Delegate, NEW S \in Walks(d)
    PROVE  /\ S \in SUBSET Subscribers
           /\ S \subseteq subscribers[d] \cup Inserting(d)
           /\ S = subscribers[d] \/ Inserting(d) # {} \/ tree[d] # "sound"
<1>1. CASE tree[d] = "sound" /\ Inserting(d) = {}
  BY <1>1 DEF Walks, Types, Inserting
<1>2. CASE ~(tree[d] = "sound" /\ Inserting(d) = {})
  BY <1>2 DEF Walks, Types, Inserting
<1> QED
  BY <1>1, <1>2

(* A worker is written to and notified in one step, or by a Stop that will notify. *)
LEMMA SleepStep ==
    Types /\ HasDelegate /\ WorkerInOwner /\ Membership /\ NobodySleepsOnWork
        /\ [Next]_vars => NobodySleepsOnWork'
<1> SUFFICES ASSUME Types, HasDelegate, WorkerInOwner, Membership, NobodySleepsOnWork,
                    [Next]_vars
             PROVE  NobodySleepsOnWork'
  OBVIOUS
<1> USE DEF Types, WorkerInOwner, Membership, NobodySleepsOnWork, nullptr
<1>1. ASSUME NEW q \in Publishers, PubConstruct(q) PROVE NobodySleepsOnWork'
  <2>1. \A s \in Subscribers : ref'[s] = ref[s]
    BY <1>1, NamesAssumption DEF PubConstruct, GetOrNew, mapVars, pubVars, subVars
  <2>2. \A p \in Publishers : ppc[p] = "notify" => ppc'[p] = "notify" /\ ref'[p] = ref[p]
    BY <1>1 DEF PubConstruct, GetOrNew, mapVars, pubVars, subVars
  <2> QED
    BY <1>1, <2>1, <2>2 DEF PubConstruct, GetOrNew, mapVars, pubVars, subVars
<1>2. ASSUME NEW q \in Publishers, Publish(q) PROVE NobodySleepsOnWork'
  <2> SUFFICES ASSUME NEW s \in Subscribers, wpc'[s] = "wait"
               PROVE  buffer_'[s] = buffer_[s] /\ wpc[s] = "wait"
    BY <1>2 DEF Publish, NotifyAll, mapVars, pubVars, subVars
  <2>1. wpc[s] = "wait" /\ ref[s] # ref[q]
    BY <1>2 DEF Publish, NotifyAll, mapVars, pubVars, subVars
  <2>2. opc[s] \in {"up", "notify", "join"}
    BY <2>1
  <2>3. ref[q] \in Delegate
    BY <1>2 DEF Publish, HasDelegate
  <2>4. PICK S \in Walks(ref[q]) :
           buffer_' = [t \in Subscribers |-> IF t \in S THEN sent + 1 ELSE buffer_[t]]
    BY <1>2 DEF Publish
  <2>5. S \subseteq subscribers[ref[q]] \cup Inserting(ref[q])
    BY <2>3, WalksGive
  <2>6. s \notin S
    BY <2>1, <2>2, <2>3, <2>5 DEF Inserting
  <2> QED
    BY <2>1, <2>4, <2>6
<1>3. ASSUME NEW q \in Publishers, StopErase(q) PROVE NobodySleepsOnWork'
  BY <1>3 DEF StopErase, mapVars, pubVars, subVars
<1>4. ASSUME NEW q \in Publishers, StopMark(q) PROVE NobodySleepsOnWork'
  <2> SUFFICES ASSUME NEW s \in Subscribers, wpc[s] = "wait", stop_'[s]
               PROVE  \/ opc[s] = "notify"
                      \/ \E p \in Publishers : ppc'[p] = "notify" /\ ref[p] = ref[s]
    BY <1>4 DEF StopMark, mapVars, pubVars, subVars
  <2>1. opc[s] \in {"up", "notify", "join"}
    OBVIOUS
  <2>2. CASE stop_[s]
    BY <1>4, <2>2 DEF StopMark, mapVars, pubVars, subVars
  <2>3. CASE ~stop_[s]
    <3>1. ref[q] \in Delegate
      BY <1>4 DEF StopMark, HasDelegate
    <3>2. PICK S \in Walks(ref[q]) : stop_' = [t \in Subscribers |-> stop_[t] \/ t \in S]
      BY <1>4 DEF StopMark
    <3>3. s \in subscribers[ref[q]] \cup Inserting(ref[q])
      BY <2>3, <3>1, <3>2, WalksGive
    <3>4. ref[s] = ref[q]
      BY <2>1, <3>1, <3>3 DEF Inserting
    <3> QED
      BY <1>4, <3>4 DEF StopMark
  <2> QED
    BY <2>2, <2>3
<1>5. ASSUME NEW q \in Publishers, StopNotify(q) PROVE NobodySleepsOnWork'
  BY <1>5 DEF StopNotify, NotifyAll, mapVars, pubVars, subVars
<1>6. ASSUME NEW q \in Publishers, PubDestruct(q) PROVE NobodySleepsOnWork'
  <2>1. \A s \in Subscribers : ref'[s] = ref[s]
    BY <1>6, NamesAssumption DEF PubDestruct, Drop, mapVars, pubVars, subVars
  <2>2. \A p \in Publishers : ppc[p] = "notify" => ppc'[p] = "notify" /\ ref'[p] = ref[p]
    BY <1>6 DEF PubDestruct, Drop, mapVars, pubVars, subVars
  <2> QED
    BY <1>6, <2>1, <2>2 DEF PubDestruct, Drop, mapVars, pubVars, subVars
<1>7. ASSUME NEW r \in Subscribers, SubConstruct(r) PROVE NobodySleepsOnWork'
  <2>1. \A p \in Publishers : ref'[p] = ref[p] /\ ppc'[p] = ppc[p]
    BY <1>7, NamesAssumption DEF SubConstruct, GetOrNew, mapVars, pubVars, subVars
  <2>2. wpc'[r] # "wait"
    BY <1>7 DEF SubConstruct, GetOrNew, mapVars, pubVars, subVars
  <2>3. \A s \in Subscribers \ {r} : ref'[s] = ref[s] /\ opc'[s] = opc[s]
    BY <1>7 DEF SubConstruct, GetOrNew, mapVars, pubVars, subVars
  <2> QED
    BY <1>7, <2>1, <2>2, <2>3 DEF SubConstruct, GetOrNew, mapVars, pubVars, subVars
<1>8. ASSUME NEW r \in Subscribers, SubInsertEnd(r) PROVE NobodySleepsOnWork'
  BY <1>8 DEF SubInsertEnd, mapVars, pubVars, subVars
<1>9. ASSUME NEW r \in Subscribers, SubStartWorker(r) PROVE NobodySleepsOnWork'
  BY <1>9 DEF SubStartWorker, mapVars, pubVars, subVars
<1>10. ASSUME NEW r \in Subscribers, SubStop(r) PROVE NobodySleepsOnWork'
  BY <1>10 DEF SubStop, mapVars, pubVars, subVars
<1>11. ASSUME NEW r \in Subscribers, SubNotify(r) PROVE NobodySleepsOnWork'
  BY <1>11 DEF SubNotify, NotifyAll, mapVars, pubVars, subVars
<1>12. ASSUME NEW r \in Subscribers, SubSkipStop(r) PROVE NobodySleepsOnWork'
  BY <1>12 DEF SubSkipStop, mapVars, pubVars, subVars
<1>13. ASSUME NEW r \in Subscribers, SubDestruct(r) PROVE NobodySleepsOnWork'
  <2>1. \A p \in Publishers : ref'[p] = ref[p] /\ ppc'[p] = ppc[p]
    BY <1>13, NamesAssumption DEF SubDestruct, Drop, mapVars, pubVars, subVars
  <2>2. wpc'[r] # "wait"
    BY <1>13 DEF SubDestruct, Drop, mapVars, pubVars, subVars
  <2>3. \A s \in Subscribers \ {r} : ref'[s] = ref[s] /\ opc'[s] = opc[s]
    BY <1>13 DEF SubDestruct, Drop, mapVars, pubVars, subVars
  <2> QED
    BY <1>13, <2>1, <2>2, <2>3 DEF SubDestruct, Drop, mapVars, pubVars, subVars
<1>14. ASSUME NEW r \in Subscribers, WorkerEnd(r) PROVE NobodySleepsOnWork'
  BY <1>14 DEF WorkerEnd, mapVars, pubVars, subVars
<1>15. ASSUME NEW r \in Subscribers, WorkerWait(r) PROVE NobodySleepsOnWork'
  BY <1>15 DEF WorkerWait, mapVars, pubVars, subVars
<1>16. ASSUME NEW r \in Subscribers, WorkerTake(r) PROVE NobodySleepsOnWork'
  BY <1>16 DEF WorkerTake, Take, mapVars, pubVars, subVars
<1>17. ASSUME NEW r \in Subscribers, WorkerCall(r) PROVE NobodySleepsOnWork'
  BY <1>17 DEF WorkerCall, mapVars, pubVars, subVars
<1>18. ASSUME NEW r \in Subscribers, SpuriousWake(r) PROVE NobodySleepsOnWork'
  BY <1>18 DEF SpuriousWake, mapVars, pubVars, subVars
<1>19. CASE UNCHANGED vars
  BY <1>19 DEF vars, mapVars, pubVars, subVars
<1>20. ASSUME NEW r \in Subscribers, SubInsertBegin(r) PROVE NobodySleepsOnWork'
  BY <1>20 DEF SubInsertBegin, mapVars, pubVars, subVars
<1>21. ASSUME NEW q \in Publishers, StopLock(q) PROVE NobodySleepsOnWork'
  BY <1>21 DEF StopLock, mapVars, pubVars, subVars
<1> QED
  BY <1>1, <1>2, <1>3, <1>4, <1>5, <1>6, <1>7, <1>8, <1>9,
     <1>10, <1>11, <1>12, <1>13, <1>14, <1>15, <1>16, <1>17, <1>18, <1>19,
     <1>20, <1>21
  DEF Next, Publisher, Owner, Worker

(* A step makes no delegate while nobody is stopped, but for the first one. *)
LEMMA OneDelegateStep ==
    Types /\ HasDelegate /\ LeftBehind /\ OneDelegate /\ [Next]_vars => OneDelegate'
<1> SUFFICES ASSUME Types, HasDelegate, LeftBehind, OneDelegate, [Next]_vars PROVE OneDelegate'
  OBVIOUS
<1> USE DEF Types, OneDelegate, None, Stopped, Delegate
<1>1. ASSUME NEW q \in Publishers, PubConstruct(q) PROVE OneDelegate'
  <2>1. UNCHANGED <<subscribers, stops>> /\ GetOrNew(q)
    BY <1>1 DEF PubConstruct
  <2>2. /\ ref'[q] \in Delegate /\ topics' = ref'[q]
        /\ \A y \in Publishers \cup Subscribers : y # q => ref'[y] = ref[y]
        /\ \/ made' = made /\ topics' = topics
           \/ topics = None /\ made' = made + 1 /\ topics' = made + 1
    BY <2>1, GetOrNewGives DEF Types
  <2>3. ASSUME NEW x \in Publishers \cup Subscribers PROVE ref'[x] <= made'
    <3>1. made \in Nat /\ made' \in Nat /\ made <= made' /\ ref[x] \in Nat /\ ref[x] <= made
      BY <2>2
    <3>2. topics' <= made'
      BY <2>2
    <3>3. CASE x = q
      BY <2>2, <3>2, <3>3
    <3>4. CASE x # q
      <4>1. ref'[x] = ref[x]
        BY <2>2, <3>4
      <4> QED
        BY <3>1, <4>1
    <3> QED
      BY <3>3, <3>4
  <2>4. ~Stopped => made' <= 1 /\ topics' = made'
    BY <2>2
  <2> QED
    BY <2>1, <2>2, <2>3, <2>4
<1>2. ASSUME NEW q \in Publishers, Publish(q) PROVE OneDelegate'
  BY <1>2 DEF Publish, NotifyAll, mapVars, pubVars, subVars
<1>3. ASSUME NEW q \in Publishers, StopErase(q) PROVE OneDelegate'
  BY <1>3 DEF StopErase, mapVars, pubVars, subVars
<1>4. ASSUME NEW q \in Publishers, StopMark(q) PROVE OneDelegate'
  BY <1>4 DEF StopMark, mapVars, pubVars, subVars
<1>5. ASSUME NEW q \in Publishers, StopNotify(q) PROVE OneDelegate'
  BY <1>5 DEF StopNotify, NotifyAll, mapVars, pubVars, subVars
<1>6. ASSUME NEW q \in Publishers, PubDestruct(q) PROVE OneDelegate'
  <2>1. UNCHANGED <<made, subscribers, stops>> /\ Drop(q)
    BY <1>6 DEF PubDestruct
  <2>2. Stopped
    BY <1>6 DEF PubDestruct, LeftBehind
  <2>3. /\ \A x \in Publishers \cup Subscribers : ref'[x] <= made
        /\ topics' <= made
    <3>1. /\ ref'[q] = 0 /\ topics' \in {topics, 0}
          /\ \A y \in Publishers \cup Subscribers : y # q => ref'[y] = ref[y]
      BY <2>1, DropGives
    <3>2. 0 <= made
      OBVIOUS
    <3> QED
      BY <3>1, <3>2
  <2> QED
    BY <2>1, <2>2, <2>3
<1>7. ASSUME NEW r \in Subscribers, SubConstruct(r) PROVE OneDelegate'
  <2>1. UNCHANGED <<subscribers, stops>> /\ GetOrNew(r)
    BY <1>7 DEF SubConstruct, pubVars
  <2>2. /\ ref'[r] \in Delegate /\ topics' = ref'[r]
        /\ \A y \in Publishers \cup Subscribers : y # r => ref'[y] = ref[y]
        /\ \/ made' = made /\ topics' = topics
           \/ topics = None /\ made' = made + 1 /\ topics' = made + 1
    BY <2>1, GetOrNewGives DEF Types
  <2>3. ASSUME NEW x \in Publishers \cup Subscribers PROVE ref'[x] <= made'
    <3>1. made \in Nat /\ made' \in Nat /\ made <= made' /\ ref[x] \in Nat /\ ref[x] <= made
      BY <2>2
    <3>2. topics' <= made'
      BY <2>2
    <3>3. CASE x = r
      BY <2>2, <3>2, <3>3
    <3>4. CASE x # r
      <4>1. ref'[x] = ref[x]
        BY <2>2, <3>4
      <4> QED
        BY <3>1, <4>1
    <3> QED
      BY <3>3, <3>4
  <2>4. ~Stopped => made' <= 1 /\ topics' = made'
    BY <2>2
  <2> QED
    BY <2>1, <2>2, <2>3, <2>4
<1>8. ASSUME NEW r \in Subscribers, SubInsertEnd(r) PROVE OneDelegate'
  BY <1>8 DEF SubInsertEnd, mapVars, pubVars, subVars
<1>9. ASSUME NEW r \in Subscribers, SubStartWorker(r) PROVE OneDelegate'
  BY <1>9 DEF SubStartWorker, mapVars, pubVars, subVars
<1>10. ASSUME NEW r \in Subscribers, SubStop(r) PROVE OneDelegate'
  BY <1>10 DEF SubStop, mapVars, pubVars, subVars
<1>11. ASSUME NEW r \in Subscribers, SubNotify(r) PROVE OneDelegate'
  BY <1>11 DEF SubNotify, NotifyAll, mapVars, pubVars, subVars
<1>12. ASSUME NEW r \in Subscribers, SubSkipStop(r) PROVE OneDelegate'
  BY <1>12 DEF SubSkipStop, mapVars, pubVars, subVars
<1>13. ASSUME NEW r \in Subscribers, SubDestruct(r) PROVE OneDelegate'
  <2>1. UNCHANGED <<made, subscribers, stops>> /\ Drop(r)
    BY <1>13 DEF SubDestruct, pubVars
  <2>2. ref[r] \in Delegate
    BY <1>13 DEF SubDestruct, HasDelegate
  <2>3. ASSUME ~Stopped PROVE topics' = topics
    BY <2>1, <2>2, <2>3, DropGives
  <2>4. /\ \A x \in Publishers \cup Subscribers : ref'[x] <= made
        /\ topics' <= made
    <3>1. /\ ref'[r] = 0 /\ topics' \in {topics, 0}
          /\ \A y \in Publishers \cup Subscribers : y # r => ref'[y] = ref[y]
      BY <2>1, DropGives
    <3>2. 0 <= made
      OBVIOUS
    <3> QED
      BY <3>1, <3>2
  <2> QED
    BY <2>1, <2>3, <2>4
<1>14. ASSUME NEW r \in Subscribers, WorkerEnd(r) PROVE OneDelegate'
  BY <1>14 DEF WorkerEnd, mapVars, pubVars, subVars
<1>15. ASSUME NEW r \in Subscribers, WorkerWait(r) PROVE OneDelegate'
  BY <1>15 DEF WorkerWait, mapVars, pubVars, subVars
<1>16. ASSUME NEW r \in Subscribers, WorkerTake(r) PROVE OneDelegate'
  BY <1>16 DEF WorkerTake, Take, mapVars, pubVars, subVars
<1>17. ASSUME NEW r \in Subscribers, WorkerCall(r) PROVE OneDelegate'
  BY <1>17 DEF WorkerCall, mapVars, pubVars, subVars
<1>18. ASSUME NEW r \in Subscribers, SpuriousWake(r) PROVE OneDelegate'
  BY <1>18 DEF SpuriousWake, mapVars, pubVars, subVars
<1>19. CASE UNCHANGED vars
  BY <1>19 DEF vars, mapVars, pubVars, subVars
<1>20. ASSUME NEW r \in Subscribers, SubInsertBegin(r) PROVE OneDelegate'
  BY <1>20 DEF SubInsertBegin, mapVars, pubVars, subVars
<1>21. ASSUME NEW q \in Publishers, StopLock(q) PROVE OneDelegate'
  BY <1>21 DEF StopLock, mapVars, pubVars, subVars
<1> QED
  BY <1>1, <1>2, <1>3, <1>4, <1>5, <1>6, <1>7, <1>8, <1>9,
     <1>10, <1>11, <1>12, <1>13, <1>14, <1>15, <1>16, <1>17, <1>18, <1>19,
     <1>20, <1>21
  DEF Next, Publisher, Owner, Worker

(* Messages are numbered upwards and each is moved on, never copied. *)
LEMMA OrderedStep == Types /\ WorkerInOwner /\ Ordered /\ [Next]_vars => Ordered'
<1> SUFFICES ASSUME Types, WorkerInOwner, Ordered, [Next]_vars PROVE Ordered'
  OBVIOUS
<1> USE DEF Types, WorkerInOwner, Ordered, nullptr
<1>1. ASSUME NEW q \in Publishers, PubConstruct(q) PROVE Ordered'
  BY <1>1 DEF PubConstruct, GetOrNew, mapVars, pubVars, subVars
<1>2. ASSUME NEW q \in Publishers, Publish(q) PROVE Ordered'
  BY <1>2 DEF Publish, NotifyAll, mapVars, pubVars, subVars
<1>3. ASSUME NEW q \in Publishers, StopErase(q) PROVE Ordered'
  BY <1>3 DEF StopErase, mapVars, pubVars, subVars
<1>4. ASSUME NEW q \in Publishers, StopMark(q) PROVE Ordered'
  BY <1>4 DEF StopMark, mapVars, pubVars, subVars
<1>5. ASSUME NEW q \in Publishers, StopNotify(q) PROVE Ordered'
  BY <1>5 DEF StopNotify, NotifyAll, mapVars, pubVars, subVars
<1>6. ASSUME NEW q \in Publishers, PubDestruct(q) PROVE Ordered'
  BY <1>6 DEF PubDestruct, Drop, mapVars, pubVars, subVars
<1>7. ASSUME NEW r \in Subscribers, SubConstruct(r) PROVE Ordered'
  BY <1>7 DEF SubConstruct, GetOrNew, mapVars, pubVars, subVars
<1>8. ASSUME NEW r \in Subscribers, SubInsertEnd(r) PROVE Ordered'
  BY <1>8 DEF SubInsertEnd, mapVars, pubVars, subVars
<1>9. ASSUME NEW r \in Subscribers, SubStartWorker(r) PROVE Ordered'
  BY <1>9 DEF SubStartWorker, mapVars, pubVars, subVars
<1>10. ASSUME NEW r \in Subscribers, SubStop(r) PROVE Ordered'
  BY <1>10 DEF SubStop, mapVars, pubVars, subVars
<1>11. ASSUME NEW r \in Subscribers, SubNotify(r) PROVE Ordered'
  BY <1>11 DEF SubNotify, NotifyAll, mapVars, pubVars, subVars
<1>12. ASSUME NEW r \in Subscribers, SubSkipStop(r) PROVE Ordered'
  BY <1>12 DEF SubSkipStop, mapVars, pubVars, subVars
<1>13. ASSUME NEW r \in Subscribers, SubDestruct(r) PROVE Ordered'
  BY <1>13 DEF SubDestruct, Drop, mapVars, pubVars, subVars
<1>14. ASSUME NEW r \in Subscribers, WorkerEnd(r) PROVE Ordered'
  BY <1>14 DEF WorkerEnd, mapVars, pubVars, subVars
<1>15. ASSUME NEW r \in Subscribers, WorkerWait(r) PROVE Ordered'
  BY <1>15 DEF WorkerWait, mapVars, pubVars, subVars
<1>16. ASSUME NEW r \in Subscribers, WorkerTake(r) PROVE Ordered'
  BY <1>16 DEF WorkerTake, Take, mapVars, pubVars, subVars
<1>17. ASSUME NEW r \in Subscribers, WorkerCall(r) PROVE Ordered'
  BY <1>17 DEF WorkerCall, mapVars, pubVars, subVars
<1>18. ASSUME NEW r \in Subscribers, SpuriousWake(r) PROVE Ordered'
  BY <1>18 DEF SpuriousWake, mapVars, pubVars, subVars
<1>19. CASE UNCHANGED vars
  BY <1>19 DEF vars, mapVars, pubVars, subVars
<1>20. ASSUME NEW r \in Subscribers, SubInsertBegin(r) PROVE Ordered'
  BY <1>20 DEF SubInsertBegin, mapVars, pubVars, subVars
<1>21. ASSUME NEW q \in Publishers, StopLock(q) PROVE Ordered'
  BY <1>21 DEF StopLock, mapVars, pubVars, subVars
<1> QED
  BY <1>1, <1>2, <1>3, <1>4, <1>5, <1>6, <1>7, <1>8, <1>9,
     <1>10, <1>11, <1>12, <1>13, <1>14, <1>15, <1>16, <1>17, <1>18, <1>19,
     <1>20, <1>21
  DEF Next, Publisher, Owner, Worker

(* A Stop that goes through a raced tree leaves it sound. *)
LEMMA SettledStep == Types /\ HasDelegate /\ Settled /\ [Next]_vars => Settled'
<1> SUFFICES ASSUME Types, HasDelegate, Settled, [Next]_vars PROVE Settled'
  OBVIOUS
<1> USE DEF Types, Settled, MutexFree
<1>1. ASSUME NEW q \in Publishers, PubConstruct(q) PROVE Settled'
  BY <1>1 DEF PubConstruct, GetOrNew, mapVars, pubVars, subVars
<1>2. ASSUME NEW q \in Publishers, Publish(q) PROVE Settled'
  BY <1>2 DEF Publish, NotifyAll, mapVars, pubVars, subVars
<1>3. ASSUME NEW q \in Publishers, StopErase(q) PROVE Settled'
  BY <1>3 DEF StopErase, mapVars, pubVars, subVars
<1>4. ASSUME NEW q \in Publishers, StopMark(q) PROVE Settled'
  BY <1>4 DEF StopMark, mapVars, pubVars, subVars
<1>5. ASSUME NEW q \in Publishers, StopNotify(q) PROVE Settled'
  BY <1>5 DEF StopNotify, NotifyAll, mapVars, pubVars, subVars
<1>6. ASSUME NEW q \in Publishers, PubDestruct(q) PROVE Settled'
  BY <1>6 DEF PubDestruct, Drop, mapVars, pubVars, subVars
<1>7. ASSUME NEW r \in Subscribers, SubConstruct(r) PROVE Settled'
  BY <1>7, NamesAssumption DEF SubConstruct, GetOrNew, mapVars, pubVars, subVars
<1>8. ASSUME NEW r \in Subscribers, SubInsertEnd(r) PROVE Settled'
  BY <1>8 DEF SubInsertEnd, mapVars, pubVars, subVars
<1>9. ASSUME NEW r \in Subscribers, SubStartWorker(r) PROVE Settled'
  BY <1>9 DEF SubStartWorker, mapVars, pubVars, subVars
<1>10. ASSUME NEW r \in Subscribers, SubStop(r) PROVE Settled'
  BY <1>10 DEF SubStop, mapVars, pubVars, subVars
<1>11. ASSUME NEW r \in Subscribers, SubNotify(r) PROVE Settled'
  BY <1>11 DEF SubNotify, NotifyAll, mapVars, pubVars, subVars
<1>12. ASSUME NEW r \in Subscribers, SubSkipStop(r) PROVE Settled'
  BY <1>12 DEF SubSkipStop, mapVars, pubVars, subVars
<1>13. ASSUME NEW r \in Subscribers, SubDestruct(r) PROVE Settled'
  BY <1>13, NamesAssumption DEF SubDestruct, Drop, mapVars, pubVars, subVars
<1>14. ASSUME NEW r \in Subscribers, WorkerEnd(r) PROVE Settled'
  BY <1>14 DEF WorkerEnd, mapVars, pubVars, subVars
<1>15. ASSUME NEW r \in Subscribers, WorkerWait(r) PROVE Settled'
  BY <1>15 DEF WorkerWait, mapVars, pubVars, subVars
<1>16. ASSUME NEW r \in Subscribers, WorkerTake(r) PROVE Settled'
  BY <1>16 DEF WorkerTake, Take, mapVars, pubVars, subVars
<1>17. ASSUME NEW r \in Subscribers, WorkerCall(r) PROVE Settled'
  BY <1>17 DEF WorkerCall, mapVars, pubVars, subVars
<1>18. ASSUME NEW r \in Subscribers, SpuriousWake(r) PROVE Settled'
  BY <1>18 DEF SpuriousWake, mapVars, pubVars, subVars
<1>19. CASE UNCHANGED vars
  BY <1>19 DEF vars, mapVars, pubVars, subVars
<1>20. ASSUME NEW r \in Subscribers, SubInsertBegin(r) PROVE Settled'
  BY <1>20 DEF SubInsertBegin, mapVars, pubVars, subVars
<1>21. ASSUME NEW q \in Publishers, StopLock(q) PROVE Settled'
  BY <1>21 DEF StopLock, mapVars, pubVars, subVars
<1> QED
  BY <1>1, <1>2, <1>3, <1>4, <1>5, <1>6, <1>7, <1>8, <1>9,
     <1>10, <1>11, <1>12, <1>13, <1>14, <1>15, <1>16, <1>17, <1>18, <1>19,
     <1>20, <1>21
  DEF Next, Publisher, Owner, Worker

(* The strengthened invariant.                                               *)
LEMMA Inductive == Spec => []IInv
<1>1. Init => IInv
  BY BoundsAssumption
  DEF Init, IInv, Types, HasDelegate, WorkerInOwner, Membership, LeftBehind,
      NobodySleepsOnWork, OneDelegate, Ordered, Settled, None, nullptr
<1>2. IInv /\ [Next]_vars => IInv'
  BY TypesStep, HasDelegateStep, WorkerInOwnerStep, MembershipStep, LeftBehindStep,
     SleepStep, OneDelegateStep, OrderedStep, SettledStep
  DEF IInv
<1> QED
  BY <1>1, <1>2, PTL DEF Spec

(* No worker sleeps on a message or on a stop_ nobody will notify it of, for  *)
(* any number of publishers and subscribers of the topic (message.hpp, the    *)
(* worker loop and both Stop functions).                                      *)
THEOREM WorkersAreWoken == Spec => []NobodySleepsOnWork
<1>1. IInv => NobodySleepsOnWork
  BY DEF IInv
<1> QED
  BY <1>1, Inductive, PTL

(* Until a publisher of the topic is stopped (message.hpp:111), no delegate    *)
(* holds a pointer to a destroyed subscriber, for any number of both and       *)
(* whatever inserts overlap Publish and Stop, unless an erase has overlapped   *)
(* an insert in that delegate (message.hpp:98 and 201, two mutexes).            *)
THEOREM PointersStayLive == Spec => []PointersAreLive
<1>1. IInv => PointersAreLive
  BY DEF IInv, LeftBehind, Stopped, PointersAreLive
<1> QED
  BY <1>1, Inductive, PTL

-----------------------------------------------------------------------------
(* The refinement.  A step that changes none of what the mailboxes are       *)
(* mapped to is a stutter.                                                    *)
LEMMA Stutters ==
    ASSUME UNCHANGED <<subscribers, stops, sent, buffer_, buf, got>>,
           Torn' = Torn, Joining' = Joining,
           \A s \in Subscribers : Phase(s)' = Phase(s)
    PROVE  UNCHANGED Box!boxVars
<1>1. Members' = Members /\ Stopped' = Stopped
  BY DEF Members, Stopped
<1>2. Phases' = Phases
  BY DEF Phases
<1> QED
  BY <1>1, <1>2 DEF Box!boxVars

(* What is not changed by a step of the map, a notification or a spurious     *)
(* wake-up.                                                                   *)
LEMMA QuietSteps ==
    ASSUME IInv,
           \/ \E p \in Publishers : PubConstruct(p) \/ StopNotify(p) \/ PubDestruct(p)
           \/ \E s \in Subscribers : \/ SubConstruct(s) \/ SubNotify(s) \/ SubSkipStop(s)
                                     \/ SubDestruct(s) \/ WorkerEnd(s) \/ WorkerWait(s)
                                     \/ SpuriousWake(s)
           \/ UNCHANGED vars
    PROVE  UNCHANGED Box!boxVars
<1>1. UNCHANGED <<subscribers, stops, sent, buffer_, buf, got, stop_>>
  BY DEF PubConstruct, StopNotify, PubDestruct, SubConstruct, SubNotify, SubSkipStop,
         SubDestruct, WorkerEnd, WorkerWait, SpuriousWake, vars, mapVars, pubVars, subVars
<1>2. ASSUME NEW s \in Subscribers PROVE Phase(s)' = Phase(s)
  <2>1. \/ wpc'[s] = wpc[s]
        \/ wpc[s] = "wait" /\ wpc'[s] = "woken"
        \/ wpc[s] = "run" /\ wpc'[s] \in {"ended", "wait"} /\ (wpc'[s] = "wait" <=> ~stop_[s])
    BY DEF PubConstruct, StopNotify, PubDestruct, SubConstruct, SubNotify, SubSkipStop,
           SubDestruct, WorkerEnd, WorkerWait, SpuriousWake, NotifyAll, vars, mapVars,
           pubVars, subVars, IInv, Types
  <2> QED
    BY <1>1, <2>1 DEF Phase
<1>3. Torn' = Torn
  BY DEF PubConstruct, StopNotify, PubDestruct, SubConstruct, SubNotify, SubSkipStop,
         SubDestruct, WorkerEnd, WorkerWait, SpuriousWake, vars, Torn
<1>4. Joining' = Joining
  BY DEF PubConstruct, StopNotify, PubDestruct, SubConstruct, SubNotify, SubSkipStop,
         SubDestruct, WorkerEnd, WorkerWait, SpuriousWake, vars, subVars, Joining, IInv, Types
<1> QED
  BY <1>1, <1>2, <1>3, <1>4, Stutters

(* A Stop that begins its loop.                                              *)
LEMMA StopLockStutters ==
    ASSUME IInv, NEW p \in Publishers, StopLock(p)
    PROVE  UNCHANGED Box!boxVars
<1>1. UNCHANGED <<subscribers, stops, sent, subVars>>
  BY DEF StopLock
<1>2. Torn' = Torn
  <2>1. \A d \in Delegate : tree'[d] = "torn" <=> tree[d] = "torn"
    BY DEF StopLock, IInv, Types
  <2> QED
    BY <2>1 DEF Torn
<1> QED
  BY <1>1, <1>2, Stutters DEF subVars, Joining, Phase

(* Publish posts to all members while nobody is stopped or joins. *)
LEMMA PublishPosts ==
    ASSUME IInv, NEW p \in Publishers, Publish(p)
    PROVE  Box!Next
<1>0. PICK S \in Walks(ref[p]) :
         buffer_' = [s \in Subscribers |-> IF s \in S THEN sent + 1 ELSE buffer_[s]]
  BY DEF Publish
<1>1. /\ ref[p] \in Delegate /\ S \in SUBSET Subscribers
      /\ S \subseteq subscribers[ref[p]] \cup Inserting(ref[p])
      /\ S = subscribers[ref[p]] \/ Inserting(ref[p]) # {} \/ tree[ref[p]] # "sound"
  BY <1>0, WalksGive DEF IInv, HasDelegate, Publish
<1>2. S \subseteq Members \cup Joining
  BY <1>1 DEF Members, Joining, Inserting
<1>3. ASSUME ~(Stopped \/ Torn), Joining = {} PROVE S = Members
  <2>1. made <= 1 /\ made \in Nat /\ ref[p] <= made
    BY <1>3 DEF IInv, OneDelegate, Types
  <2>2. ASSUME NEW d \in Delegate, subscribers[d] # {} PROVE d = ref[p]
    BY <1>1, <2>1, <2>2, BoundsAssumption DEF IInv, OneDelegate, Delegate
  <2>3. Inserting(ref[p]) = {}
    BY <1>3 DEF Joining, Inserting
  <2>4. tree[ref[p]] = "sound"
    BY <1>1, <1>3 DEF Publish, Torn, IInv, Types, Settled
  <2> QED
    BY <1>1, <2>2, <2>3, <2>4 DEF Members
<1>4. Phases' = Phases
  <2>1. ASSUME NEW s \in Subscribers PROVE Phase(s)' = Phase(s)
    BY DEF Publish, NotifyAll, Phase
  <2> QED
    BY <2>1 DEF Phases
<1>5. Members' = Members /\ Stopped' = Stopped /\ Torn' = Torn /\ Joining' = Joining
  BY DEF Publish, Members, Stopped, Torn, Joining
<1>6. Box!Post(S)
  BY <1>0, <1>2, <1>3, <1>4, <1>5 DEF Box!Post, Publish
<1> QED
  BY <1>1, <1>6 DEF Box!Next

(* Whom a step sets stop_ of is told: at work in the loop it ends at once,    *)
(* asleep or with a message it may give one more.                             *)
LEMMA MarksTell ==
    ASSUME IInv, NEW S \in SUBSET Subscribers, UNCHANGED wpc,
           stop_' \in [Subscribers -> BOOLEAN],
           \A s \in Subscribers : stop_'[s] <=> stop_[s] \/ s \in S
    PROVE  Box!Told(S)
<1> DEFINE done == {r \in S : wpc[r] \in {"run", "ended"}}
<1>1. done \in SUBSET {r \in S : buf[r] = 0}
  BY DEF IInv, Ordered, nullptr
<1>2. Phases' = [r \in Subscribers |->
                    IF r \in S /\ Phases[r] = "open"
                    THEN IF r \in done THEN "closed" ELSE "closing"
                    ELSE Phases[r]]
  <2>1. ASSUME NEW r \in Subscribers
        PROVE  Phase(r)' = IF r \in S /\ Phase(r) = "open"
                           THEN IF r \in done THEN "closed" ELSE "closing"
                           ELSE Phase(r)
    BY DEF Phase, IInv, Types
  <2> QED
    BY <2>1 DEF Phases
<1> QED
  BY <1>1, <1>2 DEF Box!Told, Box!Empty

(* Stop of a publisher and of a subscriber. *)
LEMMA StopTells ==
    /\ IInv => \A p \in Publishers : StopErase(p) \/ StopMark(p) => Box!Next
    /\ IInv => \A s \in Subscribers : SubStop(s) => Box!Next
<1>1. ASSUME IInv, NEW p \in Publishers, StopErase(p) PROVE Box!Next
  <2>1. Stopped' = TRUE
    BY <1>1 DEF StopErase, Stopped, IInv, Types
  <2>2. Phases' = Phases /\ Members' = Members /\ Joining' = Joining
    BY <1>1 DEF StopErase, subVars, Phases, Phase, Members, Joining
  <2> QED
    BY <1>1, <2>1, <2>2 DEF StopErase, subVars, Box!Split, Box!Next
<1>2. ASSUME IInv, NEW p \in Publishers, StopMark(p) PROVE Box!Next
  <2>0. PICK S \in Walks(ref[p]) : stop_' = [s \in Subscribers |-> stop_[s] \/ s \in S]
    BY <1>2 DEF StopMark
  <2>1. S \in SUBSET Subscribers /\ S \subseteq Members \cup Joining
    <3>1. ref[p] \in Delegate
      BY <1>2 DEF IInv, HasDelegate, StopMark
    <3>2. S \in SUBSET Subscribers /\ S \subseteq subscribers[ref[p]] \cup Inserting(ref[p])
      BY <1>2, <3>1, WalksGive DEF IInv
    <3> QED
      BY <3>1, <3>2 DEF Members, Joining, Inserting
  <2>2. Stopped /\ Stopped' = Stopped /\ Members' = Members /\ Joining' = Joining
    BY <1>2 DEF StopMark, IInv, LeftBehind, Stopped, Members, Joining
  <2>3. Box!Told(S)
    <3>1. /\ wpc' = wpc /\ stop_' \in [Subscribers -> BOOLEAN]
          /\ \A s \in Subscribers : stop_'[s] <=> stop_[s] \/ s \in S
      BY <1>2, <2>0 DEF StopMark, IInv, Types
    <3> QED
      BY <1>2, <2>1, <3>1, MarksTell
  <2>4. Box!Tell(S)
    BY <1>2, <2>1, <2>2, <2>3 DEF Box!Tell, StopMark
  <2> QED
    BY <2>1, <2>4 DEF Box!Next
<1>3. ASSUME IInv, NEW s \in Subscribers, SubStop(s) PROVE Box!Next
  <2>0. ref[s] \in Delegate /\ opc[s] = "up"
    BY <1>3 DEF SubStop, IInv, HasDelegate
  <2>1. \/ Members' = Members \ {s}
        \/ Torn' /\ Members' = Members
    <3>1. CASE tree'[ref[s]] = "torn"
      <4>1. subscribers' = subscribers
        BY <1>3, <3>1 DEF SubStop, IInv, Types
      <4> QED
        BY <1>3, <2>0, <3>1, <4>1 DEF SubStop, Torn, Members
    <3>2. CASE tree'[ref[s]] # "torn"
      <4>1. \A d \in Delegate : subscribers'[d] = subscribers[d] \ {s}
        BY <1>3, <2>0, <3>2 DEF SubStop, IInv, Types, Membership
      <4> QED
        BY <4>1 DEF Members
    <3> QED
      BY <3>1, <3>2
  <2>2. Box!Told({s})
    <3>1. /\ wpc' = wpc /\ stop_' \in [Subscribers -> BOOLEAN]
          /\ \A r \in Subscribers : stop_'[r] <=> stop_[r] \/ r \in {s}
      BY <1>3 DEF SubStop, IInv, Types
    <3> QED
      BY <1>3, <3>1, MarksTell
  <2>3. Stopped' = Stopped
    BY <1>3 DEF SubStop, pubVars, Stopped
  <2>4. Joining' = Joining
    BY <1>3 DEF SubStop, Joining, IInv, Types
  <2>5. (Stopped \/ Torn)' = ((Stopped \/ Torn) \/ Joining # {})
    <3>1. ASSUME Joining # {}, ~Stopped PROVE Inserting(ref[s]) # {}
      <4>1. PICK t \in Subscribers : opc[t] = "inserting"
        BY <3>1 DEF Joining
      <4>2. made <= 1 /\ made \in Nat /\ ref[s] <= made /\ ref[t] <= made /\ ref[t] \in Delegate
        BY <3>1, <4>1, <1>3 DEF IInv, OneDelegate, Types, HasDelegate
      <4>3. ref[t] = ref[s]
        BY <2>0, <4>2, BoundsAssumption DEF Delegate
      <4> QED
        BY <4>1, <4>3 DEF Inserting
    <3>2. Torn' <=> Torn \/ Inserting(ref[s]) # {}
      <4>1. \A d \in Delegate : tree'[d] = "torn" <=> tree[d] = "torn" \/ (d = ref[s] /\ Inserting(ref[s]) # {})
        BY <1>3, <2>0 DEF SubStop, IInv, Types
      <4> QED
        BY <2>0, <4>1 DEF Torn
    <3>3. Inserting(ref[s]) # {} => Joining # {}
      BY DEF Inserting, Joining
    <3> QED
      BY <2>3, <3>1, <3>2, <3>3 DEF Stopped, Torn
  <2>6. Box!Leave(s)
    BY <1>3, <2>1, <2>2, <2>4, <2>5 DEF Box!Leave, SubStop, pubVars
  <2> QED
    BY <2>6 DEF Box!Next
<1> QED
  BY <1>1, <1>2, <1>3

(* The constructor of a subscriber. *)
LEMMA ConstructorOpens ==
    ASSUME IInv, NEW s \in Subscribers,
           SubInsertBegin(s) \/ SubInsertEnd(s) \/ SubStartWorker(s)
    PROVE  Box!Next
<1>0. wpc[s] = "none" /\ Phases[s] = "shut"
  BY DEF IInv, WorkerInOwner, SubInsertBegin, SubInsertEnd, SubStartWorker, Phases, Phase
<1>1. CASE SubInsertBegin(s)
  <2>1. Joining' = Joining \cup {s}
    BY <1>1 DEF SubInsertBegin, Joining, IInv, Types
  <2>2. s \notin Members
    BY <1>1 DEF SubInsertBegin, Members, IInv, Membership
  <2>3. Phases' = Phases /\ Stopped' = Stopped /\ Members' = Members
    BY <1>1 DEF SubInsertBegin, pubVars, Phases, Phase, Stopped, Members
  <2>4. Torn' = Torn
    <3>1. \A d \in Delegate : tree'[d] = "torn" <=> tree[d] = "torn"
      BY <1>1 DEF SubInsertBegin, IInv, Types
    <3> QED
      BY <3>1 DEF Torn
  <2>5. Box!BeginJoin(s)
    BY <1>0, <1>1, <2>1, <2>2, <2>3, <2>4 DEF Box!BeginJoin, SubInsertBegin, pubVars
  <2> QED
    BY <2>5 DEF Box!Next
<1>2. CASE SubInsertEnd(s)
  <2>1. Members' = Members \cup {s}
    <3>1. ref[s] \in Delegate
      BY <1>2 DEF SubInsertEnd, IInv, HasDelegate
    <3>2. \A d \in Delegate :
             subscribers'[d] = IF d = ref[s] THEN subscribers[d] \cup {s} ELSE subscribers[d]
      BY <1>2, <3>1 DEF SubInsertEnd, IInv, Types
    <3>3. Members' = UNION {subscribers'[d] : d \in Delegate}
      BY DEF Members
    <3>4. ASSUME NEW x \in Members' PROVE x \in Members \cup {s}
      <4>1. PICK d \in Delegate : x \in subscribers'[d]
        BY <3>3, <3>4
      <4>2. x \in subscribers[d] \/ x = s
        BY <3>2, <4>1
      <4> QED
        BY <4>2 DEF Members
    <3>5. ASSUME NEW x \in Members PROVE x \in Members'
      <4>1. PICK d \in Delegate : x \in subscribers[d]
        BY <3>5 DEF Members
      <4>2. x \in subscribers'[d]
        BY <3>2, <4>1
      <4> QED
        BY <3>3, <4>2
    <3>6. s \in Members'
      BY <3>1, <3>2, <3>3
    <3> QED
      BY <3>4, <3>5, <3>6
  <2>2. Joining' = Joining \ {s} /\ s \in Joining
    BY <1>2 DEF SubInsertEnd, Joining, IInv, Types
  <2>3. Phases' = Phases /\ Stopped' = Stopped /\ Torn' = Torn
    BY <1>2 DEF SubInsertEnd, pubVars, Phases, Phase, Stopped, Torn
  <2>4. Box!EndJoin(s)
    BY <1>2, <2>1, <2>2, <2>3 DEF Box!EndJoin, SubInsertEnd, pubVars
  <2> QED
    BY <2>4 DEF Box!Next
<1>3. CASE SubStartWorker(s)
  <2>1. Phases' = [Phases EXCEPT ![s] = "open"]
    <3>1. Phase(s)' = "open" /\ \A r \in Subscribers \ {s} : Phase(r)' = Phase(r)
      BY <1>3 DEF SubStartWorker, Phase, IInv, Types
    <3> QED
      BY <3>1 DEF Phases
  <2>2. Members' = Members /\ Stopped' = Stopped /\ Torn' = Torn
    BY <1>3 DEF SubStartWorker, pubVars, Members, Stopped, Torn
  <2>3. Joining' = Joining /\ s \notin Joining
    BY <1>3 DEF SubStartWorker, Joining, IInv, Types
  <2>4. Box!Open(s)
    BY <1>0, <1>3, <2>1, <2>2, <2>3 DEF Box!Open, SubStartWorker, pubVars
  <2> QED
    BY <2>4 DEF Box!Next
<1> QED
  BY <1>1, <1>2, <1>3

(* The worker takes and gives. *)
LEMMA WorkerGives ==
    ASSUME IInv, NEW s \in Subscribers, WorkerTake(s) \/ WorkerCall(s)
    PROVE  Box!Next \/ UNCHANGED Box!boxVars
<1>0. Members' = Members /\ Stopped' = Stopped /\ Torn' = Torn /\ Joining' = Joining
  BY DEF WorkerTake, WorkerCall, pubVars, Members, Stopped, Torn, Joining
<1>1. CASE WorkerCall(s)
  <2>1. buf[s] > got[s] /\ Phases[s] \in {"open", "closing"}
    BY <1>1 DEF WorkerCall, IInv, Ordered, Types, Phases, Phase
  <2>2. Phases' = [Phases EXCEPT ![s] = IF @ = "closing" THEN "closed" ELSE @]
    <3>1. /\ Phase(s)' = IF Phase(s) = "closing" THEN "closed" ELSE Phase(s)
          /\ \A r \in Subscribers \ {s} : Phase(r)' = Phase(r)
      BY <1>1 DEF WorkerCall, Phase, IInv, Types
    <3> QED
      BY <3>1 DEF Phases
  <2>3. Box!Give(s)
    BY <1>0, <1>1, <2>1, <2>2 DEF Box!Give, Box!Empty, WorkerCall, pubVars, nullptr
  <2> QED
    BY <2>3 DEF Box!Next
<1>2. CASE WorkerTake(s)
  <2>1. buf[s] = 0 /\ (wpc[s] = "woken" \/ (wpc[s] = "run" /\ ~stop_[s]))
    BY <1>2 DEF WorkerTake, IInv, Ordered, nullptr
  <2>2. \A r \in Subscribers \ {s} : Phase(r)' = Phase(r)
    BY <1>2 DEF WorkerTake, Take, Phase, IInv, Types
  <2>3. CASE buffer_[s] # 0
    <3>1. Phase(s)' = Phase(s) /\ Phase(s) \in {"open", "closing"}
      BY <1>2, <2>1, <2>3 DEF WorkerTake, Take, Phase, IInv, Types, nullptr
    <3>2. Phases' = Phases /\ Phases[s] \in {"open", "closing"}
      BY <2>2, <3>1 DEF Phases
    <3>3. Box!Take(s)
      BY <1>0, <1>2, <2>1, <2>3, <3>2
      DEF Box!Take, Box!Empty, WorkerTake, Take, pubVars, nullptr
    <3> QED
      BY <3>3 DEF Box!Next
  <2>4. CASE buffer_[s] = 0
    <3>1. buffer_' = buffer_ /\ buf' = buf
      BY <1>2, <2>1, <2>4 DEF WorkerTake, Take, IInv, Types, nullptr
    <3>2. /\ stop_[s] => Phase(s) = "closing" /\ Phase(s)' = "closed"
          /\ ~stop_[s] => Phase(s)' = Phase(s)
      BY <1>2, <2>1, <2>4 DEF WorkerTake, Take, Phase, IInv, Types, nullptr
    <3>3. CASE stop_[s]
      <4>0. Phase(s) = "closing" /\ Phase(s)' = "closed"
        BY <3>2, <3>3
      <4>1. Phases[s] = "closing" /\ Phases' = [Phases EXCEPT ![s] = "closed"]
        BY <2>2, <4>0 DEF Phases
      <4>2. Box!Quit(s)
        BY <1>0, <1>2, <2>1, <2>4, <3>1, <4>1 DEF Box!Quit, Box!Empty, WorkerTake, pubVars
      <4> QED
        BY <4>2 DEF Box!Next
    <3>4. CASE ~stop_[s]
      <4>1. \A r \in Subscribers : Phase(r)' = Phase(r)
        BY <2>2, <3>2, <3>4
      <4>2. UNCHANGED <<subscribers, stops, sent, got>>
        BY <1>2 DEF WorkerTake, pubVars
      <4> QED
        BY <1>0, <3>1, <4>1, <4>2, Stutters
    <3> QED
      BY <3>3, <3>4
  <2> QED
    BY <2>3, <2>4
<1> QED
  BY <1>1, <1>2

(* Publishing on a topic is posting to mailboxes of one message, for any      *)
(* number of publishers, subscribers and delegates (message.hpp): all          *)
(* subscribers get every message whose Publish no insert overlaps, until a      *)
(* publisher is stopped or a subscriber leaves while another is inserted;       *)
(* callbacks see each message once at most and in order, and one at most after  *)
(* Stop, whatever overlaps.                                                    *)
THEOREM DelegateImplementsMailboxes == Spec => MailboxSpec
<1>1. Init => Box!Init
  <2> SUFFICES ASSUME Init PROVE Box!Init
    OBVIOUS
  <2>1. Members = {} /\ ~Stopped /\ ~Torn /\ Joining = {}
    BY DEF Init, Members, Stopped, Torn, Joining
  <2>2. Phases = [s \in Subscribers |-> "shut"]
    BY DEF Init, Phases, Phase
  <2> QED
    BY <2>1, <2>2 DEF Init, Box!Init, Box!Empty, nullptr
<1>2. IInv /\ [Next]_vars => [Box!Next]_(Box!boxVars)
  <2> SUFFICES ASSUME IInv, [Next]_vars PROVE Box!Next \/ UNCHANGED Box!boxVars
    OBVIOUS
  <2> QED
    BY QuietSteps, StopLockStutters, PublishPosts, StopTells, ConstructorOpens, WorkerGives
    DEF Next, Publisher, Owner, Worker
<1> QED
  BY <1>1, <1>2, Inductive, PTL DEF Spec, MailboxSpec, Box!Spec
=============================================================================
