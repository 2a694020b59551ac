--------------------------- MODULE ServiceDiscover ---------------------------
(***************************************************************************)
(* How publishers and subscribers of one topic find each other:            *)
(* service_discover.hpp and the constructors of message.hpp.  A publisher  *)
(* announces itself once, on message/<topic>/pub; a subscriber announces   *)
(* its address once, on message/<topic>/sub, and again for every           *)
(* publisher it hears of.  Announcements are multicast datagrams: whoever  *)
(* has joined the group gets a copy, late, in any order or not at all.     *)
(*                                                                         *)
(* Callbacks run in the libuv loop, which is entered when the constructor  *)
(* is done, so a copy waits in the socket meanwhile.  Copies nobody has a  *)
(* callback for (a publisher's own announcement) are left out.             *)
(***************************************************************************)
EXTENDS Naturals, FiniteSets, Functions

CONSTANTS
    Pubs, Subs,     \* the objects of one topic, in any processes
    MaxStarts,      \* publisher -> how often it is constructed at most
    MaxLosses       \* copies that are lost at most

ASSUME BoundsAreNatural == MaxStarts \in [Pubs -> Nat] /\ MaxLosses \in Nat
ASSUME PubsAreFinite == IsFiniteSet(Pubs)

VARIABLES
    pub,    \* publisher -> "down", "joined" (constructor under way) or "up"
    sub,    \* subscriber -> "down", "joined", "up" or "stopped"
    subs,   \* publisher -> subscriber -> its entries in the vector subs_
    toPub,  \* publisher -> subscriber -> copies of its announcement in the socket
    toSub,  \* subscriber -> publisher -> copies of its announcement in the socket
    starts, \* publisher -> how often it was constructed
    lost    \* pairs one of whose copies was lost

vars == <<pub, sub, subs, toPub, toSub, starts, lost>>

Nobody == [s \in Subs |-> 0]

Init ==
    /\ pub = [p \in Pubs |-> "down"]
    /\ sub = [s \in Subs |-> "down"]
    /\ subs = [p \in Pubs |-> Nobody]
    /\ toPub = [p \in Pubs |-> Nobody]
    /\ toSub = [s \in Subs |-> [p \in Pubs |-> 0]]
    /\ starts = [p \in Pubs |-> 0]
    /\ lost = {}

(***************************************************************************)
(* ServiceDiscover::Send: one copy for every member of the group.          *)
(***************************************************************************)
SendSub(s) ==
    toPub' = [p \in Pubs |-> IF pub[p] = "down" THEN toPub[p]
                             ELSE [toPub[p] EXCEPT ![s] = @ + 1]]
SendPub(p) ==
    toSub' = [s \in Subs |-> IF sub[s] \in {"joined", "up"}
                             THEN [toSub[s] EXCEPT ![p] = @ + 1] ELSE toSub[s]]

(***************************************************************************)
(* MessagePublisher: join the group and register the callback, announce,   *)
(* then run.  The object is a new one each time.                           *)
(***************************************************************************)
PubJoin(p) ==
    /\ pub[p] = "down" /\ starts[p] < MaxStarts[p]
    /\ pub' = [pub EXCEPT ![p] = "joined"]
    /\ starts' = [starts EXCEPT ![p] = @ + 1]
    /\ UNCHANGED <<sub, subs, toPub, toSub, lost>>

PubAnnounce(p) ==
    /\ pub[p] = "joined"
    /\ pub' = [pub EXCEPT ![p] = "up"]
    /\ SendPub(p)
    /\ UNCHANGED <<sub, subs, toPub, starts, lost>>

PubHearsOnce(p) ==   \* mutant: only the first object starts to receive
    \E s \in Subs :
        /\ pub[p] = "up" /\ toPub[p][s] > 0 /\ starts[p] = 1
        /\ toPub' = [toPub EXCEPT ![p][s] = @ - 1]
        /\ subs' = [subs EXCEPT ![p][s] = @ + 1]
        /\ UNCHANGED <<pub, sub, toSub, starts, lost>>

\* The callback of the constructor, called by discover_read_cb: push_back
\* whether the address is there or not, and whether it is still in use.
PubHears(p) ==
    \E s \in Subs :
        /\ pub[p] = "up" /\ toPub[p][s] > 0
        /\ toPub' = [toPub EXCEPT ![p][s] = @ - 1]
        /\ subs' = [subs EXCEPT ![p][s] = @ + 1]
        /\ UNCHANGED <<pub, sub, toSub, starts, lost>>

PubStop(p) ==
    /\ pub[p] = "up"
    /\ pub' = [pub EXCEPT ![p] = "down"]
    /\ subs' = [subs EXCEPT ![p] = Nobody]
    /\ toPub' = [toPub EXCEPT ![p] = Nobody]
    /\ lost' = {x \in lost : x[1] # p}
    /\ UNCHANGED <<sub, toSub, starts>>

(***************************************************************************)
(* MessageSubscriber.  One that is constructed again has another port and  *)
(* is another subscriber.                                                  *)
(***************************************************************************)
SubJoin(s) ==
    /\ sub[s] = "down"
    /\ sub' = [sub EXCEPT ![s] = "joined"]
    /\ UNCHANGED <<pub, subs, toPub, toSub, starts, lost>>

SubAnnounce(s) ==
    /\ sub[s] = "joined"
    /\ sub' = [sub EXCEPT ![s] = "up"]
    /\ SendSub(s)
    /\ UNCHANGED <<pub, subs, toSub, starts, lost>>

SubKeepsQuiet(s) ==   \* mutant: no second announcement
    \E p \in Pubs :
        /\ sub[s] = "up" /\ toSub[s][p] > 0
        /\ toSub' = [toSub EXCEPT ![s][p] = @ - 1]
        /\ UNCHANGED <<pub, sub, subs, toPub, starts, lost>>

SubAnnouncesTwice(s) ==   \* mutant: the datagram stays in the socket once
    \E p \in Pubs :
        /\ sub[s] = "up" /\ toSub[s][p] > 0 /\ toPub[p][s] < 9
        /\ SendSub(s)
        /\ \/ toSub' = [toSub EXCEPT ![s][p] = @ - 1]
           \/ UNCHANGED toSub
        /\ UNCHANGED <<pub, sub, subs, starts, lost>>

SubHears(s) ==
    \E p \in Pubs :
        /\ sub[s] = "up" /\ toSub[s][p] > 0
        /\ toSub' = [toSub EXCEPT ![s][p] = @ - 1]
        /\ SendSub(s)
        /\ UNCHANGED <<pub, sub, subs, starts, lost>>

SubStop(s) ==
    /\ sub[s] = "up"
    /\ sub' = [sub EXCEPT ![s] = "stopped"]
    /\ toSub' = [toSub EXCEPT ![s] = [p \in Pubs |-> 0]]
    /\ UNCHANGED <<pub, subs, toPub, starts, lost>>

(***************************************************************************)
(* The network.                                                            *)
(***************************************************************************)
Lose ==
    \E p \in Pubs, s \in Subs :
        /\ Cardinality(lost) < MaxLosses
        /\ \/ toPub[p][s] > 0 /\ toPub' = [toPub EXCEPT ![p][s] = @ - 1] /\ UNCHANGED toSub
           \/ toSub[s][p] > 0 /\ toSub' = [toSub EXCEPT ![s][p] = @ - 1] /\ UNCHANGED toPub
        /\ lost' = lost \cup {<<p, s>>}
        /\ UNCHANGED <<pub, sub, subs, starts>>

Next ==
    \/ \E p \in Pubs : PubJoin(p) \/ PubAnnounce(p) \/ PubHears(p) \/ PubStop(p)
    \/ \E s \in Subs : SubJoin(s) \/ SubAnnounce(s) \/ SubHears(s) \/ SubStop(s)
    \/ Lose

\* A loop that runs reads what its sockets have; nobody needs to stop or start.
Fairness ==
    /\ \A p \in Pubs : WF_vars(PubHears(p))
    /\ \A s \in Subs : WF_vars(SubHears(s))

Spec == Init /\ [][Next]_vars /\ Fairness
-----------------------------------------------------------------------------
Meet(p, s) == pub[p] = "up" /\ sub[s] = "up"

(* However the two constructors cross, a publisher and a subscriber that are *)
(* both up have met or will meet without further help: the publisher has the *)
(* address, or a copy of it waits for the publisher, or a copy of the        *)
(* publisher's announcement waits for the subscriber.  Joining before        *)
(* announcing and announcing again (message.hpp:72-75, 239-248) are both     *)
(* needed for it, and only a copy lost between these two breaks it: losses   *)
(* on other pairs and stops do not.                                          *)
PairsMeet ==
    \A p \in Pubs, s \in Subs :
        Meet(p, s) /\ <<p, s>> \notin lost =>
            subs[p][s] + toPub[p][s] + toSub[s][p] > 0

(* How often a publisher may notify one subscriber per message: message.hpp:69 *)
(* pushes without looking and nothing is removed, but a subscriber announces   *)
(* once and once more per publisher it hears of, so its entries, and what is   *)
(* under way to become one, never outnumber the publishers ever constructed    *)
(* and one.                                                                    *)
Total(f) == FoldFunction(LAMBDA a, b : a + b, 0, f)
EntriesAreBounded ==
    \A p \in Pubs, s \in Subs :
        subs[p][s] + toPub[p][s] + Total(toSub[s])
            <= Total(starts) + (IF sub[s] \in {"down", "joined"} THEN 0 ELSE 1)

(* Every pair that stays up and loses nothing meets in the end: the          *)
(* publisher's subs_ holds the subscriber's address.                         *)
Rendezvous ==
    \A p \in Pubs, s \in Subs :
        Meet(p, s) /\ <<p, s>> \notin lost
            ~> (subs[p][s] > 0 \/ ~Meet(p, s) \/ <<p, s>> \in lost)
=============================================================================
