------------------------------ MODULE Mailboxes ------------------------------
(***************************************************************************)
(* What publishing on a topic promises.  Every reader has a mailbox for one  *)
(* message, which a newer one replaces.  A message reaches every member of   *)
(* the topic, unless a reader is joining just then, until the topic is split *)
(* (which takes more than readers that join: one must leave meanwhile); each *)
(* reader is given a message once at most and never an older one after a     *)
(* newer one; and a reader that was told to stop is given one more message   *)
(* at most.                                                                  *)
(***************************************************************************)
EXTENDS Naturals

CONSTANT Reader

VARIABLES members,  \* the readers whose mailboxes are written to
          joining,  \* the readers on their way to become members
          split,    \* TRUE once members may be left out
          newest,   \* the number of the newest message
          slot,     \* slot[r]: the message in the mailbox of r, or Empty
          hand,     \* hand[r]: the message r has taken out, or Empty
          seen,     \* seen[r]: the last message r was given
          phase     \* phase[r]: "shut", "open", told to stop ("closing"), "closed"

boxVars == <<members, joining, split, newest, slot, hand, seen, phase>>

Empty == 0

Init ==
    /\ members = {} /\ joining = {} /\ split = FALSE /\ newest = 0
    /\ slot = [r \in Reader |-> Empty] /\ hand = [r \in Reader |-> Empty]
    /\ seen = [r \in Reader |-> Empty]
    /\ phase = [r \in Reader |-> "shut"]

(* The readers in S are told to stop; who holds no message may be done at once. *)
Told(S) ==
    \E done \in SUBSET {r \in S : hand[r] = Empty} :
        phase' = [r \in Reader |-> IF r \in S /\ phase[r] = "open"
                                   THEN IF r \in done THEN "closed" ELSE "closing"
                                   ELSE phase[r]]

BeginJoin(r) ==
    /\ phase[r] = "shut" /\ r \notin members
    /\ joining' = joining \cup {r}
    /\ UNCHANGED <<members, split, newest, slot, hand, seen, phase>>

EndJoin(r) ==
    /\ r \in joining
    /\ joining' = joining \ {r}
    /\ members' = members \cup {r}
    /\ UNCHANGED <<split, newest, slot, hand, seen, phase>>

Open(r) ==
    /\ phase[r] = "shut" /\ r \notin joining
    /\ phase' = [phase EXCEPT ![r] = "open"]
    /\ UNCHANGED <<members, joining, split, newest, slot, hand, seen>>

Post(S) ==
    /\ S \subseteq members \cup joining
    /\ S = members \/ joining # {} \/ split
    /\ newest' = newest + 1
    /\ slot' = [r \in Reader |-> IF r \in S THEN newest + 1 ELSE slot[r]]
    /\ UNCHANGED <<members, joining, split, hand, seen, phase>>

Split ==
    /\ split' = TRUE
    /\ UNCHANGED <<members, joining, newest, slot, hand, seen, phase>>

Tell(S) ==
    /\ split /\ S \subseteq members \cup joining
    /\ Told(S)
    /\ UNCHANGED <<members, joining, split, newest, slot, hand, seen>>

Leave(r) ==
    /\ split' = (split \/ joining # {})
    /\ members' = members \ {r} \/ (split' /\ members' = members)
    /\ Told({r})
    /\ UNCHANGED <<joining, newest, slot, hand, seen>>

Take(r) ==
    /\ phase[r] \in {"open", "closing"}
    /\ hand[r] = Empty /\ slot[r] # Empty
    /\ hand' = [hand EXCEPT ![r] = slot[r]]
    /\ slot' = [slot EXCEPT ![r] = Empty]
    /\ UNCHANGED <<members, joining, split, newest, seen, phase>>

Give(r) ==
    /\ phase[r] \in {"open", "closing"}
    /\ hand[r] > seen[r]
    /\ seen' = [seen EXCEPT ![r] = hand[r]]
    /\ hand' = [hand EXCEPT ![r] = Empty]
    /\ phase' = [phase EXCEPT ![r] = IF @ = "closing" THEN "closed" ELSE @]
    /\ UNCHANGED <<members, joining, split, newest, slot>>

(* Nothing is left to be given. *)
Quit(r) ==
    /\ phase[r] = "closing" /\ hand[r] = Empty /\ slot[r] = Empty
    /\ phase' = [phase EXCEPT ![r] = "closed"]
    /\ UNCHANGED <<members, joining, split, newest, slot, hand, seen>>

Next ==
    \/ \E r \in Reader : BeginJoin(r) \/ EndJoin(r) \/ Open(r) \/ Leave(r) \/ Take(r) \/ Give(r) \/ Quit(r)
    \/ \E S \in SUBSET Reader : Post(S) \/ Tell(S)
    \/ Split

Spec == Init /\ [][Next]_boxVars
=============================================================================
