----------------------------- MODULE BoundedFifo -----------------------------
(***************************************************************************)
(* What a closable bounded queue promises: items come out in the order in   *)
(* which they went in, each of them once, never more than MaxElems are      *)
(* inside, and nothing moves once the queue is closed.                      *)
(***************************************************************************)
EXTENDS Naturals, Sequences

CONSTANTS Item, Getter, MaxElems, NoItem

VARIABLES queue,    \* the items inside, oldest first
          closed,   \* TRUE once the queue is closed
          ret       \* ret[g]: what the last get of g returned

fifoVars == <<queue, closed, ret>>

Init ==
    /\ queue = <<>>
    /\ closed = FALSE
    /\ ret = [g \in Getter |-> NoItem]

Put(v) ==
    /\ ~closed
    /\ Len(queue) < MaxElems
    /\ queue' = Append(queue, v)
    /\ UNCHANGED <<closed, ret>>

Get(g) ==
    /\ ~closed
    /\ queue # <<>>
    /\ ret' = [ret EXCEPT ![g] = Head(queue)]
    /\ queue' = Tail(queue)
    /\ UNCHANGED closed

GetClosed(g) ==
    /\ closed
    /\ ret' = [ret EXCEPT ![g] = NoItem]
    /\ UNCHANGED <<queue, closed>>

Close ==
    /\ closed' = TRUE
    /\ UNCHANGED <<queue, ret>>

Next ==
    \/ \E v \in Item : Put(v)
    \/ \E g \in Getter : Get(g) \/ GetClosed(g)
    \/ Close

Spec == Init /\ [][Next]_fifoVars
=============================================================================
