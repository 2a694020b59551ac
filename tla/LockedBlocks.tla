---------------------------- MODULE LockedBlocks ----------------------------
(***************************************************************************)
(* What a block pool with single-writer/multi-reader blocks promises its    *)
(* users: a block is written only by the writer that holds it, nobody       *)
(* begins to read a block that is being written, and nobody writes a block  *)
(* that somebody is reading, unless the block has lost its lock while it    *)
(* was read.  The ring of c/20181104_dilu_spmc_atomic implements it.         *)
(***************************************************************************)

CONSTANTS Block,    \* the blocks of the pool
          Reader,   \* the processes that read
          Value     \* what a block may contain

VARIABLES writing,  \* the blocks that are being written
          reading,  \* reading[r]: the set of blocks r is reading (at most one)
          content,  \* content[b]: what block b contains
          lost      \* the blocks that have lost their lock

lbVars == <<writing, reading, content, lost>>

Readers(b) == {r \in Reader : b \in reading[r]}

Init ==
    /\ writing = {}
    /\ reading = [r \in Reader |-> {}]
    /\ content \in [Block -> Value]
    /\ lost = {}

BeginWrite(b) ==
    /\ b \notin writing
    /\ Readers(b) = {} \/ b \in lost
    /\ writing' = writing \cup {b}
    /\ UNCHANGED <<reading, content, lost>>

Write(b, v) ==
    /\ b \in writing
    /\ content' = [content EXCEPT ![b] = v]
    /\ UNCHANGED <<writing, reading, lost>>

EndWrite(b) ==
    /\ b \in writing
    /\ writing' = writing \ {b}
    /\ UNCHANGED <<reading, content, lost>>

BeginRead(r, b) ==
    /\ reading[r] = {}
    /\ b \notin writing
    /\ reading' = [reading EXCEPT ![r] = {b}]
    /\ UNCHANGED <<writing, content, lost>>

EndRead(r) ==
    /\ reading[r] # {}
    /\ reading' = [reading EXCEPT ![r] = {}]
    /\ UNCHANGED <<writing, content, lost>>

LoseLock(b) ==
    /\ b \notin writing /\ Readers(b) # {}
    /\ lost' = lost \cup {b}
    /\ UNCHANGED <<writing, reading, content>>

Next ==
    \/ \E b \in Block : BeginWrite(b) \/ EndWrite(b) \/ LoseLock(b)
    \/ \E b \in Block, v \in Value : Write(b, v)
    \/ \E r \in Reader, b \in Block : BeginRead(r, b)
    \/ \E r \in Reader : EndRead(r)

Spec == Init /\ [][Next]_lbVars
=============================================================================
