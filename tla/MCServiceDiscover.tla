-------------------------- MODULE MCServiceDiscover --------------------------
(***************************************************************************)
(* Two publishers that may stop and start again and one subscriber, whose  *)
(* answer to one publisher also reaches the other.  Subscribers share no   *)
(* state with each other, so a second one adds no case.                    *)
(***************************************************************************)
EXTENDS ServiceDiscover

CONSTANTS p1, p2, s1

MCPubs == {p1, p2}
MCSubs == {s1}
MCMaxStarts == [p \in MCPubs |-> 2]
=============================================================================
