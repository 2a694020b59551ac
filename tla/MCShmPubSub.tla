----------------------------- MODULE MCShmPubSub -----------------------------
EXTENDS ShmPubSub, TLC

(* Subscribers are interchangeable in the safety runs. *)
SubscriberSymmetry == Permutations(Subscribers)
=============================================================================
