---------------------------- MODULE MCEventStore ----------------------------
(* Two writers of one account, with a snapshot every second version. *)
EXTENDS EventStore, TLC

CONSTANTS w1, w2

MCWriter == {w1, w2}
MCAmount == {1}
MCSymmetry == Permutations(MCWriter)
=============================================================================
