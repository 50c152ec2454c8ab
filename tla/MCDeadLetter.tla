---------------------------- MODULE MCDeadLetter ----------------------------
(* Two instances of a service, one event in the care of DLQHandler and one  *)
(* in that of KafkaDLQHandler.                                              *)
EXTENDS DeadLetter

CONSTANTS p1, p2, e1, k1

MCProcess == {p1, p2}
MCEvent == {e1, k1}
MCTopic == {k1}
=============================================================================
