--------------------------- MODULE MCRateLimiter ---------------------------
(* Two instances that share the limit of one key. *)
EXTENDS RateLimiter, TLC

CONSTANTS p1, p2

MCProcess == {p1, p2}
MCSymmetry == Permutations(MCProcess)
=============================================================================
