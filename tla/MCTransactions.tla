--------------------------- MODULE MCTransactions ---------------------------
(* transaction-service with two requests, which may share a key. *)
EXTENDS TransactionService

CONSTANTS r1, r2, k1, k2

MCRequest == {r1, r2}
MCKey == {k1, k2}
EveryFault == FaultKinds
=============================================================================
