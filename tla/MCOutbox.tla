------------------------------ MODULE MCOutbox ------------------------------
(* The outbox with three rows and two possible overlapping calls of poll(). *)
EXTENDS Outbox

CONSTANTS r1, r2, r3, p1, p2

MCRow == {r1, r2, r3}
MCLoop == {p1, p2}
OneLoop == {p1}
Nothing == {}
OneRow == {r1}
=============================================================================
