---------------------------- MODULE MCProjection ----------------------------
(* Two client requests that may share a document, an account, and one or    *)
(* two withdrawals, which it covers one by one but not together.            *)
EXTENDS Projection, TLC

CONSTANTS c1, c2, e1, d1, d2, a1, w1, w2

MCClient == {c1, c2}
OneClient == {c1}
MCEmail == {e1}
MCDocument == {d1, d2}
OneDocument == {d1}
MCAccount == {a1}
MCWithdrawal == {w1, w2}
OneWithdrawal == {w1}
MCOpening == {0, 3}
MCAmount == [w \in MCWithdrawal |-> 2]
OneAmount == [w \in OneWithdrawal |-> 2]
=============================================================================
