--------------------------- MODULE MCExplanations ---------------------------
(* One transaction, two events about it and a request, for two slots.       *)
EXTENDS Explanations

CONSTANTS t1, e1, e2, r1

MCTxn == {t1}
MCEvent == {e1, e2}
MCRequest == {r1}
MCTexts == {{"description"}, {"reason"}}
=============================================================================
