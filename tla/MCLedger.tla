------------------------------ MODULE MCLedger ------------------------------
(* customer-service with two accounts and two transactions. *)
EXTENDS CustomerLedger

CONSTANTS a, b, t1, t2, p1, p2

MCAccount == {a, b}
MCTxn == {t1, t2}
OneTxn == {t1}
TwoPartitions == {p1, p2}
OnePartition == {p1}

Deposit(to, n) == [type |-> "deposit", source |-> to, target |-> to, amount |-> n]
Withdrawal(from, n) == [type |-> "withdrawal", source |-> from, target |-> from, amount |-> n]
Transfer(from, to, n) == [type |-> "transfer", source |-> from, target |-> to, amount |-> n]

MCOrder == {Deposit(a, 1), Withdrawal(a, 2), Transfer(a, b, 2), Transfer(b, a, 1)}
OneOrder == {Deposit(a, 1)}
MCOpening == {1}

\* A credit that leaves 2 was made from 1, and a debit that leaves 0 from 2;
\* neither comes out exactly.
MCInexact == {<<2, 1>>, <<0, 2>>}
=============================================================================
