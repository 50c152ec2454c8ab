----------------------------- MODULE Settlement -----------------------------
(***************************************************************************)
(* What customer-service promises of the completed transactions: each      *)
(* event takes effect at most once and in a single step, on both accounts  *)
(* of a transfer or on none, and no balance is ever overdrawn.             *)
(***************************************************************************)
EXTENDS Naturals

CONSTANTS Account, Event

VARIABLES
  terms,     \* the transaction each event carries
  balance,   \* accounts.balance
  processed  \* the events that have been dealt with

vars == <<terms, balance, processed>>

Debits(o) == o.type \in {"withdrawal", "transfer"}
Credits(o) == o.type \in {"deposit", "transfer"}

Covered(o) == Debits(o) => balance[o.source] >= o.amount

\* The balances once o has taken effect.
After(o) ==
  [a \in Account |->
     IF Debits(o) /\ a = o.source THEN balance[a] - o.amount
     ELSE IF Credits(o) /\ a = o.target THEN balance[a] + o.amount
     ELSE balance[a]]

Init ==
  /\ balance \in [Account -> Nat]
  /\ processed = {}

Settle(e) ==
  /\ Covered(terms[e])
  /\ balance' = After(terms[e])

\* A withdrawal the account no longer covers is passed over; a transfer waits.
PassOver(e) ==
  /\ terms[e].type = "withdrawal"
  /\ ~Covered(terms[e])
  /\ UNCHANGED balance

Next ==
  \E e \in Event \ processed :
    /\ Settle(e) \/ PassOver(e)
    /\ processed' = processed \cup {e}
    /\ UNCHANGED terms

Spec == Init /\ [][Next]_vars
=============================================================================
