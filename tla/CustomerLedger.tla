--------------------------- MODULE CustomerLedger ---------------------------
(***************************************************************************)
(* The consumer of TransactionCompleted in customer-service: the only code *)
(* that changes a balance.                                                 *)
(*                                                                         *)
(* Kafka hands the handler one event at a time, from any partition of the  *)
(* topic.  Debit, credit, the BalanceUpdated rows of the outbox and the    *)
(* mark in processed_events are one database transaction; `work` and       *)
(* `posted` are what that transaction sees before it commits.  A handler   *)
(* that throws is handed the same event again.                             *)
(***************************************************************************)
EXTENDS Naturals, Sequences, FiniteSets

CONSTANTS
  Account,     \* the accounts of customers_db, all of them active
  Txn,         \* transactions the saga completes
  Order,       \* what they may ask for
  Opening,     \* balances the accounts may start with
  Partition,   \* partitions of banking.transactions.completed
  Inexact,     \* pairs of balances whose difference doubles do not carry exactly
  NoPartition, \* the consumer is between two messages
  MaxCopies,   \* bound: events published for one transaction
  MaxFaults    \* bound: failed statements, lost answers and crashes

Types == {"deposit", "withdrawal", "transfer"}
Orders == [type : Types, source : Account, target : Account, amount : Nat \ {0}]

\* validateTransactionInput refuses a transfer from an account to itself.
ASSUME LedgerAssumption ==
  /\ IsFiniteSet(Account)
  /\ Order \subseteq Orders
  /\ \A o \in Order : o.type = "transfer" => o.source # o.target
  /\ Opening \subseteq Nat
  /\ Inexact \subseteq Nat \X Nat
  /\ NoPartition \notin Partition
  /\ MaxCopies \in Nat
  /\ MaxFaults \in Nat

VARIABLES
  order,      \* the transaction the events of each Txn carry
  log,        \* the topic: the events of each partition, in offset order
  position,   \* events of each partition handled by this process
  offset,     \* events of each partition whose offset is committed
  opening,    \* history: the balances at the start
  balance,    \* accounts.balance
  updates,    \* committed BalanceUpdated rows of each account, in order
  processed,  \* processed_events
  current,    \* the partition whose next event is in the handler
  stage,      \* where the handler stands
  work,       \* the balances its transaction sees
  posted,     \* the BalanceUpdated rows it inserts for each account
  faults      \* faults so far

topic == <<order, log>>
consumer == <<position, offset>>
database == <<balance, updates, processed>>
handler == <<current, stage, work, posted>>
vars == <<topic, consumer, opening, database, handler, faults>>

Event == Txn \X (1..MaxCopies)

Nothing == [a \in Account |-> <<>>]

-----------------------------------------------------------------------------
Init ==
  /\ order \in [Txn -> Order]
  /\ log = [p \in Partition |-> <<>>]
  /\ position = [p \in Partition |-> 0]
  /\ offset = [p \in Partition |-> 0]
  /\ opening \in [Account -> Opening]
  /\ balance = opening
  /\ updates = [a \in Account |-> <<>>]
  /\ processed = {}
  /\ current = NoPartition
  /\ stage = "idle"
  /\ work = opening
  /\ posted = Nothing
  /\ faults = 0

(* The topic *)

OnTopic(e) == \E p \in Partition : \E i \in DOMAIN log[p] : log[p][i] = e

\* The relay publishes TransactionCompleted, once or more; the partition is
\* chosen by the event id, so it is as good as any.
Announce(e, p) ==
  /\ ~OnTopic(e)
  /\ log' = [log EXCEPT ![p] = Append(@, e)]
  /\ UNCHANGED <<order, consumer, opening, database, handler, faults>>

HasNext(p) == position[p] < Len(log[p])
NextEvent(p) == log[p][position[p] + 1]
Terms(p) == order[NextEvent(p)[1]]

Advance(p) == position' = [position EXCEPT ![p] = @ + 1]

(* The handler *)

\* The client is released; what it had not committed is gone.
Rest ==
  /\ current' = NoPartition
  /\ stage' = "idle"
  /\ work' = balance'
  /\ posted' = Nothing

\* eachMessage: isProcessed runs first, on the pool.
NeverProcessed(e) == FALSE
IsProcessed(e) == e \in processed

Skip(p) ==
  /\ current = NoPartition
  /\ HasNext(p)
  /\ IsProcessed(NextEvent(p))
  /\ Advance(p)
  /\ UNCHANGED <<topic, offset, opening, database, handler, faults>>

BeginUpdate(p) ==
  /\ current = NoPartition
  /\ HasNext(p)
  /\ ~IsProcessed(NextEvent(p))
  /\ current' = p
  /\ stage' = IF Terms(p).type = "deposit" THEN "credit" ELSE "debit"
  /\ UNCHANGED <<topic, consumer, opening, database, work, posted, faults>>

Handled == NextEvent(current)
Asked == Terms(current)

\* The column is a DECIMAL(15,2), but balance::float is a double: the new
\* balance read back, plus or minus the amount, need not be the double of the
\* balance before, as 0.2 + 0.1 is not 0.3.  In that range the result is less
\* than half a cent off, so it is the balance before to the cent.
Reported(new, before) == [cents |-> before, exact |-> <<new, before>> \notin Inexact]

\* An UPDATE that returned a row, and the BalanceUpdated row made from it.
Update(a, new, previous) ==
  /\ work' = [work EXCEPT ![a] = new]
  /\ posted' = [posted EXCEPT ![a] =
                  << [previous |-> previous, new |-> new, of |-> Handled] >>]

\* The WHERE clause of the debit.
AlwaysCovers == TRUE
Covers == work[Asked.source] >= Asked.amount

\* The previous balance is derived as for a credit.
DebitReportedWrong ==
  /\ stage = "debit"
  /\ Covers
  /\ LET new == work[Asked.source] - Asked.amount
     IN  Update(Asked.source, new, Reported(new, new - Asked.amount))
  /\ stage' = IF Asked.type = "transfer" THEN "credit" ELSE "commit"
  /\ UNCHANGED <<topic, consumer, opening, database, current, faults>>

Debit ==
  /\ stage = "debit"
  /\ Covers
  /\ LET new == work[Asked.source] - Asked.amount
     IN  Update(Asked.source, new, Reported(new, new + Asked.amount))
  /\ stage' = IF Asked.type = "transfer" THEN "credit" ELSE "commit"
  /\ UNCHANGED <<topic, consumer, opening, database, current, faults>>

\* The withdrawal throws as a transfer does.
DebitNothingThrows ==
  /\ stage = "debit"
  /\ ~Covers
  /\ Asked.type = "withdrawal"
  /\ UNCHANGED <<topic, consumer, opening, database, faults>>
  /\ Rest

\* No row returned: the handler falls through to markProcessed.
DebitNothing ==
  /\ stage = "debit"
  /\ ~Covers
  /\ Asked.type = "withdrawal"
  /\ stage' = "commit"
  /\ UNCHANGED <<topic, consumer, opening, database, current, work, posted, faults>>

\* A transfer whose debit returned no row goes on to the credit.
DebitRefusedCredits ==
  /\ stage = "debit"
  /\ ~Covers
  /\ Asked.type = "transfer"
  /\ stage' = "credit"
  /\ UNCHANGED <<topic, consumer, opening, database, current, work, posted, faults>>

\* No row returned: the handler throws, and the event is delivered again.
DebitRefused ==
  /\ stage = "debit"
  /\ ~Covers
  /\ Asked.type = "transfer"
  /\ UNCHANGED <<topic, consumer, opening, database, faults>>
  /\ Rest

\* The credit runs on the pool and commits by itself.
CreditOnPool ==
  /\ stage = "credit"
  /\ LET new == work[Asked.target] + Asked.amount
     IN  /\ Update(Asked.target, new, Reported(new, new - Asked.amount))
         /\ balance' = [balance EXCEPT ![Asked.target] = new]
  /\ stage' = "commit"
  /\ UNCHANGED <<topic, consumer, opening, updates, processed, current, faults>>

Credit ==
  /\ stage = "credit"
  /\ LET new == work[Asked.target] + Asked.amount
     IN  Update(Asked.target, new, Reported(new, new - Asked.amount))
  /\ stage' = "commit"
  /\ UNCHANGED <<topic, consumer, opening, database, current, faults>>

\* The rows of the transaction become durable together.
Durable ==
  /\ balance' = work
  /\ updates' = [a \in Account |-> updates[a] \o posted[a]]
  /\ processed' = processed \cup {Handled}

Commit ==
  /\ stage = "commit"
  /\ Durable
  /\ Advance(current)
  /\ UNCHANGED <<topic, offset, opening, faults>>
  /\ Rest

Fault ==
  /\ faults < MaxFaults
  /\ faults' = faults + 1

\* The COMMIT was made but its answer is lost: the handler throws.
CommitLost ==
  /\ stage = "commit"
  /\ Fault
  /\ Durable
  /\ UNCHANGED <<topic, consumer, opening>>
  /\ Rest

\* A statement fails: ROLLBACK, and the handler throws.
HandlerFails ==
  /\ current # NoPartition
  /\ Fault
  /\ UNCHANGED <<topic, consumer, opening, database>>
  /\ Rest

CommitOffset(p) ==
  /\ offset[p] < position[p]
  /\ offset' = [offset EXCEPT ![p] = position[p]]
  /\ UNCHANGED <<topic, position, opening, database, handler, faults>>

\* The process dies; the next one starts from the committed offsets.
Crash ==
  /\ Fault
  /\ position' = offset
  /\ UNCHANGED <<topic, offset, opening, database>>
  /\ Rest

-----------------------------------------------------------------------------
Deliver == \E p \in Partition : Skip(p) \/ BeginUpdate(p)

HandlerStep == Debit \/ DebitNothing \/ DebitRefused \/ Credit \/ Commit

Next ==
  \/ \E e \in Event, p \in Partition : Announce(e, p)
  \/ Deliver
  \/ HandlerStep
  \/ CommitLost
  \/ HandlerFails
  \/ \E p \in Partition : CommitOffset(p)
  \/ Crash

Spec == Init /\ [][Next]_vars

\* The consumer goes on with some partition, and the handler with its event.
FairSpec == Spec /\ WF_vars(Deliver) /\ WF_vars(HandlerStep)

-----------------------------------------------------------------------------
(* Correctness *)

Stages == {"idle", "debit", "credit", "commit"}
Row == [previous : [cents : Nat, exact : BOOLEAN], new : Nat, of : Event]

\* Every variable stays in its range, no balance is below zero, and the
\* handler has an event exactly while its transaction is open.
TypeOK ==
  /\ order \in [Txn -> Order]
  /\ log \in [Partition -> Seq(Event)]
  /\ position \in [Partition -> Nat]
  /\ offset \in [Partition -> Nat]
  /\ \A p \in Partition : offset[p] <= position[p] /\ position[p] <= Len(log[p])
  /\ opening \in [Account -> Opening]
  /\ balance \in [Account -> Nat]
  /\ updates \in [Account -> Seq(Row)]
  /\ processed \subseteq Event
  /\ current \in Partition \cup {NoPartition}
  /\ stage \in Stages
  /\ (stage = "idle") <=> (current = NoPartition)
  /\ work \in [Account -> Nat]
  /\ posted \in [Account -> Seq(Row)]
  /\ faults \in 0..MaxFaults

\* The committed BalanceUpdated rows of an account are its whole history: to
\* the cent they lead from its opening balance to its balance without a gap,
\* whatever was delivered twice, rolled back or lost its answer.  The number
\* one row ends with and the number the next one starts from are equal only
\* when they are rounded: nothing is said of `exact`.
UpdatesChain ==
  \A a \in Account :
    LET u == updates[a] IN
      IF u = <<>> THEN balance[a] = opening[a]
      ELSE /\ u[1].previous.cents = opening[a]
           /\ u[Len(u)].new = balance[a]
           /\ \A i \in 1..(Len(u) - 1) : u[i].new = u[i + 1].previous.cents

RowsOf(e, a) == {i \in DOMAIN updates[a] : updates[a][i].of = e}
Posted(e, a) == \E i \in RowsOf(e, a) : RowsOf(e, a) = {i}

\* An event in processed_events changed each account it names once, both
\* accounts of a transfer or neither, and no event changed anything before.
PostedOncePerEvent ==
  \A e \in Event :
    LET o == order[e[1]]
        debits == o.type \in {"withdrawal", "transfer"}
        credits == o.type \in {"deposit", "transfer"}
    IN IF e \in processed
       THEN \/ /\ debits => Posted(e, o.source)
               /\ credits => Posted(e, o.target)
            \/ o.type = "withdrawal" /\ RowsOf(e, o.source) = {}
       ELSE \A a \in Account : RowsOf(e, a) = {}

\* What f assigns to the members of S altogether, counted coin by coin.
Total(f, S) == Cardinality(UNION {{x} \X (1..f[x]) : x \in S})

Amount == [e \in Event |-> order[e[1]].amount]

\* The deposits made, and the withdrawals that were not passed over.
PaidIn == {e \in processed : order[e[1]].type = "deposit"}
PaidOut == {e \in processed : /\ order[e[1]].type = "withdrawal"
                              /\ RowsOf(e, order[e[1]].source) # {}}

\* Money is neither made nor lost: the balances add up to what the accounts
\* opened with, plus the deposits and minus the withdrawals that took effect.
Conserved ==
  Total(balance, Account) + Total(Amount, PaidOut)
    = Total(opening, Account) + Total(Amount, PaidIn)

Settled == INSTANCE Settlement WITH terms <- [e \in Event |-> order[e[1]]]

\* The handler implements the atomic settlement of module Settlement.
SettlesAtomically == Settled!Spec

\* A transfer that its source does not cover is the next event of a partition.
Stuck ==
  \E p \in Partition :
    /\ HasNext(p)
    /\ Terms(p).type = "transfer"
    /\ balance[Terms(p).source] < Terms(p).amount

\* Every event is processed in the end, unless the consumer stays stuck for
\* ever at a transfer that is not covered.
SettledOrStuck ==
  \A e \in Event : [](OnTopic(e) => <>(e \in processed \/ []Stuck))

\* README.md:870: processed_events keeps the same event from being processed
\* twice, so a transaction changes an account once.
PostedOncePerTransaction ==
  \A a \in Account : \A i, j \in DOMAIN updates[a] :
    updates[a][i].of[1] = updates[a][j].of[1] => i = j
=============================================================================
