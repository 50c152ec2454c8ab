----------------------------- MODULE Projection -----------------------------
(***************************************************************************)
(* What transaction-service knows of the accounts of customer-service.     *)
(*                                                                         *)
(* One consumer seeds the projection of a new account and requests its     *)
(* initial deposit; another overwrites the balance with what each          *)
(* BalanceUpdated event says.  Both run their statements on the pool, so a *)
(* crash leaves the statements made so far.  The saga compares withdrawals *)
(* with the projection and looks the target of a deposit up in it, and the *)
(* ledger of customer-service settles what the saga completed.  Of both    *)
(* only the outcomes are here: TransactionService and CustomerLedger have  *)
(* the statements.                                                         *)
(*                                                                         *)
(* A row of an outbox is published, and handled under an event id of its   *)
(* own, once more for every fault that hits the relay.                     *)
(***************************************************************************)
EXTENDS Accounts

CONSTANTS
  Withdrawal, \* withdrawals requested
  Amount,     \* what each withdrawal takes from the account it names
  None        \* no row, and no event in a handler

ASSUME ProjectionAssumption ==
  /\ Amount \in [Withdrawal -> Nat \ {0}]
  /\ None \notin Nat

VARIABLES
  source,     \* the account of each withdrawal
  created,    \* the AccountCreated events published
  posted,     \* the balances of the committed BalanceUpdated rows, in order
  repeated,   \* the further BalanceUpdated events published for these rows
  processed,  \* processed_events
  opener,     \* the account and copy in the AccountCreated handler, and its stage
  updater,    \* the account and row in the BalanceUpdated handler, and its stage
  projection, \* account_projections.balance
  deposit,    \* rows of transactions with the key of the initial deposit
  asked,      \* committed TransactionRequested rows of the initial deposit
  pending,    \* TransactionRequested events of it the saga has still to handle
  owed,       \* TransactionCompleted events of it the ledger has still to settle
  credited,   \* how often it was credited
  rejected,   \* how often it was rejected
  verdict,    \* what became of each withdrawal
  troubled,   \* history: accounts a fault hit after their event was marked
  mishaps,    \* history: the faults that hit the deposit of each account since
  reached,    \* history: the last row of posted written to the projection
  disorder    \* history: accounts with a write after one of a later row

topics == <<created, posted, repeated>>
handlers == <<opener, updater>>
deposits == <<deposit, asked>>
settling == <<pending, owed, credited, rejected, mishaps>>
withdrawals == <<source, verdict>>
bank == <<settling, withdrawals>>
writes == <<projection, reached, disorder>>
vars == <<accountsVars, topics, handlers, processed, deposits, bank, writes, troubled>>

Copies == 1..(1 + MaxFaults)
Opened(a, n) == <<"AccountCreated", a, n>>
Updated(a, i, n) == <<"BalanceUpdated", a, i, n>>
Update == repeated \cup (UNION {{Updated(a, i, 1) : i \in DOMAIN posted[a]} : a \in Account})
Idle == [of |-> <<None>>, stage |-> "idle"]

\* accounts.balance; an account starts with nothing.
Balance(a) == IF posted[a] = <<>> THEN 0 ELSE posted[a][Len(posted[a])]

-----------------------------------------------------------------------------
Init ==
  /\ AccountsInit
  /\ source \in [Withdrawal -> Account]
  /\ created = {}
  /\ posted = [a \in Account |-> <<>>]
  /\ repeated = {}
  /\ processed = {}
  /\ opener = Idle
  /\ updater = Idle
  /\ projection = [a \in Account |-> None]
  /\ deposit = [a \in Account |-> 0]
  /\ asked = [a \in Account |-> 0]
  /\ pending = [a \in Account |-> 0]
  /\ owed = [a \in Account |-> 0]
  /\ credited = [a \in Account |-> 0]
  /\ rejected = [a \in Account |-> 0]
  /\ verdict = [w \in Withdrawal |-> "requested"]
  /\ troubled = {}
  /\ mishaps = [a \in Account |-> 0]
  /\ reached = [a \in Account |-> 0]
  /\ disorder = {}

CustomerStep ==
  /\ AccountsNext
  /\ UNCHANGED <<topics, handlers, processed, deposits, bank, writes, troubled>>

\* The relay publishes an announced account, and again after a fault.
Relayed(a) ==
  /\ a \in announced
  /\ \E n \in Copies :
       /\ {m \in Copies : Opened(a, m) \in created} = 1..(n - 1)
       /\ created' = created \cup {Opened(a, n)}
       /\ IF n = 1 THEN UNCHANGED faults ELSE Fault
  /\ UNCHANGED <<inputs, requests, posted, repeated, handlers, processed, deposits, bank,
                 writes, troubled>>

\* ON CONFLICT DO UPDATE overwrites whatever balance there is.
UpsertIfAbsent(a, balance) ==
  projection' = [projection EXCEPT ![a] = IF @ = None THEN balance ELSE @]

Upsert(a, balance) == projection' = [projection EXCEPT ![a] = balance]

\* The balance of row i of posted is written; 0 stands for the seed.
Write(a, balance, i) ==
  /\ Upsert(a, balance)
  /\ reached' = [reached EXCEPT ![a] = IF i > @ THEN i ELSE @]
  /\ disorder' = IF i < reached[a] THEN disorder \cup {a} ELSE disorder

-----------------------------------------------------------------------------
(* AccountCreated *)

\* A processed event is skipped, so only the others matter to a handler; they
\* stay on the topic, because a handler that returns has marked its event.
OpenAccountMarked(a, n) ==
  /\ opener = Idle
  /\ Opened(a, n) \in created \ processed
  /\ opener' = [of |-> <<a, n>>, stage |-> "seed"]
  /\ processed' = processed \cup {Opened(a, n)}
  /\ UNCHANGED <<accountsVars, topics, updater, deposits, bank, writes, troubled>>

OpenAccount(a, n) ==
  /\ opener = Idle
  /\ Opened(a, n) \in created \ processed
  /\ opener' = [of |-> <<a, n>>, stage |-> "seed"]
  /\ UNCHANGED <<accountsVars, topics, updater, processed, deposits, bank, writes, troubled>>

OpenerAt(stage) == opener.stage = stage
OpenerGoes(stage) ==
  opener' = IF stage = "idle" THEN Idle ELSE [opener EXCEPT !.stage = stage]
Subject == opener.of[1]

Seed ==
  /\ OpenerAt("seed")
  /\ Write(Subject, 0, 0)
  /\ OpenerGoes("mark")
  /\ UNCHANGED <<accountsVars, topics, updater, processed, deposits, bank, troubled>>

\* The event is marked before the deposit it asks for is requested.
MarkOpened ==
  /\ OpenerAt("mark")
  /\ processed' = processed \cup {Opened(Subject, opener.of[2])}
  /\ OpenerGoes(IF initial[Subject] > 0 THEN "lookup" ELSE "idle")
  /\ UNCHANGED <<accountsVars, topics, updater, deposits, bank, writes, troubled>>

\* findByIdempotencyKey, and the UNIQUE constraint on the key of the account.
AlwaysFree(a) == TRUE
KeyFree(a) == deposit[a] = 0

LookupDeposit ==
  /\ OpenerAt("lookup")
  /\ OpenerGoes(IF KeyFree(Subject) THEN "create" ELSE "idle")
  /\ UNCHANGED <<accountsVars, topics, updater, processed, deposits, bank, writes, troubled>>

\* The row of the transaction commits on the pool.
CreateDeposit ==
  /\ OpenerAt("create")
  /\ KeyFree(Subject)
  /\ deposit' = [deposit EXCEPT ![Subject] = @ + 1]
  /\ OpenerGoes("commit")
  /\ UNCHANGED <<accountsVars, topics, updater, processed, asked, bank, writes, troubled>>

More(count, a) == [count EXCEPT ![a] = @ + 1]
Less(count, a) == [count EXCEPT ![a] = @ - 1]

Ask(a) == asked' = More(asked, a) /\ pending' = More(pending, a)

\* The outbox row and the COMMIT; the relay publishes the row.
RequestDeposit ==
  /\ OpenerAt("commit")
  /\ Ask(Subject)
  /\ OpenerGoes("idle")
  /\ UNCHANGED <<accountsVars, topics, updater, processed, deposit, owed, credited, rejected,
                 mishaps, withdrawals, writes, troubled>>

\* A failed statement, a lost answer to the COMMIT or a crash.  Before the mark
\* Kafka delivers again; after it the error is swallowed, or the event is
\* skipped when it is delivered.
Marked == opener.stage \in {"lookup", "create", "commit"}

OpenerStops ==
  /\ opener' = Idle
  /\ troubled' = IF Marked THEN troubled \cup {Subject} ELSE troubled
  /\ \/ UNCHANGED <<asked, pending>>
     \/ OpenerAt("commit") /\ Ask(Subject)
  /\ UNCHANGED <<deposit, owed, credited, rejected, mishaps>>

OpenerFails ==
  /\ opener # Idle
  /\ Fault
  /\ OpenerStops
  /\ UNCHANGED <<inputs, requests, topics, updater, processed, withdrawals, writes>>

-----------------------------------------------------------------------------
(* BalanceUpdated *)

\* A row of the ledger is published again.
UpdatedAgain(a, i) ==
  /\ Fault
  /\ \E n \in Copies \ {1} :
       /\ {m \in Copies \ {1} : Updated(a, i, m) \in repeated} = 2..(n - 1)
       /\ repeated' = repeated \cup {Updated(a, i, n)}
  /\ UNCHANGED <<inputs, requests, created, posted, handlers, processed, deposits, bank,
                 writes, troubled>>

\* Partitions are chosen by event id, so any event may be next.
UpdateAccount(a, i, n) ==
  /\ updater = Idle
  /\ Updated(a, i, n) \in Update \ processed
  /\ updater' = [of |-> <<a, i, n>>, stage |-> "write"]
  /\ UNCHANGED <<accountsVars, topics, opener, processed, deposits, bank, writes, troubled>>

WriteBalance ==
  /\ updater.stage = "write"
  /\ LET a == updater.of[1]  i == updater.of[2] IN Write(a, posted[a][i], i)
  /\ updater' = [updater EXCEPT !.stage = "mark"]
  /\ UNCHANGED <<accountsVars, topics, opener, processed, deposits, bank, troubled>>

MarkUpdated ==
  /\ updater.stage = "mark"
  /\ processed' = processed \cup {Updated(updater.of[1], updater.of[2], updater.of[3])}
  /\ updater' = Idle
  /\ UNCHANGED <<accountsVars, topics, opener, deposits, bank, writes, troubled>>

UpdaterFails ==
  /\ updater # Idle
  /\ Fault
  /\ updater' = Idle
  /\ UNCHANGED <<inputs, requests, topics, opener, processed, deposits, bank, writes, troubled>>

\* The process dies, with both handlers.
ServiceCrash ==
  /\ opener # Idle
  /\ updater # Idle
  /\ Fault
  /\ OpenerStops
  /\ updater' = Idle
  /\ UNCHANGED <<inputs, requests, topics, processed, withdrawals, writes>>

-----------------------------------------------------------------------------
(* The saga and the ledger *)

\* The saga completes a withdrawal when the projection covers it.
CheckFunds(w) ==
  /\ verdict[w] = "requested"
  /\ LET held == projection[source[w]]
         enough == held # None /\ held >= Amount[w]
     IN  verdict' = [verdict EXCEPT ![w] = IF enough THEN "completed" ELSE "rejected"]
  /\ UNCHANGED <<accountsVars, topics, handlers, processed, deposits, settling, source,
                 writes, troubled>>

Post(a, balance) == posted' = [posted EXCEPT ![a] = Append(@, balance)]

\* updateBalance debits what the balance covers, and nothing otherwise.
Settle(w) ==
  /\ verdict[w] = "completed"
  /\ LET a == source[w]
         covered == Balance(a) >= Amount[w]
     IN  /\ verdict' = [verdict EXCEPT ![w] = IF covered THEN "debited" ELSE "uncovered"]
         /\ IF covered THEN Post(a, Balance(a) - Amount[w]) ELSE UNCHANGED posted
  /\ UNCHANGED <<accountsVars, created, repeated, handlers, processed, deposits, settling,
                 source, writes, troubled>>

\* The saga completes a deposit when the projection has its target.
CheckTarget(a) ==
  /\ pending[a] > 0
  /\ pending' = Less(pending, a)
  /\ IF projection[a] # None
     THEN owed' = More(owed, a) /\ UNCHANGED rejected
     ELSE rejected' = More(rejected, a) /\ UNCHANGED owed
  /\ UNCHANGED <<accountsVars, topics, handlers, processed, deposits, credited, mishaps,
                 withdrawals, writes, troubled>>

Mishap(a) == Fault /\ mishaps' = More(mishaps, a)

\* The outer catch rejects the deposit after any failed statement, for good,
\* and after a COMMIT of the completion whose answer is lost as well.
CatchRejects(a) ==
  /\ pending[a] > 0
  /\ Mishap(a)
  /\ pending' = Less(pending, a)
  /\ rejected' = More(rejected, a)
  /\ \/ UNCHANGED owed
     \/ projection[a] # None /\ owed' = More(owed, a)
  /\ UNCHANGED <<inputs, requests, topics, handlers, processed, deposits, credited,
                 withdrawals, writes, troubled>>

\* The ledger credits every TransactionCompleted event once.
SettleDeposit(a) ==
  /\ owed[a] > 0
  /\ owed' = Less(owed, a)
  /\ credited' = More(credited, a)
  /\ Post(a, Balance(a) + initial[a])
  /\ UNCHANGED <<accountsVars, created, repeated, handlers, processed, deposits, pending,
                 rejected, mishaps, withdrawals, writes, troubled>>

\* A TransactionRequested or a TransactionCompleted row of it is published again,
\* or the saga, which died before it marked the event, is sent it again.
DepositAgain(a) ==
  /\ Mishap(a)
  /\ \/ asked[a] > 0 /\ pending' = More(pending, a) /\ UNCHANGED owed
     \/ owed[a] + credited[a] > 0 /\ owed' = More(owed, a) /\ UNCHANGED pending
  /\ UNCHANGED <<inputs, requests, topics, handlers, processed, deposits, credited, rejected,
                 withdrawals, writes, troubled>>

-----------------------------------------------------------------------------
Opener == Seed \/ MarkOpened \/ LookupDeposit \/ CreateDeposit \/ RequestDeposit
Updater == WriteBalance \/ MarkUpdated

Next ==
  \/ CustomerStep
  \/ \E a \in Account :
       Relayed(a) \/ CheckTarget(a) \/ CatchRejects(a) \/ SettleDeposit(a) \/ DepositAgain(a)
  \/ \E a \in Account, n \in Copies : OpenAccount(a, n)
  \/ \E a \in Account : \E i \in DOMAIN posted[a] :
       UpdatedAgain(a, i) \/ \E n \in Copies : UpdateAccount(a, i, n)
  \/ Opener \/ OpenerFails
  \/ Updater \/ UpdaterFails
  \/ ServiceCrash
  \/ \E w \in Withdrawal : CheckFunds(w) \/ Settle(w)

Spec == Init /\ [][Next]_vars

\* The relay publishes what is announced, each consumer goes on with what is
\* left on its topic, and the saga and the ledger handle what they are sent.
FairSpec ==
  /\ Spec
  /\ \A a \in Account :
       /\ WF_vars(Opened(a, 1) \notin created /\ Relayed(a))
       /\ \A n \in Copies : SF_vars(OpenAccount(a, n))
       /\ WF_vars(CheckTarget(a) \/ SettleDeposit(a))
  /\ WF_vars(Opener)
  /\ WF_vars(Updater)

-----------------------------------------------------------------------------
(* Correctness *)

Verdicts == {"requested", "completed", "rejected", "debited", "uncovered"}

\* Every variable stays in its range, no balance is negative, and only
\* published events are processed.
TypeOK ==
  /\ AccountsTypeOK
  /\ source \in [Withdrawal -> Account]
  /\ created \subseteq {Opened(a, n) : a \in announced \cap Account, n \in Copies}
  /\ posted \in [Account -> Seq(Nat)]
  /\ repeated \subseteq
       UNION {{Updated(a, i, n) : i \in DOMAIN posted[a], n \in Copies} : a \in Account}
  /\ processed \subseteq created \cup Update
  /\ opener.stage \in {"idle", "seed", "mark", "lookup", "create", "commit"}
  /\ opener = Idle \/ Opened(Subject, opener.of[2]) \in created
  /\ updater.stage \in {"idle", "write", "mark"}
  /\ updater = Idle \/ Updated(updater.of[1], updater.of[2], updater.of[3]) \in Update
  /\ projection \in [Account -> Nat \cup {None}]
  /\ deposit \in [Account -> Nat]
  /\ asked \in [Account -> Nat]
  /\ pending \in [Account -> Nat]
  /\ owed \in [Account -> Nat]
  /\ credited \in [Account -> Nat]
  /\ rejected \in [Account -> Nat]
  /\ mishaps \in [Account -> Nat]
  /\ verdict \in [Withdrawal -> Verdicts]
  /\ troubled \subseteq Account
  /\ reached \in [Account -> Nat]
  /\ disorder \subseteq Account

\* However often AccountCreated is published and delivered, an account asks for
\* its initial deposit once, and, once its event is handled, it has asked unless
\* a fault came between the mark and the request.  What it asked for is credited
\* or rejected once, and once more only for each fault that hit it, because the
\* ids of the events tell neither two copies of a row nor two outcomes apart.
\* And only such a fault has it rejected: the account is in the projection by
\* the time the saga looks for it.
OneInitialDeposit ==
  \A a \in Account :
    /\ asked[a] <= 1
    /\ credited[a] + rejected[a] <= asked[a] + mishaps[a]
    /\ rejected[a] <= mishaps[a]
    /\ (/\ \E n \in Copies : Opened(a, n) \in processed
        /\ initial[a] > 0 /\ opener = Idle /\ a \notin troubled) => asked[a] = 1

\* A projection holds nothing, the seed, or a balance the account once had;
\* and when all its BalanceUpdated events are handled it holds the balance of
\* the account, unless they, or the seed, were handled out of order.
ProjectionFollows ==
  \A a \in Account :
    /\ projection[a] \in {None, 0} \cup {posted[a][i] : i \in DOMAIN posted[a]}
    /\ (/\ projection[a] # None
        /\ \A i \in DOMAIN posted[a], n \in Copies :
             Updated(a, i, n) \in Update => Updated(a, i, n) \in processed
        /\ a \notin disorder) => projection[a] = Balance(a)

\* An account that was announced is projected, and its initial deposit is
\* credited or rejected, crashes and failed statements notwithstanding, unless
\* one of them came between the mark and the request.
EveryAccountOpens ==
  \A a \in Account :
    a \in announced ~>
      /\ projection[a] # None
      /\ initial[a] = 0 \/ credited[a] > 0 \/ rejected[a] > 0 \/ a \in troubled

\* README.md:698: a withdrawal without sufficient funds is rejected, so what
\* the saga completed is debited.
CompletedIsCovered == \A w \in Withdrawal : verdict[w] # "uncovered"
=============================================================================
