# A TLA+ model of the banking platform

The platform is a set of NestJS services that share no database: `customer-service` keeps clients,
accounts and balances, `transaction-service` accepts and decides transactions, `ai-service` explains
them, and two gateways stand in front. They talk through Kafka topics, written by a transactional
outbox in each service. The money is right only if this pipeline is right:

    POST /transactions                       TransactionCompleted
      -> requestTransaction -> outbox -> Kafka -> saga -> outbox -> Kafka -> ledger
                                                   ^                          |
    POST /accounts -> AccountCreated -> account projection <-- BalanceUpdated +
                                        (and the initial deposit)

Paths below are relative to `src/packages/`.

## Inventory

| Component | State | Operations | What must be right | Module |
|---|---|---|---|---|
| Transactional outbox (`shared/src/outbox`) | table `outbox`; `isPollRunning`, the LISTEN connection, a snapshot of pending rows | `insert` in the writer's transaction, `start`, `setupListener`, `poll` (fetch, publish, mark, record a failure, clean) | committed rows reach the topic, others never; duplicates only for a fault; causal order; nothing starves | `Outbox` |
| Transaction requests (`transaction-service/src/services`) | table `transactions` | `requestTransaction` | one transaction per idempotency key; accepted means decided | `TransactionService` |
| Saga (`transaction-service/src/saga`) | `transactions.status`, `processed_events`, outcome rows | the consumer of TransactionRequested, `rejectTransaction`, the fund check | one outcome per event; the status agrees with it; what it completes is covered | `TransactionService`, `Projection` |
| Ledger (`customer-service/src/subscribers`) | `accounts.balance`, `processed_events`, BalanceUpdated rows | the consumer of TransactionCompleted | atomic, once per event, never overdrawn, money conserved, full history, not stuck | `CustomerLedger` |
| Clients and accounts (`customer-service/src/services`) | `clients`, `accounts` | `createClient`, `createAccount` | one client per email; no account without its client; what is announced is stored | `Accounts` |
| Projection and initial deposit (`transaction-service/src/subscribers`) | `account_projections`, `processed_events` | the consumers of AccountCreated and BalanceUpdated | the projection follows the ledger; each account asks for its initial deposit once, and gets an answer | `Projection` |
| Event sourcing (`shared/src/event-sourcing`) | `event_store`, snapshots, aggregates in memory | `load`, commands, `save` with `append`, snapshots, `getBalanceAt`, `getHistory` | no lost update; what is derived agrees with the events | `EventStore` |
| Dead letter queues (`shared/src/dlq`) | `dead_letter_queue`, `.dlq` topics, attempts in memory | `wrap`, `moveToDLQ`, `retryFromDLQ`, triage, clean-up | no event disappears but by an operator or by age; rows tell the truth; every event leaves its partition | `DeadLetter` |
| AI service (`ai-service`) | `ai_explanations`, `processed_events`, the slots of the provider | two consumers, `explainTransaction`, `summarizeAccount`, `analyzeRisk`, `translateEvent`, the provider | slots never leak; what is stored is what was announced or read, but for the mock; everybody is answered | `Explanations` |
| Gateways (`graphql-gateway`, `api-gateway`) | circuit breakers | queries, mutations, the proxy, health | answers are true; breakers close again | `Gateway` |
| Rate limiter (`shared/src/cache`) | a sorted set in Redis, `redisClient` | `checkRateLimit`, `initRedis`, `closeRedis` | the limit holds over the window | `RateLimiter` |
| Kafka event bus (`shared/src/adapters`) | producer, consumers, offsets | `publish` (new event id every time), `subscribe` (rethrows, so the event comes again) | at least once, in partition order | inside the modules of its users |
| Health checks, NATS bus, Prisma repositories, middleware, metrics, frontend, scripts | none of their own, or not wired in | probing, forwarding, formatting | | not modelled |

What is hard in this code, with the line of each hazard, is the list `hazards` of `PROJECT.json`.
Five themes recur. (1) `poll()`, HTTP requests and consumers interleave at every `await`. (2) Some
repositories run their statements on the pool although the caller has opened a transaction on a
client, so part of a "transaction" commits by itself. (3) Kafka redelivers after a crash or an
error, and `publish` gives every attempt an event id of its own, which `processed_events` cannot
recognise. (4) Decisions are taken on stale copies: a snapshot of the outbox, the projection of a
balance, the version of an aggregate. (5) Errors are swallowed so that work goes on: behind an event
that could not be parked or explained, a deposit that could not be requested, a service or a Redis
that does not answer.

## Modules

| Module | Contents |
|---|---|
| `Relay` | abstract: an at-least-once relay. Rows are accepted, sent once or more, and retired only after they were sent |
| `Outbox` | `OutboxRepository` and `OutboxPoller` of one service |
| `TransactionService` | `requestTransaction` for concurrent requests, and the saga |
| `Settlement` | abstract: each event takes effect in one step, on both accounts of a transfer or none |
| `CustomerLedger` | the consumer of TransactionCompleted |
| `Accounts` | `createClient` and `createAccount` |
| `Projection` | extends `Accounts`: the consumers of AccountCreated and BalanceUpdated with the saga's fund check and the ledger, composed |
| `EventStore` | an event-sourced account and its concurrent writers |
| `DeadLetter` | `DLQHandler` and `KafkaDLQHandler` |
| `Explanations` | ai-service with its provider |
| `Gateway` | the circuit breakers, the resolvers and the proxy |
| `RateLimiter` | the sliding window and the Redis client |
| `OutboxProofs`, `TransactionProofs`, `LedgerProofs`, `ProjectionProofs`, `EventStoreProofs`, `DeadLetterProofs`, `ExplanationsProofs`, `GatewayProofs` | invariants and refinements of these modules, proved; `GatewayProofs` also has those of `RateLimiter` |
| `MCOutbox`, `MCTransactions`, `MCLedger`, `MCProjection`, `MCEventStore`, `MCDeadLetter`, `MCExplanations`, `MCGateway`, `MCRateLimiter` | instances for TLC. |

`Projection` is where the components meet: accounts opened by customer-service, their events through
an at-least-once relay, the consumers of transaction-service, the saga's decision on the projection,
and the ledger, whose settlement is one step there because `CustomerLedger` is shown to implement it
as one (`SettlesAtomically`). `TransactionService` and `Projection` use the outbox as seen through
`Relay`, which `Outbox` is shown to implement (`RelaySpec`).

Operators such as `NeverTaken` or `CreditOnPool`, which stand in front of a definition and that no
specification uses, are its deliberately wrong variants: each property of a passing run is violated
when one of them replaces the definition it precedes (`mutants` of `PROJECT.json` pairs them), which
shows that the property depends on that line of the code.

### Outbox and Relay

A row of the table goes through `open` (inserted, not committed), `pending`, `published`, `old`
(marked more than 24 hours ago) and `deleted`, or is `aborted`. `created` is dated at `Begin`, for
`NOW()` in PostgreSQL is the time the transaction began. A call of `poll()` is a member of `Loop`
with a program counter `pc`; `MayPoll` is the test of `isPollRunning`, which is made and set before
the first `await` and so is one atomic step. After that every `await` is a step: `Fetch` takes the
snapshot of at most `BatchLimit` rows (50 in the code), `Publish`, `Mark`, `RecordFailure` and
`Clean` follow the body of the loop, and each has its failure action that ends where the code's
inner or outer `catch` ends. `PublishLostAck` and `MarkError` are the faults that leave a copy on
the topic and a row unmarked. `Notified`, `Tick` and `Start` are the three callers of `poll()`; a
notification during a cycle is dropped. `Crash` forgets everything but the table and the topic. Rows
in `Refused` are those the broker never takes. `RecordFailure` counts and gives nothing up: from
five attempts on `poll()` writes to the log, and the next cycle tries again. `attempts` is counted
up to `MaxAttempts`, which is all the properties tell apart.

History variables: `copies` counts the messages on the topic, `before[r]` records the rows that were
committed when the writer of `r` began.

### TransactionService

Each request has a `step` of `requestTransaction`: lookup, account validation, `Create` (the
`INSERT`, which `TransactionRepository` runs on the pool and which therefore commits at once),
`CommitRequest` (the outbox row). The saga handles one event at a time: `stage` follows
`registerSaga` and `rejectTransaction`, `UpdateStatus` commits at once for the same reason, and
`CommitOutcome` makes the outcome row and `processed_events` durable together. `Throw` is the outer
catch, which rejects; an error inside it leaves the handler and the event comes again. `topic`,
`acked` and `handled` are the events published, those whose offset is committed, and those handled
since then. `lost` records the events with a COMMIT that was made and not seen. The outcome of the
fund check is a free choice here, so what holds for the handler holds whatever the projection says;
`Projection` has the check itself.

### CustomerLedger and Settlement

`log`, `position` and `offset` are the partitions of the topic, what the process has handled and
what it has committed. `Skip` and `BeginUpdate` are `isProcessed`; `Debit`, `DebitNothing`,
`DebitRefused` and `Credit` are the `UPDATE` statements and what the handler does with their result;
`work` and `posted` are the open database transaction, invisible to others until `Commit`. A
withdrawal that is not covered falls through to `markProcessed`; a transfer that is not covered
throws, and its event stays the next one of its partition. Accounts are never deactivated by any
code and exist before a transaction on them can be completed, so the `UPDATE` fails only for want of
money. `balance` is `DECIMAL(15,2)` and so exact; the model counts cents. The balance *before* an
update is not read, but computed from the one after it, which the repository returns as a double:
`Reported` is that number to the cent, and says whether it is exact. `Inexact` are the pairs of
balances for which it is not (0.2 + 0.1 is not 0.3); which they are is left open, for the error
stays below half a cent for any balance the column holds. The topic may hold any orders: the saga's
decision is not constrained here, so what holds for the ledger holds whatever the saga does.

### Accounts and Projection

A request of customer-service is a member of `Client` or `Account`, named after the row it would
store; `call` says how far it has got: the lookup, the `INSERT` on the pool, which commits at once
and meets the two UNIQUE columns of a client, and the outbox row with the COMMIT (`Announce`). A
failure or crash in between leaves a row that is never announced.

`opener` and `updater` are the two consumers, one event each, with a `stage` for every statement
they make on the pool. `Seed` overwrites the projection with zero, also when it holds a balance
already, as the `ON CONFLICT DO UPDATE` does. `MarkOpened` comes before the deposit is requested,
and errors after it are swallowed: `troubled` records where that lost something. `UpdateAccount` may
take any event that is not processed, for partitions are chosen by event id; `reached` and
`disorder` record whether a row was written after a later one. Events that were processed are
skipped without a trace, which is why only the others appear in a guard.

Every row an outbox holds may be published again under a new event id, for a fault of the relay:
`Relayed` with a further copy, `UpdatedAgain`, and `DepositAgain` for the two rows of a deposit. The
saga and the ledger are here with their outcomes. `pending` and `owed` are the events of a deposit
that each has still to handle; `CheckTarget` looks the account up in the projection and completes or
rejects, `CatchRejects` is the outer catch, which rejects after any failed statement, also when a
COMMIT was made and its answer lost, and `SettleDeposit` credits once for every event of the
completion. `CheckFunds` compares a withdrawal with the projection, `Settle` debits it. `mishaps`
counts the faults that hit a deposit on this way.

### EventStore

The table is one sequence, because `UNIQUE (aggregate_id, version)` and `MAX(version) + 1` give
every row the version of its place. A writer loads the latest snapshot and the events after it in
two statements, raises events in memory, and saves them one by one: `ReadVersion` compares the
expected version with the `MAX`, `Insert` stores the event or meets the constraint, `Stored` goes on
to the next event, to the snapshot, or home. An error leaves the aggregate with the events it has
not saved all of, and the caller may save again. A new aggregate has the version the code gives it,
also when it was made from a snapshot with no event after it: zero.

The aggregate makes its event ids from the clock and a random suffix (`aggregate.ts:85`), which is
not a UUID, while `event-store.sql:7` declares `event_id UUID PRIMARY KEY`: against that schema
PostgreSQL refuses every `INSERT` of `save`. The model is of the protocol over a column that takes
the ids.

### DeadLetter

`work[p]` is the event the wrapper of process `p` handles and the statement it is about to make.
`Topic` are the events wrapped by `KafkaDLQHandler`, whose attempts are read from a header that
nothing sets, the others are wrapped by `DLQHandler`, whose attempts are counted in `attempts`, in
memory. `Deliver` hands out what is not acknowledged, after a rebalance also twice. `FindFailed` to
`RetryBreaksOff` are `retryFromDLQ` on the table, one retry at a time; `Triage` is an operator's
`update`, to any status, of which `resolved` dates the row whether or not the handler ever succeeded
(`cleared` records that); `Cleanup` deletes what is dated and resolved or ignored; `OpenWindow` to
`CloseWindow` are `retryFromDLQ` on the topic with its five seconds and its limit, where a message
is consumed even if its handler fails. `Lapse` is the retention of the topic, seven days, after
which Kafka deletes a message whatever became of it (`lapsed`).

### Explanations

An event id of an outcome and a request of the API (an explanation, a summary, a translation or a
risk analysis) are callers, each with a record in `calls`. `Decide` is transaction-service giving a
transaction an outcome, more than once where a lost COMMIT answer has it decided again, and
`Publish` gives any of these outcomes a new event id, as often as its row is published. `provider`
is what `LLM_PROVIDER` selects. `Acquire` is the polling of `tryAcquire`, with `running` and the
interval as `cooling`; the call keeps its slot over `CallFails`, `Retry` and the back-off, and gives
it back in `CallSucceeds` or with the last failure, after which the mock answers.

The model is taken to answer what its prompt says. The mock is not: it looks for the English word
"rejected", and the prompts are in Spanish. `MockSays` is what is left of it: a rejected transaction
is told as one that went through, unless its reason holds the word; one that was not rejected is
told as rejected when its description, which only the API puts into the prompt, holds it. `words`
says which texts of a transaction do.

`Fetch` reads the status from transaction-service: `Prompt` says "completed" of everything that is
not rejected, so `early` records the requests that came before the decision. `Store` and `Mark` are
statements of their own; the consumers swallow an error of the first and throw that of the second.

### Gateway

A request goes through a breaker with a fallback (`lookup`), directly (`fetch`, also the nested
fields), directly as a mutation without a timeout (`mutate`), or through api-gateway, which gives up
after ten seconds (`proxy`). `present` says whether the resource of a service exists. axios rejects
a 404, so `Respond` counts a missing resource as a failure of the service. `late` are the writes a
service still does for a caller that was told 502. The breaker is opossum's: `Fired`, `Succeeded`,
`Failed` and `HalfOpen` are modelled from the way the code uses the library and the options it
passes, and are marked external in the map. `sure` records that nothing stood in the way of an
answer.

### RateLimiter

A check takes the time (`Check`) and is executed by Redis at most `Delay` ticks later, in any order
with the checks of other instances (`Execute`: drop, count, add, expire). Entries are named by their
millisecond, so `entries` is a set of times. The client is `none`, `created` but not yet connected,
`open` or `failed`; a failed one is kept by `initRedis`. Where the code allows a request without
Redis, nothing is counted. `checkRateLimit` has no caller yet, for api-gateway limits its clients
with express-rate-limit: the model is of a service that would use it.

## Runs

| Run | Shows | Instance and bounds |
|---|---|---|
| `outbox` | type, no phantom, no loss, duplicates explained by faults, causal order, refinement of `Relay`, every committed row is relayed | 3 rows of which one is refused for ever, 2 overlapping calls, LIMIT 2, 1 fault; 902 thousand states |
| `outbox_retries` | finding: a row that failed at its first attempt and at five retries is tried again | 1 row, 1 call, attempts counted to 6, no fault |
| `transactions` | one transaction per key, one outcome per event, the status agrees with it, accepted requests are decided | 2 requests, 2 keys, 2 copies, every kind of fault, 2 faults |
| `ledger` | type, history chain to the cent, once per event, conservation, refinement of `Settlement`, settled or stuck at an uncovered transfer | 2 accounts, 2 transactions of 4 kinds, 2 copies, 2 partitions, 2 inexact pairs, 1 fault |
| `ledger_twice` | finding: a deposit published twice is credited twice | 1 deposit, 2 copies, no fault here |
| `accounts` | an account asks for its initial deposit once and is answered once, but for faults, the projection follows the ledger, every announced account opens | 2 clients with one email and 2 documents, 1 account opened with 0 or 3, 1 withdrawal of 2, up to 3 copies of a row, 2 faults; 416 thousand states |
| `accounts_uncovered` | finding: two withdrawals completed against the same funds | the same, 1 client, 2 withdrawals of 2, no fault |
| `event_store` | no lost update, snapshots and history agree with the events, an aggregate is a prefix and its own events | 2 writers, amount 1, a snapshot every 2 versions, 4 versions, 2 pending events, 1 fault, symmetric |
| `dead_letters` | no event disappears, rows tell the truth, every event leaves its partition | 2 processes, 1 event for the table and 1 for the topic, 2 retries and 1, limit 1, 3 rows, 5 failures of an event, 2 faults; 603 thousand states |
| `explanations` | slots are those of calls in progress, what is stored is what was announced or read but for the mock, everybody is answered | 1 transaction, 2 event ids, 1 request, 2 slots, 2 attempts, both providers, 1 fault; 1.27 million states |
| `gateway` | answers are true, breakers close again | 1 service, 2 requests at a time, threshold 50 %, 3 fires; 190 thousand states |
| `rate_limiter` | the limit holds over the window less the delay | 2 processes, 2 requests in a window of 5, delay 2, time 10, 1 fault, symmetric; 1.05 million states |

Why these bounds. Three rows are the fewest for which a snapshot of two leaves one behind, which is
where order and starvation show; one of them refused for ever leaves half of each batch to the
others. Two calls of `poll()` show every overlap, for a third would meet the same flag. Where there
are two faults, one may strike during the recovery from the other. Two requests race for one key or
use two keys. Two transactions on two accounts make every pair of orders that share an account, with
opening balances that cover one of them but not both, and two copies and two partitions give every
order of delivery; of the two inexact pairs one is met by a credit and one by a debit. A deposit of
3 and a withdrawal of 2 give a projection its seed and two rows to receive in any order, each
published again or not; two such withdrawals are covered one by one and not together. Two clients
with one email race for it, with one document or two. Two writers race for each version; four
versions hold two snapshots, with a save of two events that fails half-way between them. Two
processes are what a rebalance needs; each of them counts the two failures of an event that park it,
and a retry the fifth; an event parked twice on a topic with a limit of one makes the message beyond
the limit, and three rows are one more than two processes add. Two event ids are a row published
twice, or two outcomes; with the request they make three callers for two slots, so one waits. Two of
three fires are above the threshold and one of two is not, so the rolling counters matter. A window
of five with a delay of two lets entries expire, arrive late and share a tick, twice over.
`MaxAttempts` of the outbox, `MaxCount`, `MaxFailures`, `MaxRows` and `MaxFires` saturate or bound
counters that otherwise only grow. Symmetry is used only in runs without liveness.

`CHECK_DEADLOCK FALSE` is set where the modelled world may really rest: every request answered and
every event handled and acknowledged, or the clock at its bound.

## Fairness

`Outbox!FairSpec`: a crashed service is started again; a `poll()` in progress goes on; the timer
fires (`setInterval`); a database or broker that fails from time to time also answers from time to
time (strong fairness of `Fetch`, of `RecordFailure`, and of `Publish` for each row that is not
refused, whichever call of `poll()` makes the step). Nothing is asked of the writers.

`TransactionService!FairSpec`: the relay publishes each committed row at least once, which is
`Delivery` of the outbox; the consumer goes on with the topic, and the handler with its event. The
faults are bounded, so a handler that throws gets through in the end, and nothing is asked of the
HTTP client.

`CustomerLedger!FairSpec`: the consumer goes on with *some* partition and the handler with its
event. Nothing says that Kafka serves the partitions in turn while one of them fails, so
`SettledOrStuck` excuses every event while an uncovered transfer heads any partition.

`Projection!FairSpec`: the relay publishes the first copy of what is announced, and may or may not
publish another; the consumer of AccountCreated comes to each event it can still take (strong
fairness, for other events take turns with it); both handlers go on, and the saga and the ledger
handle the events of a deposit. Requests of customer-service may stop where they are.

`DeadLetter!FairSpec`: Kafka delivers what is not acknowledged to some process, and a wrapper goes
on. Nothing is asked of handlers, which may fail for ever, nor of operators, who may never come.

`Explanations!FairSpec`: every caller goes on and the interval passes. The outcomes announced and
the requests are bounded, so there is an end to come to. Which way a call of the model ends is left
open: it may fail every time. It ends in some way, for the provider aborts it after a timeout.

`Gateway!FairSpec`: a service that is up handles and answers, and the timers of breakers and proxy
fire. `Recovers` assumes in its premise that services are up in the end and that requests keep
coming, for a half-open breaker closes only on a request. A mutation to a service that does not
answer has no timeout, and nothing is claimed of it.

`EventStore` and `RateLimiter` have safety properties only: nobody promises a writer that it wins a
race, and a check is answered by Redis or not counted.

## Proofs

TLAPS checks the following for every value of the constants, from the assumptions
`OutboxAssumption`, `TransactionAssumption`, `LedgerAssumption`, `AccountsAssumption`,
`ProjectionAssumption`, `EventStoreAssumption`, `DeadLetterAssumption`, `ExplanationsAssumption`,
`GatewayAssumption` and `RateLimiterAssumption` (bounds are natural numbers, batches, slots and
attempts are positive, sentinels are no elements of their sets, sets of callers are disjoint, a
transfer has two different accounts, which `validateTransactionInput` ensures, and the accounts and
the processes are finitely many, for sums and cardinalities over them).

`OutboxProofs`. `TypeOK` and the safety invariants are not inductive: that a pending row has been
sent at most once per fault fails for a cycle that has sent it and not marked it yet. The inductive
invariant `IInv` adds `OneCycle` (the flag admits one cycle), `SnapshotOK` (the rows of a cycle's
snapshot are still pending: nobody else marks them, so the snapshot is not stale) and `SentInTurn`
(the exception just named). From it follow `TypeCorrect`, `NoPhantoms`, `NothingLost`,
`BoundedDuplicates`, and, with the refinement mapping "accepted is committed, retired is marked",
`OutboxImplementsRelay`. `CausallyOrdered` needs more, `OrderInv`: rows visible to a writer are
dated before its own row, and the cycle works through its snapshot in that order.

`TransactionProofs`. `KeyInv` adds to `TypeOK` that a key has one stored transaction and that only
stored transactions are requested, published and handled (`StoredOK`); it gives `TypeCorrect` and
`OneTransactionPerKey`. Relative to it, `OutcomesOK` and `HandlerOK` (the handler's event was not
processed before, unless a COMMIT of it was lost) give `OutcomeOnce`. `StatusAgrees` adds
`StatusOK`: what a handler is about to announce is what the status says already, and a status may
differ from the last outcome only while some event of its transaction is still to be processed, or
had a COMMIT that was not seen.

`LedgerProofs`. What is inductive is what the open transaction has done so far: `HandlingOK` (its
event was not processed before), `PostedOK` (each inserted row leads from the committed balance of
its account to the one in `work`) and `WorkOK` (at each stage `work` is the committed state, that
state debited, or the result of the whole settlement). Then a commit is one step of `Settlement`
(`LedgerSettlesAtomically`), it extends the chain of every account (`HistoryComplete`: to the cent,
and whatever `Inexact` is), and the test of the debit keeps balances natural numbers
(`TypeCorrect`). `PostedOnce` adds `RowsMade`: the rows inserted so far are those the handler's
event owes at its stage. `MoneyConserved` says that the balances together are the opening balances,
plus the deposits, less the withdrawals that took effect; its invariant adds that a transaction has
inserted a row for an account just when it has changed its balance (`RowsMove`), so that a
withdrawal without a row moved nothing.

`ProjectionProofs`. For `OneDeposit` the invariant follows the one deposit in two halves.
`DepositOf` is the half before the saga: the key is free, the row stored, the request announced,
with `troubled` for the places where a fault breaks it off; the handler's stage says which of these
is pending. `SettlingOK` is the half behind it: the events still to be handled, the credits and the
rejections together are at most the request and one for each fault that hit it (`FlowOf`), and an
account that asks, or has asked, is in the projection (`SeededOf`), because the handler seeds before
it asks and no step takes a projection back. So `CheckTarget` never rejects: a rejection has its
fault. For `Follows` the invariant says that the projection holds the row `reached` or that a write
came out of order, and that every row processed, or about to be marked, is at most `reached`,
whichever of its copies it was. `TypeCorrect` has one client per email and document and no account
without its client.

`EventStoreProofs`. The invariant places each aggregate on a prefix of the table: it `Stands` on
version `n` when its state is the replay of `n` events with its own on top, each of which was
decided on what is before it. `n` is the `Base` its version says, or a snapshot that nothing
followed, and then it counts from zero; such an aggregate is refused at its first `ReadVersion`,
because a snapshot is never of version zero (`ReadVersionOK`). While it saves, what it has stored is
in the table right behind its base (`StoredSoFar`), and as `Insert` succeeds only at the head, that
is all that is behind its base: the event stored was decided on exactly the events before it
(`NextEvent`), which is `EachEventFollows`. Another writer's event changes no replay of a version
that exists (`ReplaysStay`), so what is said of the others stays true (`WriterStays`). From the same
invariant follow `LoadedTrue`, `TypeCorrect`, and `DerivedTrue`: an event that follows a state adds
to the sum of the history what it adds to the balance (`BookedAgrees`).

`DeadLetterProofs`. `NothingIsLost` needs to know what removes a row: clean-up, of rows with a date,
and a date means that the handler succeeded or an operator resolved the row by hand (`DatedOK`). The
first is true because a retry that is about to resolve its row has called the handler (`RetryOK`)
and ids are not reused. A process about to count a failure had seen a row, which is still there or
was resolved (`ParkingOK`). `TypeCorrect` includes that no process counts up to the limit. For
`CountsTrue` the invariant leaves room for what is still to be counted: no row and no process has
counted more failures of an event than there were failures and faults, less the processes that are
parking it and have not written their last attempt yet (`Countable`).

`ExplanationsProofs`. `SlotsOK` equates `running` with the number of callers that hold a slot, a
cardinality that each step changes by one or not at all; `TellsOK` says that what is announced or
read was an outcome of the transaction, `CallsOK` that every caller on its way carries an answer
that is true in the sense of `Truly`, which needs `given` to grow only; `CountOK` that an event was
stored at most once for each fault, and once more when it is about to be marked or is marked.
`TypeCorrect` and `StoredTruly` follow.

`GatewayProofs`. `AnswersTrue` needs what is known of a request on the way: if it is sure, its
service has what it asks for and is up (`InProgressOK`), and what was found is present
(`HandledOK`), which holds because nothing is ever removed and a service that falls takes the
certainty of its requests with it.

The same module proves two properties of `RateLimiter`, whose definitions have names of their own
for that (`LimiterSpec`, `LimiterTypeOK`). `LimiterTypeCorrect` is inductive; for `LimitKept` the
times let through in a window and not yet dropped are entries of the key (`StillCounted`: a check
drops only what is outside its own window, and its time is at most `Delay` in the past); so a check
let through found fewer than `MaxRequests` of them. `LimitKept` is this at the time of the last
check of a span.

The invariants used for the induction were first checked with TLC on the instances above.

Sums, counts and replays are folds over data of any size, and the induction theorems of the library
take a predicate as a parameter, which the provers cannot instantiate. Three ways lead around that.
A sum over accounts counts coins: `Total` is the number of pairs of an account and a coin it holds,
so that a debit or a credit changes a cardinality (`MoneyConserved`). What is still to be counted of
an event is a set of processes, to which a step adds one or takes one away (`CountsTrue`). And
`EventStoreProofs` proves induction over the subsets of a finite set, given as a *set* of subsets,
from the library's theorem that strict inclusion among them is well-founded; with it, that the
functions by which `FoldLeft` is defined exist and agree, and that one event more in a sequence is
one application more of `When` or `Booked` (`ApplyAppend`, `BalanceAppend`).

Only model-checked: liveness, for which the proof system has no rules: `Delivery`,
`AcceptedIsDecided`, `SettledOrStuck`, `EveryAccountOpens`, `EveryEventLeaves`, `EveryCallEnds` and
`Recovers`. Every safety property that a passing run checks is also a theorem.

## Findings

Three runs show the code doing something its documentation denies; each is described under
`findings` of `PROJECT.json` with the line of the code and the line quoted. `outbox_retries`: the
poller retries a row without end and moves none to a dead letter queue, where `src/README.md:197`
has five retries and then the queue; it follows that `Delivery` holds however often a publication
fails, and that refused rows stay in the batches. `ledger_twice`: event ids are made at publication,
so `processed_events` does not recognise a row published twice. `accounts_uncovered`: the saga
compares withdrawals with a projection that is updated after the ledger, so a withdrawal that is not
covered is completed instead of rejected.

Other behaviour that the models have and a reader of the code should know; the properties are stated
so that these are their explicit exceptions:

- As many refused rows as the LIMIT fill every batch and starve the others, since nothing gives a
  row up (`outbox.poller.ts:110`); a notification during a cycle is dropped and its row waits for
  the timer (`outbox.poller.ts:45`). `Delivery` assumes fewer refused rows than the LIMIT, and the
  timer.
- A transaction is stored on the pool before its outbox row, so a failure in between leaves one that
  is never requested, and its key taken (`transaction.service.ts:43`); likewise an account that is
  never announced (`customer.service.ts:84`). `AcceptedIsDecided` speaks of requests that were
  answered, `EveryAccountOpens` of accounts that were announced.
- A status is written on the pool before the outcome that announces it, so for a while, and after a
  crash until the event returns, it is ahead; and a lost COMMIT answer lets the catch reject what
  was completed (`transaction.saga.ts:98`). `StatusFollowsOutcome` and `OneOutcomePerEvent` say
  when.
- A fault between the mark and the initial deposit loses the deposit (`subscribers/index.ts:34` of
  transaction-service); one failed statement of the saga rejects it for good
  (`transaction.saga.ts:98`); and a second publication of either of its rows, or a COMMIT whose
  answer was lost, credits or rejects it once more. `OneInitialDeposit` allows one of these for each
  fault and none without.
- BalanceUpdated rows handled out of order leave the projection with an old balance until the next
  one (`subscribers/index.ts:86`). `ProjectionFollows` says when.
- The balance before an update is a sum of doubles, so a row may say 0.30000000000000004 where the
  row before said 0.3 (`subscribers/index.ts:51`, `repositories/index.ts:111` of customer-service).
  `UpdatesChain` holds to the cent.
- An aggregate loaded from a snapshot with no later event counts versions from zero, so its next
  save is refused (`aggregate.ts:105`). The store fails safely: no event is lost or doubled.
- `KafkaDLQHandler` with more than one retry never parks an event that keeps failing
  (`kafka-dlq.handler.ts:41`); `EveryEventLeaves` says so. A message of a `.dlq` topic is deleted
  after seven days, retried or not (`kafka-dlq.handler.ts:217`), and an operator's `resolved` lets
  clean-up delete an event whose handler never succeeded (`dlq.repository.ts:96`). `NothingLost`
  names both.
- Against the schema in `event-store.sql` every save fails, for the ids of `aggregate.ts:85` are no
  UUIDs.
- One 404 opens the breaker of a healthy service, since nothing asks for a minimum number of calls;
  and its fallback makes an unavailable service look empty (`service-breakers.ts:10`).
- A Redis client that could not connect is kept, and without Redis every request is allowed
  (`redis-client.ts:17`); requests of one millisecond count as one (`cache-service.ts:138`).
- The mock, which is the default (`config/index.ts:18`, `docker-compose.yml:238`) and the fallback,
  looks for the English "rejected" in prompts that say "rechazada" (`llm.provider.ts:90`,
  `prompts/index.ts:35`), so it explains rejected transactions as ones that went through; and an
  outcome published twice is explained twice, for the event ids differ. `ExplainedTruly` holds of
  the model, and says what the mock may get wrong.
- A transaction explained while it is pending is called completed, for good (`ai.service.ts:41`);
  retries of the provider respect neither the interval nor give up their slot
  (`llm.provider.ts:168`).

## Not modelled

Texts, prices of tokens, formats, logging, metrics, authentication, the schema of the gateway and
the user interface have no protocol of their own. Currencies are left out: no code relates the
currency of a transaction to that of its accounts. Amounts are integers, of cents: `amount` and
`balance` are stored with two decimals. Sums and comparisons of them in PostgreSQL are exact; the
one sum of doubles that is announced is `Reported` in `CustomerLedger`, and the saga compares
balances and amounts as they were read. `OutboxPoller.stop()` is called by no service. `getFailed`
and the other reads change nothing. `HealthChecker` keeps no state between two reports, and like the
NATS bus and the Prisma repositories is constructed by no service. The caches of balances, clients,
accounts and sessions, and `appendBatch`, have no caller, so nothing says when they are used.
`checkRateLimit`, the dead letter handlers and the event store have no caller either; they are
modelled as a service would use them that limits its requests, wraps its consumers, or keeps
accounts, with them. The pool of connections belongs to the pg library: a request that waits for a
second connection fails with its timeout as with any failed statement.

## What is left

1. The handler of the saga, statement by statement, composed with the projection: `CheckFunds` in
   place of the choice in `TransactionService`. Each is checked alone here.
2. Pool exhaustion with the pool's queue and timeout, to tell how many requests fail together.
3. An abstract specification of the projection, a view of the ledger that lags behind, and the proof
   that `Projection` implements it where no write came out of order (`Follows` is its safety part).
