------------------------- MODULE TransactionService -------------------------
(***************************************************************************)
(* transaction-service from an HTTP request to the outcome of the saga.    *)
(*                                                                         *)
(* Each request runs requestTransaction concurrently with the others and   *)
(* with the consumer of TransactionRequested, which handles one message at *)
(* a time.  TransactionRepository runs its statements on the pool, so they *)
(* commit by themselves; only the outbox rows and processed_events belong  *)
(* to the transaction the code opens.  The outbox is the relay of module   *)
(* Relay: a committed row reaches the topic once or more, and every copy   *)
(* is an event with an id of its own.                                      *)
(***************************************************************************)
EXTENDS Naturals, Sequences

CONSTANTS
  Request,    \* HTTP requests; each would create the transaction it names
  Key,        \* idempotency keys
  MaxCopies,  \* bound: events published for one outbox row
  Faults,     \* the kinds of fault that happen: a subset of FaultKinds
  MaxFaults,  \* bound: faults in a behaviour
  NoEvent     \* the consumer is between two messages

FaultKinds == {"dbError", "lostCommit", "crash"}

ASSUME TransactionAssumption ==
  /\ MaxCopies \in Nat \ {0}
  /\ MaxFaults \in Nat
  /\ Faults \subseteq FaultKinds
  /\ NoEvent \notin Request \X (1..MaxCopies)

VARIABLES
  key,        \* the idempotency key of each request
  step,       \* how far requestTransaction has got
  answer,     \* what the client was told
  status,     \* transactions.status; "none" when there is no row
  requested,  \* transactions with a committed TransactionRequested row
  topic,      \* the TransactionRequested events published
  acked,      \* the events whose offset is committed
  handled,    \* the events handled since then, in memory
  event,      \* the event the saga handles
  stage,      \* where its handler stands
  caught,     \* the handler is in its outer catch block
  processed,  \* processed_events
  outcomes,   \* the committed outcome rows of each transaction, in order
  lost,       \* history: the events with a COMMIT whose answer was lost
  faults      \* faults so far

http == <<key, step, answer>>
saga == <<event, stage, caught>>
broker == <<topic, acked, handled>>
decisions == <<processed, outcomes, lost>>
vars == <<http, status, requested, broker, saga, decisions, faults>>

Event == Request \X (1..MaxCopies)
Txn(e) == e[1]

-----------------------------------------------------------------------------
Init ==
  /\ key \in [Request -> Key]
  /\ step = [r \in Request |-> "lookup"]
  /\ answer = [r \in Request |-> "none"]
  /\ status = [r \in Request |-> "none"]
  /\ requested = {}
  /\ topic = {}
  /\ acked = {}
  /\ handled = {}
  /\ event = NoEvent
  /\ stage = "idle"
  /\ caught = FALSE
  /\ processed = {}
  /\ outcomes = [r \in Request |-> <<>>]
  /\ lost = {}
  /\ faults = 0

Fault(kind) ==
  /\ kind \in Faults
  /\ faults < MaxFaults
  /\ faults' = faults + 1

(* requestTransaction *)

\* findByIdempotencyKey, and the UNIQUE constraint on idempotency_key.
NeverTaken(r) == FALSE
KeyTaken(r) == \E q \in Request : key[q] = key[r] /\ status[q] # "none"
KeyTakenInTable(r) == KeyTaken(r)

Respond(r, a) ==
  /\ step' = [step EXCEPT ![r] = "done"]
  /\ answer' = [answer EXCEPT ![r] = a]
  /\ UNCHANGED key

Continue(r, label) ==
  /\ step' = [step EXCEPT ![r] = label]
  /\ UNCHANGED <<key, answer>>

Lookup(r) ==
  /\ step[r] = "lookup"
  /\ \/ KeyTaken(r) /\ Respond(r, "duplicate")
     \/ ~KeyTaken(r) /\ Continue(r, "validate")
  /\ UNCHANGED <<status, requested, broker, saga, decisions, faults>>

\* customer-service answers that an account does not exist, or that it does;
\* no answer within three seconds counts as a yes.
ValidateAccounts(r) ==
  /\ step[r] = "validate"
  /\ Respond(r, "notFound") \/ Continue(r, "create")
  /\ UNCHANGED <<status, requested, broker, saga, decisions, faults>>

\* BEGIN on the client; the INSERT of the transaction runs on the pool and
\* commits at once, or violates the constraint.
Create(r) ==
  /\ step[r] = "create"
  /\ \/ /\ KeyTakenInTable(r)
        /\ Respond(r, "error")
        /\ UNCHANGED status
     \/ /\ ~KeyTakenInTable(r)
        /\ status' = [status EXCEPT ![r] = "pending"]
        /\ Continue(r, "commit")
  /\ UNCHANGED <<requested, broker, saga, decisions, faults>>

\* The outbox row and the COMMIT on the client, then the 202 answer.
CommitRequest(r) ==
  /\ step[r] = "commit"
  /\ requested' = requested \cup {r}
  /\ Respond(r, "accepted")
  /\ UNCHANGED <<status, broker, saga, decisions, faults>>

\* A statement fails: ROLLBACK on the client, and the error goes to the caller.
RequestFails(r) ==
  /\ step[r] \in {"lookup", "create", "commit"}
  /\ Fault("dbError")
  /\ Respond(r, "error")
  /\ UNCHANGED <<status, requested, broker, saga, decisions>>

\* The COMMIT was made but its answer is lost.
RequestCommitLost(r) ==
  /\ step[r] = "commit"
  /\ Fault("lostCommit")
  /\ requested' = requested \cup {r}
  /\ Respond(r, "error")
  /\ UNCHANGED <<status, broker, saga, decisions>>

(* The outbox relays TransactionRequested, and Kafka delivers it *)

Copies(r) == {n \in 1..MaxCopies : <<r, n>> \in topic}

Relayed(r) ==
  /\ r \in requested
  /\ \E n \in 1..MaxCopies :
       /\ Copies(r) = 1..(n - 1)
       /\ topic' = topic \cup {<<r, n>>}
  /\ UNCHANGED <<http, status, requested, acked, handled, saga, decisions, faults>>

\* eachMessage hands the next event to the handler, whose first statement is
\* isProcessed.  Partitions are chosen by event id, so any event may be next.
NotTracked(e) == FALSE
DecidedAlready(e) == status[Txn(e)] # "pending"
AlreadyProcessed(e) == e \in processed

Deliver(e) ==
  /\ event = NoEvent
  /\ e \in topic \ (acked \cup handled)
  /\ \/ /\ AlreadyProcessed(e)
        /\ handled' = handled \cup {e}
        /\ UNCHANGED saga
     \/ /\ ~AlreadyProcessed(e)
        /\ event' = e
        /\ stage' = "validate"
        /\ caught' = FALSE
        /\ UNCHANGED handled
  /\ UNCHANGED <<http, status, requested, topic, acked, decisions, faults>>

\* Kafka commits the offsets of what was handled, some time later.
CommitOffsets ==
  /\ handled # {}
  /\ acked' = acked \cup handled
  /\ handled' = {}
  /\ UNCHANGED <<http, status, requested, topic, saga, decisions, faults>>

(* The saga *)

Stage(label) ==
  /\ stage' = label
  /\ UNCHANGED <<event, caught>>

\* The handler returns.
ReturnKeepingEvent ==
  /\ stage' = "idle"
  /\ caught' = FALSE
  /\ UNCHANGED event

Return ==
  /\ event' = NoEvent
  /\ stage' = "idle"
  /\ caught' = FALSE

\* An error inside the try goes to the catch, which rejects the transaction;
\* an error in the catch leaves the handler, and Kafka delivers again.
Throw ==
  \/ /\ ~caught
     /\ caught' = TRUE
     /\ stage' = "reject"
     /\ UNCHANGED event
  \/ caught /\ Return

\* exists and getBalance of the projection; a failed read is an error too.
ValidateFunds ==
  /\ stage = "validate"
  /\ Stage("complete") \/ Stage("reject")
  /\ UNCHANGED <<http, status, requested, broker, decisions, faults>>

\* updateStatus runs on the pool and overwrites whatever status there is.
UpdateStatus(from, verdict, to) ==
  /\ stage = from
  /\ status' = [status EXCEPT ![Txn(event)] = verdict]
  /\ Stage(to)
  /\ UNCHANGED <<http, requested, broker, decisions, faults>>

Complete == UpdateStatus("complete", "completed", "commitComplete")

\* Reject, but never taking back a completion.
RejectUnlessCompleted ==
  /\ stage = "reject"
  /\ \/ /\ status[Txn(event)] # "completed"
        /\ UpdateStatus("reject", "rejected", "commitReject")
     \/ /\ status[Txn(event)] = "completed"
        /\ UpdateStatus("reject", "completed", "commitReject")

Reject == UpdateStatus("reject", "rejected", "commitReject")

\* The outbox row and processed_events become durable together.
Record(verdict) ==
  /\ outcomes' = [outcomes EXCEPT ![Txn(event)] =
                    Append(@, [verdict |-> verdict, of |-> event])]
  /\ processed' = processed \cup {event}

Verdict == IF stage = "commitComplete" THEN "completed" ELSE "rejected"

CommitOutcome ==
  /\ stage \in {"commitComplete", "commitReject"}
  /\ Record(Verdict)
  /\ handled' = handled \cup {event}
  /\ Return
  /\ UNCHANGED <<http, status, requested, topic, acked, lost, faults>>

\* A statement of the handler fails: ROLLBACK, and the error is thrown.
SagaFails ==
  /\ event # NoEvent
  /\ Fault("dbError")
  /\ Throw
  /\ UNCHANGED <<http, status, requested, broker, decisions>>

\* The COMMIT was made but its answer is lost; the handler sees an error.
SagaCommitLost ==
  /\ stage \in {"commitComplete", "commitReject"}
  /\ Fault("lostCommit")
  /\ Record(Verdict)
  /\ lost' = lost \cup {event}
  /\ Throw
  /\ UNCHANGED <<http, status, requested, broker>>

-----------------------------------------------------------------------------
\* The process dies and is started again: requests in progress end without
\* an answer, transactions not committed are rolled back, and Kafka delivers
\* again from the last committed offset.
Crash ==
  /\ Fault("crash")
  /\ step' = [r \in Request |-> IF step[r] = "lookup" THEN "lookup" ELSE "done"]
  /\ UNCHANGED <<key, answer, status, requested, topic, acked, decisions>>
  /\ handled' = {}
  /\ Return

HandlerStep == ValidateFunds \/ Complete \/ Reject \/ CommitOutcome

RequestStep(r) == Lookup(r) \/ ValidateAccounts(r) \/ Create(r) \/ CommitRequest(r)

Next ==
  \/ \E r \in Request :
       RequestStep(r) \/ RequestFails(r) \/ RequestCommitLost(r) \/ Relayed(r)
  \/ \E e \in topic : Deliver(e)
  \/ CommitOffsets
  \/ HandlerStep
  \/ SagaFails
  \/ SagaCommitLost
  \/ Crash

Spec == Init /\ [][Next]_vars

\* The relay publishes every committed row (Outbox, Delivery), the consumer
\* goes on with what is left on the topic, and the handler with its message.
FairSpec ==
  /\ Spec
  /\ \A r \in Request : WF_vars(Copies(r) = {} /\ Relayed(r))
  /\ WF_vars(\E e \in topic : Deliver(e))
  /\ WF_vars(HandlerStep)

-----------------------------------------------------------------------------
(* Correctness *)

Steps == {"lookup", "validate", "create", "commit", "done"}
Answers == {"none", "accepted", "duplicate", "notFound", "error"}
Stages == {"idle", "validate", "complete", "commitComplete", "reject", "commitReject"}
Outcome == [verdict : {"completed", "rejected"}, of : Event]

\* Every variable stays in its range, and the handler has an event exactly
\* while it runs.
TypeOK ==
  /\ key \in [Request -> Key]
  /\ step \in [Request -> Steps]
  /\ answer \in [Request -> Answers]
  /\ status \in [Request -> {"none", "pending", "completed", "rejected"}]
  /\ requested \subseteq Request
  /\ topic \subseteq Event
  /\ acked \subseteq topic
  /\ handled \subseteq topic
  /\ event \in topic \cup {NoEvent}
  /\ stage \in Stages
  /\ (stage = "idle") <=> (event = NoEvent)
  /\ caught \in BOOLEAN
  /\ processed \subseteq topic
  /\ outcomes \in [Request -> Seq(Outcome)]
  /\ lost \subseteq topic
  /\ faults \in 0..MaxFaults

\* The outcome rows that event e caused.
CausedBy(e) == {i \in DOMAIN outcomes[Txn(e)] : outcomes[Txn(e)][i].of = e}

\* However requests with one key race, and however often a client repeats
\* one after an error, at most one of them is ever handed to the saga.
AtMostOncePerKey ==
  \A q, r \in requested : key[q] = key[r] => q = r

\* Delivered once or many times, before and after crashes and failed
\* statements, an event in processed_events caused exactly one outcome row
\* and any other event none.  The exception is an event whose COMMIT was made
\* and not seen: the handler rejects it after deciding it.
OneOutcomePerEvent ==
  \A e \in topic \ lost :
    \/ e \in processed /\ \E i \in CausedBy(e) : CausedBy(e) = {i}
    \/ e \notin processed /\ CausedBy(e) = {}

\* Once every event of a transaction is processed, its status is the verdict
\* of the last outcome announced, though the status is written outside the
\* transaction that announces it; a COMMIT not seen is again the exception.
StatusFollowsOutcome ==
  \A r \in Request :
    (/\ Copies(r) # {}
     /\ \A n \in Copies(r) : <<r, n>> \in processed \ lost
     /\ event = NoEvent)
    => status[r] = outcomes[r][Len(outcomes[r])].verdict

\* A request answered with 202 is decided in the end, crashes and failed
\* statements notwithstanding.
AcceptedIsDecided ==
  \A r \in Request : answer[r] = "accepted" ~> outcomes[r] # <<>>
=============================================================================
