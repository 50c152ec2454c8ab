------------------------------- MODULE Outbox -------------------------------
(***************************************************************************)
(* The transactional outbox of one service: the `outbox` table written by  *)
(* OutboxRepository inside the service's database transactions, and the    *)
(* OutboxPoller that relays its rows to the Kafka topic they name.         *)
(*                                                                         *)
(* One service process holds the writers (HTTP and event handlers), the    *)
(* poller's timer and its LISTEN connection; PostgreSQL and Kafka survive  *)
(* a crash of that process.  A call of poll() is a member of Loop: several *)
(* calls may be made, and only isPollRunning keeps them from overlapping.  *)
(***************************************************************************)
EXTENDS Naturals, FiniteSets

CONSTANTS
  Row,          \* outbox rows (the ids the writers will insert)
  Loop,         \* calls of poll() that may be in progress at one time
  BatchLimit,   \* the LIMIT of getPending: 50 in the code
  Refused,      \* rows of a topic the broker refuses every time
  NoRow,        \* "no message"
  MaxAttempts,  \* where the model stops counting the attempts of a row
  MaxFaults     \* bound: lost acknowledgements and crashes in a behaviour

ASSUME OutboxAssumption ==
  /\ IsFiniteSet(Row)
  /\ NoRow \notin Row
  /\ BatchLimit \in Nat \ {0}
  /\ Refused \subseteq Row
  /\ MaxAttempts \in Nat \ {0}
  /\ MaxFaults \in Nat

VARIABLES
  row,       \* the state of each row in the table
  created,   \* created_at: the time its transaction began
  clock,     \* the last created_at given out
  before,    \* history: the rows committed when this row's writer began
  attempts,  \* the column attempts, saturated at MaxAttempts
  copies,    \* history: messages the topic holds for the row
  up,        \* the service process runs (onModuleInit has called start())
  listen,    \* the LISTEN connection
  signal,    \* a notification is on its way to the listener
  polling,   \* isPollRunning
  pc,        \* where each call of poll() stands
  message,   \* the message the call's for loop is at
  batch,     \* the messages of the call's snapshot that come after it
  faults     \* lost acknowledgements and crashes so far

table == <<row, created, clock, before, attempts>>
process == <<up, listen, signal>>
poller == <<polling, pc, message, batch>>
vars == <<table, copies, process, poller, faults>>

-----------------------------------------------------------------------------
(* The table *)

RowStates == {"none", "open", "aborted", "pending", "published", "old", "deleted"}
PcStates == {"idle", "fetch", "send", "mark", "fail", "clean"}

\* The rows whose transaction committed.
Committed == {r \in Row : row[r] \in {"pending", "published", "old", "deleted"}}

\* published_at was set at some time, whether or not the row still exists.
Retired == {r \in Row : row[r] \in {"published", "old", "deleted"}}

\* What the WHERE clause of getPending selects.
PendingUnfiltered == {r \in Row : row[r] \in {"pending", "published", "old"}}
PendingUntilGivenUp == {r \in Row : row[r] = "pending" /\ attempts[r] < MaxAttempts}
PendingUncommitted == {r \in Row : row[r] \in {"open", "pending"}}
Pending == {r \in Row : row[r] = "pending"}

\* ORDER BY created_at.
OlderReversed(q, r) == created[q] > created[r]
Older(q, r) == created[q] < created[r]

\* The LIMIT oldest rows of S: the snapshots one SELECT may return.
Batches(S) ==
  {B \in SUBSET S :
     /\ Cardinality(B) <= BatchLimit
     /\ B # S => Cardinality(B) = BatchLimit
     /\ \A b \in B, r \in S \ B : Older(b, r)}

\* The rows deletePublished removes: published_at more than 24 hours ago.
ExpiredOrPending == {r \in Row : row[r] \in {"old", "pending"}}
Expired == {r \in Row : row[r] = "old"}

-----------------------------------------------------------------------------
Init ==
  /\ row = [r \in Row |-> "none"]
  /\ created = [r \in Row |-> 0]
  /\ clock = 0
  /\ before = [r \in Row |-> {}]
  /\ attempts = [r \in Row |-> 0]
  /\ copies = [r \in Row |-> 0]
  /\ up = FALSE
  /\ listen = "off"
  /\ signal = FALSE
  /\ polling = FALSE
  /\ pc = [p \in Loop |-> "idle"]
  /\ message = [p \in Loop |-> NoRow]
  /\ batch = [p \in Loop |-> {}]
  /\ faults = 0

(* The writers: BEGIN, insert(..., txClient), COMMIT or ROLLBACK *)

\* NOW() is the time the transaction began, so that is when the row is dated.
Begin(r) ==
  /\ up
  /\ row[r] = "none"
  /\ row' = [row EXCEPT ![r] = "open"]
  /\ clock' = clock + 1
  /\ created' = [created EXCEPT ![r] = clock + 1]
  /\ before' = [before EXCEPT ![r] = Committed]
  /\ UNCHANGED <<attempts, copies, process, poller, faults>>

\* PostgreSQL delivers the NOTIFY of a transaction when it commits.
Commit(r) ==
  /\ row[r] = "open"
  /\ row' = [row EXCEPT ![r] = "pending"]
  /\ signal' = (signal \/ listen = "on")
  /\ UNCHANGED <<created, clock, before, attempts, copies, up, listen, poller, faults>>

Rollback(r) ==
  /\ row[r] = "open"
  /\ row' = [row EXCEPT ![r] = "aborted"]
  /\ UNCHANGED <<created, clock, before, attempts, copies, process, poller, faults>>

(* Entering poll(): the test and the assignment run before the first await *)

\* Calls have no names: a new one is the member of Loop that is free.
FirstIdle(p) == p = CHOOSE q \in Loop : pc[q] = "idle"

MayPollAlways == TRUE
MayPoll == ~polling

Enter(p) ==
  /\ pc[p] = "idle"
  /\ FirstIdle(p)
  /\ MayPoll
  /\ polling' = TRUE
  /\ pc' = [pc EXCEPT ![p] = "fetch"]
  /\ UNCHANGED <<message, batch>>

\* start(): a first poll(), the timer, and setupListener.
Start(p) ==
  /\ ~up
  /\ up' = TRUE
  /\ listen' = "connecting"
  /\ Enter(p)
  /\ UNCHANGED <<table, copies, signal, faults>>

\* The timer fires.  A call that finds isPollRunning set changes nothing.
Tick(p) ==
  /\ up
  /\ Enter(p)
  /\ UNCHANGED <<table, copies, process, faults>>

\* The listener's 'notification' handler.  The call is dropped, not
\* postponed, when a cycle is in progress.
Notified(p) ==
  /\ up
  /\ signal
  /\ signal' = FALSE
  /\ \/ Enter(p)
     \/ ~MayPoll /\ UNCHANGED poller
  /\ UNCHANGED <<table, copies, up, listen, faults>>

(* setupListener *)

SetupListener ==
  /\ listen = "connecting"
  /\ listen' \in {"on", "off"}   \* a failed connect is not tried again
  /\ UNCHANGED <<table, copies, up, signal, poller, faults>>

ListenerError ==
  /\ listen = "on"
  /\ listen' = "retry"
  /\ signal' = FALSE
  /\ UNCHANGED <<table, copies, up, poller, faults>>

ListenerRetry ==
  /\ listen = "retry"
  /\ listen' = "connecting"
  /\ UNCHANGED <<table, copies, up, signal, poller, faults>>

(* The body of poll() *)

\* The for loop goes on with the oldest of the messages left, or ends.
Take(p, left) ==
  \/ /\ left = {}
     /\ pc' = [pc EXCEPT ![p] = "clean"]
     /\ message' = [message EXCEPT ![p] = NoRow]
     /\ batch' = [batch EXCEPT ![p] = {}]
     /\ UNCHANGED polling
  \/ \E r \in left :
       /\ \A q \in left \ {r} : Older(r, q)
       /\ pc' = [pc EXCEPT ![p] = "send"]
       /\ message' = [message EXCEPT ![p] = r]
       /\ batch' = [batch EXCEPT ![p] = left \ {r}]
       /\ UNCHANGED polling

\* The finally block.
FinishKeepsFlag(p) ==
  /\ pc' = [pc EXCEPT ![p] = "idle"]
  /\ message' = [message EXCEPT ![p] = NoRow]
  /\ batch' = [batch EXCEPT ![p] = {}]
  /\ UNCHANGED polling

Finish(p) ==
  /\ pc' = [pc EXCEPT ![p] = "idle"]
  /\ message' = [message EXCEPT ![p] = NoRow]
  /\ batch' = [batch EXCEPT ![p] = {}]
  /\ polling' = FALSE

Goto(p, label) ==
  /\ pc' = [pc EXCEPT ![p] = label]
  /\ UNCHANGED <<polling, message, batch>>

\* getPending(50); an empty result returns through the finally block.
Fetch(p) ==
  /\ pc[p] = "fetch"
  /\ \/ Pending = {} /\ Finish(p)
     \/ /\ Pending # {}
        /\ \E B \in Batches(Pending) : Take(p, B)
  /\ UNCHANGED <<table, copies, process, faults>>

\* The SELECT fails: the outer catch.
FetchError(p) ==
  /\ pc[p] = "fetch"
  /\ Finish(p)
  /\ UNCHANGED <<table, copies, process, faults>>

\* The broker stores the message and acknowledges it.
Publish(p) ==
  /\ pc[p] = "send"
  /\ message[p] \notin Refused
  /\ copies' = [copies EXCEPT ![message[p]] = @ + 1]
  /\ Goto(p, "mark")
  /\ UNCHANGED <<table, process, faults>>

\* publish() throws and nothing was stored.
PublishError(p) ==
  /\ pc[p] = "send"
  /\ Goto(p, "fail")
  /\ UNCHANGED <<table, copies, process, faults>>

\* publish() throws although the broker stored the message.
PublishLostAck(p) ==
  /\ pc[p] = "send"
  /\ message[p] \notin Refused
  /\ faults < MaxFaults
  /\ faults' = faults + 1
  /\ copies' = [copies EXCEPT ![message[p]] = @ + 1]
  /\ Goto(p, "fail")
  /\ UNCHANGED <<table, process>>

\* UPDATE outbox SET published_at = NOW() WHERE id = r.
MarkPublished(r) ==
  row' = [row EXCEPT ![r] = IF @ = "deleted" THEN @ ELSE "published"]

Mark(p) ==
  /\ pc[p] = "mark"
  /\ MarkPublished(message[p])
  /\ Take(p, batch[p])
  /\ UNCHANGED <<created, clock, before, attempts, copies, process, faults>>

\* markPublished throws, whether or not the update was made: the same catch
\* as a failed publish.
MarkError(p) ==
  /\ pc[p] = "mark"
  /\ faults < MaxFaults
  /\ faults' = faults + 1
  /\ MarkPublished(message[p]) \/ UNCHANGED row
  /\ Goto(p, "fail")
  /\ UNCHANGED <<created, clock, before, attempts, copies, process>>

CountAttempt(r) ==
  attempts' = [attempts EXCEPT ![r] = IF @ < MaxAttempts THEN @ + 1 ELSE @]

\* recordFailure; five attempts or more only write an alert to the log, and
\* the row stays pending.
RecordFailure(p) ==
  /\ pc[p] = "fail"
  /\ CountAttempt(message[p])
  /\ Take(p, batch[p])
  /\ UNCHANGED <<row, created, clock, before, copies, process, faults>>

\* recordFailure throws inside the inner catch: the outer catch ends the
\* cycle and leaves the rest of the batch for a later one.
RecordFailureError(p) ==
  /\ pc[p] = "fail"
  /\ CountAttempt(message[p]) \/ UNCHANGED attempts
  /\ Finish(p)
  /\ UNCHANGED <<row, created, clock, before, copies, process, faults>>

\* deletePublished(24) after the loop, and its failure.
Clean(p) ==
  /\ pc[p] = "clean"
  /\ row' = [r \in Row |-> IF r \in Expired THEN "deleted" ELSE row[r]]
  /\ Finish(p)
  /\ UNCHANGED <<created, clock, before, attempts, copies, process, faults>>

CleanError(p) ==
  /\ pc[p] = "clean"
  /\ Finish(p)
  /\ UNCHANGED <<table, copies, process, faults>>

(* The environment *)

\* Twenty-four hours pass since the row was marked.
Age(r) ==
  /\ row[r] = "published"
  /\ row' = [row EXCEPT ![r] = "old"]
  /\ UNCHANGED <<created, clock, before, attempts, copies, process, poller, faults>>

\* The process dies.  PostgreSQL rolls open transactions back, unless the
\* COMMIT had already reached it.
Crash ==
  /\ up
  /\ faults < MaxFaults
  /\ faults' = faults + 1
  /\ up' = FALSE
  /\ listen' = "off"
  /\ signal' = FALSE
  /\ polling' = FALSE
  /\ pc' = [p \in Loop |-> "idle"]
  /\ message' = [p \in Loop |-> NoRow]
  /\ batch' = [p \in Loop |-> {}]
  /\ \E arrived \in SUBSET {r \in Row : row[r] = "open"} :
       row' = [r \in Row |-> IF row[r] # "open" THEN row[r]
                             ELSE IF r \in arrived THEN "pending" ELSE "aborted"]
  /\ UNCHANGED <<created, clock, before, attempts, copies>>

-----------------------------------------------------------------------------
Writer(r) == Begin(r) \/ Commit(r) \/ Rollback(r)

Listener == SetupListener \/ ListenerError \/ ListenerRetry

\* The steps of a poll() that PostgreSQL and Kafka answer, and the others.
Work(p) == Fetch(p) \/ Publish(p) \/ Mark(p) \/ RecordFailure(p) \/ Clean(p)

Trouble(p) ==
  \/ FetchError(p) \/ PublishError(p) \/ PublishLostAck(p)
  \/ MarkError(p) \/ RecordFailureError(p) \/ CleanError(p)

LoopStep(p) == Work(p) \/ Trouble(p)

Next ==
  \/ \E r \in Row : Writer(r) \/ Age(r)
  \/ \E p \in Loop : Start(p) \/ Tick(p) \/ Notified(p) \/ LoopStep(p)
  \/ Listener
  \/ Crash

Spec == Init /\ [][Next]_vars

\* What the runtime guarantees: a crashed service is started again, a poll()
\* in progress keeps running, and a database or a broker that fails from time
\* to time also answers from time to time.  Nothing is asked of the writers.
LoopFairness ==
  /\ WF_vars(\E p \in Loop : Start(p))
  /\ WF_vars(\E p \in Loop : LoopStep(p))
  /\ SF_vars(\E p \in Loop : Fetch(p))
  /\ SF_vars(\E p \in Loop : RecordFailure(p))
  /\ \A r \in Row \ Refused :
       SF_vars(\E p \in Loop : Publish(p) /\ message[p] = r)

\* setInterval fires for as long as the process runs.
FairSpec == Spec /\ LoopFairness /\ WF_vars(\E p \in Loop : Tick(p))

-----------------------------------------------------------------------------
(* Correctness *)

\* Every variable stays in its range, and isPollRunning says exactly whether
\* a cycle is in progress.
TypeOK ==
  /\ row \in [Row -> RowStates]
  /\ created \in [Row -> Nat]
  /\ clock \in Nat
  /\ before \in [Row -> SUBSET Row]
  /\ attempts \in [Row -> 0..MaxAttempts]
  /\ copies \in [Row -> Nat]
  /\ up \in BOOLEAN
  /\ listen \in {"off", "connecting", "on", "retry"}
  /\ signal \in BOOLEAN
  /\ polling \in BOOLEAN
  /\ polling <=> \E p \in Loop : pc[p] # "idle"
  /\ pc \in [Loop -> PcStates]
  /\ message \in [Loop -> Row \cup {NoRow}]
  /\ batch \in [Loop -> SUBSET Row]
  /\ faults \in 0..MaxFaults

\* A message on the topic comes from a committed row: a rolled back request
\* is never announced, whatever the poller, a crash or a late commit do.
NoPhantomMessage == \A r \in Row : copies[r] > 0 => r \in Committed

\* A row is marked, and later deleted, only when its message is on the topic:
\* no crash, lost acknowledgement or clean-up loses an event.
NoLostMessage == \A r \in Retired : copies[r] > 0

\* Every copy of a message after the first is explained by a crash or a lost
\* acknowledgement: overlapping wake-ups (start, timer, notifications) and
\* stale snapshots of the table never send a row twice by themselves.
DuplicatesExplained == \A r \in Row : copies[r] <= 1 + faults

\* The events of requests that follow each other keep their order: if q was
\* committed before r's transaction began, then q is on the topic before r,
\* unless a publication of q has failed.
CausalOrder ==
  \A r \in Row : copies[r] > 0 =>
    \A q \in before[r] : copies[q] > 0 \/ attempts[q] > 0

\* The outbox is an at-least-once relay: it sends committed rows only, marks
\* a row only after it was sent, and never sends a marked row again.
Promise == INSTANCE Relay WITH accepted <- Committed, retired <- Retired
RelaySpec == Promise!Spec

\* Again and again there is no committed row left to relay, except those the
\* broker always refuses, as long as these do not fill a whole batch.  It takes
\* as many attempts as it takes: no row is given up.
Delivery == []<>(Committed \ Refused \subseteq Retired)

\* README.md:197: a publication is retried up to five times, and what failed
\* more often leaves for the dead letter queue.  With MaxAttempts at six, the
\* first attempt and five retries, a row that failed in all of them is not
\* sent again.
RetriesEnd == \A p \in Loop : pc[p] = "send" => attempts[message[p]] < MaxAttempts
=============================================================================
