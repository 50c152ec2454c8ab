----------------------------- MODULE DeadLetter -----------------------------
(***************************************************************************)
(* The two dead letter handlers of the shared package.                     *)
(*                                                                         *)
(* Both wrap a Kafka handler: an event whose handler keeps failing is      *)
(* parked, so that the partition can go on.  DLQHandler counts the         *)
(* attempts in memory and parks in a table; KafkaDLQHandler reads them     *)
(* from a header and parks on a topic.  An operator retries what is        *)
(* parked and sets the status of rows; old rows are cleaned up, and old    *)
(* messages of the topic are deleted.                                      *)
(***************************************************************************)
EXTENDS Naturals, FiniteSets

CONSTANTS
  Process,    \* instances of the service; a rebalance moves events between them
  Event,      \* events of the topics the service consumes
  Topic,      \* those wrapped by KafkaDLQHandler; the others by DLQHandler
  MaxRetries, \* config.maxRetries of DLQHandler; 3 by default
  TopicRetries, \* config.maxRetries of KafkaDLQHandler; 3 by default
  Limit,      \* the limit of one retryFromDLQ on the topic
  None,       \* no event
  MaxFailures,\* bound: failures counted for an event
  MaxCount,   \* bound: the count of a row that is still retried
  MaxRows,    \* bound: rows of the table
  MaxFaults   \* bound: failed statements and sends, rebalances and crashes

ASSUME DeadLetterAssumption ==
  /\ IsFiniteSet(Process)
  /\ Topic \subseteq Event
  /\ MaxRetries \in Nat \ {0} /\ TopicRetries \in Nat \ {0}
  /\ Limit \in Nat /\ MaxFailures \in Nat /\ MaxCount \in Nat
  /\ MaxRows \in Nat /\ MaxFaults \in Nat
  /\ None \notin Event

VARIABLES
  attempts, \* retryAttempts, in the memory of each process
  work,     \* the event each process handles, and where its wrapper stands
  acked,    \* events whose wrapper returned: Kafka goes on behind them
  rows,     \* dead_letter_queue
  parked,   \* events on the .dlq topic
  passed,   \* those the retry group has consumed
  window,   \* events handled in this retry of the topic
  retry,    \* the row an operator retries, and where the retry stands
  effects,  \* history: events whose handler succeeded
  failures, \* history: how often the handler of an event has failed
  dropped,  \* history: events that could not be parked
  cleared,  \* history: events with a row an operator set to resolved
  lapsed,   \* history: events whose message has outlived its retention
  faults    \* faults so far

table == <<rows, retry>>
topic == <<parked, passed, window>>
losses == <<dropped, cleared, lapsed>>
history == <<effects, failures, losses>>
vars == <<attempts, work, acked, table, topic, history, faults>>

Status == {"failed", "investigating", "resolved", "ignored"}
Row == [id : 1..MaxRows, of : Event, count : Nat, status : Status, dated : BOOLEAN]
Idle == [of |-> None, at |-> "idle"]
NoRetry == [of |-> None, id |-> 0, at |-> "idle"]
Closed == Limit + 2   \* after 0..Limit messages; Limit + 1 is paused

-----------------------------------------------------------------------------
Init ==
  /\ attempts = [p \in Process |-> [e \in Event |-> 0]]
  /\ work = [p \in Process |-> Idle]
  /\ acked = {}
  /\ rows = {}
  /\ parked = {}
  /\ passed = {}
  /\ window = Closed
  /\ retry = NoRetry
  /\ effects = {}
  /\ failures = [e \in Event |-> 0]
  /\ dropped = {}
  /\ cleared = {}
  /\ lapsed = {}
  /\ faults = 0

Fault ==
  /\ faults < MaxFaults
  /\ faults' = faults + 1

At(p, label) == work[p].at = label
Goto(p, label) == work' = [work EXCEPT ![p].at = label]
Leave(p) == work' = [work EXCEPT ![p] = Idle]
Handled(p) == work[p].of

(* wrap *)

\* Kafka hands out an event that is not acknowledged; after a rebalance also
\* while the previous owner of its partition still handles it.
Deliver(p, e) ==
  /\ At(p, "idle")
  /\ e \notin acked
  /\ \/ \A q \in Process : Handled(q) # e
        /\ UNCHANGED faults
     \/ (\E q \in Process : Handled(q) = e) /\ Fault
  /\ work' = [work EXCEPT ![p] = [of |-> e, at |-> "handler"]]
  /\ UNCHANGED <<attempts, acked, table, topic, history>>

\* retryAttempts.delete.
Forget(p) == attempts' = [attempts EXCEPT ![p][Handled(p)] = 0]

\* The handler succeeds, and the wrapper returns.
Succeed(p) ==
  /\ At(p, "handler")
  /\ effects' = effects \cup {Handled(p)}
  /\ acked' = acked \cup {Handled(p)}
  /\ Forget(p)
  /\ Leave(p)
  /\ UNCHANGED <<table, topic, failures, losses, faults>>

CountFailure(e) ==
  /\ failures[e] < MaxFailures
  /\ failures' = [failures EXCEPT ![e] = @ + 1]

\* The attempts made so far: in memory, or in a header that redelivery does
\* not change and nothing sets.
Attempts(p, e) == IF e \in Topic THEN 0 ELSE attempts[p][e]

Allowed(e) == IF e \in Topic THEN TopicRetries ELSE MaxRetries
TooLate(e, n) == n > Allowed(e)
Enough(e, n) == n >= Allowed(e)

\* The handler fails: park the event after enough attempts, or throw, so
\* that Kafka delivers it again.
Fail(p) ==
  LET e == Handled(p)
      n == Attempts(p, e) + 1
  IN  /\ At(p, "handler")
      /\ IF e \in Topic THEN UNCHANGED failures ELSE CountFailure(e)
      /\ IF Enough(e, n)
         THEN Goto(p, IF e \in Topic THEN "send" ELSE "exists") /\ UNCHANGED attempts
         ELSE /\ Leave(p)
              /\ attempts' = [attempts EXCEPT ![p][e] = IF e \in Topic THEN @ ELSE n]
      /\ UNCHANGED <<acked, table, topic, effects, losses, faults>>

RowsOf(e) == {r \in rows : r.of = e}

\* moveToDLQ asks whether the event has a row, in a statement of its own.
MoveToDLQ(p) ==
  /\ At(p, "exists")
  /\ Goto(p, IF RowsOf(Handled(p)) = {} THEN "add" ELSE "increment")
  /\ UNCHANGED <<attempts, acked, table, topic, history, faults>>

ParkedUnacknowledged(p) ==
  /\ UNCHANGED acked
  /\ Forget(p)
  /\ Leave(p)

\* The wrapper returns after it parked the event, or failed to.
Parked(p) ==
  /\ acked' = acked \cup {Handled(p)}
  /\ Forget(p)
  /\ Leave(p)

\* An id that no row has, nor had when its retry began: ids are not reused.
NewId == CHOOSE i \in 1..MaxRows : i # retry.id /\ \A r \in rows : r.id # i

\* The row says it failed maxRetries times.
Add(p) ==
  /\ At(p, "add")
  /\ Cardinality(({r.id : r \in rows} \cup {retry.id}) \ {0}) < MaxRows
  /\ rows' = rows \cup {[id |-> NewId, of |-> Handled(p), count |-> MaxRetries,
                         status |-> "failed", dated |-> FALSE]}
  /\ Parked(p)
  /\ UNCHANGED <<retry, topic, history, faults>>

\* incrementFailureCount, on every row of the event.
Increment(e) ==
  rows' = {IF r.of = e THEN [r EXCEPT !.count = @ + 1] ELSE r : r \in rows}

IncrementParked(p) ==
  /\ At(p, "increment")
  /\ Increment(Handled(p))
  /\ Parked(p)
  /\ UNCHANGED <<retry, topic, history, faults>>

\* sendToDLQ: a message that the retry group has not consumed.
Send(p) ==
  /\ At(p, "send")
  /\ parked' = parked \cup {Handled(p)}
  /\ passed' = passed \ {Handled(p)}
  /\ Parked(p)
  /\ UNCHANGED <<table, window, history, faults>>

\* The statement or the send fails, and the error is swallowed.
ParkingFails(p) ==
  /\ work[p].at \in {"exists", "add", "increment", "send"}
  /\ Fault
  /\ dropped' = dropped \cup {Handled(p)}
  /\ Parked(p)
  /\ UNCHANGED <<table, topic, effects, failures, cleared, lapsed>>

\* A process dies with its counts.
Crash(p) ==
  /\ Fault
  /\ attempts' = [attempts EXCEPT ![p] = [e \in Event |-> 0]]
  /\ Leave(p)
  /\ UNCHANGED <<acked, table, topic, history>>

(* Retrying from the table *)

\* findByEventId; an event that is not in status failed is left alone.
FindFailed(r) ==
  /\ retry = NoRetry
  /\ r.status = "failed"
  /\ r.count < MaxCount
  /\ retry' = [of |-> r.of, id |-> r.id, at |-> "handler"]
  /\ UNCHANGED <<attempts, work, acked, rows, topic, history, faults>>

\* The first statement fails: the catch counts a failure nevertheless.
FindFails(r) ==
  /\ retry = NoRetry
  /\ Fault
  /\ Increment(r.of)
  /\ UNCHANGED <<attempts, work, acked, retry, topic, history>>

\* The handler is called again, and the row is resolved after it succeeded.
RetrySucceeds ==
  /\ retry.at = "handler"
  /\ effects' = effects \cup {retry.of}
  /\ retry' = [retry EXCEPT !.at = "resolve"]
  /\ UNCHANGED <<attempts, work, acked, rows, topic, failures, losses, faults>>

\* update, by the id of the row; resolved_at is set.
Set(r, status) ==
  [r EXCEPT !.status = status, !.dated = @ \/ status = "resolved"]

Update(id, status) ==
  rows' = {IF r.id = id THEN Set(r, status) ELSE r : r \in rows}

Resolve ==
  /\ retry.at = "resolve"
  /\ Update(retry.id, "resolved")
  /\ retry' = NoRetry
  /\ UNCHANGED <<attempts, work, acked, topic, history, faults>>

RetryFailsResolved ==
  /\ retry.at = "handler"
  /\ CountFailure(retry.of)
  /\ Update(retry.id, "resolved")
  /\ retry' = NoRetry
  /\ UNCHANGED <<attempts, work, acked, topic, effects, losses, faults>>

\* The handler fails, or the update does after the handler succeeded: either
\* way the row counts one more failure.
RetryFails ==
  /\ \/ retry.at = "handler" /\ CountFailure(retry.of) /\ UNCHANGED faults
     \/ retry.at = "resolve" /\ Fault /\ UNCHANGED failures
  /\ Increment(retry.of)
  /\ retry' = NoRetry
  /\ UNCHANGED <<attempts, work, acked, topic, effects, losses>>

\* The process dies, or the failure cannot be counted.
RetryBreaksOff ==
  /\ retry # NoRetry
  /\ Fault
  /\ retry' = NoRetry
  /\ UNCHANGED <<attempts, work, acked, rows, topic, history>>

\* An operator sets the status of a row, resolved included, whether or not the
\* handler of its event has ever succeeded.
Triage(r, status) ==
  /\ r.status # status
  /\ Update(r.id, status)
  /\ cleared' = IF status = "resolved" THEN cleared \cup {r.of} ELSE cleared
  /\ UNCHANGED <<attempts, work, acked, retry, topic, effects, failures, dropped, lapsed, faults>>

\* cleanup, some day: rows that are done with and have a resolution date.
AnyAge(r) == TRUE
Expired(r) == r.status \in {"resolved", "ignored"} /\ r.dated

Cleanup ==
  /\ \E r \in rows : Expired(r)
  /\ rows' = {r \in rows : ~Expired(r)}
  /\ UNCHANGED <<attempts, work, acked, retry, topic, history, faults>>

(* Retrying from the topic *)

\* A consumer of five seconds; it sees only what is parked from now on, or
\* since the last time.
OpenWindow ==
  /\ window = Closed
  /\ parked # {}
  /\ window' = 0
  /\ passed' \in {passed, parked}
  /\ UNCHANGED <<attempts, work, acked, table, parked, history, faults>>

\* The message is consumed also when the handler fails, and the first one
\* beyond the limit without calling it; that one pauses the consumer.
RetryParked(e) ==
  /\ window <= Limit
  /\ e \in parked \ passed
  /\ passed' = passed \cup {e}
  /\ \/ window < Limit /\ effects' = effects \cup {e}
     \/ UNCHANGED effects
  /\ window' = window + 1
  /\ UNCHANGED <<attempts, work, acked, table, parked, failures, losses, faults>>

\* Seven days after it was sent Kafka deletes a message of the topic.
Lapse(e) ==
  /\ e \in parked
  /\ parked' = parked \ {e}
  /\ passed' = passed \ {e}
  /\ lapsed' = lapsed \cup {e}
  /\ UNCHANGED <<attempts, work, acked, table, window, effects, failures, dropped, cleared, faults>>

CloseWindow ==
  /\ window # Closed
  /\ window' = Closed
  /\ UNCHANGED <<attempts, work, acked, table, parked, passed, history, faults>>

-----------------------------------------------------------------------------
WrapperStep(p) ==
  \/ Succeed(p) \/ Fail(p)
  \/ MoveToDLQ(p) \/ Add(p) \/ IncrementParked(p) \/ Send(p)

Operator ==
  \/ \E r \in rows : FindFailed(r) \/ FindFails(r)
  \/ RetrySucceeds \/ Resolve \/ RetryFails \/ RetryBreaksOff
  \/ \E r \in rows : \E s \in Status : Triage(r, s)
  \/ Cleanup
  \/ OpenWindow \/ CloseWindow
  \/ \E e \in Topic : RetryParked(e) \/ Lapse(e)

Next ==
  \/ \E p \in Process :
       \/ \E e \in Event : Deliver(p, e)
       \/ WrapperStep(p) \/ ParkingFails(p) \/ Crash(p)
  \/ Operator

Spec == Init /\ [][Next]_vars

\* Kafka delivers what is not acknowledged, and wrappers go on.  Nothing is
\* asked of handlers, which may fail for ever, nor of operators.
FairSpec ==
  /\ Spec
  /\ \A e \in Event : SF_vars(\E p \in Process : Deliver(p, e))
  /\ \A p \in Process : WF_vars(WrapperStep(p))

-----------------------------------------------------------------------------
(* Correctness *)

Places == {"idle", "handler", "exists", "add", "increment", "send"}

\* Every variable stays in its range, no two rows have one id, and no
\* process has counted up to the limit.
TypeOK ==
  /\ attempts \in [Process -> [Event -> 0..(MaxRetries - 1)]]
  /\ work \in [Process -> [of : Event \cup {None}, at : Places]]
  /\ \A p \in Process : At(p, "idle") <=> Handled(p) = None
  /\ acked \subseteq Event
  /\ rows \subseteq Row
  /\ \A r, s \in rows : r.id = s.id => r = s
  /\ parked \subseteq Topic
  /\ passed \subseteq parked
  /\ window \in 0..Closed
  /\ retry \in [of : Event \cup {None}, id : 0..MaxRows, at : {"idle", "handler", "resolve"}]
  /\ effects \subseteq Event
  /\ failures \in [Event -> 0..MaxFailures]
  /\ dropped \subseteq Event
  /\ cleared \subseteq Event
  /\ lapsed \subseteq Topic
  /\ faults \in 0..MaxFaults

\* Kafka goes on behind an event only when its handler succeeded or it is
\* parked, and a parked event stays parked until a retry of it succeeds, an
\* operator resolves it by hand, or its message has outlived its retention; the
\* exception is an event that could not be parked, which the handlers give up.
NothingLost ==
  \A e \in acked :
    \/ e \in effects \/ RowsOf(e) # {} \/ e \in parked
    \/ e \in dropped \/ e \in cleared \/ e \in lapsed

\* A row has a resolution date when its handler has succeeded or an operator
\* said so, and none is resolved without one; the failures it counts happened,
\* or were the update of a retry that had succeeded.
RowsTellTheTruth ==
  \A r \in rows :
    /\ r.dated => r.of \in effects \cup cleared
    /\ r.status = "resolved" => r.dated
    /\ r.count <= failures[r.of] + faults

\* Every event leaves its partition in the end, handled, parked or given up,
\* whatever its handler does, crashes and rebalances notwithstanding.  Not so
\* one that KafkaDLQHandler wraps and may fail more than once: nothing counts
\* its attempts, and it is delivered as long as it fails.
EveryEventLeaves ==
  \A e \in Event : (e \in Topic => TopicRetries = 1) => <>(e \in acked)
=============================================================================
