---------------------------- MODULE OutboxProofs ----------------------------
(***************************************************************************)
(* Proofs about Outbox for any number of rows, overlapping calls of poll() *)
(* and faults.  The inductive invariant says what one cycle in progress    *)
(* knows about the table it took its snapshot from.                        *)
(***************************************************************************)
EXTENDS Outbox, TLAPS

\* isPollRunning admits one call of poll() at a time.
OneCycle ==
  \A p, q \in Loop : pc[p] # "idle" /\ pc[q] # "idle" => p = q

\* The snapshot is not stale: nobody else marks or deletes its rows.
SnapshotOK ==
  \A p \in Loop :
    /\ pc[p] \in {"send", "mark", "fail"} => message[p] \in Row
    /\ pc[p] \in {"idle", "fetch", "clean"} => message[p] = NoRow /\ batch[p] = {}
    /\ \A r \in batch[p] : row[r] = "pending"
    /\ message[p] \notin batch[p]
    /\ pc[p] \in {"send", "mark"} => row[message[p]] = "pending"
    /\ pc[p] = "fail" => message[p] \in Committed
    /\ pc[p] = "mark" => copies[message[p]] > 0

\* A pending row has been sent at most once per fault, unless the cycle is
\* about to mark it.
SentInTurn ==
  \A r \in Row :
    row[r] = "pending" =>
      copies[r] <= faults \/ \E p \in Loop : pc[p] = "mark" /\ message[p] = r

\* The table and the topic by themselves.
RelayedOK == NoPhantomMessage /\ NoLostMessage /\ DuplicatesExplained

IInv ==
  /\ TypeOK
  /\ OneCycle
  /\ SnapshotOK
  /\ SentInTurn
  /\ RelayedOK

\* No cycle is in progress.
AtRest ==
  /\ polling = FALSE
  /\ pc = [p \in Loop |-> "idle"]
  /\ message = [p \in Loop |-> NoRow]
  /\ batch = [p \in Loop |-> {}]

-----------------------------------------------------------------------------
(* The end of a cycle *)

\* The finally block leaves no cycle in progress, for there was only this one.
LEMMA FinishEndsTheCycle ==
  ASSUME TypeOK, OneCycle, SnapshotOK, NEW p \in Loop, pc[p] # "idle", Finish(p)
  PROVE  AtRest'
<1>1. pc' = [q \in Loop |-> "idle"]
  BY DEF Finish, TypeOK, OneCycle
<1>2. message' = [q \in Loop |-> NoRow]
  BY DEF Finish, TypeOK, OneCycle, SnapshotOK
<1>3. batch' = [q \in Loop |-> {}]
  BY DEF Finish, TypeOK, OneCycle, SnapshotOK
<1> QED BY <1>1, <1>2, <1>3 DEF Finish, AtRest

\* With no cycle in progress the invariant is about the table alone.
LEMMA InvariantAtRest ==
  ASSUME AtRest',
         row' \in [Row -> RowStates], created' \in [Row -> Nat], clock' \in Nat,
         before' \in [Row -> SUBSET Row], attempts' \in [Row -> 0..MaxAttempts],
         copies' \in [Row -> Nat], up' \in BOOLEAN,
         listen' \in {"off", "connecting", "on", "retry"}, signal' \in BOOLEAN,
         faults' \in 0..MaxFaults,
         \A r \in Row : row'[r] = "pending" => copies'[r] <= faults',
         RelayedOK'
  PROVE  IInv'
<1>1. polling' <=> \E p \in Loop : pc'[p] # "idle"
  BY DEF AtRest
<1>2. TypeOK'
  BY <1>1 DEF TypeOK, AtRest, PcStates
<1>3. OneCycle' /\ SnapshotOK'
  BY DEF OneCycle, SnapshotOK, AtRest
<1> QED BY <1>2, <1>3 DEF IInv, SentInTurn

-----------------------------------------------------------------------------
(* Each step keeps the invariant *)

\* At the start no row exists and no cycle runs.
LEMMA InitIInv == Init => IInv
<1> SUFFICES ASSUME Init PROVE IInv
  OBVIOUS
<1>1. TypeOK
  <2>1. up \in BOOLEAN /\ signal \in BOOLEAN /\ polling \in BOOLEAN
    BY DEF Init
  <2>2. polling <=> \E p \in Loop : pc[p] # "idle"
    BY DEF Init
  <2>3. /\ row \in [Row -> RowStates] /\ created \in [Row -> Nat] /\ clock \in Nat
        /\ before \in [Row -> SUBSET Row] /\ attempts \in [Row -> 0..MaxAttempts]
        /\ copies \in [Row -> Nat] /\ listen \in {"off", "connecting", "on", "retry"}
        /\ pc \in [Loop -> PcStates] /\ message \in [Loop -> Row \cup {NoRow}]
        /\ batch \in [Loop -> SUBSET Row] /\ faults \in 0..MaxFaults
    BY OutboxAssumption DEF Init, RowStates, PcStates
  <2> QED BY <2>1, <2>2, <2>3 DEF TypeOK
<1>2. OneCycle /\ SnapshotOK /\ SentInTurn /\ RelayedOK
  BY OutboxAssumption
  DEF Init, OneCycle, SnapshotOK, SentInTurn, RelayedOK, NoPhantomMessage,
      NoLostMessage, DuplicatesExplained, Committed, Retired
<1> QED BY <1>1, <1>2 DEF IInv

\* A new row is not in any snapshot.
LEMMA BeginStep == ASSUME IInv, NEW r \in Row, Begin(r) PROVE IInv'
  BY OutboxAssumption
  DEF Begin, process, poller, IInv, TypeOK, OneCycle, SnapshotOK, SentInTurn, RelayedOK,
      NoPhantomMessage, NoLostMessage, DuplicatesExplained, Committed, Retired, RowStates, PcStates

\* A row that becomes pending has not been sent.
LEMMA CommitStep == ASSUME IInv, NEW r \in Row, Commit(r) PROVE IInv'
  BY OutboxAssumption
  DEF Commit, poller, IInv, TypeOK, OneCycle, SnapshotOK, SentInTurn, RelayedOK,
      NoPhantomMessage, NoLostMessage, DuplicatesExplained, Committed, Retired, RowStates, PcStates

\* A row that is rolled back was never visible to the poller.
LEMMA RollbackStep == ASSUME IInv, NEW r \in Row, Rollback(r) PROVE IInv'
  BY OutboxAssumption
  DEF Rollback, process, poller, IInv, TypeOK, OneCycle, SnapshotOK, SentInTurn, RelayedOK,
      NoPhantomMessage, NoLostMessage, DuplicatesExplained, Committed, Retired, RowStates, PcStates

\* A published row that grows old stays retired.
LEMMA AgeStep == ASSUME IInv, NEW r \in Row, Age(r) PROVE IInv'
  BY OutboxAssumption
  DEF Age, process, poller, IInv, TypeOK, OneCycle, SnapshotOK, SentInTurn, RelayedOK,
      NoPhantomMessage, NoLostMessage, DuplicatesExplained, Committed, Retired, RowStates, PcStates

\* start() may enter the first cycle: no other is in progress.
LEMMA StartStep == ASSUME IInv, NEW p \in Loop, Start(p) PROVE IInv'
  BY OutboxAssumption
  DEF Start, Enter, MayPoll, table, IInv, TypeOK, OneCycle, SnapshotOK, SentInTurn, RelayedOK,
      NoPhantomMessage, NoLostMessage, DuplicatesExplained, Committed, Retired, RowStates, PcStates

\* The timer enters a cycle only when isPollRunning is not set.
LEMMA TickStep == ASSUME IInv, NEW p \in Loop, Tick(p) PROVE IInv'
  BY OutboxAssumption
  DEF Tick, Enter, MayPoll, table, process, IInv, TypeOK, OneCycle, SnapshotOK, SentInTurn, RelayedOK,
      NoPhantomMessage, NoLostMessage, DuplicatesExplained, Committed, Retired, RowStates, PcStates

\* A notification enters a cycle, or is dropped during one.
LEMMA NotifiedStep == ASSUME IInv, NEW p \in Loop, Notified(p) PROVE IInv'
<1>1. signal' \in BOOLEAN
  BY DEF Notified
<1>2. CASE Enter(p)
  BY <1>1, <1>2, OutboxAssumption
  DEF Notified, Enter, MayPoll, table, IInv, TypeOK, OneCycle, SnapshotOK, SentInTurn, RelayedOK,
      NoPhantomMessage, NoLostMessage, DuplicatesExplained, Committed, Retired, PcStates
<1>3. CASE UNCHANGED poller
  BY <1>1, <1>3, OutboxAssumption
  DEF Notified, table, poller, IInv, TypeOK, OneCycle, SnapshotOK, SentInTurn, RelayedOK,
      NoPhantomMessage, NoLostMessage, DuplicatesExplained, Committed, Retired
<1> QED BY <1>2, <1>3 DEF Notified

\* The listener touches neither the table nor the cycle.
LEMMA ListenerStep == ASSUME IInv, Listener PROVE IInv'
<1>1. /\ signal' \in BOOLEAN
      /\ listen' \in {"off", "connecting", "on", "retry"}
      /\ UNCHANGED <<table, copies, up, poller, faults>>
  BY DEF Listener, SetupListener, ListenerError, ListenerRetry, IInv, TypeOK
<1> QED
  BY <1>1 DEF table, poller, IInv, TypeOK, OneCycle, SnapshotOK, SentInTurn, RelayedOK,
      NoPhantomMessage, NoLostMessage, DuplicatesExplained, Committed, Retired

\* The rows of a new snapshot are pending.
LEMMA FetchStep == ASSUME IInv, NEW p \in Loop, Fetch(p) PROVE IInv'
<1>1. CASE Pending = {} /\ Finish(p)
  <2>1. AtRest'
    BY <1>1, FinishEndsTheCycle DEF Fetch, IInv
  <2>2. \A r \in Row : row'[r] = "pending" => copies'[r] <= faults'
    BY <1>1 DEF Fetch, table, Pending
  <2>3. RelayedOK'
    BY DEF IInv, Fetch, table, RelayedOK, NoPhantomMessage, NoLostMessage,
           DuplicatesExplained, Committed, Retired
  <2> QED
    BY <2>1, <2>2, <2>3, InvariantAtRest DEF Fetch, table, process, IInv, TypeOK
<1>2. ASSUME NEW B \in Batches(Pending), Take(p, B)
      PROVE  IInv'
  <2>1. B \subseteq {r \in Row : row[r] = "pending"}
    BY DEF Batches, Pending
  <2> QED
    BY <1>2, <2>1, OutboxAssumption
    DEF Fetch, Take, table, process, IInv, TypeOK, OneCycle, SnapshotOK, SentInTurn, RelayedOK,
      NoPhantomMessage, NoLostMessage, DuplicatesExplained, Committed, Retired, PcStates
<1> QED BY <1>1, <1>2 DEF Fetch

\* A failed SELECT ends the cycle.
LEMMA FetchErrorStep == ASSUME IInv, NEW p \in Loop, FetchError(p) PROVE IInv'
<1>1. AtRest'
  BY FinishEndsTheCycle DEF FetchError, IInv
<1>2. \A r \in Row : row'[r] = "pending" => copies'[r] <= faults'
  BY DEF IInv, FetchError, table, TypeOK, OneCycle, SentInTurn
<1>3. RelayedOK'
  BY DEF IInv, FetchError, table, RelayedOK, NoPhantomMessage, NoLostMessage,
         DuplicatesExplained, Committed, Retired
<1> QED
  BY <1>1, <1>2, <1>3, InvariantAtRest DEF FetchError, table, process, IInv, TypeOK

\* A sent message is the one the cycle will mark next.
LEMMA PublishStep == ASSUME IInv, NEW p \in Loop, Publish(p) PROVE IInv'
  BY OutboxAssumption
  DEF Publish, Goto, table, process, IInv, TypeOK, OneCycle, SnapshotOK, SentInTurn, RelayedOK,
      NoPhantomMessage, NoLostMessage, DuplicatesExplained, Committed, Retired, PcStates

\* A refused message is still pending.
LEMMA PublishErrorStep == ASSUME IInv, NEW p \in Loop, PublishError(p) PROVE IInv'
  BY OutboxAssumption
  DEF PublishError, Goto, table, process, IInv, TypeOK, OneCycle, SnapshotOK, SentInTurn, RelayedOK,
      NoPhantomMessage, NoLostMessage, DuplicatesExplained, Committed, Retired, PcStates

\* A copy stored without an acknowledgement has its fault.
LEMMA PublishLostAckStep == ASSUME IInv, NEW p \in Loop, PublishLostAck(p) PROVE IInv'
  BY OutboxAssumption
  DEF PublishLostAck, Goto, table, process, IInv, TypeOK, OneCycle, SnapshotOK, SentInTurn, RelayedOK,
      NoPhantomMessage, NoLostMessage, DuplicatesExplained, Committed, Retired, PcStates

\* Marking takes the row out of the pending ones after it was sent.
LEMMA MarkStep == ASSUME IInv, NEW p \in Loop, Mark(p) PROVE IInv'
<1>1. /\ pc[p] = "mark" /\ message[p] \in Row /\ message[p] \notin batch[p]
      /\ row[message[p]] = "pending" /\ copies[message[p]] > 0
      /\ \A q \in Loop : q # p => pc[q] = "idle"
  BY DEF Mark, IInv, OneCycle, SnapshotOK
<1>2. /\ row' \in [Row -> RowStates]
      /\ row' = [row EXCEPT ![message[p]] = "published"]
  BY <1>1 DEF Mark, MarkPublished, IInv, TypeOK, RowStates
<1>3. UNCHANGED <<created, clock, before, attempts, copies, up, listen, signal, polling, faults>>
  BY DEF Mark, Take, process
<1>4. TypeOK'
  <2>1. /\ pc' \in [Loop -> PcStates] /\ pc'[p] # "idle"
        /\ message' \in [Loop -> Row \cup {NoRow}]
        /\ batch' \in [Loop -> SUBSET Row]
    BY DEF Mark, Take, IInv, TypeOK, PcStates
  <2>2. polling'
    BY <1>1, <1>3 DEF IInv, TypeOK
  <2> QED BY <1>2, <1>3, <2>1, <2>2 DEF IInv, TypeOK
<1>5. OneCycle'
  BY <1>1 DEF Mark, Take, IInv, TypeOK, OneCycle
<1>6. SnapshotOK'
  <2>1. ASSUME NEW q \in Loop, q # p
        PROVE  pc'[q] = "idle" /\ message'[q] = NoRow /\ batch'[q] = {}
    BY <1>1, <2>1 DEF Mark, Take, IInv, TypeOK, SnapshotOK
  <2>2. CASE pc'[p] = "clean" /\ message'[p] = NoRow /\ batch'[p] = {}
    BY <2>1, <2>2, OutboxAssumption DEF SnapshotOK
  <2>3. ASSUME NEW r \in batch[p], pc'[p] = "send", message'[p] = r,
               batch'[p] = batch[p] \ {r}
        PROVE  SnapshotOK'
    BY <1>1, <1>2, <2>1, <2>3 DEF IInv, TypeOK, SnapshotOK
  <2> QED BY <2>2, <2>3 DEF Mark, Take, IInv, TypeOK
<1>7. SentInTurn'
  BY <1>1, <1>2, <1>3 DEF IInv, TypeOK, SentInTurn
<1>8. RelayedOK'
  BY <1>1, <1>2, <1>3
  DEF IInv, TypeOK, RelayedOK, NoPhantomMessage, NoLostMessage, DuplicatesExplained,
      Committed, Retired
<1> QED BY <1>4, <1>5, <1>6, <1>7, <1>8 DEF IInv

\* A failed mark has its fault, whether or not the row was updated.
LEMMA MarkErrorStep == ASSUME IInv, NEW p \in Loop, MarkError(p) PROVE IInv'
  BY OutboxAssumption
  DEF MarkError, MarkPublished, Goto, process, IInv, TypeOK, OneCycle, SnapshotOK, SentInTurn, RelayedOK,
      NoPhantomMessage, NoLostMessage, DuplicatesExplained, Committed, Retired, RowStates, PcStates

\* The loop goes on with the next message of the snapshot.
LEMMA RecordFailureStep == ASSUME IInv, NEW p \in Loop, RecordFailure(p) PROVE IInv'
  BY OutboxAssumption
  DEF RecordFailure, CountAttempt, Take, process, IInv, TypeOK, OneCycle, SnapshotOK, SentInTurn, RelayedOK,
      NoPhantomMessage, NoLostMessage, DuplicatesExplained, Committed, Retired, PcStates

\* A failed recordFailure ends the cycle.
LEMMA RecordFailureErrorStep == ASSUME IInv, NEW p \in Loop, RecordFailureError(p) PROVE IInv'
<1>1. AtRest'
  BY FinishEndsTheCycle DEF RecordFailureError, IInv
<1>2. \A r \in Row : row'[r] = "pending" => copies'[r] <= faults'
  BY DEF IInv, RecordFailureError, table, TypeOK, OneCycle, SentInTurn
<1>3. RelayedOK'
  BY DEF IInv, RecordFailureError, table, RelayedOK, NoPhantomMessage, NoLostMessage,
         DuplicatesExplained, Committed, Retired
<1>4. attempts' \in [Row -> 0..MaxAttempts]
  BY OutboxAssumption DEF IInv, RecordFailureError, CountAttempt, TypeOK
<1> QED
  BY <1>1, <1>2, <1>3, <1>4, InvariantAtRest DEF RecordFailureError, process,
      IInv, TypeOK

\* A failed DELETE ends the cycle.
LEMMA CleanErrorStep == ASSUME IInv, NEW p \in Loop, CleanError(p) PROVE IInv'
<1>1. AtRest'
  BY FinishEndsTheCycle DEF CleanError, IInv
<1>2. \A r \in Row : row'[r] = "pending" => copies'[r] <= faults'
  BY DEF IInv, CleanError, table, TypeOK, OneCycle, SentInTurn
<1>3. RelayedOK'
  BY DEF IInv, CleanError, table, RelayedOK, NoPhantomMessage, NoLostMessage,
         DuplicatesExplained, Committed, Retired
<1> QED
  BY <1>1, <1>2, <1>3, InvariantAtRest DEF CleanError, table, process, IInv, TypeOK

\* The DELETE removes rows that were marked, so they were sent.
LEMMA CleanStep == ASSUME IInv, NEW p \in Loop, Clean(p) PROVE IInv'
<1>1. AtRest'
  BY FinishEndsTheCycle DEF Clean, IInv
<1>2. \A r \in Row : row'[r] = "pending" => copies'[r] <= faults'
  BY DEF IInv, Clean, TypeOK, OneCycle, SentInTurn, Expired
<1>3. row' \in [Row -> RowStates]
  BY DEF IInv, Clean, TypeOK, RowStates
<1>4. RelayedOK'
  BY DEF IInv, Clean, RelayedOK, NoPhantomMessage, NoLostMessage,
         DuplicatesExplained, Committed, Retired, Expired
<1> QED
  BY <1>1, <1>2, <1>3, <1>4, InvariantAtRest DEF Clean, process, IInv, TypeOK

\* A crash leaves no cycle, and at most one sent row to send again.
LEMMA CrashStep == ASSUME IInv, Crash PROVE IInv'
<1>1. AtRest'
  BY DEF Crash, AtRest
<1>2. \A r \in Row : row'[r] = "pending" => copies'[r] <= faults'
  BY DEF Crash, IInv, TypeOK, OneCycle, SnapshotOK, SentInTurn, RelayedOK,
      NoPhantomMessage, NoLostMessage, DuplicatesExplained, Committed, Retired
<1>3. row' \in [Row -> RowStates]
  BY DEF IInv, Crash, TypeOK, RowStates
<1>4. RelayedOK'
  BY DEF IInv, Crash, TypeOK, RelayedOK, NoPhantomMessage, NoLostMessage,
         DuplicatesExplained, Committed, Retired
<1>5. up' \in BOOLEAN /\ signal' \in BOOLEAN
  BY DEF Crash
<1>6. faults' \in 0..MaxFaults
  BY OutboxAssumption DEF Crash, IInv, TypeOK
<1> QED
  BY <1>1, <1>2, <1>3, <1>4, <1>5, <1>6, InvariantAtRest DEF Crash, IInv, TypeOK

\* The inductive invariant holds in every reachable state, for any number of
\* rows, overlapping calls of poll() and faults.
THEOREM Invariance == Spec => []IInv
<1>1. IInv /\ [Next]_vars => IInv'
  <2> SUFFICES ASSUME IInv, [Next]_vars PROVE IInv'
    OBVIOUS
  <2>1. ASSUME NEW r \in Row, Writer(r) PROVE IInv'
    BY <2>1, BeginStep, CommitStep, RollbackStep DEF Writer
  <2>2. ASSUME NEW p \in Loop, Work(p) PROVE IInv'
    BY <2>2, FetchStep, PublishStep, MarkStep, RecordFailureStep, CleanStep DEF Work
  <2>3. ASSUME NEW p \in Loop, Trouble(p) PROVE IInv'
    BY <2>3, FetchErrorStep, PublishErrorStep, PublishLostAckStep, MarkErrorStep,
       RecordFailureErrorStep, CleanErrorStep DEF Trouble
  <2>4. CASE UNCHANGED vars
    BY <2>4 DEF vars, table, process, poller, IInv, TypeOK, OneCycle, SnapshotOK, SentInTurn, RelayedOK,
      NoPhantomMessage, NoLostMessage, DuplicatesExplained, Committed, Retired
  <2> QED
    BY <2>1, <2>2, <2>3, <2>4, AgeStep, StartStep, TickStep, NotifiedStep,
       ListenerStep, CrashStep DEF Next, LoopStep
<1> QED BY InitIInv, <1>1, PTL DEF Spec

-----------------------------------------------------------------------------
(* The order of the messages *)

\* A row is dated after every row that was committed when it was begun.
Dated ==
  /\ \A r \in Row : created[r] <= clock
  /\ \A r \in Row : \A q \in before[r] : q \in Committed /\ created[q] < created[r]

\* The cycle is at the oldest row left, and whatever precedes a row of the
\* snapshot was tried before or is still in the snapshot.
InOrder ==
  \A p \in Loop : message[p] # NoRow =>
    /\ \A r \in batch[p] : created[message[p]] < created[r]
    /\ \A r \in batch[p] \cup {message[p]} : \A q \in before[r] :
         copies[q] > 0 \/ attempts[q] > 0 \/ q \in batch[p] \cup {message[p]}

OrderInv == Dated /\ InOrder /\ CausalOrder

\* The steps that only add to copies and attempts and end the cycle.
LEMMA OrderAtRest ==
  ASSUME TypeOK, OrderInv, AtRest', UNCHANGED <<created, clock, before, copies>>,
         attempts' \in [Row -> 0..MaxAttempts],
         \A r \in Row : attempts[r] > 0 => attempts'[r] > 0,
         \A r \in Row : r \in Committed => r \in Committed'
  PROVE  OrderInv'
<1>1. Dated'
  BY DEF OrderInv, Dated, TypeOK
<1>2. InOrder'
  BY DEF AtRest, InOrder
<1>3. CausalOrder'
  BY DEF OrderInv, CausalOrder, TypeOK
<1> QED BY <1>1, <1>2, <1>3 DEF OrderInv

\* Going on with the oldest row left, when the row left behind was tried.
LEMMA TakeOrder ==
  ASSUME TypeOK, Dated, NEW p \in Loop, NEW left \in SUBSET Row, Take(p, left),
         UNCHANGED <<created, clock, before>>,
         \A q \in Loop : q # p => message[q] = NoRow,
         \A r \in left : \A q \in before[r] :
           copies'[q] > 0 \/ attempts'[q] > 0 \/ q \in left
  PROVE  InOrder'
<1>1. CASE left = {} /\ message' = [message EXCEPT ![p] = NoRow]
  BY <1>1 DEF InOrder, TypeOK
<1>2. ASSUME NEW r \in left, \A q \in left \ {r} : Older(r, q),
             message' = [message EXCEPT ![p] = r],
             batch' = [batch EXCEPT ![p] = left \ {r}]
      PROVE  InOrder'
  <2>1. \A q \in Loop : q # p => message'[q] = NoRow
    BY <1>2 DEF TypeOK
  <2>2. message'[p] = r /\ batch'[p] = left \ {r} /\ batch'[p] \cup {message'[p]} = left
    BY <1>2 DEF TypeOK
  <2> QED BY <1>2, <2>1, <2>2 DEF InOrder, Older
<1> QED BY <1>1, <1>2 DEF Take

\* At the start nothing is on the topic.
LEMMA InitOrder == Init => OrderInv
  BY DEF Init, OrderInv, Dated, InOrder, CausalOrder

\* A new row is younger than every row its writer could see.
LEMMA BeginOrder == ASSUME IInv, OrderInv, NEW r \in Row, Begin(r) PROVE OrderInv'
  BY OutboxAssumption
  DEF Begin, process, poller, SnapshotOK, PcStates, OrderInv, Dated, InOrder, CausalOrder,
      IInv, TypeOK, RelayedOK, NoPhantomMessage, Committed

\* A commit puts nothing on the topic.
LEMMA CommitOrder == ASSUME IInv, OrderInv, NEW r \in Row, Commit(r) PROVE OrderInv'
  BY OutboxAssumption
  DEF Commit, poller, OrderInv, Dated, InOrder, CausalOrder,
      IInv, TypeOK, RelayedOK, NoPhantomMessage, Committed

\* A rollback puts nothing on the topic.
LEMMA RollbackOrder == ASSUME IInv, OrderInv, NEW r \in Row, Rollback(r) PROVE OrderInv'
  BY OutboxAssumption
  DEF Rollback, process, poller, OrderInv, Dated, InOrder, CausalOrder,
      IInv, TypeOK, RelayedOK, NoPhantomMessage, Committed

\* Time changes no order.
LEMMA AgeOrder == ASSUME IInv, OrderInv, NEW r \in Row, Age(r) PROVE OrderInv'
  BY OutboxAssumption
  DEF Age, process, poller, OrderInv, Dated, InOrder, CausalOrder,
      IInv, TypeOK, RelayedOK, NoPhantomMessage, Committed

\* Entering a cycle changes no order.
LEMMA EnterOrder ==
  ASSUME IInv, OrderInv, NEW p \in Loop, Enter(p), UNCHANGED <<table, copies>>
  PROVE  OrderInv'
  BY DEF Enter, table, OrderInv, Dated, InOrder, CausalOrder, Committed

\* A snapshot holds the oldest pending rows, so none of them leaves an older
\* row behind.
LEMMA FetchOrder == ASSUME IInv, OrderInv, NEW p \in Loop, Fetch(p) PROVE OrderInv'
<1>1. CASE Pending = {} /\ Finish(p)
  <2>1. AtRest'
    BY <1>1, FinishEndsTheCycle DEF Fetch, IInv
  <2> QED
    BY <2>1, OrderAtRest DEF Fetch, table, IInv, TypeOK, Committed
<1>2. ASSUME NEW B \in Batches(Pending), Take(p, B)
      PROVE  OrderInv'
  <2>1. UNCHANGED <<row, created, clock, before, attempts, copies>>
    BY DEF Fetch, table
  <2>2. B \in SUBSET Row
    BY DEF Batches, Pending
  <2>3. \A q \in Loop : q # p => message[q] = NoRow
    BY DEF Fetch, IInv, TypeOK, OneCycle, SnapshotOK
  <2>4. \A r \in B : \A q \in before[r] :
          copies'[q] > 0 \/ attempts'[q] > 0 \/ q \in B
    <3> SUFFICES ASSUME NEW r \in B, NEW q \in before[r], q \notin B
                 PROVE  copies[q] > 0
      BY <2>1
    <3>1. r \in Row /\ q \in Row /\ q \in Committed /\ created[q] < created[r]
      BY <2>2 DEF OrderInv, Dated, IInv, TypeOK
    <3>2. q \notin Pending
      BY <3>1 DEF Batches, Older, IInv, TypeOK
    <3>3. q \in Retired
      BY <3>1, <3>2 DEF Committed, Retired, Pending
    <3> QED BY <3>3 DEF IInv, RelayedOK, NoLostMessage
  <2>5. InOrder'
    BY <1>2, <2>1, <2>2, <2>3, <2>4, TakeOrder DEF IInv, OrderInv
  <2> QED
    BY <2>1, <2>5 DEF OrderInv, Dated, CausalOrder, Committed
<1> QED BY <1>1, <1>2 DEF Fetch

\* A row is sent only after all those that precede it were tried.
LEMMA SendOrder ==
  ASSUME IInv, OrderInv, NEW p \in Loop, pc[p] = "send", UNCHANGED table,
         copies' = [copies EXCEPT ![message[p]] = @ + 1], UNCHANGED <<message, batch>>
  PROVE  OrderInv'
<1>1. message[p] \in Row /\ message[p] # NoRow
  BY OutboxAssumption DEF IInv, SnapshotOK
<1>2. \A q \in before[message[p]] : copies[q] > 0 \/ attempts[q] > 0
  <2> SUFFICES ASSUME NEW q \in before[message[p]]
               PROVE  copies[q] > 0 \/ attempts[q] > 0
    OBVIOUS
  <2>1. q \in Row /\ created[q] < created[message[p]]
    BY <1>1 DEF IInv, TypeOK, OrderInv, Dated
  <2>2. q \notin batch[p] \cup {message[p]}
    BY <1>1, <2>1 DEF OrderInv, InOrder, IInv, TypeOK
  <2> QED BY <1>1, <2>2 DEF OrderInv, InOrder
<1>3. copies' \in [Row -> Nat] /\ \A r \in Row : copies[r] > 0 => copies'[r] > 0
  BY <1>1 DEF IInv, TypeOK
<1>4. Dated'
  BY DEF OrderInv, Dated, table, Committed
<1>5. InOrder'
  BY <1>3, <1>4 DEF OrderInv, InOrder, table, IInv, TypeOK
<1>6. CausalOrder'
  BY <1>1, <1>2, <1>3 DEF OrderInv, CausalOrder, table, IInv, TypeOK
<1> QED BY <1>4, <1>5, <1>6 DEF OrderInv

\* The row the cycle leaves was sent or counts an attempt.
LEMMA AdvanceOrder ==
  ASSUME IInv, OrderInv, NEW p \in Loop, pc[p] \in {"mark", "fail"}, Take(p, batch[p]),
         UNCHANGED <<created, clock, before, copies>>,
         attempts' \in [Row -> 0..MaxAttempts],
         \A r \in Row : attempts[r] > 0 => attempts'[r] > 0,
         \A r \in Row : r \in Committed => r \in Committed',
         copies[message[p]] > 0 \/ attempts'[message[p]] > 0
  PROVE  OrderInv'
<1>1. message[p] \in Row /\ message[p] # NoRow /\ batch[p] \in SUBSET Row
  BY OutboxAssumption DEF IInv, SnapshotOK, TypeOK
<1>2. \A q \in Loop : q # p => message[q] = NoRow
  BY DEF IInv, TypeOK, OneCycle, SnapshotOK, PcStates
<1>3. \A r \in batch[p] : \A q \in before[r] :
        copies'[q] > 0 \/ attempts'[q] > 0 \/ q \in batch[p]
  BY <1>1 DEF OrderInv, InOrder, IInv, TypeOK
<1>4. InOrder'
  BY <1>1, <1>2, <1>3, TakeOrder DEF IInv, OrderInv
<1>5. Dated'
  BY DEF OrderInv, Dated, IInv, TypeOK
<1>6. CausalOrder'
  BY DEF OrderInv, CausalOrder, IInv, TypeOK
<1> QED BY <1>4, <1>5, <1>6 DEF OrderInv

\* The cycle goes on with the oldest message left in its snapshot.
LEMMA MarkOrder == ASSUME IInv, OrderInv, NEW p \in Loop, Mark(p) PROVE OrderInv'
<1>1. copies[message[p]] > 0 /\ message[p] \in Committed
  BY DEF Mark, IInv, SnapshotOK, Committed
<1>2. \A r \in Row : r \in Committed => r \in Committed'
  BY <1>1 DEF Mark, MarkPublished, Committed, IInv, TypeOK
<1>3. attempts' = attempts /\ UNCHANGED <<created, clock, before, copies>>
  BY DEF Mark
<1> QED
  BY <1>1, <1>2, <1>3, AdvanceOrder DEF Mark, IInv, TypeOK

\* A message passed over has a failed attempt to its name.
LEMMA RecordFailureOrder ==
  ASSUME IInv, OrderInv, NEW p \in Loop, RecordFailure(p) PROVE OrderInv'
<1>1. message[p] \in Row
  BY DEF RecordFailure, IInv, SnapshotOK
<1>2. /\ attempts' \in [Row -> 0..MaxAttempts]
      /\ \A r \in Row : attempts[r] > 0 => attempts'[r] > 0
      /\ attempts'[message[p]] > 0
  BY <1>1, OutboxAssumption DEF RecordFailure, CountAttempt, IInv, TypeOK
<1> QED
  BY <1>2, AdvanceOrder DEF RecordFailure, Committed

\* The remaining steps leave the cycle where it is, or end it.
LEMMA TroubleOrder == ASSUME IInv, OrderInv, NEW p \in Loop, Trouble(p) PROVE OrderInv'
<1>1. CASE FetchError(p) \/ CleanError(p)
  <2>1. AtRest' /\ UNCHANGED <<row, created, clock, before, attempts, copies>>
    BY <1>1, FinishEndsTheCycle DEF FetchError, CleanError, IInv, table
  <2> QED BY <2>1, OrderAtRest DEF IInv, TypeOK, Committed
<1>2. CASE PublishError(p)
  BY <1>2 DEF PublishError, Goto, table, OrderInv, Dated, InOrder, CausalOrder, Committed
<1>3. CASE PublishLostAck(p)
  BY <1>3, SendOrder DEF PublishLostAck, Goto
<1>4. CASE MarkError(p)
  <2>1. message[p] \in Row /\ message[p] \in Committed
    BY <1>4 DEF MarkError, IInv, SnapshotOK, Committed
  <2>2. \A r \in Row : r \in Committed => r \in Committed'
    BY <1>4, <2>1 DEF MarkError, MarkPublished, Committed, IInv, TypeOK
  <2> QED
    BY <1>4, <2>2 DEF MarkError, Goto, OrderInv, Dated, InOrder, CausalOrder, IInv, TypeOK
<1>5. CASE RecordFailureError(p)
  <2>1. AtRest' /\ UNCHANGED <<row, created, clock, before, copies>>
    BY <1>5, FinishEndsTheCycle DEF RecordFailureError, IInv
  <2>2. /\ attempts' \in [Row -> 0..MaxAttempts]
        /\ \A r \in Row : attempts[r] > 0 => attempts'[r] > 0
    BY <1>5, OutboxAssumption DEF RecordFailureError, CountAttempt, IInv, TypeOK
  <2> QED BY <2>1, <2>2, OrderAtRest DEF IInv, Committed
<1> QED BY <1>1, <1>2, <1>3, <1>4, <1>5 DEF Trouble

\* Deleted rows were on the topic already.
LEMMA CleanOrder == ASSUME IInv, OrderInv, NEW p \in Loop, Clean(p) PROVE OrderInv'
<1>1. AtRest' /\ UNCHANGED <<created, clock, before, attempts, copies>>
  BY FinishEndsTheCycle DEF Clean, IInv
<1>2. \A r \in Row : r \in Committed => r \in Committed'
  BY DEF Clean, Expired, Committed
<1> QED BY <1>1, <1>2, OrderAtRest DEF IInv, TypeOK

\* A crash forgets the snapshot, and commits only younger rows.
LEMMA CrashOrder == ASSUME IInv, OrderInv, Crash PROVE OrderInv'
<1>1. AtRest' /\ UNCHANGED <<created, clock, before, attempts, copies>>
  BY DEF Crash, AtRest
<1>2. \A r \in Row : r \in Committed => r \in Committed'
  BY DEF Crash, Committed
<1> QED BY <1>1, <1>2, OrderAtRest DEF IInv, TypeOK

\* Requests that follow each other are announced in their order.
THEOREM CausallyOrdered == Spec => []CausalOrder
<1>1. IInv /\ OrderInv /\ [Next]_vars => OrderInv'
  <2> SUFFICES ASSUME IInv, OrderInv, [Next]_vars PROVE OrderInv'
    OBVIOUS
  <2>1. ASSUME NEW r \in Row, Writer(r) \/ Age(r) PROVE OrderInv'
    BY <2>1, BeginOrder, CommitOrder, RollbackOrder, AgeOrder DEF Writer
  <2>2. ASSUME NEW p \in Loop, Start(p) \/ Tick(p) PROVE OrderInv'
    BY <2>2, EnterOrder DEF Start, Tick
  <2>3. ASSUME NEW p \in Loop, Notified(p) PROVE OrderInv'
    <3>1. CASE Enter(p)
      BY <2>3, <3>1, EnterOrder DEF Notified
    <3>2. CASE UNCHANGED poller
      BY <2>3, <3>2 DEF Notified, poller, table, OrderInv, Dated, InOrder, CausalOrder, Committed
    <3> QED BY <2>3, <3>1, <3>2 DEF Notified
  <2>4. ASSUME NEW p \in Loop, Work(p) PROVE OrderInv'
    <3>1. CASE Publish(p)
      BY <3>1, SendOrder DEF Publish, Goto
    <3> QED
      BY <2>4, <3>1, FetchOrder, MarkOrder, RecordFailureOrder, CleanOrder DEF Work
  <2>5. CASE Listener
    BY <2>5 DEF Listener, SetupListener, ListenerError, ListenerRetry, table, poller,
        OrderInv, Dated, InOrder, CausalOrder, Committed
  <2>6. CASE UNCHANGED vars
    BY <2>6 DEF vars, table, poller, OrderInv, Dated, InOrder, CausalOrder, Committed
  <2> QED
    BY <2>1, <2>2, <2>3, <2>4, <2>5, <2>6, TroubleOrder, CrashOrder DEF Next, LoopStep
<1>2. OrderInv => CausalOrder
  BY DEF OrderInv
<1> QED BY <1>1, <1>2, InitOrder, Invariance, PTL DEF Spec

-----------------------------------------------------------------------------
(* The outbox implements the relay *)

\* A step that leaves the table and the topic alone is a stutter of the relay.
LEMMA Silent ==
  ASSUME UNCHANGED <<row, copies>>
  PROVE  UNCHANGED <<Committed, copies, Retired>>
  BY DEF Committed, Retired

\* A step that sends the pending row r is a Send of the relay.
LEMMA SendImplementsSend ==
  ASSUME IInv, NEW p \in Loop, pc[p] = "send", UNCHANGED row,
         copies' = [copies EXCEPT ![message[p]] = @ + 1]
  PROVE  Promise!Next
<1>1. message[p] \in Row /\ row[message[p]] = "pending"
  BY DEF IInv, SnapshotOK
<1>2. message[p] \in Committed \ Retired
  BY <1>1 DEF Committed, Retired
<1>3. Committed' = Committed /\ Retired' = Retired
  BY DEF Committed, Retired
<1> QED BY <1>1, <1>2, <1>3 DEF Promise!Next, Promise!Send

\* A step that marks the row just sent is a Retire of the relay.
LEMMA MarkImplementsRetire ==
  ASSUME IInv, NEW p \in Loop, pc[p] = "mark", MarkPublished(message[p]),
         UNCHANGED copies
  PROVE  Promise!Next
<1>1. message[p] \in Row /\ row[message[p]] = "pending" /\ copies[message[p]] > 0
  BY DEF IInv, SnapshotOK
<1>2. message[p] \in Committed /\ Committed' = Committed
  BY <1>1 DEF MarkPublished, Committed, IInv, TypeOK
<1>3. Retired' = Retired \cup {message[p]}
  BY <1>1 DEF MarkPublished, Retired, IInv, TypeOK
<1> QED BY <1>1, <1>2, <1>3 DEF Promise!Next, Promise!Retire

\* Commits, one or several at a time, are an Accept of the relay.
LEMMA CommitsImplementAccept ==
  ASSUME NEW S \in SUBSET (Row \ Committed), Committed' = Committed \cup S,
         UNCHANGED <<copies, Retired>>
  PROVE  Promise!Next
  BY DEF Promise!Next, Promise!Accept

\* The outbox with its poller is an at-least-once relay.
THEOREM OutboxImplementsRelay == Spec => RelaySpec
<1>1. Init => Promise!Init
  BY DEF Init, Promise!Init, Committed, Retired
<1>2. IInv /\ [Next]_vars => [Promise!Next]_<<Committed, copies, Retired>>
  <2> SUFFICES ASSUME IInv, [Next]_vars
               PROVE  Promise!Next \/ UNCHANGED <<Committed, copies, Retired>>
    OBVIOUS
  <2>1. ASSUME NEW r \in Row, Begin(r) \/ Rollback(r) \/ Age(r)
        PROVE  UNCHANGED <<Committed, copies, Retired>>
    BY <2>1 DEF Begin, Rollback, Age, Committed, Retired, IInv, TypeOK
  <2>2. ASSUME NEW r \in Row, Commit(r) PROVE Promise!Next
    <3>1. {r} \in SUBSET (Row \ Committed)
      BY <2>2 DEF Commit, Committed
    <3>2. Committed' = Committed \cup {r} /\ UNCHANGED <<copies, Retired>>
      BY <2>2 DEF Commit, Committed, Retired, IInv, TypeOK
    <3> QED BY <3>1, <3>2, CommitsImplementAccept
  <2>3. ASSUME NEW p \in Loop, Start(p) \/ Tick(p) \/ Notified(p)
        PROVE  UNCHANGED <<Committed, copies, Retired>>
    BY <2>3, Silent DEF Start, Tick, Notified, table
  <2>4. ASSUME NEW p \in Loop, Work(p)
        PROVE  Promise!Next \/ UNCHANGED <<Committed, copies, Retired>>
    <3>1. CASE Fetch(p) \/ RecordFailure(p)
      BY <3>1, Silent DEF Fetch, RecordFailure, table
    <3>2. CASE Publish(p)
      BY <3>2, SendImplementsSend DEF Publish, table
    <3>3. CASE Mark(p)
      BY <3>3, MarkImplementsRetire DEF Mark
    <3>4. CASE Clean(p)
      BY <3>4 DEF Clean, Expired, Committed, Retired, IInv, TypeOK
    <3> QED BY <2>4, <3>1, <3>2, <3>3, <3>4 DEF Work
  <2>5. ASSUME NEW p \in Loop, Trouble(p)
        PROVE  Promise!Next \/ UNCHANGED <<Committed, copies, Retired>>
    <3>1. CASE FetchError(p) \/ PublishError(p) \/ RecordFailureError(p) \/ CleanError(p)
      BY <3>1, Silent DEF FetchError, PublishError, RecordFailureError, CleanError, table
    <3>2. CASE PublishLostAck(p)
      BY <3>2, SendImplementsSend DEF PublishLostAck, table
    <3>3. CASE MarkError(p)
      BY <3>3, MarkImplementsRetire, Silent DEF MarkError
    <3> QED BY <2>5, <3>1, <3>2, <3>3 DEF Trouble
  <2>6. CASE Listener
    BY <2>6, Silent DEF Listener, SetupListener, ListenerError, ListenerRetry, table
  <2>7. CASE Crash
    <3>1. PICK arrived \in SUBSET {r \in Row : row[r] = "open"} :
            row' = [r \in Row |-> IF row[r] # "open" THEN row[r]
                                  ELSE IF r \in arrived THEN "pending" ELSE "aborted"]
      BY <2>7 DEF Crash
    <3>2. arrived \in SUBSET (Row \ Committed)
      BY DEF Committed
    <3>3. Committed' = Committed \cup arrived /\ Retired' = Retired
      BY <3>1 DEF Committed, Retired
    <3> QED BY <2>7, <3>2, <3>3, CommitsImplementAccept DEF Crash
  <2>8. CASE UNCHANGED vars
    BY <2>8, Silent DEF vars, table
  <2> QED
    BY <2>1, <2>2, <2>3, <2>4, <2>5, <2>6, <2>7, <2>8 DEF Next, Writer, LoopStep
<1> QED
  BY <1>1, <1>2, Invariance, PTL DEF Spec, RelaySpec, Promise!Spec, Promise!relayVars

-----------------------------------------------------------------------------
(* What follows for the service *)

\* Every variable keeps its range, and isPollRunning is the truth.
THEOREM TypeCorrect == Spec => []TypeOK
<1>1. IInv => TypeOK
  BY DEF IInv
<1> QED BY <1>1, Invariance, PTL

\* No message on a topic comes from a transaction that did not commit.
THEOREM NoPhantoms == Spec => []NoPhantomMessage
<1>1. IInv => NoPhantomMessage
  BY DEF IInv, RelayedOK
<1> QED BY <1>1, Invariance, PTL

\* No event is lost: a row marked or deleted has its message on the topic.
THEOREM NothingLost == Spec => []NoLostMessage
<1>1. IInv => NoLostMessage
  BY DEF IInv, RelayedOK
<1> QED BY <1>1, Invariance, PTL

\* However the wake-ups of the poller overlap, each crash or lost
\* acknowledgement accounts for at most one more copy of a message.
THEOREM BoundedDuplicates == Spec => []DuplicatesExplained
<1>1. IInv => DuplicatesExplained
  BY DEF IInv, RelayedOK
<1> QED BY <1>1, Invariance, PTL
=============================================================================
