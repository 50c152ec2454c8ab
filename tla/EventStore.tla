----------------------------- MODULE EventStore -----------------------------
(***************************************************************************)
(* Event sourcing of one account: the event_store table, its snapshots,    *)
(* and the repository that loads an aggregate, raises events on it and     *)
(* saves them, each in a statement of its own on the pool.                 *)
(*                                                                         *)
(* Several writers load and save the account concurrently; the versions    *)
(* they expect are the only thing that keeps them apart.  The table is a   *)
(* sequence: UNIQUE (aggregate_id, version) and version = MAX + 1 give     *)
(* every row the version of its place.                                     *)
(***************************************************************************)
EXTENDS Naturals, Sequences, SequencesExt

CONSTANTS
  Writer,        \* callers with an aggregate of their own in memory
  Amount,        \* amounts to deposit and to withdraw
  SnapshotEvery, \* a snapshot is taken at every such version; 10 in the code
  MaxVersion,    \* bound: events of the account
  MaxPending,    \* bound: events raised between two saves
  MaxFaults      \* bound: failed statements and crashes in a behaviour

ASSUME EventStoreAssumption ==
  /\ Amount \subseteq Nat \ {0}
  /\ SnapshotEvery \in Nat \ {0}
  /\ MaxVersion \in Nat /\ MaxPending \in Nat /\ MaxFaults \in Nat

VARIABLES
  log,       \* event_store: the events of the account by version
  snapshots, \* event_store_snapshots
  pc,        \* what each writer is about to do
  state,     \* the state of its aggregate
  version,   \* the version of its aggregate
  pending,   \* the aggregate's uncommittedEvents
  saved,     \* how many of them this save has stored
  seen,      \* MAX(version) as append read it
  faults     \* faults so far

tables == <<log, snapshots>>
aggregate == <<state, version, pending>>
save == <<saved, seen>>
vars == <<tables, pc, aggregate, save, faults>>

Types == {"created", "deposited", "withdrawn", "frozen", "unfrozen"}
Event == [type : Types, amount : Nat, balance : Nat]
State == [balance : Nat, status : {"active", "frozen"}]

InitialState == [balance |-> 0, status |-> "active"]

\* AccountAggregate.when: the balance is the one the event carries.
When(s, e) ==
  CASE e.type \in {"deposited", "withdrawn"} -> [s EXCEPT !.balance = e.balance]
    [] e.type = "frozen" -> [s EXCEPT !.status = "frozen"]
    [] e.type = "unfrozen" -> [s EXCEPT !.status = "active"]
    [] OTHER -> s

\* loadFromHistory.
Apply(s, events) == FoldLeft(When, s, events)

\* The state after the first n events.
Replay(n) == Apply(InitialState, SubSeq(log, 1, n))

-----------------------------------------------------------------------------
Init ==
  /\ log = <<>>
  /\ snapshots = {}
  /\ pc = [w \in Writer |-> "away"]
  /\ state = [w \in Writer |-> InitialState]
  /\ version = [w \in Writer |-> 0]
  /\ pending = [w \in Writer |-> <<>>]
  /\ saved = [w \in Writer |-> 0]
  /\ seen = [w \in Writer |-> 0]
  /\ faults = 0

Goto(w, label) == pc' = [pc EXCEPT ![w] = label]

Fault ==
  /\ faults < MaxFaults
  /\ faults' = faults + 1

(* load *)

Latest == CHOOSE s \in snapshots : \A t \in snapshots : t.version <= s.version
SnapshotVersion == IF snapshots = {} THEN 0 ELSE Latest.version

\* getLatestSnapshot.  An aggregate made from a snapshot has the version of
\* a new one; `saved` keeps fromVersion for the query that follows.
LoadSnapshot(w) ==
  /\ pc[w] = "away"
  /\ Goto(w, "events")
  /\ state' = [state EXCEPT ![w] = IF snapshots = {} THEN InitialState ELSE Latest.state]
  /\ version' = [version EXCEPT ![w] = 0]
  /\ saved' = [saved EXCEPT ![w] = SnapshotVersion]
  /\ UNCHANGED <<tables, pending, seen, faults>>

\* getEvents: the events after a version, in order.
EventsAfterNext(from) == SubSeq(log, from + 2, Len(log))
EventsAfter(from) == SubSeq(log, from + 1, Len(log))

\* No snapshot and no event: there is no account, and the caller creates it.
LoadEvents(w) ==
  LET events == EventsAfter(saved[w])
      none == events = <<>> /\ saved[w] = 0
  IN  /\ pc[w] = "events"
      /\ Goto(w, "ready")
      /\ state' = [state EXCEPT ![w] = Apply(@, events)]
      /\ version' = [version EXCEPT ![w] =
                       IF none THEN 1 ELSE IF events = <<>> THEN @ ELSE Len(log)]
      /\ pending' = [pending EXCEPT ![w] =
                       IF none THEN <<[type |-> "created", amount |-> 0, balance |-> 0]>>
                               ELSE <<>>]
      /\ saved' = [saved EXCEPT ![w] = 0]
      /\ UNCHANGED <<tables, seen, faults>>

(* Commands *)

Raise(w, type, amount, balance) ==
  LET e == [type |-> type, amount |-> amount, balance |-> balance]
  IN  /\ pc[w] = "ready"
      /\ Len(pending[w]) < MaxPending
      /\ version[w] < MaxVersion
      /\ state' = [state EXCEPT ![w] = When(@, e)]
      /\ pending' = [pending EXCEPT ![w] = Append(@, e)]
      /\ version' = [version EXCEPT ![w] = @ + 1]
      /\ UNCHANGED <<tables, pc, save, faults>>

Deposit(w, n) ==
  /\ state[w].status = "active"
  /\ Raise(w, "deposited", n, state[w].balance + n)

Withdraw(w, n) ==
  /\ state[w].status = "active"
  /\ state[w].balance >= n
  /\ Raise(w, "withdrawn", n, state[w].balance - n)

Freeze(w) ==
  /\ state[w].status # "frozen"
  /\ Raise(w, "frozen", 0, 0)

Unfreeze(w) ==
  /\ state[w].status = "frozen"
  /\ Raise(w, "unfrozen", 0, 0)

(* save *)

Save(w) ==
  /\ pc[w] = "ready"
  /\ pending[w] # <<>>
  /\ Goto(w, "append")
  /\ saved' = [saved EXCEPT ![w] = 0]
  /\ UNCHANGED <<tables, aggregate, seen, faults>>

\* append reads MAX(version); the event expects the version before its own.
Expected(w) == version[w] - Len(pending[w]) + saved[w]
NeverConflict(w) == FALSE
Conflict(w) == Expected(w) # Len(log)

\* An error goes to the caller, who still has the aggregate and its events.
ReadVersion(w) ==
  /\ pc[w] = "append"
  /\ seen' = [seen EXCEPT ![w] = Len(log)]
  /\ Goto(w, IF Conflict(w) THEN "ready" ELSE "insert")
  /\ UNCHANGED <<tables, aggregate, saved, faults>>

\* markEventsAsCommitted, once every event is stored.
Stored(w) ==
  IF saved[w] + 1 < Len(pending[w])
  THEN /\ saved' = [saved EXCEPT ![w] = @ + 1]
       /\ Goto(w, "append")
       /\ UNCHANGED pending
  ELSE /\ saved' = [saved EXCEPT ![w] = 0]
       /\ pending' = [pending EXCEPT ![w] = <<>>]
       /\ Goto(w, IF version[w] % SnapshotEvery = 0 THEN "snapshot" ELSE "ready")

\* The INSERT of the version after the one read, unless another writer has
\* taken it.  The column event_id takes the ids the aggregate makes: declared
\* UUID, as in event-store.sql, it would refuse every one of them.
Insert(w) ==
  /\ pc[w] = "insert"
  /\ \/ /\ seen[w] < Len(log)
        /\ Goto(w, "ready")
        /\ UNCHANGED <<log, pending, saved>>
     \/ /\ seen[w] = Len(log)
        /\ log' = Append(log, pending[w][saved[w] + 1])
        /\ Stored(w)
  /\ UNCHANGED <<snapshots, state, version, seen, faults>>

\* saveSnapshot, under the version of the aggregate in memory.
SnapshotAtHead(w) == [version |-> Len(log), state |-> state[w]]
SnapshotOf(w) == [version |-> version[w], state |-> state[w]]

SaveSnapshot(w) ==
  /\ pc[w] = "snapshot"
  /\ Goto(w, "ready")
  /\ snapshots' = snapshots \cup {SnapshotOf(w)}
  /\ UNCHANGED <<log, aggregate, save, faults>>

\* A statement fails and the error leaves load or save.
StatementFails(w) ==
  /\ pc[w] \in {"events", "append", "insert", "snapshot"}
  /\ Fault
  /\ Goto(w, IF pc[w] = "events" THEN "away" ELSE "ready")
  /\ UNCHANGED <<tables, aggregate, save>>

\* The caller drops its aggregate, or dies with it.
Forget(w) ==
  /\ pc[w] = "ready"
  /\ Goto(w, "away")
  /\ pending' = [pending EXCEPT ![w] = <<>>]
  /\ UNCHANGED <<tables, state, version, save, faults>>

Crash(w) ==
  /\ pc[w] \in {"append", "insert", "snapshot"}
  /\ Fault
  /\ Goto(w, "away")
  /\ pending' = [pending EXCEPT ![w] = <<>>]
  /\ UNCHANGED <<tables, state, version, save>>

-----------------------------------------------------------------------------
Command(w) ==
  \/ \E n \in Amount : Deposit(w, n) \/ Withdraw(w, n)
  \/ Freeze(w) \/ Unfreeze(w)

Step(w) ==
  \/ LoadSnapshot(w) \/ LoadEvents(w)
  \/ Command(w)
  \/ Save(w) \/ ReadVersion(w) \/ Insert(w) \/ SaveSnapshot(w)
  \/ StatementFails(w) \/ Forget(w) \/ Crash(w)

Next == \E w \in Writer : Step(w)

Spec == Init /\ [][Next]_vars

-----------------------------------------------------------------------------
(* Correctness *)

PcStates == {"away", "events", "ready", "append", "insert", "snapshot"}

\* Every variable stays in its range, and a writer about to insert expects
\* the version it read.
TypeOK ==
  /\ log \in Seq(Event)
  /\ snapshots \subseteq [version : Nat \ {0}, state : State]
  /\ pc \in [Writer -> PcStates]
  /\ state \in [Writer -> State]
  /\ version \in [Writer -> Nat]
  /\ pending \in [Writer -> Seq(Event)]
  /\ saved \in [Writer -> Nat]
  /\ seen \in [Writer -> Nat]
  /\ \A w \in Writer : /\ Len(pending[w]) <= version[w]
                       /\ seen[w] <= Len(log)
                       /\ pc[w] = "insert" => seen[w] = Expected(w)
                       /\ pc[w] \in {"append", "insert"} => saved[w] < Len(pending[w])
  /\ faults \in 0..MaxFaults

\* An event may follow a history that its command would have been accepted
\* on, and carries the balance of that history plus or minus its amount.
Follows(e, s) ==
  CASE e.type = "created" -> s = InitialState
    [] e.type = "deposited" -> s.status = "active" /\ e.balance = s.balance + e.amount
    [] e.type = "withdrawn" -> s.status = "active" /\ s.balance = e.balance + e.amount
    [] e.type = "frozen" -> s.status = "active"
    [] e.type = "unfrozen" -> s.status = "frozen"

\* No lost update: however writers race, fail half-way and retry, the table
\* only grows by one event at a time, and each was decided on exactly the
\* events before it.
EventsFollow ==
  [][log' # log =>
       LET e == log'[Len(log')]
       IN  log' = Append(log, e) /\ Follows(e, Replay(Len(log)))]_vars

\* The balance getHistory shows, summed from the amounts.
Booked(b, e) ==
  CASE e.type = "deposited" -> b + e.amount
    [] e.type = "withdrawn" -> b - e.amount
    [] OTHER -> b

HistoryBalance(n) == FoldLeft(Booked, 0, SubSeq(log, 1, n))

\* What is derived from the events agrees with them: a snapshot holds the
\* state after the events up to its version, and the history adds up to the
\* balance at every version.
DerivedAgrees ==
  /\ \A s \in snapshots : s.version <= Len(log) /\ s.state = Replay(s.version)
  /\ \A n \in 0..Len(log) : HistoryBalance(n) = Replay(n).balance

\* An aggregate is some prefix of the events and its own events on top, and
\* its version says which prefix; except that one loaded from a snapshot
\* with no later events counts from zero, so that its events are refused.
LoadedIsReplay ==
  \A w \in Writer : pc[w] \notin {"away", "events"} =>
    \E n \in 0..Len(log) :
      /\ state[w] = Apply(Replay(n), pending[w])
      /\ \/ version[w] = n + Len(pending[w])
         \/ /\ version[w] = Len(pending[w])
            /\ \E s \in snapshots : s.version = n
=============================================================================
