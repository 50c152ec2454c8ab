-------------------------- MODULE DeadLetterProofs --------------------------
(* No event disappears behind the dead letter handlers, for any number of  *)
(* processes, events, retries and faults.                                  *)
EXTENDS DeadLetter, FiniteSetTheorems, TLAPS

\* What TypeOK says of the processes, of the rows, and of the rest.
WorkOK ==
  /\ attempts \in [Process -> [Event -> 0..(MaxRetries - 1)]]
  /\ work \in [Process -> [of : Event \cup {None}, at : Places]]
  /\ \A p \in Process : At(p, "idle") <=> Handled(p) = None

RowsOK ==
  /\ rows \subseteq Row
  /\ \A r, s \in rows : r.id = s.id => r = s

RestOK ==
  /\ acked \subseteq Event
  /\ parked \subseteq Topic /\ passed \subseteq parked
  /\ window \in 0..Closed
  /\ retry \in [of : Event \cup {None}, id : 0..MaxRows, at : {"idle", "handler", "resolve"}]
  /\ effects \subseteq Event
  /\ failures \in [Event -> 0..MaxFailures]
  /\ dropped \subseteq Event /\ cleared \subseteq Event /\ lapsed \subseteq Topic
  /\ faults \in 0..MaxFaults

\* The retry of a row is about its event, also when the row is gone and
\* others are added meanwhile, and resolves it only after the handler.
RetryOK ==
  /\ retry.at # "idle" => retry.of \in Event
  /\ \A r \in rows : r.id = retry.id => r.of = retry.of
  /\ retry.at = "resolve" => retry.of \in effects

\* The events whose handler has succeeded, or that an operator has resolved.
Done == effects \cup cleared

\* Only the rows of these have a resolution date.
DatedOK == \A r \in rows : r.dated => r.of \in Done

\* A process about to count a failure had seen a row; if that is gone, it was
\* resolved.  Only the events of wrapped topics are sent to a topic.
ParkingOK ==
  \A p \in Process :
    /\ At(p, "increment") => RowsOf(Handled(p)) # {} \/ Handled(p) \in Done
    /\ At(p, "send") => Handled(p) \in Topic

IInv == TypeOK /\ RetryOK /\ DatedOK /\ ParkingOK /\ NothingLost

LEMMA TypeParts == TypeOK <=> WorkOK /\ RowsOK /\ RestOK
BY DEF TypeOK, WorkOK, RowsOK, RestOK

\* The initial state satisfies the invariant.
LEMMA InitOK == Init => IInv
<1> SUFFICES ASSUME Init PROVE IInv
  OBVIOUS
<1> USE DeadLetterAssumption DEF Init
<1>1. WorkOK
  BY DEF WorkOK, Idle, At, Handled, Places
<1>2. RowsOK /\ RestOK
  BY DEF RowsOK, RestOK, Closed, NoRetry
<1>3. RetryOK /\ DatedOK /\ NothingLost
  BY DEF RetryOK, DatedOK, Done, NothingLost, NoRetry
<1>4. ParkingOK
  BY DEF ParkingOK, At, Idle
<1>5. QED
  BY <1>1, <1>2, <1>3, <1>4, TypeParts DEF IInv

-----------------------------------------------------------------------------
(* The rows *)

\* While fewer ids are taken than rows are allowed, NewId is a new one.
LEMMA NewIdOK ==
  ASSUME RowsOK, RestOK, Cardinality(({r.id : r \in rows} \cup {retry.id}) \ {0}) < MaxRows
  PROVE  NewId \in 1..MaxRows /\ NewId # retry.id /\ \A r \in rows : r.id # NewId
<1> DEFINE taken == ({r.id : r \in rows} \cup {retry.id}) \ {0}
<1>1. taken \subseteq 1..MaxRows
  BY DeadLetterAssumption DEF RowsOK, RestOK, Row
<1>2. IsFiniteSet(1..MaxRows) /\ Cardinality(1..MaxRows) = MaxRows
  BY DeadLetterAssumption, FS_Interval
<1>3. IsFiniteSet(taken)
  BY <1>1, <1>2, FS_Subset
<1>4. ~(1..MaxRows \subseteq taken)
  <2> HIDE DEF taken
  <2> SUFFICES ASSUME 1..MaxRows \subseteq taken PROVE FALSE
    OBVIOUS
  <2>1. MaxRows <= Cardinality(taken)
    BY <1>2, <1>3, FS_Subset
  <2>2. Cardinality(taken) \in Nat
    BY <1>3, FS_CardinalityType
  <2>3. Cardinality(taken) < MaxRows
    BY DEF taken
  <2>4. QED
    BY <2>1, <2>2, <2>3, DeadLetterAssumption
<1>5. PICK i \in 1..MaxRows : i # retry.id /\ \A r \in rows : r.id # i
  BY <1>4, DeadLetterAssumption
<1>6. QED
  BY <1>5 DEF NewId

\* Counting a failure changes the counts alone.
LEMMA Incremented ==
  ASSUME RowsOK, NEW e, Increment(e)
  PROVE  /\ RowsOK'
         /\ \A t \in rows' : \E r \in rows : t.id = r.id /\ t.of = r.of /\ t.dated = r.dated
         /\ \A r \in rows : \E t \in rows' : t.of = r.of
<1> DEFINE g(r) == IF r.of = e THEN [r EXCEPT !.count = @ + 1] ELSE r
<1>1. rows' = {g(r) : r \in rows}
  BY DEF Increment
<1>2. \A r \in rows : g(r) \in Row /\ g(r).id = r.id /\ g(r).of = r.of /\ g(r).dated = r.dated
  BY DEF RowsOK, Row
<1> HIDE DEF g
<1>3. RowsOK'
  BY <1>1, <1>2 DEF RowsOK
<1>4. QED
  BY <1>1, <1>2, <1>3

\* Setting a status dates a row that is resolved, and no other.
LEMMA Updated ==
  ASSUME RowsOK, NEW id, NEW status \in Status, Update(id, status)
  PROVE  /\ RowsOK'
         /\ \A t \in rows' : \E r \in rows :
              /\ t.id = r.id /\ t.of = r.of
              /\ t.dated => r.dated \/ (r.id = id /\ status = "resolved")
         /\ \A r \in rows : \E t \in rows' : t.of = r.of
<1> DEFINE g(r) == IF r.id = id THEN Set(r, status) ELSE r
<1>1. rows' = {g(r) : r \in rows}
  BY DEF Update
<1>2. \A r \in rows : /\ g(r) \in Row /\ g(r).id = r.id /\ g(r).of = r.of
                      /\ g(r).dated => r.dated \/ (r.id = id /\ status = "resolved")
  BY DEF RowsOK, Row, Set
<1> HIDE DEF g
<1>3. RowsOK'
  BY <1>1, <1>2 DEF RowsOK
<1>4. QED
  BY <1>1, <1>2, <1>3

\* Rows that keep their id and their event, which is done with if they are
\* dated, keep what is said of all rows.
LEMMA RowsChanged ==
  ASSUME IInv, UNCHANGED <<work, acked, dropped>>, effects \subseteq effects', cleared \subseteq cleared',
         lapsed \subseteq lapsed', \A e \in parked : e \in parked' \cup lapsed',
         \A t \in rows' : \E r \in rows :
           t.id = r.id /\ t.of = r.of /\ (t.dated => t.of \in Done'),
         \A r \in rows : (\E t \in rows' : t.of = r.of) \/ r.of \in Done'
  PROVE  DatedOK' /\ ParkingOK' /\ NothingLost'
<1>1. DatedOK'
  BY DEF DatedOK
<1>2. /\ \A e : RowsOf(e) # {} => RowsOf(e)' # {} \/ e \in Done'
      /\ Done \subseteq Done'
  BY DEF RowsOf, Done
<1>3. ParkingOK'
  BY <1>2 DEF IInv, ParkingOK, At, Handled
<1>4. NothingLost'
  BY <1>2 DEF IInv, NothingLost, Done
<1>5. QED
  BY <1>1, <1>3, <1>4

-----------------------------------------------------------------------------
(* The wrappers *)

\* The wrapper of p returns: its event is acknowledged.
LEMMA ParkedType ==
  ASSUME WorkOK, NEW p \in Process, ~At(p, "idle"), Parked(p)
  PROVE  /\ WorkOK'
         /\ Handled(p) \in Event
         /\ acked' = acked \cup {Handled(p)}
         /\ \A q \in Process \ {p} : work'[q] = work[q]
         /\ work'[p] = Idle
<1>1. Handled(p) \in Event
  BY DEF WorkOK, At, Handled
<1>2. acked' = acked \cup {Handled(p)}
  BY DEF Parked
<1>3. (\A q \in Process \ {p} : work'[q] = work[q]) /\ work'[p] = Idle
  BY DEF Parked, Leave, WorkOK
<1>4. attempts' \in [Process -> [Event -> 0..(MaxRetries - 1)]]
  BY <1>1, DeadLetterAssumption DEF Parked, Forget, WorkOK
<1>5. work' \in [Process -> [of : Event \cup {None}, at : Places]]
  BY DEF Parked, Leave, WorkOK, Idle, Places
<1>6. \A q \in Process : At(q, "idle")' <=> Handled(q)' = None
  BY <1>3 DEF WorkOK, At, Handled, Idle
<1>7. QED
  BY <1>1, <1>2, <1>3, <1>4, <1>5, <1>6 DEF WorkOK

\* The handler succeeds, or its event is parked or dropped.
LEMMA ReturnStep ==
  ASSUME IInv, [Next]_vars, NEW p \in Process,
         Succeed(p) \/ Add(p) \/ IncrementParked(p) \/ Send(p) \/ ParkingFails(p)
  PROVE  IInv'
<1>0. PICK e : e = Handled(p)
  OBVIOUS
<1>1. WorkOK /\ RowsOK /\ RestOK /\ RetryOK /\ DatedOK /\ ParkingOK /\ NothingLost
  BY TypeParts DEF IInv
<1>2. ~At(p, "idle") /\ Parked(p)
  BY DEF Succeed, Add, IncrementParked, Send, ParkingFails, At, Parked
<1>3. /\ WorkOK' /\ e \in Event /\ acked' = acked \cup {e}
      /\ \A q \in Process \ {p} : work'[q] = work[q]
      /\ work'[p] = Idle
  BY <1>0, <1>1, <1>2, ParkedType
<1>4. /\ UNCHANGED <<window, retry, failures, cleared, lapsed>>
      /\ \/ parked' = parked /\ passed' = passed
         \/ parked' = parked \cup {e} /\ passed' = passed \ {e} /\ Send(p)
      /\ effects' = effects \/ effects' = effects \cup {e}
      /\ dropped' = dropped \/ dropped' = dropped \cup {e}
      /\ faults' = faults \/ (faults < MaxFaults /\ faults' = faults + 1)
  BY <1>0 DEF Succeed, Add, IncrementParked, Send, ParkingFails, table, topic, history, losses, Fault
<1>5. RowsOK' /\ (\A r \in rows : \E t \in rows' : t.of = r.of)
      /\ \A t \in rows' : \/ \E r \in rows : t.id = r.id /\ t.of = r.of /\ t.dated = r.dated
                          \/ t.id # retry.id /\ ~t.dated
  <2>1. CASE Add(p)
    <3> DEFINE new == [id |-> NewId, of |-> e, count |-> MaxRetries, status |-> "failed", dated |-> FALSE]
    <3>1. rows' = rows \cup {new}
      BY <1>0, <2>1 DEF Add
    <3>2. NewId \in 1..MaxRows /\ NewId # retry.id /\ \A r \in rows : r.id # NewId
      BY <1>1, <2>1, NewIdOK DEF Add
    <3>3. new \in Row /\ new.id = NewId /\ ~new.dated
      BY <1>3, <3>2, DeadLetterAssumption DEF Row, Status
    <3> HIDE DEF new
    <3>4. QED
      BY <1>1, <3>1, <3>2, <3>3 DEF RowsOK
  <2>2. CASE IncrementParked(p)
    BY <1>1, <2>2, Incremented DEF IncrementParked
  <2>3. CASE rows' = rows
    BY <1>1, <2>3 DEF RowsOK
  <2>4. QED
    BY <2>1, <2>2, <2>3 DEF Succeed, Send, ParkingFails, table
<1>6. RestOK'
  <2>1. e \in Event /\ (Send(p) => e \in Topic)
    BY <1>0, <1>1, <1>3 DEF ParkingOK, Send
  <2>2. QED
    BY <1>1, <1>3, <1>4, <2>1, DeadLetterAssumption DEF RestOK
<1>7. RetryOK'
  BY <1>1, <1>4, <1>5 DEF RetryOK
<1>8. DatedOK'
  BY <1>1, <1>4, <1>5 DEF DatedOK, Done
<1>9. \A f : RowsOf(f) # {} => RowsOf(f)' # {}
  BY <1>5 DEF RowsOf
<1>10. ParkingOK'
  BY <1>1, <1>3, <1>4, <1>9 DEF ParkingOK, Done, At, Handled, Idle
<1>11. NothingLost'
  <2>1. \A f \in acked :
          f \in Done' \/ RowsOf(f)' # {} \/ f \in parked' \/ f \in dropped' \/ f \in lapsed'
    BY <1>1, <1>4, <1>9 DEF NothingLost, Done
  <2>2. e \in Done' \/ RowsOf(e)' # {} \/ e \in parked' \/ e \in dropped'
    <3>1. CASE Add(p)
      <4>1. \E t \in rows' : t.of = e
        <5> DEFINE new == [id |-> NewId, of |-> e, count |-> MaxRetries,
                           status |-> "failed", dated |-> FALSE]
        <5>1. new \in rows' /\ new.of = e
          BY <1>0, <3>1 DEF Add
        <5>2. QED
          BY <5>1
      <4>2. QED
        BY <4>1 DEF RowsOf
    <3>2. CASE IncrementParked(p)
      <4>1. RowsOf(e) # {} \/ e \in Done
        BY <1>0, <1>1, <3>2 DEF IncrementParked, ParkingOK
      <4>2. QED
        BY <4>1, <1>4, <1>9 DEF Done
    <3>3. QED
      BY <1>0, <3>1, <3>2 DEF Succeed, Send, ParkingFails, Done
  <2>3. QED
    BY <1>3, <2>1, <2>2 DEF NothingLost, Done
<1>12. TypeOK'
  BY <1>3, <1>5, <1>6 DEF TypeOK, WorkOK, RowsOK, RestOK
<1>13. QED
  BY <1>7, <1>8, <1>10, <1>11, <1>12 DEF IInv

\* A wrapper goes on, or is cut short, without returning: what is kept of the
\* events does not change.
LEMMA WrapperStepOK ==
  ASSUME IInv, [Next]_vars, NEW p \in Process,
         (\E e \in Event : Deliver(p, e)) \/ Fail(p) \/ MoveToDLQ(p) \/ Crash(p)
  PROVE  IInv'
<1>1. WorkOK /\ RowsOK /\ RestOK /\ RetryOK /\ DatedOK /\ ParkingOK /\ NothingLost
  BY TypeParts DEF IInv
<1>2. UNCHANGED <<acked, table, topic, effects, dropped, cleared, lapsed>>
  BY DEF Deliver, Fail, MoveToDLQ, Crash, history, losses
<1>3. PICK e \in Event \cup {None}, at \in Places :
        /\ work' = [work EXCEPT ![p] = [of |-> e, at |-> at]]
        /\ at = "idle" <=> e = None
        /\ at = "increment" => RowsOf(e) # {}
        /\ at = "send" => e \in Topic
  <2>1. CASE \E e \in Event : Deliver(p, e)
    <3>1. PICK e \in Event : Deliver(p, e)
      BY <2>1
    <3>2. work' = [work EXCEPT ![p] = [of |-> e, at |-> "handler"]]
      BY <3>1 DEF Deliver
    <3>3. e # None /\ "handler" \in Places
      BY DeadLetterAssumption DEF Places
    <3>4. QED
      BY <3>2, <3>3
  <2>2. ASSUME NEW at \in Places \ {"idle"}, ~At(p, "idle"), Goto(p, at),
               at = "increment" => RowsOf(Handled(p)) # {},
               at = "send" => Handled(p) \in Topic
        PROVE  \E e \in Event \cup {None}, place \in Places :
                 /\ work' = [work EXCEPT ![p] = [of |-> e, at |-> place]]
                 /\ place = "idle" <=> e = None
                 /\ place = "increment" => RowsOf(e) # {}
                 /\ place = "send" => e \in Topic
    <3>1. Handled(p) \in Event
      BY <1>1, <2>2 DEF WorkOK, At, Handled
    <3>2. [work[p] EXCEPT !.at = at] = [of |-> Handled(p), at |-> at]
      BY <1>1 DEF WorkOK, Handled
    <3>3. work' = [work EXCEPT ![p] = [of |-> Handled(p), at |-> at]]
      BY <2>2, <3>2 DEF Goto
    <3>4. QED
      BY <2>2, <3>1, <3>3, DeadLetterAssumption
  <2>3. CASE Leave(p)
    BY <2>3, DeadLetterAssumption DEF Leave, Idle, Places
  <2>4. CASE Fail(p)
    <3>1. Leave(p) \/ Goto(p, IF Handled(p) \in Topic THEN "send" ELSE "exists")
      BY <2>4 DEF Fail
    <3>2. ~At(p, "idle")
      BY <2>4 DEF Fail, At
    <3>3. QED
      BY <2>2, <2>3, <3>1, <3>2 DEF Places
  <2>5. CASE MoveToDLQ(p)
    <3>1. Goto(p, IF RowsOf(Handled(p)) = {} THEN "add" ELSE "increment") /\ ~At(p, "idle")
      BY <2>5 DEF MoveToDLQ, At
    <3>2. QED
      BY <2>2, <3>1 DEF Places
  <2>6. QED
    BY <2>1, <2>3, <2>4, <2>5 DEF Crash
<1>4. WorkOK'
  <2>1. attempts' \in [Process -> [Event -> 0..(MaxRetries - 1)]]
    <3>1. CASE Fail(p)
      <4>1. Handled(p) \in Event
        BY <1>1, <3>1 DEF WorkOK, Fail, At, Handled
      <4>2. PICK n \in Nat :
                 \/ n < MaxRetries /\ attempts' = [attempts EXCEPT ![p][Handled(p)] = n]
                 \/ attempts' = attempts
        <5>1. CASE Handled(p) \in Topic
          BY <1>1, <3>1, <4>1, <5>1 DEF Fail, WorkOK
        <5>2. CASE Handled(p) \notin Topic
          BY <1>1, <3>1, <4>1, <5>2, DeadLetterAssumption DEF Fail, Enough, Allowed, Attempts, WorkOK
        <5>3. QED
          BY <5>1, <5>2
      <4> DEFINE allowed == 0..(MaxRetries - 1)
      <4>3. n < MaxRetries => n \in allowed
        BY <4>2, DeadLetterAssumption
      <4>4. attempts \in [Process -> [Event -> allowed]]
        BY <1>1 DEF WorkOK
      <4> HIDE DEF allowed
      <4>5. attempts' \in [Process -> [Event -> allowed]]
        BY <4>1, <4>2, <4>3, <4>4
      <4>6. QED
        BY <4>5 DEF allowed
    <3>2. CASE Crash(p)
      BY <1>1, <3>2, DeadLetterAssumption DEF Crash, WorkOK
    <3>3. QED
      BY <1>1, <3>1, <3>2 DEF Deliver, MoveToDLQ, WorkOK
  <2>2. QED
    BY <1>1, <1>3, <2>1 DEF WorkOK, At, Handled
<1>5. failures' \in [Event -> 0..MaxFailures] /\ faults' \in 0..MaxFaults
  BY <1>1, DeadLetterAssumption
     DEF Deliver, Fail, MoveToDLQ, Crash, CountFailure, Fault, RestOK, history
<1>6. RowsOK' /\ RestOK' /\ RetryOK' /\ DatedOK' /\ NothingLost'
  BY <1>1, <1>2, <1>5 DEF RowsOK, RestOK, RetryOK, DatedOK, Done, NothingLost, RowsOf, table, topic
<1>7. ParkingOK'
  BY <1>1, <1>2, <1>3 DEF ParkingOK, Done, RowsOf, At, Handled, table, WorkOK
<1>8. QED
  BY <1>4, <1>6, <1>7 DEF IInv, TypeOK, WorkOK, RowsOK, RestOK

-----------------------------------------------------------------------------
(* The operator *)

\* Retries, triage and clean-up lose nothing either.
LEMMA OperatorStepOK ==
  ASSUME IInv, [Next]_vars, Operator
  PROVE  IInv'
<1>1. WorkOK /\ RowsOK /\ RestOK /\ RetryOK /\ DatedOK /\ ParkingOK /\ NothingLost
  BY TypeParts DEF IInv
<1>2. /\ UNCHANGED <<attempts, work, acked, dropped>> /\ effects \subseteq effects'
      /\ cleared \subseteq cleared' /\ lapsed \subseteq lapsed'
      /\ \A e \in parked : e \in parked' \cup lapsed'
  BY DEF Operator, FindFailed, FindFails, RetrySucceeds, Resolve, RetryFails, RetryBreaksOff,
         Triage, Cleanup, OpenWindow, CloseWindow, RetryParked, Lapse, history, losses, table, topic
<1> DEFINE Kept ==
      /\ RowsOK'
      /\ \A t \in rows' : \E r \in rows :
           t.id = r.id /\ t.of = r.of /\ (t.dated => t.of \in Done')
      /\ \A r \in rows : (\E t \in rows' : t.of = r.of) \/ r.of \in Done'
<1> Done \subseteq Done'
  BY <1>2 DEF Done
<1>3. Kept
  <2>1. CASE rows' = rows
    BY <1>1, <1>2, <2>1 DEF RowsOK, DatedOK
  <2>2. ASSUME NEW e, Increment(e) PROVE Kept
    BY <1>1, <1>2, <2>2, Incremented DEF DatedOK
  <2>3. CASE Resolve
    <3>1. Update(retry.id, "resolved") /\ retry.of \in effects
      BY <1>1, <2>3 DEF Resolve, RetryOK
    <3>2. retry.of \in Done'
      BY <1>2, <3>1 DEF Done
    <3>3. QED
      BY <1>1, <1>2, <3>1, <3>2, Updated DEF DatedOK, RetryOK, Status
  <2>4. ASSUME NEW r \in rows, NEW s \in Status, Triage(r, s) PROVE Kept
    <3>1. Update(r.id, s) /\ (s = "resolved" => r.of \in Done')
      BY <2>4 DEF Triage, Done
    <3>2. \A t \in rows : t.id = r.id => t = r
      BY <1>1 DEF RowsOK
    <3>3. QED
      BY <1>1, <1>2, <3>1, <3>2, Updated DEF DatedOK
  <2>5. CASE Cleanup
    BY <1>1, <1>2, <2>5 DEF Cleanup, Expired, DatedOK, RowsOK
  <2> HIDE DEF Kept
  <2>6. QED
    BY <2>1, <2>2, <2>3, <2>4, <2>5
       DEF Operator, FindFailed, FindFails, RetrySucceeds, RetryFails, RetryBreaksOff,
           OpenWindow, CloseWindow, RetryParked, Lapse, table
<1>4. DatedOK' /\ ParkingOK' /\ NothingLost'
  BY <1>2, <1>3, RowsChanged
<1>5. /\ retry.at # "idle" => retry.of \in Event
      /\ failures' = failures \/ \E e \in Event : CountFailure(e)
      /\ faults' = faults \/ Fault
  <2>1. retry.at # "idle" => retry.of \in Event
    BY <1>1 DEF RetryOK
  <2>2. QED
    BY <2>1 DEF Operator, FindFailed, FindFails, RetrySucceeds, Resolve, RetryFails, RetryBreaksOff,
         Triage, Cleanup, OpenWindow, CloseWindow, RetryParked, Lapse, history, table, topic
<1>6. failures' \in [Event -> 0..MaxFailures] /\ faults' \in 0..MaxFaults
  BY <1>1, <1>5, DeadLetterAssumption DEF CountFailure, Fault, RestOK
<1>7. retry' \in [of : Event \cup {None}, id : 0..MaxRows, at : {"idle", "handler", "resolve"}]
      /\ RetryOK'
  <2>1. CASE UNCHANGED retry
    BY <1>1, <1>2, <1>3, <2>1 DEF RestOK, RetryOK
  <2>2. CASE retry' = NoRetry
    BY <1>1, <2>2, <1>3, DeadLetterAssumption DEF NoRetry, RetryOK, RowsOK, Row
  <2>3. ASSUME NEW r \in rows, FindFailed(r) 
        PROVE  retry' \in [of : Event \cup {None}, id : 0..MaxRows, at : {"idle", "handler", "resolve"}]
               /\ RetryOK'
    BY <1>1, <2>3 DEF FindFailed, RetryOK, RowsOK, Row, table
  <2>4. CASE RetrySucceeds
    BY <1>1, <2>4 DEF RetrySucceeds, RetryOK, RestOK
  <2>5. QED
    BY <2>1, <2>2, <2>3, <2>4
       DEF Operator, FindFails, Resolve, RetryFails, RetryBreaksOff, Triage, Cleanup,
           OpenWindow, CloseWindow, RetryParked, Lapse, table
<1>8. /\ effects' \subseteq Event /\ window' \in 0..Closed
      /\ parked' \subseteq Topic /\ passed' \subseteq parked' /\ lapsed' \subseteq Topic
  <2>1. CASE UNCHANGED <<effects, topic, lapsed>>
    BY <1>1, <1>2, <2>1 DEF RestOK, Closed, topic
  <2>2. CASE RetrySucceeds
    BY <1>1, <1>2, <1>5, <2>2 DEF RetrySucceeds, RestOK, Closed, topic, losses
  <2>3. CASE OpenWindow \/ CloseWindow
    BY <1>1, <1>2, <2>3, DeadLetterAssumption DEF OpenWindow, CloseWindow, RestOK, Closed, history, losses
  <2>4. ASSUME NEW e \in Topic, RetryParked(e)
        PROVE  /\ effects' \subseteq Event /\ window' \in 0..Closed
               /\ parked' \subseteq Topic /\ passed' \subseteq parked' /\ lapsed' \subseteq Topic
    BY <1>1, <1>2, <2>4, DeadLetterAssumption DEF RetryParked, RestOK, Closed, losses
  <2>5. ASSUME NEW e \in Topic, Lapse(e)
        PROVE  /\ effects' \subseteq Event /\ window' \in 0..Closed
               /\ parked' \subseteq Topic /\ passed' \subseteq parked' /\ lapsed' \subseteq Topic
    BY <1>1, <1>2, <2>5, DeadLetterAssumption DEF Lapse, RestOK, Closed
  <2>6. QED
    BY <2>1, <2>2, <2>3, <2>4, <2>5
       DEF Operator, FindFailed, FindFails, Resolve, RetryFails, RetryBreaksOff, Triage, Cleanup,
           history, losses
<1>12. cleared' \subseteq Event
  <2>1. ASSUME NEW r \in rows, NEW s \in Status, Triage(r, s) PROVE cleared' \subseteq Event
    BY <1>1, <2>1 DEF Triage, RestOK, RowsOK, Row
  <2>2. CASE UNCHANGED cleared
    BY <1>1, <2>2 DEF RestOK
  <2>3. QED
    BY <2>1, <2>2
       DEF Operator, FindFailed, FindFails, RetrySucceeds, Resolve, RetryFails, RetryBreaksOff,
           Cleanup, OpenWindow, CloseWindow, RetryParked, Lapse, history, losses
<1>9. RestOK'
  BY <1>1, <1>2, <1>6, <1>7, <1>8, <1>12 DEF RestOK
<1>10. WorkOK'
  BY <1>1, <1>2 DEF WorkOK, At, Handled
<1>11. QED
  BY <1>3, <1>4, <1>7, <1>9, <1>10 DEF IInv, TypeOK, WorkOK, RowsOK, RestOK

-----------------------------------------------------------------------------
\* Every step preserves the invariant.
LEMMA StepOK == IInv /\ [Next]_vars => IInv'
<1> SUFFICES ASSUME IInv, [Next]_vars PROVE IInv'
  OBVIOUS
<1>1. CASE Operator
  BY <1>1, OperatorStepOK
<1>2. ASSUME NEW p \in Process,
             Succeed(p) \/ Add(p) \/ IncrementParked(p) \/ Send(p) \/ ParkingFails(p)
      PROVE  IInv'
  BY <1>2, ReturnStep
<1>3. ASSUME NEW p \in Process,
             (\E e \in Event : Deliver(p, e)) \/ Fail(p) \/ MoveToDLQ(p) \/ Crash(p)
      PROVE  IInv'
  BY <1>3, WrapperStepOK
<1>4. CASE UNCHANGED vars
  BY <1>4 DEF vars, table, topic, history, losses, IInv, TypeOK, RetryOK, DatedOK, Done, ParkingOK, NothingLost,
              At, Handled, RowsOf
<1>5. QED
  BY <1>1, <1>2, <1>3, <1>4 DEF Next, WrapperStep

\* The state of the handlers stays well formed: ids of rows stay unique, and no
\* process counts up to the limit.
THEOREM TypeCorrect == Spec => []TypeOK
<1>1. IInv => TypeOK
  BY DEF IInv
<1>2. QED
  BY <1>1, InitOK, StepOK, PTL DEF Spec

\* Kafka never goes on behind an event without a trace: its handler succeeded,
\* it is parked, parking it failed, or it was parked until an operator resolved
\* it or its message had outlived its retention.
THEOREM NothingIsLost == Spec => []NothingLost
<1>1. IInv => NothingLost
  BY DEF IInv
<1>2. QED
  BY <1>1, InitOK, StepOK, PTL DEF Spec

-----------------------------------------------------------------------------
(* The counts of the rows *)

\* The processes about to park e: the failure that made them do so is not
\* yet counted by any row.
ParkingPlaces == {"exists", "add", "increment"}
Parking(e) == {p \in Process : Handled(p) = e /\ work[p].at \in ParkingPlaces}

\* A process parks an event at its last attempt.
LastAttempt ==
  \A p \in Process : work[p].at \in ParkingPlaces => attempts[p][Handled(p)] = MaxRetries - 1

\* What happened to an event and may have been counted.
Countable(e) == failures[e] + faults - Cardinality(Parking(e))

\* No process, and no row, has counted more than that.
AttemptsHappened ==
  \A p \in Process : \A e \in Event : attempts[p][e] <= Countable(e)

CountsHappened == \A r \in rows : r.count <= Countable(r.of)

ResolvedDated == \A r \in rows : r.status = "resolved" => r.dated

CountInv == LastAttempt /\ AttemptsHappened /\ CountsHappened /\ ResolvedDated

\* Only finitely many processes park an event.
LEMMA ParkingFinite ==
  ASSUME NEW e
  PROVE  IsFiniteSet(Parking(e)) /\ Cardinality(Parking(e)) \in Nat
BY DeadLetterAssumption, FS_Subset, FS_CardinalityType, Parking(e) \subseteq Process DEF Parking

\* A process that comes or goes changes the number parking an event by one.
LEMMA ParkingMoves ==
  ASSUME NEW e, NEW p \in Process,
         \A q \in Process \ {p} : work'[q] = work[q]
  PROVE  /\ Cardinality(Parking(e)') \in Nat
         /\ (p \in Parking(e) <=> p \in Parking(e)') =>
              Cardinality(Parking(e)') = Cardinality(Parking(e))
         /\ p \in Parking(e) /\ p \notin Parking(e)' =>
              Cardinality(Parking(e)') = Cardinality(Parking(e)) - 1
         /\ p \notin Parking(e) /\ p \in Parking(e)' =>
              Cardinality(Parking(e)') = Cardinality(Parking(e)) + 1
<1>1. IsFiniteSet(Parking(e)) /\ Cardinality(Parking(e)) \in Nat
  BY ParkingFinite
<1>2. \A q \in Process \ {p} : q \in Parking(e)' <=> q \in Parking(e)
  BY DEF Parking, Handled
<1>3. Parking(e)' \subseteq Process /\ Parking(e) \subseteq Process
  BY DEF Parking
<1>4. Parking(e)' = Parking(e) \/ Parking(e)' = Parking(e) \ {p} \/ Parking(e)' = Parking(e) \cup {p}
  BY <1>2, <1>3
<1>5. /\ Parking(e)' = Parking(e) \ {p} /\ p \in Parking(e) =>
           Cardinality(Parking(e)') = Cardinality(Parking(e)) - 1
      /\ Parking(e)' = Parking(e) \cup {p} /\ p \notin Parking(e) =>
           Cardinality(Parking(e)') = Cardinality(Parking(e)) + 1
  BY <1>1, FS_AddElement, FS_RemoveElement
<1>6. Cardinality(Parking(e)') \in Nat
  BY <1>3, DeadLetterAssumption, FS_Subset, FS_CardinalityType
<1> QED
  BY <1>2, <1>3, <1>4, <1>5, <1>6

\* Nobody parks anything at the start.
LEMMA InitCounts == Init => CountInv
<1> SUFFICES ASSUME Init PROVE CountInv
  OBVIOUS
<1>1. \A p \in Process : work[p].at \notin ParkingPlaces
  BY DEF Init, Idle, ParkingPlaces
<1>2. \A e : Cardinality(Parking(e)) = 0
  BY <1>1, FS_EmptySet DEF Parking
<1> QED
  BY <1>1, <1>2, DeadLetterAssumption
     DEF Init, CountInv, LastAttempt, AttemptsHappened, CountsHappened, Countable, ResolvedDated

\* incrementFailureCount adds one to each row of the event.
LEMMA IncrementedCounts ==
  ASSUME RowsOK, NEW e, Increment(e)
  PROVE  \A t \in rows' : \E r \in rows :
           /\ t.of = r.of /\ t.status = r.status /\ t.dated = r.dated
           /\ t.count = IF r.of = e THEN r.count + 1 ELSE r.count
<1> SUFFICES ASSUME NEW t \in rows'
             PROVE  \E r \in rows :
                      /\ t.of = r.of /\ t.status = r.status /\ t.dated = r.dated
                      /\ t.count = IF r.of = e THEN r.count + 1 ELSE r.count
  OBVIOUS
<1>1. PICK r \in rows : t = IF r.of = e THEN [r EXCEPT !.count = @ + 1] ELSE r
  BY DEF Increment
<1>2. r \in Row
  BY DEF RowsOK
<1> QED BY <1>1, <1>2 DEF Row

\* update changes no count, and dates the rows it resolves.
LEMMA UpdatedCounts ==
  ASSUME RowsOK, ResolvedDated, NEW id, NEW status, Update(id, status)
  PROVE  \A t \in rows' :
           /\ \E r \in rows : t.of = r.of /\ t.count = r.count
           /\ t.status = "resolved" => t.dated
<1> SUFFICES ASSUME NEW t \in rows'
             PROVE  /\ \E r \in rows : t.of = r.of /\ t.count = r.count
                    /\ t.status = "resolved" => t.dated
  OBVIOUS
<1>1. PICK r \in rows : t = IF r.id = id THEN Set(r, status) ELSE r
  BY DEF Update
<1>2. r \in Row
  BY DEF RowsOK
<1> QED BY <1>1, <1>2 DEF Row, Set, ResolvedDated

\* When one process moves, the number of processes that park an event changes
\* with it, and with nothing else.
LEMMA CountableMoves ==
  ASSUME TypeOK, TypeOK', NEW p \in Process, NEW e \in Event,
         \A q \in Process \ {p} : work'[q] = work[q]
  PROVE  /\ Countable(e) \in Int /\ Countable(e)' \in Int
         /\ Countable(e)' = Countable(e) + (failures'[e] - failures[e]) + (faults' - faults)
              + (IF p \in Parking(e) THEN 1 ELSE 0) - (IF p \in Parking(e)' THEN 1 ELSE 0)
<1>1. failures[e] \in Nat /\ failures'[e] \in Nat /\ faults \in Nat /\ faults' \in Nat
  BY DeadLetterAssumption DEF TypeOK
<1>2. Cardinality(Parking(e)) \in Nat /\ Cardinality(Parking(e)') \in Nat
  BY ParkingFinite, ParkingMoves
<1>3. Cardinality(Parking(e)') = Cardinality(Parking(e))
        - (IF p \in Parking(e) THEN 1 ELSE 0) + (IF p \in Parking(e)' THEN 1 ELSE 0)
  BY <1>2, ParkingMoves
<1>4. Countable(e)' = failures'[e] + faults' - Cardinality(Parking(e)')
  BY DEF Countable
<1> QED
  BY <1>1, <1>2, <1>3, <1>4 DEF Countable

\* The rows as they were, and no new attempt: the counts are still true while
\* no less may have been counted.
LEMMA NothingCounted ==
  ASSUME TypeOK, TypeOK', CountInv, LastAttempt', rows' = rows,
         \A q \in Process : \A e \in Event : attempts'[q][e] <= attempts[q][e],
         \A e \in Event : Countable(e) \in Int /\ Countable(e)' \in Int /\ Countable(e) <= Countable(e)'
  PROVE  CountInv'
<1>1. \A q \in Process : \A e \in Event : attempts[q][e] \in Int /\ attempts'[q][e] \in Int
  BY DeadLetterAssumption DEF TypeOK
<1>2. \A r \in rows : r.count \in Int /\ r.of \in Event
  BY DEF TypeOK, Row
<1> HIDE DEF Countable
<1>3. AttemptsHappened'
  BY <1>1 DEF CountInv, AttemptsHappened
<1>4. CountsHappened'
  BY <1>2 DEF CountInv, CountsHappened
<1> QED
  BY <1>3, <1>4 DEF CountInv, ResolvedDated

\* The last attempt of what a process parks is not forgotten before it is
\* counted.
LEMMA LastAttemptStep ==
  ASSUME TypeOK, TypeOK', LastAttempt, NEW p \in Process,
         (\E e \in Event : Deliver(p, e)) \/ WrapperStep(p) \/ ParkingFails(p) \/ Crash(p)
  PROVE  /\ \A q \in Process \ {p} : work'[q] = work[q] /\ attempts'[q] = attempts[q]
         /\ LastAttempt'
<1>1. PICK o : o = Handled(p)
  OBVIOUS
<1>2. /\ \E w : work' = [work EXCEPT ![p] = w]
      /\ attempts' = attempts \/ \E n : attempts' = [attempts EXCEPT ![p] = n]
  <2>1. CASE Fail(p)
    BY <2>1 DEF Fail, Goto, Leave
  <2>2. CASE \E e \in Event : Deliver(p, e)
    BY <2>2 DEF Deliver
  <2>3. QED
    BY <2>1, <2>2 DEF WrapperStep, Succeed, MoveToDLQ, Add, IncrementParked, Send, ParkingFails,
                      Crash, Goto, Leave, Parked, Forget
<1>3. \A q \in Process \ {p} : work'[q] = work[q] /\ attempts'[q] = attempts[q]
  BY <1>2 DEF TypeOK
<1>4. work'[p].at \in ParkingPlaces => attempts'[p][Handled(p)'] = MaxRetries - 1
  <2>1. CASE Fail(p)
    <3>1. CASE Enough(o, Attempts(p, o) + 1) /\ o \notin Topic
      <4>1. o \in Event /\ Handled(p)' = o /\ attempts' = attempts
        BY <1>1, <2>1, <3>1 DEF Fail, Goto, Handled, At, TypeOK
      <4>2. attempts[p][o] + 1 >= MaxRetries /\ attempts[p][o] \in 0..(MaxRetries - 1)
        BY <3>1, <4>1 DEF Enough, Attempts, Allowed, TypeOK
      <4>3. QED
        BY <4>1, <4>2, DeadLetterAssumption
    <3>2. CASE ~(Enough(o, Attempts(p, o) + 1) /\ o \notin Topic)
      <4>1. Leave(p) \/ Goto(p, "send")
        BY <1>1, <2>1, <3>2 DEF Fail
      <4>2. QED
        BY <4>1 DEF Leave, Goto, Idle, ParkingPlaces, TypeOK
    <3>3. QED
      BY <3>1, <3>2
  <2>2. CASE \E e \in Event : Deliver(p, e)
    BY <2>2 DEF Deliver, TypeOK, ParkingPlaces
  <2>3. CASE MoveToDLQ(p)
    <3>1. work[p].at \in ParkingPlaces /\ Handled(p)' = Handled(p) /\ attempts' = attempts
      BY <2>3 DEF MoveToDLQ, At, Goto, Handled, ParkingPlaces, TypeOK
    <3>2. QED
      BY <3>1 DEF LastAttempt
  <2>4. CASE Leave(p)
    BY <2>4 DEF Leave, Idle, ParkingPlaces, TypeOK
  <2>5. QED
    BY <2>1, <2>2, <2>3, <2>4 DEF WrapperStep, Succeed, Add, IncrementParked, Send, ParkingFails, Crash, Parked
<1>5. LastAttempt'
  BY <1>3, <1>4 DEF LastAttempt, Handled
<1> QED
  BY <1>3, <1>5

\* A wrapper's step keeps the counts: a failure counted in memory or by a row
\* is one that happened, and the one a parked event comes with is counted once.
LEMMA WrapperCounts ==
  ASSUME IInv, IInv', CountInv, NEW p \in Process,
         (\E e \in Event : Deliver(p, e)) \/ WrapperStep(p) \/ ParkingFails(p) \/ Crash(p)
  PROVE  CountInv'
<1>1. PICK o : o = Handled(p)
  OBVIOUS
<1>2. TypeOK /\ TypeOK' /\ LastAttempt /\ AttemptsHappened /\ CountsHappened /\ ResolvedDated
  BY DEF IInv, CountInv
<1>3. LastAttempt' /\ \A q \in Process \ {p} : work'[q] = work[q] /\ attempts'[q] = attempts[q]
  BY <1>2, LastAttemptStep
<1>4. \A e \in Event :
        /\ Countable(e) \in Int /\ Countable(e)' \in Int
        /\ Countable(e)' = Countable(e) + (failures'[e] - failures[e]) + (faults' - faults)
             + (IF p \in Parking(e) THEN 1 ELSE 0) - (IF p \in Parking(e)' THEN 1 ELSE 0)
  BY <1>2, <1>3, CountableMoves
<1>5. /\ \A e \in Event : failures[e] \in Int /\ failures'[e] \in Int
      /\ faults \in Int /\ faults' \in Int
      /\ \A q \in Process : \A e \in Event : attempts[q][e] \in Nat /\ attempts'[q][e] \in Nat
  BY <1>2, DeadLetterAssumption DEF TypeOK
<1>6. \A e : /\ p \in Parking(e) <=> e = o /\ work[p].at \in ParkingPlaces
             /\ p \in Parking(e)' <=> e = Handled(p)' /\ work'[p].at \in ParkingPlaces
  BY <1>1 DEF Parking
<1>7. CASE \E e \in Event : Deliver(p, e)
  <2>1. /\ UNCHANGED <<attempts, rows, failures>> /\ faults' \in {faults, faults + 1}
        /\ work[p].at \notin ParkingPlaces /\ work'[p].at \notin ParkingPlaces
    BY <1>2, <1>7 DEF Deliver, At, Fault, table, history, ParkingPlaces, TypeOK
  <2>2. \A e \in Event : Countable(e) <= Countable(e)'
    BY <1>4, <1>5, <1>6, <2>1
  <2>3. QED
    BY <1>2, <1>3, <1>4, <1>5, <2>1, <2>2, NothingCounted
<1>8. ASSUME Parked(p) \/ Crash(p)
      PROVE  /\ work'[p].at \notin ParkingPlaces
             /\ \A e \in Event : attempts'[p][e] <= attempts[p][e]
  <2>1. work' = [work EXCEPT ![p] = Idle]
    BY <1>8 DEF Parked, Crash, Leave
  <2>2. attempts' = [attempts EXCEPT ![p] = [e \in Event |-> 0]] \/ attempts' = [attempts EXCEPT ![p][o] = 0]
    BY <1>1, <1>8 DEF Parked, Crash, Forget
  <2>3. \A e \in Event : attempts'[p][e] = 0 \/ attempts'[p][e] = attempts[p][e]
    BY <1>2, <2>2 DEF TypeOK
  <2>4. QED
    BY <1>2, <1>5, <2>1, <2>3, SMTT(30) DEF Idle, ParkingPlaces, TypeOK
<1>9. CASE Succeed(p) \/ Send(p) \/ ParkingFails(p) \/ Crash(p)
  <2>1. /\ UNCHANGED <<rows, failures>> /\ faults' \in {faults, faults + 1}
        /\ Parked(p) \/ Crash(p)
    BY <1>9 DEF Succeed, Send, ParkingFails, Crash, Parked, Fault, table, history
  <2>2. \A e \in Event : Countable(e) <= Countable(e)'
    BY <1>4, <1>5, <1>6, <1>8, <2>1
  <2>3. \A q \in Process : \A e \in Event : attempts'[q][e] <= attempts[q][e]
    BY <1>3, <1>5, <1>8, <2>1
  <2>4. QED
    BY <1>2, <1>3, <1>4, <2>1, <2>2, <2>3, NothingCounted DEF CountInv
<1>10. CASE Add(p) \/ IncrementParked(p)
  <2>1. UNCHANGED <<failures, faults>> /\ Parked(p) /\ work[p].at \in ParkingPlaces /\ o \in Event
    BY <1>1, <1>2, <1>10 DEF Add, IncrementParked, history, At, ParkingPlaces, TypeOK, Handled
  <2>2. \A e \in Event : Countable(e)' = IF e = o THEN Countable(e) + 1 ELSE Countable(e)
    BY <1>4, <1>5, <1>6, <1>8, <2>1
  <2>3. AttemptsHappened'
    BY <1>2, <1>3, <1>4, <1>5, <1>8, <2>1, <2>2 DEF AttemptsHappened
  <2>4. CountsHappened' /\ ResolvedDated'
    <3>1. \A r \in rows : r.count \in Nat /\ r.of \in Event /\ r.count <= Countable(r.of)
      BY <1>2 DEF CountsHappened, TypeOK, Row
    <3>2. CASE Add(p)
      <4> DEFINE new == [id |-> NewId, of |-> o, count |-> MaxRetries, status |-> "failed", dated |-> FALSE]
      <4>1. rows' = rows \cup {new}
        BY <1>1, <3>2 DEF Add
      <4>2. attempts[p][o] = MaxRetries - 1 /\ attempts[p][o] <= Countable(o)
        BY <1>1, <1>2, <2>1 DEF LastAttempt, AttemptsHappened
      <4>3. new.of = o /\ new.count <= Countable(o)' /\ new.status # "resolved"
        BY <1>4, <2>1, <2>2, <4>2, DeadLetterAssumption
      <4> HIDE DEF new
      <4>4. \A t \in rows' : t.count <= Countable(t.of)'
        BY <1>4, <2>2, <3>1, <4>1, <4>3
      <4>5. QED
        BY <1>2, <4>1, <4>3, <4>4 DEF CountsHappened, ResolvedDated
    <3>3. CASE IncrementParked(p)
      <4>1. \A t \in rows' : \E r \in rows :
              /\ t.of = r.of /\ t.status = r.status /\ t.dated = r.dated
              /\ t.count = IF r.of = o THEN r.count + 1 ELSE r.count
        BY <1>1, <1>2, <3>3, IncrementedCounts, TypeParts DEF IncrementParked
      <4>2. \A t \in rows' : t.count <= Countable(t.of)'
        BY <1>4, <2>2, <3>1, <4>1
      <4>3. QED
        BY <1>2, <4>1, <4>2 DEF CountsHappened, ResolvedDated
    <3>4. QED
      BY <1>10, <3>2, <3>3
  <2>5. QED
    BY <1>3, <2>3, <2>4 DEF CountInv
<1>11. CASE MoveToDLQ(p)
  <2>1. /\ UNCHANGED <<attempts, rows, failures, faults>>
        /\ work[p].at \in ParkingPlaces /\ work'[p].at \in ParkingPlaces /\ Handled(p)' = o
    BY <1>1, <1>2, <1>11 DEF MoveToDLQ, At, Goto, Handled, table, history, ParkingPlaces, TypeOK
  <2>2. \A e \in Event : Countable(e) <= Countable(e)'
    BY <1>4, <1>5, <1>6, <2>1
  <2>3. QED
    BY <1>2, <1>3, <1>4, <1>5, <2>1, <2>2, NothingCounted DEF CountInv
<1>12. CASE Fail(p)
  <2>1. o \in Event /\ work[p].at \notin ParkingPlaces /\ UNCHANGED <<rows, faults>>
    BY <1>1, <1>2, <1>12 DEF Fail, At, Handled, TypeOK, ParkingPlaces, table
  <2>2. CASE o \in Topic
    <3>1. UNCHANGED <<attempts, failures>> /\ (Leave(p) \/ Goto(p, "send"))
      BY <1>1, <1>2, <1>12, <2>2 DEF Fail, TypeOK
    <3>2. work'[p].at \notin ParkingPlaces
      BY <1>2, <3>1 DEF Leave, Goto, Idle, ParkingPlaces, TypeOK
    <3>3. \A e \in Event : Countable(e) <= Countable(e)'
      BY <1>4, <1>5, <1>6, <2>1, <3>1, <3>2
    <3>4. QED
      BY <1>2, <1>3, <1>4, <1>5, <2>1, <3>1, <3>3, NothingCounted DEF CountInv
  <2>3. CASE o \notin Topic
    <3>1. CountFailure(o)
      BY <1>1, <1>12, <2>3 DEF Fail
    <3>2. \A e \in Event : failures'[e] = IF e = o THEN failures[e] + 1 ELSE failures[e]
      BY <1>2, <2>1, <3>1 DEF CountFailure, TypeOK
    <3>3. CASE Goto(p, "exists") /\ UNCHANGED attempts
      <4>1. Handled(p)' = o /\ work'[p].at \in ParkingPlaces
        BY <1>1, <1>2, <3>3 DEF Goto, Handled, ParkingPlaces, TypeOK
      <4>2. \A e \in Event : Countable(e) <= Countable(e)'
        BY <1>4, <1>5, <1>6, <2>1, <3>2, <4>1
      <4>3. QED
        BY <1>2, <1>3, <1>4, <1>5, <2>1, <3>3, <4>2, NothingCounted DEF CountInv
    <3>4. CASE Leave(p) /\ attempts' = [attempts EXCEPT ![p][o] = attempts[p][o] + 1]
      <4>1. work'[p].at \notin ParkingPlaces
        BY <1>2, <3>4 DEF Leave, Idle, ParkingPlaces, TypeOK
      <4>2. \A e \in Event : Countable(e)' = IF e = o THEN Countable(e) + 1 ELSE Countable(e)
        BY <1>4, <1>5, <1>6, <2>1, <3>2, <4>1
      <4>3. \A e \in Event : attempts'[p][e] = IF e = o THEN attempts[p][e] + 1 ELSE attempts[p][e]
        BY <1>2, <2>1, <3>4 DEF TypeOK
      <4>4. AttemptsHappened'
        BY <1>2, <1>3, <1>4, <1>5, <4>2, <4>3 DEF AttemptsHappened
      <4>5. \A r \in rows : r.count \in Nat /\ r.of \in Event /\ r.count <= Countable(r.of)
        BY <1>2 DEF CountsHappened, TypeOK, Row
      <4>6. CountsHappened' /\ ResolvedDated'
        BY <1>2, <1>4, <2>1, <4>2, <4>5 DEF CountsHappened, ResolvedDated
      <4>7. QED
        BY <1>3, <4>4, <4>6 DEF CountInv
    <3>5. QED
      BY <1>1, <1>12, <2>3, <3>3, <3>4 DEF Fail, Attempts
  <2>4. QED
    BY <2>2, <2>3
<1> QED
  BY <1>7, <1>9, <1>10, <1>11, <1>12 DEF WrapperStep

\* An operator's step counts a failure of a row when the handler, or one of the
\* statements, has failed, and never sets a count back.
LEMMA OperatorCounts ==
  ASSUME IInv, IInv', CountInv, Operator
  PROVE  CountInv'
<1>1. /\ TypeOK /\ TypeOK' /\ RowsOK /\ (retry.at # "idle" => retry.of \in Event)
      /\ LastAttempt /\ AttemptsHappened /\ CountsHappened /\ ResolvedDated
  BY TypeParts DEF IInv, CountInv, RetryOK
<1>2. UNCHANGED <<attempts, work>>
  BY DEF Operator, FindFailed, FindFails, RetrySucceeds, Resolve, RetryFails, RetryBreaksOff,
         Triage, Cleanup, OpenWindow, CloseWindow, RetryParked, Lapse
<1>3. /\ failures' = failures \/ \E e \in Event : failures' = [failures EXCEPT ![e] = @ + 1]
      /\ faults' = faults \/ faults' = faults + 1
  BY <1>1 DEF Operator, FindFailed, FindFails, RetrySucceeds, Resolve, RetryFails, RetryBreaksOff,
         Triage, Cleanup, OpenWindow, CloseWindow, RetryParked, Lapse, CountFailure, Fault, history
<1>4. /\ \A e \in Event : failures[e] \in Nat /\ failures'[e] \in Nat /\ failures[e] <= failures'[e]
      /\ faults \in Nat /\ faults' \in Nat /\ faults <= faults'
  <2>1. /\ \A e \in Event : failures[e] \in Nat /\ failures'[e] \in Nat
        /\ faults \in Nat /\ faults' \in Nat
    BY <1>1, DeadLetterAssumption DEF TypeOK
  <2>2. \A e \in Event : failures'[e] = failures[e] \/ failures'[e] = failures[e] + 1
    BY <1>1, <1>3 DEF TypeOK
  <2>3. QED
    BY <1>3, <2>1, <2>2
<1>5. \A e : Countable(e)' = failures'[e] + faults' - Cardinality(Parking(e)) /\ Cardinality(Parking(e)) \in Nat
  BY <1>2, ParkingFinite DEF Countable, Parking, Handled
<1>6. \A e \in Event : /\ Countable(e) \in Int /\ Countable(e)' \in Int
                       /\ Countable(e)' = Countable(e) + (failures'[e] - failures[e]) + (faults' - faults)
                       /\ Countable(e) <= Countable(e)'
  BY <1>4, <1>5 DEF Countable
<1>7. LastAttempt' /\ AttemptsHappened'
  <2>1. \A q \in Process : \A e \in Event : attempts[q][e] \in Int /\ attempts'[q][e] = attempts[q][e]
    BY <1>1, <1>2, DeadLetterAssumption DEF TypeOK
  <2>2. QED
    BY <1>1, <1>2, <1>6, <2>1 DEF LastAttempt, AttemptsHappened, Handled
<1>8. \A r \in rows : r.count \in Nat /\ r.of \in Event /\ r.count <= Countable(r.of)
  BY <1>1 DEF CountsHappened, TypeOK, Row
<1>9. ASSUME \A t \in rows' : \E r \in rows : t.of = r.of /\ t.count = r.count,
             \A t \in rows' : t.status = "resolved" => t.dated
      PROVE  CountInv'
  <2>1. \A t \in rows' : t.count <= Countable(t.of)'
    BY <1>6, <1>8, <1>9
  <2>2. QED
    BY <1>7, <1>9, <2>1 DEF CountInv, CountsHappened, ResolvedDated
<1>10. CASE rows' = rows
  BY <1>1, <1>9, <1>10 DEF ResolvedDated
<1>11. CASE Cleanup
  BY <1>1, <1>9, <1>11 DEF Cleanup, ResolvedDated
<1>12. ASSUME NEW id, NEW status \in Status, Update(id, status) PROVE CountInv'
  BY <1>1, <1>9, <1>12, UpdatedCounts
<1>13. ASSUME NEW e \in Event, Increment(e), CountFailure(e) \/ Fault PROVE CountInv'
  <2>1. Countable(e)' >= Countable(e) + 1
    <3>1. failures'[e] = failures[e] + 1 \/ faults' = faults + 1
      BY <1>1, <1>13 DEF CountFailure, Fault, TypeOK
    <3>2. QED
      BY <1>4, <1>6, <3>1
  <2>2. \A t \in rows' : \E r \in rows :
          /\ t.of = r.of /\ t.status = r.status /\ t.dated = r.dated
          /\ t.count = IF r.of = e THEN r.count + 1 ELSE r.count
    BY <1>1, <1>13, IncrementedCounts
  <2>3. \A t \in rows' : t.count <= Countable(t.of)'
    BY <1>6, <1>8, <2>1, <2>2
  <2>4. QED
    BY <1>1, <1>7, <2>2, <2>3 DEF CountInv, CountsHappened, ResolvedDated
<1>14. CASE RetryFails \/ \E r \in rows : FindFails(r)
  BY <1>1, <1>8, <1>13, <1>14 DEF RetryFails, FindFails
<1>15. CASE Resolve \/ \E r \in rows : \E s \in Status : Triage(r, s)
  BY <1>12, <1>15 DEF Resolve, Triage, Status
<1> QED
  BY <1>10, <1>11, <1>14, <1>15
     DEF Operator, FindFailed, RetrySucceeds, RetryBreaksOff, OpenWindow, CloseWindow, RetryParked, Lapse,
         table

\* Every step keeps the counts true.
LEMMA CountStep == IInv /\ IInv' /\ CountInv /\ [Next]_vars => CountInv'
<1> SUFFICES ASSUME IInv, IInv', CountInv, [Next]_vars PROVE CountInv'
  OBVIOUS
<1>1. CASE Operator
  BY <1>1, OperatorCounts
<1>2. ASSUME NEW p \in Process,
             (\E e \in Event : Deliver(p, e)) \/ WrapperStep(p) \/ ParkingFails(p) \/ Crash(p)
      PROVE  CountInv'
  BY <1>2, WrapperCounts
<1>3. CASE UNCHANGED vars
  BY <1>3 DEF vars, table, history, CountInv, LastAttempt, AttemptsHappened, CountsHappened, ResolvedDated,
              Countable, Parking, Handled
<1> QED
  BY <1>1, <1>2, <1>3 DEF Next

\* What a row of the dead letter table says is true: its handler has succeeded if
\* it is resolved, or an operator resolved it by hand, and it failed as often as
\* the row counts, but for the statements and processes that failed instead.
THEOREM CountsTrue == Spec => []RowsTellTheTruth
<1>1. IInv /\ CountInv => RowsTellTheTruth
  <2> SUFFICES ASSUME IInv, CountInv, NEW r \in rows
               PROVE  /\ r.dated => r.of \in effects \cup cleared
                      /\ r.status = "resolved" => r.dated
                      /\ r.count <= failures[r.of] + faults
    BY DEF RowsTellTheTruth
  <2>1. /\ failures[r.of] \in Nat /\ faults \in Nat /\ r.count \in Nat
        /\ r.count <= failures[r.of] + faults - Cardinality(Parking(r.of))
    BY DeadLetterAssumption DEF IInv, TypeOK, Row, CountInv, CountsHappened, Countable
  <2>2. Cardinality(Parking(r.of)) \in Nat
    BY ParkingFinite
  <2>3. r.count <= failures[r.of] + faults
    BY <2>1, <2>2
  <2>4. QED
    BY <2>3 DEF IInv, DatedOK, Done, CountInv, ResolvedDated
<1>2. QED
  BY <1>1, InitOK, StepOK, InitCounts, CountStep, PTL DEF Spec
=============================================================================
