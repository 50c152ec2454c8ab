------------------------- MODULE TransactionProofs -------------------------
(***************************************************************************)
(* Proofs about TransactionService for any number of requests, keys,       *)
(* copies and faults.  One invariant is about the tables and the topic;    *)
(* the second is about the outcomes of the events whose COMMIT was seen.   *)
(***************************************************************************)
EXTENDS TransactionService, SequenceTheorems, TLAPS

\* A key belongs to the transaction stored under it, and only stored
\* transactions are requested, published and handled.
StoredOK ==
  /\ \A q, r \in Request :
       status[q] # "none" /\ status[r] # "none" /\ key[q] = key[r] => q = r
  /\ \A r \in Request : step[r] = "commit" => status[r] # "none"
  /\ \A r \in requested : status[r] # "none"
  /\ \A e \in topic : Txn(e) \in requested

KeyInv == TypeOK /\ StoredOK

\* What processed_events says of every event, published or not.
OutcomesOK ==
  /\ \A e \in processed \ lost : \E i \in CausedBy(e) : CausedBy(e) = {i}
  /\ \A e \in Event \ (processed \cup lost) : CausedBy(e) = {}

\* The handler has an event that was not processed before, unless it did not
\* see the COMMIT that processed it.
HandlerOK == event # NoEvent => event \notin processed \ lost

-----------------------------------------------------------------------------
(* The event in the handler *)

\* The event of a running handler is on the topic, and names a request.
LEMMA HandledEvent ==
  ASSUME TypeOK, event # NoEvent
  PROVE  event \in topic /\ event \in Event /\ Txn(event) \in Request
<1>1. event \in topic /\ event \in Event
  BY DEF TypeOK
<1> QED BY <1>1 DEF Event, Txn

\* A handler that throws stays with its event or has none any more.
LEMMA HandlerThrows ==
  ASSUME TypeOK, event # NoEvent, Throw
  PROVE  /\ event' \in topic \cup {NoEvent}
         /\ stage' \in Stages
         /\ (stage' = "idle") <=> (event' = NoEvent)
         /\ caught' \in BOOLEAN
         /\ event' = NoEvent \/ event' = event
<1>1. CASE Return
  BY <1>1 DEF Return, Stages
<1>2. CASE ~caught /\ caught' = TRUE /\ stage' = "reject" /\ UNCHANGED event
  BY <1>2 DEF TypeOK, Stages
<1> QED BY <1>1, <1>2 DEF Throw

\* A fault is counted and stays within the bound.
LEMMA FaultsCounted ==
  ASSUME TypeOK, NEW kind, Fault(kind)
  PROVE  faults' \in 0..MaxFaults
BY TransactionAssumption DEF TypeOK, Fault

\* Recording an outcome adds a row for the event in the handler and changes
\* the rows of no other event.
LEMMA RecordAdds ==
  ASSUME TypeOK, event # NoEvent, NEW v \in {"completed", "rejected"}, Record(v)
  PROVE  /\ outcomes' \in [Request -> Seq(Outcome)]
         /\ \A e \in Event :
              CausedBy(e)' = IF e = event
                             THEN CausedBy(e) \cup {Len(outcomes[Txn(event)]) + 1}
                             ELSE CausedBy(e)
<1> DEFINE r == Txn(event)
           row == [verdict |-> v, of |-> event]
           rows == outcomes[r]
<1>1. event \in Event /\ r \in Request
  BY HandledEvent
<1>2. row \in Outcome
  BY <1>1 DEF Outcome
<1>3. rows \in Seq(Outcome)
  BY <1>1 DEF TypeOK
<1>4. outcomes' = [outcomes EXCEPT ![r] = Append(rows, row)]
  BY DEF Record
<1>5. outcomes' \in [Request -> Seq(Outcome)]
  BY <1>1, <1>2, <1>3, <1>4 DEF TypeOK
<1>6. /\ outcomes'[r] = Append(rows, row)
      /\ \A q \in Request \ {r} : outcomes'[q] = outcomes[q]
  BY <1>1, <1>4 DEF TypeOK
<1>7. /\ DOMAIN outcomes'[r] = DOMAIN rows \cup {Len(rows) + 1}
      /\ \A i \in DOMAIN rows : outcomes'[r][i] = rows[i]
      /\ outcomes'[r][Len(rows) + 1].of = event
  BY <1>2, <1>3, <1>6
<1>8. ASSUME NEW e \in Event, Txn(e) = r
      PROVE  CausedBy(e)' = IF e = event THEN CausedBy(e) \cup {Len(rows) + 1}
                                         ELSE CausedBy(e)
  <2>1. CausedBy(e)' = {i \in DOMAIN outcomes'[r] : outcomes'[r][i].of = e}
    BY <1>8 DEF CausedBy, Txn
  <2>2. CausedBy(e) = {i \in DOMAIN rows : rows[i].of = e}
    BY <1>8 DEF CausedBy
  <2> QED BY <2>1, <2>2, <1>7
<1>9. ASSUME NEW e \in Event, Txn(e) # r
      PROVE  CausedBy(e)' = CausedBy(e)
  BY <1>6, <1>9 DEF CausedBy, Txn, Event
<1>10. ASSUME NEW e \in Event
       PROVE  CausedBy(e)' = IF e = event THEN CausedBy(e) \cup {Len(rows) + 1}
                                          ELSE CausedBy(e)
  <2>1. CASE Txn(e) = r
    BY <1>8, <2>1
  <2>2. CASE Txn(e) # r
    BY <1>9, <2>2
  <2> QED BY <2>1, <2>2
<1> QED BY <1>5, <1>10

-----------------------------------------------------------------------------
(* Types, and one transaction for each key *)

\* The service starts with empty tables.
LEMMA StoreInit == Init => KeyInv
<1> SUFFICES ASSUME Init PROVE KeyInv
  OBVIOUS
<1>1. TypeOK
  <2>1. outcomes \in [Request -> Seq(Outcome)]
    BY <<>> \in Seq(Outcome) DEF Init
  <2>2. faults \in 0..MaxFaults
    BY TransactionAssumption DEF Init
  <2>3. /\ step \in [Request -> Steps]
        /\ answer \in [Request -> Answers]
        /\ status \in [Request -> {"none", "pending", "completed", "rejected"}]
    BY DEF Init, Steps, Answers
  <2> QED BY <2>1, <2>2, <2>3 DEF Init, TypeOK, Stages
<1>2. StoredOK
  BY DEF Init, StoredOK
<1> QED BY <1>1, <1>2 DEF KeyInv

\* Every step of a request, of the relay, of the consumer and of the saga
\* keeps types, and gives a row to no second request with a key.
LEMMA StoreStep == KeyInv /\ [Next]_vars => KeyInv'
<1> SUFFICES ASSUME KeyInv, [Next]_vars PROVE TypeOK' /\ StoredOK'
  BY DEF KeyInv
<1>0. TypeOK /\ StoredOK
  BY DEF KeyInv
<1> USE DEF vars, http, saga, broker, decisions
<1>1. ASSUME NEW r \in Request, Lookup(r) PROVE TypeOK' /\ StoredOK'
  BY <1>0, <1>1 DEF Lookup, Respond, Continue, TypeOK, StoredOK, Steps, Answers
<1>2. ASSUME NEW r \in Request, ValidateAccounts(r) PROVE TypeOK' /\ StoredOK'
  BY <1>0, <1>2 DEF ValidateAccounts, Respond, Continue, TypeOK, StoredOK, Steps, Answers
<1>3. ASSUME NEW r \in Request, Create(r) PROVE TypeOK' /\ StoredOK'
  <2>1. CASE KeyTakenInTable(r) /\ Respond(r, "error") /\ UNCHANGED status
    BY <1>0, <1>3, <2>1 DEF Create, Respond, TypeOK, StoredOK, Steps, Answers
  <2>2. CASE /\ ~KeyTakenInTable(r)
             /\ status' = [status EXCEPT ![r] = "pending"]
             /\ Continue(r, "commit")
    <3>1. TypeOK'
      BY <1>0, <1>3, <2>2 DEF Create, Continue, TypeOK, Steps
    <3>2. StoredOK'
      BY <1>0, <1>3, <2>2
      DEF Create, Continue, KeyTakenInTable, KeyTaken, TypeOK, StoredOK
    <3> QED BY <3>1, <3>2
  <2> QED BY <1>3, <2>1, <2>2 DEF Create
<1>4. ASSUME NEW r \in Request, CommitRequest(r) PROVE TypeOK' /\ StoredOK'
  BY <1>0, <1>4 DEF CommitRequest, Respond, TypeOK, StoredOK, Steps, Answers
<1>5. ASSUME NEW r \in Request, RequestFails(r) PROVE TypeOK' /\ StoredOK'
  <2>1. faults' \in 0..MaxFaults
    BY <1>0, <1>5, FaultsCounted DEF RequestFails
  <2> QED BY <1>0, <1>5, <2>1
      DEF RequestFails, Respond, TypeOK, StoredOK, Steps, Answers
<1>6. ASSUME NEW r \in Request, RequestCommitLost(r) PROVE TypeOK' /\ StoredOK'
  <2>1. faults' \in 0..MaxFaults
    BY <1>0, <1>6, FaultsCounted DEF RequestCommitLost
  <2> QED BY <1>0, <1>6, <2>1
      DEF RequestCommitLost, Respond, TypeOK, StoredOK, Steps, Answers
<1>7. ASSUME NEW r \in Request, Relayed(r) PROVE TypeOK' /\ StoredOK'
  <2>1. PICK n \in 1..MaxCopies : topic' = topic \cup {<<r, n>>}
    BY <1>7 DEF Relayed
  <2>2. <<r, n>> \in Event /\ Txn(<<r, n>>) \in requested
    BY <1>7, <2>1 DEF Relayed, Event, Txn
  <2>3. UNCHANGED <<key, step, answer, status, requested, acked, handled, event,
                    stage, caught, processed, outcomes, lost, faults>>
    BY <1>7 DEF Relayed
  <2>4. TypeOK'
    BY <1>0, <2>1, <2>2, <2>3 DEF TypeOK
  <2>5. StoredOK'
    BY <1>0, <2>1, <2>2, <2>3 DEF StoredOK, Txn
  <2> QED BY <2>4, <2>5
<1>8. ASSUME NEW e \in topic, Deliver(e) PROVE TypeOK' /\ StoredOK'
  <2>1. e # NoEvent
    BY <1>0, TransactionAssumption DEF TypeOK, Event
  <2>2. TypeOK'
    BY <1>0, <1>8, <2>1 DEF Deliver, TypeOK, Stages
  <2>3. StoredOK'
    BY <1>0, <1>8 DEF Deliver, StoredOK, Txn
  <2> QED BY <2>2, <2>3
<1>9. ASSUME CommitOffsets PROVE TypeOK' /\ StoredOK'
  BY <1>0, <1>9 DEF CommitOffsets, TypeOK, StoredOK, Txn
<1>10. ASSUME ValidateFunds PROVE TypeOK' /\ StoredOK'
  BY <1>0, <1>10 DEF ValidateFunds, Stage, TypeOK, StoredOK, Stages, Txn
<1>11. ASSUME Complete \/ Reject PROVE TypeOK' /\ StoredOK'
  <2>1. event # NoEvent
    BY <1>0, <1>11 DEF TypeOK, Complete, Reject, UpdateStatus
  <2>2. Txn(event) \in Request /\ status[Txn(event)] # "none"
    BY <1>0, <2>1, HandledEvent DEF StoredOK
  <2>3. PICK v \in {"completed", "rejected"} :
          status' = [status EXCEPT ![Txn(event)] = v]
    BY <1>11 DEF Complete, Reject, UpdateStatus
  <2>4. /\ UNCHANGED <<key, step, answer, requested, topic, acked, handled, event,
                       caught, processed, outcomes, lost, faults>>
        /\ stage' \in Stages \ {"idle"}
        /\ stage # "idle"
    BY <1>11 DEF Complete, Reject, UpdateStatus, Stage, Stages
  <2>5. TypeOK'
    BY <1>0, <2>2, <2>3, <2>4 DEF TypeOK
  <2>6. \A q \in Request : status'[q] # "none" <=> status[q] # "none"
    BY <1>0, <2>2, <2>3 DEF TypeOK
  <2>7. StoredOK'
    BY <1>0, <2>4, <2>6 DEF StoredOK, Txn, TypeOK
  <2> QED BY <2>5, <2>7
<1>12. ASSUME CommitOutcome PROVE TypeOK' /\ StoredOK'
  <2>1. event # NoEvent /\ Verdict \in {"completed", "rejected"}
    BY <1>0, <1>12 DEF TypeOK, CommitOutcome, Verdict
  <2>2. event \in topic
    BY <1>0, <2>1, HandledEvent
  <2>3. outcomes' \in [Request -> Seq(Outcome)]
    BY <1>0, <1>12, <2>1, RecordAdds DEF CommitOutcome
  <2> QED BY <1>0, <1>12, <2>2, <2>3
      DEF CommitOutcome, Record, Return, TypeOK, StoredOK, Stages, Txn
<1>13. ASSUME SagaFails PROVE TypeOK' /\ StoredOK'
  <2>1. faults' \in 0..MaxFaults
    BY <1>0, <1>13, FaultsCounted DEF SagaFails
  <2>2. /\ event' \in topic \cup {NoEvent}
        /\ stage' \in Stages
        /\ (stage' = "idle") <=> (event' = NoEvent)
        /\ caught' \in BOOLEAN
    BY <1>0, <1>13, HandlerThrows DEF SagaFails
  <2> QED BY <1>0, <1>13, <2>1, <2>2 DEF SagaFails, TypeOK, StoredOK, Txn
<1>14. ASSUME SagaCommitLost PROVE TypeOK' /\ StoredOK'
  <2>1. event # NoEvent /\ Verdict \in {"completed", "rejected"}
    BY <1>0, <1>14 DEF TypeOK, SagaCommitLost, Verdict
  <2>2. event \in topic
    BY <1>0, <2>1, HandledEvent
  <2>3. outcomes' \in [Request -> Seq(Outcome)]
    BY <1>0, <1>14, <2>1, RecordAdds DEF SagaCommitLost
  <2>4. faults' \in 0..MaxFaults
    BY <1>0, <1>14, FaultsCounted DEF SagaCommitLost
  <2>5. /\ event' \in topic \cup {NoEvent}
        /\ stage' \in Stages
        /\ (stage' = "idle") <=> (event' = NoEvent)
        /\ caught' \in BOOLEAN
    BY <1>0, <1>14, <2>1, HandlerThrows DEF SagaCommitLost
  <2> QED BY <1>0, <1>14, <2>2, <2>3, <2>4, <2>5
      DEF SagaCommitLost, Record, TypeOK, StoredOK, Txn
<1>15. ASSUME Crash PROVE TypeOK' /\ StoredOK'
  <2>1. faults' \in 0..MaxFaults
    BY <1>0, <1>15, FaultsCounted DEF Crash
  <2> QED BY <1>0, <1>15, <2>1
      DEF Crash, Return, TypeOK, StoredOK, Steps, Stages, Txn
<1>16. ASSUME UNCHANGED vars PROVE TypeOK' /\ StoredOK'
  BY <1>0, <1>16 DEF TypeOK, StoredOK, Txn
<1> QED
  BY <1>1, <1>2, <1>3, <1>4, <1>5, <1>6, <1>7, <1>8, <1>9, <1>10, <1>11, <1>12,
     <1>13, <1>14, <1>15, <1>16
  DEF Next, RequestStep, HandlerStep

\* The invariant about tables and topic, for every kind of fault.
THEOREM StoreInvariance == Spec => []KeyInv
BY StoreInit, StoreStep, PTL DEF Spec

\* Every variable stays in its range, and the handler has an event exactly
\* while it runs.
THEOREM TypeCorrect == Spec => []TypeOK
<1>1. KeyInv => TypeOK
  BY DEF KeyInv
<1> QED BY <1>1, StoreInvariance, PTL

\* Of the requests with one idempotency key, however many race and whatever
\* fails, the saga is handed one at most.
THEOREM OneTransactionPerKey == Spec => []AtMostOncePerKey
<1>1. KeyInv => AtMostOncePerKey
  BY DEF KeyInv, TypeOK, StoredOK, AtMostOncePerKey
<1> QED BY <1>1, StoreInvariance, PTL

-----------------------------------------------------------------------------
(* One outcome for each event whose COMMIT was seen *)

\* No event is processed and no outcome written at the start.
LEMMA OutcomeInit == Init => OutcomesOK /\ HandlerOK
<1> SUFFICES ASSUME Init PROVE OutcomesOK /\ HandlerOK
  OBVIOUS
<1>1. \A e \in Event : CausedBy(e) = {}
  <2> TAKE e \in Event
  <2>1. outcomes[Txn(e)] = <<>>
    BY DEF Init, Event, Txn
  <2> QED BY <2>1 DEF CausedBy
<1> QED BY <1>1 DEF Init, OutcomesOK, HandlerOK

\* A step that leaves both tables alone, and takes up no event that was
\* processed, changes nothing.
LEMMA OutcomesKept ==
  ASSUME OutcomesOK, HandlerOK, UNCHANGED decisions,
         event' \in {NoEvent, event} \/ event' \notin processed
  PROVE  OutcomesOK' /\ HandlerOK'
<1>1. \A e : CausedBy(e)' = CausedBy(e)
  BY DEF decisions, CausedBy, Txn
<1> QED BY <1>1 DEF OutcomesOK, HandlerOK, decisions

\* A COMMIT that is seen records the first and only outcome of the event in
\* the handler; one that is not puts its event among the lost.
LEMMA OutcomeStep ==
  ASSUME TypeOK, OutcomesOK, HandlerOK, [Next]_vars
  PROVE  OutcomesOK' /\ HandlerOK'
<1> USE DEF vars, http, saga, broker
<1>1. ASSUME NEW r \in Request,
             RequestStep(r) \/ RequestFails(r) \/ RequestCommitLost(r) \/ Relayed(r)
      PROVE  OutcomesOK' /\ HandlerOK'
  <2>1. UNCHANGED <<decisions, event>>
    BY <1>1
    DEF RequestStep, Lookup, ValidateAccounts, Create, CommitRequest,
        RequestFails, RequestCommitLost, Relayed
  <2> QED BY <2>1, OutcomesKept
<1>2. ASSUME NEW e \in topic, Deliver(e) PROVE OutcomesOK' /\ HandlerOK'
  <2>1. UNCHANGED decisions /\ (event' = event \/ event' \notin processed)
    BY <1>2 DEF Deliver, AlreadyProcessed
  <2> QED BY <2>1, OutcomesKept
<1>3. ASSUME CommitOffsets \/ ValidateFunds \/ Complete \/ Reject
      PROVE  OutcomesOK' /\ HandlerOK'
  <2>1. UNCHANGED <<decisions, event>>
    BY <1>3 DEF CommitOffsets, ValidateFunds, Complete, Reject, UpdateStatus, Stage
  <2> QED BY <2>1, OutcomesKept
<1>4. ASSUME CommitOutcome PROVE OutcomesOK' /\ HandlerOK'
  <2>1. event # NoEvent /\ Verdict \in {"completed", "rejected"} /\ Record(Verdict)
    BY <1>4 DEF TypeOK, CommitOutcome, Verdict
  <2>2. event \in Event /\ event \notin processed \ lost
    BY <2>1, HandledEvent DEF HandlerOK
  <2>3. \A e \in Event :
          CausedBy(e)' = IF e = event
                         THEN CausedBy(e) \cup {Len(outcomes[Txn(event)]) + 1}
                         ELSE CausedBy(e)
    BY <2>1, RecordAdds
  <2>4. processed' = processed \cup {event} /\ event' = NoEvent /\ lost' = lost
    BY <1>4 DEF CommitOutcome, Record, Return
  <2>5. processed \subseteq Event
    BY DEF TypeOK
  <2>6. ASSUME NEW e \in processed' \ lost'
        PROVE  \E i \in CausedBy(e)' : CausedBy(e)' = {i}
    <3>1. CASE e = event
      <4>1. CausedBy(e) = {}
        BY <2>2, <2>4, <2>6, <3>1 DEF OutcomesOK
      <4> QED BY <2>2, <2>3, <3>1, <4>1
    <3>2. CASE e # event
      <4>1. e \in processed \ lost /\ CausedBy(e)' = CausedBy(e)
        BY <2>3, <2>4, <2>5, <2>6, <3>2
      <4> QED BY <4>1 DEF OutcomesOK
    <3> QED BY <3>1, <3>2
  <2>7. ASSUME NEW e \in Event \ (processed' \cup lost') PROVE CausedBy(e)' = {}
    BY <2>3, <2>4, <2>7 DEF OutcomesOK
  <2> QED BY <2>4, <2>6, <2>7 DEF OutcomesOK, HandlerOK
<1>5. ASSUME SagaFails PROVE OutcomesOK' /\ HandlerOK'
  <2>1. event' \in {NoEvent, event}
    BY <1>5, HandlerThrows DEF SagaFails
  <2> QED BY <1>5, <2>1, OutcomesKept DEF SagaFails
<1>6. ASSUME SagaCommitLost PROVE OutcomesOK' /\ HandlerOK'
  <2>1. event # NoEvent /\ Verdict \in {"completed", "rejected"} /\ Record(Verdict)
    BY <1>6 DEF TypeOK, SagaCommitLost, Verdict
  <2>2. \A e \in Event \ {event} : CausedBy(e)' = CausedBy(e)
    BY <2>1, RecordAdds
  <2>3. /\ processed' = processed \cup {event}
        /\ lost' = lost \cup {event}
    BY <1>6 DEF SagaCommitLost, Record
  <2>4. event' \in {NoEvent, event}
    BY <1>6, <2>1, HandlerThrows DEF SagaCommitLost
  <2>5. processed \subseteq Event
    BY DEF TypeOK
  <2>6. ASSUME NEW e \in processed' \ lost'
        PROVE  \E i \in CausedBy(e)' : CausedBy(e)' = {i}
    <3>1. e \in processed \ lost /\ CausedBy(e)' = CausedBy(e)
      BY <2>2, <2>3, <2>5, <2>6
    <3> QED BY <3>1 DEF OutcomesOK
  <2>7. ASSUME NEW e \in Event \ (processed' \cup lost') PROVE CausedBy(e)' = {}
    BY <2>2, <2>3, <2>7 DEF OutcomesOK
  <2>8. HandlerOK'
    BY <2>3, <2>4 DEF HandlerOK
  <2> QED BY <2>6, <2>7, <2>8 DEF OutcomesOK
<1>7. ASSUME Crash PROVE OutcomesOK' /\ HandlerOK'
  <2>1. UNCHANGED decisions /\ event' = NoEvent
    BY <1>7 DEF Crash, Return
  <2> QED BY <2>1, OutcomesKept
<1>8. ASSUME UNCHANGED vars PROVE OutcomesOK' /\ HandlerOK'
  BY <1>8, OutcomesKept
<1> QED
  BY <1>1, <1>2, <1>3, <1>4, <1>5, <1>6, <1>7, <1>8 DEF Next, HandlerStep

\* Delivered however often, before and after crashes and failed statements,
\* an event in processed_events caused exactly one outcome row, and any other
\* event none, unless the handler did not see a COMMIT of its own.
THEOREM OutcomeOnce == Spec => []OneOutcomePerEvent
<1>1. Init => TypeOK /\ OutcomesOK /\ HandlerOK
  BY StoreInit, OutcomeInit DEF KeyInv
<1>2. KeyInv /\ OutcomesOK /\ HandlerOK /\ [Next]_vars => OutcomesOK' /\ HandlerOK'
  BY OutcomeStep DEF KeyInv
<1>3. KeyInv /\ OutcomesOK => OneOutcomePerEvent
  BY DEF KeyInv, TypeOK, OutcomesOK, OneOutcomePerEvent
<1> QED BY <1>1, <1>2, <1>3, StoreInvariance, PTL DEF Spec

-----------------------------------------------------------------------------
(* The status and the last outcome *)

\* Every copy of the transaction was processed in a COMMIT that was seen, and
\* none is in the handler.
Quiet(r) ==
  /\ Copies(r) # {}
  /\ \A n \in Copies(r) : <<r, n>> \in processed \ lost
  /\ event = NoEvent \/ Txn(event) # r

AgreesOf(r) ==
  Quiet(r) => outcomes[r] # <<>> /\ status[r] = outcomes[r][Len(outcomes[r])].verdict

\* What is about to be announced is what the status says already.
StatusOK ==
  /\ stage \in {"commitComplete", "commitReject"} => status[Txn(event)] = Verdict
  /\ \A r \in Request : AgreesOf(r)

\* A transaction whose event is in the handler, or was and did not get its
\* outcome in a COMMIT that was seen, is not quiet.
LEMMA NotQuiet ==
  ASSUME TypeOK, NEW e \in topic, NEW r \in Request, r = Txn(e), e \notin processed \ lost
  PROVE  ~Quiet(r)
<1>1. e = <<r, e[2]>> /\ e[2] \in 1..MaxCopies
  BY DEF TypeOK, Event, Txn
<1>2. QED
  BY <1>1 DEF Quiet, Copies

\* A step that changes no status, table or topic, and after which a handler
\* about to commit was so before.
LEMMA StatusKept ==
  ASSUME TypeOK, HandlerOK, StatusOK, UNCHANGED <<status, topic, decisions>>,
         event' \in {event, NoEvent} \/ event = NoEvent,
         stage' \in {"commitComplete", "commitReject"} => UNCHANGED <<stage, event>>
  PROVE  StatusOK'
<1>1. stage' \in {"commitComplete", "commitReject"} => status'[Txn(event')] = Verdict'
  BY DEF StatusOK, Verdict
<1>2. ASSUME NEW r \in Request PROVE AgreesOf(r)'
  <2>1. CASE event # NoEvent /\ Txn(event) = r
    <3>1. event \in topic /\ event \notin processed \ lost
      BY <2>1, HandledEvent DEF HandlerOK
    <3>2. ~Quiet(r)
      BY <2>1, <3>1, NotQuiet
    <3>3. ~Quiet(r)'
      <4>1. \/ ~(\A n \in Copies(r) : <<r, n>> \in processed \ lost)
        BY <2>1, <3>1 DEF TypeOK, Event, Txn, Copies
      <4>2. QED
        BY <4>1 DEF Quiet, Copies, decisions
    <3>4. QED
      BY <3>3 DEF AgreesOf
  <2>2. CASE event = NoEvent \/ Txn(event) # r
    <3>1. Quiet(r)' => Quiet(r)
      BY <2>2 DEF Quiet, Copies, decisions
    <3>2. QED
      BY <3>1 DEF StatusOK, AgreesOf, decisions
  <2>3. QED
    BY <2>1, <2>2
<1>3. QED
  BY <1>1, <1>2 DEF StatusOK

\* A status written for a transaction without events, or for the one in the
\* handler, leaves the quiet ones alone.
LEMMA StatusWritten ==
  ASSUME TypeOK, StatusOK, NEW r \in Request, ~Quiet(r)',
         \A q \in Request \ {r} : status'[q] = status[q],
         UNCHANGED <<topic, decisions, event>>,
         stage' \in {"commitComplete", "commitReject"} => status'[Txn(event)] = Verdict'
  PROVE  StatusOK'
<1>1. ASSUME NEW q \in Request PROVE AgreesOf(q)'
  <2>1. CASE q = r
    BY <2>1 DEF AgreesOf
  <2>2. CASE q # r
    BY <2>2 DEF StatusOK, AgreesOf, Quiet, Copies, decisions
  <2>3. QED
    BY <2>1, <2>2
<1>2. QED
  BY <1>1 DEF StatusOK

LEMMA RequestKeepsStatus ==
  ASSUME KeyInv, KeyInv', HandlerOK, StatusOK, NEW r \in Request,
         RequestStep(r) \/ RequestFails(r) \/ RequestCommitLost(r) \/ Relayed(r)
  PROVE  StatusOK'
<1>1. CASE UNCHANGED <<status, topic>>
  <2>1. UNCHANGED <<saga, decisions>>
    BY DEF RequestStep, Lookup, ValidateAccounts, Create, CommitRequest, RequestFails,
           RequestCommitLost, Relayed
  <2>2. QED
    BY <1>1, <2>1, StatusKept DEF saga, KeyInv
<1>2. CASE Create(r) /\ status' # status
  <2>1. status[r] = "none" /\ status' = [status EXCEPT ![r] = "pending"]
    BY <1>2 DEF Create, KeyTakenInTable, KeyTaken
  <2>2. UNCHANGED <<topic, saga, decisions>>
    BY <1>2 DEF Create, broker
  <2>3. Copies(r) = {}
    BY <2>1 DEF Copies, KeyInv, StoredOK, Txn
  <2>4. ~Quiet(r)'
    BY <2>2, <2>3 DEF Quiet, Copies
  <2>5. event # NoEvent => Txn(event) \in Request \ {r}
    BY <2>1, HandledEvent DEF KeyInv, StoredOK
  <2>6. stage \in {"commitComplete", "commitReject"} => event # NoEvent
    BY DEF KeyInv, TypeOK
  <2>7. \A q \in Request \ {r} : status'[q] = status[q]
    BY <2>1 DEF KeyInv, TypeOK
  <2>8. stage' \in {"commitComplete", "commitReject"} => status'[Txn(event)] = Verdict'
    BY <2>2, <2>5, <2>6, <2>7 DEF StatusOK, Verdict, saga
  <2>9. QED
    BY <2>2, <2>4, <2>7, <2>8, StatusWritten DEF KeyInv, saga
<1>3. CASE Relayed(r)
  <2>1. PICK n \in 1..MaxCopies : Copies(r) = 1..(n - 1) /\ topic' = topic \cup {<<r, n>>}
    BY <1>3 DEF Relayed
  <2>2. UNCHANGED <<status, saga, decisions>>
    BY <1>3 DEF Relayed
  <2>3. n \notin Copies(r)
    BY <2>1, TransactionAssumption
  <2>4. <<r, n>> \notin processed /\ n \in Copies(r)'
    BY <2>1, <2>3 DEF Copies, KeyInv, TypeOK
  <2>5. ~Quiet(r)'
    BY <2>2, <2>4 DEF Quiet, decisions
  <2>6. ASSUME NEW q \in Request PROVE AgreesOf(q)'
    <3>1. CASE q = r
      BY <2>5, <3>1 DEF AgreesOf
    <3>2. CASE q # r
      <4>1. Copies(q)' = Copies(q)
        BY <2>1, <3>2 DEF Copies
      <4>2. QED
        BY <2>2, <4>1 DEF StatusOK, AgreesOf, Quiet, decisions, saga
    <3>3. QED
      BY <3>1, <3>2
  <2>7. QED
    BY <2>2, <2>6 DEF StatusOK, Verdict, saga
<1>4. QED
  BY <1>1, <1>2, <1>3
  DEF RequestStep, Lookup, ValidateAccounts, Create, CommitRequest, RequestFails,
      RequestCommitLost, broker

\* The outcome announced by a COMMIT that is seen is what the status says.
LEMMA CommitKeepsStatus ==
  ASSUME KeyInv, HandlerOK, StatusOK, CommitOutcome
  PROVE  StatusOK'
<1> PICK e, r, row : e = event /\ r = Txn(event) /\ row = [verdict |-> Verdict, of |-> event]
  OBVIOUS
<1>1. /\ event # NoEvent /\ e \in Event /\ r \in Request /\ e = <<r, e[2]>>
      /\ status[r] = Verdict
  BY HandledEvent DEF KeyInv, TypeOK, CommitOutcome, StatusOK, Txn, Event
<1>2. /\ UNCHANGED <<status, topic, lost>> /\ event' = NoEvent /\ stage' = "idle"
      /\ processed' = processed \cup {e}
      /\ outcomes' = [outcomes EXCEPT ![r] = Append(outcomes[r], row)]
  BY DEF CommitOutcome, Return, Record
<1>3. outcomes[r] \in Seq(Outcome)
  BY <1>1 DEF KeyInv, TypeOK
<1>4. /\ outcomes'[r] = Append(outcomes[r], row)
      /\ \A q \in Request \ {r} : outcomes'[q] = outcomes[q]
  BY <1>1, <1>2 DEF KeyInv, TypeOK
<1>5. outcomes'[r] # <<>> /\ outcomes'[r][Len(outcomes'[r])].verdict = Verdict
  <2>1. row \in Outcome /\ row.verdict = Verdict
    BY <1>1 DEF Outcome, Verdict
  <2>2. /\ Len(Append(outcomes[r], row)) = Len(outcomes[r]) + 1
        /\ Append(outcomes[r], row)[Len(outcomes[r]) + 1] = row
        /\ Len(outcomes[r]) \in Nat
    BY <1>3, <2>1, AppendProperties
  <2>3. Len(Append(outcomes[r], row)) # 0 /\ Len(<<>>) = 0
    BY <2>2
  <2>4. QED
    BY <1>4, <2>1, <2>2, <2>3
<1>6. ASSUME NEW q \in Request PROVE AgreesOf(q)'
  <2>1. CASE q = r
    BY <1>1, <1>2, <1>5, <2>1 DEF AgreesOf
  <2>2. CASE q # r
    <3>1. Quiet(q)' => Quiet(q)
      <4>1. Copies(q)' = Copies(q) /\ Txn(event) # q
        BY <1>2, <2>2 DEF Copies
      <4>2. \A n : <<q, n>> \in processed' => <<q, n>> \in processed
        BY <1>1, <1>2, <2>2
      <4>3. QED
        BY <1>2, <4>1, <4>2 DEF Quiet
    <3>2. QED
      BY <1>2, <1>4, <2>2, <3>1 DEF StatusOK, AgreesOf
  <2>3. QED
    BY <2>1, <2>2
<1>7. QED
  BY <1>2, <1>6 DEF StatusOK

\* A COMMIT that is not seen may leave the status behind, but its transaction
\* is not quiet any more.
LEMMA LostCommitKeepsStatus ==
  ASSUME KeyInv, HandlerOK, StatusOK, SagaCommitLost
  PROVE  StatusOK'
<1> PICK e, r : e = event /\ r = Txn(event)
  OBVIOUS
<1>1. event # NoEvent /\ e \in topic /\ e \in Event /\ r \in Request /\ e = <<r, e[2]>>
  BY HandledEvent DEF KeyInv, TypeOK, SagaCommitLost, Txn, Event
<1>2. /\ UNCHANGED <<status, topic>> /\ processed' = processed \cup {e}
      /\ lost' = lost \cup {e} /\ event' \in {NoEvent, event}
      /\ stage' \in {"idle", "reject"}
  BY <1>1, HandlerThrows DEF SagaCommitLost, Record, broker, Throw, Return
<1>3. \A q \in Request \ {r} : outcomes'[q] = outcomes[q]
  BY <1>1 DEF SagaCommitLost, Record, KeyInv, TypeOK
<1>4. ~Quiet(r)'
  <2>1. e[2] \in Copies(r)' /\ <<r, e[2]>> \in lost'
    BY <1>1, <1>2 DEF Copies, Event
  <2>2. QED
    BY <2>1 DEF Quiet
<1>5. ASSUME NEW q \in Request PROVE AgreesOf(q)'
  <2>1. CASE q = r
    BY <1>4, <2>1 DEF AgreesOf
  <2>2. CASE q # r
    <3>1. Quiet(q)' => Quiet(q)
      BY <1>1, <1>2, <2>2 DEF Quiet, Copies
    <3>2. QED
      BY <1>2, <1>3, <2>2, <3>1 DEF StatusOK, AgreesOf
  <2>3. QED
    BY <2>1, <2>2
<1>6. QED
  BY <1>2, <1>5 DEF StatusOK

LEMMA StatusStep ==
  ASSUME KeyInv, KeyInv', HandlerOK, HandlerOK', StatusOK, [Next]_vars
  PROVE  StatusOK'
<1>1. ASSUME NEW r \in Request,
             RequestStep(r) \/ RequestFails(r) \/ RequestCommitLost(r) \/ Relayed(r)
      PROVE  StatusOK'
  BY <1>1, RequestKeepsStatus
<1>2. ASSUME NEW e \in topic, Deliver(e) PROVE StatusOK'
  <2>1. /\ UNCHANGED <<status, topic, decisions>> /\ event = NoEvent
        /\ stage' = "validate" \/ UNCHANGED <<stage, event>>
    BY <1>2 DEF Deliver, saga
  <2>2. QED
    BY <2>1, StatusKept DEF KeyInv
<1>3. CASE CommitOffsets \/ ValidateFunds
  <2>1. UNCHANGED <<status, topic, decisions, event>>
        /\ (UNCHANGED stage \/ stage' \in {"complete", "reject"})
    BY <1>3 DEF CommitOffsets, ValidateFunds, Stage, saga, broker
  <2>2. QED
    BY <2>1, StatusKept DEF KeyInv
<1>4. CASE Complete \/ Reject
  <2>1. event # NoEvent /\ Txn(event) \in Request /\ UNCHANGED <<topic, decisions, event>>
    BY <1>4, HandledEvent DEF Complete, Reject, UpdateStatus, Stage, KeyInv, TypeOK, broker
  <2>2. /\ \/ stage' = "commitComplete" /\ status' = [status EXCEPT ![Txn(event)] = "completed"]
           \/ stage' = "commitReject" /\ status' = [status EXCEPT ![Txn(event)] = "rejected"]
    BY <1>4 DEF Complete, Reject, UpdateStatus, Stage
  <2>3. /\ status'[Txn(event)] = Verdict'
        /\ \A q \in Request \ {Txn(event)} : status'[q] = status[q]
    BY <2>1, <2>2 DEF KeyInv, TypeOK, Verdict
  <2>4. ~Quiet(Txn(event))'
    BY <2>1 DEF Quiet
  <2>5. QED
    BY <2>1, <2>3, <2>4, StatusWritten DEF KeyInv
<1>5. CASE SagaFails \/ Crash
  <2>1. UNCHANGED <<status, topic, decisions>> /\ event' \in {event, NoEvent}
        /\ stage' \in {"idle", "reject"}
    BY <1>5, HandlerThrows DEF SagaFails, Crash, Throw, Return, broker, KeyInv
  <2>2. QED
    BY <2>1, StatusKept DEF KeyInv
<1>6. CASE UNCHANGED vars
  <2>1. UNCHANGED <<status, topic, decisions, event, stage>>
    BY <1>6 DEF vars, broker, saga
  <2>2. QED
    BY <2>1, StatusKept DEF KeyInv
<1>7. QED
  BY <1>1, <1>2, <1>3, <1>4, <1>5, <1>6, CommitKeepsStatus, LostCommitKeepsStatus
  DEF Next, HandlerStep

\* The status a client reads is the verdict of the last outcome announced, once
\* the events of the transaction are processed, though the status is written
\* outside the transaction that announces it; unless a COMMIT was not seen.
THEOREM StatusAgrees == Spec => []StatusFollowsOutcome
<1>1. Init => TypeOK /\ OutcomesOK /\ HandlerOK /\ StatusOK
  <2>1. Init => StatusOK
    BY DEF Init, StatusOK, AgreesOf, Quiet, Copies
  <2>2. QED
    BY <2>1, StoreInit, OutcomeInit DEF KeyInv
<1>2. KeyInv /\ OutcomesOK /\ HandlerOK /\ [Next]_vars => OutcomesOK' /\ HandlerOK'
  BY OutcomeStep DEF KeyInv
<1>3. KeyInv /\ KeyInv' /\ HandlerOK /\ HandlerOK' /\ StatusOK /\ [Next]_vars => StatusOK'
  BY StatusStep
<1>4. StatusOK => StatusFollowsOutcome
  BY DEF StatusOK, AgreesOf, Quiet, StatusFollowsOutcome
<1>5. QED
  BY <1>1, <1>2, <1>3, <1>4, StoreInvariance, PTL DEF Spec
=============================================================================
