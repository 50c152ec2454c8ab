------------------------- MODULE ExplanationsProofs -------------------------
(* Slots that do not leak and explanations that are true, for any number   *)
(* of transactions, events, requests, slots, attempts and faults.          *)
EXTENDS Explanations, FiniteSetTheorems, SequenceTheorems, TLAPS

CallType == [at : Places, of : Txn \cup {None}, says : Decided,
             mock : BOOLEAN, attempt : 0..MaxAttempts]
RowType == [of : Txn, says : Decided, mock : BOOLEAN]

\* The inputs and what transaction-service tells are in their range.
WorldOK ==
  /\ provider \in {"anthropic", "mock"}
  /\ words \in [Txn -> Texts]
  /\ outcome \in [Txn -> Decided \cup {"pending"}]
  /\ given \in [Txn -> SUBSET Decided]
  /\ news \in [Event -> [of : Txn, says : Decided] \cup {NoNews}]

\* It tells an outcome the transaction was given.
TellsOK ==
  /\ \A t \in Txn : outcome[t] # "pending" => outcome[t] \in given[t]
  /\ \A e \in Event : news[e].of \in Txn => news[e].says \in given[news[e].of]

\* Everything else but the slots is in its range.
RangesOK ==
  /\ explanations \in [Caller -> Seq(RowType)]
  /\ processed \subseteq Event
  /\ acked \subseteq processed
  /\ calls \in [Caller -> CallType]
  /\ cooling \in BOOLEAN
  /\ early \subseteq Request
  /\ unstored \subseteq Event
  /\ faults \in 0..MaxFaults

\* The slots taken are those of finitely many calls.
SlotsOK ==
  /\ IsFiniteSet(Holders)
  /\ running = Cardinality(Holders)
  /\ running <= MaxConcurrent

InHand == {"acquire", "calling", "backoff"}

\* What the call k of c knows by the place it has reached.
Knows(c, k) ==
  /\ k.at = "idle" => k = Idle
  /\ k.at = "fetch" => c \in Request /\ k.of \in Txn
  /\ k.at \in InHand \cup {"fetch"} => k.mock = FALSE
  /\ k.at \in InHand /\ k.of = None => c \in Request
  /\ k.at \in InHand /\ k.of # None => Truly(c, k.of, k.says, k.mock)
  /\ k.at = "store" => k.of \in Txn /\ Truly(c, k.of, k.says, k.mock)
  /\ k.at = "mark" => c \in Event
  /\ k.at = "backoff" => k.attempt < MaxAttempts

CallsOK == \A c \in Caller : Knows(c, calls[c])

RowsOK ==
  \A c \in Caller : \A i \in DOMAIN explanations[c] :
    LET row == explanations[c][i] IN Truly(c, row.of, row.says, row.mock)

\* An event was stored once for each fault, and once more when it is about to
\* be marked or is marked; then it was stored, or could not be.
CountOf(e) ==
  /\ e \in processed => At(e, "idle")
  /\ IF e \in processed \/ At(e, "mark")
     THEN /\ Len(explanations[e]) <= faults + 1
          /\ explanations[e] # <<>> \/ e \in unstored
     ELSE Len(explanations[e]) <= faults

CountOK == \A e \in Event : CountOf(e)

IInv == WorldOK /\ TellsOK /\ RangesOK /\ SlotsOK /\ CallsOK /\ RowsOK /\ CountOK

-----------------------------------------------------------------------------
(* What the invariant gives. *)

LEMMA GivesType == IInv => TypeOK
BY DEF IInv, WorldOK, RangesOK, SlotsOK, TypeOK, CallType, RowType

LEMMA GivesTruth == IInv => ExplainedTruly
<1> SUFFICES ASSUME IInv PROVE ExplainedTruly
  OBVIOUS
<1>1. \A e \in processed : explanations[e] # <<>> \/ e \in unstored
  BY DEF IInv, RangesOK, CountOK, CountOf
<1>2. ASSUME NEW e \in Event PROVE Len(explanations[e]) <= 1 + faults
  <2>1. faults \in Nat /\ e \in Caller
    BY ExplanationsAssumption DEF IInv, RangesOK, Caller
  <2>2. explanations[e] \in Seq(RowType)
    BY <2>1 DEF IInv, RangesOK
  <2>3. Len(explanations[e]) \in Nat
    BY <2>2
  <2>4. QED
    BY <2>1, <2>3 DEF IInv, CountOK, CountOf
<1>3. QED
  BY <1>1, <1>2 DEF ExplainedTruly, IInv, RowsOK

\* The call of an idle caller.
LEMMA IdleType == Idle \in CallType /\ Done \in CallType /\ Marking \in CallType
<1>1. 0 \in 0..MaxAttempts /\ "completed" \in Decided /\ None \in Txn \cup {None}
  BY ExplanationsAssumption DEF Decided
<1>2. \A place \in Places :
        [at |-> place, of |-> None, says |-> "completed", mock |-> FALSE, attempt |-> 0] \in CallType
  BY <1>1 DEF CallType
<1>3. {"idle", "done", "mark"} \subseteq Places
  BY DEF Places
<1>4. QED
  BY <1>2, <1>3 DEF Idle, Done, Marking

\* The call of a caller that starts one.
Fresh(place, t, says) ==
  [at |-> place, of |-> t, says |-> says, mock |-> FALSE, attempt |-> 0]

LEMMA FreshType ==
  \A place \in Places, t \in Txn \cup {None}, says \in Decided : \A k :
    k = Fresh(place, t, says) =>
      k \in CallType /\ k.at = place /\ k.of = t /\ k.says = says /\ k.mock = FALSE
<1>1. 0 \in 0..MaxAttempts /\ FALSE \in BOOLEAN
  BY ExplanationsAssumption
<1>2. QED
  BY <1>1 DEF CallType, Fresh

LEMMA IdlePlaces == Idle.at = "idle" /\ Done.at = "done" /\ Marking.at = "mark" /\ Idle.of = None
BY DEF Idle, Done, Marking

-----------------------------------------------------------------------------
(* The initial state. *)

LEMMA InitOK == Init => IInv
<1> SUFFICES ASSUME Init PROVE IInv
  OBVIOUS
<1>1. WorldOK
  BY DEF Init, WorldOK
<1>2. TellsOK
  BY ExplanationsAssumption DEF Init, TellsOK, NoNews
<1>3. RangesOK
  <2>1. calls \in [Caller -> CallType]
    BY IdleType DEF Init
  <2>2. explanations \in [Caller -> Seq(RowType)]
    BY DEF Init
  <2>3. faults \in 0..MaxFaults
    BY ExplanationsAssumption DEF Init
  <2>4. QED
    BY <2>1, <2>2, <2>3 DEF Init, RangesOK
<1>4. SlotsOK
  <2>1. Holders = {}
    BY IdlePlaces DEF Init, Holders
  <2>2. QED
    BY <2>1, FS_EmptySet, ExplanationsAssumption DEF Init, SlotsOK
<1>5. CallsOK
  BY IdlePlaces DEF Init, CallsOK, Knows, InHand
<1>6. RowsOK
  BY DEF Init, RowsOK
<1>7. CountOK
  BY IdlePlaces DEF Init, CountOK, CountOf, At, Caller
<1>8. QED
  BY <1>1, <1>2, <1>3, <1>4, <1>5, <1>6, <1>7 DEF IInv

-----------------------------------------------------------------------------
(* Slots *)

Holds(place) == place \in {"calling", "backoff"}

\* When one caller moves, the slots taken change with it.
LEMMA SlotsStep ==
  ASSUME SlotsOK, NEW c \in Caller,
         \A d \in Caller \ {c} : calls'[d] = calls[d],
         \/ (Holds(calls'[c].at) <=> Holds(calls[c].at)) /\ running' = running
         \/ /\ Holds(calls'[c].at) /\ ~Holds(calls[c].at)
            /\ running' = running + 1 /\ running < MaxConcurrent
         \/ ~Holds(calls'[c].at) /\ Holds(calls[c].at) /\ running' = running - 1
  PROVE  SlotsOK'
<1>1. Holders' = IF Holds(calls'[c].at) THEN Holders \cup {c} ELSE Holders \ {c}
  BY DEF Holders, Holds
<1>2. c \in Holders <=> Holds(calls[c].at)
  BY DEF Holders, Holds
<1>3. /\ IsFiniteSet(Holders) /\ running = Cardinality(Holders) /\ running <= MaxConcurrent
      /\ running \in Nat /\ MaxConcurrent \in Nat
  BY FS_CardinalityType, ExplanationsAssumption DEF SlotsOK
<1>4. CASE Holds(calls'[c].at)
  <2>1. /\ IsFiniteSet(Holders')
        /\ Cardinality(Holders') = IF c \in Holders THEN Cardinality(Holders)
                                                    ELSE Cardinality(Holders) + 1
    BY <1>1, <1>3, <1>4, FS_AddElement
  <2>2. QED
    BY <1>2, <1>3, <1>4, <2>1 DEF SlotsOK
<1>5. CASE ~Holds(calls'[c].at)
  <2>1. /\ IsFiniteSet(Holders')
        /\ Cardinality(Holders') = IF c \in Holders THEN Cardinality(Holders) - 1
                                                    ELSE Cardinality(Holders)
    BY <1>1, <1>3, <1>5, FS_RemoveElement
  <2>2. QED
    BY <1>2, <1>3, <1>5, <2>1 DEF SlotsOK
<1>6. QED
  BY <1>4, <1>5

LEMMA SlotsKept ==
  ASSUME SlotsOK, UNCHANGED <<calls, running>>
  PROVE  SlotsOK'
BY DEF SlotsOK, Holders

-----------------------------------------------------------------------------
(* What is known *)

\* What is known is never taken back.
Grows ==
  /\ words' = words
  /\ \A t \in Txn : given[t] \subseteq given'[t]
  /\ \A e \in Event : news[e].of \in Txn => news'[e] = news[e]
  /\ early \subseteq early'

LEMMA TrulyKept ==
  ASSUME Grows, NEW c, NEW t \in Txn, NEW says, NEW mock, Truly(c, t, says, mock)
  PROVE  Truly(c, t, says, mock)'
BY DEF Grows, Truly

LEMMA WorldGrows ==
  ASSUME UNCHANGED world, early \subseteq early'
  PROVE  Grows
BY DEF world, inputs, Grows

LEMMA WorldKept ==
  ASSUME WorldOK, TellsOK, UNCHANGED world
  PROVE  WorldOK' /\ TellsOK'
BY DEF WorldOK, TellsOK, world, inputs

LEMMA KnowsKept ==
  ASSUME Grows, NEW c, NEW k \in CallType, Knows(c, k)
  PROVE  Knows(c, k)'
<1>1. ASSUME k.of \in Txn, Truly(c, k.of, k.says, k.mock)
      PROVE  Truly(c, k.of, k.says, k.mock)'
  BY <1>1, TrulyKept
<1>2. k.of \in Txn \/ k.of = None
  BY DEF CallType
<1>3. QED
  BY <1>1, <1>2 DEF Knows

\* When one caller moves to where it may be, the others know what they knew.
LEMMA CallsStep ==
  ASSUME CallsOK, RangesOK, Grows, NEW c \in Caller, NEW k \in CallType, Knows(c, k)',
         calls' = [calls EXCEPT ![c] = k]
  PROVE  CallsOK'
<1> SUFFICES ASSUME NEW d \in Caller PROVE Knows(d, calls[d])'
  BY DEF CallsOK
<1>1. PICK now \in CallType : now = calls'[d] /\ (d # c => now = calls[d]) /\ (d = c => now = k)
  BY DEF RangesOK
<1>2. Knows(d, now)'
  BY <1>1, KnowsKept DEF CallsOK
<1>3. QED
  BY <1>1, <1>2 DEF Knows

LEMMA CallsKept ==
  ASSUME CallsOK, RangesOK, Grows, UNCHANGED calls
  PROVE  CallsOK'
<1> SUFFICES ASSUME NEW d \in Caller PROVE Knows(d, calls[d])'
  BY DEF CallsOK
<1>1. PICK now \in CallType : now = calls'[d] /\ now = calls[d]
  BY DEF RangesOK
<1>2. Knows(d, now)'
  BY <1>1, KnowsKept DEF CallsOK
<1>3. QED
  BY <1>1, <1>2 DEF Knows

LEMMA RowType1 ==
  ASSUME RangesOK, NEW c \in Caller
  PROVE  /\ explanations[c] \in Seq(RowType) /\ Len(explanations[c]) \in Nat
         /\ DOMAIN explanations[c] = 1..Len(explanations[c])
         /\ \A i \in DOMAIN explanations[c] : explanations[c][i] \in RowType
<1>1. explanations[c] \in Seq(RowType)
  BY DEF RangesOK
<1>2. QED
  BY <1>1

LEMMA RowsKept ==
  ASSUME RowsOK, RangesOK, Grows, UNCHANGED explanations
  PROVE  RowsOK'
<1> SUFFICES ASSUME NEW c \in Caller, NEW i \in DOMAIN explanations'[c]
             PROVE  LET row == explanations[c][i] IN Truly(c, row.of, row.says, row.mock)'
  BY DEF RowsOK
<1>1. i \in DOMAIN explanations[c] /\ explanations[c][i] \in RowType
  BY RowType1
<1>2. PICK row \in RowType : row = explanations[c][i] /\ row = explanations'[c][i]
  BY <1>1
<1>3. Truly(c, row.of, row.says, row.mock)
  BY <1>1, <1>2 DEF RowsOK
<1>4. Truly(c, row.of, row.says, row.mock)'
  BY <1>3, TrulyKept DEF RowType
<1>5. QED
  BY <1>2, <1>4 DEF Truly

-----------------------------------------------------------------------------
(* Rows *)

\* A step that stores nothing and leaves the event's own call alone.
LEMMA CountFrame ==
  ASSUME RangesOK, NEW e \in Event, CountOf(e), explanations'[e] = explanations[e],
         calls'[e] = calls[e], faults' \in {faults, faults + 1},
         e \in processed' <=> e \in processed, unstored \subseteq unstored'
  PROVE  CountOf(e)'
<1>1. Len(explanations[e]) \in Nat /\ faults \in Nat
  BY RowType1, ExplanationsAssumption DEF RangesOK, Caller
<1>2. Len(explanations'[e]) = Len(explanations[e])
  OBVIOUS
<1>3. QED
  BY <1>1, <1>2 DEF CountOf, At

\* A step that stores nothing, where the caller that moves is not marked and
\* neither comes to be marked nor was about to be.
LEMMA CountKept ==
  ASSUME RangesOK, CountOK, UNCHANGED <<explanations, processed, unstored>>,
         NEW c \in Caller, \A d \in Caller \ {c} : calls'[d] = calls[d],
         c \in Event => c \notin processed /\ ~At(c, "mark") /\ ~At(c, "mark")',
         faults' \in {faults, faults + 1}
  PROVE  CountOK'
<1> SUFFICES ASSUME NEW e \in Event PROVE CountOf(e)'
  BY DEF CountOK
<1>1. CountOf(e) /\ explanations'[e] = explanations[e]
  BY DEF CountOK
<1>2. CASE e # c
  <2>1. calls'[e] = calls[e]
    BY <1>2 DEF Caller
  <2>2. QED
    BY <1>1, <2>1, CountFrame
<1>3. CASE e = c
  <2>1. Len(explanations[e]) \in Nat /\ faults \in Nat
    BY RowType1, ExplanationsAssumption DEF RangesOK, Caller
  <2>2. Len(explanations'[e]) = Len(explanations[e])
    BY <1>1
  <2>3. Len(explanations[e]) <= faults
    BY <1>1, <1>3 DEF CountOf
  <2>4. QED
    BY <1>3, <2>1, <2>2, <2>3 DEF CountOf
<1>4. QED
  BY <1>2, <1>3

LEMMA FaultCounted ==
  ASSUME RangesOK, Fault
  PROVE  faults' \in 0..MaxFaults /\ faults' = faults + 1
BY ExplanationsAssumption DEF Fault, RangesOK

-----------------------------------------------------------------------------
(* The steps *)

\* A call comes to hold a slot, or gives it back, with the slots counted.
SlotMoves(before, after) ==
  \/ (Holds(after.at) <=> Holds(before.at)) /\ running' = running
  \/ Holds(after.at) /\ ~Holds(before.at) /\ running' = running + 1 /\ running < MaxConcurrent
  \/ ~Holds(after.at) /\ Holds(before.at) /\ running' = running - 1

\* The caller c moves, and nothing is stored or marked for it.
LEMMA CallerMoves ==
  ASSUME IInv, NEW c \in Caller, NEW k \in CallType, calls' = [calls EXCEPT ![c] = k],
         SlotMoves(calls[c], k),
         UNCHANGED <<world, tables, unstored>>, acked' = acked,
         cooling' \in BOOLEAN, early \subseteq early', early' \subseteq Request,
         faults' = faults \/ Fault,
         Knows(c, k)', c \in Event => c \notin processed /\ ~At(c, "mark") /\ k.at # "mark"
  PROVE  IInv'
<1>1. calls'[c] = k /\ \A d \in Caller \ {c} : calls'[d] = calls[d]
  BY DEF IInv, RangesOK
<1>2. faults' \in 0..MaxFaults /\ faults' \in {faults, faults + 1}
  BY FaultCounted DEF IInv, RangesOK
<1>3. calls' \in [Caller -> CallType]
  BY DEF IInv, RangesOK
<1>4. Grows
  BY WorldGrows
<1>5. WorldOK' /\ TellsOK'
  BY WorldKept DEF IInv
<1>6. RangesOK'
  BY <1>2, <1>3 DEF IInv, RangesOK, tables
<1>7. SlotsOK'
  BY <1>1, SlotsStep DEF IInv, SlotMoves
<1>8. CallsOK'
  BY <1>4, CallsStep DEF IInv
<1>9. RowsOK'
  BY <1>4, RowsKept DEF IInv, tables
<1>10. CountOK'
  <2>1. ~At(c, "mark")' <=> k.at # "mark"
    BY <1>1 DEF At
  <2>2. QED
    BY <1>1, <1>2, <2>1, CountKept DEF IInv, tables
<1>11. QED
  BY <1>5, <1>6, <1>7, <1>8, <1>9, <1>10 DEF IInv

\* What each caller is, and what is known of its call.
LEMMA CallerIs ==
  ASSUME IInv, NEW c \in Caller
  PROVE  /\ calls[c] \in CallType /\ Knows(c, calls[c])
         /\ c \in Event => c \notin Request
         /\ c \in Request => c \notin Event
         /\ c \in Event /\ calls[c].at # "idle" => c \notin processed
         /\ acked \subseteq processed /\ early \subseteq Request /\ cooling \in BOOLEAN
<1>1. calls[c] \in CallType /\ Knows(c, calls[c]) /\ (c \in Event => CountOf(c))
  BY DEF IInv, RangesOK, CallsOK, CountOK
<1>2. QED
  BY <1>1, ExplanationsAssumption DEF IInv, RangesOK, CountOf, At

\* A decided outcome is a verdict, and the prompt tells it.
LEMMA PromptTells ==
  \A status \in Decided \cup {"pending"} :
    /\ Prompt(status) \in Decided
    /\ status \in Decided => Prompt(status) = status
    /\ status = "pending" => Prompt(status) = "completed"
BY DEF Prompt, Decided

LEMMA ConsumeOK ==
  ASSUME IInv, NEW e \in Event, Consume(e)
  PROVE  IInv'
<1>1. CASE e \in processed
  <2>1. acked' \subseteq processed
    BY <1>1 DEF Consume, IInv, RangesOK
  <2>2. UNCHANGED <<world, tables, calls, limiter, history, faults>>
    BY <1>1 DEF Consume
  <2>3. RangesOK'
    BY <2>1, <2>2 DEF IInv, RangesOK, tables, limiter, history
  <2>4. Grows
    BY <2>2, WorldGrows DEF history
  <2>5. SlotsOK' /\ RowsOK' /\ CallsOK'
    BY <2>2, <2>4, SlotsKept, RowsKept, CallsKept DEF IInv, limiter, tables
  <2>6. CountOK'
    BY <2>2 DEF IInv, CountOK, CountOf, At, tables, history
  <2>7. WorldOK' /\ TellsOK'
    BY <2>2, WorldKept DEF IInv
  <2>8. QED
    BY <2>3, <2>5, <2>6, <2>7 DEF IInv
<1>2. CASE e \notin processed
  <2>0. PICK k : k = [Idle EXCEPT !.at = "acquire", !.of = news[e].of,
                                  !.says = Prompt(news[e].says)]
    OBVIOUS
  <2>1. e \in Caller /\ At(e, "idle") /\ news[e] \in [of : Txn, says : Decided]
    BY DEF Consume, Caller, IInv, WorldOK
  <2>2. /\ k \in CallType /\ k.at = "acquire" /\ k.of = news[e].of /\ k.mock = FALSE
        /\ k.says = news[e].says
    <3>1. /\ Prompt(news[e].says) = news[e].says /\ news[e].says \in Decided
          /\ news[e].of \in Txn \cup {None} /\ "acquire" \in Places
      BY <2>1, PromptTells DEF Places
    <3>2. k = Fresh("acquire", news[e].of, Prompt(news[e].says))
      BY <2>0 DEF Idle, Fresh
    <3>3. QED
      BY <3>1, <3>2, FreshType
  <2>3. calls' = [calls EXCEPT ![e] = k]
    BY <1>2, <2>0 DEF Consume
  <2>4. UNCHANGED <<world, tables, acked, limiter, history, faults>>
    BY <1>2 DEF Consume
  <2>5. k.of \in Txn /\ k.of # None
    BY <2>1, <2>2, ExplanationsAssumption
  <2>6. e \notin Request
    BY <2>1, CallerIs
  <2>7. Knows(e, k)
    BY <2>2, <2>5, <2>6 DEF Knows, Truly, InHand
  <2>8. Knows(e, k)'
    BY <2>2, <2>4, <2>7, WorldGrows, KnowsKept DEF history
  <2>9. SlotMoves(calls[e], k) /\ k.at # "mark" /\ ~At(e, "mark")
    BY <2>1, <2>2, <2>4 DEF SlotMoves, Holds, At, limiter
  <2>10. QED
    BY <1>2, <2>1, <2>2, <2>3, <2>4, <2>8, <2>9, CallerMoves, CallerIs DEF limiter, history
<1>3. QED
  BY <1>1, <1>2

\* A request that does not hold a slot moves, with what it knows.
LEMMA RequestMoves ==
  ASSUME IInv, NEW r \in Request, NEW k \in CallType, calls' = [calls EXCEPT ![r] = k],
         calls[r].at \in {"idle", "fetch"}, k.at \in {"fetch", "acquire", "done"},
         UNCHANGED <<world, tables, acked, limiter, unstored>>, faults' = faults \/ Fault,
         early \subseteq early', early' \subseteq Request, Knows(r, k)'
  PROVE  IInv'
<1>1. r \in Caller /\ r \notin Event /\ cooling \in BOOLEAN
  BY CallerIs DEF Caller
<1>2. SlotMoves(calls[r], k)
  BY DEF SlotMoves, Holds, limiter
<1>3. QED
  BY <1>1, <1>2, CallerMoves DEF limiter

LEMMA LookOK ==
  ASSUME IInv, NEW r \in Request, NEW t \in Txn, Look(r, t)
  PROVE  IInv'
<1>1. r \in Caller /\ At(r, "idle") /\ early \subseteq Request
  BY CallerIs DEF Look, Caller
<1>2. PICK k : k = IF RowsOf(t) # {} THEN Done ELSE [Idle EXCEPT !.at = "fetch", !.of = t]
  OBVIOUS
<1>3. ASSUME NEW f, f = [Idle EXCEPT !.at = "fetch", !.of = t]
      PROVE  f \in CallType /\ f.at = "fetch" /\ f.of = t /\ f.mock = FALSE
  <2>1. f = Fresh("fetch", t, "completed")
    BY <1>3 DEF Idle, Fresh
  <2>2. "fetch" \in Places /\ "completed" \in Decided
    BY DEF Places, Decided
  <2>3. QED
    BY <2>1, <2>2, FreshType
<1>4. /\ k \in CallType /\ k.at \in {"done", "fetch"}
      /\ k.at = "fetch" => k.of = t /\ k.mock = FALSE
  BY <1>2, <1>3, IdleType, IdlePlaces
<1>5. calls' = [calls EXCEPT ![r] = k]
  BY <1>2 DEF Look
<1>6. UNCHANGED <<world, tables, acked, limiter, history, faults>>
  BY DEF Look
<1>7. Knows(r, k)'
  BY <1>4 DEF Knows, InHand
<1>8. QED
  BY <1>1, <1>4, <1>5, <1>6, <1>7, RequestMoves DEF At, history

LEMMA FetchOK ==
  ASSUME IInv, NEW r \in Request, Fetch(r)
  PROVE  IInv'
<1>1. /\ r \in Caller /\ r \notin Event /\ At(r, "fetch") /\ calls[r] \in CallType
      /\ calls[r].of \in Txn /\ early \subseteq Request
  BY CallerIs DEF Fetch, Caller, Knows, At
<1>2. PICK status \in Decided \cup {"pending"} : status = outcome[calls[r].of]
  BY <1>1 DEF IInv, WorldOK
<1>3. PICK k : k = [calls[r] EXCEPT !.at = "acquire", !.says = Prompt(status)]
  OBVIOUS
<1>4. /\ k \in CallType /\ k.at = "acquire" /\ k.of = calls[r].of /\ k.says = Prompt(status)
      /\ k.mock = calls[r].mock
  BY <1>1, <1>2, <1>3, PromptTells DEF CallType, Places
<1>5. calls' = [calls EXCEPT ![r] = k]
  BY <1>2, <1>3 DEF Fetch
<1>6. early' = IF status = "pending" THEN early \cup {r} ELSE early
  BY <1>2 DEF Fetch
<1>7. UNCHANGED <<world, tables, acked, limiter, unstored, faults>>
  BY DEF Fetch
<1>8. early \subseteq early' /\ early' \subseteq Request
  BY <1>1, <1>6
<1>9. k.mock = FALSE
  BY <1>1, <1>4, CallerIs DEF Knows, At
<1>10. \/ k.says \in given'[k.of]
       \/ r \in early' /\ k.says = "completed"
  <2>1. given'[k.of] = given[calls[r].of]
    BY <1>4, <1>7 DEF world
  <2>2. CASE status = "pending"
    BY <1>4, <1>6, <2>2, PromptTells
  <2>3. CASE status # "pending"
    <3>1. status \in Decided /\ status \in given[calls[r].of]
      BY <1>1, <1>2, <2>3 DEF IInv, TellsOK
    <3>2. QED
      BY <1>4, <2>1, <3>1, PromptTells
  <2>4. QED
    BY <2>2, <2>3
<1>11. Knows(r, k)'
  BY <1>1, <1>4, <1>9, <1>10 DEF Knows, Truly, InHand
<1>12. QED
  BY <1>1, <1>4, <1>5, <1>7, <1>8, <1>11, RequestMoves DEF At

LEMMA AskOK ==
  ASSUME IInv, NEW r \in Request, FetchFails(r) \/ Summarize(r) \/ AnalyzeRisk(r)
  PROVE  IInv'
<1>1. r \in Caller /\ early \subseteq Request /\ calls[r].at \in {"idle", "fetch"}
  BY CallerIs DEF Caller, FetchFails, Summarize, AnalyzeRisk, At
<1>2. Done \in CallType /\ Done.at = "done" /\ Knows(r, Done)'
  BY IdleType, IdlePlaces DEF Knows, InHand
<1>3. UNCHANGED <<world, tables, acked, limiter, history>> /\ (faults' = faults \/ Fault)
  BY DEF FetchFails, Summarize, AnalyzeRisk
<1>4. CASE Leave(r, Done)
  BY <1>1, <1>2, <1>3, <1>4, RequestMoves DEF Leave, history
<1>5. CASE At(r, "idle") /\ Goto(r, "acquire")
  <2>1. PICK k : k = [calls[r] EXCEPT !.at = "acquire"]
    OBVIOUS
  <2>2. calls[r] = Idle
    BY <1>1, <1>5, CallerIs DEF Knows, At
  <2>3. k \in CallType /\ k.at = "acquire" /\ k.of = None /\ k.mock = FALSE
    <3>1. k = Fresh("acquire", None, "completed")
      <4>1. k = [Idle EXCEPT !.at = "acquire"]
        BY <2>1, <2>2
      <4>2. QED
        BY <4>1 DEF Idle, Fresh
    <3>2. "acquire" \in Places /\ "completed" \in Decided
      BY DEF Places, Decided
    <3>3. QED
      BY <3>1, <3>2, FreshType
  <2>4. Knows(r, k)'
    BY <2>3 DEF Knows, InHand
  <2>5. QED
    BY <1>1, <1>3, <1>5, <2>1, <2>3, <2>4, RequestMoves DEF Goto, history
<1>6. QED
  BY <1>4, <1>5 DEF FetchFails, Summarize, AnalyzeRisk

\* A call in the hands of the provider, or leaving it with its answer.
LEMMA CallGoes ==
  ASSUME IInv, NEW c \in Caller, NEW k \in CallType, calls' = [calls EXCEPT ![c] = k],
         calls[c].at \in InHand, k.at # "mark", SlotMoves(calls[c], k), Knows(c, k),
         UNCHANGED <<world, tables, acked, history, faults>>, cooling' \in BOOLEAN
  PROVE  IInv'
<1>1. Knows(c, k)'
  BY WorldGrows, KnowsKept DEF history
<1>2. calls[c].at \notin {"idle", "mark"}
  BY DEF InHand
<1>3. QED
  BY <1>1, <1>2, CallerMoves, CallerIs DEF At, history

\* A call that stays in the hands of the provider knows what it knew.
LEMMA StillKnows ==
  ASSUME NEW c, NEW k, NEW next, Knows(c, k), k.at \in InHand, next.at \in InHand,
         next.of = k.of, next.says = k.says, next.mock = k.mock,
         next.at = "backoff" => next.attempt < MaxAttempts
  PROVE  Knows(c, next)
BY DEF Knows, InHand

\* What the caller does with the answer, when it is a true one.
LEMMA AnsweredOK ==
  ASSUME IInv, NEW c \in Caller, NEW says, NEW mock \in BOOLEAN, Answered(c, says, mock),
         calls[c].at \in {"acquire", "calling"},
         calls[c].of # None => says \in Decided /\ Truly(c, calls[c].of, says, mock),
         \/ At(c, "calling") /\ Release
         \/ At(c, "acquire") /\ UNCHANGED running,
         UNCHANGED <<world, tables, acked, cooling, history, faults>>
  PROVE  IInv'
<1>1. calls[c] \in CallType /\ cooling \in BOOLEAN /\ calls[c].at \in InHand
  BY CallerIs DEF InHand
<1>2. ASSUME NEW k \in CallType, k.at \in {"done", "store"} PROVE SlotMoves(calls[c], k)
  BY <1>2 DEF SlotMoves, Holds, At, Release
<1>3. CASE calls[c].of = None
  <2>1. calls' = [calls EXCEPT ![c] = Done]
    BY <1>3 DEF Answered, Leave
  <2>2. Knows(c, Done)
    BY IdlePlaces DEF Knows, InHand
  <2>3. QED
    BY <1>1, <1>2, <2>1, <2>2, CallGoes, IdleType, IdlePlaces
<1>4. CASE calls[c].of # None
  <2>1. PICK k : k = [calls[c] EXCEPT !.at = "store", !.says = says, !.mock = mock, !.attempt = 0]
    OBVIOUS
  <2>2. 0 \in 0..MaxAttempts /\ "store" \in Places /\ says \in Decided
    BY <1>4, ExplanationsAssumption DEF Places
  <2>3. k \in CallType /\ k.at = "store" /\ k.of = calls[c].of /\ k.says = says /\ k.mock = mock
    BY <1>1, <2>1, <2>2 DEF CallType
  <2>4. calls' = [calls EXCEPT ![c] = k]
    BY <1>4, <2>1 DEF Answered
  <2>5. k.of \in Txn
    BY <1>1, <1>4, <2>3 DEF CallType
  <2>6. Truly(c, k.of, k.says, k.mock)
    BY <1>4, <2>3
  <2>7. Knows(c, k)
    BY <2>3, <2>5, <2>6 DEF Knows, InHand
  <2>8. QED
    BY <1>1, <1>2, <2>3, <2>4, <2>7, CallGoes
<1>5. QED
  BY <1>3, <1>4

\* The mock says rejected only of what was rejected, or when it is misled.
LEMMA MockTruly ==
  ASSUME IInv, NEW c \in Caller, calls[c].at \in InHand, calls[c].of # None
  PROVE  MockSays(c) \in Decided /\ Truly(c, calls[c].of, MockSays(c), TRUE)
<1>1. PICK t \in Txn : t = calls[c].of
  BY CallerIs DEF CallType
<1>2. Truly(c, t, calls[c].says, FALSE) /\ calls[c].says \in Decided
  BY <1>1, CallerIs DEF Knows, CallType
<1>3. MockSays(c) \in Decided
  BY DEF MockSays, Decided
<1>4. c \in Event => news[c].of = t
  BY <1>2 DEF Truly
<1>5. ASSUME calls[c].says = "rejected" PROVE "rejected" \in given[t]
  <2>1. CASE c \in Event /\ news[c].says = "rejected"
    BY <1>4, <2>1 DEF IInv, TellsOK
  <2>2. QED
    BY <1>2, <1>5, <2>1 DEF Truly
<1>6. ASSUME calls[c].says # "rejected", MockSays(c) = "rejected"
      PROVE  c \in Request /\ "description" \in words[t]
  BY <1>1, <1>6 DEF MockSays
<1>7. QED
  BY <1>1, <1>3, <1>4, <1>5, <1>6 DEF Truly

LEMMA ProviderOK ==
  ASSUME IInv, NEW c \in Caller,
         AskMock(c) \/ Acquire(c) \/ CallSucceeds(c) \/ CallFails(c) \/ Retry(c)
  PROVE  IInv'
<1>1. calls[c] \in CallType /\ Knows(c, calls[c]) /\ cooling \in BOOLEAN
  BY CallerIs
<1>2. CASE AskMock(c)
  <2>1. Answered(c, MockSays(c), TRUE) /\ calls[c].at = "acquire"
    BY <1>2 DEF AskMock, MockAnswers, At
  <2>2. UNCHANGED <<world, tables, acked, running, cooling, history, faults>>
    BY <1>2 DEF AskMock, limiter
  <2>3. PICK says : says = MockSays(c)
    OBVIOUS
  <2>4. calls[c].of # None => says \in Decided /\ Truly(c, calls[c].of, says, TRUE)
    BY <2>1, <2>3, MockTruly DEF InHand
  <2>5. QED
    BY <2>1, <2>2, <2>3, <2>4, AnsweredOK DEF At
<1>3. CASE Acquire(c)
  <2>1. PICK k : k = [calls[c] EXCEPT !.at = "calling", !.attempt = 1]
    OBVIOUS
  <2>2. 1 \in 0..MaxAttempts /\ "calling" \in Places
    BY ExplanationsAssumption DEF Places
  <2>3. /\ k \in CallType /\ k.at = "calling" /\ k.of = calls[c].of
        /\ k.says = calls[c].says /\ k.mock = calls[c].mock
    BY <1>1, <2>1, <2>2 DEF CallType
  <2>4. /\ calls' = [calls EXCEPT ![c] = k] /\ running' = running + 1
        /\ running < MaxConcurrent /\ calls[c].at = "acquire"
    BY <1>3, <2>1 DEF Acquire, At
  <2>5. UNCHANGED <<world, tables, acked, history, faults>> /\ cooling' \in BOOLEAN
    BY <1>3 DEF Acquire
  <2>6. SlotMoves(calls[c], k)
    BY <2>3, <2>4 DEF SlotMoves, Holds
  <2>7. Knows(c, k)
    BY <1>1, <2>3, <2>4, StillKnows DEF InHand
  <2>8. QED
    BY <2>3, <2>4, <2>5, <2>6, <2>7, CallGoes DEF InHand
<1>4. CASE CallSucceeds(c)
  <2>1. calls[c].at = "calling" /\ Release /\ Answered(c, calls[c].says, FALSE)
    BY <1>4 DEF CallSucceeds, At
  <2>2. UNCHANGED <<world, tables, acked, cooling, history, faults>>
    BY <1>4 DEF CallSucceeds
  <2>3. PICK says : says = calls[c].says
    OBVIOUS
  <2>4. calls[c].of # None => says \in Decided /\ Truly(c, calls[c].of, says, FALSE)
    BY <1>1, <2>1, <2>3 DEF Knows, InHand, CallType
  <2>5. QED
    BY <2>1, <2>2, <2>3, <2>4, AnsweredOK DEF At
<1>5. CASE CallFails(c) /\ LastAttempt(c)
  <2>1. calls[c].at = "calling" /\ Release /\ Answered(c, MockSays(c), TRUE)
    BY <1>5 DEF CallFails, MockAnswers, At
  <2>2. UNCHANGED <<world, tables, acked, cooling, history, faults>>
    BY <1>5 DEF CallFails
  <2>3. PICK says : says = MockSays(c)
    OBVIOUS
  <2>4. calls[c].of # None => says \in Decided /\ Truly(c, calls[c].of, says, TRUE)
    BY <2>1, <2>3, MockTruly DEF InHand
  <2>5. QED
    BY <2>1, <2>2, <2>3, <2>4, AnsweredOK DEF At
<1>6. CASE CallFails(c) /\ ~LastAttempt(c)
  <2>1. PICK k : k = [calls[c] EXCEPT !.at = "backoff"]
    OBVIOUS
  <2>2. /\ k \in CallType /\ k.at = "backoff" /\ k.of = calls[c].of /\ k.says = calls[c].says
        /\ k.mock = calls[c].mock /\ k.attempt = calls[c].attempt
    BY <1>1, <2>1 DEF CallType, Places
  <2>3. /\ calls' = [calls EXCEPT ![c] = k] /\ UNCHANGED running /\ calls[c].at = "calling"
    BY <1>6, <2>1 DEF CallFails, Goto, At
  <2>4. UNCHANGED <<world, tables, acked, cooling, history, faults>>
    BY <1>6 DEF CallFails
  <2>5. k.attempt < MaxAttempts
    BY <1>1, <1>6, <2>2, ExplanationsAssumption DEF LastAttempt, CallType
  <2>6. SlotMoves(calls[c], k)
    BY <2>2, <2>3 DEF SlotMoves, Holds
  <2>7. Knows(c, k)
    BY <1>1, <2>2, <2>3, <2>5, StillKnows DEF InHand
  <2>8. QED
    BY <1>1, <2>2, <2>3, <2>4, <2>6, <2>7, CallGoes DEF InHand
<1>7. CASE Retry(c)
  <2>1. PICK k : k = [calls[c] EXCEPT !.at = "calling", !.attempt = @ + 1]
    OBVIOUS
  <2>2. calls[c].attempt < MaxAttempts /\ calls[c].at = "backoff"
    BY <1>1, <1>7 DEF Retry, Knows, At
  <2>3. calls[c].attempt + 1 \in 0..MaxAttempts /\ "calling" \in Places
    BY <1>1, <2>2, ExplanationsAssumption DEF Places, CallType
  <2>4. /\ k \in CallType /\ k.at = "calling" /\ k.of = calls[c].of
        /\ k.says = calls[c].says /\ k.mock = calls[c].mock
    BY <1>1, <2>1, <2>3 DEF CallType
  <2>5. calls' = [calls EXCEPT ![c] = k]
    BY <1>7, <2>1 DEF Retry
  <2>6. UNCHANGED <<world, tables, acked, running, cooling, history, faults>>
    BY <1>7 DEF Retry, limiter
  <2>7. SlotMoves(calls[c], k)
    BY <2>2, <2>4, <2>6 DEF SlotMoves, Holds
  <2>8. Knows(c, k)
    BY <1>1, <2>2, <2>4, StillKnows DEF InHand
  <2>9. QED
    BY <1>1, <2>2, <2>4, <2>5, <2>6, <2>7, <2>8, CallGoes DEF InHand
<1>8. QED
  BY <1>2, <1>3, <1>4, <1>5, <1>6, <1>7

-----------------------------------------------------------------------------
(* Storing and marking *)

\* Whoever stores, a row is added for it, or the failure is noted.
LEMMA StoreOK ==
  ASSUME IInv, NEW c \in Caller, Store(c) \/ StoreFails(c)
  PROVE  IInv'
<1>1. /\ At(c, "store") /\ calls[c] \in CallType /\ (c \in Event => c \notin processed)
      /\ calls[c].of \in Txn /\ Truly(c, calls[c].of, calls[c].says, calls[c].mock)
  BY CallerIs DEF Store, StoreFails, Knows, At
<1>2. PICK row : row = [of |-> calls[c].of, says |-> calls[c].says, mock |-> calls[c].mock]
  OBVIOUS
<1>3. row \in RowType /\ Truly(c, row.of, row.says, row.mock)
  BY <1>1, <1>2 DEF RowType, CallType
<1>4. PICK k : k = IF c \in Event THEN Marking ELSE Done
  OBVIOUS
<1>5. k \in CallType /\ k.at = (IF c \in Event THEN "mark" ELSE "done")
  BY <1>4, IdleType, IdlePlaces
<1>6. calls' = [calls EXCEPT ![c] = k]
  BY <1>4 DEF Store, StoreFails, AfterStore, Leave
<1>7. /\ explanations \in [Caller -> Seq(RowType)] /\ explanations[c] \in Seq(RowType)
      /\ faults \in 0..MaxFaults /\ MaxFaults \in Nat
  BY ExplanationsAssumption DEF IInv, RangesOK
<1>8. \/ /\ explanations' = [explanations EXCEPT ![c] = Append(@, row)]
         /\ UNCHANGED <<unstored, faults>>
      \/ /\ explanations' = explanations
         /\ unstored' = IF c \in Event THEN unstored \cup {c} ELSE unstored
         /\ Fault
  BY <1>2 DEF Store, StoreFails, tables, history
<1>9. UNCHANGED <<world, processed, acked, limiter, early>>
  BY DEF Store, StoreFails, tables, history
<1>10. calls'[c] = k /\ (\A d \in Caller \ {c} : calls'[d] = calls[d]) /\ calls' \in [Caller -> CallType]
  BY <1>5, <1>6 DEF IInv, RangesOK
<1>11. Append(explanations[c], row) \in Seq(RowType)
  BY <1>3, <1>7, AppendProperties
<1>12. Grows /\ WorldOK' /\ TellsOK'
  BY <1>9, WorldGrows, WorldKept DEF IInv
<1>13. RangesOK'
  <2>1. explanations' \in [Caller -> Seq(RowType)]
    BY <1>7, <1>8, <1>11
  <2>2. unstored' \subseteq Event /\ faults' \in 0..MaxFaults
    BY <1>8, FaultCounted DEF IInv, RangesOK
  <2>3. QED
    BY <1>9, <1>10, <2>1, <2>2 DEF IInv, RangesOK, limiter
<1>14. SlotsOK'
  <2>1. ~Holds(k.at) /\ ~Holds(calls[c].at)
    BY <1>1, <1>5 DEF Holds, At
  <2>2. QED
    BY <1>9, <1>10, <2>1, SlotsStep DEF IInv, limiter
<1>15. CallsOK'
  <2>1. Knows(c, k)'
    BY <1>5 DEF Knows, InHand
  <2>2. QED
    BY <1>5, <1>6, <1>12, <2>1, CallsStep DEF IInv
<1>16. RowsOK'
  <2>1. CASE explanations' = [explanations EXCEPT ![c] = Append(@, row)]
    <3> SUFFICES ASSUME NEW d \in Caller, NEW i \in DOMAIN explanations'[d]
                 PROVE  LET r == explanations[d][i] IN Truly(d, r.of, r.says, r.mock)'
      BY DEF RowsOK
    <3>1. CASE d = c /\ i = Len(explanations[c]) + 1
      <4>1. explanations'[d][i] = row
        BY <1>3, <1>7, <2>1, <3>1, AppendProperties
      <4>2. Truly(c, row.of, row.says, row.mock)'
        BY <1>3, <1>12, TrulyKept DEF RowType
      <4>3. QED
        BY <3>1, <4>1, <4>2 DEF Truly
    <3>2. CASE ~(d = c /\ i = Len(explanations[c]) + 1)
      <4>1. i \in DOMAIN explanations[d] /\ explanations'[d][i] = explanations[d][i]
        <5>1. CASE d # c
          BY <1>7, <2>1, <5>1
        <5>2. CASE d = c
          <6>1. explanations'[d] = Append(explanations[c], row)
            BY <1>7, <2>1, <5>2
          <6>2. QED
            BY <1>3, <1>7, <3>2, <5>2, <6>1, AppendProperties
        <5>3. QED
          BY <5>1, <5>2
      <4>2. PICK r \in RowType : r = explanations[d][i] /\ r = explanations'[d][i]
        BY <4>1, RowType1 DEF IInv
      <4>3. Truly(d, r.of, r.says, r.mock)
        BY <4>1, <4>2 DEF IInv, RowsOK
      <4>4. Truly(d, r.of, r.says, r.mock)'
        BY <1>12, <4>3, TrulyKept DEF RowType
      <4>5. QED
        BY <4>2, <4>4 DEF Truly
    <3>3. QED
      BY <3>1, <3>2
  <2>2. CASE explanations' = explanations
    BY <1>12, <2>2, RowsKept DEF IInv
  <2>3. QED
    BY <1>8, <2>1, <2>2
<1>17. CountOK'
  <2> SUFFICES ASSUME NEW e \in Event PROVE CountOf(e)'
    BY DEF CountOK
  <2>1. e \in Caller /\ CountOf(e)
    BY DEF IInv, CountOK, Caller
  <2>2. Len(explanations[e]) \in Nat
    BY <2>1, RowType1 DEF IInv
  <2>3. CASE e # c
    <3>1. explanations'[e] = explanations[e] /\ calls'[e] = calls[e]
      BY <1>7, <1>8, <1>10, <2>1, <2>3
    <3>2. faults' \in {faults, faults + 1} /\ unstored \subseteq unstored'
      BY <1>8, FaultCounted DEF IInv
    <3>3. QED
      BY <1>9, <2>1, <3>1, <3>2, CountFrame DEF IInv
  <2>4. CASE e = c
    <3>1. Len(explanations[e]) <= faults /\ e \notin processed /\ At(e, "mark")'
      BY <1>1, <1>5, <1>10, <2>1, <2>4 DEF CountOf, At
    <3>2. CASE explanations' = [explanations EXCEPT ![c] = Append(@, row)] /\ faults' = faults
      <4>1. explanations'[e] = Append(explanations[e], row)
        BY <1>7, <2>4, <3>2
      <4>2. Len(explanations'[e]) = Len(explanations[e]) + 1 /\ explanations'[e] # <<>>
        BY <1>3, <1>7, <2>4, <4>1, AppendProperties
      <4>3. QED
        BY <1>7, <1>9, <2>2, <3>1, <3>2, <4>2 DEF CountOf
    <3>3. CASE explanations' = explanations /\ unstored' = unstored \cup {e} /\ Fault
      <4>1. faults' = faults + 1 /\ Len(explanations'[e]) = Len(explanations[e])
        BY <3>3, FaultCounted DEF IInv
      <4>2. QED
        BY <1>7, <1>9, <2>2, <3>1, <3>3, <4>1 DEF CountOf
    <3>4. QED
      BY <1>8, <2>4, <3>2, <3>3
  <2>5. QED
    BY <2>3, <2>4
<1>18. QED
  BY <1>12, <1>13, <1>14, <1>15, <1>16, <1>17 DEF IInv

\* The mark comes, or the event comes again.
LEMMA MarkOK ==
  ASSUME IInv, NEW e \in Event, Mark(e) \/ MarkFails(e)
  PROVE  IInv'
<1>1. /\ e \in Caller /\ At(e, "mark") /\ e \notin processed /\ calls[e] \in CallType
      /\ acked \subseteq processed
  BY CallerIs DEF Mark, MarkFails, At, Caller
<1>2. Idle \in CallType /\ Idle.at = "idle"
  BY IdleType, IdlePlaces
<1>3. calls' = [calls EXCEPT ![e] = Idle]
  BY DEF Mark, MarkFails, Leave
<1>4. calls'[e] = Idle /\ (\A d \in Caller \ {e} : calls'[d] = calls[d]) /\ calls' \in [Caller -> CallType]
  BY <1>1, <1>2, <1>3 DEF IInv, RangesOK
<1>5. UNCHANGED <<world, explanations, limiter, history>>
  BY DEF Mark, MarkFails, tables
<1>6. \/ processed' = processed \cup {e} /\ faults' \in {faults, faults + 1}
      \/ processed' = processed /\ faults' = faults + 1
  BY FaultCounted DEF Mark, MarkFails, tables, IInv
<1>7. faults' \in 0..MaxFaults /\ faults \in Nat
  BY FaultCounted, ExplanationsAssumption DEF Mark, MarkFails, IInv, RangesOK
<1>8. Grows /\ WorldOK' /\ TellsOK'
  BY <1>5, WorldGrows, WorldKept DEF IInv, history
<1>9. RangesOK'
  <2>1. processed' \subseteq Event /\ acked' \subseteq processed'
    BY DEF Mark, MarkFails, tables, IInv, RangesOK
  <2>2. QED
    BY <1>4, <1>5, <1>7, <2>1 DEF IInv, RangesOK, limiter, history
<1>10. SlotsOK'
  <2>1. ~Holds(calls'[e].at) /\ ~Holds(calls[e].at)
    BY <1>1, <1>2, <1>4 DEF Holds, At
  <2>2. QED
    BY <1>1, <1>4, <1>5, <2>1, SlotsStep DEF IInv, limiter
<1>11. CallsOK'
  <2>1. Knows(e, Idle)'
    BY IdlePlaces DEF Knows, InHand
  <2>2. QED
    BY <1>1, <1>2, <1>3, <1>8, <2>1, CallsStep DEF IInv
<1>12. RowsOK'
  BY <1>5, <1>8, RowsKept DEF IInv
<1>13. CountOK'
  <2> SUFFICES ASSUME NEW x \in Event PROVE CountOf(x)'
    BY DEF CountOK
  <2>1. explanations'[x] = explanations[x] /\ CountOf(x) /\ Len(explanations[x]) \in Nat
    BY <1>5, RowType1 DEF IInv, CountOK, Caller
  <2>2. CASE x # e
    <3>1. calls'[x] = calls[x] /\ (x \in processed' <=> x \in processed)
      BY <1>4, <1>6, <2>2 DEF Caller
    <3>2. faults' \in {faults, faults + 1} /\ unstored \subseteq unstored'
      BY <1>5, <1>6 DEF history
    <3>3. QED
      BY <2>1, <3>1, <3>2, CountFrame DEF IInv
  <2>3. CASE x = e
    <3>1. Len(explanations[x]) <= faults + 1 /\ (explanations[x] # <<>> \/ x \in unstored)
      BY <1>1, <2>1, <2>3 DEF CountOf
    <3>2. At(x, "idle")' /\ ~At(x, "mark")'
      BY <1>2, <1>4, <2>3 DEF At
    <3>3. QED
      BY <1>1, <1>5, <1>6, <1>7, <2>1, <2>3, <3>1, <3>2 DEF CountOf, history
  <2>4. QED
    BY <2>2, <2>3
<1>14. QED
  BY <1>8, <1>9, <1>10, <1>11, <1>12, <1>13 DEF IInv

\* A crash frees every slot.
LEMMA CrashOK ==
  ASSUME IInv, Crash
  PROVE  IInv'
<1>1. faults' = faults + 1 /\ faults' \in 0..MaxFaults /\ faults \in Nat
  BY FaultCounted, ExplanationsAssumption DEF Crash, IInv, RangesOK
<1>2. UNCHANGED <<world, explanations, processed, acked, early, unstored>>
  BY DEF Crash, tables, history
<1>3. ASSUME NEW c \in Caller
      PROVE  /\ calls'[c] \in {Idle, Done}
             /\ c \in Event => calls'[c] = Idle
  BY DEF Crash
<1>4. calls' \in [Caller -> CallType]
  BY IdleType DEF Crash
<1>5. Grows /\ WorldOK' /\ TellsOK'
  BY <1>2, WorldGrows, WorldKept DEF IInv
<1>6. RangesOK'
  BY <1>1, <1>2, <1>4 DEF Crash, IInv, RangesOK
<1>7. SlotsOK'
  <2>1. Holders' = {}
    BY <1>3, IdlePlaces DEF Holders
  <2>2. QED
    BY <2>1, FS_EmptySet, ExplanationsAssumption DEF Crash, SlotsOK
<1>8. CallsOK'
  BY <1>3, IdlePlaces DEF CallsOK, Knows, InHand
<1>9. RowsOK'
  BY <1>2, <1>5, RowsKept DEF IInv
<1>10. CountOK'
  <2> SUFFICES ASSUME NEW e \in Event PROVE CountOf(e)'
    BY DEF CountOK
  <2>1. explanations'[e] = explanations[e] /\ CountOf(e) /\ Len(explanations[e]) \in Nat
    BY <1>2, RowType1 DEF IInv, CountOK, Caller
  <2>2. At(e, "idle")' /\ ~At(e, "mark")'
    BY <1>3, IdlePlaces DEF Caller, At
  <2>3. QED
    BY <1>1, <1>2, <2>1, <2>2 DEF CountOf
<1>11. QED
  BY <1>5, <1>6, <1>7, <1>8, <1>9, <1>10 DEF IInv

\* A decision or a publication adds to what is known, and a step that touches
\* neither the calls nor the tables takes nothing from it.
LEMMA RestOK ==
  ASSUME IInv, Grows, WorldOK', TellsOK', cooling' \in BOOLEAN,
         UNCHANGED <<tables, acked, calls, running, history, faults>>
  PROVE  IInv'
<1>1. RangesOK'
  BY DEF IInv, RangesOK, tables, history
<1>2. SlotsOK' /\ RowsOK' /\ CallsOK'
  BY SlotsKept, RowsKept, CallsKept DEF IInv, tables
<1>3. CountOK'
  BY DEF IInv, CountOK, CountOf, At, tables, history
<1>4. QED
  BY <1>1, <1>2, <1>3 DEF IInv

LEMMA DecideOK ==
  ASSUME IInv, NEW t \in Txn, Decide(t)
  PROVE  IInv'
<1>1. PICK o \in Decided : /\ outcome' = [outcome EXCEPT ![t] = o]
                           /\ given' = [given EXCEPT ![t] = @ \cup {o}]
  BY DEF Decide
<1>2. UNCHANGED <<inputs, news, tables, acked, calls, limiter, history, faults>>
  BY DEF Decide
<1>3. \A x \in Txn : given[x] \subseteq given'[x] /\ given'[x] \subseteq Decided
  BY <1>1 DEF IInv, WorldOK
<1>4. Grows
  BY <1>2, <1>3 DEF Grows, inputs, history
<1>5. WorldOK'
  <2>1. outcome' \in [Txn -> Decided \cup {"pending"}] /\ given' \in [Txn -> SUBSET Decided]
    BY <1>1 DEF IInv, WorldOK
  <2>2. QED
    BY <1>2, <2>1 DEF IInv, WorldOK, inputs
<1>6. TellsOK'
  <2>1. ASSUME NEW x \in Txn, outcome'[x] # "pending" PROVE outcome'[x] \in given'[x]
    BY <1>1, <2>1 DEF IInv, WorldOK, TellsOK
  <2>2. ASSUME NEW e \in Event, news'[e].of \in Txn PROVE news'[e].says \in given'[news'[e].of]
    BY <1>2, <1>3, <2>2 DEF IInv, TellsOK
  <2>3. QED
    BY <2>1, <2>2 DEF TellsOK
<1>7. QED
  BY <1>2, <1>4, <1>5, <1>6, RestOK DEF limiter, IInv, RangesOK

LEMMA PublishOK ==
  ASSUME IInv, NEW e \in Event, Publish(e)
  PROVE  IInv'
<1>1. news[e] = NoNews
  BY DEF Publish, NewIds
<1>2. PICK t \in Txn : \E o \in given[t] : news' = [news EXCEPT ![e] = [of |-> t, says |-> o]]
  BY DEF Publish
<1>3. PICK o \in given[t] : news' = [news EXCEPT ![e] = [of |-> t, says |-> o]]
  BY <1>2
<1>4. UNCHANGED <<inputs, outcome, given, tables, acked, calls, limiter, history, faults>>
  BY DEF Publish
<1>5. o \in Decided /\ [of |-> t, says |-> o] \in [of : Txn, says : Decided]
  BY <1>3 DEF IInv, WorldOK
<1>6. news[e].of \notin Txn
  BY <1>1, ExplanationsAssumption DEF NoNews
<1>7. Grows
  BY <1>3, <1>4, <1>6 DEF Grows, inputs, history, IInv, WorldOK
<1>8. WorldOK'
  <2>1. news' \in [Event -> [of : Txn, says : Decided] \cup {NoNews}]
    BY <1>3, <1>5 DEF IInv, WorldOK
  <2>2. QED
    BY <1>4, <2>1 DEF IInv, WorldOK, inputs
<1>9. TellsOK'
  BY <1>3, <1>4 DEF IInv, WorldOK, TellsOK
<1>10. QED
  BY <1>4, <1>7, <1>8, <1>9, RestOK DEF limiter, IInv, RangesOK

LEMMA CoolOK ==
  ASSUME IInv, Cool \/ UNCHANGED vars
  PROVE  IInv'
<1>1. UNCHANGED <<world, tables, acked, calls, running, history, faults>> /\ cooling' \in BOOLEAN
  BY DEF Cool, vars, limiter, IInv, RangesOK
<1>2. QED
  BY <1>1, WorldGrows, WorldKept, RestOK DEF IInv, history

\* Every step preserves the invariant.
LEMMA StepOK == IInv /\ [Next]_vars => IInv'
<1> SUFFICES ASSUME IInv, [Next]_vars PROVE IInv'
  OBVIOUS
<1>1. ASSUME NEW c \in Caller, Step(c) \/ StoreFails(c) PROVE IInv'
  BY <1>1, ProviderOK, StoreOK, ConsumeOK, MarkOK, FetchOK DEF Step
<1>2. ASSUME NEW t \in Txn, Decide(t) PROVE IInv'
  BY <1>2, DecideOK
<1>3. ASSUME NEW e \in Event, Publish(e) \/ MarkFails(e) PROVE IInv'
  BY <1>3, PublishOK, MarkOK
<1>4. ASSUME NEW r \in Request, FetchFails(r) \/ Summarize(r) \/ AnalyzeRisk(r) PROVE IInv'
  BY <1>4, AskOK
<1>5. ASSUME NEW r \in Request, NEW t \in Txn, Look(r, t) PROVE IInv'
  BY <1>5, LookOK
<1>6. QED
  BY <1>1, <1>2, <1>3, <1>4, <1>5, CrashOK, CoolOK DEF Next

\* The slots taken are always those of the calls in progress, on every path
\* through LLMProvider.explain, and no call makes more than MaxAttempts.
THEOREM TypeCorrect == Spec => []TypeOK
<1>1. QED
  BY GivesType, InitOK, StepOK, PTL DEF Spec

\* What ai-service stores was announced by its event, or was an outcome of its
\* transaction when the request read it, unless the mock wrote it or the request
\* came before the decision; the mock calls nothing rejected that was not, but
\* for a description that misleads it.  What is marked was stored, or could not
\* be, and an event once more only for a fault.
THEOREM StoredTruly == Spec => []ExplainedTruly
<1>1. QED
  BY GivesTruth, InitOK, StepOK, PTL DEF Spec
=============================================================================
