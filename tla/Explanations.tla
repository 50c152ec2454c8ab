---------------------------- MODULE Explanations ----------------------------
(***************************************************************************)
(* ai-service: explanations of transactions by a language model.           *)
(*                                                                         *)
(* Two consumers explain every outcome announced, an API explains on       *)
(* demand and keeps what it got, and summaries and risk analyses only ask. *)
(* All of them share the provider, which is the mock or the model behind a *)
(* limiter: at most MaxConcurrent calls at a time, with an interval        *)
(* between two, retries inside a call, and the mock again when the last    *)
(* attempt has failed.                                                     *)
(***************************************************************************)
EXTENDS Naturals, Sequences, FiniteSets, Functions

CONSTANTS
  Txn,           \* transactions
  Event,         \* events that announce their outcomes, by event id
  Request,       \* requests: explanations, summaries, translations, risk analyses
  MaxConcurrent, \* slots of the rate limiter; 3
  MaxAttempts,   \* attempts of a call; 3
  Texts,         \* what the mock may find where: see words
  None,          \* no transaction, as in a summary or a risk analysis
  MaxFaults      \* bound: failed statements and fetches, and crashes

ASSUME ExplanationsAssumption ==
  /\ MaxConcurrent \in Nat \ {0}
  /\ MaxAttempts \in Nat \ {0}
  /\ MaxFaults \in Nat
  /\ Event \cap Request = {}
  /\ None \notin Txn
  /\ Texts \subseteq SUBSET {"description", "reason"}

VARIABLES
  provider,     \* what LLM_PROVIDER selects: the model with its fallback, or the mock
  words,        \* which free texts of each transaction hold the mock's word
  outcome,      \* the status of each transaction in transaction-service
  given,        \* history: the outcomes each transaction was given
  news,         \* the outcome and transaction of each event published
  explanations, \* ai_explanations: the rows each caller stored, oldest first
  processed,    \* processed_events
  acked,        \* events the consumers are done with
  calls,        \* where each consumer and request stands
  running,      \* slots taken
  cooling,      \* the last call began less than minIntervalMs ago
  early,        \* history: requests that read a transaction not yet decided
  unstored,     \* history: events whose explanation could not be stored
  faults        \* faults so far

tables == <<explanations, processed>>
limiter == <<running, cooling>>
history == <<early, unstored>>
inputs == <<provider, words>>
world == <<inputs, outcome, given, news>>
vars == <<world, tables, acked, calls, limiter, history, faults>>

Caller == Event \cup Request
Decided == {"completed", "rejected"}
Idle == [at |-> "idle", of |-> None, says |-> "completed", mock |-> FALSE, attempt |-> 0]
Done == [Idle EXCEPT !.at = "done"]
NoNews == [of |-> None, says |-> "pending"]

-----------------------------------------------------------------------------
Init ==
  /\ provider \in {"anthropic", "mock"}
  /\ words \in [Txn -> Texts]
  /\ given = [t \in Txn |-> {}]
  /\ news = [e \in Event |-> NoNews]
  /\ outcome = [t \in Txn |-> "pending"]
  /\ explanations = [c \in Caller |-> <<>>]
  /\ processed = {}
  /\ acked = {}
  /\ calls = [c \in Caller |-> Idle]
  /\ running = 0
  /\ cooling = FALSE
  /\ early = {}
  /\ unstored = {}
  /\ faults = 0

Fault ==
  /\ faults < MaxFaults
  /\ faults' = faults + 1

At(c, place) == calls[c].at = place
Goto(c, place) == calls' = [calls EXCEPT ![c].at = place]
Leave(c, next) == calls' = [calls EXCEPT ![c] = next]

\* transaction-service decides a transaction; a lost COMMIT, or a second copy
\* of the request, makes it decide again.
Decide(t) ==
  /\ \E o \in Decided \ {outcome[t]} :
       /\ outcome' = [outcome EXCEPT ![t] = o]
       /\ given' = [given EXCEPT ![t] = @ \cup {o}]
  /\ UNCHANGED <<inputs, news, tables, acked, calls, limiter, history, faults>>

\* An event id not yet used, and the same one whoever asks.
NewIds ==
  LET unused == {e \in Event : news[e] = NoNews}
  IN  IF unused = {} THEN {} ELSE {CHOOSE e \in unused : TRUE}

\* A row of its outbox is published, with a new event id for every copy.
Publish(e) ==
  /\ e \in NewIds
  /\ \E t \in Txn : \E o \in given[t] :
       news' = [news EXCEPT ![e] = [of |-> t, says |-> o]]
  /\ UNCHANGED <<inputs, outcome, given, tables, acked, calls, limiter, history, faults>>

(* Who calls *)

\* The prompt for a transaction that is not rejected says it is completed.
PromptCompleted(status) == "completed"
Prompt(status) == IF status = "rejected" THEN "rejected" ELSE "completed"

\* The consumer of its topic takes an event, unless it is marked.
Consume(e) ==
  /\ news[e] # NoNews
  /\ e \notin acked
  /\ At(e, "idle")
  /\ IF e \in processed
     THEN acked' = acked \cup {e} /\ UNCHANGED calls
     ELSE /\ calls' = [calls EXCEPT ![e] =
               [Idle EXCEPT !.at = "acquire", !.of = news[e].of,
                            !.says = Prompt(news[e].says)]]
          /\ UNCHANGED acked
  /\ UNCHANGED <<world, tables, limiter, history, faults>>

RowsOf(t) == UNION {{row \in Range(explanations[c]) : row.of = t} : c \in Caller}

\* explainTransaction: an explanation that is stored is the answer.
Look(r, t) ==
  /\ At(r, "idle")
  /\ calls' = [calls EXCEPT ![r] = IF RowsOf(t) # {} THEN Done
                                   ELSE [Idle EXCEPT !.at = "fetch", !.of = t]]
  /\ UNCHANGED <<world, tables, acked, limiter, history, faults>>

\* fetchTransaction, from transaction-service.
Fetch(r) ==
  LET status == outcome[calls[r].of]
  IN  /\ At(r, "fetch")
      /\ calls' = [calls EXCEPT ![r].at = "acquire", ![r].says = Prompt(status)]
      /\ early' = IF status = "pending" THEN early \cup {r} ELSE early
      /\ UNCHANGED <<world, tables, acked, limiter, unstored, faults>>

\* Any failure of the fetch is a transaction not found.
FetchFails(r) ==
  /\ At(r, "fetch")
  /\ Fault
  /\ Leave(r, Done)
  /\ UNCHANGED <<world, tables, acked, limiter, history>>

\* summarizeAccount ends without the model when there are no transactions,
\* or they cannot be fetched.
Summarize(r) ==
  /\ At(r, "idle")
  /\ Goto(r, "acquire") \/ Leave(r, Done)
  /\ UNCHANGED <<world, tables, acked, limiter, history, faults>>

\* analyzeRisk goes on without the balance or the count it could not read,
\* and translateEvent has nothing to read.
AnalyzeRisk(r) ==
  /\ At(r, "idle")
  /\ Goto(r, "acquire")
  /\ UNCHANGED <<world, tables, acked, limiter, history, faults>>

(* The provider *)

\* What a caller does with the answer.
Answered(c, says, mock) ==
  IF calls[c].of = None
  THEN Leave(c, Done)
  ELSE calls' = [calls EXCEPT ![c].at = "store", ![c].says = says,
                              ![c].mock = mock, ![c].attempt = 0]

\* The mock takes a prompt for one of a rejected transaction when it finds the
\* English word in it.  The prompts are in Spanish, so the word is there only
\* in the technical reason, or in the description, which the consumers leave
\* out; to everything else it answers that the operation went through.
MockSays(c) ==
  LET text == IF calls[c].says = "rejected" THEN {"reason"}
              ELSE IF c \in Request THEN {"description"} ELSE {}
  IN  IF text \cap words[calls[c].of] # {} THEN "rejected" ELSE "completed"

MockAnswers(c) == Answered(c, MockSays(c), TRUE)

\* The mock is the whole provider: no slot, no interval, no failure.
AskMock(c) ==
  /\ At(c, "acquire")
  /\ provider = "mock"
  /\ MockAnswers(c)
  /\ UNCHANGED <<world, tables, acked, limiter, history, faults>>

\* tryAcquire, polled until a slot is free and the interval is over.
Acquire(c) ==
  /\ At(c, "acquire")
  /\ provider = "anthropic"
  /\ running < MaxConcurrent
  /\ ~cooling
  /\ running' = running + 1
  /\ cooling' = TRUE
  /\ calls' = [calls EXCEPT ![c].at = "calling", ![c].attempt = 1]
  /\ UNCHANGED <<world, tables, acked, history, faults>>

\* minIntervalMs goes by.
Cool ==
  /\ cooling
  /\ cooling' = FALSE
  /\ UNCHANGED <<world, tables, acked, calls, running, history, faults>>

Leak == UNCHANGED running
Release == running' = running - 1

\* The model answers what the prompt says.
CallSucceeds(c) ==
  /\ At(c, "calling")
  /\ Release
  /\ Answered(c, calls[c].says, FALSE)
  /\ UNCHANGED <<world, tables, acked, cooling, history, faults>>

OneTooMany(c) == calls[c].attempt > MaxAttempts
LastAttempt(c) == calls[c].attempt = MaxAttempts

\* The call keeps its slot while it waits for the next attempt; after the
\* last one the mock answers, without a slot.
CallFails(c) ==
  /\ At(c, "calling")
  /\ \/ ~LastAttempt(c) /\ Goto(c, "backoff") /\ UNCHANGED running
     \/ LastAttempt(c) /\ Release /\ MockAnswers(c)
  /\ UNCHANGED <<world, tables, acked, cooling, history, faults>>

\* The next attempt asks neither for a slot nor for the interval.
Retry(c) ==
  /\ At(c, "backoff")
  /\ calls' = [calls EXCEPT ![c].at = "calling", ![c].attempt = @ + 1]
  /\ UNCHANGED <<world, tables, acked, limiter, history, faults>>

(* What is kept *)

Marking == [Idle EXCEPT !.at = "mark"]
AfterStore(c) == Leave(c, IF c \in Event THEN Marking ELSE Done)

Store(c) ==
  /\ At(c, "store")
  /\ explanations' = [explanations EXCEPT ![c] =
       Append(@, [of |-> calls[c].of, says |-> calls[c].says, mock |-> calls[c].mock])]
  /\ AfterStore(c)
  /\ UNCHANGED <<world, processed, acked, limiter, history, faults>>

\* A consumer logs the error and goes on; the API fails.
StoreFails(c) ==
  /\ At(c, "store")
  /\ Fault
  /\ unstored' = IF c \in Event THEN unstored \cup {c} ELSE unstored
  /\ AfterStore(c)
  /\ UNCHANGED <<world, tables, acked, limiter, early>>

\* markProcessed, in a statement of its own; the handler returns, and a
\* rebalance may come before its offset is committed.
Mark(e) ==
  /\ At(e, "mark")
  /\ processed' = processed \cup {e}
  /\ \/ acked' = acked \cup {e} /\ UNCHANGED faults
     \/ Fault /\ UNCHANGED acked
  /\ Leave(e, Idle)
  /\ UNCHANGED <<world, explanations, limiter, history>>

\* The handler throws, and Kafka delivers the event again.
MarkFails(e) ==
  /\ At(e, "mark")
  /\ Fault
  /\ Leave(e, Idle)
  /\ UNCHANGED <<world, tables, acked, limiter, history>>

\* The process dies: requests in flight fail, events come again.
Crash ==
  /\ Fault
  /\ calls' = [c \in Caller |->
                 IF c \in Event \/ At(c, "idle") THEN Idle ELSE Done]
  /\ running' = 0
  /\ cooling' = FALSE
  /\ UNCHANGED <<world, tables, acked, history>>

-----------------------------------------------------------------------------
Step(c) ==
  \/ AskMock(c) \/ Acquire(c) \/ CallSucceeds(c) \/ CallFails(c) \/ Retry(c) \/ Store(c)
  \/ c \in Event /\ (Consume(c) \/ Mark(c))
  \/ c \in Request /\ Fetch(c)

Next ==
  \/ \E t \in Txn : Decide(t)
  \/ \E e \in Event : Publish(e) \/ MarkFails(e)
  \/ \E r \in Request : FetchFails(r) \/ Summarize(r) \/ AnalyzeRisk(r)
  \/ \E r \in Request, t \in Txn : Look(r, t)
  \/ \E c \in Caller : Step(c) \/ StoreFails(c)
  \/ Cool \/ Crash

Spec == Init /\ [][Next]_vars

\* Every caller goes on, and time goes by.  The model may fail every call.
FairSpec ==
  /\ Spec
  /\ \A c \in Caller : WF_vars(Step(c))
  /\ WF_vars(Cool)

-----------------------------------------------------------------------------
(* Correctness *)

Places == {"idle", "fetch", "acquire", "calling", "backoff", "store", "mark", "done"}
Holders == {c \in Caller : calls[c].at \in {"calling", "backoff"}}

\* Every variable stays in its range, a call makes no more than MaxAttempts,
\* and the slots taken are those of the calls in progress: none leaks on any
\* path out of a call, and none is given back twice.
TypeOK ==
  /\ provider \in {"anthropic", "mock"}
  /\ words \in [Txn -> Texts]
  /\ outcome \in [Txn -> Decided \cup {"pending"}]
  /\ given \in [Txn -> SUBSET Decided]
  /\ news \in [Event -> [of : Txn, says : Decided] \cup {NoNews}]
  /\ explanations \in [Caller -> Seq([of : Txn, says : Decided, mock : BOOLEAN])]
  /\ processed \subseteq Event
  /\ acked \subseteq processed
  /\ calls \in [Caller -> [at : Places, of : Txn \cup {None}, says : Decided,
                           mock : BOOLEAN, attempt : 0..MaxAttempts]]
  /\ running = Cardinality(Holders)
  /\ running <= MaxConcurrent
  /\ cooling \in BOOLEAN
  /\ early \subseteq Request
  /\ unstored \subseteq Event
  /\ faults \in 0..MaxFaults

\* What the model answers for c about t is what the event of c announces, or an
\* outcome t was given, or "completed" when c read t before any was.  The mock
\* calls rejected ones completed; the reverse it says only for the API, of a
\* transaction whose description misleads it.
Truly(c, t, says, mock) ==
  /\ c \in Event => news[c].of = t
  /\ mock /\ says = "rejected" =>
       \/ "rejected" \in given[t]
       \/ c \in Request /\ "description" \in words[t]
  /\ ~mock =>
       \/ c \in Event /\ says = news[c].says
       \/ c \in Request /\ says \in given[t]
       \/ c \in early /\ says = "completed"

\* Every explanation stored is true in the sense of Truly, over concurrent
\* calls, retries, the fallback and crashes: a wrong one comes from the mock,
\* or from a request before the decision.  An event marked as processed has its
\* explanation, if it could be stored, and more than one only for faults
\* between storing and marking.  (A row of the outbox published twice makes two
\* events, and is explained twice without any.)
ExplainedTruly ==
  /\ \A c \in Caller : \A i \in DOMAIN explanations[c] :
       LET row == explanations[c][i] IN Truly(c, row.of, row.says, row.mock)
  /\ \A e \in processed : explanations[e] # <<>> \/ e \in unstored
  /\ \A e \in Event : Len(explanations[e]) <= 1 + faults

\* Whoever asks is answered, and every event published is done with in the
\* end, however often the model fails: no call keeps its slot for ever.
EveryCallEnds ==
  []<>(/\ \A c \in Request : At(c, "idle") \/ At(c, "done")
       /\ \A e \in Event : news[e] = NoNews \/ e \in acked)
=============================================================================
