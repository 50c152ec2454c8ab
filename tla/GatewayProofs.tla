--------------------------- MODULE GatewayProofs ---------------------------
(***************************************************************************)
(* Proofs about what protects the services from their callers.  The        *)
(* answers of the gateways, with their circuit breakers, are true for any  *)
(* number of services and requests, and any threshold; and the rate        *)
(* limiter keeps its promise for any number of instances, any window and   *)
(* limit, and any delay up to the window.                                  *)
(***************************************************************************)
EXTENDS Gateway, RateLimiter, FiniteSetTheorems, TLAPS

\* What makes AnswersAreTrue inductive: nothing stands in the way of a request
\* that is sure as long as it is in progress, and what a service has handled
\* is true when it answers.
InProgressOK ==
  \A c \in Call : ~At(c, "done") /\ sure[c] =>
    up[Target(c)] /\ Target(c) \in present /\ ~Write(calls[c].route)

HandledOK ==
  \A c \in Call : At(c, "handled") =>
    /\ calls[c].found => Target(c) \in present
    /\ sure[c] => calls[c].found

TargetOK == \A c \in Call : ~At(c, "done") => Target(c) \in Service

IInv == TypeOK /\ TargetOK /\ InProgressOK /\ HandledOK /\ AnswersAreTrue

Breaker == [state : {"closed", "open", "halfOpen"}, probe : BOOLEAN,
            fires : 0..MaxFires, failures : 0..MaxFires]
Request == [at : {"calling", "handled", "done"}, route : Route,
            of : Service \cup {None}, found : BOOLEAN,
            answer : {"none", "data", NoData}]

-----------------------------------------------------------------------------
\* A breaker stays well formed whatever happens to it, and only a half-open
\* one has a probe to come.
LEMMA BreakerOK ==
  ASSUME NEW b \in Breaker, b.probe => b.state = "halfOpen"
  PROVE  /\ b.fires < MaxFires => Fired(b) \in Breaker /\ ~Fired(b).probe
         /\ Succeeded(b) \in Breaker /\ (Succeeded(b).probe => Succeeded(b).state = "halfOpen")
         /\ Failed(b) \in Breaker /\ (Failed(b).probe => Failed(b).state = "halfOpen")
<1> USE GatewayAssumption DEF Breaker
<1>1. b.fires < MaxFires => Fired(b) \in Breaker /\ ~Fired(b).probe
  <2> SUFFICES ASSUME b.fires < MaxFires PROVE Fired(b) \in Breaker /\ ~Fired(b).probe
    OBVIOUS
  <2> DEFINE n == b.fires + 1
  <2>1. n \in 0..MaxFires
    OBVIOUS
  <2>2. Fired(b) = [b EXCEPT !.fires = n, !.probe = FALSE]
    BY DEF Fired
  <2> HIDE DEF n
  <2>3. QED
    BY <2>1, <2>2
<1>2. Succeeded(b) \in Breaker /\ (Succeeded(b).probe => Succeeded(b).state = "halfOpen")
  BY DEF Succeeded
<1>3. Failed(b) \in Breaker /\ (Failed(b).probe => Failed(b).state = "halfOpen")
  <2> DEFINE n == IF b.failures < MaxFires THEN b.failures + 1 ELSE b.failures
  <2>1. n \in 0..MaxFires
    OBVIOUS
  <2> HIDE DEF n
  <2>2. [b EXCEPT !.failures = n] \in Breaker
        /\ [b EXCEPT !.failures = n, !.state = "open", !.probe = FALSE] \in Breaker
    BY <2>1
  <2>3. Failed(b) = [b EXCEPT !.failures = n, !.state = "open", !.probe = FALSE]
        \/ Failed(b) = [b EXCEPT !.failures = n]
    BY DEF Failed, n
  <2>4. QED
    BY <2>2, <2>3
<1>4. QED
  BY <1>1, <1>2, <1>3

\* The initial state satisfies the invariant.
LEMMA InitOK == Init => IInv
<1> SUFFICES ASSUME Init PROVE IInv
  OBVIOUS
<1>1. TypeOK
  BY GatewayAssumption DEF Init, TypeOK, Closed, Idle, Route
<1>2. TargetOK /\ InProgressOK /\ HandledOK /\ AnswersAreTrue
  BY DEF Init, TargetOK, InProgressOK, HandledOK, AnswersAreTrue, Idle, At
<1>3. QED
  BY <1>1, <1>2 DEF IInv

-----------------------------------------------------------------------------
(* Every variable stays in its range. *)

\* What TypeOK says of the breakers, and what it says of the requests.
BreakersOK == /\ breaker \in [Service -> Breaker]
              /\ \A s \in Service : breaker[s].probe => breaker[s].state = "halfOpen"
CallsOK == calls \in [Call -> Request] /\ sure \in [Call -> BOOLEAN]
ServicesOK == up \in [Service -> BOOLEAN] /\ present \subseteq Service /\ late \subseteq Service

LEMMA TypeParts == TypeOK <=> BreakersOK /\ CallsOK /\ ServicesOK
BY DEF TypeOK, BreakersOK, CallsOK, ServicesOK, Breaker, Request

\* One breaker may be replaced by a well-formed one.
LEMMA OneBreaker ==
  ASSUME BreakersOK, NEW s \in Service, NEW b \in Breaker, b.probe => b.state = "halfOpen",
         breaker' = [breaker EXCEPT ![s] = b]
  PROVE  BreakersOK'
BY DEF BreakersOK

\* Counting the outcome of a request keeps the breakers well formed.
LEMMA CountOK ==
  ASSUME BreakersOK, NEW c \in Call, Target(c) \in Service,
         Count(c, Succeeded) \/ Count(c, Failed)
  PROVE  BreakersOK'
<1> DEFINE s == Target(c)
<1>1. breaker[s] \in Breaker /\ (breaker[s].probe => breaker[s].state = "halfOpen")
  BY DEF BreakersOK
<1>2. \/ breaker' = [breaker EXCEPT ![s] = Succeeded(breaker[s])]
      \/ breaker' = [breaker EXCEPT ![s] = Failed(breaker[s])]
      \/ breaker' = breaker
  BY DEF Count
<1> HIDE DEF s
<1>3. CASE breaker' = breaker
  BY <1>3 DEF BreakersOK
<1>4. CASE breaker' = [breaker EXCEPT ![s] = Succeeded(breaker[s])]
  BY <1>1, <1>4, BreakerOK, OneBreaker DEF s
<1>5. CASE breaker' = [breaker EXCEPT ![s] = Failed(breaker[s])]
  BY <1>1, <1>5, BreakerOK, OneBreaker DEF s
<1>6. QED
  BY <1>2, <1>3, <1>4, <1>5

\* Ending a request keeps the requests well formed.
LEMMA FinishOK ==
  ASSUME CallsOK, NEW c \in Call, NEW a \in {"data", NoData},
         Finish(c, a), UNCHANGED sure
  PROVE  CallsOK'
BY ZenonT(40) DEF CallsOK, Finish, Request

\* A service that handles a request finds what it has, or does a valid write.
LEMMA HandleCases ==
  ASSUME NEW c \in Call, Handle(c)
  PROVE  \E valid \in BOOLEAN :
           /\ calls' = [calls EXCEPT ![c].at = "handled", ![c].found = valid]
           /\ valid => Target(c) \in present'
           /\ Target(c) \in present /\ ~Write(calls[c].route) => valid
<1>1. CASE Write(calls[c].route)
  BY <1>1 DEF Handle
<1>2. CASE ~Write(calls[c].route)
  <2> DEFINE valid == Target(c) \in present
  <2>1. calls' = [calls EXCEPT ![c].at = "handled", ![c].found = valid] /\ present' = present
    BY <1>2 DEF Handle
  <2>2. valid \in BOOLEAN /\ (valid <=> Target(c) \in present)
    OBVIOUS
  <2> HIDE DEF valid
  <2>3. QED
    BY <2>1, <2>2
<1>3. QED
  BY <1>1, <1>2

\* Every step keeps the variables in their ranges.
LEMMA TypeStep == TypeOK /\ TargetOK /\ [Next]_vars => TypeOK' /\ TargetOK'
<1> SUFFICES ASSUME BreakersOK, CallsOK, ServicesOK, TargetOK, [Next]_vars
             PROVE  BreakersOK' /\ CallsOK' /\ ServicesOK' /\ TargetOK'
  <2>1. BreakersOK' /\ CallsOK' /\ ServicesOK' => TypeOK'
    BY DEF TypeOK, BreakersOK, CallsOK, ServicesOK, Breaker, Request
  <2>2. QED
    BY <2>1, TypeParts
<1>1. ASSUME NEW c \in Call, NEW s \in Service, Lookup(c, s)
      PROVE  BreakersOK' /\ CallsOK' /\ ServicesOK' /\ TargetOK'
  <2>1. BreakersOK'
    <3>1. breaker[s] \in Breaker /\ (breaker[s].probe => breaker[s].state = "halfOpen")
      BY DEF BreakersOK
    <3>2. breaker' = [breaker EXCEPT ![s] = Fired(breaker[s])] /\ breaker[s].fires < MaxFires
      BY <1>1 DEF Lookup
    <3>3. QED
      BY <3>1, <3>2, BreakerOK, OneBreaker
  <2>2. PICK place \in {"calling", "done"}, answer \in {"none", NoData} :
          Begin(c, "lookup", s, place, answer)
    BY <1>1 DEF Lookup
  <2>3. CallsOK' /\ TargetOK'
    BY <1>1, <2>2 DEF Lookup, Begin, CallsOK, TargetOK, Request, Route, At, Target
  <2>4. QED
    BY <1>1, <2>1, <2>3 DEF Lookup, ServicesOK
<1>2. ASSUME NEW c \in Call, NEW s \in Service, NEW route \in Route \ {"lookup"}, Ask(c, route, s)
      PROVE  BreakersOK' /\ CallsOK' /\ ServicesOK' /\ TargetOK'
  <2>1. CallsOK' /\ TargetOK'
    BY <1>2 DEF Ask, Begin, CallsOK, TargetOK, Request, At, Target, Write
  <2>2. QED
    BY <1>2, <2>1 DEF Ask, ServicesOK, BreakersOK
<1>3. ASSUME NEW c \in Call, Handle(c)
      PROVE  BreakersOK' /\ CallsOK' /\ ServicesOK' /\ TargetOK'
  <2>1. Target(c) \in Service
    BY <1>3 DEF Handle, TargetOK, At
  <2>2. PICK valid \in BOOLEAN :
          calls' = [calls EXCEPT ![c].at = "handled", ![c].found = valid]
    BY <1>3, HandleCases
  <2>3. CallsOK'
    <3>1. [calls[c] EXCEPT !.at = "handled", !.found = valid] \in Request
      BY DEF CallsOK, Request
    <3>2. calls' = [calls EXCEPT ![c] = [calls[c] EXCEPT !.at = "handled", !.found = valid]]
      BY <2>2 DEF CallsOK
    <3>3. QED
      BY <1>3, <3>1, <3>2 DEF Handle, CallsOK
  <2>6. TargetOK'
    BY <2>1, <2>2 DEF CallsOK, TargetOK, Request, At, Target
  <2>4. ServicesOK'
    BY <1>3, <2>1 DEF Handle, ServicesOK
  <2>5. QED
    BY <1>3, <2>3, <2>4, <2>6 DEF Handle, BreakersOK
<1>4. ASSUME NEW c \in Call, Respond(c) \/ Break(c) \/ TimeOut(c)
      PROVE  BreakersOK' /\ CallsOK' /\ ServicesOK' /\ TargetOK'
  <2>1. Target(c) \in Service
    BY <1>4 DEF Respond, Break, TimeOut, TargetOK, At
  <2>2. Count(c, Succeeded) \/ Count(c, Failed)
    BY <1>4 DEF Respond, Break, TimeOut
  <2>3. PICK a \in {"data", NoData} : Finish(c, a)
    BY <1>4 DEF Respond, Break, TimeOut
  <2>4. UNCHANGED <<sure, up, present>>
    BY <1>4 DEF Respond, Break, TimeOut
  <2>5. TargetOK'
    BY <2>3 DEF TargetOK, Finish, At, Target, CallsOK, Request
  <2>6. ServicesOK'
    BY <1>4, <2>1, <2>4 DEF Respond, Break, TimeOut, ServicesOK
  <2>7. QED
    BY <2>1, <2>2, <2>3, <2>4, <2>5, <2>6, CountOK, FinishOK
<1>5. ASSUME NEW s \in Service, HalfOpen(s) \/ Roll(s)
      PROVE  BreakersOK' /\ CallsOK' /\ ServicesOK' /\ TargetOK'
  <2>1. BreakersOK'
    <3>1. CASE HalfOpen(s)
      <4>1. [breaker[s] EXCEPT !.state = "halfOpen", !.probe = TRUE] \in Breaker
        BY DEF BreakersOK, Breaker
      <4>2. breaker' = [breaker EXCEPT ![s] = [breaker[s] EXCEPT !.state = "halfOpen", !.probe = TRUE]]
        BY <3>1 DEF HalfOpen
      <4>3. QED
        BY <4>1, <4>2 DEF BreakersOK, Breaker
    <3>2. CASE Roll(s)
      <4>1. PICK f \in 0..breaker[s].fires, n \in 0..breaker[s].failures :
              breaker' = [breaker EXCEPT ![s].fires = f, ![s].failures = n]
        BY <3>2 DEF Roll
      <4>2. f \in 0..MaxFires /\ n \in 0..MaxFires
        BY GatewayAssumption DEF BreakersOK, Breaker
      <4>3. QED
        BY <4>1, <4>2, ZenonT(40) DEF BreakersOK, Breaker
    <3>3. QED
      BY <1>5, <3>1, <3>2
  <2>2. QED
    BY <1>5, <2>1 DEF HalfOpen, Roll, CallsOK, ServicesOK, TargetOK, At, Target
<1>6. ASSUME NEW s \in Service, DoLate(s) \/ Fall(s) \/ Recover(s)
      PROVE  BreakersOK' /\ CallsOK' /\ ServicesOK' /\ TargetOK'
  <2>1. UNCHANGED <<breaker, calls>>
    BY <1>6 DEF DoLate, Fall, Recover
  <2>2. sure' \in [Call -> BOOLEAN]
    BY <1>6 DEF DoLate, Fall, Recover, CallsOK, At
  <2>3. ServicesOK'
    BY <1>6 DEF DoLate, Fall, Recover, ServicesOK
  <2>4. QED
    BY <2>1, <2>2, <2>3 DEF BreakersOK, CallsOK, TargetOK, At, Target
<1>7. CASE UNCHANGED vars
  BY <1>7 DEF vars, BreakersOK, CallsOK, ServicesOK, TargetOK, At, Target
<1>8. QED
  BY <1>1, <1>2, <1>3, <1>4, <1>5, <1>6, <1>7 DEF Next

-----------------------------------------------------------------------------
(* The answers are true. *)

AnswersOK == InProgressOK /\ HandledOK /\ AnswersAreTrue

\* A step that leaves the requests and the services alone, or only adds
\* resources, takes nothing back.
LEMMA NothingTakenBack ==
  ASSUME AnswersOK, UNCHANGED <<calls, sure, up>>, present \subseteq present'
  PROVE  AnswersOK'
BY DEF AnswersOK, InProgressOK, HandledOK, AnswersAreTrue, At, Target

\* A new request that a closed breaker lets through, or that is no write, is
\* sure only when its service is up and has what is asked for.
LEMMA BeginOK ==
  ASSUME TypeOK, AnswersOK, NEW c \in Call, NEW s \in Service, NEW route \in Route,
         NEW place \in {"calling", "done"}, NEW answer \in {"none", NoData},
         Begin(c, route, s, place, answer), UNCHANGED <<up, present>>,
         NEW certain \in BOOLEAN, sure' = [sure EXCEPT ![c] = certain],
         certain => place = "calling" /\ up[s] /\ s \in present /\ ~Write(route)
  PROVE  AnswersOK'
BY DEF AnswersOK, InProgressOK, HandledOK, AnswersAreTrue, At, Target, Begin, TypeOK, NoData

\* The end of a request: its answer is data when it was sure, and data only
\* when its resource exists.
LEMMA EndOK ==
  ASSUME TypeOK, AnswersOK, NEW c \in Call, NEW a, Finish(c, a), UNCHANGED <<up, present, sure>>,
         a = "data" => Target(c) \in present,
         sure[c] => a = "data"
  PROVE  AnswersOK'
BY DEF AnswersOK, InProgressOK, HandledOK, AnswersAreTrue, At, Target, Finish, TypeOK

\* Every step keeps the answers true.
LEMMA AnswersStep == IInv /\ [Next]_vars => AnswersOK'
<1> SUFFICES ASSUME TypeOK, TargetOK, AnswersOK, [Next]_vars PROVE AnswersOK'
  BY DEF IInv, AnswersOK
<1>1. ASSUME NEW c \in Call, NEW s \in Service, Lookup(c, s) PROVE AnswersOK'
  <2> DEFINE certain == up[s] /\ s \in present /\ breaker[s].state = "closed"
  <2>1. PICK place \in {"calling", "done"}, answer \in {"none", NoData} :
          /\ Begin(c, "lookup", s, place, answer)
          /\ Admits(breaker[s]) => place = "calling"
    BY <1>1 DEF Lookup
  <2>2. certain => place = "calling"
    BY <2>1 DEF Admits
  <2>3. certain \in BOOLEAN /\ sure' = [sure EXCEPT ![c] = certain] /\ UNCHANGED <<up, present>>
    BY <1>1 DEF Lookup, TypeOK
  <2>4. "lookup" \in Route /\ ~Write("lookup") /\ (certain => up[s] /\ s \in present)
    BY DEF Route, Write
  <2> HIDE DEF certain
  <2>5. QED
    BY <2>1, <2>2, <2>3, <2>4, BeginOK
<1>2. ASSUME NEW c \in Call, NEW s \in Service, NEW route \in Route \ {"lookup"}, Ask(c, route, s)
      PROVE  AnswersOK'
  <2> DEFINE certain == up[s] /\ s \in present /\ ~Write(route)
  <2>1. certain \in BOOLEAN /\ sure' = [sure EXCEPT ![c] = certain] /\ UNCHANGED <<up, present>>
        /\ Begin(c, route, s, "calling", "none")
    BY <1>2 DEF Ask, TypeOK
  <2>2. certain => up[s] /\ s \in present /\ ~Write(route)
    OBVIOUS
  <2> HIDE DEF certain
  <2>3. QED
    BY <2>1, <2>2, BeginOK
<1>3. ASSUME NEW c \in Call, Handle(c) PROVE AnswersOK'
  <2>1. PICK valid \in BOOLEAN :
          /\ calls' = [calls EXCEPT ![c].at = "handled", ![c].found = valid]
          /\ valid => Target(c) \in present'
          /\ Target(c) \in present /\ ~Write(calls[c].route) => valid
    BY <1>3, HandleCases
  <2>2. present \subseteq present' /\ UNCHANGED <<up, sure>> /\ ~At(c, "done")
    BY <1>3 DEF Handle, At
  <2>3. sure[c] => valid
    BY <2>1, <2>2 DEF AnswersOK, InProgressOK
  <2>4. \A d \in Call \ {c} : calls'[d] = calls[d]
    BY <2>1 DEF TypeOK
  <2>5. /\ calls'[c].at = "handled" /\ calls'[c].found = valid
        /\ calls'[c].of = calls[c].of /\ calls'[c].route = calls[c].route
    BY <2>1 DEF TypeOK
  <2>6. QED
    BY <2>1, <2>2, <2>3, <2>4, <2>5, ZenonT(40)
       DEF AnswersOK, InProgressOK, HandledOK, AnswersAreTrue, At, Target
<1>4. ASSUME NEW c \in Call, Respond(c) PROVE AnswersOK'
  <2>1. PICK a : Finish(c, a) /\ (a = "data" <=> calls[c].found)
    BY <1>4 DEF Respond, NoData
  <2>2. QED
    BY <1>4, <2>1, EndOK DEF Respond, AnswersOK, HandledOK
<1>5. ASSUME NEW c \in Call, Break(c) \/ TimeOut(c) PROVE AnswersOK'
  <2>1. PICK a : Finish(c, a) /\ a # "data"
    BY <1>5 DEF Break, TimeOut, NoData
  <2>2. ~up[Target(c)] /\ ~At(c, "done") /\ UNCHANGED <<up, present, sure>>
    BY <1>5 DEF Break, TimeOut, At
  <2>3. ~sure[c]
    BY <2>2 DEF AnswersOK, InProgressOK
  <2>4. QED
    BY <2>1, <2>2, <2>3, EndOK
<1>6. ASSUME NEW s \in Service, HalfOpen(s) \/ Roll(s) \/ DoLate(s) PROVE AnswersOK'
  <2>1. UNCHANGED <<calls, sure, up>> /\ present \subseteq present'
    BY <1>6 DEF HalfOpen, Roll, DoLate
  <2>2. QED
    BY <2>1, NothingTakenBack
<1>7. ASSUME NEW s \in Service, Fall(s) \/ Recover(s) PROVE AnswersOK'
  <2>1. UNCHANGED <<calls, present>>
    BY <1>7 DEF Fall, Recover
  <2>2. ASSUME NEW c \in Call, sure'[c], ~At(c, "done")
        PROVE  sure[c] /\ (up[Target(c)] => up'[Target(c)])
    <3>1. Target(c) \in Service
      BY <2>2 DEF TargetOK
    <3>2. CASE Fall(s)
      BY <2>2, <3>1, <3>2 DEF Fall, TypeOK
    <3>3. CASE Recover(s)
      BY <2>2, <3>1, <3>3 DEF Recover, TypeOK
    <3>4. QED
      BY <1>7, <3>2, <3>3
  <2>3. \A c \in Call : sure'[c] => sure[c]
    BY <1>7 DEF Fall, Recover, TypeOK
  <2>4. QED
    BY <2>1, <2>2, <2>3 DEF AnswersOK, InProgressOK, HandledOK, AnswersAreTrue, At, Target
<1>8. CASE UNCHANGED vars
  BY <1>8, NothingTakenBack DEF vars
<1>9. QED
  BY <1>1, <1>2, <1>3, <1>4, <1>5, <1>6, <1>7, <1>8 DEF Next

\* Every step preserves the invariant.
LEMMA StepOK == IInv /\ [Next]_vars => IInv'
BY TypeStep, AnswersStep DEF IInv, AnswersOK

\* The state of the gateways stays well formed, and a breaker has a probe to
\* come only while it is half open.
THEOREM TypeCorrect == Spec => []TypeOK
<1>1. IInv => TypeOK
  BY DEF IInv
<1>2. QED
  BY <1>1, InitOK, StepOK, PTL DEF Spec

\* Data is answered only when it is there, and nothing but a breaker that was
\* not closed, or a service that fell behind, hides what exists.
THEOREM AnswersTrue == Spec => []AnswersAreTrue
<1>1. IInv => AnswersAreTrue
  BY DEF IInv
<1>2. QED
  BY <1>1, InitOK, StepOK, PTL DEF Spec

-----------------------------------------------------------------------------
(* The rate limiter *)

\* What makes RateIsBounded inductive: an entry let through is still in the
\* sorted set as long as any check that is under way or to come may need it,
\* and the key lives as long as its entries matter.
StillCounted ==
  /\ \A a \in admitted : a + Window > now => a \in entries
  /\ \A e \in entries : e + Window <= expiry

LimiterInv == LimiterTypeOK /\ StillCounted /\ RateIsBounded

\* The times let through that one span contains, seen from its last tick.
Span(t) == {a \in admitted : a <= t /\ t < a + Window - Delay}

-----------------------------------------------------------------------------
\* Sets of times up to now are finite.
LEMMA TimesFinite ==
  ASSUME NEW n \in Nat, NEW S, S \subseteq 0..n
  PROVE  IsFiniteSet(S)
BY FS_Interval, FS_Subset, 0 \in Int, n \in Int

\* The initial state satisfies the invariant: nothing has been let through.
LEMMA LimiterInitOK == LimiterInit => LimiterInv
<1> SUFFICES ASSUME LimiterInit PROVE LimiterInv
  OBVIOUS
<1> USE RateLimiterAssumption DEF LimiterInit
<1>1. LimiterTypeOK
  BY DEF LimiterTypeOK, Time, NoCheck
<1>2. StillCounted
  BY DEF StillCounted
<1>3. RateIsBounded
  <2> SUFFICES ASSUME NEW t \in Time
               PROVE  Cardinality({a \in admitted : a <= t /\ t < a + Window - Delay}) <= MaxRequests
    BY DEF RateIsBounded
  <2>1. {a \in admitted : a <= t /\ t < a + Window - Delay} = {}
    OBVIOUS
  <2>2. QED
    BY <2>1, FS_EmptySet
<1>4. QED
  BY <1>1, <1>2, <1>3 DEF LimiterInv

\* Every step keeps the variables in their ranges.
LEMMA LimiterTypeStep == LimiterTypeOK /\ [LimiterNext]_limiter => LimiterTypeOK'
<1> SUFFICES ASSUME LimiterTypeOK, [LimiterNext]_limiter PROVE LimiterTypeOK'
  OBVIOUS
<1> USE RateLimiterAssumption DEF LimiterTypeOK, Time, NoCheck, redis
<1>1. CASE Tick
  BY <1>1 DEF Tick, NoCheck
<1>2. ASSUME NEW p \in Process, InitRedis(p) PROVE LimiterTypeOK'
  BY <1>2 DEF InitRedis, Becomes
<1>3. ASSUME NEW p \in Process, Connect(p) PROVE LimiterTypeOK'
  BY <1>3 DEF Connect, Becomes
<1>4. ASSUME NEW p \in Process, ConnectFails(p) PROVE LimiterTypeOK'
  BY <1>4 DEF ConnectFails, Becomes, Fault
<1>5. ASSUME NEW p \in Process, CloseRedis(p) PROVE LimiterTypeOK'
  BY <1>5 DEF CloseRedis, Becomes
<1>6. ASSUME NEW p \in Process, Check(p) PROVE LimiterTypeOK'
  BY <1>6 DEF Check
<1>7. ASSUME NEW p \in Process, CheckFails(p) PROVE LimiterTypeOK'
  BY <1>7 DEF CheckFails, Fault
<1>8. ASSUME NEW p \in Process, Execute(p) PROVE LimiterTypeOK'
  <2>1. checks[p] \in 0..now /\ Kept(checks[p]) \subseteq entries
    BY <1>8 DEF Execute, Kept
  <2>2. /\ entries' = Kept(checks[p]) \cup {checks[p]} /\ expiry' = now + Window
        /\ admitted' \subseteq admitted \cup {checks[p]}
        /\ checks' = [checks EXCEPT ![p] = NoCheck]
        /\ UNCHANGED <<now, client, faults>>
    BY <1>8 DEF Execute
  <2>3. entries' \subseteq 0..now'
    BY <2>1, <2>2
  <2>4. admitted' \subseteq 0..now'
    BY <2>1, <2>2
  <2>5. expiry' \in 0..(now' + Window)
    BY <2>2
  <2>6. checks' \in [Process -> Time \cup {NoCheck}]
    BY <2>2
  <2>7. \A q \in Process : checks'[q] # NoCheck =>
          client'[q] \in {"created", "open"} /\ checks'[q] <= now' /\ now' <= checks'[q] + Delay
    BY <2>2
  <2>8. now' \in Time /\ client' \in [Process -> {"none", "created", "open", "failed"}]
        /\ faults' \in 0..MaxFaults
    BY <2>2
  <2> HIDE DEF Time, NoCheck, redis
  <2>9. QED
    BY <2>3, <2>4, <2>5, <2>6, <2>7, <2>8
<1>9. CASE UNCHANGED limiter
  BY <1>9 DEF limiter
<1> HIDE DEF LimiterTypeOK, Time, NoCheck, redis
<1>10. QED
  BY <1>1, <1>2, <1>3, <1>4, <1>5, <1>6, <1>7, <1>8, <1>9 DEF LimiterNext

\* A check that is let through finds every entry of its span among those it
\* keeps: it is at most Delay late, and the entries were not dropped earlier
\* than Window after their time.
LEMMA SpanIsKept ==
  ASSUME LimiterTypeOK, StillCounted, NEW p \in Process, checks[p] # NoCheck,
         NEW t \in Time, checks[p] <= t, t < checks[p] + Window - Delay
  PROVE  Span(t) \subseteq Kept(checks[p])
<1> SUFFICES ASSUME NEW a \in Span(t) PROVE a \in Kept(checks[p])
  OBVIOUS
<1> USE RateLimiterAssumption DEF Time
<1>1. a \in admitted /\ a \in Nat /\ now \in Nat /\ checks[p] \in Nat
  BY DEF Span, LimiterTypeOK
<1>2. now <= checks[p] + Delay
  BY DEF LimiterTypeOK
<1>3. t < a + Window - Delay
  BY DEF Span
<1>4. a + Window > now /\ a + Window > checks[p]
  BY <1>1, <1>2, <1>3
<1>5. a \in entries /\ now < expiry
  BY <1>1, <1>4 DEF StillCounted, LimiterTypeOK
<1>6. QED
  BY <1>4, <1>5, <1>1 DEF Kept, LimiterTypeOK

\* Executing a check keeps the entries that matter and the bound.
LEMMA ExecuteOK ==
  ASSUME LimiterInv, LimiterTypeOK', NEW p \in Process, Execute(p)
  PROVE  StillCounted' /\ RateIsBounded'
<1> USE RateLimiterAssumption
<1> DEFINE c == checks[p]
<1>1. c \in Nat /\ c <= now /\ now <= c + Delay /\ c # NoCheck /\ now \in Nat /\ now' = now
  BY DEF LimiterInv, LimiterTypeOK, Execute, Time
<1>2. entries' = Kept(c) \cup {c} /\ expiry' = now + Window
  BY DEF Execute
<1>3. admitted' \subseteq admitted \cup {c}
  BY DEF Execute
<1>4. StillCounted'
  <2>1. ASSUME NEW a \in admitted', a + Window > now PROVE a \in entries'
    <3>1. CASE a = c
      BY <3>1, <1>2
    <3>2. CASE a \in admitted
      <4>1. a \in entries /\ a \in Nat
        BY <3>2, <2>1 DEF LimiterInv, StillCounted, LimiterTypeOK
      <4>2. now < expiry
        BY <4>1, <2>1, <1>1 DEF LimiterInv, StillCounted, LimiterTypeOK
      <4>3. a + Window > c
        BY <4>1, <2>1, <1>1
      <4>4. QED
        BY <4>1, <4>2, <4>3, <1>1, <1>2 DEF Kept, LimiterInv, LimiterTypeOK
    <3>3. QED
      BY <3>1, <3>2, <1>3
  <2>2. ASSUME NEW e \in entries' PROVE e + Window <= expiry'
    BY <1>1, <1>2, <2>2 DEF LimiterTypeOK
  <2>3. QED
    BY <2>1, <2>2, <1>1 DEF StillCounted
<1>5. RateIsBounded'
  <2> SUFFICES ASSUME NEW t \in Time PROVE Cardinality(Span(t)') <= MaxRequests
    BY DEF RateIsBounded, Span
  <2>1. IsFiniteSet(Span(t)) /\ Cardinality(Span(t)) \in Nat /\ Cardinality(Span(t)) <= MaxRequests
    <3>1. Span(t) \subseteq 0..now
      BY DEF LimiterInv, LimiterTypeOK, Span
    <3>2. QED
      BY <3>1, <1>1, TimesFinite, FS_CardinalityType DEF LimiterInv, RateIsBounded, Span
  <2>2. CASE Span(t)' \subseteq Span(t)
    BY <2>1, <2>2, FS_Subset, FS_CardinalityType
  <2>3. CASE ~(Span(t)' \subseteq Span(t))
    <3>1. /\ admitted' = admitted \cup {c}
          /\ Allowed(Cardinality(Kept(c)))
          /\ c <= t /\ t < c + Window - Delay
      BY <2>3 DEF Span, Execute
    <3>2. Span(t) \subseteq Kept(c)
      BY <3>1, <1>1, SpanIsKept DEF LimiterInv
    <3>3. Kept(c) \subseteq 0..now
      BY DEF Kept, LimiterInv, LimiterTypeOK
    <3>4. IsFiniteSet(Kept(c)) /\ Cardinality(Kept(c)) \in Nat /\ Cardinality(Kept(c)) < MaxRequests
      BY <3>1, <3>3, <1>1, TimesFinite, FS_CardinalityType DEF Allowed
    <3>5. Cardinality(Span(t)) <= Cardinality(Kept(c))
      BY <3>2, <3>4, FS_Subset
    <3>6. Span(t)' \subseteq Span(t) \cup {c}
      BY <3>1 DEF Span
    <3>7. IsFiniteSet(Span(t) \cup {c}) /\ Cardinality(Span(t) \cup {c}) <= Cardinality(Span(t)) + 1
      BY <2>1, FS_AddElement
    <3>8. Cardinality(Span(t)') <= Cardinality(Span(t) \cup {c})
      BY <3>6, <3>7, FS_Subset
    <3>9. QED
      BY <2>1, <3>4, <3>5, <3>7, <3>8, FS_CardinalityType, FS_Subset, <3>6
  <2>4. QED
    BY <2>2, <2>3
<1>6. QED
  BY <1>4, <1>5

\* Every step preserves the invariant.
LEMMA LimiterStepOK == LimiterInv /\ [LimiterNext]_limiter => LimiterInv'
<1> SUFFICES ASSUME LimiterInv, [LimiterNext]_limiter PROVE LimiterInv'
  OBVIOUS
<1>1. LimiterTypeOK'
  BY LimiterTypeStep DEF LimiterInv
<1>2. CASE Tick
  <2>1. StillCounted'
    BY <1>2, RateLimiterAssumption DEF LimiterInv, StillCounted, Tick, redis, LimiterTypeOK, Time
  <2>2. RateIsBounded'
    BY <1>2 DEF LimiterInv, RateIsBounded, Tick
  <2>3. QED
    BY <1>1, <2>1, <2>2 DEF LimiterInv
<1>3. ASSUME NEW p \in Process, Execute(p) PROVE LimiterInv'
  BY <1>1, <1>3, ExecuteOK DEF LimiterInv
<1>4. CASE UNCHANGED <<now, redis, admitted>>
  <2>1. StillCounted' /\ RateIsBounded'
    BY <1>4 DEF LimiterInv, StillCounted, RateIsBounded, redis
  <2>2. QED
    BY <1>1, <2>1 DEF LimiterInv
<1>5. QED
  BY <1>2, <1>3, <1>4
     DEF LimiterNext, limiter, InitRedis, Connect, ConnectFails, CloseRedis, Check, CheckFails

\* The variables stay in their ranges, and no check is executed more than
\* Delay late or without its client.
THEOREM LimiterTypeCorrect == LimiterSpec => []LimiterTypeOK
<1>1. LimiterInv => LimiterTypeOK
  BY DEF LimiterInv
<1>2. QED
  BY <1>1, LimiterInitOK, LimiterStepOK, PTL DEF LimiterSpec

\* checkRateLimit, executed at most Delay late, lets through at most
\* MaxRequests different times in any span of Window less Delay.
THEOREM LimitKept == LimiterSpec => []RateIsBounded
<1>1. LimiterInv => RateIsBounded
  BY DEF LimiterInv
<1>2. QED
  BY <1>1, LimiterInitOK, LimiterStepOK, PTL DEF LimiterSpec
=============================================================================
