------------------------------ MODULE Gateway ------------------------------
(***************************************************************************)
(* The two gateways in front of the services.                              *)
(*                                                                         *)
(* graphql-gateway asks for some resources through one circuit breaker per *)
(* service, with a fallback, and for others directly; its mutations go     *)
(* directly and without a timeout.  api-gateway passes requests on and     *)
(* gives up after ten seconds, whatever the service does with them.        *)
(* The breaker is that of the opossum library: how it counts and when it   *)
(* opens is modelled from its use, not from code of this repository.       *)
(***************************************************************************)
EXTENDS Naturals

CONSTANTS
  Service,   \* the services behind the gateways, with one resource each
  Call,      \* requests in progress at a time; each may be made again
  Threshold, \* errorThresholdPercentage of the breakers
  None,      \* no service
  MaxFires   \* bound: what the rolling counters of a breaker count to

ASSUME GatewayAssumption ==
  /\ Threshold \in 0..100
  /\ MaxFires \in Nat \ {0}
  /\ None \notin Service

VARIABLES
  up,      \* the service answers, and in time
  present, \* services whose resource exists
  breaker, \* the breaker of each service
  calls,   \* the requests, and how far they are
  late,    \* services that still have to do a write given up by api-gateway
  sure     \* history: nothing stood in the way of the request's answer

vars == <<up, present, breaker, calls, late, sure>>

Route == {"lookup", "fetch", "mutate", "proxy"}
Write(route) == route \in {"mutate", "proxy"}
Closed == [state |-> "closed", probe |-> FALSE, fires |-> 0, failures |-> 0]
Idle == [at |-> "done", route |-> "fetch", of |-> None, found |-> FALSE, answer |-> "none"]

-----------------------------------------------------------------------------
Init ==
  /\ up = [s \in Service |-> TRUE]
  /\ present = {}
  /\ breaker = [s \in Service |-> Closed]
  /\ calls = [c \in Call |-> Idle]
  /\ late = {}
  /\ sure = [c \in Call |-> FALSE]

At(c, place) == calls[c].at = place
Target(c) == calls[c].of

(* The breaker *)

\* One call passes a half-open breaker: the probe.
AdmitsProbe(b) == b.probe
Admits(b) == b.state = "closed" \/ b.probe

Fired(b) == [b EXCEPT !.fires = @ + 1, !.probe = FALSE]

\* Any success closes a half-open breaker, also of a call made before.
SucceededStuck(b) == b
SucceededProbing(b) == IF b.state = "halfOpen" THEN [b EXCEPT !.state = "closed"] ELSE b
Succeeded(b) ==
  IF b.state = "halfOpen" THEN [b EXCEPT !.state = "closed", !.probe = FALSE] ELSE b

\* Any failure opens a half-open breaker, and a closed one above the threshold:
\* there is no minimum number of calls.
Failed(b) ==
  LET n == IF b.failures < MaxFires THEN b.failures + 1 ELSE b.failures
  IN  IF b.state = "halfOpen" \/ n * 100 > b.fires * Threshold
      THEN [b EXCEPT !.failures = n, !.state = "open", !.probe = FALSE]
      ELSE [b EXCEPT !.failures = n]

\* resetTimeout after it opened.
HalfOpen(s) ==
  /\ breaker[s].state = "open"
  /\ breaker' = [breaker EXCEPT ![s].state = "halfOpen", ![s].probe = TRUE]
  /\ UNCHANGED <<up, present, calls, late, sure>>

\* A bucket of the rolling counters falls out of the window.
Roll(s) ==
  /\ \E f \in 0..breaker[s].fires, n \in 0..breaker[s].failures :
       /\ f + n < breaker[s].fires + breaker[s].failures
       /\ breaker' = [breaker EXCEPT ![s].fires = f, ![s].failures = n]
  /\ UNCHANGED <<up, present, calls, late, sure>>

(* Requests *)

Begin(c, route, s, place, answer) ==
  calls' = [calls EXCEPT ![c] =
    [at |-> place, route |-> route, of |-> s, found |-> FALSE, answer |-> answer]]

\* The fallback of a breaker has no data.  Resolvers answer it with null or an
\* empty list, and any failure with that or with an error.
NoData == "nothing"

\* callWithCircuitBreaker: a rejected call gets the fallback.
Lookup(c, s) ==
  /\ At(c, "done")
  /\ breaker[s].fires < MaxFires
  /\ breaker' = [breaker EXCEPT ![s] = Fired(@)]
  /\ IF Admits(breaker[s])
     THEN Begin(c, "lookup", s, "calling", "none")
     ELSE Begin(c, "lookup", s, "done", NoData)
  /\ sure' = [sure EXCEPT ![c] = up[s] /\ s \in present /\ breaker[s].state = "closed"]
  /\ UNCHANGED <<up, present, late>>

\* axios, or the fetch of api-gateway.
Ask(c, route, s) ==
  /\ At(c, "done")
  /\ Begin(c, route, s, "calling", "none")
  /\ sure' = [sure EXCEPT ![c] = up[s] /\ s \in present /\ ~Write(route)]
  /\ UNCHANGED <<up, present, breaker, late>>

\* The service reads the resource, writes it, or refuses the write.
Handle(c) ==
  /\ At(c, "calling")
  /\ up[Target(c)]
  /\ IF Write(calls[c].route)
     THEN \E valid \in BOOLEAN :
            /\ calls' = [calls EXCEPT ![c].at = "handled", ![c].found = valid]
            /\ present' = IF valid THEN present \cup {Target(c)} ELSE present
     ELSE /\ calls' = [calls EXCEPT ![c].at = "handled", ![c].found = Target(c) \in present]
          /\ UNCHANGED present
  /\ UNCHANGED <<up, breaker, late, sure>>

Finish(c, answer) == calls' = [calls EXCEPT ![c].at = "done", ![c].answer = answer]

Count(c, Outcome(_)) ==
  IF calls[c].route = "lookup"
  THEN breaker' = [breaker EXCEPT ![Target(c)] = Outcome(@)]
  ELSE UNCHANGED breaker

\* axios rejects every status that is not 2xx: a resource that does not exist
\* counts as a failure of the service.
Respond(c) ==
  /\ At(c, "handled")
  /\ up[Target(c)]
  /\ IF calls[c].found
     THEN Finish(c, "data") /\ Count(c, Succeeded)
     ELSE Finish(c, NoData) /\ Count(c, Failed)
  /\ UNCHANGED <<up, present, late, sure>>

\* The connection breaks.
Break(c) ==
  /\ calls[c].at \in {"calling", "handled"}
  /\ ~up[Target(c)]
  /\ Finish(c, NoData)
  /\ Count(c, Failed)
  /\ UNCHANGED <<up, present, late, sure>>

\* The breaker's timeout, or that of api-gateway, which answers 502 to a write
\* the service may yet do.
TimeOut(c) ==
  /\ calls[c].at \in {"calling", "handled"}
  /\ ~up[Target(c)]
  /\ calls[c].route \in {"lookup", "proxy"}
  /\ Finish(c, NoData)
  /\ Count(c, Failed)
  /\ late' = IF calls[c].route = "proxy" /\ At(c, "calling")
             THEN late \cup {Target(c)} ELSE late
  /\ UNCHANGED <<up, present, sure>>

(* The services *)

DoLate(s) ==
  /\ s \in late
  /\ up[s]
  /\ present' = present \cup {s}
  /\ late' = late \ {s}
  /\ UNCHANGED <<up, breaker, calls, sure>>

\* A service stops answering in time: no request to it can be sure any more.
Fall(s) ==
  /\ up[s]
  /\ up' = [up EXCEPT ![s] = FALSE]
  /\ sure' = [c \in Call |-> sure[c] /\ (At(c, "done") \/ Target(c) # s)]
  /\ UNCHANGED <<present, breaker, calls, late>>

Recover(s) ==
  /\ ~up[s]
  /\ up' = [up EXCEPT ![s] = TRUE]
  /\ UNCHANGED <<present, breaker, calls, late, sure>>

-----------------------------------------------------------------------------
Next ==
  \/ \E c \in Call :
       \/ \E s \in Service :
            Lookup(c, s) \/ \E route \in Route \ {"lookup"} : Ask(c, route, s)
       \/ Handle(c) \/ Respond(c) \/ Break(c) \/ TimeOut(c)
  \/ \E s \in Service : HalfOpen(s) \/ Roll(s) \/ DoLate(s) \/ Fall(s) \/ Recover(s)

Spec == Init /\ [][Next]_vars

\* A service that is up answers, and timers fire.
FairSpec ==
  /\ Spec
  /\ \A c \in Call : WF_vars(Handle(c)) /\ WF_vars(Respond(c)) /\ WF_vars(TimeOut(c))
  /\ \A s \in Service : WF_vars(HalfOpen(s))

-----------------------------------------------------------------------------
(* Correctness *)

\* Every variable stays in its range, and only a half-open breaker waits for
\* its probe.
TypeOK ==
  /\ up \in [Service -> BOOLEAN]
  /\ present \subseteq Service
  /\ breaker \in [Service -> [state : {"closed", "open", "halfOpen"}, probe : BOOLEAN,
                              fires : 0..MaxFires, failures : 0..MaxFires]]
  /\ \A s \in Service : breaker[s].probe => breaker[s].state = "halfOpen"
  /\ calls \in [Call -> [at : {"calling", "handled", "done"}, route : Route,
                         of : Service \cup {None}, found : BOOLEAN,
                         answer : {"none", "data", NoData}]]
  /\ late \subseteq Service
  /\ sure \in [Call -> BOOLEAN]

\* Data in an answer is there, and a write answered with data is done.  What
\* exists is answered with nothing only when the breaker was not closed at the
\* start or the service fell behind on the way: no request fails for what
\* another one did once its breaker let it through.
AnswersAreTrue ==
  \A c \in Call :
    At(c, "done") =>
      /\ calls[c].answer = "data" => Target(c) \in present
      /\ sure[c] => calls[c].answer = "data"

\* The health endpoint answers 200 when no breaker is open.
Healthy == \A s \in Service : breaker[s].state # "open"

\* Once the services answer and the resources asked for exist, and as long as
\* they are asked for, every breaker closes and stays closed, and the gateway
\* is healthy: a half-open breaker never waits for a probe that is not coming.
Recovers ==
  (\A s \in Service : <>[](up[s] /\ s \in present)
                      /\ []<><<\E c \in Call : Lookup(c, s)>>_vars)
  => <>[](Healthy /\ \A s \in Service : breaker[s].state = "closed")
=============================================================================
