----------------------------- MODULE RateLimiter -----------------------------
(***************************************************************************)
(* The sliding window rate limiter of CacheService, and the Redis client   *)
(* it goes through.                                                        *)
(*                                                                         *)
(* A check takes the time, then sends one transaction to Redis that drops  *)
(* the entries older than the window, counts the others and adds its own.  *)
(* Entries are named by their time, so the checks of one millisecond share *)
(* one; and the transaction may be queued, so that it is executed after    *)
(* those of later checks.  Without Redis every request is allowed.         *)
(***************************************************************************)
EXTENDS Naturals, FiniteSets

CONSTANTS
  Process,     \* instances that share the limit of a key
  MaxRequests, \* requests allowed in a window
  Window,      \* windowSeconds, in ticks of the clock
  Delay,       \* how late a check may be executed
  MaxTime,     \* bound: ticks of the clock
  MaxFaults    \* bound: connections that fail or break

ASSUME RateLimiterAssumption ==
  /\ MaxRequests \in Nat \ {0}
  /\ Window \in Nat \ {0} /\ Delay \in 0..Window
  /\ MaxTime \in Nat /\ MaxFaults \in Nat

VARIABLES
  now,      \* Date.now(), the same for all instances
  client,   \* redisClient of each instance
  checks,   \* the time each instance's check took, until it is executed
  entries,  \* the sorted set of the key, by score
  expiry,   \* when Redis drops the key
  admitted, \* history: the times of the checks Redis let through
  faults    \* faults so far

redis == <<entries, expiry>>
limiter == <<now, client, checks, redis, admitted, faults>>

Time == 0..MaxTime
NoCheck == MaxTime + 1

-----------------------------------------------------------------------------
LimiterInit ==
  /\ now = 0
  /\ client = [p \in Process |-> "none"]
  /\ checks = [p \in Process |-> NoCheck]
  /\ entries = {}
  /\ expiry = 0
  /\ admitted = {}
  /\ faults = 0

Fault ==
  /\ faults < MaxFaults
  /\ faults' = faults + 1

\* No check waits for longer than Delay.
Tick ==
  /\ now < MaxTime
  /\ \A p \in Process : checks[p] # NoCheck => now < checks[p] + Delay
  /\ now' = now + 1
  /\ UNCHANGED <<client, checks, redis, admitted, faults>>

(* The client *)

Becomes(p, state) == client' = [client EXCEPT ![p] = state]

\* initRedis creates the client, and only then waits for its connection.
InitRedis(p) ==
  /\ client[p] = "none"
  /\ Becomes(p, "created")
  /\ UNCHANGED <<now, checks, redis, admitted, faults>>

Connect(p) ==
  /\ client[p] = "created"
  /\ Becomes(p, "open")
  /\ UNCHANGED <<now, checks, redis, admitted, faults>>

\* A client that Redis refuses is kept, without its queue: later calls of
\* initRedis return it as it is.
ConnectFails(p) ==
  /\ client[p] = "created"
  /\ Fault
  /\ Becomes(p, "failed")
  /\ checks' = [checks EXCEPT ![p] = NoCheck]
  /\ UNCHANGED <<now, redis, admitted>>

CloseAtOnce(p) ==
  /\ client[p] \in {"open", "failed"}
  /\ Becomes(p, "none")
  /\ UNCHANGED <<now, checks, redis, admitted, faults>>

\* closeRedis: quit waits for the commands sent before it.
CloseRedis(p) ==
  /\ client[p] \in {"open", "failed"}
  /\ checks[p] = NoCheck
  /\ Becomes(p, "none")
  /\ UNCHANGED <<now, checks, redis, admitted, faults>>

(* checkRateLimit *)

\* A client that connects queues the check.  Without one, or when the check
\* fails, the request is allowed and nothing is counted.
Check(p) ==
  /\ client[p] \in {"created", "open"}
  /\ checks[p] = NoCheck
  /\ checks' = [checks EXCEPT ![p] = now]
  /\ UNCHANGED <<now, client, redis, admitted, faults>>

CheckFails(p) ==
  /\ checks[p] # NoCheck
  /\ Fault
  /\ checks' = [checks EXCEPT ![p] = NoCheck]
  /\ UNCHANGED <<now, client, redis, admitted>>

\* The entries in the window of a check of time t, if the key has not expired.
Kept(t) == IF now >= expiry THEN {} ELSE {e \in entries : e + Window > t}

AllowedOneMore(n) == n <= MaxRequests
Allowed(n) == n < MaxRequests

\* A rejected check is added too.
Execute(p) ==
  LET t == checks[p]
  IN  /\ t # NoCheck
      /\ client[p] = "open"
      /\ entries' = Kept(t) \cup {t}
      /\ expiry' = now + Window
      /\ admitted' = IF Allowed(Cardinality(Kept(t))) THEN admitted \cup {t} ELSE admitted
      /\ checks' = [checks EXCEPT ![p] = NoCheck]
      /\ UNCHANGED <<now, client, faults>>

-----------------------------------------------------------------------------
LimiterNext ==
  \/ Tick
  \/ \E p \in Process :
       \/ InitRedis(p) \/ Connect(p) \/ ConnectFails(p) \/ CloseRedis(p)
       \/ Check(p) \/ CheckFails(p) \/ Execute(p)

LimiterSpec == LimiterInit /\ [][LimiterNext]_limiter

-----------------------------------------------------------------------------
(* Correctness *)

\* Every variable stays in its range, and a check waits at most for Delay.
LimiterTypeOK ==
  /\ now \in Time
  /\ client \in [Process -> {"none", "created", "open", "failed"}]
  /\ checks \in [Process -> Time \cup {NoCheck}]
  /\ \A p \in Process : checks[p] # NoCheck =>
       client[p] \in {"created", "open"} /\ checks[p] <= now /\ now <= checks[p] + Delay
  /\ entries \subseteq 0..now
  /\ expiry \in 0..(now + Window)
  /\ admitted \subseteq 0..now
  /\ faults \in 0..MaxFaults

\* The limiter keeps its promise up to the delays of Redis: in any span of
\* Window less Delay, Redis lets checks through at no more than MaxRequests
\* different times.  Checks of one millisecond count as one, and what is
\* allowed without Redis does not count.
RateIsBounded ==
  \A t \in Time :
    Cardinality({a \in admitted : a <= t /\ t < a + Window - Delay}) <= MaxRequests
=============================================================================
