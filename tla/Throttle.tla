------------------------------ MODULE Throttle ------------------------------
(***************************************************************************)
(* How a process of the crawler asks a host for a page: the circuit        *)
(* breaker and the retries of app/adapters/http/transport.py around the    *)
(* token bucket of app/adapters/http/ratelimit.py.  The bucket is one row  *)
(* that all processes share; the breaker belongs to its process, which     *)
(* asks for one page at a time.                                            *)
(*                                                                         *)
(* A caller reads the clock, then waits for the lock on the row, and then  *)
(* refills the bucket up to the time it has read.  A caller that finds no  *)
(* row inserts one and goes on without a lock.                             *)
(***************************************************************************)
EXTENDS Integers, FiniteSets

CONSTANTS
  Process,        \* processes with a transport of their own
  Rate,           \* tokens of a tick of the clock, BucketConfig.rate_per_s
  Burst,          \* BucketConfig.burst
  MaxRetries,     \* TransportConfig.max_retries
  FailThreshold,  \* circuit_fail_threshold
  ResetTimeout,   \* circuit_reset_timeout_s, in ticks
  MaxBackoff,     \* bound: ticks of a back-off or of a Retry-After
  MaxTime,        \* bound: ticks of the clock
  Seeded          \* whether the row of the bucket exists already

ASSUME ProcessAssumption == IsFiniteSet(Process) /\ Process # {}
ASSUME RatesAssumption == {Rate, Burst, FailThreshold, ResetTimeout} \subseteq Nat \ {0}
ASSUME BoundsAssumption == {MaxRetries, MaxBackoff, MaxTime} \subseteq Nat
ASSUME SeededAssumption == Seeded \in BOOLEAN

Time == 0..MaxTime
Bucket == [tokens : 0..Burst, updated : Time]
NoBucket == [tokens |-> -1, updated |-> 0]
Never == -1

VARIABLES
  now,
  bucket,         \* the row of rate_limits
  pc,             \* where HttpTransport.get is, and acquire within it
  clock,          \* the time _try_take has read
  seen,           \* the row it has read without a lock
  until,          \* the time it sleeps until
  attempt,        \* of get
  failures,       \* CircuitBreaker._failures
  opened,         \* CircuitBreaker._opened_at
  \* History.
  granted,        \* tokens taken by all
  setBack,        \* ticks by which writes have set updated_at back
  overwritten     \* writes of an unlocked reader over another's

limiter == <<bucket, clock, seen, granted, setBack, overwritten>>
breaker == <<failures, opened>>
vars == <<now, limiter, pc, until, attempt, breaker>>

Stages == {"idle", "clock", "lock", "missing", "unlocked", "writing",
           "sleeping", "sending", "backoff"}

TypeOK ==
  /\ now \in Time
  /\ bucket \in Bucket \cup {NoBucket}
  /\ pc \in [Process -> Stages]
  /\ clock \in [Process -> Time]
  /\ seen \in [Process -> Bucket \cup {NoBucket}]
  /\ until \in [Process -> 0..(MaxTime + MaxBackoff + 1)]
  /\ attempt \in [Process -> 0..(MaxRetries + 1)]
  /\ failures \in [Process -> Nat]
  /\ opened \in [Process -> Time \cup {Never}]
  /\ {granted, setBack, overwritten} \subseteq Nat

Init ==
  /\ now = 0
  /\ bucket = IF Seeded THEN [tokens |-> Burst, updated |-> 0] ELSE NoBucket
  /\ pc = [p \in Process |-> "idle"]
  /\ clock = [p \in Process |-> 0]
  /\ seen = [p \in Process |-> NoBucket]
  /\ until = [p \in Process |-> 0]
  /\ attempt = [p \in Process |-> 0]
  /\ failures = [p \in Process |-> 0]
  /\ opened = [p \in Process |-> Never]
  /\ granted = 0 /\ setBack = 0 /\ overwritten = 0

Tick ==
  /\ now < MaxTime
  /\ now' = now + 1
  /\ UNCHANGED <<limiter, pc, until, attempt, breaker>>

Goes(p, stage) == pc' = [pc EXCEPT ![p] = stage]
AtMost(a, b) == IF a < b THEN a ELSE b
AtLeast(a, b) == IF a > b THEN a ELSE b

----------------------------------------------------------------------------
(* HttpTransport.get *)

\* Mutant: the circuit is half open as soon as the clock has moved.
OpenOneTick(p) == opened[p] # Never /\ now - opened[p] < 1

\* Half open lets every request through, and the next failure opens it again.
Open(p) == opened[p] # Never /\ now - opened[p] < ResetTimeout

\* An open circuit raises CircuitOpen before anything is asked or changed.
Call(p) ==
  /\ pc[p] = "idle" /\ ~Open(p)
  /\ attempt' = [attempt EXCEPT ![p] = 1]
  /\ Goes(p, "clock")
  /\ UNCHANGED <<now, limiter, until, breaker>>

\* 2xx, a status the caller allows, or an error that no retry can help.
Answered(p) ==
  /\ pc[p] = "sending"
  /\ failures' = [failures EXCEPT ![p] = 0]
  /\ opened' = [opened EXCEPT ![p] = Never]
  /\ attempt' = [attempt EXCEPT ![p] = 0]
  /\ Goes(p, "idle")
  /\ UNCHANGED <<now, limiter, until>>

\* A timeout, a network error or a status to retry: sleep, for as long as the
\* host says or at random, unless that was the last attempt.
Failed(p) ==
  /\ pc[p] = "sending"
  /\ failures' = [failures EXCEPT ![p] = @ + 1]
  /\ opened' = IF failures[p] + 1 >= FailThreshold
               THEN [opened EXCEPT ![p] = now] ELSE opened
  /\ IF attempt[p] > MaxRetries
     THEN /\ Goes(p, "idle")
          /\ attempt' = [attempt EXCEPT ![p] = 0]
          /\ UNCHANGED until
     ELSE /\ Goes(p, "backoff")
          /\ \E delay \in 0..MaxBackoff : until' = [until EXCEPT ![p] = now + delay]
          /\ UNCHANGED attempt
  /\ UNCHANGED <<now, limiter>>

\* The next attempt asks the breaker first, and ends the call when it is open.
Retry(p) ==
  /\ pc[p] = "backoff" /\ now >= until[p]
  /\ IF Open(p)
     THEN Goes(p, "idle") /\ attempt' = [attempt EXCEPT ![p] = 0]
     ELSE Goes(p, "clock") /\ attempt' = [attempt EXCEPT ![p] = @ + 1]
  /\ UNCHANGED <<now, limiter, until, breaker>>

----------------------------------------------------------------------------
(* RateLimiter.acquire *)

ReadClock(p) ==
  /\ pc[p] = "clock"
  /\ clock' = [clock EXCEPT ![p] = now]
  /\ Goes(p, "lock")
  /\ UNCHANGED <<now, bucket, seen, until, attempt, breaker, granted,
                 setBack, overwritten>>

\* Mutant: what is refilled is not limited to the burst.
RefilledUncapped(p, row) ==
  [tokens |-> row.tokens + Rate * AtLeast(0, clock[p] - row.updated),
   updated |-> clock[p]]

\* Mutant: a token is taken and the refill it came from is not used up.
RefilledUnstamped(p, row) ==
  [tokens |-> AtMost(Burst, row.tokens + Rate * AtLeast(0, clock[p] - row.updated)),
   updated |-> row.updated]

\* The clock may be behind the row: then nothing has elapsed, but the row is
\* set back to it all the same.
Refilled(p, row) ==
  [tokens |-> AtMost(Burst, row.tokens + Rate * AtLeast(0, clock[p] - row.updated)),
   updated |-> clock[p]]

\* Write back the row that was read, less a token if there is one; else sleep
\* for as long as a token takes.
TakeFrom(p, row) ==
  LET full == Refilled(p, row)
      taken == full.tokens >= 1
  IN  /\ bucket' = IF taken THEN [full EXCEPT !.tokens = @ - 1] ELSE full
      /\ granted' = IF taken THEN granted + 1 ELSE granted
      /\ setBack' = setBack + AtLeast(0, bucket.updated - full.updated)
      /\ Goes(p, IF taken THEN "sending" ELSE "sleeping")
      /\ until' = IF taken THEN until ELSE [until EXCEPT ![p] = now + 1]

\* With the lock on the row.
Take(p) ==
  /\ pc[p] = "lock" /\ bucket # NoBucket
  /\ TakeFrom(p, bucket)
  /\ UNCHANGED <<now, clock, seen, attempt, breaker, overwritten>>

Missing(p) ==
  /\ pc[p] = "lock" /\ bucket = NoBucket
  /\ Goes(p, "missing")
  /\ UNCHANGED <<now, limiter, until, attempt, breaker>>

\* INSERT ... ON CONFLICT DO NOTHING, and commit.
Insert(p) ==
  /\ pc[p] = "missing"
  /\ bucket' = IF bucket = NoBucket THEN [tokens |-> Burst, updated |-> clock[p]]
               ELSE bucket
  /\ Goes(p, "unlocked")
  /\ UNCHANGED <<now, clock, seen, until, attempt, breaker, granted,
                 setBack, overwritten>>

ReadUnlocked(p) ==
  /\ pc[p] = "unlocked"
  /\ seen' = [seen EXCEPT ![p] = bucket]
  /\ Goes(p, "writing")
  /\ UNCHANGED <<now, bucket, clock, until, attempt, breaker, granted,
                 setBack, overwritten>>

WriteUnlocked(p) ==
  /\ pc[p] = "writing"
  /\ TakeFrom(p, seen[p])
  /\ overwritten' = IF bucket # seen[p] THEN overwritten + 1 ELSE overwritten
  /\ seen' = [seen EXCEPT ![p] = NoBucket]
  /\ UNCHANGED <<now, clock, attempt, breaker>>

WakeUp(p) ==
  /\ pc[p] = "sleeping" /\ now >= until[p]
  /\ Goes(p, "clock")
  /\ UNCHANGED <<now, limiter, until, attempt, breaker>>

----------------------------------------------------------------------------

Step(p) ==
  \/ Call(p) \/ Answered(p) \/ Failed(p) \/ Retry(p)
  \/ ReadClock(p) \/ Take(p) \/ Missing(p) \/ Insert(p)
  \/ ReadUnlocked(p) \/ WriteUnlocked(p) \/ WakeUp(p)

Next == Tick \/ \E p \in Process : Step(p)

Spec == Init /\ [][Next]_vars

----------------------------------------------------------------------------
(* Properties *)

\* Refuted: the bucket is "exact at any worker count" (ratelimit.py:3-5).
RateKept == granted <= Burst + Rate * now

\* All processes together ask no more than the bucket allows, but for what a
\* stale clock refills twice, when a caller waits for the row behind one that
\* read the clock after it, and for a bucketful at most with each write of a
\* caller that read the new row without its lock (_try_take).
OvergrantExplained ==
  granted <= Burst * (1 + overwritten) + Rate * (now + setBack)

\* Whatever a call waits for after it has asked the breaker, a request leaves
\* the process only when its circuit is closed or the reset timeout has passed
\* since the failure that opened it last (get, before_request, on_failure).
SilentWhileOpen ==
  [][\A p \in Process :
       (pc[p] = "sending" /\ pc'[p] # "sending" /\ opened[p] # Never)
         => now - opened[p] >= ResetTimeout]_vars
=============================================================================
