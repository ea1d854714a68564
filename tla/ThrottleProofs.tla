--------------------------- MODULE ThrottleProofs ---------------------------
(***************************************************************************)
(* Theorems about Throttle, for any processes, rate, burst and thresholds. *)
(*                                                                         *)
(* What the bucket has granted is bounded by a potential: the tokens       *)
(* granted and those left are paid for by the burst, once more with each   *)
(* overwrite, and by the rate for the time that the row has been refilled  *)
(* for, which is its time stamp and all it was ever set back (GrantInv).   *)
(***************************************************************************)
EXTENDS Throttle, TLAPS

----------------------------------------------------------------------------
(* Arithmetic and types *)

LEMMA Constants ==
  /\ Rate \in Nat /\ Rate > 0 /\ Burst \in Nat /\ Burst > 0
  /\ FailThreshold \in Nat /\ ResetTimeout \in Nat /\ ResetTimeout > 0
  /\ MaxRetries \in Nat /\ MaxBackoff \in Nat /\ MaxTime \in Nat
BY RatesAssumption, BoundsAssumption

\* Products of a constant, so that no leaf needs more than linear arithmetic.
LEMMA Products ==
  ASSUME NEW k \in Nat, NEW a \in Nat, NEW b \in Nat
  PROVE  /\ k * a \in Nat
         /\ k * (a + b) = k * a + k * b
         /\ a <= b => k * a <= k * b
<1>1. k * a \in Nat /\ k * b \in Nat /\ k * (a + b) = k * a + k * b
  OBVIOUS
<1>2. ASSUME a <= b PROVE k * a <= k * b
  <2>1. PICK c \in Nat : b = a + c
    <3>1. b - a \in Nat /\ b = a + (b - a)
      BY <1>2
    <3> QED
      BY <3>1
  <2>2. k * b = k * a + k * c /\ k * c \in Nat
    BY <2>1
  <2> QED
    BY <1>1, <2>2
<1> QED
  BY <1>1, <1>2

LEMMA BucketParts ==
  /\ NoBucket \notin Bucket
  /\ \A b \in Bucket : b.tokens \in 0..Burst /\ b.updated \in Time
  /\ \A b \in Bucket \cup {NoBucket} : b.updated \in Time
BY Constants DEF NoBucket, Bucket, Time

\* Bounds and roles that the types of the variables need: an attempt is left
\* after a back-off, and who goes on without a lock has a row to go on with.
RoleInv ==
  \A p \in Process :
    /\ pc[p] = "backoff" => attempt[p] <= MaxRetries
    /\ pc[p] \in {"unlocked", "writing"} => bucket # NoBucket
    /\ pc[p] = "writing" => seen[p] # NoBucket

LEMMA RefilledTyped ==
  ASSUME TypeOK, NEW p \in Process, NEW row \in Bucket
  PROVE  /\ Refilled(p, row) \in Bucket
         /\ Refilled(p, row).updated = clock[p]
         /\ Refilled(p, row).tokens <=
              row.tokens + Rate * AtLeast(0, clock[p] - row.updated)
         /\ AtLeast(0, clock[p] - row.updated) \in Nat
<1> DEFINE e == AtLeast(0, clock[p] - row.updated)
<1>1. clock[p] \in Time /\ row.tokens \in 0..Burst /\ row.updated \in Time
  BY BucketParts DEF TypeOK
<1>2. e \in Nat
  BY <1>1, Constants DEF AtLeast, Time
<1>3. Rate * e \in Nat
  BY <1>2, Constants, Products
<1> DEFINE n == AtMost(Burst, row.tokens + Rate * e)
<1>4. n \in 0..Burst /\ n <= row.tokens + Rate * e
  <2> DEFINE x == Rate * e
  <2>1. x \in Nat
    BY <1>3
  <2> HIDE DEF x
  <2>2. AtMost(Burst, row.tokens + x) \in 0..Burst
        /\ AtMost(Burst, row.tokens + x) <= row.tokens + x
    BY <1>1, <2>1, Constants DEF AtMost
  <2> QED
    BY <2>2 DEF x
<1>5. Refilled(p, row) = [tokens |-> n, updated |-> clock[p]]
  BY DEF Refilled
<1> HIDE DEF n, e
<1>6. Refilled(p, row) \in Bucket /\ Refilled(p, row).tokens = n
      /\ Refilled(p, row).updated = clock[p]
  BY <1>1, <1>4, <1>5 DEF Bucket
<1> QED
  BY <1>2, <1>4, <1>6 DEF n, e

\* A write takes a token if the refilled row has one, and says until when to
\* wait for the next if it has none.
LEMMA TakeParts ==
  ASSUME TypeOK, NEW p \in Process, NEW row \in Bucket, TakeFrom(p, row)
  PROVE  /\ bucket' \in Bucket /\ bucket'.updated = clock[p]
         /\ granted' \in Nat /\ setBack' \in Nat
         /\ granted' + bucket'.tokens = granted + Refilled(p, row).tokens
         /\ setBack' = setBack + AtLeast(0, bucket.updated - clock[p])
         /\ until' \in [Process -> 0..(MaxTime + MaxBackoff + 1)]
         /\ pc' = [pc EXCEPT ![p] = "sending"] \/ pc' = [pc EXCEPT ![p] = "sleeping"]
<1> DEFINE full == Refilled(p, row)
<1>1. full \in Bucket /\ full.updated = clock[p] /\ full.tokens \in 0..Burst
  BY RefilledTyped, BucketParts
<1>2. clock[p] \in Time /\ now \in Time /\ granted \in Nat /\ setBack \in Nat
      /\ bucket.updated \in Time
  BY BucketParts DEF TypeOK
<1>3. /\ bucket' = IF full.tokens >= 1 THEN [full EXCEPT !.tokens = @ - 1] ELSE full
      /\ granted' = IF full.tokens >= 1 THEN granted + 1 ELSE granted
      /\ setBack' = setBack + AtLeast(0, bucket.updated - full.updated)
      /\ pc' = [pc EXCEPT ![p] = IF full.tokens >= 1 THEN "sending" ELSE "sleeping"]
      /\ until' = IF full.tokens >= 1 THEN until ELSE [until EXCEPT ![p] = now + 1]
  BY DEF TakeFrom, Goes
<1> HIDE DEF full
<1>4. /\ bucket' \in Bucket /\ bucket'.updated = clock[p]
      /\ granted' + bucket'.tokens = granted + full.tokens
  <2>1. CASE full.tokens >= 1
    <3>1. [full EXCEPT !.tokens = @ - 1] = [tokens |-> full.tokens - 1, updated |-> clock[p]]
      BY <1>1 DEF Bucket
    <3>2. bucket' = [tokens |-> full.tokens - 1, updated |-> clock[p]] /\ granted' = granted + 1
      BY <1>3, <2>1, <3>1
    <3> QED
      BY <1>1, <1>2, <2>1, <3>2, Constants DEF Bucket
  <2>2. CASE ~(full.tokens >= 1)
    BY <1>1, <1>2, <1>3, <2>2
  <2> QED
    BY <2>1, <2>2
<1>5. granted' \in Nat /\ setBack' \in Nat
  BY <1>1, <1>2, <1>3, Constants DEF AtLeast, Time
<1>6. until' \in [Process -> 0..(MaxTime + MaxBackoff + 1)]
  <2>1. now + 1 \in 0..(MaxTime + MaxBackoff + 1)
    BY <1>2, Constants DEF Time
  <2> QED
    BY <1>3, <2>1 DEF TypeOK
<1> QED
  BY <1>1, <1>3, <1>4, <1>5, <1>6 DEF full

LEMMA TypeInvariant == Spec => [](TypeOK /\ RoleInv)
<1>1. Init => TypeOK /\ RoleInv
  <2> SUFFICES ASSUME Init PROVE TypeOK /\ RoleInv
    OBVIOUS
  <2>1. 0 \in Time /\ [tokens |-> Burst, updated |-> 0] \in Bucket
    BY Constants DEF Time, Bucket
  <2>2. bucket \in Bucket \cup {NoBucket}
    BY <2>1 DEF Init
  <2>3. /\ seen \in [Process -> Bucket \cup {NoBucket}]
        /\ pc \in [Process -> Stages]
        /\ clock \in [Process -> Time]
        /\ until \in [Process -> 0..(MaxTime + MaxBackoff + 1)]
        /\ attempt \in [Process -> 0..(MaxRetries + 1)]
        /\ failures \in [Process -> Nat]
        /\ opened \in [Process -> Time \cup {Never}]
    BY <2>1, Constants DEF Init, Stages
  <2>4. now \in Time /\ {granted, setBack, overwritten} \subseteq Nat
    BY <2>1 DEF Init
  <2>5. RoleInv
    BY DEF Init, RoleInv
  <2> QED
    BY <2>2, <2>3, <2>4, <2>5 DEF TypeOK
<1>2. TypeOK /\ RoleInv /\ [Next]_vars => TypeOK' /\ RoleInv'
  <2> SUFFICES ASSUME TypeOK, RoleInv, [Next]_vars PROVE TypeOK' /\ RoleInv'
    OBVIOUS
  <2> USE DEF limiter, breaker, Goes
  <2>1. CASE Tick
    <3>1. now' \in Time
      BY <2>1, Constants DEF Tick, Time, TypeOK
    <3> QED
      BY <2>1, <3>1 DEF Tick, TypeOK, RoleInv
  <2>2. ASSUME NEW p \in Process, Call(p) PROVE TypeOK' /\ RoleInv'
    <3>1. attempt' \in [Process -> 0..(MaxRetries + 1)]
      BY <2>2, Constants DEF Call, TypeOK
    <3>2. TypeOK'
      BY <2>2, <3>1 DEF Call, TypeOK, Stages
    <3>3. RoleInv'
      BY <2>2 DEF Call, TypeOK, RoleInv
    <3> QED
      BY <3>2, <3>3
  <2>3. ASSUME NEW p \in Process, Answered(p) PROVE TypeOK' /\ RoleInv'
    <3>1. attempt' \in [Process -> 0..(MaxRetries + 1)]
      BY <2>3, Constants DEF Answered, TypeOK
    <3>2. TypeOK'
      BY <2>3, <3>1 DEF Answered, TypeOK, Stages
    <3>3. RoleInv'
      BY <2>3 DEF Answered, TypeOK, RoleInv
    <3> QED
      BY <3>2, <3>3
  <2>4. ASSUME NEW p \in Process, Failed(p) PROVE TypeOK' /\ RoleInv'
    <3>1. attempt' \in [Process -> 0..(MaxRetries + 1)]
      BY <2>4, Constants DEF Failed, TypeOK
    <3>2. until' \in [Process -> 0..(MaxTime + MaxBackoff + 1)]
      <4>1. \A delay \in 0..MaxBackoff : now + delay \in 0..(MaxTime + MaxBackoff + 1)
        BY Constants DEF TypeOK, Time
      <4> QED
        BY <2>4, <4>1 DEF Failed, TypeOK
    <3>3. pc' \in [Process -> Stages]
      BY <2>4 DEF Failed, TypeOK, Stages
    <3>4. /\ failures' \in [Process -> Nat]
          /\ opened' \in [Process -> Time \cup {Never}]
      BY <2>4 DEF Failed, TypeOK
    <3>5. UNCHANGED <<now, limiter>>
      BY <2>4 DEF Failed
    <3>6. TypeOK'
      BY <3>1, <3>2, <3>3, <3>4, <3>5 DEF TypeOK
    <3>7. ASSUME NEW q \in Process PROVE pc'[q] = "backoff" => attempt'[q] <= MaxRetries
      <4>1. CASE attempt[p] > MaxRetries
        BY <2>4, <4>1, Constants DEF Failed, TypeOK, RoleInv
      <4>2. CASE ~(attempt[p] > MaxRetries)
        BY <2>4, <4>2, Constants DEF Failed, TypeOK, RoleInv
      <4> QED
        BY <4>1, <4>2
    <3>8. ASSUME NEW q \in Process
          PROVE  /\ pc'[q] \in {"unlocked", "writing"} => bucket' # NoBucket
                 /\ pc'[q] = "writing" => seen'[q] # NoBucket
      BY <2>4, <3>5 DEF Failed, TypeOK, RoleInv
    <3> QED
      BY <3>6, <3>7, <3>8 DEF RoleInv
  <2>5. ASSUME NEW p \in Process, Retry(p) PROVE TypeOK' /\ RoleInv'
    <3>1. attempt' \in [Process -> 0..(MaxRetries + 1)]
      <4>1. attempt[p] + 1 \in 0..(MaxRetries + 1) /\ 0 \in 0..(MaxRetries + 1)
        BY <2>5, Constants DEF Retry, TypeOK, RoleInv
      <4> QED
        BY <2>5, <4>1 DEF Retry, TypeOK
    <3>2. TypeOK'
      BY <2>5, <3>1 DEF Retry, TypeOK, Stages
    <3>3. RoleInv'
      BY <2>5 DEF Retry, TypeOK, RoleInv
    <3> QED
      BY <3>2, <3>3
  <2>6. ASSUME NEW p \in Process, ReadClock(p) PROVE TypeOK' /\ RoleInv'
    BY <2>6 DEF ReadClock, TypeOK, RoleInv, Stages
  <2>7. ASSUME NEW p \in Process, Take(p) PROVE TypeOK' /\ RoleInv'
    <3>1. bucket \in Bucket /\ TakeFrom(p, bucket)
      BY <2>7 DEF Take, TypeOK
    <3>2. /\ bucket' \in Bucket /\ granted' \in Nat /\ setBack' \in Nat
          /\ until' \in [Process -> 0..(MaxTime + MaxBackoff + 1)]
          /\ pc' = [pc EXCEPT ![p] = "sending"] \/ pc' = [pc EXCEPT ![p] = "sleeping"]
      BY <3>1, TakeParts
    <3>3. UNCHANGED <<now, clock, seen, attempt, breaker, overwritten>>
      BY <2>7 DEF Take
    <3>4. TypeOK'
      BY <3>2, <3>3 DEF TypeOK, Stages
    <3>5. RoleInv'
      BY <3>2, <3>3, BucketParts DEF TypeOK, RoleInv
    <3> QED
      BY <3>4, <3>5
  <2>8. ASSUME NEW p \in Process, Missing(p) PROVE TypeOK' /\ RoleInv'
    BY <2>8 DEF Missing, TypeOK, RoleInv, Stages
  <2>9. ASSUME NEW p \in Process, Insert(p) PROVE TypeOK' /\ RoleInv'
    <3>1. bucket' \in Bucket
      BY <2>9, Constants DEF Insert, TypeOK, Bucket
    <3>2. TypeOK'
      BY <2>9, <3>1 DEF Insert, TypeOK, Stages
    <3>3. RoleInv'
      BY <2>9, <3>1, BucketParts DEF Insert, TypeOK, RoleInv
    <3> QED
      BY <3>2, <3>3
  <2>10. ASSUME NEW p \in Process, ReadUnlocked(p) PROVE TypeOK' /\ RoleInv'
    BY <2>10 DEF ReadUnlocked, TypeOK, RoleInv, Stages
  <2>11. ASSUME NEW p \in Process, WriteUnlocked(p) PROVE TypeOK' /\ RoleInv'
    <3>1. seen[p] \in Bucket /\ TakeFrom(p, seen[p])
      BY <2>11 DEF WriteUnlocked, TypeOK, RoleInv
    <3>2. /\ bucket' \in Bucket /\ granted' \in Nat /\ setBack' \in Nat
          /\ until' \in [Process -> 0..(MaxTime + MaxBackoff + 1)]
          /\ pc' = [pc EXCEPT ![p] = "sending"] \/ pc' = [pc EXCEPT ![p] = "sleeping"]
      BY <3>1, TakeParts
    <3>3. /\ UNCHANGED <<now, clock, attempt, breaker>>
          /\ seen' = [seen EXCEPT ![p] = NoBucket]
          /\ overwritten' \in Nat
      BY <2>11 DEF WriteUnlocked, TypeOK
    <3>4. TypeOK'
      BY <3>2, <3>3 DEF TypeOK, Stages
    <3>5. RoleInv'
      BY <3>2, <3>3, BucketParts DEF TypeOK, RoleInv
    <3> QED
      BY <3>4, <3>5
  <2>12. ASSUME NEW p \in Process, WakeUp(p) PROVE TypeOK' /\ RoleInv'
    BY <2>12 DEF WakeUp, TypeOK, RoleInv, Stages
  <2>13. CASE UNCHANGED vars
    BY <2>13 DEF vars, TypeOK, RoleInv
  <2> QED
    BY <2>1, <2>2, <2>3, <2>4, <2>5, <2>6, <2>7, <2>8, <2>9, <2>10, <2>11, <2>12, <2>13
    DEF Next, Step
<1> QED
  BY <1>1, <1>2, PTL DEF Spec

\* Every variable keeps its type: the bucket never holds less than nothing or
\* more than the burst, and no call is attempted more often than it may be.
THEOREM TypeCorrect == Spec => []TypeOK
BY TypeInvariant, PTL

----------------------------------------------------------------------------
(* The grants *)

\* No clock that was read and no time stamp is ahead of the clock.
ClockInv ==
  /\ bucket.updated <= now
  /\ \A p \in Process : clock[p] <= now

\* What the bucket has given and still holds, and what has paid for it.
GrantInv ==
  /\ bucket = NoBucket => granted = 0 /\ overwritten = 0 /\ setBack = 0
  /\ bucket # NoBucket =>
       granted + bucket.tokens
         <= Burst * (1 + overwritten) + Rate * (bucket.updated + setBack)

\* Who writes the row, and what the others leave of it.
LEMMA GrantSteps ==
  ASSUME TypeOK, RoleInv, [Next]_vars
  PROVE  \/ UNCHANGED <<bucket, granted, setBack, overwritten>>
         \/ \E p \in Process : Take(p)
         \/ \E p \in Process :
              /\ bucket = NoBucket /\ bucket' = [tokens |-> Burst, updated |-> clock[p]]
              /\ UNCHANGED <<now, clock, granted, setBack, overwritten>>
         \/ \E p \in Process : WriteUnlocked(p)
<1> USE DEF limiter
<1>1. CASE Tick \/ UNCHANGED vars
  BY <1>1 DEF Tick, vars
<1>2. ASSUME NEW p \in Process,
             \/ Call(p) \/ Answered(p) \/ Failed(p) \/ Retry(p) \/ ReadClock(p)
             \/ Missing(p) \/ ReadUnlocked(p) \/ WakeUp(p)
      PROVE  UNCHANGED <<bucket, granted, setBack, overwritten>>
  BY <1>2 DEF Call, Answered, Failed, Retry, ReadClock, Missing, ReadUnlocked, WakeUp
<1>3. ASSUME NEW p \in Process, Insert(p)
      PROVE  \/ UNCHANGED <<bucket, granted, setBack, overwritten>>
             \/ /\ bucket = NoBucket /\ bucket' = [tokens |-> Burst, updated |-> clock[p]]
                /\ UNCHANGED <<now, clock, granted, setBack, overwritten>>
  BY <1>3 DEF Insert
<1> QED
  BY <1>1, <1>2, <1>3 DEF Next, Step

LEMMA ClockInvariant == Spec => []ClockInv
<1>1. Init => ClockInv
  BY DEF Init, ClockInv, NoBucket
<1>2. TypeOK /\ RoleInv /\ ClockInv /\ [Next]_vars => ClockInv'
  <2> SUFFICES ASSUME TypeOK, RoleInv, ClockInv, [Next]_vars PROVE ClockInv'
    OBVIOUS
  <2> USE DEF limiter
  <2>1. now \in Nat /\ now' \in Nat /\ now <= now' /\ bucket.updated \in Nat
        /\ \A p \in Process : clock[p] \in Nat
    <3>1. now' = now \/ now' = now + 1
      BY DEF Next, Step, Tick, Call, Answered, Failed, Retry, ReadClock, Take, Missing,
             Insert, ReadUnlocked, WriteUnlocked, WakeUp, vars
    <3> QED
      BY <3>1, BucketParts, Constants DEF TypeOK, Time
  <2>2. \A p \in Process : clock'[p] <= now'
    <3>1. clock' = clock \/ \E q \in Process : clock' = [clock EXCEPT ![q] = now]
      BY DEF Next, Step, Tick, Call, Answered, Failed, Retry, ReadClock, Take, Missing,
             Insert, ReadUnlocked, WriteUnlocked, WakeUp, vars
    <3> QED
      BY <2>1, <3>1 DEF ClockInv, TypeOK
  <2>3. bucket'.updated <= now'
    <3>1. CASE bucket' = bucket
      BY <2>1, <3>1 DEF ClockInv
    <3>2. ASSUME NEW p \in Process, bucket'.updated = clock[p] PROVE bucket'.updated <= now'
      BY <2>1, <3>2 DEF ClockInv
    <3>3. ASSUME NEW p \in Process, Take(p) PROVE bucket'.updated = clock[p]
      BY <3>3, TakeParts DEF Take, TypeOK
    <3>4. ASSUME NEW p \in Process, WriteUnlocked(p) PROVE bucket'.updated = clock[p]
      BY <3>4, TakeParts DEF WriteUnlocked, TypeOK, RoleInv
    <3> QED
      BY <3>1, <3>2, <3>3, <3>4, GrantSteps
  <2> QED
    BY <2>2, <2>3 DEF ClockInv
<1> QED
  BY <1>1, <1>2, TypeInvariant, PTL DEF Spec

LEMMA GrantInvariant == Spec => []GrantInv
<1>1. Init => GrantInv
  <2> SUFFICES ASSUME Init PROVE GrantInv
    OBVIOUS
  <2>1. CASE bucket = NoBucket
    BY <2>1 DEF Init, GrantInv
  <2>2. CASE bucket = [tokens |-> Burst, updated |-> 0]
    <3>1. Burst * 1 = Burst /\ Rate * 0 = 0
      BY Constants
    <3>2. /\ granted = 0 /\ overwritten = 0 /\ setBack = 0
          /\ bucket.tokens = Burst /\ bucket.updated = 0
      BY <2>2 DEF Init
    <3>3. bucket # NoBucket
      BY <2>2, Constants DEF NoBucket
    <3> QED
      BY <3>1, <3>2, <3>3, Constants DEF GrantInv
  <2> QED
    BY <2>1, <2>2 DEF Init
<1>2. TypeOK /\ RoleInv /\ GrantInv /\ [Next]_vars => GrantInv'
  <2> SUFFICES ASSUME TypeOK, RoleInv, GrantInv, [Next]_vars PROVE GrantInv'
    OBVIOUS
  <2>1. granted \in Nat /\ setBack \in Nat /\ overwritten \in Nat
    BY DEF TypeOK
  \* A locked write, and an unlocked one that finds the row as it has read it.
  <2>2. ASSUME NEW p \in Process, bucket \in Bucket, TakeFrom(p, bucket),
               overwritten' = overwritten
        PROVE  GrantInv'
    <3> DEFINE e == AtLeast(0, clock[p] - bucket.updated)
               d == AtLeast(0, bucket.updated - clock[p])
    <3>1. /\ bucket' \in Bucket /\ bucket'.updated = clock[p] /\ setBack' = setBack + d
          /\ granted' + bucket'.tokens = granted + Refilled(p, bucket).tokens
      BY <2>2, TakeParts
    <3>2. /\ Refilled(p, bucket).tokens <= bucket.tokens + Rate * e
          /\ Refilled(p, bucket).tokens \in Nat /\ e \in Nat
      BY <2>2, RefilledTyped, BucketParts, Constants
    <3>3. /\ clock[p] \in Nat /\ bucket.updated \in Nat /\ bucket.tokens \in Nat
      BY <2>2, BucketParts, Constants DEF TypeOK, Time
    <3>4. clock[p] + (setBack + d) = (bucket.updated + setBack) + e
      BY <2>1, <3>3 DEF AtLeast
    <3> DEFINE u == bucket.updated + setBack
    <3>5. u \in Nat
      BY <2>1, <3>3
    <3>6. bucket'.updated + setBack' = u + e
      BY <3>1, <3>4
    <3>7. granted + bucket.tokens <= Burst * (1 + overwritten) + Rate * u
      BY <2>2, BucketParts DEF GrantInv
    <3>8. granted' + bucket'.tokens <= granted + bucket.tokens + Rate * e
      <4>1. Rate * e \in Nat
        BY <3>2, Constants, Products
      <4> QED
        BY <2>1, <3>1, <3>2, <3>3, <4>1
    <3> HIDE DEF e, u
    <3>9. Rate * (u + e) = Rate * u + Rate * e
      BY <3>2, <3>5, Constants, Products
    <3>10. granted' + bucket'.tokens <= Burst * (1 + overwritten) + Rate * (u + e)
      <4> DEFINE x == Rate * u
                 y == Rate * e
                 z == Burst * (1 + overwritten)
                 t == Refilled(p, bucket).tokens
      <4>1. x \in Nat /\ y \in Nat /\ z \in Nat
        BY <2>1, <3>2, <3>5, Constants, Products
      <4>2. granted + bucket.tokens <= z + x
        BY <3>7
      <4>3. granted' + bucket'.tokens <= (granted + bucket.tokens) + y
        BY <3>8
      <4>4. granted' + bucket'.tokens = granted + t /\ t \in Nat
        BY <3>1, <3>2
      <4> HIDE DEF x, y, z, t
      <4>5. granted' + bucket'.tokens <= z + (x + y)
        BY <2>1, <3>3, <4>1, <4>2, <4>3, <4>4
      <4> QED
        BY <3>9, <4>5 DEF x, y, z
    <3> QED
      BY <2>2, <3>1, <3>6, <3>10, BucketParts DEF GrantInv
  \* An unlocked write over another's: the bucket it writes is paid for anew.
  <2>3. ASSUME NEW p \in Process, NEW row \in Bucket, bucket \in Bucket,
               TakeFrom(p, row), overwritten' = overwritten + 1
        PROVE  GrantInv'
    <3> DEFINE d == AtLeast(0, bucket.updated - clock[p])
               u == bucket.updated + setBack
               v == bucket'.updated + setBack'
               t == Refilled(p, row).tokens
    <3>1. /\ bucket' \in Bucket /\ bucket'.updated = clock[p] /\ setBack' = setBack + d
          /\ granted' + bucket'.tokens = granted + t
      BY <2>3, TakeParts
    <3>2. t \in 0..Burst
      BY <2>3, RefilledTyped, BucketParts
    <3>3. /\ clock[p] \in Nat /\ bucket.updated \in Nat /\ bucket.tokens \in Nat
      BY <2>3, BucketParts, Constants DEF TypeOK, Time
    <3>4. u \in Nat /\ v \in Nat /\ u <= v
      BY <2>1, <3>1, <3>3 DEF AtLeast
    <3>5. granted + bucket.tokens <= Burst * (1 + overwritten) + Rate * u
      BY <2>3, BucketParts DEF GrantInv
    <3> HIDE DEF u, v, t
    <3>6. Rate * u <= Rate * v /\ Rate * u \in Nat /\ Rate * v \in Nat
      BY <3>4, Constants, Products
    <3>7. Burst * ((1 + overwritten) + 1) = Burst * (1 + overwritten) + Burst
          /\ Burst * (1 + overwritten) \in Nat
      BY <2>1, Constants, Products
    <3>8. 1 + overwritten' = (1 + overwritten) + 1
      BY <2>1, <2>3
    <3>9. granted' + bucket'.tokens <= Burst * (1 + overwritten') + Rate * v
      <4> DEFINE x == Rate * u
                 y == Rate * v
                 z == Burst * (1 + overwritten)
      <4>1. x \in Nat /\ y \in Nat /\ z \in Nat /\ x <= y
        BY <3>6, <3>7
      <4>2. granted + bucket.tokens <= z + x
        BY <3>5
      <4>3. Burst * (1 + overwritten') = z + Burst
        BY <3>7, <3>8
      <4> HIDE DEF x, y, z
      <4>4. granted + t <= (z + Burst) + y
        BY <2>1, <3>2, <3>3, <4>1, <4>2, Constants
      <4> QED
        BY <3>1, <4>3, <4>4 DEF y
    <3> QED
      BY <3>1, <3>9, BucketParts DEF GrantInv, v
  <2>4. ASSUME NEW p \in Process, Take(p) PROVE GrantInv'
    BY <2>2, <2>4 DEF Take, TypeOK
  <2>5. ASSUME NEW p \in Process, WriteUnlocked(p) PROVE GrantInv'
    <3>1. /\ bucket \in Bucket /\ seen[p] \in Bucket /\ TakeFrom(p, seen[p])
          /\ overwritten' = IF bucket # seen[p] THEN overwritten + 1 ELSE overwritten
      BY <2>5 DEF WriteUnlocked, TypeOK, RoleInv
    <3>2. CASE bucket = seen[p]
      BY <2>2, <3>1, <3>2
    <3>3. CASE bucket # seen[p]
      BY <2>3, <3>1, <3>3
    <3> QED
      BY <3>2, <3>3
  <2>6. ASSUME NEW p \in Process, bucket = NoBucket,
               bucket' = [tokens |-> Burst, updated |-> clock[p]],
               UNCHANGED <<granted, setBack, overwritten>>
        PROVE  GrantInv'
    <3>1. granted' = 0 /\ overwritten' = 0 /\ setBack' = 0
      BY <2>6 DEF GrantInv
    <3>2. bucket'.tokens = Burst /\ bucket'.updated = clock[p] /\ clock[p] \in Nat
      BY <2>6 DEF TypeOK, Time
    <3>3. Rate * (clock[p] + 0) \in Nat /\ Burst * (1 + 0) = Burst
      BY <3>2, Constants, Products
    <3>4. bucket' # NoBucket
      BY <3>2, Constants DEF NoBucket
    <3> QED
      BY <3>1, <3>2, <3>3, <3>4, Constants DEF GrantInv
  <2>7. CASE UNCHANGED <<bucket, granted, setBack, overwritten>>
    BY <2>7 DEF GrantInv
  <2> QED
    BY <2>4, <2>5, <2>6, <2>7, GrantSteps
<1> QED
  BY <1>1, <1>2, TypeInvariant, PTL DEF Spec

\* All processes together are granted no more than the bucket allows, but for
\* what stale clocks refill twice and a bucketful for each unlocked overwrite.
THEOREM GrantsExplained == Spec => []OvergrantExplained
<1>1. TypeOK /\ ClockInv /\ GrantInv => OvergrantExplained
  <2> SUFFICES ASSUME TypeOK, ClockInv, GrantInv PROVE OvergrantExplained
    OBVIOUS
  <2> DEFINE u == bucket.updated + setBack
             v == now + setBack
             x == Rate * u
             y == Rate * v
             z == Burst * (1 + overwritten)
  <2>1. /\ granted \in Nat /\ setBack \in Nat /\ overwritten \in Nat
        /\ now \in Nat /\ bucket.updated \in Nat /\ bucket.updated <= now
    BY BucketParts, Constants DEF TypeOK, Time, ClockInv
  <2>2. u \in Nat /\ v \in Nat /\ u <= v
    BY <2>1
  <2> HIDE DEF u, v
  <2>3. x \in Nat /\ y \in Nat /\ z \in Nat /\ x <= y
    BY <2>1, <2>2, Constants, Products
  <2>4. granted <= z + y
    <3>1. CASE bucket = NoBucket
      <4>1. granted = 0
        BY <3>1 DEF GrantInv
      <4> HIDE DEF y, z
      <4> QED
        BY <2>3, <4>1
    <3>2. CASE bucket # NoBucket
      <4>1. bucket.tokens \in Nat
        BY <3>2, BucketParts, Constants DEF TypeOK
      <4>2. granted + bucket.tokens <= z + x
        BY <3>2 DEF GrantInv, u
      <4> HIDE DEF x, y, z
      <4> QED
        BY <2>1, <2>3, <4>1, <4>2
    <3> QED
      BY <3>1, <3>2
  <2> QED
    BY <2>4 DEF OvergrantExplained, v
<1> QED
  BY <1>1, TypeInvariant, ClockInvariant, GrantInvariant, PTL

----------------------------------------------------------------------------
(* The circuit *)

\* Whoever is past the breaker found it closed, or half open; it has not been
\* opened since, as only its own process could have done so.
PastBreaker ==
  \A p \in Process :
    pc[p] \notin {"idle", "backoff"} /\ opened[p] # Never
      => now - opened[p] >= ResetTimeout

\* Whatever a call waits for after it has asked the breaker, a request leaves
\* the process only when its circuit is closed or the reset timeout is over.
THEOREM CircuitSilent == Spec => SilentWhileOpen
<1> DEFINE Silent == \A p \in Process :
             (pc[p] = "sending" /\ pc'[p] # "sending" /\ opened[p] # Never)
               => now - opened[p] >= ResetTimeout
<1>1. Init => PastBreaker
  BY DEF Init, PastBreaker
<1>2. TypeOK /\ PastBreaker /\ [Next]_vars => PastBreaker'
  <2> SUFFICES ASSUME TypeOK, PastBreaker, [Next]_vars PROVE PastBreaker'
    OBVIOUS
  <2> USE DEF limiter, breaker, Goes
  <2>1. CASE Tick
    <3> SUFFICES ASSUME NEW p \in Process, pc[p] \notin {"idle", "backoff"},
                        opened[p] # Never
                 PROVE  now' - opened[p] >= ResetTimeout
      BY <2>1 DEF Tick, PastBreaker
    <3>1. now - opened[p] >= ResetTimeout
      BY DEF PastBreaker
    <3> QED
      BY <2>1, <3>1, Constants DEF Tick, TypeOK, Time
  <2>2. ASSUME NEW p \in Process, Call(p) \/ Retry(p) PROVE PastBreaker'
    <3>1. opened' = opened /\ now' = now /\ \A q \in Process \ {p} : pc'[q] = pc[q]
      BY <2>2 DEF Call, Retry, TypeOK
    <3>2. pc'[p] = "idle" \/ ~Open(p)
      BY <2>2 DEF Call, Retry, TypeOK
    <3>3. ~Open(p) /\ opened[p] # Never => now - opened[p] >= ResetTimeout
      BY Constants DEF Open, TypeOK, Time
    <3> QED
      BY <3>1, <3>2, <3>3 DEF PastBreaker
  <2>3. ASSUME NEW p \in Process, Answered(p) \/ Failed(p) PROVE PastBreaker'
    <3>1. /\ now' = now /\ pc'[p] \in {"idle", "backoff"}
          /\ \A q \in Process \ {p} : pc'[q] = pc[q] /\ opened'[q] = opened[q]
      BY <2>3 DEF Answered, Failed, TypeOK
    <3> QED
      BY <3>1 DEF PastBreaker
  <2>4. ASSUME NEW p \in Process, UNCHANGED <<now, opened>>,
               pc[p] \notin {"idle", "backoff"},
               \A q \in Process \ {p} : pc'[q] = pc[q]
        PROVE  PastBreaker'
    BY <2>4 DEF PastBreaker
  <2>5. ASSUME NEW p \in Process,
               ReadClock(p) \/ Missing(p) \/ Insert(p) \/ ReadUnlocked(p) \/ WakeUp(p)
        PROVE  PastBreaker'
    <3>1. /\ UNCHANGED <<now, opened>> /\ pc[p] \notin {"idle", "backoff"}
          /\ \A q \in Process \ {p} : pc'[q] = pc[q]
      BY <2>5 DEF ReadClock, Missing, Insert, ReadUnlocked, WakeUp, TypeOK
    <3> QED
      BY <2>4, <3>1
  <2>6. ASSUME NEW p \in Process, Take(p) \/ WriteUnlocked(p) PROVE PastBreaker'
    <3>1. /\ UNCHANGED <<now, opened>> /\ pc[p] \notin {"idle", "backoff"}
          /\ \A q \in Process \ {p} : pc'[q] = pc[q]
      BY <2>6 DEF Take, WriteUnlocked, TakeFrom, TypeOK
    <3> QED
      BY <2>4, <3>1
  <2>7. CASE UNCHANGED vars
    BY <2>7 DEF vars, PastBreaker
  <2> QED
    BY <2>1, <2>2, <2>3, <2>5, <2>6, <2>7 DEF Next, Step
<1>3. PastBreaker => [Silent]_vars
  BY DEF PastBreaker
<1> QED
  BY <1>1, <1>2, <1>3, TypeCorrect, PTL DEF Spec, SilentWhileOpen
=============================================================================
