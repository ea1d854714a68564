--------------------------- MODULE JobQueueProofs ---------------------------
(***************************************************************************)
(* Theorems about JobQueue, for any jobs, workers, attempt ceilings,       *)
(* priorities and failures.                                                *)
(*                                                                         *)
(* TypeCorrect, AttemptsBounded and CommitsCounted hold whether or not     *)
(* handlers outlive their leases.  ExclusiveExecution, ExactlyOnce,        *)
(* LeaseCorrect and Refinement assume that they do not, which is the one   *)
(* thing the code leaves to its configuration.                             *)
(***************************************************************************)
EXTENDS JobQueue, TLAPS, FiniteSetTheorems

LEMMA ConstantsTyped ==
  /\ NoJob \notin Job
  /\ MaxAttempts \in [Job -> Nat \ {0}]
  /\ FailureKinds \in [Job -> SUBSET ErrorKinds]
  /\ MaxFaults \in Nat
BY JobAssumption, MaxAttemptsAssumption, FailureAssumption, FaultAssumption

----------------------------------------------------------------------------
(* Types *)

\* Every variable keeps its type, in every behaviour.
THEOREM TypeCorrect == Spec => []TypeOK
<1>1. Init => TypeOK
  BY ConstantsTyped
  DEF Init, TypeOK, Leases, Reading, Unread, Stages, Statuses, Unfinished, Claimable, Terminal
<1>2. TypeOK /\ [Next]_vars => TypeOK'
  <2> SUFFICES ASSUME TypeOK, [Next]_vars PROVE TypeOK'
    OBVIOUS
  <2>0. Unread \in Reading
    BY DEF Unread, Reading, Leases, Statuses
  <2> USE ConstantsTyped, <2>0
      DEF TypeOK, Leases, Stages, Statuses, Unfinished, Claimable, Terminal, workerVars, jobVars,
          BecomeIdle
  <2>1. ASSUME NEW j \in Job, Enqueue(j) PROVE TypeOK'
    BY <2>1 DEF Enqueue
  <2>2. ASSUME NEW j \in Job, LeaseExpires(j) PROVE TypeOK'
    BY <2>2 DEF LeaseExpires
  <2>3. ASSUME NEW j \in Job, BecomesDue(j) PROVE TypeOK'
    BY <2>3 DEF BecomesDue
  <2>4. ASSUME NEW j \in Job, Ages(j) PROVE TypeOK'
    BY <2>4 DEF Ages
  <2>5. ASSUME NEW w \in Worker, NEW j \in Job, Claim(w, j) PROVE TypeOK'
    BY <2>5 DEF Claim
  <2>6. ASSUME NEW w \in Worker, Succeed(w) PROVE TypeOK'
    BY <2>6 DEF Succeed, WriteStatus, ClearLease
  <2>15. ASSUME NEW w \in Worker, HandlerReturns(w) \/ FailureReads(w) PROVE TypeOK'
    <3>1. PICK to \in {"succeeding", "recording"} :
            /\ stage' = [stage EXCEPT ![w] = to]
            /\ holding[w] \in Job
            /\ loaded' = [loaded EXCEPT ![w] = [status |-> status[holding[w]],
                                               lease |-> lease[holding[w]],
                                               attempts |-> attempts[holding[w]]]]
            /\ UNCHANGED <<jobVars, holding, error, faults>>
      BY <2>15 DEF HandlerReturns, FailureReads, ReadRow
    <3>2. [status |-> status[holding[w]], lease |-> lease[holding[w]],
           attempts |-> attempts[holding[w]]] \in Reading
      BY <3>1 DEF Reading
    <3>3. loaded' \in [Worker -> Reading]
      BY <3>1, <3>2
    <3> QED
      BY <3>1, <3>3
  <2>7. ASSUME NEW w \in Worker, HandlerFails(w) PROVE TypeOK'
    <3>1. PICK kind \in ErrorKinds : Raise(w, kind)
      BY <2>7 DEF HandlerFails
    <3>2. QED
      BY <3>1 DEF Raise
  <2>8. ASSUME NEW w \in Worker, RowGone(w) PROVE TypeOK'
    BY <2>8 DEF RowGone, Raise, ErrorKinds
  <2>9. ASSUME NEW w \in Worker, RecordFailure(w) PROVE TypeOK'
    <3>1. holding[w] \in Job
      BY <2>9 DEF RecordFailure
    <3>2. status' \in [Job -> Statuses]
      BY <2>9, <3>1 DEF RecordFailure, WriteStatus
    <3>3. /\ due' = due \/ due' = [due EXCEPT ![holding[w]] = FALSE]
          /\ finished' = finished \/ finished' = [finished EXCEPT ![holding[w]] = "recent"]
      BY <2>9 DEF RecordFailure
    <3>4. lease' \in [Job -> Leases]
      BY <2>9, <3>1 DEF RecordFailure, ClearLease
    <3>5. /\ stage' \in [Worker -> Stages] /\ loaded' \in [Worker -> Reading]
          /\ holding' \in [Worker -> Job \cup {NoJob}]
          /\ error' \in [Worker -> ErrorKinds \cup {"none"}]
      BY <2>9 DEF RecordFailure
    <3>6. attempts' = attempts /\ commits' = commits /\ faults' = faults
      BY <2>9 DEF RecordFailure
    <3>7. due' \in [Job -> BOOLEAN]
      BY <3>1, <3>3, Zenon
    <3>8. finished' \in [Job -> {"no", "recent", "old"}]
      BY <3>1, <3>3
    <3> QED
      BY <3>2, <3>4, <3>5, <3>6, <3>7, <3>8
  <2>10. ASSUME NEW w \in Worker, DropFailure(w) PROVE TypeOK'
    BY <2>10 DEF DropFailure
  <2>11. ASSUME NEW w \in Worker, Crash(w) PROVE TypeOK'
    BY <2>11 DEF Crash
  <2>12. ASSUME NEW w \in Worker, Reap(w) PROVE TypeOK'
    BY <2>12 DEF Reap
  <2>13. ASSUME NEW w \in Worker, Purge(w) PROVE TypeOK'
    BY <2>13 DEF Purge
  <2>14. CASE UNCHANGED vars
    BY <2>14 DEF vars
  <2> QED
    BY <2>1, <2>2, <2>3, <2>4, <2>5, <2>6, <2>7, <2>8, <2>9, <2>10, <2>11, <2>12,
       <2>13, <2>14, <2>15 DEF Next, Finish, Record
<1> QED
  BY <1>1, <1>2, PTL DEF Spec

----------------------------------------------------------------------------
(* Facts that hold even when handlers outlive their leases *)

\* An idle worker carries no job.
HandsInv == \A w \in Worker : stage[w] = "idle" => holding[w] = NoJob

LEMMA HandsCorrect == Spec => []HandsInv
<1>1. Init => HandsInv
  BY DEF Init, HandsInv
<1>2. TypeOK /\ HandsInv /\ [Next]_vars => HandsInv'
  <2> SUFFICES ASSUME TypeOK, HandsInv, [Next]_vars PROVE HandsInv'
    OBVIOUS
  <2> USE DEF TypeOK, HandsInv, jobVars, workerVars, BecomeIdle
  <2>1. ASSUME NEW j \in Job, Enqueue(j) \/ LeaseExpires(j) \/ BecomesDue(j) \/ Ages(j)
        PROVE  HandsInv'
    BY <2>1 DEF Enqueue, LeaseExpires, BecomesDue, Ages
  <2>2. ASSUME NEW w \in Worker, NEW j \in Job, Claim(w, j) PROVE HandsInv'
    BY <2>2 DEF Claim
  <2>3. ASSUME NEW w \in Worker, Finish(w) PROVE HandsInv'
    BY <2>3 DEF Finish, HandlerReturns, ReadRow, Succeed, HandlerFails, RowGone, Raise
  <2>4. ASSUME NEW w \in Worker, Record(w) \/ Crash(w) PROVE HandsInv'
    BY <2>4 DEF Record, FailureReads, ReadRow, RecordFailure, DropFailure, Crash
  <2>5. ASSUME NEW w \in Worker, Reap(w) PROVE HandsInv'
    BY <2>5 DEF Reap
  <2>7. ASSUME NEW w \in Worker, Purge(w) PROVE HandsInv'
    <3>1. stage' = stage /\ \A v \in Worker : holding'[v] \in {NoJob, holding[v]}
      BY <2>7 DEF Purge
    <3> QED
      BY <3>1
  <2>6. CASE UNCHANGED vars
    BY <2>6 DEF vars
  <2> QED
    BY <2>1, <2>2, <2>3, <2>4, <2>5, <2>6, <2>7 DEF Next
<1> QED
  BY <1>1, <1>2, TypeCorrect, PTL DEF Spec

\* The workers that carry a row, by now or still.
Holders(j) == {w \in Worker : holding[w] = j}

\* The strengthening of CommitsWithinAttempts: every worker that carries a row
\* has an attempt of its own to commit; nobody carries a row that is gone.
CommitInv ==
  \A j \in Job :
    /\ IsFiniteSet(Holders(j))
    /\ commits[j] + Cardinality(Holders(j)) <= attempts[j]
    /\ status[j] = "absent" => Holders(j) = {}

\* Putting down what one carries leaves the other holders.
LEMMA HoldersAfterRelease ==
  ASSUME TypeOK, CommitInv, NEW w \in Worker, holding' = [holding EXCEPT ![w] = NoJob]
  PROVE  /\ \A j \in Job : Holders(j)' = Holders(j) \ {w}
         /\ \A j \in Job : IsFiniteSet(Holders(j)') /\ Cardinality(Holders(j)') \in Nat
         /\ \A j \in Job : Cardinality(Holders(j)') =
              IF holding[w] = j THEN Cardinality(Holders(j)) - 1 ELSE Cardinality(Holders(j))
         /\ \A j \in Job : Cardinality(Holders(j)) \in Nat
<1>1. \A j \in Job : Holders(j)' = Holders(j) \ {w}
  BY ConstantsTyped DEF Holders, TypeOK
<1>2. ASSUME NEW j \in Job
      PROVE  /\ IsFiniteSet(Holders(j) \ {w})
             /\ Cardinality(Holders(j) \ {w}) =
                  IF w \in Holders(j) THEN Cardinality(Holders(j)) - 1
                  ELSE Cardinality(Holders(j))
  BY FS_RemoveElement DEF CommitInv
<1>3. \A j \in Job : w \in Holders(j) <=> holding[w] = j
  BY DEF Holders
<1>4. \A j \in Job : Cardinality(Holders(j)) \in Nat /\ Cardinality(Holders(j) \ {w}) \in Nat
  BY <1>2, FS_CardinalityType DEF CommitInv
<1> QED
  BY <1>1, <1>2, <1>3, <1>4

LEMMA CommitStep ==
  ASSUME TypeOK, HandsInv, CommitInv, [Next]_vars
  PROVE  CommitInv'
<1> USE DEF workerVars, jobVars
<1>0. \A j \in Job : Cardinality(Holders(j)) \in Nat /\ commits[j] \in Nat /\ attempts[j] \in Nat
  BY FS_CardinalityType DEF CommitInv, TypeOK
<1>1. ASSUME NEW j \in Job, Enqueue(j) PROVE CommitInv'
  <2>1. \A k \in Job : Holders(k)' = Holders(k)
    BY <1>1 DEF Enqueue, Holders
  <2>2. Holders(j) = {} /\ Cardinality(Holders(j)) = 0
    BY <1>1, FS_EmptySet DEF Enqueue, CommitInv
  <2>3. \A k \in Job :
          /\ commits'[k] = IF k = j THEN 0 ELSE commits[k]
          /\ attempts'[k] = IF k = j THEN 0 ELSE attempts[k]
          /\ status'[k] = IF k = j THEN "queued" ELSE status[k]
    BY <1>1 DEF Enqueue, TypeOK
  <2> SUFFICES ASSUME NEW k \in Job
               PROVE  /\ IsFiniteSet(Holders(k))'
                      /\ (commits[k] + Cardinality(Holders(k)) <= attempts[k])'
                      /\ (status[k] = "absent" => Holders(k) = {})'
    BY DEF CommitInv
  <2>4. IsFiniteSet(Holders(k))'
    BY <2>1 DEF CommitInv
  <2>5. (status[k] = "absent" => Holders(k) = {})'
    BY <2>1, <2>2, <2>3 DEF CommitInv
  <2>6. Cardinality(Holders(k))' = Cardinality(Holders(k))
    BY <2>1
  <2>7. (commits[k] + Cardinality(Holders(k)) <= attempts[k])'
    BY <1>0, <2>2, <2>3, <2>6 DEF CommitInv
  <2> QED
    BY <2>4, <2>5, <2>7
<1>2. ASSUME UNCHANGED <<status, attempts, commits, holding>> PROVE CommitInv'
  BY <1>2 DEF CommitInv, Holders
<1>3. ASSUME NEW w \in Worker, NEW j \in Job, Claim(w, j) PROVE CommitInv'
  <2>1. holding[w] = NoJob /\ holding' = [holding EXCEPT ![w] = j]
    BY <1>3 DEF Claim, HandsInv
  <2>2. \A k \in Job : Holders(k)' = IF k = j THEN Holders(k) \cup {w} ELSE Holders(k)
    BY <2>1, ConstantsTyped DEF Holders, TypeOK
  <2>3. w \notin Holders(j)
    BY <2>1, ConstantsTyped DEF Holders
  <2>4. /\ IsFiniteSet(Holders(j) \cup {w})
        /\ Cardinality(Holders(j) \cup {w}) = Cardinality(Holders(j)) + 1
    BY <2>3, FS_AddElement DEF CommitInv
  <2>5. /\ \A k \in Job : attempts'[k] = IF k = j THEN attempts[k] + 1 ELSE attempts[k]
        /\ \A k \in Job : status'[k] = IF k = j THEN "running" ELSE status[k]
        /\ commits' = commits
    BY <1>3 DEF Claim, TypeOK
  <2> SUFFICES ASSUME NEW k \in Job
               PROVE  /\ IsFiniteSet(Holders(k))'
                      /\ (commits[k] + Cardinality(Holders(k)) <= attempts[k])'
                      /\ (status[k] = "absent" => Holders(k) = {})'
    BY DEF CommitInv
  <2>6. IsFiniteSet(Holders(k)) /\ commits[k] + Cardinality(Holders(k)) <= attempts[k]
        /\ (status[k] = "absent" => Holders(k) = {})
    BY DEF CommitInv
  <2>7. Cardinality(Holders(k))' = IF k = j THEN Cardinality(Holders(k)) + 1
                                   ELSE Cardinality(Holders(k))
    BY <2>2, <2>4
  <2>8. IsFiniteSet(Holders(k))'
    BY <2>2, <2>4, <2>6
  <2> QED
    BY <1>0, <2>2, <2>4, <2>5, <2>6, <2>7, <2>8
<1>4. ASSUME NEW w \in Worker, Succeed(w) PROVE CommitInv'
  <2>1. holding' = [holding EXCEPT ![w] = NoJob] /\ holding[w] \in Job
    BY <1>4 DEF Succeed, BecomeIdle, TypeOK
  <2>2. /\ \A k \in Job : commits'[k] = IF k = holding[w] THEN commits[k] + 1 ELSE commits[k]
        /\ \A k \in Job : status'[k] = "absent" => status[k] = "absent"
        /\ attempts' = attempts
    BY <1>4 DEF Succeed, WriteStatus, TypeOK
  <2> SUFFICES ASSUME NEW k \in Job
               PROVE  /\ IsFiniteSet(Holders(k))'
                      /\ (commits[k] + Cardinality(Holders(k)) <= attempts[k])'
                      /\ (status[k] = "absent" => Holders(k) = {})'
    BY DEF CommitInv
  <2>3. IsFiniteSet(Holders(k)) /\ commits[k] + Cardinality(Holders(k)) <= attempts[k]
        /\ (status[k] = "absent" => Holders(k) = {})
    BY DEF CommitInv
  <2>4. /\ Holders(k)' = Holders(k) \ {w} /\ IsFiniteSet(Holders(k))'
        /\ Cardinality(Holders(k))' = IF holding[w] = k THEN Cardinality(Holders(k)) - 1
                                      ELSE Cardinality(Holders(k))
    BY <2>1, HoldersAfterRelease
  <2> QED
    BY <1>0, <2>2, <2>3, <2>4
<1>5. ASSUME NEW w \in Worker, RecordFailure(w) \/ DropFailure(w) \/ Crash(w)
      PROVE  CommitInv'
  <2>1. /\ holding' = [holding EXCEPT ![w] = NoJob]
        /\ UNCHANGED <<attempts, commits>>
    BY <1>5 DEF RecordFailure, DropFailure, Crash, BecomeIdle
  <2>2. \A k \in Job : status'[k] = "absent" => status[k] = "absent"
    BY <1>5 DEF RecordFailure, WriteStatus, DropFailure, Crash, TypeOK
  <2> SUFFICES ASSUME NEW k \in Job
               PROVE  /\ IsFiniteSet(Holders(k))'
                      /\ (commits[k] + Cardinality(Holders(k)) <= attempts[k])'
                      /\ (status[k] = "absent" => Holders(k) = {})'
    BY DEF CommitInv
  <2>3. IsFiniteSet(Holders(k)) /\ commits[k] + Cardinality(Holders(k)) <= attempts[k]
        /\ (status[k] = "absent" => Holders(k) = {})
    BY DEF CommitInv
  <2>4. /\ Holders(k)' = Holders(k) \ {w} /\ IsFiniteSet(Holders(k))'
        /\ Cardinality(Holders(k))' = IF holding[w] = k THEN Cardinality(Holders(k)) - 1
                                      ELSE Cardinality(Holders(k))
    BY <2>1, HoldersAfterRelease
  <2> QED
    BY <1>0, <2>1, <2>2, <2>3, <2>4
<1>6. ASSUME NEW w \in Worker, Reap(w) PROVE CommitInv'
  <2>1. /\ \A k \in Job : Holders(k)' = Holders(k)
        /\ UNCHANGED <<attempts, commits>>
    BY <1>6 DEF Reap, Holders
  <2>2. \A k \in Job : status'[k] = "absent" => status[k] = "absent"
    BY <1>6 DEF Reap
  <2> QED
    BY <2>1, <2>2 DEF CommitInv
<1>7. ASSUME NEW w \in Worker, Purge(w) PROVE CommitInv'
  <2>1. \A k \in Job : Holders(k)' = IF k \in Purgeable THEN {} ELSE Holders(k)
    BY <1>7, ConstantsTyped DEF Purge, Holders, Purgeable
  <2>2. /\ \A k \in Job : commits'[k] = IF k \in Purgeable THEN 0 ELSE commits[k]
        /\ \A k \in Job : attempts'[k] = IF k \in Purgeable THEN 0 ELSE attempts[k]
        /\ \A k \in Job \ Purgeable : status'[k] = status[k]
    BY <1>7 DEF Purge
  <2> SUFFICES ASSUME NEW k \in Job
               PROVE  /\ IsFiniteSet(Holders(k))'
                      /\ (commits[k] + Cardinality(Holders(k)) <= attempts[k])'
                      /\ (status[k] = "absent" => Holders(k) = {})'
    BY DEF CommitInv
  <2>3. IsFiniteSet(Holders(k)) /\ commits[k] + Cardinality(Holders(k)) <= attempts[k]
        /\ (status[k] = "absent" => Holders(k) = {})
    BY DEF CommitInv
  <2>4. /\ IsFiniteSet(Holders(k))'
        /\ Cardinality(Holders(k))' = IF k \in Purgeable THEN 0 ELSE Cardinality(Holders(k))
    BY <2>1, <2>3, FS_EmptySet
  <2> QED
    BY <1>0, <2>1, <2>2, <2>3, <2>4
<1>8. ASSUME \/ \E j \in Job : LeaseExpires(j) \/ BecomesDue(j) \/ Ages(j)
             \/ \E w \in Worker : HandlerReturns(w) \/ HandlerFails(w) \/ RowGone(w)
             \/ \E w \in Worker : FailureReads(w)
             \/ UNCHANGED vars
      PROVE  UNCHANGED <<status, attempts, commits, holding>>
  BY <1>8 DEF LeaseExpires, BecomesDue, Ages, HandlerReturns, FailureReads, ReadRow,
     HandlerFails, RowGone, Raise, vars
<1> QED
  BY <1>1, <1>2, <1>3, <1>4, <1>5, <1>6, <1>7, <1>8 DEF Next, Finish, Record

LEMMA HoldersCounted == Spec => []CommitInv
<1>1. Init => CommitInv
  <2> SUFFICES ASSUME Init, NEW j \in Job
               PROVE  /\ IsFiniteSet(Holders(j))
                      /\ commits[j] + Cardinality(Holders(j)) <= attempts[j]
                      /\ status[j] = "absent" => Holders(j) = {}
    BY DEF CommitInv
  <2>1. Holders(j) = {}
    BY ConstantsTyped DEF Init, Holders
  <2>2. commits[j] = 0 /\ attempts[j] = 0
    BY DEF Init
  <2> QED
    BY <2>1, <2>2, FS_EmptySet
<1> QED
  BY <1>1, CommitStep, TypeCorrect, HandsCorrect, PTL DEF Spec

\* With stale workers about, crashes and reaped leases, an attempt commits one
\* result at most (Worker._execute, claim_one, reap_expired_jobs).
THEOREM CommitsCounted == Spec => []CommitsWithinAttempts
<1>1. TypeOK /\ CommitInv => CommitsWithinAttempts
  <2> SUFFICES ASSUME TypeOK, CommitInv, NEW j \in Job PROVE commits[j] <= attempts[j]
    BY DEF CommitsWithinAttempts
  <2>1. Cardinality(Holders(j)) \in Nat
    BY FS_CardinalityType DEF CommitInv
  <2> QED
    BY <2>1 DEF CommitInv, TypeOK
<1> QED
  BY <1>1, HoldersCounted, TypeCorrect, PTL

\* A worker that read its row while it was not running: what it writes leaves the
\* status of a row that has been claimed since either settled or as it is.
Overtaken(w) == stage[w] \in {"succeeding", "recording"} /\ loaded[w].status # "running"

\* The row may be claimed again, now or when the reaper has seen it: its claimer
\* is gone, if all who still carry the row have read it before that claim.
Reclaimable(j) ==
  \/ status[j] \in Claimable
  \/ /\ status[j] = "running"
     /\ lease[j] = "expired" \/ \A w \in Holders(j) : Overtaken(w)

Extra(j) == IF Reclaimable(j) THEN 1 ELSE 0

\* The workers that may still send the row back to the queue although its attempts
\* are used up, because they have read an earlier count.
Retriers(j) ==
  {w \in Holders(j) : stage[w] = "recording" /\ loaded[w].attempts < MaxAttempts[j]}

\* The strengthening that makes AttemptBound inductive.  Beyond the ceiling every
\* further claim uses up either what the reaper may return or a reading from
\* before; and there are no more of these than crashes and overruns, because each
\* worker that carries the row beside its claimer is there through one of them.
AttemptAt(j) ==
  /\ Cardinality(Holders(j)) + Extra(j) <= 1 + faults
  /\ attempts[j] >= MaxAttempts[j] =>
       attempts[j] + Cardinality(Retriers(j)) + Extra(j) <= MaxAttempts[j] + faults

AttemptInv == \A j \in Job : AttemptAt(j)

LEMMA Counting ==
  ASSUME TypeOK, CommitInv, NEW j \in Job
  PROVE  /\ Cardinality(Holders(j)) \in Nat
         /\ IsFiniteSet(Retriers(j)) /\ Cardinality(Retriers(j)) \in Nat
         /\ Cardinality(Retriers(j)) <= Cardinality(Holders(j))
         /\ Extra(j) \in {0, 1}
         /\ attempts[j] \in Nat /\ MaxAttempts[j] \in Nat /\ MaxAttempts[j] > 0
         /\ faults \in Nat
<1>1. Retriers(j) \subseteq Holders(j) /\ IsFiniteSet(Holders(j))
  BY DEF Retriers, CommitInv
<1> QED
  BY <1>1, FS_Subset, FS_CardinalityType, ConstantsTyped DEF Extra, TypeOK

\* A row that a step leaves alone, with those who carry it.
LEMMA Untouched ==
  ASSUME TypeOK, CommitInv, AttemptInv, NEW j \in Job,
         status'[j] = status[j], lease'[j] = lease[j], attempts'[j] = attempts[j],
         faults' \in Nat, faults' >= faults,
         Holders(j)' = Holders(j),
         \A w \in Holders(j) : stage'[w] = stage[w] /\ loaded'[w] = loaded[w]
  PROVE  AttemptAt(j)'
<1>1. Retriers(j)' = Retriers(j)
  BY DEF Retriers
<1>2. Extra(j)' = Extra(j)
  BY DEF Extra, Reclaimable, Overtaken
<1>3. AttemptAt(j)
  BY DEF AttemptInv
<1>4. Cardinality(Holders(j))' = Cardinality(Holders(j))
      /\ Cardinality(Retriers(j))' = Cardinality(Retriers(j))
  BY <1>1
<1> QED
  BY <1>2, <1>3, <1>4, Counting DEF AttemptAt

\* A worker puts its row down: the counts without it.
LEMMA Released ==
  ASSUME TypeOK, CommitInv, AttemptInv, NEW w \in Worker, NEW j \in Job,
         holding[w] = j, BecomeIdle(w)
  PROVE  /\ Holders(j)' = Holders(j) \ {w}
         /\ Cardinality(Holders(j))' = Cardinality(Holders(j)) - 1
         /\ Cardinality(Retriers(j))' =
              IF w \in Retriers(j) THEN Cardinality(Retriers(j)) - 1
              ELSE Cardinality(Retriers(j))
         /\ \A v \in Holders(j) \ {w} : stage'[v] = stage[v] /\ loaded'[v] = loaded[v]
<1>1. /\ Holders(j)' = Holders(j) \ {w}
      /\ Cardinality(Holders(j))' = Cardinality(Holders(j)) - 1
  BY HoldersAfterRelease DEF BecomeIdle
<1>2. \A v \in Worker \ {w} : stage'[v] = stage[v] /\ loaded'[v] = loaded[v]
  BY DEF BecomeIdle, TypeOK
<1>3. Holders(j) \subseteq Worker
  BY DEF Holders
<1>4. Retriers(j)' = Retriers(j) \ {w}
  BY <1>1, <1>2, <1>3 DEF Retriers
<1>5. Cardinality(Retriers(j) \ {w}) = IF w \in Retriers(j)
                                       THEN Cardinality(Retriers(j)) - 1
                                       ELSE Cardinality(Retriers(j))
  BY Counting, FS_RemoveElement
<1> QED
  BY <1>1, <1>2, <1>3, <1>4, <1>5

\* The rows that a worker does not carry, when it puts its own down.
LEMMA OthersReleased ==
  ASSUME TypeOK, CommitInv, AttemptInv, NEW w \in Worker, NEW j \in Job,
         holding[w] # j, BecomeIdle(w),
         status'[j] = status[j], lease'[j] = lease[j], attempts'[j] = attempts[j],
         faults' \in Nat, faults' >= faults
  PROVE  AttemptAt(j)'
<1>1. Holders(j)' = Holders(j) /\ w \notin Holders(j) /\ Holders(j) \subseteq Worker
  BY ConstantsTyped DEF BecomeIdle, Holders, TypeOK
<1>2. \A v \in Holders(j) : stage'[v] = stage[v] /\ loaded'[v] = loaded[v]
  BY <1>1 DEF BecomeIdle, TypeOK
<1> QED
  BY <1>1, <1>2, Untouched

LEMMA AttemptStep ==
  ASSUME TypeOK, HandsInv, CommitInv, AttemptInv, [Next]_vars
  PROVE  AttemptInv'
<1> USE DEF workerVars, jobVars
<1>0. /\ faults \in Nat /\ \A w \in Worker : holding[w] \in Job \cup {NoJob}
      /\ \A k \in Job : AttemptAt(k)
  BY ConstantsTyped DEF TypeOK, AttemptInv
<1>1. ASSUME NEW j \in Job, Enqueue(j) PROVE AttemptInv'
  <2>1. Holders(j) = {} /\ UNCHANGED <<holding, stage, loaded, faults>>
    BY <1>1 DEF Enqueue, CommitInv
  <2>2. Holders(j)' = {} /\ Retriers(j)' = {}
    BY <2>1 DEF Holders, Retriers
  <2>3. Cardinality(Holders(j))' = 0 /\ attempts'[j] = 0
    BY <1>1, <2>2, FS_EmptySet DEF Enqueue, TypeOK
  <2>4. Extra(j)' \in {0, 1}
    BY DEF Extra
  <2>5. AttemptAt(j)'
    BY <1>0, <2>1, <2>3, <2>4, ConstantsTyped DEF AttemptAt
  <2>6. ASSUME NEW k \in Job, k # j PROVE AttemptAt(k)'
    <3>1. status'[k] = status[k] /\ lease'[k] = lease[k] /\ attempts'[k] = attempts[k]
      BY <1>1, <2>6 DEF Enqueue, TypeOK
    <3>2. Holders(k)' = Holders(k)
      BY <2>1 DEF Holders
    <3> QED
      BY <1>0, <2>1, <3>1, <3>2, Untouched
  <2> QED
    BY <2>5, <2>6 DEF AttemptInv
<1>2. ASSUME NEW j \in Job, LeaseExpires(j) PROVE AttemptInv'
  <2>1. /\ UNCHANGED <<holding, stage, loaded, status, attempts>>
        /\ faults' = faults \/ faults' = faults + 1
        /\ faults' = faults => Orphan(j)
        /\ \A k \in Job : k # j => lease'[k] = lease[k]
    BY <1>0, <1>2 DEF LeaseExpires, TypeOK
  <2>2. \A k \in Job : Holders(k)' = Holders(k) /\ Retriers(k)' = Retriers(k)
    BY <2>1 DEF Holders, Retriers
  <2>3. /\ Cardinality(Holders(j))' = Cardinality(Holders(j))
        /\ Cardinality(Retriers(j))' = Cardinality(Retriers(j))
        /\ Extra(j)' \in {0, 1}
    BY <2>2 DEF Extra
  <2>4. Orphan(j) => Extra(j)' <= Extra(j)
    BY <2>1, <2>2 DEF Orphan, Holders, Extra, Reclaimable
  <2>5. AttemptAt(j)'
    BY <1>0, <2>1, <2>3, <2>4, Counting DEF AttemptAt
  <2>6. ASSUME NEW k \in Job, k # j PROVE AttemptAt(k)'
    BY <1>0, <2>1, <2>2, <2>6, Untouched
  <2> QED
    BY <2>5, <2>6 DEF AttemptInv
<1>3. ASSUME UNCHANGED <<holding, stage, loaded, status, attempts, lease, faults>>
      PROVE  AttemptInv'
  <2>1. \A k \in Job : Holders(k)' = Holders(k)
    BY <1>3 DEF Holders
  <2> QED
    BY <1>0, <1>3, <2>1, Untouched DEF AttemptInv
<1>4. ASSUME NEW w \in Worker, NEW j \in Job, Claim(w, j) PROVE AttemptInv'
  <2>1. /\ holding[w] = NoJob /\ holding' = [holding EXCEPT ![w] = j]
        /\ stage' = [stage EXCEPT ![w] = "handling"]
        /\ UNCHANGED <<loaded, faults>>
        /\ status[j] \in Claimable /\ status'[j] = "running" /\ lease'[j] = "live"
        /\ attempts'[j] = attempts[j] + 1
        /\ \A k \in Job : k # j => /\ status'[k] = status[k] /\ lease'[k] = lease[k]
                                   /\ attempts'[k] = attempts[k]
    BY <1>4 DEF Claim, Eligible, HandsInv, TypeOK
  <2>2. \A k \in Job : /\ Holders(k)' = IF k = j THEN Holders(k) \cup {w} ELSE Holders(k)
                       /\ w \notin Holders(k) /\ Holders(k) \subseteq Worker
    BY <2>1, ConstantsTyped DEF Holders, TypeOK
  <2>3. Cardinality(Holders(j))' = Cardinality(Holders(j)) + 1
    BY <2>2, FS_AddElement DEF CommitInv
  <2>4. stage'[w] = "handling" /\ \A v \in Worker \ {w} : stage'[v] = stage[v]
    BY <2>1 DEF TypeOK
  <2>5. Retriers(j)' = Retriers(j)
    BY <2>1, <2>2, <2>4 DEF Retriers
  <2>6. Extra(j) = 1
    BY <2>1 DEF Extra, Reclaimable
  <2>7. Extra(j)' = 0
    <3>1. w \in Holders(j)' /\ ~Overtaken(w)'
      BY <2>2, <2>4 DEF Overtaken
    <3> QED
      BY <2>1, <3>1 DEF Extra, Reclaimable, Claimable
  <2>8. Cardinality(Retriers(j))' = Cardinality(Retriers(j))
    BY <2>5
  <2>9. AttemptAt(j)'
    BY <1>0, <2>1, <2>3, <2>6, <2>7, <2>8, Counting DEF AttemptAt
  <2>10. ASSUME NEW k \in Job, k # j PROVE AttemptAt(k)'
    BY <1>0, <2>1, <2>2, <2>4, <2>10, Untouched
  <2> QED
    BY <2>9, <2>10 DEF AttemptInv
<1>5. ASSUME NEW w \in Worker, Succeed(w) PROVE AttemptInv'
  <2>1. PICK j \in Job :
        /\ holding[w] = j /\ BecomeIdle(w) /\ stage[w] = "succeeding"
        /\ UNCHANGED <<attempts, faults>>
        /\ \A k \in Job : k # j => status'[k] = status[k] /\ lease'[k] = lease[k]
        /\ lease'[j] \in {"none", lease[j]}
        /\ IF loaded[w].status = "succeeded" THEN status'[j] = status[j]
                                             ELSE status'[j] = "succeeded"
    BY <1>0, <1>5 DEF Succeed, WriteStatus, ClearLease, TypeOK
  <2>2. holding[w] = j /\ w \in Holders(j)
    BY <2>1 DEF Holders
  <2>3. Extra(j)' <= Extra(j)
    <3>1. CASE loaded[w].status = "succeeded"
      <4>1. Overtaken(w)
        BY <2>1, <3>1 DEF Overtaken
      <4>2. /\ Holders(j)' = Holders(j) \ {w}
            /\ \A v \in Holders(j) \ {w} : Overtaken(v)' = Overtaken(v)
        BY <2>1, <2>2, Released DEF Overtaken
      <4>3. (\A v \in Holders(j)' : Overtaken(v)') => \A v \in Holders(j) : Overtaken(v)
        BY <4>1, <4>2
      <4>4. Reclaimable(j)' => Reclaimable(j)
        BY <2>1, <3>1, <4>3 DEF Reclaimable
      <4> QED
        BY <4>4 DEF Extra
    <3>2. CASE loaded[w].status # "succeeded"
      BY <2>1, <3>2 DEF Extra, Reclaimable, Claimable
    <3> QED
      BY <3>1, <3>2
  <2>4. /\ Cardinality(Holders(j))' <= Cardinality(Holders(j))
        /\ Cardinality(Retriers(j))' <= Cardinality(Retriers(j))
        /\ Cardinality(Holders(j))' \in Int /\ Cardinality(Retriers(j))' \in Int
    BY <2>1, <2>2, Released, Counting
  <2>5. AttemptAt(j)'
    <3>1. Extra(j)' \in {0, 1}
      BY DEF Extra
    <3> QED
      BY <1>0, <2>1, <2>3, <2>4, <3>1, Counting DEF AttemptAt
  <2>6. ASSUME NEW k \in Job, k # j PROVE AttemptAt(k)'
    BY <1>0, <2>1, <2>2, <2>6, OthersReleased
  <2> QED
    BY <2>5, <2>6 DEF AttemptInv
<1>6. ASSUME NEW w \in Worker, RecordFailure(w) PROVE AttemptInv'
  <2>1. PICK j \in Job :
        /\ holding[w] = j /\ BecomeIdle(w) /\ stage[w] = "recording"
        /\ UNCHANGED <<attempts, faults>>
        /\ \A k \in Job : k # j => status'[k] = status[k] /\ lease'[k] = lease[k]
        /\ lease'[j] \in {"none", lease[j]}
    BY <1>0, <1>6 DEF RecordFailure, WriteStatus, ClearLease, TypeOK
  <2>2. PICK s \in {"retrying", "dead", "failed"} :
          /\ IF loaded[w].status = s THEN status'[j] = status[j] ELSE status'[j] = s
          /\ s = "retrying" => loaded[w].attempts < MaxAttempts[j]
    <3>1. CASE status' = status
      BY <1>6, <2>1, <3>1 DEF RecordFailure, WriteStatus, TypeOK
    <3>2. CASE status' # status
      BY <1>6, <2>1, <3>2 DEF RecordFailure, WriteStatus, TypeOK
    <3> QED
      BY <3>1, <3>2
  <2>3. holding[w] = j /\ w \in Holders(j)
    BY <2>1 DEF Holders
  <2>4. /\ Cardinality(Holders(j))' = Cardinality(Holders(j)) - 1
        /\ Cardinality(Retriers(j))' <= Cardinality(Retriers(j))
        /\ w \in Retriers(j) => Cardinality(Retriers(j))' = Cardinality(Retriers(j)) - 1
        /\ Cardinality(Retriers(j))' \in Int
        /\ Extra(j)' \in {0, 1}
    BY <2>1, <2>3, Released, Counting DEF Extra
  <2>5. ASSUME loaded[w].status = s PROVE AttemptAt(j)'
    <3>1. Overtaken(w)
      BY <2>1, <2>5 DEF Overtaken
    <3>2. /\ Holders(j)' = Holders(j) \ {w}
          /\ \A v \in Holders(j) \ {w} : Overtaken(v)' = Overtaken(v)
      BY <2>1, <2>3, Released DEF Overtaken
    <3>3. (\A v \in Holders(j)' : Overtaken(v)') => \A v \in Holders(j) : Overtaken(v)
      BY <3>1, <3>2
    <3>4. Reclaimable(j)' => Reclaimable(j)
      BY <2>1, <2>2, <2>5, <3>3 DEF Reclaimable
    <3>5. Extra(j)' <= Extra(j)
      BY <3>4 DEF Extra
    <3> QED
      BY <1>0, <2>1, <2>4, <3>5, Counting DEF AttemptAt
  <2>6. ASSUME loaded[w].status # s, s = "retrying" PROVE AttemptAt(j)'
    <3>1. w \in Retriers(j)
      BY <2>1, <2>2, <2>3, <2>6 DEF Retriers
    <3> QED
      BY <1>0, <2>1, <2>4, <3>1, Counting DEF AttemptAt
  <2>7. ASSUME loaded[w].status # s, s # "retrying" PROVE AttemptAt(j)'
    <3>1. Extra(j)' = 0
      BY <2>2, <2>7 DEF Extra, Reclaimable, Claimable
    <3> QED
      BY <1>0, <2>1, <2>4, <3>1, Counting DEF AttemptAt
  <2>8. AttemptAt(j)'
    BY <2>5, <2>6, <2>7
  <2>9. ASSUME NEW k \in Job, k # j PROVE AttemptAt(k)'
    BY <1>0, <2>1, <2>3, <2>9, OthersReleased
  <2> QED
    BY <2>8, <2>9 DEF AttemptInv
<1>7. ASSUME NEW w \in Worker, DropFailure(w) \/ Crash(w) PROVE AttemptInv'
  <2>1. /\ BecomeIdle(w) /\ UNCHANGED jobVars
        /\ faults' = faults \/ faults' = faults + 1
        /\ faults' = faults => holding[w] = NoJob
    BY <1>0, <1>7 DEF DropFailure, Crash
  <2>2. ASSUME NEW k \in Job, holding[w] # k PROVE AttemptAt(k)'
    BY <1>0, <2>1, <2>2, OthersReleased
  <2>3. ASSUME NEW k \in Job, holding[w] = k PROVE AttemptAt(k)'
    <3>1. faults' = faults + 1 /\ attempts'[k] = attempts[k]
      BY <2>1, <2>3, ConstantsTyped
    <3>2. /\ Cardinality(Holders(k))' = Cardinality(Holders(k)) - 1
          /\ Cardinality(Retriers(k))' <= Cardinality(Retriers(k))
          /\ Cardinality(Retriers(k))' \in Int
          /\ Extra(k)' \in {0, 1}
      BY <2>1, <2>3, Released, Counting DEF Extra
    <3> QED
      BY <1>0, <3>1, <3>2, Counting DEF AttemptAt
  <2> QED
    BY <2>2, <2>3 DEF AttemptInv
<1>8. ASSUME NEW w \in Worker, HandlerReturns(w) \/ FailureReads(w) PROVE AttemptInv'
  <2>1. PICK from \in {"handling", "failing"}, to \in {"succeeding", "recording"} :
          ReadRow(w, from, to)
    BY <1>8 DEF HandlerReturns, FailureReads
  <2>2. PICK j \in Job :
        /\ holding[w] = j /\ UNCHANGED <<jobVars, holding, faults>>
        /\ stage[w] = from /\ stage'[w] = to
        /\ loaded'[w].status = status[j] /\ loaded'[w].attempts = attempts[j]
        /\ \A v \in Worker \ {w} : stage'[v] = stage[v] /\ loaded'[v] = loaded[v]
    BY <1>0, <2>1 DEF ReadRow, TypeOK
  <2>3. holding[w] = j
    BY <2>2
  <2>4. \A k \in Job : /\ Holders(k)' = Holders(k) /\ Holders(k) \subseteq Worker
                       /\ w \in Holders(k) <=> k = j
    BY <2>2, <2>3 DEF Holders
  <2>5. ASSUME NEW k \in Job, k # j PROVE AttemptAt(k)'
    BY <1>0, <2>2, <2>4, <2>5, Untouched
  <2>6. status[j] = "running" => \A v \in Holders(j) : Overtaken(v)' = Overtaken(v)
    BY <2>2, <2>4 DEF Overtaken
  <2>7. Extra(j)' = Extra(j)
    BY <2>2, <2>4, <2>6 DEF Extra, Reclaimable, Claimable
  <2>8. attempts[j] >= MaxAttempts[j] => Retriers(j)' = Retriers(j)
    <3>1. w \notin Retriers(j)
      BY <2>2 DEF Retriers
    <3>2. attempts[j] >= MaxAttempts[j] => ~(loaded'[w].attempts < MaxAttempts[j])
      BY <2>2, Counting
    <3>3. attempts[j] >= MaxAttempts[j] => w \notin Retriers(j)'
      BY <3>2 DEF Retriers
    <3> QED
      BY <2>2, <2>4, <3>1, <3>3 DEF Retriers
  <2>9. /\ Cardinality(Holders(j))' = Cardinality(Holders(j))
        /\ attempts[j] >= MaxAttempts[j] =>
             Cardinality(Retriers(j))' = Cardinality(Retriers(j))
    BY <2>4, <2>8
  <2>10. AttemptAt(j)'
    BY <1>0, <2>2, <2>7, <2>9, Counting DEF AttemptAt
  <2> QED
    BY <2>5, <2>10 DEF AttemptInv
<1>9. ASSUME NEW w \in Worker, HandlerFails(w) \/ RowGone(w) PROVE AttemptInv'
  <2>1. /\ UNCHANGED <<jobVars, holding, faults>>
        /\ stage[w] = "handling" \/ holding[w] = NoJob
        /\ stage'[w] = "failing"
        /\ \A v \in Worker \ {w} : stage'[v] = stage[v] /\ loaded'[v] = loaded[v]
    BY <1>9 DEF HandlerFails, RowGone, Raise, TypeOK
  <2>2. \A k \in Job : Holders(k)' = Holders(k) /\ Holders(k) \subseteq Worker
    BY <2>1 DEF Holders
  <2>3. ASSUME NEW k \in Job PROVE AttemptAt(k)'
    <3>1. w \in Holders(k) => stage[w] = "handling"
      BY <2>1, ConstantsTyped DEF Holders
    <3>2. \A v \in Holders(k) : Overtaken(v)' = Overtaken(v)
      BY <2>1, <2>2, <3>1 DEF Overtaken
    <3>3. Retriers(k)' = Retriers(k)
      BY <2>1, <2>2, <3>1 DEF Retriers
    <3>4. Extra(k)' = Extra(k)
      BY <2>1, <2>2, <3>2 DEF Extra, Reclaimable
    <3>5. Cardinality(Retriers(k))' = Cardinality(Retriers(k))
          /\ Cardinality(Holders(k))' = Cardinality(Holders(k))
      BY <2>2, <3>3
    <3> QED
      BY <1>0, <2>1, <3>4, <3>5, Counting DEF AttemptAt
  <2> QED
    BY <2>3 DEF AttemptInv
<1>10. ASSUME NEW w \in Worker, Reap(w) PROVE AttemptInv'
  <2>1. /\ UNCHANGED <<attempts, holding, stage, loaded, faults>>
        /\ \A k \in Job \ Expired : status'[k] = status[k] /\ lease'[k] = lease[k]
    BY <1>10 DEF Reap
  <2>2. \A k \in Job : Holders(k)' = Holders(k) /\ Retriers(k)' = Retriers(k)
    BY <2>1 DEF Holders, Retriers
  <2>3. ASSUME NEW k \in Expired PROVE k \in Job /\ AttemptAt(k)'
    <3>1. k \in Job /\ Extra(k) = 1 /\ Extra(k)' \in {0, 1}
      BY <2>3 DEF Expired, Extra, Reclaimable
    <3>2. /\ Cardinality(Holders(k))' = Cardinality(Holders(k))
          /\ Cardinality(Retriers(k))' = Cardinality(Retriers(k))
      BY <2>2, <3>1
    <3> QED
      BY <1>0, <2>1, <3>1, <3>2, Counting DEF AttemptAt
  <2>4. ASSUME NEW k \in Job \ Expired PROVE AttemptAt(k)'
    BY <1>0, <2>1, <2>2, <2>4, Untouched
  <2> QED
    BY <2>3, <2>4 DEF AttemptInv
<1>11. ASSUME NEW w \in Worker, Purge(w) PROVE AttemptInv'
  <2>1. /\ UNCHANGED <<stage, loaded, faults>>
        /\ \A k \in Job : attempts'[k] = IF k \in Purgeable THEN 0 ELSE attempts[k]
        /\ \A k \in Job \ Purgeable : status'[k] = status[k] /\ lease'[k] = lease[k]
    BY <1>11 DEF Purge
  <2>2. \A k \in Job : Holders(k)' = IF k \in Purgeable THEN {} ELSE Holders(k)
    BY <1>11, ConstantsTyped DEF Purge, Holders, Purgeable
  <2>3. ASSUME NEW k \in Job, k \in Purgeable PROVE AttemptAt(k)'
    <3>1. Cardinality(Holders(k))' = 0 /\ attempts'[k] = 0 /\ Extra(k)' \in {0, 1}
      BY <2>1, <2>2, <2>3, FS_EmptySet DEF Extra
    <3> QED
      BY <1>0, <2>1, <3>1, ConstantsTyped DEF AttemptAt
  <2>4. ASSUME NEW k \in Job, k \notin Purgeable PROVE AttemptAt(k)'
    BY <1>0, <2>1, <2>2, <2>4, Untouched
  <2> QED
    BY <2>3, <2>4 DEF AttemptInv
<1>12. ASSUME \/ \E j \in Job : BecomesDue(j) \/ Ages(j)
              \/ UNCHANGED vars
       PROVE  UNCHANGED <<holding, stage, loaded, status, attempts, lease, faults>>
  BY <1>12 DEF BecomesDue, Ages, vars
<1> QED
  BY <1>1, <1>2, <1>3, <1>4, <1>5, <1>6, <1>7, <1>8, <1>9, <1>10, <1>11, <1>12
  DEF Next, Finish, Record

\* A job is claimed at most once more than its ceiling for every crash and
\* every overrun lease, although what is compared with the ceiling is a reading.
THEOREM AttemptsBounded == Spec => []AttemptBound
<1>1. Init => AttemptInv
  <2> SUFFICES ASSUME Init, NEW j \in Job PROVE AttemptAt(j)
    BY DEF AttemptInv
  <2>1. Holders(j) = {} /\ Retriers(j) = {}
    BY ConstantsTyped DEF Init, Holders, Retriers
  <2>2. Cardinality(Holders(j)) = 0 /\ Cardinality(Retriers(j)) = 0
    BY <2>1, FS_EmptySet
  <2>3. Extra(j) = 0
    BY DEF Init, Extra, Reclaimable, Claimable
  <2> QED
    BY <2>2, <2>3, ConstantsTyped DEF AttemptAt, Init
<1>2. TypeOK /\ CommitInv /\ AttemptInv => AttemptBound
  <2> SUFFICES ASSUME TypeOK, CommitInv, AttemptInv, NEW j \in Job
               PROVE  attempts[j] <= MaxAttempts[j] + faults
    BY DEF AttemptBound
  <2> QED
    BY Counting DEF AttemptInv, AttemptAt
<1> QED
  BY <1>1, <1>2, AttemptStep, TypeCorrect, HandsCorrect, HoldersCounted, PTL DEF Spec
----------------------------------------------------------------------------
(* Facts that need handlers to finish within their lease *)

\* The strengthening of SingleExecutor and CommittedOnce.  A worker that is not
\* idle carries a row that is running under a live lease, so neither the reaper
\* nor a claim nor retention can touch it, and what it has read of the row is what
\* the row still is; a finish date belongs to a row that is settled, so retention
\* deletes nothing that is still wanted.
OwnedInv ==
  \A w \in Worker :
    /\ stage[w] # "idle" => holding[w] # NoJob
    /\ holding[w] # NoJob => lease[holding[w]] = "live"
    /\ stage[w] \in {"succeeding", "recording"} =>
         loaded[w].status = "running" /\ loaded[w].lease # "none"

FinishedInv == \A j \in Job : finished[j] # "no" => status[j] \in Terminal

ExclusiveInv ==
  SingleExecutor /\ CommittedOnce /\ LeaseIffRunning /\ OwnedInv /\ FinishedInv

LEMMA ExclusiveInit == Init => ExclusiveInv
BY DEF Init, ExclusiveInv, SingleExecutor, CommittedOnce, LeaseIffRunning, OwnedInv,
       FinishedInv

\* A worker settles or returns the row it carries: both columns are sent.
LEMMA WrittenInFull ==
  ASSUME TypeOK, ExclusiveInv, NEW w \in Worker, holding[w] \in Job,
         stage[w] \in {"succeeding", "recording"}, NEW s \in Statuses, s # "running",
         WriteStatus(w, s), ClearLease(w)
  PROVE  /\ status' = [status EXCEPT ![holding[w]] = s]
         /\ lease' = [lease EXCEPT ![holding[w]] = "none"]
BY DEF ExclusiveInv, OwnedInv, WriteStatus, ClearLease

LEMMA ExclusiveStep ==
  ASSUME ~SlowHandlers, TypeOK, HandsInv, ExclusiveInv, [Next]_vars
  PROVE  ExclusiveInv'
<1> USE ConstantsTyped
    DEF TypeOK, LeaseIffRunning, HandsInv, ExclusiveInv, OwnedInv, FinishedInv,
        SingleExecutor, CommittedOnce, Claimable, Unfinished, Terminal, Statuses,
        workerVars, jobVars, BecomeIdle
<1>1. ASSUME NEW j \in Job, Enqueue(j) PROVE ExclusiveInv'
  <2>1. SingleExecutor' /\ OwnedInv' /\ LeaseIffRunning'
    BY <1>1 DEF Enqueue
  <2>2. CommittedOnce' /\ FinishedInv'
    BY <1>1 DEF Enqueue
  <2> QED
    BY <2>1, <2>2
<1>2. ASSUME NEW j \in Job, LeaseExpires(j) PROVE ExclusiveInv'
  BY <1>2 DEF LeaseExpires, Orphan
<1>3. ASSUME NEW j \in Job, BecomesDue(j) \/ Ages(j) PROVE ExclusiveInv'
  BY <1>3 DEF BecomesDue, Ages
<1>4. ASSUME NEW w \in Worker, NEW j \in Job, Claim(w, j) PROVE ExclusiveInv'
  <2>1. \A v \in Worker : holding[v] # j
    BY <1>4 DEF Claim, Eligible
  <2>2. SingleExecutor' /\ OwnedInv' /\ LeaseIffRunning'
    BY <1>4, <2>1 DEF Claim
  <2>3. CommittedOnce' /\ FinishedInv'
    BY <1>4 DEF Claim, Eligible
  <2> QED
    BY <2>2, <2>3
<1>12. ASSUME NEW w \in Worker, HandlerReturns(w) \/ FailureReads(w) PROVE ExclusiveInv'
  <2>1. PICK to \in {"succeeding", "recording"} :
          /\ stage' = [stage EXCEPT ![w] = to]
          /\ holding[w] \in Job
          /\ loaded' = [loaded EXCEPT ![w] = [status |-> status[holding[w]],
                                             lease |-> lease[holding[w]],
                                             attempts |-> attempts[holding[w]]]]
          /\ UNCHANGED <<jobVars, holding, error, faults>>
    BY <1>12 DEF HandlerReturns, FailureReads, ReadRow
  <2>0. \A v \in Worker : holding[v] \in Job => status[holding[v]] = "running"
                                             /\ lease[holding[v]] # "none"
    OBVIOUS
  <2>2. status[holding[w]] = "running" /\ lease[holding[w]] # "none"
    BY <2>0, <2>1
  <2>3. loaded'[w].status = "running" /\ loaded'[w].lease # "none"
    BY <2>1, <2>2
  <2>4. \A v \in Worker \ {w} : stage'[v] = stage[v] /\ loaded'[v] = loaded[v]
    BY <2>1
  <2>5. OwnedInv'
    BY <2>1, <2>3, <2>4
  <2>6. SingleExecutor' /\ CommittedOnce' /\ LeaseIffRunning' /\ FinishedInv'
    BY <2>1
  <2> QED
    BY <2>5, <2>6
<1>5. ASSUME NEW w \in Worker, Succeed(w) PROVE ExclusiveInv'
  <2>0. /\ status' = [status EXCEPT ![holding[w]] = "succeeded"]
        /\ lease' = [lease EXCEPT ![holding[w]] = "none"]
    BY <1>5, WrittenInFull DEF Succeed
  <2>1. status[holding[w]] = "running" /\ commits[holding[w]] = 0
    BY <1>5 DEF Succeed
  <2>2. SingleExecutor' /\ OwnedInv' /\ LeaseIffRunning'
    BY <1>5, <2>0 DEF Succeed
  <2>3. CommittedOnce'
    BY <1>5, <2>0, <2>1 DEF Succeed
  <2>4. FinishedInv'
    BY <1>5, <2>0 DEF Succeed
  <2> QED
    BY <2>2, <2>3, <2>4
<1>6. ASSUME NEW w \in Worker, HandlerFails(w) \/ RowGone(w) PROVE ExclusiveInv'
  <2>1. /\ stage' = [stage EXCEPT ![w] = "failing"]
        /\ holding[w] \in Job
        /\ loaded' = [loaded EXCEPT ![w] = Unread]
        /\ UNCHANGED <<jobVars, holding>>
    BY <1>6 DEF HandlerFails, RowGone, Raise
  <2> QED
    BY <2>1
<1>7. ASSUME NEW w \in Worker, RecordFailure(w) PROVE ExclusiveInv'
  <2>1. status[holding[w]] = "running" /\ finished[holding[w]] = "no"
    BY <1>7 DEF RecordFailure
  <2>5. PICK s \in {"retrying", "dead", "failed"} :
          /\ WriteStatus(w, s)
          /\ IF s = "retrying" THEN finished' = finished
             ELSE finished' = [finished EXCEPT ![holding[w]] = "recent"]
    BY <1>7 DEF RecordFailure
  <2>6. /\ status' = [status EXCEPT ![holding[w]] = s]
        /\ lease' = [lease EXCEPT ![holding[w]] = "none"]
    BY <1>7, <2>5, WrittenInFull DEF RecordFailure
  <2>7. holding[w] \in Job /\ UNCHANGED <<attempts, commits, faults>>
        /\ holding' = [holding EXCEPT ![w] = NoJob] /\ stage' = [stage EXCEPT ![w] = "idle"]
        /\ loaded' = [loaded EXCEPT ![w] = Unread]
    BY <1>7 DEF RecordFailure
  <2>2. SingleExecutor' /\ OwnedInv' /\ LeaseIffRunning'
    BY <2>6, <2>7
  <2>3. CommittedOnce'
    BY <2>1, <2>6, <2>7
  <2>4. FinishedInv'
    BY <2>1, <2>5, <2>6, <2>7
  <2> QED
    BY <2>2, <2>3, <2>4
<1>8. ASSUME NEW w \in Worker, DropFailure(w) \/ Crash(w) PROVE ExclusiveInv'
  BY <1>8 DEF DropFailure, Crash
<1>9. ASSUME NEW w \in Worker, Reap(w) PROVE ExclusiveInv'
  BY <1>9 DEF Reap, Expired
<1>10. ASSUME NEW w \in Worker, Purge(w) PROVE ExclusiveInv'
  <2>1. \A v \in Worker : holding[v] \notin Purgeable
    BY DEF Purgeable
  <2>2. SingleExecutor' /\ OwnedInv' /\ LeaseIffRunning'
    BY <1>10, <2>1 DEF Purge
  <2>3. CommittedOnce' /\ FinishedInv'
    BY <1>10 DEF Purge
  <2> QED
    BY <2>2, <2>3
<1>11. CASE UNCHANGED vars
  BY <1>11 DEF vars
<1> QED
  BY <1>1, <1>2, <1>3, <1>4, <1>5, <1>6, <1>7, <1>8, <1>9, <1>10, <1>11, <1>12
  DEF Next, Finish, Record

LEMMA ExclusiveCorrect == ~SlowHandlers => (Spec => []ExclusiveInv)
<1> SUFFICES ASSUME ~SlowHandlers PROVE Spec => []ExclusiveInv
  OBVIOUS
<1>1. TypeOK /\ HandsInv /\ ExclusiveInv /\ [Next]_vars => ExclusiveInv'
  BY ExclusiveStep
<1> QED
  BY <1>1, ExclusiveInit, TypeCorrect, HandsCorrect, PTL DEF Spec

\* No two workers have the same job in hand.
THEOREM ExclusiveExecution == ~SlowHandlers => (Spec => []SingleExecutor)
<1>1. ExclusiveInv => SingleExecutor
  BY DEF ExclusiveInv
<1> QED
  BY <1>1, ExclusiveCorrect, PTL

\* A job that reports success committed its result once; no other job did.
THEOREM ExactlyOnce == ~SlowHandlers => (Spec => []CommittedOnce)
<1>1. ExclusiveInv => CommittedOnce
  BY DEF ExclusiveInv
<1> QED
  BY <1>1, ExclusiveCorrect, PTL

\* A row has a lease exactly while it is running: no job is out of the reaper's
\* reach.  With stale workers that is false, and so is not claimed.
THEOREM LeaseCorrect == ~SlowHandlers => (Spec => []LeaseIffRunning)
<1>1. ExclusiveInv => LeaseIffRunning
  BY DEF ExclusiveInv
<1> QED
  BY <1>1, ExclusiveCorrect, PTL

----------------------------------------------------------------------------
(* The queue implements JobDelivery *)

LEMMA Phases ==
  /\ PhaseOf("absent") = "absent"
  /\ \A s \in Unfinished : PhaseOf(s) = "pending"
  /\ PhaseOf("succeeded") = "done"
  /\ PhaseOf("failed") = "abandoned" /\ PhaseOf("dead") = "abandoned"
BY DEF PhaseOf, Unfinished, Claimable

LEMMA StatusNames ==
  /\ "queued" \in Unfinished /\ "retrying" \in Unfinished /\ "running" \in Unfinished
  /\ Unfinished \subseteq Statuses
  /\ {"succeeded", "failed", "dead"} \subseteq Statuses
BY DEF Unfinished, Claimable, Statuses, Terminal

\* What an update of one row does to the phases.
LEMMA PhaseUpdate ==
  TypeOK => \A j \in Job : \A s \in Statuses :
              status' = [status EXCEPT ![j] = s]
                => Phase' = [Phase EXCEPT ![j] = PhaseOf(s)]
BY DEF TypeOK, Phase

LEMMA InitRefines == Init => Delivery!Init
BY Phases DEF Init, Delivery!Init, Phase

\* Only four actions change what a caller may know; the rest stutter.
LEMMA StepRefines ==
  ASSUME TypeOK, HandsInv, ExclusiveInv, [Next]_vars
  PROVE  [Delivery!Next]_(Delivery!vars)
<1> USE DEF Delivery!vars, workerVars, jobVars, BecomeIdle
<1>0. \A w \in Worker : holding[w] # NoJob =>
        holding[w] \in Job /\ status[holding[w]] = "running" /\ finished[holding[w]] = "no"
  BY DEF TypeOK, ExclusiveInv, OwnedInv, FinishedInv, LeaseIffRunning, Terminal
<1>1. ASSUME NEW j \in Job, Enqueue(j) PROVE Delivery!Submit(j)
  <2>1. commits' = commits
    BY <1>1 DEF Enqueue, ExclusiveInv, CommittedOnce, TypeOK
  <2>2. Phase' = [Phase EXCEPT ![j] = "pending"]
    <3>1. status' = [status EXCEPT ![j] = "queued"]
      BY <1>1 DEF Enqueue
    <3>2. Phase' = [Phase EXCEPT ![j] = PhaseOf("queued")]
      BY <3>1, PhaseUpdate, StatusNames
    <3> QED
      BY <3>2, Phases, StatusNames
  <2>3. Phase[j] = "absent"
    BY <1>1, Phases DEF Enqueue, Phase
  <2> QED
    BY <2>1, <2>2, <2>3 DEF Delivery!Submit
<1>2. ASSUME NEW j \in Job, LeaseExpires(j) \/ BecomesDue(j) \/ Ages(j)
      PROVE  UNCHANGED Delivery!vars
  BY <1>2 DEF LeaseExpires, BecomesDue, Ages, Phase
<1>3. ASSUME NEW w \in Worker, NEW j \in Job, Claim(w, j)
      PROVE  UNCHANGED Delivery!vars
  <2>1. Phase[j] = "pending"
    BY <1>3, Phases DEF Claim, Eligible, Phase, Unfinished
  <2>2. Phase' = [Phase EXCEPT ![j] = "pending"]
    <3>1. status' = [status EXCEPT ![j] = "running"]
      BY <1>3 DEF Claim
    <3>2. Phase' = [Phase EXCEPT ![j] = PhaseOf("running")]
      BY <3>1, PhaseUpdate, StatusNames
    <3> QED
      BY <3>2, Phases, StatusNames
  <2> QED
    BY <1>3, <2>1, <2>2 DEF Claim, Phase
<1>4. ASSUME NEW w \in Worker, Succeed(w) PROVE Delivery!Deliver(holding[w])
  <2>1. Phase[holding[w]] = "pending"
    BY <1>4, <1>0, Phases DEF Succeed, Phase, Unfinished
  <2>2. Phase' = [Phase EXCEPT ![holding[w]] = "done"]
    <3>0. holding[w] \in Job /\ stage[w] = "succeeding" /\ "succeeded" \in Statuses
          /\ WriteStatus(w, "succeeded") /\ ClearLease(w)
      BY <1>4, <1>0, StatusNames DEF Succeed
    <3>1. status' = [status EXCEPT ![holding[w]] = "succeeded"]
      BY <3>0, WrittenInFull
    <3>2. Phase' = [Phase EXCEPT ![holding[w]] = PhaseOf("succeeded")]
      BY <3>0, <3>1, PhaseUpdate, StatusNames
    <3> QED
      BY <3>2, Phases
  <2> QED
    BY <1>4, <2>1, <2>2 DEF Succeed, Delivery!Deliver
<1>5. ASSUME NEW w \in Worker,
             HandlerReturns(w) \/ FailureReads(w) \/ HandlerFails(w) \/ RowGone(w)
      PROVE  UNCHANGED Delivery!vars
  BY <1>5 DEF HandlerReturns, FailureReads, ReadRow, HandlerFails, RowGone, Raise, Phase
<1>6. ASSUME NEW w \in Worker, RecordFailure(w)
      PROVE  Delivery!Abandon(holding[w]) \/ UNCHANGED Delivery!vars
  <2>1. holding[w] \in Job /\ Phase[holding[w]] = "pending"
    BY <1>6, <1>0, Phases DEF RecordFailure, Phase, Unfinished
  <2>2. commits' = commits
    BY <1>6 DEF RecordFailure
  <2>3. CASE status' = [status EXCEPT ![holding[w]] = "retrying"]
    <3>0. Phase' = [Phase EXCEPT ![holding[w]] = PhaseOf("retrying")]
      BY <2>1, <2>3, PhaseUpdate, StatusNames
    <3>1. Phase' = [Phase EXCEPT ![holding[w]] = "pending"]
      BY <3>0, Phases, StatusNames
    <3> QED
      BY <2>1, <2>2, <3>1 DEF Phase
  <2>4. CASE \E s \in {"dead", "failed"} : status' = [status EXCEPT ![holding[w]] = s]
    <3>0. PICK s \in {"dead", "failed"} : status' = [status EXCEPT ![holding[w]] = s]
      BY <2>4
    <3>1. Phase' = [Phase EXCEPT ![holding[w]] = PhaseOf(s)]
      BY <2>1, <3>0, PhaseUpdate, StatusNames
    <3>2. PhaseOf(s) = "abandoned"
      BY <3>0, Phases
    <3> QED
      BY <2>1, <2>2, <3>1, <3>2 DEF Delivery!Abandon
  <2>5. PICK s \in {"retrying", "dead", "failed"} :
          status' = [status EXCEPT ![holding[w]] = s]
    <3>1. PICK s \in {"retrying", "dead", "failed"} : WriteStatus(w, s)
      BY <1>6 DEF RecordFailure
    <3>2. s \in Statuses /\ s # "running" /\ stage[w] = "recording" /\ ClearLease(w)
      BY <1>6, StatusNames DEF RecordFailure
    <3> QED
      BY <2>1, <3>1, <3>2, WrittenInFull
  <2> QED
    BY <2>3, <2>4, <2>5
<1>7. ASSUME NEW w \in Worker, DropFailure(w) \/ Crash(w)
      PROVE  UNCHANGED Delivery!vars
  BY <1>7 DEF DropFailure, Crash, Phase
<1>8. ASSUME NEW w \in Worker, Reap(w) PROVE UNCHANGED Delivery!vars
  <2>1. \A j \in Job : PhaseOf(status'[j]) = PhaseOf(status[j])
    BY <1>8, Phases DEF Reap, Expired, Unfinished, Claimable
  <2> QED
    BY <1>8, <2>1 DEF Reap, Phase
<1>9. ASSUME NEW w \in Worker, Purge(w) PROVE Delivery!Forget(Purgeable)
  <2>1. Purgeable # {}
    BY <1>9 DEF Purge
  <2>2. \A j \in Purgeable : Phase[j] \in Delivery!Settled
    BY Phases DEF Purgeable, ExclusiveInv, FinishedInv, Delivery!Settled, Phase, Terminal
  <2>3. Phase' = [j \in Job |-> IF j \in Purgeable THEN "absent" ELSE Phase[j]]
    BY <1>9, Phases DEF Purge, Phase
  <2>4. commits' = [j \in Job |-> IF j \in Purgeable THEN 0 ELSE commits[j]]
    BY <1>9 DEF Purge
  <2> QED
    BY <2>1, <2>2, <2>3, <2>4 DEF Delivery!Forget
<1>10. CASE UNCHANGED vars
  BY <1>10 DEF vars, Phase
<1>11. Purgeable \in SUBSET Job
  BY DEF Purgeable
<1>12. ASSUME NEW w \in Worker, Succeed(w) \/ RecordFailure(w) PROVE holding[w] \in Job
  BY <1>0, <1>12 DEF Succeed, RecordFailure
<1> QED
  BY <1>1, <1>2, <1>3, <1>4, <1>5, <1>6, <1>7, <1>8, <1>9, <1>10, <1>11, <1>12
  DEF Next, Finish, Record, Delivery!Next

\* While handlers finish within their lease, every behaviour of the queue is one
\* of JobDelivery's: outcomes are final and committed results match them.
THEOREM Refinement == ~SlowHandlers => (Spec => Delivery!SafeSpec)
<1> SUFFICES ASSUME ~SlowHandlers PROVE Spec => Delivery!SafeSpec
  OBVIOUS
<1>1. Spec => []ExclusiveInv
  BY ExclusiveCorrect
<1>2. TypeOK /\ HandsInv /\ ExclusiveInv /\ [Next]_vars
        => [Delivery!Next]_(Delivery!vars)
  BY StepRefines
<1> QED
  BY <1>1, <1>2, InitRefines, TypeCorrect, HandsCorrect, PTL
  DEF Spec, Delivery!SafeSpec
=============================================================================
