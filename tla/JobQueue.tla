------------------------------ MODULE JobQueue ------------------------------
(***************************************************************************)
(* The job queue: the jobs table (app/repositories/jobs.py), the worker    *)
(* loop (app/queue/worker.py) and the reaper and the retention sweep that  *)
(* run as jobs of their own.                                               *)
(*                                                                         *)
(* One step of this specification is one committed transaction, or one     *)
(* thing that happens to a process or a clock between two transactions.    *)
(* The worker uses three transactions per job: the claim, the handler's    *)
(* own (which also writes the success), and, after an error has rolled     *)
(* that one back, the record of the failure.  A crash can fall between any *)
(* two of them.  The last two begin by reading the row, which is a step of *)
(* its own: they write by id, and only the columns that differ from what   *)
(* was read, so that another worker's write in between is kept in part.    *)
(*                                                                         *)
(* Time is abstracted to what the code compares it for: a lease is live or *)
(* expired, a retry is due or not, a finish date is within retention or    *)
(* past it.                                                                *)
(***************************************************************************)
EXTENDS Naturals

CONSTANTS
  Job,            \* idempotency keys of the jobs the program can enqueue
  NoJob,          \* "no row": an idle worker, or a row deleted under a worker
  Worker,         \* worker processes
  Serves,         \* Serves[w]: the jobs of the queues worker w polls
  Keeper,         \* the workers that poll "crawl", where reap and cleanup run
  MaxAttempts,    \* MaxAttempts[j]: contracts.MAX_ATTEMPTS of j's type
  Priority,       \* Priority[j]: the priority it is enqueued with
  FailureKinds,   \* FailureKinds[j]: how j's handler can fail
  SlowHandlers,   \* TRUE when a handler may run for longer than its lease
  MaxFaults       \* bound: crashes and overrun leases in one behaviour

\* The four except clauses of Worker._execute.
ErrorKinds == {"budget", "retryable", "permanent", "unexpected"}

ASSUME JobAssumption == NoJob \notin Job
ASSUME MaxAttemptsAssumption == MaxAttempts \in [Job -> Nat \ {0}]
ASSUME PriorityAssumption == Priority \in [Job -> Nat]
ASSUME FailureAssumption == FailureKinds \in [Job -> SUBSET ErrorKinds]
ASSUME SlowAssumption == SlowHandlers \in BOOLEAN
ASSUME FaultAssumption == MaxFaults \in Nat
ASSUME ServesAssumption == Serves \in [Worker -> SUBSET Job]
ASSUME KeeperAssumption == Keeper \subseteq Worker

VARIABLES
  \* The jobs table, one row per idempotency key.
  status,         \* Job.status, "absent" when there is no row
  attempts,       \* Job.attempts
  lease,          \* Job.lease_expires_at against the clock
  due,            \* next_retry_at is null or has passed
  finished,       \* Job.finished_at against the retention cutoff
  commits,        \* history: handler transactions committed for this row
  \* The worker processes.
  stage,          \* where Worker.run_once is
  holding,        \* the job_id it carries from the claim
  error,          \* the exception _record_failure is about to record
  loaded,         \* the row as uow.jobs.get has read it, before it is written
  \* The environment.
  faults          \* crashes and overrun leases so far

jobVars == <<status, attempts, lease, due, finished, commits>>
workerVars == <<stage, holding, error, loaded>>
vars == <<jobVars, workerVars, faults>>

\* Mutant: the claim looks for new jobs only.
ClaimableNewOnly == {"queued"}

Claimable == {"queued", "retrying"}
Unfinished == Claimable \cup {"running"}
Terminal == {"succeeded", "failed", "dead"}
Statuses == {"absent"} \cup Unfinished \cup Terminal

Leases == {"none", "live", "expired"}

\* What the writes of a worker depend on.
Reading == [status : Statuses, lease : Leases, attempts : Nat]
Unread == [status |-> "absent", lease |-> "none", attempts |-> 0]

Stages == {"idle", "handling", "succeeding", "failing", "recording"}

TypeOK ==
  /\ status \in [Job -> Statuses]
  /\ attempts \in [Job -> Nat]
  /\ lease \in [Job -> Leases]
  /\ due \in [Job -> BOOLEAN]
  /\ finished \in [Job -> {"no", "recent", "old"}]
  /\ commits \in [Job -> Nat]
  /\ stage \in [Worker -> Stages]
  /\ holding \in [Worker -> Job \cup {NoJob}]
  /\ error \in [Worker -> ErrorKinds \cup {"none"}]
  /\ loaded \in [Worker -> Reading]
  /\ faults \in 0..MaxFaults

Init ==
  /\ status = [j \in Job |-> "absent"]
  /\ attempts = [j \in Job |-> 0]
  /\ lease = [j \in Job |-> "none"]
  /\ due = [j \in Job |-> TRUE]
  /\ finished = [j \in Job |-> "no"]
  /\ commits = [j \in Job |-> 0]
  /\ stage = [w \in Worker |-> "idle"]
  /\ holding = [w \in Worker |-> NoJob]
  /\ error = [w \in Worker |-> "none"]
  /\ loaded = [w \in Worker |-> Unread]
  /\ faults = 0

----------------------------------------------------------------------------
(* Enqueuing and claiming *)

\* Mutant: a crawl item's first status written into a job.
EnqueuePending(j) ==
  /\ status[j] = "absent"
  /\ status' = [status EXCEPT ![j] = "pending"]
  /\ UNCHANGED <<attempts, lease, due, finished, commits, workerVars, faults>>

\* INSERT ... ON CONFLICT (idempotency_key) DO NOTHING: a key that has a row,
\* whatever its status, is left alone.  No caller passes run_after, so a new
\* row is due at once.
Enqueue(j) ==
  /\ status[j] = "absent"
  /\ status' = [status EXCEPT ![j] = "queued"]
  /\ attempts' = [attempts EXCEPT ![j] = 0]
  /\ lease' = [lease EXCEPT ![j] = "none"]
  /\ due' = [due EXCEPT ![j] = TRUE]
  /\ finished' = [finished EXCEPT ![j] = "no"]
  /\ commits' = [commits EXCEPT ![j] = 0]
  /\ UNCHANGED <<workerVars, faults>>

\* Mutant: the claim filters out finished rows only.
EligibleUnfinished(w, j) == j \in Serves[w] /\ status[j] \in Unfinished /\ due[j]

Eligible(w, j) == j \in Serves[w] /\ status[j] \in Claimable /\ due[j]

\* Mutant: the claim does not count the attempt.
ClaimUncounted(w, j) ==
  /\ stage[w] = "idle"
  /\ Eligible(w, j)
  /\ status' = [status EXCEPT ![j] = "running"]
  /\ lease' = [lease EXCEPT ![j] = "live"]
  /\ stage' = [stage EXCEPT ![w] = "handling"]
  /\ holding' = [holding EXCEPT ![w] = j]
  /\ UNCHANGED <<attempts, due, finished, commits, error, loaded, faults>>

\* UPDATE ... WHERE id = (SELECT ... ORDER BY priority DESC ... LIMIT 1 FOR
\* UPDATE SKIP LOCKED): the best eligible row, taken by one worker.  Among
\* equal priorities the age order is left open.
Claim(w, j) ==
  /\ stage[w] = "idle"
  /\ Eligible(w, j)
  /\ \A k \in Job : Eligible(w, k) => Priority[k] <= Priority[j]
  /\ status' = [status EXCEPT ![j] = "running"]
  /\ attempts' = [attempts EXCEPT ![j] = @ + 1]
  /\ lease' = [lease EXCEPT ![j] = "live"]
  /\ stage' = [stage EXCEPT ![w] = "handling"]
  /\ holding' = [holding EXCEPT ![w] = j]
  /\ UNCHANGED <<due, finished, commits, error, loaded, faults>>

----------------------------------------------------------------------------
(* Executing *)

BecomeIdle(w) ==
  /\ stage' = [stage EXCEPT ![w] = "idle"]
  /\ holding' = [holding EXCEPT ![w] = NoJob]
  /\ error' = [error EXCEPT ![w] = "none"]
  /\ loaded' = [loaded EXCEPT ![w] = Unread]

\* uow.jobs.get: the row as it is at this moment, without a lock.
ReadRow(w, from, to) ==
  LET j == holding[w]
  IN
  /\ stage[w] = from
  /\ j # NoJob
  /\ stage' = [stage EXCEPT ![w] = to]
  /\ loaded' = [loaded EXCEPT ![w] = [status |-> status[j],
                                      lease |-> lease[j],
                                      attempts |-> attempts[j]]]
  /\ UNCHANGED <<jobVars, holding, error, faults>>

\* The flush of a row that was read: a column goes into the UPDATE only when its
\* new value differs from the one that was read.
WriteStatus(w, s) ==
  status' = IF s = loaded[w].status THEN status ELSE [status EXCEPT ![holding[w]] = s]

ClearLease(w) ==
  lease' = IF loaded[w].lease = "none" THEN lease ELSE [lease EXCEPT ![holding[w]] = "none"]

\* The handler returned; the row is read for succeed().
HandlerReturns(w) == ReadRow(w, "handling", "succeeding")

\* The handler's writes, succeed() and the event commit together.  The status
\* the row has by now is not looked at.
Succeed(w) ==
  LET j == holding[w]
  IN
  /\ stage[w] = "succeeding"
  /\ j # NoJob
  /\ WriteStatus(w, "succeeded")
  /\ ClearLease(w)
  /\ finished' = [finished EXCEPT ![j] = "recent"]
  /\ commits' = [commits EXCEPT ![j] = @ + 1]
  /\ BecomeIdle(w)
  /\ UNCHANGED <<attempts, due, faults>>

\* The handler raised, or the job type is unknown ("permanent"): everything the
\* transaction wrote is rolled back before the except clause runs.
Raise(w, kind) ==
  /\ stage' = [stage EXCEPT ![w] = "failing"]
  /\ error' = [error EXCEPT ![w] = kind]
  /\ loaded' = [loaded EXCEPT ![w] = Unread]
  /\ UNCHANGED <<jobVars, holding, faults>>

HandlerFails(w) ==
  /\ stage[w] = "handling"
  /\ holding[w] # NoJob
  /\ \E kind \in FailureKinds[holding[w]] : Raise(w, kind)

\* The row was deleted while the handler ran: "assert job is not None" raises
\* inside the transaction; deleted after it was read, the UPDATE matches no row,
\* which raises too.
RowGone(w) ==
  /\ stage[w] \in {"handling", "succeeding"}
  /\ holding[w] = NoJob
  /\ Raise(w, "unexpected")

Retryable(kind) == kind # "permanent"

FailureReads(w) == ReadRow(w, "failing", "recording")

\* Mutant: the retry branch returns before the lease is cleared.
RecordFailureKeepsLease(w) ==
  LET j == holding[w]
  IN
  /\ stage[w] = "recording"
  /\ j # NoJob
  /\ WriteStatus(w, "retrying")
  /\ due' = [due EXCEPT ![j] = FALSE]
  /\ BecomeIdle(w)
  /\ UNCHANGED <<attempts, lease, finished, commits, faults>>

\* Mutant: the attempt ceiling is compared with <=.
RecordFailureOneMore(w) ==
  LET j == holding[w]
  IN
  /\ stage[w] = "recording"
  /\ j # NoJob
  /\ loaded[w].attempts <= MaxAttempts[j]
  /\ ClearLease(w)
  /\ WriteStatus(w, "retrying")
  /\ due' = [due EXCEPT ![j] = FALSE]
  /\ BecomeIdle(w)
  /\ UNCHANGED <<attempts, finished, commits, faults>>

\* JobRepository.fail, in a transaction of its own; again whatever the row's
\* status is by now.  Neither branch clears an earlier finished_at.
RecordFailure(w) ==
  LET j == holding[w]
      retry == Retryable(error[w]) /\ loaded[w].attempts < MaxAttempts[j]
  IN
  /\ stage[w] = "recording"
  /\ j # NoJob
  /\ ClearLease(w)
  /\ IF retry
     THEN /\ WriteStatus(w, "retrying")
          /\ due' = [due EXCEPT ![j] = FALSE]
          /\ UNCHANGED finished
     ELSE /\ WriteStatus(w, IF Retryable(error[w]) THEN "dead" ELSE "failed")
          /\ finished' = [finished EXCEPT ![j] = "recent"]
          /\ UNCHANGED due
  /\ BecomeIdle(w)
  /\ UNCHANGED <<attempts, commits, faults>>

\* _record_failure finds no row and returns; or its UPDATE matches none, and the
\* error ends the process, which the supervisor starts again.
DropFailure(w) ==
  /\ stage[w] \in {"failing", "recording"}
  /\ holding[w] = NoJob
  /\ BecomeIdle(w)
  /\ UNCHANGED <<jobVars, faults>>

----------------------------------------------------------------------------
(* Crashes and time *)

Orphan(j) == \A w \in Worker : holding[w] # j

\* The process dies (or _record_failure itself cannot reach the database) and
\* the supervisor starts it again; the open transaction is rolled back.
Crash(w) ==
  /\ stage[w] # "idle"
  /\ faults < MaxFaults
  /\ faults' = faults + 1
  /\ BecomeIdle(w)
  /\ UNCHANGED jobVars

\* heartbeat_job has no caller, so a lease runs out job_lease_ttl_s after the
\* claim whether or not its worker is still at work.
LeaseExpires(j) ==
  /\ lease[j] = "live"
  /\ \/ Orphan(j) /\ UNCHANGED faults
     \/ ~Orphan(j) /\ SlowHandlers /\ faults < MaxFaults /\ faults' = faults + 1
  /\ lease' = [lease EXCEPT ![j] = "expired"]
  /\ UNCHANGED <<status, attempts, due, finished, commits, workerVars>>

BecomesDue(j) ==
  /\ ~due[j]
  /\ due' = [due EXCEPT ![j] = TRUE]
  /\ UNCHANGED <<status, attempts, lease, finished, commits, workerVars, faults>>

\* jobs_retention_days pass; no handler runs for that long, but a row may wait.
Ages(j) ==
  /\ finished[j] = "recent"
  /\ Orphan(j)
  /\ finished' = [finished EXCEPT ![j] = "old"]
  /\ UNCHANGED <<status, attempts, lease, due, commits, workerVars, faults>>

----------------------------------------------------------------------------
(* The housekeeping jobs, claimed and run by an idle worker of their queue.  *)
(* Each does its work in one statement, so a crash inside one changes        *)
(* nothing and the schedule enqueues the next.                               *)

\* Mutant: the reaper does not compare the lease with the clock.
ExpiredAnyLease == {j \in Job : status[j] = "running" /\ lease[j] # "none"}

Expired == {j \in Job : status[j] = "running" /\ lease[j] = "expired"}

\* reap_expired_jobs: attempts is neither read nor changed.
Reap(w) ==
  /\ stage[w] = "idle"
  /\ w \in Keeper
  /\ Expired # {}
  /\ status' = [j \in Job |-> IF j \in Expired THEN "retrying" ELSE status[j]]
  /\ lease' = [j \in Job |-> IF j \in Expired THEN "none" ELSE lease[j]]
  /\ due' = [j \in Job |-> IF j \in Expired THEN TRUE ELSE due[j]]
  /\ UNCHANGED <<attempts, finished, commits, workerVars, faults>>

\* Mutant: retention by age alone, without asking whether the job finished.
PurgeableAnyStatus == {j \in Job : status[j] # "absent"}

Purgeable == {j \in Job : status[j] # "absent" /\ finished[j] = "old"}

\* purge_old looks at finished_at alone.  A worker still carrying the id of a
\* deleted row finds nothing, even when the key has been enqueued again.
Purge(w) ==
  /\ stage[w] = "idle"
  /\ w \in Keeper
  /\ Purgeable # {}
  /\ status' = [j \in Job |-> IF j \in Purgeable THEN "absent" ELSE status[j]]
  /\ attempts' = [j \in Job |-> IF j \in Purgeable THEN 0 ELSE attempts[j]]
  /\ lease' = [j \in Job |-> IF j \in Purgeable THEN "none" ELSE lease[j]]
  /\ due' = [j \in Job |-> IF j \in Purgeable THEN TRUE ELSE due[j]]
  /\ finished' = [j \in Job |-> IF j \in Purgeable THEN "no" ELSE finished[j]]
  /\ commits' = [j \in Job |-> IF j \in Purgeable THEN 0 ELSE commits[j]]
  /\ holding' = [v \in Worker |->
                   IF holding[v] \in Purgeable THEN NoJob ELSE holding[v]]
  /\ UNCHANGED <<stage, error, loaded, faults>>

----------------------------------------------------------------------------

Finish(w) ==
  \/ HandlerReturns(w)
  \/ Succeed(w)
  \/ HandlerFails(w)
  \/ RowGone(w)

Record(w) == FailureReads(w) \/ RecordFailure(w) \/ DropFailure(w)

Next ==
  \/ \E j \in Job : Enqueue(j) \/ LeaseExpires(j) \/ BecomesDue(j) \/ Ages(j)
  \/ \E w \in Worker :
       \/ \E j \in Job : Claim(w, j)
       \/ Finish(w)
       \/ Record(w)
       \/ Crash(w)
       \/ Reap(w)
       \/ Purge(w)

Spec == Init /\ [][Next]_vars

\* Workers run on until they are told to stop, so each finishes what it holds;
\* the clock moves; the scheduler enqueues a reap every five minutes and a
\* worker polls every second, so an idle keeper gets to it and a job that keeps
\* coming up as the best eligible one is eventually claimed.  Nothing obliges
\* anyone to enqueue, to crash or to age a row.
Fairness ==
  /\ \A w \in Worker : WF_vars(Finish(w)) /\ WF_vars(Record(w))
  /\ \A j \in Job : WF_vars(LeaseExpires(j) /\ Orphan(j)) /\ WF_vars(BecomesDue(j))
  /\ \A j \in Job : SF_vars(\E w \in Worker : Claim(w, j))
  /\ SF_vars(\E w \in Keeper : Reap(w))

FairSpec == Spec /\ Fairness
----------------------------------------------------------------------------
(* Properties *)

\* While no handler outlives its lease, a job is in the hands of at most one
\* worker, through crashes, reaping and retries: claim_one, the lease and the
\* reaper together are the mutual exclusion, since nothing a worker does after
\* the claim checks that the job is still its own.
SingleExecutor ==
  \A v, w \in Worker : v # w /\ holding[v] = holding[w] => holding[v] = NoJob

\* Under the same condition a handler's writes are committed exactly once for a
\* job that reports success and not at all for any other, whatever was retried
\* or lost on the way: the claim in Worker._execute that "the job says done but
\* nothing was written" cannot happen, and its converse.
CommittedOnce ==
  \A j \in Job : commits[j] = IF status[j] = "succeeded" THEN 1 ELSE 0

\* Under the same condition a row has a lease exactly while it is running: the
\* reaper, which skips rows without one, can return every job whose worker died,
\* and no settled row keeps a lease that a later claim would inherit.
LeaseIffRunning ==
  \A j \in Job : status[j] = "running" <=> lease[j] # "none"

\* How far the attempt counter really bounds a job: by its ceiling plus one
\* claim for every crash and overrun, because the reaper returns a row to the
\* queue without looking at attempts.
AttemptBound ==
  \A j \in Job : attempts[j] <= MaxAttempts[j] + faults

\* Even with stale workers about, one attempt commits one result at most.
CommitsWithinAttempts == \A j \in Job : commits[j] <= attempts[j]

\* A running row that nobody has in hand and the reaper does not see.
Stranded(j) == status[j] = "running" /\ lease[j] = "none" /\ Orphan(j)

\* What is left behind, and nothing else: whatever crashes, expires or fails, a
\* job that has been enqueued ends as succeeded, failed or dead, with two
\* exceptions that stale workers make.  A row that a worker finished and a stale
\* one sent back to be retried keeps its finish date, and is deleted if it waits
\* for as long as retention lasts.  A stale worker that read the row while it was
\* settled under somebody's lease, and writes when it has been claimed again,
\* clears the lease and not the status; if the claimer then dies, the row is
\* stranded.
EventuallySettled ==
  \A j \in Job : status[j] \in Unfinished ~>
                   status[j] \in Terminal \cup {"absent"} \/ Stranded(j)

\* What JobDelivery calls the phase of a job with status s.
PhaseOf(s) ==
  CASE s = "absent" -> "absent"
    [] s \in Unfinished -> "pending"
    [] s = "succeeded" -> "done"
    [] s \in {"failed", "dead"} -> "abandoned"

Phase == [j \in Job |-> PhaseOf(status[j])]

Delivery == INSTANCE JobDelivery WITH phase <- Phase

\* While no handler outlives its lease, the queue implements JobDelivery:
\* outcomes are final, retention forgets settled jobs only, and every pending
\* job is settled.
ImplementsDelivery == Delivery!Spec

\* worker.py, on BudgetExhausted: "A quota ceiling defers work; it never fails a
\* game".  For a queue whose only errors are exhausted budgets, that is:
DeferredNeverDead == \A j \in Job : status[j] # "dead"
=============================================================================
