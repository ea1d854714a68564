----------------------------- MODULE MCMonitoring -----------------------------
(***************************************************************************)
(* What TLC evaluates of Monitoring before a run of MCEventStream, which   *)
(* extends this module.  Where the page tells less than its words do, the  *)
(* statement says what it does tell.                                       *)
(***************************************************************************)
LOCAL INSTANCE Integers
LOCAL INSTANCE Sequences
LOCAL INSTANCE FiniteSets
M == INSTANCE Monitoring

LOCAL Ended(id, start, status, claimed) ==
  M!FinishRun(M!OpenRun(id, start, "schedule"), status, 1, claimed, 0)

LOCAL Statuses == {"running", "succeeded", "partial", "failed"}

LOCAL Histories == [1..4 -> Statuses]

LOCAL RunsOf(history) ==
  {Ended(i, 8 + i, history[i], 2) : i \in 1..4}

LOCAL NoEvents == {}
LOCAL Beat == [w \in {"w"} |-> 0]

\* The page calls the system healthy only when a run that started in the last three
\* hours succeeded, and down exactly when the last that succeeded is older; a run that
\* is under way, or fails, after it changes neither.
ASSUME HealthFollowsTheLastSuccess ==
  \A h \in Histories, now \in {12, 15, 16} :
    LET good == {i \in 1..4 : h[i] \in {"succeeded", "partial"}}
        age == now - (8 + (CHOOSE i \in good : \A j \in good : j <= i))
        said == M!Status(RunsOf(h), Beat, NoEvents, FALSE, now)
    IN  /\ (said = "no-run") <=> (good = {})
        /\ (said = "down") <=> (good # {} /\ age > M!StaleAfter)
        /\ (said = "healthy") <=> (good # {} /\ age <= M!StaleAfter)

\* Only the newest twenty runs are asked: behind twenty that failed, a catalogue whose
\* last success is a day old is reported as one that has not been filled yet.
ASSUME TwentyFailuresHideASuccess ==
  LET failures(n) == {Ended(i, 100 + i, "failed", 0) : i \in 1..n}
      success == Ended(0, 90, "succeeded", 5)
  IN  /\ M!Status(failures(19) \cup {success}, Beat, NoEvents, FALSE, 130) = "down"
      /\ M!Status(failures(20) \cup {success}, Beat, NoEvents, FALSE, 130) = "no-run"

\* The counters of the last day are those of the newest twenty runs: an hourly crawl
\* has twenty-four, and four of them are not counted.
ASSUME TheDayHasTwentyRuns ==
  LET hourly == {Ended(i, i, "succeeded", 3) : i \in 1..30}
      day == M!Counters(M!RecentRuns(hourly, 20), 30)
  IN  /\ day.runs = 20 /\ day.processed = 60
      /\ M!Counters(M!RecentRuns(hourly, 100), 30).runs = 25

\* No step of a run writes its failures, so the share of successes is all or nothing:
\* whatever becomes of the items, every claimed game counts as a success.
ASSUME FailuresAreNotCounted ==
  \A h \in Histories :
    LET day == M!Counters(M!RecentRuns(RunsOf(h), 20), 12)
    IN  day.failed = 0 /\ day.succeeded = day.processed /\ day.rate \in {M!None, 100}

LOCAL Job(id, type, status) ==
  [id |-> id, type |-> type, queue |-> "crawl", status |-> status, queued |-> id]

\* A job that waits to be tried again is in none of the counts of its stage: a stage
\* whose every job is retrying reads "done", though the queue is not empty.
ASSUME RetryingReadsDone ==
  LET jobs == {Job(i, "game.sync", "retrying") : i \in 1..3}
  IN  /\ M!StageState(jobs, "crawl", {}) = "done"
      /\ M!QueueDepth(jobs, "crawl", "retrying") = 3

\* A stage is in error while any dead job of it is kept, whatever has succeeded since,
\* and a stage that is switched off says so before anything else.
ASSUME ErrorOutlivesItsRepair ==
  \A others \in SUBSET {Job(2, "game.sync", "succeeded"), Job(3, "crawl.tick", "running"),
                        Job(4, "game.sync", "queued")} :
    LET jobs == others \cup {Job(1, "game.sync", "dead")}
    IN  /\ M!StageState(jobs, "crawl", {}) = "error"
        /\ M!StageState(jobs, "crawl", {"crawl"}) = "disabled"
        /\ M!StageState(jobs \ {Job(1, "game.sync", "dead")}, "crawl", {}) # "error"

\* The current job is the newest one of any type, and the counters beside it are those
\* of the active run, of which the job need not be a part.
ASSUME CurrentJobMayBeOfAnotherKind ==
  LET jobs == {Job(1, "crawl.tick", "running"), Job(2, "summary.generate", "running")}
      run == M!OpenRun(7, 1, "manual")
  IN  M!CurrentJob(jobs, <<run>>)
        = <<[type |-> "summary.generate", kind |-> "manual", run |-> 7]>>

\* A run that is not among the newest two hundred is not found, though it is kept.
ASSUME OldRunsAreNotFound ==
  LET runs == {Ended(i, i, "succeeded", 0) : i \in 1..201}
  IN  M!RunDetail(runs, 1) = <<>> /\ M!RunDetail(runs, 2) # <<>>

\* Both percentiles are durations there were; at least half and at least nineteen
\* twentieths of the durations are no longer than them.
ASSUME PercentilesAreReached ==
  \A n \in {1, 2, 3, 19, 20, 21, 40} :
    LET took == [i \in 1..n |-> (7 * i) % 41]
        p == M!Percentiles(took)
        upTo(d) == Cardinality({i \in 1..n : took[i] <= d})
    IN  /\ p.p50 <= p.p95
        /\ \E i \in 1..n : took[i] = p.p50
        /\ \E i \in 1..n : took[i] = p.p95
        /\ 2 * upTo(p.p50) >= n /\ 20 * upTo(p.p95) >= 19 * n

\* A game whose only summary was rejected shows an empty card and counts as covered.
ASSUME RejectedCountsAsCovered ==
  LET empty == [id |-> 1, synced |-> FALSE, shown |-> FALSE, similar |-> 0]
      rejected == M!Stored(empty, "rejected")
  IN  ~rejected.shown /\ M!DataQuality({rejected}).summaries = 100

\* With no claims, or no games, there is no share; with some, the share is one of a hundred.
ASSUME SharesOfNothing ==
  /\ M!DataQuality({}).summaries = M!None
  /\ \A a, r, v \in 0..3 :
       LET claims == [accepted |-> a, rejected_vague |-> r, rejected_low_support |-> v]
       IN  /\ (M!Acceptance(claims) = M!None) <=> (a + r + v = 0)
           /\ (M!Acceptance(claims) = 100) <=> (a > 0 /\ r + v = 0)
=============================================================================
