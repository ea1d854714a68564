# PlayLens in TLA+

PlayLens crawls a games site, stores the reviews it finds and summarises them.
Almost everything it does is a job in a database table, executed by several
worker processes and watched by browsers. This directory holds TLA+
specifications of the parts where processes meet, TLC configurations that check
them on small instances, and TLAPS proofs that carry the main results over to
instances of any size. Paths below are relative to `src/`.

    tlc -workers 2 -config jobs.cfg MCJobQueue.tla
    tlapm JobQueueProofs.tla

`PROJECT.json` lists the runs, ties every definition to the lines it models and
names, for every property, a mutated definition that breaks it. The mutated
definitions stand beside the ones they replace, under a comment `Mutant:`.

## 1. The system

| Component | State | Operations | Talks to |
|---|---|---|---|
| Job queue: `app/queue/worker.py`, `app/repositories/jobs.py` | `jobs`: status, attempts, lease, retry date, finish date; each worker's current job id | enqueue, claim, succeed, fail, reap, purge, heartbeat (no caller) | every handler runs inside its transaction |
| Scheduler: `app/queue/scheduler.py` | none; a slot is the key of its job | cron match, enqueue under a slot key | queue |
| Crawl: `app/services/crawl_orchestrator.py`, `app/repositories/crawl.py` | `crawl_days` (cursor), `crawl_runs`, `crawl_items` (claims with leases) | tick, reconcile, seed, reap items | source adapter, queue, event log |
| Game sync: `app/services/game_sync.py`, `app/repositories/games.py` | games, platforms, link tables, rollups | upsert, lead platform, dispatch of follow-ups | source, queue, crawl items |
| Review sync: `app/services/review_sync.py` | reviews, sync state per stream | incremental or full read, counts | source, queue |
| Summaries: `app/services/summary_service.py`, `snapshot_service.py`, `app/repositories/summaries.py` | snapshots, summaries with one `is_current` per platform and audience, gaps | build snapshot, generate, store, skip, explain gap, prune | model provider, AI budget |
| Let's plays: `app/services/letsplay_service.py`, `app/repositories/youtube.py` | candidates, the selected video, transcripts, daily quota | discover, fetch transcript, summarise | YouTube, queue |
| HTTP transport: `app/adapters/http` | token buckets in the database, a breaker per process | acquire, get with retries | every adapter |
| Event log: `EventRepository` in `app/repositories/jobs.py` | `job_events` | emit (flush), commit, purge, read after an id, count in a row | workers write, the stream and the tick read |
| Drift circuit: `app/services/drift.py` | none; derived from the event log | open?, announced? | event log, tick |
| Monitoring stream: `app/api/routers/monitoring.py` | number of clients, a cursor per generator; the browser's Last-Event-ID | admit, replay, poll, disconnect | event log |
| Similarity: `app/services/similarity_service.py`, `app/repositories/similarity.py` | neighbours with scores | candidates, recompute | catalogue |
| Operations page: `app/services/monitoring_service.py` | none; computed from runs, jobs, events and games | status, counters, stages, percentiles | queue, crawl, event log |
| Scores, verdict, corpus, validator: `app/domain`, `app/ai` | none (pure) | normalise, classify, sample, validate | summaries, pages |
| API, pages, images, adapters, parsers, supervision | no state of the program's own | reads and presentation | all of the above |

What makes it correct, and what makes that hard:

* **Job queue.** A job is executed by one worker at a time, its writes and its
  status commit together, retries are bounded and no job is forgotten. Hard:
  crashes between three transactions, leases that run out while a handler is at
  work, rows that are deleted and enqueued again under a worker.
* **Crawl.** A game is claimed once a day, a run stays within its budget, no
  page is skipped, no item is left behind. Hard: a tick is one transaction of
  minutes, whose first read precedes its wait for other ticks; the source fails
  half way; the item reaper reads and then writes without a lock.
* **Event log and its readers.** A browser is shown events once, in order and
  without gaps; a run of parse failures stops the crawl. Hard: ids are assigned at
  flush, rows become visible at commit or vanish at rollback; connections drop
  with frames in flight.
* **Summaries.** One current summary, never the same input twice, cost within the
  daily budget, citations that resolve. Hard: the budget is read before a call of
  seconds and written after it; pruning removes what the budget counts.
* **Transport, quotas.** The shared rate is kept. Hard: clocks read before a
  row lock is granted, counters read and written back.
* **Pure algorithms.** Boundaries of tiers and of verdict thresholds, quotas of a
  sample that sum up, cron fields.

`PROJECT.json` "hazards" lists each of these at the line where it bites.

## 2. Plan

Modules in the order of their importance.

1. `JobDelivery` (what the queue promises), `JobQueue` (how it does it),
   `JobQueueProofs`. **Done.**
2. `Crawl`, which uses the queue through `JobDelivery`'s promise, and
   `CrawlProofs`. **Done**, except the purge of old items.
3. `EventLog`, and over it `EventStream` (`EventStreamProofs`) and `DriftCircuit`. **Done.**
4. `ShownSummary` (what a reader is promised), `Summaries`, `SummariesProofs`. **Done.**
5. `Throttle`, `ThrottleProofs`. **Done.**
6. `LetsPlay`, with `Ranking` and `Transcripts`; `LetsPlayProofs`. **Done.**
7. `Catalogue`, with `Scores` and `Similarity`; `ReviewSync`; `CatalogueProofs`,
   `ReviewSyncProofs`. **Done.**
8. Pure operators: `Scores`, `Similarity`, `Ranking`, `Transcripts`, `Claims`,
   `Schedule`, `Monitoring`, and the quotas of `Corpus`. **Done.**
9. The composition of queue and crawl in place of the queue's promise; two review
   passes at once. **Open.**

Every safety invariant, action property and safety refinement that a run checks is also a
theorem. Still worth proving: the event log as an implementation of a log without gaps in
what is visible, but for late commits; the bounds and symmetry of `Similarity`'s scores
and the order of `Scores`' tiers, where no fold is in the way; the sum of
`Corpus`' quotas when its loops have ended.

## 3. Job queue

### Correspondence

`status`, `attempts`, `lease`, `due`, `finished` are the columns `status`,
`attempts`, `lease_expires_at`, `next_retry_at` and `finished_at` of `jobs`, the dates
reduced to what they are compared with. `stage`, `holding` and `error` are where
`Worker.run_once` is, the id it carries and the exception it is about to record;
`loaded` is the row as it has read it, and only what differs from that is written.
`commits` counts, for the current row of a key, the handler transactions that
committed. A step is a transaction, or something that happens between two:

| Code | Action |
|---|---|
| `JobRepository.enqueue` (insert-ignore) | `Enqueue` |
| `claim_one` and its commit | `Claim` |
| `_execute`: the handler returns, the row is read | `HandlerReturns` |
| `succeed`: the columns that changed, commit | `Succeed` |
| `_execute`: the four except clauses after the rollback | `HandlerFails`, `RowGone` |
| `_record_failure`: the row is read; `fail`, commit | `FailureReads`; `RecordFailure`, `DropFailure` |
| process death and restart | `Crash` |
| the clock | `LeaseExpires`, `BecomesDue`, `Ages` |
| `crawl.reap` on jobs, `maintenance.cleanup` on jobs | `Reap`, `Purge` |

`JobDelivery` is what a caller may rely on: a submitted job is pending until it
is delivered, once and with its effects, or abandoned without any; both are
final until retention forgets the row.

### Runs

* **jobs** (`FairSpec`; three jobs with different queues, priorities, attempts and
  kinds of failure, two workers, three crashes; 161 thousand states). No handler
  outlives its lease. One executor, effects committed exactly once, a lease exactly
  while running, and `JobDelivery` implemented with its liveness.
* **jobs_overrun** (`FairSpec`; one job of four attempts, three workers, three crashes or
  overruns; 269 thousand states). Handlers may outlive their leases, so several workers may
  finish one job, each writing what differs from what it had read. What still holds:
  attempts bounded by the ceiling plus one claim per fault, no more commits than attempts,
  and every job ends, with the two exceptions that `EventuallySettled` names. `fail` does not
  clear the `finished_at` that another worker wrote, and `purge_old` asks for nothing
  else, so such a row is deleted if it then waits for ninety days. And a row may be
  `Stranded`, running without a lease.

`LeaseIffRunning` is of the first run only. With stale workers it is false in both directions. A
worker that read the row after a reap, when it had no lease, and writes after the next
claim changes the status and leaves the lease. A second one that now reads the row, with the status it
is about to write, and writes after one more claim clears the lease and leaves the status: the
row runs without a lease, and if its claimer dies no reaper sees it. That is a finding.

Two more sentences of the code do not hold of it, and are recorded as findings. "A quota
ceiling defers work; it never fails a game": a deferral uses an attempt up, so a job
that meets nothing but exhausted quotas ends dead. The worker's docstring promises lease
renewal, but nothing calls `heartbeat_job`, so that one overrun puts a job in two
workers' hands. To see either, put `DeferredNeverDead` (with `FailureKinds` all
`{"budget"}`), or `SingleExecutor`, in the place of the properties of `jobs_overrun.cfg`.

Three workers are what a stranded row takes: two stale workers, one behind the other, and the
claimer whose lease is cleared; four attempts leave each of their readings below the ceiling, and
one job is enough because they all act on one row. Three faults allow a crash during the retry
after a crash, and overruns of the same job by two workers followed by the death of the third. The
limits of one and two attempts in `jobs` make both branches of `fail` happen.

### Fairness

Workers run until stopped, so what they hold is finished or its failure
recorded (`WF`); clocks move (`WF`); `crawl.reap` is enqueued every five minutes
and a worker polls each second, so it is claimed although not at every moment
its queue's workers are idle (`SF`), and a job that is the best eligible one again
and again is claimed (`SF`). Nobody is obliged to enqueue, to crash or to let rows
age. Without `SF` on `Claim` a low-priority job may indeed starve, which the code
does nothing about; the fair runs say that this needs an endless supply of better
jobs.

### Proofs

`JobQueueProofs` proves, for any number of jobs, workers and faults, `TypeOK`,
`AttemptBound` and `CommitsWithinAttempts` for `Spec`, and, under the assumption
`~SlowHandlers` (no handler outlives its lease), `SingleExecutor`, `CommittedOnce`,
`LeaseIffRunning` and that every step is a step of `JobDelivery` or a stutter (`Refinement`).

`AttemptBound` is not inductive: nothing in it keeps a row at the bound from being
claimed again. `AttemptInv` counts what may still send it back once its attempts are used up:
the reaper, or a claim, if the row is `Reclaimable`, and each worker that has read an earlier
count of attempts and is about to record a failure (`Retriers`). There are no more of these than
crashes and overruns, as each worker that carries the row beside its claimer is there through one
of them: a crash leaves a row without a worker and an overrun lets a held lease expire, and each
raises the bound as it happens. It leans on `CommitInv` and on `HandsInv`, that an idle
worker holds nothing.

`CommitsWithinAttempts` says nothing of the workers that have yet to commit.
`CommitInv` counts them: the commits of a row and the workers that carry it are together no
more than its attempts, and nobody carries a row that is gone. A claim adds one to both
sides, a commit turns a carrier into a commit, and retention, which takes the attempts back
to none, leaves the row in nobody's hands (`Purge`, `RowGone`).

`SingleExecutor`, `CommittedOnce` and `LeaseIffRunning` are strengthened together (`ExclusiveInv`): a
worker that is not idle holds a job whose lease is live, and what it has read of the row is
what the row still is (`OwnedInv`), which `~SlowHandlers` makes invariant, so that neither `Claim`
nor `Reap` can touch a held row and a worker's write reaches both columns (`WrittenInFull`); and
a row with a finish date is settled (`FinishedInv`), so retention deletes nothing that is wanted.
`Refinement` maps each action to one of `JobDelivery`: in a state where this
invariant holds, `Succeed` delivers a pending job, a final `RecordFailure` abandons
one, `Purge` forgets settled ones and every other step leaves the phases alone. It
establishes `JobDelivery!SafeSpec`; the liveness half is TLC's.

## 4. Crawl

### Correspondence

`day` is `crawl_days`; `status`, `attempts`, `lease` are columns of `crawl_items`; `firstJob`
and `retryJob` are the two jobs an item can have. Uncommitted state of a tick is
kept apart: `loaded` is the day as first read, `row` as set since, `batch`, `releases`
and `pages` what it has claimed and fetched, `room` what is left of the budget it hands from call to call. `TickCommits` publishes all of it,
writing those columns of the day that differ from `loaded`, as SQLAlchemy does
(`Merged`). `TickStarts` (`get_or_create_day`), `OpenRun` (the insert that waits for
`uq_crawl_runs_single_active`), `NewReleases`, `BrowsePage`, `EmptyPage`, `BrowseEnds` and
`SourceFails` are the phases of `CrawlOrchestrator.tick` in order. `Backfill` stands for
`reconcile_sitemap` and `seed`; `ReapReads`, `ReapWrites` and `ReapAborts` for
`reap_expired_items` and `revive`; `Sync` and `SyncGivenUp` for what `game.sync` does to
an item when its transaction commits and when the queue gives it up.

A source's page is any set of games: it may repeat games of earlier pages, and its
order is the source's. `fetched` is history, the pages committed ticks have read.

### Runs

* **crawl** (three games, one date, two pages, two concurrent ticks, budget 2;
  625 thousand states, symmetric in games and ticks). `ClaimsDisjoint`,
  `RunWithinBudget`, `LeaseIffProcessing`, `TriedBeforeFailed`, `CountedClaimsExist`. A budget of
  two among three games is spent over the new releases and two pages, over duplicates, and leaves a game
  of a listing unclaimed; two ticks reach every order of reading
  the day, waiting for the run and committing; two attempts reach both branches of
  the item reaper. The constraint `OneItemMoves` lets one item at a time go on to its jobs
  and the reaper, which act on each item by itself, while the others stay claimed.
* **crawl_progress** (one game, two pages, budget 2, two ticks, `FairSpec`; 125 thousand
  states). `NoPageSkipped`, though the cursor of a day may move back, and
  `ItemsSettle`: every claimed item ends, also those that the code leaves without a
  job when the source fails after a page of claims, and those whose retry key is
  used up. Fairness: leases run out, `crawl.reap` is scheduled every five minutes (`WF` on its
  read) and does not fail for ever (`SF` on its write). Nothing is asked of jobs or
  of the source.
The module names "the row lock taken while opening a run" as its first barrier. There
is no such lock: a tick that waited for another has read the day before, fetches the same
pages and may move the cursor back (`CursorNeverRegresses`, which `crawl_progress.cfg`
refutes when it is put there). `NoPageSkipped` is what is true instead.

One date suffices for these: items, days and claims of different dates share no
row, and a tick's date is fixed when it starts; `date` still passes midnight so that
`BrowseEnds` and late commits are reached. The ceilings are small because the code
compares with `<` and `>=` only.

### Proofs

`CrawlProofs` proves, for any finite set of games, any number of ticks, dates, pages,
attempts (at least two) and budget, `TypeOK`, `LeaseIffProcessing`, `TriedBeforeFailed`,
`RunWithinBudget`, `ClaimsDisjoint` (`ClaimedOnce`), `NoPageSkipped` and
`CountedClaimsExist`. The inductive invariant `Inv` has five parts:

* `ShapeInv`: the type, and that a tick under way has a date of the calendar.
* `ItemInv`: `LeaseIffProcessing` and `TriedBeforeFailed`, with two facts they need. An
  item that has a job or is being reaped has a row (`KnownInv`), and an item with two
  attempts was enqueued under its retry key (`RetryInv`), since the second attempt is
  the first the reaper starts; as at least two are allowed, an item without attempts
  left has been retried.
* `OpenInv`: at most one tick has a run open and no other has claimed anything
  (`HolderInv`), what it has claimed has no row yet (`FreshInv`), and what it carries on as
  `room` is what the claims of both phases have left of the budget (`RunWithinBudget`); the step
  needs `FreshInv`, since a claim made twice would be paid for twice and counted once.
  `ClaimsDisjoint` follows from the first two: the waiting on the two unique indexes is
  the whole argument.
* `PageInv`: the pages below a day's committed cursor are in `fetched`, and those below
  the cursor of a tick are in `fetched` or among its own `pages`. This is what makes the
  stale cursor harmless: a commit writes either the tick's own cursor, below which
  it has fetched what was not committed, or leaves the one there.
* `CountInv`: the count a tick has loaded is covered by the claims there are, and its batch is
  of its own date. With `FreshInv` the batch is disjoint from those claims, so the count it
  writes, what it read and the size of its batch, is covered by their union.

## 5. Event log, stream and drift circuit

`EventLog` has the sequence, the events flushed by open transactions and the
committed rows. `EventStream` adds clients: `conn`, `position`, `sseClients` and `ghosts` are the
server's side (a ghost is a generator whose client has gone and which has not
noticed), `wire` the frames in flight, `lastId` what the browser sends as
Last-Event-ID. `seen`, `base` and `late` are history.

* **stream** (two writers, one client that follows one of two runs, four ids, polls
  of one row, backlog of two; 154 thousand states, `FairSpec`). Frames are in order and
  none is repeated over any number of reconnections; slots are counted right; what
  a client has passed without seeing was covered by a snapshot or committed too
  late; an event past the cursor is delivered unless the client leaves. Fairness: a
  generator goes on polling and a connection that stays up delivers.
* **drift_circuit** (violated). A parse failure is emitted in the transaction that the
  same exception rolls back; no `schema.drift` row is ever committed, so the
  circuit never opens.

"A client that reconnects after a minute receives everything it missed" is not so: an
event committed after one with a larger id is passed over for good, even without a
reconnection (`NothingMissed`; `stream.cfg` refutes it when it is put there).

Four ids allow two open transactions to interleave with a purge and a reconnection;
backlog and limit are chosen so that the skip and a second poll both happen.

### Proofs

`EventStreamProofs` proves, for any clients, writers, ids, ceiling, backlog and batch size,
`TypeOK`, `SlotsCounted`, `OrderedOnce` and `OnlyLateMissed`. A poll takes the first ids
after the cursor by their rank in the log, so the proofs begin with lemmas on ranks in
finite sets of naturals: what a batch takes is below all it leaves. `SlotsInv` adds that
the running generators are finitely many, without which their count means nothing, and
makes `TypeOK` inductive, since a disconnection subtracts one. `WireInv` links the cursor of a
generator to the last id of its browser through the frames on their way, whose ids never
fall and grow at an event; order and uniqueness over reconnections follow, because a new connection
starts from the last id received and loses the wire. `MissInv` says what
a frame passes over: between it and the one before it no event the client follows, but for late
ones. It needs `BaseInv` (a snapshot stands in for no more than has been passed).

## 6. Summaries

`Summaries` is one game platform with its two audiences. `rows`, `snapshots` and `gaps` are
the three tables; a row is its audience, its input (corpus and recipe, what the
fingerprint hashes), `version`, `status`, `is_current` and the longest of an hour, a
day and a quarter it has been there. The variables with a worker as index are
the open transaction of a job: `input` what it decided to write about before it asked
the model, `previous` the current row as `save` read it after the answer. The purge is a
transaction too: `purging` is what its DELETE has found unreferenced when it began.
`uncited` names the summaries whose `snapshot_id` is NULL; `overtook` is history, the summaries
committed since the purge looked.

| Code | Action |
|---|---|
| `generate`: skip for too few reviews; early returns | `SkipTooFew`, `Settle` |
| `generate`: snapshot, checks, budget gate, the call | `Ask`; `Unavailable` when there is no provider |
| the answer, validated or not; `save` reads the current row | `Answer` |
| `save`, `prune_history`, the follow-up `summary.gap`, commit | `Commit` |
| `explain_gap`: early returns; the call; the row | `LeaveGap`, `Explain`, `CommitGap` |
| an exception, a unique index or a foreign key that refuses | `Rollback` |
| `purge_unreferenced`: the DELETE looks for references, and deletes what it found when whoever holds a lock on it has committed; the cleanup fails | `PurgeReads`, `PurgeDeletes`; `PurgeAborts` |
| new reviews, a deployment, time | `ReviewsChange`, `Deploy`, `TimePasses` |

* **summaries** (two workers, two audiences of two reviews, two recipes, one call an
  hour, a history of one; 309 thousand states, symmetric in workers, reviews and
  recipes). A reader finds at most one current summary and it is a fresh one; fresh versions are
  ordered, so that pruning drops the oldest; what a summary cites is stored, unless the summary was
  committed between the reading and the deleting of a purge; and the whole implements
  `ShownSummary`: a reader who is shown a summary always is, and the next one has the
  next version and another input. Two workers make every check stale
  that is read before the model is asked; a history of one makes every third commit
  prune; three jobs that ask the model allow two that overlap and one that follows; three changes
  allow a snapshot to age, lose its references and be cited again. The constraint `OneBoundMet` leaves
  out behaviours with both a third change and a third such job; each is reached without the other.

Fresh is what the code calls fresh: the answer passed validation as a whole, or its overall text did and
all its claims were rejected (`summary_service.py:457`).

Nothing is said of the hourly ceiling. The gate counts rows that are kept and carry a model
(`OverBudget` does the same), and calls whose transaction is rolled back, explanations of gaps, failed
let's plays and pruned rows are not among them, so that no bound on calls holds. That the
comment beside it calls it the bound on a runaway loop is a finding.

### Proofs

`SummariesProofs` proves all of these for any finite set of workers, any reviews, audiences,
recipes, thresholds and ceilings. What holds of the rows (`Sound`: finitely many, current
ones are fresh, versions name fresh rows, the current one is the last, an audience
with fresh rows has a current one) is a property of a set, and is proved to survive
each thing a transaction does to it: `Older`, a skip record, demotion and insertion,
pruning. `Reading` adds what a worker still knows when it commits: that the row it read as current
is the only one it will demote. `Conflicts` is where the two unique indexes
enter; without it neither `OneCurrent` nor `HistoryOrdered` survives a commit. With `RowsInv`, each
step maps to a step of `ShownSummary` or a stutter (`ShownFollows`). `CitationsResolve` needs
`PurgeInv`: whatever cites a snapshot the purge is about to delete has lost it already or was committed
since the purge looked. A commit is refused when what it cites is gone (`Dangling`), and one
that comes in between is put down in `overtook`.

The proof changed the model in one place. `Conflicts` compared the current row with the one read by
value, and rows age in the model; it now compares them by version, which names a row of
an audience and does not change.

Not so, and recorded as findings: "cannot spend money twice on the same input" (two
workers that overlap both ask the model, and the row of one is refused), and a failed
summary being tried again after a window (its fingerprint is known, and `generate` returns); and
"a snapshot cited by a current summary is never deleted" (a purge that began before the
summary's commit deletes it).

## 7. HTTP transport

`Throttle` has one bucket, a row shared by all processes, and a breaker in each. `pc` is where
a process is in `HttpTransport.get` and, within it, in `RateLimiter.acquire`. `ReadClock` is the
reading of the clock that precedes the wait for the row; `Take` is the locked update;
`Missing`, `Insert`, `ReadUnlocked` and `WriteUnlocked` are the path of a caller that finds no row
and goes on without its lock. `Answered`, `Failed` and `Retry` are the outcomes of a
request, `Call` the breaker's check and the beginning. `granted` counts tokens; `setBack` and
`overwritten` are history, the two ways in which tokens come into being.

* **throttle** (two processes, one token a tick, four ticks, a bucket that is not there
  yet, a circuit that opens after two failures). The rate is exceeded only by what a
  stale clock refills twice and by the bucketful of a write over another's; and a
  request leaves a process only while its circuit is closed or the timeout has passed,
  whatever the process waited for after it asked the breaker. Four ticks are two of
  closed circuit and two of open; more time repeats what a bucket of one token has done.

`ThrottleProofs` proves the three for any processes, rate, burst, thresholds and retries.
`OvergrantExplained` is a conservation law: `GrantInv` bounds what was granted and what the
bucket still holds by what has paid for it, a burst at first, another for each
overwrite, and the rate times the time the row has been refilled for, which is its stamp and all
that stale clocks ever set it back by. `ClockInv` (no clock read is ahead of the
clock) turns the stamp into elapsed time. `RoleInv` keeps the types: who is about to write
without a lock has a row to write over, and who backs off has an attempt left. `CircuitSilent` is
an action property that needs the types only.

"Exact at any worker count" (`RateKept`) is a finding; `throttle.cfg` refutes it when it is
put there. The bound the run checks is the true statement.

## 8. Let's plays

`LetsPlay` has the three jobs of a game's chain, the daily units, the selected video, its
transcript and its summary. A job that has run may be copied by an operator, so that two
jobs of one game overlap. `Search` reads the units; `Select` and `FoundNothing` are how it ends after
an answer, adding to the units as they were read before the call, whose row the session still
holds; `SearchFails` and `SearchFailed` how it ends without one: the event of the failure is flushed,
the session lets go of the row, and `spend` reads it again. `Defer` is a search without quota; `Fetch`, `Fetched`,
`NotFetched` and `Cached` the transcript; `Ask`, `Summarised` and `SummariseFailed` the summary; `Skip` the
early returns; `Rollback` an exception that undoes a transaction, spent units included;
`Purge` and `Dispatch` retention of the key and the crawl's next enqueue.

* **letsplay** (one game, two videos, two workers, one copy of each job, two days of two
  searches; 238 thousand states, `FairSpec`). What is recorded of the quota passes it only when a
  failed search adds to what others have recorded since it began; a fetched transcript is lost only to
  a fetch that began before there was a row; and a search deferred for want of quota comes back, if
  the crawl does. Fairness: `maintenance.cleanup` runs every day (`WF` on `Purge`). That
  the crawl comes back to a game is not of the code, whose runs take twenty games of the
  newest pages, and so it is a premise of `DeferredReturns` (`SyncedAgain`) and not part of `Fairness`. What the
  run shows is that nothing else is in the way: the key is freed, and is enqueued when it is asked for.
  Two searches fit a day and a third does not, which is all the quota distinguishes.

The overrun has no bound: failed searches that overlap may follow one another. Units that a
slow answer writes over are recorded nowhere.

`LetsPlayProofs` proves the first two and the types for any games, videos, workers, units and
limit. Both rest on `ReadInv`, what a transaction has read before its call and still believes
at the end: a search found room in the quota as it read it, so that an answered one, which writes that
reading and its own units, stays within the limit whatever was written meanwhile, and a failed one
that passes it has read another total than at its beginning (`OverrunsExplained`); a fetch found
no transcript, so one it writes over came in between. That deferred searches come back stays with TLC.

"Tomorrow's budget will run it" is a finding: it is retention, ninety days later, that
frees the key, for a crawl that need not come. So are "the units are spent whether or not the
response was useful" and "counting only successes is how a budget silently overruns".

Before the run TLC evaluates statements about two algorithms. `Ranking` (the filters,
signals, penalties and order of candidates, in ten-thousandths): the chosen video passes
every filter and no other that passes is better; rejected ones carry no weight but in a channel's
third; ties go to the first part. `Transcripts` (the cascade of providers and the cleaning
of rolling captions): no word is lost; every provider asked leaves an attempt; the first
readable track decides, even when it holds no speech; with two languages the result depends
on the order of a set, English being asked for after them; automatic captions hide written ones.

## 9. Catalogue

`Catalogue` is `game.sync`: `Read` reads the game and its platform rows before the source is
asked for the players' scores, `Create` and `Update` are the flush and commit of the session, which
sends only what it has changed (`Flush`), and `Abort` a refused index or an exception. `Parsed`
is what the parser may return: one lead if there is a platform, perhaps no id. Follow-up
jobs are the keys in `asked`; `ReviewsSynced` is `reviews.sync` as this module sees it. `raced` and
`nameless` are history: games written over rows that had changed since they were read, and
titles the source has once answered without an id.

* **catalogue** (two games of the source, two slugs, two ids, two platforms, two
  workers, three syncs, two days; 118 thousand states). Rollups agree with the platform rows
  except after a race; a game is in the catalogue once, through renames and
  reused slugs, as long as its pages have carried its id and neither row was written in a race. The six pages of `MCDetail` rescore
  a game, change its lead, rename it, lose its id, list it before it has a platform, and give its
  old slug to another; three syncs allow two that overlap and one that sees the result.

`CatalogueProofs` proves the types, with uniqueness of slugs and ids and one lead that is the
game's own, and both properties, for any games, pages, platforms, workers, syncs and days.
`SessionInv` says what still holds of the row a session has read when it writes: the row is
there, and so are the platforms read with it. `RollupsKept` follows from the shape of a
write (`Writes`): rollups are computed from the rows the session holds, which are those
of the table unless the write is recorded in `raced`. `OnceInCatalogue` needs `NamedInv`: the
title and the id of a row last written as it had been read come from one page. It assumes
that the source never changes the id of a title (`IdAssumption`; `app/db/models.py`: "a rename
changes the slug but not the id").

Without its exception for `raced` rows `OneGamePerTitle` is false, which the attempt to prove it
showed and TLC confirmed with four syncs, one more than `catalogue` allows. A flush sends the
columns that differ from what the session read. When a slug passes from one game to another and
the syncs of the two overlap, one row can end with the title and slug of one and the id of the
other; a sync of the first game after a rename finds it neither by id nor by slug and
inserts it again. It is a finding: the docstring of `find` says that this lookup
keeps a renamed game from being duplicated.

"So the two cannot drift" is a finding about the rollups; so is a translation that outlives
its description.

`Scores` and `Similarity` are evaluated before the run. `Scores`: the rule of what
score is shown, in Python and in SQL, agrees for players and differs for a metascore of zero
from few reviews; listings are in the order of what the page shows and pages of them
fit together; filters, facets and rails mean what they say. `Similarity`: scores are symmetric and
within bounds, a reason is a fact of the pair, results are ranked and cut, and a game of
the same series is considered unless rows of shared genres have used the limit up.

## 10. Reviews

`ReviewSync` is one stream, of a platform and an audience. The source is a sequence that may
change between two pages: `Publish`, `Edit`, `Withdraw`. `Start` decides between a full and an
incremental pass, `Read` stores a page, and a pass ends by `StopStale`, `StopExhausted`,
`StopLimited`, `StreamFailed` or `Rollback`. `skipped` is history: reviews that an earlier pass was kept from
reading by a failure, a ceiling or a page that shifted under it.

* **reviews** (six reviews, two to a page, three passes, one edit and one removal; 395
  thousand states). A pass that nothing interrupted has stored every review that was
  served when it started, though it stops early, but for those in `skipped`. That exemption
  is the finding: a failed pass leaves known pages before unread ones, and
  every later pass, also the full one that is said to reconcile, stops in front of them.
  Three passes are a failure, a success that stops early, and a full one later; three pages of
  two are one more than the tolerance.

### Proofs

`ReviewSyncProofs` proves the types and `NothingNewMissed` for any stream, page size, cap, tolerance and
limit of pages, and any number of passes, edits and removals. The types say more than
shapes: no page is asked for beyond the total, and a pass reads less than a page past its cap.

Stopping early is sound because of `FrontInv`: a served review that is neither stored nor in
`skipped` has fewer stored reviews in front of it than `Tolerance` pages hold. `PassInv` says
of a pass that the source has not shifted that it has stored everything before its offset and
nothing behind, and that its run of stale pages was stored before it began, in whole pages
unless the source ends there. So a pass that stops at stale pages with an unknown review
behind them would have `Tolerance * PageSize` stored reviews in front of that one, which
contradicts `FrontInv` by counting (`StaleComplete`). However a pass ends, all that it leaves unknown is
then in `skipped`, and `FrontInv` holds again; between passes it is kept because a new
review appears behind fewer than that many others and what is still to come is stored
nowhere (`ComingInv`). That bound on `Publish` is an assumption on the source, named in the
module: the code calls its order nearly sorted, and tolerates stale pages for that reason. A
source that inserts further down defeats the early stop.

Which streams a job reads is the operator `Targets`; before the run TLC evaluates that the
lead is read whatever it has, and that no platform gives way to one with fewer ratings.

## 11. Corpus and claims

`Corpus` is `stratified_sample` as a loop: `SetQuotas`, `Trim` and `Fill` one quota a step. A review
here is only a member of a stratum.

* **corpus** (four strata of 0, 1, 2, 7 or 16 reviews, targets 4, 5, 10 and 20; 22 thousand
  states, fairness of `Next`: a loop runs). The loops end with quotas that sum up to the
  target and exceed no stratum. `TargetAssumption` says what this rests on: with
  a target below the number of strata the trimming loop never ends, which is a finding.
  `DefaultTargetSuffices` checks that the defaults cannot reach it (eight strata, a target of at
  least eight). Sizes from none to far above the share give each branch of each loop.

Evaluated before it: the filter keeps every text of which some copy passes, once, in
whatever order (`FilterIgnoresOrder`), and a claim that the validator of `Claims` accepts rests on enough
reviews of its own snapshot, with its words and dates (`AcceptedIsSupported`).

## 12. Scheduler and operations page

`Schedule` has the cron expressions, the task list, slot keys and ticks as operators on minutes;
`MCSchedule` states what they give, and TLC evaluates it before the runs of `MCCrawl`. A slot has one job
however many schedulers tick; the next run shown is the next job made; and what a reader may
not expect: a missed minute is never caught up, a monthly task looks unscheduled until
eight days before, the hour that a time zone repeats fires once, a backward range
is accepted and never fires.

`Monitoring` has what the operations page computes of runs, jobs and games; `MCMonitoring` is evaluated before
the run of `MCEventStream`. The status follows the last success of the newest twenty runs;
percentiles are durations there were; a stage is in error as long as a dead job is kept, and
done while its jobs wait to be retried; no step writes the count of failures, so that the share of
successes is all or nothing; a rejected summary counts as covered. The findings quote the
documents that say otherwise.

## 13. What is only model-checked

Liveness is out of TLAPS's reach, and so is everything about ENABLED: `EventuallySettled`,
the fairness part of `ImplementsDelivery`, `ItemsSettle`, `Delivered`, `DeferredReturns` and
`SampleSettles` are TLC's alone. The pure operators are evaluated on bounded inputs by the
ASSUMEs of the MC modules: folds and sorts of sequences are induction over data, which stays
with TLC. All other properties of passing runs are theorems, for every value of the
constants that the modules' ASSUMEs admit. Those say of the constants that sets counted by an
argument are finite, that sizes are natural numbers and not zero where zero makes no
sense, and that the values standing for "nothing" are none of the others; the two that say
something about the world are `IdAssumption` (section 9) and the place of a new review
(section 10).

## 14. Abstractions and what is not modelled

* **Queue.** Order by age among equal priorities; SKIP LOCKED passing over a row that
  another claim has locked at that moment; a commit whose acknowledgement is lost;
  a stop by SIGTERM (the loop ends between two jobs). `heartbeat_job` and `skip` have no
  caller. Housekeeping jobs are single steps of an idle worker: each is one
  statement.
* **Crawl.** The drift circuit's early return is in `DriftCircuit`. Claims of a page are one
  step, so two claimers that wait for each other's rows, which the database
  resolves by failing one, appear as an abort. `Backfill` is one step. The ConflictError path, stale
  runs, `cancel_run` and `active_run` act on runs in status `running`, which no committed
  transaction leaves behind. One reaper at a time; items are never purged; the run's
  ceiling is not lowered by a caller.
* **Stream.** One API process, as the client counter is per process; a client over the ceiling is
  refused and does not appear; any prefix of the log may be purged at any time.
* **Drift circuit.** No retention and no successful sync that meets a purge.
* **Summaries.** What a kept row has cost is one unit, and gap explanations cost nothing; two gap
  explanations that save at once, of which `uq_gap_current` refuses one; the moment
  at which a purge sets a gap's citation to NULL is a step of the purge. The INSERT of a
  summary is one step with its commit: until the commit the row is seen by nobody, a second insert
  of its key waits for it, and so does a purge that meets its snapshot, which then goes on
  with what it had read, as `PurgeDeletes` does after `Commit`. One purge at a time.
* **Transport.** `RateLimiter.reset` has no caller. Back-off and Retry-After are any wait up to a
  bound. A process asks for one page at a time.
* **Let's plays.** The units of an operator's other use of the key.
* **Catalogue.** Link tables of genres and companies, which are replaced as rows are;
  images and texts.
* **Reviews.** Two passes of one stream at once: the second waits at the first new review
  they both have for the transaction of the first. The counts of reviews with text.
* **Schedule, Monitoring.** The hour a time zone skips; the YouTube and version fields.
* **Not modelled**: two recomputations of similarity at once (the loser fails on a key and
  is retried); the disk cache of images, whose eviction the disk alone decides; prompts
  and providers (text); adapters and parsers (formats; `Crawl`, `Catalogue` and `ReviewSync` see any
  outcome they can have); presentation; start-up, seeding and migrations; process supervision,
  whose restart is `Crash`.
