----------------------------- MODULE Monitoring -----------------------------
(***************************************************************************)
(* What the operations page says of the tables it reads, in one            *)
(* transaction (app/services/monitoring_service.py), and the reads of      *)
(* app/repositories/jobs.py, crawl.py and the monitoring router under it.  *)
(*                                                                         *)
(* Times are hours, shares whole percents.  A run has id, start, status,   *)
(* trigger, claimed, failed, dupes, took (None until it ends); a job has   *)
(* id, queue, type, status, queued; an event id, at, level.                *)
(***************************************************************************)
EXTENDS Integers, Sequences, FiniteSets, FiniteSetsExt, SequencesExt

None == -1

StaleAfter == 3
DayOf24 == 24

\* The n newest of a set of rows, by a column no two of them share.
Newest(rows, n, Time(_)) ==
  LET at(i) == CHOOSE r \in rows : Cardinality({s \in rows : Time(s) > Time(r)}) = i - 1
  IN  [i \in 1..Min({n, Cardinality(rows)}) |-> at(i)]

First(seq, Test(_)) ==
  LET found == SelectSeq(seq, Test)
  IN  IF found = <<>> THEN <<>> ELSE <<found[1]>>

----------------------------------------------------------------------------
(* The runs *)

\* finish_run, as a tick calls it: the failures of the run are not among its counters.
FinishRun(run, status, took, claimed, dupes) ==
  [run EXCEPT !.status = status, !.took = took, !.claimed = claimed, !.dupes = dupes]

\* A row as open_run inserts it.
OpenRun(id, start, trigger) ==
  [id |-> id, start |-> start, status |-> "running", trigger |-> trigger,
   claimed |-> 0, failed |-> 0, dupes |-> 0, took |-> None]

RecentRuns(runs, n) == Newest(runs, n, LAMBDA r : r.start)

ActiveRun(recent) == First(recent, LAMBDA r : r.status = "running")
LastSuccess(recent) == First(recent, LAMBDA r : r.status \in {"succeeded", "partial"})

\* run_detail looks for the run among the newest 200; none is a 404.
RunDetail(runs, id) == First(RecentRuns(runs, 200), LAMBDA r : r.id = id)

Total(seq, Column(_)) == FoldLeft(LAMBDA sum, r : sum + Column(r), 0, seq)

\* _counters, over the recent runs that started in the last day.
Counters(recent, now) ==
  LET day == SelectSeq(recent, LAMBDA r : r.start >= now - DayOf24)
      processed == Total(day, LAMBDA r : r.claimed)
      failed == Total(day, LAMBDA r : r.failed)
      durations == SelectSeq(day, LAMBDA r : r.took \notin {None, 0})
  IN  [runs |-> Len(day),
       processed |-> processed,
       failed |-> failed,
       succeeded |-> Max({0, processed - failed}),
       dupes |-> Total(day, LAMBDA r : r.dupes),
       rate |-> IF processed = 0 THEN None ELSE (100 * (processed - failed)) \div processed,
       average |-> IF durations = <<>> THEN None
                   ELSE Total(durations, LAMBDA r : r.took) \div Len(durations)]

----------------------------------------------------------------------------
(* Health *)

\* A worker is alive for two minutes after its heartbeat; ages are in minutes.
Alive(ages) == {w \in DOMAIN ages : ages[w] < 2}

\* recent(level="problems") of the last day: at most 25 of them.
Problems(events, now) ==
  Newest({e \in events : e.level \in {"warning", "error"} /\ e.at >= now - DayOf24}, 25,
         LAMBDA e : e.id)

\* _health
Health(last, alive, problems, now) ==
  CASE last = <<>> -> "no-run"
    [] last # <<>> /\ now - last[1].start > StaleAfter -> "down"
    [] last # <<>> /\ now - last[1].start <= StaleAfter ->
         IF alive = {} THEN "no-worker"
         ELSE IF problems # <<>> THEN "problems" ELSE "healthy"

\* status: the drift circuit is asked first.
Status(runs, ages, events, driftOpen, now) ==
  IF driftOpen THEN "down"
  ELSE Health(LastSuccess(RecentRuns(runs, 20)), Alive(ages), Problems(events, now), now)

----------------------------------------------------------------------------
(* The jobs *)

RecentJobs(jobs, n, status, type) ==
  Newest({j \in jobs : j.status = status /\ type \in {"any", j.type}}, n,
         LAMBDA j : j.queued)

\* queue_depth
QueueDepth(jobs, queue, status) ==
  IF status \in {"queued", "retrying", "running"}
  THEN Cardinality({j \in jobs : j.queue = queue /\ j.status = status}) ELSE 0

\* _current_job: the newest running job of any type, with the counters of the run.
CurrentJob(jobs, active) ==
  LET running == RecentJobs(jobs, 1, "running", "any")
  IN  IF running = <<>> /\ active = <<>> THEN <<>>
      ELSE <<[type |-> IF running = <<>> THEN "crawl.tick" ELSE running[1].type,
              kind |-> IF active = <<>> THEN "scheduled" ELSE active[1].trigger,
              run |-> IF active = <<>> THEN None ELSE active[1].id]>>

StageTypes ==
  [crawl |-> {"crawl.tick", "game.sync"},
   reviews |-> {"reviews.sync"},
   ai |-> {"summary.generate", "summary.gap", "game.translate"},
   similarity |-> {"similarity.recompute", "similarity.refresh_stale"},
   youtube |-> {"youtube.discover", "youtube.transcript", "youtube.summarise"}]

\* _stages: the rows of a status that a stage counts, no more than n of a type.
Counted(jobs, stage, status, n) ==
  FoldSet(LAMBDA t, sum : sum + Len(RecentJobs(jobs, n, status, t)), 0, StageTypes[stage])

StageState(jobs, stage, switchedOff) ==
  CASE stage \in switchedOff -> "disabled"
    [] stage \notin switchedOff /\ Counted(jobs, stage, "dead", 50) > 0 -> "error"
    [] stage \notin switchedOff /\ Counted(jobs, stage, "dead", 50) = 0 ->
         IF Counted(jobs, stage, "running", 50) > 0 THEN "running"
         ELSE IF Counted(jobs, stage, "queued", 200) > 0 THEN "queued" ELSE "done"

\* duration_percentiles of a bag of durations, as a sequence.
Percentiles(durations) ==
  LET sorted == SortSeq(durations, <)
      n == Len(sorted)
  IN  IF n = 0 THEN [p50 |-> None, p95 |-> None]
      ELSE [p50 |-> sorted[n \div 2 + 1],
            p95 |-> sorted[Min({n - 1, (n * 95) \div 100}) + 1]]

----------------------------------------------------------------------------
(* Coverage and the claims of the summaries *)

Share(part, whole) == IF whole = 0 THEN None ELSE (100 * part) \div whole

\* What _store leaves of a game: any summary it stores, a rejected one too, touches
\* summaries_synced_at.
Stored(game, status) == [game EXCEPT !.synced = TRUE, !.shown = @ \/ status = "fresh"]

\* _data_quality, of games with similar, the number of similar games of each.
DataQuality(games) ==
  [total |-> Cardinality(games),
   summaries |-> Share(Cardinality({g \in games : g.synced}), Cardinality(games)),
   similarity |-> Share(Cardinality({g \in games : g.similar >= 3}), Cardinality(games))]

\* _ai: the share of the claims of a day, counted by verdict, that were accepted.
Acceptance(claims) ==
  LET count(v) == IF v \in DOMAIN claims THEN claims[v] ELSE 0
  IN  Share(count("accepted"), FoldSet(LAMBDA v, sum : sum + count(v), 0, DOMAIN claims))
=============================================================================
