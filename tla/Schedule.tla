------------------------------ MODULE Schedule ------------------------------
(***************************************************************************)
(* The scheduler (app/queue/scheduler.py): cron expressions, the tasks they *)
(* fire, the slot key that stops a task from being enqueued twice, and the *)
(* answer to "when does it run next".                                      *)
(*                                                                         *)
(* A moment is a minute on the wall clock of the schedule's time zone,     *)
(* counted from the start of a year that begins on a Thursday (2026).  An  *)
(* instant is a minute that passes; a zone maps instants to moments.       *)
(***************************************************************************)
EXTENDS Integers, Sequences, FiniteSets, FiniteSetsExt, SequencesExt

Never == -1

Day == 1440

MonthLengths == <<31, 28, 31, 30, 31, 30, 31, 31, 30, 31, 30, 31>>

\* The days of the year before the first of each month.
DaysBefore == [m \in 1..12 |-> FoldLeft(+, 0, SubSeq(MonthLengths, 1, m - 1))]

Month(date) == Max({m \in 1..12 : DaysBefore[m] <= date})

\* What a cron expression looks at; weekday 0 is Sunday, and date a day of the year.
Fields(date) ==
  [day     |-> date - DaysBefore[Month(date)] + 1,
   month   |-> Month(date),
   weekday |-> (4 + date) % 7]

----------------------------------------------------------------------------
(* Cron expressions: a field is a sequence of chunks separated by commas.  *)

All == [kind |-> "all"]
Every(n) == [kind |-> "step", n |-> n]
Span(a, b) == [kind |-> "range", first |-> a, last |-> b]
Number(n) == [kind |-> "number", n |-> n]

Chunk(c, low, high) ==
  CASE c.kind = "all" -> low..high
    [] c.kind = "step" -> {v \in low..high : (v - low) % c.n = 0}
    [] c.kind = "range" -> c.first..c.last
    [] c.kind = "number" -> {c.n}

\* _parse_field: an expression with a value out of range is refused, an empty one is not.
ParseField(chunks, low, high) ==
  LET values == UNION {Chunk(chunks[i], low, high) : i \in DOMAIN chunks}
  IN  [valid |-> values \subseteq low..high, values |-> values]

\* CronExpr.parse
Parse(minute, hour, day, month, weekday) ==
  LET m == ParseField(minute, 0, 59)
      h == ParseField(hour, 0, 23)
      d == ParseField(day, 1, 31)
      n == ParseField(month, 1, 12)
      w == ParseField(weekday, 0, 6)
  IN  [valid |-> m.valid /\ h.valid /\ d.valid /\ n.valid /\ w.valid,
       minute |-> m.values, hour |-> h.values, day |-> d.values,
       month |-> n.values, weekday |-> w.values]

\* A day must match both the day of the month and the weekday.
MatchesDate(cron, date) ==
  LET f == Fields(date)
  IN  f.day \in cron.day /\ f.month \in cron.month /\ f.weekday \in cron.weekday

Matches(cron, moment) ==
  /\ moment % 60 \in cron.minute
  /\ (moment \div 60) % 24 \in cron.hour
  /\ MatchesDate(cron, moment \div Day)

Horizon == 8 * Day

\* next_after: the first match in the eight days that follow.
NextAfter(cron, moment) ==
  LET dates == {d \in (moment \div Day)..((moment + Horizon) \div Day) : MatchesDate(cron, d)}
      found == {m \in {Day * d + 60 * h + n : d \in dates, h \in cron.hour, n \in cron.minute} :
                  moment < m /\ m <= moment + Horizon}
  IN  IF found = {} THEN Never ELSE Min(found)

----------------------------------------------------------------------------
(* The tasks *)

Task(type, queue, cron, priority) ==
  [type |-> type, queue |-> queue, cron |-> cron, priority |-> priority]

\* build_schedule, with the expressions the settings default to.
BuildSchedule(crawlEnabled, reconcileEnabled) ==
  LET any == <<All>>
      at(n) == <<Number(n)>>
  IN  {task \in
         {Task("crawl.tick", "crawl", Parse(at(7), any, any, any, any), 7),
          Task("crawl.reap", "crawl", Parse(<<Every(5)>>, any, any, any, any), 6),
          Task("crawl.reconcile", "crawl", Parse(at(0), at(3), any, any, at(0)), 2),
          Task("similarity.refresh_stale", "enrich",
               Parse(at(0), at(4), any, any, any), 2),
          Task("maintenance.cleanup", "crawl", Parse(at(0), at(5), any, any, any), 1)} :
       /\ task.type = "crawl.tick" => crawlEnabled
       /\ task.type = "crawl.reconcile" => reconcileEnabled}

\* slot_key: the wall clock to the minute, without its offset.
SlotKey(type, moment) == <<type, moment>>

\* tick at a moment, over the keys of the jobs there are: one transaction.
TickAt(tasks, keys, moment) ==
  keys \cup {SlotKey(task.type, moment) : task \in {t \in tasks : Matches(t.cron, moment)}}

\* The keys after a set of ticks, whichever scheduler makes each and in any order: a
\* tick that finds its key adds nothing.
Ticked(tasks, moments) == UNION {TickAt(tasks, {}, m) : m \in moments}

\* The wall clock of a zone that sets its clocks back by an hour at an instant.
SetBackAt(change) == [instant \in 0..(25 * 60 - 1) |->
                        IF instant < change THEN instant ELSE instant - 60]
=============================================================================
