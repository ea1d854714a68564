------------------------------ MODULE MCSchedule ------------------------------
(***************************************************************************)
(* What TLC evaluates of Schedule before a run of MCCrawl, which extends   *)
(* this module: year-long facts about the schedule on chosen moments.      *)
(***************************************************************************)
LOCAL INSTANCE Integers
LOCAL INSTANCE Sequences
LOCAL INSTANCE FiniteSets
S == INSTANCE Schedule

LOCAL Tasks == S!BuildSchedule(TRUE, TRUE)
LOCAL TaskOf(type) == CHOOSE t \in Tasks : t.type = type

\* The last two days of February and the first of March; a week; a month.
LOCAL LeapOfMonths == (57 * S!Day)..(60 * S!Day - 1)

LOCAL Any == <<S!All>>
LOCAL At(n) == <<S!Number(n)>>

\* The expressions the settings default to are valid, and each has a next run from any
\* hour of a week: eight days reach a weekly task from wherever the clock stands.
ASSUME EveryTaskHasANextRun ==
  \A t \in Tasks :
    /\ t.cron.valid
    /\ \A d \in 200..206 : S!NextAfter(t.cron, d * S!Day - 1) # S!Never

\* The horizon is shorter than a month: the answer for a monthly task is "never"
\* until eight days before it, though the scheduler will fire it.
ASSUME MonthlyLooksUnscheduled ==
  LET monthly == S!Parse(At(0), At(3), At(1), Any, Any)
      first == 31 * S!Day + 3 * 60
  IN  /\ S!Matches(monthly, first)
      /\ S!NextAfter(monthly, first - S!Horizon - 1) = S!Never
      /\ S!NextAfter(monthly, first - S!Horizon) = first

\* "When does it run next" names the next minute at which a scheduler that ticks every
\* minute creates a job, across the end of a month.
ASSUME NextRunIsTheNextJob ==
  \A t \in {TaskOf("crawl.tick"), TaskOf("maintenance.cleanup")} :
    LET fired == {m \in LeapOfMonths : S!TickAt({t}, {}, m) # {}}
    IN  \A start \in {57 * S!Day + 6, 58 * S!Day + 7, 58 * S!Day + 1438} :
          LET next == S!NextAfter(t.cron, start)
          IN  next \in fired /\ \A m \in fired : m <= start \/ m >= next

\* A second scheduler, or a second tick in the minute, finds every key there: a slot
\* has one job.
ASSUME OneJobPerSlot ==
  LET hour == S!Ticked(Tasks, 180..239)
  IN  /\ \A m \in 180..239 : S!TickAt(Tasks, hour, m) = hour
      /\ \A t \in Tasks : Cardinality({k \in hour : k[1] = t.type})
                          = Cardinality({m \in 180..239 : S!Matches(t.cron, m)})

\* Nothing catches up: a scheduler that is down, or in one long tick, through the minute
\* of a slot never creates its job, and the task waits for its next slot.
ASSUME AMissedMinuteIsMissed ==
  S!Ticked({TaskOf("crawl.tick")}, (150..240) \ {187}) = {}

\* The key has no offset: when the clocks of the time zone are set back, the slots of
\* the repeated hour have the keys of the hour before, and fire once for both.
ASSUME RepeatedHourFiresOnce ==
  LET zone == S!SetBackAt(180)
      hourly == TaskOf("crawl.tick")
  IN  /\ Cardinality({i \in DOMAIN zone : S!Matches(hourly.cron, zone[i])}) = 25
      /\ Cardinality(S!Ticked({hourly}, {zone[i] : i \in DOMAIN zone})) = 24

\* A range written backwards is an empty field: the expression is accepted, and its
\* task never fires.
ASSUME BackwardsNeverFires ==
  LET cron == S!Parse(At(0), <<S!Span(5, 2)>>, Any, Any, Any)
  IN  cron.valid /\ \A m \in LeapOfMonths : ~S!Matches(cron, m)
=============================================================================
