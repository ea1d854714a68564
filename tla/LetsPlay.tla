------------------------------ MODULE LetsPlay ------------------------------
(***************************************************************************)
(* The Let's Play chain of app/services/letsplay_service.py: one search    *)
(* for a game, the transcript of the video it selects, a summary of that   *)
(* transcript; with the rows of app/repositories/youtube.py, the links of  *)
(* app/tasks/registry.py from one job to the next, and the daily quota.    *)
(*                                                                         *)
(* Each step asks an outside service in the middle of its transaction.     *)
(* What it read before is not read again, and the ORM writes only what     *)
(* differs from what it read.  A job that has finished may be copied by    *)
(* an operator, so two jobs of one game may run side by side.              *)
(***************************************************************************)
EXTENDS Integers, FiniteSets

CONSTANTS
  Game,
  Video,
  GameOf,         \* the game whose search may find a video
  Worker,         \* workers that may be running one of these jobs
  None,
  Units,          \* search_units
  Limit,          \* youtube_daily_unit_budget
  MaxCopy,        \* bound: copies an operator makes of a job
  MaxDay          \* bound: days

ASSUME GameOfAssumption == GameOf \in [Video -> Game]
ASSUME NoneAssumption == None \notin Game \cup Video
ASSUME UnitsAssumption == Units \in Nat \ {0} /\ Limit \in Nat /\ Units <= Limit
ASSUME BoundsAssumption == MaxCopy \in Nat /\ MaxDay \in Nat \ {0}

Day == 1..MaxDay

\* The first job of a key is copy 0.  A summarise key also has the date.
Job == [kind : {"discover", "summarise"}, subject : Game, copy : 0..MaxCopy]
         \cup [kind : {"transcript"}, subject : Video, copy : 0..MaxCopy]

First(kind, subject) == [kind |-> kind, subject |-> subject, copy |-> 0]
About(j) == IF j.kind = "transcript" THEN GameOf[j.subject] ELSE j.subject

NoRow == -1
Unread == -2

VARIABLES
  day,
  \* Committed rows.
  phase,          \* jobs
  used,           \* ApiBudget.units_used, by day
  searched,       \* Game.youtube_searched_at
  selected,       \* the video of the game that is_selected
  transcript,     \* YoutubeTranscript.status
  summary,        \* the letsplay summary with the video's fingerprint
  current,        \* the video of the current one
  \* The transaction of each worker.
  job,            \* what it runs, None between transactions
  today,
  loaded,         \* units_used as discover has read it
  reread,         \* units_used as a failed search has read it again
  video,          \* selected as fetch_transcript or summarise has read it
  found           \* the transcript as fetch_transcript has read it

rows == <<phase, used, searched, selected, transcript, summary, current>>
txVars == <<job, today, loaded, reread, video, found>>
vars == <<day, rows, txVars>>

TypeOK ==
  /\ day \in Day
  /\ phase \in [Job -> {"absent", "pending", "settled"}]
  /\ used \in [Day -> {NoRow} \cup Nat]
  /\ searched \in [Game -> {"never", "recently", "longAgo"}]
  /\ selected \in [Game -> {None} \cup Video]
  /\ transcript \in [Video -> {"none", "available", "unavailable"}]
  /\ summary \in [Video -> {"none", "failed", "fresh"}]
  /\ current \in [Game -> {None} \cup Video]
  /\ job \in [Worker -> {None} \cup Job]
  /\ today \in [Worker -> Day]
  /\ loaded \in [Worker -> {NoRow} \cup Nat]
  /\ reread \in [Worker -> {Unread, NoRow} \cup Nat]
  /\ video \in [Worker -> {None} \cup Video]
  /\ found \in [Worker -> {"none", "available", "unavailable"}]

Init ==
  /\ day = 1
  /\ phase = [j \in Job |-> "absent"]
  /\ used = [d \in Day |-> NoRow]
  /\ searched = [g \in Game |-> "never"]
  /\ selected = [g \in Game |-> None]
  /\ transcript = [v \in Video |-> "none"]
  /\ summary = [v \in Video |-> "none"]
  /\ current = [g \in Game |-> None]
  /\ job = [w \in Worker |-> None]
  /\ today = [w \in Worker |-> 1]
  /\ loaded = [w \in Worker |-> NoRow]
  /\ reread = [w \in Worker |-> Unread]
  /\ video = [w \in Worker |-> None]
  /\ found = [w \in Worker |-> "none"]

----------------------------------------------------------------------------
(* Jobs *)

Running(j) == \E w \in Worker : job[w] = j
Ready(j, kind) == j.kind = kind /\ phase[j] = "pending" /\ ~Running(j)

Settled(j) == [phase EXCEPT ![j] = "settled"]

\* A handler that settles also queues the next step; a key with a row keeps it.
SettledWith(j, next) ==
  [k \in Job |-> IF k = j THEN "settled"
                 ELSE IF k = next /\ phase[k] = "absent" THEN "pending"
                 ELSE phase[k]]

\* A crawl that syncs a game asks for the search it never had.
Dispatch(g) ==
  /\ searched[g] = "never"
  /\ phase[First("discover", g)] = "absent"
  /\ phase' = [phase EXCEPT ![First("discover", g)] = "pending"]
  /\ UNCHANGED <<day, used, searched, selected, transcript, summary, current, txVars>>

\* Mutant: retention spares the searches of games that have not had one.
PurgeSearched(g) ==
  /\ phase[First("discover", g)] = "settled" /\ searched[g] # "never"
  /\ phase' = [phase EXCEPT ![First("discover", g)] = "absent"]
  /\ UNCHANGED <<day, used, searched, selected, transcript, summary, current, txVars>>

\* Retention frees the key of a search after jobs_retention_days.
Purge(g) ==
  /\ phase[First("discover", g)] = "settled"
  /\ phase' = [phase EXCEPT ![First("discover", g)] = "absent"]
  /\ UNCHANGED <<day, used, searched, selected, transcript, summary, current, txVars>>

\* The operator retries a job that has finished, more than once if they like.
Copy(j) ==
  /\ phase[j] = "settled" /\ j.copy < MaxCopy
  /\ LET again == [j EXCEPT !.copy = @ + 1]
     IN  /\ phase[again] = "absent"
         /\ phase' = [phase EXCEPT ![again] = "pending"]
  /\ UNCHANGED <<day, used, searched, selected, transcript, summary, current, txVars>>

\* A day begins, for the summarise keys too; or it is long after.
NewDay ==
  /\ day < MaxDay
  /\ day' = day + 1
  /\ phase' = [j \in Job |-> IF j.kind = "summarise" /\ phase[j] = "settled"
                             THEN "absent" ELSE phase[j]]
  /\ \/ UNCHANGED searched
     \/ searched' = [g \in Game |-> IF searched[g] = "recently" THEN "longAgo"
                                    ELSE searched[g]]
  /\ UNCHANGED <<used, selected, transcript, summary, current, txVars>>

Ends(w) ==
  /\ job' = [job EXCEPT ![w] = None]
  /\ today' = [today EXCEPT ![w] = 1]
  /\ loaded' = [loaded EXCEPT ![w] = NoRow]
  /\ reread' = [reread EXCEPT ![w] = Unread]
  /\ video' = [video EXCEPT ![w] = None]
  /\ found' = [found EXCEPT ![w] = "none"]

\* An error that no step catches, a conflict or a crash rolls everything back,
\* the units spent included.  The job is run again, or its attempts are used up.
Rollback(w) ==
  /\ job[w] # None
  /\ phase' \in {phase, Settled(job[w])}
  /\ Ends(w)
  /\ UNCHANGED <<day, used, searched, selected, transcript, summary, current>>

\* The game is unknown or of too little interest, the feature or the model is
\* switched off: the job succeeds and nothing has happened.
Skip(j) ==
  /\ Ready(j, j.kind)
  /\ phase' = Settled(j)
  /\ UNCHANGED <<day, used, searched, selected, transcript, summary, current, txVars>>

----------------------------------------------------------------------------
(* youtube.discover *)

Total(reading) == IF reading = NoRow THEN 0 ELSE reading
Known(d) == Total(used[d])

\* Mutant: any unit left is enough.
AnyLeft == Known(day) < Limit

Affordable == Known(day) + Units <= Limit

\* Deferred, it says; the job succeeds, and has used its key.
Defer(j) ==
  /\ Ready(j, "discover") /\ searched[j.subject] # "recently"
  /\ ~Affordable
  /\ phase' = Settled(j)
  /\ UNCHANGED <<day, used, searched, selected, transcript, summary, current, txVars>>

\* The transaction that inserts the day's row makes the others wait for it.
Search(w, j) ==
  /\ job[w] = None /\ Ready(j, "discover")
  /\ searched[j.subject] # "recently"
  /\ Affordable
  /\ used[day] = NoRow =>
       \A x \in Worker : job[x] # None /\ job[x].kind = "discover" => today[x] # day
  /\ job' = [job EXCEPT ![w] = j]
  /\ today' = [today EXCEPT ![w] = day]
  /\ loaded' = [loaded EXCEPT ![w] = used[day]]
  /\ UNCHANGED <<day, rows, reread, video, found>>

Searching(w) == job[w] # None /\ job[w].kind = "discover"
Failing(w) == Searching(w) /\ reread[w] # Unread

Spent(w, reading) == used' = [used EXCEPT ![today[w]] = Total(reading) + Units]

\* The quota of the service or the provider's own error, caught.  Its event is
\* flushed; the session lets go of the budget row, and spend reads it again.
SearchFails(w) ==
  /\ Searching(w) /\ ~Failing(w)
  /\ reread' = [reread EXCEPT ![w] = used[today[w]]]
  /\ UNCHANGED <<day, rows, job, today, loaded, video, found>>

SearchFailed(w) ==
  /\ Failing(w)
  /\ Spent(w, reread[w])
  /\ phase' = Settled(job[w])
  /\ Ends(w)
  /\ UNCHANGED <<day, searched, selected, transcript, summary, current>>

\* No candidate, or none good enough.  After an answer the row is still held:
\* the units are added to what was read before the search.
FoundNothing(w) ==
  /\ Searching(w) /\ ~Failing(w)
  /\ Spent(w, loaded[w])
  /\ searched' = [searched EXCEPT ![job[w].subject] = "recently"]
  /\ phase' = Settled(job[w])
  /\ Ends(w)
  /\ UNCHANGED <<day, selected, transcript, summary, current>>

Select(w, v) ==
  /\ Searching(w) /\ ~Failing(w) /\ GameOf[v] = job[w].subject
  /\ Spent(w, loaded[w])
  /\ searched' = [searched EXCEPT ![job[w].subject] = "recently"]
  /\ selected' = [selected EXCEPT ![job[w].subject] = v]
  /\ phase' = SettledWith(job[w], First("transcript", v))
  /\ Ends(w)
  /\ UNCHANGED <<day, transcript, summary, current>>

----------------------------------------------------------------------------
(* youtube.transcript *)

\* Whatever video the key names, it is the selected one that is fetched.
Cached(j) ==
  /\ Ready(j, "transcript")
  /\ LET v == selected[About(j)]
     IN  v # None /\ transcript[v] = "available"
  /\ phase' = SettledWith(j, First("summarise", About(j)))
  /\ UNCHANGED <<day, used, searched, selected, transcript, summary, current, txVars>>

\* Mutant: a transcript that is there is fetched again.
FetchAlways(w, j) ==
  /\ job[w] = None /\ Ready(j, "transcript")
  /\ LET v == selected[About(j)]
     IN  /\ v # None
         /\ video' = [video EXCEPT ![w] = v]
         /\ found' = [found EXCEPT ![w] = transcript[v]]
  /\ job' = [job EXCEPT ![w] = j]
  /\ UNCHANGED <<day, rows, today, loaded, reread>>

Fetch(w, j) ==
  /\ job[w] = None /\ Ready(j, "transcript")
  /\ LET v == selected[About(j)]
     IN  /\ v # None /\ transcript[v] # "available"
         /\ video' = [video EXCEPT ![w] = v]
         /\ found' = [found EXCEPT ![w] = transcript[v]]
  /\ job' = [job EXCEPT ![w] = j]
  /\ UNCHANGED <<day, rows, today, loaded, reread>>

Fetching(w) == job[w] # None /\ job[w].kind = "transcript"

Fetched(w) ==
  /\ Fetching(w)
  /\ transcript' = [transcript EXCEPT ![video[w]] = "available"]
  /\ phase' = SettledWith(job[w], First("summarise", About(job[w])))
  /\ Ends(w)
  /\ UNCHANGED <<day, used, searched, selected, summary, current>>

\* Mutant: the row keeps the default status of its column.
NotFetchedYet(w) ==
  /\ Fetching(w)
  /\ transcript' = [transcript EXCEPT ![video[w]] = "pending"]
  /\ phase' = Settled(job[w])
  /\ Ends(w)
  /\ UNCHANGED <<day, used, searched, selected, summary, current>>

\* No provider of the cascade has it.  A row that already said so is not
\* written, and keeps what another has made of it meanwhile; a row that was
\* not there is read now, and overwritten.
NotFetched(w) ==
  /\ Fetching(w)
  /\ transcript' = IF found[w] = "unavailable" THEN transcript
                   ELSE [transcript EXCEPT ![video[w]] = "unavailable"]
  /\ phase' = Settled(job[w])
  /\ Ends(w)
  /\ UNCHANGED <<day, used, searched, selected, summary, current>>

----------------------------------------------------------------------------
(* youtube.summarise *)

\* Over the AI budget the job stays pending.
Ask(w, j) ==
  /\ job[w] = None /\ Ready(j, "summarise")
  /\ LET v == selected[j.subject]
     IN  /\ v # None /\ transcript[v] = "available" /\ current[j.subject] # v
         /\ video' = [video EXCEPT ![w] = v]
  /\ job' = [job EXCEPT ![w] = j]
  /\ UNCHANGED <<day, rows, today, loaded, reread, found>>

Asking(w) == job[w] # None /\ job[w].kind = "summarise"

\* A provider error leaves a failed row, without a recorded call.
SummariseFailed(w) ==
  /\ Asking(w) /\ summary[video[w]] = "none"
  /\ summary' = [summary EXCEPT ![video[w]] = "failed"]
  /\ phase' = Settled(job[w])
  /\ Ends(w)
  /\ UNCHANGED <<day, used, searched, selected, transcript, current>>

\* With a row of the same fingerprint, failed or no longer current, the insert
\* is refused after the answer has come: Rollback is all that is left.
Summarised(w) ==
  /\ Asking(w) /\ summary[video[w]] = "none"
  /\ summary' = [summary EXCEPT ![video[w]] = "fresh"]
  /\ current' = [current EXCEPT ![job[w].subject] = video[w]]
  /\ phase' = Settled(job[w])
  /\ Ends(w)
  /\ UNCHANGED <<day, used, searched, selected, transcript>>

----------------------------------------------------------------------------

Next ==
  \/ NewDay
  \/ \E g \in Game : Dispatch(g) \/ Purge(g)
  \/ \E j \in Job : Copy(j) \/ Skip(j) \/ Defer(j) \/ Cached(j)
  \/ \E w \in Worker :
       \/ \E j \in Job : Search(w, j) \/ Fetch(w, j) \/ Ask(w, j)
       \/ \E v \in Video : Select(w, v)
       \/ SearchFails(w) \/ SearchFailed(w) \/ FoundNothing(w)
       \/ Fetched(w) \/ NotFetched(w)
       \/ SummariseFailed(w) \/ Summarised(w) \/ Rollback(w)

Spec == Init /\ [][Next]_vars

\* Retention runs every day.
Fairness == \A g \in Game : WF_vars(Purge(g))

FairSpec == Spec /\ Fairness

----------------------------------------------------------------------------
(* Properties *)

\* What is recorded of a day passes the limit only when a failed search adds
\* its units to those that others have recorded since it began: no search does
\* so alone, and one that was answered never does (BudgetRepository.remaining
\* and spend).  Such overlaps may follow one another; they have no bound.
OverrunOnlyByOverlap ==
  [][\A d \in Day :
       (used'[d] # used[d] /\ used'[d] > Limit)
         => \E w \in Worker : Failing(w) /\ today[w] = d /\ reread[w] # loaded[w]]_vars

\* A transcript that was fetched is lost only to a fetch of the same video that
\* began before there was a row for it; a job that comes later keeps it, by its
\* own reading or by what the ORM leaves unwritten (fetch_transcript,
\* save_transcript).
LostOnlyToOverlap ==
  [][\A v \in Video :
       (transcript[v] = "available" /\ transcript'[v] # "available")
         => \E w \in Worker : Fetching(w) /\ video[w] = v /\ found[w] = "none"]_vars

\* A crawl whose claims come back to the game whenever it could have its search.
\* That is not of the code: a run takes the newest games, and few of them.
SyncedAgain(g) == WF_vars(Dispatch(g))

\* A search that was put off for want of quota has used the key of the game.
\* Where the crawl does come back to the game, retention has freed the key for
\* it, and the search is queued again (discover, _dispatch, purge_old).
DeferredReturns ==
  \A g \in Game :
    SyncedAgain(g) =>
      ((searched[g] = "never" /\ phase[First("discover", g)] = "settled")
         ~> (searched[g] # "never" \/ phase[First("discover", g)] = "pending"))
=============================================================================
