-------------------------------- MODULE Crawl --------------------------------
(***************************************************************************)
(* The daily crawl: the hourly tick, the weekly reconciliation, the seed   *)
(* and the item reaper of app/services/crawl_orchestrator.py over the      *)
(* tables of app/repositories/crawl.py, and what the game.sync handler     *)
(* does to a crawl item.                                                   *)
(*                                                                         *)
(* A tick is one transaction, but a long one: it asks the source for page  *)
(* after page while other workers commit theirs.  It reads the row of the  *)
(* day first, then inserts its run, which waits on the partial unique      *)
(* index until no other tick has a run open, and writes its claims, its    *)
(* cursor and its jobs, all visible at the commit.  The reaper also reads  *)
(* before it writes, without a lock in between.  The others write what     *)
(* does not depend on what they have read, and are one step here.          *)
(*                                                                         *)
(* The job queue is seen through what JobDelivery promises of it: a job    *)
(* that was submitted is pending until it is settled, delivered with its   *)
(* effects or abandoned without any.                                       *)
(***************************************************************************)
EXTENDS Naturals, FiniteSets

CONSTANTS
  Game,           \* slugs the source lists
  LastDate,       \* bound: ticks start on the dates 1..LastDate
  LastPage,       \* the page at which the source's total, or the offset cap, ends
  Budget,         \* crawl_max_games_per_run
  MaxAttempts,    \* crawl_item_max_attempts
  Tick            \* workers that may be running a crawl.tick job

ASSUME GameAssumption == IsFiniteSet(Game)
ASSUME DateAssumption == LastDate \in Nat
ASSUME PageAssumption == LastPage \in Nat \ {0}
ASSUME BudgetAssumption == Budget \in Nat \ {0}
ASSUME AttemptsAssumption == MaxAttempts \in Nat /\ MaxAttempts >= 2

Date == 1..LastDate
Item == Date \X Game          \* uq_crawl_items_daily: one row per date and slug
DateOf(i) == i[1]

\* A row of crawl_days; the row that is not there yet has the default values.
Day == [created : BOOLEAN, releasesDone : BOOLEAN, page : Nat,
        exhausted : BOOLEAN, claimed : Nat]

NewDay == [created |-> FALSE, releasesDone |-> FALSE, page |-> 1,
           exhausted |-> FALSE, claimed |-> 0]

VARIABLES
  date,           \* the clock, in the crawl's time zone
  \* Committed rows.
  day,            \* crawl_days
  status,         \* CrawlItem.status, "none" when there is no row
  attempts,       \* CrawlItem.attempts
  lease,          \* CrawlItem.lease_expires_at against the clock
  firstJob,       \* the job game.sync:{date}:{slug}
  retryJob,       \* the job game.sync:{date}:{slug}:retry{item_id}
  fetched,        \* history: pages some committed tick has fetched, by date
  \* The transaction of each tick.
  pc,             \* where CrawlOrchestrator.tick is
  today,          \* the date it fixed when it started
  loaded,         \* the day as it was read
  row,            \* the day as the tick has set it since
  batch,          \* items claimed, not committed yet
  room,           \* what the claims so far have left of the run's budget
  releases,       \* those of them claimed from the new releases
  pages,          \* pages fetched, not committed yet
  \* The transaction of the reaper.
  reaping         \* items it has read as expired, not written yet

itemVars == <<status, attempts, lease>>
jobVars == <<firstJob, retryJob>>
committed == <<day, itemVars, jobVars, fetched>>
tickVars == <<pc, today, loaded, row, batch, room, releases, pages>>
vars == <<date, committed, tickVars, reaping>>

Statuses == {"none", "processing", "done", "failed"}
JobPhases == {"absent", "pending", "settled"}
Stages == {"idle", "opening", "releases", "browse", "closing", "partial"}

TypeOK ==
  /\ date \in 1..(LastDate + 1)
  /\ day \in [Date -> Day]
  /\ status \in [Item -> Statuses]
  /\ attempts \in [Item -> 0..MaxAttempts]
  /\ lease \in [Item -> {"none", "live", "expired"}]
  /\ firstJob \in [Item -> JobPhases]
  /\ retryJob \in [Item -> JobPhases]
  /\ fetched \in [Date -> SUBSET Nat]
  /\ pc \in [Tick -> Stages]
  /\ today \in [Tick -> 0..LastDate]
  /\ loaded \in [Tick -> Day]
  /\ row \in [Tick -> Day]
  /\ batch \in [Tick -> SUBSET Item]
  /\ room \in [Tick -> 0..Budget]
  /\ releases \in [Tick -> SUBSET Item]
  /\ pages \in [Tick -> SUBSET Nat]
  /\ reaping \in SUBSET Item

Init ==
  /\ date = 1
  /\ day = [d \in Date |-> NewDay]
  /\ status = [i \in Item |-> "none"]
  /\ attempts = [i \in Item |-> 0]
  /\ lease = [i \in Item |-> "none"]
  /\ firstJob = [i \in Item |-> "absent"]
  /\ retryJob = [i \in Item |-> "absent"]
  /\ fetched = [d \in Date |-> {}]
  /\ pc = [t \in Tick |-> "idle"]
  /\ today = [t \in Tick |-> 0]
  /\ loaded = [t \in Tick |-> NewDay]
  /\ row = [t \in Tick |-> NewDay]
  /\ batch = [t \in Tick |-> {}]
  /\ room = [t \in Tick |-> 0]
  /\ releases = [t \in Tick |-> {}]
  /\ pages = [t \in Tick |-> {}]
  /\ reaping = {}

----------------------------------------------------------------------------
(* Claiming *)

\* Mutant: the claim is looked up in this run only.
FreshInRun(t, listing) ==
  {i \in Item : DateOf(i) = today[t] /\ i[2] \in listing /\ i \notin batch[t]}

\* INSERT ... ON CONFLICT (crawl_date, game_slug) DO NOTHING inserts these.
Fresh(t, listing) ==
  {i \in Item : DateOf(i) = today[t] /\ i[2] \in listing
                  /\ status[i] = "none" /\ i \notin batch[t]}

\* claim_games goes down the listing until the budget it was given is used; the
\* order of a listing is the source's, so any part of it may come first.
Claims(t, listing) ==
  LET fresh == Fresh(t, listing)
  IN  {C \in SUBSET fresh :
         Cardinality(C) = IF Cardinality(fresh) < room[t]
                          THEN Cardinality(fresh) ELSE room[t]}

\* A job's insert-ignore: keys that have a row keep it.
Submitted(phase, S) ==
  [i \in Item |-> IF i \in S /\ phase[i] = "absent" THEN "pending" ELSE phase[i]]

----------------------------------------------------------------------------
(* The hourly tick *)

Holds(t) == pc[t] \in {"releases", "browse", "closing", "partial"}

\* get_or_create_day.  A row another tick has just inserted and not committed
\* is waited for and then read; a row that exists is read as it stands.
TickStarts(t) ==
  /\ pc[t] = "idle"
  /\ date \in Date
  /\ day[date].created \/ \A u \in Tick : pc[u] # "idle" => today[u] # date
  /\ pc' = [pc EXCEPT ![t] = "opening"]
  /\ today' = [today EXCEPT ![t] = date]
  /\ loaded' = [loaded EXCEPT ![t] = day[date]]
  /\ row' = [row EXCEPT ![t] = [day[date] EXCEPT !.created = TRUE]]
  /\ UNCHANGED <<date, reaping, committed, batch, room, releases, pages>>

\* open_run: the insert into uq_crawl_runs_single_active waits for the tick
\* that has a run open.  That one finishes its run before it commits, so the
\* insert then succeeds; what was read before it is not read again.
OpenRun(t) ==
  /\ pc[t] = "opening"
  /\ \A u \in Tick : ~Holds(u)
  /\ pc' = [pc EXCEPT ![t] = "releases"]
  /\ room' = [room EXCEPT ![t] = Budget]
  /\ UNCHANGED <<date, reaping, committed, today, loaded, row, batch, releases, pages>>

NewReleases(t) ==
  /\ pc[t] = "releases"
  /\ ~row[t].releasesDone
  /\ \E listing \in SUBSET Game : \E C \in Claims(t, listing) :
       /\ batch' = [batch EXCEPT ![t] = @ \cup C]
       /\ releases' = [releases EXCEPT ![t] = C]
       /\ room' = [room EXCEPT ![t] = @ - Cardinality(C)]
  /\ row' = [row EXCEPT ![t].releasesDone = TRUE]
  /\ pc' = [pc EXCEPT ![t] = "browse"]
  /\ UNCHANGED <<date, reaping, committed, today, loaded, pages>>

NoNewReleases(t) ==
  /\ pc[t] = "releases"
  /\ row[t].releasesDone
  /\ pc' = [pc EXCEPT ![t] = "browse"]
  /\ UNCHANGED <<date, reaping, committed, today, loaded, row, batch, room, releases, pages>>

Browsing(t) ==
  /\ pc[t] = "browse"
  /\ room[t] > 0
  /\ ~row[t].exhausted
  /\ date = today[t]

\* Mutant: every page is given the whole budget.
BrowsePageAnew(t) ==
  LET page == row[t].page
      last == page >= LastPage
  IN
  /\ Browsing(t)
  /\ \E listing \in SUBSET Game \ {{}} : \E C \in Claims(t, listing) :
       batch' = [batch EXCEPT ![t] = @ \cup C]
  /\ row' = [row EXCEPT ![t].page = page + 1, ![t].exhausted = last]
  /\ pages' = [pages EXCEPT ![t] = @ \cup {page}]
  /\ pc' = [pc EXCEPT ![t] = IF last THEN "closing" ELSE "browse"]
  /\ UNCHANGED <<date, reaping, committed, today, loaded, room, releases>>

\* A page with games on it.  The cursor moves on even when every one was a
\* duplicate, and also when the budget left some of them out.
BrowsePage(t) ==
  LET page == row[t].page
      last == page >= LastPage
  IN
  /\ Browsing(t)
  /\ \E listing \in SUBSET Game \ {{}} : \E C \in Claims(t, listing) :
       /\ batch' = [batch EXCEPT ![t] = @ \cup C]
       /\ room' = [room EXCEPT ![t] = @ - Cardinality(C)]
  /\ row' = [row EXCEPT ![t].page = page + 1, ![t].exhausted = last]
  /\ pages' = [pages EXCEPT ![t] = @ \cup {page}]
  /\ pc' = [pc EXCEPT ![t] = IF last THEN "closing" ELSE "browse"]
  /\ UNCHANGED <<date, reaping, committed, today, loaded, releases>>

EmptyPage(t) ==
  /\ Browsing(t)
  /\ row' = [row EXCEPT ![t].exhausted = TRUE]
  /\ pc' = [pc EXCEPT ![t] = "closing"]
  /\ UNCHANGED <<date, reaping, committed, today, loaded, batch, room, releases, pages>>

\* The budget is used up, the day was exhausted already, or midnight has passed.
BrowseEnds(t) ==
  /\ pc[t] = "browse"
  /\ ~Browsing(t)
  /\ pc' = [pc EXCEPT ![t] = "closing"]
  /\ UNCHANGED <<date, reaping, committed, today, loaded, row, batch, room, releases, pages>>

\* Mutant: the cursor is moved before the page is asked for.
SourceFailsCursorMoved(t) ==
  /\ \/ pc[t] = "releases" /\ ~row[t].releasesDone
     \/ Browsing(t)
  /\ row' = [row EXCEPT ![t].page = @ + 1]
  /\ pc' = [pc EXCEPT ![t] = "partial"]
  /\ UNCHANGED <<date, reaping, committed, today, loaded, batch, room, releases, pages>>

\* The source cannot be reached, answers in an unknown shape or refuses.  The
\* run ends as partial, and the transaction is still committed.
SourceFails(t) ==
  /\ \/ pc[t] = "releases" /\ ~row[t].releasesDone
     \/ Browsing(t)
  /\ pc' = [pc EXCEPT ![t] = "partial"]
  /\ UNCHANGED <<date, reaping, committed, today, loaded, row, batch, room, releases, pages>>

\* claimed_items when the loop over it is reached: an exception in the browse
\* phase leaves the claims of that phase out of it.
ClaimedItems(t) == IF pc[t] = "partial" THEN releases[t] ELSE batch[t]

\* The day as committed: the columns whose value the tick has changed.
Merged(t) ==
  LET old == loaded[t]
      new == [row[t] EXCEPT !.claimed = @ + Cardinality(ClaimedItems(t))]
      now == day[today[t]]
  IN  [f \in DOMAIN now |-> IF new[f] # old[f] THEN new[f] ELSE now[f]]

EndTick(t) ==
  /\ pc' = [pc EXCEPT ![t] = "idle"]
  /\ today' = [today EXCEPT ![t] = 0]
  /\ loaded' = [loaded EXCEPT ![t] = NewDay]
  /\ row' = [row EXCEPT ![t] = NewDay]
  /\ batch' = [batch EXCEPT ![t] = {}]
  /\ room' = [room EXCEPT ![t] = 0]
  /\ releases' = [releases EXCEPT ![t] = {}]
  /\ pages' = [pages EXCEPT ![t] = {}]

\* Mutant: claims are inserted without a lease.
TickCommitsLeaseless(t) ==
  /\ pc[t] \in {"closing", "partial"}
  /\ status' = [i \in Item |-> IF i \in batch[t] THEN "processing" ELSE status[i]]
  /\ attempts' = [i \in Item |-> IF i \in batch[t] THEN 1 ELSE attempts[i]]
  /\ firstJob' = Submitted(firstJob, ClaimedItems(t))
  /\ day' = [day EXCEPT ![today[t]] = Merged(t)]
  /\ fetched' = [fetched EXCEPT ![today[t]] = @ \cup pages[t]]
  /\ EndTick(t)
  /\ UNCHANGED <<date, reaping, lease, retryJob>>

\* Enqueue what was claimed, finish the run, count the claims, commit.
TickCommits(t) ==
  /\ pc[t] \in {"closing", "partial"}
  /\ status' = [i \in Item |-> IF i \in batch[t] THEN "processing" ELSE status[i]]
  /\ attempts' = [i \in Item |-> IF i \in batch[t] THEN 1 ELSE attempts[i]]
  /\ lease' = [i \in Item |-> IF i \in batch[t] THEN "live" ELSE lease[i]]
  /\ firstJob' = Submitted(firstJob, ClaimedItems(t))
  /\ day' = [day EXCEPT ![today[t]] = Merged(t)]
  /\ fetched' = [fetched EXCEPT ![today[t]] = @ \cup pages[t]]
  /\ EndTick(t)
  /\ UNCHANGED <<date, reaping, retryJob>>

\* Mutant: the day's row is written by a transaction of its own.
TickAbortsKeepsDay(t) ==
  /\ pc[t] # "idle"
  /\ day' = [day EXCEPT ![today[t]] = Merged(t)]
  /\ EndTick(t)
  /\ UNCHANGED <<date, reaping, itemVars, jobVars, fetched>>

\* The worker dies, or the database refuses: all of it is rolled back.
TickAborts(t) ==
  /\ pc[t] # "idle"
  /\ EndTick(t)
  /\ UNCHANGED <<date, reaping, committed>>

----------------------------------------------------------------------------
(* Reconciliation, seed, sync and reaper *)

\* reconcile_sitemap and seed claim outside any run and enqueue every claim.  A
\* slug that a tick has claimed and not committed is waited for.
Backfill ==
  \E S \in SUBSET Item :
    /\ S # {}
    /\ \A i \in S : DateOf(i) = date /\ status[i] = "none"
    /\ \A t \in Tick : S \cap batch[t] = {}
    /\ status' = [i \in Item |-> IF i \in S THEN "processing" ELSE status[i]]
    /\ attempts' = [i \in Item |-> IF i \in S THEN 1 ELSE attempts[i]]
    /\ lease' = [i \in Item |-> IF i \in S THEN "live" ELSE lease[i]]
    /\ firstJob' = Submitted(firstJob, S)
    /\ UNCHANGED <<date, reaping, day, retryJob, fetched, tickVars>>

\* mark_item(DONE), whatever the item's status is by now.
MarkDone(i) ==
  /\ status' = [status EXCEPT ![i] = "done"]
  /\ lease' = [lease EXCEPT ![i] = "none"]
  /\ UNCHANGED <<date, reaping, day, attempts, fetched, tickVars>>

\* Either job of the item runs game_sync to its end.
Sync(i) ==
  \/ /\ firstJob[i] = "pending"
     /\ firstJob' = [firstJob EXCEPT ![i] = "settled"]
     /\ MarkDone(i)
     /\ UNCHANGED retryJob
  \/ /\ retryJob[i] = "pending"
     /\ retryJob' = [retryJob EXCEPT ![i] = "settled"]
     /\ MarkDone(i)
     /\ UNCHANGED firstJob

\* The queue gives the job up.  Before the handler re-raised it had marked the
\* item as failed, but that was rolled back with the rest of its transaction.
SyncGivenUp(i) ==
  /\ \/ /\ firstJob[i] = "pending"
        /\ firstJob' = [firstJob EXCEPT ![i] = "settled"]
        /\ UNCHANGED retryJob
     \/ /\ retryJob[i] = "pending"
        /\ retryJob' = [retryJob EXCEPT ![i] = "settled"]
        /\ UNCHANGED firstJob
  /\ UNCHANGED <<date, reaping, day, itemVars, fetched, tickVars>>

\* crawl_item_lease_ttl_s after the claim, whether or not a job is at work.
LeaseExpires(i) ==
  /\ lease[i] = "live"
  /\ lease' = [lease EXCEPT ![i] = "expired"]
  /\ UNCHANGED <<date, reaping, day, status, attempts, jobVars, fetched, tickVars>>

Expired == {i \in Item : status[i] = "processing" /\ lease[i] = "expired"}

\* reap_expired_items reads the expired items, without locking them.
ReapReads ==
  /\ reaping = {}
  /\ Expired # {}
  /\ reaping' = Expired
  /\ UNCHANGED <<date, committed, tickVars>>

\* Mutant: the limit itself is allowed.
SpentTooLate == {i \in reaping : attempts[i] > MaxAttempts}

\* Mutant: the attempt about to be made is counted against the limit.
SpentTooSoon == {i \in reaping : attempts[i] + 1 >= MaxAttempts}

Spent == {i \in reaping : attempts[i] >= MaxAttempts}

\* Mutant: revived items keep their expired lease and their attempts.
ReapWritesUncounted ==
  LET revived == reaping \ Spent
  IN
  /\ reaping # {}
  /\ reaping' = {}
  /\ retryJob' = Submitted(retryJob, revived)
  /\ UNCHANGED <<date, day, itemVars, firstJob, fetched, tickVars>>

\* An item out of attempts fails; any other is taken again under a new lease
\* and enqueued under the retry key, which is the same every time.  The rows are
\* updated by id: an item that a sync has marked as done since is overwritten.
ReapWrites ==
  LET revived == reaping \ Spent
  IN
  /\ reaping # {}
  /\ reaping' = {}
  /\ status' = [i \in Item |-> IF i \in Spent THEN "failed"
                               ELSE IF i \in revived THEN "processing" ELSE status[i]]
  /\ attempts' = [i \in Item |-> IF i \in revived THEN attempts[i] + 1 ELSE attempts[i]]
  /\ lease' = [i \in Item |-> IF i \in revived THEN "live"
                              ELSE IF i \in Spent THEN "none" ELSE lease[i]]
  /\ retryJob' = Submitted(retryJob, revived)
  /\ UNCHANGED <<date, day, firstJob, fetched, tickVars>>

ReapAborts ==
  /\ reaping # {}
  /\ reaping' = {}
  /\ UNCHANGED <<date, committed, tickVars>>

Midnight ==
  /\ date <= LastDate
  /\ date' = date + 1
  /\ UNCHANGED <<committed, tickVars, reaping>>

----------------------------------------------------------------------------

TickSteps(t) ==
  \/ TickStarts(t)
  \/ OpenRun(t)
  \/ NewReleases(t)
  \/ NoNewReleases(t)
  \/ BrowsePage(t)
  \/ EmptyPage(t)
  \/ BrowseEnds(t)
  \/ SourceFails(t)
  \/ TickCommits(t)
  \/ TickAborts(t)

Next ==
  \/ \E t \in Tick : TickSteps(t)
  \/ \E i \in Item : Sync(i) \/ SyncGivenUp(i) \/ LeaseExpires(i)
  \/ Backfill
  \/ ReapReads
  \/ ReapWrites
  \/ ReapAborts
  \/ Midnight

Spec == Init /\ [][Next]_vars

\* Time passes, and crawl.reap is enqueued every five minutes; not every one of
\* them dies before it commits.  Nothing is asked of ticks, of jobs or of the
\* source.
FairSpec ==
  /\ Spec
  /\ \A i \in Item : WF_vars(LeaseExpires(i))
  /\ WF_vars(ReapReads)
  /\ SF_vars(ReapWrites)

----------------------------------------------------------------------------
(* Properties *)

\* crawl_max_games_per_run is a ceiling for the run, over both of its phases and
\* every page of the second: no phase and no page starts the budget anew, and a
\* duplicate costs none of it, whatever other claimers did meanwhile.
RunWithinBudget ==
  \A t \in Tick :
    /\ Cardinality(batch[t]) <= Budget
    /\ Holds(t) => room[t] = Budget - Cardinality(batch[t])

\* A game is claimed once a day: nothing a tick is about to commit has been
\* committed by anybody else, in whatever order the two got there.
ClaimsDisjoint ==
  /\ \A t \in Tick : \A i \in batch[t] : status[i] = "none"
  /\ \A t, u \in Tick : t # u => batch[t] \cap batch[u] = {}

\* The cursor of a day never passes a page that no committed tick has fetched:
\* not when the source failed, not when a tick was rolled back, and not when two
\* ticks started from the same cursor.
NoPageSkipped ==
  \A d \in Date : \A p \in 1..LastPage : p < day[d].page => p \in fetched[d]

\* An item is being processed exactly while it has a lease, so that the reaper
\* can find it even if no job was ever enqueued for it, as happens when the
\* source fails after a page of claims.
LeaseIffProcessing ==
  \A i \in Item : status[i] = "processing" <=> lease[i] # "none"

\* No item is given up before a second job was enqueued for it: the claims a
\* failed browse phase left without a job are tried.
TriedBeforeFailed ==
  \A i \in Item : status[i] = "failed" => retryJob[i] # "absent"

\* The day's games_claimed never claims more than there is.
CountedClaimsExist ==
  \A d \in Date :
    day[d].claimed <= Cardinality({i \in Item : DateOf(i) = d /\ status[i] # "none"})

\* Every claimed item ends as done or failed, whatever becomes of its jobs.
ItemsSettle ==
  \A i \in Item : status[i] = "processing" ~> status[i] \in {"done", "failed"}

\* crawl.py's first barrier is "the row lock taken while opening a run", which
\* would have a tick read the cursor the tick before it left.
CursorNeverRegresses ==
  [][\A d \in Date : day'[d].page >= day[d].page]_vars
=============================================================================
