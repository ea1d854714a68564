----------------------------- MODULE ReviewSync -----------------------------
(***************************************************************************)
(* One stream of reviews, of a platform and an audience: the pages of the  *)
(* source (app/adapters/metacritic/provider.py), the pass that stores them *)
(* and stops early (app/services/review_sync.py), and the rows             *)
(* (app/repositories/reviews.py).                                          *)
(*                                                                         *)
(* The source serves its reviews newest first, nearly: a new one may       *)
(* appear behind older ones.  It may change between two pages of a pass.   *)
(* Critics' reviews have no id, so an edited one is another review and the *)
(* old one goes; a player's keeps its id and gets a new version.           *)
(***************************************************************************)
EXTENDS Integers, Sequences, FiniteSets, SequencesExt

CONSTANTS
  Review,         \* dedupe keys
  First,          \* what the source serves to begin with, newest first
  PageSize,       \* what a page holds, whatever was asked for
  Cap,            \* reviews_critic_cap, reviews_user_cap
  MaxPages,       \* reviews_incremental_max_pages
  Tolerance,      \* reviews_stale_page_tolerance
  None,
  MaxPass,        \* bound: passes started
  MaxEdit,        \* bound: edits
  MaxRemove       \* bound: removals

ASSUME FirstAssumption == First \in Seq(Review) /\ IsInjective(First)
ASSUME SettingsAssumption ==
  /\ PageSize \in Nat \ {0} /\ Cap \in Nat \ {0}
  /\ MaxPages \in Nat \ {0} /\ Tolerance \in Nat \ {0}
ASSUME BoundsAssumption == MaxPass \in Nat /\ MaxEdit \in Nat /\ MaxRemove \in Nat

Absent == -1
Unknown == -1

Version == {Absent} \cup 0..MaxEdit

Pass == [full : BOOLEAN, offset : Nat, total : Nat \cup {Unknown}, pages : Nat, seen : Nat,
         stale : 0..(Tolerance - 1), rows : [Review -> Version], shifted : BOOLEAN]

ASSUME NoneAssumption == None \notin Pass

VARIABLES
  kind,           \* the audience: "critic" or "user"
  \* The source.
  source,         \* its reviews, in the order it serves them
  version,        \* of each review
  unpublished,    \* reviews still to come
  edits, removals,
  \* Committed rows.
  stored,         \* the version stored of each review
  synced,         \* critic_reviews_synced_at or user_reviews_synced_at
  \* The pass: None, or where it is and what its transaction has written.
  pass,
  passes,
  \* History.
  start,          \* reviews served when the pass started
  result,         \* how it ended: "whole" when nothing but its own rules ended it
  skipped         \* reviews some earlier pass was kept from reading

sourceVars == <<source, version, unpublished, edits, removals>>
rows == <<stored, synced>>
vars == <<kind, sourceVars, rows, pass, passes, start, result, skipped>>

Served == ToSet(source)
Min2(a, b) == IF a <= b THEN a ELSE b

Init ==
  /\ kind \in {"critic", "user"}
  /\ source = First
  /\ version = [r \in Review |-> 0]
  /\ unpublished = Review \ ToSet(First)
  /\ edits = 0 /\ removals = 0
  /\ stored = [r \in Review |-> Absent]
  /\ synced = "never"
  /\ pass = None /\ passes = 0
  /\ start = {} /\ result = "none" /\ skipped = {}

----------------------------------------------------------------------------
(* Which streams a job reads.  A platform of the game has the number of its *)
(* critics' and its players' ratings and may be the lead.                   *)

\* reviews_min_platform_critics, reviews_min_platform_users
WorthIt(p, settings) ==
  ~p.lead /\ (p.critics >= settings.critics \/ p.users >= settings.users)

Ratings(p) == p.critics + p.users

\* _platform_budget: the lead, then those worth it, most ratings first, their
\* order kept among equals; one at least.
Targets(platforms, settings) ==
  LET numbered == [i \in DOMAIN platforms |-> <<platforms[i], i>>]
      lead == SelectSeq(numbered, LAMBDA n : n[1].lead)
      others == SelectSeq(numbered, LAMBDA n : WorthIt(n[1], settings))
      more(m, n) == \/ Ratings(m[1]) > Ratings(n[1])
                    \/ Ratings(m[1]) = Ratings(n[1]) /\ m[2] < n[2]
      all == lead \o SetToSortSeq(ToSet(others), more)
      budget == IF settings.max < 1 THEN 1 ELSE settings.max
  IN  [i \in 1..Min2(budget, Len(all)) |-> all[i][2]]

----------------------------------------------------------------------------
(* The source *)

Shifted == IF pass = None THEN None ELSE [pass EXCEPT !.shifted = TRUE]

\* A new review, behind fewer than Tolerance pages of others.
Publish(r) ==
  /\ r \in unpublished
  /\ unpublished' = unpublished \ {r}
  /\ \E i \in 1..Min2(Len(source) + 1, Tolerance * PageSize) :
       source' = InsertAt(source, i, r)
  /\ pass' = Shifted
  /\ UNCHANGED <<kind, version, edits, removals, rows, passes, start, result, skipped>>

Edit(r) ==
  /\ kind = "user" /\ r \in Served /\ edits < MaxEdit
  /\ version' = [version EXCEPT ![r] = @ + 1]
  /\ edits' = edits + 1
  /\ UNCHANGED <<kind, source, unpublished, removals, rows, pass, passes, start, result,
                 skipped>>

Withdraw(r) ==
  /\ r \in Served /\ removals < MaxRemove
  /\ \E i \in DOMAIN source : source[i] = r /\ source' = RemoveAt(source, i)
  /\ removals' = removals + 1
  /\ pass' = Shifted
  /\ UNCHANGED <<kind, version, unpublished, edits, rows, passes, start, result, skipped>>

----------------------------------------------------------------------------
(* The pass *)

\* A stream without a recent stamp is read without a limit of pages.
NeedsFullResync == synced # "recently"

Start ==
  /\ pass = None /\ passes < MaxPass
  /\ passes' = passes + 1
  /\ pass' = [full |-> NeedsFullResync, offset |-> 0, total |-> Unknown, pages |-> 0,
              seen |-> 0, stale |-> 0, rows |-> stored, shifted |-> FALSE]
  /\ start' = Served
  /\ result' = "none"
  /\ UNCHANGED <<kind, sourceVars, rows, skipped>>

Page == SubSeq(source, pass.offset + 1, Min2(pass.offset + PageSize, Len(source)))

PageLimit == kind = "user" /\ ~pass.full /\ pass.pages >= MaxPages
Exhausted == pass.total # Unknown /\ pass.offset >= pass.total
Asks == pass.seen < Cap /\ ~PageLimit /\ ~Exhausted

\* upsert_batch: a row whose content has not changed is left alone.
Touched(page) == {r \in ToSet(page) : pass.rows[r] # version[r]}
Upserted(page) ==
  [r \in Review |-> IF r \in ToSet(page) THEN version[r] ELSE pass.rows[r]]

\* Mutant: the first page without news ends the stream.
StaleAtOnce(page) == IF Touched(page) = {} THEN Tolerance ELSE 0

\* Pages in a row without news.
Stale(page) == IF Touched(page) = {} THEN pass.stale + 1 ELSE 0

\* Mutant: by the size asked for.
Requested(page) == pass.offset + PageSize

\* By the measured length of the page.
NextOffset(page) == pass.offset + Len(page)

\* The stream ends and the job goes on; its transaction keeps what was stored,
\* and the stamp is written however the stream ended.
Ended(contents, whole) ==
  /\ pass' = None
  /\ stored' = contents
  /\ synced' = "recently"
  /\ result' = IF whole THEN "whole" ELSE "cut"
  /\ skipped' = {r \in IF whole THEN skipped ELSE skipped \cup Served : contents[r] = Absent}
  /\ start' = IF whole THEN start ELSE {}
  /\ UNCHANGED <<kind, sourceVars, passes>>

\* A page is stored and the next one will be asked for.
Read ==
  /\ pass # None /\ Asks /\ Page # <<>>
  /\ Stale(Page) < Tolerance
  /\ pass' = [pass EXCEPT !.offset = NextOffset(Page), !.total = Len(source),
                          !.pages = @ + 1, !.seen = @ + Len(Page),
                          !.stale = Stale(Page), !.rows = Upserted(Page)]
  /\ UNCHANGED <<kind, sourceVars, rows, passes, start, result, skipped>>

\* A page is one stale page too many.
StopStale ==
  /\ pass # None /\ Asks /\ Page # <<>>
  /\ Stale(Page) >= Tolerance
  /\ Ended(Upserted(Page), ~pass.shifted)

\* There is nothing left to read.
StopExhausted ==
  /\ pass # None /\ pass.seen < Cap /\ ~PageLimit
  /\ Exhausted \/ Page = <<>>
  /\ Ended(pass.rows, ~pass.shifted)

\* A ceiling of the settings.
StopLimited ==
  /\ pass # None
  /\ pass.seen >= Cap \/ PageLimit
  /\ Ended(pass.rows, FALSE)

\* The source fails; the failure of one stream does not fail the job.
StreamFailed ==
  /\ pass # None /\ Asks
  /\ Ended(pass.rows, FALSE)

\* The job dies, and its transaction with it.
Rollback ==
  /\ pass # None
  /\ pass' = None
  /\ result' = "none" /\ start' = {}
  /\ UNCHANGED <<kind, sourceVars, rows, passes, skipped>>

\* reviews_full_resync_days pass.  Only the start of a pass looks at the stamp.
Age ==
  /\ pass = None
  /\ synced = "recently"
  /\ synced' = "longAgo"
  /\ UNCHANGED <<kind, sourceVars, stored, pass, passes, start, result, skipped>>

Next ==
  \/ \E r \in Review : Publish(r) \/ Edit(r) \/ Withdraw(r)
  \/ Start \/ Read \/ StopStale \/ StopExhausted \/ StopLimited \/ StreamFailed
  \/ Rollback \/ Age

Spec == Init /\ [][Next]_vars

----------------------------------------------------------------------------
(* Properties *)

\* The types; and no page is asked for beyond the total the source has given,
\* which it answers with an error (iter_reviews).
TypeOK ==
  /\ kind \in {"critic", "user"} /\ synced \in {"never", "recently", "longAgo"}
  /\ source \in Seq(Review) /\ IsInjective(source) /\ unpublished \subseteq Review \ Served
  /\ version \in [Review -> 0..edits] /\ stored \in [Review -> Version]
  /\ edits \in 0..MaxEdit /\ removals \in 0..MaxRemove /\ passes \in 0..MaxPass
  /\ start \subseteq Review \ unpublished /\ skipped \subseteq Review
  /\ result \in {"none", "whole", "cut"}
  /\ pass # None =>
       /\ pass \in Pass
       /\ pass.total # Unknown => pass.offset <= pass.total
       /\ pass.seen < Cap + PageSize /\ pass.pages <= pass.seen

\* A pass that nothing interrupted, and that no change of the source shifted, has
\* stored every review served when it started, stopping early as it may; but for
\* those an earlier pass was kept from reading: a failure, a ceiling or a shift
\* leaves known pages in front of unknown ones, where even a full pass stops.
NothingNewMissed ==
  pass = None /\ result = "whole" =>
    \A r \in start \cap Served : stored[r] # Absent \/ r \in skipped
=============================================================================
