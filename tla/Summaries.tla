----------------------------- MODULE Summaries -----------------------------
(***************************************************************************)
(* The summaries of one game platform: the jobs summary.generate and       *)
(* summary.gap of app/tasks/registry.py, app/services/summary_service.py,  *)
(* the snapshots of app/services/snapshot_service.py, and the rows of      *)
(* app/repositories/summaries.py under their unique indexes.               *)
(*                                                                         *)
(* A job is one transaction that stays open while the model is asked.  It  *)
(* decides on what it read before the call, and writes after it, so the    *)
(* decision may be stale by then; what keeps the rows right is that the    *)
(* last reading, the unique indexes and the commit come at the end.  The   *)
(* purge of snapshots also decides on what it has read before it deletes.  *)
(*                                                                         *)
(* A corpus is the set of reviews in it, which stands for its content hash *)
(* too; the recipe is the prompt version and the model.  The queue may     *)
(* deliver a job for an audience at any time: there is one for every day.  *)
(***************************************************************************)
EXTENDS Naturals, FiniteSets

CONSTANTS
  Review,         \* reviews of the game, of either audience
  Audience,       \* Audience.CRITIC and Audience.USER
  User,           \* the audience whose fresh summary asks for the gap
  Recipe,         \* prompt version and model, by deployment
  None,           \* NULL, and the recipe of a skip record
  Worker,         \* workers that may be running a job of the ai queue
  Threshold,      \* summary_min_critic_reviews, summary_min_user_reviews
  MinNew,         \* ai_min_new_reviews
  MinNewPercent,  \* ai_min_new_ratio
  Keep,           \* summary_history_keep
  MaxCalls,       \* ai_max_calls_per_hour
  CostLimit,      \* ai_daily_cost_limit_usd, in calls
  MaxStarts,      \* bound: jobs that ask the model
  MaxChanges      \* bound: changes of the corpora and of the recipe, and passages of time

ASSUME UserAssumption == User \in Audience
ASSUME NoneAssumption == None \notin Recipe /\ \A c \in SUBSET Review : None # c
ASSUME WorkerAssumption == IsFiniteSet(Worker) /\ Worker # {}
ASSUME SizesAssumption ==
  /\ Threshold \in [Audience -> Nat \ {0}]
  /\ {MinNew, MinNewPercent, Keep, MaxCalls, CostLimit} \subseteq Nat \ {0}
  /\ {MaxStarts, MaxChanges} \subseteq Nat

Corpus == SUBSET Review

\* What a fingerprint stands for.  The skip record of an audience has one of
\* its own, whatever the corpus.
Input == [reviews : Corpus, recipe : Recipe \cup {None}]
Skip(c) == [reviews |-> c, recipe |-> None]

\* A row's age is the greatest of these spans it has seen pass.
Hour == 1
Day == 2
Quarter == 3    \* ai_max_summary_age_days and snapshot_retention_days
Age == 0..Quarter

\* llm_model is set on every row but a skip record.
Row == [audience : Audience, input : Input, version : Nat, age : Age,
        status : {"fresh", "rejected", "failed", "skipped"}, current : BOOLEAN]

\* The unique fingerprint of a row stands for its id.
IdOf(r) == <<r.audience, r.input>>

\* A row as a transaction remembers it.
Version == [input : Input, version : Nat]
VersionOf(r) == [input |-> r.input, version |-> r.version]

\* A citation of a purged snapshot is None.
Gap == [cites : [Audience -> {None} \cup Corpus], current : BOOLEAN]

VARIABLES
  \* The world.
  corpus,         \* what corpus selection takes from the reviews now
  recipe,         \* the deployed recipe
  \* Committed rows.
  snapshots,      \* review_snapshots
  aged,           \* those older than the retention
  rows,           \* summaries
  gaps,           \* gap_explanations
  uncited,        \* the summaries whose snapshot_id is NULL, by id
  gapJobs,        \* summary.gap jobs submitted and not delivered
  noneKey,        \* whether the job gap:{id}:None has been submitted
  \* The transaction of each worker.
  stage,
  about,          \* the audience it writes about
  input,          \* the input it has decided on, of both audiences for a gap
  built,          \* the audiences whose snapshot it has inserted
  verdict,        \* the status it writes
  previous,       \* the current row as save has read it, by input and version
  \* The transaction of the purge.
  purging,        \* the snapshots its DELETE has found unreferenced
  overtook,       \* history: the summaries committed since it has, by id
  starts, changes \* of the bounds

world == <<corpus, recipe, changes>>
gapVars == <<gaps, gapJobs, noneKey>>
purgeVars == <<aged, purging, uncited, overtook>>
tables == <<snapshots, purgeVars, rows, gapVars>>
txVars == <<stage, about, input, built, verdict, previous>>
vars == <<world, tables, txVars, starts>>

Stages == {"idle", "asking", "saving", "explaining"}

TypeOK ==
  /\ corpus \in [Audience -> Corpus] /\ recipe \in Recipe
  /\ snapshots \in [Audience -> SUBSET Corpus]
  /\ aged \in [Audience -> SUBSET Corpus]
  /\ rows \subseteq Row /\ gaps \subseteq Gap
  /\ gapJobs \in Nat /\ noneKey \in BOOLEAN
  /\ stage \in [Worker -> Stages]
  /\ about \in [Worker -> Audience]
  /\ input \in [Worker -> [Audience -> Input]]
  /\ built \in [Worker -> SUBSET Audience]
  /\ verdict \in [Worker -> {"fresh", "rejected", "failed"}]
  /\ previous \in [Worker -> SUBSET Version]
  /\ purging \in [Audience -> SUBSET Corpus]
  /\ uncited \subseteq Audience \X Input /\ overtook \subseteq Audience \X Input
  /\ starts \in 0..MaxStarts /\ changes \in 0..MaxChanges

Empty == [a \in Audience |-> Skip({})]

Init ==
  /\ corpus = [a \in Audience |-> {}] /\ recipe \in Recipe
  /\ snapshots = [a \in Audience |-> {}]
  /\ aged = [a \in Audience |-> {}]
  /\ rows = {} /\ gaps = {} /\ gapJobs = 0 /\ noneKey = FALSE
  /\ stage = [w \in Worker |-> "idle"]
  /\ about = [w \in Worker |-> User]
  /\ input = [w \in Worker |-> Empty]
  /\ built = [w \in Worker |-> {}]
  /\ verdict = [w \in Worker |-> "fresh"]
  /\ previous = [w \in Worker |-> {}]
  /\ purging = [a \in Audience |-> {}] /\ uncited = {} /\ overtook = {}
  /\ starts = 0 /\ changes = 0

----------------------------------------------------------------------------
(* The world *)

Change == changes < MaxChanges /\ changes' = changes + 1

\* Reviews arrive, are edited, or lose their place in the sample.
ReviewsChange(a) ==
  /\ Change
  /\ corpus' \in {[corpus EXCEPT ![a] = c] : c \in Corpus \ {corpus[a]}}
  /\ UNCHANGED <<recipe, tables, txVars, starts>>

Deploy ==
  /\ Change
  /\ recipe' \in Recipe \ {recipe}
  /\ UNCHANGED <<corpus, tables, txVars, starts>>

TimePasses(span) ==
  /\ Change
  /\ rows' = {[r EXCEPT !.age = IF @ < span THEN span ELSE @] : r \in rows}
  /\ aged' = IF span = Quarter THEN snapshots ELSE aged
  /\ UNCHANGED <<corpus, recipe, snapshots, purging, uncited, overtook, gapVars, txVars,
                 starts>>

----------------------------------------------------------------------------
(* The decision *)

Of(a) == {r \in rows : r.audience = a}
Current(a) == {r \in Of(a) : r.current}
Recorded == {r \in rows : r.status # "skipped"}

\* Both ceilings are read from the rows; a failed call has a row and no cost.
OverBudget ==
  \/ Cardinality({r \in Recorded : r.age < Day /\ r.status # "failed"}) >= CostLimit
  \/ Cardinality({r \in Recorded : r.age < Hour}) >= MaxCalls

InputOf(a) == [reviews |-> corpus[a], recipe |-> recipe]
Enough(a) == Cardinality(corpus[a]) >= Threshold[a]
Known(a) == \E r \in Of(a) : r.input = InputOf(a)

\* What is current was made from another recipe, from too few of today's
\* reviews, at another score, or too long ago.  All reviews are new to a summary
\* that has lost its snapshot.
Outdated(a, r, scoreMoved) ==
  LET new == Cardinality(corpus[a] \ (IF IdOf(r) \in uncited THEN {} ELSE r.input.reviews))
  IN  \/ r.input.recipe # recipe
      \/ new >= MinNew
      \/ new * 100 >= MinNewPercent * Cardinality(corpus[a])
      \/ scoreMoved
      \/ r.age >= Quarter /\ new > 0

\* should_generate.  Only fresh rows are ever current, so its retry after a
\* failure never comes up, and a failed input is a known one.
ShouldGenerate(a, scoreMoved) ==
  /\ Enough(a) /\ ~Known(a)
  /\ \A r \in Current(a) : Outdated(a, r, scoreMoved)

\* An insert of a snapshot another transaction has inserted waits for it, and
\* fails when that commits: the job is delivered again.
Unblocked(a) ==
  \A w \in Worker :
    ~(stage[w] # "idle" /\ a \in built[w] /\ input[w][a].reviews = corpus[a])

Stored(S) ==
  snapshots' = [a \in Audience |->
                  snapshots[a] \cup (IF a \in S THEN {corpus[a]} ELSE {})]

Purging == \E a \in Audience : purging[a] # {}

\* A summary is committed, with its snapshot_id.
Cited(id) ==
  /\ uncited' = uncited \ {id}
  /\ overtook' = IF Purging THEN overtook \cup {id} ELSE overtook \ {id}
  /\ UNCHANGED <<aged, purging>>

----------------------------------------------------------------------------
(* summary.generate *)

\* _record_skip: once per audience, and never over a summary.
SkipRecord(a) ==
  IF Current(a) = {} /\ \A r \in Of(a) : r.status # "skipped"
  THEN {[audience |-> a, input |-> Skip(corpus[a]), version |-> 1, age |-> 0,
         status |-> "skipped", current |-> FALSE]}
  ELSE {}

SkipTooFew(a) ==
  /\ ~Enough(a) /\ Unblocked(a)
  /\ Stored({a})
  /\ rows' = rows \cup SkipRecord(a)
  /\ IF SkipRecord(a) = {} THEN UNCHANGED purgeVars
     ELSE Cited(<<a, Skip(corpus[a])>>)
  /\ UNCHANGED <<world, gapVars, txVars, starts>>

\* Nothing to do; the outcome is called fresh and has no summary id.
Settle(a) ==
  /\ Enough(a) /\ Unblocked(a)
  /\ \E moved \in BOOLEAN : ~ShouldGenerate(a, moved)
  /\ Stored({a})
  /\ IF a = User /\ ~noneKey
     THEN gapJobs' = gapJobs + 1 /\ noneKey' = TRUE
     ELSE UNCHANGED <<gapJobs, noneKey>>
  /\ UNCHANGED <<world, purgeVars, rows, gaps, txVars, starts>>

\* Over budget nothing is left of the job but its deferral.
Ask(w, a) ==
  /\ stage[w] = "idle" /\ starts < MaxStarts
  /\ Unblocked(a) /\ ~OverBudget
  /\ \E moved \in BOOLEAN : ShouldGenerate(a, moved)
  /\ stage' = [stage EXCEPT ![w] = "asking"]
  /\ about' = [about EXCEPT ![w] = a]
  /\ input' = [input EXCEPT ![w][a] = InputOf(a)]
  /\ built' = [built EXCEPT ![w] = {b \in {a} : corpus[b] \notin snapshots[b]}]
  /\ starts' = starts + 1
  /\ UNCHANGED <<world, tables, verdict, previous>>

Idle(w) ==
  /\ stage' = [stage EXCEPT ![w] = "idle"]
  /\ about' = [about EXCEPT ![w] = User]
  /\ input' = [input EXCEPT ![w] = Empty]
  /\ built' = [built EXCEPT ![w] = {}]
  /\ verdict' = [verdict EXCEPT ![w] = "fresh"]
  /\ previous' = [previous EXCEPT ![w] = {}]

\* What a commit makes of the snapshots of the transaction.
Kept(w) ==
  snapshots' = [a \in Audience |->
     snapshots[a] \cup (IF a \in built[w] THEN {input[w][a].reviews} ELSE {})]

\* The provider is disabled, or cannot be used: a successful outcome.
Unavailable(w) ==
  /\ stage[w] = "asking"
  /\ Kept(w) /\ Idle(w)
  /\ UNCHANGED <<world, purgeVars, rows, gapVars, starts>>

\* The model has answered, or failed for good: save reads what is current now.
Answer(w, status) ==
  /\ stage[w] = "asking"
  /\ stage' = [stage EXCEPT ![w] = "saving"]
  /\ verdict' = [verdict EXCEPT ![w] = status]
  /\ previous' =
       [previous EXCEPT ![w] = {VersionOf(r) : r \in Current(about[w])}]
  /\ UNCHANGED <<world, tables, about, input, built, starts>>

Versions(S) == {r.version : r \in S}

\* The row that was current when save read it, as it is now.
Previous(w) == {r \in Of(about[w]) : VersionOf(r) \in previous[w]}

\* Mutant: the version of the row it replaces is not incremented.
SavedRowSameVersion(w) ==
  [audience |-> about[w], input |-> input[w][about[w]],
   version |-> IF previous[w] = {} THEN 1
               ELSE CHOOSE v \in Versions(previous[w]) : TRUE,
   age |-> 0, status |-> verdict[w], current |-> verdict[w] = "fresh"]

SavedRow(w) ==
  [audience |-> about[w], input |-> input[w][about[w]],
   version |-> IF previous[w] = {} THEN 1
               ELSE 1 + CHOOSE v \in Versions(previous[w]) : TRUE,
   age |-> 0, status |-> verdict[w], current |-> verdict[w] = "fresh"]

\* Mutant: any result takes the place of the current summary.
DemotedByAll(w) == {[r EXCEPT !.current = FALSE] : r \in Previous(w)}

\* Only a fresh summary takes the place of the current one.
Demoted(w) ==
  IF verdict[w] = "fresh"
  THEN {[r EXCEPT !.current = FALSE] : r \in Previous(w)}
  ELSE Previous(w)

Written(w) == (rows \ Previous(w)) \cup Demoted(w) \cup {SavedRow(w)}

\* Mutant: the partial index on the current summary is missing.
ConflictsOnInput(w) ==
  \E r \in Of(about[w]) : r.input = input[w][about[w]]

\* uq_summary_fingerprint and uq_summaries_current.
Conflicts(w) ==
  \/ \E r \in Of(about[w]) : r.input = input[w][about[w]]
  \/ /\ verdict[w] = "fresh"
     /\ \E r \in Current(about[w]) : VersionOf(r) \notin previous[w]

\* A snapshot the transaction reuses may be purged meanwhile.
Dangling(w) ==
  \E a \in Audience :
    /\ stage[w] = "explaining" \/ a = about[w]
    /\ a \notin built[w] /\ input[w][a].reviews \notin snapshots[a]

\* prune_history keeps the newest versions of those not current.  Rejected and
\* failed rows share a version with the next fresh one; ties go any way.
Pruned(S, a) ==
  LET history == {r \in S : r.audience = a /\ ~r.current}
  IN  {S \ D : D \in {E \in SUBSET history :
         /\ Cardinality(history \ E) = Keep \/ (E = {} /\ Cardinality(history) < Keep)
         /\ \A r \in E, k \in history \ E : r.version <= k.version}}

\* The INSERT holds the keys it takes and the snapshot it refers to until the
\* commit: another writer of the same keys and the DELETE of a purge wait for the
\* end of the transaction, so the two are one step here.  The DELETE goes on with
\* what it has read before it waited.
Commit(w) ==
  /\ stage[w] = "saving"
  /\ ~Conflicts(w) /\ ~Dangling(w)
  /\ IF verdict[w] = "failed" THEN rows' = Written(w)
     ELSE rows' \in Pruned(Written(w), about[w])
  /\ gapJobs' = IF verdict[w] = "fresh" /\ about[w] = User
                THEN gapJobs + 1 ELSE gapJobs
  /\ Cited(<<about[w], input[w][about[w]]>>)
  /\ Kept(w) /\ Idle(w)
  /\ UNCHANGED <<world, gaps, noneKey, starts>>

----------------------------------------------------------------------------
(* summary.gap *)

\* Mutant: a job that was delivered is delivered again.
LeaveGapAgain ==
  /\ \A a \in Audience : Unblocked(a)
  /\ gapJobs' = gapJobs - 1
  /\ Stored(Audience) \/ UNCHANGED snapshots
  /\ UNCHANGED <<world, purgeVars, rows, gaps, noneKey, txVars, starts>>

\* The scores are too close or missing, the model is disabled, a corpus is too
\* small or the budget is spent: a successful outcome, and never again.
LeaveGap ==
  /\ gapJobs > 0
  /\ \A a \in Audience : Unblocked(a)
  /\ gapJobs' = gapJobs - 1
  /\ Stored(Audience) \/ UNCHANGED snapshots
  /\ UNCHANGED <<world, purgeVars, rows, gaps, noneKey, txVars, starts>>

Explain(w) ==
  /\ stage[w] = "idle" /\ gapJobs > 0 /\ starts < MaxStarts
  /\ \A a \in Audience : Unblocked(a) /\ Enough(a)
  /\ ~OverBudget
  /\ stage' = [stage EXCEPT ![w] = "explaining"]
  /\ input' = [input EXCEPT ![w] = [a \in Audience |-> InputOf(a)]]
  /\ built' = [built EXCEPT ![w] = {a \in Audience : corpus[a] \notin snapshots[a]}]
  /\ gapJobs' = gapJobs - 1
  /\ starts' = starts + 1
  /\ UNCHANGED <<world, snapshots, purgeVars, rows, gaps, noneKey, about, verdict,
                 previous>>

GapCites(w) == [a \in Audience |-> input[w][a].reviews]

\* An unsupported explanation is dropped, and a pair of snapshots that has a
\* row keeps it as it is, current or not.
CommitGap(w, supported) ==
  /\ stage[w] = "explaining"
  /\ ~(supported /\ Dangling(w))
  /\ gaps' = IF ~supported \/ \E g \in gaps : g.cites = GapCites(w) THEN gaps
             ELSE {[g EXCEPT !.current = FALSE] : g \in gaps}
                    \cup {[cites |-> GapCites(w), current |-> TRUE]}
  /\ Kept(w) /\ Idle(w)
  /\ UNCHANGED <<world, purgeVars, rows, gapJobs, noneKey, starts>>

\* A retryable error of the model, a conflict or a crash: all is rolled back,
\* the row and the event of the failure included, and the job runs again.
Rollback(w) ==
  /\ stage[w] # "idle"
  /\ gapJobs' = IF stage[w] = "explaining" THEN gapJobs + 1 ELSE gapJobs
  /\ Idle(w)
  /\ UNCHANGED <<world, snapshots, purgeVars, rows, gaps, noneKey, starts>>

----------------------------------------------------------------------------
(* maintenance.cleanup *)

\* Mutant: whatever is old is purged.
PurgeableAll(a) == aged[a] \cap snapshots[a]

\* purge_unreferenced asks the summaries, not the gaps.
Purgeable(a) ==
  {c \in aged[a] \cap snapshots[a] :
     \A r \in Of(a) : r.input.reviews = c => IdOf(r) \in uncited}

\* The DELETE reads the summaries that are committed when it starts.
PurgeReads ==
  /\ ~Purging
  /\ \E a \in Audience : Purgeable(a) # {}
  /\ purging' = [a \in Audience |-> Purgeable(a)]
  /\ UNCHANGED <<world, snapshots, aged, uncited, overtook, rows, gapVars, txVars, starts>>

\* It deletes what it has found, when whoever has referred to one since has
\* committed, and ON DELETE SET NULL takes the references away.
PurgeDeletes ==
  /\ Purging
  /\ snapshots' = [a \in Audience |-> snapshots[a] \ purging[a]]
  /\ aged' = [a \in Audience |-> aged[a] \ purging[a]]
  /\ uncited' = uncited \cup {IdOf(r) : r \in {q \in rows : q.input.reviews \in purging[q.audience]}}
  /\ gaps' = {[g EXCEPT !.cites =
                 [a \in Audience |->
                    IF g.cites[a] \in purging[a] THEN None ELSE g.cites[a]]]
                : g \in gaps}
  /\ purging' = [a \in Audience |-> {}]
  /\ UNCHANGED <<world, overtook, rows, gapJobs, noneKey, txVars, starts>>

PurgeAborts ==
  /\ Purging
  /\ purging' = [a \in Audience |-> {}]
  /\ UNCHANGED <<world, snapshots, aged, uncited, overtook, rows, gapVars, txVars, starts>>

----------------------------------------------------------------------------

Next ==
  \/ Deploy \/ LeaveGap \/ PurgeReads \/ PurgeDeletes \/ PurgeAborts
  \/ \E span \in {Hour, Day, Quarter} : TimePasses(span)
  \/ \E a \in Audience : ReviewsChange(a) \/ SkipTooFew(a) \/ Settle(a)
  \/ \E w \in Worker :
       \/ \E a \in Audience : Ask(w, a)
       \/ \E status \in {"fresh", "rejected", "failed"} : Answer(w, status)
       \/ \E supported \in BOOLEAN : CommitGap(w, supported)
       \/ Unavailable(w) \/ Commit(w) \/ Explain(w) \/ Rollback(w)

Spec == Init /\ [][Next]_vars

----------------------------------------------------------------------------
(* Properties *)

\* A reader finds at most one current summary of an audience, whatever the
\* workers interleave between reading the current one and committing another,
\* and no rejection, failure or skip record is ever it (SummaryRepository.save).
OneCurrent ==
  \A a \in Audience :
    /\ Cardinality(Current(a)) <= 1
    /\ \A r \in Current(a) : r.status = "fresh"

\* What a reader is shown of an audience.
ShownOf(a) ==
  LET now == {VersionOf(r) : r \in Current(a)}
  IN  IF now = {} THEN [version |-> 0] ELSE CHOOSE v \in now : TRUE

Shown == INSTANCE ShownSummary WITH shown <- [a \in Audience |-> ShownOf(a)]

\* Failed, rejected, pruned, rolled back: an audience that has a summary to
\* show never loses it, and it gives way only to the next version, which is
\* written from another input, whatever two workers decided on before they
\* asked the model (generate, save, prune_history, _record_skip).
ImplementsShown == Shown!Spec

\* Fresh summaries are ordered by their versions, the current one last, so
\* that pruning by version drops the oldest (save, prune_history).
HistoryOrdered ==
  \A a \in Audience :
    LET fresh == {r \in Of(a) : r.status = "fresh"}
    IN  /\ Cardinality(Versions(fresh)) = Cardinality(fresh)
        /\ \A c \in Current(a), r \in fresh : r.version <= c.version

\* What a summary cites is there, and a summary has lost its snapshot only if it
\* was committed between the moment a purge looked for references and the moment
\* it deleted: no purge takes a snapshot from a summary it could have seen
\* (purge_unreferenced, save, the foreign key).
CitationsResolve ==
  \A r \in rows :
    IF IdOf(r) \in uncited THEN IdOf(r) \in overtook
    ELSE r.input.reviews \in snapshots[r.audience]
=============================================================================
