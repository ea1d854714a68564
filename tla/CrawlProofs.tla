----------------------------- MODULE CrawlProofs -----------------------------
(***************************************************************************)
(* Safety of the daily crawl, for any number of games, dates, pages and    *)
(* concurrent ticks.  The inductive invariant Inv has five parts: the      *)
(* shape of the state (ShapeInv), the item and its jobs (ItemInv), what a  *)
(* tick has open (OpenInv: one tick at most is past its open_run, and what *)
(* it has claimed is new and within its budget), the pages before each     *)
(* cursor (PageInv), and what a tick holds and has read of the day's count *)
(* (CountInv).                                                             *)
(***************************************************************************)
EXTENDS Crawl, TLAPS, FiniteSetTheorems

LEMMA Constants ==
  /\ LastDate \in Nat /\ LastPage \in Nat \ {0} /\ Budget \in Nat \ {0}
  /\ MaxAttempts \in Nat /\ MaxAttempts >= 2
BY DateAssumption, PageAssumption, BudgetAssumption, AttemptsAssumption

LEMMA ItemsFinite == IsFiniteSet(Item) /\ \A S \in SUBSET Item : IsFiniteSet(S)
<1>1. IsFiniteSet(Date)
  BY FS_Interval, Constants DEF Date
<1>2. IsFiniteSet(Item)
  BY <1>1, GameAssumption, FS_Product DEF Item
<1> QED
  BY <1>2, FS_Subset

LEMMA ItemSizes == \A S \in SUBSET Item : Cardinality(S) \in Nat
BY ItemsFinite, FS_CardinalityType

LEMMA NewDayTyped == NewDay \in Day
BY DEF NewDay, Day

\* What the updates of a day's row keep and change.
LEMMA DayUpdates ==
  ASSUME NEW d \in Day, NEW n \in Nat, NEW b \in BOOLEAN
  PROVE  /\ [d EXCEPT !.created = b] \in Day /\ [d EXCEPT !.created = b].page = d.page
         /\ [d EXCEPT !.releasesDone = b] \in Day
         /\ [d EXCEPT !.releasesDone = b].page = d.page
         /\ [d EXCEPT !.exhausted = b] \in Day /\ [d EXCEPT !.exhausted = b].page = d.page
         /\ [d EXCEPT !.page = n, !.exhausted = b] \in Day
         /\ [d EXCEPT !.page = n, !.exhausted = b].page = n
BY Zenon DEF Day

LEMMA PageTurned ==
  ASSUME NEW d \in Day, NEW n, NEW b
  PROVE  [d EXCEPT !.page = n, !.exhausted = b].page = n
BY Zenon DEF Day

LEMMA SubmittedTyped ==
  ASSUME NEW phase \in [Item -> JobPhases], NEW S
  PROVE  Submitted(phase, S) \in [Item -> JobPhases]
BY DEF Submitted, JobPhases

\* A claim is a set of items that fits into what is left of the budget.
LEMMA ClaimsTyped ==
  ASSUME TypeOK, NEW t \in Tick, NEW listing, NEW C \in Claims(t, listing)
  PROVE  /\ C \in SUBSET Item /\ Cardinality(C) \in Nat
         /\ room[t] - Cardinality(C) \in 0..Budget
<1> DEFINE fresh == Fresh(t, listing)
<1>1. C \in SUBSET Item
  BY DEF Claims, Fresh
<1>2. Cardinality(C) \in Nat
  BY <1>1, ItemSizes
<1>3. Cardinality(fresh) \in Nat
  <2>1. fresh \in SUBSET Item
    BY DEF Fresh
  <2> QED
    BY <2>1, ItemSizes
<1>4. Cardinality(C) = IF Cardinality(fresh) < room[t] THEN Cardinality(fresh) ELSE room[t]
  BY DEF Claims
<1>5. room[t] \in 0..Budget
  BY DEF TypeOK
<1> QED
  <2> HIDE DEF fresh
  <2> QED
    BY <1>1, <1>2, <1>3, <1>4, <1>5, Constants

LEMMA MergedTyped ==
  ASSUME TypeOK, NEW t \in Tick, today[t] \in Date
  PROVE  Merged(t) \in Day
<1>1. ClaimedItems(t) \in SUBSET Item
  BY DEF TypeOK, ClaimedItems
<1>2. Cardinality(ClaimedItems(t)) \in Nat
  BY <1>1, ItemSizes
<1>3. row[t] \in Day /\ loaded[t] \in Day /\ day[today[t]] \in Day
  BY DEF TypeOK
<1> QED
  BY <1>2, <1>3 DEF Merged, Day

----------------------------------------------------------------------------
(* The shape of the state *)

\* A tick has a date of its own from its first statement to its last.
DatedInv == \A t \in Tick : pc[t] # "idle" => today[t] \in Date

ShapeInv == TypeOK /\ DatedInv

LEMMA ShapeInit == Init => ShapeInv
BY Constants, NewDayTyped
DEF Init, ShapeInv, TypeOK, DatedInv, Statuses, JobPhases, Stages

LEMMA EndTickTyped ==
  ASSUME TypeOK, NEW t \in Tick, EndTick(t)
  PROVE  /\ pc' \in [Tick -> Stages] /\ today' \in [Tick -> 0..LastDate]
         /\ loaded' \in [Tick -> Day] /\ row' \in [Tick -> Day]
         /\ batch' \in [Tick -> SUBSET Item] /\ releases' \in [Tick -> SUBSET Item]
         /\ room' \in [Tick -> 0..Budget] /\ pages' \in [Tick -> SUBSET Nat]
         /\ pc'[t] = "idle" /\ \A u \in Tick \ {t} : pc'[u] = pc[u] /\ today'[u] = today[u]
BY NewDayTyped, Constants DEF EndTick, TypeOK, Stages

LEMMA ShapeTick ==
  ASSUME ShapeInv, NEW t \in Tick, TickSteps(t)
  PROVE  ShapeInv'
<1> USE DEF ShapeInv, committed, itemVars, jobVars
<1>1. CASE TickStarts(t)
  <2>0. day[date] \in Day
    BY <1>1 DEF TickStarts, TypeOK
  <2>1. day[date] \in Day /\ [day[date] EXCEPT !.created = TRUE] \in Day
    BY <2>0, DayUpdates, Zenon
  <2>2. date \in 0..LastDate
    BY <1>1, Constants DEF TickStarts, Date
  <2>3. loaded' \in [Tick -> Day] /\ row' \in [Tick -> Day]
    <3> DEFINE seen == day[date]
               changed == [day[date] EXCEPT !.created = TRUE]
    <3>1. seen \in Day /\ changed \in Day
      BY <2>1
    <3>2. loaded' = [loaded EXCEPT ![t] = seen] /\ row' = [row EXCEPT ![t] = changed]
      BY <1>1 DEF TickStarts
    <3> HIDE DEF seen, changed
    <3> QED
      BY <3>1, <3>2 DEF TypeOK
  <2> QED
    BY <1>1, <2>2, <2>3 DEF TickStarts, TypeOK, DatedInv, Stages
<1>2. CASE OpenRun(t) \/ NoNewReleases(t) \/ BrowseEnds(t) \/ SourceFails(t)
  BY <1>2, Constants
  DEF OpenRun, NoNewReleases, BrowseEnds, SourceFails, Browsing, TypeOK, DatedInv, Stages
<1>3. CASE NewReleases(t)
  <2>1. [row EXCEPT ![t].releasesDone = TRUE] \in [Tick -> Day]
    <3> DEFINE changed == [row[t] EXCEPT !.releasesDone = TRUE]
    <3>1. changed \in Day
      BY DayUpdates, Zenon DEF TypeOK
    <3>2. [row EXCEPT ![t].releasesDone = TRUE] = [row EXCEPT ![t] = changed]
      OBVIOUS
    <3> HIDE DEF changed
    <3> QED
      BY <3>1, <3>2 DEF TypeOK
  <2>0. PICK listing \in SUBSET Game : \E C \in Claims(t, listing) :
          /\ batch' = [batch EXCEPT ![t] = @ \cup C] /\ releases' = [releases EXCEPT ![t] = C]
          /\ room' = [room EXCEPT ![t] = @ - Cardinality(C)]
    BY <1>3 DEF NewReleases
  <2>2. PICK C \in Claims(t, listing) :
          /\ batch' = [batch EXCEPT ![t] = @ \cup C] /\ releases' = [releases EXCEPT ![t] = C]
          /\ room' = [room EXCEPT ![t] = @ - Cardinality(C)]
    BY <2>0
  <2>3. C \in SUBSET Item /\ room[t] - Cardinality(C) \in 0..Budget
    BY <2>2, ClaimsTyped
  <2>4. room' \in [Tick -> 0..Budget]
    BY <2>2, <2>3 DEF TypeOK
  <2>5. /\ batch' \in [Tick -> SUBSET Item] /\ releases' \in [Tick -> SUBSET Item]
    BY <2>2, <2>3 DEF TypeOK
  <2> QED
    BY <1>3, <2>1, <2>4, <2>5 DEF NewReleases, TypeOK, DatedInv, Stages
<1>4. CASE BrowsePage(t)
  <2>1. row[t].page \in Nat
    BY DEF TypeOK, Day
  <2>2. row' \in [Tick -> Day]
    <3> DEFINE last == row[t].page >= LastPage
               turned == [row[t] EXCEPT !.page = row[t].page + 1, !.exhausted = last]
    <3>1. row' = [row EXCEPT ![t] = turned]
      BY <1>4 DEF BrowsePage
    <3>2. row[t] \in Day /\ last \in BOOLEAN
      BY DEF TypeOK
    <3>3. turned \in Day
      <4> row[t].page + 1 \in Nat
        BY <2>1
      <4> HIDE DEF last
      <4> QED
        BY <3>2, DayUpdates, Zenon
    <3> HIDE DEF turned
    <3> QED
      BY <3>1, <3>3 DEF TypeOK
  <2>0. PICK listing \in SUBSET Game : \E C \in Claims(t, listing) :
          /\ batch' = [batch EXCEPT ![t] = @ \cup C]
          /\ room' = [room EXCEPT ![t] = @ - Cardinality(C)]
    BY <1>4 DEF BrowsePage
  <2>3. PICK C \in Claims(t, listing) :
          /\ batch' = [batch EXCEPT ![t] = @ \cup C]
          /\ room' = [room EXCEPT ![t] = @ - Cardinality(C)]
    BY <2>0
  <2>4. C \in SUBSET Item /\ room[t] - Cardinality(C) \in 0..Budget
    BY <2>3, ClaimsTyped
  <2>9. room' \in [Tick -> 0..Budget]
    BY <2>3, <2>4 DEF TypeOK
  <2>5. batch' \in [Tick -> SUBSET Item]
    BY <2>3, <2>4 DEF TypeOK
  <2>6. pc' \in [Tick -> Stages] /\ \A u \in Tick : pc'[u] # "idle" => pc[u] # "idle"
    BY <1>4 DEF BrowsePage, Browsing, TypeOK, Stages
  <2>7. pages' \in [Tick -> SUBSET Nat]
    BY <1>4, <2>1 DEF BrowsePage, TypeOK
  <2>8. UNCHANGED <<date, reaping, committed, today, loaded, releases>>
    BY <1>4 DEF BrowsePage
  <2> QED
    BY <2>2, <2>5, <2>6, <2>7, <2>8, <2>9 DEF TypeOK, DatedInv
<1>5. CASE EmptyPage(t)
  <2>1. row' \in [Tick -> Day]
    <3> DEFINE changed == [row[t] EXCEPT !.exhausted = TRUE]
    <3>1. changed \in Day
      BY DayUpdates, Zenon DEF TypeOK
    <3>2. row' = [row EXCEPT ![t] = changed]
      BY <1>5 DEF EmptyPage
    <3> HIDE DEF changed
    <3> QED
      BY <3>1, <3>2 DEF TypeOK
  <2> QED
    BY <1>5, <2>1 DEF EmptyPage, Browsing, TypeOK, DatedInv, Stages
<1>6. CASE TickCommits(t)
  <2>1. today[t] \in Date /\ Merged(t) \in Day
    BY <1>6, MergedTyped DEF TickCommits, DatedInv
  <2>2. firstJob' \in [Item -> JobPhases]
    BY <1>6, SubmittedTyped DEF TickCommits, TypeOK
  <2>3. status' \in [Item -> Statuses] /\ lease' \in [Item -> {"none", "live", "expired"}]
    BY <1>6 DEF TickCommits, TypeOK, Statuses
  <2>4. attempts' \in [Item -> 0..MaxAttempts]
    BY <1>6, Constants DEF TickCommits, TypeOK
  <2>5. day' \in [Date -> Day] /\ fetched' \in [Date -> SUBSET Nat]
    BY <1>6, <2>1 DEF TickCommits, TypeOK
  <2> QED
    BY <1>6, <2>2, <2>3, <2>4, <2>5, EndTickTyped DEF TickCommits, TypeOK, DatedInv
<1>7. CASE TickAborts(t)
  BY <1>7, EndTickTyped DEF TickAborts, TypeOK, DatedInv
<1> QED
  BY <1>1, <1>2, <1>3, <1>4, <1>5, <1>6, <1>7 DEF TickSteps

LEMMA ShapeRest ==
  ASSUME ShapeInv,
         \/ \E i \in Item : Sync(i) \/ SyncGivenUp(i) \/ LeaseExpires(i)
         \/ Backfill \/ ReapReads \/ ReapWrites \/ ReapAborts \/ Midnight \/ UNCHANGED vars
  PROVE  ShapeInv'
<1> USE DEF ShapeInv, committed, itemVars, jobVars, tickVars
<1>1. ASSUME NEW i \in Item, Sync(i) PROVE ShapeInv'
  <2>0. MarkDone(i)
    BY <1>1 DEF Sync
  <2>1. /\ status' \in [Item -> Statuses] /\ lease' \in [Item -> {"none", "live", "expired"}]
        /\ UNCHANGED <<date, reaping, day, attempts, fetched, tickVars>>
    BY <2>0 DEF MarkDone, TypeOK, Statuses
  <2>2. firstJob' \in [Item -> JobPhases] /\ retryJob' \in [Item -> JobPhases]
    BY <1>1 DEF Sync, TypeOK, JobPhases
  <2> QED
    BY <2>1, <2>2 DEF TypeOK, DatedInv
<1>2. ASSUME NEW i \in Item, SyncGivenUp(i) PROVE ShapeInv'
  BY <1>2 DEF SyncGivenUp, TypeOK, DatedInv, JobPhases
<1>3. ASSUME NEW i \in Item, LeaseExpires(i) PROVE ShapeInv'
  BY <1>3 DEF LeaseExpires, TypeOK, DatedInv
<1>4. CASE Backfill
  <2>1. PICK S \in SUBSET Item :
          /\ status' = [i \in Item |-> IF i \in S THEN "processing" ELSE status[i]]
          /\ attempts' = [i \in Item |-> IF i \in S THEN 1 ELSE attempts[i]]
          /\ lease' = [i \in Item |-> IF i \in S THEN "live" ELSE lease[i]]
          /\ firstJob' = Submitted(firstJob, S)
          /\ UNCHANGED <<date, reaping, day, retryJob, fetched, tickVars>>
    BY <1>4 DEF Backfill
  <2>2. attempts' \in [Item -> 0..MaxAttempts]
    BY <2>1, Constants DEF TypeOK
  <2>3. firstJob' \in [Item -> JobPhases]
    BY <2>1, SubmittedTyped DEF TypeOK
  <2> QED
    BY <2>1, <2>2, <2>3 DEF TypeOK, DatedInv, Statuses
<1>5. CASE ReapWrites
  <2>1. attempts' \in [Item -> 0..MaxAttempts]
    BY <1>5, Constants DEF ReapWrites, Spent, TypeOK
  <2>2. retryJob' \in [Item -> JobPhases]
    BY <1>5, SubmittedTyped DEF ReapWrites, TypeOK
  <2> QED
    BY <1>5, <2>1, <2>2 DEF ReapWrites, TypeOK, DatedInv, Statuses
<1>8. CASE ReapReads \/ ReapAborts
  BY <1>8 DEF ReapReads, ReapAborts, Expired, TypeOK, DatedInv
<1>6. CASE Midnight
  BY <1>6, Constants DEF Midnight, TypeOK, DatedInv
<1>7. CASE UNCHANGED vars
  BY <1>7 DEF vars, TypeOK, DatedInv
<1> QED
  BY <1>1, <1>2, <1>3, <1>4, <1>5, <1>6, <1>7, <1>8

LEMMA ShapeStep == ShapeInv /\ [Next]_vars => ShapeInv'
BY ShapeTick, ShapeRest DEF Next

LEMMA ShapeCorrect == Spec => []ShapeInv
BY ShapeInit, ShapeStep, PTL DEF Spec

\* Every reachable state has the right shape; the attempts of an item stay
\* within crawl_item_max_attempts.
THEOREM TypeCorrect == Spec => []TypeOK
<1>1. ShapeInv => TypeOK
  BY DEF ShapeInv
<1> QED
  BY <1>1, ShapeCorrect, PTL

----------------------------------------------------------------------------
(* Items and their jobs *)

\* Whoever acts on an item acts on a row: its jobs and the reaper know of none
\* that has not been committed.
KnownInv ==
  \A i \in Item :
    firstJob[i] # "absent" \/ retryJob[i] # "absent" \/ i \in reaping
      => status[i] # "none"

\* The second attempt is the first one the reaper starts.
RetryInv == \A i \in Item : attempts[i] >= 2 => retryJob[i] # "absent"

\* What a tick is about to commit is new, and the releases are part of it.
FreshInv ==
  \A t \in Tick : releases[t] \subseteq batch[t] /\ \A i \in batch[t] : status[i] = "none"

ItemInv == LeaseIffProcessing /\ TriedBeforeFailed /\ KnownInv /\ RetryInv

LEMMA ItemInit == Init => ItemInv
BY Constants DEF Init, ItemInv, LeaseIffProcessing, TriedBeforeFailed, KnownInv, RetryInv

LEMMA ItemStep ==
  ASSUME ShapeInv, FreshInv, ItemInv, [Next]_vars
  PROVE  ItemInv'
<1> USE DEF ItemInv, LeaseIffProcessing, TriedBeforeFailed, KnownInv, RetryInv,
            committed, itemVars, jobVars, tickVars
<1>1. ASSUME NEW t \in Tick, TickCommits(t) PROVE ItemInv'
  <2>1. ClaimedItems(t) \subseteq batch[t] /\ batch[t] \subseteq Item
    BY DEF ClaimedItems, FreshInv, ShapeInv, TypeOK
  <2>2. \A i \in Item : firstJob'[i] # firstJob[i] => i \in batch[t]
    BY <1>1, <2>1 DEF TickCommits, Submitted, ShapeInv, TypeOK
  <2> QED
    BY <1>1, <2>1, <2>2 DEF TickCommits, FreshInv, ShapeInv, TypeOK
<1>2. ASSUME NEW t \in Tick, TickSteps(t), ~TickCommits(t) PROVE ItemInv'
  BY <1>2 DEF TickSteps, TickStarts, OpenRun, NewReleases, NoNewReleases, BrowsePage,
              EmptyPage, BrowseEnds, SourceFails, TickAborts
<1>3. ASSUME NEW i \in Item, Sync(i) PROVE ItemInv'
  BY <1>3 DEF Sync, MarkDone, ShapeInv, TypeOK, JobPhases
<1>4. ASSUME NEW i \in Item, SyncGivenUp(i) PROVE ItemInv'
  BY <1>4 DEF SyncGivenUp, ShapeInv, TypeOK, JobPhases
<1>5. ASSUME NEW i \in Item, LeaseExpires(i) PROVE ItemInv'
  BY <1>5 DEF LeaseExpires, ShapeInv, TypeOK
<1>6. CASE Backfill
  <2>1. PICK S \in SUBSET Item :
          /\ \A i \in S : status[i] = "none"
          /\ status' = [i \in Item |-> IF i \in S THEN "processing" ELSE status[i]]
          /\ attempts' = [i \in Item |-> IF i \in S THEN 1 ELSE attempts[i]]
          /\ lease' = [i \in Item |-> IF i \in S THEN "live" ELSE lease[i]]
          /\ firstJob' = Submitted(firstJob, S)
          /\ UNCHANGED <<retryJob, reaping>>
    BY <1>6 DEF Backfill
  <2>2. \A i \in Item : firstJob'[i] # firstJob[i] => i \in S
    BY <2>1 DEF Submitted, ShapeInv, TypeOK
  <2> QED
    BY <2>1, <2>2 DEF ShapeInv, TypeOK
<1>7. CASE ReapReads \/ ReapAborts
  BY <1>7 DEF ReapReads, ReapAborts, Expired
<1>8. CASE ReapWrites
  <2> DEFINE revived == reaping \ Spent
  <2>1. \A i \in Item : retryJob'[i] = IF i \in revived /\ retryJob[i] = "absent"
                                       THEN "pending" ELSE retryJob[i]
    BY <1>8 DEF ReapWrites, Submitted
  <2>2. \A i \in Item :
          /\ status'[i] = IF i \in Spent THEN "failed"
                          ELSE IF i \in revived THEN "processing" ELSE status[i]
          /\ attempts'[i] = IF i \in revived THEN attempts[i] + 1 ELSE attempts[i]
          /\ lease'[i] = IF i \in revived THEN "live"
                         ELSE IF i \in Spent THEN "none" ELSE lease[i]
          /\ firstJob'[i] = firstJob[i]
    BY <1>8 DEF ReapWrites
  <2>3. reaping' = {}
    BY <1>8 DEF ReapWrites
  <2>4. \A i \in Item : i \in Spent => attempts[i] >= 2
    BY Constants DEF Spent, ShapeInv, TypeOK
  <2> HIDE DEF revived
  <2>5. LeaseIffProcessing'
    BY <2>2 DEF revived, Spent
  <2>6. RetryInv'
    BY <2>1, <2>2
  <2>7. TriedBeforeFailed'
    BY <2>1, <2>2, <2>4
  <2>8. KnownInv'
    BY <2>1, <2>2, <2>3 DEF revived, Spent
  <2> QED
    BY <2>5, <2>6, <2>7, <2>8
<1>9. CASE Midnight \/ UNCHANGED vars
  BY <1>9 DEF Midnight, vars
<1> QED
  BY <1>1, <1>2, <1>3, <1>4, <1>5, <1>6, <1>7, <1>8, <1>9 DEF Next

----------------------------------------------------------------------------
(* What a tick has open *)

\* One tick at most is past its open_run, and only that one has claims.
HolderInv ==
  /\ \A t, u \in Tick : Holds(t) /\ Holds(u) => t = u
  /\ \A t \in Tick : ~Holds(t) => batch[t] = {}

OpenInv == FreshInv /\ HolderInv /\ RunWithinBudget

LEMMA OpenInit == Init => OpenInv
BY Constants, FS_EmptySet
DEF Init, OpenInv, FreshInv, HolderInv, RunWithinBudget, Holds

\* Claims are new, and cost as much of the budget as they are.
LEMMA ClaimsFit ==
  ASSUME ShapeInv, RunWithinBudget, NEW t \in Tick, Holds(t), NEW listing,
         NEW C \in Claims(t, listing)
  PROVE  /\ C \in SUBSET Item
         /\ \A i \in C : status[i] = "none"
         /\ Cardinality(batch[t] \cup C) <= Budget
         /\ room[t] - Cardinality(C) = Budget - Cardinality(batch[t] \cup C)
<1>1. /\ C \in SUBSET Item /\ \A i \in C : status[i] = "none" /\ i \notin batch[t]
      /\ batch[t] \in SUBSET Item
  BY DEF Claims, Fresh, ShapeInv, TypeOK
<1>2. /\ IsFiniteSet(batch[t]) /\ IsFiniteSet(C)
      /\ Cardinality(batch[t]) \in Nat /\ Cardinality(C) \in Nat
  BY <1>1, ItemsFinite, ItemSizes
<1>3. Cardinality(batch[t] \cup C) = Cardinality(batch[t]) + Cardinality(C)
  <2>1. batch[t] \cap C = {}
    BY <1>1
  <2>2. Cardinality(batch[t] \cap C) = 0
    BY <2>1, FS_EmptySet
  <2>3. Cardinality(batch[t] \cup C) =
          Cardinality(batch[t]) + Cardinality(C) - Cardinality(batch[t] \cap C)
    BY <1>2, FS_Union
  <2> QED
    BY <1>2, <2>2, <2>3
<1>4. room[t] - Cardinality(C) \in 0..Budget
  BY ClaimsTyped DEF ShapeInv
<1>5. room[t] = Budget - Cardinality(batch[t]) /\ room[t] \in 0..Budget
  BY DEF RunWithinBudget, ShapeInv, TypeOK
<1> QED
  BY <1>1, <1>2, <1>3, <1>4, <1>5, Constants

\* A step that leaves the open claims and the statuses alone.
LEMMA OpenKept ==
  ASSUME ShapeInv, OpenInv, UNCHANGED <<pc, batch, room, releases>>,
         \A t \in Tick : \A i \in batch[t] : status'[i] = "none"
  PROVE  OpenInv'
BY DEF OpenInv, FreshInv, HolderInv, RunWithinBudget, Holds

LEMMA OpenTick ==
  ASSUME ShapeInv, OpenInv, NEW t \in Tick, TickSteps(t)
  PROVE  OpenInv'
<1> USE DEF OpenInv, committed, itemVars, jobVars
<1>0. /\ pc \in [Tick -> Stages]
      /\ batch \in [Tick -> SUBSET Item] /\ releases \in [Tick -> SUBSET Item]
      /\ room \in [Tick -> 0..Budget]
  BY DEF ShapeInv, TypeOK
<1>1. CASE TickStarts(t)
  BY <1>0, <1>1 DEF TickStarts, FreshInv, HolderInv, RunWithinBudget, Holds
<1>2. CASE OpenRun(t)
  <2>1. batch[t] = {} /\ Cardinality({}) = 0
    BY <1>2, FS_EmptySet DEF OpenRun, HolderInv
  <2>2. ASSUME NEW u \in Tick
        PROVE  /\ Cardinality(batch'[u]) <= Budget
               /\ Holds(u)' => room'[u] = Budget - Cardinality(batch'[u])
    <3>1. batch'[u] = batch[u] /\ Cardinality(batch[u]) <= Budget
      BY <1>2 DEF OpenRun, RunWithinBudget
    <3>2. CASE u = t
      BY <1>0, <1>2, <2>1, <3>1, <3>2, Constants DEF OpenRun
    <3>3. CASE u # t
      BY <1>0, <1>2, <3>1, <3>3 DEF OpenRun, RunWithinBudget, Holds
    <3> QED
      BY <3>2, <3>3
  <2>3. RunWithinBudget'
    BY <2>2 DEF RunWithinBudget
  <2> QED
    BY <1>0, <1>2, <2>3 DEF OpenRun, FreshInv, HolderInv, Holds
<1>3. CASE NewReleases(t)
  <2>1. PICK listing \in SUBSET Game : \E C \in Claims(t, listing) :
          /\ batch' = [batch EXCEPT ![t] = @ \cup C] /\ releases' = [releases EXCEPT ![t] = C]
          /\ room' = [room EXCEPT ![t] = @ - Cardinality(C)]
    BY <1>3 DEF NewReleases
  <2>2. PICK C \in Claims(t, listing) :
          /\ batch' = [batch EXCEPT ![t] = @ \cup C] /\ releases' = [releases EXCEPT ![t] = C]
          /\ room' = [room EXCEPT ![t] = @ - Cardinality(C)]
    BY <2>1
  <2>8. Holds(t)
    BY <1>0, <1>3 DEF NewReleases, Holds
  <2>3. /\ \A i \in C : status[i] = "none"
        /\ Cardinality(batch[t] \cup C) <= Budget
        /\ room[t] - Cardinality(C) = Budget - Cardinality(batch[t] \cup C)
    BY <2>2, <2>8, ClaimsFit
  <2>4. pc' = [pc EXCEPT ![t] = "browse"] /\ pc[t] = "releases" /\ UNCHANGED status
    BY <1>3 DEF NewReleases
  <2>5. FreshInv'
    BY <1>0, <2>2, <2>3, <2>4 DEF FreshInv
  <2>6. HolderInv'
    BY <1>0, <2>2, <2>4 DEF HolderInv, Holds
  <2>7. RunWithinBudget'
    BY <1>0, <2>2, <2>3, <2>4, <2>8 DEF RunWithinBudget, Holds
  <2> QED
    BY <2>5, <2>6, <2>7
<1>4. CASE BrowsePage(t)
  <2>1. PICK listing \in SUBSET Game : \E C \in Claims(t, listing) :
          /\ batch' = [batch EXCEPT ![t] = @ \cup C]
          /\ room' = [room EXCEPT ![t] = @ - Cardinality(C)]
    BY <1>4 DEF BrowsePage
  <2>2. PICK C \in Claims(t, listing) :
          /\ batch' = [batch EXCEPT ![t] = @ \cup C]
          /\ room' = [room EXCEPT ![t] = @ - Cardinality(C)]
    BY <2>1
  <2>8. Holds(t)
    BY <1>0, <1>4 DEF BrowsePage, Browsing, Holds
  <2>3. /\ \A i \in C : status[i] = "none"
        /\ Cardinality(batch[t] \cup C) <= Budget
        /\ room[t] - Cardinality(C) = Budget - Cardinality(batch[t] \cup C)
    BY <2>2, <2>8, ClaimsFit
  <2>4. /\ pc[t] = "browse" /\ pc'[t] \in {"closing", "browse"}
        /\ \A u \in Tick \ {t} : pc'[u] = pc[u]
        /\ UNCHANGED <<status, releases>>
    BY <1>0, <1>4 DEF BrowsePage, Browsing
  <2>5. FreshInv'
    BY <1>0, <2>2, <2>3, <2>4 DEF FreshInv
  <2>6. HolderInv'
    BY <1>0, <2>2, <2>4 DEF HolderInv, Holds
  <2>7. RunWithinBudget'
    BY <1>0, <2>2, <2>3, <2>4, <2>8 DEF RunWithinBudget, Holds
  <2> QED
    BY <2>5, <2>6, <2>7
<1>5. CASE NoNewReleases(t) \/ EmptyPage(t) \/ BrowseEnds(t) \/ SourceFails(t)
  <2>1. /\ Holds(t) /\ Holds(t)' /\ \A u \in Tick \ {t} : pc'[u] = pc[u]
        /\ UNCHANGED <<status, batch, room, releases>>
    BY <1>0, <1>5
    DEF NoNewReleases, EmptyPage, BrowseEnds, SourceFails, Browsing, Holds
  <2> QED
    BY <2>1 DEF FreshInv, HolderInv, RunWithinBudget, Holds
<1>6. CASE TickCommits(t)
  <2>1. /\ pc' = [pc EXCEPT ![t] = "idle"]
        /\ batch' = [batch EXCEPT ![t] = {}] /\ releases' = [releases EXCEPT ![t] = {}]
        /\ status' = [i \in Item |-> IF i \in batch[t] THEN "processing" ELSE status[i]]
        /\ Holds(t)
    BY <1>6 DEF TickCommits, EndTick, Holds
  <2>2. \A u \in Tick \ {t} : batch[u] = {}
    BY <2>1 DEF HolderInv
  <2>3. \A u \in Tick : batch'[u] = {} /\ releases'[u] = {}
    BY <1>0, <2>1, <2>2 DEF FreshInv
  <2>4. FreshInv'
    BY <2>3 DEF FreshInv
  <2>5. RunWithinBudget'
    <3>1. Cardinality({}) <= Budget
      BY FS_EmptySet, Constants
    <3>2. \A u \in Tick : ~Holds(u)'
      BY <1>0, <2>1 DEF HolderInv, Holds
    <3> QED
      BY <2>3, <3>1, <3>2 DEF RunWithinBudget
  <2>6. HolderInv'
    BY <1>0, <2>1, <2>3 DEF HolderInv, Holds
  <2> QED
    BY <2>4, <2>5, <2>6
<1>7. CASE TickAborts(t)
  <2>1. /\ pc' = [pc EXCEPT ![t] = "idle"]
        /\ batch' = [batch EXCEPT ![t] = {}] /\ releases' = [releases EXCEPT ![t] = {}]
        /\ UNCHANGED status
    BY <1>7 DEF TickAborts, EndTick
  <2>3. Cardinality({}) <= Budget
    BY FS_EmptySet, Constants
  <2>4. \A u \in Tick \ {t} : room'[u] = room[u]
    BY <1>0, <1>7 DEF TickAborts, EndTick
  <2>2. RunWithinBudget'
    BY <1>0, <2>1, <2>3, <2>4 DEF RunWithinBudget, Holds
  <2> QED
    BY <1>0, <2>1, <2>2 DEF FreshInv, HolderInv, Holds
<1> QED
  BY <1>1, <1>2, <1>3, <1>4, <1>5, <1>6, <1>7 DEF TickSteps

LEMMA OpenRest ==
  ASSUME ShapeInv, OpenInv, ItemInv,
         \/ \E i \in Item : Sync(i) \/ SyncGivenUp(i) \/ LeaseExpires(i)
         \/ Backfill \/ ReapReads \/ ReapWrites \/ ReapAborts \/ Midnight \/ UNCHANGED vars
  PROVE  OpenInv'
<1> USE DEF committed, itemVars, jobVars, tickVars
<1>0. \A t \in Tick : batch[t] \subseteq Item /\ \A i \in batch[t] : status[i] = "none"
  BY DEF OpenInv, FreshInv, ShapeInv, TypeOK
<1>1. UNCHANGED <<pc, batch, room, releases>>
  BY DEF Sync, MarkDone, SyncGivenUp, LeaseExpires, Backfill, ReapReads, ReapWrites,
         ReapAborts, Midnight, vars
<1>2. \A t \in Tick : \A i \in batch[t] : status'[i] = "none"
  <2>1. ASSUME NEW i \in Item, Sync(i)
        PROVE  \A k \in Item : status[k] = "none" => status'[k] = "none"
    BY <2>1 DEF Sync, MarkDone, ItemInv, KnownInv, ShapeInv, TypeOK
  <2>2. CASE ReapWrites
    <3>1. \A k \in Item : status[k] = "none" => k \notin reaping
      BY DEF ItemInv, KnownInv
    <3>2. \A k \in Item : status[k] = "none" => status'[k] = "none"
      BY <2>2, <3>1 DEF ReapWrites, Spent
    <3> QED
      BY <1>0, <3>2
  <2>3. CASE Backfill
    <3>1. PICK S \in SUBSET Item :
            /\ \A t \in Tick : S \cap batch[t] = {}
            /\ status' = [i \in Item |-> IF i \in S THEN "processing" ELSE status[i]]
      BY <2>3 DEF Backfill
    <3> QED
      BY <1>0, <3>1
  <2>4. ASSUME \/ \E i \in Item : SyncGivenUp(i) \/ LeaseExpires(i)
               \/ ReapReads \/ ReapAborts \/ Midnight \/ UNCHANGED vars
        PROVE  UNCHANGED status
    BY <2>4 DEF SyncGivenUp, LeaseExpires, ReapReads, ReapAborts, Midnight, vars
  <2> QED
    BY <1>0, <2>1, <2>2, <2>3, <2>4
<1> QED
  BY <1>1, <1>2, OpenKept

----------------------------------------------------------------------------
(* Pages and the cursor *)

\* Every page before the cursor has been fetched: before the day's, before the
\* one a tick has read, and, with its own pages, before the one it has set.
Fetched(page, S) == \A p \in Nat \ {0} : p < page => p \in S

PageInv ==
  /\ \A d \in Date : Fetched(day[d].page, fetched[d])
  /\ \A t \in Tick : pc[t] # "idle" =>
       Fetched(row[t].page, fetched[today[t]] \cup pages[t])

LEMMA PageInit == Init => PageInv
BY DEF Init, PageInv, NewDay, Fetched

\* The cursor that is committed is the tick's own or the one already there.
LEMMA MergedPage ==
  ASSUME ShapeInv, NEW t \in Tick, today[t] \in Date
  PROVE  Merged(t).page \in {row[t].page, day[today[t]].page}
<1> DEFINE new == [row[t] EXCEPT !.claimed = @ + Cardinality(ClaimedItems(t))]
<1>1. row[t] \in Day /\ loaded[t] \in Day /\ day[today[t]] \in Day
  BY DEF ShapeInv, TypeOK
<1>2. new.page = row[t].page
  BY <1>1 DEF Day
<1>3. "page" \in DOMAIN day[today[t]]
  BY <1>1 DEF Day
<1>4. Merged(t).page = IF new.page # loaded[t].page THEN new.page ELSE day[today[t]].page
  BY <1>3 DEF Merged
<1> HIDE DEF new
<1> QED
  BY <1>2, <1>4

\* Steps that fetch nothing and move no cursor.
LEMMA PageKept ==
  ASSUME ShapeInv, PageInv, UNCHANGED <<day, fetched>>,
         \A t \in Tick : pc'[t] # "idle" =>
           /\ pc[t] # "idle" /\ today'[t] = today[t] /\ pages'[t] = pages[t]
           /\ row'[t].page = row[t].page
  PROVE  PageInv'
BY DEF PageInv

LEMMA PageTick ==
  ASSUME ShapeInv, PageInv, NEW t \in Tick, TickSteps(t)
  PROVE  PageInv'
<1> USE DEF committed, itemVars, jobVars
<1>0. /\ pc \in [Tick -> Stages] /\ row \in [Tick -> Day] /\ day \in [Date -> Day]
      /\ pages \in [Tick -> SUBSET Nat] /\ today \in [Tick -> 0..LastDate]
      /\ fetched \in [Date -> SUBSET Nat]
  BY DEF ShapeInv, TypeOK
<1>1. CASE TickStarts(t)
  <2>1. date \in Date /\ day[date] \in Day
    BY <1>0, <1>1 DEF TickStarts
  <2>2. [day[date] EXCEPT !.created = TRUE].page = day[date].page
    BY <2>1, DayUpdates
  <2>3. /\ row'[t].page = day[date].page /\ today'[t] = date
        /\ \A u \in Tick \ {t} : /\ row'[u] = row[u] /\ today'[u] = today[u]
                                 /\ pc'[u] = pc[u]
        /\ UNCHANGED <<day, fetched, pages>>
    BY <1>0, <1>1, <2>2 DEF TickStarts
  <2> QED
    BY <2>1, <2>3 DEF PageInv, Fetched
<1>2. CASE OpenRun(t) \/ NoNewReleases(t) \/ BrowseEnds(t) \/ SourceFails(t)
  BY <1>0, <1>2, PageKept
  DEF OpenRun, NoNewReleases, BrowseEnds, SourceFails, Browsing
<1>3. CASE NewReleases(t) \/ EmptyPage(t)
  <2>1. \A u \in Tick : row'[u].page = row[u].page
    BY <1>0, <1>3 DEF NewReleases, EmptyPage, Day
  <2>2. /\ UNCHANGED <<day, fetched, today, pages>> /\ pc[t] # "idle"
        /\ \A u \in Tick \ {t} : pc'[u] = pc[u]
    BY <1>0, <1>3 DEF NewReleases, EmptyPage, Browsing
  <2> QED
    BY <2>1, <2>2, PageKept
<1>4. CASE BrowsePage(t)
  <2> DEFINE page == row[t].page
             following == page + 1
             last == page >= LastPage
             turned == [row[t] EXCEPT !.page = following, !.exhausted = last]
  <2>1. page \in Nat /\ following \in Nat /\ last \in BOOLEAN /\ row[t] \in Day
    BY <1>0 DEF Day
  <2>2. turned.page = following
    <3>1. row[t] \in Day
      BY <2>1
    <3> HIDE DEF last, following
    <3> QED
      BY <3>1, PageTurned, Zenon
  <2>3. row' = [row EXCEPT ![t] = turned]
    BY <1>4 DEF BrowsePage
  <2>4. /\ pages' = [pages EXCEPT ![t] = @ \cup {page}]
        /\ UNCHANGED <<day, fetched, today>>
        /\ pc[t] # "idle" /\ \A u \in Tick \ {t} : pc'[u] = pc[u]
    BY <1>0, <1>4 DEF BrowsePage, Browsing
  <2> HIDE DEF turned
  <2>5. row'[t].page = page + 1 /\ \A u \in Tick \ {t} : row'[u] = row[u]
    BY <1>0, <2>2, <2>3
  <2>6. Fetched(page + 1, fetched[today[t]] \cup pages'[t])
    BY <1>0, <2>1, <2>4 DEF PageInv, Fetched
  <2>7. \A u \in Tick \ {t} : pages'[u] = pages[u]
    BY <1>0, <2>4
  <2> QED
    BY <2>4, <2>5, <2>6, <2>7 DEF PageInv
<1>5. CASE TickCommits(t)
  <2>1. today[t] \in Date /\ pc[t] # "idle"
    BY <1>5 DEF TickCommits, ShapeInv, DatedInv
  <2> DEFINE d == today[t]
             merged == Merged(t)
  <2>2. merged.page \in {row[t].page, day[d].page}
    BY <2>1, MergedPage
  <2>3. day' = [day EXCEPT ![d] = merged] /\ fetched' = [fetched EXCEPT ![d] = @ \cup pages[t]]
    BY <1>5 DEF TickCommits
  <2> HIDE DEF merged
  <2>4. /\ fetched'[d] = fetched[d] \cup pages[t] /\ day'[d] = merged
        /\ \A e \in Date \ {d} : fetched'[e] = fetched[e] /\ day'[e] = day[e]
    BY <1>0, <2>1, <2>3
  <2>5. \A e \in Date : Fetched(day'[e].page, fetched'[e])
    BY <2>1, <2>2, <2>4 DEF PageInv, Fetched
  <2>6. /\ pc'[t] = "idle"
        /\ \A u \in Tick \ {t} : /\ pc'[u] = pc[u] /\ today'[u] = today[u]
                                 /\ row'[u] = row[u] /\ pages'[u] = pages[u]
    BY <1>0, <1>5 DEF TickCommits, EndTick
  <2>7. \A u \in Tick \ {t} : pc[u] # "idle" => today[u] \in Date
    BY DEF ShapeInv, DatedInv
  <2>8. \A u \in Tick \ {t} : pc[u] # "idle" =>
          Fetched(row[u].page, fetched'[today[u]] \cup pages[u])
    BY <2>4, <2>7 DEF PageInv, Fetched
  <2> QED
    BY <2>5, <2>6, <2>8 DEF PageInv
<1>6. CASE TickAborts(t)
  <2>1. /\ pc'[t] = "idle" /\ UNCHANGED <<day, fetched>>
        /\ \A u \in Tick \ {t} : /\ pc'[u] = pc[u] /\ today'[u] = today[u]
                                 /\ row'[u] = row[u] /\ pages'[u] = pages[u]
    BY <1>0, <1>6 DEF TickAborts, EndTick
  <2> QED
    BY <2>1, PageKept
<1> QED
  BY <1>1, <1>2, <1>3, <1>4, <1>5, <1>6 DEF TickSteps

LEMMA PageRest ==
  ASSUME ShapeInv, PageInv,
         \/ \E i \in Item : Sync(i) \/ SyncGivenUp(i) \/ LeaseExpires(i)
         \/ Backfill \/ ReapReads \/ ReapWrites \/ ReapAborts \/ Midnight \/ UNCHANGED vars
  PROVE  PageInv'
<1>1. UNCHANGED <<day, fetched, pc, today, row, pages>>
  BY DEF Sync, MarkDone, SyncGivenUp, LeaseExpires, Backfill, ReapReads, ReapWrites,
         ReapAborts, Midnight, vars, committed, tickVars
<1> QED
  BY <1>1, PageKept

----------------------------------------------------------------------------
(* The count of the claims *)

ClaimedOn(d) == {i \in Item : DateOf(i) = d /\ status[i] # "none"}

\* What a tick holds is of its date, and it has not counted it yet; what it has
\* read of the count is no more than what is claimed by now.
CountInv ==
  /\ \A d \in Date : day[d].claimed <= Cardinality(ClaimedOn(d))
  /\ \A t \in Tick : \A i \in batch[t] : DateOf(i) = today[t]
  /\ \A t \in Tick : pc[t] # "idle" =>
       /\ row[t].claimed = loaded[t].claimed
       /\ loaded[t].claimed <= Cardinality(ClaimedOn(today[t]))

LEMMA CountInit == Init => CountInv
<1> SUFFICES ASSUME Init PROVE \A d \in Date : 0 <= Cardinality(ClaimedOn(d))
  BY DEF Init, CountInv, NewDay
<1>1. \A d \in Date : ClaimedOn(d) \in SUBSET Item
  BY DEF ClaimedOn
<1> QED
  BY <1>1, ItemSizes

LEMMA ClaimedTyped == \A d : IsFiniteSet(ClaimedOn(d)) /\ Cardinality(ClaimedOn(d)) \in Nat
<1>1. \A d : ClaimedOn(d) \in SUBSET Item
  BY DEF ClaimedOn
<1> QED
  BY <1>1, ItemsFinite, ItemSizes

\* A row of crawl_items is never deleted.
LEMMA ClaimsStay ==
  ASSUME ShapeInv, [Next]_vars
  PROVE  \A d : Cardinality(ClaimedOn(d)) <= Cardinality(ClaimedOn(d)')
<1> USE DEF committed, itemVars, jobVars, tickVars
<1>1. ASSUME NEW t \in Tick, TickSteps(t), NEW i \in Item, status[i] # "none"
      PROVE  status'[i] # "none"
  BY <1>1 DEF TickSteps, TickStarts, OpenRun, NewReleases, NoNewReleases, BrowsePage,
              EmptyPage, BrowseEnds, SourceFails, TickCommits, TickAborts
<1>2. ASSUME NEW k \in Item, Sync(k) \/ SyncGivenUp(k) \/ LeaseExpires(k),
             NEW i \in Item, status[i] # "none"
      PROVE  status'[i] # "none"
  BY <1>2 DEF Sync, MarkDone, SyncGivenUp, LeaseExpires, ShapeInv, TypeOK
<1>3. ASSUME Backfill, NEW i \in Item, status[i] # "none" PROVE status'[i] # "none"
  BY <1>3 DEF Backfill
<1>4. ASSUME ReapWrites, NEW i \in Item, status[i] # "none" PROVE status'[i] # "none"
  BY <1>4 DEF ReapWrites
<1>5. ASSUME ReapReads \/ ReapAborts \/ Midnight \/ UNCHANGED vars
      PROVE  UNCHANGED status
  BY <1>5 DEF ReapReads, ReapAborts, Midnight, vars
<1>6. \A i \in Item : status[i] # "none" => status'[i] # "none"
  BY <1>1, <1>2, <1>3, <1>4, <1>5 DEF Next
<1> TAKE d
<1>7. ClaimedOn(d) \subseteq ClaimedOn(d)' /\ ClaimedOn(d)' \in SUBSET Item
  BY <1>6 DEF ClaimedOn
<1> QED
  BY <1>7, ItemsFinite, FS_Subset

\* What a tick commits as the count: its own, or the one already there.
LEMMA MergedClaims ==
  ASSUME ShapeInv, NEW t \in Tick, today[t] \in Date
  PROVE  Merged(t).claimed \in
           {row[t].claimed + Cardinality(ClaimedItems(t)), day[today[t]].claimed}
<1> DEFINE n == Cardinality(ClaimedItems(t))
           new == [row[t] EXCEPT !.claimed = @ + n]
<1>1. row[t] \in Day /\ loaded[t] \in Day /\ day[today[t]] \in Day
  BY DEF ShapeInv, TypeOK
<1>2. new.claimed = row[t].claimed + n
  <2> HIDE DEF n
  <2> QED
    BY <1>1 DEF Day
<1>3. "claimed" \in DOMAIN day[today[t]]
  BY <1>1 DEF Day
<1>4. Merged(t).claimed =
        IF new.claimed # loaded[t].claimed THEN new.claimed ELSE day[today[t]].claimed
  BY <1>3 DEF Merged
<1> HIDE DEF new, n
<1>5. Merged(t).claimed \in {row[t].claimed + n, day[today[t]].claimed}
  BY <1>2, <1>4
<1> QED
  BY <1>5 DEF n

\* Steps that count nothing.
LEMMA CountKept ==
  ASSUME ShapeInv, CountInv, [Next]_vars, UNCHANGED day,
         \A t \in Tick : \A i \in batch'[t] : DateOf(i) = today'[t],
         \A t \in Tick : pc'[t] # "idle" =>
           /\ pc[t] # "idle" /\ today'[t] = today[t] /\ loaded'[t] = loaded[t]
           /\ row'[t].claimed = row[t].claimed
  PROVE  CountInv'
<1>1. \A d : /\ Cardinality(ClaimedOn(d)) \in Nat /\ Cardinality(ClaimedOn(d)') \in Nat
             /\ Cardinality(ClaimedOn(d)) <= Cardinality(ClaimedOn(d)')
  <2>1. \A d : ClaimedOn(d)' \in SUBSET Item
    BY DEF ClaimedOn
  <2> QED
    BY <2>1, ClaimsStay, ClaimedTyped, ItemSizes
<1>2. ASSUME NEW d \in Date PROVE day'[d].claimed <= Cardinality(ClaimedOn(d)')
  <2>1. day[d].claimed \in Nat /\ day[d].claimed <= Cardinality(ClaimedOn(d))
    BY DEF CountInv, ShapeInv, TypeOK, Day
  <2> QED
    BY <1>1, <2>1
<1>3. ASSUME NEW t \in Tick, pc'[t] # "idle", NEW d, d = today'[t]
      PROVE  /\ row'[t].claimed = loaded'[t].claimed
             /\ loaded'[t].claimed <= Cardinality(ClaimedOn(d)')
  <2>1. /\ row[t].claimed = loaded[t].claimed /\ loaded[t].claimed \in Nat
        /\ loaded[t].claimed <= Cardinality(ClaimedOn(d))
    BY <1>3 DEF CountInv, ShapeInv, TypeOK, Day
  <2> QED
    BY <1>1, <1>3, <2>1
<1> QED
  BY <1>2, <1>3 DEF CountInv, ClaimedOn

LEMMA CountTick ==
  ASSUME ShapeInv, OpenInv, CountInv, NEW t \in Tick, TickSteps(t)
  PROVE  CountInv'
<1> USE DEF committed, itemVars, jobVars
<1>0. /\ pc \in [Tick -> Stages] /\ row \in [Tick -> Day] /\ day \in [Date -> Day]
      /\ loaded \in [Tick -> Day] /\ today \in [Tick -> 0..LastDate]
      /\ batch \in [Tick -> SUBSET Item]
      /\ \A u \in Tick : \A i \in batch[u] : DateOf(i) = today[u]
      /\ [Next]_vars
  BY DEF ShapeInv, TypeOK, CountInv, Next
<1>1. CASE TickStarts(t)
  <2>1. date \in Date /\ day[date] \in Day /\ batch[t] = {}
    BY <1>0, <1>1 DEF TickStarts, OpenInv, HolderInv, Holds
  <2>2. [day[date] EXCEPT !.created = TRUE].claimed = day[date].claimed
    BY <2>1 DEF Day
  <2>3. /\ row'[t].claimed = day[date].claimed /\ today'[t] = date /\ loaded'[t] = day[date]
        /\ \A u \in Tick \ {t} : /\ row'[u] = row[u] /\ today'[u] = today[u]
                                 /\ pc'[u] = pc[u] /\ loaded'[u] = loaded[u]
        /\ UNCHANGED <<day, status, batch>>
    BY <1>0, <1>1, <2>2 DEF TickStarts
  <2>4. \A d : ClaimedOn(d)' = ClaimedOn(d)
    BY <2>3 DEF ClaimedOn
  <2>5. \A d \in Date : day'[d].claimed <= Cardinality(ClaimedOn(d)')
    BY <2>3, <2>4 DEF CountInv
  <2>6. \A u \in Tick : \A i \in batch'[u] : DateOf(i) = today'[u]
    BY <1>0, <2>1, <2>3
  <2>7. ASSUME NEW u \in Tick, pc'[u] # "idle", NEW d, d = today'[u]
        PROVE  /\ row'[u].claimed = loaded'[u].claimed
               /\ loaded'[u].claimed <= Cardinality(ClaimedOn(d)')
    BY <2>1, <2>3, <2>4, <2>7 DEF CountInv
  <2> QED
    BY <2>5, <2>6, <2>7 DEF CountInv, ClaimedOn
<1>2. CASE OpenRun(t) \/ NoNewReleases(t) \/ BrowseEnds(t) \/ SourceFails(t)
  <2>1. /\ UNCHANGED <<day, today, loaded, row, batch>> /\ pc[t] # "idle"
        /\ \A u \in Tick \ {t} : pc'[u] = pc[u]
    BY <1>0, <1>2 DEF OpenRun, NoNewReleases, BrowseEnds, SourceFails, Browsing
  <2> QED
    BY <1>0, <2>1, CountKept
<1>3. CASE NewReleases(t)
  <2>1. PICK listing \in SUBSET Game : \E C \in Claims(t, listing) :
          batch' = [batch EXCEPT ![t] = @ \cup C]
    BY <1>3 DEF NewReleases
  <2>2. PICK C \in Claims(t, listing) : batch' = [batch EXCEPT ![t] = @ \cup C]
    BY <2>1
  <2>3. \A i \in C : DateOf(i) = today[t]
    BY <2>2 DEF Claims, Fresh
  <2>4. /\ UNCHANGED <<day, today, loaded>> /\ pc[t] # "idle"
        /\ \A u \in Tick \ {t} : pc'[u] = pc[u]
    BY <1>0, <1>3 DEF NewReleases
  <2>5. \A u \in Tick : row'[u].claimed = row[u].claimed
    BY <1>0, <1>3 DEF NewReleases, Day
  <2>6. \A u \in Tick : \A i \in batch'[u] : DateOf(i) = today'[u]
    BY <1>0, <2>2, <2>3, <2>4
  <2> QED
    BY <1>0, <2>4, <2>5, <2>6, CountKept
<1>4. CASE BrowsePage(t)
  <2>1. PICK listing \in SUBSET Game : \E C \in Claims(t, listing) :
          batch' = [batch EXCEPT ![t] = @ \cup C]
    BY <1>4 DEF BrowsePage
  <2>2. PICK C \in Claims(t, listing) : batch' = [batch EXCEPT ![t] = @ \cup C]
    BY <2>1
  <2>3. \A i \in C : DateOf(i) = today[t]
    BY <2>2 DEF Claims, Fresh
  <2>4. /\ UNCHANGED <<day, today, loaded>> /\ pc[t] # "idle"
        /\ \A u \in Tick \ {t} : pc'[u] = pc[u]
    BY <1>0, <1>4 DEF BrowsePage, Browsing
  <2>5. \A u \in Tick : row'[u].claimed = row[u].claimed
    BY <1>0, <1>4 DEF BrowsePage, Day
  <2>6. \A u \in Tick : \A i \in batch'[u] : DateOf(i) = today'[u]
    BY <1>0, <2>2, <2>3, <2>4
  <2> QED
    BY <1>0, <2>4, <2>5, <2>6, CountKept
<1>5. CASE EmptyPage(t)
  <2>1. \A u \in Tick : row'[u].claimed = row[u].claimed
    BY <1>0, <1>5 DEF EmptyPage, Day
  <2>2. /\ UNCHANGED <<day, today, loaded, batch>> /\ pc[t] # "idle"
        /\ \A u \in Tick \ {t} : pc'[u] = pc[u]
    BY <1>0, <1>5 DEF EmptyPage, Browsing
  <2> QED
    BY <1>0, <2>1, <2>2, CountKept
<1>6. CASE TickCommits(t)
  <2> DEFINE n == Cardinality(ClaimedItems(t))
  <2>1. today[t] \in Date /\ pc[t] # "idle"
    BY <1>6 DEF TickCommits, ShapeInv, DatedInv
  <2>2. PICK d \in Date : d = today[t]
    BY <2>1
  <2>3. /\ day'[d].claimed \in {row[t].claimed + n, day[d].claimed}
        /\ \A e \in Date \ {d} : day'[e] = day[e]
    BY <1>0, <1>6, <2>1, <2>2, MergedClaims DEF TickCommits
  <2>4. batch[t] \in SUBSET Item /\ ClaimedItems(t) \subseteq batch[t]
    BY <1>0 DEF ClaimedItems, OpenInv, FreshInv
  <2>5. n <= Cardinality(batch[t]) /\ n \in Nat /\ Cardinality(batch[t]) \in Nat
    BY <2>4, ItemsFinite, ItemSizes, FS_Subset
  \* The claims are of the tick's date, and none of them was there.
  <2>6. ClaimedOn(d)' = ClaimedOn(d) \cup batch[t] /\ ClaimedOn(d) \cap batch[t] = {}
    <3>1. \A i \in batch[t] : status[i] = "none" /\ DateOf(i) = d
      BY <1>0, <2>2 DEF OpenInv, FreshInv
    <3>2. \A i \in Item : status'[i] = IF i \in batch[t] THEN "processing" ELSE status[i]
      BY <1>6 DEF TickCommits
    <3> QED
      BY <2>4, <3>1, <3>2 DEF ClaimedOn
  <2>7. Cardinality(ClaimedOn(d)') = Cardinality(ClaimedOn(d)) + Cardinality(batch[t])
    <3>1. Cardinality(ClaimedOn(d) \cap batch[t]) = 0
      BY <2>6, FS_EmptySet
    <3>2. IsFiniteSet(ClaimedOn(d)) /\ IsFiniteSet(batch[t]) /\ Cardinality(ClaimedOn(d)) \in Nat
      BY <2>4, ItemsFinite, ClaimedTyped
    <3>3. Cardinality(ClaimedOn(d) \cup batch[t]) =
            Cardinality(ClaimedOn(d)) + Cardinality(batch[t])
              - Cardinality(ClaimedOn(d) \cap batch[t])
      BY <3>2, FS_Union
    <3> QED
      BY <2>5, <2>6, <3>1, <3>2, <3>3
  <2>8. /\ Cardinality(ClaimedOn(d)) \in Nat
        /\ row[t].claimed \in Nat /\ day[d].claimed \in Nat
        /\ row[t].claimed <= Cardinality(ClaimedOn(d))
        /\ day[d].claimed <= Cardinality(ClaimedOn(d))
    BY <1>0, <2>1, <2>2, ClaimedTyped DEF CountInv, Day
  <2> HIDE DEF n
  <2>9. day'[d].claimed <= Cardinality(ClaimedOn(d)')
    BY <2>3, <2>5, <2>7, <2>8
  <2>10. \A e : /\ Cardinality(ClaimedOn(e)) \in Nat /\ Cardinality(ClaimedOn(e)') \in Nat
                /\ Cardinality(ClaimedOn(e)) <= Cardinality(ClaimedOn(e)')
    <3>1. \A e : ClaimedOn(e)' \in SUBSET Item
      BY DEF ClaimedOn
    <3> QED
      BY <1>0, <3>1, ClaimsStay, ClaimedTyped, ItemSizes
  <2>11. ASSUME NEW e \in Date PROVE day'[e].claimed <= Cardinality(ClaimedOn(e)')
    <3>1. CASE e # d
      <4>1. day'[e] = day[e] /\ day[e].claimed \in Nat
            /\ day[e].claimed <= Cardinality(ClaimedOn(e))
        BY <1>0, <2>3, <3>1 DEF CountInv, Day
      <4> QED
        BY <2>10, <4>1
    <3> QED
      BY <2>9, <3>1
  <2>12. /\ pc'[t] = "idle" /\ batch'[t] = {}
         /\ \A u \in Tick \ {t} : /\ pc'[u] = pc[u] /\ today'[u] = today[u] /\ row'[u] = row[u]
                                  /\ loaded'[u] = loaded[u] /\ batch'[u] = batch[u]
    BY <1>0, <1>6 DEF TickCommits, EndTick
  <2>13. \A u \in Tick : \A i \in batch'[u] : DateOf(i) = today'[u]
    BY <1>0, <2>12
  <2>14. ASSUME NEW u \in Tick, pc'[u] # "idle", NEW e, e = today'[u]
         PROVE  /\ row'[u].claimed = loaded'[u].claimed
                /\ loaded'[u].claimed <= Cardinality(ClaimedOn(e)')
    <3>1. /\ row[u].claimed = loaded[u].claimed /\ loaded[u].claimed \in Nat
          /\ loaded[u].claimed <= Cardinality(ClaimedOn(e))
      BY <1>0, <2>12, <2>14 DEF CountInv, Day
    <3> QED
      BY <2>10, <2>12, <2>14, <3>1
  <2> QED
    BY <2>11, <2>13, <2>14 DEF CountInv, ClaimedOn
<1>7. CASE TickAborts(t)
  <2>1. /\ pc'[t] = "idle" /\ batch'[t] = {} /\ UNCHANGED day
        /\ \A u \in Tick \ {t} : /\ pc'[u] = pc[u] /\ today'[u] = today[u] /\ row'[u] = row[u]
                                 /\ loaded'[u] = loaded[u] /\ batch'[u] = batch[u]
    BY <1>0, <1>7 DEF TickAborts, EndTick
  <2>2. \A u \in Tick : \A i \in batch'[u] : DateOf(i) = today'[u]
    BY <1>0, <2>1
  <2> QED
    BY <1>0, <2>1, <2>2, CountKept
<1> QED
  BY <1>1, <1>2, <1>3, <1>4, <1>5, <1>6, <1>7 DEF TickSteps

LEMMA CountRest ==
  ASSUME ShapeInv, CountInv,
         \/ \E i \in Item : Sync(i) \/ SyncGivenUp(i) \/ LeaseExpires(i)
         \/ Backfill \/ ReapReads \/ ReapWrites \/ ReapAborts \/ Midnight \/ UNCHANGED vars
  PROVE  CountInv'
<1>1. UNCHANGED <<day, pc, today, loaded, row, batch>>
  BY DEF Sync, MarkDone, SyncGivenUp, LeaseExpires, Backfill, ReapReads, ReapWrites,
         ReapAborts, Midnight, vars, committed, tickVars
<1>2. [Next]_vars
  BY DEF Next
<1>3. \A t \in Tick : \A i \in batch'[t] : DateOf(i) = today'[t]
  BY <1>1 DEF CountInv
<1> QED
  BY <1>1, <1>2, <1>3, CountKept

----------------------------------------------------------------------------

Inv == ShapeInv /\ ItemInv /\ OpenInv /\ PageInv /\ CountInv

LEMMA InvCorrect == Spec => []Inv
<1>1. Init => Inv
  BY ShapeInit, ItemInit, OpenInit, PageInit, CountInit DEF Inv
<1>2. Inv /\ [Next]_vars => Inv'
  BY ShapeStep, ItemStep, OpenTick, OpenRest, PageTick, PageRest, CountTick, CountRest
  DEF Inv, OpenInv, Next
<1> QED
  BY <1>1, <1>2, PTL DEF Spec

\* An item is being processed exactly while it has a lease, for any number of
\* ticks, reaps and jobs.
THEOREM ItemsLeased == Spec => []LeaseIffProcessing
<1>1. Inv => LeaseIffProcessing
  BY DEF Inv, ItemInv
<1> QED
  BY <1>1, InvCorrect, PTL

\* No item is given up before its second job was enqueued.
THEOREM ItemsTried == Spec => []TriedBeforeFailed
<1>1. Inv => TriedBeforeFailed
  BY DEF Inv, ItemInv
<1> QED
  BY <1>1, InvCorrect, PTL

\* A run never claims more than its budget.
THEOREM BudgetKept == Spec => []RunWithinBudget
<1>1. Inv => RunWithinBudget
  BY DEF Inv, OpenInv
<1> QED
  BY <1>1, InvCorrect, PTL

\* A game is claimed once a day, whoever claims it.
THEOREM ClaimedOnce == Spec => []ClaimsDisjoint
<1>1. Inv => ClaimsDisjoint
  BY DEF Inv, OpenInv, FreshInv, HolderInv, ClaimsDisjoint
<1> QED
  BY <1>1, InvCorrect, PTL

\* The cursor of a day passes no page that was not fetched, with any number of
\* ticks that start from the same cursor, fail or are rolled back.
THEOREM PagesFetched == Spec => []NoPageSkipped
<1>1. Inv => NoPageSkipped
  BY Constants DEF Inv, PageInv, NoPageSkipped, Fetched
<1> QED
  BY <1>1, InvCorrect, PTL

\* The count of a day never claims more than there is, although two ticks may have
\* started from the same count and a failed browse phase leaves claims uncounted.
THEOREM ClaimsCounted == Spec => []CountedClaimsExist
<1>1. Inv => CountedClaimsExist
  BY DEF Inv, CountInv, CountedClaimsExist, ClaimedOn
<1> QED
  BY <1>1, InvCorrect, PTL
=============================================================================
