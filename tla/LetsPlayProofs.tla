--------------------------- MODULE LetsPlayProofs ---------------------------
(***************************************************************************)
(* Theorems about LetsPlay, for any games, videos, workers, units and      *)
(* limit.  Both rest on what a transaction has read before its outside     *)
(* call and still believes at its end: ReadInv.                            *)
(***************************************************************************)
EXTENDS LetsPlay, TLAPS

----------------------------------------------------------------------------
(* Types *)

LEMMA FirstTyped ==
  /\ \A g \in Game : First("discover", g) \in Job /\ First("summarise", g) \in Job
  /\ \A v \in Video : First("transcript", v) \in Job
BY BoundsAssumption DEF First, Job

LEMMA JobParts ==
  ASSUME NEW j \in Job
  PROVE  /\ j.kind \in {"discover", "summarise", "transcript"} /\ j.copy \in 0..MaxCopy
         /\ j.kind = "transcript" => j.subject \in Video
         /\ j.kind # "transcript" => j.subject \in Game
         /\ About(j) \in Game
BY GameOfAssumption DEF Job, About

LEMMA CopyTyped ==
  ASSUME NEW j \in Job, j.copy < MaxCopy
  PROVE  [j EXCEPT !.copy = @ + 1] \in Job
BY BoundsAssumption DEF Job

LEMMA SettledTyped ==
  ASSUME TypeOK, NEW j \in Job, NEW next
  PROVE  /\ Settled(j) \in [Job -> {"absent", "pending", "settled"}]
         /\ SettledWith(j, next) \in [Job -> {"absent", "pending", "settled"}]
BY DEF TypeOK, Settled, SettledWith

LEMMA EndsTyped ==
  ASSUME TypeOK, NEW w \in Worker, Ends(w)
  PROVE  /\ job' \in [Worker -> {None} \cup Job] /\ today' \in [Worker -> Day]
         /\ loaded' \in [Worker -> {NoRow} \cup Nat]
         /\ reread' \in [Worker -> {Unread, NoRow} \cup Nat]
         /\ video' \in [Worker -> {None} \cup Video]
         /\ found' \in [Worker -> {"none", "available", "unavailable"}]
<1>1. 1 \in Day
  BY BoundsAssumption DEF Day
<1> QED
  BY <1>1 DEF TypeOK, Ends

LEMMA SpentTyped ==
  ASSUME TypeOK, NEW w \in Worker, NEW reading \in {NoRow} \cup Nat, Spent(w, reading)
  PROVE  used' \in [Day -> {NoRow} \cup Nat]
<1> DEFINE n == Total(reading) + Units
<1>1. n \in Nat
  BY UnitsAssumption DEF Total, NoRow
<1>2. used' = [used EXCEPT ![today[w]] = n]
  BY DEF Spent
<1> HIDE DEF n
<1> QED
  BY <1>1, <1>2 DEF TypeOK

\* What the actions leave alone, grouped by what they write.
Quiet == UNCHANGED <<day, used, searched, selected, transcript, summary, current, txVars>>

LEMMA QuietTyped ==
  ASSUME TypeOK, Quiet, phase' \in [Job -> {"absent", "pending", "settled"}]
  PROVE  TypeOK'
BY DEF TypeOK, Quiet, txVars

\* Every variable keeps its type.
THEOREM TypeCorrect == Spec => []TypeOK
<1>1. Init => TypeOK
  BY BoundsAssumption DEF Init, TypeOK, Day
<1>2. TypeOK /\ [Next]_vars => TypeOK'
  <2> SUFFICES ASSUME TypeOK, [Next]_vars PROVE TypeOK'
    OBVIOUS
  <2> USE DEF rows, txVars
  <2>1. CASE NewDay
    <3>1. day' \in Day
      BY <2>1, BoundsAssumption DEF NewDay, TypeOK, Day
    <3>2. phase' \in [Job -> {"absent", "pending", "settled"}]
      BY <2>1 DEF NewDay, TypeOK
    <3>3. searched' \in [Game -> {"never", "recently", "longAgo"}]
      BY <2>1 DEF NewDay, TypeOK
    <3> QED
      BY <2>1, <3>1, <3>2, <3>3 DEF NewDay, TypeOK
  <2>2. ASSUME NEW g \in Game, Dispatch(g) \/ Purge(g) PROVE TypeOK'
    <3>1. Quiet /\ phase' \in [Job -> {"absent", "pending", "settled"}]
      BY <2>2 DEF Dispatch, Purge, Quiet, TypeOK
    <3> QED
      BY <3>1, QuietTyped
  <2>3. ASSUME NEW j \in Job, Copy(j) PROVE TypeOK'
    <3>1. Quiet /\ phase' \in [Job -> {"absent", "pending", "settled"}]
      BY <2>3, CopyTyped DEF Copy, Quiet, TypeOK
    <3> QED
      BY <3>1, QuietTyped
  <2>4. ASSUME NEW j \in Job, Skip(j) \/ Defer(j) \/ Cached(j) PROVE TypeOK'
    <3>1. Quiet /\ phase' \in [Job -> {"absent", "pending", "settled"}]
      BY <2>4, SettledTyped DEF Skip, Defer, Cached, Quiet
    <3> QED
      BY <3>1, QuietTyped
  <2>5. ASSUME NEW w \in Worker, NEW j \in Job, Search(w, j) PROVE TypeOK'
    BY <2>5 DEF Search, TypeOK
  <2>6. ASSUME NEW w \in Worker, NEW j \in Job, Fetch(w, j) PROVE TypeOK'
    <3>1. selected[About(j)] \in Video
      BY <2>6, JobParts DEF Fetch, TypeOK
    <3>2. transcript[selected[About(j)]] \in {"none", "available", "unavailable"}
      BY <3>1 DEF TypeOK
    <3> QED
      BY <2>6, <3>1, <3>2 DEF Fetch, TypeOK
  <2>7. ASSUME NEW w \in Worker, NEW j \in Job, Ask(w, j) PROVE TypeOK'
    <3>1. selected[j.subject] \in Video
      BY <2>7, JobParts DEF Ask, Ready, TypeOK
    <3> QED
      BY <2>7, <3>1 DEF Ask, TypeOK
  <2>8. ASSUME NEW w \in Worker, NEW v \in Video, Select(w, v) PROVE TypeOK'
    <3>1. job[w] \in Job
      BY <2>8 DEF Select, Searching, TypeOK
    <3>2. job[w].subject \in Game
      BY <2>8, GameOfAssumption DEF Select
    <3>3. loaded[w] \in {NoRow} \cup Nat /\ Spent(w, loaded[w])
      BY <2>8 DEF Select, TypeOK
    <3>4. used' \in [Day -> {NoRow} \cup Nat]
      BY <3>3, SpentTyped
    <3> QED
      BY <2>8, <3>1, <3>2, <3>4, SettledTyped, EndsTyped DEF Select, TypeOK
  <2>9. ASSUME NEW w \in Worker, SearchFailed(w) \/ FoundNothing(w) PROVE TypeOK'
    <3>1. job[w] \in Job
      BY <2>9 DEF SearchFailed, FoundNothing, Failing, Searching, TypeOK
    <3>2. searched' \in [Game -> {"never", "recently", "longAgo"}]
      BY <2>9 DEF SearchFailed, FoundNothing, TypeOK
    <3>3. Ends(w) /\ phase' = Settled(job[w])
      BY <2>9 DEF SearchFailed, FoundNothing
    <3>4. UNCHANGED <<day, selected, transcript, summary, current>>
      BY <2>9 DEF SearchFailed, FoundNothing
    <3>5. CASE SearchFailed(w)
      <4>1. reread[w] \in {NoRow} \cup Nat /\ Spent(w, reread[w])
        BY <3>5 DEF SearchFailed, Failing, TypeOK
      <4>2. used' \in [Day -> {NoRow} \cup Nat]
        BY <4>1, SpentTyped
      <4> QED
        BY <3>1, <3>2, <3>3, <3>4, <4>2, SettledTyped, EndsTyped DEF TypeOK
    <3>6. CASE FoundNothing(w)
      <4>1. loaded[w] \in {NoRow} \cup Nat /\ Spent(w, loaded[w])
        BY <3>6 DEF FoundNothing, TypeOK
      <4>2. used' \in [Day -> {NoRow} \cup Nat]
        BY <4>1, SpentTyped
      <4> QED
        BY <3>1, <3>2, <3>3, <3>4, <4>2, SettledTyped, EndsTyped DEF TypeOK
    <3> QED
      BY <2>9, <3>5, <3>6
  <2>10. ASSUME NEW w \in Worker, Fetched(w) \/ NotFetched(w) PROVE TypeOK'
    <3>1. job[w] \in Job
      BY <2>10 DEF Fetched, NotFetched, Fetching, TypeOK
    <3>2. transcript' \in [Video -> {"none", "available", "unavailable"}]
      BY <2>10 DEF Fetched, NotFetched, TypeOK
    <3>3. Ends(w) /\ UNCHANGED <<day, used, searched, selected, summary, current>>
      BY <2>10 DEF Fetched, NotFetched
    <3>4. phase' \in [Job -> {"absent", "pending", "settled"}]
      BY <2>10, <3>1, SettledTyped DEF Fetched, NotFetched
    <3> QED
      BY <3>2, <3>3, <3>4, EndsTyped DEF TypeOK
  <2>11. ASSUME NEW w \in Worker, SummariseFailed(w) PROVE TypeOK'
    <3>1. job[w] \in Job
      BY <2>11 DEF SummariseFailed, Asking, TypeOK
    <3>2. summary' \in [Video -> {"none", "failed", "fresh"}]
      BY <2>11 DEF SummariseFailed, TypeOK
    <3> QED
      BY <2>11, <3>1, <3>2, SettledTyped, EndsTyped DEF SummariseFailed, TypeOK
  <2>12. ASSUME NEW w \in Worker, Summarised(w) PROVE TypeOK'
    <3>1. job[w] \in Job
      BY <2>12 DEF Summarised, Asking, TypeOK
    <3>2. summary' \in [Video -> {"none", "failed", "fresh"}]
      BY <2>12 DEF Summarised, TypeOK
    <3>3. current' \in [Game -> {None} \cup Video]
      BY <2>12 DEF Summarised, TypeOK
    <3> QED
      BY <2>12, <3>1, <3>2, <3>3, SettledTyped, EndsTyped DEF Summarised, TypeOK
  <2>13. ASSUME NEW w \in Worker, Rollback(w) PROVE TypeOK'
    <3>1. job[w] \in Job
      BY <2>13 DEF Rollback, TypeOK
    <3>2. phase' \in [Job -> {"absent", "pending", "settled"}]
      BY <2>13, <3>1, SettledTyped DEF Rollback, TypeOK
    <3> QED
      BY <2>13, <3>2, EndsTyped DEF Rollback, TypeOK
  <2>14. ASSUME NEW w \in Worker, SearchFails(w) PROVE TypeOK'
    BY <2>14 DEF SearchFails, TypeOK
  <2>15. CASE UNCHANGED vars
    BY <2>15 DEF vars, TypeOK
  <2> QED
    BY <2>1, <2>2, <2>3, <2>4, <2>5, <2>6, <2>7, <2>8, <2>9, <2>10, <2>11, <2>12, <2>13,
       <2>14, <2>15 DEF Next
<1> QED
  BY <1>1, <1>2, PTL DEF Spec

----------------------------------------------------------------------------
(* What a transaction has read *)

\* A search still fits in the quota as its transaction read it; a fetch has
\* found no transcript of the video it fetches.
ReadInv ==
  \A w \in Worker :
    /\ Searching(w) => Total(loaded[w]) + Units <= Limit
    /\ Fetching(w) => found[w] # "available" /\ video[w] \in Video

\* A transaction goes on with what it has read, or ends, or has just begun.
LEMMA ReadSteps ==
  ASSUME TypeOK, [Next]_vars, NEW w \in Worker
  PROVE  \/ /\ job'[w] = job[w] /\ today'[w] = today[w] /\ loaded'[w] = loaded[w]
            /\ video'[w] = video[w] /\ found'[w] = found[w]
         \/ job'[w] = None
         \/ job[w] = None /\ \E j \in Job : Search(w, j) \/ Fetch(w, j) \/ Ask(w, j)
<1> USE DEF rows, txVars
<1>1. CASE NewDay \/ UNCHANGED vars
  BY <1>1 DEF NewDay, vars
<1>2. ASSUME NEW g \in Game, Dispatch(g) \/ Purge(g) PROVE UNCHANGED txVars
  BY <1>2 DEF Dispatch, Purge
<1>3. ASSUME NEW j \in Job, Copy(j) \/ Skip(j) \/ Defer(j) \/ Cached(j)
      PROVE  UNCHANGED txVars
  BY <1>3 DEF Copy, Skip, Defer, Cached
<1>4. ASSUME NEW x \in Worker, Ends(x)
      PROVE  \/ job'[w] = None
             \/ /\ job'[w] = job[w] /\ today'[w] = today[w] /\ loaded'[w] = loaded[w]
                /\ video'[w] = video[w] /\ found'[w] = found[w]
  BY <1>4 DEF Ends, TypeOK
<1>5. ASSUME NEW x \in Worker, NEW j \in Job, Search(x, j) \/ Fetch(x, j) \/ Ask(x, j)
      PROVE  \/ x = w
             \/ /\ job'[w] = job[w] /\ today'[w] = today[w] /\ loaded'[w] = loaded[w]
                /\ video'[w] = video[w] /\ found'[w] = found[w]
  BY <1>5 DEF Search, Fetch, Ask, TypeOK
<1>6. ASSUME NEW x \in Worker, NEW v \in Video, Select(x, v) PROVE Ends(x)
  BY <1>6 DEF Select
<1>7. ASSUME NEW x \in Worker,
             \/ SearchFailed(x) \/ FoundNothing(x) \/ Fetched(x) \/ NotFetched(x)
             \/ SummariseFailed(x) \/ Summarised(x) \/ Rollback(x)
      PROVE  Ends(x)
  BY <1>7 DEF SearchFailed, FoundNothing, Fetched, NotFetched, SummariseFailed,
              Summarised, Rollback
<1>8. ASSUME NEW x \in Worker, SearchFails(x)
      PROVE  /\ job'[w] = job[w] /\ today'[w] = today[w] /\ loaded'[w] = loaded[w]
             /\ video'[w] = video[w] /\ found'[w] = found[w]
  BY <1>8 DEF SearchFails
<1>9. \A j \in Job : Search(w, j) \/ Fetch(w, j) \/ Ask(w, j) => job[w] = None
  BY DEF Search, Fetch, Ask
<1> QED
  BY <1>1, <1>2, <1>3, <1>4, <1>5, <1>6, <1>7, <1>8, <1>9 DEF Next

LEMMA ReadInvariant == Spec => []ReadInv
<1>1. Init => ReadInv
  BY DEF Init, ReadInv, Searching, Fetching
<1>2. TypeOK /\ ReadInv /\ [Next]_vars => ReadInv'
  <2> SUFFICES ASSUME TypeOK, ReadInv, [Next]_vars, NEW w \in Worker
               PROVE  /\ Searching(w)' => Total(loaded'[w]) + Units <= Limit
                      /\ Fetching(w)' => found'[w] # "available" /\ video'[w] \in Video
    BY DEF ReadInv
  <2>1. CASE /\ job'[w] = job[w] /\ today'[w] = today[w] /\ loaded'[w] = loaded[w]
             /\ video'[w] = video[w] /\ found'[w] = found[w]
    BY <2>1 DEF ReadInv, Searching, Fetching
  <2>2. CASE job'[w] = None
    BY <2>2 DEF Searching, Fetching
  <2>3. ASSUME NEW j \in Job, Search(w, j)
        PROVE  /\ Total(loaded'[w]) + Units <= Limit
               /\ ~Fetching(w)'
    <3>1. job'[w] = j /\ j.kind = "discover" /\ loaded'[w] = used[day]
      BY <2>3 DEF Search, Ready, TypeOK
    <3>2. Known(day) + Units <= Limit
      BY <2>3 DEF Search, Affordable
    <3>3. used[day] \in {NoRow} \cup Nat
      BY DEF TypeOK
    <3> QED
      BY <3>1, <3>2, <3>3, UnitsAssumption DEF Known, Total, Fetching, NoRow
  <2>4. ASSUME NEW j \in Job, Fetch(w, j)
        PROVE  ~Searching(w)' /\ found'[w] # "available" /\ video'[w] \in Video
    <3>1. job'[w] = j /\ j.kind = "transcript"
      BY <2>4 DEF Fetch, Ready, TypeOK
    <3>2. /\ selected[About(j)] \in Video
          /\ video'[w] = selected[About(j)]
          /\ found'[w] = transcript[selected[About(j)]]
          /\ transcript[selected[About(j)]] # "available"
      BY <2>4, JobParts DEF Fetch, TypeOK
    <3> QED
      BY <3>1, <3>2 DEF Searching
  <2>5. ASSUME NEW j \in Job, Ask(w, j) PROVE ~Searching(w)' /\ ~Fetching(w)'
    BY <2>5 DEF Ask, Ready, Searching, Fetching, TypeOK
  <2> QED
    BY <2>1, <2>2, <2>3, <2>4, <2>5, ReadSteps
<1> QED
  BY <1>1, <1>2, TypeCorrect, PTL DEF Spec

----------------------------------------------------------------------------
(* The quota and the transcripts *)

\* What is recorded of a day passes the limit only when a failed search adds
\* its units to those that others have recorded since it began.
THEOREM OverrunsExplained == Spec => OverrunOnlyByOverlap
<1> DEFINE Explained == \A d \in Day :
             (used'[d] # used[d] /\ used'[d] > Limit)
               => \E w \in Worker : Failing(w) /\ today[w] = d /\ reread[w] # loaded[w]
<1>1. TypeOK /\ ReadInv /\ [Next]_vars => [Explained]_vars
  <2> SUFFICES ASSUME TypeOK, ReadInv, [Next]_vars, NEW d \in Day,
                      used'[d] # used[d], used'[d] > Limit
               PROVE  \E w \in Worker :
                        Failing(w) /\ today[w] = d /\ reread[w] # loaded[w]
    OBVIOUS
  <2> USE DEF rows, txVars
  <2>1. ASSUME NEW w \in Worker, NEW reading, Spent(w, reading)
        PROVE  today[w] = d /\ used'[d] = Total(reading) + Units
    BY <2>1 DEF Spent, TypeOK
  <2>2. ASSUME NEW w \in Worker, Searching(w), Spent(w, loaded[w]) PROVE FALSE
    <3>1. Total(loaded[w]) + Units <= Limit
      BY <2>2 DEF ReadInv
    <3>2. used'[d] = Total(loaded[w]) + Units
      BY <2>1, <2>2
    <3>3. Total(loaded[w]) + Units \in Nat
      BY UnitsAssumption DEF TypeOK, Total, NoRow
    <3> QED
      BY <3>1, <3>2, <3>3, UnitsAssumption
  <2>3. ASSUME NEW w \in Worker, SearchFailed(w)
        PROVE  Failing(w) /\ today[w] = d /\ reread[w] # loaded[w]
    <3>1. Failing(w) /\ Searching(w) /\ Spent(w, reread[w])
      BY <2>3 DEF SearchFailed, Failing
    <3> QED
      BY <2>1, <2>2, <3>1
  <2>4. ASSUME NEW w \in Worker, FoundNothing(w) PROVE FALSE
    BY <2>2, <2>4 DEF FoundNothing
  <2>5. ASSUME NEW w \in Worker, NEW v \in Video, Select(w, v) PROVE FALSE
    BY <2>2, <2>5 DEF Select
  <2>6. CASE NewDay \/ UNCHANGED vars
    BY <2>6 DEF NewDay, vars
  <2>7. ASSUME NEW g \in Game, Dispatch(g) \/ Purge(g) PROVE FALSE
    BY <2>7 DEF Dispatch, Purge
  <2>8. ASSUME NEW j \in Job, Copy(j) \/ Skip(j) \/ Defer(j) \/ Cached(j) PROVE FALSE
    BY <2>8 DEF Copy, Skip, Defer, Cached
  <2>9. ASSUME NEW w \in Worker, NEW j \in Job, Search(w, j) \/ Fetch(w, j) \/ Ask(w, j)
        PROVE  FALSE
    BY <2>9 DEF Search, Fetch, Ask
  <2>10. ASSUME NEW w \in Worker,
                \/ SearchFails(w) \/ Fetched(w) \/ NotFetched(w) \/ SummariseFailed(w)
                \/ Summarised(w) \/ Rollback(w)
         PROVE  FALSE
    BY <2>10 DEF SearchFails, Fetched, NotFetched, SummariseFailed, Summarised, Rollback
  <2> QED
    BY <2>3, <2>4, <2>5, <2>6, <2>7, <2>8, <2>9, <2>10 DEF Next
<1> QED
  BY <1>1, TypeCorrect, ReadInvariant, PTL DEF Spec, OverrunOnlyByOverlap

\* A transcript that was fetched is lost only to a fetch of the same video that
\* began before there was a row for it.
THEOREM TranscriptsKept == Spec => LostOnlyToOverlap
<1> DEFINE Lost == \A v \in Video :
             (transcript[v] = "available" /\ transcript'[v] # "available")
               => \E w \in Worker : Fetching(w) /\ video[w] = v /\ found[w] = "none"
<1>1. TypeOK /\ ReadInv /\ [Next]_vars => [Lost]_vars
  <2> SUFFICES ASSUME TypeOK, ReadInv, [Next]_vars, NEW v \in Video,
                      transcript[v] = "available", transcript'[v] # "available"
               PROVE  \E w \in Worker : Fetching(w) /\ video[w] = v /\ found[w] = "none"
    OBVIOUS
  <2> USE DEF rows, txVars
  <2>1. ASSUME NEW w \in Worker, NotFetched(w)
        PROVE  Fetching(w) /\ video[w] = v /\ found[w] = "none"
    <3>1. Fetching(w) /\ found[w] # "unavailable" /\ video[w] = v
      BY <2>1 DEF NotFetched, TypeOK
    <3>2. found[w] # "available"
      BY <3>1 DEF ReadInv
    <3> QED
      BY <3>1, <3>2 DEF TypeOK
  <2>2. ASSUME NEW w \in Worker, Fetched(w) PROVE FALSE
    BY <2>2 DEF Fetched, TypeOK
  <2>3. CASE NewDay \/ UNCHANGED vars
    BY <2>3 DEF NewDay, vars
  <2>4. ASSUME NEW g \in Game, Dispatch(g) \/ Purge(g) PROVE FALSE
    BY <2>4 DEF Dispatch, Purge
  <2>5. ASSUME NEW j \in Job, Copy(j) \/ Skip(j) \/ Defer(j) \/ Cached(j) PROVE FALSE
    BY <2>5 DEF Copy, Skip, Defer, Cached
  <2>6. ASSUME NEW w \in Worker, NEW j \in Job, Search(w, j) \/ Fetch(w, j) \/ Ask(w, j)
        PROVE  FALSE
    BY <2>6 DEF Search, Fetch, Ask
  <2>7. ASSUME NEW w \in Worker, NEW u \in Video, Select(w, u) PROVE FALSE
    BY <2>7 DEF Select
  <2>8. ASSUME NEW w \in Worker,
               \/ SearchFails(w) \/ SearchFailed(w) \/ FoundNothing(w)
               \/ SummariseFailed(w) \/ Summarised(w) \/ Rollback(w)
        PROVE  FALSE
    BY <2>8 DEF SearchFails, SearchFailed, FoundNothing, SummariseFailed, Summarised,
                Rollback
  <2> QED
    BY <2>1, <2>2, <2>3, <2>4, <2>5, <2>6, <2>7, <2>8 DEF Next
<1> QED
  BY <1>1, TypeCorrect, ReadInvariant, PTL DEF Spec, LostOnlyToOverlap
=============================================================================
