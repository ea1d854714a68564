--------------------------- MODULE SummariesProofs ---------------------------
(***************************************************************************)
(* Theorems about Summaries, for any reviews, audiences, recipes, workers, *)
(* thresholds and ceilings.                                                *)
(*                                                                         *)
(* What keeps the rows right is a property of the set of rows alone        *)
(* (Sound), so it is stated of any set and proved to survive what a        *)
(* transaction may do to one: let time pass, add a skip record, demote one *)
(* row and add another, prune.  What the workers hold adds WorkersInv.     *)
(***************************************************************************)
EXTENDS Summaries, TLAPS, FiniteSetTheorems, FunctionTheorems

----------------------------------------------------------------------------
(* Constants and types *)

LEMMA Constants ==
  /\ User \in Audience /\ IsFiniteSet(Worker) /\ Worker # {}
  /\ Cardinality(Worker) \in Nat /\ MaxCalls \in Nat \ {0}
  /\ MaxStarts \in Nat /\ MaxChanges \in Nat
<1>1. Cardinality(Worker) \in Nat
  BY WorkerAssumption, FS_CardinalityType
<1> QED
  BY <1>1, UserAssumption, WorkerAssumption, SizesAssumption

LEMMA EmptyTyped == Empty \in [Audience -> Input] /\ \A c \in Corpus : Skip(c) \in Input
BY DEF Empty, Skip, Input, Corpus

LEMMA RowParts ==
  ASSUME NEW r \in Row
  PROVE  /\ r.audience \in Audience /\ r.input \in Input /\ r.input.reviews \in Corpus
         /\ r.version \in Nat /\ r.age \in Age /\ r.current \in BOOLEAN
         /\ r.status \in {"fresh", "rejected", "failed", "skipped"}
         /\ VersionOf(r) \in Version
BY DEF Row, Input, VersionOf, Version

\* What demotion and time change of a row, and what they leave.
LEMMA RowDemoted ==
  ASSUME NEW r \in Row
  PROVE  /\ [r EXCEPT !.current = FALSE] \in Row
         /\ ~[r EXCEPT !.current = FALSE].current
         /\ [r EXCEPT !.current = FALSE].audience = r.audience
         /\ [r EXCEPT !.current = FALSE].input = r.input
         /\ [r EXCEPT !.current = FALSE].version = r.version
         /\ [r EXCEPT !.current = FALSE].status = r.status
         /\ [r EXCEPT !.current = FALSE].age = r.age
BY DEF Row

LEMMA RowAged ==
  ASSUME NEW r \in Row, NEW n \in Age
  PROVE  /\ [r EXCEPT !.age = n] \in Row
         /\ [r EXCEPT !.age = n].audience = r.audience
         /\ [r EXCEPT !.age = n].input = r.input
         /\ [r EXCEPT !.age = n].version = r.version
         /\ [r EXCEPT !.age = n].status = r.status
         /\ [r EXCEPT !.age = n].current = r.current
         /\ [r EXCEPT !.age = n].age = n
BY DEF Row

LEMMA SavedRowTyped ==
  ASSUME TypeOK, NEW w \in Worker
  PROVE  /\ SavedRow(w) \in Row
         /\ SavedRow(w).audience = about[w] /\ SavedRow(w).input = input[w][about[w]]
         /\ SavedRow(w).status = verdict[w] /\ SavedRow(w).current = (verdict[w] = "fresh")
         /\ SavedRow(w).age = 0
         /\ SavedRow(w).version =
              IF previous[w] = {} THEN 1
              ELSE 1 + CHOOSE v \in Versions(previous[w]) : TRUE
         /\ Versions(previous[w]) \subseteq Nat
<1>1. Versions(previous[w]) \subseteq Nat
  BY DEF TypeOK, Version, Versions
<1>2. previous[w] # {} => (CHOOSE v \in Versions(previous[w]) : TRUE) \in Versions(previous[w])
  BY DEF Versions
<1> DEFINE n == IF previous[w] = {} THEN 1
                ELSE 1 + CHOOSE v \in Versions(previous[w]) : TRUE
<1>3. n \in Nat
  BY <1>1, <1>2
<1>4. /\ about[w] \in Audience /\ input[w][about[w]] \in Input
      /\ verdict[w] \in {"fresh", "rejected", "failed"}
  BY DEF TypeOK
<1>5. SavedRow(w) = [audience |-> about[w], input |-> input[w][about[w]], version |-> n,
                     age |-> 0, status |-> verdict[w], current |-> verdict[w] = "fresh"]
  BY DEF SavedRow
<1> HIDE DEF n
<1>6. SavedRow(w) \in Row
  BY <1>3, <1>4, <1>5 DEF Row, Age, Quarter
<1> QED
  BY <1>1, <1>5, <1>6 DEF n

LEMMA IdleTyped ==
  ASSUME TypeOK, NEW w \in Worker, Idle(w)
  PROVE  /\ stage' \in [Worker -> Stages] /\ about' \in [Worker -> Audience]
         /\ input' \in [Worker -> [Audience -> Input]]
         /\ built' \in [Worker -> SUBSET Audience]
         /\ verdict' \in [Worker -> {"fresh", "rejected", "failed"}]
         /\ previous' \in [Worker -> SUBSET Version]
BY Constants, EmptyTyped DEF Idle, TypeOK, Stages

LEMMA KeptTyped ==
  ASSUME TypeOK, NEW w \in Worker, Kept(w)
  PROVE  snapshots' \in [Audience -> SUBSET Corpus]
BY DEF Kept, TypeOK, Input

LEMMA StoredTyped ==
  ASSUME TypeOK, NEW S, Stored(S)
  PROVE  snapshots' \in [Audience -> SUBSET Corpus]
BY DEF Stored, TypeOK

LEMMA InputOfTyped == TypeOK => \A a \in Audience : InputOf(a) \in Input
BY DEF TypeOK, InputOf, Input

LEMMA WrittenTyped ==
  ASSUME TypeOK, NEW w \in Worker
  PROVE  Written(w) \subseteq Row
<1>1. Previous(w) \subseteq Row
  BY DEF Previous, Of, TypeOK
<1>2. Demoted(w) \subseteq Row
  BY <1>1, RowDemoted DEF Demoted
<1> QED
  BY <1>1, <1>2, SavedRowTyped DEF Written, TypeOK

LEMMA PrunedParts ==
  ASSUME NEW S, NEW a, NEW T \in Pruned(S, a)
  PROVE  T \subseteq S /\ \A r \in S : r.current \/ r.audience # a => r \in T
BY DEF Pruned

LEMMA CitedTyped ==
  ASSUME TypeOK, NEW a \in Audience, NEW i \in Input, Cited(<<a, i>>)
  PROVE  /\ aged' \in [Audience -> SUBSET Corpus] /\ purging' \in [Audience -> SUBSET Corpus]
         /\ uncited' \subseteq Audience \X Input /\ overtook' \subseteq Audience \X Input
<1>1. <<a, i>> \in Audience \X Input
  OBVIOUS
<1> QED
  BY <1>1 DEF Cited, TypeOK

\* Older(span, r) is r after span has passed.
Older(span, r) == [r EXCEPT !.age = IF @ < span THEN span ELSE @]

LEMMA OlderParts ==
  ASSUME NEW r \in Row, NEW span \in {Hour, Day, Quarter}
  PROVE  /\ Older(span, r) \in Row
         /\ Older(span, r).audience = r.audience /\ Older(span, r).input = r.input
         /\ Older(span, r).version = r.version /\ Older(span, r).status = r.status
         /\ Older(span, r).current = r.current
         /\ Older(span, r).age >= span
<1> DEFINE n == IF r.age < span THEN span ELSE r.age
<1>1. n \in Age /\ n >= span
  BY RowParts DEF Age, Hour, Day, Quarter
<1>2. Older(span, r) = [r EXCEPT !.age = n]
  BY DEF Older
<1> HIDE DEF n
<1> QED
  BY <1>1, <1>2, RowAged

\* Every variable keeps its type.
THEOREM TypeCorrect == Spec => []TypeOK
<1>1. Init => TypeOK
  <2> SUFFICES ASSUME Init PROVE TypeOK
    OBVIOUS
  <2>1. {} \in Corpus /\ 0 \in 0..MaxStarts /\ 0 \in 0..MaxChanges
    BY Constants DEF Corpus
  <2>2. /\ corpus \in [Audience -> Corpus] /\ recipe \in Recipe
        /\ snapshots \in [Audience -> SUBSET Corpus] /\ aged \in [Audience -> SUBSET Corpus]
        /\ rows \subseteq Row /\ gaps \subseteq Gap /\ gapJobs \in Nat
        /\ starts \in 0..MaxStarts /\ changes \in 0..MaxChanges
        /\ purging \in [Audience -> SUBSET Corpus]
        /\ uncited \subseteq Audience \X Input /\ overtook \subseteq Audience \X Input
    BY <2>1 DEF Init
  <2>3. noneKey \in BOOLEAN
    BY DEF Init
  <2>4. /\ stage \in [Worker -> Stages] /\ about \in [Worker -> Audience]
        /\ built \in [Worker -> SUBSET Audience]
        /\ verdict \in [Worker -> {"fresh", "rejected", "failed"}]
        /\ previous \in [Worker -> SUBSET Version]
    BY Constants DEF Init, Stages
  <2>5. input \in [Worker -> [Audience -> Input]]
    BY EmptyTyped DEF Init
  <2> QED
    BY <2>2, <2>3, <2>4, <2>5 DEF TypeOK
<1>2. TypeOK /\ [Next]_vars => TypeOK'
  <2> SUFFICES ASSUME TypeOK, [Next]_vars PROVE TypeOK'
    OBVIOUS
  <2> USE DEF world, tables, gapVars, purgeVars, txVars, Change
  <2>1. CASE Deploy
    BY <2>1, Constants DEF Deploy, TypeOK
  <2>2. ASSUME NEW a \in Audience, ReviewsChange(a) PROVE TypeOK'
    <3>1. PICK c \in Corpus : corpus' = [corpus EXCEPT ![a] = c]
      BY <2>2 DEF ReviewsChange
    <3>2. corpus' \in [Audience -> Corpus]
      BY <3>1 DEF TypeOK
    <3>3. changes' \in 0..MaxChanges
      BY <2>2, Constants DEF ReviewsChange, TypeOK
    <3> QED
      BY <2>2, <3>2, <3>3 DEF ReviewsChange, TypeOK
  <2>3. ASSUME NEW span \in {Hour, Day, Quarter}, TimePasses(span) PROVE TypeOK'
    <3>1. rows' = {Older(span, r) : r \in rows}
      BY <2>3 DEF TimePasses, Older
    <3>2. rows' \subseteq Row
      BY <3>1, OlderParts DEF TypeOK
    <3>3. aged' \in [Audience -> SUBSET Corpus]
      BY <2>3 DEF TimePasses, TypeOK
    <3> QED
      BY <2>3, <3>2, <3>3, Constants DEF TimePasses, TypeOK
  <2>4. ASSUME NEW a \in Audience, SkipTooFew(a) PROVE TypeOK'
    <3>1. SkipRecord(a) \subseteq Row
      <4>1. Skip(corpus[a]) \in Input
        BY EmptyTyped DEF TypeOK
      <4> DEFINE record == [audience |-> a, input |-> Skip(corpus[a]), version |-> 1,
                            age |-> 0, status |-> "skipped", current |-> FALSE]
      <4>2. record \in Row
        BY <4>1 DEF Row, Age, Quarter
      <4>3. SkipRecord(a) \subseteq {record}
        BY DEF SkipRecord
      <4> QED
        BY <4>2, <4>3
    <3>2. Skip(corpus[a]) \in Input
      BY EmptyTyped DEF TypeOK
    <3>3. /\ aged' \in [Audience -> SUBSET Corpus] /\ purging' \in [Audience -> SUBSET Corpus]
          /\ uncited' \subseteq Audience \X Input /\ overtook' \subseteq Audience \X Input
      BY <2>4, <3>2, CitedTyped DEF SkipTooFew, TypeOK
    <3> QED
      BY <2>4, <3>1, <3>3, StoredTyped DEF SkipTooFew, TypeOK
  <2>5. ASSUME NEW a \in Audience, Settle(a) PROVE TypeOK'
    <3>1. gapJobs' \in Nat
      BY <2>5 DEF Settle, TypeOK
    <3>2. noneKey' \in BOOLEAN
      BY <2>5 DEF Settle, TypeOK
    <3>3. snapshots' \in [Audience -> SUBSET Corpus]
      BY <2>5, StoredTyped DEF Settle
    <3>4. UNCHANGED <<world, purgeVars, rows, gaps, txVars, starts>>
      BY <2>5 DEF Settle
    <3> QED
      BY <3>1, <3>2, <3>3, <3>4 DEF TypeOK
  <2>6. ASSUME NEW w \in Worker, NEW a \in Audience, Ask(w, a) PROVE TypeOK'
    <3>1. input' \in [Worker -> [Audience -> Input]]
      BY <2>6, InputOfTyped DEF Ask, TypeOK
    <3>2. starts' \in 0..MaxStarts
      BY <2>6, Constants DEF Ask, TypeOK
    <3> QED
      BY <2>6, <3>1, <3>2 DEF Ask, TypeOK, Stages
  <2>7. ASSUME NEW w \in Worker, Unavailable(w) PROVE TypeOK'
    BY <2>7, IdleTyped, KeptTyped DEF Unavailable, TypeOK
  <2>8. ASSUME NEW w \in Worker, NEW status \in {"fresh", "rejected", "failed"},
               Answer(w, status)
        PROVE  TypeOK'
    <3>1. {VersionOf(r) : r \in Current(about[w])} \subseteq Version
      BY RowParts DEF Current, Of, TypeOK
    <3> QED
      BY <2>8, <3>1 DEF Answer, TypeOK, Stages
  <2>9. ASSUME NEW w \in Worker, Commit(w) PROVE TypeOK'
    <3>1. rows' \subseteq Row
      BY <2>9, WrittenTyped, PrunedParts DEF Commit
    <3>2. gapJobs' \in Nat
      BY <2>9 DEF Commit, TypeOK
    <3>3. /\ aged' \in [Audience -> SUBSET Corpus] /\ purging' \in [Audience -> SUBSET Corpus]
          /\ uncited' \subseteq Audience \X Input /\ overtook' \subseteq Audience \X Input
      <4>1. about[w] \in Audience /\ input[w][about[w]] \in Input
        BY DEF TypeOK
      <4> QED
        BY <2>9, <4>1, CitedTyped DEF Commit
    <3>4. UNCHANGED <<world, gaps, noneKey, starts>> /\ Kept(w) /\ Idle(w)
      BY <2>9 DEF Commit
    <3> QED
      BY <3>1, <3>2, <3>3, <3>4, IdleTyped, KeptTyped DEF TypeOK
  <2>10. CASE LeaveGap
    BY <2>10, StoredTyped DEF LeaveGap, TypeOK
  <2>11. ASSUME NEW w \in Worker, Explain(w) PROVE TypeOK'
    <3>1. [a \in Audience |-> InputOf(a)] \in [Audience -> Input]
      BY InputOfTyped
    <3>2. starts' \in 0..MaxStarts /\ gapJobs' \in Nat
      BY <2>11, Constants DEF Explain, TypeOK
    <3> QED
      BY <2>11, <3>1, <3>2 DEF Explain, TypeOK, Stages
  <2>12. ASSUME NEW w \in Worker, NEW supported \in BOOLEAN, CommitGap(w, supported)
         PROVE  TypeOK'
    <3>1. GapCites(w) \in [Audience -> {None} \cup Corpus]
      BY DEF GapCites, TypeOK, Input
    <3>2. \A g \in gaps : [g EXCEPT !.current = FALSE] \in Gap
      <4> SUFFICES ASSUME NEW g \in gaps PROVE [g EXCEPT !.current = FALSE] \in Gap
        OBVIOUS
      <4>1. g \in Gap
        BY DEF TypeOK
      <4> QED
        BY <4>1 DEF Gap
    <3>3. [cites |-> GapCites(w), current |-> TRUE] \in Gap
      BY <3>1 DEF Gap
    <3>4. \/ gaps' = gaps
          \/ gaps' = {[g EXCEPT !.current = FALSE] : g \in gaps}
                        \cup {[cites |-> GapCites(w), current |-> TRUE]}
      BY <2>12 DEF CommitGap
    <3>5. {[g EXCEPT !.current = FALSE] : g \in gaps} \subseteq Gap
      BY <3>2
    <3>6. gaps \subseteq Gap
      BY DEF TypeOK
    <3>7. gaps' \subseteq Gap
      BY <3>3, <3>4, <3>5, <3>6
    <3> QED
      BY <2>12, <3>7, IdleTyped, KeptTyped DEF CommitGap, TypeOK
  <2>13. ASSUME NEW w \in Worker, Rollback(w) PROVE TypeOK'
    BY <2>13, IdleTyped DEF Rollback, TypeOK
  <2>14. CASE PurgeDeletes
    <3>1. gaps' \subseteq Gap
      <4> DEFINE without(g) == [a \in Audience |-> IF g.cites[a] \in purging[a] THEN None
                                                  ELSE g.cites[a]]
      <4>1. \A g \in gaps : without(g) \in [Audience -> {None} \cup Corpus]
        <5>1. \A g \in gaps : g.cites \in [Audience -> {None} \cup Corpus]
          BY DEF TypeOK, Gap
        <5> QED
          BY <5>1
      <4>2. \A g \in gaps : [g EXCEPT !.cites = without(g)] \in Gap
        <5> SUFFICES ASSUME NEW g \in gaps PROVE [g EXCEPT !.cites = without(g)] \in Gap
          OBVIOUS
        <5>1. g \in Gap /\ without(g) \in [Audience -> {None} \cup Corpus]
          BY <4>1 DEF TypeOK
        <5> HIDE DEF without
        <5> QED
          BY <5>1 DEF Gap
      <4> QED
        BY <2>14, <4>2 DEF PurgeDeletes
    <3>2. /\ snapshots' \in [Audience -> SUBSET Corpus] /\ aged' \in [Audience -> SUBSET Corpus]
          /\ purging' \in [Audience -> SUBSET Corpus]
      BY <2>14 DEF PurgeDeletes, TypeOK
    <3>3. uncited' \subseteq Audience \X Input
      <4>1. \A r \in rows : IdOf(r) \in Audience \X Input
        BY RowParts DEF IdOf, TypeOK
      <4> QED
        BY <2>14, <4>1 DEF PurgeDeletes, TypeOK
    <3> QED
      BY <2>14, <3>1, <3>2, <3>3 DEF PurgeDeletes, TypeOK
  <2>16. CASE PurgeReads \/ PurgeAborts
    <3>1. purging' \in [Audience -> SUBSET Corpus]
      BY <2>16 DEF PurgeReads, PurgeAborts, Purgeable, TypeOK
    <3> QED
      BY <2>16, <3>1 DEF PurgeReads, PurgeAborts, TypeOK
  <2>15. CASE UNCHANGED vars
    BY <2>15 DEF vars, TypeOK
  <2> QED
    BY <2>1, <2>2, <2>3, <2>4, <2>5, <2>6, <2>7, <2>8, <2>9, <2>10, <2>11, <2>12, <2>13,
       <2>14, <2>15, <2>16 DEF Next
<1> QED
  BY <1>1, <1>2, PTL DEF Spec

----------------------------------------------------------------------------
(* Sound sets of rows *)

Fresh(S, a) == {r \in S : r.audience = a /\ r.status = "fresh"}
CurrentIn(S, a) == {r \in S : r.audience = a /\ r.current}

\* Only fresh rows are current; the fresh rows of an audience have a version
\* each, the last of which is the current one's; where there is a fresh row
\* there is a current one.
Sound(S) ==
  /\ IsFiniteSet(S)
  /\ \A r \in S : r.current => r.status = "fresh"
  /\ \A a \in Audience : \A r, q \in Fresh(S, a) :
       /\ r.version = q.version => r = q
       /\ r.current => q.version <= r.version
  /\ \A a \in Audience : Fresh(S, a) # {} => CurrentIn(S, a) # {}

LEMMA OlderFinite ==
  ASSUME NEW S, IsFiniteSet(S), NEW span
  PROVE  IsFiniteSet({Older(span, r) : r \in S})
<1> DEFINE T == {Older(span, r) : r \in S}
           f == [r \in S |-> Older(span, r)]
<1>1. f \in Surjection(S, T)
  BY DEF Surjection
<1> HIDE DEF f, T
<1>2. IsFiniteSet(T)
  BY <1>1, FS_Surjection
<1> QED
  BY <1>2 DEF T

LEMMA SoundOlder ==
  ASSUME NEW S \in SUBSET Row, Sound(S), NEW span \in {Hour, Day, Quarter}
  PROVE  Sound({Older(span, r) : r \in S})
<1> DEFINE T == {Older(span, r) : r \in S}
<1>1. IsFiniteSet(T)
  BY OlderFinite DEF Sound
<1>2. \A t \in T : \E r \in S :
        /\ t = Older(span, r)
        /\ t.audience = r.audience /\ t.version = r.version /\ t.status = r.status
        /\ t.current = r.current
  BY OlderParts
<1>3. \A r \in S : /\ Older(span, r) \in T
                   /\ Older(span, r).audience = r.audience
                   /\ Older(span, r).status = r.status
                   /\ Older(span, r).current = r.current
  BY OlderParts
<1> HIDE DEF T
<1>4. \A t \in T : t.current => t.status = "fresh"
  BY <1>2 DEF Sound
<1>5. ASSUME NEW a \in Audience, NEW t \in Fresh(T, a), NEW u \in Fresh(T, a)
      PROVE  (t.version = u.version => t = u) /\ (t.current => u.version <= t.version)
  <2>1. PICK r \in S : /\ t = Older(span, r) /\ t.audience = r.audience
                       /\ t.version = r.version /\ t.status = r.status
                       /\ t.current = r.current
    BY <1>2, <1>5 DEF Fresh
  <2>2. PICK q \in S : /\ u = Older(span, q) /\ u.audience = q.audience
                       /\ u.version = q.version /\ u.status = q.status
    BY <1>2, <1>5 DEF Fresh
  <2>3. r \in Fresh(S, a) /\ q \in Fresh(S, a)
    BY <1>5, <2>1, <2>2 DEF Fresh
  <2>4. (r.version = q.version => r = q) /\ (r.current => q.version <= r.version)
    BY <2>3 DEF Sound
  <2> QED
    BY <2>1, <2>2, <2>4
<1>6. ASSUME NEW a \in Audience, Fresh(T, a) # {} PROVE CurrentIn(T, a) # {}
  <2>1. PICK t \in Fresh(T, a) : TRUE
    BY <1>6
  <2>2. Fresh(S, a) # {}
    BY <1>2, <2>1 DEF Fresh
  <2>3. PICK q \in CurrentIn(S, a) : TRUE
    BY <2>2 DEF Sound
  <2>4. Older(span, q) \in CurrentIn(T, a)
    BY <1>3, <2>3 DEF CurrentIn
  <2> QED
    BY <2>4
<1>7. Sound(T)
  BY <1>1, <1>4, <1>5, <1>6 DEF Sound
<1> QED
  BY <1>7 DEF T

\* A row that is not fresh changes nothing: skip records, rejections, failures.
LEMMA SoundOther ==
  ASSUME NEW S \in SUBSET Row, Sound(S), NEW r \in Row, r.status # "fresh", ~r.current
  PROVE  Sound(S \cup {r})
<1>1. IsFiniteSet(S \cup {r})
  BY FS_AddElement DEF Sound
<1>2. \A a : Fresh(S \cup {r}, a) = Fresh(S, a) /\ CurrentIn(S \cup {r}, a) = CurrentIn(S, a)
  BY DEF Fresh, CurrentIn
<1> QED
  BY <1>1, <1>2 DEF Sound

\* Neither does the loss of rows that are not current.
LEMMA SoundThinned ==
  ASSUME NEW S, Sound(S), NEW T \in SUBSET S, \A r \in S : r.current => r \in T
  PROVE  Sound(T)
<1>1. IsFiniteSet(T)
  BY FS_Subset DEF Sound
<1>2. \A a : Fresh(T, a) \subseteq Fresh(S, a) /\ CurrentIn(T, a) = CurrentIn(S, a)
  BY DEF Fresh, CurrentIn
<1> QED
  BY <1>1, <1>2 DEF Sound

\* The rows of P give way to a fresh one of the next version.
LEMMA SoundReplaced ==
  ASSUME NEW S \in SUBSET Row, Sound(S), NEW a \in Audience,
         NEW P \in SUBSET S, \A p \in P : p.audience = a, CurrentIn(S, a) \subseteq P,
         NEW new \in Row, new.audience = a, new.status = "fresh", new.current,
         \A r \in Fresh(S, a) : r.version < new.version
  PROVE  Sound((S \ P) \cup {[r EXCEPT !.current = FALSE] : r \in P} \cup {new})
<1> DEFINE D == {[r EXCEPT !.current = FALSE] : r \in P}
           T == (S \ P) \cup D \cup {new}
<1>1. IsFiniteSet(T)
  <2> DEFINE f == [r \in P |-> [r EXCEPT !.current = FALSE]]
  <2>1. f \in Surjection(P, D)
    BY DEF Surjection
  <2>2. IsFiniteSet(P) /\ IsFiniteSet(S \ P)
    BY FS_Subset DEF Sound
  <2>3. IsFiniteSet(D)
    BY <2>1, <2>2, FS_Surjection
  <2> HIDE DEF D
  <2>4. IsFiniteSet((S \ P) \cup D)
    BY <2>2, <2>3, FS_Union
  <2> QED
    BY <2>4, FS_AddElement
\* Every row of T but the new one was one of S, and is current only if it was
\* and was left alone.
<1>2. \A t \in T : \/ t = new
                   \/ t \in S \ P
                   \/ \E r \in P : /\ t = [r EXCEPT !.current = FALSE]
                                   /\ t.audience = r.audience /\ t.version = r.version
                                   /\ t.status = r.status /\ ~t.current
  BY RowDemoted
<1>3. S \ P \subseteq T /\ new \in T
  OBVIOUS
<1> HIDE DEF T, D
<1>4. \A t \in T : t.current => t.status = "fresh"
  BY <1>2 DEF Sound
<1>5. \A t \in T : t.current => t = new \/ t \in S \ P
  BY <1>2
<1>6. ASSUME NEW b \in Audience, NEW t \in Fresh(T, b), NEW u \in Fresh(T, b)
      PROVE  (t.version = u.version => t = u) /\ (t.current => u.version <= t.version)
  <2>1. ASSUME NEW x \in Fresh(T, b), x # new
        PROVE  \E r \in Fresh(S, b) :
                 /\ x.version = r.version
                 /\ r \in P \/ r.current = x.current
                 /\ x.current => r = x
                 /\ x = IF r \in P THEN [r EXCEPT !.current = FALSE] ELSE r
    <3>1. CASE x \in S \ P
      BY <2>1, <3>1 DEF Fresh
    <3>2. CASE \E r \in P : /\ x = [r EXCEPT !.current = FALSE]
                            /\ x.audience = r.audience /\ x.version = r.version
                            /\ x.status = r.status /\ ~x.current
      BY <2>1, <3>2 DEF Fresh
    <3> QED
      BY <1>2, <2>1, <3>1, <3>2 DEF Fresh
  <2>2. CASE t = new /\ u = new
    BY <2>2 DEF Row
  <2>3. CASE t = new /\ u # new
    <3>1. PICK r \in Fresh(S, b) : u.version = r.version
      BY <2>1, <2>3
    <3>2. b = a /\ r.version < new.version
      BY <2>3, <3>1 DEF Fresh
    <3> QED
      BY <2>3, <3>1, <3>2 DEF Fresh, Row
  <2>4. CASE t # new /\ u = new
    <3>1. PICK r \in Fresh(S, b) : t.version = r.version /\ (t.current => r = t)
      BY <2>1, <2>4
    <3>2. b = a /\ r.version < new.version
      BY <2>4, <3>1 DEF Fresh
    <3>3. ~t.current
      BY <1>5, <2>4, <3>1, <3>2 DEF CurrentIn, Fresh
    <3> QED
      BY <2>4, <3>1, <3>2, <3>3 DEF Fresh, Row
  <2>5. CASE t # new /\ u # new
    <3>1. PICK r \in Fresh(S, b) :
                 /\ t.version = r.version /\ (t.current => r = t)
                 /\ t = IF r \in P THEN [r EXCEPT !.current = FALSE] ELSE r
      BY <2>1, <2>5
    <3>2. PICK q \in Fresh(S, b) :
                 /\ u.version = q.version
                 /\ u = IF q \in P THEN [q EXCEPT !.current = FALSE] ELSE q
      BY <2>1, <2>5
    <3>3. (r.version = q.version => r = q) /\ (r.current => q.version <= r.version)
      BY DEF Sound
    <3> QED
      BY <3>1, <3>2, <3>3
  <2> QED
    BY <2>2, <2>3, <2>4, <2>5
<1>7. ASSUME NEW b \in Audience, Fresh(T, b) # {} PROVE CurrentIn(T, b) # {}
  <2>1. CASE b = a
    BY <1>3, <2>1 DEF CurrentIn
  <2>2. CASE b # a
    <3>1. \A x \in S : x.audience = b => x \notin P
      BY <2>2
    <3>2. PICK x \in Fresh(T, b) : TRUE
      BY <1>7
    <3>3. x \in S
      BY <1>2, <2>2, <3>2 DEF Fresh
    <3>4. PICK q \in CurrentIn(S, b) : TRUE
      BY <3>2, <3>3 DEF Sound, Fresh
    <3>5. q \in CurrentIn(T, b)
      BY <1>3, <3>1, <3>4 DEF CurrentIn
    <3> QED
      BY <3>5
  <2> QED
    BY <2>1, <2>2
<1>8. Sound(T)
  BY <1>1, <1>4, <1>6, <1>7 DEF Sound
<1> QED
  BY <1>8 DEF T, D

----------------------------------------------------------------------------
(* The rows, whatever the workers hold *)

LEMMA RowSteps ==
  ASSUME TypeOK, [Next]_vars
  PROVE  \/ rows' = rows
         \/ \E span \in {Hour, Day, Quarter} : rows' = {Older(span, r) : r \in rows}
         \/ \E a \in Audience : rows' = rows \cup SkipRecord(a)
         \/ \E w \in Worker : Commit(w)
<1> USE DEF tables, gapVars, vars
<1>1. CASE Deploy \/ LeaveGap \/ PurgeReads \/ PurgeDeletes \/ PurgeAborts
  BY <1>1 DEF Deploy, LeaveGap, PurgeReads, PurgeDeletes, PurgeAborts
<1>2. ASSUME NEW span \in {Hour, Day, Quarter}, TimePasses(span)
      PROVE  rows' = {Older(span, r) : r \in rows}
  BY <1>2 DEF TimePasses, Older
<1>3. ASSUME NEW a \in Audience, ReviewsChange(a) \/ SkipTooFew(a) \/ Settle(a)
      PROVE  rows' = rows \/ rows' = rows \cup SkipRecord(a)
  BY <1>3 DEF ReviewsChange, SkipTooFew, Settle
<1>4. ASSUME NEW w \in Worker, NEW a \in Audience, Ask(w, a) PROVE rows' = rows
  BY <1>4 DEF Ask
<1>5. ASSUME NEW w \in Worker, NEW status \in {"fresh", "rejected", "failed"},
             Answer(w, status)
      PROVE  rows' = rows
  BY <1>5 DEF Answer
<1>6. ASSUME NEW w \in Worker, NEW supported \in BOOLEAN, CommitGap(w, supported)
      PROVE  rows' = rows
  BY <1>6 DEF CommitGap
<1>7. ASSUME NEW w \in Worker, Unavailable(w) \/ Explain(w) \/ Rollback(w)
      PROVE  rows' = rows
  BY <1>7 DEF Unavailable, Explain, Rollback
<1> QED
  BY <1>1, <1>2, <1>3, <1>4, <1>5, <1>6, <1>7 DEF Next

\* A worker has read the current row only if it has just been answered.
LEMMA ReadSteps ==
  ASSUME TypeOK, [Next]_vars, NEW w \in Worker
  PROVE  \/ stage'[w] = stage[w] /\ about'[w] = about[w] /\ previous'[w] = previous[w]
         \/ stage'[w] # "saving"
         \/ /\ stage[w] = "asking" /\ about'[w] = about[w] /\ rows' = rows
            /\ previous'[w] = {VersionOf(r) : r \in Current(about[w])}
<1> USE DEF tables, txVars, vars
<1>1. CASE Deploy \/ LeaveGap \/ PurgeReads \/ PurgeDeletes \/ PurgeAborts
  BY <1>1 DEF Deploy, LeaveGap, PurgeReads, PurgeDeletes, PurgeAborts
<1>2. ASSUME NEW span \in {Hour, Day, Quarter}, TimePasses(span)
      PROVE  UNCHANGED txVars
  BY <1>2 DEF TimePasses
<1>3. ASSUME NEW a \in Audience, ReviewsChange(a) \/ SkipTooFew(a) \/ Settle(a)
      PROVE  UNCHANGED txVars
  BY <1>3 DEF ReviewsChange, SkipTooFew, Settle
<1>4. ASSUME NEW v \in Worker, NEW a \in Audience, Ask(v, a)
      PROVE  \/ stage'[w] # "saving"
             \/ v # w /\ stage'[w] = stage[w] /\ about'[w] = about[w]
                /\ previous'[w] = previous[w]
  <2>1. stage' = [stage EXCEPT ![v] = "asking"] /\ previous' = previous
        /\ about' = [about EXCEPT ![v] = a]
    BY <1>4 DEF Ask
  <2> QED
    BY <2>1 DEF TypeOK
<1>5. ASSUME NEW v \in Worker, NEW status \in {"fresh", "rejected", "failed"},
             Answer(v, status)
      PROVE  \/ /\ v = w /\ stage[w] = "asking" /\ about'[w] = about[w] /\ rows' = rows
                /\ previous'[w] = {VersionOf(r) : r \in Current(about[w])}
             \/ v # w /\ stage'[w] = stage[w] /\ about'[w] = about[w]
                /\ previous'[w] = previous[w]
  BY <1>5 DEF Answer, TypeOK
<1>6. ASSUME NEW v \in Worker, NEW supported \in BOOLEAN, CommitGap(v, supported)
      PROVE  Idle(v)
  BY <1>6 DEF CommitGap
<1>7. ASSUME NEW v \in Worker, Unavailable(v) \/ Commit(v) \/ Rollback(v) PROVE Idle(v)
  BY <1>7 DEF Unavailable, Commit, Rollback
<1>8. ASSUME NEW v \in Worker, Idle(v)
      PROVE  \/ stage'[w] # "saving"
             \/ v # w /\ stage'[w] = stage[w] /\ about'[w] = about[w]
                /\ previous'[w] = previous[w]
  BY <1>8 DEF Idle, TypeOK
<1>9. ASSUME NEW v \in Worker, Explain(v)
      PROVE  \/ stage'[w] # "saving"
             \/ v # w /\ stage'[w] = stage[w] /\ about'[w] = about[w]
                /\ previous'[w] = previous[w]
  BY <1>9 DEF Explain, TypeOK
<1> QED
  BY <1>1, <1>2, <1>3, <1>4, <1>5, <1>6, <1>7, <1>8, <1>9 DEF Next

\* A worker that is saving has read one row at most, and where it has read one
\* there still is a current row, though perhaps another.
Reading ==
  \A w \in Worker : stage[w] = "saving" =>
    /\ \A u, v \in previous[w] : u = v
    /\ previous[w] # {} => Current(about[w]) # {}

RowsInv == Sound(rows) /\ Reading

LEMMA SkipRecordTyped ==
  ASSUME TypeOK, NEW a \in Audience
  PROVE  \A r \in SkipRecord(a) :
           /\ r \in Row /\ r.status # "fresh" /\ ~r.current
           /\ SkipRecord(a) = {r}
<1>1. Skip(corpus[a]) \in Input
  BY EmptyTyped DEF TypeOK
<1> DEFINE record == [audience |-> a, input |-> Skip(corpus[a]), version |-> 1,
                      age |-> 0, status |-> "skipped", current |-> FALSE]
<1>2. record \in Row
  BY <1>1 DEF Row, Age, Quarter
<1>3. record.status # "fresh" /\ ~record.current
  OBVIOUS
<1>4. SkipRecord(a) = {} \/ SkipRecord(a) = {record}
  BY DEF SkipRecord
<1> HIDE DEF record
<1> QED
  BY <1>2, <1>3, <1>4

\* The row current when save read it is the only one it demotes, and there is
\* no other current one when the commit succeeds.
LEMMA CommitReplaces ==
  ASSUME TypeOK, RowsInv, NEW w \in Worker, Commit(w), verdict[w] = "fresh"
  PROVE  /\ Current(about[w]) \subseteq Previous(w)
         /\ \A r \in Current(about[w]) : /\ previous[w] = {VersionOf(r)}
                                         /\ SavedRow(w).version = 1 + r.version
         /\ Current(about[w]) = {} => SavedRow(w).version = 1
         /\ \A r \in Fresh(rows, about[w]) : r.version < SavedRow(w).version
<1>1. stage[w] = "saving" /\ about[w] \in Audience
  BY DEF Commit, TypeOK
<1>2. \A r \in Current(about[w]) : VersionOf(r) \in previous[w]
  BY DEF Commit, Conflicts
<1>3. Current(about[w]) \subseteq Previous(w)
  BY <1>2 DEF Previous, Current
<1>4. ASSUME NEW r \in Current(about[w])
      PROVE  previous[w] = {VersionOf(r)} /\ SavedRow(w).version = 1 + r.version
  <2>1. previous[w] = {VersionOf(r)}
    BY <1>1, <1>2 DEF RowsInv, Reading
  <2>2. Versions(previous[w]) = {r.version}
    BY <2>1 DEF Versions, VersionOf
  <2> QED
    BY <2>1, <2>2, SavedRowTyped
<1>5. CASE Current(about[w]) = {}
  <2>1. previous[w] = {}
    BY <1>1, <1>5 DEF RowsInv, Reading
  <2>2. Fresh(rows, about[w]) = {}
    BY <1>1, <1>5 DEF RowsInv, Sound, CurrentIn, Current, Of
  <2> QED
    BY <1>3, <1>5, <2>1, <2>2, SavedRowTyped
<1>6. CASE Current(about[w]) # {}
  <2>1. PICK c \in Current(about[w]) : TRUE
    BY <1>6
  <2>2. c \in Fresh(rows, about[w]) /\ c.current
    BY <2>1 DEF RowsInv, Sound, Current, Of, Fresh
  <2>3. ASSUME NEW r \in Fresh(rows, about[w])
        PROVE  r.version < SavedRow(w).version
    <3>1. r.version <= c.version
      BY <1>1, <2>2 DEF RowsInv, Sound
    <3>2. SavedRow(w).version = 1 + c.version
      BY <1>4, <2>1
    <3>3. r.version \in Nat /\ c.version \in Nat
      BY <2>1, RowParts DEF TypeOK, Fresh, Current, Of
    <3> QED
      BY <3>1, <3>2, <3>3
  <2> QED
    BY <1>3, <1>4, <1>6, <2>3
<1> QED
  BY <1>5, <1>6

\* What a commit makes of the rows before it prunes them.
LEMMA WrittenSound ==
  ASSUME TypeOK, RowsInv, NEW w \in Worker, Commit(w)
  PROVE  /\ Sound(Written(w))
         /\ verdict[w] = "fresh" =>
              /\ CurrentIn(Written(w), about[w]) = {SavedRow(w)}
              /\ \A a \in Audience \ {about[w]} :
                   CurrentIn(Written(w), a) = Current(a)
         /\ verdict[w] # "fresh" =>
              \A a \in Audience : CurrentIn(Written(w), a) = Current(a)
<1>1. rows \subseteq Row /\ about[w] \in Audience /\ Sound(rows)
  BY DEF TypeOK, RowsInv
<1>2. Previous(w) \subseteq rows /\ \A p \in Previous(w) : p.audience = about[w]
  BY DEF Previous, Of
<1>3. CASE verdict[w] = "fresh"
  <2>1. Written(w) = (rows \ Previous(w)) \cup {[r EXCEPT !.current = FALSE] : r \in Previous(w)}
                       \cup {SavedRow(w)}
    BY <1>3 DEF Written, Demoted
  <2>2. CurrentIn(rows, about[w]) \subseteq Previous(w)
    BY <1>3, CommitReplaces DEF CurrentIn, Current, Of
  <2>3. \A r \in Fresh(rows, about[w]) : r.version < SavedRow(w).version
    BY <1>3, CommitReplaces
  <2>4. /\ SavedRow(w) \in Row /\ SavedRow(w).audience = about[w]
        /\ SavedRow(w).status = "fresh" /\ SavedRow(w).current
    BY <1>3, SavedRowTyped
  <2>5. Sound(Written(w))
    <3> DEFINE new == SavedRow(w)
               a == about[w]
               P == Previous(w)
    <3>1. /\ rows \in SUBSET Row /\ Sound(rows) /\ a \in Audience /\ P \in SUBSET rows
          /\ \A p \in P : p.audience = a
          /\ CurrentIn(rows, a) \subseteq P
          /\ new \in Row /\ new.audience = a /\ new.status = "fresh" /\ new.current
          /\ \A r \in Fresh(rows, a) : r.version < new.version
      BY <1>1, <1>2, <2>2, <2>3, <2>4
    <3>2. Written(w) = (rows \ P) \cup {[r EXCEPT !.current = FALSE] : r \in P} \cup {new}
      BY <2>1
    <3> HIDE DEF new, a, P
    <3> QED
      BY <3>1, <3>2, SoundReplaced
  <2>6. \A p \in Previous(w) : ~[p EXCEPT !.current = FALSE].current
    BY <1>1, <1>2, RowDemoted
  <2>7. CurrentIn(Written(w), about[w]) = {SavedRow(w)}
    BY <2>1, <2>2, <2>4, <2>6 DEF CurrentIn
  <2>8. ASSUME NEW a \in Audience \ {about[w]}
        PROVE  CurrentIn(Written(w), a) = Current(a)
    BY <1>2, <2>1, <2>4, <2>6 DEF CurrentIn, Current, Of
  <2> QED
    BY <1>3, <2>5, <2>7, <2>8
<1>4. CASE verdict[w] # "fresh"
  <2>1. Written(w) = rows \cup {SavedRow(w)}
    BY <1>2, <1>4 DEF Written, Demoted
  <2>2. SavedRow(w) \in Row /\ SavedRow(w).status # "fresh" /\ ~SavedRow(w).current
    BY <1>4, SavedRowTyped
  <2>3. Sound(Written(w))
    BY <1>1, <2>1, <2>2, SoundOther
  <2> QED
    BY <1>4, <2>1, <2>2, <2>3 DEF CurrentIn, Current, Of
<1> QED
  BY <1>3, <1>4

LEMMA CommitRows ==
  ASSUME TypeOK, RowsInv, NEW w \in Worker, Commit(w)
  PROVE  /\ Sound(rows') /\ rows' \subseteq Written(w)
         /\ \A a \in Audience : Current(a)' = CurrentIn(Written(w), a)
<1>1. rows' \subseteq Written(w) /\ \A r \in Written(w) : r.current => r \in rows'
  BY PrunedParts DEF Commit
<1>2. Sound(rows')
  BY <1>1, WrittenSound, SoundThinned
<1>3. \A a \in Audience : Current(a)' = CurrentIn(Written(w), a)
  BY <1>1 DEF Current, Of, CurrentIn
<1> QED
  BY <1>1, <1>2, <1>3

ShownRows(a) == {VersionOf(r) : r \in Current(a)}

LEMMA OneCurrentRow ==
  ASSUME TypeOK, RowsInv, NEW a \in Audience
  PROVE  /\ \A c, d \in Current(a) : c = d
         /\ \A c \in Current(a) : c \in Fresh(rows, a) /\ c.version \in Nat
         /\ Current(a) = {} \/ \E c : Current(a) = {c}
<1>1. \A c \in Current(a) : c \in Fresh(rows, a) /\ c.current
  BY DEF RowsInv, Sound, Current, Of, Fresh
<1>2. \A c \in Current(a) : c.version \in Nat
  BY RowParts DEF TypeOK, Current, Of
<1>3. \A c, d \in Current(a) : c.version <= d.version /\ (c.version = d.version => c = d)
  BY <1>1 DEF RowsInv, Sound
<1>4. \A c, d \in Current(a) : c = d
  BY <1>2, <1>3
<1> QED
  BY <1>1, <1>2, <1>4

\* Only the commit of a fresh summary changes what is current of an audience.
LEMMA ShownSteps ==
  ASSUME TypeOK, RowsInv, [Next]_vars
  PROVE  \/ \A a \in Audience : ShownRows(a)' = ShownRows(a)
         \/ \E w \in Worker, b \in Audience :
              /\ Commit(w) /\ verdict[w] = "fresh" /\ about[w] = b
              /\ Current(b)' = {SavedRow(w)}
              /\ \A a \in Audience \ {b} : Current(a)' = Current(a)
<1>1. CASE rows' = rows
  BY <1>1 DEF ShownRows, Current, Of
<1>2. ASSUME NEW span \in {Hour, Day, Quarter}, rows' = {Older(span, r) : r \in rows},
             NEW a \in Audience
      PROVE  ShownRows(a)' = ShownRows(a)
  <2>1. \A r \in rows : /\ Older(span, r) \in rows'
                        /\ Older(span, r).audience = r.audience
                        /\ Older(span, r).current = r.current
                        /\ VersionOf(Older(span, r)) = VersionOf(r)
    BY <1>2, OlderParts DEF TypeOK, VersionOf
  <2>2. \A t \in rows' : \E r \in rows : t = Older(span, r)
    BY <1>2
  <2>3. ShownRows(a) \subseteq ShownRows(a)'
    BY <2>1 DEF ShownRows, Current, Of
  <2>4. ShownRows(a)' \subseteq ShownRows(a)
    <3> SUFFICES ASSUME NEW t \in rows', t.audience = a, t.current
                 PROVE  VersionOf(t) \in ShownRows(a)
      BY DEF ShownRows, Current, Of
    <3>1. PICK r \in rows : t = Older(span, r)
      BY <2>2
    <3> QED
      BY <2>1, <3>1 DEF ShownRows, Current, Of
  <2> QED
    BY <2>3, <2>4
<1>3. ASSUME NEW b \in Audience, rows' = rows \cup SkipRecord(b), NEW a \in Audience
      PROVE  ShownRows(a)' = ShownRows(a)
  <2>1. Current(a)' = Current(a)
    BY <1>3, SkipRecordTyped DEF Current, Of
  <2> QED
    BY <2>1 DEF ShownRows
<1>4. ASSUME NEW w \in Worker, Commit(w), verdict[w] # "fresh", NEW a \in Audience
      PROVE  ShownRows(a)' = ShownRows(a)
  <2>1. Current(a)' = Current(a)
    BY <1>4, CommitRows, WrittenSound
  <2> QED
    BY <2>1 DEF ShownRows
<1>5. ASSUME NEW w \in Worker, Commit(w), verdict[w] = "fresh"
      PROVE  \E b \in Audience :
               /\ about[w] = b /\ Current(b)' = {SavedRow(w)}
               /\ \A a \in Audience \ {b} : Current(a)' = Current(a)
  <2>1. PICK b \in Audience : about[w] = b
    BY DEF TypeOK
  <2>2. Current(b)' = {SavedRow(w)}
    BY <1>5, <2>1, CommitRows, WrittenSound
  <2>3. \A a \in Audience \ {b} : Current(a)' = Current(a)
    BY <1>5, <2>1, CommitRows, WrittenSound
  <2> QED
    BY <2>1, <2>2, <2>3
<1> QED
  BY <1>1, <1>2, <1>3, <1>4, <1>5, RowSteps

\* The rows are sound, and what a saving worker has read is still of use.
LEMMA RowsInvariant == Spec => []RowsInv
<1>1. Init => RowsInv
  BY FS_EmptySet DEF Init, RowsInv, Sound, Fresh, Reading
<1>2. TypeOK /\ RowsInv /\ [Next]_vars => RowsInv'
  <2> SUFFICES ASSUME TypeOK, RowsInv, [Next]_vars PROVE RowsInv'
    OBVIOUS
  <2>1. Sound(rows')
    <3>1. rows \in SUBSET Row /\ Sound(rows)
      BY DEF TypeOK, RowsInv
    <3>2. ASSUME NEW span \in {Hour, Day, Quarter}, rows' = {Older(span, r) : r \in rows}
          PROVE  Sound(rows')
      BY <3>1, <3>2, SoundOlder
    <3>3. ASSUME NEW a \in Audience, rows' = rows \cup SkipRecord(a)
          PROVE  Sound(rows')
      <4>1. CASE SkipRecord(a) = {}
        BY <3>1, <3>3, <4>1
      <4>2. CASE SkipRecord(a) # {}
        <5>1. PICK r : r \in SkipRecord(a)
          BY <4>2
        <5> QED
          BY <3>1, <3>3, <5>1, SkipRecordTyped, SoundOther
      <4> QED
        BY <4>1, <4>2
    <3> QED
      BY <3>1, <3>2, <3>3, CommitRows, RowSteps
  <2>2. \A a \in Audience : Current(a) # {} => Current(a)' # {}
    <3> SUFFICES ASSUME NEW a \in Audience, Current(a) # {} PROVE Current(a)' # {}
      OBVIOUS
    <3>1. CASE ShownRows(a)' = ShownRows(a)
      BY <3>1 DEF ShownRows
    <3>2. CASE \E w \in Worker : Current(a)' = {SavedRow(w)}
      BY <3>2
    <3>3. CASE Current(a)' = Current(a)
      BY <3>3
    <3> QED
      BY <3>1, <3>2, <3>3, ShownSteps
  <2>3. \A a \in Audience : \A c, d \in Current(a) : c = d
    BY OneCurrentRow
  <2>4. ASSUME NEW w \in Worker, stage'[w] = "saving"
        PROVE  /\ \A u, v \in previous'[w] : u = v
               /\ previous'[w] # {} => Current(about[w])' # {}
               /\ about'[w] = about[w]
    <3>0. about[w] \in Audience
      BY DEF TypeOK
    <3>1. CASE /\ stage'[w] = stage[w] /\ about'[w] = about[w]
               /\ previous'[w] = previous[w]
      BY <2>2, <2>4, <3>0, <3>1 DEF RowsInv, Reading
    <3>2. CASE /\ about'[w] = about[w] /\ rows' = rows
               /\ previous'[w] = {VersionOf(r) : r \in Current(about[w])}
      BY <2>2, <2>3, <3>0, <3>2
    <3> QED
      BY <2>4, <3>1, <3>2, ReadSteps
  <2>5. Reading'
    BY <2>4 DEF Reading, Current, Of
  <2> QED
    BY <2>1, <2>5 DEF RowsInv
<1> QED
  BY <1>1, <1>2, TypeCorrect, PTL DEF Spec

\* Whatever the workers interleave between reading the current summary and
\* committing another, an audience has one at most, and only a fresh one.
THEOREM CurrentUnique == Spec => []OneCurrent
<1>1. TypeOK /\ RowsInv => OneCurrent
  <2> SUFFICES ASSUME TypeOK, RowsInv, NEW a \in Audience
               PROVE  /\ Cardinality(Current(a)) <= 1
                      /\ \A r \in Current(a) : r.status = "fresh"
    BY DEF OneCurrent
  <2>2. ASSUME NEW c, Current(a) = {c} PROVE Cardinality(Current(a)) <= 1
    <3>1. Cardinality({c}) = 1
      BY FS_Singleton
    <3> QED
      BY <2>2, <3>1
  <2>3. Cardinality(Current(a)) <= 1
    <3>1. Cardinality({}) <= 1
      BY FS_EmptySet
    <3> QED
      BY <2>2, <3>1, OneCurrentRow
  <2>4. \A r \in Current(a) : r.status = "fresh"
    BY DEF RowsInv, Sound, Current, Of
  <2> QED
    BY <2>3, <2>4
<1> QED
  BY <1>1, TypeCorrect, RowsInvariant, PTL

\* The fresh summaries of an audience have a version each, the current one the
\* last, so that pruning by version drops the oldest.
THEOREM VersionsOrdered == Spec => []HistoryOrdered
<1>1. TypeOK /\ RowsInv => HistoryOrdered
  <2> SUFFICES ASSUME TypeOK, RowsInv, NEW a \in Audience
               PROVE  /\ Cardinality(Versions(Fresh(rows, a))) = Cardinality(Fresh(rows, a))
                      /\ \A c \in Current(a), r \in Fresh(rows, a) : r.version <= c.version
    <3>1. \A b : Fresh(rows, b) = {r \in Of(b) : r.status = "fresh"}
      BY DEF Fresh, Of
    <3> QED
      BY <3>1 DEF HistoryOrdered, Fresh, Of
  <2> DEFINE F == Fresh(rows, a)
             f == [r \in F |-> r.version]
  <2>1. IsFiniteSet(F)
    BY FS_Subset DEF RowsInv, Sound, Fresh
  <2>2. \A r, q \in F : r.version = q.version => r = q
    BY DEF RowsInv, Sound
  <2>3. f \in Bijection(F, Versions(F))
    <3> HIDE DEF F
    <3>1. f \in [F -> Versions(F)]
      BY DEF Versions
    <3>2. f \in Injection(F, Versions(F))
      BY <2>2, <3>1 DEF Injection, IsInjective
    <3>3. f \in Surjection(F, Versions(F))
      BY <3>1 DEF Surjection, Versions
    <3> QED
      BY <3>2, <3>3 DEF Bijection
  <2>4. Cardinality(Versions(F)) = Cardinality(F)
    <3> HIDE DEF F, f
    <3> QED
      BY <2>1, <2>3, FS_Bijection DEF ExistsBijection
  <2>5. \A c \in Current(a) : c \in F /\ c.current
    BY DEF RowsInv, Sound, Fresh, Current, Of
  <2>6. \A c \in Current(a), r \in F : r.version <= c.version
    BY <2>5 DEF RowsInv, Sound
  <2> QED
    BY <2>4, <2>6
<1> QED
  BY <1>1, TypeCorrect, RowsInvariant, PTL

\* A reader of an audience is shown versions one after another, each written
\* from another input than the one before, and never loses the last.
THEOREM ShownFollows == Spec => ImplementsShown
<1> DEFINE shown == [a \in Audience |-> ShownOf(a)]
<1>1. Init => Shown!Init
  <2> SUFFICES ASSUME Init PROVE shown = [a \in Audience |-> [version |-> 0]]
    BY DEF Shown!Init, Shown!NoneYet
  <2>1. \A a \in Audience : ShownOf(a) = [version |-> 0]
    BY DEF Init, ShownOf, Current, Of
  <2> QED
    BY <2>1
<1>2. TypeOK /\ RowsInv /\ [Next]_vars => [Shown!Next]_shown
  <2> SUFFICES ASSUME TypeOK, RowsInv, [Next]_vars PROVE [Shown!Next]_shown
    OBVIOUS
  <2>1. \A a \in Audience : ShownOf(a) = IF ShownRows(a) = {} THEN [version |-> 0]
                                         ELSE CHOOSE v \in ShownRows(a) : TRUE
    BY DEF ShownOf, ShownRows
  <2>2. \A a \in Audience : ShownOf(a)' = IF ShownRows(a)' = {} THEN [version |-> 0]
                                          ELSE CHOOSE v \in ShownRows(a)' : TRUE
    BY DEF ShownOf, ShownRows
  <2>3. CASE \A a \in Audience : ShownRows(a)' = ShownRows(a)
    <3>1. \A a \in Audience : ShownOf(a)' = ShownOf(a)
      BY <2>1, <2>2, <2>3
    <3> QED
      BY <3>1
  <2>4. ASSUME NEW w \in Worker, NEW b \in Audience,
               Commit(w), verdict[w] = "fresh", about[w] = b,
               Current(b)' = {SavedRow(w)},
               \A a \in Audience \ {b} : Current(a)' = Current(a)
        PROVE  Shown!Publish(b)
    <3>1. ShownRows(b)' = {VersionOf(SavedRow(w))}
      BY <2>4 DEF ShownRows
    <3>2. ShownOf(b)' = VersionOf(SavedRow(w))
      BY <2>2, <3>1
    <3>3. \A a \in Audience \ {b} : ShownOf(a)' = ShownOf(a)
      <4>1. \A a \in Audience \ {b} : ShownRows(a)' = ShownRows(a)
        BY <2>4 DEF ShownRows
      <4> QED
        BY <2>1, <2>2, <4>1
    <3>4. /\ ShownOf(b)'.version = SavedRow(w).version
          /\ ShownOf(b)'.input = input[w][b] /\ input[w][b] \in Input
      <4>1. SavedRow(w).input = input[w][about[w]]
        BY SavedRowTyped
      <4>2. input[w][b] \in Input
        BY DEF TypeOK
      <4> QED
        BY <2>4, <3>2, <4>1, <4>2 DEF VersionOf
    <3>7. ASSUME ShownOf(b)'.version = ShownOf(b).version + 1,
                 ShownOf(b).version > 0 => ShownOf(b)'.input # ShownOf(b).input
          PROVE  Shown!Publish(b)
      <4>1. shown[b] = ShownOf(b) /\ shown'[b] = ShownOf(b)'
        OBVIOUS
      <4>2. shown' = [shown EXCEPT ![b] = shown'[b]]
        BY <3>3
      <4>3. shown'[b].input \in Input
        BY <3>4, <4>1
      <4> HIDE DEF shown
      <4>4. /\ shown'[b].version = shown[b].version + 1
            /\ shown[b].version > 0 => shown'[b].input # shown[b].input
        BY <3>7, <4>1
      <4> QED
        BY <4>2, <4>3, <4>4 DEF Shown!Publish, shown
    <3>5. CASE Current(b) = {}
      <4>1. ShownOf(b).version = 0 /\ SavedRow(w).version = 1
        BY <2>1, <2>4, <3>5, CommitReplaces DEF ShownRows
      <4> QED
        BY <3>4, <3>7, <4>1
    <3>6. CASE Current(b) # {}
      <4>1. PICK c \in Current(b) : TRUE
        BY <3>6
      <4>2. \A d \in Current(b) : c = d
        BY OneCurrentRow
      <4>3. ShownOf(b) = VersionOf(c)
        <5>1. ShownRows(b) = {VersionOf(c)}
          BY <4>1, <4>2 DEF ShownRows
        <5> QED
          BY <2>1, <5>1
      <4>4. SavedRow(w).version = 1 + c.version /\ c.version \in Nat
        BY <2>4, <4>1, CommitReplaces, RowParts DEF TypeOK, Current, Of
      <4>5. c.input # input[w][b]
        BY <2>4, <4>1 DEF Commit, Conflicts, Current
      <4> QED
        BY <3>4, <3>7, <4>3, <4>4, <4>5 DEF VersionOf
    <3> QED
      BY <3>5, <3>6
  <2> QED
    BY <2>3, <2>4, ShownSteps DEF Shown!Next
<1> QED
  BY <1>1, <1>2, TypeCorrect, RowsInvariant, PTL DEF Spec, ImplementsShown, Shown!Spec

----------------------------------------------------------------------------
(* What the rows cite *)

LEMMA WrittenFrom ==
  ASSUME TypeOK, NEW w \in Worker, Commit(w)
  PROVE  \A t \in rows' : \/ t = SavedRow(w)
                          \/ \E r \in rows : /\ t.input = r.input
                                             /\ t.audience = r.audience
                                             /\ t.status = r.status /\ t.age = r.age
<1>1. rows' \subseteq Written(w)
  BY PrunedParts DEF Commit
<1>2. Previous(w) \subseteq rows /\ rows \subseteq Row
  BY DEF Previous, Of, TypeOK
<1>3. \A t \in Demoted(w) : \E r \in rows : /\ t.input = r.input
                                            /\ t.audience = r.audience
                                            /\ t.status = r.status /\ t.age = r.age
  <2>1. CASE verdict[w] = "fresh"
    <3>1. Demoted(w) = {[r EXCEPT !.current = FALSE] : r \in Previous(w)}
      BY <2>1 DEF Demoted
    <3>2. \A r \in Previous(w) :
            /\ [r EXCEPT !.current = FALSE].input = r.input
            /\ [r EXCEPT !.current = FALSE].audience = r.audience
            /\ [r EXCEPT !.current = FALSE].status = r.status
            /\ [r EXCEPT !.current = FALSE].age = r.age
      BY <1>2, RowDemoted
    <3> SUFFICES ASSUME NEW t \in Demoted(w)
                 PROVE  \E r \in rows : /\ t.input = r.input /\ t.audience = r.audience
                                        /\ t.status = r.status /\ t.age = r.age
      OBVIOUS
    <3>3. PICK r \in Previous(w) : t = [r EXCEPT !.current = FALSE]
      BY <3>1
    <3>4. r \in rows
      BY <1>2
    <3>5. /\ t.input = r.input /\ t.audience = r.audience
          /\ t.status = r.status /\ t.age = r.age
      BY <3>2, <3>3
    <3> QED
      BY <3>4, <3>5
  <2>2. CASE verdict[w] # "fresh"
    BY <1>2, <2>2 DEF Demoted
  <2> QED
    BY <2>1, <2>2
<1> QED
  BY <1>1, <1>3 DEF Written

\* A purge that has looked for references deletes nothing that a summary cites,
\* but for those committed since.
PurgeInv ==
  \A r \in rows :
    r.input.reviews \in purging[r.audience] => IdOf(r) \in uncited \/ IdOf(r) \in overtook

CitesInv == CitationsResolve /\ PurgeInv

\* Steps that keep the rows, the snapshots and what the purge has read.
LEMMA CitesKept ==
  ASSUME TypeOK, CitesInv, rows' = rows, UNCHANGED <<purging, uncited, overtook>>,
         \A a \in Audience : snapshots[a] \subseteq snapshots'[a]
  PROVE  CitesInv'
<1>1. \A r \in rows : r.audience \in Audience
  BY RowParts DEF TypeOK
<1> QED
  BY <1>1 DEF CitesInv, CitationsResolve, PurgeInv, IdOf

\* A row is added under its id, with its snapshot, and others are kept or lost.
LEMMA CitesAdded ==
  ASSUME TypeOK, CitesInv, NEW a \in Audience, NEW i \in Input, Cited(<<a, i>>),
         \A b \in Audience : snapshots[b] \subseteq snapshots'[b],
         i.reviews \in snapshots'[a],
         \A t \in rows' : \/ t.audience = a /\ t.input = i
                          \/ \E r \in rows : t.input = r.input /\ t.audience = r.audience
  PROVE  CitesInv'
<1> DEFINE id == <<a, i>>
<1> SUFFICES ASSUME NEW t \in rows'
             PROVE  /\ IF IdOf(t) \in uncited' THEN IdOf(t) \in overtook'
                       ELSE t.input.reviews \in snapshots'[t.audience]
                    /\ t.input.reviews \in purging'[t.audience]
                         => IdOf(t) \in uncited' \/ IdOf(t) \in overtook'
  BY DEF CitesInv, CitationsResolve, PurgeInv, IdOf
<1>0. /\ uncited' = uncited \ {id} /\ purging' = purging
      /\ overtook' = IF Purging THEN overtook \cup {id} ELSE overtook \ {id}
  BY DEF Cited
<1>1. CASE t.audience = a /\ t.input = i
  <2>1. IdOf(t) = id
    BY <1>1 DEF IdOf
  <2>2. t.input.reviews \in purging'[t.audience] => Purging
    BY <1>0, <1>1 DEF Purging
  <2> QED
    BY <1>0, <1>1, <2>1, <2>2
<1>2. CASE \E r \in rows : t.input = r.input /\ t.audience = r.audience
  <2>1. PICK r \in rows : t.input = r.input /\ t.audience = r.audience
    BY <1>2
  <2>2. r.audience \in Audience /\ IdOf(t) = IdOf(r)
    BY <2>1, RowParts DEF TypeOK, IdOf
  <2>3. CASE IdOf(t) = id
    <3>1. t.audience = a /\ t.input = i
      BY <2>3 DEF IdOf
    <3> QED
      BY <1>1, <3>1
  <2>4. CASE IdOf(t) # id
    <3>1. /\ IdOf(t) \in uncited' <=> IdOf(r) \in uncited
          /\ IdOf(t) \in overtook' <=> IdOf(r) \in overtook
      BY <1>0, <2>2, <2>4
    <3>2. /\ IF IdOf(r) \in uncited THEN IdOf(r) \in overtook
             ELSE r.input.reviews \in snapshots[r.audience]
          /\ r.input.reviews \in purging[r.audience]
               => IdOf(r) \in uncited \/ IdOf(r) \in overtook
      BY DEF CitesInv, CitationsResolve, PurgeInv
    <3> QED
      BY <1>0, <2>1, <2>2, <3>1, <3>2
  <2> QED
    BY <2>3, <2>4
<1> QED
  BY <1>1, <1>2

\* What a summary cites is there, and only a summary committed after a purge has
\* looked for references, and before it deletes, loses its snapshot.
THEOREM CitationsKept == Spec => []CitationsResolve
<1>1. Init => CitesInv
  BY DEF Init, CitesInv, CitationsResolve, PurgeInv
<1>2. TypeOK /\ CitesInv /\ [Next]_vars => CitesInv'
  <2> SUFFICES ASSUME TypeOK, CitesInv, [Next]_vars
               PROVE  CitesInv'
    OBVIOUS
  <2> USE DEF tables, gapVars, purgeVars
  <2>2. \A S : Stored(S) => \A a \in Audience : snapshots[a] \subseteq snapshots'[a]
    BY DEF Stored
  <2>3. \A w \in Worker : Kept(w) => \A a \in Audience : snapshots[a] \subseteq snapshots'[a]
    BY DEF Kept
  <2>4. CASE Deploy \/ LeaveGap
    BY CitesKept, <2>2, <2>4 DEF Deploy, LeaveGap
  <2>5. CASE PurgeReads
    <3>1. ASSUME NEW r \in rows, r.input.reviews \in purging'[r.audience]
          PROVE  IdOf(r) \in uncited
      <4>1. r.audience \in Audience
        BY RowParts DEF TypeOK
      <4>2. r.input.reviews \in Purgeable(r.audience)
        BY <2>5, <3>1, <4>1 DEF PurgeReads
      <4> QED
        BY <4>2 DEF Purgeable, Of
    <3> QED
      BY <2>5, <3>1 DEF PurgeReads, CitesInv, CitationsResolve, PurgeInv, IdOf
  <2>15. CASE PurgeDeletes
    <3>1. UNCHANGED <<rows, overtook>> /\ \A a \in Audience : purging'[a] = {}
      BY <2>15 DEF PurgeDeletes
    <3>2. ASSUME NEW r \in rows
          PROVE  IF IdOf(r) \in uncited' THEN IdOf(r) \in overtook
                 ELSE r.input.reviews \in snapshots'[r.audience]
      <4>1. r.audience \in Audience
        BY RowParts DEF TypeOK
      <4>2. CASE IdOf(r) \in uncited'
        <5>1. CASE IdOf(r) \in uncited
          BY <5>1, <4>2 DEF CitesInv, CitationsResolve
        <5>2. CASE IdOf(r) \notin uncited
          <6>1. PICK q \in rows : /\ IdOf(q) = IdOf(r)
                                  /\ q.input.reviews \in purging[q.audience]
            BY <2>15, <4>2, <5>2 DEF PurgeDeletes
          <6>2. IdOf(q) \in overtook
            BY <5>2, <6>1 DEF CitesInv, PurgeInv
          <6> QED
            BY <4>2, <6>1, <6>2
        <5> QED
          BY <5>1, <5>2
      <4>3. CASE IdOf(r) \notin uncited'
        <5>1. r.input.reviews \notin purging[r.audience] /\ IdOf(r) \notin uncited
          BY <2>15, <4>3 DEF PurgeDeletes
        <5>2. r.input.reviews \in snapshots[r.audience]
          BY <5>1 DEF CitesInv, CitationsResolve
        <5> QED
          BY <2>15, <4>1, <4>3, <5>1, <5>2 DEF PurgeDeletes
      <4> QED
        BY <4>2, <4>3
    <3>3. \A r \in rows : r.audience \in Audience
      BY RowParts DEF TypeOK
    <3> QED
      BY <3>1, <3>2, <3>3 DEF CitesInv, CitationsResolve, PurgeInv, IdOf
  <2>16. CASE PurgeAborts
    <3>1. \A r \in rows : r.audience \in Audience
      BY RowParts DEF TypeOK
    <3> QED
      BY <2>16, <3>1 DEF PurgeAborts, CitesInv, CitationsResolve, PurgeInv, IdOf
  <2>6. ASSUME NEW span \in {Hour, Day, Quarter}, TimePasses(span)
        PROVE  CitesInv'
    <3>1. /\ rows' = {Older(span, r) : r \in rows}
          /\ UNCHANGED <<snapshots, purging, uncited, overtook>>
      BY <2>6 DEF TimePasses, Older
    <3>2. \A r \in rows : /\ Older(span, r).input = r.input
                          /\ Older(span, r).audience = r.audience
      BY OlderParts DEF TypeOK
    <3> QED
      BY <3>1, <3>2 DEF CitesInv, CitationsResolve, PurgeInv, IdOf
  <2>7. ASSUME NEW a \in Audience, SkipTooFew(a) PROVE CitesInv'
    <3>1. /\ rows' = rows \cup SkipRecord(a)
          /\ snapshots' = [b \in Audience |->
                             snapshots[b] \cup (IF b \in {a} THEN {corpus[b]} ELSE {})]
      BY <2>7 DEF SkipTooFew, Stored
    <3>2. \A r \in SkipRecord(a) : r.audience = a /\ r.input = Skip(corpus[a])
      BY DEF SkipRecord
    <3>3. CASE SkipRecord(a) = {}
      <4>1. rows' = rows /\ UNCHANGED <<purging, uncited, overtook>>
        BY <2>7, <3>1, <3>3 DEF SkipTooFew
      <4> QED
        BY <3>1, <4>1, CitesKept
    <3>4. CASE SkipRecord(a) # {}
      <4>1. PICK i \in Input : i = Skip(corpus[a])
        BY EmptyTyped DEF TypeOK
      <4>2. Cited(<<a, i>>) /\ i.reviews \in snapshots'[a]
        BY <2>7, <3>1, <3>4, <4>1 DEF SkipTooFew, Skip
      <4>3. \A t \in rows' : \/ t.audience = a /\ t.input = i
                             \/ \E r \in rows : t.input = r.input /\ t.audience = r.audience
        BY <3>1, <3>2, <4>1
      <4>4. \A b \in Audience : snapshots[b] \subseteq snapshots'[b]
        BY <3>1
      <4> QED
        BY <4>2, <4>3, <4>4, CitesAdded
    <3> QED
      BY <3>3, <3>4
  <2>8. ASSUME NEW a \in Audience, ReviewsChange(a) \/ Settle(a) PROVE CitesInv'
    BY CitesKept, <2>2, <2>8 DEF ReviewsChange, Settle
  <2>9. ASSUME NEW w \in Worker, NEW a \in Audience, Ask(w, a) PROVE CitesInv'
    BY CitesKept, <2>9 DEF Ask
  <2>10. ASSUME NEW w \in Worker, NEW status \in {"fresh", "rejected", "failed"},
                Answer(w, status)
         PROVE  CitesInv'
    BY CitesKept, <2>10 DEF Answer
  <2>11. ASSUME NEW w \in Worker, NEW supported \in BOOLEAN, CommitGap(w, supported)
         PROVE  CitesInv'
    BY CitesKept, <2>3, <2>11 DEF CommitGap
  <2>12. ASSUME NEW w \in Worker, Unavailable(w) \/ Explain(w) \/ Rollback(w)
         PROVE  CitesInv'
    BY CitesKept, <2>3, <2>12 DEF Unavailable, Explain, Rollback
  <2>13. ASSUME NEW w \in Worker, Commit(w) PROVE CitesInv'
    <3>1. \A a \in Audience : snapshots[a] \subseteq snapshots'[a]
      BY <2>3, <2>13 DEF Commit
    <3>2. PICK a \in Audience, i \in Input : a = about[w] /\ i = input[w][a]
      BY DEF TypeOK
    <3>3. i.reviews \in snapshots'[a]
      <4>1. stage[w] = "saving" /\ ~Dangling(w) /\ Kept(w)
        BY <2>13 DEF Commit
      <4>2. a \in built[w] \/ input[w][a].reviews \in snapshots[a]
        BY <3>2, <4>1 DEF Dangling
      <4> QED
        BY <3>2, <4>1, <4>2 DEF Kept
    <3>4. Cited(<<a, i>>)
      BY <2>13, <3>2 DEF Commit
    <3>5. SavedRow(w).audience = a /\ SavedRow(w).input = i
      BY <3>2, SavedRowTyped
    <3>6. \A t \in rows' : \/ t.audience = a /\ t.input = i
                           \/ \E r \in rows : t.input = r.input /\ t.audience = r.audience
      BY <2>13, <3>5, WrittenFrom
    <3> QED
      BY <3>1, <3>3, <3>4, <3>6, CitesAdded
  <2>14. CASE UNCHANGED vars
    BY CitesKept, <2>14 DEF vars
  <2> QED
    BY <2>4, <2>5, <2>6, <2>7, <2>8, <2>9, <2>10, <2>11, <2>12, <2>13, <2>14, <2>15, <2>16
    DEF Next
<1>3. CitesInv => CitationsResolve
  BY DEF CitesInv
<1> QED
  BY <1>1, <1>2, <1>3, TypeCorrect, PTL DEF Spec

=============================================================================
