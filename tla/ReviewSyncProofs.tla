-------------------------- MODULE ReviewSyncProofs --------------------------
(***************************************************************************)
(* A pass over a stream of reviews, for any number of reviews, passes,     *)
(* edits and removals, and any settings.  What makes it sound to stop at   *)
(* pages without news is FrontInv: a review that no pass has stored, and   *)
(* that none was kept from reading, has fewer known reviews in front of it *)
(* than the pages that stop a pass can hold.                               *)
(***************************************************************************)
EXTENDS ReviewSync, TLAPS, FiniteSetTheorems, SequenceTheorems

Span == Tolerance * PageSize

\* The reviews in front of position i that are stored.
KnownBefore(s, contents, i) ==
  {r \in Review : contents[r] # Absent /\ \E j \in 1..(i - 1) : s[j] = r}

FrontInv ==
  \A i \in DOMAIN source :
    stored[source[i]] = Absent /\ source[i] \notin skipped =>
      Cardinality(KnownBefore(source, stored, i)) < Span

\* What is still to come is stored nowhere.
ComingInv ==
  \A r \in unpublished : stored[r] = Absent /\ (pass # None => pass.rows[r] = Absent)

\* A pass the source has not shifted has stored all that is in front of its
\* offset and nothing behind; its stale pages were known before it started, and
\* they were whole pages unless there is nothing behind them.
PassInv ==
  pass # None /\ ~pass.shifted =>
    /\ pass.offset <= Len(source) /\ start = Served
    /\ pass.total # Unknown => pass.total = Len(source)
    /\ \A i \in DOMAIN source :
         IF i <= pass.offset THEN pass.rows[source[i]] # Absent
         ELSE pass.rows[source[i]] = stored[source[i]]
    /\ \/ pass.offset = Len(source)
       \/ /\ pass.stale * PageSize <= pass.offset
          /\ \A i \in DOMAIN source :
               pass.offset - pass.stale * PageSize < i /\ i <= pass.offset =>
                 stored[source[i]] # Absent

----------------------------------------------------------------------------
(* Sequences *)

LEMMA SeqParts ==
  ASSUME NEW s \in Seq(Review)
  PROVE  /\ Len(s) \in Nat /\ DOMAIN s = 1..Len(s)
         /\ \A i \in 1..Len(s) : s[i] \in Review
         /\ ToSet(s) = {s[i] : i \in 1..Len(s)}
BY LenProperties, ElementOfSeq DEF ToSet

\* What comes before position i is no more than i - 1 reviews.
LEMMA FrontSize ==
  ASSUME NEW s, NEW i \in Nat \ {0}, NEW A, \A r \in A : \E j \in 1..(i - 1) : s[j] = r
  PROVE  IsFiniteSet(A) /\ Cardinality(A) \in Nat /\ Cardinality(A) <= i - 1
<1> DEFINE T == {s[j] : j \in 1..(i - 1)}
           f == [j \in 1..(i - 1) |-> s[j]]
<1>1. f \in Surjection(1..(i - 1), T)
  BY DEF Surjection
<1>2. IsFiniteSet(1..(i - 1)) /\ Cardinality(1..(i - 1)) = i - 1
  BY FS_Interval
<1> HIDE DEF f
<1>3. A \in SUBSET T
  OBVIOUS
<1> HIDE DEF T
<1>4. IsFiniteSet(T) /\ Cardinality(T) <= i - 1
  BY <1>1, <1>2, FS_Surjection
<1>5. IsFiniteSet(A) /\ Cardinality(A) <= Cardinality(T)
  BY <1>3, <1>4, FS_Subset
<1>6. Cardinality(A) \in Nat /\ Cardinality(T) \in Nat
  BY <1>4, <1>5, FS_CardinalityType
<1> QED
  BY <1>4, <1>5, <1>6

\* A run of n positions is n reviews.
LEMMA RunSize ==
  ASSUME NEW s \in Seq(Review), IsInjective(s), NEW A, IsFiniteSet(A),
         NEW a \in Nat, NEW n \in Nat, a + n <= Len(s), \A j \in 1..n : s[a + j] \in A
  PROVE  n <= Cardinality(A)
<1> DEFINE f == [j \in 1..n |-> s[a + j]]
<1>1. \A j \in 1..n : a + j \in DOMAIN s
  BY SeqParts
<1>2. f \in [1..n -> A]
  OBVIOUS
<1>3. \A j, k \in 1..n : f[j] = f[k] => j = k
  <2> SUFFICES ASSUME NEW j \in 1..n, NEW k \in 1..n, s[a + j] = s[a + k] PROVE j = k
    OBVIOUS
  <2>1. a + j = a + k
    BY <1>1 DEF IsInjective
  <2> QED
    BY <2>1
<1>4. f \in Injection(1..n, A)
  BY <1>2, <1>3 DEF Injection, IsInjective
<1>5. IsFiniteSet(1..n) /\ Cardinality(1..n) = n
  BY FS_Interval
<1> HIDE DEF f
<1> QED
  BY <1>4, <1>5, FS_Injection

LEMMA Inserted ==
  ASSUME NEW s \in Seq(Review), NEW i \in 1..(Len(s) + 1), NEW r \in Review
  PROVE  /\ InsertAt(s, i, r) \in Seq(Review) /\ Len(InsertAt(s, i, r)) = Len(s) + 1
         /\ \A k \in 1..(Len(s) + 1) :
              InsertAt(s, i, r)[k] = IF k < i THEN s[k] ELSE IF k = i THEN r ELSE s[k - 1]
<1> DEFINE front == SubSeq(s, 1, i - 1)
           back == SubSeq(s, i, Len(s))
           n == Len(s)
<1>1. n \in Nat /\ \A k \in 1..n : s[k] \in Review
  BY SeqParts
<1>2. /\ front \in Seq(Review) /\ Len(front) = i - 1
      /\ \A k \in 1..(i - 1) : front[k] = s[k]
  <2>1. \A k \in 1..(i - 1) : k \in 1..n /\ s[k] \in Review
    BY <1>1
  <2>2. 1 \in Int /\ i - 1 \in Int
    BY <1>1
  <2>3. /\ front \in Seq(Review) /\ Len(front) = IF 1 <= i - 1 THEN (i - 1) - 1 + 1 ELSE 0
        /\ \A k \in 1..((i - 1) - 1 + 1) : front[k] = s[1 + k - 1]
    BY <2>1, <2>2, SubSeqProperties
  <2> HIDE DEF front
  <2> QED
    BY <1>1, <2>3
<1>3. /\ back \in Seq(Review) /\ Len(back) = n - i + 1
      /\ \A k \in 1..(n - i + 1) : back[k] = s[i + k - 1]
  <2>1. \A k \in i..n : k \in 1..n /\ s[k] \in Review
    BY <1>1
  <2>2. i \in Int /\ n \in Int
    BY <1>1
  <2>3. /\ back \in Seq(Review) /\ Len(back) = IF i <= n THEN n - i + 1 ELSE 0
        /\ \A k \in 1..(n - i + 1) : back[k] = s[i + k - 1]
    BY <2>1, <2>2, SubSeqProperties
  <2> HIDE DEF back
  <2> QED
    BY <1>1, <2>3
<1> HIDE DEF front, back, n
<1>4. /\ front \o <<r>> \in Seq(Review) /\ Len(front \o <<r>>) = i
      /\ \A k \in 1..i : (front \o <<r>>)[k] = IF k <= i - 1 THEN front[k] ELSE r
  <2>1. <<r>> \in Seq(Review) /\ Len(<<r>>) = 1 /\ <<r>>[1] = r
    OBVIOUS
  <2>2. /\ front \o <<r>> \in Seq(Review) /\ Len(front \o <<r>>) = (i - 1) + 1
        /\ \A k \in 1..((i - 1) + 1) : (front \o <<r>>)[k] =
             IF k <= i - 1 THEN front[k] ELSE <<r>>[k - (i - 1)]
    BY <1>2, <2>1, ConcatProperties
  <2>3. \A k \in 1..i : k <= i - 1 \/ k - (i - 1) = 1
    BY <1>1 DEF n
  <2>4. (i - 1) + 1 = i
    BY <1>1 DEF n
  <2> QED
    BY <2>1, <2>2, <2>3, <2>4
<1>5. /\ (front \o <<r>>) \o back \in Seq(Review)
      /\ Len((front \o <<r>>) \o back) = i + (n - i + 1)
      /\ \A k \in 1..(i + (n - i + 1)) : ((front \o <<r>>) \o back)[k] =
           IF k <= i THEN (front \o <<r>>)[k] ELSE back[k - i]
  <2>1. PICK x \in Seq(Review) : x = front \o <<r>>
    BY <1>4
  <2>2. Len(x) = i
    BY <1>4, <2>1
  <2>3. /\ x \o back \in Seq(Review) /\ Len(x \o back) = Len(x) + Len(back)
        /\ \A k \in 1..(Len(x) + Len(back)) : (x \o back)[k] =
             IF k <= Len(x) THEN x[k] ELSE back[k - Len(x)]
    BY <1>3, ConcatProperties
  <2> QED
    BY <1>3, <2>1, <2>2, <2>3
<1>6. InsertAt(s, i, r) = (front \o <<r>>) \o back
  BY DEF InsertAt, front, back
<1>7. i + (n - i + 1) = n + 1
  BY <1>1 DEF n
<1>8. ASSUME NEW k \in 1..(n + 1)
      PROVE  ((front \o <<r>>) \o back)[k] = IF k < i THEN s[k] ELSE IF k = i THEN r ELSE s[k - 1]
  <2>1. CASE k < i
    <3>1. k \in 1..i /\ k \in 1..(i - 1) /\ k <= i - 1 /\ k <= i
      BY <1>1, <2>1 DEF n
    <3> QED
      BY <1>2, <1>4, <1>5, <1>7, <2>1, <3>1
  <2>2. CASE k = i
    <3>1. k \in 1..i /\ ~(k <= i - 1) /\ k <= i
      BY <1>1, <2>2 DEF n
    <3> QED
      BY <1>4, <1>5, <1>7, <2>2, <3>1
  <2>3. CASE k > i
    <3>1. ~(k <= i) /\ k - i \in 1..(n - i + 1) /\ i + (k - i) - 1 = k - 1
      BY <1>1, <2>3 DEF n
    <3> QED
      BY <1>3, <1>5, <1>7, <2>3, <3>1
  <2>4. k < i \/ k = i \/ k > i
    BY <1>1 DEF n
  <2> QED
    BY <2>1, <2>2, <2>3, <2>4
<1> QED
  BY <1>5, <1>6, <1>7, <1>8 DEF n

LEMMA Removed ==
  ASSUME NEW s \in Seq(Review), NEW i \in 1..Len(s)
  PROVE  /\ RemoveAt(s, i) \in Seq(Review) /\ Len(RemoveAt(s, i)) = Len(s) - 1
         /\ \A k \in 1..(Len(s) - 1) :
              RemoveAt(s, i)[k] = IF k < i THEN s[k] ELSE s[k + 1]
<1> DEFINE front == SubSeq(s, 1, i - 1)
           back == SubSeq(s, i + 1, Len(s))
           n == Len(s)
<1>1. n \in Nat /\ \A k \in 1..n : s[k] \in Review
  BY SeqParts
<1>2. /\ front \in Seq(Review) /\ Len(front) = i - 1
      /\ \A k \in 1..(i - 1) : front[k] = s[k]
  <2>1. \A k \in 1..(i - 1) : k \in 1..n /\ s[k] \in Review
    BY <1>1
  <2>2. 1 \in Int /\ i - 1 \in Int
    BY <1>1
  <2>3. /\ front \in Seq(Review) /\ Len(front) = IF 1 <= i - 1 THEN (i - 1) - 1 + 1 ELSE 0
        /\ \A k \in 1..((i - 1) - 1 + 1) : front[k] = s[1 + k - 1]
    BY <2>1, <2>2, SubSeqProperties
  <2> HIDE DEF front
  <2> QED
    BY <1>1, <2>3
<1>3. /\ back \in Seq(Review) /\ Len(back) = n - i
      /\ \A k \in 1..(n - i) : back[k] = s[i + k]
  <2>1. \A k \in (i + 1)..n : k \in 1..n /\ s[k] \in Review
    BY <1>1
  <2>2. i + 1 \in Int /\ n \in Int
    BY <1>1
  <2>3. /\ back \in Seq(Review) /\ Len(back) = IF i + 1 <= n THEN n - (i + 1) + 1 ELSE 0
        /\ \A k \in 1..(n - (i + 1) + 1) : back[k] = s[(i + 1) + k - 1]
    BY <2>1, <2>2, SubSeqProperties
  <2> HIDE DEF back
  <2> QED
    BY <1>1, <2>3
<1> HIDE DEF front, back, n
<1>4. /\ front \o back \in Seq(Review) /\ Len(front \o back) = (i - 1) + (n - i)
      /\ \A k \in 1..((i - 1) + (n - i)) : (front \o back)[k] =
           IF k <= i - 1 THEN front[k] ELSE back[k - (i - 1)]
  <2>1. /\ front \o back \in Seq(Review) /\ Len(front \o back) = Len(front) + Len(back)
        /\ \A k \in 1..(Len(front) + Len(back)) : (front \o back)[k] =
             IF k <= Len(front) THEN front[k] ELSE back[k - Len(front)]
    BY <1>2, <1>3, ConcatProperties
  <2> QED
    BY <1>2, <1>3, <2>1
<1>5. (i - 1) + (n - i) = n - 1
  BY <1>1 DEF n
<1>6. ASSUME NEW k \in 1..(n - 1)
      PROVE  (front \o back)[k] = IF k < i THEN s[k] ELSE s[k + 1]
  <2>1. CASE k < i
    <3>1. k \in 1..(i - 1) /\ k <= i - 1
      BY <1>1, <2>1 DEF n
    <3> QED
      BY <1>2, <1>4, <1>5, <2>1, <3>1
  <2>2. CASE ~(k < i)
    <3>1. ~(k <= i - 1) /\ k - (i - 1) \in 1..(n - i) /\ i + (k - (i - 1)) = k + 1
      BY <1>1, <2>2 DEF n
    <3> QED
      BY <1>3, <1>4, <1>5, <2>2, <3>1
  <2> QED
    BY <2>1, <2>2
<1> QED
  BY <1>4, <1>5, <1>6 DEF RemoveAt, front, back, n

----------------------------------------------------------------------------
(* The shape of the state *)

LEMMA Settings ==
  /\ PageSize \in Nat \ {0} /\ Cap \in Nat \ {0} /\ MaxPages \in Nat \ {0}
  /\ Tolerance \in Nat \ {0} /\ Span \in Nat \ {0}
  /\ MaxPass \in Nat /\ MaxEdit \in Nat /\ MaxRemove \in Nat
<1>1. /\ PageSize \in Nat \ {0} /\ Cap \in Nat \ {0} /\ MaxPages \in Nat \ {0}
      /\ Tolerance \in Nat \ {0} /\ MaxPass \in Nat /\ MaxEdit \in Nat /\ MaxRemove \in Nat
  BY SettingsAssumption, BoundsAssumption
<1>2. Span \in Nat \ {0}
  BY <1>1 DEF Span
<1> QED
  BY <1>1, <1>2

LEMMA PassParts ==
  ASSUME TypeOK, pass # None
  PROVE  /\ pass.offset \in Nat /\ pass.total \in Nat \cup {Unknown}
         /\ pass.pages \in Nat /\ pass.seen \in Nat
         /\ pass.stale \in Nat /\ pass.stale < Tolerance
         /\ pass.rows \in [Review -> Version] /\ pass.shifted \in BOOLEAN
BY Settings DEF TypeOK, Pass

\* The page at the offset: the next reviews, as many as fit or as are left.
LEMMA PageParts ==
  ASSUME TypeOK, pass # None, Page # <<>>
  PROVE  /\ Len(Page) \in Nat \ {0} /\ Len(Page) <= PageSize
         /\ pass.offset + Len(Page) <= Len(source)
         /\ Len(Page) = PageSize \/ pass.offset + Len(Page) = Len(source)
         /\ ToSet(Page) = {source[i] : i \in (pass.offset + 1)..(pass.offset + Len(Page))}
         /\ ToSet(Page) \subseteq Review
<1> DEFINE from == pass.offset
           to == Min2(from + PageSize, Len(source))
<1>1. source \in Seq(Review) /\ Len(source) \in Nat /\ \A i \in 1..Len(source) : source[i] \in Review
  BY SeqParts DEF TypeOK
<1>2. from \in Nat /\ PageSize \in Nat \ {0}
  BY PassParts, Settings
<1>3. /\ to \in Nat /\ to <= from + PageSize /\ to <= Len(source)
      /\ to = from + PageSize \/ to = Len(source)
  BY <1>1, <1>2 DEF Min2
<1> HIDE DEF from, to
<1>4. \A i \in (from + 1)..to : source[i] \in Review
  BY <1>1, <1>2, <1>3
<1>5. from + 1 \in Int /\ to \in Int
  BY <1>2, <1>3
<1>6. /\ Page \in Seq(Review)
      /\ Len(Page) = IF from + 1 <= to THEN to - (from + 1) + 1 ELSE 0
      /\ \A k \in 1..(to - (from + 1) + 1) : Page[k] = source[(from + 1) + k - 1]
  BY <1>4, <1>5, SubSeqProperties DEF Page, from, to
<1>7. Len(Page) \in Nat \ {0}
  BY <1>6, EmptySeq
<1>8. Len(Page) = to - from /\ \A k \in 1..Len(Page) : Page[k] = source[from + k]
  BY <1>2, <1>3, <1>6, <1>7
<1>9. ToSet(Page) = {Page[k] : k \in 1..Len(Page)}
  BY <1>6, SeqParts
<1> DEFINE n == Len(Page)
<1> HIDE DEF n
<1>10. ToSet(Page) = {source[i] : i \in (from + 1)..(from + n)}
  <2>1. ASSUME NEW k \in 1..n PROVE Page[k] \in {source[i] : i \in (from + 1)..(from + n)}
    BY <1>2, <1>7, <1>8, <2>1 DEF n
  <2>2. ASSUME NEW i \in (from + 1)..(from + n) PROVE source[i] \in ToSet(Page)
    <3>1. i - from \in 1..n /\ from + (i - from) = i
      BY <1>2, <1>7, <2>2 DEF n
    <3> QED
      BY <1>8, <1>9, <3>1 DEF n
  <2> QED
    BY <1>9, <2>1, <2>2 DEF n
<1>11. ToSet(Page) \subseteq Review
  BY <1>2, <1>3, <1>4, <1>8, <1>10 DEF n
<1>12. n \in Nat \ {0} /\ n <= PageSize /\ from + n <= Len(source)
       /\ (n = PageSize \/ from + n = Len(source))
  BY <1>1, <1>2, <1>3, <1>7, <1>8 DEF n
<1> QED
  BY <1>10, <1>11, <1>12 DEF from, n

LEMMA PageServed == ASSUME TypeOK, pass # None, Page # <<>> PROVE ToSet(Page) \subseteq Served
<1>1. /\ Len(Page) \in Nat /\ pass.offset \in Nat /\ pass.offset + Len(Page) <= Len(source)
      /\ ToSet(Page) = {source[i] : i \in (pass.offset + 1)..(pass.offset + Len(Page))}
  BY PageParts, PassParts
<1>2. Len(source) \in Nat /\ Served = {source[i] : i \in 1..Len(source)}
  BY SeqParts DEF TypeOK, Served
<1> QED
  BY <1>1, <1>2

LEMMA VersionTyped == ASSUME TypeOK PROVE \A r \in Review : version[r] \in Version \ {Absent}
BY Settings DEF TypeOK, Version, Absent

LEMMA UpsertedTyped ==
  ASSUME TypeOK, pass # None, NEW page
  PROVE  /\ Upserted(page) \in [Review -> Version]
         /\ \A r \in Review : Upserted(page)[r] = Absent =>
              r \notin ToSet(page) /\ pass.rows[r] = Absent
<1>1. pass.rows \in [Review -> Version]
  BY PassParts
<1> QED
  BY <1>1, VersionTyped DEF Upserted

\* How a pass ends, whatever ends it.
LEMMA EndedTyped ==
  ASSUME TypeOK, NEW contents \in [Review -> Version], NEW whole \in BOOLEAN,
         Ended(contents, whole)
  PROVE  TypeOK'
<1>1. Served \subseteq Review
  BY SeqParts DEF TypeOK, Served
<1>2. skipped' \subseteq Review /\ start' \subseteq Review \ unpublished
  BY <1>1 DEF Ended, TypeOK
<1> QED
  BY <1>2 DEF Ended, TypeOK, sourceVars, Served

LEMMA ShiftedTyped ==
  ASSUME TypeOK, pass' = Shifted
  PROVE  pass' # None =>
           /\ pass # None /\ pass' \in Pass /\ pass'.shifted
           /\ pass'.total = pass.total /\ pass'.offset = pass.offset
           /\ pass'.seen = pass.seen /\ pass'.pages = pass.pages /\ pass'.rows = pass.rows
<1> SUFFICES ASSUME pass' # None PROVE pass # None /\ pass \in Pass
  BY DEF Shifted, Pass
<1> QED
  BY DEF Shifted, TypeOK

\* A new review, behind fewer than Span others.
LEMMA PublishParts ==
  ASSUME TypeOK, NEW r \in Review, Publish(r)
  PROVE  \E i \in 1..Span :
           /\ i <= Len(source) + 1 /\ source' \in Seq(Review) /\ Len(source') = Len(source) + 1
           /\ \A k \in 1..(Len(source) + 1) :
                source'[k] = IF k < i THEN source[k] ELSE IF k = i THEN r ELSE source[k - 1]
<1>1. /\ source \in Seq(Review) /\ IsInjective(source) /\ Len(source) \in Nat
      /\ DOMAIN source = 1..Len(source) /\ Served = {source[i] : i \in 1..Len(source)}
  BY SeqParts DEF TypeOK, Served
<1>2. PICK i \in 1..Min2(Len(source) + 1, Tolerance * PageSize) : source' = InsertAt(source, i, r)
  BY DEF Publish
<1>3. i \in 1..(Len(source) + 1) /\ i \in 1..Span
  BY <1>1, Settings DEF Min2, Span
<1> DEFINE n == Len(source)
<1>4. /\ source' \in Seq(Review) /\ Len(source') = n + 1
      /\ \A k \in 1..(n + 1) :
           source'[k] = IF k < i THEN source[k] ELSE IF k = i THEN r ELSE source[k - 1]
  <2> HIDE DEF n
  <2>1. source \in Seq(Review) /\ i \in 1..(Len(source) + 1) /\ r \in Review
    BY <1>1, <1>3
  <2>2. /\ InsertAt(source, i, r) \in Seq(Review) /\ Len(InsertAt(source, i, r)) = Len(source) + 1
        /\ \A k \in 1..(Len(source) + 1) : InsertAt(source, i, r)[k] =
             IF k < i THEN source[k] ELSE IF k = i THEN r ELSE source[k - 1]
    <3>1. InsertAt(source, i, r) \in Seq(Review) /\ Len(InsertAt(source, i, r)) = Len(source) + 1
      BY <2>1, Inserted
    <3>2. ASSUME NEW k \in 1..(Len(source) + 1)
          PROVE  InsertAt(source, i, r)[k] =
                   IF k < i THEN source[k] ELSE IF k = i THEN r ELSE source[k - 1]
      BY <2>1, Inserted
    <3> QED
      BY <3>1, <3>2
  <2> QED
    BY <1>2, <2>2, Zenon DEF n
<1> HIDE DEF n
<1> QED
  BY <1>3, <1>4 DEF n

LEMMA PublishTyped ==
  ASSUME TypeOK, NEW r \in Review, Publish(r)
  PROVE  TypeOK'
<1>1. /\ source \in Seq(Review) /\ IsInjective(source) /\ Len(source) \in Nat
      /\ DOMAIN source = 1..Len(source) /\ Served = {source[i] : i \in 1..Len(source)}
  BY SeqParts DEF TypeOK, Served
<1> DEFINE n == Len(source)
<1>2. PICK i \in 1..Span :
        /\ i <= n + 1 /\ source' \in Seq(Review) /\ Len(source') = n + 1
        /\ \A k \in 1..(n + 1) :
             source'[k] = IF k < i THEN source[k] ELSE IF k = i THEN r ELSE source[k - 1]
  BY PublishParts
<1>3. i \in 1..(n + 1)
  BY <1>1, <1>2, Settings
<1>4. /\ source' \in Seq(Review) /\ Len(source') = n + 1
      /\ \A k \in 1..(n + 1) :
           source'[k] = IF k < i THEN source[k] ELSE IF k = i THEN r ELSE source[k - 1]
  BY <1>2
<1>5. /\ r \in unpublished /\ unpublished' = unpublished \ {r}
      /\ unpublished \subseteq Review \ Served
      /\ \A k \in 1..n : source[k] # r
  BY <1>1 DEF Publish, TypeOK
<1>6. DOMAIN source' = 1..(n + 1) /\ ToSet(source') = {source'[k] : k \in 1..(n + 1)}
  BY <1>4, SeqParts
<1>7. \A k \in 1..(n + 1) : /\ k < i => k \in 1..n
                            /\ k > i => k - 1 \in 1..n
                            /\ k < i \/ k = i \/ k > i
  BY <1>1, <1>3
<1> HIDE DEF n
<1>8. IsInjective(source')
  <2> SUFFICES ASSUME NEW j \in 1..(n + 1), NEW k \in 1..(n + 1), source'[j] = source'[k]
               PROVE  j = k
    BY <1>6 DEF IsInjective
  <2>1. \A a, b \in 1..n : source[a] = source[b] => a = b
    BY <1>1 DEF IsInjective, n
  <2>2. CASE j = i \/ k = i
    BY <1>3, <1>4, <1>5, <1>7, <2>2
  <2>3. CASE j # i /\ k # i
    <3> DEFINE a == IF j < i THEN j ELSE j - 1
               b == IF k < i THEN k ELSE k - 1
    <3>1. a \in 1..n /\ b \in 1..n /\ source'[j] = source[a] /\ source'[k] = source[b]
      BY <1>4, <1>7, <2>3
    <3>2. a = b
      BY <2>1, <3>1
    <3> QED
      BY <1>3, <1>7, <2>3, <3>2
  <2> QED
    BY <2>2, <2>3
<1>9. unpublished' \subseteq Review \ ToSet(source')
  <2> SUFFICES ASSUME NEW k \in 1..(n + 1) PROVE source'[k] \notin unpublished'
    BY <1>5, <1>6
  <2>1. \A j \in 1..n : source[j] \notin unpublished
    BY <1>1, <1>5 DEF n
  <2> QED
    BY <1>4, <1>5, <1>7, <2>1
<1>10. UNCHANGED <<kind, version, edits, removals, stored, synced, passes, start, result, skipped>>
       /\ pass' = Shifted
  BY DEF Publish, rows
<1>11. start' \subseteq Review \ unpublished'
  BY <1>5, <1>10 DEF TypeOK
<1> QED
  BY <1>4, <1>8, <1>9, <1>10, <1>11, ShiftedTyped DEF TypeOK, Served

\* One review less.
LEMMA WithdrawParts ==
  ASSUME TypeOK, NEW r \in Review, Withdraw(r)
  PROVE  \E i \in 1..Len(source) :
           /\ source' \in Seq(Review) /\ Len(source') = Len(source) - 1
           /\ \A k \in 1..(Len(source) - 1) :
                source'[k] = IF k < i THEN source[k] ELSE source[k + 1]
<1>1. /\ source \in Seq(Review) /\ IsInjective(source) /\ Len(source) \in Nat
      /\ DOMAIN source = 1..Len(source) /\ Served = {source[i] : i \in 1..Len(source)}
  BY SeqParts DEF TypeOK, Served
<1>2. PICK i \in 1..Len(source) : source' = RemoveAt(source, i)
  BY <1>1 DEF Withdraw
<1> DEFINE n == Len(source)
<1>3. /\ source' \in Seq(Review) /\ Len(source') = n - 1
      /\ \A k \in 1..(n - 1) : source'[k] = IF k < i THEN source[k] ELSE source[k + 1]
  BY <1>1, <1>2, Removed
<1> HIDE DEF n
<1> QED
  BY <1>2, <1>3 DEF n

LEMMA WithdrawTyped ==
  ASSUME TypeOK, NEW r \in Review, Withdraw(r)
  PROVE  TypeOK'
<1>1. /\ source \in Seq(Review) /\ IsInjective(source) /\ Len(source) \in Nat
      /\ DOMAIN source = 1..Len(source) /\ Served = {source[i] : i \in 1..Len(source)}
  BY SeqParts DEF TypeOK, Served
<1> DEFINE n == Len(source)
<1>2. PICK i \in 1..n :
        /\ source' \in Seq(Review) /\ Len(source') = n - 1
        /\ \A k \in 1..(n - 1) : source'[k] = IF k < i THEN source[k] ELSE source[k + 1]
  BY WithdrawParts
<1>3. /\ source' \in Seq(Review) /\ Len(source') = n - 1
      /\ \A k \in 1..(n - 1) : source'[k] = IF k < i THEN source[k] ELSE source[k + 1]
  BY <1>2
<1>4. DOMAIN source' = 1..(n - 1) /\ ToSet(source') = {source'[k] : k \in 1..(n - 1)}
  BY <1>3, SeqParts
<1>5. \A k \in 1..(n - 1) : k \in 1..n /\ k + 1 \in 1..n
  BY <1>1
<1> HIDE DEF n
<1>6. IsInjective(source')
  <2> SUFFICES ASSUME NEW j \in 1..(n - 1), NEW k \in 1..(n - 1), source'[j] = source'[k]
               PROVE  j = k
    BY <1>4 DEF IsInjective
  <2> DEFINE a == IF j < i THEN j ELSE j + 1
             b == IF k < i THEN k ELSE k + 1
  <2>1. a \in 1..n /\ b \in 1..n /\ source'[j] = source[a] /\ source'[k] = source[b]
    BY <1>3, <1>5
  <2>2. a = b
    BY <1>1, <2>1 DEF IsInjective, n
  <2> QED
    BY <1>2, <1>5, <2>2 DEF n
<1>7. ToSet(source') \subseteq Served
  BY <1>1, <1>3, <1>4, <1>5 DEF n
<1>8. UNCHANGED <<kind, version, unpublished, edits, stored, synced, passes, start, result, skipped>>
      /\ pass' = Shifted /\ removals' \in 0..MaxRemove
  BY Settings DEF Withdraw, rows, TypeOK
<1>9. unpublished' \subseteq Review \ ToSet(source')
  BY <1>7, <1>8 DEF TypeOK
<1> QED
  BY <1>3, <1>6, <1>8, <1>9, ShiftedTyped DEF TypeOK, Served

\* A pass with another page behind it.
Turn(p, offset, total, pages, seen, stale, contents) ==
  [p EXCEPT !.offset = offset, !.total = total, !.pages = pages, !.seen = seen,
            !.stale = stale, !.rows = contents]

\* What a page changes.
LEMMA ReadParts ==
  ASSUME TypeOK, Read
  PROVE  /\ pass # None /\ Page # <<>> /\ pass.seen < Cap /\ Stale(Page) < Tolerance
         /\ pass' \in Pass /\ pass'.shifted = pass.shifted /\ pass'.rows = Upserted(Page)
         /\ pass'.offset = pass.offset + Len(Page) /\ pass'.total = Len(source)
         /\ pass'.pages = pass.pages + 1 /\ pass'.seen = pass.seen + Len(Page)
         /\ pass'.stale = Stale(Page)
         /\ UNCHANGED <<kind, source, version, unpublished, edits, removals, stored, synced,
                        passes, start, result, skipped>>
<1>1. pass # None /\ Page # <<>> /\ pass.seen < Cap /\ Stale(Page) < Tolerance
  BY DEF Read, Asks
<1>2. pass' = Turn(pass, NextOffset(Page), Len(source), pass.pages + 1, pass.seen + Len(Page),
                   Stale(Page), Upserted(Page))
  BY Zenon DEF Read, Turn
<1>3. Len(Page) \in Nat \ {0} /\ Len(source) \in Nat /\ Upserted(Page) \in [Review -> Version]
  BY <1>1, PageParts, UpsertedTyped, SeqParts DEF TypeOK
<1>4. pass.offset \in Nat /\ pass.pages \in Nat /\ pass.seen \in Nat /\ pass.stale \in Nat
  BY <1>1, PassParts
<1>5. pass \in Pass
  BY <1>1 DEF TypeOK
<1>6. Stale(Page) \in 0..(Tolerance - 1)
  BY <1>1, <1>4, Settings DEF Stale
<1>7. /\ pass.pages + 1 \in Nat /\ pass.seen + Len(Page) \in Nat
      /\ NextOffset(Page) = pass.offset + Len(Page) /\ NextOffset(Page) \in Nat
  BY <1>3, <1>4 DEF NextOffset
<1>8. UNCHANGED <<kind, source, version, unpublished, edits, removals, stored, synced, passes,
                  start, result, skipped>>
  BY DEF Read, sourceVars, rows
<1>9. /\ pass' \in Pass /\ pass'.offset = NextOffset(Page) /\ pass'.total = Len(source)
      /\ pass'.pages = pass.pages + 1 /\ pass'.seen = pass.seen + Len(Page)
      /\ pass'.stale = Stale(Page) /\ pass'.rows = Upserted(Page)
      /\ pass'.shifted = pass.shifted
  <2>1. PICK offset \in Nat, total \in Nat, pages \in Nat, seen \in Nat :
          /\ offset = NextOffset(Page) /\ total = Len(source)
          /\ pages = pass.pages + 1 /\ seen = pass.seen + Len(Page)
    BY <1>3, <1>7
  <2>2. PICK stale \in 0..(Tolerance - 1), contents \in [Review -> Version] :
          stale = Stale(Page) /\ contents = Upserted(Page)
    BY <1>3, <1>6
  <2>3. PICK p \in Pass : p = pass
    BY <1>5
  <2>4. PICK q : q = pass'
    OBVIOUS
  <2>5. p.full \in BOOLEAN /\ p.shifted \in BOOLEAN
    BY <2>3 DEF Pass
  <2>6. q = [p EXCEPT !.offset = offset, !.total = total, !.pages = pages, !.seen = seen,
                      !.stale = stale, !.rows = contents]
    BY <1>2, <2>1, <2>2, <2>3, <2>4 DEF Turn
  <2>7. q = [full |-> p.full, offset |-> offset, total |-> total, pages |-> pages, seen |-> seen,
             stale |-> stale, rows |-> contents, shifted |-> p.shifted]
    BY <2>3, <2>6 DEF Pass
  <2>8. q \in Pass
    BY <2>1, <2>2, <2>5, <2>7 DEF Pass
  <2>9. /\ q.offset = offset /\ q.total = total /\ q.pages = pages /\ q.seen = seen
        /\ q.stale = stale /\ q.rows = contents /\ q.shifted = p.shifted
    BY <2>7
  <2> QED
    BY <2>1, <2>2, <2>3, <2>4, <2>8, <2>9
<1> QED
  BY <1>1, <1>7, <1>8, <1>9

LEMMA ReadTyped ==
  ASSUME TypeOK, Read
  PROVE  TypeOK'
<1>1. /\ pass # None /\ Page # <<>> /\ pass' \in Pass /\ pass.seen < Cap
      /\ pass'.offset = pass.offset + Len(Page) /\ pass'.total = Len(source)
      /\ pass'.seen = pass.seen + Len(Page) /\ pass'.pages = pass.pages + 1
      /\ UNCHANGED <<kind, source, version, unpublished, edits, removals, stored, synced,
                     passes, start, result, skipped>>
  BY ReadParts
<1>2. Len(Page) \in Nat \ {0} /\ Len(Page) <= PageSize /\ pass.offset + Len(Page) <= Len(source)
  BY <1>1, PageParts
<1>3. pass.pages \in Nat /\ pass.seen \in Nat /\ pass.pages <= pass.seen
  BY <1>1, PassParts DEF TypeOK
<1>4. /\ pass'.offset <= pass'.total /\ pass'.seen < Cap + PageSize
      /\ pass'.pages <= pass'.seen
  BY <1>1, <1>2, <1>3, Settings
<1> QED
  BY <1>1, <1>4 DEF TypeOK, Served

LEMMA TypeInvariant == ASSUME TypeOK, [Next]_vars PROVE TypeOK'
<1>1. ASSUME NEW r \in Review, Publish(r) PROVE TypeOK'
  BY <1>1, PublishTyped
<1>2. ASSUME NEW r \in Review, Withdraw(r) PROVE TypeOK'
  BY <1>2, WithdrawTyped
<1>3. ASSUME NEW r \in Review, Edit(r) PROVE TypeOK'
  <2>1. edits' = edits + 1 /\ edits' \in 0..MaxEdit /\ edits \in Nat
    BY <1>3, Settings DEF Edit, TypeOK
  <2>2. version' \in [Review -> 0..edits']
    BY <1>3, <2>1 DEF Edit, TypeOK
  <2> QED
    BY <1>3, <2>1, <2>2 DEF Edit, TypeOK, rows, Served
<1>4. CASE Start
  <2>1. pass' = [full |-> NeedsFullResync, offset |-> 0, total |-> Unknown, pages |-> 0,
                 seen |-> 0, stale |-> 0, rows |-> stored, shifted |-> FALSE]
    BY <1>4 DEF Start
  <2>2. pass' \in Pass
    BY <2>1, Settings DEF Pass, TypeOK, NeedsFullResync
  <2>3. pass'.total = Unknown /\ pass'.pages = 0 /\ pass'.seen = 0
    BY <2>1
  <2>4. start' \subseteq Review \ unpublished
    BY <1>4, SeqParts DEF Start, TypeOK, Served
  <2>5. passes' \in 0..MaxPass
    BY <1>4, Settings DEF Start, TypeOK
  <2>6. UNCHANGED <<kind, source, version, unpublished, edits, removals, stored, synced, skipped>>
        /\ result' = "none"
    BY <1>4 DEF Start, sourceVars, rows
  <2> QED
    BY <2>2, <2>3, <2>4, <2>5, <2>6, Settings DEF TypeOK, Served
<1>5. CASE Read
  BY <1>5, ReadTyped
<1>6. CASE StopStale
  <2>1. pass # None /\ pass.shifted \in BOOLEAN
    BY <1>6, PassParts DEF StopStale
  <2>2. Upserted(Page) \in [Review -> Version]
    BY <2>1, UpsertedTyped
  <2> QED
    BY <1>6, <2>1, <2>2, EndedTyped DEF StopStale
<1>7. CASE StopExhausted
  BY <1>7, PassParts, EndedTyped DEF StopExhausted
<1>8. CASE StopLimited
  BY <1>8, PassParts, EndedTyped DEF StopLimited
<1>9. CASE StreamFailed
  BY <1>9, PassParts, EndedTyped DEF StreamFailed
<1>10. CASE Rollback
  BY <1>10 DEF Rollback, TypeOK, sourceVars, rows, Served
<1>11. CASE Age
  BY <1>11 DEF Age, TypeOK, sourceVars, Served
<1>12. CASE UNCHANGED vars
  BY <1>12 DEF vars, sourceVars, rows, TypeOK, Served
<1> QED
  BY <1>1, <1>2, <1>3, <1>4, <1>5, <1>6, <1>7, <1>8, <1>9, <1>10, <1>11, <1>12 DEF Next

LEMMA TypeInit == Init => TypeOK
<1> SUFFICES ASSUME Init PROVE TypeOK
  OBVIOUS
<1>1. source \in Seq(Review) /\ IsInjective(source) /\ unpublished = Review \ Served
  BY FirstAssumption DEF Init, Served
<1>2. /\ version \in [Review -> 0..edits] /\ stored \in [Review -> Version]
  BY DEF Init, Version
<1>3. edits \in 0..MaxEdit /\ removals \in 0..MaxRemove /\ passes \in 0..MaxPass
  BY Settings DEF Init
<1> QED
  BY <1>1, <1>2, <1>3 DEF Init, TypeOK

\* The types hold whatever the source does between two pages; and no pass asks for
\* a page beyond the total it was given, or reads more than a page past its cap.
THEOREM TypeCorrect == Spec => []TypeOK
<1> QED
  BY TypeInit, TypeInvariant, PTL DEF Spec

----------------------------------------------------------------------------
(* What a pass leaves *)

Inv == TypeOK /\ FrontInv /\ ComingInv /\ PassInv

LEMMA Narrower ==
  ASSUME NEW s, NEW c, NEW m \in Nat \ {0}, NEW A, A \subseteq KnownBefore(s, c, m),
         Cardinality(KnownBefore(s, c, m)) < Span
  PROVE  Cardinality(A) < Span
<1>1. /\ IsFiniteSet(KnownBefore(s, c, m)) /\ Cardinality(KnownBefore(s, c, m)) \in Nat
  BY FrontSize DEF KnownBefore
<1>2. IsFiniteSet(A) /\ Cardinality(A) <= Cardinality(KnownBefore(s, c, m))
  BY <1>1, FS_Subset
<1>3. Cardinality(A) \in Nat
  BY <1>2, FS_CardinalityType
<1> QED
  BY <1>1, <1>2, <1>3, Settings

LEMMA PublishFront ==
  ASSUME Inv, NEW r \in Review, Publish(r)
  PROVE  FrontInv'
<1> DEFINE n == Len(source)
<1>1. /\ n \in Nat /\ DOMAIN source = 1..n /\ \A k \in 1..n : source[k] \in Review
  BY SeqParts DEF Inv, TypeOK
<1>2. PICK i \in 1..Span :
        /\ i <= n + 1 /\ source' \in Seq(Review) /\ Len(source') = n + 1
        /\ \A k \in 1..(n + 1) :
             source'[k] = IF k < i THEN source[k] ELSE IF k = i THEN r ELSE source[k - 1]
  BY PublishParts DEF Inv
<1>3. i \in 1..(n + 1) /\ DOMAIN source' = 1..(n + 1)
  BY <1>1, <1>2, Settings, SeqParts
<1>4. stored' = stored /\ skipped' = skipped /\ r \in unpublished
  BY DEF Publish, rows
<1>5. stored[r] = Absent
  BY <1>4 DEF Inv, ComingInv
<1> HIDE DEF n
<1>6. SUFFICES ASSUME NEW k \in 1..(n + 1), stored[source'[k]] = Absent, source'[k] \notin skipped
               PROVE  Cardinality(KnownBefore(source', stored, k)) < Span
  BY <1>3, <1>4 DEF FrontInv
<1> DEFINE A == KnownBefore(source', stored, k)
<1>7. \A q \in A : \E j \in 1..(k - 1) :
        source'[j] = q /\ source'[j] = (IF j < i THEN source[j] ELSE IF j = i THEN r ELSE source[j - 1])
  <2> SUFFICES ASSUME NEW q \in A
               PROVE  \E j \in 1..(k - 1) : source'[j] = q /\ source'[j] =
                        (IF j < i THEN source[j] ELSE IF j = i THEN r ELSE source[j - 1])
    OBVIOUS
  <2>1. PICK j \in 1..(k - 1) : source'[j] = q
    BY DEF KnownBefore
  <2>2. j \in 1..(n + 1)
    BY <1>1, <2>1
  <2> QED
    BY <1>2, <2>1, <2>2
<1>8. \A q \in A : q \in Review /\ stored[q] # Absent
  BY DEF KnownBefore
<1> HIDE DEF A
<1>9. CASE k < i
  <2>1. k \in 1..n /\ source'[k] = source[k] /\ k \in Nat \ {0}
    BY <1>1, <1>2, <1>3, <1>9
  <2>2. Cardinality(KnownBefore(source, stored, k)) < Span
    BY <1>1, <1>6, <2>1 DEF Inv, FrontInv
  <2>3. ASSUME NEW q \in A PROVE q \in KnownBefore(source, stored, k)
    <3>1. PICK j \in 1..(k - 1) :
            source'[j] = q /\ source'[j] = (IF j < i THEN source[j] ELSE IF j = i THEN r ELSE source[j - 1])
      BY <1>7
    <3>2. j < i
      BY <1>3, <1>9, <2>1, <3>1
    <3>3. source[j] = q
      BY <3>1, <3>2
    <3> QED
      BY <1>8, <3>3 DEF KnownBefore
  <2>4. Cardinality(A) < Span
    BY <2>1, <2>2, <2>3, Narrower
  <2> QED
    BY <2>4 DEF A
<1>10. CASE k = i
  <2>1. k \in Nat \ {0} /\ k <= Span
    BY <1>1, <1>2, <1>3, <1>10
  <2>2. \A q \in A : \E j \in 1..(k - 1) : source'[j] = q
    BY <1>7
  <2>3. PICK t : t = source'
    OBVIOUS
  <2>4. Cardinality(A) \in Nat /\ Cardinality(A) <= k - 1
    BY <2>1, <2>2, <2>3, FrontSize
  <2>5. Cardinality(A) < Span
    BY <2>1, <2>4, Settings
  <2> QED
    BY <2>5 DEF A
<1>11. CASE k > i
  <2>1. k - 1 \in 1..n /\ source'[k] = source[k - 1] /\ k - 1 \in Nat \ {0}
    <3>1. k - 1 \in 1..n /\ ~(k < i) /\ k # i /\ k - 1 \in Nat \ {0}
      BY <1>1, <1>3, <1>11
    <3> QED
      BY <1>2, <3>1
  <2>2. Cardinality(KnownBefore(source, stored, k - 1)) < Span
    BY <1>1, <1>6, <2>1 DEF Inv, FrontInv
  <2>3. ASSUME NEW q \in A PROVE q \in KnownBefore(source, stored, k - 1)
    <3>1. PICK j \in 1..(k - 1) :
            source'[j] = q /\ source'[j] = (IF j < i THEN source[j] ELSE IF j = i THEN r ELSE source[j - 1])
      BY <1>7
    <3>2. j # i
      BY <1>5, <1>8, <3>1
    <3>3. \E m \in 1..((k - 1) - 1) : source[m] = q
      <4>1. CASE j < i
        <5>1. j \in 1..((k - 1) - 1)
          BY <1>3, <1>11, <4>1
        <5> QED
          BY <3>1, <4>1, <5>1
      <4>2. CASE ~(j < i)
        <5>1. j - 1 \in 1..((k - 1) - 1)
          BY <1>3, <1>11, <3>2, <4>2
        <5> QED
          BY <3>1, <3>2, <4>2, <5>1
      <4> QED
        BY <4>1, <4>2
    <3> QED
      BY <1>8, <3>3 DEF KnownBefore
  <2>4. Cardinality(A) < Span
    BY <2>1, <2>2, <2>3, Narrower
  <2> QED
    BY <2>4 DEF A
<1> QED
  BY <1>3, <1>9, <1>10, <1>11 DEF A

LEMMA WithdrawFront ==
  ASSUME Inv, NEW r \in Review, Withdraw(r)
  PROVE  FrontInv'
<1> DEFINE n == Len(source)
<1>1. /\ n \in Nat /\ DOMAIN source = 1..n /\ \A k \in 1..n : source[k] \in Review
  BY SeqParts DEF Inv, TypeOK
<1>2. PICK i \in 1..n :
        /\ source' \in Seq(Review) /\ Len(source') = n - 1
        /\ \A k \in 1..(n - 1) : source'[k] = IF k < i THEN source[k] ELSE source[k + 1]
  BY WithdrawParts DEF Inv
<1>3. DOMAIN source' = 1..(n - 1)
  BY <1>2, SeqParts
<1>4. stored' = stored /\ skipped' = skipped
  BY DEF Withdraw, rows
<1> HIDE DEF n
<1>5. SUFFICES ASSUME NEW k \in 1..(n - 1), stored[source'[k]] = Absent, source'[k] \notin skipped
               PROVE  Cardinality(KnownBefore(source', stored, k)) < Span
  BY <1>3, <1>4 DEF FrontInv
<1> DEFINE A == KnownBefore(source', stored, k)
           m == IF k < i THEN k ELSE k + 1
<1>6. m \in 1..n /\ m \in Nat \ {0} /\ source'[k] = source[m]
  BY <1>1, <1>2
<1>7. Cardinality(KnownBefore(source, stored, m)) < Span
  BY <1>1, <1>5, <1>6 DEF Inv, FrontInv
<1>8. ASSUME NEW q \in A PROVE q \in KnownBefore(source, stored, m)
  <2>1. PICK j \in 1..(k - 1) : source'[j] = q
    BY DEF KnownBefore
  <2>2. j \in 1..(n - 1)
    BY <1>1, <2>1
  <2>3. \E a \in 1..(m - 1) : source[a] = q
    <3>1. CASE j < i
      <4>1. j \in 1..(m - 1) /\ source[j] = q
        BY <1>2, <2>1, <2>2, <3>1
      <4> QED
        BY <4>1
    <3>2. CASE ~(j < i)
      <4>1. j + 1 \in 1..(m - 1) /\ source[j + 1] = q
        BY <1>2, <2>1, <2>2, <3>2
      <4> QED
        BY <4>1
    <3> QED
      BY <3>1, <3>2
  <2> QED
    BY <2>3 DEF KnownBefore
<1> HIDE DEF A, m
<1>9. Cardinality(A) < Span
  BY <1>6, <1>7, <1>8, Narrower
<1> QED
  BY <1>9 DEF A

\* A page is read: it lies behind what the pass has read, and what it says of a
\* review is a version, never nothing.
LEMMA PageInv ==
  ASSUME Inv, pass # None, ~pass.shifted, Page # <<>>
  PROVE  /\ \A i \in DOMAIN source :
              i <= pass.offset + Len(Page) => Upserted(Page)[source[i]] # Absent
         /\ \A i \in DOMAIN source :
              i > pass.offset + Len(Page) => Upserted(Page)[source[i]] = stored[source[i]]
         /\ Touched(Page) = {} =>
              \A i \in DOMAIN source :
                pass.offset < i /\ i <= pass.offset + Len(Page) => stored[source[i]] # Absent
<1> DEFINE n == Len(Page)
<1>1. /\ n \in Nat \ {0} /\ pass.offset \in Nat
      /\ ToSet(Page) = {source[i] : i \in (pass.offset + 1)..(pass.offset + n)}
  BY PageParts, PassParts DEF Inv
<1>2. /\ DOMAIN source = 1..Len(source) /\ Len(source) \in Nat
      /\ \A i \in 1..Len(source) : source[i] \in Review
      /\ \A i, j \in 1..Len(source) : source[i] = source[j] => i = j
      /\ pass.offset + n <= Len(source)
  BY SeqParts, PageParts DEF Inv, TypeOK, IsInjective
<1>3. \A r \in Review : version[r] # Absent
  BY VersionTyped DEF Inv
<1>4. \A i \in 1..Len(source) :
        IF i <= pass.offset THEN pass.rows[source[i]] # Absent
        ELSE pass.rows[source[i]] = stored[source[i]]
  BY <1>2 DEF Inv, PassInv
<1> HIDE DEF n
<1>5. \A i \in 1..Len(source) :
        source[i] \in ToSet(Page) <=> pass.offset < i /\ i <= pass.offset + n
  BY <1>1, <1>2
<1>6. \A r \in Review :
        Upserted(Page)[r] = IF r \in ToSet(Page) THEN version[r] ELSE pass.rows[r]
  BY DEF Upserted
<1>7. ASSUME NEW i \in 1..Len(source), i <= pass.offset + n
      PROVE  Upserted(Page)[source[i]] # Absent
  BY <1>1, <1>2, <1>3, <1>4, <1>5, <1>6, <1>7
<1>8. ASSUME NEW i \in 1..Len(source), i > pass.offset + n
      PROVE  Upserted(Page)[source[i]] = stored[source[i]]
  BY <1>1, <1>2, <1>4, <1>5, <1>6, <1>8
<1>9. ASSUME Touched(Page) = {}, NEW i \in 1..Len(source), pass.offset < i, i <= pass.offset + n
      PROVE  stored[source[i]] # Absent
  <2>1. source[i] \in ToSet(Page) /\ source[i] \in Review
    BY <1>2, <1>5, <1>9
  <2>2. pass.rows[source[i]] = version[source[i]]
    BY <1>9, <2>1 DEF Touched
  <2> QED
    BY <1>1, <1>3, <1>4, <1>9, <2>1, <2>2
<1> QED
  BY <1>2, <1>7, <1>8, <1>9 DEF n

\* What a pass has just read without news, page after page, was stored before it.
LEMMA StaleRun ==
  ASSUME Inv, pass # None, ~pass.shifted, Page # <<>>, Touched(Page) = {},
         Len(Page) = PageSize, NEW last, last = pass.offset + PageSize,
         NEW run, run = (pass.stale + 1) * PageSize
  PROVE  /\ run <= last
         /\ \A i \in DOMAIN source : last - run < i /\ i <= last => stored[source[i]] # Absent
<1>1. /\ pass.offset \in Nat /\ pass.stale \in Nat /\ PageSize \in Nat /\ PageSize # 0
      /\ Len(source) \in Nat /\ DOMAIN source = 1..Len(source)
      /\ pass.offset + PageSize <= Len(source)
  BY PassParts, PageParts, Settings, SeqParts DEF Inv, TypeOK
<1>2. pass.offset # Len(source)
  BY <1>1
<1>3. /\ pass.stale * PageSize <= pass.offset
      /\ \A i \in DOMAIN source :
           pass.offset - pass.stale * PageSize < i /\ i <= pass.offset =>
             stored[source[i]] # Absent
  BY <1>2 DEF Inv, PassInv
<1>4. PICK before \in Nat : before = pass.stale * PageSize /\ run = before + PageSize
  <2>1. PICK a \in Nat, b \in Nat : a = pass.stale /\ b = PageSize
    BY <1>1
  <2>2. a * b \in Nat /\ (a + 1) * b = a * b + b
    OBVIOUS
  <2> QED
    BY <2>1, <2>2
<1>5. \A i \in DOMAIN source :
        pass.offset < i /\ i <= pass.offset + PageSize => stored[source[i]] # Absent
  BY PageInv
<1>6. ASSUME NEW i \in DOMAIN source, last - run < i, i <= last
      PROVE  stored[source[i]] # Absent
  <2>1. pass.offset - before < i
    BY <1>1, <1>4, <1>6
  <2>2. i <= pass.offset \/ pass.offset < i
    BY <1>1
  <2> QED
    BY <1>3, <1>4, <1>5, <1>6, <2>1, <2>2
<1>7. run <= last
  BY <1>1, <1>3, <1>4
<1> QED
  BY <1>6, <1>7

LEMMA ReadPass ==
  ASSUME Inv, Read
  PROVE  PassInv'
<1>1. /\ pass # None /\ Page # <<>> /\ pass'.shifted = pass.shifted
      /\ pass'.rows = Upserted(Page) /\ pass'.offset = pass.offset + Len(Page)
      /\ pass'.total = Len(source) /\ pass'.stale = Stale(Page)
      /\ source' = source /\ stored' = stored /\ start' = start
  BY ReadParts DEF Inv
<1>2. Served' = Served
  BY <1>1 DEF Served
<1>3. SUFFICES ASSUME ~pass.shifted PROVE PassInv'
  BY <1>1 DEF PassInv
<1>4. /\ Len(Page) \in Nat \ {0} /\ pass.offset + Len(Page) <= Len(source)
      /\ Len(Page) = PageSize \/ pass.offset + Len(Page) = Len(source)
  BY <1>1, PageParts DEF Inv
<1>5. /\ pass.offset \in Nat /\ pass.stale \in Nat /\ PageSize \in Nat \ {0}
      /\ Len(source) \in Nat /\ DOMAIN source = 1..Len(source)
  BY <1>1, PassParts, Settings, SeqParts DEF Inv, TypeOK
<1>6. start = Served
  BY <1>1, <1>3 DEF Inv, PassInv
<1>7. \A i \in DOMAIN source :
        IF i <= pass.offset + Len(Page) THEN Upserted(Page)[source[i]] # Absent
        ELSE Upserted(Page)[source[i]] = stored[source[i]]
  BY <1>1, <1>3, <1>4, <1>5, PageInv
<1> DEFINE last == pass.offset + Len(Page)
           run == Stale(Page) * PageSize
<1>8. \/ last = Len(source)
      \/ /\ run <= last
         /\ \A i \in DOMAIN source : last - run < i /\ i <= last => stored[source[i]] # Absent
  <2>1. CASE pass.offset + Len(Page) = Len(source)
    BY <2>1
  <2>2. CASE Len(Page) = PageSize /\ Touched(Page) = {}
    <3>1. Stale(Page) = pass.stale + 1
      BY <2>2 DEF Stale
    <3> QED
      <4>1. run = (pass.stale + 1) * PageSize /\ last = pass.offset + PageSize
        BY <2>2, <3>1
      <4> HIDE DEF last, run
      <4>2. /\ run <= last
            /\ \A i \in DOMAIN source : last - run < i /\ i <= last => stored[source[i]] # Absent
        BY <1>1, <1>3, <2>2, <4>1, StaleRun
      <4> QED
        BY <4>2
  <2>3. CASE Touched(Page) # {}
    <3>1. Stale(Page) * PageSize = 0
      BY <1>5, <2>3 DEF Stale
    <3>2. \A i \in DOMAIN source :
            ~(pass.offset + Len(Page) - 0 < i /\ i <= pass.offset + Len(Page))
      BY <1>4, <1>5
    <3> QED
      BY <1>4, <1>5, <3>1, <3>2
  <2> QED
    BY <1>4, <2>1, <2>2, <2>3
<1> QED
  <2>1. pass'.offset <= Len(source') /\ start' = Served' /\ pass'.total = Len(source')
    BY <1>1, <1>2, <1>4, <1>6
  <2>2. \A i \in DOMAIN source' :
          IF i <= pass'.offset THEN pass'.rows[source'[i]] # Absent
          ELSE pass'.rows[source'[i]] = stored'[source'[i]]
    BY <1>1, <1>7, Zenon
  <2>3. \/ pass'.offset = Len(source')
        \/ /\ pass'.stale * PageSize <= pass'.offset
           /\ \A i \in DOMAIN source' :
                pass'.offset - pass'.stale * PageSize < i /\ i <= pass'.offset =>
                  stored'[source'[i]] # Absent
    <3>1. pass'.offset = last /\ pass'.stale * PageSize = run
      BY <1>1
    <3> HIDE DEF last, run
    <3> QED
      BY <1>1, <1>8, <3>1
  <2> QED
    BY <2>1, <2>2, <2>3, Zenon DEF PassInv

----------------------------------------------------------------------------
(* How a pass ends *)

\* It is cut, or it has stored all the source serves but what an earlier one left.
Complete(contents) == \A i \in DOMAIN source : contents[source[i]] = Absent => source[i] \in skipped

LEMMA StaleComplete ==
  ASSUME Inv, StopStale, ~pass.shifted
  PROVE  Complete(Upserted(Page))
<1>1. pass # None /\ Page # <<>> /\ Stale(Page) >= Tolerance
  BY DEF StopStale
<1>2. /\ pass.offset \in Nat /\ pass.stale \in Nat /\ pass.stale < Tolerance
      /\ PageSize \in Nat \ {0} /\ Tolerance \in Nat \ {0}
      /\ Len(source) \in Nat /\ DOMAIN source = 1..Len(source)
      /\ \A i \in 1..Len(source) : source[i] \in Review
  BY <1>1, PassParts, Settings, SeqParts DEF Inv, TypeOK
<1>3. Touched(Page) = {} /\ pass.stale + 1 = Tolerance
  BY <1>1, <1>2 DEF Stale
<1>4. SUFFICES ASSUME NEW i \in DOMAIN source, Upserted(Page)[source[i]] = Absent,
                      source[i] \notin skipped
               PROVE  FALSE
  BY DEF Complete
<1>5. /\ Len(Page) \in Nat \ {0} /\ pass.offset + Len(Page) <= Len(source)
      /\ Len(Page) = PageSize \/ pass.offset + Len(Page) = Len(source)
  BY <1>1, PageParts DEF Inv
<1>6. i > pass.offset + Len(Page) /\ stored[source[i]] = Absent
  BY <1>1, <1>2, <1>4, <1>5, PageInv
<1>7. Len(Page) = PageSize /\ i > pass.offset + PageSize /\ i \in Nat \ {0}
  BY <1>2, <1>5, <1>6
<1>8. PICK last \in Nat : last = pass.offset + PageSize
  BY <1>2
<1>9. /\ Span \in Nat /\ Span <= last
      /\ \A j \in DOMAIN source : last - Span < j /\ j <= last => stored[source[j]] # Absent
  <2>1. Span = (pass.stale + 1) * PageSize
    BY <1>3 DEF Span
  <2> QED
    BY <1>1, <1>3, <1>7, <1>8, <2>1, StaleRun, Settings
<1> DEFINE a == last - Span
           A == KnownBefore(source, stored, i)
<1>10. a \in Nat /\ a + Span = last /\ last <= Len(source) /\ last < i
  BY <1>2, <1>5, <1>7, <1>8, <1>9
<1>11. ASSUME NEW j \in 1..Span PROVE source[a + j] \in A
  <2>1. a + j \in 1..Len(source) /\ a + j \in 1..(i - 1) /\ a + j <= last /\ last - Span < a + j
    BY <1>2, <1>7, <1>9, <1>10
  <2>2. stored[source[a + j]] # Absent /\ source[a + j] \in Review
    BY <1>2, <1>9, <2>1
  <2> QED
    BY <2>1, <2>2 DEF KnownBefore
<1>12. IsFiniteSet(A) /\ Cardinality(A) \in Nat
  BY <1>7, FrontSize DEF KnownBefore
<1>13. Cardinality(A) < Span
  BY <1>4, <1>6 DEF Inv, FrontInv
<1>14. source \in Seq(Review) /\ IsInjective(source)
  BY DEF Inv, TypeOK
<1> HIDE DEF a, A
<1>15. Span <= Cardinality(A)
  BY <1>9, <1>10, <1>11, <1>12, <1>14, RunSize
<1> QED
  BY <1>9, <1>12, <1>13, <1>15

LEMMA ExhaustedComplete ==
  ASSUME Inv, StopExhausted, ~pass.shifted
  PROVE  Complete(pass.rows)
<1>1. pass # None /\ (Exhausted \/ Page = <<>>)
  BY DEF StopExhausted
<1>2. /\ pass.offset \in Nat /\ pass.total \in Nat \cup {Unknown} /\ PageSize \in Nat \ {0}
      /\ source \in Seq(Review) /\ Len(source) \in Nat /\ DOMAIN source = 1..Len(source)
      /\ \A i \in 1..Len(source) : source[i] \in Review
  BY <1>1, PassParts, Settings, SeqParts DEF Inv, TypeOK
<1>3. /\ pass.offset <= Len(source) /\ (pass.total # Unknown => pass.total = Len(source))
      /\ \A i \in DOMAIN source : i <= pass.offset => pass.rows[source[i]] # Absent
  BY <1>1 DEF Inv, PassInv
<1>4. pass.offset >= Len(source)
  <2>1. CASE Exhausted
    BY <1>2, <1>3, <2>1 DEF Exhausted
  <2>2. CASE Page = <<>>
    <3> SUFFICES ASSUME pass.offset < Len(source) PROVE FALSE
      BY <1>2
    <3> DEFINE to == Min2(pass.offset + PageSize, Len(source))
    <3>1. to \in Nat /\ pass.offset + 1 <= to /\ to <= Len(source)
      BY <1>2 DEF Min2
    <3> HIDE DEF to
    <3>2. \A i \in (pass.offset + 1)..to : source[i] \in Review
      BY <1>2, <3>1
    <3>3. pass.offset + 1 \in Int /\ to \in Int
      BY <1>2, <3>1
    <3>4. Len(Page) = to - (pass.offset + 1) + 1
      BY <3>1, <3>2, <3>3, SubSeqProperties DEF Page, to
    <3>5. Len(Page) = 0
      BY <2>2
    <3> QED
      BY <1>2, <3>1, <3>4, <3>5
  <2> QED
    BY <1>1, <2>1, <2>2
<1> QED
  BY <1>2, <1>3, <1>4 DEF Complete

----------------------------------------------------------------------------
(* The invariant *)

\* However a pass ends, every unknown review the source serves has been set down as
\* skipped: nothing more is asked of what lies in front of it.
LEMMA EndedInv ==
  ASSUME Inv, NEW contents, NEW whole \in BOOLEAN, Ended(contents, whole),
         whole => Complete(contents), \A r \in unpublished : contents[r] = Absent
  PROVE  FrontInv' /\ ComingInv' /\ PassInv' /\ NothingNewMissed'
<1>1. /\ pass' = None /\ stored' = contents /\ source' = source /\ unpublished' = unpublished
      /\ skipped' = {r \in IF whole THEN skipped ELSE skipped \cup Served : contents[r] = Absent}
  BY DEF Ended, sourceVars
<1>2. \A r \in Served : \E i \in DOMAIN source : source[i] = r
  BY SeqParts DEF Served, Inv, TypeOK
<1>3. \A i \in DOMAIN source : source[i] \in Served
  BY SeqParts DEF Served, Inv, TypeOK
<1>4. \A i \in DOMAIN source : contents[source[i]] = Absent => source[i] \in skipped'
  BY <1>1, <1>3 DEF Complete
<1>5. FrontInv'
  BY <1>1, <1>4 DEF FrontInv
<1>6. ComingInv' /\ PassInv'
  BY <1>1 DEF ComingInv, PassInv
<1>7. Served' = Served
  BY <1>1 DEF Served
<1>8. NothingNewMissed'
  BY <1>1, <1>2, <1>4, <1>7 DEF NothingNewMissed
<1> QED
  BY <1>5, <1>6, <1>8

LEMMA ShiftedNone ==
  ASSUME TypeOK
  PROVE  /\ pass = None => Shifted = None
         /\ pass # None => Shifted # None /\ Shifted.shifted /\ Shifted.rows = pass.rows
<1>1. CASE pass = None
  BY <1>1 DEF Shifted
<1>2. CASE pass # None
  <2>1. PICK p \in Pass : p = pass
    BY <1>2 DEF TypeOK
  <2>2. Shifted = [p EXCEPT !.shifted = TRUE]
    BY <1>2, <2>1 DEF Shifted
  <2>3. [p EXCEPT !.shifted = TRUE] \in Pass
    BY DEF Pass
  <2>4. [p EXCEPT !.shifted = TRUE].shifted /\ [p EXCEPT !.shifted = TRUE].rows = p.rows
    BY DEF Pass
  <2> QED
    BY <1>2, <2>1, <2>2, <2>3, <2>4, NoneAssumption
<1> QED
  BY <1>1, <1>2

\* The source has changed between two pages.
LEMMA ShiftedInv ==
  ASSUME Inv, NothingNewMissed, pass' = Shifted, unpublished' \subseteq unpublished,
         UNCHANGED <<stored, result, skipped, start>>, start \cap Served' \subseteq Served
  PROVE  ComingInv' /\ PassInv' /\ NothingNewMissed'
<1>1. /\ pass' = None <=> pass = None
      /\ pass' # None => pass'.shifted /\ pass'.rows = pass.rows
  BY ShiftedNone DEF Inv
<1>2. ComingInv'
  BY <1>1 DEF Inv, ComingInv
<1>3. PassInv'
  BY <1>1 DEF PassInv
<1>4. NothingNewMissed'
  BY <1>1 DEF NothingNewMissed
<1> QED
  BY <1>2, <1>3, <1>4

LEMMA Invariance ==
  ASSUME Inv, NothingNewMissed, [Next]_vars
  PROVE  FrontInv' /\ ComingInv' /\ PassInv' /\ NothingNewMissed'
<1> DEFINE Goal == FrontInv' /\ ComingInv' /\ PassInv' /\ NothingNewMissed'
<1>1. ASSUME NEW r \in Review, Publish(r) PROVE Goal
  <2>1. FrontInv'
    BY <1>1, PublishFront
  <2>2. /\ pass' = Shifted /\ unpublished' \subseteq unpublished /\ r \in unpublished
        /\ UNCHANGED <<stored, result, skipped, start>>
    BY <1>1 DEF Publish, rows
  <2>3. start \cap Served' \subseteq Served
    <3>1. PICK i \in 1..Span :
            /\ i <= Len(source) + 1 /\ source' \in Seq(Review) /\ Len(source') = Len(source) + 1
            /\ \A k \in 1..(Len(source) + 1) :
                 source'[k] = IF k < i THEN source[k] ELSE IF k = i THEN r ELSE source[k - 1]
      BY <1>1, PublishParts DEF Inv
    <3>2. Len(source) \in Nat /\ Served = {source[k] : k \in 1..Len(source)}
      BY SeqParts DEF Inv, TypeOK, Served
    <3>3. Served' = {source'[k] : k \in 1..(Len(source) + 1)}
      BY <3>1, SeqParts DEF Served
    <3>4. ASSUME NEW k \in 1..(Len(source) + 1), source'[k] # r PROVE source'[k] \in Served
      <4>1. CASE k < i
        <5>1. k \in 1..Len(source) /\ source'[k] = source[k]
          BY <3>1, <3>2, <4>1
        <5> QED
          BY <3>2, <5>1
      <4>2. CASE ~(k < i)
        <5>1. k - 1 \in 1..Len(source) /\ source'[k] = source[k - 1]
          BY <3>1, <3>2, <3>4, <4>2, Settings
        <5> QED
          BY <3>2, <5>1
      <4> QED
        BY <4>1, <4>2
    <3>5. r \notin start
      BY <2>2 DEF Inv, TypeOK
    <3> QED
      BY <3>3, <3>4, <3>5
  <2> QED
    BY <2>1, <2>2, <2>3, ShiftedInv
<1>2. ASSUME NEW r \in Review, Withdraw(r) PROVE Goal
  <2>1. FrontInv'
    BY <1>2, WithdrawFront
  <2>2. /\ pass' = Shifted /\ unpublished' \subseteq unpublished
        /\ UNCHANGED <<stored, result, skipped, start>>
    BY <1>2 DEF Withdraw, rows
  <2>3. Served' \subseteq Served
    <3>1. PICK i \in 1..Len(source) :
            /\ source' \in Seq(Review) /\ Len(source') = Len(source) - 1
            /\ \A k \in 1..(Len(source) - 1) :
                 source'[k] = IF k < i THEN source[k] ELSE source[k + 1]
      BY <1>2, WithdrawParts DEF Inv
    <3>2. Len(source) \in Nat /\ Served = {source[k] : k \in 1..Len(source)}
      BY SeqParts DEF Inv, TypeOK, Served
    <3>3. Served' = {source'[k] : k \in 1..(Len(source) - 1)}
      BY <3>1, SeqParts DEF Served
    <3>4. \A k \in 1..(Len(source) - 1) : k \in 1..Len(source) /\ k + 1 \in 1..Len(source)
      BY <3>2
    <3> QED
      BY <3>1, <3>2, <3>3, <3>4
  <2> QED
    BY <2>1, <2>2, <2>3, ShiftedInv
<1>3. ASSUME NEW r \in Review, Edit(r) PROVE Goal
  <2>1. UNCHANGED <<source, unpublished, stored, pass, start, result, skipped>>
    BY <1>3 DEF Edit, rows
  <2>2. Served' = Served
    BY <2>1 DEF Served
  <2> QED
    BY <2>1, <2>2 DEF Inv, FrontInv, ComingInv, PassInv, NothingNewMissed
<1>4. CASE Start
  <2>1. /\ pass' = [full |-> NeedsFullResync, offset |-> 0, total |-> Unknown, pages |-> 0,
                    seen |-> 0, stale |-> 0, rows |-> stored, shifted |-> FALSE]
        /\ UNCHANGED <<source, unpublished, stored, skipped>> /\ start' = Served
    BY <1>4 DEF Start, sourceVars, rows
  <2>2. /\ pass'.offset = 0 /\ pass'.total = Unknown /\ pass'.stale = 0
        /\ pass'.rows = stored /\ pass'.shifted = FALSE
    BY <2>1
  <2>3. pass' # None
    <3>1. pass' \in Pass
      BY <2>1, Settings DEF Inv, TypeOK, Pass, NeedsFullResync
    <3> QED
      BY <3>1, NoneAssumption
  <2>4. Len(source) \in Nat /\ DOMAIN source = 1..Len(source) /\ Served' = Served
    BY <2>1, SeqParts DEF Inv, TypeOK, Served
  <2>5. FrontInv' /\ ComingInv' /\ NothingNewMissed'
    BY <2>1, <2>2, <2>3 DEF Inv, FrontInv, ComingInv, NothingNewMissed
  <2>6. \A i \in DOMAIN source : ~(i <= 0)
    BY <2>4
  <2>7. 0 * PageSize = 0 /\ 0 <= Len(source)
    BY <2>4, Settings
  <2>8. PassInv'
    BY <2>1, <2>2, <2>4, <2>6, <2>7 DEF PassInv
  <2> QED
    BY <2>5, <2>8
<1>5. CASE Read
  <2>1. /\ pass # None /\ pass' \in Pass /\ pass'.rows = Upserted(Page) /\ Page # <<>>
        /\ UNCHANGED <<source, unpublished, stored, skipped>>
    BY <1>5, ReadParts DEF Inv
  <2>2. pass' # None
    BY <2>1, NoneAssumption
  <2>3. FrontInv' /\ NothingNewMissed'
    BY <2>1, <2>2 DEF Inv, FrontInv, NothingNewMissed
  <2>4. ASSUME NEW r \in unpublished PROVE Upserted(Page)[r] = Absent
    <3>1. r \in Review /\ r \notin Served /\ pass.rows[r] = Absent
      BY <2>1 DEF Inv, TypeOK, ComingInv
    <3>2. r \notin ToSet(Page)
      BY <2>1, <3>1, PageServed DEF Inv
    <3> QED
      BY <3>1, <3>2 DEF Upserted
  <2>5. ComingInv'
    BY <2>1, <2>4 DEF Inv, ComingInv
  <2> QED
    BY <1>5, <2>3, <2>5, ReadPass
<1>6. CASE StopStale
  <2>1. pass # None /\ Page # <<>> /\ Ended(Upserted(Page), ~pass.shifted)
    BY <1>6 DEF StopStale
  <2>2. pass.shifted \in BOOLEAN
    BY <2>1, PassParts DEF Inv
  <2>3. ASSUME NEW r \in unpublished PROVE Upserted(Page)[r] = Absent
    <3>1. r \in Review /\ r \notin Served /\ pass.rows[r] = Absent
      BY <2>1 DEF Inv, TypeOK, ComingInv
    <3>2. r \notin ToSet(Page)
      BY <2>1, <3>1, PageServed DEF Inv
    <3> QED
      BY <3>1, <3>2 DEF Upserted
  <2>4. ~pass.shifted => Complete(Upserted(Page))
    BY <1>6, StaleComplete
  <2> QED
    BY <2>1, <2>2, <2>3, <2>4, EndedInv
<1>7. ASSUME pass # None, NEW whole \in BOOLEAN, Ended(pass.rows, whole),
             whole => Complete(pass.rows)
      PROVE  Goal
  <2>1. \A r \in unpublished : pass.rows[r] = Absent
    BY <1>7 DEF Inv, ComingInv
  <2> QED
    BY <1>7, <2>1, EndedInv
<1>8. CASE StopExhausted
  <2>1. pass # None /\ pass.shifted \in BOOLEAN /\ Ended(pass.rows, ~pass.shifted)
    BY <1>8, PassParts DEF Inv, StopExhausted
  <2>2. ~pass.shifted => Complete(pass.rows)
    BY <1>8, ExhaustedComplete
  <2> QED
    BY <1>7, <2>1, <2>2
<1>9. CASE StopLimited
  BY <1>7, <1>9 DEF StopLimited
<1>10. CASE StreamFailed
  BY <1>7, <1>10 DEF StreamFailed
<1>11. CASE Rollback
  <2>1. pass' = None /\ result' = "none" /\ UNCHANGED <<source, unpublished, stored, skipped>>
    BY <1>11 DEF Rollback, sourceVars, rows
  <2> QED
    BY <2>1 DEF Inv, FrontInv, ComingInv, PassInv, NothingNewMissed
<1>12. CASE Age
  <2>1. UNCHANGED <<source, unpublished, stored, pass, start, result, skipped>>
    BY <1>12 DEF Age, sourceVars
  <2>2. Served' = Served
    BY <2>1 DEF Served
  <2> QED
    BY <2>1, <2>2 DEF Inv, FrontInv, ComingInv, PassInv, NothingNewMissed
<1>13. CASE UNCHANGED vars
  <2>1. UNCHANGED <<source, unpublished, stored, pass, start, result, skipped>>
    BY <1>13 DEF vars, sourceVars, rows
  <2>2. Served' = Served
    BY <2>1 DEF Served
  <2> QED
    BY <2>1, <2>2 DEF Inv, FrontInv, ComingInv, PassInv, NothingNewMissed
<1> QED
  BY <1>1, <1>2, <1>3, <1>4, <1>5, <1>6, <1>8, <1>9, <1>10, <1>11, <1>12, <1>13 DEF Next

LEMMA Initial == Init => FrontInv /\ ComingInv /\ PassInv /\ NothingNewMissed
<1> SUFFICES ASSUME Init PROVE FrontInv /\ ComingInv /\ PassInv /\ NothingNewMissed
  OBVIOUS
<1>1. /\ \A r \in Review : stored[r] = Absent
      /\ pass = None /\ result = "none" /\ unpublished \subseteq Review
  BY DEF Init
<1>2. \A i : KnownBefore(source, stored, i) = {}
  BY <1>1 DEF KnownBefore
<1>3. Cardinality({}) < Span
  BY Settings, FS_EmptySet
<1>4. FrontInv
  BY <1>2, <1>3 DEF FrontInv
<1> QED
  BY <1>1, <1>4 DEF ComingInv, PassInv, NothingNewMissed

\* For any settings and any source that puts a new review behind less than the pages
\* that stop a pass, a pass that ends by its own rules, between two changes of the
\* source, has stored all that was served when it began; only a pass cut short leaves
\* reviews that later passes do not come to.
THEOREM NewKept == Spec => []NothingNewMissed
<1>1. Init => Inv /\ NothingNewMissed
  BY TypeInit, Initial DEF Inv
<1>2. Inv /\ NothingNewMissed /\ [Next]_vars => (Inv /\ NothingNewMissed)'
  BY TypeInvariant, Invariance DEF Inv
<1> QED
  BY <1>1, <1>2, PTL DEF Spec
=============================================================================
