------------------------------- MODULE Corpus -------------------------------
(***************************************************************************)
(* Which reviews a summary is written from (app/ai/corpus.py): the quotas  *)
(* of stratified_sample, with the two loops that bring them to the target, *)
(* the filter before them and the order after them.                        *)
(*                                                                         *)
(* A stratum is a tier of score and an era.  The loops run over the strata *)
(* from the largest to the smallest, one quota a step.                     *)
(***************************************************************************)
EXTENDS Integers, Sequences, FiniteSets, FiniteSetsExt, SequencesExt, Functions

LOCAL INSTANCE Scores

CONSTANTS
  Stratum,        \* the tiers of score, and before and after the midpoint
  Size,           \* how many reviews a stratum may have
  Target,         \* what TargetSize may return
  Share           \* corpus_min_stratum_share, in hundredths

ASSUME SizeAssumption == Size \subseteq Nat /\ Share \in 0..100

\* The smallest target the settings give is far above the strata there can be; the first
\* loop would not end below that (see the README).
ASSUME TargetAssumption == \A target \in Target : target \in Nat /\ target >= Cardinality(Stratum)

VARIABLES
  size,           \* the reviews of each stratum
  target,
  order,          \* the strata that have any, the largest first
  phase,          \* "quotas", "trim", "fill", "picked"
  quota,          \* of each stratum
  at,             \* where the loop over the strata is
  progressed      \* that loop has raised a quota

vars == <<size, target, order, phase, quota, at, progressed>>

NonEmpty == {s \in Stratum : size[s] > 0}
Total(f) == FoldFunctionOnSet(+, 0, f, NonEmpty)

LargestFirst(seq) == \A i \in 1..(Len(seq) - 1) : size[seq[i]] >= size[seq[i + 1]]

\* More reviews than are wanted: otherwise all are taken.
Init ==
  /\ size \in [Stratum -> Size] /\ target \in Target
  /\ Total(size) > target
  /\ order \in SetToSeqs(NonEmpty) /\ LargestFirst(order)
  /\ phase = "quotas"
  /\ quota = [s \in Stratum |-> 0]
  /\ at = 1 /\ progressed = FALSE

----------------------------------------------------------------------------
(* The quotas *)

\* Mutant: without the one review every stratum has.
FloorOfShare == RoundHalfEven(target * Share, 100 * Cardinality(NonEmpty))

Floor == Max({1, RoundHalfEven(target * Share, 100 * Cardinality(NonEmpty))})

Proportional(s) == RoundHalfEven(target * size[s], Total(size))

SetQuotas ==
  /\ phase = "quotas" /\ phase' = "trim"
  /\ quota' = [s \in Stratum |-> IF size[s] = 0 THEN 0
                                 ELSE Min({size[s], Max({Floor, Proportional(s)})})]
  /\ UNCHANGED <<size, target, order, at, progressed>>

Following == IF at = Len(order) THEN 1 ELSE at + 1

\* Quotas above the floor are lowered while there is too much.
Trim ==
  /\ phase = "trim" /\ Total(quota) > target
  /\ quota' = IF quota[order[at]] > Floor THEN [quota EXCEPT ![order[at]] = @ - 1] ELSE quota
  /\ at' = Following
  /\ UNCHANGED <<size, target, order, phase, progressed>>

Trimmed ==
  /\ phase = "trim" /\ Total(quota) <= target
  /\ phase' = "fill" /\ at' = 1
  /\ UNCHANGED <<size, target, order, quota, progressed>>

\* Quotas are raised while there is too little, until a round raises none.
Fill ==
  /\ phase = "fill" /\ Total(quota) < target
  /\ LET s == order[at]
         raised == quota[s] < size[s]
         round == progressed \/ raised
     IN  /\ quota' = IF raised THEN [quota EXCEPT ![s] = @ + 1] ELSE quota
         /\ progressed' = (round /\ at < Len(order))
         /\ phase' = IF round \/ at < Len(order) THEN "fill" ELSE "picked"
  /\ at' = Following
  /\ UNCHANGED <<size, target, order>>

Filled ==
  /\ phase = "fill" /\ Total(quota) >= target
  /\ phase' = "picked"
  /\ UNCHANGED <<size, target, order, quota, at, progressed>>

Next == SetQuotas \/ Trim \/ Trimmed \/ Fill \/ Filled

\* The loops run to their ends.
Spec == Init /\ [][Next]_vars /\ WF_vars(Next)

----------------------------------------------------------------------------
(* Before the quotas and after them.  A review has text (its fingerprint),  *)
(* short and offTopic, polarity, norm (its score from 0 to 100, or Unknown), *)
(* date (or Unknown) and key.                                                *)

Bucket(review) ==
  CASE review.norm = Unknown -> "unscored"
    [] review.norm >= 70 -> "positive"
    [] review.norm \in 50..69 -> "neutral"
    [] review.norm \in 0..49 -> "negative"

\* A strong polarity against a score of the top or the bottom third.
Mismatch(review) ==
  \/ review.norm >= 70 /\ review.polarity <= -3
  \/ review.norm \in 0..35 /\ review.polarity >= 3

\* filter_corpus: what is kept, and how many are dropped and why.
Filtered(reviews) ==
  FoldLeft(
    LAMBDA acc, review :
      LET because(reason) == [acc EXCEPT !.rejected[reason] = @ + 1]
      IN  IF review.short THEN because("too_short")
          ELSE IF \E kept \in ToSet(acc.kept) : kept.text = review.text THEN because("duplicate")
          ELSE IF review.offTopic THEN because("off_topic")
          ELSE IF Mismatch(review) THEN because("score_text_mismatch")
          ELSE [acc EXCEPT !.kept = Append(@, review)],
    [kept |-> <<>>,
     rejected |-> [r \in {"too_short", "duplicate", "off_topic", "score_text_mismatch"} |-> 0]],
    reviews)

\* order_deterministically: by date, then key; the undated ones last.
Ordered(reviews) ==
  SetToSortSeq(reviews, LAMBDA a, b :
    \/ a.date # Unknown /\ b.date = Unknown
    \/ a.date # Unknown /\ b.date # Unknown /\ a.date < b.date
    \/ a.date = b.date /\ a.key < b.key)

\* The midpoint, a whole day, splits every tier; a review without a date is old.
Era(review, oldest, newest) ==
  IF review.date # Unknown /\ oldest # newest
     /\ review.date >= oldest + (newest - oldest) \div 2
  THEN "new" ELSE "old"

\* target_size: the cap, or what the model's context has room for at 3.5 characters to a
\* token, three quarters of it, and 60 characters around each review.
TargetSize(cap, maxTokens, perReview) ==
  Max({1, Min({cap, (maxTokens * 21) \div (8 * (perReview + 60))})})

----------------------------------------------------------------------------
(* Properties *)

\* Exactly as many as wanted, no more of a stratum than it has, and some of every
\* stratum: a minority opinion cannot vanish.
Representative ==
  /\ Total(quota) = target
  /\ \A s \in NonEmpty : quota[s] \in 1..size[s]

\* The two loops end, whatever the sizes, and leave a representative sample
\* (stratified_sample).
SampleSettles == <>[](phase = "picked" /\ Representative)
=============================================================================
