------------------------------ MODULE Ranking ------------------------------
(***************************************************************************)
(* Choosing one video out of what a search found                           *)
(* (app/adapters/youtube/ranking.py).                                      *)
(*                                                                         *)
(* A candidate has the facts the code reads from its title and details:    *)
(* live, trailer, offFormat, letsPlay, noCommentary, shorts, compilation   *)
(* and firstPart, Booleans; coverage, the hundredths of the game's title   *)
(* found in the video's; minutes and days (since the release), possibly    *)
(* Unknown; language and channel, possibly ""; captions and embeddable,    *)
(* "yes", "no" or ""; magnitude, 100 * log10(views + 1); liked, likes in   *)
(* ten-thousandths of the views.  Scores are in ten-thousandths.           *)
(***************************************************************************)
EXTENDS Integers, Sequences, FiniteSets, FiniteSetsExt, SequencesExt

CONSTANTS
  RecencyDecay(_),   \* 100 * exp(-days / 120)
  LengthDecay(_)     \* 100 * exp(-minutes beyond three hours / 120)

Unknown == -1

\* The hard filters, in their order; Unknown when the candidate passes.
RejectReason(c, limits) ==
  IF c.live THEN "live_broadcast"
  ELSE IF c.trailer THEN "trailer"
  ELSE IF c.offFormat THEN "off_format"
  ELSE IF c.minutes = Unknown THEN "duration_unknown"
  ELSE IF c.minutes < limits.min THEN "too_short"
  ELSE IF c.minutes > limits.max THEN "too_long"
  ELSE IF c.coverage < 60 THEN "title_mismatch"
  ELSE IF c.language \notin {"", "en"} THEN "language"
  ELSE IF c.embeddable = "no" /\ c.captions = "no" THEN "not_embeddable_no_captions"
  ELSE "none"

Passing(candidates, limits) ==
  {i \in DOMAIN candidates : RejectReason(candidates[i], limits) = "none"}

\* Against the most viewed of those that pass.
Popularity(c, most) == IF most = 0 THEN 0 ELSE (100 * c.magnitude) \div most

TitleRelevance(c) == (60 * c.coverage) \div 100 + (IF c.letsPlay THEN 40 ELSE 0)

FormatFit(c) ==
  IF c.minutes \in 30..180 THEN 100
  ELSE IF c.minutes < 30 THEN (100 * c.minutes) \div 30
  ELSE LengthDecay(c.minutes - 180)

Engagement(c) == Min({100, c.liked \div 5})

RecencyFit(c) == IF c.days < 0 THEN 0 ELSE RecencyDecay(c.days)

\* Three videos of a channel, rejected ones among them.
SeriesSignal(c, candidates) ==
  IF c.channel # "" /\ Cardinality({i \in DOMAIN candidates : candidates[i].channel = c.channel}) >= 3
  THEN 100 ELSE 0

Penalty(c) ==
  (IF c.noCommentary THEN 25 ELSE 0) + (IF c.shorts THEN 15 ELSE 0)
  + (IF c.compilation THEN 10 ELSE 0) + (IF c.captions = "no" THEN 20 ELSE 0)

ScoreOf(i, candidates, limits) ==
  LET c == candidates[i]
      most == Max({0} \cup {candidates[j].magnitude : j \in Passing(candidates, limits)})
      total == 32 * Popularity(c, most) + 28 * TitleRelevance(c) + 14 * FormatFit(c)
                 + 12 * Engagement(c) + 8 * RecencyFit(c) + 6 * SeriesSignal(c, candidates)
  IN  IF i \notin Passing(candidates, limits) THEN Unknown
      ELSE Max({0, total - 100 * Penalty(c)})

\* rank: by score, then the first part, then the longer one; rejected ones last.
Ranked(candidates, limits) ==
  LET score(i) == ScoreOf(i, candidates, limits)
      first(i) == IF candidates[i].firstPart /\ score(i) # Unknown THEN 1 ELSE 0
      key(i) == <<score(i), first(i), Max({0, candidates[i].minutes})>>
      before(k, l) == \E n \in 1..3 : k[n] > l[n] /\ \A m \in 1..(n - 1) : k[m] = l[m]
  IN  SetToSortSeq(DOMAIN candidates,
        LAMBDA i, j : before(key(i), key(j)) \/ (key(i) = key(j) /\ i < j))

\* select: the best that passes and is good enough, Unknown when there is none.
Selected(candidates, limits, minScore) ==
  LET good == SelectSeq(Ranked(candidates, limits),
                LAMBDA i : ScoreOf(i, candidates, limits) # Unknown
                             /\ ScoreOf(i, candidates, limits) >= minScore)
  IN  IF good = <<>> THEN Unknown ELSE good[1]
=============================================================================
