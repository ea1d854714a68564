----------------------------- MODULE MCLetsPlay -----------------------------
(***************************************************************************)
(* One game whose search may find either of two videos, two workers, one   *)
(* copy of each job, two days of two searches each; and the choice of a    *)
(* video from the candidates of one search.                                *)
(***************************************************************************)
EXTENDS LetsPlay, MCTranscripts, TLC

CONSTANTS g1, v1, v2, w1, w2

MCGameOf == [v \in Video |-> g1]

----------------------------------------------------------------------------

Recency(days) == IF days < 120 THEN 100 - days \div 2 ELSE 36
Length(minutes) == IF minutes < 120 THEN 100 - minutes \div 2 ELSE 36

R == INSTANCE Ranking WITH RecencyDecay <- Recency, LengthDecay <- Length

Limits == [min |-> 10, max |-> 420]

Plain ==
  [live |-> FALSE, trailer |-> FALSE, offFormat |-> FALSE, letsPlay |-> TRUE,
   noCommentary |-> FALSE, shorts |-> FALSE, compilation |-> FALSE, firstPart |-> FALSE,
   coverage |-> 100, minutes |-> 60, days |-> 10, language |-> "en", channel |-> "c1",
   captions |-> "yes", embeddable |-> "yes", magnitude |-> 500, liked |-> 300]

\* Plain candidates with one thing changed, some acceptable and some not.
Field ==
  {Plain, [Plain EXCEPT !.magnitude = 300], [Plain EXCEPT !.firstPart = TRUE],
   [Plain EXCEPT !.minutes = 200], [Plain EXCEPT !.minutes = R!Unknown],
   [Plain EXCEPT !.trailer = TRUE, !.magnitude = 710], [Plain EXCEPT !.coverage = 50],
   [Plain EXCEPT !.noCommentary = TRUE, !.magnitude = 600],
   [Plain EXCEPT !.embeddable = "no", !.captions = "no"],
   [Plain EXCEPT !.captions = "no", !.channel = ""], [Plain EXCEPT !.days = R!Unknown],
   [Plain EXCEPT !.offFormat = TRUE, !.channel = "c2", !.magnitude = 710]}

\* What is chosen passes every filter and no other that passes has a better score; nothing
\* is chosen only when none is good enough (select).
ASSUME BestOfThePassing ==
  \A field \in [1..3 -> Field], minScore \in {6000, 9000} :
    LET score(i) == R!ScoreOf(i, field, Limits)
        chosen == R!Selected(field, Limits, minScore)
    IN  IF chosen = R!Unknown THEN \A i \in 1..3 : score(i) < minScore
        ELSE /\ R!RejectReason(field[chosen], Limits) = "none"
             /\ \A i \in 1..3 : score(i) <= score(chosen) /\ score(chosen) >= minScore

\* A rejected video changes the scores of the others only as a third of their channel,
\* however much it was viewed (rank).
ASSUME RejectedCarryNoWeight ==
  \A field \in [1..3 -> Field] :
    LET two == <<field[1], field[2]>>
    IN  R!RejectReason(field[3], Limits) # "none" =>
          \A i \in 1..2 :
            \/ R!ScoreOf(i, two, Limits) = R!ScoreOf(i, field, Limits)
            \/ /\ field[3].channel = field[i].channel
               /\ R!SeriesSignal(field[i], field) = 100

\* Among equal scores the first part is ahead, and the longer one (rank).
ASSUME TiesGoToTheFirstPart ==
  \A field \in [1..2 -> Field] :
    LET order == R!Ranked(field, Limits)
    IN  /\ R!ScoreOf(1, field, Limits) = R!ScoreOf(2, field, Limits)
        /\ R!ScoreOf(1, field, Limits) # R!Unknown
        => \/ field[order[1]].firstPart /\ ~field[order[2]].firstPart
           \/ /\ field[order[1]].firstPart = field[order[2]].firstPart
              /\ field[order[1]].minutes >= field[order[2]].minutes
=============================================================================
