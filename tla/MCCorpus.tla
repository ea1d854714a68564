------------------------------ MODULE MCCorpus ------------------------------
(***************************************************************************)
(* Four strata from none to far more reviews than the others, and targets  *)
(* from the number of the strata up; and the filter before the sample and  *)
(* the checks after the model has answered, over all small inputs.         *)
(***************************************************************************)
EXTENDS Corpus, TLC

CONSTANTS s1, s2, s3, s4

C == INSTANCE Claims

\* With the default settings the target is never below the eight strata there can be,
\* however long the reviews (target_size, corpus_max_review_chars).
ASSUME DefaultTargetSuffices ==
  \A cap \in {200, 500}, perReview \in 1..1500 : TargetSize(cap, 60000, perReview) >= 8

\* Whether a text is short or off topic depends on the text, its score on the copy.
Text == {"fine", "short", "politics"}
Copy ==
  {[text |-> t, short |-> t = "short", offTopic |-> t = "politics", polarity |-> 4,
    norm |-> n] : t \in Text, n \in {C!None, 20, 90}}

\* Every text of which some copy passes is kept exactly once, whatever the order of the
\* copies, and every review dropped is counted under one reason (filter_corpus).
ASSUME FilterIgnoresOrder ==
  \A n \in 0..3 : \A reviews \in [1..n -> Copy] :
    LET result == Filtered(reviews)
        passes(r) == ~r.short /\ ~r.offTopic /\ ~Mismatch(r)
        dropped == FoldFunction(+, 0, result.rejected)
    IN  /\ {r.text : r \in ToSet(result.kept)} =
             {reviews[i].text : i \in {i \in 1..n : passes(reviews[i])}}
        /\ \A i, j \in DOMAIN result.kept : i # j => result.kept[i].text # result.kept[j].text
        /\ Len(result.kept) + dropped = n

\* Three reviews of a snapshot, and a reference that is not in it.
Evidence ==
  [1..3 -> [words : {{}, {"combat"}, {"story"}}, date : {C!None, 1, 40}]]
Claim ==
  [refs : {<<>>, <<1>>, <<1, 1>>, <<1, 2>>, <<1, 1, 2>>, <<1, 2, 3>>, <<1, 2, 4>>},
   temporal : BOOLEAN, vague : BOOLEAN, quoted : {{C!None}, {}, {2}},
   words : {{}, {"combat"}}]

\* An accepted claim rests on reviews of its own snapshot: as many different ones as the
\* size of the corpus demands, two of them with its words if it has any, and two of them
\* dated a month apart if it is about time, however the references repeat.
ASSUME AcceptedIsSupported ==
  \A evidence \in Evidence, claim \in Claim, required \in {1, 2, 3} :
    C!Validation(claim, evidence, required, 30) = "accepted" =>
      LET refs == ToSet(claim.refs)
      IN  /\ refs \subseteq 1..3 /\ Cardinality(refs) >= required
          /\ claim.words # {} =>
               \E r, q \in refs : /\ r # q
                                  /\ claim.words \cap evidence[r].words # {}
                                  /\ claim.words \cap evidence[q].words # {}
          /\ claim.temporal =>
               \E r, q \in refs : /\ evidence[r].date # C!None
                                  /\ evidence[q].date - evidence[r].date >= 30
=============================================================================
