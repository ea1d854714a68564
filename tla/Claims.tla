------------------------------- MODULE Claims -------------------------------
(***************************************************************************)
(* Which claims of a summary are accepted (app/ai/validator.py).           *)
(*                                                                         *)
(* A claim has refs (a sequence), temporal, vague, quoted (the reviews its *)
(* quotation is found in, None without one) and words.  The evidence maps  *)
(* the references of the snapshot to reviews with words and a date, None   *)
(* when it has none.  Words and phrasing are abstract.                     *)
(***************************************************************************)
EXTENDS Integers, Sequences, FiniteSets, FiniteSetsExt, SequencesExt

None == -1

\* validate_summary: a small corpus needs fewer voices.
Required(corpusSize, settings) ==
  IF corpusSize < settings.smallCorpus THEN settings.supportSmall ELSE settings.support

Dates(refs, evidence) == {r \in refs : evidence[r].date # None}

TemporalSupported(refs, evidence, span) ==
  LET dated == Dates(refs, evidence)
      dates == {evidence[r].date : r \in dated}
  IN  Cardinality(dated) >= 2 /\ Max(dates) - Min(dates) >= span

Supporting(claim, refs, evidence) ==
  {r \in refs : claim.words \cap evidence[r].words # {}}

\* A majority of the reviews cited, and two at least.
Needed(refs) == Max({2, (Cardinality(refs) + 1) \div 2})

\* validate_claim: the first check that fails gives the reason.
Validation(claim, evidence, required, span) ==
  LET refs == ToSet(claim.refs)
  IN  IF ~(refs \subseteq DOMAIN evidence) THEN "missing_ref"
      ELSE IF Cardinality(refs) < required THEN "low_support"
      ELSE IF claim.vague THEN "vague"
      ELSE IF claim.temporal /\ ~TemporalSupported(refs, evidence, span)
        THEN "temporal_unsupported"
      ELSE IF claim.quoted # {None} /\ claim.quoted \cap refs = {} THEN "quote_not_found"
      ELSE IF claim.words # {} /\ Cardinality(Supporting(claim, refs, evidence)) < Needed(refs)
        THEN "aspect_unsupported"
      ELSE "accepted"

\* Both sides, every claim kept with its verdict.
Report(claims, evidence, corpusSize, settings) ==
  [i \in DOMAIN claims |->
     Validation(claims[i], evidence, Required(corpusSize, settings), settings.span)]

Accepted(report) == {i \in DOMAIN report : report[i] = "accepted"}

\* rejection_counts
Rejections(report, reason) == Cardinality({i \in DOMAIN report : report[i] = reason})
=============================================================================
