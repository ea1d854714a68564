----------------------------- MODULE Similarity -----------------------------
(***************************************************************************)
(* The games listed as similar to a game: who is considered                *)
(* (app/repositories/similarity.py), how a pair is scored, which reason is *)
(* given and which rows replace the old ones                               *)
(* (app/services/similarity_service.py).                                   *)
(*                                                                         *)
(* Components and weights are in hundredths, products of the two in        *)
(* ten-thousandths.  A game has id, genres, developers, publishers,        *)
(* platforms, family, franchise, meta, year, players (how many of its      *)
(* players wrote) and aspects (what a summary says of each, or none).      *)
(***************************************************************************)
EXTENDS Integers, Sequences, FiniteSets, FiniteSetsExt, SequencesExt

CONSTANTS
  Decay(_),       \* 100 * exp(-years / 6)
  Lexical(_, _),  \* token_overlap of two documents, symmetric, 0..100
  NullsFirst      \* PostgreSQL puts missing values first when it sorts downwards

Unknown == -1

Abs(n) == IF n < 0 THEN -n ELSE n

Jaccard(a, b) ==
  IF a = {} \/ b = {} THEN 0 ELSE (100 * Cardinality(a \cap b)) \div Cardinality(a \cup b)

SameFamily(a, b) == a.family # Unknown /\ a.family = b.family

Franchise(a, b) ==
  IF a.franchise # Unknown /\ a.franchise = b.franchise THEN 100
  ELSE IF SameFamily(a, b) THEN 90 ELSE 0

Company(a, b) ==
  IF a.developers \cap b.developers # {} THEN 100
  ELSE IF a.publishers \cap b.publishers # {} THEN 50 ELSE 0

ScoreFit(a, b) == IF a.meta = Unknown \/ b.meta = Unknown THEN 0 ELSE 100 - Abs(a.meta - b.meta)
EraFit(a, b) == IF a.year = Unknown \/ b.year = Unknown THEN 0 ELSE Decay(Abs(a.year - b.year))

Metadata(a, b) ==
  30 * Jaccard(a.genres, b.genres) + 20 * Franchise(a, b) + 16 * Company(a, b)
  + 12 * Jaccard(a.platforms, b.platforms) + 12 * ScoreFit(a, b) + 10 * EraFit(a, b)

\* cosine, mapped from [-1, 1] to [0, 1].  Aspects are -1, 0 or 1; absent ones are 0.
Root(n) == CHOOSE r \in 0..n : r * r <= n /\ n < (r + 1) * (r + 1)
AspectFit(a, b) ==
  LET keys == DOMAIN a.aspects \cup DOMAIN b.aspects
      value(f, k) == IF k \in DOMAIN f THEN f[k] ELSE 0
      sum(op(_)) == FoldSet(LAMBDA k, acc : op(k) + acc, 0, keys)
      dot == sum(LAMBDA k : value(a.aspects, k) * value(b.aspects, k))
      norm(f) == sum(LAMBDA k : value(f, k) * value(f, k))
      length == Root(10000 * norm(a.aspects) * norm(b.aspects))
  IN  IF norm(a.aspects) = 0 \/ norm(b.aspects) = 0 THEN Unknown
      ELSE (50 * (100 * dot + length)) \div length

\* A missing component is left out of the weights.
Combined(a, b) ==
  LET aspect == AspectFit(a, b)
      known == 62 * Metadata(a, b) + 12 * 100 * Lexical(a, b)
  IN  IF aspect = Unknown THEN known \div 74 ELSE (known + 26 * 100 * aspect) \div 100

\* In ten-thousandths.
Penalty(a, b) ==
  (IF a.meta = Unknown /\ b.meta = Unknown /\ a.players < 5 /\ b.players < 5 THEN 35 ELSE 100)
  * (IF SameFamily(a, b) THEN 50 ELSE 100)

ScorePair(a, b) == (Combined(a, b) * Penalty(a, b)) \div 10000

\* reason_for: a fact about the pair, or nothing.
Reason(a, b, floor) ==
  CASE Franchise(a, b) >= 90 -> "series"
    [] Franchise(a, b) < 90 /\ Company(a, b) = 100 -> "studio"
    [] Franchise(a, b) < 90 /\ Company(a, b) < 100 ->
         IF Jaccard(a.genres, b.genres) >= 60 THEN "genre"
         ELSE IF AspectFit(a, b) >= 75 THEN "aspects"
         ELSE IF ScoreFit(a, b) >= 90 /\ Metadata(a, b) >= floor THEN "critics"
         ELSE "none"

----------------------------------------------------------------------------
(* Candidates: one query after another until there are enough. *)

MetaDown(a, b) ==
  LET key(g) == IF g.meta = Unknown /\ NullsFirst THEN 101 ELSE g.meta
  IN  key(a) > key(b) \/ (key(a) = key(b) /\ a.id < b.id)

Take(seq, n) == SubSeq(seq, 1, Min({n, Len(seq)}))
Ids(seq) == [i \in DOMAIN seq |-> seq[i].id]

\* A game comes once for every genre it shares, best metascore first.
ByGenre(game, others, limit) ==
  LET sorted == SetToSortSeq({o \in others : o.genres \cap game.genres # {}}, MetaDown)
      rows == FlattenSeq([i \in DOMAIN sorted |->
                [j \in 1..Cardinality(sorted[i].genres \cap game.genres) |-> sorted[i]]])
  IN  Take(rows, limit)

\* The other queries have no order of their own; any will do.
Makers(g) == g.developers \cup g.publishers
ByCompany(game, others, limit) ==
  Take(SetToSeq({o \in others : Makers(o) \cap Makers(game) # {}}), Max({20, limit \div 3}))
ByFamily(game, others) == Take(SetToSeq({o \in others : SameFamily(game, o)}), 20)
ByFranchise(game, others) ==
  Take(SetToSeq({o \in others : game.franchise # Unknown /\ o.franchise = game.franchise}), 20)

\* With no genre, company, family or franchise of its own: the best of the catalogue.
Fallback(others, limit) ==
  Take(SetToSortSeq({o \in others : o.meta # Unknown}, MetaDown), Min({limit, 50}))

Candidates(game, others, limit) ==
  LET bare == game.genres = {} /\ Makers(game) = {} /\ game.family = Unknown
                /\ game.franchise = Unknown
      queries == IF bare THEN <<Fallback(others, limit)>>
                 ELSE <<ByGenre(game, others, limit), ByCompany(game, others, limit),
                        ByFamily(game, others), ByFranchise(game, others)>>
      more(ids, query) ==
        IF Len(ids) >= limit THEN ids
        ELSE FoldLeft(LAMBDA acc, id : IF Contains(acc, id) THEN acc ELSE Append(acc, id),
                      ids, Ids(query))
  IN  Take(FoldLeft(more, <<>>, queries), limit)

\* recompute: the best above the threshold, the smaller id first among equals.
Recomputed(game, others, limit, minScore, topN) ==
  LET scored == {[id |-> o.id, score |-> ScorePair(game, o)] :
                   o \in {o \in others : Contains(Candidates(game, others, limit), o.id)}}
      kept == {r \in scored : r.score >= minScore}
      better(r, q) == r.score > q.score \/ (r.score = q.score /\ r.id < q.id)
  IN  Take(SetToSortSeq(kept, better), topN)
=============================================================================
