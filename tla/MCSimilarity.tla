---------------------------- MODULE MCSimilarity ----------------------------
(***************************************************************************)
(* Similarity over all pairs of a few kinds of games, and over catalogues  *)
(* of four games with places for two or three candidates.                  *)
(***************************************************************************)
EXTENDS Integers, Sequences, FiniteSets, SequencesExt

LOCAL Years(n) == IF n <= 6 THEN <<100, 84, 71, 60, 51, 43, 36>>[n + 1] ELSE 0
LOCAL Words(g, h) == IF g.title = h.title THEN 100 ELSE 20

Sim == INSTANCE Similarity WITH Decay <- Years, Lexical <- Words, NullsFirst <- TRUE
LOCAL SimLast == INSTANCE Similarity WITH Decay <- Years, Lexical <- Words, NullsFirst <- FALSE

LOCAL Kind ==
  [genres : {{"rpg"}, {"rpg", "action"}}, developers : {{}, {"d"}}, publishers : {{"p"}},
   platforms : {{"pc"}}, family : {-1, 1}, franchise : {-1, 1}, meta : {-1, 90},
   year : {-1, 2026}, players : {2}, title : {"t"},
   aspects : {<<>>, [combat |-> 1, story |-> 1], [combat |-> 1, story |-> -1]}]

LOCAL Pairs == {<<g, h>> \in Kind \X Kind : g.year = 2026 /\ g.franchise = 1}

\* The same either way round, between 0 and 1 whichever components are missing, and a
\* reason that is a fact of the pair (score_pair, reason_for).
ASSUME PairScoresAreSound ==
  \A pair \in Pairs :
    LET g == pair[1]
        h == pair[2]
        score == Sim!ScorePair(g, h)
        reason == Sim!Reason(g, h, 1800)
    IN  /\ score = Sim!ScorePair(h, g) /\ score \in 0..10000
        /\ reason = Sim!Reason(h, g, 1800)
        /\ reason = "series" => Sim!SameFamily(g, h) \/ g.franchise = h.franchise
        /\ reason = "studio" => g.developers \cap h.developers # {}
        /\ reason = "critics" => -1 \notin {g.meta, h.meta}

LOCAL Listed(id, genres, franchise, meta) ==
  [id |-> id, genres |-> genres, developers |-> {}, publishers |-> {}, platforms |-> {"pc"},
   family |-> -1, franchise |-> franchise, meta |-> meta, year |-> 2026, players |-> 9,
   title |-> id, aspects |-> <<>>]

LOCAL Self == Listed(0, {"rpg", "action"}, 1, 80)
LOCAL Catalogues ==
  {{Listed(i, kind[i][1], kind[i][2], kind[i][3]) : i \in 1..3} :
     kind \in [1..3 -> {{}, {"rpg"}, {"rpg", "action"}} \X {-1, 1} \X {-1, 85}]}

\* No candidate twice, none beyond the limit; and a game of the same series is among them
\* unless as many rows of shared genres as there are places came before it: a game takes
\* a row for every genre it shares, and one without a score comes first (candidates).
ASSUME SeriesConsidered ==
  \A others \in Catalogues, limit \in {2, 3} :
    LET ids == Sim!Candidates(Self, others, limit)
        rows == Sim!ByGenre(Self, others, limit)
    IN  /\ IsInjective(ids) /\ Len(ids) <= limit /\ ToSet(ids) \subseteq 1..3
        /\ \A o \in others :
             o.franchise = 1 => Contains(ids, o.id) \/ Len(ids) = limit \/ Len(rows) = limit
        /\ \A o \in others :
             o.genres # {} /\ o.meta # -1 /\ ~Contains(ids, o.id) =>
               Len(rows) = limit

\* Where missing scores sort last, no game with a score gives way to one without.
ASSUME ScoredFirstWhereNullsAreLast ==
  \A others \in Catalogues, limit \in {2, 3} :
    LET rows == SimLast!ByGenre(Self, others, limit)
    IN  \A o \in others : o.genres # {} /\ o.meta # -1 /\ o \notin ToSet(rows) =>
          \A r \in ToSet(rows) : r.meta # -1

\* Ranks by score, the threshold and the ceiling kept (recompute).
ASSUME TopIsRanked ==
  \A others \in Catalogues :
    LET top == Sim!Recomputed(Self, others, 3, 3400, 2)
    IN  /\ Len(top) <= 2
        /\ \A i \in DOMAIN top : top[i].score >= 3400
        /\ Len(top) = 2 => top[1].score >= top[2].score /\ top[1].id # top[2].id
=============================================================================
