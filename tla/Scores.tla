------------------------------- MODULE Scores -------------------------------
(***************************************************************************)
(* What a score means, and the reads of the catalogue that depend on it:   *)
(* the rule in Python (app/domain/scores.py, verdict.py), the same rule in *)
(* SQL (app/repositories/score_sql.py), and the queries and pages that use *)
(* one or the other (app/repositories/games.py, app/api/presenters.py).    *)
(*                                                                         *)
(* Raw scores are in tenths: a metascore of 79 is 790 of 1000, a userscore *)
(* of 7.9 is 79 of 100.                                                    *)
(***************************************************************************)
EXTENDS Integers, Sequences, FiniteSets, FiniteSetsExt, SequencesExt

Unknown == -1

\* Python's round of n / d: a half goes to the even neighbour.
RoundHalfEven(n, d) ==
  LET q == n \div d
      twice == 2 * (n % d)
  IN  IF twice > d \/ (twice = d /\ q % 2 = 1) THEN q + 1 ELSE q

----------------------------------------------------------------------------
(* The rule in Python *)

Tier(normalized) ==
  CASE normalized = Unknown -> "none"
    [] normalized >= 85 -> "excellent"
    [] normalized \in 70..84 -> "good"
    [] normalized \in 50..69 -> "mixed"
    [] normalized \in 0..49 -> "poor"

\* On the axis from 0 to 100.
Normalized(raw, scaleMax) == RoundHalfEven(raw * 100, scaleMax * 10)

\* make_score, of which only the normalised value and the sample are kept.
Score(raw, count, scaleMax, zeroMin, lowSample) ==
  LET valid == raw # Unknown /\ count > 0 /\ ~(raw = 0 /\ count < zeroMin)
  IN  [normalized |-> IF valid THEN Normalized(raw, scaleMax) ELSE Unknown,
       lowSample |-> valid /\ count < lowSample]

Settings == [zeroMin |-> 20, lowSample |-> 20, agreement |-> 7, platformGap |-> 10]

CriticScore(raw, count) == Score(raw, count, 100, 1, Settings.lowSample)
UserScore(raw, count) == Score(raw, count, 10, Settings.zeroMin, Settings.lowSample)

Available(score) == score.normalized # Unknown

\* sort_key: compared as pairs, unavailable scores last either way.
SortKey(score, descending) ==
  IF ~Available(score) THEN <<1, 0>>
  ELSE <<0, IF descending THEN -score.normalized ELSE score.normalized>>

\* agreement_delta; Apart is no score's difference.
Apart == 1000
Delta(critic, user) ==
  IF Available(critic) /\ Available(user) THEN critic.normalized - user.normalized
  ELSE Apart

Abs(n) == IF n < 0 THEN -n ELSE n

VerdictKind(critic, user) ==
  LET delta == Delta(critic, user)
  IN  CASE ~Available(critic) /\ ~Available(user) -> "none"
        [] ~Available(critic) /\ Available(user) -> "player-only"
        [] Available(critic) /\ ~Available(user) -> "critic-only"
        [] delta # Apart /\ Abs(delta) < Settings.agreement -> "agree"
        [] delta # Apart /\ delta >= Settings.agreement -> "players-lower"
        [] delta # Apart /\ delta <= -Settings.agreement -> "players-higher"

\* consensus_note: what it says of the two audiences, and its tone.
Consensus(critic, user) ==
  LET delta == Delta(critic, user)
  IN  CASE delta = Apart -> <<"one-sided", "neutral">>
        [] delta # Apart /\ Abs(delta) < Settings.agreement -> <<"agree", "neutral">>
        [] delta # Apart /\ delta >= Settings.agreement -> <<"lower", "warning">>
        [] delta # Apart /\ delta <= -Settings.agreement -> <<"higher", "neutral">>

----------------------------------------------------------------------------
(* The rule in SQL.  A game has the columns id, title, year, age (days since *)
(* release), meta, metaCount, user, userCount, and its platforms and genres. *)

Effective(column, count, zeroMin) ==
  IF count <= 0 \/ (column = 0 /\ count < zeroMin) THEN Unknown ELSE column

EffectiveMeta(g, zeroMin) == Effective(g.meta, g.metaCount, zeroMin)
EffectiveUser(g, zeroMin) == Effective(g.user, g.userCount, zeroMin)

\* gap_expr, in tenths of a point.
Gap(g, zeroMin) ==
  LET meta == EffectiveMeta(g, zeroMin)
      user == EffectiveUser(g, zeroMin)
  IN  IF meta = Unknown \/ user = Unknown THEN Unknown ELSE Abs(meta - user * 10)

----------------------------------------------------------------------------
(* The catalogue.  A filter has q, platforms, genres (sets, empty for any), *)
(* band, released, sort, descending, limit, offset and zeroMin.             *)

InBand(g, f) ==
  LET meta == EffectiveMeta(g, f.zeroMin)
  IN  CASE f.band = "any" -> TRUE
        [] f.band = "excellent" -> meta >= 850
        [] f.band = "good" -> meta >= 700
        [] f.band = "mixed" -> meta >= 500
        [] f.band = "unrated" -> meta = Unknown

InWindow(g, f) ==
  CASE f.released = "any" -> TRUE
    [] f.released = "last30" -> g.age # Unknown /\ g.age <= 30
    [] f.released = "2026" -> g.year = 2026
    [] f.released = "earlier" -> g.year < 2026  \* Unknown is before any year

\* _base_query
Matching(games, f) ==
  {g \in games :
     /\ f.q = {} \/ g.title \in f.q
     /\ f.platforms = {} \/ f.platforms \cap g.platforms # {}
     /\ f.genres = {} \/ f.genres \cap g.genres # {}
     /\ InBand(g, f) /\ InWindow(g, f)}

\* _apply_sort: the column, and whether the larger value comes first.
SortColumn(g, f) ==
  CASE f.sort = "title" -> g.title
    [] f.sort = "release_date" -> IF g.age = Unknown THEN Unknown ELSE 10000 - g.age
    [] f.sort = "userscore" -> EffectiveUser(g, f.zeroMin)
    [] f.sort = "gap" -> Gap(g, f.zeroMin)
    [] f.sort = "metascore" -> EffectiveMeta(g, f.zeroMin)

\* Rows without a value last; the newest row first among equals.
Precedes(g, h, f) ==
  LET mine == SortColumn(g, f)
      other == SortColumn(h, f)
  IN  \/ mine # Unknown /\ other = Unknown
      \/ /\ mine # Unknown /\ other # Unknown
         /\ IF f.descending \/ f.sort = "gap" THEN mine > other ELSE mine < other
      \/ mine = other /\ g.id > h.id

Listed(games, f) ==
  SetToSortSeq(Matching(games, f), LAMBDA g, h : Precedes(g, h, f))

\* search: the page and the total.
Search(games, f) ==
  [page |-> LET rows == Listed(games, f)
            IN  SubSeq(rows, f.offset + 1, Min({f.offset + f.limit, Len(rows)})),
   total |-> Cardinality(Matching(games, f))]

\* platform_facets and genre_facets take the other filters over, but not the setting.
PlatformFacet(games, f, p) ==
  Cardinality({g \in Matching(games, [f EXCEPT !.platforms = {}, !.zeroMin = 20]) :
                 p \in g.platforms})

GenreFacet(games, f, e) ==
  Cardinality({g \in Matching(games, [f EXCEPT !.genres = {}, !.zeroMin = 20]) :
                 e \in g.genres})

HighestRated(games) == {g \in games : g.meta >= 850 /\ g.metaCount >= 10}
BiggestGaps(games, minGap, zeroMin) == {g \in games : Gap(g, zeroMin) >= minGap * 10}

\* home: the first row of the first rail that has one.
Spotlight(rails) ==
  LET full == SelectSeq(rails, LAMBDA rail : rail # <<>>)
  IN  IF full = <<>> THEN <<>> ELSE <<full[1][1]>>

----------------------------------------------------------------------------
(* The page of a game.  A row of game_platforms has platform, lead, raw and  *)
(* count (of its metascore), and a summary has audience, platform and fresh. *)

GameScores(g) == <<CriticScore(g.meta, g.metaCount), UserScore(g.user, g.userCount)>>

\* The first of the best, in the order of the page: the lead first.
BestPlatform(rows) ==
  LET normalized(i) == CriticScore(rows[i].raw, rows[i].count).normalized
      best == {i \in DOMAIN rows :
                 /\ normalized(i) # Unknown
                 /\ \A j \in DOMAIN rows : normalized(j) <= normalized(i)}
  IN  IF best = {} THEN Unknown ELSE Min(best)

\* platform_line: the points its sentence names, Unknown when there is no sentence.
PlatformLine(rows, selected) ==
  LET best == BestPlatform(rows)
      norm(i) == CriticScore(rows[i].raw, rows[i].count).normalized
      at == {i \in DOMAIN rows : rows[i].platform = selected}
  IN  IF at = {} \/ best = Unknown THEN Unknown
      ELSE LET sel == Min(at)
           IN  IF norm(sel) = Unknown \/ sel = best
                  \/ norm(best) - norm(sel) < Settings.platformGap
               THEN Unknown ELSE norm(best) - norm(sel)

\* _pick: the lead's summary, or whichever the query returned first; shown if fresh.
Shown(summaries, lead, audience) ==
  LET matching == SelectSeq(summaries, LAMBDA s : s.audience = audience)
      leads == SelectSeq(matching, LAMBDA s : s.platform = lead)
      picked == IF leads # <<>> THEN leads ELSE matching
  IN  IF picked = <<>> \/ ~picked[1].fresh THEN <<>> ELSE <<picked[1]>>
=============================================================================
