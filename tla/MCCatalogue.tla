---------------------------- MODULE MCCatalogue ----------------------------
(***************************************************************************)
(* Two games of the source, two platforms, two workers.  The first game is *)
(* rescored, led by its other platform, renamed, answered without an id,   *)
(* and listed before it has a platform; the second takes its old slug.     *)
(***************************************************************************)
EXTENDS Catalogue, MCSimilarity, TLC

CONSTANTS a, b, s1, s2, i1, i2, pc, ps, w1, w2

Page(title, slug, id, lead, meta, user, slugs) ==
  [title |-> title, slug |-> slug, id |-> id, lead |-> lead, meta |-> meta, user |-> user,
   asked |-> slugs]

MCDetail ==
  {Page(a, s1, i1, pc, pc :> 1 @@ ps :> 2, pc :> 1 @@ ps :> NoScore, {s1}),
   Page(a, s1, i1, ps, pc :> 2 @@ ps :> 1, pc :> 2 @@ ps :> 1, {s1}),
   Page(a, s2, i1, pc, pc :> 2, pc :> 1, {s1, s2}),
   Page(a, s2, None, pc, pc :> 2, pc :> 1, {s2}),
   Page(a, s1, i1, None, <<>>, <<>>, {s1}),
   Page(b, s1, i2, pc, pc :> 1, pc :> 1, {s1})}

----------------------------------------------------------------------------
(* The reads of the catalogue, over all small inputs.                      *)

S == INSTANCE Scores

Metas == {<<S!Unknown, 0>>, <<0, 4>>, <<500, 0>>, <<690, 30>>, <<850, 30>>}
Users == {<<S!Unknown, 0>>, <<0, 2>>, <<0, 20>>, <<79, 30>>}
Game(id, meta, user, platforms) ==
  [id |-> id, title |-> 2 - id, year |-> 2026, age |-> 10 * id, meta |-> meta[1],
   metaCount |-> meta[2], user |-> user[1], userCount |-> user[2],
   platforms |-> platforms, genres |-> {}]

Pair == {{Game(1, m, u, {pc}), Game(2, n, v, {pc, ps})} :
           m \in Metas, u \in Users, n \in Metas, v \in Users}

Filter(sort, descending, band, platforms) ==
  [q |-> {}, platforms |-> platforms, genres |-> {}, band |-> band, released |-> "any",
   sort |-> sort, descending |-> descending, limit |-> 1, offset |-> 0, zeroMin |-> 20]

\* A player score is hidden by the queries exactly when it is hidden on the page, for
\* every score, count and threshold (score_sql.py).
ASSUME UserRuleAgrees ==
  \A raw \in {S!Unknown} \cup 0..100, count \in 0..25, zeroMin \in {1, 5, 20} :
    S!Effective(raw, count, zeroMin) = S!Unknown <=>
      ~S!Available(S!Score(raw, count, 10, zeroMin, 20))

\* A metascore too, but for a zero from fewer reviews than the players' threshold: the
\* page shows it as the lowest score there is, the queries as none (critic_score).
ASSUME CriticRuleDiffersAtZero ==
  \A raw \in {S!Unknown} \cup {10 * n : n \in 0..100}, count \in 0..25 :
    (S!Effective(raw, count, 20) = S!Unknown <=> ~S!Available(S!CriticScore(raw, count)))
      <=> ~(raw = 0 /\ count \in 1..19)

\* Whatever is sorted by a player's score or a gap, and either way: a row whose score the
\* page hides is after every row whose score it shows, the scores shown are in order, and
\* the pages of one row put together are the listing.
ASSUME ListedAsShown ==
  \A games \in Pair, descending \in BOOLEAN :
    LET f == Filter("userscore", descending, "any", {})
        gap == Filter("gap", descending, "any", {})
        rows == S!Listed(games, f)
        gaps == S!Listed(games, gap)
        key(g) == S!SortKey(S!GameScores(g)[2], descending)
        shown(g) == S!EffectiveMeta(g, 20) # S!Unknown /\ S!Available(S!GameScores(g)[2])
        delta(g) == S!Abs(S!Delta(S!GameScores(g)[1], S!GameScores(g)[2]))
    IN  /\ key(rows[1])[1] <= key(rows[2])[1]
        /\ key(rows[1])[1] = key(rows[2])[1] => key(rows[1])[2] <= key(rows[2])[2]
        /\ shown(gaps[2]) => shown(gaps[1]) /\ delta(gaps[1]) >= delta(gaps[2])
        /\ rows = S!Search(games, f).page \o S!Search(games, [f EXCEPT !.offset = 1]).page

\* A band contains the better ones, a game listed in one shows at least its tier, and a
\* platform's count is the number of games its filter lists.
ASSUME FiltersMeanWhatTheySay ==
  \A games \in Pair :
    LET of(band, platforms) == S!Matching(games, Filter("title", TRUE, band, platforms))
        tiers(band) == {S!Tier(S!GameScores(g)[1].normalized) : g \in of(band, {})}
    IN  /\ of("excellent", {}) \subseteq of("good", {})
        /\ of("good", {}) \subseteq of("mixed", {})
        /\ tiers("excellent") \subseteq {"excellent"}
        /\ tiers("mixed") \subseteq {"excellent", "good", "mixed"}
        /\ \A band \in {"any", "good", "unrated"}, p \in {pc, ps} :
             S!PlatformFacet(games, Filter("title", TRUE, band, {ps}), p) =
               S!Search(games, Filter("title", TRUE, band, {p})).total

\* The rail of disagreements holds the games whose verdict tells of as large a difference,
\* but those with a metascore of zero the queries hide.
ASSUME RailMatchesVerdict ==
  \A games \in Pair : \A g \in games :
    LET scores == S!GameScores(g)
    IN  /\ g \in S!BiggestGaps(games, 10, 20) <=>
              /\ S!EffectiveMeta(g, 20) # S!Unknown
              /\ S!Delta(scores[1], scores[2]) # S!Apart
              /\ S!Abs(S!Delta(scores[1], scores[2])) >= 10
        /\ g \in S!BiggestGaps(games, 10, 20) =>
              S!VerdictKind(scores[1], scores[2]) \in {"players-lower", "players-higher"}
        /\ S!VerdictKind(scores[1], scores[2]) = "agree" <=>
              S!Consensus(scores[1], scores[2])[1] = "agree"

\* The sentence about the selected platform names the distance to the best metascore of
\* the page, and says nothing of the best itself.
ASSUME PlatformLineMeasuresTheBest ==
  \A raw \in [1..3 -> {S!Unknown, 600, 740, 860}] :
    LET rows == [i \in 1..3 |-> [platform |-> i, lead |-> i = 1, raw |-> raw[i], count |-> 5]]
        best == S!BestPlatform(rows)
    IN  \A i \in 1..3 :
          LET points == S!PlatformLine(rows, i)
          IN  points # S!Unknown => /\ i # best /\ points >= 10
                                 /\ raw[i] + points * 10 = raw[best]
                                 /\ \A j \in 1..3 : raw[j] <= raw[best]
=============================================================================
