----------------------------- MODULE Catalogue -----------------------------
(***************************************************************************)
(* The catalogue: a game, its platforms and the rollups over them, written *)
(* in one transaction by game.sync (app/services/game_sync.py and          *)
(* app/repositories/games.py), and the jobs that transaction asks for.     *)
(*                                                                         *)
(* The transaction reads the game before it asks the source for the player *)
(* scores, and writes after.  The ORM keeps the rows it has read and sends *)
(* only the columns whose value it has changed, so what another            *)
(* transaction commits in between is neither seen nor always overwritten.  *)
(* A nightly job and an operator's resync may sync one game at once.       *)
(***************************************************************************)
EXTENDS Integers, FiniteSets

CONSTANTS
  Row,            \* bound: ids of rows of games
  Platform,
  Title,          \* the games of the source
  Slug,
  Id,             \* mc_title_id
  Detail,         \* what the source may answer, see Parsed
  Worker,         \* workers that may be running a game.sync
  None,
  MaxSync,        \* bound: syncs started
  MaxDay          \* bound: days

NoScore == -1
Score == {NoScore} \cup Nat

(* parse_game_detail: one lead when there is a platform, critics' scores   *)
(* by platform, perhaps no id.  "user" is what user_stats would add, and   *)
(* "asked" the slugs that lead to this page.                               *)
Parsed(d) ==
  /\ d.title \in Title /\ d.slug \in Slug /\ d.asked \subseteq Slug
  /\ d.id = None \/ d.id \in Id
  /\ DOMAIN d.meta \subseteq Platform /\ DOMAIN d.user = DOMAIN d.meta
  /\ \A p \in DOMAIN d.meta : d.meta[p] \in Score /\ d.user[p] \in Score
  /\ IF DOMAIN d.meta = {} THEN d.lead = None ELSE d.lead \in DOMAIN d.meta

ASSUME DetailAssumption == \A d \in Detail : Parsed(d)

\* A title never changes its id.
ASSUME IdAssumption ==
  \A d, e \in Detail : d.title = e.title => d.id = e.id \/ None \in {d.id, e.id}

ASSUME RowAssumption == Row = 1..Cardinality(Row) /\ IsFiniteSet(Row)
ASSUME PlatformAssumption == IsFiniteSet(Platform)
ASSUME BoundsAssumption == MaxSync \in Nat /\ MaxDay \in Nat \ {0}

Day == 1..MaxDay

VARIABLES
  day,
  syncs,          \* syncs started so far
  \* Committed rows.
  game,           \* games, None where there is no row
  platform,       \* game_platforms, by game and platform
  asked,          \* idempotency keys of the jobs asked for
  \* The session of each worker: None, or the page and the rows it has read.
  session,
  \* History: games last written over rows that had changed since they were read.
  raced,
  \* History: titles the source has described without an id.
  nameless

vars == <<day, syncs, game, platform, asked, session, raced, nameless>>

Games == {g \in Row : game[g] # None}
RowsOf(rows) == {p \in Platform : rows[p] # None}

Fingerprint(d) == <<d.slug, d.meta>>

PlatformRow == [lead : BOOLEAN, meta : Score, user : Score]

Rollup == [platforms : Nat, lead : Platform \cup {None}, leadMeta : Score,
           leadUser : Score, bestMeta : Score, bestUser : Score]

GameRecord == [title : Title, slug : Slug, id : Id \cup {None},
               fingerprint : {Fingerprint(d) : d \in Detail},
               reviewed : {"never", "recently", "longAgo"}, rollups : Rollup]

Session == [detail : Detail, row : Row \cup {None}, game : GameRecord \cup {None},
            platform : [Platform -> PlatformRow \cup {None}]]

ASSUME NoneAssumption ==
  /\ None \notin Row /\ None \notin Platform /\ None \notin Id
  /\ None \notin PlatformRow /\ None \notin GameRecord /\ None \notin Session

NoRows == [p \in Platform |-> None]

----------------------------------------------------------------------------
(* Rollups *)

Highest(S) ==
  LET top == {x \in S : \A y \in S : y <= x}
  IN  IF top = {} THEN NoScore ELSE CHOOSE x \in top : TRUE

\* Mutant: no row leads when none is flagged.
FlaggedLeads(rows) ==
  LET flagged == {p \in RowsOf(rows) : rows[p].lead}
  IN  IF flagged = {} THEN {None} ELSE flagged

\* The lead row; any row when none is flagged, for the query has no order.
Leads(rows) ==
  LET flagged == {p \in RowsOf(rows) : rows[p].lead}
  IN  IF flagged # {} THEN flagged ELSE IF RowsOf(rows) = {} THEN {None} ELSE RowsOf(rows)

Rollups(rows, l) ==
  [platforms |-> Cardinality(RowsOf(rows)),
   lead      |-> l,
   leadMeta  |-> IF l = None THEN NoScore ELSE rows[l].meta,
   leadUser  |-> IF l = None THEN NoScore ELSE rows[l].user,
   bestMeta  |-> Highest({rows[p].meta : p \in RowsOf(rows)}),
   bestUser  |-> Highest({rows[p].user : p \in RowsOf(rows)})]

----------------------------------------------------------------------------
(* Identity *)

BySlug(slug) == {g \in Games : game[g].slug = slug}
ById(id) == {g \in Games : id # None /\ game[g].id = id}

\* The durable id first, the natural key second; empty when there is neither.
Find(id, slug) == IF ById(id) # {} THEN ById(id) ELSE BySlug(slug)

----------------------------------------------------------------------------
(* The session *)

\* What a flush leaves in a row: only the columns that differ from the row read.
Flush(db, read, new) ==
  [f \in DOMAIN new |-> IF new[f] = read[f] THEN db[f] ELSE new[f]]

\* The rows of g as the session has them: what it has read stays as it was,
\* the others are read now.
Held(s, g) ==
  IF s.row # g THEN [game |-> game[g], platform |-> platform[g]]
  ELSE [game |-> s.game,
        platform |-> [p \in Platform |-> IF s.platform[p] # None THEN s.platform[p]
                                         ELSE platform[g][p]]]

\* The platform rows after _upsert_platforms, fetched naming the platforms whose
\* player statistics arrived with a score or with a count: a count without a score
\* takes the old score away.  A platform that vanished keeps its row, not its flag.
Upserted(rows, d, fetched) ==
  [p \in Platform |->
    IF p \in DOMAIN d.meta
    THEN [lead |-> p = d.lead,
          meta |-> d.meta[p],
          user |-> IF p \in fetched THEN d.user[p]
                   ELSE IF rows[p] = None THEN NoScore ELSE rows[p].user]
    ELSE IF rows[p] = None THEN None
    ELSE [rows[p] EXCEPT !.lead = FALSE]]

\* The flags are cleared and flushed before one is set and flushed.
LeadFlushed(db, read, new) == new.lead \/ (db.lead /\ ~read.lead)

PlatformFlushed(db, read, new) ==
  IF new = None THEN None
  ELSE IF read = None THEN new
  ELSE [Flush(db, read, new) EXCEPT !.lead = LeadFlushed(db, read, new)]

\* Mutant: the id is not kept.
NamelessRow(d, reviewed, rollups) ==
  [title |-> d.title, slug |-> d.slug, id |-> None, fingerprint |-> Fingerprint(d),
   reviewed |-> reviewed, rollups |-> rollups]

GameRow(d, reviewed, rollups) ==
  [title |-> d.title, slug |-> d.slug, id |-> d.id, fingerprint |-> Fingerprint(d),
   reviewed |-> reviewed, rollups |-> rollups]

\* Mutant: the rollups are refreshed when the fingerprint has moved.
FlushedIfChanged(db, read, new) ==
  [Flush(db, read, new) EXCEPT
    !.rollups = IF new.fingerprint = read.fingerprint THEN db.rollups
                ELSE Flush(db.rollups, read.rollups, new.rollups)]

\* rollups are columns of the game like the others.
GameFlushed(db, read, new) ==
  [Flush(db, read, new) EXCEPT !.rollups = Flush(db.rollups, read.rollups, new.rollups)]

\* The indexes a flush must respect.
OneLead(rows) == Cardinality({p \in RowsOf(rows) : rows[p].lead}) <= 1
Unique(g, row) ==
  \A h \in Games \ {g} : game[h].slug # row.slug /\ (row.id # None => game[h].id # row.id)

----------------------------------------------------------------------------
(* The jobs a sync asks for *)

\* Player scores that did not arrive are compared as if there were none.
ScoresMoved(before, d, fetched) ==
  \E p \in DOMAIN d.meta :
    LET user == IF p \in fetched THEN d.user[p] ELSE NoScore
    IN  IF before[p] = None THEN d.meta[p] # NoScore \/ user # NoScore
        ELSE before[p].meta # d.meta[p] \/ before[p].user # user

Dispatched(g, created, changed, moved, reviewed) ==
  {<<"game.translate", g>>, <<"youtube.discover", g>>}
    \cup IF created \/ moved \/ reviewed # "recently" THEN {<<"reviews.sync", g, day>>} ELSE {}
    \cup IF changed THEN {<<"similarity", g, day>>} ELSE {}

----------------------------------------------------------------------------
Init ==
  /\ day = 1 /\ syncs = 0
  /\ game = [g \in Row |-> None]
  /\ platform = [g \in Row |-> NoRows]
  /\ asked = {}
  /\ session = [w \in Worker |-> None]
  /\ raced = {} /\ nameless = {}

\* The page is fetched, and the game it may already be is read with its platforms.
Read(w, d, slug) ==
  /\ session[w] = None /\ syncs < MaxSync /\ slug \in d.asked
  /\ syncs' = syncs + 1
  /\ \E g \in IF Find(d.id, slug) = {} THEN {None} ELSE Find(d.id, slug) :
       session' = [session EXCEPT ![w] =
         [detail |-> d, row |-> g,
          game |-> IF g = None THEN None ELSE game[g],
          platform |-> IF g = None THEN NoRows ELSE platform[g]]]
  /\ UNCHANGED <<day, game, platform, asked, raced, nameless>>

\* The transaction is rolled back: the source failed, or an index refused a row.
Abort(w) ==
  /\ session[w] # None
  /\ session' = [session EXCEPT ![w] = None]
  /\ UNCHANGED <<day, syncs, game, platform, asked, raced, nameless>>

Committed(w, d) ==
  /\ session' = [session EXCEPT ![w] = None]
  /\ nameless' = nameless \cup (IF d.id = None THEN {d.title} ELSE {})
  /\ UNCHANGED <<day, syncs>>

\* The upsert finds nothing and inserts.
Create(w) ==
  /\ session[w] # None
  /\ LET s == session[w]
         d == s.detail
     IN /\ Find(d.id, d.slug) = {}
        /\ \E g \in Row \ Games, fetched \in SUBSET DOMAIN d.meta :
             LET rows == Upserted(NoRows, d, fetched)
             IN /\ \A h \in Row \ Games : g <= h
                /\ \E l \in Leads(rows) :
                     LET row == GameRow(d, "never", Rollups(rows, l))
                     IN /\ Unique(g, row)
                        /\ game' = [game EXCEPT ![g] = row]
                /\ platform' = [platform EXCEPT ![g] = rows]
                /\ asked' = asked \cup
                     Dispatched(g, TRUE, TRUE, ScoresMoved(s.platform, d, fetched), "never")
        /\ Committed(w, d)
        /\ UNCHANGED raced

\* The upsert finds the game, and writes over what the session holds of it.
Update(w) ==
  /\ session[w] # None
  /\ LET s == session[w]
         d == s.detail
     IN /\ \E g \in Find(d.id, d.slug), fetched \in SUBSET DOMAIN d.meta :
             LET held == Held(s, g)
                 rows == Upserted(held.platform, d, fetched)
                 flushed == [p \in Platform |->
                              PlatformFlushed(platform[g][p], held.platform[p], rows[p])]
             IN /\ OneLead(flushed)
                /\ platform' = [platform EXCEPT ![g] = flushed]
                /\ \E l \in Leads(rows) :
                     LET row == GameFlushed(game[g], held.game,
                                  GameRow(d, held.game.reviewed, Rollups(rows, l)))
                     IN /\ Unique(g, row)
                        /\ game' = [game EXCEPT ![g] = row]
                /\ asked' = asked \cup
                     Dispatched(g, FALSE,
                       s.row = None \/ s.game.fingerprint # Fingerprint(d),
                       ScoresMoved(s.platform, d, fetched),
                       IF s.row = None THEN "never" ELSE s.game.reviewed)
                /\ raced' = IF held.platform = platform[g]
                               /\ [held.game EXCEPT !.reviewed = game[g].reviewed] = game[g]
                            THEN raced \ {g} ELSE raced \cup {g}
        /\ Committed(w, d)

\* A review sync stamps the game, asked for by a sync or by an operator.
ReviewsSynced(g) ==
  /\ g \in Games
  /\ game' = [game EXCEPT ![g].reviewed = "recently"]
  /\ UNCHANGED <<day, syncs, platform, asked, session, raced, nameless>>

\* The stamps grow older than reviews_min_interval_h.
NextDay ==
  /\ day < MaxDay
  /\ day' = day + 1
  /\ game' = [g \in Row |-> IF g \in Games /\ game[g].reviewed = "recently"
                            THEN [game[g] EXCEPT !.reviewed = "longAgo"] ELSE game[g]]
  /\ UNCHANGED <<syncs, platform, asked, session, raced, nameless>>

Next ==
  \/ \E w \in Worker :
       \/ \E d \in Detail, slug \in Slug : Read(w, d, slug)
       \/ Abort(w)
       \/ Create(w)
       \/ Update(w)
  \/ \E g \in Row : ReviewsSynced(g)
  \/ NextDay

Spec == Init /\ [][Next]_vars

----------------------------------------------------------------------------
(* Properties *)

\* The shape of the rows, and what the indexes and the parser keep of them: no
\* two games share a slug or an id, a game with platforms leads with one of them.
TypeOK ==
  /\ day \in Day /\ syncs \in 0..MaxSync
  /\ game \in [Row -> GameRecord \cup {None}]
  /\ platform \in [Row -> [Platform -> PlatformRow \cup {None}]]
  /\ session \in [Worker -> Session \cup {None}]
  /\ raced \subseteq Row /\ nameless \subseteq Title
  /\ \A g \in Games :
       /\ Unique(g, game[g]) /\ OneLead(platform[g])
       /\ IF RowsOf(platform[g]) = {} THEN game[g].rollups.lead = None
          ELSE game[g].rollups.lead \in RowsOf(platform[g])
  /\ \A g \in Row \ Games : platform[g] = NoRows

\* The rollups of a game are those of its committed platform rows, unless the
\* last sync to write it had read it before another one did (refresh_rollups,
\* repositories/games.py: "the two cannot drift").
RollupsAgree ==
  \A g \in Games \ raced : \E l \in Leads(platform[g]) :
    game[g].rollups = Rollups(platform[g], l)

\* A game is in the catalogue once, through renames and reused slugs, as long as
\* the source has always given it its id (find, repositories/games.py), unless one
\* of the rows was last written by a sync that had read it before another one
\* wrote it: that row may have the title of one game and the id of another.
OneGamePerTitle ==
  \A g, h \in Games :
    g # h /\ game[g].title = game[h].title =>
      game[g].title \in nameless \/ {g, h} \cap raced # {}
=============================================================================
