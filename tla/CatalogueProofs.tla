--------------------------- MODULE CatalogueProofs ---------------------------
(***************************************************************************)
(* Safety of the catalogue, for any number of games, platforms, pages of   *)
(* the source and concurrent syncs.  A sync writes over what its session   *)
(* has read, so the inductive invariant says of every session what still   *)
(* holds of the row it read (SessionInv): the row is there, and so are the *)
(* platforms the session has read of it.                                   *)
(***************************************************************************)
EXTENDS Catalogue, TLAPS, FiniteSetTheorems

PlatformRows == [Platform -> PlatformRow \cup {None}]

----------------------------------------------------------------------------
(* Rollups *)

LEMMA HighestTyped ==
  ASSUME NEW S \in SUBSET Score
  PROVE  Highest(S) \in Score
<1> DEFINE top == {x \in S : \A y \in S : y <= x}
<1>1. CASE top = {}
  BY <1>1 DEF Highest, Score
<1>2. CASE top # {}
  <2>1. (CHOOSE x \in top : TRUE) \in S
    BY <1>2
  <2> QED
    BY <1>2, <2>1 DEF Highest
<1> QED
  BY <1>1, <1>2

LEMMA LeadsTyped ==
  ASSUME NEW rows \in PlatformRows, NEW l \in Leads(rows)
  PROVE  IF RowsOf(rows) = {} THEN l = None ELSE l \in RowsOf(rows)
<1> DEFINE flagged == {p \in RowsOf(rows) : rows[p].lead}
<1>1. flagged \subseteq RowsOf(rows)
  OBVIOUS
<1> QED
  BY <1>1 DEF Leads

LEMMA RollupsTyped ==
  ASSUME NEW rows \in PlatformRows, NEW l \in Leads(rows)
  PROVE  Rollups(rows, l) \in Rollup /\ Rollups(rows, l).lead = l
<1> DEFINE R == RowsOf(rows)
<1>1. R \in SUBSET Platform /\ \A p \in R : rows[p] \in PlatformRow
  BY DEF RowsOf, PlatformRows
<1>2. Cardinality(R) \in Nat
  BY <1>1, PlatformAssumption, FS_Subset, FS_CardinalityType
<1>3. {rows[p].meta : p \in R} \in SUBSET Score /\ {rows[p].user : p \in R} \in SUBSET Score
  BY <1>1 DEF PlatformRow
<1>4. /\ Highest({rows[p].meta : p \in R}) \in Score
      /\ Highest({rows[p].user : p \in R}) \in Score
  BY <1>3, HighestTyped
<1>5. l = None \/ l \in R
  BY LeadsTyped
<1>6. l # None => rows[l].meta \in Score /\ rows[l].user \in Score
  BY <1>1, <1>5 DEF PlatformRow
<1>7. NoScore \in Score
  BY DEF Score
<1>8. /\ (IF l = None THEN NoScore ELSE rows[l].meta) \in Score
      /\ (IF l = None THEN NoScore ELSE rows[l].user) \in Score
  BY <1>6, <1>7
<1>9. l \in Platform \cup {None}
  BY <1>1, <1>5
<1> HIDE DEF R
<1> QED
  BY <1>2, <1>4, <1>8, <1>9 DEF Rollups, Rollup, R

----------------------------------------------------------------------------
(* What an upsert makes of the platform rows *)

LEMMA DetailParts ==
  ASSUME NEW d \in Detail
  PROVE  /\ d.title \in Title /\ d.slug \in Slug /\ d.id \in Id \cup {None}
         /\ DOMAIN d.meta \subseteq Platform
         /\ \A p \in DOMAIN d.meta : d.meta[p] \in Score /\ d.user[p] \in Score
BY DetailAssumption DEF Parsed

LEMMA UpsertedTyped ==
  ASSUME NEW rows \in PlatformRows, NEW d \in Detail, NEW fetched
  PROVE  /\ Upserted(rows, d, fetched) \in PlatformRows
         /\ RowsOf(Upserted(rows, d, fetched)) = RowsOf(rows) \cup DOMAIN d.meta
         /\ \A p \in Platform \ DOMAIN d.meta :
              rows[p] = None => Upserted(rows, d, fetched)[p] = None
<1> DEFINE up == Upserted(rows, d, fetched)
           user(p) == IF p \in fetched THEN d.user[p]
                      ELSE IF rows[p] = None THEN NoScore ELSE rows[p].user
           fresh(p) == [lead |-> p = d.lead, meta |-> d.meta[p], user |-> user(p)]
<1>1. ASSUME NEW p \in DOMAIN d.meta PROVE fresh(p) \in PlatformRow /\ fresh(p) # None
  <2>1. p \in Platform /\ d.meta[p] \in Score /\ d.user[p] \in Score
    BY DetailParts
  <2>2. rows[p] # None => rows[p].user \in Score
    BY <2>1 DEF PlatformRows, PlatformRow
  <2>3. user(p) \in Score
    BY <2>1, <2>2 DEF Score
  <2> HIDE DEF user
  <2>4. fresh(p) \in PlatformRow
    BY <2>1, <2>3 DEF PlatformRow
  <2> QED
    BY <2>4, NoneAssumption
<1>2. ASSUME NEW p \in Platform, rows[p] # None
      PROVE  [rows[p] EXCEPT !.lead = FALSE] \in PlatformRow
             /\ [rows[p] EXCEPT !.lead = FALSE] # None
  <2>1. rows[p] \in PlatformRow
    BY <1>2 DEF PlatformRows
  <2>2. [rows[p] EXCEPT !.lead = FALSE] \in PlatformRow
    BY <2>1 DEF PlatformRow
  <2> QED
    BY <2>2, NoneAssumption
<1>3. DOMAIN d.meta \subseteq Platform
  BY DetailParts
<1>4. up = [p \in Platform |->
              IF p \in DOMAIN d.meta THEN fresh(p)
              ELSE IF rows[p] = None THEN None ELSE [rows[p] EXCEPT !.lead = FALSE]]
  BY DEF Upserted
<1> HIDE DEF up, fresh
<1>5. \A p \in Platform : up[p] \in PlatformRow \cup {None}
  BY <1>1, <1>2, <1>4
<1>6. up \in PlatformRows
  BY <1>4, <1>5 DEF PlatformRows
<1>7. \A p \in Platform : up[p] # None <=> rows[p] # None \/ p \in DOMAIN d.meta
  BY <1>1, <1>2, <1>4
<1>8. RowsOf(up) = RowsOf(rows) \cup DOMAIN d.meta
  BY <1>3, <1>7 DEF RowsOf
<1>9. \A p \in Platform \ DOMAIN d.meta : rows[p] = None => up[p] = None
  BY <1>4
<1> QED
  BY <1>6, <1>8, <1>9 DEF up

LEMMA NoRowsTyped == NoRows \in PlatformRows /\ RowsOf(NoRows) = {}
BY DEF NoRows, PlatformRows, RowsOf

\* A page flags one platform at most.
LEMMA UpsertedLeads ==
  ASSUME NEW d \in Detail, NEW fetched
  PROVE  OneLead(Upserted(NoRows, d, fetched))
<1> DEFINE up == Upserted(NoRows, d, fetched)
           flagged == {p \in RowsOf(up) : up[p].lead}
<1>1. RowsOf(up) = DOMAIN d.meta /\ DOMAIN d.meta \subseteq Platform
  BY UpsertedTyped, NoRowsTyped, DetailParts
<1>2. \A p \in DOMAIN d.meta : up[p].lead = (p = d.lead)
  BY <1>1 DEF Upserted
<1>3. flagged \in SUBSET {d.lead}
  BY <1>1, <1>2
<1>4. IsFiniteSet({d.lead}) /\ Cardinality({d.lead}) = 1
  BY FS_Singleton
<1>5. Cardinality(flagged) <= 1 /\ Cardinality(flagged) \in Nat
  BY <1>3, <1>4, FS_Subset, FS_CardinalityType
<1> QED
  BY <1>5 DEF OneLead

----------------------------------------------------------------------------
(* What a flush leaves *)

LEMMA GameFlushedTyped ==
  ASSUME NEW db \in GameRecord, NEW read \in GameRecord, NEW new \in GameRecord
  PROVE  /\ GameFlushed(db, read, new) \in GameRecord
         /\ GameFlushed(db, read, new).rollups.lead =
              IF new.rollups.lead = read.rollups.lead THEN db.rollups.lead
              ELSE new.rollups.lead
<1> DEFINE row == Flush(db, read, new)
           rollups == Flush(db.rollups, read.rollups, new.rollups)
<1>1. /\ db.rollups \in Rollup /\ read.rollups \in Rollup /\ new.rollups \in Rollup
  BY DEF GameRecord
<1>2. rollups \in Rollup
  BY <1>1 DEF Flush, Rollup
<1>3. rollups.lead = IF new.rollups.lead = read.rollups.lead THEN db.rollups.lead
                     ELSE new.rollups.lead
  BY <1>1 DEF Flush, Rollup
<1>4. row \in GameRecord
  BY DEF Flush, GameRecord
<1> HIDE DEF row, rollups
<1>5. [row EXCEPT !.rollups = rollups] \in GameRecord
      /\ [row EXCEPT !.rollups = rollups].rollups = rollups
  BY <1>2, <1>4 DEF GameRecord
<1> QED
  BY <1>3, <1>5 DEF GameFlushed, row, rollups

LEMMA PlatformFlushedTyped ==
  ASSUME NEW db \in PlatformRow \cup {None}, NEW read \in PlatformRow \cup {None},
         NEW new \in PlatformRow \cup {None}, read # None => db # None
  PROVE  /\ PlatformFlushed(db, read, new) \in PlatformRow \cup {None}
         /\ PlatformFlushed(db, read, new) = None <=> new = None
<1>1. CASE new = None \/ read = None
  BY <1>1 DEF PlatformFlushed
<1>2. CASE new # None /\ read # None
  <2>1. db \in PlatformRow /\ read \in PlatformRow /\ new \in PlatformRow
    BY <1>2
  <2> DEFINE row == Flush(db, read, new)
             lead == LeadFlushed(db, read, new)
  <2>2. row \in PlatformRow /\ lead \in BOOLEAN
    BY <2>1 DEF Flush, LeadFlushed, PlatformRow
  <2> HIDE DEF row, lead
  <2>3. [row EXCEPT !.lead = lead] \in PlatformRow
    BY <2>2 DEF PlatformRow
  <2>4. PlatformFlushed(db, read, new) = [row EXCEPT !.lead = lead]
    BY <1>2 DEF PlatformFlushed, row, lead
  <2> QED
    BY <1>2, <2>3, <2>4, NoneAssumption
<1> QED
  BY <1>1, <1>2

\* A row that is as it was read becomes what was set.
LEMMA PlatformUnraced ==
  ASSUME NEW db \in PlatformRow \cup {None}, NEW new \in PlatformRow \cup {None}
  PROVE  PlatformFlushed(db, db, new) = new
<1>1. CASE new = None \/ db = None
  BY <1>1 DEF PlatformFlushed
<1>2. CASE new # None /\ db # None
  <2>1. db \in PlatformRow /\ new \in PlatformRow
    BY <1>2
  <2>2. Flush(db, db, new) = new
    BY <2>1 DEF Flush, PlatformRow
  <2>3. LeadFlushed(db, db, new) = new.lead
    BY <2>1 DEF LeadFlushed, PlatformRow
  <2>4. [new EXCEPT !.lead = new.lead] = new
    BY <2>1 DEF PlatformRow
  <2> QED
    BY <1>2, <2>2, <2>3, <2>4 DEF PlatformFlushed
<1> QED
  BY <1>1, <1>2

LEMMA GameUnraced ==
  ASSUME NEW db \in GameRecord, NEW read \in GameRecord, NEW new \in GameRecord,
         [read EXCEPT !.reviewed = db.reviewed] = db
  PROVE  /\ GameFlushed(db, read, new).rollups = new.rollups
         /\ GameFlushed(db, read, new).title = new.title
         /\ GameFlushed(db, read, new).id = new.id
<1>1. db.rollups = read.rollups /\ db.title = read.title /\ db.id = read.id
  BY DEF GameRecord
<1>2. db.rollups \in Rollup /\ new.rollups \in Rollup
  BY DEF GameRecord
<1>3. Flush(db.rollups, read.rollups, new.rollups) = new.rollups
  BY <1>1, <1>2 DEF Flush, Rollup
<1> DEFINE row == Flush(db, read, new)
<1>4. row \in GameRecord /\ row.title = new.title /\ row.id = new.id
  BY <1>1 DEF Flush, GameRecord
<1> HIDE DEF row
<1>5. /\ [row EXCEPT !.rollups = new.rollups].rollups = new.rollups
      /\ [row EXCEPT !.rollups = new.rollups].title = row.title
      /\ [row EXCEPT !.rollups = new.rollups].id = row.id
  BY <1>4 DEF GameRecord
<1> QED
  BY <1>3, <1>4, <1>5 DEF GameFlushed, row

----------------------------------------------------------------------------
(* The sessions *)

LeadIn(row, rows) ==
  IF RowsOf(rows) = {} THEN row.rollups.lead = None ELSE row.rollups.lead \in RowsOf(rows)

\* What a session has read is still there, perhaps changed; a game it has read as
\* led by a platform it has read with one.
SessionInv ==
  \A w \in Worker : session[w] # None /\ session[w].row # None =>
    /\ session[w].row \in Games /\ session[w].game \in GameRecord
    /\ RowsOf(session[w].platform) \subseteq RowsOf(platform[session[w].row])
    /\ session[w].game.rollups.lead # None => RowsOf(session[w].platform) # {}

\* What a sync of w writes: the row of game g and its platform rows, from page d.
Writes(w, g, row, rows, d) ==
  /\ game' = [game EXCEPT ![g] = row] /\ platform' = [platform EXCEPT ![g] = rows]
  /\ Unique(g, row) /\ OneLead(rows) /\ LeadIn(row, rows)
  /\ g \in Games => RowsOf(platform[g]) \subseteq RowsOf(rows)
  /\ session' = [session EXCEPT ![w] = None]
  /\ nameless' = nameless \cup (IF d.id = None THEN {d.title} ELSE {})
  /\ raced' \subseteq raced \cup {g} /\ raced \subseteq raced' \cup {g}
  /\ UNCHANGED <<day, syncs>>
  /\ g \notin raced' =>
       /\ \E l \in Leads(rows) : row.rollups = Rollups(rows, l)
       /\ row.title = d.title /\ row.id = d.id

LEMMA TypeParts ==
  ASSUME TypeOK
  PROVE  /\ \A g \in Games : g \in Row /\ game[g] \in GameRecord
         /\ \A g \in Row : platform[g] \in PlatformRows
         /\ \A w \in Worker : session[w] # None =>
              /\ session[w] \in Session /\ session[w].detail \in Detail
              /\ session[w].row \in Row \cup {None}
              /\ session[w].platform \in PlatformRows
BY DEF TypeOK, Games, Session, PlatformRows

LEMMA GameRowTyped ==
  ASSUME NEW d \in Detail, NEW reviewed \in {"never", "recently", "longAgo"},
         NEW rollups \in Rollup
  PROVE  /\ GameRow(d, reviewed, rollups) \in GameRecord
         /\ GameRow(d, reviewed, rollups).rollups = rollups
         /\ GameRow(d, reviewed, rollups).title = d.title
         /\ GameRow(d, reviewed, rollups).id = d.id
BY DetailParts DEF GameRow, GameRecord

LEMMA CreateWrites ==
  ASSUME TypeOK, NEW w \in Worker, Create(w)
  PROVE  \E g \in Row \ Games, row \in GameRecord, rows \in PlatformRows, d \in Detail :
           Writes(w, g, row, rows, d)
<1> DEFINE d == session[w].detail
<1>1. d \in Detail
  BY TypeParts DEF Create
<1>2. PICK g \in Row \ Games, fetched \in SUBSET DOMAIN d.meta :
        LET rows == Upserted(NoRows, d, fetched)
        IN  /\ \E l \in Leads(rows) :
                 LET row == GameRow(d, "never", Rollups(rows, l))
                 IN  Unique(g, row) /\ game' = [game EXCEPT ![g] = row]
            /\ platform' = [platform EXCEPT ![g] = rows]
  BY DEF Create
<1> DEFINE rows == Upserted(NoRows, d, fetched)
<1>3. rows \in PlatformRows /\ OneLead(rows)
  BY <1>1, NoRowsTyped, UpsertedTyped, UpsertedLeads
<1>4. PICK l \in Leads(rows) :
        /\ Unique(g, GameRow(d, "never", Rollups(rows, l)))
        /\ game' = [game EXCEPT ![g] = GameRow(d, "never", Rollups(rows, l))]
  BY <1>2
<1>5. platform' = [platform EXCEPT ![g] = rows]
  BY <1>2
<1>6. /\ session' = [session EXCEPT ![w] = None] /\ raced' = raced
      /\ nameless' = nameless \cup (IF d.id = None THEN {d.title} ELSE {})
      /\ UNCHANGED <<day, syncs>>
  BY DEF Create, Committed
<1> HIDE DEF rows, d
<1> DEFINE row == GameRow(d, "never", Rollups(rows, l))
<1>7. Rollups(rows, l) \in Rollup /\ Rollups(rows, l).lead = l
  BY <1>3, RollupsTyped
<1>8. /\ row \in GameRecord /\ row.rollups = Rollups(rows, l)
      /\ row.title = d.title /\ row.id = d.id
  BY <1>1, <1>7, GameRowTyped
<1>9. LeadIn(row, rows)
  BY <1>3, <1>7, <1>8, LeadsTyped DEF LeadIn
<1>10. Unique(g, row) /\ game' = [game EXCEPT ![g] = row]
  BY <1>4
<1> HIDE DEF row
<1> QED
  BY <1>1, <1>3, <1>5, <1>6, <1>8, <1>9, <1>10 DEF Writes

\* The session's view of a game has exactly the platforms that are there.
LEMMA HeldTyped ==
  ASSUME TypeOK, SessionInv, NEW w \in Worker, session[w] # None, NEW g \in Games
  PROVE  /\ Held(session[w], g).game \in GameRecord
         /\ Held(session[w], g).platform \in PlatformRows
         /\ \A p \in Platform :
              Held(session[w], g).platform[p] # None <=> platform[g][p] # None
         /\ Held(session[w], g).game.rollups.lead # None =>
              RowsOf(platform[g]) # {}
<1> DEFINE s == session[w]
<1>1. /\ g \in Row /\ game[g] \in GameRecord /\ platform[g] \in PlatformRows
      /\ s.platform \in PlatformRows
  BY TypeParts
<1>2. game[g].rollups.lead # None => RowsOf(platform[g]) # {}
  BY DEF TypeOK
<1>3. CASE s.row # g
  BY <1>1, <1>2, <1>3 DEF Held
<1>4. CASE s.row = g
  <2>1. /\ s.game \in GameRecord /\ RowsOf(s.platform) \subseteq RowsOf(platform[g])
        /\ s.game.rollups.lead # None => RowsOf(s.platform) # {}
    BY <1>1, <1>4, NoneAssumption DEF SessionInv
  <2> DEFINE rows == [p \in Platform |-> IF s.platform[p] # None THEN s.platform[p]
                                         ELSE platform[g][p]]
  <2>2. Held(s, g) = [game |-> s.game, platform |-> rows]
    BY <1>4 DEF Held
  <2>3. rows \in PlatformRows
    BY <1>1 DEF PlatformRows
  <2>4. \A p \in Platform : rows[p] # None <=> platform[g][p] # None
    BY <2>1 DEF RowsOf
  <2> HIDE DEF rows
  <2> QED
    BY <2>1, <2>2, <2>3, <2>4
<1> QED
  BY <1>3, <1>4

LEMMA UpdateWrites ==
  ASSUME TypeOK, SessionInv, NEW w \in Worker, Update(w)
  PROVE  \E g \in Games, row \in GameRecord, rows \in PlatformRows, d \in Detail :
           Writes(w, g, row, rows, d)
<1> DEFINE s == session[w]
           d == s.detail
<1>1. session[w] # None /\ d \in Detail
  BY TypeParts DEF Update
<1>2. PICK g \in Find(d.id, d.slug), fetched \in SUBSET DOMAIN d.meta :
        LET held == Held(s, g)
            rows == Upserted(held.platform, d, fetched)
            flushed == [p \in Platform |->
                         PlatformFlushed(platform[g][p], held.platform[p], rows[p])]
        IN  /\ OneLead(flushed) /\ platform' = [platform EXCEPT ![g] = flushed]
            /\ \E l \in Leads(rows) :
                 LET row == GameFlushed(game[g], held.game,
                              GameRow(d, held.game.reviewed, Rollups(rows, l)))
                 IN  Unique(g, row) /\ game' = [game EXCEPT ![g] = row]
            /\ raced' = IF held.platform = platform[g]
                           /\ [held.game EXCEPT !.reviewed = game[g].reviewed] = game[g]
                        THEN raced \ {g} ELSE raced \cup {g}
  BY DEF Update
<1> DEFINE held == Held(s, g)
           up == Upserted(held.platform, d, fetched)
           flushed == [p \in Platform |->
                        PlatformFlushed(platform[g][p], held.platform[p], up[p])]
<1>3. PICK l \in Leads(up) :
        LET row == GameFlushed(game[g], held.game,
                     GameRow(d, held.game.reviewed, Rollups(up, l)))
        IN  Unique(g, row) /\ game' = [game EXCEPT ![g] = row]
  BY <1>2
<1> DEFINE new == GameRow(d, held.game.reviewed, Rollups(up, l))
           row == GameFlushed(game[g], held.game, new)
<1>4. /\ Unique(g, row) /\ game' = [game EXCEPT ![g] = row]
      /\ OneLead(flushed) /\ platform' = [platform EXCEPT ![g] = flushed]
      /\ raced' = IF held.platform = platform[g]
                     /\ [held.game EXCEPT !.reviewed = game[g].reviewed] = game[g]
                  THEN raced \ {g} ELSE raced \cup {g}
  BY <1>2, <1>3
<1>5. g \in Games
  BY DEF Find, ById, BySlug
<1>6. /\ held.game \in GameRecord /\ held.platform \in PlatformRows
      /\ \A p \in Platform : held.platform[p] # None <=> platform[g][p] # None
      /\ held.game.rollups.lead # None => RowsOf(platform[g]) # {}
  BY <1>1, <1>5, HeldTyped
<1>7. g \in Row /\ game[g] \in GameRecord /\ platform[g] \in PlatformRows
  BY <1>5, TypeParts
<1>8. /\ session' = [session EXCEPT ![w] = None]
      /\ nameless' = nameless \cup (IF d.id = None THEN {d.title} ELSE {})
      /\ UNCHANGED <<day, syncs>>
  BY DEF Update, Committed
<1> HIDE DEF held, d, s
<1>9. /\ up \in PlatformRows
      /\ RowsOf(up) = RowsOf(held.platform) \cup DOMAIN d.meta
  BY <1>1, <1>6, UpsertedTyped
<1> HIDE DEF up
<1>10. Rollups(up, l) \in Rollup /\ Rollups(up, l).lead = l
  BY <1>9, RollupsTyped
<1>11. held.game.reviewed \in {"never", "recently", "longAgo"}
  BY <1>6 DEF GameRecord
<1>12. /\ new \in GameRecord /\ new.rollups = Rollups(up, l)
       /\ new.title = d.title /\ new.id = d.id
  BY <1>1, <1>10, <1>11, GameRowTyped
<1> HIDE DEF new
<1>13. /\ row \in GameRecord
       /\ row.rollups.lead = IF l = held.game.rollups.lead THEN game[g].rollups.lead ELSE l
  BY <1>6, <1>7, <1>10, <1>12, GameFlushedTyped
<1>14. flushed \in PlatformRows /\ RowsOf(flushed) = RowsOf(up)
  <2>1. ASSUME NEW p \in Platform
        PROVE  flushed[p] \in PlatformRow \cup {None} /\ (flushed[p] = None <=> up[p] = None)
    <3>1. /\ platform[g][p] \in PlatformRow \cup {None}
          /\ held.platform[p] \in PlatformRow \cup {None}
          /\ up[p] \in PlatformRow \cup {None}
          /\ held.platform[p] # None => platform[g][p] # None
      BY <1>6, <1>7, <1>9 DEF PlatformRows
    <3>2. flushed[p] = PlatformFlushed(platform[g][p], held.platform[p], up[p])
      OBVIOUS
    <3> HIDE DEF flushed
    <3> QED
      BY <3>1, <3>2, PlatformFlushedTyped
  <2>2. flushed \in PlatformRows
    BY <2>1 DEF PlatformRows
  <2> HIDE DEF flushed
  <2> QED
    BY <2>1, <2>2 DEF RowsOf
<1>15. RowsOf(held.platform) = RowsOf(platform[g])
  BY <1>6 DEF RowsOf
\* The lead that is kept is one of a row that is kept.
<1>16. LeadIn(row, flushed)
  <2>1. IF RowsOf(up) = {} THEN l = None ELSE l \in RowsOf(up)
    BY <1>9, LeadsTyped
  <2>2. IF RowsOf(platform[g]) = {} THEN game[g].rollups.lead = None
        ELSE game[g].rollups.lead \in RowsOf(platform[g])
    BY <1>5 DEF TypeOK
  <2>3. RowsOf(platform[g]) \subseteq RowsOf(up) /\ None \notin RowsOf(up)
    BY <1>9, <1>15, NoneAssumption DEF RowsOf
  <2> HIDE DEF row, flushed
  <2>4. CASE l # held.game.rollups.lead
    BY <1>13, <1>14, <2>1, <2>4 DEF LeadIn
  <2>5. CASE l = held.game.rollups.lead
    <3>1. row.rollups.lead = game[g].rollups.lead
      BY <1>13, <2>5
    <3>2. CASE RowsOf(up) = {}
      BY <1>14, <2>2, <2>3, <3>1, <3>2 DEF LeadIn
    <3>3. CASE RowsOf(up) # {}
      <4>1. held.game.rollups.lead # None
        BY <2>1, <2>3, <2>5, <3>3
      <4> QED
        BY <1>6, <1>14, <2>2, <2>3, <3>1, <3>3, <4>1 DEF LeadIn
    <3> QED
      BY <3>2, <3>3
  <2> QED
    BY <2>4, <2>5
<1>17. ASSUME g \notin raced'
       PROVE  /\ \E k \in Leads(flushed) : row.rollups = Rollups(flushed, k)
              /\ row.title = d.title /\ row.id = d.id
  <2>1. /\ held.platform = platform[g]
        /\ [held.game EXCEPT !.reviewed = game[g].reviewed] = game[g]
    BY <1>4, <1>17
  <2>2. /\ row.rollups = Rollups(up, l) /\ row.title = d.title /\ row.id = d.id
    BY <1>6, <1>7, <1>12, <2>1, GameUnraced
  <2>3. \A p \in Platform : flushed[p] = up[p]
    <3> SUFFICES ASSUME NEW p \in Platform PROVE flushed[p] = up[p]
      OBVIOUS
    <3>1. /\ platform[g][p] \in PlatformRow \cup {None} /\ up[p] \in PlatformRow \cup {None}
          /\ flushed[p] = PlatformFlushed(platform[g][p], platform[g][p], up[p])
      BY <1>7, <1>9, <2>1 DEF PlatformRows
    <3> HIDE DEF flushed
    <3> QED
      BY <3>1, PlatformUnraced
  <2>4. flushed = up
    BY <1>9, <1>14, <2>3 DEF PlatformRows
  <2> QED
    BY <2>2, <2>4
<1>18. /\ raced' \subseteq raced \cup {g} /\ raced \subseteq raced' \cup {g}
  BY <1>4
<1>19. RowsOf(platform[g]) \subseteq RowsOf(flushed)
  BY <1>9, <1>14, <1>15
<1> HIDE DEF row, flushed
<1> QED
  BY <1>1, <1>4, <1>5, <1>8, <1>13, <1>14, <1>16, <1>17, <1>18, <1>19 DEF Writes

----------------------------------------------------------------------------
(* The shape of the catalogue *)

\* A sync writes one row, and the other sessions go on.
LEMMA WritesShape ==
  ASSUME TypeOK, SessionInv, NEW w \in Worker, NEW g \in Row, NEW row \in GameRecord,
         NEW rows \in PlatformRows, NEW d \in Detail, Writes(w, g, row, rows, d)
  PROVE  TypeOK' /\ SessionInv' /\ Games' = Games \cup {g}
<1>1. /\ game \in [Row -> GameRecord \cup {None}] /\ platform \in [Row -> PlatformRows]
      /\ session \in [Worker -> Session \cup {None}]
      /\ day \in Day /\ syncs \in 0..MaxSync /\ raced \subseteq Row /\ nameless \subseteq Title
  BY DEF TypeOK, PlatformRows
<1>2. /\ game' = [game EXCEPT ![g] = row] /\ platform' = [platform EXCEPT ![g] = rows]
      /\ Unique(g, row) /\ OneLead(rows) /\ LeadIn(row, rows)
      /\ g \in Games => RowsOf(platform[g]) \subseteq RowsOf(rows)
      /\ session' = [session EXCEPT ![w] = None]
      /\ nameless' = nameless \cup (IF d.id = None THEN {d.title} ELSE {})
      /\ raced' \subseteq raced \cup {g} /\ UNCHANGED <<day, syncs>>
  BY DEF Writes
<1>3. game' \in [Row -> GameRecord \cup {None}] /\ game'[g] = row
      /\ \A h \in Row \ {g} : game'[h] = game[h]
  BY <1>1, <1>2
<1>4. platform' \in [Row -> PlatformRows] /\ platform'[g] = rows
      /\ \A h \in Row \ {g} : platform'[h] = platform[h]
  BY <1>1, <1>2
<1>5. row # None
  BY NoneAssumption
<1>6. Games' = Games \cup {g}
  BY <1>3, <1>5 DEF Games
<1>7. ASSUME NEW h \in Games \cup {g}
      PROVE  /\ \A k \in (Games \cup {g}) \ {h} :
                  /\ game'[k].slug # game'[h].slug
                  /\ game'[h].id # None => game'[k].id # game'[h].id
             /\ OneLead(platform'[h]) /\ LeadIn(game'[h], platform'[h])
  <2>1. Games \subseteq Row
    BY DEF Games
  <2>2. \A k \in Games \ {g} : game[k].slug # row.slug /\ (row.id # None => game[k].id # row.id)
    BY <1>2 DEF Unique
  <2>3. CASE h = g
    BY <1>2, <1>3, <1>4, <2>1, <2>2, <2>3
  <2>4. CASE h # g
    <3>1. h \in Games /\ game'[h] = game[h] /\ platform'[h] = platform[h]
      BY <1>3, <1>4, <2>1, <2>4
    <3>2. Unique(h, game[h]) /\ OneLead(platform[h]) /\ LeadIn(game[h], platform[h])
      BY <3>1 DEF TypeOK, LeadIn
    <3>3. ASSUME NEW k \in (Games \cup {g}) \ {h}
          PROVE  game'[k].slug # game[h].slug /\ (game[h].id # None => game'[k].id # game[h].id)
      <4>1. CASE k = g
        BY <1>3, <2>2, <2>4, <3>1, <4>1
      <4>2. CASE k # g
        BY <1>3, <2>1, <3>2, <4>2 DEF Unique
      <4> QED
        BY <4>1, <4>2
    <3> QED
      BY <3>1, <3>2, <3>3
  <2> QED
    BY <2>3, <2>4
<1>8. \A h \in Row \ (Games \cup {g}) : platform'[h] = NoRows
  BY <1>4 DEF TypeOK
<1>9. raced' \subseteq Row /\ nameless' \subseteq Title
      /\ session' \in [Worker -> Session \cup {None}]
  BY <1>1, <1>2, DetailParts
<1>10. TypeOK'
  <2>1. \A h \in Games' : /\ Unique(h, game[h])'
                          /\ OneLead(platform'[h]) /\ LeadIn(game'[h], platform'[h])
    BY <1>6, <1>7 DEF Unique
  <2>2. \A h \in Row \ Games' : platform'[h] = NoRows
    BY <1>6, <1>8
  <2> QED
    BY <1>1, <1>2, <1>3, <1>4, <1>9, <2>1, <2>2 DEF TypeOK, LeadIn, PlatformRows
<1>11. SessionInv'
  <2> SUFFICES ASSUME NEW v \in Worker, session'[v] # None, session'[v].row # None
               PROVE  /\ session'[v].row \in Games' /\ session'[v].game \in GameRecord
                      /\ RowsOf(session'[v].platform) \subseteq RowsOf(platform'[session'[v].row])
                      /\ session'[v].game.rollups.lead # None =>
                           RowsOf(session'[v].platform) # {}
    BY DEF SessionInv
  <2>1. session'[v] = session[v]
    BY <1>1, <1>2
  <2>2. /\ session[v].row \in Games /\ session[v].game \in GameRecord
        /\ RowsOf(session[v].platform) \subseteq RowsOf(platform[session[v].row])
        /\ session[v].game.rollups.lead # None => RowsOf(session[v].platform) # {}
    BY <2>1 DEF SessionInv
  <2>3. RowsOf(platform[session[v].row]) \subseteq RowsOf(platform'[session[v].row])
    BY <1>2, <1>4, <2>2 DEF Games
  <2> QED
    BY <1>6, <2>1, <2>2, <2>3
<1> QED
  BY <1>6, <1>10, <1>11

\* A stamp is no part of what is asked here.
Stamped(g) ==
  /\ game'[g] \in GameRecord /\ game'[g].title = game[g].title
  /\ game'[g].slug = game[g].slug /\ game'[g].id = game[g].id
  /\ game'[g].rollups = game[g].rollups

LEMMA Stamps ==
  ASSUME TypeOK, (\E g \in Row : ReviewsSynced(g)) \/ NextDay
  PROVE  /\ game' \in [Row -> GameRecord \cup {None}] /\ Games' = Games
         /\ \A g \in Games : Stamped(g)
         /\ UNCHANGED <<syncs, platform, session, raced, nameless>> /\ day' \in Day
<1>1. \A g \in Games : g \in Row /\ game[g] \in GameRecord
  BY TypeParts
<1>2. ASSUME NEW g \in Games, NEW reviewed \in {"never", "recently", "longAgo"},
             game'[g] = [game[g] EXCEPT !.reviewed = reviewed]
      PROVE  Stamped(g)
  BY <1>1, <1>2 DEF Stamped, GameRecord
<1>3. ASSUME NEW g \in Games, game'[g] = game[g] PROVE Stamped(g)
  BY <1>1, <1>3 DEF Stamped
<1>4. ASSUME NEW k \in Row, ReviewsSynced(k)
      PROVE  /\ game' \in [Row -> GameRecord \cup {None}] /\ Games' = Games
             /\ \A g \in Games : Stamped(g)
  <2>1. k \in Games /\ game' = [game EXCEPT ![k] = [game[k] EXCEPT !.reviewed = "recently"]]
    BY <1>4 DEF ReviewsSynced
  <2>2. game'[k] = [game[k] EXCEPT !.reviewed = "recently"]
        /\ \A g \in Row \ {k} : game'[g] = game[g]
    BY <2>1 DEF TypeOK
  <2>3. \A g \in Games : Stamped(g)
    BY <1>1, <1>2, <1>3, <2>2
  <2>4. game'[k] \in GameRecord
    BY <2>1, <2>3 DEF Stamped
  <2>5. game' \in [Row -> GameRecord \cup {None}]
    BY <2>1, <2>2, <2>4 DEF TypeOK
  <2>6. Games' = Games
    BY <2>1, <2>2, <2>4, NoneAssumption DEF Games
  <2> QED
    BY <2>3, <2>5, <2>6
<1>5. ASSUME NextDay
      PROVE  /\ game' \in [Row -> GameRecord \cup {None}] /\ Games' = Games
             /\ \A g \in Games : Stamped(g)
  <2>1. \A g \in Row : game'[g] = IF g \in Games /\ game[g].reviewed = "recently"
                                  THEN [game[g] EXCEPT !.reviewed = "longAgo"] ELSE game[g]
    BY <1>5 DEF NextDay
  <2>2. \A g \in Games : Stamped(g)
    BY <1>1, <1>2, <1>3, <2>1
  <2>3. \A g \in Row \ Games : game'[g] = None
    BY <2>1 DEF Games
  <2>4. \A g \in Games : game'[g] \in GameRecord
    BY <2>2 DEF Stamped
  <2>5. game' \in [Row -> GameRecord \cup {None}]
    BY <1>5, <2>3, <2>4 DEF NextDay
  <2>6. Games' = Games
    BY <2>3, <2>4, NoneAssumption DEF Games
  <2> QED
    BY <2>2, <2>5, <2>6
<1>6. UNCHANGED <<syncs, platform, session, raced, nameless>> /\ day' \in Day
  BY BoundsAssumption DEF ReviewsSynced, NextDay, TypeOK, Day
<1> QED
  BY <1>4, <1>5, <1>6

LEMMA StampsShape ==
  ASSUME TypeOK, SessionInv, (\E g \in Row : ReviewsSynced(g)) \/ NextDay
  PROVE  TypeOK' /\ SessionInv'
<1>1. /\ game' \in [Row -> GameRecord \cup {None}] /\ Games' = Games
      /\ \A g \in Games : Stamped(g)
      /\ UNCHANGED <<syncs, platform, session, raced, nameless>> /\ day' \in Day
  BY Stamps
<1>2. ASSUME NEW g \in Games
      PROVE  Unique(g, game[g])' /\ OneLead(platform[g])' /\ LeadIn(game'[g], platform'[g])
  <2>1. Unique(g, game[g]) /\ OneLead(platform[g]) /\ LeadIn(game[g], platform[g])
    BY DEF TypeOK, LeadIn
  <2>2. Unique(g, game[g])'
    BY <1>1, <2>1 DEF Unique, Stamped
  <2> QED
    BY <1>1, <2>1, <2>2 DEF OneLead, LeadIn, Stamped
<1>3. TypeOK'
  BY <1>1, <1>2 DEF TypeOK, LeadIn
<1>4. SessionInv'
  BY <1>1 DEF SessionInv
<1> QED
  BY <1>3, <1>4

LEMMA ReadShape ==
  ASSUME TypeOK, SessionInv, NEW w \in Worker, NEW d \in Detail, NEW slug \in Slug,
         Read(w, d, slug)
  PROVE  TypeOK' /\ SessionInv'
<1>1. PICK g \in IF Find(d.id, slug) = {} THEN {None} ELSE Find(d.id, slug) :
        session' = [session EXCEPT ![w] =
          [detail |-> d, row |-> g,
           game |-> IF g = None THEN None ELSE game[g],
           platform |-> IF g = None THEN NoRows ELSE platform[g]]]
  BY DEF Read
<1> DEFINE s == [detail |-> d, row |-> g,
                 game |-> IF g = None THEN None ELSE game[g],
                 platform |-> IF g = None THEN NoRows ELSE platform[g]]
<1>2. g = None \/ g \in Games
  BY DEF Find, ById, BySlug
<1>3. g \in Games => g \in Row /\ game[g] \in GameRecord /\ platform[g] \in PlatformRows
  BY TypeParts
<1>4. s \in Session
  BY <1>2, <1>3, NoRowsTyped DEF Session, PlatformRows
<1>5. UNCHANGED <<day, game, platform, raced, nameless>> /\ syncs' \in 0..MaxSync
  BY BoundsAssumption DEF Read, TypeOK
<1>6. /\ session' \in [Worker -> Session \cup {None}] /\ session'[w] = s
      /\ \A v \in Worker \ {w} : session'[v] = session[v]
  BY <1>1, <1>4 DEF TypeOK
<1>7. TypeOK'
  BY <1>5, <1>6 DEF TypeOK, Games, Unique
<1>8. g # None => /\ g \in Games /\ s.game = game[g] /\ s.platform = platform[g]
                  /\ game[g].rollups.lead # None => RowsOf(platform[g]) # {}
  BY <1>2 DEF TypeOK
<1>9. s.row = g
  OBVIOUS
<1> HIDE DEF s
<1>10. SessionInv'
  <2> SUFFICES ASSUME NEW v \in Worker, session'[v] # None, session'[v].row # None
               PROVE  /\ session'[v].row \in Games /\ session'[v].game \in GameRecord
                      /\ RowsOf(session'[v].platform) \subseteq RowsOf(platform[session'[v].row])
                      /\ session'[v].game.rollups.lead # None =>
                           RowsOf(session'[v].platform) # {}
    BY <1>5 DEF SessionInv, Games
  <2>1. CASE v = w
    BY <1>3, <1>6, <1>8, <1>9, <2>1
  <2>2. CASE v # w
    BY <1>6, <2>2 DEF SessionInv
  <2> QED
    BY <2>1, <2>2
<1> QED
  BY <1>7, <1>10

LEMMA ShapeInvariant == Spec => [](TypeOK /\ SessionInv)
<1>1. Init => TypeOK /\ SessionInv
  <2> SUFFICES ASSUME Init PROVE TypeOK /\ SessionInv
    OBVIOUS
  <2>1. Games = {} /\ \A w \in Worker : session[w] = None
    BY DEF Init, Games
  <2>2. 1 \in Day /\ 0 \in 0..MaxSync
    BY BoundsAssumption DEF Day
  <2> QED
    BY <2>1, <2>2, NoRowsTyped DEF Init, TypeOK, SessionInv, PlatformRows
<1>2. TypeOK /\ SessionInv /\ [Next]_vars => TypeOK' /\ SessionInv'
  <2> SUFFICES ASSUME TypeOK, SessionInv, [Next]_vars PROVE TypeOK' /\ SessionInv'
    OBVIOUS
  <2>1. ASSUME NEW w \in Worker, NEW d \in Detail, NEW slug \in Slug, Read(w, d, slug)
        PROVE  TypeOK' /\ SessionInv'
    BY <2>1, ReadShape
  <2>2. ASSUME NEW w \in Worker, Abort(w) PROVE TypeOK' /\ SessionInv'
    <3>1. /\ UNCHANGED <<day, syncs, game, platform, raced, nameless>>
          /\ \A v \in Worker : session'[v] \in {session[v], None}
          /\ session' \in [Worker -> Session \cup {None}]
      BY <2>2 DEF Abort, TypeOK
    <3>2. Games' = Games
      BY <3>1 DEF Games
    <3> QED
      BY <3>1, <3>2 DEF TypeOK, SessionInv, Unique
  <2>3. ASSUME NEW w \in Worker, Create(w) \/ Update(w) PROVE TypeOK' /\ SessionInv'
    <3>1. Games \subseteq Row
      BY DEF Games
    <3>2. \E g \in Row, row \in GameRecord, rows \in PlatformRows, d \in Detail :
            Writes(w, g, row, rows, d)
      BY <2>3, <3>1, CreateWrites, UpdateWrites
    <3> QED
      BY <3>2, WritesShape
  <2>4. CASE (\E g \in Row : ReviewsSynced(g)) \/ NextDay
    BY <2>4, StampsShape
  <2>5. CASE UNCHANGED vars
    BY <2>5 DEF vars, TypeOK, SessionInv, Games, Unique
  <2> QED
    BY <2>1, <2>2, <2>3, <2>4, <2>5 DEF Next
<1> QED
  BY <1>1, <1>2, PTL DEF Spec

\* The shape of the rows: no two games share a slug or an id, and a game with
\* platforms leads with one of them, whatever overlaps.
THEOREM TypeCorrect == Spec => []TypeOK
BY ShapeInvariant, PTL

----------------------------------------------------------------------------
(* Rollups and identity *)

\* A row that was last written as it had been read has the title and the id of
\* one page.
NamedInv ==
  \A g \in Games \ raced :
    game[g].title \in nameless
      \/ \E d \in Detail : d.id # None /\ game[g].title = d.title /\ game[g].id = d.id

LEMMA UnracedInvariant == Spec => [](RollupsAgree /\ NamedInv)
<1>1. Init => RollupsAgree /\ NamedInv
  BY DEF Init, RollupsAgree, NamedInv, Games
<1>2. TypeOK /\ SessionInv /\ RollupsAgree /\ NamedInv /\ [Next]_vars
        => RollupsAgree' /\ NamedInv'
  <2> SUFFICES ASSUME TypeOK, SessionInv, RollupsAgree, NamedInv, [Next]_vars
               PROVE  RollupsAgree' /\ NamedInv'
    OBVIOUS
  <2>1. ASSUME NEW w \in Worker, Create(w) \/ Update(w) PROVE RollupsAgree' /\ NamedInv'
    <3>1. Games \subseteq Row
      BY DEF Games
    <3>2. PICK g \in Row, row \in GameRecord, rows \in PlatformRows, d \in Detail :
            Writes(w, g, row, rows, d)
      BY <2>1, <3>1, CreateWrites, UpdateWrites
    <3>3. Games' = Games \cup {g}
      BY <3>2, WritesShape
    <3>4. /\ game'[g] = row /\ platform'[g] = rows
          /\ \A h \in Row \ {g} : game'[h] = game[h] /\ platform'[h] = platform[h]
          /\ raced' \subseteq raced \cup {g} /\ raced \subseteq raced' \cup {g}
          /\ nameless' = nameless \cup (IF d.id = None THEN {d.title} ELSE {})
          /\ g \notin raced' => /\ \E l \in Leads(rows) : row.rollups = Rollups(rows, l)
                                /\ row.title = d.title /\ row.id = d.id
      BY <3>2 DEF Writes, TypeOK
    <3>5. ASSUME NEW h \in Games' \ raced'
          PROVE  /\ \E l \in Leads(platform'[h]) : game'[h].rollups = Rollups(platform'[h], l)
                 /\ game'[h].title \in nameless'
                      \/ \E e \in Detail : /\ e.id # None
                                           /\ game'[h].title = e.title /\ game'[h].id = e.id
      <4>1. CASE h = g
        BY <3>4, <4>1
      <4>2. CASE h # g
        <5>1. h \in Games \ raced /\ game'[h] = game[h] /\ platform'[h] = platform[h]
          BY <3>1, <3>3, <3>4, <4>2
        <5> QED
          BY <3>4, <5>1 DEF RollupsAgree, NamedInv
      <4> QED
        BY <4>1, <4>2
    <3> QED
      BY <3>5 DEF RollupsAgree, NamedInv, Leads, RowsOf
  <2>2. CASE (\E g \in Row : ReviewsSynced(g)) \/ NextDay
    <3>1. /\ Games' = Games /\ \A g \in Games : Stamped(g)
          /\ UNCHANGED <<platform, raced, nameless>>
      BY <2>2, Stamps
    <3> QED
      BY <3>1 DEF RollupsAgree, NamedInv, Stamped
  <2>3. ASSUME UNCHANGED <<game, platform, raced, nameless>>
        PROVE  RollupsAgree' /\ NamedInv'
    BY <2>3 DEF RollupsAgree, NamedInv, Games
  <2>4. ASSUME NEW w \in Worker, NEW d \in Detail, NEW slug \in Slug, Read(w, d, slug)
        PROVE  RollupsAgree' /\ NamedInv'
    BY <2>3, <2>4 DEF Read
  <2>5. ASSUME NEW w \in Worker, Abort(w) PROVE RollupsAgree' /\ NamedInv'
    BY <2>3, <2>5 DEF Abort
  <2>6. CASE UNCHANGED vars
    BY <2>3, <2>6 DEF vars
  <2> QED
    BY <2>1, <2>2, <2>4, <2>5, <2>6 DEF Next
<1> QED
  BY <1>1, <1>2, ShapeInvariant, PTL DEF Spec

\* The rollups of a game are those of its platform rows, unless the last sync to
\* write it had read it before another one wrote it.
THEOREM RollupsKept == Spec => []RollupsAgree
BY UnracedInvariant, PTL

\* A game is in the catalogue once, through renames and reused slugs, as long as
\* the source has always given it its id and no row of it was last written over
\* rows that had changed: its id names the row, and ids are unique.
THEOREM OnceInCatalogue == Spec => []OneGamePerTitle
<1>1. TypeOK /\ NamedInv => OneGamePerTitle
  <2> SUFFICES ASSUME TypeOK, NamedInv, NEW g \in Games, NEW h \in Games, g # h,
                      game[g].title = game[h].title,
                      game[g].title \notin nameless, {g, h} \cap raced = {}
               PROVE  FALSE
    BY DEF OneGamePerTitle
  <2>1. PICK d \in Detail : d.id # None /\ game[g].title = d.title /\ game[g].id = d.id
    BY DEF NamedInv
  <2>2. PICK e \in Detail : e.id # None /\ game[h].title = e.title /\ game[h].id = e.id
    BY DEF NamedInv
  <2>3. d.id = e.id
    BY <2>1, <2>2, IdAssumption
  <2>4. Unique(g, game[g])
    BY DEF TypeOK
  <2> QED
    BY <2>1, <2>2, <2>3, <2>4 DEF Unique
<1> QED
  BY <1>1, ShapeInvariant, UnracedInvariant, PTL
=============================================================================
