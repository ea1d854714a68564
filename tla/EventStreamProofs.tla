-------------------------- MODULE EventStreamProofs --------------------------
(***************************************************************************)
(* Theorems about EventStream, for any clients, writers, ceilings, backlog *)
(* and batch size: what a client is shown, what it may miss, and how the   *)
(* slots are counted.                                                      *)
(*                                                                         *)
(* A batch is cut and ordered by the ranks of its ids, so the proofs rest  *)
(* on lemmas about ranks in a finite set of naturals.  Between the cursor  *)
(* of the generator and the last id of the browser lie the frames on their *)
(* way: WireInv says how they link the two, MissInv what they leave out.   *)
(***************************************************************************)
EXTENDS EventStream, TLAPS, FiniteSetTheorems, SequenceTheorems

----------------------------------------------------------------------------
(* Ranks *)

UpTo(S, id) == {j \in S : j <= id}
Rank(S, id) == Cardinality(UpTo(S, id))

LEMMA UpToFinite ==
  ASSUME NEW S \in SUBSET Nat, IsFiniteSet(S), NEW id
  PROVE  /\ IsFiniteSet(UpTo(S, id)) /\ Rank(S, id) \in Nat
         /\ Rank(S, id) <= Cardinality(S)
<1>1. UpTo(S, id) \in SUBSET S
  BY DEF UpTo
<1> QED
  BY <1>1, FS_Subset, FS_CardinalityType DEF Rank

\* A larger id has a greater rank.
LEMMA RankMonotone ==
  ASSUME NEW S \in SUBSET Nat, IsFiniteSet(S), NEW a \in S, NEW b \in S, a < b
  PROVE  Rank(S, a) < Rank(S, b)
<1>1. UpTo(S, a) \in SUBSET UpTo(S, b) /\ b \in UpTo(S, b) /\ b \notin UpTo(S, a)
  <2>1. a \in Nat /\ b \in Nat /\ \A j \in S : j \in Nat
    OBVIOUS
  <2>2. \A j \in S : j <= a => j <= b
    BY <2>1
  <2>3. b <= b /\ ~(b <= a)
    BY <2>1
  <2> QED
    BY <2>2, <2>3 DEF UpTo
<1>2. /\ Cardinality(UpTo(S, a)) <= Cardinality(UpTo(S, b))
      /\ Cardinality(UpTo(S, a)) # Cardinality(UpTo(S, b))
  BY <1>1, UpToFinite, FS_Subset
<1> QED
  BY <1>2, UpToFinite DEF Rank

LEMMA RankPositive ==
  ASSUME NEW S \in SUBSET Nat, IsFiniteSet(S), NEW a \in S
  PROVE  Rank(S, a) \in 1..Cardinality(S)
<1>1. a \in UpTo(S, a)
  BY DEF UpTo
<1>2. Rank(S, a) # 0
  BY <1>1, UpToFinite, FS_EmptySet DEF Rank
<1> QED
  BY <1>2, UpToFinite, FS_CardinalityType

\* Every rank up to the size of the set is taken.
LEMMA RankOnto ==
  ASSUME NEW S \in SUBSET Nat, IsFiniteSet(S), NEW k \in 1..Cardinality(S)
  PROVE  \E a \in S : Rank(S, a) = k
<1> DEFINE n == Cardinality(S)
           f == [a \in S |-> Rank(S, a)]
<1>1. n \in Nat
  BY FS_CardinalityType
<1>2. f \in [S -> 1..n]
  BY RankPositive
<1>3. \A a, b \in S : f[a] = f[b] => a = b
  <2> SUFFICES ASSUME NEW a \in S, NEW b \in S, Rank(S, a) = Rank(S, b) PROVE a = b
    OBVIOUS
  <2>1. ~(a < b) /\ ~(b < a)
    BY RankMonotone, UpToFinite
  <2> QED
    BY <2>1
<1>4. f \in Injection(S, 1..n)
  BY <1>2, <1>3 DEF Injection, IsInjective
<1>5. IsFiniteSet(1..n) /\ Cardinality(1..n) = n
  BY <1>1, FS_Interval
<1> HIDE DEF f
<1>6. f \in Surjection(S, 1..n)
  BY <1>4, <1>5, FS_Injection
<1>7. \E a \in S : f[a] = k
  BY <1>6 DEF Surjection
<1> QED
  BY <1>7 DEF f

\* A set that is not empty has a greatest element, the last by rank.
LEMMA Greatest ==
  ASSUME NEW S \in SUBSET Nat, IsFiniteSet(S), S # {}
  PROVE  \E a \in S : \A b \in S : b <= a
<1>1. Cardinality(S) \in 1..Cardinality(S)
  BY FS_CardinalityType, FS_EmptySet
<1>2. PICK a \in S : Rank(S, a) = Cardinality(S)
  BY <1>1, RankOnto
<1>3. UpTo(S, a) \in SUBSET S
  BY DEF UpTo
<1>4. UpTo(S, a) = S
  BY <1>2, <1>3, FS_Subset DEF Rank
<1> QED
  BY <1>4 DEF UpTo

----------------------------------------------------------------------------
(* What a poll reads *)

\* The frames of a set of events are in the order of their ids, each once.
LEMMA FramesParts ==
  ASSUME NEW ids \in SUBSET Nat, IsFiniteSet(ids)
  PROVE  /\ EventFrames(ids) \in Seq(Frame)
         /\ Len(EventFrames(ids)) = Cardinality(ids)
         /\ \A k \in 1..Cardinality(ids) :
              /\ EventFrames(ids)[k].kind = "event" /\ EventFrames(ids)[k].id \in ids
              /\ Rank(ids, EventFrames(ids)[k].id) = k
<1> DEFINE n == Cardinality(ids)
           at(k) == CHOOSE id \in ids : Rank(ids, id) = k
           frame(k) == [kind |-> "event", id |-> at(k)]
           F == [k \in 1..n |-> frame(k)]
<1>1. n \in Nat
  BY FS_CardinalityType
<1>2. EventFrames(ids) = F
  BY DEF EventFrames, Rank, UpTo
<1>3. \A k \in 1..n : at(k) \in ids /\ Rank(ids, at(k)) = k
  <2> SUFFICES ASSUME NEW k \in 1..n PROVE at(k) \in ids /\ Rank(ids, at(k)) = k
    OBVIOUS
  <2>1. \E id \in ids : Rank(ids, id) = k
    BY RankOnto
  <2> QED
    BY <2>1
<1> HIDE DEF at
<1>4. \A k \in 1..n : frame(k) \in Frame
  BY <1>3 DEF Frame
<1>5. \A k \in 1..n : F[k].kind = "event" /\ F[k].id = at(k)
  OBVIOUS
<1> HIDE DEF frame
<1>6. F \in [1..n -> Frame]
  BY <1>4
<1>7. F \in Seq(Frame) /\ Len(F) = n
  <2>1. F \in Seq(Frame)
    BY <1>1, <1>6, SeqDef
  <2>2. DOMAIN F = 1..n /\ DOMAIN F = 1..Len(F) /\ Len(F) \in Nat
    BY <2>1, LenProperties
  <2> HIDE DEF F, n
  <2> QED
    BY <1>1, <2>1, <2>2
<1> HIDE DEF F
<1> QED
  BY <1>2, <1>3, <1>5, <1>7

LEMMA NewerFinite ==
  ASSUME TypeOK, NEW c \in Client
  PROVE  /\ Newer(c) \in SUBSET Nat /\ IsFiniteSet(Newer(c))
         /\ Batch(c) \in SUBSET Newer(c) /\ IsFiniteSet(Batch(c))
<1>1. Newer(c) \in SUBSET (1..MaxId)
  BY DEF Newer, TypeOK, LogTypeOK, Event
<1>2. IsFiniteSet(1..MaxId) /\ 1..MaxId \subseteq Nat
  BY MaxIdAssumption, FS_Interval
<1>3. IsFiniteSet(Newer(c))
  BY <1>1, <1>2, FS_Subset
<1>4. Batch(c) \in SUBSET Newer(c)
  BY DEF Batch
<1>5. IsFiniteSet(Batch(c))
  BY <1>3, <1>4, FS_Subset
<1> QED
  BY <1>1, <1>2, <1>3, <1>4, <1>5

LEMMA LatestTyped ==
  ASSUME TypeOK
  PROVE  LatestId \in Nat /\ \A e \in log : e.id <= LatestId
<1> DEFINE ids == {e.id : e \in log}
<1>1. ids \in SUBSET (1..MaxId)
  BY DEF TypeOK, LogTypeOK, Event
<1>2. IsFiniteSet(1..MaxId) /\ 1..MaxId \subseteq Nat
  BY MaxIdAssumption, FS_Interval
<1>3. ids \in SUBSET Nat /\ IsFiniteSet(ids)
  BY <1>1, <1>2, FS_Subset
<1>4. CASE log = {}
  BY <1>4 DEF LatestId
<1>5. CASE log # {}
  <2>1. \E a \in ids : \A b \in ids : b <= a
    <3>1. ids # {}
      BY <1>5
    <3> HIDE DEF ids
    <3> QED
      BY <1>3, <3>1, Greatest
  <2>2. \E a \in ids : \A e \in log : e.id <= a
    BY <2>1
  <2>3. LatestId = CHOOSE a \in ids : \A e \in log : e.id <= a
    BY <1>5 DEF LatestId
  <2> QED
    BY <1>3, <2>2, <2>3
<1> QED
  BY <1>4, <1>5

\* A generator starts where its client is, or further on.
LEMMA StartTyped ==
  ASSUME TypeOK, NEW c \in Client
  PROVE  /\ StartingPoint(c) \in Nat /\ StartingPoint(c) >= lastId[c]
<1>1. LatestId \in Nat /\ lastId[c] \in Nat \cup {NoId} /\ MaxBacklog \in Nat
  BY LatestTyped, LimitsAssumption DEF TypeOK
<1> QED
  BY <1>1 DEF StartingPoint, NoId

LEMMA PollParts ==
  ASSUME TypeOK, NEW c \in Client, Poll(c)
  PROVE  LET frames == EventFrames(Batch(c))
         IN  /\ frames \in Seq(Frame) /\ Len(frames) = Cardinality(Batch(c))
             /\ Len(frames) \in Nat \ {0}
             /\ frames[Len(frames)].id \in Nat
<1> DEFINE frames == EventFrames(Batch(c))
<1>1. Batch(c) \in SUBSET Nat /\ IsFiniteSet(Batch(c))
  BY NewerFinite
<1>2. frames \in Seq(Frame) /\ Len(frames) = Cardinality(Batch(c))
  BY <1>1, FramesParts
<1>3. Len(frames) \in Nat \ {0}
  BY <1>2, EmptySeq DEF Poll
<1>4. frames[Len(frames)] \in Frame
  BY <1>2, <1>3, ElementOfSeq
<1> QED
  BY <1>2, <1>3, <1>4 DEF Frame

----------------------------------------------------------------------------
(* Types, and the slots *)

Streaming == {c \in Client : conn[c] = "streaming"}

\* The count is of use only while there are finitely many generators.
SlotsInv == IsFiniteSet(Streaming) /\ SlotsCounted

LEMMA TypeInvariant == Spec => [](TypeOK /\ SlotsInv)
<1>1. Init => TypeOK /\ SlotsInv
  <2> SUFFICES ASSUME Init PROVE TypeOK /\ SlotsInv
    OBVIOUS
  <2>1. LogTypeOK
    BY MaxIdAssumption DEF Init, LogInit, LogTypeOK
  <2>2. <<>> \in Seq(Frame)
    BY EmptySeq
  <2>3. TypeOK
    BY <2>1, <2>2 DEF Init, TypeOK
  <2>4. Streaming = {}
    BY DEF Init, Streaming
  <2>5. IsFiniteSet(Streaming) /\ Cardinality(Streaming) = 0
    BY <2>4, FS_EmptySet
  <2>6. sseClients = 0 /\ ghosts = 0
    BY DEF Init
  <2>7. SlotsInv
    BY <2>5, <2>6 DEF SlotsInv, SlotsCounted, Streaming
  <2> QED
    BY <2>3, <2>7
<1>2. TypeOK /\ SlotsInv /\ [Next]_vars => TypeOK' /\ SlotsInv'
  <2> SUFFICES ASSUME TypeOK, SlotsInv, [Next]_vars PROVE TypeOK' /\ SlotsInv'
    OBVIOUS
  <2> USE DEF logVars, clientVars
  <2>0. /\ SlotsInv <=> IsFiniteSet(Streaming) /\ sseClients = Cardinality(Streaming) + ghosts
        /\ SlotsInv' <=> IsFiniteSet(Streaming') /\ sseClients' = Cardinality(Streaming') + ghosts'
        /\ IsFiniteSet(Streaming) => Cardinality(Streaming) \in Nat
    BY FS_CardinalityType DEF SlotsInv, SlotsCounted, Streaming
  <2>1. ASSUME conn' = conn, sseClients' = sseClients, ghosts' = ghosts PROVE SlotsInv'
    BY <2>1 DEF SlotsInv, SlotsCounted, Streaming
  <2>2. ASSUME NEW w \in Writer, Write(w) PROVE TypeOK' /\ SlotsInv'
    <3>1. PICK name \in Name : Emit(w, name)
      BY <2>2 DEF Write
    <3>2. LogTypeOK'
      <4>1. [id |-> nextId, name |-> name] \in Event
        BY <3>1, MaxIdAssumption DEF Emit, TypeOK, LogTypeOK, Event
      <4>2. nextId' \in 1..(MaxId + 1)
        BY <3>1, MaxIdAssumption DEF Emit, TypeOK, LogTypeOK
      <4> QED
        BY <3>1, <4>1, <4>2 DEF Emit, TypeOK, LogTypeOK
    <3> QED
      BY <2>1, <2>2, <3>2 DEF Write, TypeOK
  <2>3. ASSUME NEW w \in Writer, WriterCommits(w) PROVE TypeOK' /\ SlotsInv'
    <3>1. LogTypeOK'
      BY <2>3 DEF WriterCommits, Commit, TypeOK, LogTypeOK
    <3>2. late' \in [Client -> SUBSET Nat]
      <4>1. \A e \in open[w] : e.id \in Nat
        BY MaxIdAssumption DEF TypeOK, LogTypeOK, Event
      <4> QED
        BY <2>3, <4>1 DEF WriterCommits, TypeOK
    <3> QED
      BY <2>1, <2>3, <3>1, <3>2 DEF WriterCommits, TypeOK
  <2>4. ASSUME NEW w \in Writer, WriterRollsBack(w) PROVE TypeOK' /\ SlotsInv'
    <3>1. LogTypeOK'
      BY <2>4 DEF WriterRollsBack, Rollback, TypeOK, LogTypeOK
    <3> QED
      BY <2>1, <2>4, <3>1 DEF WriterRollsBack, TypeOK
  <2>5. CASE Purge
    <3>1. LogTypeOK'
      BY <2>5 DEF Purge, PurgeUpTo, TypeOK, LogTypeOK
    <3> QED
      BY <2>1, <2>5, <3>1 DEF Purge, TypeOK
  <2>6. ASSUME NEW c \in Client, Admit(c) PROVE TypeOK' /\ SlotsInv'
    <3>1. TypeOK'
      BY <2>6 DEF Admit, TypeOK, LogTypeOK
    <3>2. Streaming' = Streaming
      BY <2>6 DEF Admit, TypeOK, Streaming
    <3> QED
      BY <2>0, <2>6, <3>1, <3>2 DEF Admit
  <2>7. ASSUME NEW c \in Client, Start(c) PROVE TypeOK' /\ SlotsInv'
    <3> DEFINE from == StartingPoint(c)
    <3>1. from \in Nat
      BY StartTyped
    <3>2. <<[kind |-> "snapshot", id |-> from]>> \in Seq(Frame)
      <4>1. [kind |-> "snapshot", id |-> from] \in Frame
        BY <3>1 DEF Frame
      <4> QED
        BY <4>1
    <3>3. TypeOK'
      <4> HIDE DEF from
      <4>1. /\ conn' = [conn EXCEPT ![c] = "streaming"] /\ sseClients' = sseClients + 1
            /\ position' = [position EXCEPT ![c] = from]
            /\ wire' = [wire EXCEPT ![c] = <<[kind |-> "snapshot", id |-> from]>>]
            /\ UNCHANGED <<logVars, ghosts, lastId, seen, base, late>>
        BY <2>7 DEF Start, from
      <4> QED
        BY <3>1, <3>2, <4>1 DEF TypeOK, LogTypeOK
    <3>4. Streaming' = Streaming \cup {c} /\ c \notin Streaming
      BY <2>7 DEF Start, TypeOK, Streaming
    <3>5. IsFiniteSet(Streaming') /\ Cardinality(Streaming') = Cardinality(Streaming) + 1
      BY <2>0, <3>4, FS_AddElement
    <3>6. sseClients' = sseClients + 1 /\ ghosts' = ghosts /\ ghosts \in Nat
      BY <2>7 DEF Start, TypeOK
    <3>7. SlotsInv'
      BY <2>0, <3>5, <3>6
    <3> QED
      BY <3>3, <3>7
  <2>8. ASSUME NEW c \in Client, Poll(c) PROVE TypeOK' /\ SlotsInv'
    <3> DEFINE frames == EventFrames(Batch(c))
    <3>1. frames \in Seq(Frame) /\ frames[Len(frames)].id \in Nat
      BY <2>8, PollParts
    <3>2. /\ position' = [position EXCEPT ![c] = frames[Len(frames)].id]
          /\ wire' = [wire EXCEPT ![c] = wire[c] \o frames]
          /\ UNCHANGED <<logVars, conn, sseClients, ghosts, lastId, seen, base, late>>
      BY <2>8 DEF Poll
    <3> HIDE DEF frames
    <3>3. wire[c] \o frames \in Seq(Frame)
      BY <3>1, ConcatProperties DEF TypeOK
    <3>4. TypeOK'
      BY <3>1, <3>2, <3>3 DEF TypeOK, LogTypeOK
    <3> QED
      BY <2>1, <3>2, <3>4
  <2>9. ASSUME NEW c \in Client, Disconnect(c) PROVE TypeOK' /\ SlotsInv'
    <3>1. TypeOK'
      <4>1. <<>> \in Seq(Frame)
        BY EmptySeq
      <4>2. ghosts' \in Nat
        BY <2>9 DEF Disconnect, TypeOK
      <4> QED
        BY <2>9, <4>1, <4>2 DEF Disconnect, TypeOK, LogTypeOK
    <3>2. CASE conn[c] = "streaming"
      <4>1. Streaming' = Streaming \ {c} /\ c \in Streaming
        BY <2>9, <3>2 DEF Disconnect, TypeOK, Streaming
      <4>2. IsFiniteSet(Streaming') /\ Cardinality(Streaming') = Cardinality(Streaming) - 1
        BY <2>0, <4>1, FS_RemoveElement
      <4>3. sseClients' = sseClients /\ ghosts' = ghosts + 1 /\ ghosts \in Nat
        BY <2>9, <3>2 DEF Disconnect, TypeOK
      <4> QED
        BY <2>0, <3>1, <4>2, <4>3
    <3>3. CASE conn[c] # "streaming"
      <4>1. Streaming' = Streaming
        BY <2>9, <3>3 DEF Disconnect, TypeOK, Streaming
      <4> QED
        BY <2>0, <2>9, <3>1, <3>3, <4>1 DEF Disconnect
    <3> QED
      BY <3>2, <3>3
  <2>10. ASSUME NEW c \in Client, Receive(c) PROVE TypeOK' /\ SlotsInv'
    <3>1. wire[c] \in Seq(Frame) /\ wire[c] # <<>>
      BY <2>10 DEF Receive, TypeOK
    <3>2. Head(wire[c]) \in Frame /\ Tail(wire[c]) \in Seq(Frame)
      BY <3>1, HeadTailProperties
    <3>3. Head(wire[c]).id \in Nat
      BY <3>2 DEF Frame
    <3>4. /\ wire' = [wire EXCEPT ![c] = Tail(@)]
          /\ lastId' = [lastId EXCEPT ![c] = Head(wire[c]).id]
          /\ UNCHANGED <<logVars, conn, sseClients, ghosts, position, late>>
      BY <2>10 DEF Receive
    <3>5. seen' \in [Client -> SUBSET Nat]
      <4>1. \/ seen' = seen
            \/ seen' = [seen EXCEPT ![c] = @ \cup {Head(wire[c]).id}]
        BY <2>10 DEF Receive
      <4>2. seen[c] \cup {Head(wire[c]).id} \in SUBSET Nat
        BY <3>3 DEF TypeOK
      <4> QED
        BY <4>1, <4>2 DEF TypeOK
    <3>6. base' \in [Client -> Nat \cup {NoId}]
      <4>1. \/ base' = base
            \/ base' = [base EXCEPT ![c] = Head(wire[c]).id]
        BY <2>10 DEF Receive, TypeOK
      <4> QED
        BY <3>3, <4>1 DEF TypeOK
    <3>7. TypeOK'
      BY <3>2, <3>3, <3>4, <3>5, <3>6 DEF TypeOK, LogTypeOK
    <3> QED
      BY <2>1, <3>4, <3>7
  <2>11. ASSUME NEW c \in Client, Reload(c) PROVE TypeOK' /\ SlotsInv'
    BY <2>1, <2>11 DEF Reload, TypeOK, LogTypeOK
  <2>12. CASE GhostEnds
    <3>1. Streaming' = Streaming
      BY <2>12 DEF GhostEnds, Streaming
    <3>2. /\ sseClients' = sseClients - 1 /\ ghosts' = ghosts - 1
          /\ ghosts \in Nat /\ ghosts > 0
      BY <2>12 DEF GhostEnds, TypeOK
    <3>3. SlotsInv' /\ sseClients' \in Nat /\ ghosts' \in Nat
      BY <2>0, <3>1, <3>2
    <3> QED
      BY <2>12, <3>3 DEF GhostEnds, TypeOK, LogTypeOK
  <2>13. CASE UNCHANGED vars
    BY <2>1, <2>13 DEF vars, TypeOK, LogTypeOK
  <2> QED
    BY <2>2, <2>3, <2>4, <2>5, <2>6, <2>7, <2>8, <2>9, <2>10, <2>11, <2>12, <2>13 DEF Next
<1> QED
  BY <1>1, <1>2, PTL DEF Spec

\* Every variable keeps its type; the count of the clients stays a natural
\* number only because it counts slots that are taken.
THEOREM TypeCorrect == Spec => []TypeOK
BY TypeInvariant, PTL

\* The slots of the ceiling are taken by the generators that run, each once.
THEOREM SlotsKept == Spec => []SlotsCounted
<1>1. SlotsInv => SlotsCounted
  BY DEF SlotsInv
<1> QED
  BY <1>1, TypeInvariant, PTL

----------------------------------------------------------------------------
(* Between the cursor and the browser *)

\* The id in front of the k-th frame on its way to c.
Before(c, k) == IF k = 1 THEN lastId[c] ELSE wire[c][k - 1].id

\* Ids grow along the wire, from the last one received to the cursor.
WireInv ==
  \A c \in Client :
    /\ conn[c] # "streaming" => wire[c] = <<>>
    /\ conn[c] = "streaming" =>
         /\ position[c] = Before(c, Len(wire[c]) + 1)
         /\ \A k \in 1..(Len(wire[c]) + 1) : Before(c, k) <= position[c]
    /\ \A k \in 1..Len(wire[c]) :
         /\ Before(c, k) <= wire[c][k].id
         /\ wire[c][k].kind = "event" => Before(c, k) < wire[c][k].id

BaseInv == \A c \in Client : base[c] <= lastId[c]

\* What is in front of an event on its way is no event that c follows, but for
\* those that came too late.
MissInv ==
  \A c \in Client : \A e \in log :
    e.name \in Follows[c] /\ base[c] < e.id =>
      /\ e.id <= lastId[c] => e.id \in seen[c] \cup late[c]
      /\ \A k \in 1..Len(wire[c]) :
           /\ wire[c][k].kind = "event"
           /\ Before(c, k) < e.id /\ e.id <= wire[c][k].id
           => e.id = wire[c][k].id \/ e.id \in late[c]

\* The steps as one client sees them.
LEMMA ClientSteps ==
  ASSUME TypeOK, [Next]_vars, NEW c \in Client
  PROVE  \/ /\ conn'[c] = conn[c] /\ position'[c] = position[c] /\ wire'[c] = wire[c]
            /\ lastId'[c] = lastId[c] /\ seen'[c] = seen[c] /\ base'[c] = base[c]
            /\ late[c] \subseteq late'[c]
            /\ log' \subseteq log \/ \E w \in Writer : WriterCommits(w)
         \/ Admit(c) \/ Start(c) \/ Poll(c) \/ Disconnect(c) \/ Receive(c) \/ Reload(c)
<1> DEFINE Same == /\ conn'[c] = conn[c] /\ position'[c] = position[c]
                   /\ wire'[c] = wire[c] /\ lastId'[c] = lastId[c]
                   /\ seen'[c] = seen[c] /\ base'[c] = base[c]
                   /\ late[c] \subseteq late'[c]
<1> USE DEF logVars, clientVars
<1>1. ASSUME NEW w \in Writer, Write(w) \/ WriterRollsBack(w) PROVE Same /\ log' = log
  BY <1>1 DEF Write, WriterRollsBack, Emit, Rollback
<1>2. ASSUME NEW w \in Writer, WriterCommits(w) PROVE Same
  BY <1>2 DEF WriterCommits, TypeOK
<1>3. CASE Purge
  BY <1>3 DEF Purge, PurgeUpTo
<1>4. ASSUME NEW d \in Client \ {c}, Admit(d) \/ Start(d) \/ Poll(d)
      PROVE  Same /\ log' = log
  BY <1>4 DEF Admit, Start, Poll, TypeOK
<1>5. ASSUME NEW d \in Client \ {c}, Disconnect(d) \/ Reload(d)
      PROVE  Same /\ log' = log
  BY <1>5 DEF Disconnect, Reload, TypeOK
<1>6. ASSUME NEW d \in Client \ {c}, Receive(d) PROVE Same /\ log' = log
  <2>1. seen'[c] = seen[c]
    BY <1>6 DEF Receive, TypeOK
  <2>2. base'[c] = base[c]
    BY <1>6 DEF Receive, TypeOK
  <2> QED
    BY <1>6, <2>1, <2>2 DEF Receive, TypeOK
<1>7. CASE GhostEnds \/ UNCHANGED vars
  BY <1>7 DEF GhostEnds, vars
<1> QED
  BY <1>1, <1>2, <1>3, <1>4, <1>5, <1>6, <1>7 DEF Next

\* The batch holds every event that c follows between the cursor and any of
\* its frames.
LEMMA PollFrames ==
  ASSUME TypeOK, NEW c \in Client, Poll(c)
  PROVE  LET frames == EventFrames(Batch(c))
         IN  /\ \A k \in 1..Len(frames) :
                  /\ frames[k].kind = "event" /\ frames[k].id \in Nat
                  /\ frames[k].id > position[c]
             /\ \A k, m \in 1..Len(frames) : k < m => frames[k].id < frames[m].id
             /\ \A k \in 1..Len(frames) : \A id \in Newer(c) :
                  id <= frames[k].id => \E m \in 1..Len(frames) : frames[m].id = id
<1> DEFINE B == Batch(c)
           frames == EventFrames(B)
           n == Cardinality(B)
<1>1. /\ B \in SUBSET Nat /\ IsFiniteSet(B) /\ B \in SUBSET Newer(c)
      /\ Newer(c) \in SUBSET Nat /\ IsFiniteSet(Newer(c))
  BY NewerFinite
<1>2. \A id \in Newer(c) : id > position[c]
  BY DEF Newer
<1>3. \A id \in B, k \in Newer(c) : k <= id => k \in B
  <2> SUFFICES ASSUME NEW id \in B, NEW k \in Newer(c), k <= id PROVE k \in B
    OBVIOUS
  <2>1. {j \in Newer(c) : j <= k} \subseteq {j \in Newer(c) : j <= id}
    <3>1. \A j \in Newer(c) : j <= k => j <= id
      <4>1. id \in Nat /\ k \in Nat /\ \A j \in Newer(c) : j \in Nat
        BY <1>1
      <4> QED
        BY <4>1
    <3> QED
      BY <3>1
  <2>2. IsFiniteSet({j \in Newer(c) : j <= id}) /\ IsFiniteSet({j \in Newer(c) : j <= k})
    BY <1>1, FS_Subset
  <2>3. Cardinality({j \in Newer(c) : j <= k}) <= Cardinality({j \in Newer(c) : j <= id})
    BY <2>1, <2>2, FS_Subset
  <2>4. /\ Cardinality({j \in Newer(c) : j <= k}) \in Nat
        /\ Cardinality({j \in Newer(c) : j <= id}) \in Nat
    BY <2>2, FS_CardinalityType
  <2>5. Cardinality({j \in Newer(c) : j <= id}) <= Limit
    BY DEF Batch
  <2> QED
    BY <2>3, <2>4, <2>5, LimitsAssumption DEF Batch
<1> HIDE DEF B
<1>4. /\ Len(frames) = n
      /\ \A k \in 1..n : /\ frames[k].kind = "event" /\ frames[k].id \in B
                         /\ Rank(B, frames[k].id) = k
  BY <1>1, FramesParts
<1> HIDE DEF frames
<1>5. n \in Nat
  BY <1>1, FS_CardinalityType
<1>6. \A k, m \in 1..n : k < m => frames[k].id < frames[m].id
  <2> SUFFICES ASSUME NEW k \in 1..n, NEW m \in 1..n, k < m
               PROVE  frames[k].id < frames[m].id
    OBVIOUS
  <2>1. /\ frames[k].id \in B /\ frames[m].id \in B
        /\ Rank(B, frames[k].id) = k /\ Rank(B, frames[m].id) = m
    BY <1>4
  <2>2. frames[k].id # frames[m].id
    BY <2>1, <1>5
  <2>3. ~(frames[m].id < frames[k].id)
    <3> SUFFICES ASSUME frames[m].id < frames[k].id PROVE FALSE
      OBVIOUS
    <3>1. Rank(B, frames[m].id) < Rank(B, frames[k].id)
      BY <1>1, <2>1, RankMonotone
    <3> QED
      BY <1>5, <2>1, <3>1
  <2>4. frames[k].id \in Nat /\ frames[m].id \in Nat
    BY <1>1, <2>1
  <2> QED
    BY <2>2, <2>3, <2>4
<1>7. \A id \in B : \E m \in 1..n : frames[m].id = id
  <2> SUFFICES ASSUME NEW id \in B PROVE \E m \in 1..n : frames[m].id = id
    OBVIOUS
  <2> DEFINE m == Rank(B, id)
  <2>1. m \in 1..n
    BY <1>1, RankPositive
  <2>2. frames[m].id \in B /\ Rank(B, frames[m].id) = m
    BY <1>4, <2>1
  <2>3. ~(frames[m].id < id) /\ ~(id < frames[m].id)
    <3>1. ASSUME frames[m].id < id PROVE FALSE
      <4>1. Rank(B, frames[m].id) < Rank(B, id)
        BY <1>1, <2>2, <3>1, RankMonotone
      <4> QED
        BY <1>5, <2>1, <2>2, <4>1
    <3>2. ASSUME id < frames[m].id PROVE FALSE
      <4>1. Rank(B, id) < Rank(B, frames[m].id)
        BY <1>1, <2>2, <3>2, RankMonotone
      <4> QED
        BY <1>5, <2>1, <2>2, <4>1
    <3> QED
      BY <3>1, <3>2
  <2>4. frames[m].id = id
    <3>1. frames[m].id \in Nat /\ id \in Nat
      BY <1>1, <2>2
    <3> QED
      BY <2>3, <3>1
  <2> QED
    BY <2>1, <2>4
<1>8. ASSUME NEW k \in 1..n, NEW id \in Newer(c), id <= frames[k].id PROVE id \in B
  BY <1>3, <1>4, <1>8
<1>9. \A k \in 1..n : frames[k].id \in Nat /\ frames[k].id > position[c]
  BY <1>1, <1>2, <1>4
<1> QED
  BY <1>4, <1>6, <1>7, <1>8, <1>9 DEF frames, B

LEMMA PollWire ==
  ASSUME TypeOK, NEW c \in Client, Poll(c)
  PROVE  LET frames == EventFrames(Batch(c))
             l == Len(wire[c])
             n == Len(frames)
         IN  /\ l \in Nat /\ n \in Nat \ {0} /\ Len(wire'[c]) = l + n
             /\ position'[c] = frames[n].id
             /\ conn'[c] = "streaming" /\ conn[c] = "streaming"
             /\ lastId'[c] = lastId[c]
             /\ \A k \in 1..l : wire'[c][k] = wire[c][k]
             /\ \A k \in 1..n : wire'[c][l + k] = frames[k]
             /\ \A k \in 1..(l + 1) : Before(c, k)' = Before(c, k)
             /\ \A k \in (l + 2)..(l + n + 1) : Before(c, k)' = frames[k - l - 1].id
<1> DEFINE frames == EventFrames(Batch(c))
           l == Len(wire[c])
           n == Len(frames)
<1>1. frames \in Seq(Frame) /\ n \in Nat \ {0}
  BY PollParts
<1>2. wire[c] \in Seq(Frame) /\ l \in Nat
  BY LenProperties DEF TypeOK
<1>3. /\ conn'[c] = "streaming" /\ conn[c] = "streaming" /\ lastId'[c] = lastId[c]
      /\ position'[c] = frames[n].id /\ wire'[c] = wire[c] \o frames
  BY DEF Poll, TypeOK
<1> HIDE DEF frames
<1>4. /\ Len(wire[c] \o frames) = l + n
      /\ \A i \in 1..(l + n) : (wire[c] \o frames)[i] =
                                 IF i <= l THEN wire[c][i] ELSE frames[i - l]
  BY <1>1, <1>2, ConcatProperties
<1>5. \A k \in 1..l : wire'[c][k] = wire[c][k]
  BY <1>1, <1>2, <1>3, <1>4
<1>6. \A k \in 1..n : wire'[c][l + k] = frames[k]
  <2> SUFFICES ASSUME NEW k \in 1..n PROVE wire'[c][l + k] = frames[k]
    OBVIOUS
  <2>1. l + k \in 1..(l + n) /\ ~(l + k <= l) /\ (l + k) - l = k
    BY <1>1, <1>2
  <2> QED
    BY <1>3, <1>4, <2>1
<1>7. \A k \in 1..(l + 1) : Before(c, k)' = Before(c, k)
  <2> SUFFICES ASSUME NEW k \in 1..(l + 1) PROVE Before(c, k)' = Before(c, k)
    OBVIOUS
  <2>1. k # 1 => k - 1 \in 1..l
    BY <1>2
  <2> QED
    BY <1>3, <1>5, <2>1 DEF Before
<1>8. \A k \in (l + 2)..(l + n + 1) : Before(c, k)' = frames[k - l - 1].id
  <2> SUFFICES ASSUME NEW k \in (l + 2)..(l + n + 1)
               PROVE  Before(c, k)' = frames[k - l - 1].id
    OBVIOUS
  <2>1. k # 1 /\ k - 1 = l + (k - l - 1) /\ k - l - 1 \in 1..n
    BY <1>1, <1>2
  <2>2. wire'[c][k - 1] = frames[k - l - 1]
    BY <1>6, <2>1
  <2> QED
    BY <2>1, <2>2 DEF Before
<1> QED
  BY <1>1, <1>2, <1>3, <1>4, <1>5, <1>6, <1>7, <1>8 DEF frames

\* Receiving the first frame moves each of the others up by one.
LEMMA ReceiveWire ==
  ASSUME TypeOK, NEW c \in Client, Receive(c)
  PROVE  /\ Len(wire[c]) \in Nat \ {0} /\ Len(wire'[c]) = Len(wire[c]) - 1
         /\ Head(wire[c]) = wire[c][1] /\ wire[c][1] \in Frame
         /\ lastId'[c] = wire[c][1].id
         /\ conn'[c] = conn[c] /\ position'[c] = position[c]
         /\ \A k \in 1..(Len(wire[c]) - 1) : wire'[c][k] = wire[c][k + 1]
         /\ \A k \in 1..Len(wire[c]) : Before(c, k)' = Before(c, k + 1)
<1>1. wire[c] \in Seq(Frame) /\ wire[c] # <<>>
  BY DEF Receive, TypeOK
<1>2. Len(wire[c]) \in Nat \ {0}
  BY <1>1, EmptySeq
<1>3. Head(wire[c]) = wire[c][1] /\ wire[c][1] \in Frame
  BY <1>1, <1>2, ElementOfSeq
<1>4. /\ wire'[c] = Tail(wire[c]) /\ lastId'[c] = wire[c][1].id
      /\ conn'[c] = conn[c] /\ position'[c] = position[c]
  BY <1>3 DEF Receive, TypeOK
<1>5. /\ Len(wire'[c]) = Len(wire[c]) - 1
      /\ \A k \in 1..(Len(wire[c]) - 1) : wire'[c][k] = wire[c][k + 1]
  BY <1>1, <1>4, HeadTailProperties
<1>6. ASSUME NEW k \in 1..Len(wire[c]) PROVE Before(c, k)' = Before(c, k + 1)
  <2>1. CASE k = 1
    BY <1>4, <2>1 DEF Before
  <2>2. CASE k # 1
    <3>1. k - 1 \in 1..(Len(wire[c]) - 1) /\ (k - 1) + 1 = k /\ (k + 1) - 1 = k /\ k + 1 # 1
      BY <1>2, <2>2
    <3> QED
      BY <1>5, <2>2, <3>1 DEF Before
  <2> QED
    BY <2>1, <2>2
<1> QED
  BY <1>2, <1>3, <1>4, <1>5, <1>6

LEMMA WireInvariant == Spec => []WireInv
<1>1. Init => WireInv
  <2> SUFFICES ASSUME Init, NEW c \in Client PROVE wire[c] = <<>> /\ conn[c] # "streaming"
    BY EmptySeq DEF WireInv
  <2> QED
    BY DEF Init
<1>2. TypeOK /\ WireInv /\ [Next]_vars => WireInv'
  <2> SUFFICES ASSUME TypeOK, WireInv, [Next]_vars, NEW c \in Client
               PROVE  /\ conn'[c] # "streaming" => wire'[c] = <<>>
                      /\ conn'[c] = "streaming" =>
                           /\ \A k : k = Len(wire'[c]) + 1 => position'[c] = Before(c, k)'
                           /\ \A k \in 1..(Len(wire'[c]) + 1) : Before(c, k)' <= position'[c]
                      /\ \A k \in 1..Len(wire'[c]) :
                           /\ Before(c, k)' <= wire'[c][k].id
                           /\ wire'[c][k].kind = "event" => Before(c, k)' < wire'[c][k].id
    BY DEF WireInv, Before
  <2> DEFINE l == Len(wire[c])
  <2>0. /\ wire[c] \in Seq(Frame) /\ l \in Nat /\ position[c] \in Nat
        /\ \A k \in 1..l : wire[c][k].id \in Nat
        /\ lastId[c] \in Nat \cup {NoId}
        /\ \A k \in 1..(l + 1) : Before(c, k) \in Nat \cup {NoId}
    <3>1. wire[c] \in Seq(Frame) /\ position[c] \in Nat /\ lastId[c] \in Nat \cup {NoId}
      BY DEF TypeOK
    <3>2. l \in Nat /\ \A k \in 1..l : wire[c][k] \in Frame
      BY <3>1, LenProperties, ElementOfSeq
    <3>3. \A k \in 1..(l + 1) : k # 1 => k - 1 \in 1..l
      BY <3>2
    <3> QED
      BY <3>1, <3>2, <3>3 DEF Before, Frame
  <2>1. CASE /\ conn'[c] = conn[c] /\ position'[c] = position[c] /\ wire'[c] = wire[c]
             /\ lastId'[c] = lastId[c]
    BY <2>1 DEF WireInv, Before
  <2>2. ASSUME conn'[c] # "streaming", wire'[c] = <<>>
        PROVE  /\ conn'[c] # "streaming" => wire'[c] = <<>>
               /\ conn'[c] = "streaming" =>
                    /\ \A k : k = Len(wire'[c]) + 1 => position'[c] = Before(c, k)'
                    /\ \A k \in 1..(Len(wire'[c]) + 1) : Before(c, k)' <= position'[c]
               /\ \A k \in 1..Len(wire'[c]) :
                    /\ Before(c, k)' <= wire'[c][k].id
                    /\ wire'[c][k].kind = "event" => Before(c, k)' < wire'[c][k].id
    BY <2>2, EmptySeq
  <2>3. CASE Admit(c) \/ Reload(c)
    <3>1. conn[c] # "streaming" /\ conn'[c] # "streaming" /\ wire'[c] = wire[c]
      BY <2>3 DEF Admit, Reload, TypeOK
    <3> QED
      BY <2>2, <3>1 DEF WireInv
  <2>4. CASE Disconnect(c)
    <3>1. conn'[c] # "streaming" /\ wire'[c] = <<>>
      BY <2>4 DEF Disconnect, TypeOK
    <3> QED
      BY <2>2, <3>1
  <2>5. CASE Start(c)
    <3> DEFINE from == StartingPoint(c)
               frame == [kind |-> "snapshot", id |-> from]
    <3>1. from \in Nat /\ from >= lastId[c]
      BY StartTyped
    <3>2. /\ conn'[c] = "streaming" /\ position'[c] = from /\ lastId'[c] = lastId[c]
          /\ wire'[c] = <<frame>>
      BY <2>5 DEF Start, TypeOK
    <3>3. frame.id = from /\ frame.kind # "event"
      OBVIOUS
    <3> HIDE DEF from, frame
    <3>4. Len(wire'[c]) = 1 /\ wire'[c][1] = frame
      BY <3>2
    <3>5. Before(c, 1)' = lastId[c] /\ Before(c, 2)' = from
      BY <3>2, <3>3, <3>4 DEF Before
    <3>6. \A k \in 1..2 : k = 1 \/ k = 2
      OBVIOUS
    <3>7. \A k \in 1..1 : k = 1
      OBVIOUS
    <3>8. lastId[c] <= from
      BY <2>0, <3>1 DEF NoId
    <3>9. \A k \in 1..2 : Before(c, k)' <= position'[c]
      BY <3>1, <3>2, <3>5, <3>6, <3>8
    <3> QED
      BY <3>2, <3>3, <3>4, <3>5, <3>7, <3>8, <3>9
  <2>6. CASE Poll(c)
    <3> DEFINE F == EventFrames(Batch(c))
               n == Len(F)
    <3>1. /\ l \in Nat /\ n \in Nat \ {0} /\ Len(wire'[c]) = l + n
          /\ position'[c] = F[n].id /\ conn'[c] = "streaming" /\ conn[c] = "streaming"
          /\ \A k \in 1..l : wire'[c][k] = wire[c][k]
          /\ \A k \in 1..n : wire'[c][l + k] = F[k]
          /\ \A k \in 1..(l + 1) : Before(c, k)' = Before(c, k)
          /\ \A k \in (l + 2)..(l + n + 1) : Before(c, k)' = F[k - l - 1].id
      BY <2>6, PollWire
    <3>2. /\ \A k \in 1..n : F[k].id \in Nat /\ F[k].id > position[c]
          /\ \A k, m \in 1..n : k < m => F[k].id < F[m].id
      BY <2>6, PollFrames
    <3> HIDE DEF F, l, n
    <3>3. /\ position[c] = Before(c, l + 1)
          /\ \A k \in 1..(l + 1) : Before(c, k) <= position[c]
      BY <3>1 DEF WireInv, l
    <3>4. \A k \in 1..n : F[k].id <= F[n].id
      <4> SUFFICES ASSUME NEW k \in 1..n PROVE F[k].id <= F[n].id
        OBVIOUS
      <4>1. k = n \/ k < n
        BY <3>1
      <4> QED
        BY <3>1, <3>2, <4>1
    <3>5. \A k : k = l + n + 1 => position'[c] = Before(c, k)'
      <4> SUFFICES ASSUME NEW k, k = l + n + 1 PROVE position'[c] = Before(c, k)'
        OBVIOUS
      <4>1. k \in (l + 2)..(l + n + 1) /\ k - l - 1 = n
        BY <3>1
      <4> QED
        BY <3>1, <4>1
    <3>6. ASSUME NEW k \in 1..(l + n + 1) PROVE Before(c, k)' <= position'[c]
      <4>1. CASE k \in 1..(l + 1)
        <5>1. Before(c, k)' = Before(c, k) /\ Before(c, k) <= position[c]
          BY <3>1, <3>3, <4>1
        <5>2. F[n].id > position[c] /\ F[n].id \in Nat
          <6>1. n \in 1..n
            BY <3>1
          <6> QED
            BY <3>2, <6>1
        <5>3. Before(c, k) \in Nat \cup {NoId} /\ position[c] \in Nat
          BY <2>0, <4>1 DEF l
        <5> QED
          BY <3>1, <5>1, <5>2, <5>3 DEF NoId
      <4>2. CASE k \in (l + 2)..(l + n + 1)
        <5>1. Before(c, k)' = F[k - l - 1].id /\ k - l - 1 \in 1..n
          BY <3>1, <4>2
        <5> QED
          BY <3>1, <3>4, <5>1
      <4> QED
        BY <3>1, <4>1, <4>2
    <3>7. ASSUME NEW k \in 1..(l + n)
          PROVE  /\ Before(c, k)' <= wire'[c][k].id
                 /\ wire'[c][k].kind = "event" => Before(c, k)' < wire'[c][k].id
      <4>1. CASE k \in 1..l
        <5>1. Before(c, k)' = Before(c, k) /\ wire'[c][k] = wire[c][k]
          BY <3>1, <4>1
        <5> QED
          BY <4>1, <5>1 DEF WireInv, l
      <4>2. CASE k = l + 1
        <5>1. Before(c, k)' = position[c]
          BY <3>1, <3>3, <4>2
        <5>2. wire'[c][k] = F[1] /\ 1 \in 1..n
          BY <3>1, <4>2
        <5>3. position[c] < F[1].id /\ F[1].id \in Nat /\ position[c] \in Nat
          BY <2>0, <3>2, <5>2
        <5> QED
          BY <5>1, <5>2, <5>3
      <4>3. CASE k \in (l + 2)..(l + n)
        <5>1. /\ k - l - 1 \in 1..n /\ k - l \in 1..n /\ k - l - 1 < k - l
              /\ k = l + (k - l) /\ k \in (l + 2)..(l + n + 1)
          BY <3>1, <4>3
        <5>2. Before(c, k)' = F[k - l - 1].id /\ wire'[c][k] = F[k - l]
          BY <3>1, <5>1
        <5>3. /\ F[k - l - 1].id < F[k - l].id
              /\ F[k - l - 1].id \in Nat /\ F[k - l].id \in Nat
          BY <3>2, <5>1
        <5> QED
          BY <5>2, <5>3
      <4> QED
        BY <3>1, <4>1, <4>2, <4>3
    <3> QED
      BY <3>1, <3>5, <3>6, <3>7
  <2>7. CASE Receive(c)
    <3>1. /\ l \in Nat \ {0} /\ Len(wire'[c]) = l - 1
          /\ conn'[c] = conn[c] /\ position'[c] = position[c]
          /\ \A k \in 1..(l - 1) : wire'[c][k] = wire[c][k + 1]
          /\ \A k \in 1..l : Before(c, k)' = Before(c, k + 1)
      BY <2>7, ReceiveWire
    <3>2. wire[c] # <<>>
      BY <2>7 DEF Receive
    <3>3. /\ conn[c] = "streaming"
          /\ position[c] = Before(c, l + 1)
          /\ \A k \in 1..(l + 1) : Before(c, k) <= position[c]
          /\ \A k \in 1..l : /\ Before(c, k) <= wire[c][k].id
                             /\ wire[c][k].kind = "event" => Before(c, k) < wire[c][k].id
      BY <3>2 DEF WireInv
    <3> HIDE DEF l
    <3>4. \A k \in 1..l : k + 1 \in 1..(l + 1)
      BY <3>1
    <3>5. \A k \in 1..(l - 1) : k \in 1..l /\ k + 1 \in 1..l
      BY <3>1
    <3>6. l \in 1..l /\ (l - 1) + 1 = l
      BY <3>1
    <3>7. \A k : k = Len(wire'[c]) + 1 => position'[c] = Before(c, k)'
      BY <3>1, <3>3, <3>6
    <3>8. \A k \in 1..(Len(wire'[c]) + 1) : Before(c, k)' <= position'[c]
      BY <3>1, <3>3, <3>4, <3>6
    <3>9. \A k \in 1..Len(wire'[c]) :
            /\ Before(c, k)' <= wire'[c][k].id
            /\ wire'[c][k].kind = "event" => Before(c, k)' < wire'[c][k].id
      BY <3>1, <3>3, <3>5
    <3> QED
      BY <3>1, <3>3, <3>7, <3>8, <3>9
  <2> QED
    BY <2>1, <2>3, <2>4, <2>5, <2>6, <2>7, ClientSteps
<1> QED
  BY <1>1, <1>2, TypeCorrect, PTL DEF Spec

\* Over all of its connections, and although every reconnection replays, a
\* client is sent events in the order of their ids and none of them twice.
THEOREM OrderKept == Spec => []OrderedOnce
<1>1. TypeOK /\ WireInv => OrderedOnce
  <2> SUFFICES ASSUME TypeOK, WireInv, NEW c \in Client, NEW k \in 1..Len(wire[c]),
                      wire[c][k].kind = "event"
               PROVE  wire[c][k].id > IF k = 1 THEN lastId[c] ELSE wire[c][k - 1].id
    BY DEF OrderedOnce
  <2>1. Before(c, k) < wire[c][k].id
    BY DEF WireInv
  <2> QED
    BY <2>1 DEF Before
<1> QED
  BY <1>1, TypeCorrect, WireInvariant, PTL

----------------------------------------------------------------------------
(* What is missed *)

LEMMA EventIds ==
  ASSUME TypeOK
  PROVE  /\ \A e \in log : e.id \in Nat
         /\ \A w \in Writer : \A e \in open[w] : e.id \in Nat
         /\ \A c \in Client : /\ lastId[c] \in Nat \cup {NoId} /\ base[c] \in Nat \cup {NoId}
                              /\ position[c] \in Nat
                              /\ wire[c] \in Seq(Frame) /\ Len(wire[c]) \in Nat
                              /\ \A k \in 1..Len(wire[c]) : wire[c][k].id \in Nat
<1>1. 1..MaxId \subseteq Nat
  BY MaxIdAssumption
<1>2. \A e \in Event : e.id \in Nat
  BY <1>1 DEF Event
<1>3. \A c \in Client : /\ wire[c] \in Seq(Frame) /\ Len(wire[c]) \in Nat
                        /\ \A k \in 1..Len(wire[c]) : wire[c][k].id \in Nat
  <2> SUFFICES ASSUME NEW c \in Client
               PROVE  /\ wire[c] \in Seq(Frame) /\ Len(wire[c]) \in Nat
                      /\ \A k \in 1..Len(wire[c]) : wire[c][k].id \in Nat
    OBVIOUS
  <2>1. wire[c] \in Seq(Frame)
    BY DEF TypeOK
  <2>2. \A k \in 1..Len(wire[c]) : wire[c][k] \in Frame
    BY <2>1, ElementOfSeq
  <2> QED
    BY <2>1, <2>2, LenProperties DEF Frame
<1> QED
  BY <1>2, <1>3 DEF TypeOK, LogTypeOK

\* A snapshot stands in for nothing beyond the last frame received.
LEMMA BaseInvariant == Spec => []BaseInv
<1>1. Init => BaseInv
  BY DEF Init, BaseInv, NoId
<1>2. TypeOK /\ WireInv /\ BaseInv /\ [Next]_vars => BaseInv'
  <2> SUFFICES ASSUME TypeOK, WireInv, BaseInv, [Next]_vars, NEW c \in Client
               PROVE  base'[c] <= lastId'[c]
    BY DEF BaseInv
  <2>0. /\ base[c] <= lastId[c]
        /\ lastId[c] \in Nat \cup {NoId} /\ base[c] \in Nat \cup {NoId}
    BY DEF BaseInv, TypeOK
  <2>1. CASE base'[c] = base[c] /\ lastId'[c] = lastId[c]
    BY <2>0, <2>1
  <2>2. CASE Admit(c) \/ Start(c) \/ Poll(c) \/ Disconnect(c)
    BY <2>0, <2>2 DEF Admit, Start, Poll, Disconnect
  <2>3. CASE Reload(c)
    BY <2>3 DEF Reload, TypeOK, NoId
  <2>4. CASE Receive(c)
    <3>1. /\ Len(wire[c]) \in Nat \ {0} /\ Head(wire[c]) = wire[c][1]
          /\ wire[c][1].id \in Nat /\ lastId'[c] = wire[c][1].id
      BY <2>4, ReceiveWire DEF Frame
    <3>2. base'[c] = base[c] \/ base'[c] = wire[c][1].id
      BY <2>4, <3>1 DEF Receive, TypeOK
    <3>3. Before(c, 1) = lastId[c] /\ 1 \in 1..Len(wire[c])
      BY <3>1 DEF Before
    <3>4. lastId[c] <= wire[c][1].id
      BY <3>3 DEF WireInv
    <3> QED
      BY <2>0, <3>1, <3>2, <3>4 DEF NoId
  <2> QED
    BY <2>1, <2>2, <2>3, <2>4, ClientSteps
<1> QED
  BY <1>1, <1>2, TypeCorrect, WireInvariant, PTL DEF Spec

LEMMA MissInvariant == Spec => []MissInv
<1>1. Init => MissInv
  BY DEF Init, LogInit, MissInv
<1>2. TypeOK /\ TypeOK' /\ WireInv /\ BaseInv /\ MissInv /\ [Next]_vars => MissInv'
  <2> SUFFICES ASSUME TypeOK, TypeOK', WireInv, BaseInv, MissInv, [Next]_vars,
                      NEW c \in Client, NEW e \in log',
                      e.name \in Follows[c], base'[c] < e.id
               PROVE  /\ e.id <= lastId'[c] => e.id \in seen'[c] \cup late'[c]
                      /\ \A k \in 1..Len(wire'[c]) :
                           /\ wire'[c][k].kind = "event"
                           /\ Before(c, k)' < e.id /\ e.id <= wire'[c][k].id
                           => e.id = wire'[c][k].id \/ e.id \in late'[c]
    BY DEF MissInv, Before
  <2> DEFINE l == Len(wire[c])
             Kept(S) == \A k \in 1..l :
                          /\ wire[c][k].kind = "event"
                          /\ Before(c, k) < e.id /\ e.id <= wire[c][k].id
                          => e.id = wire[c][k].id \/ e.id \in S
  <2>0. /\ e.id \in Nat /\ l \in Nat
        /\ lastId[c] \in Nat \cup {NoId} /\ lastId'[c] \in Nat \cup {NoId}
        /\ base[c] \in Nat \cup {NoId} /\ base'[c] \in Nat \cup {NoId}
        /\ position[c] \in Nat
        /\ \A k \in 1..l : wire[c][k].id \in Nat
    <3>1. e.id \in Nat
      BY EventIds, MaxIdAssumption DEF TypeOK, LogTypeOK, Event
    <3>2. lastId'[c] \in Nat \cup {NoId} /\ base'[c] \in Nat \cup {NoId}
      BY DEF TypeOK
    <3> QED
      BY <3>1, <3>2, EventIds
  <2>1. ASSUME e \in log, base[c] < e.id
        PROVE  (e.id <= lastId[c] => e.id \in seen[c] \cup late[c]) /\ Kept(late[c])
    BY <2>1 DEF MissInv
  <2>2. ASSUME conn'[c] = conn[c], position'[c] = position[c], wire'[c] = wire[c],
               lastId'[c] = lastId[c], seen'[c] = seen[c], base'[c] = base[c],
               late[c] \subseteq late'[c],
               log' \subseteq log \/ \E w \in Writer : WriterCommits(w)
        PROVE  (e.id <= lastId[c] => e.id \in seen[c] \cup late'[c]) /\ Kept(late'[c])
    <3>1. CASE e \in log
      BY <2>1, <2>2, <3>1
    <3>2. CASE e \notin log
      <4>1. PICK w \in Writer : WriterCommits(w)
        BY <2>2, <3>2
      <4>2. e \in open[w]
        BY <3>2, <4>1 DEF WriterCommits, Commit
      <4>3. e.id <= Passed(c) => e.id \in late'[c]
        BY <4>1, <4>2 DEF WriterCommits, TypeOK
      <4>4. CASE conn[c] = "streaming"
        <5>1. Passed(c) = position[c]
          BY <4>4 DEF Passed
        <5>2. \A k \in 1..(l + 1) : Before(c, k) <= position[c]
          BY <4>4 DEF WireInv
        <5>3. lastId[c] <= position[c]
          <6>1. 1 \in 1..(l + 1)
            BY <2>0
          <6> QED
            BY <5>2, <6>1 DEF Before
        <5>4. \A k \in 1..l : wire[c][k].id <= position[c]
          <6> SUFFICES ASSUME NEW k \in 1..l PROVE wire[c][k].id <= position[c]
            OBVIOUS
          <6>1. k + 1 \in 1..(l + 1) /\ k + 1 # 1 /\ (k + 1) - 1 = k
            BY <2>0
          <6> QED
            BY <5>2, <6>1 DEF Before
        <5>5. e.id <= lastId[c] => e.id \in late'[c]
          BY <2>0, <4>3, <5>1, <5>3 DEF NoId
        <5>6. Kept(late'[c])
          BY <2>0, <4>3, <5>1, <5>4
        <5> QED
          BY <5>5, <5>6
      <4>5. CASE conn[c] # "streaming"
        <5>1. wire[c] = <<>> /\ Passed(c) = lastId[c]
          BY <4>5 DEF WireInv, Passed
        <5>2. Kept(late'[c])
          BY <5>1, EmptySeq
        <5> QED
          BY <4>3, <5>1, <5>2
      <4> QED
        BY <4>4, <4>5
    <3> QED
      BY <3>1, <3>2
  <2>3. CASE /\ conn'[c] = conn[c] /\ position'[c] = position[c] /\ wire'[c] = wire[c]
             /\ lastId'[c] = lastId[c] /\ seen'[c] = seen[c] /\ base'[c] = base[c]
             /\ late[c] \subseteq late'[c]
             /\ log' \subseteq log \/ \E w \in Writer : WriterCommits(w)
    <3>1. \A k : Before(c, k)' = Before(c, k)
      BY <2>3 DEF Before
    <3> QED
      BY <2>2, <2>3, <3>1
  <2>4. CASE Admit(c)
    <3>1. /\ wire'[c] = wire[c] /\ lastId'[c] = lastId[c] /\ seen'[c] = seen[c]
          /\ base'[c] = base[c] /\ late'[c] = late[c] /\ log' = log
      BY <2>4 DEF Admit, logVars
    <3>2. \A k : Before(c, k)' = Before(c, k)
      BY <3>1 DEF Before
    <3> QED
      BY <2>1, <3>1, <3>2
  <2>5. CASE Start(c)
    <3> DEFINE frame == [kind |-> "snapshot", id |-> StartingPoint(c)]
    <3>1. /\ wire'[c] = <<frame>> /\ lastId'[c] = lastId[c] /\ seen'[c] = seen[c]
          /\ base'[c] = base[c] /\ late'[c] = late[c] /\ log' = log
      BY <2>5 DEF Start, TypeOK, logVars
    <3>2. frame.kind # "event"
      OBVIOUS
    <3> HIDE DEF frame
    <3>3. Len(wire'[c]) = 1 /\ wire'[c][1] = frame /\ \A k \in 1..1 : k = 1
      BY <3>1
    <3> QED
      BY <2>1, <3>1, <3>2, <3>3
  <2>6. CASE Disconnect(c)
    <3>1. /\ wire'[c] = <<>> /\ lastId'[c] = lastId[c] /\ seen'[c] = seen[c]
          /\ base'[c] = base[c] /\ late'[c] = late[c] /\ log' = log
      BY <2>6 DEF Disconnect, TypeOK, logVars
    <3>2. 1..Len(wire'[c]) = {}
      BY <3>1, EmptySeq
    <3> QED
      BY <2>1, <3>1, <3>2
  <2>7. CASE Reload(c)
    <3>1. /\ conn[c] = "away" /\ wire'[c] = wire[c] /\ lastId'[c] = NoId
      BY <2>7 DEF Reload, TypeOK
    <3>2. 1..Len(wire'[c]) = {}
      BY <3>1, EmptySeq DEF WireInv
    <3> QED
      BY <2>0, <3>1, <3>2 DEF NoId
  <2>8. CASE Poll(c)
    <3> DEFINE F == EventFrames(Batch(c))
               n == Len(F)
    <3>1. /\ n \in Nat \ {0} /\ Len(wire'[c]) = l + n
          /\ conn[c] = "streaming"
          /\ \A k \in 1..l : wire'[c][k] = wire[c][k]
          /\ \A k \in 1..n : wire'[c][l + k] = F[k]
          /\ \A k \in 1..(l + 1) : Before(c, k)' = Before(c, k)
          /\ \A k \in (l + 2)..(l + n + 1) : Before(c, k)' = F[k - l - 1].id
      BY <2>8, PollWire
    <3>2. /\ \A k \in 1..n : F[k].id \in Nat /\ F[k].id > position[c]
          /\ \A k, m \in 1..n : k < m => F[k].id < F[m].id
          /\ \A k \in 1..n : \A id \in Newer(c) :
               id <= F[k].id => \E m \in 1..n : F[m].id = id
      BY <2>8, PollFrames
    <3> HIDE DEF F, l, n
    <3>3. /\ lastId'[c] = lastId[c] /\ seen'[c] = seen[c]
          /\ base'[c] = base[c] /\ late'[c] = late[c] /\ log' = log
      BY <2>8 DEF Poll, logVars
    <3>4. e \in log /\ base[c] < e.id
      BY <3>3
    <3>5. (e.id <= lastId[c] => e.id \in seen[c] \cup late[c]) /\ Kept(late[c])
      BY <2>1, <3>4
    <3>6. position[c] = Before(c, l + 1)
      BY <3>1 DEF WireInv, l
    <3>7. e.id > position[c] => e.id \in Newer(c)
      BY <3>4 DEF Newer
    \* Of two frames next to each other, no event that c follows is between.
    <3>8. ASSUME NEW k \in 1..(l + n), wire'[c][k].kind = "event",
                 Before(c, k)' < e.id, e.id <= wire'[c][k].id
          PROVE  e.id = wire'[c][k].id \/ e.id \in late'[c]
      <4>1. CASE k \in 1..l
        <5>1. k \in 1..(l + 1)
          BY <2>0, <4>1 DEF l
        <5>2. wire'[c][k] = wire[c][k] /\ Before(c, k)' = Before(c, k)
          BY <3>1, <4>1, <5>1
        <5> QED
          BY <3>3, <3>5, <3>8, <4>1, <5>2 DEF l
      <4>2. ASSUME NEW i \in 1..n, wire'[c][k] = F[i], e.id > position[c],
                   i # 1 => F[i - 1].id < e.id
            PROVE  e.id = wire'[c][k].id
        <5>1. PICK m \in 1..n : F[m].id = e.id
          BY <3>2, <3>7, <3>8, <4>2
        <5>2. ~(i < m)
          BY <2>0, <3>2, <3>8, <4>2, <5>1
        <5>3. ~(m < i)
          <6> SUFFICES ASSUME m < i PROVE FALSE
            OBVIOUS
          <6>1. i # 1 /\ i - 1 \in 1..n /\ (m = i - 1 \/ m < i - 1)
            BY <3>1
          <6>2. F[i - 1].id < e.id /\ F[m].id <= F[i - 1].id /\ F[i - 1].id \in Nat
            BY <3>2, <4>2, <6>1
          <6> QED
            BY <2>0, <5>1, <6>2
        <5>4. m = i
          BY <3>1, <5>2, <5>3
        <5> QED
          BY <4>2, <5>1, <5>4
      <4>3. CASE k = l + 1
        <5>1. 1 \in 1..n /\ k = l + 1 /\ k \in 1..(l + 1)
          BY <2>0, <3>1, <4>3 DEF l
        <5>2. wire'[c][k] = F[1]
          BY <3>1, <5>1
        <5>3. Before(c, k)' = position[c]
          BY <3>1, <3>6, <5>1
        <5>4. e.id > position[c]
          BY <2>0, <3>8, <5>3
        <5> QED
          BY <4>2, <5>1, <5>2, <5>4
      <4>4. CASE k \in (l + 2)..(l + n)
        <5>1. /\ k - l \in 1..n /\ k - l # 1 /\ k - l - 1 \in 1..n /\ (k - l) - 1 = k - l - 1
              /\ k = l + (k - l) /\ k \in (l + 2)..(l + n + 1)
          BY <2>0, <3>1, <4>4 DEF l
        <5>2. wire'[c][k] = F[k - l] /\ Before(c, k)' = F[k - l - 1].id
          BY <3>1, <5>1
        <5>3. F[k - l - 1].id < e.id
          BY <3>8, <5>2
        <5>4. e.id > position[c]
          BY <2>0, <3>2, <5>1, <5>3
        <5> QED
          BY <4>2, <5>1, <5>2, <5>3, <5>4
      <4>5. l \in Nat /\ n \in Nat /\ k \in 1..(l + n)
        BY <2>0, <3>1 DEF l
      <4> QED
        BY <4>1, <4>3, <4>4, <4>5
    <3> QED
      BY <3>1, <3>3, <3>5, <3>8
  <2>9. CASE Receive(c)
    <3> DEFINE frame == wire[c][1]
    <3>1. /\ l \in Nat \ {0} /\ Len(wire'[c]) = l - 1
          /\ Head(wire[c]) = frame
          /\ lastId'[c] = frame.id
          /\ \A k \in 1..(l - 1) : wire'[c][k] = wire[c][k + 1]
          /\ \A k \in 1..l : Before(c, k)' = Before(c, k + 1)
      BY <2>9, ReceiveWire
    <3>2. late'[c] = late[c] /\ log' = log
      BY <2>9 DEF Receive, logVars
    <3>3. frame.id \in Nat /\ 1 \in 1..l /\ Before(c, 1) = lastId[c]
      BY <2>0, <3>1 DEF Before
    <3>4. lastId[c] <= frame.id
      BY <3>3 DEF WireInv
    <3> HIDE DEF frame, l
    \* The frames behind the one received keep what is in front of them.
    <3>7. ASSUME Kept(late[c]), NEW k \in 1..Len(wire'[c]), wire'[c][k].kind = "event",
                 Before(c, k)' < e.id, e.id <= wire'[c][k].id
          PROVE  e.id = wire'[c][k].id \/ e.id \in late'[c]
      <4>1. k \in 1..l /\ k \in 1..(l - 1) /\ k + 1 \in 1..l
        BY <3>1, <3>7
      <4>2. wire'[c][k] = wire[c][k + 1] /\ Before(c, k)' = Before(c, k + 1)
        BY <3>1, <4>1
      <4> QED
        BY <3>2, <3>7, <4>1, <4>2 DEF l
    <3>5. CASE frame.kind = "event"
      <4>1. seen'[c] = seen[c] \cup {frame.id} /\ base'[c] = base[c]
        BY <2>9, <3>1, <3>5 DEF Receive, TypeOK
      <4>2. (e.id <= lastId[c] => e.id \in seen[c] \cup late[c]) /\ Kept(late[c])
        BY <2>1, <3>2, <4>1
      <4>3. e.id <= frame.id => e.id \in seen'[c] \cup late'[c]
        <5>1. e.id <= lastId[c] \/ lastId[c] < e.id
          BY <2>0 DEF NoId
        <5>2. lastId[c] < e.id /\ e.id <= frame.id => e.id = frame.id \/ e.id \in late[c]
          BY <3>3, <3>5, <4>2 DEF frame, l
        <5> QED
          BY <3>2, <4>1, <4>2, <5>1, <5>2
      <4> QED
        BY <3>1, <3>7, <4>2, <4>3
    <3>6. CASE frame.kind # "event"
      <4>1. /\ seen'[c] = seen[c]
            /\ base'[c] = IF frame.id > lastId[c] THEN frame.id ELSE base[c]
        BY <2>9, <3>1, <3>6 DEF Receive, TypeOK
      \* A snapshot that stands in for events raises the base.
      <4>2. CASE frame.id > lastId[c]
        <5>1. frame.id < e.id
          BY <4>1, <4>2
        <5>2. base[c] < e.id
          BY <2>0, <3>3, <4>2, <5>1 DEF BaseInv, NoId
        <5>3. ~(e.id <= lastId'[c]) /\ Kept(late[c])
          BY <2>0, <2>1, <3>1, <3>2, <3>3, <5>1, <5>2
        <5> QED
          BY <3>7, <5>3
      <4>3. CASE ~(frame.id > lastId[c])
        <5>1. base[c] < e.id /\ lastId'[c] = lastId[c]
          BY <2>0, <3>1, <3>3, <3>4, <4>1, <4>3 DEF NoId
        <5>2. (e.id <= lastId[c] => e.id \in seen[c] \cup late[c]) /\ Kept(late[c])
          BY <2>1, <3>2, <5>1
        <5> QED
          BY <3>2, <3>7, <4>1, <5>1, <5>2
      <4> QED
        BY <4>2, <4>3
    <3> QED
      BY <3>5, <3>6
  <2> QED
    BY <2>3, <2>4, <2>5, <2>6, <2>7, <2>8, <2>9, ClientSteps
<1> QED
  BY <1>1, <1>2, TypeCorrect, WireInvariant, BaseInvariant, PTL DEF Spec

\* When the last frame of a client is past an event it follows, the client has
\* been shown the event, a snapshot has stood in for it, or it was committed when
\* the cursor had gone by its id: no crash of a connection, replay, limit of a
\* poll or purge makes a client miss any other.
THEOREM OnlyLateKept == Spec => []OnlyLateMissed
<1>1. MissInv => OnlyLateMissed
  BY DEF MissInv, OnlyLateMissed
<1> QED
  BY <1>1, MissInvariant, PTL
=============================================================================
