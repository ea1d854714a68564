----------------------------- MODULE EventStream -----------------------------
(***************************************************************************)
(* GET /monitoring/stream of app/api/routers/monitoring.py: server-sent    *)
(* events read from the event log.  Each client is a browser's EventSource *)
(* with one generator at the server while it is connected; the id of the   *)
(* last frame it received is its Last-Event-ID when it reconnects.         *)
(***************************************************************************)
EXTENDS EventLog, Integers, Sequences

CONSTANTS
  Client,
  Follows,        \* Follows[c]: the names c's run_id lets through
  MaxClients,     \* sse_max_clients
  MaxBacklog,     \* sse_max_backlog
  Limit           \* rows of one poll (200)

ASSUME FollowsAssumption == Follows \in [Client -> SUBSET Name]
ASSUME LimitsAssumption ==
  MaxClients \in Nat /\ MaxBacklog \in Nat /\ Limit \in Nat \ {0}

NoId == -1        \* no Last-Event-ID: the page was loaded anew

VARIABLES
  \* The server.
  conn,           \* away, admitted past the ceiling, or with a generator running
  sseClients,     \* _sse_clients
  ghosts,         \* generators whose client has gone without their knowing
  position,       \* the generator's cursor
  \* The network and the browser.
  wire,           \* frames yielded and not received
  lastId,         \* id of the last frame received
  \* History.
  seen,           \* ids of the events received since the page was loaded
  base,           \* id up to which a snapshot has stood in for events
  late            \* events committed when the cursor had passed their id

clientVars == <<conn, sseClients, ghosts, position, wire, lastId, seen, base, late>>
vars == <<logVars, clientVars>>

Frame == [kind : {"snapshot", "event"}, id : Nat]

TypeOK ==
  /\ LogTypeOK
  /\ conn \in [Client -> {"away", "admitted", "streaming"}]
  /\ sseClients \in Nat
  /\ ghosts \in Nat
  /\ position \in [Client -> Nat]
  /\ wire \in [Client -> Seq(Frame)]
  /\ lastId \in [Client -> Nat \cup {NoId}]
  /\ seen \in [Client -> SUBSET Nat]
  /\ base \in [Client -> Nat \cup {NoId}]
  /\ late \in [Client -> SUBSET Nat]

Init ==
  /\ LogInit
  /\ conn = [c \in Client |-> "away"]
  /\ sseClients = 0
  /\ ghosts = 0
  /\ position = [c \in Client |-> 0]
  /\ wire = [c \in Client |-> <<>>]
  /\ lastId = [c \in Client |-> NoId]
  /\ seen = [c \in Client |-> {}]
  /\ base = [c \in Client |-> NoId]
  /\ late = [c \in Client |-> {}]

----------------------------------------------------------------------------
(* The writers *)

Write(w) ==
  /\ \E name \in Name : Emit(w, name)
  /\ UNCHANGED clientVars

\* How far c's view of the log has got.
Passed(c) == IF conn[c] = "streaming" THEN position[c] ELSE lastId[c]

WriterCommits(w) ==
  /\ open[w] # {}
  /\ Commit(w)
  /\ late' = [c \in Client |->
                late[c] \cup {e.id : e \in {f \in open[w] : f.id <= Passed(c)}}]
  /\ UNCHANGED <<conn, sseClients, ghosts, position, wire, lastId, seen, base>>

WriterRollsBack(w) ==
  /\ open[w] # {}
  /\ Rollback(w)
  /\ UNCHANGED clientVars

Purge ==
  /\ \E e \in log : PurgeUpTo(e.id)
  /\ UNCHANGED clientVars

----------------------------------------------------------------------------
(* The handler and its generator *)

\* The ceiling is compared when the request comes in; the generator counts
\* itself when it first runs.
Admit(c) ==
  /\ conn[c] = "away"
  /\ sseClients < MaxClients
  /\ conn' = [conn EXCEPT ![c] = "admitted"]
  /\ UNCHANGED <<logVars, sseClients, ghosts, position, wire, lastId, seen, base, late>>

\* Mutant: a client without a Last-Event-ID keeps the marker as its cursor.
StartingPointUnset(c) ==
  IF LatestId - lastId[c] > MaxBacklog THEN LatestId ELSE lastId[c]

\* At the end of the log for a new client and for one too far behind.
StartingPoint(c) ==
  IF lastId[c] = NoId \/ LatestId - lastId[c] > MaxBacklog
  THEN LatestId ELSE lastId[c]

Start(c) ==
  LET from == StartingPoint(c)
  IN
  /\ conn[c] = "admitted"
  /\ conn' = [conn EXCEPT ![c] = "streaming"]
  /\ sseClients' = sseClients + 1
  /\ position' = [position EXCEPT ![c] = from]
  /\ wire' = [wire EXCEPT ![c] = <<[kind |-> "snapshot", id |-> from]>>]
  /\ UNCHANGED <<logVars, ghosts, lastId, seen, base, late>>

\* Mutant: the cursor's own event is read again.
NewerInclusive(c) ==
  {e.id : e \in {f \in log : f.id >= position[c] /\ f.name \in Follows[c]}}

\* The ids EventRepository.after may return: WHERE id > cursor AND run.
Newer(c) ==
  {e.id : e \in {f \in log : f.id > position[c] /\ f.name \in Follows[c]}}

\* Mutant: the limit is applied before the run is compared.
BatchFilteredLast(c) ==
  {id \in Newer(c) :
     Cardinality({e \in log : e.id > position[c] /\ e.id <= id}) <= Limit}

\* Mutant: newest first.
BatchNewestFirst(c) ==
  {id \in Newer(c) : Cardinality({k \in Newer(c) : k >= id}) <= Limit}

\* ORDER BY id LIMIT.
Batch(c) ==
  {id \in Newer(c) : Cardinality({k \in Newer(c) : k <= id}) <= Limit}

\* The frames of a set of events, in the order of their ids.
EventFrames(ids) ==
  [k \in 1..Cardinality(ids) |->
     [kind |-> "event",
      id |-> CHOOSE id \in ids : Cardinality({j \in ids : j <= id}) = k]]

\* One round of the loop: query, yield each row, sleep.
Poll(c) ==
  LET frames == EventFrames(Batch(c))
  IN
  /\ conn[c] = "streaming"
  /\ frames # <<>>
  /\ position' = [position EXCEPT ![c] = frames[Len(frames)].id]
  /\ wire' = [wire EXCEPT ![c] = @ \o frames]
  /\ UNCHANGED <<logVars, conn, sseClients, ghosts, lastId, seen, base, late>>

\* The browser closes the tab, the network or a proxy the connection.  What was
\* in flight is lost; a generator that runs learns of it later.
Disconnect(c) ==
  /\ conn[c] # "away"
  /\ conn' = [conn EXCEPT ![c] = "away"]
  /\ wire' = [wire EXCEPT ![c] = <<>>]
  /\ ghosts' = IF conn[c] = "streaming" THEN ghosts + 1 ELSE ghosts
  /\ UNCHANGED <<logVars, sseClients, position, lastId, seen, base, late>>

\* Mutant: the generator does not release its slot.
GhostEndsUncounted ==
  /\ ghosts > 0
  /\ ghosts' = ghosts - 1
  /\ UNCHANGED <<logVars, conn, sseClients, position, wire, lastId, seen, base, late>>

\* Its finally clause.
GhostEnds ==
  /\ ghosts > 0
  /\ ghosts' = ghosts - 1
  /\ sseClients' = sseClients - 1
  /\ UNCHANGED <<logVars, conn, position, wire, lastId, seen, base, late>>

----------------------------------------------------------------------------
(* The browser *)

Receive(c) ==
  LET frame == Head(wire[c])
  IN
  /\ wire[c] # <<>>
  /\ wire' = [wire EXCEPT ![c] = Tail(@)]
  /\ lastId' = [lastId EXCEPT ![c] = frame.id]
  /\ IF frame.kind = "event"
     THEN seen' = [seen EXCEPT ![c] = @ \cup {frame.id}] /\ UNCHANGED base
     ELSE base' = [base EXCEPT ![c] = IF frame.id > lastId[c] THEN frame.id ELSE @]
            /\ UNCHANGED seen
  /\ UNCHANGED <<logVars, conn, sseClients, ghosts, position, late>>

Reload(c) ==
  /\ conn[c] = "away"
  /\ lastId[c] # NoId
  /\ lastId' = [lastId EXCEPT ![c] = NoId]
  /\ seen' = [seen EXCEPT ![c] = {}]
  /\ base' = [base EXCEPT ![c] = NoId]
  /\ late' = [late EXCEPT ![c] = {}]
  /\ UNCHANGED <<logVars, conn, sseClients, ghosts, position, wire>>

----------------------------------------------------------------------------

Next ==
  \/ \E w \in Writer : Write(w) \/ WriterCommits(w) \/ WriterRollsBack(w)
  \/ Purge
  \/ \E c \in Client : \/ Admit(c)
                       \/ Start(c)
                       \/ Poll(c)
                       \/ Disconnect(c)
                       \/ Receive(c)
                       \/ Reload(c)
  \/ GhostEnds

Spec == Init /\ [][Next]_vars

\* The generator polls until it is disconnected, and a connection that stays
\* up delivers what is written to it.
FairSpec ==
  /\ Spec
  /\ \A c \in Client : WF_vars(Poll(c)) /\ WF_vars(Receive(c))

----------------------------------------------------------------------------
(* Properties *)

\* A client is shown events in the order of their ids and none of them twice,
\* over all of its connections and although every reconnection replays: each
\* frame on its way is newer than the frame before it, and than the last one
\* received.
OrderedOnce ==
  \A c \in Client : \A k \in 1..Len(wire[c]) :
    wire[c][k].kind = "event" =>
      wire[c][k].id > IF k = 1 THEN lastId[c] ELSE wire[c][k - 1].id

\* The slots of the ceiling: taken by the generators that run, each once, and
\* by none that ended or never started.
SlotsCounted ==
  sseClients = Cardinality({c \in Client : conn[c] = "streaming"}) + ghosts

\* What a client has missed when its last frame is past an event: nothing but
\* events a snapshot stood in for and events that were committed too late,
\* whatever was lost with earlier connections.
OnlyLateMissed ==
  \A c \in Client : \A e \in log :
    /\ e.name \in Follows[c]
    /\ base[c] < e.id /\ e.id <= lastId[c]
    => e.id \in seen[c] \cup late[c]

\* An event past the cursor reaches the client, unless it disconnects or the
\* event is purged, and however many others are logged meanwhile.
Delivered ==
  \A c \in Client : \A id \in 1..MaxId :
    (conn[c] = "streaming" /\ id \in Newer(c))
      ~> (id \in seen[c] \/ conn[c] # "streaming" \/ id \notin {e.id : e \in log})

\* stream(): "a client that reconnects after a minute receives everything it
\* missed".
NothingMissed ==
  \A c \in Client : \A e \in log :
    /\ e.name \in Follows[c]
    /\ base[c] < e.id /\ e.id <= lastId[c]
    => e.id \in seen[c]
=============================================================================
