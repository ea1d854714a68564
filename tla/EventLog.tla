------------------------------- MODULE EventLog -------------------------------
(***************************************************************************)
(* The append-only event log: EventRepository of app/repositories/jobs.py  *)
(* over the table job_events, written inside the transactions of workers.  *)
(*                                                                         *)
(* An event gets its id when it is flushed, from a sequence, and becomes   *)
(* visible when its transaction commits.  The two orders differ: a handler *)
(* flushes job.started first and commits minutes later, while others come  *)
(* and go.  Ids of rolled back events are never used again.                *)
(***************************************************************************)
EXTENDS Naturals, FiniteSets

CONSTANTS
  Writer,         \* transactions that may be open at the same time
  Name,           \* what the readers tell apart: JobEvent.event, or its run
  MaxId           \* bound: ids the sequence hands out

ASSUME MaxIdAssumption == MaxId \in Nat

VARIABLES
  nextId,         \* the sequence
  open,           \* flushed by each writer, not committed
  log             \* committed rows

logVars == <<nextId, open, log>>

Event == [id : 1..MaxId, name : Name]

LogTypeOK ==
  /\ nextId \in 1..(MaxId + 1)
  /\ open \in [Writer -> SUBSET Event]
  /\ log \in SUBSET Event

LogInit ==
  /\ nextId = 1
  /\ open = [w \in Writer |-> {}]
  /\ log = {}

\* emit: session.add and flush.
Emit(w, name) ==
  /\ nextId <= MaxId
  /\ open' = [open EXCEPT ![w] = @ \cup {[id |-> nextId, name |-> name]}]
  /\ nextId' = nextId + 1
  /\ UNCHANGED log

Commit(w) ==
  /\ log' = log \cup open[w]
  /\ open' = [open EXCEPT ![w] = {}]
  /\ UNCHANGED nextId

Rollback(w) ==
  /\ open' = [open EXCEPT ![w] = {}]
  /\ UNCHANGED <<nextId, log>>

\* events_retention_days: what is older than some event goes.
PurgeUpTo(id) ==
  /\ log' = {e \in log : e.id > id}
  /\ UNCHANGED <<nextId, open>>

\* latest_id
LatestId == IF log = {} THEN 0
            ELSE CHOOSE id \in {e.id : e \in log} : \A e \in log : e.id <= id

\* consecutive: rows with one name since the last row with the other.
Consecutive(name, reset) ==
  Cardinality({e \in log : e.name = name
                             /\ \A r \in log : r.name = reset => r.id < e.id})
=============================================================================
