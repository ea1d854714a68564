---------------------------- MODULE DriftCircuit ----------------------------
(***************************************************************************)
(* The schema-drift circuit of app/services/drift.py: game.sync handlers   *)
(* log how a parse went, and a tick counts the failures in a row before it *)
(* asks the source for anything.  The handler of app/tasks/registry.py     *)
(* runs in the transaction of Worker._execute.                             *)
(***************************************************************************)
EXTENDS EventLog

CONSTANT Threshold      \* schema_drift_threshold; 0 disables the circuit

VARIABLES
  stage,          \* what each worker is at
  streak          \* history: syncs that found the schema changed, in a row

vars == <<logVars, stage, streak>>

TypeOK ==
  /\ LogTypeOK
  /\ stage \in [Writer -> {"idle", "syncing", "drifted", "failing"}]
  /\ streak \in Nat

Init ==
  /\ LogInit
  /\ stage = [w \in Writer |-> "idle"]
  /\ streak = 0

----------------------------------------------------------------------------

SyncStarts(w) ==
  /\ stage[w] = "idle"
  /\ stage' = [stage EXCEPT ![w] = "syncing"]
  /\ UNCHANGED <<logVars, streak>>

\* The response has the shape it should have.
Parses(w) ==
  /\ stage[w] = "syncing"
  /\ open[w] = {}
  /\ Emit(w, "schema.ok")
  /\ UNCHANGED <<stage, streak>>

SyncCommits(w) ==
  /\ stage[w] = "syncing"
  /\ open[w] # {}
  /\ Commit(w)
  /\ stage' = [stage EXCEPT ![w] = "idle"]
  /\ streak' = 0

\* except SchemaDriftError: the event is flushed, then the error goes on.
Drifts(w) ==
  /\ stage[w] = "syncing"
  /\ open[w] = {}
  /\ Emit(w, "schema.drift")
  /\ stage' = [stage EXCEPT ![w] = "drifted"]
  /\ UNCHANGED streak

\* The with block of the worker ends by an exception.
Reraises(w) ==
  /\ stage[w] = "drifted"
  /\ Rollback(w)
  /\ stage' = [stage EXCEPT ![w] = "failing"]
  /\ UNCHANGED streak

\* _record_failure: the job fails for good, in a transaction of its own.
FailureRecorded(w) ==
  /\ stage[w] = "failing"
  /\ stage' = [stage EXCEPT ![w] = "idle"]
  /\ streak' = streak + 1
  /\ UNCHANGED logVars

----------------------------------------------------------------------------

\* drift_circuit_open
CircuitOpen == Threshold > 0 /\ Consecutive("schema.drift", "schema.ok") >= Threshold

\* circuit_already_announced
Announced == Consecutive("schema.drift_circuit_open", "schema.ok") > 0

\* The tick returns at once; the first of an incident leaves an event.
TickStops(w) ==
  /\ stage[w] = "idle"
  /\ CircuitOpen
  /\ ~Announced
  /\ nextId <= MaxId
  /\ log' = log \cup {[id |-> nextId, name |-> "schema.drift_circuit_open"]}
  /\ nextId' = nextId + 1
  /\ UNCHANGED <<open, stage, streak>>

Next ==
  \E w \in Writer : \/ SyncStarts(w)
                    \/ Parses(w)
                    \/ SyncCommits(w)
                    \/ Drifts(w)
                    \/ Reraises(w)
                    \/ FailureRecorded(w)
                    \/ TickStops(w)

Spec == Init /\ [][Next]_vars

----------------------------------------------------------------------------

\* "Ten in a row" stop the crawl: once as many syncs as the threshold have
\* found the schema changed with none that parsed in between, no tick crawls.
StoppedByDrift == Threshold > 0 /\ streak >= Threshold => CircuitOpen
=============================================================================
