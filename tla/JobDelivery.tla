---------------------------- MODULE JobDelivery ----------------------------
(***************************************************************************)
(* What the queue in app/queue and app/repositories/jobs.py promises to    *)
(* the code that enqueues work, with no worker, lease, attempt or clock in *)
(* sight: a submitted job stays pending until it is either delivered, in   *)
(* which case the handler's result is committed exactly once and together  *)
(* with the job's own status, or abandoned, in which case nothing is       *)
(* committed.  Both outcomes are final until retention forgets the row and *)
(* frees its idempotency key.                                              *)
(*                                                                         *)
(* JobQueue implements this specification as long as no handler outlives   *)
(* its lease; JobQueueProofs proves the safety part of it.                 *)
(***************************************************************************)
EXTENDS Naturals

CONSTANT Job            \* idempotency keys

VARIABLES
  phase,                \* what a caller may know of the job
  commits               \* results committed for the job's current row

vars == <<phase, commits>>

Phases == {"absent", "pending", "done", "abandoned"}

Settled == {"done", "abandoned"}

Init ==
  /\ phase = [j \in Job |-> "absent"]
  /\ commits = [j \in Job |-> 0]

Submit(j) ==
  /\ phase[j] = "absent"
  /\ phase' = [phase EXCEPT ![j] = "pending"]
  /\ UNCHANGED commits

Deliver(j) ==
  /\ phase[j] = "pending"
  /\ phase' = [phase EXCEPT ![j] = "done"]
  /\ commits' = [commits EXCEPT ![j] = @ + 1]

Abandon(j) ==
  /\ phase[j] = "pending"
  /\ phase' = [phase EXCEPT ![j] = "abandoned"]
  /\ UNCHANGED commits

\* Retention deletes any number of settled rows in one statement.
Forget(S) ==
  /\ S # {}
  /\ \A j \in S : phase[j] \in Settled
  /\ phase' = [j \in Job |-> IF j \in S THEN "absent" ELSE phase[j]]
  /\ commits' = [j \in Job |-> IF j \in S THEN 0 ELSE commits[j]]

Next ==
  \/ \E j \in Job : Submit(j) \/ Deliver(j) \/ Abandon(j)
  \/ \E S \in SUBSET Job : Forget(S)

SafeSpec == Init /\ [][Next]_vars

\* Delivery is at-least-once and never silent: a pending job is settled.
Spec == SafeSpec /\ \A j \in Job : WF_vars(Deliver(j) \/ Abandon(j))
=============================================================================
