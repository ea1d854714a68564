----------------------------- MODULE MCJobQueue -----------------------------
(***************************************************************************)
(* Three jobs and two workers.  A crawl tick, of one attempt, that only    *)
(* the first worker may take and that can only fail unexpectedly; a game   *)
(* sync and a summary, of several attempts, open to both workers, the      *)
(* summary failing on an exhausted budget only.  The tick is preferred.    *)
(*                                                                         *)
(* With stale workers, one job and a pool of three workers, so that two of *)
(* them can be stale while the third has the job in hand.                  *)
(***************************************************************************)
EXTENDS JobQueue, TLC

CONSTANTS tick, sync, summary, w1, w2, w3

MCWorker == {w1, w2}
MCServes == [w \in MCWorker |-> IF w = w1 THEN Job ELSE Job \ {tick}]
MCKeeper == {w1}
MCMaxAttempts == [j \in Job |-> IF j = tick THEN 1 ELSE 2]
MCPriority == [j \in Job |-> IF j = tick THEN 7 ELSE 5]
MCFailures == [j \in Job |-> CASE j = tick -> {"unexpected"}
                               [] j = sync -> {"retryable", "permanent"}
                               [] j = summary -> {"budget"}]

MCPool == {w1, w2, w3}
MCPoolServes == [w \in MCPool |-> Job]
MCPoolAttempts == [j \in Job |-> 4]
MCPoolFailures == [j \in Job |-> {"retryable"}]
=============================================================================
