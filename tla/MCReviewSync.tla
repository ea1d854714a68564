---------------------------- MODULE MCReviewSync ----------------------------
(***************************************************************************)
(* Five reviews to begin with and one to come, two to a page, so that the  *)
(* last page may be short; two pages to an incremental pass and two stale  *)
(* ones to end it.                                                         *)
(***************************************************************************)
EXTENDS ReviewSync, TLC

CONSTANTS r1, r2, r3, r4, r5, r6

MCFirst == <<r1, r2, r3, r4, r5>>

LOCAL Platforms == [lead : BOOLEAN, critics : {0, 5, 20}, users : {0, 40}]

\* The lead of a game is read whatever it has; of the others none that is worth it is left
\* out for one with fewer ratings, and none is read that is not (_platform_budget).
ASSUME BudgetPrefersMaterial ==
  \A platforms \in [1..3 -> Platforms], max \in 0..3 :
    LET settings == [critics |-> 10, users |-> 30, max |-> max]
        targets == Targets(platforms, settings)
        read == ToSet(targets)
    IN  /\ IsInjective(targets)
        /\ Len(targets) <= max \/ Len(targets) <= 1
        /\ (\E i \in 1..3 : platforms[i].lead) => platforms[targets[1]].lead
        /\ \A i \in read : platforms[i].lead \/ WorthIt(platforms[i], settings)
        /\ \A i \in read, k \in 1..3 \ read :
             WorthIt(platforms[k], settings) =>
               platforms[i].lead \/ Ratings(platforms[i]) >= Ratings(platforms[k])
=============================================================================
