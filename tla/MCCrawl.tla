------------------------------- MODULE MCCrawl -------------------------------
(* Instances of Crawl for TLC. *)
EXTENDS Crawl, MCSchedule, TLC

CONSTANTS g1, g2, g3, t1, t2

Symmetry == Permutations(Game) \cup Permutations(Tick)

\* Items that have left the state their claim put them in, or were revived.
Moved == {i \in Item : status[i] \in {"done", "failed"} \/ lease[i] = "expired"
                         \/ attempts[i] > 1 \/ firstJob[i] = "settled"}

\* Bound: one item at a time goes on to its jobs and to the reaper, which act on
\* each item by itself; the others are claimed and stay claimed.
OneItemMoves == Cardinality(Moved) <= 1
=============================================================================
