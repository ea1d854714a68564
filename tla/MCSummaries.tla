---------------------------- MODULE MCSummaries ----------------------------
(***************************************************************************)
(* Two audiences of two reviews each, two workers.  One new review is not  *)
(* enough of a change to a corpus of two.                                  *)
(***************************************************************************)
EXTENDS Summaries, TLC

CONSTANTS critic, user, r1, r2, v1, v2, w1, w2

MCThreshold == [a \in Audience |-> 1]
Symmetric == Permutations({w1, w2}) \cup Permutations({r1, r2})
               \cup Permutations({v1, v2})

\* Bound: the third change and the third call to the model are of different
\* behaviours.
OneBoundMet == starts + changes < MaxStarts + MaxChanges
=============================================================================
