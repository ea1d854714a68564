---------------------------- MODULE ShownSummary ----------------------------
(***************************************************************************)
(* What a reader is promised of the summaries of a game platform, with no  *)
(* job, fingerprint, model or history in sight: once there is one to show  *)
(* of an audience there always is, each is followed by the next version,   *)
(* and a new version is written from a new input.                          *)
(*                                                                         *)
(* Summaries implements this specification, whatever its workers           *)
(* interleave, what fails and what retention deletes.                      *)
(***************************************************************************)
EXTENDS Naturals

CONSTANTS
  Audience,
  Input           \* what a summary can be written from

VARIABLE shown    \* the version shown and its input; version 0 is none yet

NoneYet == [version |-> 0]

Init == shown = [a \in Audience |-> NoneYet]

Publish(a) ==
  /\ shown'[a].version = shown[a].version + 1
  /\ shown'[a].input \in Input
  /\ shown[a].version > 0 => shown'[a].input # shown[a].input
  /\ shown' = [shown EXCEPT ![a] = shown'[a]]

Next == \E a \in Audience : Publish(a)

Spec == Init /\ [][Next]_shown
=============================================================================
