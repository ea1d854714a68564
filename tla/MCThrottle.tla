----------------------------- MODULE MCThrottle -----------------------------
(***************************************************************************)
(* Two processes and one bucket of one token, refilled at one a tick.      *)
(***************************************************************************)
EXTENDS Throttle, TLC

CONSTANTS p1, p2

Symmetric == Permutations({p1, p2})
=============================================================================
