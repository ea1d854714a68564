---------------------------- MODULE MCEventStream ----------------------------
(* An instance of EventStream for TLC: the client follows one crawl run. *)
EXTENDS EventStream, MCMonitoring

CONSTANTS w1, w2, c1

MCFollows == [c \in Client |-> {"run"}]
=============================================================================
