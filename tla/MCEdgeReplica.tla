--------------------------- MODULE MCEdgeReplica ----------------------------
(* Two policies, a text that compiles and one that only publishing accepts.  *)
EXTENDS EdgeReplica

=============================================================================
