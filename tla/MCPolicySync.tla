---------------------------- MODULE MCPolicySync ----------------------------
(* Model-checking instances of PolicySync.                                   *)
EXTENDS PolicySync, TLC

=============================================================================
