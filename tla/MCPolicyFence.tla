---------------------------- MODULE MCPolicyFence ----------------------------
(* Model-checking instances of PolicyFence.                                  *)
EXTENDS PolicyFence, TLC

=============================================================================
