--------------------------- MODULE MCPolicyAdmin ----------------------------
(* The administration alone, without a process that loads the policies.     *)
EXTENDS PolicyAdmin

=============================================================================
