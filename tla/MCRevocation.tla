---------------------------- MODULE MCRevocation ----------------------------
(* Model-checking instances of Revocation.                                   *)
EXTENDS Revocation, TLC

=============================================================================
