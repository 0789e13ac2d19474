------------------------------- MODULE MCAudit -------------------------------
(***************************************************************************)
(* Instances of Audit: entries are model values; those in Foreign belong   *)
(* to a second tenant.                                                     *)
(***************************************************************************)
EXTENDS Audit

CONSTANT Foreign

TwoTenants == [e \in Entries |-> IF e \in Foreign THEN 2 ELSE 1]

=============================================================================
