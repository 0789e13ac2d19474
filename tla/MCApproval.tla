------------------------------ MODULE MCApproval ------------------------------
(***************************************************************************)
(* Instances of Approval for TLC.  Sessions are interchangeable.           *)
(***************************************************************************)
EXTENDS Approval, TLC

Symmetry == Permutations(Sessions)
=============================================================================
