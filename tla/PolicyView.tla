----------------------------- MODULE PolicyView -----------------------------
(***************************************************************************)
(* What a PDP replica promises about the policies it serves: per tenant it *)
(* serves nothing (0) or one committed revision, it only moves on to later *)
(* committed ones, and it may drop the tenant and start again.  PolicySync *)
(* implements this; PolicyFence assumes no more than this of the replicas. *)
(***************************************************************************)
EXTENDS Naturals

CONSTANT Tenants

VARIABLES
  committed,  \* tenant -> committed policy revision
  served      \* tenant -> revision served, 0 for none

vars == <<committed, served>>

Init ==
  /\ committed = [t \in Tenants |-> 1]
  /\ served = [t \in Tenants |-> 0]

Commit(t) ==
  /\ committed' = [committed EXCEPT ![t] = @ + 1]
  /\ UNCHANGED served

Serve(t) ==
  /\ \E n \in served[t] + 1 .. committed[t] : served' = [served EXCEPT ![t] = n]
  /\ UNCHANGED committed

Drop(t) ==
  /\ served' = [served EXCEPT ![t] = 0]
  /\ UNCHANGED committed

Next == \E t \in Tenants : Commit(t) \/ Serve(t) \/ Drop(t)

Spec == Init /\ [][Next]_vars
=============================================================================
