---------------------------- MODULE TenantEngine ----------------------------
(***************************************************************************)
(* One tenant's engine: the role hierarchy of RoleDAG and the index and    *)
(* the decisions of Decision, as buildTenantTrie (state_writer.go) joins   *)
(* them. It adds the inheritance pairs one by one, then the policies; the  *)
(* trie it returns replaces the tenant's, and an error leaves the tenant   *)
(* as it was.                                                              *)
(*                                                                         *)
(* A build works on a trie nobody else sees, so requests are served        *)
(* between builds here: served during one they would see the same state.   *)
(***************************************************************************)
EXTENDS RoleDAG, Decision

ASSUME EngineAssumption == Subjects = Roles /\ Hierarchies = [Roles -> SUBSET Roles]

engineVars == <<roleVars, vars>>

EngineInit == RoleInit /\ Init /\ hierarchy = NoClosure

\* The inheritances are stored, read and added.
BuildStep ==
    /\ installs < MaxInstalls
    /\ \/ Submit
       \/ BuildFromTable
       \/ AddInheritance
       \/ FinishBuild
    /\ UNCHANGED vars

\* The build failed: the tenant keeps the trie it has.
AbandonBuild == stage = "failed" /\ NewRoleDAG /\ UNCHANGED vars

\* The policies are added and the trie replaces the tenant's.
InstallBuilt ==
    /\ installs < MaxInstalls
    /\ stage = "built"
    /\ NewRoleDAG
    /\ \E ps \in RuleSets : UpdateTenantPolicies(ps, closure)

ServeBetween == stage = "idle" /\ Serve /\ UNCHANGED roleVars

EngineNext == BuildStep \/ AbandonBuild \/ InstallBuilt \/ ServeBetween

EngineSpec == EngineInit /\ [][EngineNext]_engineVars
=============================================================================
