--------------------------- MODULE MCTenantEngine ---------------------------
(* A TLC instance of TenantEngine: a user u and two roles, every hierarchy   *)
(* of the three, and policies of the role r, of everybody and of the user.   *)
EXTENDS TenantEngine
CONSTANTS u, q, r, a, b, f

Effects == {"permit", "forbid"}

\* Scopes from the narrowest to the global partition, conditions that hold.
ScopedPolicies ==
    {p \in [effect : Effects, principal : {r, AnyKey}, action : {a, AnyKey},
            resource : {f, AnyKey}, unless : {FALSE}, cond : {"true"}] :
        <<p.principal, p.action, p.resource>> \in
            {<<r, a, f>>, <<r, AnyKey, AnyKey>>, <<AnyKey, AnyKey, f>>, <<AnyKey, a, AnyKey>>}}

\* The user's own policies, whose conditions fail or cannot be evaluated.
ConditionalPolicies ==
    [effect : Effects, principal : {u}, action : {a}, resource : {f},
     unless : {TRUE}, cond : {"false", "error"}]

EnginePolicies == ScopedPolicies \cup ConditionalPolicies
AllHierarchies == [Roles -> SUBSET Roles]
OneRequest == {[subject |-> u, action |-> a, resource |-> f]}
============================================================================
