----------------------------- MODULE MCDecision -----------------------------
(* TLC instances of Decision: one user u with a role q and, below q, a role  *)
(* r that u is given by two paths.                                           *)
EXTENDS Decision
CONSTANTS u, q, r, a, b, f

Scopes(principals, actions, resources, conds) ==
    [effect : {"permit", "forbid"}, principal : principals, action : actions,
     resource : resources, unless : {FALSE}, cond : conds]

\* All scopes of a role or of everybody, conditions that hold.
ScopedPolicies == Scopes({r, AnyKey}, {a, AnyKey}, {f, AnyKey}, {"true"})

\* The user's own policies, whose conditions hold, fail or cannot be evaluated.
ConditionalPolicies ==
    {p \in [effect : {"permit", "forbid"}, principal : {u}, action : {a}, resource : {f},
            unless : BOOLEAN, cond : {"true", "false", "error"}] :
        p.cond = "error" => p.unless}

MixedPolicies == ScopedPolicies \cup ConditionalPolicies

Tree == [s \in Subjects |-> CASE s = u -> {q, r} [] s = q -> {r} [] OTHER -> {}]
OnlyTree == {Tree}

NoRequest == {}
OneRequest == {[subject |-> u, action |-> a, resource |-> f]}
============================================================================
