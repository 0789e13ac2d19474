------------------------------ MODULE Decision ------------------------------
(***************************************************************************)
(* How the engine answers a request from the policies of one tenant: the   *)
(* index (internal/engine/trie.go), the verdict (decision.go), the what-if *)
(* evaluation SimulateDecision (engine_gc.go) and the explanation RPC      *)
(* (internal/server/grpc_explain.go), which reads the index twice.         *)
(*                                                                         *)
(* A policy is a record: its effect, its three scopes (AnyKey stands for   *)
(* the wildcard; == and `in` scopes are indexed alike), whether its        *)
(* condition is an `unless`, and what Evaluate makes of the condition      *)
(* ("true", "false", or "error" for an error or a value that is no         *)
(* Boolean).  The role hierarchy is the subject of module RoleDAG; here a  *)
(* hierarchy gives every subject the set of roles it inherits.  A hash     *)
(* bucket with its search by raw key is a function of                      *)
(* the key.                                                                *)
(***************************************************************************)
EXTENDS Naturals, Sequences, FiniteSets, Functions

CONSTANTS Subjects,      \* users and roles
          Actions,       \* action keys, already prefixed by normalizeAction
          Resources,     \* resource keys
          AnyKey,           \* the key "any"
          None,          \* no trie, no policy
          Policies,      \* the compiled policies that may be published
          Hierarchies,   \* inherited roles of every subject
          Explained,     \* the requests ExplainDecision is called with
          MaxPolicies,   \* bound on the length of a rule set
          MaxInstalls,   \* bound on the number of published rule sets
          MaxSimulations \* bound on the number of simulations

Policy == [effect : {"permit", "forbid"},
           principal : Subjects \cup {AnyKey},
           action : Actions \cup {AnyKey},
           resource : Resources \cup {AnyKey},
           unless : BOOLEAN,
           cond : {"true", "false", "error"}]

ASSUME PoliciesAssumption == Policies \subseteq Policy
ASSUME AnyAssumption == AnyKey \notin Subjects \cup Actions \cup Resources
ASSUME HierarchiesAssumption ==
    \A h \in Hierarchies : h \in [Subjects -> SUBSET Subjects] /\ \A s \in Subjects : IsFiniteSet(h[s])

Requests == [subject : Subjects, action : Actions, resource : Resources]

ASSUME ExplainedAssumption == Explained \subseteq Requests

VARIABLES trie,      \* the tenant's TrieRoot in the engine state, or None
          ruleset,   \* the policies the trie was built from, in order
          leaked,    \* policies a simulation added to nodes of this trie
          hierarchy, \* the hierarchy the trie was built from
          installs,  \* rule sets published so far
          sims,      \* simulations so far
          explain    \* the ExplainDecision call in progress or answered

vars == <<trie, ruleset, leaked, hierarchy, installs, sims, explain>>

Keys == (Subjects \cup {AnyKey}) \X (Resources \cup {AnyKey}) \X (Actions \cup {AnyKey})

Tries == [leaf : [Keys -> Seq(Policies)], globals : Seq(Policies),
          roles : [Subjects -> Seq(Subjects)], revision : Nat]

ASSUME NoneAssumption == None \notin Policies \cup Tries

----------------------------------------------------------------------------
(* The index. *)

\* An empty index, with the tenant's hierarchy and revision.
NewTrieRoot(roles, revision) ==
    [leaf |-> [k \in Keys |-> <<>>], globals |-> <<>>, roles |-> roles, revision |-> revision]

InGlobalPartition(p) == p.principal = AnyKey /\ p.resource = AnyKey

\* The leaf that Subject -> Resource -> Action leads to.
LeafKey(p) == <<p.principal, p.resource, p.action>>

\* Mutant: a policy replaces the one its leaf already holds.
AddPolicyReplaces(t, p) ==
    IF InGlobalPartition(p) THEN [t EXCEPT !.globals = Append(@, p)]
    ELSE [t EXCEPT !.leaf[LeafKey(p)] = <<p>>]

AddPolicy(t, p) ==
    IF InGlobalPartition(p) THEN [t EXCEPT !.globals = Append(@, p)]
    ELSE [t EXCEPT !.leaf[LeafKey(p)] = Append(@, p)]

\* A subject node exists once a policy was added below it.
HasSubjectNode(t, s) == \E k \in Keys : k[1] = s /\ t.leaf[k] # <<>>

EnsureAny(list) == Append(list, AnyKey)

\* The policies below one subject, resource by resource, the action before AnyKey.
LookupSubject(t, s, req) ==
    t.leaf[<<s, req.resource, req.action>>] \o t.leaf[<<s, req.resource, AnyKey>>] \o
    t.leaf[<<s, AnyKey, req.action>>]          \o t.leaf[<<s, AnyKey, AnyKey>>]

\* buf[n]: what the first n subjects of the list added to the global partition.
LookupPoliciesInto(t, req) ==
    LET subjects == EnsureAny(t.roles[req.subject])
        buf[n \in 0 .. Len(subjects)] ==
            IF n = 0 THEN t.globals ELSE buf[n - 1] \o LookupSubject(t, subjects[n], req)
    IN  buf[Len(subjects)]

\* inheritedRoles: the role itself, then its closure in the order of a Go map.
RoleLists(s, h) ==
    LET held == {s} \cup h[s]
    IN  {list \in [1 .. Cardinality(held) -> held] :
            list[1] = s /\ IsInjective(list) /\ Range(list) = held}

Orderings(h) == {f \in [Subjects -> UNION {RoleLists(s, h) : s \in Subjects}] :
                    \A s \in Subjects : f[s] \in RoleLists(s, h)}

\* built[n]: the first n rows added.
BuildTenantTrie(ps, roles, revision) ==
    LET built[n \in 0 .. Len(ps)] ==
            IF n = 0 THEN NewTrieRoot(roles, revision) ELSE AddPolicy(built[n - 1], ps[n])
    IN  built[Len(ps)]

----------------------------------------------------------------------------
(* The verdict. *)

\* Mutant: an error counts as an unsatisfied condition before `unless` is
\* applied to it.
SatisfiedOnError(p) == (p.cond = "true") # p.unless

IsConditionSatisfied(p) == p.cond # "error" /\ (p.cond = "true") # p.unless

FirstSatisfied(ps, effect) ==
    LET hits == {i \in DOMAIN ps : IsConditionSatisfied(ps[i]) /\ ps[i].effect = effect}
    IN  IF hits = {} THEN None ELSE ps[CHOOSE i \in hits : \A j \in hits : i <= j]

Verdict(decision, reason, by) == [decision |-> decision, reason |-> reason, by |-> by]

Decide(ps) ==
    LET forbid == FirstSatisfied(ps, "forbid")
        permit == FirstSatisfied(ps, "permit")
    IN  CASE ps = <<>> -> Verdict("DENY", "nomatch", None)
          [] ps # <<>> /\ forbid # None -> Verdict("DENY", "forbid", forbid)
          [] ps # <<>> /\ forbid = None /\ permit # None -> Verdict("ALLOW", "permit", permit)
          [] OTHER -> Verdict("DENY", "default", None)

CheckPermission(t, req) ==
    IF t = None THEN Verdict("DENY", "notenant", None)
    ELSE Decide(LookupPoliciesInto(t, req))

----------------------------------------------------------------------------
(* The operations. *)

NoExplain == [stage |-> "idle"]

Init == /\ trie = None
        /\ ruleset = <<>>
        /\ leaked = <<>>
        /\ hierarchy \in Hierarchies
        /\ installs = 0
        /\ sims = 0
        /\ explain = NoExplain

\* UpdateTenantPoliciesWithRevision: a trie built aside replaces the old one.
UpdateTenantPolicies(ps, h) ==
    /\ installs' = installs + 1
    /\ \E roles \in Orderings(h) : trie' = BuildTenantTrie(ps, roles, installs + 1)
    /\ ruleset' = ps
    /\ leaked' = <<>>
    /\ hierarchy' = h
    /\ UNCHANGED <<sims, explain>>

RuleSets == UNION {[1 .. n -> Policies] : n \in 0 .. MaxPolicies}

Install == /\ installs < MaxInstalls
           /\ \E ps \in RuleSets, h \in Hierarchies : UpdateTenantPolicies(ps, h)

\* UnloadTenant: the tenant leaves memory.
UnloadTenant ==
    /\ trie # None
    /\ trie' = None
    /\ ruleset' = <<>>
    /\ leaked' = <<>>
    /\ UNCHANGED <<hierarchy, installs, sims, explain>>

\* SimulateDecision copies the map of subject nodes, not the nodes. A simulated
\* policy whose principal the tenant already has a node for is added below that
\* node, which the live trie shares; otherwise the new node is the copy's own.
SimulateDecision(p) ==
    /\ sims < MaxSimulations
    /\ sims' = sims + 1
    /\ IF trie # None /\ ~ InGlobalPartition(p) /\ HasSubjectNode(trie, p.principal)
       THEN /\ trie' = AddPolicy(trie, p)
            /\ leaked' = Append(leaked, p)
       ELSE UNCHANGED <<trie, leaked>>
    /\ UNCHANGED <<ruleset, hierarchy, installs, explain>>

\* ExplainDecision, first read: CheckPermission decides.
ExplainDecide(req) ==
    /\ explain.stage = "idle"
    /\ explain' = [stage |-> "decided", req |-> req,
                   result |-> CheckPermission(trie, req),
                   revision |-> IF trie = None THEN 0 ELSE trie.revision,
                   leaked |-> leaked]
    /\ UNCHANGED <<trie, ruleset, leaked, hierarchy, installs, sims>>

\* Mutant: the explanation forgets that `unless` inverts the condition.
ConditionTrue(p) == p.cond = "true"

ConditionMatched(p) == IF p.unless THEN p.cond = "false" ELSE p.cond = "true"

\* ExplainDecision, second read: GetTenantTrie, the lookup again and the policies
\* whose condition matched (the order of the list is left out).
ExplainMatched ==
    /\ explain.stage = "decided"
    /\ explain' =
         IF trie = None
         THEN [stage |-> "answered", req |-> explain.req, decision |-> "DENY",
               matched |-> {}, sameTrie |-> FALSE]
         ELSE [stage |-> "answered", req |-> explain.req,
               decision |-> explain.result.decision,
               matched |-> {p \in Range(LookupPoliciesInto(trie, explain.req)) : ConditionMatched(p)},
               sameTrie |-> trie.revision = explain.revision /\ leaked = explain.leaked]
    /\ UNCHANGED <<trie, ruleset, leaked, hierarchy, installs, sims>>

ExplainReturn ==
    /\ explain.stage = "answered"
    /\ explain' = NoExplain
    /\ UNCHANGED <<trie, ruleset, leaked, hierarchy, installs, sims>>

Serve == \/ UnloadTenant
         \/ \E p \in Policies : SimulateDecision(p)
         \/ \E req \in Explained : ExplainDecide(req)
         \/ ExplainMatched
         \/ ExplainReturn

Next == Install \/ Serve

Spec == Init /\ [][Next]_vars

----------------------------------------------------------------------------

\* What the trie was given: the published rule set and what simulations left.
Held == ruleset \o leaked

\* A policy's scopes match a request.
Matches(p, req) ==
    /\ p.principal \in {req.subject, AnyKey} \cup hierarchy[req.subject]
    /\ p.action \in {req.action, AnyKey}
    /\ p.resource \in {req.resource, AnyKey}

Times(p, ps) == Cardinality({i \in DOMAIN ps : ps[i] = p})

\* LookupPoliciesInto finds every policy whose scopes match the request, once
\* for each time it was published: no policy is lost in the index or reached
\* through two of the subject's roles.
LookupFindsMatches ==
    trie # None =>
        \A req \in Requests :
            LET found == LookupPoliciesInto(trie, req)
            IN  \A p \in Range(Held) :
                    Matches(p, req) => Times(p, found) = Times(p, Held)

\* The policies in force for a request: their scopes match it and their
\* condition, evaluated without an error, satisfies `when` or `unless`.
InForce(req) == {p \in Range(Held) : Matches(p, req) /\ p.cond # "error"
                                     /\ (p.cond = "true") # p.unless}

\* Deny by default, forbid overriding permit, and the policy that is named as
\* the reason among those that decide.
DecidedBy(ps, req) ==
    LET verdict == CheckPermission(trie, req)
    IN  /\ (verdict.decision = "ALLOW") <=>
               /\ \E p \in ps : p.effect = "permit"
               /\ \A p \in ps : p.effect # "forbid"
        /\ verdict.by # None => verdict.by \in ps

\* The lookup adds the global partition to every request without a look at the
\* action (trie.go:216). A stray policy is one it adds although the policy is
\* scoped to another action.
Strays(req) == {p \in Range(Held) : InGlobalPartition(p) /\ ~ Matches(p, req)}

\* evaluatePermission is deny by default with forbid overriding permit, in
\* terms of the published set alone, for every request that meets no stray
\* policy: the order of the rows, of the roles and of the leaves never changes
\* the verdict, and a policy whose condition fails to evaluate never takes part.
ForbidOverrides ==
    \A req \in Requests : Strays(req) = {} => DecidedBy(InForce(req), req)

\* The list of matched policies that ExplainDecision returns justifies the
\* decision it returns, when both reads saw the same trie: an ALLOW lists a
\* permit and no forbid, a DENY lists a forbid or no permit.
ExplanationJustifies ==
    explain.stage = "answered" /\ explain.sameTrie =>
        LET effects == {p.effect : p \in explain.matched}
        IN  (explain.decision = "ALLOW") <=> (effects = {"permit"})

----------------------------------------------------------------------------
(* Statements of the repository that the code does not keep. *)

\* POLICY_DSL_SPEC.md scopes a rule for any principal and any resource to one
\* action (RULE 6), and ARCH_SPEC.md filters policies down to the action: the
\* policies whose three scopes match a request decide it, whatever else the
\* tenant has published.
ScopesDecide == \A req \in Requests : DecidedBy(InForce(req), req)

\* engine_gc.go: SimulateDecision evaluates a trial policy without changing the
\* state, so a simulation changes no answer to any request.
SimulationChangesNothing ==
    [][sims' # sims =>
          \A req \in Requests : CheckPermission(trie', req) = CheckPermission(trie, req)]_vars
============================================================================
