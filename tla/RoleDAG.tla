------------------------------ MODULE RoleDAG ------------------------------
(***************************************************************************)
(* The role hierarchy of one tenant: how a list of inheritance pairs is    *)
(* validated and stored (internal/storage/policy_bundle.go), and how the   *)
(* engine turns the stored pairs into a graph with a precomputed           *)
(* transitive closure (internal/engine/dag.go, state_writer.go).           *)
(*                                                                         *)
(* Two depth-first searches written independently guard the graph: the     *)
(* storage one decides what may be written, the engine one decides what a  *)
(* replica can load. A list the first accepts and the second rejects would *)
(* leave a committed revision no replica can build.                        *)
(*                                                                         *)
(* Role names are model values. Go iterates maps in an unspecified order,  *)
(* and the table is read ORDER BY names that are abstract here, so every   *)
(* order is a nondeterministic choice.                                     *)
(***************************************************************************)
EXTENDS Naturals, Sequences, FiniteSets, Functions

CONSTANTS Roles,       \* role names
          MaxEdges,    \* bound on the length of a submitted list
          MaxCalls     \* bound on the number of submitted lists

ASSUME RolesAssumption == IsFiniteSet(Roles)

VARIABLES table,    \* role_inheritances rows of the tenant, a set of pairs
          stage,    \* "idle", "building", "built" or "failed"
          source,   \* where the list being built comes from: "table" or "caller"
          pending,  \* pairs buildTenantTrie has not added yet
          adj,      \* RoleDAG.adj: role -> direct children, in order
          closure,  \* RoleDAG.transitiveClosure; {} for a role that is no key
          calls     \* lists submitted so far, for MaxCalls only

roleVars == <<table, stage, source, pending, adj, closure, calls>>

Pairs == Roles \X Roles
Lists == UNION {[1 .. n -> Pairs] : n \in 0 .. MaxEdges}

\* The orders in which Go may range over a map with the given keys, or the rows
\* of a table may come back.
Orders(S) == {list \in [1 .. Cardinality(S) -> S] : IsInjective(list) /\ Range(list) = S}

NoEdges == [r \in Roles |-> <<>>]
NoClosure == [r \in Roles |-> {}]

\* The keys of an adjacency map: a key is created by the first append to it.
Parents(a) == {r \in Roles : a[r] # <<>>}

AddEdge(a, p) == [a EXCEPT ![p[1]] = Append(@, p[2])]

\* The map `edges` built by the first loop of validateRoleInheritances.
EdgesOf(list) ==
    LET edges[i \in 0 .. Len(list)] ==
            IF i = 0 THEN NoEdges ELSE AddEdge(edges[i - 1], list[i])
    IN  edges[Len(list)]

\* A bound on the depth of the searches below, which only enter roles they have
\* not met, and of the call that then finds a role met before.
Depth == Cardinality(Roles) + 1

----------------------------------------------------------------------------
(* hasCycle: depth-first search with three colours. A search returns       *)
(* whether it met a back edge, and the colours it leaves.                  *)

Colours == [Roles -> {"white", "gray", "black"}]

\* What meeting one neighbour leads to.
Meet(next, found, dfs) ==
    IF found.cycle THEN found
    ELSE IF found.colour[next] = "white" THEN dfs[next][found.colour]
    ELSE [found EXCEPT !.cycle = found.colour[next] = "gray"]

\* The body of dfs, which calls dfs for the white neighbours in turn.
Neighbours(a, node, colour, dfs) ==
    LET met[i \in 0 .. Len(a[node])] ==
            IF i = 0 THEN [cycle |-> FALSE, colour |-> [colour EXCEPT ![node] = "gray"]]
            ELSE Meet(a[node][i], met[i - 1], dfs)
        last == met[Len(a[node])]
    IN  IF last.cycle THEN last ELSE [last EXCEPT !.colour[node] = "black"]

Dfs(a) ==
    LET dfs[d \in 0 .. Depth] ==
            [node \in Roles |-> [colour \in Colours |->
                IF d = 0 THEN [cycle |-> FALSE, colour |-> colour]
                ELSE Neighbours(a, node, colour, dfs[d - 1])]]
    IN  dfs[Depth]

\* The search from one key of the map.
Root(node, found, dfs) ==
    IF found.cycle \/ found.colour[node] # "white" THEN found ELSE dfs[node][found.colour]

HasCycle(a, order) ==
    LET roots[i \in 0 .. Len(order)] ==
            IF i = 0 THEN [cycle |-> FALSE, colour |-> [r \in Roles |-> "white"]]
            ELSE Root(order[i], roots[i - 1], Dfs(a))
    IN  roots[Len(order)].cycle

----------------------------------------------------------------------------
(* rebuildTransitiveClosure and dfsCollect: the roles met from a start.    *)

\* The roles visited after one more neighbour.
Follow(next, seen, collect) == IF next \in seen THEN seen ELSE collect[next][seen]

\* The body of dfsCollect: what it leaves in visited.
Collected(a, node, visited, collect) ==
    LET seen[i \in 0 .. Len(a[node])] ==
            IF i = 0 THEN visited \cup {node}
            ELSE Follow(a[node][i], seen[i - 1], collect)
    IN  seen[Len(a[node])]

Collect(a) ==
    LET collect[d \in 0 .. Depth] ==
            [node \in Roles |-> [visited \in SUBSET Roles |->
                IF d = 0 THEN visited ELSE Collected(a, node, visited, collect[d - 1])]]
    IN  collect[Depth]

\* Mutant: the closure stops at the direct children.
DirectClosure(a) == [r \in Roles |-> Range(a[r])]

RebuildTransitiveClosure(a) ==
    [r \in Roles |-> IF r \in Parents(a) THEN Collect(a)[r][{}] \ {r} ELSE {}]

IsDescendant(parent, child) == parent = child \/ child \in closure[parent]

GetInheritedRoles(role) == {role} \cup closure[role]

----------------------------------------------------------------------------
(* validateRoleInheritances: self edges and duplicates are rejected one by *)
(* one, cycles by a depth-first search with the sets visiting and visited. *)

Visits == [visiting : SUBSET Roles, visited : SUBSET Roles, failed : BOOLEAN]

\* The first error ends the search.
Try(next, s, visit) == IF s.failed THEN s ELSE visit[next][s]

\* The body of visit, which calls visit for the children in turn.
Visited(edges, node, s, visit) ==
    LET child[i \in 0 .. Len(edges[node])] ==
            IF i = 0 THEN [s EXCEPT !.visiting = @ \cup {node}]
            ELSE Try(edges[node][i], child[i - 1], visit)
        done == child[Len(edges[node])]
    IN  CASE node \in s.visiting -> [s EXCEPT !.failed = TRUE]
          [] node \notin s.visiting /\ node \in s.visited -> s
          [] OTHER -> IF done.failed THEN done
                      ELSE [done EXCEPT !.visiting = @ \ {node}, !.visited = @ \cup {node}]

Visit(edges) ==
    LET visit[d \in 0 .. Depth] ==
            [node \in Roles |-> [s \in Visits |->
                IF d = 0 THEN s ELSE Visited(edges, node, s, visit[d - 1])]]
    IN  visit[Depth]

CycleDetected(list, order) ==
    LET edges == EdgesOf(list)
        parent[i \in 0 .. Len(order)] ==
            IF i = 0 THEN [visiting |-> {}, visited |-> {}, failed |-> FALSE]
            ELSE Try(order[i], parent[i - 1], Visit(edges))
    IN  parent[Len(order)].failed

\* Mutant: the validation ends before the search.
ValidPairs(list, order) ==
    /\ \A i \in DOMAIN list : list[i][1] # list[i][2]
    /\ \A i, j \in DOMAIN list : i # j => list[i] # list[j]

ValidInheritances(list, order) ==
    /\ \A i \in DOMAIN list : list[i][1] # list[i][2]
    /\ \A i, j \in DOMAIN list : i # j => list[i] # list[j]
    /\ ~ CycleDetected(list, order)

----------------------------------------------------------------------------
RoleInit == /\ table = {}
        /\ stage = "idle"
        /\ source = "table"
        /\ pending = <<>>
        /\ adj = NoEdges
        /\ closure = NoClosure
        /\ calls = 0

\* replaceRoleInheritances: one transaction deletes the tenant's rows and
\* inserts the validated list; a rejected list changes nothing.
ReplaceRoleInheritances(list) ==
    /\ calls' = calls + 1
    /\ \E order \in Orders(Parents(EdgesOf(list))) :
          table' = IF ValidInheritances(list, order) THEN Range(list) ELSE table
    /\ UNCHANGED <<stage, source, pending, adj, closure>>

\* buildTenantTrie on the bundle read from the table.
BuildFromTable ==
    /\ stage = "idle"
    /\ stage' = "building"
    /\ source' = "table"
    /\ \E rows \in Orders(table) : pending' = rows
    /\ UNCHANGED <<table, adj, closure, calls>>

\* The engine called with pairs nobody validated: AddInheritance and
\* UpdateTenantPolicies are exported.
BuildFromCaller(list) ==
    /\ calls' = calls + 1
    /\ stage' = "building"
    /\ source' = "caller"
    /\ pending' = list
    /\ UNCHANGED <<table, adj, closure>>

\* One iteration of the loop over the pairs: AddInheritance checks a copy of
\* adj with the edge before it changes adj and rebuilds the closure; an error
\* abandons the trie.
AddInheritance ==
    /\ stage = "building"
    /\ pending # <<>>
    /\ LET p == Head(pending)
           tempAdj == AddEdge(adj, p)
       IN  \E order \in Orders(Parents(tempAdj)) :
              IF p[1] = p[2] \/ HasCycle(tempAdj, order)
              THEN /\ stage' = "failed"
                   /\ pending' = <<>>
                   /\ UNCHANGED <<adj, closure>>
              ELSE /\ adj' = tempAdj
                   /\ closure' = RebuildTransitiveClosure(tempAdj)
                   /\ pending' = Tail(pending)
                   /\ UNCHANGED stage
    /\ UNCHANGED <<table, source, calls>>

FinishBuild ==
    /\ stage = "building"
    /\ pending = <<>>
    /\ stage' = "built"
    /\ UNCHANGED <<table, source, pending, adj, closure, calls>>

\* The trie is handed to the engine, or dropped with the error; the next build
\* starts from NewRoleDAG.
NewRoleDAG ==
    /\ stage \in {"built", "failed"}
    /\ stage' = "idle"
    /\ source' = "table"
    /\ adj' = NoEdges
    /\ closure' = NoClosure
    /\ UNCHANGED <<table, pending, calls>>

\* A list is submitted to the storage, or to the engine.
Submit ==
    /\ stage = "idle"
    /\ calls < MaxCalls
    /\ \E list \in Lists : ReplaceRoleInheritances(list) \/ BuildFromCaller(list)

RoleNext == \/ Submit
            \/ BuildFromTable
            \/ AddInheritance
            \/ FinishBuild
            \/ NewRoleDAG

RoleSpec == RoleInit /\ [][RoleNext]_roleVars

----------------------------------------------------------------------------

Edges(a) == {p \in Pairs : p[2] \in Range(a[p[1]])}

\* Reachability, without a search: q is below r when every set of roles that
\* holds the children of r and is closed under inheritance holds q.
Below(edges, r) ==
    LET closed == {S \in SUBSET Roles :
                      \A p \in edges : p[1] \in S \cup {r} => p[2] \in S}
    IN  {q \in Roles : \A S \in closed : q \in S}

\* What IsDescendant and GetInheritedRoles answer in O(1) is reachability in
\* the graph added so far, whatever the order of the pairs, including pairs
\* added twice and roles reached along several paths.
ClosureIsReachability ==
    \A r \in Roles :
        /\ GetInheritedRoles(r) = {r} \cup Below(Edges(adj), r)
        /\ GetInheritedRoles(r) = {q \in Roles : IsDescendant(r, q)}

\* A list that replaceRoleInheritances committed can be built by every
\* replica, in whatever order the rows come back: buildTenantTrie never fails
\* on it and the graph it builds is the table.
StoredHierarchyBuilds ==
    source = "table" =>
        /\ stage # "failed"
        /\ stage = "built" => Edges(adj) = table
============================================================================
