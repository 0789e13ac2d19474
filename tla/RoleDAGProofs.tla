---------------------------- MODULE RoleDAGProofs ----------------------------
(***************************************************************************)
(* The role hierarchy, for any finite set of roles and lists of any        *)
(* length: the closure is reachability, the two searches for cycles find   *)
(* all of them and nothing else, so that every replica can build what the  *)
(* storage accepted. The last section is about the whole engine: what is   *)
(* proved of the hierarchy here and of decisions in DecisionProofs holds   *)
(* of the two joined by buildTenantTrie.                                   *)
(***************************************************************************)
EXTENDS TenantEngine, FiniteSetTheorems, WellFoundedInduction, TLAPS

-----------------------------------------------------------------------------
(* Loops.                                                                   *)

(* Every set of positions has a first one.                                  *)
LEMMA Least ==
  ASSUME NEW T \in SUBSET Nat, T # {}
  PROVE  \E x \in T : \A y \in T : ~(y < x)
  <1> DEFINE R == OpToRel(<, Nat)
  <1>1. IsWellFoundedOn(R, Nat)
    BY NatLessThanWellFounded
  <1>2. \A x, y \in Nat : y < x => <<y, x>> \in R
    BY DEF OpToRel
  <1> HIDE DEF R
  <1>3. \E x \in T : \A y \in T : ~(<<y, x>> \in R)
    BY <1>1, WFMin
  <1> QED
    BY <1>2, <1>3

(* Induction, over a set of numbers.                                        *)
LEMMA Induction ==
  ASSUME NEW S \in SUBSET Nat, 0 \in S, \A n \in S : n + 1 \in S
  PROVE  S = Nat
  <1> DEFINE T == Nat \ S
  <1>1. SUFFICES ASSUME T # {} PROVE FALSE
    BY Zenon
  <1>2. PICK x \in T : \A y \in T : ~(y < x)
    BY <1>1, Least
  <1>3. x - 1 \in Nat /\ x - 1 < x
    BY <1>2
  <1>4. x - 1 \in S
    BY <1>2, <1>3
  <1> QED
    BY <1>2, <1>3, <1>4

(* Induction up to the last row or role.                                    *)
LEMMA UpTo ==
  ASSUME NEW N \in Nat, NEW S \in SUBSET (0 .. N), 0 \in S, \A n \in S : n < N => n + 1 \in S
  PROVE  N \in S /\ S = 0 .. N
  <1> DEFINE T == {n \in Nat : n <= N => n \in S}
  <1>1. T \in SUBSET Nat /\ 0 \in T /\ \A n \in T : n + 1 \in T
    OBVIOUS
  <1>2. T = Nat
    BY <1>1, Induction
  <1>3. N \in S
    BY <1>2
  <1>4. \A n \in 0 .. N : n \in S
    BY <1>2
  <1> QED
    BY Zenon, <1>3, <1>4

(* g[n] is the state of a loop over N rows or roles after n of them.        *)
Loop(g, X, base, N, step) ==
  g \in [0 .. N -> X] /\ g[0] = base /\ \A n \in 1 .. N : g[n] = step[n][g[n - 1]]

(* Every such loop is defined.                                              *)
LEMMA Recursion ==
  ASSUME NEW X, NEW base \in X, NEW N \in Nat, NEW step \in [1 .. N -> [X -> X]]
  PROVE  \E g : Loop(g, X, base, N, step)
  <1> DEFINE Ok(m, g) == g \in [0 .. m -> X] /\ g[0] = base /\ \A n \in 1 .. m : g[n] = step[n][g[n - 1]]
             S == {m \in 0 .. N : \E g : Ok(m, g)}
  <1>1. ASSUME NEW m \in 0 .. N, m < N, NEW g, Ok(m, g) PROVE \E h : Ok(m + 1, h)
    <2> DEFINE last == step[m + 1][g[m]]
               h == [n \in 0 .. (m + 1) |-> IF n = m + 1 THEN last ELSE g[n]]
    <2>1. last \in X
      BY <1>1
    <2> HIDE DEF last
    <2>2. h \in [0 .. (m + 1) -> X] /\ h[m + 1] = last
      BY <1>1, <2>1
    <2>3. \A n \in 0 .. m : h[n] = g[n]
      BY <1>1
    <2> HIDE DEF h
    <2>4. h[0] = base
      BY <1>1, <2>3
    <2>5. \A n \in 1 .. m : h[n] = step[n][h[n - 1]]
      <3> TAKE n \in 1 .. m
      <3>1. n \in 0 .. m /\ n - 1 \in 0 .. m
        BY <1>1
      <3> QED
        BY Zenon, <1>1, <2>3, <3>1
    <2>6. h[m + 1] = step[m + 1][h[m]] /\ (m + 1) - 1 = m
      BY <1>1, <2>2, <2>3 DEF last
    <2>7. \A n \in 1 .. (m + 1) : n \in 1 .. m \/ n = m + 1
      BY <1>1
    <2>8. \A n \in 1 .. (m + 1) : h[n] = step[n][h[n - 1]]
      BY Zenon, <2>5, <2>6, <2>7
    <2> QED
      BY Zenon, <2>2, <2>4, <2>8
  <1>2. Ok(0, [n \in 0 .. 0 |-> base])
    OBVIOUS
  <1> HIDE DEF Ok
  <1>3. 0 \in S /\ \A m \in S : m < N => m + 1 \in S
    <2>1. 0 \in S
      BY <1>2
    <2>2. ASSUME NEW m \in S, m < N PROVE m + 1 \in S
      <3>1. m + 1 \in 0 .. N
        BY <2>2
      <3> QED
        BY Zenon, <1>1, <2>2, <3>1
    <2> QED
      BY Zenon, <2>1, <2>2
  <1>4. N \in S
    <2>1. S \in SUBSET (0 .. N)
      BY Zenon
    <2> HIDE DEF S
    <2> QED
      BY Zenon, <1>3, <2>1, UpTo
  <1>5. \E g : Ok(N, g)
    BY Zenon, <1>4
  <1> QED
    BY Zenon, <1>5 DEF Ok, Loop

(* A function that satisfies the equations of a loop is that loop.          *)
LEMMA IsLoop ==
  ASSUME NEW X, NEW base \in X, NEW N \in Nat, NEW step \in [1 .. N -> [X -> X]],
         NEW g, g = [n \in 0 .. N |-> g[n]], g[0] = base,
         \A n \in 1 .. N : g[n - 1] \in X => g[n] = step[n][g[n - 1]]
  PROVE  Loop(g, X, base, N, step)
  <1> DEFINE S == {n \in 0 .. N : g[n] \in X}
  <1>1. 0 \in S
    OBVIOUS
  <1>2. ASSUME NEW n \in S, n < N PROVE n + 1 \in S
    <2>1. n + 1 \in 1 .. N /\ (n + 1) - 1 = n /\ n + 1 \in 0 .. N
      BY <1>2
    <2>2. g[n + 1] = step[n + 1][g[n]] /\ g[n] \in X
      BY Zenon, <1>2, <2>1
    <2>3. g[n + 1] \in X
      BY <2>1, <2>2
    <2> QED
      BY Zenon, <2>1, <2>3
  <1>3. S = 0 .. N
    <2>1. S \in SUBSET (0 .. N)
      BY Zenon
    <2> HIDE DEF S
    <2> QED
      BY Zenon, <1>1, <1>2, <2>1, UpTo
  <1>4. \A n \in 0 .. N : g[n] \in X
    BY Zenon, <1>3
  <1>5. g \in [0 .. N -> X]
    BY Zenon, <1>4
  <1>6. \A n \in 1 .. N : n - 1 \in 0 .. N
    OBVIOUS
  <1> QED
    BY Zenon, <1>4, <1>5, <1>6 DEF Loop

-----------------------------------------------------------------------------
(* Graphs.                                                                  *)

Graphs == [Roles -> Seq(Roles)]

Acyclic(E) == \A x \in Roles : x \notin Below(E, x)

(* What a finished search has left behind: a set that no edge leaves and    *)
(* that no cycle goes through.                                              *)
Settled(E, B) ==
  /\ B \in SUBSET Roles
  /\ \A p \in E : p[1] \in B => p[2] \in B
  /\ \A x \in B : x \notin Below(E, x)

(* A set closed under inheritance holds what is below it.                   *)
LEMMA BelowIn ==
  ASSUME NEW E, NEW x, NEW S \in SUBSET Roles, \A p \in E : p[1] \in S \cup {x} => p[2] \in S
  PROVE  Below(E, x) \subseteq S
  BY Zenon DEF Below

(* A child is below its parent.                                             *)
LEMMA BelowEdge ==
  ASSUME NEW E, NEW x, NEW y \in Roles, <<x, y>> \in E
  PROVE  y \in Below(E, x)
  <1>1. <<x, y>>[1] = x /\ <<x, y>>[2] = y
    OBVIOUS
  <1> QED
    BY Zenon, <1>1 DEF Below

(* What is below a descendant is below the role.                            *)
LEMMA BelowBelow ==
  ASSUME NEW E, NEW x, NEW y \in Below(E, x), NEW z \in Below(E, y)
  PROVE  z \in Below(E, x)
  <1>1. z \in Roles
    BY Zenon DEF Below
  <1>2. ASSUME NEW S \in SUBSET Roles, \A p \in E : p[1] \in S \cup {x} => p[2] \in S
        PROVE  z \in S
    <2>1. y \in S
      BY Zenon, <1>2, BelowIn
    <2>2. \A p \in E : p[1] \in S \cup {y} => p[2] \in S
      BY Zenon, <1>2, <2>1
    <2> QED
      BY Zenon, <2>2, BelowIn
  <1> QED
    BY Zenon, <1>1, <1>2 DEF Below

(* Fewer edges, fewer cycles.                                               *)
LEMMA FewerEdges ==
  ASSUME NEW E, NEW F, E \subseteq F, Acyclic(F)
  PROVE  Acyclic(E)
  <1>1. \A x : Below(E, x) \subseteq Below(F, x)
    BY Zenon DEF Below
  <1> QED
    BY Zenon, <1>1 DEF Acyclic

(* No role of an acyclic graph is its own parent.                           *)
LEMMA NoSelfEdge ==
  ASSUME NEW E \in SUBSET Pairs, Acyclic(E), NEW p \in E
  PROVE  p[1] # p[2]
  <1>1. p[1] \in Roles /\ p[2] \in Roles /\ p = <<p[1], p[2]>>
    BY DEF Pairs
  <1>2. p[2] \in Below(E, p[1])
    BY Zenon, <1>1, BelowEdge
  <1> QED
    BY Zenon, <1>1, <1>2 DEF Acyclic

(* A role whose children have been settled can be settled.                  *)
LEMMA Settle ==
  ASSUME NEW E, NEW B, Settled(E, B), NEW n \in Roles, n \notin B,
         \A p \in E : p[1] = n => p[2] \in B
  PROVE  Settled(E, B \cup {n})
  <1>1. Below(E, n) \subseteq B
    BY Zenon, BelowIn DEF Settled
  <1> QED
    BY Zenon, <1>1 DEF Settled

(* A graph whose parents are all settled has no cycle.                      *)
LEMMA AllSettled ==
  ASSUME NEW E, NEW B, Settled(E, B), \A p \in E : p[1] \in B
  PROVE  Acyclic(E)
  <1>1. ASSUME NEW x \in Roles, x \notin B PROVE x \notin Below(E, x)
    <2>1. Below(E, x) \subseteq B
      BY Zenon, <1>1, BelowIn DEF Settled
    <2> QED
      BY Zenon, <1>1, <2>1
  <1> QED
    BY Zenon, <1>1 DEF Acyclic, Settled

(* The edges that leave a role are those of its list.                       *)
LEMMA EdgeIsListed ==
  ASSUME NEW a \in Graphs
  PROVE  /\ Edges(a) \in SUBSET Pairs
         /\ \A p \in Edges(a) : /\ p[1] \in Roles /\ p[2] \in Roles /\ p = <<p[1], p[2]>>
                                /\ \E i \in 1 .. Len(a[p[1]]) : a[p[1]][i] = p[2]
         /\ \A x \in Roles : \A i \in 1 .. Len(a[x]) : a[x][i] \in Roles /\ <<x, a[x][i]>> \in Edges(a)
  <1>1. \A x \in Roles : DOMAIN a[x] = 1 .. Len(a[x]) /\ \A i \in 1 .. Len(a[x]) : a[x][i] \in Roles
    BY DEF Graphs
  <1>2. \A p \in Pairs : p[1] \in Roles /\ p[2] \in Roles /\ p = <<p[1], p[2]>>
    BY DEF Pairs
  <1>3. \A x, y \in Roles : <<x, y>> \in Pairs /\ <<x, y>>[1] = x /\ <<x, y>>[2] = y
    BY DEF Pairs
  <1>4. \A p \in Edges(a) : \E i \in 1 .. Len(a[p[1]]) : a[p[1]][i] = p[2]
    BY Zenon, <1>1, <1>2 DEF Edges, Range
  <1>5. \A x \in Roles : \A i \in 1 .. Len(a[x]) : <<x, a[x][i]>> \in Edges(a)
    BY Zenon, <1>1, <1>3 DEF Edges, Range
  <1> QED
    BY Zenon, <1>1, <1>2, <1>4, <1>5 DEF Edges

(* An inheritance added to the adjacency lists is an edge more.             *)
LEMMA AddEdgeAdds ==
  ASSUME NEW a \in Graphs, NEW p \in Pairs
  PROVE  AddEdge(a, p) \in Graphs /\ Edges(AddEdge(a, p)) = Edges(a) \cup {p}
  <1> DEFINE b == AddEdge(a, p)
  <1>1. p[1] \in Roles /\ p[2] \in Roles /\ p = <<p[1], p[2]>>
    BY DEF Pairs
  <1>2. b \in Graphs
    BY <1>1 DEF AddEdge, Graphs
  <1>3. \A x \in Roles : Range(b[x]) = IF x = p[1] THEN Range(a[x]) \cup {p[2]} ELSE Range(a[x])
    <2> TAKE x \in Roles
    <2>1. a[x] \in Seq(Roles) /\ b[x] = IF x = p[1] THEN Append(a[x], p[2]) ELSE a[x]
      BY <1>1 DEF AddEdge, Graphs
    <2>2. Range(Append(a[x], p[2])) = Range(a[x]) \cup {p[2]}
      <3> DEFINE s == a[x]  t == Append(s, p[2])  n == Len(s) + 1
      <3>1. /\ DOMAIN t = DOMAIN s \cup {n}
            /\ t[n] = p[2] /\ \A i \in DOMAIN s : t[i] = s[i]
        BY <1>1, <2>1
      <3> HIDE DEF s, t, n
      <3>2. \A y \in Range(t) : y \in Range(s) \/ y = p[2]
        BY Zenon, <3>1 DEF Range
      <3>3. \A y \in Range(s) : y \in Range(t)
        BY Zenon, <3>1 DEF Range
      <3>4. p[2] \in Range(t)
        BY Zenon, <3>1 DEF Range
      <3>5. Range(t) = Range(s) \cup {p[2]}
        BY Zenon, <3>2, <3>3, <3>4
      <3> QED
        BY Zenon, <3>5 DEF s, t
    <2> QED
      BY Zenon, <2>1, <2>2
  <1> HIDE DEF b
  <1>4. \A q \in Pairs : q[1] \in Roles /\ q[2] \in Roles /\ q = <<q[1], q[2]>>
    BY DEF Pairs
  <1>5. \A q \in Pairs : q = p <=> q[1] = p[1] /\ q[2] = p[2]
    BY Zenon, <1>1, <1>4
  <1>6. \A q \in Pairs : q \in Edges(b) <=> q \in Edges(a) \/ q = p
    BY Zenon, <1>3, <1>4, <1>5 DEF Edges
  <1>7. Edges(b) \subseteq Pairs /\ Edges(a) \subseteq Pairs
    BY Zenon DEF Edges
  <1>8. Edges(b) = Edges(a) \cup {p}
    BY Zenon, <1>6, <1>7
  <1> QED
    BY Zenon, <1>2, <1>8 DEF b

(* An empty graph has no edge.                                              *)
LEMMA NoEdgesNone ==
  NoEdges \in Graphs /\ Edges(NoEdges) = {}
  <1>1. NoEdges \in Graphs /\ \A x \in Roles : DOMAIN NoEdges[x] = {}
    BY DEF NoEdges, Graphs
  <1>2. \A p \in Pairs : p[1] \in Roles
    BY DEF Pairs
  <1> QED
    BY Zenon, <1>1, <1>2 DEF Edges, Range

(* The adjacency lists validateRoleInheritances builds hold the list.       *)
LEMMA EdgesOfList ==
  ASSUME NEW list \in Seq(Pairs)
  PROVE  EdgesOf(list) \in Graphs /\ Edges(EdgesOf(list)) = Range(list)
  <1> DEFINE t == EdgesOf(list)
             N == Len(list)
             Eq(g) == g = [i \in 0 .. N |-> IF i = 0 THEN NoEdges ELSE AddEdge(g[i - 1], list[i])]
             edges == CHOOSE g : Eq(g)
             step == [i \in 1 .. N |-> [a \in Graphs |-> AddEdge(a, list[i])]]
             Good(a, n) == a \in Graphs /\ Edges(a) = {list[i] : i \in 1 .. n}
  <1>0. N \in Nat /\ DOMAIN list = 1 .. N /\ \A n \in 1 .. N : list[n] \in Pairs
    OBVIOUS
  <1>1. t = edges[N]
    BY Zenon DEF EdgesOf
  <1> HIDE DEF t, N
  <1>2. NoEdges \in Graphs /\ Edges(NoEdges) = {}
    BY Zenon, NoEdgesNone
  <1>3. step \in [1 .. N -> [Graphs -> Graphs]]
    BY Zenon, <1>0, AddEdgeAdds
  <1>4. \E g : Eq(g)
    <2>1. PICK g : /\ g \in [0 .. N -> Graphs] /\ g[0] = NoEdges
                   /\ \A n \in 1 .. N : g[n] = step[n][g[n - 1]]
      <3> HIDE DEF step
      <3>1. \E g : Loop(g, Graphs, NoEdges, N, step)
        BY Zenon, <1>0, <1>2, <1>3, Recursion
      <3> QED
        BY Zenon, <3>1 DEF Loop
    <2>2. \A n \in 1 .. N : g[n] = AddEdge(g[n - 1], list[n])
      <3> TAKE n \in 1 .. N
      <3>1. n - 1 \in 0 .. N
        BY <1>0
      <3> QED
        BY Zenon, <2>1, <3>1
    <2>3. \A n \in 0 .. N : n = 0 \/ n \in 1 .. N
      BY <1>0
    <2>4. Eq(g)
      BY Zenon, <2>1, <2>2, <2>3
    <2> QED
      BY Zenon, <2>4
  <1>5. Eq(edges)
    <2> HIDE DEF Eq
    <2> QED
      BY Zenon, <1>4
  <1> HIDE DEF edges
  <1> DEFINE S == {n \in 0 .. N : Good(edges[n], n)}
  <1>7. 0 \in S
    <2>1. 0 \in 0 .. N /\ 1 .. 0 = {}
      BY <1>0
    <2> QED
      BY Zenon, <1>2, <1>5, <2>1
  <1>8. ASSUME NEW n \in S, n < N PROVE n + 1 \in S
    <2>1. /\ n + 1 \in 0 .. N /\ n + 1 # 0 /\ (n + 1) - 1 = n /\ n + 1 \in 1 .. N
          /\ 1 .. (n + 1) = (1 .. n) \cup {n + 1}
      BY <1>0, <1>8
    <2>2. edges[n + 1] = AddEdge(edges[n], list[n + 1])
      BY Zenon, <1>5, <2>1
    <2>3. edges[n + 1] \in Graphs /\ Edges(edges[n + 1]) = Edges(edges[n]) \cup {list[n + 1]}
      <3>1. edges[n] \in Graphs /\ list[n + 1] \in Pairs
        BY Zenon, <1>0, <1>8, <2>1
      <3> QED
        BY Zenon, <2>2, <3>1, AddEdgeAdds
    <2>4. {list[i] : i \in 1 .. (n + 1)} = {list[i] : i \in 1 .. n} \cup {list[n + 1]}
      BY Zenon, <2>1
    <2> QED
      BY Zenon, <1>8, <2>1, <2>3, <2>4
  <1>9. N \in S
    <2>1. S \in SUBSET (0 .. N)
      BY Zenon
    <2> HIDE DEF S
    <2> QED
      BY Zenon, <1>0, <1>7, <1>8, <2>1, UpTo
  <1> QED
    BY Zenon, <1>0, <1>1, <1>9 DEF t, Range

(* A search that has met one role more has fewer to meet.                   *)
LEMMA Fewer ==
  ASSUME NEW V \in SUBSET Roles, NEW W \in SUBSET Roles, V \subseteq W, NEW x \in W, x \notin V
  PROVE  /\ Cardinality(Roles \ V) \in Nat /\ Cardinality(Roles \ W) \in Nat
         /\ Cardinality(Roles \ W) < Cardinality(Roles \ V)
  <1> DEFINE A == Roles \ V  B == A \ {x}  C == Roles \ W
  <1>1. IsFiniteSet(A) /\ x \in A /\ C \subseteq B
    BY Zenon, RolesAssumption, FS_Subset
  <1> HIDE DEF A, C
  <1>2. IsFiniteSet(B) /\ Cardinality(B) = Cardinality(A) - 1
    BY Zenon, <1>1, FS_RemoveElement
  <1> HIDE DEF B
  <1>3. Cardinality(C) <= Cardinality(B)
    BY Zenon, <1>1, <1>2, FS_Subset
  <1>4. IsFiniteSet(C) /\ Cardinality(A) \in Nat /\ Cardinality(C) \in Nat
    BY Zenon, <1>1, <1>2, FS_Subset, FS_CardinalityType
  <1> QED
    BY <1>2, <1>3, <1>4 DEF A, C

(* So that a search one level deeper is deep enough.                        *)
LEMMA OneLess ==
  ASSUME NEW V \in SUBSET Roles, NEW W \in SUBSET Roles, V \subseteq W,
         NEW x \in W, x \notin V, NEW d \in Nat, Cardinality(Roles \ V) <= d + 1
  PROVE  Cardinality(Roles \ W) <= d
  <1>1. /\ Cardinality(Roles \ V) \in Nat /\ Cardinality(Roles \ W) \in Nat
        /\ Cardinality(Roles \ W) < Cardinality(Roles \ V)
    BY Zenon, Fewer
  <1> QED
    BY <1>1

(* A search about to enter a role has at least that one left to meet.       *)
LEMMA SomeLeft ==
  ASSUME NEW V, NEW x \in Roles, x \notin V
  PROVE  ~(Cardinality(Roles \ V) <= 0)
  <1> DEFINE A == Roles \ V
  <1>1. IsFiniteSet(A) /\ A # {}
    BY Zenon, RolesAssumption, FS_Subset
  <1> HIDE DEF A
  <1>2. Cardinality(A) \in Nat /\ Cardinality(A) # 0
    BY Zenon, <1>1, FS_CardinalityType, FS_EmptySet
  <1> QED
    BY <1>2 DEF A

-----------------------------------------------------------------------------
(* dfsCollect.                                                              *)

Collectors == [Roles -> [SUBSET Roles -> SUBSET Roles]]

(* What dfsCollect leaves in visited: what was there, the node, and of the  *)
(* rest only roles below the node, each with its children.                  *)
Collecting(a, node, visited, result) ==
  /\ result \in SUBSET Roles
  /\ visited \cup {node} \subseteq result
  /\ \A x \in result \ visited : x = node \/ x \in Below(Edges(a), node)
  /\ \A p \in Edges(a) : p[1] \in result \ visited => p[2] \in result

(* f does so where no more than d roles have not been visited.              *)
Collects(a, d, f) ==
  /\ f \in Collectors
  /\ \A node \in Roles : \A visited \in SUBSET Roles :
        node \notin visited /\ Cardinality(Roles \ visited) <= d
          => Collecting(a, node, visited, f[node][visited])

(* The loop of dfsCollect over the children.                                *)
CollectLoop(s, a, node, visited, f) ==
  /\ s \in [0 .. Len(a[node]) -> SUBSET Roles]
  /\ s[0] = visited \cup {node}
  /\ \A n \in 1 .. Len(a[node]) : s[n] = Follow(a[node][n], s[n - 1], f)
  /\ Collected(a, node, visited, f) = s[Len(a[node])]

(* dfsCollect goes through all children of a role.                          *)
LEMMA CollectedLoop ==
  ASSUME NEW a \in Graphs, NEW node \in Roles, NEW visited \in SUBSET Roles, NEW f \in Collectors
  PROVE  \E s : CollectLoop(s, a, node, visited, f)
  <1> DEFINE N == Len(a[node])
             X == SUBSET Roles
             base == visited \cup {node}
             Eq(g) == g = [i \in 0 .. N |-> IF i = 0 THEN base ELSE Follow(a[node][i], g[i - 1], f)]
             seen == CHOOSE g : Eq(g)
             step == [i \in 1 .. N |-> [s \in X |-> Follow(a[node][i], s, f)]]
  <1>0. N \in Nat /\ base \in X /\ \A n \in 1 .. N : a[node][n] \in Roles
    BY DEF Graphs
  <1>1. Collected(a, node, visited, f) = seen[N]
    BY Zenon DEF Collected
  <1>3. step \in [1 .. N -> [X -> X]]
    <2>1. \A next \in Roles : \A s \in X : Follow(next, s, f) \in X
      BY Zenon DEF Follow, Collectors
    <2> QED
      BY Zenon, <1>0, <2>1
  <1> HIDE DEF N, X, base
  <1>4. PICK g : /\ g \in [0 .. N -> X] /\ g[0] = base
                 /\ \A n \in 1 .. N : g[n] = step[n][g[n - 1]]
    <2> HIDE DEF step
    <2>1. \E g : Loop(g, X, base, N, step)
      BY Zenon, <1>0, <1>3, Recursion
    <2> QED
      BY Zenon, <2>1 DEF Loop
  <1>5. \A n \in 1 .. N : n - 1 \in 0 .. N /\ n \in 0 .. N /\ n # 0
    BY <1>0
  <1>6. \A n \in 1 .. N : g[n] = Follow(a[node][n], g[n - 1], f)
    BY Zenon, <1>4, <1>5
  <1>7. 0 \in 0 .. N /\ \A n \in 0 .. N : n = 0 \/ n \in 1 .. N
    BY <1>0
  <1>8. Eq(g)
    BY Zenon, <1>4, <1>6, <1>7
  <1>9. Eq(seen)
    <2> HIDE DEF Eq
    <2> QED
      BY Zenon, <1>8
  <1> HIDE DEF seen
  <1>10. /\ seen = [n \in 0 .. N |-> seen[n]] /\ seen[0] = base
         /\ \A n \in 1 .. N : seen[n - 1] \in X => seen[n] = step[n][seen[n - 1]]
    BY Zenon, <1>5, <1>7, <1>9
  <1>11. Loop(seen, X, base, N, step)
    <2> HIDE DEF step
    <2> QED
      BY Zenon, <1>0, <1>3, <1>10, IsLoop
  <1>12. /\ seen \in [0 .. N -> X] /\ seen[0] = base
         /\ \A n \in 1 .. N : seen[n] = Follow(a[node][n], seen[n - 1], f)
    BY Zenon, <1>5, <1>11 DEF Loop
  <1> QED
    BY Zenon, <1>1, <1>12 DEF CollectLoop, N, X, base

(* The body of dfsCollect, when the calls it makes do what they should.     *)
LEMMA CollectsOnce ==
  ASSUME NEW a \in Graphs, NEW d \in Nat, NEW f, Collects(a, d, f),
         NEW node \in Roles, NEW visited \in SUBSET Roles,
         node \notin visited, Cardinality(Roles \ visited) <= d + 1
  PROVE  Collecting(a, node, visited, Collected(a, node, visited, f))
  <1> DEFINE E == Edges(a)
             N == Len(a[node])
             Good(W, n) == /\ W \in SUBSET Roles /\ visited \cup {node} \subseteq W
                           /\ \A x \in W \ visited : x = node \/ x \in Below(E, node)
                           /\ \A p \in E : p[1] \in W \ visited /\ p[1] # node => p[2] \in W
                           /\ \A i \in 1 .. n : a[node][i] \in W
  <1>1. f \in Collectors
    BY Zenon DEF Collects
  <1>2. PICK s : CollectLoop(s, a, node, visited, f)
    BY Zenon, <1>1, CollectedLoop
  <1>3. N \in Nat /\ \A n \in 1 .. N : a[node][n] \in Roles /\ <<node, a[node][n]>> \in E
    <2>1. N \in Nat
      BY DEF Graphs
    <2> QED
      BY Zenon, <2>1, EdgeIsListed
  <1>4. /\ s[0] = visited \cup {node} /\ Collected(a, node, visited, f) = s[N]
        /\ \A n \in 1 .. N : s[n] = Follow(a[node][n], s[n - 1], f)
    BY Zenon, <1>2 DEF CollectLoop
  <1> HIDE DEF N
  <1> DEFINE S == {n \in 0 .. N : Good(s[n], n)}
  <1>5. 0 \in S
    <2>1. 0 \in 0 .. N /\ \A i \in 1 .. 0 : FALSE
      BY <1>3
    <2>2. Good(visited \cup {node}, 0)
      BY Zenon, <2>1
    <2> QED
      BY Zenon, <1>4, <2>1, <2>2
  <1>6. ASSUME NEW n \in S, n < N PROVE n + 1 \in S
    <2> DEFINE next == a[node][n + 1]  W == s[n]
    <2>1. n + 1 \in 1 .. N /\ (n + 1) - 1 = n /\ n + 1 \in 0 .. N /\ \A i \in 1 .. (n + 1) : i \in 1 .. n \/ i = n + 1
      BY <1>3, <1>6
    <2>2. s[n + 1] = Follow(next, W, f) /\ next \in Roles /\ <<node, next>> \in E
      BY Zenon, <1>3, <1>4, <2>1
    <2>3. Good(W, n)
      BY Zenon, <1>6
    <2> HIDE DEF next, W
    <2>4. next \in Below(E, node)
      BY Zenon, <2>2, BelowEdge
    <2>5. ASSUME next \in W PROVE Good(W, n + 1)
      BY Zenon, <2>1, <2>3, <2>5 DEF next
    <2>6. ASSUME next \notin W PROVE Good(f[next][W], n + 1)
      <3> DEFINE Z == f[next][W]
      <3>1. Cardinality(Roles \ W) <= d
        BY Zenon, <2>3, OneLess
      <3>2. Collecting(a, next, W, Z)
        BY Zenon, <2>2, <2>3, <2>6, <3>1 DEF Collects
      <3> HIDE DEF Z
      <3>3. Z \in SUBSET Roles /\ W \cup {next} \subseteq Z
        BY Zenon, <3>2 DEF Collecting
      <3>4. \A x \in Z \ visited : x = node \/ x \in Below(E, node)
        BY Zenon, <2>3, <2>4, <3>2, BelowBelow DEF Collecting
      <3>5. \A p \in E : p[1] \in Z \ visited /\ p[1] # node => p[2] \in Z
        BY Zenon, <2>3, <3>2, <3>3 DEF Collecting
      <3>6. \A i \in 1 .. (n + 1) : a[node][i] \in Z
        BY Zenon, <2>1, <2>3, <3>3 DEF next
      <3>7. Good(Z, n + 1)
        BY Zenon, <2>3, <3>3, <3>4, <3>5, <3>6
      <3> QED
        BY Zenon, <3>7 DEF Z
    <2>7. Good(s[n + 1], n + 1)
      <3> HIDE DEF Good
      <3> QED
        BY Zenon, <2>2, <2>5, <2>6 DEF Follow
    <2> QED
      BY Zenon, <2>1, <2>7
  <1>7. N \in S
    <2>1. S \in SUBSET (0 .. N)
      BY Zenon
    <2> HIDE DEF S
    <2> QED
      BY Zenon, <1>3, <1>5, <1>6, <2>1, UpTo
  <1>8. Good(s[N], N)
    BY Zenon, <1>7
  <1>9. \A p \in E : p[1] = node => p[2] \in s[N]
    <2>1. \A p \in E : \E i \in 1 .. Len(a[p[1]]) : a[p[1]][i] = p[2]
      BY Zenon, EdgeIsListed
    <2> QED
      BY Zenon, <1>8, <2>1 DEF N
  <1> QED
    BY Zenon, <1>4, <1>8, <1>9 DEF Collecting

(* The searches are given a depth that is enough.                           *)
LEMMA DepthSuffices ==
  Depth \in Nat /\ Cardinality(Roles) \in Nat /\ Depth = Cardinality(Roles) + 1
  <1>1. Cardinality(Roles) \in Nat
    BY Zenon, RolesAssumption, FS_CardinalityType
  <1> QED
    BY <1>1 DEF Depth

(* dfsCollect, to any depth.                                                *)
LEMMA CollectCollects ==
  ASSUME NEW a \in Graphs
  PROVE  Collects(a, Depth, Collect(a))
  <1> DEFINE N == Depth
             X == Collectors
             Stop == [node \in Roles |-> [visited \in SUBSET Roles |-> visited]]
             Call(f) == [node \in Roles |-> [visited \in SUBSET Roles |-> Collected(a, node, visited, f)]]
             At(d, f) == [node \in Roles |-> [visited \in SUBSET Roles |->
                            IF d = 0 THEN visited ELSE Collected(a, node, visited, f)]]
             Eq(g) == g = [d \in 0 .. N |-> At(d, g[d - 1])]
             collect == CHOOSE g : Eq(g)
             step == [d \in 1 .. N |-> [f \in X |-> Call(f)]]
  <1>0. N \in Nat
    BY Zenon, DepthSuffices
  <1>1. Collect(a) = collect[N]
    BY Zenon DEF Collect
  <1>2. Stop \in X
    BY Zenon DEF Collectors
  <1>3. \A f \in X : Call(f) \in X
    <2>1. \A f \in X : \A node \in Roles : \A visited \in SUBSET Roles : Collected(a, node, visited, f) \in SUBSET Roles
      <3> TAKE f \in X
      <3> TAKE node \in Roles
      <3> TAKE visited \in SUBSET Roles
      <3>1. PICK s : CollectLoop(s, a, node, visited, f)
        BY Zenon, CollectedLoop
      <3>2. Len(a[node]) \in 0 .. Len(a[node])
        BY DEF Graphs
      <3> QED
        BY Zenon, <3>1, <3>2 DEF CollectLoop
    <2> QED
      BY Zenon, <2>1 DEF Collectors
  <1> HIDE DEF N, X
  <1>4. step \in [1 .. N -> [X -> X]]
    <2> HIDE DEF Call
    <2> QED
      BY Zenon, <1>3
  <1>5. PICK g : g \in [0 .. N -> X] /\ g[0] = Stop /\ \A d \in 1 .. N : g[d] = step[d][g[d - 1]]
    <2> HIDE DEF step, Stop
    <2>1. \E g : Loop(g, X, Stop, N, step)
      BY Zenon, <1>0, <1>2, <1>4, Recursion
    <2> QED
      BY Zenon, <2>1 DEF Loop
  <1>6. 0 \in 0 .. N /\ \A d \in 1 .. N : d - 1 \in 0 .. N /\ d \in 0 .. N /\ d # 0
    BY <1>0
  <1>7. \A d \in 0 .. N : d = 0 \/ d \in 1 .. N
    BY <1>0
  <1>8. \A f : At(0, f) = Stop /\ \A d \in 1 .. N : At(d, f) = Call(f)
    BY Zenon, <1>6
  <1> HIDE DEF At, Stop
  <1>9. Eq(g)
    <2> HIDE DEF Call
    <2>1. \A d \in 1 .. N : g[d] = Call(g[d - 1])
      BY Zenon, <1>5, <1>6
    <2>2. \A d \in 0 .. N : g[d] = At(d, g[d - 1])
      BY Zenon, <1>5, <1>7, <1>8, <2>1
    <2> QED
      BY Zenon, <1>5, <2>2
  <1>10. Eq(collect)
    <2> HIDE DEF Eq
    <2> QED
      BY Zenon, <1>9
  <1> HIDE DEF collect
  <1>11. collect[0] = Stop /\ \A d \in 1 .. N : collect[d] = Call(collect[d - 1])
    <2> HIDE DEF Call
    <2>1. \A d \in 0 .. N : collect[d] = At(d, collect[d - 1])
      BY Zenon, <1>10
    <2> QED
      BY Zenon, <1>6, <1>8, <2>1
  <1> DEFINE S == {d \in 0 .. N : Collects(a, d, collect[d])}
  <1>12. 0 \in S
    <2>1. \A node \in Roles : \A visited \in SUBSET Roles :
             ~(node \notin visited /\ Cardinality(Roles \ visited) <= 0)
      BY Zenon, SomeLeft
    <2>2. Collects(a, 0, Stop)
      BY Zenon, <1>2, <2>1 DEF Collects, X
    <2> QED
      BY Zenon, <1>6, <1>11, <2>2
  <1>13. ASSUME NEW d \in S, d < N PROVE d + 1 \in S
    <2> DEFINE f == collect[d]
    <2>1. d \in Nat /\ d + 1 \in 1 .. N /\ (d + 1) - 1 = d /\ d + 1 \in 0 .. N
      BY <1>0, <1>13
    <2>2. Collects(a, d, f) /\ collect[d + 1] = Call(f)
      <3> HIDE DEF Call
      <3>1. collect[d + 1] = Call(collect[(d + 1) - 1])
        BY Zenon, <1>11, <2>1
      <3> QED
        BY Zenon, <1>13, <2>1, <3>1
    <2> HIDE DEF f
    <2>3. f \in X
      BY Zenon, <2>2 DEF Collects, X
    <2>4. Call(f) \in Collectors
      BY Zenon, <1>3, <2>3 DEF X
    <2>5. ASSUME NEW node \in Roles, NEW visited \in SUBSET Roles,
                 node \notin visited, Cardinality(Roles \ visited) <= d + 1
          PROVE  Collecting(a, node, visited, Call(f)[node][visited])
      <3>1. Collecting(a, node, visited, Collected(a, node, visited, f))
        BY Zenon, <2>1, <2>2, <2>5, CollectsOnce
      <3> QED
        BY Zenon, <3>1
    <2>6. Collects(a, d + 1, Call(f))
      <3> HIDE DEF Call
      <3> QED
        BY Zenon, <2>4, <2>5 DEF Collects
    <2> QED
      BY Zenon, <2>1, <2>2, <2>6
  <1>14. N \in S
    <2>1. S \in SUBSET (0 .. N)
      BY Zenon
    <2> HIDE DEF S
    <2> QED
      BY Zenon, <1>0, <1>12, <1>13, <2>1, UpTo
  <1> QED
    BY Zenon, <1>1, <1>14 DEF N

(* rebuildTransitiveClosure computes reachability.                          *)
LEMMA ClosureReaches ==
  ASSUME NEW a \in Graphs, NEW r \in Roles
  PROVE  /\ RebuildTransitiveClosure(a)[r] \in SUBSET Roles
         /\ {r} \cup RebuildTransitiveClosure(a)[r] = {r} \cup Below(Edges(a), r)
  <1> DEFINE W == Collect(a)[r][{}]  E == Edges(a)
  <1>1. CASE r \in Parents(a)
    <2>1. Cardinality(Roles \ {}) <= Depth
      <3>1. Roles \ {} = Roles
        BY Zenon
      <3> QED
        BY <3>1, DepthSuffices
    <2>2. Collecting(a, r, {}, W)
      BY Zenon, <2>1, CollectCollects DEF Collects
    <2>3. RebuildTransitiveClosure(a)[r] = W \ {r}
      BY Zenon, <1>1 DEF RebuildTransitiveClosure
    <2> HIDE DEF W
    <2>4. \A p \in E : p[1] \in W \cup {r} => p[2] \in W
      BY Zenon, <2>2 DEF Collecting
    <2>5. W \in SUBSET Roles /\ r \in W /\ \A x \in W : x = r \/ x \in Below(E, r)
      BY Zenon, <2>2 DEF Collecting
    <2>6. Below(E, r) \subseteq W
      BY Zenon, <2>4, <2>5, BelowIn
    <2> QED
      BY Zenon, <2>3, <2>5, <2>6
  <1>2. CASE r \notin Parents(a)
    <2>1. RebuildTransitiveClosure(a)[r] = {}
      BY Zenon, <1>2 DEF RebuildTransitiveClosure
    <2>2. \A i \in 1 .. Len(a[r]) : FALSE
      BY <1>2 DEF Parents
    <2>3. \A p \in E : p[1] # r
      BY Zenon, <2>2, EdgeIsListed
    <2>4. Below(E, r) \subseteq {}
      <3> DEFINE none == {}
      <3>1. none \in SUBSET Roles /\ \A p \in E : p[1] \in none \cup {r} => p[2] \in none
        BY Zenon, <2>3
      <3> HIDE DEF none, E
      <3>2. Below(E, r) \subseteq none
        BY Zenon, <3>1, BelowIn
      <3> QED
        BY Zenon, <3>2 DEF none
    <2> QED
      BY Zenon, <2>1, <2>4
  <1> QED
    BY Zenon, <1>1, <1>2

-----------------------------------------------------------------------------
(* hasCycle.                                                                *)

Founds == [cycle : BOOLEAN, colour : Colours]
Searches == [Roles -> [Colours -> Founds]]

With(colour, c) == {x \in Roles : colour[x] = c}

Met(colour) == {x \in Roles : colour[x] # "white"}

(* How dfs is called: for a white node, which the gray ones, those on the   *)
(* path to it, are above, when the black ones are settled.                  *)
Called(E, node, colour) ==
  /\ colour \in Colours
  /\ colour[node] = "white"
  /\ \A g \in With(colour, "gray") : node \in Below(E, g)
  /\ Settled(E, With(colour, "black"))

(* What it returns: a cycle only where there is one; otherwise the node is  *)
(* black and settled with the others, and the path is what it was.          *)
Finds(E, node, colour, found) ==
  /\ found \in Founds
  /\ found.cycle => ~Acyclic(E)
  /\ ~found.cycle =>
       /\ With(found.colour, "gray") = With(colour, "gray")
       /\ With(colour, "black") \cup {node} \subseteq With(found.colour, "black")
       /\ Settled(E, With(found.colour, "black"))

(* f does so where no more than d roles are white.                          *)
Searching(a, d, f) ==
  /\ f \in Searches
  /\ \A node \in Roles : \A colour \in Colours :
        Called(Edges(a), node, colour) /\ Cardinality(Roles \ Met(colour)) <= d
          => Finds(Edges(a), node, colour, f[node][colour])

(* Every role has one of three colours.                                     *)
LEMMA ThreeColours ==
  ASSUME NEW colour \in Colours, NEW x \in Roles
  PROVE  /\ colour[x] \in {"white", "gray", "black"}
         /\ x \in With(colour, "gray") <=> colour[x] = "gray"
         /\ x \in With(colour, "black") <=> colour[x] = "black"
         /\ x \in Met(colour) <=> x \in With(colour, "gray") \/ x \in With(colour, "black")
         /\ ~(x \in With(colour, "gray") /\ x \in With(colour, "black"))
  BY DEF Colours, With, Met

(* What dfs changes when it paints a role gray or black.                    *)
LEMMA Painted ==
  ASSUME NEW colour \in Colours, NEW x \in Roles
  PROVE  /\ [colour EXCEPT ![x] = "gray"] \in Colours
         /\ [colour EXCEPT ![x] = "black"] \in Colours
         /\ With([colour EXCEPT ![x] = "gray"], "gray") = With(colour, "gray") \cup {x}
         /\ With([colour EXCEPT ![x] = "gray"], "black") = With(colour, "black") \ {x}
         /\ With([colour EXCEPT ![x] = "black"], "gray") = With(colour, "gray") \ {x}
         /\ With([colour EXCEPT ![x] = "black"], "black") = With(colour, "black") \cup {x}
  BY DEF Colours, With

(* The loop of dfs over the neighbours.                                     *)
MeetLoop(m, a, node, colour, f) ==
  /\ m \in [0 .. Len(a[node]) -> Founds]
  /\ m[0] = [cycle |-> FALSE, colour |-> [colour EXCEPT ![node] = "gray"]]
  /\ \A n \in 1 .. Len(a[node]) : m[n] = Meet(a[node][n], m[n - 1], f)
  /\ Neighbours(a, node, colour, f) =
        IF m[Len(a[node])].cycle THEN m[Len(a[node])]
        ELSE [m[Len(a[node])] EXCEPT !.colour[node] = "black"]

(* Meeting a neighbour gives a result again.                                *)
LEMMA MeetType ==
  ASSUME NEW next \in Roles, NEW found \in Founds, NEW f \in Searches
  PROVE  Meet(next, found, f) \in Founds
  <1>1. f[next][found.colour] \in Founds
    BY DEF Searches, Founds
  <1>2. [found EXCEPT !.cycle = found.colour[next] = "gray"] \in Founds
    BY DEF Founds
  <1> QED
    BY Zenon, <1>1, <1>2 DEF Meet

(* dfs goes through the neighbours of a node.                               *)
LEMMA NeighboursLoop ==
  ASSUME NEW a \in Graphs, NEW node \in Roles, NEW colour \in Colours, NEW f \in Searches
  PROVE  \E m : MeetLoop(m, a, node, colour, f)
  <1> DEFINE N == Len(a[node])
             X == Founds
             base == [cycle |-> FALSE, colour |-> [colour EXCEPT ![node] = "gray"]]
             Eq(g) == g = [i \in 0 .. N |-> IF i = 0 THEN base ELSE Meet(a[node][i], g[i - 1], f)]
             met == CHOOSE g : Eq(g)
             step == [i \in 1 .. N |-> [m \in X |-> Meet(a[node][i], m, f)]]
  <1>0. N \in Nat /\ \A n \in 1 .. N : a[node][n] \in Roles
    BY DEF Graphs
  <1>1. Neighbours(a, node, colour, f) = IF met[N].cycle THEN met[N] ELSE [met[N] EXCEPT !.colour[node] = "black"]
    BY Zenon DEF Neighbours
  <1>2. base \in X
    BY Painted DEF Founds
  <1>3. step \in [1 .. N -> [X -> X]]
    BY Zenon, <1>0, MeetType
  <1> HIDE DEF N, X, base
  <1>4. PICK g : /\ g \in [0 .. N -> X] /\ g[0] = base
                 /\ \A n \in 1 .. N : g[n] = step[n][g[n - 1]]
    <2> HIDE DEF step
    <2>1. \E g : Loop(g, X, base, N, step)
      BY Zenon, <1>0, <1>2, <1>3, Recursion
    <2> QED
      BY Zenon, <2>1 DEF Loop
  <1>5. \A n \in 1 .. N : n - 1 \in 0 .. N /\ n \in 0 .. N /\ n # 0
    BY <1>0
  <1>6. \A n \in 1 .. N : g[n] = Meet(a[node][n], g[n - 1], f)
    BY Zenon, <1>4, <1>5
  <1>7. 0 \in 0 .. N /\ \A n \in 0 .. N : n = 0 \/ n \in 1 .. N
    BY <1>0
  <1>8. Eq(g)
    BY Zenon, <1>4, <1>6, <1>7
  <1>9. Eq(met)
    <2> HIDE DEF Eq
    <2> QED
      BY Zenon, <1>8
  <1> HIDE DEF met
  <1>10. /\ met = [n \in 0 .. N |-> met[n]] /\ met[0] = base
         /\ \A n \in 1 .. N : met[n - 1] \in X => met[n] = step[n][met[n - 1]]
    BY Zenon, <1>5, <1>7, <1>9
  <1>11. Loop(met, X, base, N, step)
    <2> HIDE DEF step
    <2> QED
      BY Zenon, <1>0, <1>2, <1>3, <1>10, IsLoop
  <1>12. /\ met \in [0 .. N -> X] /\ met[0] = base
         /\ \A n \in 1 .. N : met[n] = Meet(a[node][n], met[n - 1], f)
    BY Zenon, <1>5, <1>11 DEF Loop
  <1> QED
    BY Zenon, <1>1, <1>12 DEF MeetLoop, N, X, base

(* The body of dfs, when the calls it makes do what they should.            *)
LEMMA FindsOnce ==
  ASSUME NEW a \in Graphs, NEW d \in Nat, NEW f, Searching(a, d, f),
         NEW node \in Roles, NEW colour \in Colours,
         Called(Edges(a), node, colour), Cardinality(Roles \ Met(colour)) <= d + 1
  PROVE  Finds(Edges(a), node, colour, Neighbours(a, node, colour, f))
  <1> DEFINE E == Edges(a)
             N == Len(a[node])
             gray == With(colour, "gray")
             black == With(colour, "black")
             Clear(c, n) == /\ With(c, "gray") = gray \cup {node}
                            /\ black \subseteq With(c, "black")
                            /\ Settled(E, With(c, "black"))
                            /\ \A i \in 1 .. n : a[node][i] \in With(c, "black")
             Good(m, n) == /\ m \in Founds
                           /\ m.cycle => ~Acyclic(E)
                           /\ ~m.cycle => Clear(m.colour, n)
  <1>1. f \in Searches
    BY Zenon DEF Searching
  <1>2. PICK m : MeetLoop(m, a, node, colour, f)
    BY Zenon, <1>1, NeighboursLoop
  <1>3. N \in Nat /\ \A n \in 1 .. N : a[node][n] \in Roles /\ <<node, a[node][n]>> \in E
    <2>1. N \in Nat
      BY DEF Graphs
    <2> QED
      BY Zenon, <2>1, EdgeIsListed
  <1>4. /\ m[0] = [cycle |-> FALSE, colour |-> [colour EXCEPT ![node] = "gray"]]
        /\ Neighbours(a, node, colour, f) =
              IF m[N].cycle THEN m[N] ELSE [m[N] EXCEPT !.colour[node] = "black"]
        /\ \A n \in 1 .. N : m[n] = Meet(a[node][n], m[n - 1], f)
    BY Zenon, <1>2 DEF MeetLoop
  <1>5. /\ node \notin gray /\ node \notin black
        /\ \A g \in gray : g \in Roles /\ node \in Below(E, g)
        /\ Settled(E, black)
    BY Zenon, ThreeColours DEF Called, With
  <1> HIDE DEF N, gray, black, E
  <1> DEFINE S == {n \in 0 .. N : Good(m[n], n)}
  <1>6. 0 \in S
    <2> DEFINE c == [colour EXCEPT ![node] = "gray"]
    <2>1. 0 \in 0 .. N /\ \A i \in 1 .. 0 : FALSE
      BY <1>3
    <2>2. c \in Colours /\ With(c, "gray") = gray \cup {node} /\ With(c, "black") = black \ {node}
      BY Zenon, Painted DEF gray, black
    <2> HIDE DEF c
    <2>3. black \ {node} = black
      BY Zenon, <1>5
    <2>4. Clear(c, 0)
      BY Zenon, <1>5, <2>1, <2>2, <2>3
    <2> HIDE DEF Clear
    <2>5. m[0] \in Founds /\ m[0].cycle = FALSE /\ m[0].colour = c
      BY <1>4, <2>2 DEF Founds, c
    <2>6. Good(m[0], 0)
      BY Zenon, <2>4, <2>5
    <2> QED
      BY Zenon, <2>1, <2>6
  <1>7. ASSUME NEW n \in S, n < N PROVE n + 1 \in S
    <2> DEFINE next == a[node][n + 1]  w == m[n]  c == w.colour
    <2>1. n + 1 \in 1 .. N /\ (n + 1) - 1 = n /\ n + 1 \in 0 .. N /\ \A i \in 1 .. (n + 1) : i \in 1 .. n \/ i = n + 1
      BY <1>3, <1>7
    <2>2. m[n + 1] = Meet(next, w, f) /\ next \in Roles /\ <<node, next>> \in E
      BY Zenon, <1>3, <1>4, <2>1
    <2>3. Good(w, n)
      BY Zenon, <1>7
    <2> HIDE DEF next, w
    <2>4. next \in Below(E, node)
      BY Zenon, <2>2, BelowEdge
    <2>5. w \in Founds /\ c \in Colours
      BY <2>3 DEF Founds
    <2> HIDE DEF c
    <2>6. CASE w.cycle
      <3> HIDE DEF Clear
      <3>1. m[n + 1] = w
        BY Zenon, <2>2, <2>6 DEF Meet
      <3>2. Good(w, n + 1)
        BY Zenon, <2>3, <2>6
      <3> QED
        BY Zenon, <2>1, <3>1, <3>2
    <2>7. CASE ~w.cycle /\ c[next] = "white"
      <3> DEFINE found == f[next][c]
      <3>1. m[n + 1] = found
        BY Zenon, <2>2, <2>7 DEF Meet, c
      <3>2. Clear(c, n)
        BY Zenon, <2>3, <2>7 DEF c
      <3>3. \A g \in With(c, "gray") : next \in Below(E, g)
        BY Zenon, <1>5, <2>4, <3>2, BelowBelow
      <3>4. Called(E, next, c)
        BY Zenon, <2>5, <2>7, <3>2, <3>3 DEF Called
      <3>5. Cardinality(Roles \ Met(c)) <= d
        <4>1. Met(colour) \in SUBSET Roles /\ Met(c) \in SUBSET Roles
          BY Zenon DEF Met
        <4>2. \A x \in Roles : x \in Met(colour) <=> x \in gray \/ x \in black
          BY Zenon, ThreeColours DEF gray, black
        <4>3. \A x \in Roles : x \in Met(c) <=> x \in With(c, "gray") \/ x \in With(c, "black")
          BY Zenon, <2>5, ThreeColours
        <4>4. Met(colour) \subseteq Met(c) /\ node \in Met(c) /\ node \notin Met(colour)
          BY Zenon, <1>5, <3>2, <4>1, <4>2, <4>3
        <4> QED
          BY Zenon, <4>1, <4>4, OneLess
      <3>6. Finds(E, next, c, found)
        BY Zenon, <2>2, <2>5, <3>4, <3>5 DEF Searching, E
      <3> HIDE DEF found
      <3>7. ASSUME ~found.cycle PROVE Clear(found.colour, n + 1)
        BY Zenon, <2>1, <3>2, <3>6, <3>7 DEF Finds, next
      <3>8. Good(found, n + 1)
        <4> HIDE DEF Clear
        <4> QED
          BY Zenon, <3>6, <3>7 DEF Finds
      <3> QED
        BY Zenon, <2>1, <3>1, <3>8
    <2>8. CASE ~w.cycle /\ c[next] # "white"
      <3> DEFINE found == [w EXCEPT !.cycle = w.colour[next] = "gray"]
      <3>1. m[n + 1] = found
        BY Zenon, <2>2, <2>8 DEF Meet, c
      <3>2. found \in Founds /\ found.cycle = (c[next] = "gray") /\ found.colour = c
        BY <2>5 DEF Founds, c
      <3> HIDE DEF found
      <3>3. Clear(c, n)
        BY Zenon, <2>3, <2>8 DEF c
      <3>4. ASSUME c[next] = "gray" PROVE ~Acyclic(E)
        <4>1. next \in gray \cup {node}
          BY Zenon, <2>2, <2>5, <3>3, <3>4, ThreeColours
        <4>2. next \in Below(E, next)
          BY Zenon, <1>5, <2>4, <4>1, BelowBelow
        <4> QED
          BY Zenon, <2>2, <4>2 DEF Acyclic
      <3>5. ASSUME c[next] # "gray" PROVE Clear(c, n + 1)
        <4>1. next \in With(c, "black")
          BY Zenon, <2>2, <2>5, <2>8, <3>5, ThreeColours
        <4> QED
          BY Zenon, <2>1, <3>3, <4>1 DEF next
      <3>6. Good(found, n + 1)
        <4> HIDE DEF Clear
        <4> QED
          BY Zenon, <3>2, <3>4, <3>5
      <3> QED
        BY Zenon, <2>1, <3>1, <3>6
    <2> QED
      BY Zenon, <2>6, <2>7, <2>8
  <1>8. N \in S
    <2>1. S \in SUBSET (0 .. N)
      BY Zenon
    <2> HIDE DEF S
    <2> QED
      BY Zenon, <1>3, <1>6, <1>7, <2>1, UpTo
  <1> DEFINE last == m[N]
  <1>9. Good(last, N)
    BY Zenon, <1>8
  <1> HIDE DEF last
  <1>10. CASE last.cycle
    BY Zenon, <1>4, <1>9, <1>10 DEF Finds, last, E
  <1>11. CASE ~last.cycle
    <2> DEFINE c == last.colour
               done == [c EXCEPT ![node] = "black"]
               found == [last EXCEPT !.colour[node] = "black"]
    <2>1. c \in Colours
      BY <1>9 DEF Founds
    <2>2. found.cycle = last.cycle /\ found.colour = done /\ found = [cycle |-> last.cycle, colour |-> done]
      BY <1>9 DEF Founds
    <2>3. Clear(c, N)
      BY Zenon, <1>9, <1>11
    <2> HIDE DEF c
    <2>4. /\ done \in Colours /\ With(done, "gray") = With(c, "gray") \ {node}
          /\ With(done, "black") = With(c, "black") \cup {node}
      BY Zenon, <2>1, Painted
    <2> HIDE DEF done, found
    <2>5. found \in Founds
      BY <1>9, <2>2, <2>4 DEF Founds
    <2>6. node \notin With(c, "black")
      BY Zenon, <2>1, <2>3, ThreeColours
    <2>7. \A p \in E : p[1] = node => p[2] \in With(c, "black")
      <3>1. \A p \in E : \E i \in 1 .. Len(a[p[1]]) : a[p[1]][i] = p[2]
        BY Zenon, EdgeIsListed DEF E
      <3> QED
        BY Zenon, <2>3, <3>1 DEF N
    <2>8. Settled(E, With(done, "black"))
      <3> DEFINE B == With(c, "black")
      <3>1. Settled(E, B) /\ node \notin B /\ \A p \in E : p[1] = node => p[2] \in B
        BY Zenon, <2>3, <2>6, <2>7
      <3> HIDE DEF B
      <3>2. Settled(E, B \cup {node})
        BY Zenon, <3>1, Settle
      <3> QED
        BY Zenon, <2>4, <3>2 DEF B
    <2>9. With(done, "gray") = gray
      BY Zenon, <1>5, <2>3, <2>4
    <2>10. Finds(E, node, colour, found)
      BY Zenon, <1>11, <2>2, <2>3, <2>4, <2>5, <2>8, <2>9 DEF Finds, gray, black
    <2>11. Neighbours(a, node, colour, f) = found
      BY Zenon, <1>4, <1>11 DEF last, found
    <2> QED
      BY Zenon, <2>10, <2>11 DEF E
  <1> QED
    BY Zenon, <1>10, <1>11

(* dfs, to any depth.                                                       *)
LEMMA DfsSearches ==
  ASSUME NEW a \in Graphs
  PROVE  Searching(a, Depth, Dfs(a))
  <1> DEFINE N == Depth
             X == Searches
             Stop == [node \in Roles |-> [colour \in Colours |-> [cycle |-> FALSE, colour |-> colour]]]
             Call(f) == [node \in Roles |-> [colour \in Colours |-> Neighbours(a, node, colour, f)]]
             At(d, f) == [node \in Roles |-> [colour \in Colours |->
                            IF d = 0 THEN [cycle |-> FALSE, colour |-> colour] ELSE Neighbours(a, node, colour, f)]]
             Eq(g) == g = [d \in 0 .. N |-> At(d, g[d - 1])]
             dfs == CHOOSE g : Eq(g)
             step == [d \in 1 .. N |-> [f \in X |-> Call(f)]]
  <1>0. N \in Nat
    BY Zenon, DepthSuffices
  <1>1. Dfs(a) = dfs[N]
    BY Zenon DEF Dfs
  <1>2. Stop \in X
    BY DEF Searches, Founds
  <1>3. \A f \in X : Call(f) \in X
    <2>1. \A f \in X : \A node \in Roles : \A colour \in Colours : Neighbours(a, node, colour, f) \in Founds
      <3> TAKE f \in X
      <3> TAKE node \in Roles
      <3> TAKE colour \in Colours
      <3>1. PICK s : MeetLoop(s, a, node, colour, f)
        BY Zenon, NeighboursLoop
      <3>2. Len(a[node]) \in 0 .. Len(a[node])
        BY DEF Graphs
      <3> DEFINE last == s[Len(a[node])]
      <3>3. /\ last \in Founds
            /\ Neighbours(a, node, colour, f) = IF last.cycle THEN last ELSE [last EXCEPT !.colour[node] = "black"]
        BY Zenon, <3>1, <3>2 DEF MeetLoop
      <3> HIDE DEF last
      <3>4. [last EXCEPT !.colour[node] = "black"] \in Founds
        BY <3>3 DEF Founds, Colours
      <3> QED
        BY Zenon, <3>3, <3>4
    <2> QED
      BY Zenon, <2>1 DEF Searches
  <1> HIDE DEF N, X
  <1>4. step \in [1 .. N -> [X -> X]]
    <2> HIDE DEF Call
    <2> QED
      BY Zenon, <1>3
  <1>5. PICK g : g \in [0 .. N -> X] /\ g[0] = Stop /\ \A d \in 1 .. N : g[d] = step[d][g[d - 1]]
    <2> HIDE DEF step, Stop
    <2>1. \E g : Loop(g, X, Stop, N, step)
      BY Zenon, <1>0, <1>2, <1>4, Recursion
    <2> QED
      BY Zenon, <2>1 DEF Loop
  <1>6. 0 \in 0 .. N /\ \A d \in 1 .. N : d - 1 \in 0 .. N /\ d \in 0 .. N /\ d # 0
    BY <1>0
  <1>7. \A d \in 0 .. N : d = 0 \/ d \in 1 .. N
    BY <1>0
  <1>8. \A f : At(0, f) = Stop /\ \A d \in 1 .. N : At(d, f) = Call(f)
    BY Zenon, <1>6
  <1> HIDE DEF At, Stop
  <1>9. Eq(g)
    <2> HIDE DEF Call
    <2>1. \A d \in 1 .. N : g[d] = Call(g[d - 1])
      BY Zenon, <1>5, <1>6
    <2>2. \A d \in 0 .. N : g[d] = At(d, g[d - 1])
      BY Zenon, <1>5, <1>7, <1>8, <2>1
    <2> QED
      BY Zenon, <1>5, <2>2
  <1>10. Eq(dfs)
    <2> HIDE DEF Eq
    <2> QED
      BY Zenon, <1>9
  <1> HIDE DEF dfs
  <1>11. dfs[0] = Stop /\ \A d \in 1 .. N : dfs[d] = Call(dfs[d - 1])
    <2> HIDE DEF Call
    <2>1. \A d \in 0 .. N : dfs[d] = At(d, dfs[d - 1])
      BY Zenon, <1>10
    <2> QED
      BY Zenon, <1>6, <1>8, <2>1
  <1> DEFINE S == {d \in 0 .. N : Searching(a, d, dfs[d])}
  <1>12. 0 \in S
    <2>1. \A node \in Roles : \A colour \in Colours :
             ~(Called(Edges(a), node, colour) /\ Cardinality(Roles \ Met(colour)) <= 0)
      BY Zenon, SomeLeft DEF Called, Met
    <2>2. Searching(a, 0, Stop)
      BY Zenon, <1>2, <2>1 DEF Searching, X
    <2> QED
      BY Zenon, <1>6, <1>11, <2>2
  <1>13. ASSUME NEW d \in S, d < N PROVE d + 1 \in S
    <2> DEFINE f == dfs[d]
    <2>1. d \in Nat /\ d + 1 \in 1 .. N /\ (d + 1) - 1 = d /\ d + 1 \in 0 .. N
      BY <1>0, <1>13
    <2>2. Searching(a, d, f) /\ dfs[d + 1] = Call(f)
      <3> HIDE DEF Call
      <3>1. dfs[d + 1] = Call(dfs[(d + 1) - 1])
        BY Zenon, <1>11, <2>1
      <3> QED
        BY Zenon, <1>13, <2>1, <3>1
    <2> HIDE DEF f
    <2>3. f \in X
      BY Zenon, <2>2 DEF Searching, X
    <2>4. Call(f) \in Searches
      BY Zenon, <1>3, <2>3 DEF X
    <2>5. ASSUME NEW node \in Roles, NEW colour \in Colours,
                 Called(Edges(a), node, colour), Cardinality(Roles \ Met(colour)) <= d + 1
          PROVE  Finds(Edges(a), node, colour, Call(f)[node][colour])
      <3>1. Finds(Edges(a), node, colour, Neighbours(a, node, colour, f))
        BY Zenon, <2>1, <2>2, <2>5, FindsOnce
      <3> QED
        BY Zenon, <3>1
    <2>6. Searching(a, d + 1, Call(f))
      <3> HIDE DEF Call
      <3> QED
        BY Zenon, <2>4, <2>5 DEF Searching
    <2> QED
      BY Zenon, <2>1, <2>2, <2>6
  <1>14. N \in S
    <2>1. S \in SUBSET (0 .. N)
      BY Zenon
    <2> HIDE DEF S
    <2> QED
      BY Zenon, <1>0, <1>12, <1>13, <2>1, UpTo
  <1> QED
    BY Zenon, <1>1, <1>14 DEF N

(* A map or a table in some order.                                          *)
LEMMA OrderedList ==
  ASSUME NEW S, IsFiniteSet(S), NEW list \in Orders(S)
  PROVE  list \in Seq(S) /\ Range(list) = S /\ DOMAIN list = 1 .. Len(list) /\ Len(list) \in Nat
  <1>1. list \in [1 .. Cardinality(S) -> S] /\ Range(list) = S
    BY Zenon DEF Orders
  <1>2. Cardinality(S) \in Nat
    BY Zenon, FS_CardinalityType
  <1>3. list \in Seq(S)
    BY <1>1, <1>2
  <1> QED
    BY <1>1, <1>3

(* The keys of the map are the roles with children.                         *)
LEMMA ParentsHaveEdges ==
  ASSUME NEW a \in Graphs
  PROVE  /\ Parents(a) \in SUBSET Roles /\ IsFiniteSet(Parents(a))
         /\ \A p \in Edges(a) : p[1] \in Parents(a)
  <1>1. Parents(a) \in SUBSET Roles
    BY Zenon DEF Parents
  <1>2. IsFiniteSet(Parents(a))
    BY Zenon, <1>1, RolesAssumption, FS_Subset
  <1>3. \A r \in Roles : a[r] = <<>> => \A i \in 1 .. Len(a[r]) : FALSE
    OBVIOUS
  <1>4. \A p \in Edges(a) : p[1] \in Roles /\ \E i \in 1 .. Len(a[p[1]]) : TRUE
    BY Zenon, EdgeIsListed
  <1>5. \A p \in Edges(a) : p[1] \in Parents(a)
    BY Zenon, <1>3, <1>4 DEF Parents
  <1> QED
    BY Zenon, <1>1, <1>2, <1>5

(* The loop of hasCycle over the keys.                                      *)
RootLoop(m, a, order) ==
  /\ m \in [0 .. Len(order) -> Founds]
  /\ m[0] = [cycle |-> FALSE, colour |-> [r \in Roles |-> "white"]]
  /\ \A n \in 1 .. Len(order) : m[n] = Root(order[n], m[n - 1], Dfs(a))
  /\ HasCycle(a, order) = m[Len(order)].cycle

(* hasCycle goes through the keys of the map.                               *)
LEMMA HasCycleLoop ==
  ASSUME NEW a \in Graphs, NEW order \in Seq(Roles)
  PROVE  \E m : RootLoop(m, a, order)
  <1> DEFINE N == Len(order)
             X == Founds
             base == [cycle |-> FALSE, colour |-> [r \in Roles |-> "white"]]
             Eq(g) == g = [i \in 0 .. N |-> IF i = 0 THEN base ELSE Root(order[i], g[i - 1], Dfs(a))]
             roots == CHOOSE g : Eq(g)
             step == [i \in 1 .. N |-> [m \in X |-> Root(order[i], m, Dfs(a))]]
  <1>0. N \in Nat /\ \A n \in 1 .. N : order[n] \in Roles
    OBVIOUS
  <1>1. HasCycle(a, order) = roots[N].cycle
    BY Zenon DEF HasCycle
  <1>2. base \in X
    BY DEF Founds, Colours
  <1>3. step \in [1 .. N -> [X -> X]]
    <2>1. Dfs(a) \in Searches
      BY Zenon, DfsSearches DEF Searching
    <2>2. \A found \in Founds : found.colour \in Colours
      BY DEF Founds
    <2>3. \A node \in Roles : \A found \in Founds : Root(node, found, Dfs(a)) \in Founds
      BY Zenon, <2>1, <2>2 DEF Root, Searches
    <2> QED
      BY Zenon, <1>0, <2>3
  <1> HIDE DEF N, X, base
  <1>4. PICK g : /\ g \in [0 .. N -> X] /\ g[0] = base
                 /\ \A n \in 1 .. N : g[n] = step[n][g[n - 1]]
    <2> HIDE DEF step
    <2>1. \E g : Loop(g, X, base, N, step)
      BY Zenon, <1>0, <1>2, <1>3, Recursion
    <2> QED
      BY Zenon, <2>1 DEF Loop
  <1>5. \A n \in 1 .. N : n - 1 \in 0 .. N /\ n \in 0 .. N /\ n # 0
    BY <1>0
  <1>6. \A n \in 1 .. N : g[n] = Root(order[n], g[n - 1], Dfs(a))
    BY Zenon, <1>4, <1>5
  <1>7. 0 \in 0 .. N /\ \A n \in 0 .. N : n = 0 \/ n \in 1 .. N
    BY <1>0
  <1>8. Eq(g)
    BY Zenon, <1>4, <1>6, <1>7
  <1>9. Eq(roots)
    <2> HIDE DEF Eq
    <2> QED
      BY Zenon, <1>8
  <1> HIDE DEF roots
  <1>10. /\ roots = [n \in 0 .. N |-> roots[n]] /\ roots[0] = base
         /\ \A n \in 1 .. N : roots[n - 1] \in X => roots[n] = step[n][roots[n - 1]]
    BY Zenon, <1>5, <1>7, <1>9
  <1>11. Loop(roots, X, base, N, step)
    <2> HIDE DEF step
    <2> QED
      BY Zenon, <1>0, <1>2, <1>3, <1>10, IsLoop
  <1>12. /\ roots \in [0 .. N -> X] /\ roots[0] = base
         /\ \A n \in 1 .. N : roots[n] = Root(order[n], roots[n - 1], Dfs(a))
    BY Zenon, <1>5, <1>11 DEF Loop
  <1> QED
    BY Zenon, <1>1, <1>12 DEF RootLoop, N, X, base

(* hasCycle finds a cycle if and only if there is one, in whatever order    *)
(* the keys come.                                                           *)
THEOREM HasCycleIsExact ==
  ASSUME NEW a \in Graphs, NEW order \in Orders(Parents(a))
  PROVE  HasCycle(a, order) <=> ~Acyclic(Edges(a))
  <1> DEFINE E == Edges(a)
             N == Len(order)
             Clear(c, n) == /\ With(c, "gray") = {}
                            /\ Settled(E, With(c, "black"))
                            /\ \A i \in 1 .. n : order[i] \in With(c, "black")
             Good(m, n) == /\ m \in Founds
                           /\ m.cycle => ~Acyclic(E)
                           /\ ~m.cycle => Clear(m.colour, n)
  <1>1. /\ order \in Seq(Parents(a)) /\ Range(order) = Parents(a)
        /\ DOMAIN order = 1 .. N /\ N \in Nat
    BY Zenon, ParentsHaveEdges, OrderedList
  <1>2. order \in Seq(Roles) /\ \A n \in 1 .. N : order[n] \in Roles
    BY <1>1, ParentsHaveEdges
  <1>3. PICK m : RootLoop(m, a, order)
    BY Zenon, <1>2, HasCycleLoop
  <1>4. /\ m[0] = [cycle |-> FALSE, colour |-> [r \in Roles |-> "white"]]
        /\ HasCycle(a, order) = m[N].cycle
        /\ \A n \in 1 .. N : m[n] = Root(order[n], m[n - 1], Dfs(a))
    BY Zenon, <1>3 DEF RootLoop
  <1> HIDE DEF N, E
  <1> DEFINE S == {n \in 0 .. N : Good(m[n], n)}
  <1>5. 0 \in S
    <2> DEFINE c == [r \in Roles |-> "white"]
    <2>1. 0 \in 0 .. N /\ \A i \in 1 .. 0 : FALSE
      BY <1>1
    <2>2. c \in Colours /\ With(c, "gray") = {} /\ With(c, "black") = {}
      BY DEF Colours, With
    <2> HIDE DEF c
    <2>3. Settled(E, {})
      BY Zenon DEF Settled
    <2>4. Clear(c, 0)
      BY Zenon, <2>1, <2>2, <2>3
    <2> HIDE DEF Clear
    <2>5. m[0] \in Founds /\ m[0].cycle = FALSE /\ m[0].colour = c
      BY <1>4, <2>2 DEF Founds, c
    <2>6. Good(m[0], 0)
      BY Zenon, <2>4, <2>5
    <2> QED
      BY Zenon, <2>1, <2>6
  <1>6. ASSUME NEW n \in S, n < N PROVE n + 1 \in S
    <2> DEFINE node == order[n + 1]  w == m[n]  c == w.colour
    <2>1. n + 1 \in 1 .. N /\ (n + 1) - 1 = n /\ n + 1 \in 0 .. N /\ \A i \in 1 .. (n + 1) : i \in 1 .. n \/ i = n + 1
      BY <1>1, <1>6
    <2>2. m[n + 1] = Root(node, w, Dfs(a)) /\ node \in Roles
      BY Zenon, <1>2, <1>4, <2>1
    <2>3. Good(w, n)
      BY Zenon, <1>6
    <2> HIDE DEF node, w
    <2>4. w \in Founds /\ c \in Colours
      BY <2>3 DEF Founds
    <2> HIDE DEF c
    <2>5. CASE w.cycle
      <3> HIDE DEF Clear
      <3>1. m[n + 1] = w
        BY Zenon, <2>2, <2>5 DEF Root
      <3>2. Good(w, n + 1)
        BY Zenon, <2>3, <2>5
      <3> QED
        BY Zenon, <2>1, <3>1, <3>2
    <2>6. CASE ~w.cycle /\ c[node] # "white"
      <3>1. m[n + 1] = w
        BY Zenon, <2>2, <2>6 DEF Root, c
      <3>2. Clear(c, n)
        BY Zenon, <2>3, <2>6 DEF c
      <3>3. node \in With(c, "black")
        BY Zenon, <2>2, <2>4, <2>6, <3>2, ThreeColours
      <3>4. Clear(c, n + 1)
        BY Zenon, <2>1, <3>2, <3>3 DEF node
      <3>5. Good(w, n + 1)
        <4> HIDE DEF Clear
        <4> QED
          BY Zenon, <2>4, <2>6, <3>4 DEF c
      <3> QED
        BY Zenon, <2>1, <3>1, <3>5
    <2>7. CASE ~w.cycle /\ c[node] = "white"
      <3> DEFINE found == Dfs(a)[node][c]
      <3>1. m[n + 1] = found
        BY Zenon, <2>2, <2>7 DEF Root, c
      <3>2. Clear(c, n)
        BY Zenon, <2>3, <2>7 DEF c
      <3>3. Called(E, node, c)
        BY Zenon, <2>4, <2>7, <3>2 DEF Called
      <3>4. Cardinality(Roles \ Met(c)) <= Depth
        <4>1. (Roles \ Met(c)) \subseteq Roles
          BY Zenon
        <4>2. IsFiniteSet(Roles \ Met(c)) /\ Cardinality(Roles \ Met(c)) <= Cardinality(Roles)
          BY Zenon, <4>1, RolesAssumption, FS_Subset
        <4>3. Cardinality(Roles \ Met(c)) \in Nat
          BY Zenon, <4>2, FS_CardinalityType
        <4> QED
          BY <4>2, <4>3, DepthSuffices
      <3>5. Finds(E, node, c, found)
        BY Zenon, <2>2, <2>4, <3>3, <3>4, DfsSearches DEF Searching, E
      <3> HIDE DEF found
      <3>6. ASSUME ~found.cycle PROVE Clear(found.colour, n + 1)
        BY Zenon, <2>1, <3>2, <3>5, <3>6 DEF Finds, node
      <3>7. Good(found, n + 1)
        <4> HIDE DEF Clear
        <4> QED
          BY Zenon, <3>5, <3>6 DEF Finds
      <3> QED
        BY Zenon, <2>1, <3>1, <3>7
    <2> QED
      BY Zenon, <2>5, <2>6, <2>7
  <1>7. N \in S
    <2>1. S \in SUBSET (0 .. N)
      BY Zenon
    <2> HIDE DEF S
    <2> QED
      BY Zenon, <1>1, <1>5, <1>6, <2>1, UpTo
  <1>8. Good(m[N], N)
    BY Zenon, <1>7
  <1>9. ASSUME ~m[N].cycle PROVE Acyclic(E)
    <2> DEFINE B == With(m[N].colour, "black")
    <2>1. Settled(E, B) /\ \A i \in 1 .. N : order[i] \in B
      BY Zenon, <1>8, <1>9
    <2> HIDE DEF B
    <2>2. \A r \in Parents(a) : r \in B
      BY Zenon, <1>1, <2>1 DEF Range
    <2>3. \A p \in E : p[1] \in B
      BY Zenon, <2>2, ParentsHaveEdges DEF E
    <2> QED
      BY Zenon, <2>1, <2>3, AllSettled
  <1> QED
    BY Zenon, <1>4, <1>8, <1>9 DEF E

-----------------------------------------------------------------------------
(* validateRoleInheritances.                                                *)

Visitors == [Roles -> [Visits -> Visits]]

(* How visit is called: nothing has failed, the roles on the path are above *)
(* the node, and the visited ones are settled and off the path.             *)
Open(E, node, s) ==
  /\ s \in Visits
  /\ ~s.failed
  /\ \A g \in s.visiting : node \in Below(E, g)
  /\ \A x \in s.visiting : x \notin s.visited
  /\ Settled(E, s.visited)

(* What it leaves: an error only where there is a cycle; otherwise the node *)
(* is visited and settled with the others, and the path is what it was.     *)
Closed(E, node, s, t) ==
  /\ t \in Visits
  /\ t.failed => ~Acyclic(E)
  /\ ~t.failed =>
       /\ t.visiting = s.visiting
       /\ s.visited \cup {node} \subseteq t.visited
       /\ \A x \in s.visiting : x \notin t.visited
       /\ Settled(E, t.visited)

(* f does so where fewer than d roles are off the path.                     *)
Visiting(a, d, f) ==
  /\ f \in Visitors
  /\ \A node \in Roles : \A s \in Visits :
        Open(Edges(a), node, s) /\ Cardinality(Roles \ s.visiting) < d
          => Closed(Edges(a), node, s, f[node][s])

(* The loop of visit over the children.                                     *)
ChildLoop(c, a, node, s, f) ==
  /\ c \in [0 .. Len(a[node]) -> Visits]
  /\ c[0] = [s EXCEPT !.visiting = @ \cup {node}]
  /\ \A n \in 1 .. Len(a[node]) : c[n] = Try(a[node][n], c[n - 1], f)
  /\ node \notin s.visiting /\ node \notin s.visited
       => Visited(a, node, s, f) =
             IF c[Len(a[node])].failed THEN c[Len(a[node])]
             ELSE [c[Len(a[node])] EXCEPT !.visiting = @ \ {node}, !.visited = @ \cup {node}]

(* visit goes through the children of a node.                               *)
LEMMA VisitedLoop ==
  ASSUME NEW a \in Graphs, NEW node \in Roles, NEW s \in Visits, NEW f \in Visitors
  PROVE  \E c : ChildLoop(c, a, node, s, f)
  <1> DEFINE N == Len(a[node])
             X == Visits
             base == [s EXCEPT !.visiting = @ \cup {node}]
             Eq(g) == g = [i \in 0 .. N |-> IF i = 0 THEN base ELSE Try(a[node][i], g[i - 1], f)]
             child == CHOOSE g : Eq(g)
             step == [i \in 1 .. N |-> [c \in X |-> Try(a[node][i], c, f)]]
  <1>0. N \in Nat /\ \A n \in 1 .. N : a[node][n] \in Roles
    BY DEF Graphs
  <1>1. node \notin s.visiting /\ node \notin s.visited
          => Visited(a, node, s, f) =
                IF child[N].failed THEN child[N]
                ELSE [child[N] EXCEPT !.visiting = @ \ {node}, !.visited = @ \cup {node}]
    BY Zenon DEF Visited
  <1>2. base \in X
    BY DEF Visits
  <1>3. step \in [1 .. N -> [X -> X]]
    <2>1. \A next \in Roles : \A c \in Visits : Try(next, c, f) \in Visits
      BY Zenon DEF Try, Visitors
    <2> QED
      BY Zenon, <1>0, <2>1
  <1> HIDE DEF N, X, base
  <1>4. PICK g : /\ g \in [0 .. N -> X] /\ g[0] = base
                 /\ \A n \in 1 .. N : g[n] = step[n][g[n - 1]]
    <2> HIDE DEF step
    <2>1. \E g : Loop(g, X, base, N, step)
      BY Zenon, <1>0, <1>2, <1>3, Recursion
    <2> QED
      BY Zenon, <2>1 DEF Loop
  <1>5. \A n \in 1 .. N : n - 1 \in 0 .. N /\ n \in 0 .. N /\ n # 0
    BY <1>0
  <1>6. \A n \in 1 .. N : g[n] = Try(a[node][n], g[n - 1], f)
    BY Zenon, <1>4, <1>5
  <1>7. 0 \in 0 .. N /\ \A n \in 0 .. N : n = 0 \/ n \in 1 .. N
    BY <1>0
  <1>8. Eq(g)
    BY Zenon, <1>4, <1>6, <1>7
  <1>9. Eq(child)
    <2> HIDE DEF Eq
    <2> QED
      BY Zenon, <1>8
  <1> HIDE DEF child
  <1>10. /\ child = [n \in 0 .. N |-> child[n]] /\ child[0] = base
         /\ \A n \in 1 .. N : child[n - 1] \in X => child[n] = step[n][child[n - 1]]
    BY Zenon, <1>5, <1>7, <1>9
  <1>11. Loop(child, X, base, N, step)
    <2> HIDE DEF step
    <2> QED
      BY Zenon, <1>0, <1>2, <1>3, <1>10, IsLoop
  <1>12. /\ child \in [0 .. N -> X] /\ child[0] = base
         /\ \A n \in 1 .. N : child[n] = Try(a[node][n], child[n - 1], f)
    BY Zenon, <1>5, <1>11 DEF Loop
  <1> QED
    BY Zenon, <1>1, <1>12 DEF ChildLoop, N, X, base

(* visit gives a state of the search again.                                 *)
LEMMA VisitedType ==
  ASSUME NEW a \in Graphs, NEW node \in Roles, NEW s \in Visits, NEW f \in Visitors
  PROVE  Visited(a, node, s, f) \in Visits
  <1>1. PICK c : ChildLoop(c, a, node, s, f)
    BY Zenon, VisitedLoop
  <1> DEFINE last == c[Len(a[node])]
             popped == [last EXCEPT !.visiting = @ \ {node}, !.visited = @ \cup {node}]
  <1>2. last \in Visits
    <2>1. Len(a[node]) \in 0 .. Len(a[node])
      BY DEF Graphs
    <2> QED
      BY Zenon, <1>1, <2>1 DEF ChildLoop
  <1>3. node \notin s.visiting /\ node \notin s.visited
          => Visited(a, node, s, f) = IF last.failed THEN last ELSE popped
    BY Zenon, <1>1 DEF ChildLoop
  <1>4. popped \in Visits
    <2> HIDE DEF last
    <2> QED
      BY <1>2 DEF Visits
  <1> HIDE DEF last, popped
  <1>5. [s EXCEPT !.failed = TRUE] \in Visits
    BY DEF Visits
  <1>6. node \in s.visiting => Visited(a, node, s, f) = [s EXCEPT !.failed = TRUE]
    BY Zenon DEF Visited
  <1>7. node \notin s.visiting /\ node \in s.visited => Visited(a, node, s, f) = s
    BY Zenon DEF Visited
  <1> QED
    BY Zenon, <1>2, <1>3, <1>4, <1>5, <1>6, <1>7

(* The body of visit, when the calls it makes do what they should.          *)
LEMMA VisitsOnce ==
  ASSUME NEW a \in Graphs, NEW d \in Nat, NEW f, Visiting(a, d, f),
         NEW node \in Roles, NEW s \in Visits,
         Open(Edges(a), node, s), Cardinality(Roles \ s.visiting) < d + 1
  PROVE  Closed(Edges(a), node, s, Visited(a, node, s, f))
  <1> DEFINE E == Edges(a)
             N == Len(a[node])
             path == s.visiting \cup {node}
             Clear(t, n) == /\ t.visiting = path
                            /\ s.visited \subseteq t.visited
                            /\ \A x \in path : x \notin t.visited
                            /\ Settled(E, t.visited)
                            /\ \A i \in 1 .. n : a[node][i] \in t.visited
             Good(t, n) == /\ t \in Visits
                           /\ t.failed => ~Acyclic(E)
                           /\ ~t.failed => Clear(t, n)
  <1>1. f \in Visitors
    BY Zenon DEF Visiting
  <1>2. PICK c : ChildLoop(c, a, node, s, f)
    BY Zenon, <1>1, VisitedLoop
  <1>3. N \in Nat /\ \A n \in 1 .. N : a[node][n] \in Roles /\ <<node, a[node][n]>> \in E
    <2>1. N \in Nat
      BY DEF Graphs
    <2> QED
      BY Zenon, <2>1, EdgeIsListed
  <1>4. /\ c[0] = [s EXCEPT !.visiting = @ \cup {node}]
        /\ \A n \in 1 .. N : c[n] = Try(a[node][n], c[n - 1], f)
    BY Zenon, <1>2 DEF ChildLoop
  <1>5. /\ s.visiting \in SUBSET Roles /\ s.visited \in SUBSET Roles /\ s.failed = FALSE
        /\ \A g \in s.visiting : g \in Roles /\ node \in Below(E, g)
        /\ \A x \in s.visiting : x \notin s.visited
        /\ Settled(E, s.visited)
    <2>1. s.visiting \in SUBSET Roles /\ s.visited \in SUBSET Roles /\ s.failed \in BOOLEAN
      BY DEF Visits
    <2> QED
      BY Zenon, <2>1 DEF Open
  <1>6. node \in s.visiting => Visited(a, node, s, f) = [s EXCEPT !.failed = TRUE]
    BY Zenon DEF Visited
  <1>7. node \notin s.visiting /\ node \in s.visited => Visited(a, node, s, f) = s
    BY Zenon DEF Visited
  <1> HIDE DEF N, E
  <1>8. CASE node \in s.visiting
    <2> DEFINE t == [s EXCEPT !.failed = TRUE]
    <2>1. t \in Visits /\ t.failed
      BY DEF Visits
    <2>2. Visited(a, node, s, f) = t
      BY Zenon, <1>8, <1>6
    <2> HIDE DEF t
    <2>3. ~Acyclic(E)
      BY Zenon, <1>5, <1>8 DEF Acyclic
    <2> QED
      BY Zenon, <2>1, <2>2, <2>3 DEF Closed, E
  <1>9. CASE node \notin s.visiting /\ node \in s.visited
    <2>1. Visited(a, node, s, f) = s
      BY Zenon, <1>9, <1>7
    <2>2. Closed(E, node, s, s)
      BY Zenon, <1>5, <1>9 DEF Closed
    <2> QED
      BY Zenon, <2>1, <2>2 DEF E
  <1>10. CASE node \notin s.visiting /\ node \notin s.visited
    <2>0. Visited(a, node, s, f) =
             IF c[N].failed THEN c[N] ELSE [c[N] EXCEPT !.visiting = @ \ {node}, !.visited = @ \cup {node}]
      BY Zenon, <1>2, <1>10 DEF ChildLoop, N
    <2> DEFINE S == {n \in 0 .. N : Good(c[n], n)}
    <2>1. 0 \in S
      <3>1. 0 \in 0 .. N /\ \A i \in 1 .. 0 : FALSE
        BY <1>3
      <3> DEFINE t == [s EXCEPT !.visiting = @ \cup {node}]
      <3>2. t \in Visits /\ t.visiting = path /\ t.visited = s.visited /\ t.failed = FALSE
        BY <1>5 DEF Visits
      <3> HIDE DEF t
      <3>3. Clear(t, 0)
        BY Zenon, <1>5, <1>10, <3>1, <3>2
      <3>4. Good(t, 0)
        <4> HIDE DEF Clear
        <4> QED
          BY Zenon, <3>2, <3>3
      <3> QED
        BY Zenon, <1>4, <3>1, <3>4 DEF t
    <2>2. ASSUME NEW n \in S, n < N PROVE n + 1 \in S
      <3> DEFINE next == a[node][n + 1]  w == c[n]
      <3>1. n + 1 \in 1 .. N /\ (n + 1) - 1 = n /\ n + 1 \in 0 .. N /\ \A i \in 1 .. (n + 1) : i \in 1 .. n \/ i = n + 1
        BY <1>3, <2>2
      <3>2. c[n + 1] = Try(next, w, f) /\ next \in Roles /\ <<node, next>> \in E
        BY Zenon, <1>3, <1>4, <3>1
      <3>3. Good(w, n)
        BY Zenon, <2>2
      <3> HIDE DEF next, w
      <3>4. next \in Below(E, node)
        BY Zenon, <3>2, BelowEdge
      <3>5. CASE w.failed
        <4> HIDE DEF Clear
        <4>1. c[n + 1] = w
          BY Zenon, <3>2, <3>5 DEF Try
        <4>2. Good(w, n + 1)
          BY Zenon, <3>3, <3>5
        <4> QED
          BY Zenon, <3>1, <4>1, <4>2
      <3>6. CASE ~w.failed
        <4> DEFINE t == f[next][w]
        <4>1. c[n + 1] = t
          BY Zenon, <3>2, <3>6 DEF Try
        <4>2. Clear(w, n)
          BY Zenon, <3>3, <3>6
        <4>3. \A g \in w.visiting : next \in Below(E, g)
          BY Zenon, <1>5, <3>4, <4>2, BelowBelow
        <4>4. Open(E, next, w)
          BY Zenon, <3>3, <3>6, <4>2, <4>3 DEF Open
        <4>5. Cardinality(Roles \ w.visiting) < d
          <5> DEFINE V == s.visiting
          <5>1. V \in SUBSET Roles /\ path \in SUBSET Roles /\ V \subseteq path /\ node \in path /\ node \notin V
            BY Zenon, <1>5, <1>10
          <5> HIDE DEF V, path
          <5>2. /\ Cardinality(Roles \ V) \in Nat /\ Cardinality(Roles \ path) \in Nat
                /\ Cardinality(Roles \ path) < Cardinality(Roles \ V)
            BY Zenon, <5>1, Fewer
          <5>3. Cardinality(Roles \ V) < d + 1
            BY Zenon DEF V
          <5>4. Cardinality(Roles \ path) < d
            BY <5>2, <5>3
          <5> QED
            BY Zenon, <4>2, <5>4
        <4>6. Closed(E, next, w, t)
          BY Zenon, <3>2, <3>3, <4>4, <4>5 DEF Visiting, E
        <4> HIDE DEF t
        <4>7. ASSUME ~t.failed PROVE Clear(t, n + 1)
          BY Zenon, <3>1, <4>2, <4>6, <4>7 DEF Closed, next
        <4>8. Good(t, n + 1)
          <5> HIDE DEF Clear
          <5> QED
            BY Zenon, <4>6, <4>7 DEF Closed
        <4> QED
          BY Zenon, <3>1, <4>1, <4>8
      <3> QED
        BY Zenon, <3>5, <3>6
    <2>3. N \in S
      <3>1. S \in SUBSET (0 .. N)
        BY Zenon
      <3> HIDE DEF S
      <3> QED
        BY Zenon, <1>3, <2>1, <2>2, <3>1, UpTo
    <2> DEFINE last == c[N]
               t == [last EXCEPT !.visiting = @ \ {node}, !.visited = @ \cup {node}]
    <2>4. Good(last, N)
      BY Zenon, <2>3
    <2>5. Visited(a, node, s, f) = IF last.failed THEN last ELSE t
      BY Zenon, <2>0
    <2> HIDE DEF last
    <2>6. CASE last.failed
      BY Zenon, <2>4, <2>5, <2>6 DEF Closed, E
    <2>7. CASE ~last.failed
      <3>1. /\ t \in Visits /\ t.failed = last.failed /\ t.visiting = last.visiting \ {node}
            /\ t.visited = last.visited \cup {node}
        BY <2>4 DEF Visits
      <3> HIDE DEF t
      <3>2. Clear(last, N)
        BY Zenon, <2>4, <2>7
      <3>3. t.visiting = s.visiting
        BY Zenon, <1>10, <3>1, <3>2
      <3>4. \A p \in E : p[1] = node => p[2] \in last.visited
        <4>1. \A p \in E : \E i \in 1 .. Len(a[p[1]]) : a[p[1]][i] = p[2]
          BY Zenon, EdgeIsListed DEF E
        <4> QED
          BY Zenon, <3>2, <4>1 DEF N
      <3>5. Settled(E, t.visited)
        <4> DEFINE B == last.visited
        <4>1. Settled(E, B) /\ node \notin B /\ \A p \in E : p[1] = node => p[2] \in B
          BY Zenon, <3>2, <3>4
        <4> HIDE DEF B
        <4>2. Settled(E, B \cup {node})
          BY Zenon, <4>1, Settle
        <4> QED
          BY Zenon, <3>1, <4>2 DEF B
      <3>6. \A x \in s.visiting : x \notin t.visited
        BY Zenon, <1>10, <3>1, <3>2
      <3>7. Closed(E, node, s, t)
        BY Zenon, <2>7, <3>1, <3>2, <3>3, <3>5, <3>6 DEF Closed
      <3> QED
        BY Zenon, <2>5, <2>7, <3>7 DEF E
    <2> QED
      BY Zenon, <2>6, <2>7
  <1> QED
    BY Zenon, <1>8, <1>9, <1>10

(* visit, to any depth.                                                     *)
LEMMA VisitVisits ==
  ASSUME NEW a \in Graphs
  PROVE  Visiting(a, Depth, Visit(a))
  <1> DEFINE N == Depth
             X == Visitors
             Stop == [node \in Roles |-> [s \in Visits |-> s]]
             Call(f) == [node \in Roles |-> [s \in Visits |-> Visited(a, node, s, f)]]
             At(d, f) == [node \in Roles |-> [s \in Visits |->
                            IF d = 0 THEN s ELSE Visited(a, node, s, f)]]
             Eq(g) == g = [d \in 0 .. N |-> At(d, g[d - 1])]
             visit == CHOOSE g : Eq(g)
             step == [d \in 1 .. N |-> [f \in X |-> Call(f)]]
  <1>0. N \in Nat
    BY Zenon, DepthSuffices
  <1>1. Visit(a) = visit[N]
    BY Zenon DEF Visit
  <1>2. Stop \in X
    BY Zenon DEF Visitors
  <1>3. \A f \in X : Call(f) \in X
    <2>1. \A f \in X : \A node \in Roles : \A s \in Visits : Visited(a, node, s, f) \in Visits
      BY Zenon, VisitedType
    <2> QED
      BY Zenon, <2>1 DEF Visitors
  <1> HIDE DEF N, X
  <1>4. step \in [1 .. N -> [X -> X]]
    <2> HIDE DEF Call
    <2> QED
      BY Zenon, <1>3
  <1>5. PICK g : g \in [0 .. N -> X] /\ g[0] = Stop /\ \A d \in 1 .. N : g[d] = step[d][g[d - 1]]
    <2> HIDE DEF step, Stop
    <2>1. \E g : Loop(g, X, Stop, N, step)
      BY Zenon, <1>0, <1>2, <1>4, Recursion
    <2> QED
      BY Zenon, <2>1 DEF Loop
  <1>6. 0 \in 0 .. N /\ \A d \in 1 .. N : d - 1 \in 0 .. N /\ d \in 0 .. N /\ d # 0
    BY <1>0
  <1>7. \A d \in 0 .. N : d = 0 \/ d \in 1 .. N
    BY <1>0
  <1>8. \A f : At(0, f) = Stop /\ \A d \in 1 .. N : At(d, f) = Call(f)
    BY Zenon, <1>6
  <1> HIDE DEF At, Stop
  <1>9. Eq(g)
    <2> HIDE DEF Call
    <2>1. \A d \in 1 .. N : g[d] = Call(g[d - 1])
      BY Zenon, <1>5, <1>6
    <2>2. \A d \in 0 .. N : g[d] = At(d, g[d - 1])
      BY Zenon, <1>5, <1>7, <1>8, <2>1
    <2> QED
      BY Zenon, <1>5, <2>2
  <1>10. Eq(visit)
    <2> HIDE DEF Eq
    <2> QED
      BY Zenon, <1>9
  <1> HIDE DEF visit
  <1>11. visit[0] = Stop /\ \A d \in 1 .. N : visit[d] = Call(visit[d - 1])
    <2> HIDE DEF Call
    <2>1. \A d \in 0 .. N : visit[d] = At(d, visit[d - 1])
      BY Zenon, <1>10
    <2> QED
      BY Zenon, <1>6, <1>8, <2>1
  <1> DEFINE S == {d \in 0 .. N : Visiting(a, d, visit[d])}
  <1>12. 0 \in S
    <2>1. \A node \in Roles : \A s \in Visits :
             ~(Open(Edges(a), node, s) /\ Cardinality(Roles \ s.visiting) < 0)
      <3> TAKE node \in Roles
      <3> TAKE s \in Visits
      <3>1. IsFiniteSet(Roles \ s.visiting)
        BY Zenon, RolesAssumption, FS_Subset
      <3>2. Cardinality(Roles \ s.visiting) \in Nat
        BY Zenon, <3>1, FS_CardinalityType
      <3> QED
        BY <3>2
    <2>2. Visiting(a, 0, Stop)
      BY Zenon, <1>2, <2>1 DEF Visiting, X
    <2> QED
      BY Zenon, <1>6, <1>11, <2>2
  <1>13. ASSUME NEW d \in S, d < N PROVE d + 1 \in S
    <2> DEFINE f == visit[d]
    <2>1. d \in Nat /\ d + 1 \in 1 .. N /\ (d + 1) - 1 = d /\ d + 1 \in 0 .. N
      BY <1>0, <1>13
    <2>2. Visiting(a, d, f) /\ visit[d + 1] = Call(f)
      <3> HIDE DEF Call
      <3>1. visit[d + 1] = Call(visit[(d + 1) - 1])
        BY Zenon, <1>11, <2>1
      <3> QED
        BY Zenon, <1>13, <2>1, <3>1
    <2> HIDE DEF f
    <2>3. f \in X
      BY Zenon, <2>2 DEF Visiting, X
    <2>4. Call(f) \in Visitors
      BY Zenon, <1>3, <2>3 DEF X
    <2>5. ASSUME NEW node \in Roles, NEW s \in Visits,
                 Open(Edges(a), node, s), Cardinality(Roles \ s.visiting) < d + 1
          PROVE  Closed(Edges(a), node, s, Call(f)[node][s])
      <3>1. Closed(Edges(a), node, s, Visited(a, node, s, f))
        BY Zenon, <2>1, <2>2, <2>5, VisitsOnce
      <3> QED
        BY Zenon, <3>1
    <2>6. Visiting(a, d + 1, Call(f))
      <3> HIDE DEF Call
      <3> QED
        BY Zenon, <2>4, <2>5 DEF Visiting
    <2> QED
      BY Zenon, <2>1, <2>2, <2>6
  <1>14. N \in S
    <2>1. S \in SUBSET (0 .. N)
      BY Zenon
    <2> HIDE DEF S
    <2> QED
      BY Zenon, <1>0, <1>12, <1>13, <2>1, UpTo
  <1> QED
    BY Zenon, <1>1, <1>14 DEF N

(* The loop of validateRoleInheritances over the parents.                   *)
ParentLoop(t, list, order) ==
  /\ t \in [0 .. Len(order) -> Visits]
  /\ t[0] = [visiting |-> {}, visited |-> {}, failed |-> FALSE]
  /\ \A n \in 1 .. Len(order) : t[n] = Try(order[n], t[n - 1], Visit(EdgesOf(list)))
  /\ CycleDetected(list, order) = t[Len(order)].failed

(* validateRoleInheritances goes through the parents.                       *)
LEMMA CycleDetectedLoop ==
  ASSUME NEW list \in Seq(Pairs), NEW order \in Seq(Roles)
  PROVE  \E t : ParentLoop(t, list, order)
  <1> DEFINE N == Len(order)
             X == Visits
             visit == Visit(EdgesOf(list))
             base == [visiting |-> {}, visited |-> {}, failed |-> FALSE]
             Eq(g) == g = [i \in 0 .. N |-> IF i = 0 THEN base ELSE Try(order[i], g[i - 1], visit)]
             parent == CHOOSE g : Eq(g)
             step == [i \in 1 .. N |-> [t \in X |-> Try(order[i], t, visit)]]
  <1>0. N \in Nat /\ \A n \in 1 .. N : order[n] \in Roles
    OBVIOUS
  <1>1. CycleDetected(list, order) = parent[N].failed
    BY Zenon DEF CycleDetected
  <1>2. base \in X
    BY DEF Visits
  <1>3. step \in [1 .. N -> [X -> X]]
    <2>1. visit \in Visitors
      BY Zenon, EdgesOfList, VisitVisits DEF Visiting
    <2> HIDE DEF visit
    <2>2. \A next \in Roles : \A t \in Visits : Try(next, t, visit) \in Visits
      BY Zenon, <2>1 DEF Try, Visitors
    <2> QED
      BY Zenon, <1>0, <2>2
  <1> HIDE DEF N, X, base, visit
  <1>4. PICK g : /\ g \in [0 .. N -> X] /\ g[0] = base
                 /\ \A n \in 1 .. N : g[n] = step[n][g[n - 1]]
    <2> HIDE DEF step
    <2>1. \E g : Loop(g, X, base, N, step)
      BY Zenon, <1>0, <1>2, <1>3, Recursion
    <2> QED
      BY Zenon, <2>1 DEF Loop
  <1>5. \A n \in 1 .. N : n - 1 \in 0 .. N /\ n \in 0 .. N /\ n # 0
    BY <1>0
  <1>6. \A n \in 1 .. N : g[n] = Try(order[n], g[n - 1], visit)
    BY Zenon, <1>4, <1>5
  <1>7. 0 \in 0 .. N /\ \A n \in 0 .. N : n = 0 \/ n \in 1 .. N
    BY <1>0
  <1>8. Eq(g)
    BY Zenon, <1>4, <1>6, <1>7
  <1>9. Eq(parent)
    <2> HIDE DEF Eq
    <2> QED
      BY Zenon, <1>8
  <1> HIDE DEF parent
  <1>10. /\ parent = [n \in 0 .. N |-> parent[n]] /\ parent[0] = base
         /\ \A n \in 1 .. N : parent[n - 1] \in X => parent[n] = step[n][parent[n - 1]]
    BY Zenon, <1>5, <1>7, <1>9
  <1>11. Loop(parent, X, base, N, step)
    <2> HIDE DEF step
    <2> QED
      BY Zenon, <1>0, <1>2, <1>3, <1>10, IsLoop
  <1>12. /\ parent \in [0 .. N -> X] /\ parent[0] = base
         /\ \A n \in 1 .. N : parent[n] = Try(order[n], parent[n - 1], visit)
    BY Zenon, <1>5, <1>11 DEF Loop
  <1> QED
    BY Zenon, <1>1, <1>12 DEF ParentLoop, N, X, base, visit

(* validateRoleInheritances detects a cycle if and only if the list has     *)
(* one, in whatever order the parents come.                                 *)
THEOREM ValidationIsExact ==
  ASSUME NEW list \in Seq(Pairs), NEW order \in Orders(Parents(EdgesOf(list)))
  PROVE  CycleDetected(list, order) <=> ~Acyclic(Range(list))
  <1> DEFINE a == EdgesOf(list)
             E == Edges(a)
             N == Len(order)
             Clear(t, n) == /\ t.visiting = {}
                            /\ Settled(E, t.visited)
                            /\ \A i \in 1 .. n : order[i] \in t.visited
             Good(t, n) == /\ t \in Visits
                           /\ t.failed => ~Acyclic(E)
                           /\ ~t.failed => Clear(t, n)
  <1>0. a \in Graphs /\ E = Range(list)
    BY Zenon, EdgesOfList
  <1>1. /\ order \in Seq(Parents(a)) /\ Range(order) = Parents(a)
        /\ DOMAIN order = 1 .. N /\ N \in Nat
    BY Zenon, <1>0, ParentsHaveEdges, OrderedList
  <1>2. order \in Seq(Roles) /\ \A n \in 1 .. N : order[n] \in Roles
    <2> HIDE DEF a
    <2>1. Parents(a) \in SUBSET Roles
      BY Zenon, <1>0, ParentsHaveEdges
    <2> QED
      BY <1>1, <2>1
  <1>3. PICK t : ParentLoop(t, list, order)
    BY Zenon, <1>2, CycleDetectedLoop
  <1>4. /\ t[0] = [visiting |-> {}, visited |-> {}, failed |-> FALSE]
        /\ CycleDetected(list, order) = t[N].failed
        /\ \A n \in 1 .. N : t[n] = Try(order[n], t[n - 1], Visit(a))
    BY Zenon, <1>3 DEF ParentLoop
  <1>5. Visiting(a, Depth, Visit(a))
    BY Zenon, <1>0, VisitVisits
  <1> HIDE DEF a, N, E
  <1> DEFINE S == {n \in 0 .. N : Good(t[n], n)}
  <1>6. 0 \in S
    <2>1. 0 \in 0 .. N /\ \A i \in 1 .. 0 : FALSE
      BY <1>1
    <2>2. t[0] \in Visits /\ t[0].visiting = {} /\ t[0].visited = {} /\ t[0].failed = FALSE
      BY <1>4 DEF Visits
    <2>3. Settled(E, {})
      BY Zenon DEF Settled
    <2>4. Good(t[0], 0)
      BY Zenon, <2>1, <2>2, <2>3
    <2> QED
      BY Zenon, <2>1, <2>4
  <1>7. ASSUME NEW n \in S, n < N PROVE n + 1 \in S
    <2> DEFINE node == order[n + 1]  w == t[n]
    <2>1. n + 1 \in 1 .. N /\ (n + 1) - 1 = n /\ n + 1 \in 0 .. N /\ \A i \in 1 .. (n + 1) : i \in 1 .. n \/ i = n + 1
      BY <1>1, <1>7
    <2>2. t[n + 1] = Try(node, w, Visit(a)) /\ node \in Roles
      BY Zenon, <1>2, <1>4, <2>1
    <2>3. Good(w, n)
      BY Zenon, <1>7
    <2> HIDE DEF node, w
    <2>4. CASE w.failed
      <3> HIDE DEF Clear
      <3>1. t[n + 1] = w
        BY Zenon, <2>2, <2>4 DEF Try
      <3>2. Good(w, n + 1)
        BY Zenon, <2>3, <2>4
      <3> QED
        BY Zenon, <2>1, <3>1, <3>2
    <2>5. CASE ~w.failed
      <3> DEFINE z == Visit(a)[node][w]
      <3>1. t[n + 1] = z
        BY Zenon, <2>2, <2>5 DEF Try
      <3>2. Clear(w, n)
        BY Zenon, <2>3, <2>5
      <3>3. Open(E, node, w)
        BY Zenon, <2>3, <2>5, <3>2 DEF Open
      <3>4. Cardinality(Roles \ w.visiting) < Depth
        <4>1. Roles \ w.visiting = Roles
          BY Zenon, <3>2
        <4>2. Cardinality(Roles \ w.visiting) = Cardinality(Roles)
          BY Zenon, <4>1
        <4> QED
          BY <4>2, DepthSuffices
      <3>5. Closed(E, node, w, z)
        BY Zenon, <1>5, <2>2, <2>3, <3>3, <3>4 DEF Visiting, E
      <3> HIDE DEF z
      <3>6. ASSUME ~z.failed PROVE Clear(z, n + 1)
        BY Zenon, <2>1, <3>2, <3>5, <3>6 DEF Closed, node
      <3>7. Good(z, n + 1)
        <4> HIDE DEF Clear
        <4> QED
          BY Zenon, <3>5, <3>6 DEF Closed
      <3> QED
        BY Zenon, <2>1, <3>1, <3>7
    <2> QED
      BY Zenon, <2>4, <2>5
  <1>8. N \in S
    <2>1. S \in SUBSET (0 .. N)
      BY Zenon
    <2> HIDE DEF S
    <2> QED
      BY Zenon, <1>1, <1>6, <1>7, <2>1, UpTo
  <1>9. Good(t[N], N)
    BY Zenon, <1>8
  <1>10. ASSUME ~t[N].failed PROVE Acyclic(E)
    <2> DEFINE B == t[N].visited
    <2>1. Settled(E, B) /\ \A i \in 1 .. N : order[i] \in B
      BY Zenon, <1>9, <1>10
    <2> HIDE DEF B
    <2>2. \A r \in Parents(a) : r \in B
      BY Zenon, <1>1, <2>1 DEF Range
    <2>3. \A p \in E : p[1] \in B
      BY Zenon, <1>0, <2>2, ParentsHaveEdges DEF E
    <2> QED
      BY Zenon, <2>1, <2>3, AllSettled
  <1> QED
    BY Zenon, <1>0, <1>4, <1>9, <1>10

-----------------------------------------------------------------------------
(* The hierarchy.                                                           *)

(* What validateRoleInheritances guarantees of the stored rows, and what    *)
(* buildTenantTrie has done with them so far: the rows are acyclic, the     *)
(* closure is that of the graph, and while the graph is built from the rows *)
(* it and the pending pairs are the rows.                                   *)
IInv ==
  /\ table \in SUBSET Pairs /\ Acyclic(table)
  /\ stage \in {"idle", "building", "built", "failed"}
  /\ pending \in Seq(Pairs) /\ (stage # "building" => pending = <<>>)
  /\ adj \in Graphs /\ Acyclic(Edges(adj)) /\ (stage = "idle" => adj = NoEdges)
  /\ \A r \in Roles : closure[r] \in SUBSET Roles /\ {r} \cup closure[r] = {r} \cup Below(Edges(adj), r)
  /\ source = "table" => /\ stage # "failed"
                         /\ stage # "idle" => Edges(adj) \cup Range(pending) = table

(* Nothing is below a role of an empty graph.                               *)
LEMMA NothingBelow ==
  Acyclic({}) /\ \A r \in Roles : Below({}, r) = {}
  <1> DEFINE none == {}
  <1>1. none \in SUBSET Roles /\ \A p \in none : FALSE
    BY Zenon
  <1> HIDE DEF none
  <1>2. \A r \in Roles : Below(none, r) \subseteq none
    BY Zenon, <1>1, BelowIn
  <1>3. \A r \in Roles : Below({}, r) = {}
    BY Zenon, <1>2 DEF none
  <1> QED
    BY Zenon, <1>3 DEF Acyclic

(* An empty hierarchy to begin with.                                        *)
LEMMA InitIInv ==
  RoleInit => IInv
  <1> SUFFICES ASSUME RoleInit PROVE IInv
    OBVIOUS
  <1>1. table \in SUBSET Pairs /\ Acyclic(table)
    BY Zenon, NothingBelow DEF RoleInit
  <1>2. adj = NoEdges /\ adj \in Graphs /\ Edges(adj) = {}
    BY Zenon, NoEdgesNone DEF RoleInit
  <1>3. \A r \in Roles : closure[r] = {}
    BY Zenon DEF RoleInit, NoClosure
  <1>4. \A r \in Roles : closure[r] \in SUBSET Roles /\ {r} \cup closure[r] = {r} \cup Below(Edges(adj), r)
    BY Zenon, <1>2, <1>3, NothingBelow
  <1>5. pending \in Seq(Pairs) /\ pending = <<>> /\ stage = "idle"
    BY DEF RoleInit
  <1> QED
    BY Zenon, <1>1, <1>2, <1>4, <1>5, NothingBelow DEF IInv

(* The rows of a list.                                                      *)
LEMMA RangeOfList ==
  ASSUME NEW S, NEW list \in Seq(S)
  PROVE  Range(list) \in SUBSET S
  <1>1. DOMAIN list = 1 .. Len(list) /\ \A i \in 1 .. Len(list) : list[i] \in S
    OBVIOUS
  <1> QED
    BY Zenon, <1>1 DEF Range

(* Any set of rows is finite.                                               *)
LEMMA FiniteRows ==
  ASSUME NEW rows \in SUBSET Pairs
  PROVE  IsFiniteSet(rows)
  <1>1. IsFiniteSet(Pairs)
    BY RolesAssumption, FS_Product DEF Pairs
  <1> QED
    BY Zenon, <1>1, FS_Subset

(* A list as a caller submits it.                                           *)
LEMMA ListsAreSeqs ==
  ASSUME NEW list \in Lists
  PROVE  list \in Seq(Pairs)
  <1>1. PICK n \in 0 .. MaxEdges : list \in [1 .. n -> Pairs]
    BY Zenon DEF Lists
  <1>2. n \in Nat
    BY <1>1
  <1> QED
    BY <1>1, <1>2

(* replaceRoleInheritances stores only rows without a cycle.                *)
LEMMA ReplaceKeeps ==
  ASSUME IInv, stage = "idle", NEW list \in Lists, ReplaceRoleInheritances(list)
  PROVE  IInv'
  <1>1. list \in Seq(Pairs)
    BY Zenon, ListsAreSeqs
  <1>2. PICK order \in Orders(Parents(EdgesOf(list))) :
           table' = IF ValidInheritances(list, order) THEN Range(list) ELSE table
    BY Zenon DEF ReplaceRoleInheritances
  <1>3. table' \in SUBSET Pairs /\ Acyclic(table')
    <2>1. CASE ValidInheritances(list, order)
      <3>1. Range(list) \in SUBSET Pairs
        BY Zenon, <1>1, RangeOfList
      <3>2. Acyclic(Range(list))
        BY Zenon, <1>1, <2>1, ValidationIsExact DEF ValidInheritances
      <3> QED
        BY Zenon, <1>2, <2>1, <3>1, <3>2
    <2>2. CASE ~ValidInheritances(list, order)
      BY Zenon, <1>2, <2>2 DEF IInv
    <2> QED
      BY Zenon, <2>1, <2>2
  <1>4. UNCHANGED <<stage, source, pending, adj, closure>>
    BY Zenon DEF ReplaceRoleInheritances
  <1>5. /\ stage' = stage /\ source' = source /\ pending' = pending
        /\ adj' = adj /\ closure' = closure
    BY <1>4
  <1>6. "idle" # "failed" /\ "idle" # "building"
    OBVIOUS
  <1>7. IInv!2' /\ IInv!3' /\ IInv!4' /\ IInv!5'
    BY Zenon, <1>5 DEF IInv
  <1>8. IInv!6'
    BY Zenon, <1>5, <1>6 DEF IInv
  <1> QED
    BY Zenon, <1>3, <1>7, <1>8 DEF IInv

(* A build that starts has the rows, or a caller's pairs, before it.        *)
LEMMA BuildKeeps ==
  ASSUME IInv, stage = "idle",
         BuildFromTable \/ \E list \in Lists : BuildFromCaller(list)
  PROVE  IInv'
  <1>1. /\ table \in SUBSET Pairs /\ Acyclic(table) /\ adj \in Graphs /\ Acyclic(Edges(adj))
        /\ Edges(adj) = {}
    BY Zenon, NoEdgesNone DEF IInv
  <1>2. table' = table /\ adj' = adj /\ closure' = closure /\ stage' = "building"
    BY DEF BuildFromTable, BuildFromCaller
  <1>3. pending' \in Seq(Pairs) /\ (source' = "table" => Range(pending') = table)
    <2>1. CASE BuildFromTable
      <3>1. PICK rows \in Orders(table) : pending' = rows
        BY Zenon, <2>1 DEF BuildFromTable
      <3>2. rows \in Seq(table) /\ Range(rows) = table
        BY Zenon, <1>1, FiniteRows, OrderedList
      <3>3. rows \in Seq(Pairs)
        BY <1>1, <3>2
      <3> QED
        BY Zenon, <3>1, <3>2, <3>3
    <2>2. CASE \E list \in Lists : BuildFromCaller(list)
      <3>1. PICK list \in Lists : pending' = list /\ source' = "caller"
        BY Zenon, <2>2 DEF BuildFromCaller
      <3>2. source' # "table"
        BY <3>1
      <3> QED
        BY Zenon, <3>1, <3>2, ListsAreSeqs
    <2> QED
      BY Zenon, <2>1, <2>2
  <1>4. "building" # "failed" /\ "building" # "idle"
    OBVIOUS
  <1>5. \A r \in Roles : closure'[r] \in SUBSET Roles /\ {r} \cup closure'[r] = {r} \cup Below(Edges(adj'), r)
    BY Zenon, <1>2 DEF IInv
  <1>6. source' = "table" => Edges(adj') \cup Range(pending') = table'
    BY Zenon, <1>1, <1>2, <1>3
  <1> QED
    BY Zenon, <1>1, <1>2, <1>3, <1>4, <1>5, <1>6 DEF IInv

(* The pairs left after the first one.                                      *)
LEMMA HeadAndTail ==
  ASSUME NEW S, NEW list \in Seq(S), list # <<>>
  PROVE  Head(list) \in S /\ Tail(list) \in Seq(S) /\ Range(list) = {Head(list)} \cup Range(Tail(list))
  <1> DEFINE t == Tail(list)  n == Len(list)
  <1>1. /\ Head(list) \in S /\ t \in Seq(S) /\ n \in Nat /\ n # 0 /\ DOMAIN list = 1 .. n
        /\ Head(list) = list[1] /\ DOMAIN t = 1 .. (n - 1) /\ \A i \in 1 .. (n - 1) : t[i] = list[i + 1]
    OBVIOUS
  <1> HIDE DEF t, n
  <1>2. /\ 1 \in 1 .. n /\ \A i \in 1 .. (n - 1) : i + 1 \in 1 .. n
        /\ \A i \in 1 .. n : i = 1 \/ (i - 1 \in 1 .. (n - 1) /\ (i - 1) + 1 = i)
    BY <1>1
  <1>3. \A x \in Range(t) : x \in Range(list)
    <2> TAKE x \in Range(t)
    <2>1. PICK i \in 1 .. (n - 1) : x = t[i]
      BY Zenon, <1>1 DEF Range
    <2>2. x = list[i + 1] /\ i + 1 \in DOMAIN list
      BY Zenon, <1>1, <1>2, <2>1
    <2> QED
      BY Zenon, <2>2 DEF Range
  <1>4. Head(list) \in Range(list)
    BY Zenon, <1>1, <1>2 DEF Range
  <1>5. \A x \in Range(list) : x = Head(list) \/ x \in Range(t)
    <2> TAKE x \in Range(list)
    <2>1. PICK i \in 1 .. n : x = list[i]
      BY Zenon, <1>1 DEF Range
    <2>2. CASE i = 1
      BY Zenon, <1>1, <2>1, <2>2
    <2>3. CASE i - 1 \in 1 .. (n - 1) /\ (i - 1) + 1 = i
      <3>1. x = t[i - 1]
        BY Zenon, <1>1, <2>1, <2>3
      <3> QED
        BY Zenon, <1>1, <2>3, <3>1 DEF Range
    <2> QED
      BY Zenon, <1>2, <2>2, <2>3
  <1>6. Range(list) = {Head(list)} \cup Range(t)
    BY Zenon, <1>3, <1>4, <1>5
  <1> QED
    BY Zenon, <1>1, <1>6 DEF t

(* AddInheritance accepts every stored row, and keeps the graph acyclic and *)
(* its closure right whatever it is given.                                  *)
LEMMA AddKeeps ==
  ASSUME IInv, AddInheritance
  PROVE  IInv'
  <1> DEFINE p == Head(pending)  tempAdj == AddEdge(adj, p)
  <1>1. /\ stage = "building" /\ pending \in Seq(Pairs) /\ pending # <<>> /\ adj \in Graphs
        /\ table' = table /\ source' = source
    BY DEF AddInheritance, IInv
  <1>2. p \in Pairs /\ Tail(pending) \in Seq(Pairs) /\ Range(pending) = {p} \cup Range(Tail(pending))
    BY Zenon, <1>1, HeadAndTail
  <1>3. PICK order \in Orders(Parents(tempAdj)) :
           IF p[1] = p[2] \/ HasCycle(tempAdj, order)
           THEN /\ stage' = "failed" /\ pending' = <<>> /\ UNCHANGED <<adj, closure>>
           ELSE /\ adj' = tempAdj /\ closure' = RebuildTransitiveClosure(tempAdj)
                /\ pending' = Tail(pending) /\ UNCHANGED stage
    BY Zenon DEF AddInheritance
  <1>4. tempAdj \in Graphs /\ Edges(tempAdj) = Edges(adj) \cup {p}
    BY Zenon, <1>1, <1>2, AddEdgeAdds
  <1> HIDE DEF p, tempAdj
  <1>5. HasCycle(tempAdj, order) <=> ~Acyclic(Edges(tempAdj))
    BY Zenon, <1>4, HasCycleIsExact
  <1>6. "building" # "idle" /\ "failed" # "idle" /\ "failed" # "building"
    OBVIOUS
  <1>7. table \in SUBSET Pairs /\ Acyclic(table)
    BY Zenon DEF IInv
  <1>8. CASE p[1] = p[2] \/ HasCycle(tempAdj, order)
    <2>1. stage' = "failed" /\ pending' = <<>> /\ adj' = adj /\ closure' = closure
      BY <1>3, <1>8
    <2>2. source # "table"
      <3> SUFFICES ASSUME source = "table" PROVE FALSE
        BY Zenon
      <3>1. Edges(adj) \cup Range(pending) = table
        BY Zenon, <1>1, <1>6 DEF IInv
      <3>2. p \in table /\ Edges(tempAdj) \subseteq table
        BY Zenon, <1>2, <1>4, <3>1
      <3>3. p[1] # p[2]
        BY Zenon, <1>7, <3>2, NoSelfEdge
      <3>4. Acyclic(Edges(tempAdj))
        BY Zenon, <1>7, <3>2, FewerEdges
      <3> QED
        BY Zenon, <1>5, <1>8, <3>3, <3>4
    <2>3. pending' \in Seq(Pairs)
      BY <2>1
    <2>4. /\ Acyclic(Edges(adj'))
          /\ \A r \in Roles : closure'[r] \in SUBSET Roles /\ {r} \cup closure'[r] = {r} \cup Below(Edges(adj'), r)
      BY Zenon, <2>1 DEF IInv
    <2> QED
      BY Zenon, <1>1, <1>6, <1>7, <2>1, <2>2, <2>3, <2>4 DEF IInv
  <1>9. CASE ~(p[1] = p[2] \/ HasCycle(tempAdj, order))
    <2>1. /\ stage' = stage /\ pending' = Tail(pending) /\ adj' = tempAdj
          /\ closure' = RebuildTransitiveClosure(tempAdj)
      BY <1>3, <1>9
    <2>2. Acyclic(Edges(adj'))
      BY Zenon, <1>5, <1>9, <2>1
    <2>3. \A r \in Roles : closure'[r] \in SUBSET Roles /\ {r} \cup closure'[r] = {r} \cup Below(Edges(adj'), r)
      BY Zenon, <1>4, <2>1, ClosureReaches
    <2>4. source = "table" => stage # "failed" /\ Edges(adj) \cup Range(pending) = table
      BY Zenon, <1>1, <1>6 DEF IInv
    <2>5. source' = "table" => Edges(adj') \cup Range(pending') = table'
      BY Zenon, <1>1, <1>2, <1>4, <2>1, <2>4
    <2>6. source' = "table" => stage' # "failed"
      BY Zenon, <1>1, <2>1, <2>4
    <2>7. stage' = "building" /\ stage' # "idle" /\ stage' \in {"idle", "building", "built", "failed"}
      BY Zenon, <1>1, <1>6, <2>1
    <2>8. adj' \in Graphs /\ pending' \in Seq(Pairs)
      BY Zenon, <1>2, <1>4, <2>1
    <2> QED
      BY Zenon, <1>1, <1>7, <2>2, <2>3, <2>5, <2>6, <2>7, <2>8 DEF IInv
  <1> QED
    BY Zenon, <1>8, <1>9

(* The end of a build, and NewRoleDAG.                                      *)
LEMMA EndKeeps ==
  ASSUME IInv, FinishBuild \/ NewRoleDAG
  PROVE  IInv'
  <1>1. CASE FinishBuild
    <2>1. /\ table' = table /\ source' = source /\ pending' = pending /\ adj' = adj /\ closure' = closure
          /\ stage = "building" /\ pending = <<>> /\ stage' = "built"
      BY <1>1 DEF FinishBuild
    <2>2. "building" # "idle" /\ "built" # "idle" /\ "built" # "failed"
      OBVIOUS
    <2>3. source' = "table" => Edges(adj') \cup Range(pending') = table'
      BY Zenon, <2>1, <2>2 DEF IInv
    <2>4. IInv!1' /\ IInv!2' /\ IInv!5'
      BY Zenon, <2>1 DEF IInv
    <2>5. IInv!3' /\ IInv!4'
      BY Zenon, <2>1, <2>2 DEF IInv
    <2> QED
      BY Zenon, <2>1, <2>2, <2>3, <2>4, <2>5 DEF IInv
  <1>2. CASE NewRoleDAG
    <2>1. /\ table' = table /\ pending' = pending /\ adj' = NoEdges /\ closure' = NoClosure
          /\ stage \in {"built", "failed"} /\ stage' = "idle"
      BY <1>2 DEF NewRoleDAG
    <2>2. stage # "building" /\ "idle" # "failed"
      BY <2>1
    <2>3. pending' = <<>> /\ pending' \in Seq(Pairs)
      BY Zenon, <2>1, <2>2 DEF IInv
    <2>4. adj' \in Graphs /\ Edges(adj') = {} /\ Acyclic(Edges(adj'))
      BY Zenon, <2>1, NoEdgesNone, NothingBelow
    <2>5. \A r \in Roles : closure'[r] = {}
      BY Zenon, <2>1 DEF NoClosure
    <2>6. \A r \in Roles : closure'[r] \in SUBSET Roles /\ {r} \cup closure'[r] = {r} \cup Below(Edges(adj'), r)
      BY Zenon, <2>4, <2>5, NothingBelow
    <2>7. table' \in SUBSET Pairs /\ Acyclic(table')
      BY Zenon, <2>1 DEF IInv
    <2> QED
      BY Zenon, <2>1, <2>2, <2>3, <2>4, <2>6, <2>7 DEF IInv
  <1> QED
    BY Zenon, <1>1, <1>2

(* Every step of the storage and of the engine keeps the invariant.         *)
LEMMA NextIInv ==
  IInv /\ [RoleNext]_roleVars => IInv'
  <1> SUFFICES ASSUME IInv, [RoleNext]_roleVars PROVE IInv'
    OBVIOUS
  <1>1. CASE Submit
    BY Zenon, <1>1, ReplaceKeeps, BuildKeeps DEF Submit
  <1>2. CASE BuildFromTable
    BY Zenon, <1>2, BuildKeeps DEF BuildFromTable
  <1>3. CASE AddInheritance
    BY Zenon, <1>3, AddKeeps
  <1>4. CASE FinishBuild \/ NewRoleDAG
    BY Zenon, <1>4, EndKeeps
  <1>5. CASE UNCHANGED roleVars
    <2>1. /\ table' = table /\ stage' = stage /\ source' = source /\ pending' = pending
          /\ adj' = adj /\ closure' = closure
      BY <1>5 DEF roleVars
    <2> QED
      BY Zenon, <2>1 DEF IInv
  <1> QED
    BY Zenon, <1>1, <1>2, <1>3, <1>4, <1>5 DEF RoleNext

(* The rows, the graph and the pending pairs always satisfy IInv.           *)
LEMMA Invariant ==
  RoleSpec => []IInv
  BY InitIInv, NextIInv, PTL DEF RoleSpec

(* What IsDescendant and GetInheritedRoles answer is reachability in the    *)
(* graph added so far, for any roles and any pairs.                         *)
THEOREM ClosureCorrect ==
  RoleSpec => []ClosureIsReachability
  <1>1. IInv => ClosureIsReachability
    <2> SUFFICES ASSUME IInv, NEW r \in Roles
                 PROVE  /\ GetInheritedRoles(r) = {r} \cup Below(Edges(adj), r)
                        /\ GetInheritedRoles(r) = {q \in Roles : IsDescendant(r, q)}
      BY Zenon DEF ClosureIsReachability
    <2>1. closure[r] \in SUBSET Roles /\ {r} \cup closure[r] = {r} \cup Below(Edges(adj), r)
      BY Zenon DEF IInv
    <2> QED
      BY Zenon, <2>1 DEF GetInheritedRoles, IsDescendant
  <1> QED
    BY <1>1, Invariant, PTL

(* Every list replaceRoleInheritances committed can be built by             *)
(* buildTenantTrie, in any order of the rows, and gives back the rows.      *)
THEOREM StoredHierarchyLoads ==
  RoleSpec => []StoredHierarchyBuilds
  <1>1. IInv => StoredHierarchyBuilds
    <2> SUFFICES ASSUME IInv, source = "table"
                 PROVE  stage # "failed" /\ (stage = "built" => Edges(adj) = table)
      BY Zenon DEF StoredHierarchyBuilds
    <2>1. stage # "failed"
      BY Zenon DEF IInv
    <2>2. ASSUME stage = "built" PROVE Edges(adj) = table
      <3>1. stage # "idle" /\ stage # "building"
        BY <2>2
      <3>2. pending = <<>> /\ Edges(adj) \cup Range(pending) = table
        BY Zenon, <3>1 DEF IInv
      <3>3. Range(<<>>) = {}
        BY DEF Range
      <3> QED
        BY Zenon, <3>2, <3>3
    <2> QED
      BY Zenon, <2>1, <2>2
  <1> QED
    BY <1>1, Invariant, PTL

(* The graph the engine answers from, and the rows it is built from, never  *)
(* have a cycle, whoever calls AddInheritance.                              *)
THEOREM NeverCyclic ==
  RoleSpec => [](Acyclic(Edges(adj)) /\ Acyclic(table))
  <1>1. IInv => Acyclic(Edges(adj)) /\ Acyclic(table)
    BY Zenon DEF IInv
  <1> QED
    BY <1>1, Invariant, PTL

-----------------------------------------------------------------------------

(* Every step of the engine is one of the hierarchy or leaves it alone.     *)
LEMMA EngineRoleStep ==
  ASSUME [EngineNext]_engineVars
  PROVE  [RoleNext]_roleVars
  <1>1. CASE BuildStep
    BY Zenon, <1>1 DEF BuildStep, RoleNext
  <1>2. CASE AbandonBuild
    BY Zenon, <1>2 DEF AbandonBuild, RoleNext
  <1>3. CASE InstallBuilt
    BY Zenon, <1>3 DEF InstallBuilt, RoleNext
  <1>4. CASE ServeBetween
    BY Zenon, <1>4 DEF ServeBetween
  <1>5. CASE UNCHANGED engineVars
    BY Zenon, <1>5 DEF engineVars
  <1> QED
    BY Zenon, <1>1, <1>2, <1>3, <1>4, <1>5 DEF EngineNext

(* The closure is a function of the roles, as a hierarchy of Decision is.   *)
LEMMA ClosureIsFunction ==
  RoleSpec => [](closure \in [Roles -> SUBSET Roles])
  <1> DEFINE Fun == closure = [r \in Roles |-> closure[r]]
  <1>1. RoleInit => Fun
    BY DEF RoleInit, NoClosure
  <1>2. Fun /\ [RoleNext]_roleVars => Fun'
    <2>1. ASSUME Fun, [RoleNext]_roleVars
          PROVE  closure' = closure \/ closure' = NoClosure
                 \/ \E a : closure' = RebuildTransitiveClosure(a)
      BY Zenon, <2>1 DEF RoleNext, roleVars, Submit, ReplaceRoleInheritances,
         BuildFromCaller, BuildFromTable, AddInheritance, FinishBuild, NewRoleDAG
    <2>2. NoClosure = [r \in Roles |-> NoClosure[r]]
      BY DEF NoClosure
    <2>3. \A a : RebuildTransitiveClosure(a) = [r \in Roles |-> RebuildTransitiveClosure(a)[r]]
      BY DEF RebuildTransitiveClosure
    <2> QED
      BY Zenon, <2>1, <2>2, <2>3
  <1>3. IInv /\ Fun => closure \in [Roles -> SUBSET Roles]
    <2>1. IInv => \A r \in Roles : closure[r] \in SUBSET Roles
      BY Zenon DEF IInv
    <2> QED
      BY <2>1
  <1> HIDE DEF Fun
  <1> QED
    BY <1>1, <1>2, <1>3, Invariant, PTL DEF RoleSpec

(* buildTenantTrie joins the two parts and breaks neither: a behaviour of   *)
(* the engine is one of RoleDAG, and one of Decision in which every         *)
(* hierarchy that is installed is a closure RoleDAG built.                  *)
THEOREM Composition ==
  EngineSpec => RoleSpec /\ Spec
  <1>1. EngineInit => RoleInit /\ Init
    BY Zenon DEF EngineInit
  <1>2. closure \in [Roles -> SUBSET Roles] /\ [EngineNext]_engineVars => [Next]_vars
    <2> SUFFICES ASSUME closure \in [Roles -> SUBSET Roles], [EngineNext]_engineVars
                 PROVE  [Next]_vars
      OBVIOUS
    <2>1. CASE BuildStep \/ AbandonBuild
      BY Zenon, <2>1 DEF BuildStep, AbandonBuild
    <2>2. CASE InstallBuilt
      <3>1. closure \in Hierarchies
        BY Zenon, EngineAssumption
      <3> QED
        BY Zenon, <2>2, <3>1 DEF InstallBuilt, Next, Install
    <2>3. CASE ServeBetween
      BY Zenon, <2>3 DEF ServeBetween, Next
    <2>4. CASE UNCHANGED engineVars
      BY Zenon, <2>4 DEF engineVars
    <2> QED
      BY Zenon, <2>1, <2>2, <2>3, <2>4 DEF EngineNext
  <1>3. EngineSpec => RoleSpec
    BY <1>1, EngineRoleStep, PTL DEF EngineSpec, RoleSpec
  <1> QED
    BY <1>1, <1>2, <1>3, ClosureIsFunction, PTL DEF EngineSpec, Spec

===============================================================================
