---------------------------- MODULE DecisionProofs ----------------------------
(***************************************************************************)
(* The index and the verdict, for any subjects, actions, resources, rule   *)
(* sets of any length, hierarchies and simulations.                        *)
(***************************************************************************)
EXTENDS Decision, FiniteSetTheorems, WellFoundedInduction, TLAPS

-----------------------------------------------------------------------------
(* Loops.                                                                   *)

(* Every set of positions has a first one.                                  *)
LEMMA Least ==
  ASSUME NEW T \in SUBSET Nat, T # {}
  PROVE  \E x \in T : \A y \in T : ~(y < x)
  <1> DEFINE R == OpToRel(<, Nat)
  <1>1. IsWellFoundedOn(R, Nat)
    BY NatLessThanWellFounded
  <1>2. \A x, y \in Nat : y < x => <<y, x>> \in R
    BY DEF OpToRel
  <1> HIDE DEF R
  <1>3. \E x \in T : \A y \in T : ~(<<y, x>> \in R)
    BY <1>1, WFMin
  <1> QED
    BY <1>2, <1>3

(* Induction, over a set of numbers.                                        *)
LEMMA Induction ==
  ASSUME NEW S \in SUBSET Nat, 0 \in S, \A n \in S : n + 1 \in S
  PROVE  S = Nat
  <1> DEFINE T == Nat \ S
  <1>1. SUFFICES ASSUME T # {} PROVE FALSE
    BY Zenon
  <1>2. PICK x \in T : \A y \in T : ~(y < x)
    BY <1>1, Least
  <1>3. x - 1 \in Nat /\ x - 1 < x
    BY <1>2
  <1>4. x - 1 \in S
    BY <1>2, <1>3
  <1> QED
    BY <1>2, <1>3, <1>4

(* Induction up to the last row or role.                                    *)
LEMMA UpTo ==
  ASSUME NEW N \in Nat, NEW S \in SUBSET (0 .. N), 0 \in S, \A n \in S : n < N => n + 1 \in S
  PROVE  N \in S
  <1> DEFINE T == {n \in Nat : n <= N => n \in S}
  <1>1. T \in SUBSET Nat /\ 0 \in T /\ \A n \in T : n + 1 \in T
    OBVIOUS
  <1>2. T = Nat
    BY <1>1, Induction
  <1> QED
    BY <1>2

(* g[n] is the state of a loop over N rows or roles after n of them.        *)
Loop(g, X, base, N, step) ==
  g \in [0 .. N -> X] /\ g[0] = base /\ \A n \in 1 .. N : g[n] = step[n][g[n - 1]]

(* Every such loop is defined.                                              *)
LEMMA Recursion ==
  ASSUME NEW X, NEW base \in X, NEW N \in Nat, NEW step \in [1 .. N -> [X -> X]]
  PROVE  \E g : Loop(g, X, base, N, step)
  <1> DEFINE Ok(m, g) == g \in [0 .. m -> X] /\ g[0] = base /\ \A n \in 1 .. m : g[n] = step[n][g[n - 1]]
             S == {m \in 0 .. N : \E g : Ok(m, g)}
  <1>1. ASSUME NEW m \in 0 .. N, m < N, NEW g, Ok(m, g) PROVE \E h : Ok(m + 1, h)
    <2> DEFINE last == step[m + 1][g[m]]
               h == [n \in 0 .. (m + 1) |-> IF n = m + 1 THEN last ELSE g[n]]
    <2>1. last \in X
      BY <1>1
    <2> HIDE DEF last
    <2>2. h \in [0 .. (m + 1) -> X] /\ h[m + 1] = last
      BY <1>1, <2>1
    <2>3. \A n \in 0 .. m : h[n] = g[n]
      BY <1>1
    <2> HIDE DEF h
    <2>4. h[0] = base
      BY <1>1, <2>3
    <2>5. \A n \in 1 .. m : h[n] = step[n][h[n - 1]]
      <3> TAKE n \in 1 .. m
      <3>1. n \in 0 .. m /\ n - 1 \in 0 .. m
        BY <1>1
      <3> QED
        BY Zenon, <1>1, <2>3, <3>1
    <2>6. h[m + 1] = step[m + 1][h[m]] /\ (m + 1) - 1 = m
      BY <1>1, <2>2, <2>3 DEF last
    <2>7. \A n \in 1 .. (m + 1) : n \in 1 .. m \/ n = m + 1
      BY <1>1
    <2>8. \A n \in 1 .. (m + 1) : h[n] = step[n][h[n - 1]]
      BY Zenon, <2>5, <2>6, <2>7
    <2> QED
      BY Zenon, <2>2, <2>4, <2>8
  <1>2. Ok(0, [n \in 0 .. 0 |-> base])
    OBVIOUS
  <1> HIDE DEF Ok
  <1>3. 0 \in S /\ \A m \in S : m < N => m + 1 \in S
    <2>1. 0 \in S
      BY <1>2
    <2>2. ASSUME NEW m \in S, m < N PROVE m + 1 \in S
      <3>1. m + 1 \in 0 .. N
        BY <2>2
      <3> QED
        BY Zenon, <1>1, <2>2, <3>1
    <2> QED
      BY Zenon, <2>1, <2>2
  <1>4. N \in S
    <2>1. S \in SUBSET (0 .. N)
      BY Zenon
    <2> HIDE DEF S
    <2> QED
      BY Zenon, <1>3, <2>1, UpTo
  <1>5. \E g : Ok(N, g)
    BY Zenon, <1>4
  <1> QED
    BY Zenon, <1>5 DEF Ok, Loop

-----------------------------------------------------------------------------
(* How often a policy is in a list.                                         *)

(* In no list infinitely often, and at least once if at all.                *)
LEMMA TimesType ==
  ASSUME NEW S, NEW s \in Seq(S), NEW p
  PROVE  /\ Times(p, s) \in Nat
         /\ Times(p, s) # 0 <=> p \in Range(s)
         /\ IsFiniteSet({i \in DOMAIN s : s[i] = p})
  <1>1. IsFiniteSet(DOMAIN s)
    <2>1. Len(s) \in Nat /\ DOMAIN s = 1 .. Len(s)
      OBVIOUS
    <2> QED
      BY <2>1, FS_Interval
  <1>2. IsFiniteSet({i \in DOMAIN s : s[i] = p})
    BY <1>1, FS_Subset
  <1>3. Times(p, s) \in Nat /\ (Times(p, s) = 0 <=> {i \in DOMAIN s : s[i] = p} = {})
    BY Zenon, <1>2, FS_CardinalityType, FS_EmptySet DEF Times
  <1>4. {i \in DOMAIN s : s[i] = p} = {} <=> p \notin Range(s)
    BY DEF Range
  <1> QED
    BY Zenon, <1>2, <1>3, <1>4

(* One more row.                                                            *)
LEMMA TimesAppend ==
  ASSUME NEW S, NEW s \in Seq(S), NEW q \in S, NEW p
  PROVE  Times(p, Append(s, q)) = Times(p, s) + (IF p = q THEN 1 ELSE 0)
  <1> DEFINE g == Append(s, q)  n == Len(s) + 1  D == {i \in DOMAIN s : s[i] = p}
             E == {i \in DOMAIN g : g[i] = p}
  <1>1. /\ DOMAIN g = DOMAIN s \cup {n} /\ n \notin DOMAIN s
        /\ g[n] = q /\ \A i \in DOMAIN s : g[i] = s[i]
    OBVIOUS
  <1>2. IsFiniteSet(D) /\ Cardinality(D) \in Nat
    BY TimesType DEF Times
  <1> HIDE DEF g, n
  <1>3. CASE p = q
    <2>1. E = D \cup {n} /\ n \notin D
      BY <1>1, <1>3
    <2>2. Cardinality(E) = Cardinality(D) + 1
      BY <1>2, <2>1, FS_AddElement
    <2> QED
      BY <1>3, <2>2 DEF Times, g
  <1>4. CASE p # q
    <2>1. E = D
      BY <1>1, <1>4
    <2>2. Times(p, Append(s, q)) = Times(p, s) /\ Times(p, s) \in Nat
      BY Zenon, <1>2, <2>1 DEF Times, g
    <2> QED
      BY <1>4, <2>2
  <1> QED
    BY Zenon, <1>3, <1>4

(* Two lists joined.                                                        *)
LEMMA TimesJoin ==
  ASSUME NEW S, NEW s \in Seq(S), NEW t \in Seq(S), NEW p
  PROVE  Times(p, s \o t) = Times(p, s) + Times(p, t)
  <1> DEFINE g == s \o t  n == Len(s)  m == Len(t)
             D == {i \in DOMAIN s : s[i] = p}
             E == {i \in DOMAIN t : t[i] = p}
             F == {i \in (n + 1) .. (n + m) : g[i] = p}
  <1>1. /\ n \in Nat /\ m \in Nat /\ DOMAIN s = 1 .. n /\ DOMAIN t = 1 .. m /\ DOMAIN g = 1 .. (n + m)
        /\ \A i \in 1 .. n : g[i] = s[i]
        /\ \A i \in 1 .. m : g[n + i] = t[i]
        /\ \A i \in (n + 1) .. (n + m) : i - n \in 1 .. m /\ g[i] = t[i - n]
    OBVIOUS
  <1> HIDE DEF g, n, m
  <1>2. IsFiniteSet(D) /\ IsFiniteSet(E)
    BY TimesType
  <1>3. {i \in DOMAIN g : g[i] = p} = D \cup F /\ D \cap F = {}
    BY <1>1
  <1>4. IsFiniteSet(F) /\ Cardinality(F) = Cardinality(E)
    <2> DEFINE f == [i \in E |-> n + i]
    <2>1. f \in [E -> F]
      BY <1>1
    <2>2. \A x, y \in E : f[x] = f[y] => x = y
      BY <1>1
    <2>3. \A y \in F : y - n \in E /\ f[y - n] = y
      BY <1>1
    <2>4. f \in Bijection(E, F)
      <3> HIDE DEF E, F, f
      <3> QED
        BY Zenon, <2>1, <2>2, <2>3 DEF Bijection, Injection, Surjection, IsInjective
    <2> HIDE DEF E, F, f
    <2> QED
      BY Zenon, <1>2, <2>4, FS_Bijection DEF ExistsBijection
  <1>5. Cardinality(D \cup F) = Cardinality(D) + Cardinality(F)
    <2>1. Cardinality(D \cup F) = Cardinality(D) + Cardinality(F) - Cardinality(D \cap F)
      BY Zenon, <1>2, <1>4, FS_Union
    <2>2. Cardinality(D \cap F) = 0 /\ Cardinality(D) \in Nat /\ Cardinality(F) \in Nat
      BY <1>2, <1>3, <1>4, FS_EmptySet, FS_CardinalityType
    <2> HIDE DEF D, F
    <2> QED
      BY <2>1, <2>2
  <1> QED
    BY Zenon, <1>3, <1>4, <1>5 DEF Times, g

-----------------------------------------------------------------------------
(* The index.                                                               *)

(* Every policy is filed once for each time it was published, and only      *)
(* where its scopes say.                                                    *)
Indexed(t, held) ==
  /\ \A p \in Policies : InGlobalPartition(p) => Times(p, t.globals) = Times(p, held)
  /\ \A p \in Policies : ~InGlobalPartition(p) => Times(p, t.leaf[LeafKey(p)]) = Times(p, held)
  /\ \A p \in Range(t.globals) : InGlobalPartition(p)
  /\ \A k \in Keys : \A p \in Range(t.leaf[k]) : LeafKey(p) = k /\ ~InGlobalPartition(p)

(* The list of a subject's roles is its closure, without repetition.        *)
RolesListed(t, h) ==
  \A s \in Subjects : IsInjective(t.roles[s]) /\ Range(t.roles[s]) = {s} \cup h[s]

(* The scopes of a policy lead to a leaf.                                   *)
LEMMA LeafKeys ==
  ASSUME NEW p \in Policies
  PROVE  /\ p \in Policy /\ LeafKey(p) \in Keys
         /\ LeafKey(p)[1] = p.principal /\ LeafKey(p)[2] = p.resource /\ LeafKey(p)[3] = p.action
  BY PoliciesAssumption DEF Policy, LeafKey, Keys

(* What append leaves in a list of policies.                                *)
LEMMA RangeAppend ==
  ASSUME NEW S, NEW s \in Seq(S), NEW e \in S
  PROVE  Append(s, e) \in Seq(S) /\ \A x \in Range(Append(s, e)) : x \in Range(s) \/ x = e
  <1> DEFINE g == Append(s, e)  n == Len(s) + 1
  <1>1. /\ g \in Seq(S) /\ DOMAIN g = DOMAIN s \cup {n}
        /\ g[n] = e /\ \A i \in DOMAIN s : g[i] = s[i]
    OBVIOUS
  <1> HIDE DEF g, n
  <1>2. \A x \in Range(g) : x \in Range(s) \/ x = e
    BY Zenon, <1>1 DEF Range
  <1> QED
    BY Zenon, <1>1, <1>2 DEF g

(* AddPolicy gives an index again.                                          *)
LEMMA AddPolicyType ==
  ASSUME NEW t \in Tries, NEW p \in Policies
  PROVE  AddPolicy(t, p) \in Tries
  <1>1. t.globals \in Seq(Policies) /\ t.leaf \in [Keys -> Seq(Policies)]
    BY DEF Tries
  <1>2. Append(t.globals, p) \in Seq(Policies)
    BY Zenon, <1>1, RangeAppend
  <1>3. LeafKey(p) \in Keys /\ Append(t.leaf[LeafKey(p)], p) \in Seq(Policies)
    BY Zenon, <1>1, LeafKeys, RangeAppend
  <1> QED
    BY <1>1, <1>2, <1>3 DEF AddPolicy, Tries

(* AddPolicy files one more.                                                *)
LEMMA AddPolicyIndexes ==
  ASSUME NEW t \in Tries, NEW held \in Seq(Policies), NEW p \in Policies, Indexed(t, held)
  PROVE  /\ AddPolicy(t, p) \in Tries
         /\ AddPolicy(t, p).roles = t.roles /\ AddPolicy(t, p).revision = t.revision
         /\ Indexed(AddPolicy(t, p), Append(held, p))
  <1> DEFINE u == AddPolicy(t, p)  more == Append(held, p)
  <1>0. t.globals \in Seq(Policies) /\ t.leaf \in [Keys -> Seq(Policies)]
    BY DEF Tries
  <1>1. \A q \in Policies : Times(q, more) = Times(q, held) + (IF q = p THEN 1 ELSE 0)
    BY TimesAppend
  <1>2. \A q \in Policies : q # p => Times(q, more) = Times(q, held)
    <2>1. \A q : Times(q, held) \in Nat
      BY Zenon, TimesType
    <2> QED
      BY <1>1, <2>1
  <1>3. CASE InGlobalPartition(p)
    <2> DEFINE g == Append(t.globals, p)
    <2>1. g \in Seq(Policies) /\ \A x \in Range(g) : x \in Range(t.globals) \/ x = p
      BY Zenon, <1>0, RangeAppend
    <2>2. u = [t EXCEPT !.globals = g]
      BY Zenon, <1>3 DEF AddPolicy
    <2>3. \A q \in Policies : Times(q, g) = Times(q, t.globals) + (IF q = p THEN 1 ELSE 0)
      BY <1>0, TimesAppend
    <2> HIDE DEF g, u
    <2>4. u \in Tries /\ u.globals = g /\ u.leaf = t.leaf /\ u.roles = t.roles /\ u.revision = t.revision
      BY <2>1, <2>2 DEF Tries
    <2>5. \A q \in Policies : InGlobalPartition(q) => Times(q, u.globals) = Times(q, more)
      BY Zenon, <1>1, <2>3, <2>4 DEF Indexed
    <2>6. \A q \in Policies : ~InGlobalPartition(q) => Times(q, u.leaf[LeafKey(q)]) = Times(q, more)
      BY Zenon, <1>2, <1>3, <2>4 DEF Indexed
    <2>7. \A q \in Range(u.globals) : InGlobalPartition(q)
      BY Zenon, <1>3, <2>1, <2>4 DEF Indexed
    <2>8. Indexed(u, more)
      BY Zenon, <2>4, <2>5, <2>6, <2>7 DEF Indexed
    <2> QED
      BY Zenon, <2>4, <2>8 DEF u
  <1>4. CASE ~InGlobalPartition(p)
    <2> DEFINE k == LeafKey(p)  g == Append(t.leaf[k], p)
    <2>0. k \in Keys /\ t.leaf[k] \in Seq(Policies)
      BY <1>0, LeafKeys
    <2>1. g \in Seq(Policies) /\ \A x \in Range(g) : x \in Range(t.leaf[k]) \/ x = p
      BY Zenon, <2>0, RangeAppend
    <2>2. u = [t EXCEPT !.leaf[k] = g]
      BY Zenon, <1>4 DEF AddPolicy
    <2>3. \A q \in Policies : Times(q, g) = Times(q, t.leaf[k]) + (IF q = p THEN 1 ELSE 0)
      BY <2>0, TimesAppend
    <2> HIDE DEF g, u, k
    <2>4. /\ u \in Tries /\ u.globals = t.globals /\ u.roles = t.roles /\ u.revision = t.revision
          /\ u.leaf[k] = g /\ \A j \in Keys : j # k => u.leaf[j] = t.leaf[j]
      BY <2>0, <2>1, <2>2 DEF Tries
    <2>5. \A q \in Policies : InGlobalPartition(q) => Times(q, u.globals) = Times(q, more)
      BY Zenon, <1>2, <1>4, <2>4 DEF Indexed
    <2>6. \A q \in Policies : ~InGlobalPartition(q) => Times(q, u.leaf[LeafKey(q)]) = Times(q, more)
      <3> TAKE q \in Policies
      <3> HAVE ~InGlobalPartition(q)
      <3>1. CASE LeafKey(q) = k
        BY Zenon, <1>1, <2>3, <2>4, <3>1 DEF Indexed
      <3>2. CASE LeafKey(q) # k
        BY Zenon, <1>2, <2>4, <3>2, LeafKeys DEF Indexed, k
      <3> QED
        BY Zenon, <3>1, <3>2
    <2>7. \A j \in Keys : \A q \in Range(u.leaf[j]) : LeafKey(q) = j /\ ~InGlobalPartition(q)
      <3> TAKE j \in Keys
      <3>1. CASE j = k
        BY Zenon, <1>4, <2>0, <2>1, <2>4, <3>1 DEF Indexed, k
      <3>2. CASE j # k
        BY Zenon, <2>4, <3>2 DEF Indexed
      <3> QED
        BY Zenon, <3>1, <3>2
    <2>8. Indexed(u, more)
      BY Zenon, <2>4, <2>5, <2>6, <2>7 DEF Indexed
    <2> QED
      BY Zenon, <2>4, <2>8 DEF u
  <1> QED
    BY Zenon, <1>3, <1>4

(* The rows before and including the n-th.                                  *)
Rows(ps, n) == [i \in 1 .. n |-> ps[i]]

(* One more row.                                                            *)
LEMMA RowsAppend ==
  ASSUME NEW ps \in Seq(Policies), NEW n \in 0 .. Len(ps)
  PROVE  /\ Rows(ps, n) \in Seq(Policies) /\ Rows(ps, 0) = <<>> /\ Rows(ps, Len(ps)) = ps
         /\ n < Len(ps) => ps[n + 1] \in Policies /\ Rows(ps, n + 1) = Append(Rows(ps, n), ps[n + 1])
  <1>1. Rows(ps, n) \in Seq(Policies) /\ Rows(ps, 0) = <<>> /\ Rows(ps, Len(ps)) = ps
    BY DEF Rows
  <1>2. ASSUME n < Len(ps) PROVE ps[n + 1] \in Policies /\ Rows(ps, n + 1) = Append(Rows(ps, n), ps[n + 1])
    BY <1>2 DEF Rows
  <1> QED
    BY Zenon, <1>1, <1>2

(* No policy is in an empty list.                                           *)
LEMMA TimesNone == Range(<<>>) = {} /\ \A p : Times(p, <<>>) = 0
  <1>1. Range(<<>>) = {}
    BY DEF Range
  <1>2. <<>> \in Seq({})
    OBVIOUS
  <1> QED
    BY Zenon, <1>1, <1>2, TimesType

(* A new index is empty.                                                    *)
LEMMA NewIsIndexed ==
  ASSUME NEW roles \in [Subjects -> Seq(Subjects)], NEW revision \in Nat,
         NEW t, t = NewTrieRoot(roles, revision)
  PROVE  t \in Tries /\ t.roles = roles /\ t.revision = revision /\ Indexed(t, <<>>)
  <1> DEFINE none == [k \in Keys |-> <<>>]
  <1>1. <<>> \in Seq(Policies)
    OBVIOUS
  <1>2. none \in [Keys -> Seq(Policies)] /\ \A k \in Keys : none[k] = <<>>
    BY Zenon, <1>1
  <1>3. t = [leaf |-> none, globals |-> <<>>, roles |-> roles, revision |-> revision]
    BY Zenon DEF NewTrieRoot
  <1> HIDE DEF none
  <1>4. t \in Tries /\ t.leaf = none /\ t.globals = <<>> /\ t.roles = roles /\ t.revision = revision
    BY <1>1, <1>2, <1>3 DEF Tries
  <1> QED
    BY Zenon, <1>2, <1>4, TimesNone, LeafKeys DEF Indexed

(* An index of a rule set, with its roles and its revision.                 *)
BuiltFrom(t, ps, roles, revision) ==
  t \in Tries /\ t.roles = roles /\ t.revision = revision /\ Indexed(t, ps)

(* BuildTenantTrie files the whole rule set.                                *)
LEMMA Builds ==
  ASSUME NEW ps \in Seq(Policies), NEW roles \in [Subjects -> Seq(Subjects)], NEW revision \in Nat
  PROVE  BuiltFrom(BuildTenantTrie(ps, roles, revision), ps, roles, revision)
  <1> DEFINE t == BuildTenantTrie(ps, roles, revision)
             N == Len(ps)
             empty == NewTrieRoot(roles, revision)
             Eq(g) == g = [n \in 0 .. N |-> IF n = 0 THEN empty ELSE AddPolicy(g[n - 1], ps[n])]
             built == CHOOSE g : Eq(g)
             step == [n \in 1 .. N |-> [u \in Tries |-> AddPolicy(u, ps[n])]]
             Good(u, n) == /\ u \in Tries /\ u.roles = roles /\ u.revision = revision
                           /\ Indexed(u, Rows(ps, n))
  <1>0. N \in Nat /\ \A n \in 1 .. N : ps[n] \in Policies
    OBVIOUS
  <1>1. t = built[N]
    BY Zenon DEF BuildTenantTrie
  <1> HIDE DEF t
  <1>2. /\ empty \in Tries /\ empty.roles = roles /\ empty.revision = revision /\ Indexed(empty, <<>>)
    BY Zenon, NewIsIndexed
  <1> HIDE DEF empty, N
  <1>3. step \in [1 .. N -> [Tries -> Tries]]
    BY Zenon, <1>0, AddPolicyType
  <1>4. \E g : Eq(g)
    <2>1. PICK g : /\ g \in [0 .. N -> Tries] /\ g[0] = empty
                   /\ \A n \in 1 .. N : g[n] = step[n][g[n - 1]]
      <3> HIDE DEF step
      <3>1. \E g : Loop(g, Tries, empty, N, step)
        BY Zenon, <1>0, <1>2, <1>3, Recursion
      <3> QED
        BY Zenon, <3>1 DEF Loop
    <2>2. \A n \in 1 .. N : g[n] = AddPolicy(g[n - 1], ps[n])
      <3> TAKE n \in 1 .. N
      <3>1. n - 1 \in 0 .. N
        BY <1>0
      <3>2. g[n - 1] \in Tries
        BY Zenon, <2>1, <3>1
      <3> QED
        BY Zenon, <2>1, <3>2
    <2>3. \A n \in 0 .. N : n = 0 \/ n \in 1 .. N
      BY <1>0
    <2>4. Eq(g)
      BY Zenon, <2>1, <2>2, <2>3
    <2> QED
      BY Zenon, <2>4
  <1>5. Eq(built)
    <2> HIDE DEF Eq
    <2> QED
      BY Zenon, <1>4
  <1>6. /\ built[0] = empty
        /\ \A n \in 0 .. N : n < N => built[n + 1] = AddPolicy(built[n], ps[n + 1]) /\ n + 1 \in 0 .. N
    <2> HIDE DEF built
    <2>1. 0 \in 0 .. N
      BY <1>0
    <2>2. built[0] = empty
      BY Zenon, <1>5, <2>1
    <2>3. ASSUME NEW n \in 0 .. N, n < N
          PROVE  built[n + 1] = AddPolicy(built[n], ps[n + 1]) /\ n + 1 \in 0 .. N
      <3>1. n + 1 \in 0 .. N /\ n + 1 # 0 /\ (n + 1) - 1 = n
        BY <1>0, <2>3
      <3> QED
        BY Zenon, <1>5, <3>1
    <2> QED
      BY Zenon, <2>2, <2>3
  <1> HIDE DEF built
  <1> DEFINE S == {n \in 0 .. N : Good(built[n], n)}
  <1>7. 0 \in S
    <2>1. 0 \in 0 .. N /\ Rows(ps, 0) = <<>>
      BY <1>0 DEF Rows
    <2> QED
      BY Zenon, <1>2, <1>6, <2>1
  <1>8. ASSUME NEW n \in S, n < N PROVE n + 1 \in S
    <2>1. n \in 0 .. Len(ps) /\ n < Len(ps) /\ Good(built[n], n)
      BY Zenon, <1>8 DEF N
    <2>2. ps[n + 1] \in Policies /\ Rows(ps, n) \in Seq(Policies)
          /\ Rows(ps, n + 1) = Append(Rows(ps, n), ps[n + 1])
      BY Zenon, <2>1, RowsAppend
    <2>3. built[n + 1] = AddPolicy(built[n], ps[n + 1]) /\ n + 1 \in 0 .. N
      BY Zenon, <1>6, <1>8
    <2>4. Good(built[n + 1], n + 1)
      <3> DEFINE u == built[n]  p == ps[n + 1]
      <3>1. u \in Tries /\ u.roles = roles /\ u.revision = revision /\ Indexed(u, Rows(ps, n))
        BY Zenon, <2>1
      <3> HIDE DEF u, p
      <3>2. /\ AddPolicy(u, p) \in Tries
            /\ AddPolicy(u, p).roles = u.roles /\ AddPolicy(u, p).revision = u.revision
            /\ Indexed(AddPolicy(u, p), Append(Rows(ps, n), p))
        BY Zenon, <2>2, <3>1, AddPolicyIndexes DEF p
      <3> QED
        BY Zenon, <2>2, <2>3, <3>1, <3>2 DEF u, p
    <2> QED
      BY Zenon, <2>3, <2>4
  <1>9. N \in S
    <2>1. S \in SUBSET (0 .. N)
      BY Zenon
    <2> HIDE DEF S
    <2> QED
      BY Zenon, <1>0, <1>7, <1>8, <2>1, UpTo
  <1>10. Good(built[N], N) /\ Rows(ps, N) = ps
    <2>1. Rows(ps, N) = ps
      BY DEF Rows, N
    <2> QED
      BY Zenon, <1>9, <2>1
  <1> QED
    BY Zenon, <1>1, <1>10 DEF BuiltFrom, t

-----------------------------------------------------------------------------
(* The lookup.                                                              *)

(* A leaf holds all of a policy that belongs there and none of any other.   *)
LEMMA LeafTimes ==
  ASSUME NEW t \in Tries, NEW held \in Seq(Policies), Indexed(t, held), NEW p \in Policies, NEW k \in Keys
  PROVE  /\ t.leaf[k] \in Seq(Policies)
         /\ Times(p, t.leaf[k]) = IF LeafKey(p) = k /\ ~InGlobalPartition(p) THEN Times(p, held) ELSE 0
  <1>1. t.leaf[k] \in Seq(Policies)
    BY DEF Tries
  <1>2. CASE LeafKey(p) = k /\ ~InGlobalPartition(p)
    BY Zenon, <1>1, <1>2 DEF Indexed
  <1>3. CASE ~(LeafKey(p) = k /\ ~InGlobalPartition(p))
    <2>1. p \notin Range(t.leaf[k])
      BY Zenon, <1>3 DEF Indexed
    <2>2. Times(p, t.leaf[k]) = 0
      BY Zenon, <1>1, <2>1, TimesType
    <2> QED
      BY Zenon, <1>1, <1>3, <2>2
  <1> QED
    BY Zenon, <1>2, <1>3

(* The resource and the action of a policy match those of a request.        *)
Below(p, req) == p.resource \in {req.resource, AnyKey} /\ p.action \in {req.action, AnyKey}

(* Below a subject the lookup meets every leaf that matches, each once.     *)
LEMMA SubjectTimes ==
  ASSUME NEW t \in Tries, NEW held \in Seq(Policies), Indexed(t, held), NEW p \in Policies,
         NEW s \in Subjects \cup {AnyKey}, NEW req \in Requests
  PROVE  /\ LookupSubject(t, s, req) \in Seq(Policies)
         /\ Times(p, LookupSubject(t, s, req)) =
              IF p.principal = s /\ Below(p, req) /\ ~InGlobalPartition(p) THEN Times(p, held) ELSE 0
  <1> DEFINE k1 == <<s, req.resource, req.action>>  k2 == <<s, req.resource, AnyKey>>
             k3 == <<s, AnyKey, req.action>>        k4 == <<s, AnyKey, AnyKey>>
             Has(k) == LeafKey(p) = k /\ ~InGlobalPartition(p)
             c == Times(p, held)
  <1>1. req.resource \in Resources /\ req.action \in Actions /\ req.resource # AnyKey /\ req.action # AnyKey
    BY AnyAssumption DEF Requests
  <1>2. k1 \in Keys /\ k2 \in Keys /\ k3 \in Keys /\ k4 \in Keys
    BY <1>1 DEF Keys
  <1>3. LeafKey(p) = <<p.principal, p.resource, p.action>>
    BY Zenon DEF LeafKey
  <1>4. /\ LeafKey(p) = k1 <=> p.principal = s /\ p.resource = req.resource /\ p.action = req.action
        /\ LeafKey(p) = k2 <=> p.principal = s /\ p.resource = req.resource /\ p.action = AnyKey
        /\ LeafKey(p) = k3 <=> p.principal = s /\ p.resource = AnyKey /\ p.action = req.action
        /\ LeafKey(p) = k4 <=> p.principal = s /\ p.resource = AnyKey /\ p.action = AnyKey
    BY <1>3
  <1>5. c \in Nat
    BY Zenon, TimesType
  <1> DEFINE l1 == t.leaf[k1]  l2 == t.leaf[k2]  l3 == t.leaf[k3]  l4 == t.leaf[k4]
  <1>6. LookupSubject(t, s, req) = ((l1 \o l2) \o l3) \o l4
    BY DEF LookupSubject
  <1>7. /\ l1 \in Seq(Policies) /\ Times(p, l1) = IF Has(k1) THEN c ELSE 0
        /\ l2 \in Seq(Policies) /\ Times(p, l2) = IF Has(k2) THEN c ELSE 0
        /\ l3 \in Seq(Policies) /\ Times(p, l3) = IF Has(k3) THEN c ELSE 0
        /\ l4 \in Seq(Policies) /\ Times(p, l4) = IF Has(k4) THEN c ELSE 0
    <2> HIDE DEF k1, k2, k3, k4
    <2> QED
      BY Zenon, <1>2, LeafTimes
  <1> HIDE DEF l1, l2, l3, l4
  <1>8. l1 \o l2 \in Seq(Policies) /\ (l1 \o l2) \o l3 \in Seq(Policies)
        /\ ((l1 \o l2) \o l3) \o l4 \in Seq(Policies)
    BY <1>7
  <1>9. Times(p, ((l1 \o l2) \o l3) \o l4) = ((Times(p, l1) + Times(p, l2)) + Times(p, l3)) + Times(p, l4)
    <2>1. Times(p, l1 \o l2) = Times(p, l1) + Times(p, l2)
      BY Zenon, <1>7, TimesJoin
    <2>2. Times(p, (l1 \o l2) \o l3) = Times(p, l1 \o l2) + Times(p, l3)
      BY Zenon, <1>7, <1>8, TimesJoin
    <2>3. Times(p, ((l1 \o l2) \o l3) \o l4) = Times(p, (l1 \o l2) \o l3) + Times(p, l4)
      BY Zenon, <1>7, <1>8, TimesJoin
    <2> QED
      BY Zenon, <2>1, <2>2, <2>3
  <1>10. \/ ~(p.principal = s /\ Below(p, req) /\ ~InGlobalPartition(p))
            /\ ~Has(k1) /\ ~Has(k2) /\ ~Has(k3) /\ ~Has(k4)
         \/ p.principal = s /\ Below(p, req) /\ ~InGlobalPartition(p)
            /\ \/ Has(k1) /\ ~Has(k2) /\ ~Has(k3) /\ ~Has(k4)
               \/ ~Has(k1) /\ Has(k2) /\ ~Has(k3) /\ ~Has(k4)
               \/ ~Has(k1) /\ ~Has(k2) /\ Has(k3) /\ ~Has(k4)
               \/ ~Has(k1) /\ ~Has(k2) /\ ~Has(k3) /\ Has(k4)
    BY Zenon, <1>1, <1>4 DEF Below
  <1> HIDE DEF Has, c
  <1>11. Times(p, ((l1 \o l2) \o l3) \o l4) =
           IF p.principal = s /\ Below(p, req) /\ ~InGlobalPartition(p) THEN c ELSE 0
    BY <1>5, <1>7, <1>9, <1>10
  <1> QED
    BY Zenon, <1>6, <1>8, <1>11 DEF c

(* A list of the subjects a request is looked up under, each once.          *)
Visits(list, req) ==
    /\ list \in Seq(Subjects \cup {AnyKey})
    /\ \A i, j \in 1 .. Len(list) : list[i] = list[j] => i = j
    /\ \A x : (\E i \in 1 .. Len(list) : list[i] = x)
               <=> x \in {req.subject, AnyKey} \cup hierarchy[req.subject]

(* The lookup goes through the subject, its roles and AnyKey, each once.    *)
LEMMA SubjectList ==
  ASSUME NEW t \in Tries, RolesListed(t, hierarchy), NEW req \in Requests
  PROVE  Visits(EnsureAny(t.roles[req.subject]), req)
  <1> DEFINE list == EnsureAny(t.roles[req.subject])
             roles == t.roles[req.subject]  n == Len(roles) + 1
  <1>1. req.subject \in Subjects /\ roles \in Seq(Subjects)
    BY DEF Requests, Tries
  <1>2. IsInjective(roles) /\ Range(roles) = {req.subject} \cup hierarchy[req.subject]
    BY Zenon, <1>1 DEF RolesListed
  <1> HIDE DEF roles
  <1>3. list = Append(roles, AnyKey)
    BY Zenon DEF EnsureAny, roles
  <1>4. /\ list \in Seq(Subjects \cup {AnyKey}) /\ 1 .. Len(list) = DOMAIN roles \cup {n}
        /\ list[n] = AnyKey /\ \A i \in DOMAIN roles : list[i] = roles[i] /\ roles[i] \in Subjects
    BY <1>1, <1>3
  <1>5. AnyKey \notin Subjects
    BY AnyAssumption
  <1> HIDE DEF n, list
  <1>6. \A i, j \in 1 .. Len(list) : list[i] = list[j] => i = j
    <2> TAKE i, j \in 1 .. Len(list)
    <2> HAVE list[i] = list[j]
    <2>1. \A k \in DOMAIN roles : list[k] # list[n]
      BY Zenon, <1>4, <1>5
    <2>2. CASE i \in DOMAIN roles /\ j \in DOMAIN roles
      <3>1. roles[i] = roles[j]
        BY Zenon, <1>4, <2>2
      <3> QED
        BY Zenon, <1>2, <2>2, <3>1 DEF IsInjective
    <2> QED
      BY Zenon, <1>4, <2>1, <2>2
  <1>7. \A x : (\E i \in 1 .. Len(list) : list[i] = x) <=> x = AnyKey \/ x \in Range(roles)
    BY Zenon, <1>4 DEF Range
  <1>8. \A x : x \in {req.subject, AnyKey} \cup hierarchy[req.subject] <=> x = AnyKey \/ x \in Range(roles)
    BY <1>2
  <1> QED
    BY Zenon, <1>4, <1>6, <1>7, <1>8 DEF Visits, list

(* The policies the lookup returns for a request: those whose scopes match, *)
(* and the whole global partition.                                          *)
Applies(p, req) == Matches(p, req) \/ InGlobalPartition(p)

(* A list with what applies, as often as it is held, and nothing else.      *)
Finding(found, held, req) ==
  /\ found \in Seq(Policies)
  /\ \A p \in Policies : Times(p, found) = IF Applies(p, req) THEN Times(p, held) ELSE 0

(* The lookup finds what applies.                                           *)
LEMMA Finds ==
  ASSUME NEW t \in Tries, NEW held \in Seq(Policies), Indexed(t, held), RolesListed(t, hierarchy),
         NEW req \in Requests
  PROVE  Finding(LookupPoliciesInto(t, req), held, req)
  <1> DEFINE found == LookupPoliciesInto(t, req)
             list == EnsureAny(t.roles[req.subject])
             N == Len(list)
             More(n) == LookupSubject(t, list[n], req)
             Eq(g) == g = [n \in 0 .. N |-> IF n = 0 THEN t.globals ELSE g[n - 1] \o More(n)]
             buf == CHOOSE g : Eq(g)
             step == [n \in 1 .. N |-> [b \in Seq(Policies) |-> b \o More(n)]]
             Met(p, n) == \E i \in 1 .. n : list[i] = p.principal
             In(p) == Below(p, req) /\ ~InGlobalPartition(p)
             Count(p, n) == IF InGlobalPartition(p) \/ (Met(p, n) /\ In(p)) THEN Times(p, held) ELSE 0
             Good(b, n) == b \in Seq(Policies) /\ \A p \in Policies : Times(p, b) = Count(p, n)
  <1>1. found = buf[N]
    BY Zenon DEF LookupPoliciesInto
  <1> HIDE DEF found
  <1>2. /\ list \in Seq(Subjects \cup {AnyKey})
        /\ \A i, j \in 1 .. N : list[i] = list[j] => i = j
        /\ \A x : (\E i \in 1 .. N : list[i] = x) <=> x \in {req.subject, AnyKey} \cup hierarchy[req.subject]
    <2>1. Visits(list, req)
      BY Zenon, SubjectList
    <2> HIDE DEF list
    <2> QED
      BY Zenon, <2>1 DEF Visits
  <1>3. N \in Nat /\ \A n \in 1 .. N : list[n] \in Subjects \cup {AnyKey}
    BY <1>2
  <1> HIDE DEF list, N
  <1>4. \A n \in 1 .. N : /\ More(n) \in Seq(Policies)
                          /\ \A p \in Policies :
                               Times(p, More(n)) = IF p.principal = list[n] /\ In(p) THEN Times(p, held) ELSE 0
    <2> TAKE n \in 1 .. N
    <2>1. list[n] \in Subjects \cup {AnyKey}
      BY Zenon, <1>3
    <2>2. ASSUME NEW p \in Policies
          PROVE  Times(p, More(n)) = IF p.principal = list[n] /\ In(p) THEN Times(p, held) ELSE 0
      <3>1. Times(p, More(n)) = IF p.principal = list[n] /\ Below(p, req) /\ ~InGlobalPartition(p)
                                THEN Times(p, held) ELSE 0
        BY Zenon, <2>1, SubjectTimes
      <3> QED
        BY Zenon, <3>1
    <2>3. More(n) \in Seq(Policies)
      BY <2>1 DEF LookupSubject, Tries, Keys, Requests
    <2> QED
      BY Zenon, <2>2, <2>3
  <1>5. /\ t.globals \in Seq(Policies)
        /\ \A p \in Policies : Times(p, t.globals) = IF InGlobalPartition(p) THEN Times(p, held) ELSE 0
    <2>1. t.globals \in Seq(Policies)
      BY DEF Tries
    <2>2. ASSUME NEW p \in Policies, ~InGlobalPartition(p) PROVE Times(p, t.globals) = 0
      BY Zenon, <2>1, <2>2, TimesType DEF Indexed
    <2> QED
      BY Zenon, <2>1, <2>2 DEF Indexed
  <1> HIDE DEF More
  <1>6. step \in [1 .. N -> [Seq(Policies) -> Seq(Policies)]]
    <2>1. \A n \in 1 .. N, b \in Seq(Policies) : b \o More(n) \in Seq(Policies)
      BY <1>4
    <2> QED
      BY Zenon, <2>1
  <1>7. \E g : Eq(g)
    <2>1. PICK g : /\ g \in [0 .. N -> Seq(Policies)] /\ g[0] = t.globals
                   /\ \A n \in 1 .. N : g[n] = step[n][g[n - 1]]
      <3> HIDE DEF step
      <3>1. \E g : Loop(g, Seq(Policies), t.globals, N, step)
        BY Zenon, <1>3, <1>5, <1>6, Recursion
      <3> QED
        BY Zenon, <3>1 DEF Loop
    <2>2. \A n \in 1 .. N : g[n] = g[n - 1] \o More(n)
      <3> TAKE n \in 1 .. N
      <3>1. n - 1 \in 0 .. N
        BY <1>3
      <3>2. g[n - 1] \in Seq(Policies)
        BY Zenon, <2>1, <3>1
      <3> QED
        BY Zenon, <2>1, <3>2
    <2>3. \A n \in 0 .. N : n = 0 \/ n \in 1 .. N
      BY <1>3
    <2>4. Eq(g)
      BY Zenon, <2>1, <2>2, <2>3
    <2> QED
      BY Zenon, <2>4
  <1>8. Eq(buf)
    <2> HIDE DEF Eq
    <2> QED
      BY Zenon, <1>7
  <1>9. /\ buf[0] = t.globals
        /\ \A n \in 0 .. N : n < N => buf[n + 1] = buf[n] \o More(n + 1) /\ n + 1 \in 1 .. N
    <2> HIDE DEF buf
    <2>1. 0 \in 0 .. N
      BY <1>3
    <2>2. buf[0] = t.globals
      BY Zenon, <1>8, <2>1
    <2>3. ASSUME NEW n \in 0 .. N, n < N PROVE buf[n + 1] = buf[n] \o More(n + 1) /\ n + 1 \in 1 .. N
      <3>1. n + 1 \in 0 .. N /\ n + 1 \in 1 .. N /\ n + 1 # 0 /\ (n + 1) - 1 = n
        BY <1>3, <2>3
      <3> QED
        BY Zenon, <1>8, <3>1
    <2> QED
      BY Zenon, <2>2, <2>3
  <1> HIDE DEF buf
  <1> DEFINE S == {n \in 0 .. N : Good(buf[n], n)}
  <1>10. 0 \in S
    <2>1. 0 \in 0 .. N /\ \A p : ~Met(p, 0)
      BY <1>3
    <2> QED
      BY Zenon, <1>5, <1>9, <2>1
  <1>11. ASSUME NEW n \in S, n < N PROVE n + 1 \in S
    <2>1. n \in 0 .. N /\ Good(buf[n], n)
      BY Zenon
    <2>2. buf[n + 1] = buf[n] \o More(n + 1) /\ n + 1 \in 1 .. N
      BY Zenon, <1>9, <1>11, <2>1
    <2>3. More(n + 1) \in Seq(Policies)
      BY Zenon, <1>4, <2>2
    <2>4. buf[n + 1] \in Seq(Policies)
      BY <2>1, <2>2, <2>3
    <2>5. \A i \in 1 .. (n + 1) : i \in 1 .. n \/ i = n + 1
      BY <2>1
    <2>6. \A i \in 1 .. n : i \in 1 .. N /\ i # n + 1 /\ i \in 1 .. (n + 1)
      BY <1>3, <1>11, <2>1
    <2>7. n + 1 \in 1 .. (n + 1) /\ n + 1 \in 0 .. N
      BY <1>3, <1>11, <2>1
    <2>8. ASSUME NEW p \in Policies PROVE Times(p, buf[n + 1]) = Count(p, n + 1)
      <3>1. Times(p, buf[n + 1]) = Times(p, buf[n]) + Times(p, More(n + 1))
        BY Zenon, <2>1, <2>2, <2>3, TimesJoin
      <3>2. Times(p, buf[n]) = Count(p, n)
        BY Zenon, <2>1
      <3>3. Times(p, More(n + 1)) = IF p.principal = list[n + 1] /\ In(p) THEN Times(p, held) ELSE 0
        BY Zenon, <1>4, <2>2
      <3>4. Met(p, n + 1) <=> Met(p, n) \/ p.principal = list[n + 1]
        BY Zenon, <2>5, <2>6, <2>7
      <3>5. ~(Met(p, n) /\ p.principal = list[n + 1])
        BY Zenon, <1>2, <2>2, <2>6
      <3>6. In(p) => ~InGlobalPartition(p)
        BY Zenon
      <3>7. Times(p, held) \in Nat
        BY Zenon, TimesType
      <3> HIDE DEF Met, In
      <3> QED
        BY <3>1, <3>2, <3>3, <3>4, <3>5, <3>6, <3>7
    <2> QED
      BY Zenon, <2>4, <2>7, <2>8
  <1>12. N \in S
    <2>1. S \in SUBSET (0 .. N)
      BY Zenon
    <2> HIDE DEF S
    <2> QED
      BY Zenon, <1>3, <1>10, <1>11, <2>1, UpTo
  <1>13. Good(found, N)
    BY Zenon, <1>1, <1>12
  <1>14. ASSUME NEW p \in Policies PROVE (InGlobalPartition(p) \/ (Met(p, N) /\ In(p))) <=> Applies(p, req)
    BY Zenon, <1>2 DEF Applies, Matches, Below
  <1> QED
    BY Zenon, <1>13, <1>14 DEF Finding, found

-----------------------------------------------------------------------------
(* The verdict.                                                             *)

(* The first satisfied policy of an effect is found when there is one.      *)
LEMMA FirstOfEffect ==
  ASSUME NEW ps \in Seq(Policies), NEW effect, NEW first, first = FirstSatisfied(ps, effect)
  PROVE  \/ /\ first = None
            /\ \A p \in Range(ps) : ~(IsConditionSatisfied(p) /\ p.effect = effect)
         \/ first # None /\ first \in Range(ps) /\ IsConditionSatisfied(first) /\ first.effect = effect
  <1> DEFINE hits == {i \in DOMAIN ps : IsConditionSatisfied(ps[i]) /\ ps[i].effect = effect}
  <1>1. first = IF hits = {} THEN None ELSE ps[CHOOSE i \in hits : \A j \in hits : i <= j]
    BY Zenon DEF FirstSatisfied
  <1>2. CASE hits = {}
    BY Zenon, <1>1, <1>2 DEF Range
  <1>3. CASE hits # {}
    <2>1. hits \in SUBSET Nat
      BY SMT
    <2>2. \A i \in hits : i \in DOMAIN ps /\ IsConditionSatisfied(ps[i]) /\ ps[i].effect = effect
      BY Zenon
    <2>3. first = ps[CHOOSE i \in hits : \A j \in hits : i <= j]
      BY Zenon, <1>1, <1>3
    <2> HIDE DEF hits
    <2>4. \E i \in hits : \A j \in hits : i <= j
      <3>1. PICK i \in hits : \A j \in hits : ~(j < i)
        BY Zenon, <1>3, <2>1, Least
      <3> QED
        BY <2>1, <3>1
    <2>5. PICK i \in hits : first = ps[i]
      BY Zenon, <2>3, <2>4
    <2>6. first \in Range(ps)
      BY Zenon, <2>2, <2>5 DEF Range
    <2>7. ps[i] \in Policies
      BY <2>2
    <2>8. first # None
      BY Zenon, <2>5, <2>7, NoneAssumption
    <2> QED
      BY Zenon, <2>2, <2>5, <2>6, <2>8
  <1> QED
    BY Zenon, <1>2, <1>3

(* The verdict on a list: a satisfied permit and no satisfied forbid.       *)
LEMMA Decides ==
  ASSUME NEW ps \in Seq(Policies)
  PROVE  /\ Decide(ps).decision = "ALLOW" <=>
              /\ \E p \in Range(ps) : IsConditionSatisfied(p) /\ p.effect = "permit"
              /\ \A p \in Range(ps) : IsConditionSatisfied(p) => p.effect # "forbid"
         /\ Decide(ps).by # None => Decide(ps).by \in Range(ps) /\ IsConditionSatisfied(Decide(ps).by)
  <1> DEFINE forbid == FirstSatisfied(ps, "forbid")
             permit == FirstSatisfied(ps, "permit")
             Sat(p) == IsConditionSatisfied(p)
  <1>1. \/ forbid = None /\ \A p \in Range(ps) : ~(Sat(p) /\ p.effect = "forbid")
        \/ forbid # None /\ forbid \in Range(ps) /\ Sat(forbid) /\ forbid.effect = "forbid"
    BY Zenon, FirstOfEffect
  <1>2. \/ permit = None /\ \A p \in Range(ps) : ~(Sat(p) /\ p.effect = "permit")
        \/ permit # None /\ permit \in Range(ps) /\ Sat(permit) /\ permit.effect = "permit"
    BY Zenon, FirstOfEffect
  <1> DEFINE no == Decide(ps)
  <1>3. /\ ps = <<>> => no = Verdict("DENY", "nomatch", None)
        /\ ps # <<>> /\ forbid # None => no = Verdict("DENY", "forbid", forbid)
        /\ ps # <<>> /\ forbid = None /\ permit # None => no = Verdict("ALLOW", "permit", permit)
        /\ ps # <<>> /\ forbid = None /\ permit = None => no = Verdict("DENY", "default", None)
    <2> HIDE DEF forbid, permit
    <2> QED
      BY Zenon DEF Decide, forbid, permit
  <1>4. \A d, r, b : Verdict(d, r, b).decision = d /\ Verdict(d, r, b).by = b
    BY DEF Verdict
  <1>5. ps = <<>> => Range(ps) = {}
    BY TimesNone
  <1> HIDE DEF forbid, permit, Sat, no
  <1>6. CASE ps = <<>>
    BY <1>3, <1>4, <1>5, <1>6 DEF no
  <1>7. CASE ps # <<>> /\ forbid # None
    <2>1. no.decision = "DENY" /\ no.by = forbid
      <3>1. no = Verdict("DENY", "forbid", forbid)
        BY Zenon, <1>3, <1>7
      <3> QED
        BY <1>4, <3>1
    <2> QED
      BY <1>1, <1>7, <2>1 DEF no, Sat
  <1>8. CASE ps # <<>> /\ forbid = None /\ permit # None
    <2>1. no.decision = "ALLOW" /\ no.by = permit
      <3>1. no = Verdict("ALLOW", "permit", permit)
        BY Zenon, <1>3, <1>8
      <3> QED
        BY <1>4, <3>1
    <2> QED
      BY Zenon, <1>1, <1>2, <1>8, <2>1 DEF no, Sat
  <1>9. CASE ps # <<>> /\ forbid = None /\ permit = None
    <2>1. no.decision = "DENY" /\ no.by = None
      <3>1. no = Verdict("DENY", "default", None)
        BY Zenon, <1>3, <1>9
      <3> QED
        BY <1>4, <3>1
    <2> QED
      BY <1>2, <1>9, <2>1 DEF no, Sat
  <1> QED
    BY Zenon, <1>6, <1>7, <1>8, <1>9

-----------------------------------------------------------------------------
(* The inductive invariant.                                                 *)

(* The trie, when there is one, indexes what was published and what         *)
(* simulations left, under the hierarchy it was built from.                 *)
IndexInv ==
  /\ installs \in Nat /\ hierarchy \in Hierarchies
  /\ ruleset \in Seq(Policies) /\ leaked \in Seq(Policies)
  /\ trie = None => ruleset = <<>> /\ leaked = <<>>
  /\ trie # None => /\ trie \in Tries /\ Indexed(trie, Held) /\ RolesListed(trie, hierarchy)
                    /\ trie.revision \in 1 .. installs

(* A verdict an explanation holds is that of the trie of its revision, as   *)
(* long as no simulation changed it.                                        *)
ExplainInv ==
  /\ explain.stage \in {"idle", "decided", "answered"}
  /\ explain.stage = "decided" =>
       /\ explain.req \in Requests /\ explain.revision \in 0 .. installs
       /\ explain.leaked \in Seq(Policies)
       /\ trie # None /\ trie.revision = explain.revision =>
            /\ Len(explain.leaked) <= Len(leaked)
            /\ leaked = explain.leaked => explain.result = CheckPermission(trie, explain.req)

IInv == IndexInv /\ ExplainInv /\ ExplanationJustifies

(* What the lookup finds is what applies of what the trie holds.            *)
LEMMA FoundIsApplying ==
  ASSUME IndexInv, trie # None, NEW req \in Requests
  PROVE  /\ LookupPoliciesInto(trie, req) \in Seq(Policies)
         /\ \A p \in Policies : Times(p, LookupPoliciesInto(trie, req)) =
                                  IF Applies(p, req) THEN Times(p, Held) ELSE 0
         /\ \A p : p \in Range(LookupPoliciesInto(trie, req)) <=> p \in Range(Held) /\ Applies(p, req)
         /\ Held \in Seq(Policies) /\ \A p \in Range(Held) : p \in Policies
  <1> DEFINE found == LookupPoliciesInto(trie, req)
  <1>1. Held \in Seq(Policies)
    BY DEF IndexInv, Held
  <1>2. /\ found \in Seq(Policies)
        /\ \A p \in Policies : Times(p, found) = IF Applies(p, req) THEN Times(p, Held) ELSE 0
    <2>1. trie \in Tries /\ Indexed(trie, Held) /\ RolesListed(trie, hierarchy)
      BY Zenon DEF IndexInv
    <2>2. Finding(found, Held, req)
      BY Zenon, <1>1, <2>1, Finds
    <2> HIDE DEF found
    <2> QED
      BY Zenon, <2>2 DEF Finding
  <1> HIDE DEF found
  <1>3. \A s \in Seq(Policies) : \A p \in Range(s) : p \in Policies
    BY DEF Range
  <1>4. \A p : (Times(p, found) # 0 <=> p \in Range(found)) /\ (Times(p, Held) # 0 <=> p \in Range(Held))
    BY Zenon, <1>1, <1>2, TimesType
  <1>5. ASSUME NEW p PROVE p \in Range(found) <=> p \in Range(Held) /\ Applies(p, req)
    <2>1. CASE p \in Policies
      BY Zenon, <1>2, <1>4, <2>1
    <2>2. CASE p \notin Policies
      BY Zenon, <1>1, <1>2, <1>3, <2>2
    <2> QED
      BY Zenon, <2>1, <2>2
  <1> QED
    BY Zenon, <1>1, <1>2, <1>3, <1>5 DEF found

(* LookupFindsMatches from the invariant.                                   *)
LEMMA FindsFromInv ==
  ASSUME IndexInv
  PROVE  LookupFindsMatches
  <1>1. ASSUME trie # None, NEW req \in Requests, NEW p \in Range(Held), Matches(p, req)
        PROVE  Times(p, LookupPoliciesInto(trie, req)) = Times(p, Held)
    <2>1. p \in Policies /\ Applies(p, req)
      BY Zenon, <1>1, FoundIsApplying DEF Applies
    <2> QED
      BY Zenon, <1>1, <2>1, FoundIsApplying
  <1> QED
    BY Zenon, <1>1 DEF LookupFindsMatches

(* The policies the lookup returns decide, and without stray policies they  *)
(* are those whose scopes match.                                            *)
LEMMA OverridesFromInv ==
  ASSUME IndexInv
  PROVE  ForbidOverrides
  <1> SUFFICES ASSUME NEW req \in Requests, Strays(req) = {}
               PROVE  DecidedBy(InForce(req), req)
    BY Zenon DEF ForbidOverrides
  <1> DEFINE inForce == InForce(req)
             verdict == CheckPermission(trie, req)
  <1>0. \A p \in Range(Held) : Applies(p, req) <=> Matches(p, req)
    BY Zenon DEF Strays, Applies
  <1>1. \A p : p \in inForce <=> p \in Range(Held) /\ Applies(p, req) /\ IsConditionSatisfied(p)
    BY Zenon, <1>0 DEF InForce, IsConditionSatisfied
  <1>2. CASE trie = None
    <2>1. Range(Held) = {}
      <3>1. ruleset = <<>> /\ leaked = <<>>
        BY Zenon, <1>2 DEF IndexInv
      <3>2. Held = <<>>
        BY <3>1 DEF Held
      <3> QED
        BY Zenon, <3>2, TimesNone
    <2>2. verdict.decision = "DENY" /\ verdict.by = None
      BY <1>2 DEF CheckPermission, Verdict
    <2> HIDE DEF inForce, verdict
    <2>3. verdict.decision # "ALLOW" /\ ~(\E p \in inForce : TRUE)
      BY <1>1, <2>1, <2>2
    <2> QED
      BY Zenon, <2>2, <2>3 DEF inForce, verdict, DecidedBy
  <1>3. CASE trie # None
    <2> DEFINE found == LookupPoliciesInto(trie, req)
    <2>1. verdict = Decide(found)
      BY Zenon, <1>3 DEF CheckPermission
    <2>2. found \in Seq(Policies) /\ \A p : p \in Range(found) <=> p \in Range(Held) /\ Applies(p, req)
      BY Zenon, <1>3, FoundIsApplying
    <2>3. \A p : p \in inForce <=> p \in Range(found) /\ IsConditionSatisfied(p)
      BY Zenon, <1>1, <2>2
    <2> HIDE DEF found, inForce, verdict
    <2>4. /\ verdict.decision = "ALLOW" <=>
               /\ \E p \in Range(found) : IsConditionSatisfied(p) /\ p.effect = "permit"
               /\ \A p \in Range(found) : IsConditionSatisfied(p) => p.effect # "forbid"
          /\ verdict.by # None => verdict.by \in Range(found) /\ IsConditionSatisfied(verdict.by)
      BY Zenon, <2>1, <2>2, Decides
    <2>5. /\ (verdict.decision = "ALLOW") <=>
                 /\ \E p \in inForce : p.effect = "permit"
                 /\ \A p \in inForce : p.effect # "forbid"
          /\ verdict.by # None => verdict.by \in inForce
      <3>1. (\E p \in inForce : p.effect = "permit") <=>
            (\E p \in Range(found) : IsConditionSatisfied(p) /\ p.effect = "permit")
        BY Zenon, <2>3
      <3>2. (\A p \in inForce : p.effect # "forbid") <=>
            (\A p \in Range(found) : IsConditionSatisfied(p) => p.effect # "forbid")
        BY Zenon, <2>3
      <3>3. verdict.by # None => verdict.by \in inForce
        BY Zenon, <2>3, <2>4
      <3> QED
        BY Zenon, <2>4, <3>1, <3>2, <3>3
    <2> QED
      BY Zenon, <2>5 DEF inForce, verdict, DecidedBy
  <1> QED
    BY Zenon, <1>2, <1>3

(* The invariant holds of an engine that has loaded no tenant.              *)
LEMMA InitInv == Init => IInv
  <1> SUFFICES ASSUME Init PROVE IInv
    OBVIOUS
  <1>1. IndexInv
    BY DEF Init, IndexInv
  <1>2. explain.stage = "idle"
    BY DEF Init, NoExplain
  <1> QED
    BY <1>1, <1>2 DEF IInv, ExplainInv, ExplanationJustifies

(* The lists of inherited roles are the closure, without repetition.        *)
LEMMA OrderingsList ==
  ASSUME NEW h \in Hierarchies, NEW roles \in Orderings(h)
  PROVE  /\ roles \in [Subjects -> Seq(Subjects)]
         /\ \A s \in Subjects : IsInjective(roles[s]) /\ Range(roles[s]) = {s} \cup h[s]
  <1>1. ASSUME NEW s \in Subjects, NEW list \in RoleLists(s, h)
        PROVE  list \in Seq(Subjects) /\ IsInjective(list) /\ Range(list) = {s} \cup h[s]
    <2> DEFINE held == {s} \cup h[s]  n == Cardinality(held)
    <2>1. h \in [Subjects -> SUBSET Subjects] /\ IsFiniteSet(h[s])
      BY Zenon, HierarchiesAssumption
    <2>2. n \in Nat
      <3>1. IsFiniteSet({s})
        BY Zenon, FS_Singleton
      <3>2. IsFiniteSet(held)
        BY Zenon, <2>1, <3>1, FS_Union
      <3> QED
        BY Zenon, <3>2, FS_CardinalityType
    <2>3. held \in SUBSET Subjects
      BY <2>1
    <2>4. list \in [1 .. n -> held] /\ IsInjective(list) /\ Range(list) = held
      BY Zenon DEF RoleLists
    <2> HIDE DEF n, held
    <2>5. list \in Seq(Subjects)
      BY <2>2, <2>3, <2>4
    <2> QED
      BY Zenon, <2>4, <2>5 DEF held
  <1>2. /\ roles = [s \in Subjects |-> roles[s]]
        /\ \A s \in Subjects : roles[s] \in RoleLists(s, h)
    BY Zenon DEF Orderings
  <1>3. \A s \in Subjects : roles[s] \in Seq(Subjects)
    BY Zenon, <1>1, <1>2
  <1> QED
    BY Zenon, <1>1, <1>2, <1>3

(* UpdateTenantPoliciesWithRevision publishes an index of the new rows.     *)
LEMMA UpdateIndexes ==
  ASSUME IInv, NEW ps \in RuleSets, NEW h \in Hierarchies, UpdateTenantPolicies(ps, h)
  PROVE  IndexInv' /\ ExplainInv'
  <1> DEFINE next == installs + 1
  <1>1. ps \in Seq(Policies)
    BY DEF RuleSets
  <1>2. installs \in Nat /\ next \in Nat /\ next \in 1 .. next /\ ~(next <= installs)
    BY DEF IInv, IndexInv
  <1> HIDE DEF next
  <1>3. installs' = next /\ ruleset' = ps /\ leaked' = <<>> /\ hierarchy' = h /\ explain' = explain
    BY Zenon DEF UpdateTenantPolicies, next
  <1>4. PICK roles \in Orderings(h) : trie' = BuildTenantTrie(ps, roles, next)
    BY Zenon DEF UpdateTenantPolicies, next
  <1>5. /\ roles \in [Subjects -> Seq(Subjects)]
        /\ \A s \in Subjects : IsInjective(roles[s]) /\ Range(roles[s]) = {s} \cup h[s]
    BY Zenon, OrderingsList
  <1> DEFINE t == BuildTenantTrie(ps, roles, next)
  <1>6. t \in Tries /\ t.roles = roles /\ t.revision = next /\ Indexed(t, ps)
    <2>1. BuiltFrom(t, ps, roles, next)
      BY Zenon, <1>1, <1>2, <1>5, Builds
    <2> HIDE DEF t
    <2> QED
      BY Zenon, <2>1 DEF BuiltFrom
  <1>7. trie' = t /\ Held' = ps
    <2>1. ps \o <<>> = ps
      BY <1>1
    <2> QED
      BY Zenon, <1>3, <1>4, <2>1 DEF Held
  <1> HIDE DEF t
  <1>8. RolesListed(t, h)
    BY Zenon, <1>5, <1>6 DEF RolesListed
  <1>9. t # None
    BY Zenon, <1>6, NoneAssumption
  <1>10. <<>> \in Seq(Policies)
    OBVIOUS
  <1>11. /\ Indexed(t, ps) => Indexed(trie', Held')
         /\ RolesListed(t, h) => RolesListed(trie', hierarchy')
    BY Zenon, <1>3, <1>7
  <1>12. IndexInv'
    BY Zenon, <1>1, <1>2, <1>3, <1>6, <1>7, <1>8, <1>9, <1>10, <1>11 DEF IndexInv
  <1>13. ExplainInv'
    <2>1. /\ explain.stage \in {"idle", "decided", "answered"}
          /\ explain.stage = "decided" =>
               /\ explain.req \in Requests /\ explain.revision \in 0 .. installs
               /\ explain.leaked \in Seq(Policies)
      BY Zenon DEF IInv, ExplainInv
    <2>2. explain.revision \in 0 .. installs => explain.revision \in 0 .. next /\ explain.revision # next
      BY <1>2 DEF next
    <2> QED
      BY Zenon, <1>3, <1>6, <1>7, <2>1, <2>2 DEF ExplainInv
  <1> QED
    BY Zenon, <1>12, <1>13

(* SimulateDecision leaves an index of what the trie then holds.            *)
LEMMA SimulateIndexes ==
  ASSUME IInv, NEW p \in Policies, SimulateDecision(p)
  PROVE  IndexInv' /\ ExplainInv'
  <1> DEFINE added == trie # None /\ ~InGlobalPartition(p) /\ HasSubjectNode(trie, p.principal)
  <1>1. ruleset' = ruleset /\ hierarchy' = hierarchy /\ installs' = installs /\ explain' = explain
    BY Zenon DEF SimulateDecision
  <1>2. CASE ~added
    <2>1. trie' = trie /\ leaked' = leaked
      BY Zenon, <1>2 DEF SimulateDecision
    <2>2. Held' = Held
      BY Zenon, <1>1, <2>1 DEF Held
    <2>3. /\ Indexed(trie, Held) => Indexed(trie', Held')
          /\ RolesListed(trie, hierarchy) => RolesListed(trie', hierarchy')
          /\ CheckPermission(trie, explain.req) = CheckPermission(trie', explain'.req)
      BY Zenon, <1>1, <2>1, <2>2
    <2>4. IndexInv'
      BY Zenon, <1>1, <2>1, <2>3 DEF IInv, IndexInv
    <2>5. ExplainInv'
      BY Zenon, <1>1, <2>1, <2>3 DEF IInv, ExplainInv
    <2> QED
      BY Zenon, <2>4, <2>5
  <1>3. CASE added
    <2> DEFINE t == AddPolicy(trie, p)  more == Append(leaked, p)
    <2>1. trie' = t /\ leaked' = more /\ trie # None
      BY Zenon, <1>3 DEF SimulateDecision
    <2>2. /\ trie \in Tries /\ Indexed(trie, Held) /\ RolesListed(trie, hierarchy)
          /\ trie.revision \in 1 .. installs
          /\ installs \in Nat /\ hierarchy \in Hierarchies
          /\ ruleset \in Seq(Policies) /\ leaked \in Seq(Policies)
      BY Zenon, <2>1 DEF IInv, IndexInv
    <2>3. Held \in Seq(Policies) /\ ruleset \o more = Append(Held, p)
      BY <2>2 DEF Held
    <2>4. more \in Seq(Policies) /\ Len(more) = Len(leaked) + 1 /\ Len(leaked) \in Nat
      BY <2>2
    <2>5. t \in Tries /\ t.roles = trie.roles /\ t.revision = trie.revision /\ Indexed(t, Append(Held, p))
      BY Zenon, <2>2, <2>3, AddPolicyIndexes
    <2> HIDE DEF t, more
    <2>6. RolesListed(t, hierarchy)
      BY Zenon, <2>2, <2>5 DEF RolesListed
    <2>7. Held' = Append(Held, p)
      BY Zenon, <1>1, <2>1, <2>3 DEF Held
    <2>8. t # None
      BY Zenon, <2>5, NoneAssumption
    <2>9. /\ Indexed(t, Append(Held, p)) => Indexed(trie', Held')
          /\ RolesListed(t, hierarchy) => RolesListed(trie', hierarchy')
      BY Zenon, <1>1, <2>1, <2>7
    <2>10. IndexInv'
      BY Zenon, <1>1, <2>1, <2>2, <2>4, <2>5, <2>6, <2>8, <2>9 DEF IndexInv
    <2>11. ASSUME explain.leaked \in Seq(Policies), Len(explain.leaked) <= Len(leaked)
           PROVE  Len(explain.leaked) <= Len(more) /\ more # explain.leaked
      BY <2>4, <2>11
    <2>12. ExplainInv'
      BY Zenon, <1>1, <2>1, <2>5, <2>11 DEF IInv, ExplainInv
    <2> QED
      BY Zenon, <2>10, <2>12
  <1> QED
    BY Zenon, <1>2, <1>3

(* The two readings of a condition, by the verdict and by the explanation,  *)
(* agree.                                                                   *)
LEMMA ConditionsAgree ==
  ASSUME NEW p \in Policies
  PROVE  (ConditionMatched(p) <=> IsConditionSatisfied(p)) /\ p.effect \in {"permit", "forbid"}
  BY PoliciesAssumption DEF Policy, ConditionMatched, IsConditionSatisfied

(* An explanation whose second read saw the trie of the first justifies the *)
(* verdict.                                                                 *)
LEMMA MatchedJustify ==
  ASSUME IInv, ExplainMatched
  PROVE  ExplanationJustifies' /\ explain'.stage = "answered"
  <1>1. CASE trie = None
    <2>1. explain' = [stage |-> "answered", req |-> explain.req, decision |-> "DENY",
                      matched |-> {}, sameTrie |-> FALSE]
      BY Zenon, <1>1 DEF ExplainMatched
    <2>2. explain'.stage = "answered" /\ ~explain'.sameTrie
      BY <2>1
    <2> QED
      BY Zenon, <2>2 DEF ExplanationJustifies
  <1>2. CASE trie # None
    <2> DEFINE found == LookupPoliciesInto(trie, explain.req)
               hit == {p \in Range(found) : ConditionMatched(p)}
               effects == {p.effect : p \in hit}
               same == trie.revision = explain.revision /\ leaked = explain.leaked
               verdict == explain.result.decision
    <2>1. explain' = [stage |-> "answered", req |-> explain.req, decision |-> verdict,
                      matched |-> hit, sameTrie |-> same]
      BY Zenon, <1>2 DEF ExplainMatched
    <2>2. explain.req \in Requests /\ (same => explain.result = CheckPermission(trie, explain.req))
      BY Zenon, <1>2 DEF IInv, ExplainInv, ExplainMatched
    <2>3. found \in Seq(Policies)
      BY Zenon, <1>2, <2>2, FoundIsApplying DEF IInv
    <2>4. same => explain.result = Decide(found)
      BY Zenon, <1>2, <2>2 DEF CheckPermission
    <2>5. \A p \in Range(found) : p \in Policies
      BY <2>3 DEF Range
    <2> HIDE DEF found
    <2>6. \A p : p \in hit <=> p \in Range(found) /\ IsConditionSatisfied(p)
      BY Zenon, <2>5, ConditionsAgree
    <2>7. \A p \in hit : p.effect \in {"permit", "forbid"}
      BY Zenon, <2>5, <2>6, ConditionsAgree
    <2> HIDE DEF hit, same, verdict
    <2>8. /\ explain'.stage = "answered" /\ explain'.sameTrie = same
          /\ explain'.decision = verdict /\ explain'.matched = hit
      BY <2>1
    <2>9. ASSUME same PROVE (verdict = "ALLOW") <=> (effects = {"permit"})
      <3>1. verdict = "ALLOW" <=>
              /\ \E p \in Range(found) : IsConditionSatisfied(p) /\ p.effect = "permit"
              /\ \A p \in Range(found) : IsConditionSatisfied(p) => p.effect # "forbid"
        BY Zenon, <2>3, <2>4, <2>9, Decides DEF verdict
      <3>2. (\E p \in Range(found) : IsConditionSatisfied(p) /\ p.effect = "permit") <=>
            "permit" \in effects
        BY Zenon, <2>6
      <3>3. (\A p \in Range(found) : IsConditionSatisfied(p) => p.effect # "forbid") <=>
            "forbid" \notin effects
        BY Zenon, <2>6
      <3>4. \A e \in effects : e \in {"permit", "forbid"}
        BY Zenon, <2>7
      <3> HIDE DEF effects
      <3>5. ("permit" \in effects /\ "forbid" \notin effects) <=> (effects = {"permit"})
        BY <3>4
      <3> QED
        BY Zenon, <3>1, <3>2, <3>3, <3>5
    <2>10. {p.effect : p \in explain'.matched} = effects
      BY Zenon, <2>8
    <2> HIDE DEF effects
    <2> QED
      BY Zenon, <2>8, <2>9, <2>10 DEF ExplanationJustifies
  <1> QED
    BY Zenon, <1>1, <1>2

(* A step that leaves the index alone.                                      *)
LEMMA IndexKept ==
  ASSUME IndexInv, UNCHANGED <<trie, ruleset, leaked, hierarchy, installs>>
  PROVE  IndexInv'
  <1>1. /\ trie' = trie /\ ruleset' = ruleset /\ leaked' = leaked
        /\ hierarchy' = hierarchy /\ installs' = installs
    BY Zenon
  <1>2. Held' = Held
    BY Zenon, <1>1 DEF Held
  <1>3. /\ Indexed(trie, Held) => Indexed(trie', Held')
        /\ RolesListed(trie, hierarchy) => RolesListed(trie', hierarchy')
    BY Zenon, <1>1, <1>2
  <1> QED
    BY Zenon, <1>1, <1>3 DEF IndexInv

(* Every step preserves the invariant.                                      *)
LEMMA NextInv == IInv /\ [Next]_vars => IInv'
  <1> SUFFICES ASSUME IInv, [Next]_vars PROVE IInv'
    OBVIOUS
  <1>0. IndexInv /\ ExplainInv /\ ExplanationJustifies
    BY Zenon DEF IInv
  <1>a. explain' = explain => ExplanationJustifies'
    BY Zenon, <1>0 DEF ExplanationJustifies
  <1>1. CASE Install
    <2>1. PICK ps \in RuleSets, h \in Hierarchies : UpdateTenantPolicies(ps, h)
      BY Zenon, <1>1 DEF Install
    <2>2. explain' = explain
      BY Zenon, <2>1 DEF UpdateTenantPolicies
    <2> QED
      BY Zenon, <1>a, <2>1, <2>2, UpdateIndexes DEF IInv
  <1>2. CASE UnloadTenant
    <2>1. /\ trie' = None /\ ruleset' = <<>> /\ leaked' = <<>>
          /\ hierarchy' = hierarchy /\ installs' = installs /\ explain' = explain
      BY Zenon, <1>2 DEF UnloadTenant
    <2>2. <<>> \in Seq(Policies)
      OBVIOUS
    <2>3. IndexInv'
      BY Zenon, <1>0, <2>1, <2>2 DEF IndexInv
    <2>4. ExplainInv'
      BY Zenon, <1>0, <2>1 DEF ExplainInv
    <2> QED
      BY Zenon, <1>a, <2>1, <2>3, <2>4 DEF IInv
  <1>3. ASSUME NEW p \in Policies, SimulateDecision(p) PROVE IInv'
    <2>1. explain' = explain
      BY Zenon, <1>3 DEF SimulateDecision
    <2> QED
      BY Zenon, <1>3, <1>a, <2>1, SimulateIndexes DEF IInv
  <1>4. ASSUME NEW req \in Explained, ExplainDecide(req) PROVE IInv'
    <2> DEFINE result == CheckPermission(trie, req)
               revision == IF trie = None THEN 0 ELSE trie.revision
    <2>1. /\ UNCHANGED <<trie, ruleset, leaked, hierarchy, installs>>
          /\ explain' = [stage |-> "decided", req |-> req, result |-> result,
                         revision |-> revision, leaked |-> leaked]
      BY Zenon, <1>4 DEF ExplainDecide
    <2>2. IndexInv'
      BY Zenon, <1>0, <2>1, IndexKept
    <2>3. revision \in 0 .. installs
      BY <1>0 DEF IndexInv
    <2>4. CheckPermission(trie', req) = result
      BY Zenon, <2>1
    <2> HIDE DEF result, revision
    <2>5. /\ explain'.stage = "decided" /\ explain'.req = req /\ explain'.result = result
          /\ explain'.revision = revision /\ explain'.leaked = leaked
      BY <2>1
    <2>6. req \in Requests /\ leaked \in Seq(Policies) /\ leaked' = leaked /\ installs' = installs
      BY Zenon, <1>0, <2>1, ExplainedAssumption DEF IndexInv
    <2>7. Len(explain'.leaked) <= Len(leaked')
      BY <2>5, <2>6
    <2>8. ExplainInv'
      BY Zenon, <2>3, <2>4, <2>5, <2>6, <2>7 DEF ExplainInv
    <2>9. ExplanationJustifies'
      BY <2>5 DEF ExplanationJustifies
    <2> QED
      BY Zenon, <2>2, <2>8, <2>9 DEF IInv
  <1>5. CASE ExplainMatched
    <2>1. ExplanationJustifies' /\ explain'.stage = "answered"
      BY Zenon, <1>5, MatchedJustify
    <2>2. IndexInv'
      BY Zenon, <1>0, <1>5, IndexKept DEF ExplainMatched
    <2>3. ExplainInv'
      BY <2>1 DEF ExplainInv
    <2> QED
      BY Zenon, <2>1, <2>2, <2>3 DEF IInv
  <1>6. CASE ExplainReturn
    <2>1. explain'.stage = "idle"
      BY <1>6 DEF ExplainReturn, NoExplain
    <2>2. IndexInv'
      BY Zenon, <1>0, <1>6, IndexKept DEF ExplainReturn
    <2>3. ExplainInv' /\ ExplanationJustifies'
      BY <2>1 DEF ExplainInv, ExplanationJustifies
    <2> QED
      BY Zenon, <2>2, <2>3 DEF IInv
  <1>7. CASE UNCHANGED vars
    <2>1. /\ UNCHANGED <<trie, ruleset, leaked, hierarchy, installs>>
          /\ explain' = explain /\ trie' = trie /\ leaked' = leaked /\ installs' = installs
      BY Zenon, <1>7 DEF vars
    <2>2. IndexInv'
      BY Zenon, <1>0, <2>1, IndexKept
    <2>3. CheckPermission(trie, explain.req) = CheckPermission(trie', explain'.req)
      BY Zenon, <2>1
    <2>4. ExplainInv'
      BY Zenon, <1>0, <2>1, <2>3 DEF ExplainInv
    <2> QED
      BY Zenon, <1>a, <2>1, <2>2, <2>4 DEF IInv
  <1> QED
    BY Zenon, <1>1, <1>2, <1>3, <1>4, <1>5, <1>6, <1>7 DEF Next, Serve

(* The index and the explanation are as the invariant says, always.         *)
LEMMA Invariant == Spec => []IInv
  BY InitInv, NextInv, PTL DEF Spec

-----------------------------------------------------------------------------

(* LookupPoliciesInto finds every policy whose scopes match a request, once *)
(* for each time it was published: for rule sets, hierarchies and orders of *)
(* the inherited roles of any size, and whatever simulations added.         *)
THEOREM LookupFinds == Spec => []LookupFindsMatches
  <1>1. IInv => LookupFindsMatches
    BY Zenon, FindsFromInv DEF IInv
  <1> QED
    BY Invariant, <1>1, PTL

(* evaluatePermission answers ALLOW exactly when a policy in force permits  *)
(* and none forbids, and names only a policy in force: for every request    *)
(* that meets no stray policy of the global partition.                      *)
THEOREM ForbidWins == Spec => []ForbidOverrides
  <1>1. IInv => ForbidOverrides
    BY Zenon, OverridesFromInv DEF IInv
  <1> QED
    BY Invariant, <1>1, PTL

(* The policies ExplainDecision lists justify the decision it returns, when *)
(* no publication and no simulation came between its two reads.             *)
THEOREM ExplanationHolds == Spec => []ExplanationJustifies
  <1>1. IInv => ExplanationJustifies
    BY Zenon DEF IInv
  <1> QED
    BY Invariant, <1>1, PTL
===============================================================================
