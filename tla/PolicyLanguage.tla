--------------------------- MODULE PolicyLanguage ---------------------------
(***************************************************************************)
(* A rule set from its texts to its answers: CompilePolicySet              *)
(* (internal/parser/policy_set.go) takes the sources one by one and keeps  *)
(* nothing when one of them fails; then requests are evaluated against the *)
(* compiled policies.                                                      *)
(***************************************************************************)
EXTENDS Evaluator

CONSTANTS RuleSets,    \* the rule sets tried: sequences of texts
          Requests     \* the requests tried

VARIABLES
  sources,     \* the texts, in the order of the loop
  compiled,    \* compiledPolicies
  status,      \* "compiling", "failed" or "compiled"
  request,     \* the last request evaluated
  satisfied    \* the policies it satisfied

vars == <<sources, compiled, status, request, satisfied>>

NoRequest == [subject |-> <<>>, resource |-> <<>>, context |-> <<>>]

Init ==
  /\ sources \in RuleSets
  /\ compiled = <<>>
  /\ status = "compiling"
  /\ request = NoRequest
  /\ satisfied = {}

(* A source that holds exactly one statement, compiled.                     *)
CompileOnly(nodes) ==
  IF nodes.ok /\ Len(nodes.exp) = 1 THEN Compile(nodes.exp[1]) ELSE Fail
CompileSource(text) == CompileOnly(Parse(Lex(text)))

(* One turn of the loop: the first failure discards everything.             *)
Keep(result) ==
  IF result.ok
  THEN compiled' = Append(compiled, result) /\ UNCHANGED status
  ELSE compiled' = <<>> /\ status' = "failed"
CompileNext ==
  /\ status = "compiling"
  /\ Len(compiled) < Len(sources)
  /\ Keep(CompileSource(sources[Len(compiled) + 1]))
  /\ UNCHANGED <<sources, request, satisfied>>

CompileReturns ==
  /\ status = "compiling"
  /\ Len(compiled) = Len(sources)
  /\ status' = "compiled"
  /\ UNCHANGED <<sources, compiled, request, satisfied>>

Applies(c, env) == Satisfied(c.policy.condition, c.policy.isUnless, env)

(* A request meets every policy of the set.                                 *)
Answer(env) ==
  /\ status = "compiled"
  /\ request = NoRequest
  /\ request' = env
  /\ satisfied' = {i \in DOMAIN compiled : Applies(compiled[i], env)}
  /\ UNCHANGED <<sources, compiled, status>>

Next == CompileNext \/ CompileReturns \/ \E env \in Requests : Answer(env)

Spec == Init /\ [][Next]_vars

-----------------------------------------------------------------------------
(* The grammar of POLICY_DSL_SPEC.md, stated without a parser.              *)

TypesOf(t) == [i \in DOMAIN t |-> t[i].type]

(* The nesting of brackets before position i.                               *)
DepthAt(t, i) == Cardinality({j \in 1 .. i - 1 : t[j].type = "("})
                 - Cardinality({j \in 1 .. i - 1 : t[j].type = ")"})

(* The operators from the loosest level to the tightest, and the levels     *)
(* that the rules repeat; the others take one operator at most.             *)
Orders == {"<", "<=", ">", ">="}
Documented == [levels |-> <<{"||"}, {"&&"}, {"==", "!="}, Orders, {"in", "contains"}>>,
               repeated |-> {1, 2}]

(* Where the code departs from it: the parser groups every chain of         *)
(* operators to the left, and in and contains stand with the orders.        *)
LeftGrouped == [levels |-> <<{"||"}, {"&&"}, {"==", "!="}, Orders \cup {"in", "contains"}>>,
                repeated |-> 1 .. 4]

LevelOf(type) == SelectInSeq(Documented.levels, LAMBDA ops : type \in ops)

(* Two operators of one level that the document does not repeat, or an      *)
(* order before in or contains, with nothing looser and no end of a bracket *)
(* between them.                                                            *)
Chained(t) ==
  \E i, j \in DOMAIN t :
    LET a == LevelOf(t[i].type)
        b == LevelOf(t[j].type)
    IN /\ i < j /\ a > 2
       /\ a = b \/ <<a, b>> = <<4, 5>>
       /\ DepthAt(t, i) = DepthAt(t, j)
       /\ \A k \in i + 1 .. j - 1 :
            /\ DepthAt(t, k) >= DepthAt(t, i)
            /\ DepthAt(t, k) = DepthAt(t, i) => LevelOf(t[k].type) \notin 1 .. a - 1

(* A variable or a literal.  The document also lists variables of the       *)
(* action, which parseVariable refuses.                                     *)
Operand(t) ==
  LET lit == t[1].lit
  IN CASE TypesOf(t) = <<"STRING">> -> Parsed(StringValue(lit), 1)
       [] TypesOf(t) = <<"INT">> /\ IsInt(lit) -> Parsed(IntValue(IntOf(lit)), 1)
       [] TypesOf(t) = <<"IP">> /\ ParsesAsIP(lit) -> Parsed(IPValue(lit), 1)
       [] TypesOf(t) = <<"IP">> /\ ParsesAsCIDR(lit) -> Parsed(IPNetValue(lit), 1)
       [] TypesOf(t) \in {<<"true">>, <<"false">>} -> Parsed(BoolValue(t[1].type = "true"), 1)
       [] /\ Tail(TypesOf(t)) = <<".", "IDENT">>
          /\ lit \in {<<"principal">>, <<"resource">>, <<"context">>} ->
            Parsed(VariableNode(lit[1], t[3].lit), 3)
       [] OTHER -> Fail

(* The tree of a condition: its root is the last operator outside brackets  *)
(* of the loosest level there is; without one it is a negation, a bracketed *)
(* condition or an operand.                                                 *)
RECURSIVE Tree(_, _)
Tree(t, grammar) ==
  LET n == Len(t)
      At(level) == {i \in DOMAIN t : t[i].type \in grammar.levels[level] /\ DepthAt(t, i) = 0}
      used == {level \in DOMAIN grammar.levels : At(level) # {}}
      root == Max(At(Min(used)))
      left == Tree(SubSeq(t, 1, root - 1), grammar)
      right == Tree(SubSeq(t, root + 1, n), grammar)
      single == Min(used) \in grammar.repeated \/ Cardinality(At(Min(used))) = 1
      rest == Tree(Tail(t), grammar)
  IN CASE n = 0 -> Fail
       [] n > 0 /\ used # {} ->
            IF single /\ left.ok /\ right.ok
            THEN Parsed(BinaryExprNode(t[root].type, left.exp, right.exp), n) ELSE Fail
       [] n > 0 /\ used = {} /\ t[1].type = "!" ->
            IF rest.ok THEN Parsed(UnaryExprNode(rest.exp), n) ELSE Fail
       [] n > 0 /\ used = {} /\ t[1].type = "(" ->
            IF t[n].type = ")" THEN Tree(SubSeq(t, 2, n - 1), grammar) ELSE Fail
       [] OTHER -> Operand(t)

ConditionTree(t) == Tree(t, IF Chained(t) THEN LeftGrouped ELSE Documented)

IsScope(t, keyword) ==
  LET types == TypesOf(t)
  IN \E op \in {"==", "in"} :
       \/ types = <<keyword, op, "any">>
       \/ \E type \in {"IDENT", "principal", "action", "resource"} :
            \E id \in {"STRING", "IDENT"} : types = <<keyword, op, type, ":", id>>

(* Obligations, by which token may follow which.                            *)
AreObligations(t) ==
  LET types == <<"STRING">> \o TypesOf(t)
  IN /\ Last(types) # "obligation"
     /\ \A i \in 2 .. Len(types) :
          CASE types[i] = "obligation" -> types[i - 1] \in {"IDENT", "STRING"}
            [] types[i] = "IDENT" -> types[i - 1] = "obligation"
            [] types[i] = "STRING" -> types[i - 1] = "IDENT"
            [] OTHER -> FALSE

(* One statement whose parts are the slices between the given positions.    *)
IsStatement(t) ==
  LET Part(a, b) == SubSeq(t, a, b)
      Is(i, type) == i \in DOMAIN t /\ t[i].type = type
  IN \E p, q, r \in {3, 5} :
       LET close == 5 + p + q + r
       IN /\ \/ Is(1, "permit")
             \/ Is(1, "forbid")
          /\ Is(2, "(") /\ IsScope(Part(3, 2 + p), "principal")
          /\ Is(3 + p, ",") /\ IsScope(Part(4 + p, 3 + p + q), "action")
          /\ Is(4 + p + q, ",") /\ IsScope(Part(5 + p + q, close - 1), "resource")
          /\ Is(close, ")")
          /\ Is(Len(t) - 1, ";") /\ Is(Len(t), "EOF")
          /\ \/ AreObligations(Part(close + 1, Len(t) - 2))
             \/ /\ Is(close + 1, "when") \/ Is(close + 1, "unless")
                /\ Is(close + 2, "{")
                /\ \E e \in close + 3 .. Len(t) - 2 :
                     /\ Is(e, "}")
                     /\ ConditionTree(Part(close + 3, e - 1)).ok
                     /\ AreObligations(Part(e + 1, Len(t) - 2))

(* The condition of a statement: what its only braces enclose.              *)
ConditionOf(t) ==
  LET open == SelectInSeq(t, LAMBDA tok : tok.type = "{")
      close == SelectInSeq(t, LAMBDA tok : tok.type = "}")
  IN IF open = 0 THEN NoCondition ELSE ConditionTree(SubSeq(t, open + 1, close - 1)).exp

(* The condition with its literals typed and nothing folded.                *)
RECURSIVE Unfolded(_)
Unfolded(n) ==
  CASE n.node = "binary" -> BinaryExprNode(n.op, Unfolded(n.left), Unfolded(n.right))
    [] n.node = "not" -> UnaryExprNode(Unfolded(n.child))
    [] n.node = "value" -> TypedValue(n)
    [] OTHER -> n

Logical(n) ==
  CASE n.node = "value" -> n.type = "bool"
    [] n.node \in {"binary", "not"} -> TRUE
    [] OTHER -> FALSE

(* A condition that asks for truth values only of what has them.            *)
RECURSIVE WellTyped(_)
WellTyped(n) ==
  /\ n.node = "not" => Logical(n.child) /\ WellTyped(n.child)
  /\ n.node = "binary" =>
       /\ WellTyped(n.left)
       /\ WellTyped(n.right)
       /\ n.op \in {"&&", "||"} => Logical(n.left) /\ Logical(n.right)

(* An equality of two time literals somewhere in the condition: evaluateEq  *)
(* of the compiler has no case for times and folds it to false.             *)
RECURSIVE ComparesTimes(_)
ComparesTimes(n) ==
  CASE n.node = "not" -> ComparesTimes(n.child)
    [] n.node = "binary" ->
         \/ ComparesTimes(n.left)
         \/ ComparesTimes(n.right)
         \/ /\ n.op \in {"==", "!="}
            /\ \A side \in {n.left, n.right} : side.node = "value" /\ side.type = "datetime"
    [] OTHER -> FALSE

(* Conjunctions and disjunctions of comparisons between operands.           *)
RECURSIVE Positive(_)
Positive(n) ==
  CASE n.node = "binary" /\ n.op \in {"&&", "||"} -> Positive(n.left) /\ Positive(n.right)
    [] n.node = "binary" /\ n.op \notin {"&&", "||"} ->
         {n.left.node, n.right.node} \subseteq {"value", "variable"}
    [] OTHER -> n.node = "value"

(* A single statement that Parse reads and Compile refuses.                 *)
OnlyRefusedByLimits(nodes) ==
  nodes.ok /\ Len(nodes.exp) = 1 /\ ~Compile(nodes.exp[1]).ok

(* Policy i answered the last request as condition n does, if n is typed    *)
(* and the folder has a case for it.                                        *)
AnswersAs(i, n) ==
  WellTyped(n) /\ ~ComparesTimes(n) => (i \in satisfied <=> Satisfied(n, compiled[i].policy.isUnless, request))

Without(env, K) ==
  [env EXCEPT !.context = [k \in DOMAIN env.context \ K |-> env.context[k]]]

-----------------------------------------------------------------------------
(* CompilePolicySet accepts exactly the sets in which every source is one   *)
(* statement of the documented grammar within the compiler's limits, gives  *)
(* each condition the tree the grammar prescribes, and keeps nothing of a   *)
(* set it refuses.  Chained operators are the exception: the document has   *)
(* no tree for A == B == C and reads A < B in C as A < (B in C); the parser *)
(* groups both to the left.                                                 *)
CompilesTheGrammar ==
  request = NoRequest =>
    /\ \A i \in DOMAIN compiled :
         /\ IsStatement(Lex(sources[i]))
         /\ compiled[i].policy.condition = optimizeNode(ConditionOf(Lex(sources[i])))
    /\ status = "compiled" => Len(compiled) = Len(sources)
    /\ status = "failed" =>
         /\ compiled = <<>>
         /\ \E i \in DOMAIN sources :
              \/ ~IsStatement(Lex(sources[i]))
              \/ OnlyRefusedByLimits(Parse(Lex(sources[i])))

(* Folding constants at compile time (foldBinaryExpr, foldUnaryExpr) does   *)
(* not change what a well-typed condition answers to any request, although  *)
(* it drops sides that would have failed to evaluate.  The exception is an  *)
(* equality of two time literals: evaluated it compares the times, folded   *)
(* it is false.                                                             *)
FoldingPreservesMeaning ==
  request # NoRequest =>
    \A i \in DOMAIN compiled :
      AnswersAs(i, Unfolded(ConditionOf(Lex(sources[i]))))

(* Leaving an attribute out of a request never makes a when condition hold  *)
(* that did not hold with it, as long as nothing is negated: a missing      *)
(* attribute makes its comparisons false, != and the orders included.       *)
MissingNeverSatisfies ==
  request # NoRequest =>
    \A i \in DOMAIN compiled :
      /\ ~compiled[i].policy.isUnless
      /\ Positive(compiled[i].policy.condition)
      => \A scope \in {"principal", "resource", "context"} :
           \A field \in compiled[i].required :
             Applies(compiled[i], Without(request, ToSet(Keys(scope, field))))
               => i \in satisfied

(* RequiredAttributes, from which GetTenantSchema tells the enforcement     *)
(* points what to send, is enough: the other attributes of a request change *)
(* no answer.                                                               *)
SchemaSuffices ==
  request # NoRequest =>
    LET schema == UNION {compiled[i].required : i \in DOMAIN compiled}
        others == {k \in DOMAIN request.context : k[2] \notin schema}
    IN satisfied = {i \in DOMAIN compiled : Applies(compiled[i], Without(request, others))}

(* An attribute whose text is the literal's text equals the literal: the    *)
(* compiler's readers and the evaluator's agree on every text both accept.  *)
(* Networks are excepted, for nothing compares them for equality.           *)
EqualTextsAreEqual ==
  request # NoRequest =>
    \A i \in DOMAIN compiled :
      LET c == compiled[i].policy.condition
          text == request.context[<<"raw", c.left.field>>]
      IN /\ ~compiled[i].policy.isUnless
         /\ c.node = "binary" /\ c.op = "=="
         /\ c.left.node = "variable" /\ c.left.scope = "context"
         /\ c.right.node = "value" /\ c.right.type \notin {"ipnet", "int", "bool"}
         /\ <<"raw", c.left.field>> \in DOMAIN request.context
         /\ text = c.right.str
         /\ parseStringValue(text, c.right.type) # Error
         => i \in satisfied

=============================================================================
