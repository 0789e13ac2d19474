----------------------------- MODULE Evaluator ------------------------------
(***************************************************************************)
(* The evaluation of a compiled condition for one request                  *)
(* (internal/engine/evaluator.go, with the satisfaction test of            *)
(* decision.go).  A request carries the subject, the resource and texts    *)
(* for attribute keys: <<"principal", f>> is the key "principal.f" and     *)
(* <<"raw", f>> the key "f".  An evaluation gives a value or Error; the    *)
(* pool of contexts and their scratch nodes only save allocations.         *)
(***************************************************************************)
EXTENDS Compiler

CONSTANTS Inherits     \* pairs of roles: the first inherits the second

Error == [node |-> "error"]

(* parseStringValue: the text of an attribute as a value of a type.         *)
TimeValue(s, time) ==
  IF time = NoTime THEN Error ELSE ValueNode("datetime", s, time, FALSE, <<>>, 0)
parseStringValue(s, type) ==
  CASE type = "string" -> StringValue(s)
    [] type = "int" -> IF IsInt(s) THEN IntValue(IntOf(s)) ELSE Error
    [] type = "bool" -> IF s \in TrueTexts \cup FalseTexts THEN BoolValue(s \in TrueTexts)
                        ELSE Error
    [] type = "ip" -> IF parseIPv4FastInto(s) THEN IPValue(s) ELSE Error
    [] type = "ipnet" -> IF ParsesAsCIDR(s) THEN IPNetValue(s) ELSE Error
    [] type = "datetime" -> TimeValue(s, readDateTimeOrTime(s))

(* The keys an attribute is looked up under, in order.                      *)
Keys(scope, field) ==
  IF scope = "context" THEN <<<<"raw", field>>, <<"context", field>>>> ELSE <<<<scope, field>>>>

(* GetAttribute; the identifiers are strings whatever type is expected.     *)
GetAttribute(env, scope, field, type) ==
  LET known == SelectSeq(Keys(scope, field), LAMBDA k : k \in DOMAIN env.context)
  IN CASE field = <<"id">> /\ scope = "principal" -> StringValue(env.subject)
       [] field = <<"id">> /\ scope = "resource" -> StringValue(env.resource)
       [] OTHER -> IF known = <<>> THEN Error
                   ELSE parseStringValue(env.context[known[1]], type)

compareEq(l, r) ==
  /\ l.type = r.type
  /\ CASE l.type = "string" -> l.str = r.str
       [] l.type \in {"int", "datetime"} -> l.int = r.int
       [] l.type = "bool" -> l.bool = r.bool
       [] l.type = "ip" -> l.ip = r.ip
       [] OTHER -> FALSE

(* Role names may carry the prefix role:.                                   *)
TrimRole(s) == IF IsPrefix(<<"role", ":">>, s) THEN SubSeq(s, 3, Len(s)) ELSE s
IsDescendant(parent, child) == parent = child \/ <<parent, child>> \in Inherits

(* strings.TrimSpace.                                                       *)
TrimSpace(s) == LET ends == {i \in DOMAIN s : s[i] # " "}
                IN IF ends = {} THEN <<>>
                   ELSE SubSeq(s, CHOOSE i \in ends : \A j \in ends : i <= j,
                                  CHOOSE i \in ends : \A j \in ends : i >= j)
Elements(s) == {TrimSpace(part) : part \in ToSet(Split(s, ","))}

(* The operators on two values: a Boolean value, or Error when the types    *)
(* have no such operation.                                                  *)
Compared(op, l, r) ==
  LET strings == l.type = "string" /\ r.type = "string"
  IN CASE op = "==" -> BoolValue(compareEq(l, r))
       [] op = "!=" -> BoolValue(~compareEq(l, r))
       [] isRelationalOp(op) -> IF Comparable(l, r) THEN BoolValue(Holds(op, l, r)) ELSE Error
       [] op = "in" -> CASE l.type = "ip" /\ r.type = "ipnet" ->
                              BoolValue(NetContains(r.ip, r.bits, l.ip))
                         [] strings -> BoolValue(IsDescendant(TrimRole(l.str), TrimRole(r.str)))
                         [] OTHER -> Error
       [] op = "contains" -> IF strings THEN BoolValue(r.str \in Elements(l.str)) ELSE Error

(* Mutant of Unreadable: a comparison that cannot be made holds.            *)
UnreadableHolds == BoolValue(TRUE)

(* What a comparison is when a side is missing or cannot be read.           *)
Unreadable == BoolValue(FALSE)

(* && is false when the left side fails, || when the right side fails after *)
(* a left side that is not true.                                            *)
Truth(v) == v # Error /\ v.type = "bool" /\ v.bool
OnlyBool(v) == IF v.type = "bool" THEN v ELSE Error
Negation(v) == IF v = Error THEN Error
               ELSE IF v.type = "bool" THEN BoolValue(~v.bool) ELSE Error
Conjunction(l, r) == IF l = Error THEN BoolValue(FALSE)
                     ELSE IF l.type # "bool" THEN Error
                     ELSE IF ~l.bool \/ r = Error THEN BoolValue(FALSE)
                     ELSE OnlyBool(r)
Disjunction(l, r) == IF Truth(l) THEN BoolValue(TRUE)
                     ELSE IF r = Error THEN BoolValue(FALSE)
                     ELSE OnlyBool(r)
Comparison(op, l, r) == IF l = Error \/ r = Error THEN Unreadable ELSE Compared(op, l, r)

RECURSIVE Evaluate(_, _)

(* evaluateComparison: the right side, when it is a literal, gives the type *)
(* the left variable is read as.                                            *)
evaluateComparison(n, env) ==
  LET literal == IF n.right.node = "value" THEN n.right.type ELSE "string"
      expected == IF n.op = "in" /\ literal = "ipnet" THEN "ip" ELSE literal
      l == IF n.left.node = "variable"
           THEN GetAttribute(env, n.left.scope, n.left.field, expected)
           ELSE Evaluate(n.left, env)
  IN Comparison(n.op, l, Evaluate(n.right, env))

Evaluate(n, env) ==
  CASE n.node = "none" -> BoolValue(TRUE)
    [] n.node = "value" -> n
    [] n.node = "variable" -> GetAttribute(env, n.scope, n.field, "string")
    [] n.node = "not" -> Negation(Evaluate(n.child, env))
    [] n.node = "binary" /\ n.op = "&&" ->
         Conjunction(Evaluate(n.left, env), Evaluate(n.right, env))
    [] n.node = "binary" /\ n.op = "||" ->
         Disjunction(Evaluate(n.left, env), Evaluate(n.right, env))
    [] OTHER -> evaluateComparison(n, env)

(* Whether a policy applies: an evaluation that fails or gives no Boolean   *)
(* satisfies neither when nor unless.                                       *)
IsAnswer(v, b) == v # Error /\ v.type = "bool" /\ v.bool = b
Satisfied(condition, isUnless, env) == IsAnswer(Evaluate(condition, env), ~isUnless)

=============================================================================
