------------------------------- MODULE Parser -------------------------------
(***************************************************************************)
(* The parser of the policy language (internal/parser/parser.go and        *)
(* obligation.go): a Pratt parser for conditions inside a fixed statement  *)
(* form.  curToken is t[i]; every function returns the index of the last   *)
(* token it took.  A function that meets an error records it and goes on,  *)
(* but one recorded error makes every caller reject the source, so here    *)
(* the first error is the result Fail.                                     *)
(***************************************************************************)
EXTENDS Literals

Fail == [ok |-> FALSE]

(* The nodes of the syntax tree (ast.go), without positions.                *)
ValueNode(type, str, int, bool, ip, bits) ==
  [node |-> "value", type |-> type, str |-> str, int |-> int, bool |-> bool,
   ip |-> ip, bits |-> bits]
BoolValue(b) == ValueNode("bool", <<>>, 0, b, <<>>, 0)
IntValue(n) == ValueNode("int", <<>>, n, FALSE, <<>>, 0)
StringValue(s) == ValueNode("string", s, 0, FALSE, <<>>, 0)
IPValue(s) == ValueNode("ip", s, 0, FALSE, Octets(s), 32)
IPNetValue(s) == LET part == Split(s, "/")
                 IN ValueNode("ipnet", s, 0, FALSE, Octets(part[1]), NumberOf(part[2]))
VariableNode(scope, field) == [node |-> "variable", scope |-> scope, field |-> field]
BinaryExprNode(op, left, right) ==
  [node |-> "binary", op |-> op, left |-> left, right |-> right]
UnaryExprNode(child) == [node |-> "not", child |-> child]
NoCondition == [node |-> "none"]
ScopeNode(op, type, id) == [op |-> op, type |-> type, id |-> id]

Parsed(exp, at) == [ok |-> TRUE, exp |-> exp, at |-> at]

(* The precedences; every other token has the lowest.                       *)
LOWEST == 1
PREFIX == 6
precedences == "||" :> 2 @@ "&&" :> 3 @@ "==" :> 4 @@ "!=" :> 4
            @@ [op \in {">", "<", ">=", "<=", "in", "contains"} |-> 5]
precedenceOf(type) == IF type \in DOMAIN precedences THEN precedences[type] ELSE LOWEST

(* The type of a token; past the end the lexer returns EOF for ever.        *)
TypeAt(t, i) == IF i <= Len(t) THEN t[i].type ELSE "EOF"

(* parseVariable: a namespace, a dot and a name.                            *)
parseVariable(t, i) ==
  IF /\ t[i].lit \in {<<"principal">>, <<"resource">>, <<"context">>}
     /\ TypeAt(t, i + 1) = "."
     /\ TypeAt(t, i + 2) = "IDENT"
  THEN Parsed(VariableNode(t[i].lit[1], t[i + 2].lit), i + 2)
  ELSE Fail

parseNumber(t, i) == IF IsInt(t[i].lit) THEN Parsed(IntValue(IntOf(t[i].lit)), i) ELSE Fail

parseIP(t, i) == CASE ParsesAsIP(t[i].lit) -> Parsed(IPValue(t[i].lit), i)
                   [] ParsesAsCIDR(t[i].lit) -> Parsed(IPNetValue(t[i].lit), i)
                   [] OTHER -> Fail

(* Mutant of BindsTighter: operators of equal precedence group to the right.*)
BindsAsTight(type, precedence) == precedence <= precedenceOf(type) /\ type \in DOMAIN precedences

(* The condition under which parseExpression goes on with an infix operator.*)
BindsTighter(type, precedence) == precedence < precedenceOf(type)

Negated(operand) ==
  IF operand.ok THEN Parsed(UnaryExprNode(operand.exp), operand.at) ELSE Fail

Bracketed(t, inner) ==
  IF inner.ok /\ TypeAt(t, inner.at + 1) = ")" THEN Parsed(inner.exp, inner.at + 1) ELSE Fail

Joined(op, left, right) ==
  IF right.ok THEN Parsed(BinaryExprNode(op, left.exp, right.exp), right.at) ELSE Fail

RECURSIVE parseExpression(_, _, _), parseInfix(_, _, _)

(* The operators that follow a left side and bind tighter than precedence.  *)
parseInfix(t, left, precedence) ==
  LET op == TypeAt(t, left.at + 1)
  IN IF left.ok /\ BindsTighter(op, precedence)
     THEN parseInfix(t, Joined(op, left, parseExpression(t, left.at + 2, precedenceOf(op))),
                     precedence)
     ELSE left

parseExpression(t, i, precedence) ==
  LET type == TypeAt(t, i)
      prefix ==
        CASE type \in {"IDENT", "principal", "resource"} -> parseVariable(t, i)
          [] type = "INT" -> parseNumber(t, i)
          [] type = "STRING" -> Parsed(StringValue(t[i].lit), i)
          [] type = "IP" -> parseIP(t, i)
          [] type \in {"true", "false"} -> Parsed(BoolValue(type = "true"), i)
          [] type = "!" -> Negated(parseExpression(t, i + 1, PREFIX))
          [] type = "(" -> Bracketed(t, parseExpression(t, i + 1, LOWEST))
          [] OTHER -> Fail
  IN parseInfix(t, prefix, precedence)

(* keyword (== | in) (any | type : id).                                     *)
parseScope(t, i, keyword) ==
  LET op == TypeAt(t, i + 1)
      scoped == TypeAt(t, i) = keyword /\ op \in {"==", "in"}
  IN IF scoped /\ TypeAt(t, i + 2) = "any" THEN Parsed(ScopeNode("any", <<>>, <<>>), i + 2)
     ELSE IF /\ scoped
             /\ TypeAt(t, i + 2) \in {"IDENT", "principal", "action", "resource"}
             /\ TypeAt(t, i + 3) = ":"
             /\ TypeAt(t, i + 4) \in {"STRING", "IDENT"}
     THEN Parsed(ScopeNode(op, t[i + 2].lit, t[i + 4].lit), i + 4)
     ELSE Fail

(* What follows grows p, the part of a statement read so far: obligation    *)
(* name [message], as often as it occurs.                                   *)
parseObligation(t, p) ==
  LET name == p.at + 2
      last == IF TypeAt(t, name + 1) = "STRING" THEN name + 1 ELSE name
      message == IF last = name THEN <<>> ELSE t[last].lit
  IN IF TypeAt(t, name) = "IDENT"
     THEN Parsed([p.exp EXCEPT !.obligations =
                    Append(@, [type |-> t[name].lit, message |-> message])], last)
     ELSE Fail

RECURSIVE parseObligations(_, _)
parseObligations(t, p) ==
  IF p.ok /\ TypeAt(t, p.at + 1) = "obligation" THEN parseObligations(t, parseObligation(t, p))
  ELSE p

(* permit or forbid and an opening bracket.                                 *)
parseEffect(t, i) ==
  IF TypeAt(t, i) \in {"permit", "forbid"} /\ TypeAt(t, i + 1) = "("
  THEN Parsed([effect |-> TypeAt(t, i), obligations |-> <<>>], i + 1)
  ELSE Fail

(* One scope and the token that closes it.                                  *)
WithScope(t, p, keyword, closing) ==
  LET scope == parseScope(t, p.at + 1, keyword)
  IN IF p.ok /\ scope.ok /\ TypeAt(t, scope.at + 1) = closing
     THEN Parsed(p.exp @@ keyword :> scope.exp, scope.at + 1)
     ELSE Fail

(* A condition in braces, when there is one.                                *)
Braced(t, p, condition) ==
  IF condition.ok /\ TypeAt(t, p.at + 2) = "{" /\ TypeAt(t, condition.at + 1) = "}"
  THEN Parsed(p.exp @@ [condition |-> condition.exp,
                        isUnless |-> TypeAt(t, p.at + 1) = "unless"], condition.at + 1)
  ELSE Fail
WithCondition(t, p) ==
  IF ~p.ok THEN Fail
  ELSE IF TypeAt(t, p.at + 1) \in {"when", "unless"}
  THEN Braced(t, p, parseExpression(t, p.at + 3, LOWEST))
  ELSE Parsed(p.exp @@ [condition |-> NoCondition, isUnless |-> FALSE], p.at)

Semicolon(t, p) ==
  IF p.ok /\ TypeAt(t, p.at + 1) = ";" THEN Parsed(p.exp, p.at + 1) ELSE Fail

(* One statement: effect, scopes, condition, obligations and a semicolon.   *)
parsePolicy(t, i) ==
  LET Scopes(p) == WithScope(t, WithScope(t, WithScope(t, p, "principal", ","),
                                          "action", ","), "resource", ")")
  IN Semicolon(t, parseObligations(t, WithCondition(t, Scopes(parseEffect(t, i)))))

(* All the statements of a source.                                          *)
WithPolicy(p, policy) ==
  IF policy.ok THEN Parsed(Append(p.exp, policy.exp), policy.at) ELSE Fail

RECURSIVE parseFrom(_, _)
parseFrom(t, p) ==
  IF p.ok /\ TypeAt(t, p.at + 1) # "EOF"
  THEN parseFrom(t, WithPolicy(p, parsePolicy(t, p.at + 1)))
  ELSE p

Parse(t) == parseFrom(t, Parsed(<<>>, 0))

=============================================================================
