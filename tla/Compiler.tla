------------------------------ MODULE Compiler ------------------------------
(***************************************************************************)
(* The compiler of the policy language (internal/parser/compiler.go and    *)
(* obligation.go): it checks the obligations and the depth of a condition, *)
(* gives string literals that look like addresses or times their type,     *)
(* folds constants and lists the attributes the condition reads.           *)
(*                                                                         *)
(* preparseIdentifiersAndLiterals changes nothing: it tries the two        *)
(* readers on literals that optimizeNode has left strings because both     *)
(* readers refused them.  The parser makes no UnaryOpNeg node.             *)
(***************************************************************************)
EXTENDS Parser, FiniteSets

CONSTANTS MaxDepth,         \* 15 in the code
          MaxObligations,   \* 4 in the code
          MaxMessage,       \* 256 bytes in the code
          ObligationTypes   \* the three names the code knows

ASSUME CompilerAssumption == {MaxDepth, MaxObligations, MaxMessage} \subseteq Nat

validatePolicyObligations(policy) ==
  LET list == policy.obligations
  IN /\ Len(list) <= MaxObligations
     /\ \A i \in DOMAIN list :
          /\ list[i].type \in ObligationTypes
          /\ Len(list[i].message) <= MaxMessage
          /\ \A j \in 1 .. i - 1 : list[i].type # list[j].type

RECURSIVE checkDepth(_, _)
checkDepth(n, depth) ==
  /\ depth <= MaxDepth
  /\ n.node = "binary" => checkDepth(n.left, depth + 1) /\ checkDepth(n.right, depth + 1)
  /\ n.node = "not" => checkDepth(n.child, depth + 1)

-----------------------------------------------------------------------------

isRelationalOp(op) == op \in {">", "<", ">=", "<="}

(* The type of a string literal, by what the readers make of its text.      *)
TypedText(v, time) ==
  IF ParsesAsIP(v.str) THEN IPValue(v.str)
  ELSE IF ParsesAsCIDR(v.str) THEN IPNetValue(v.str)
  ELSE IF time # NoTime THEN [v EXCEPT !.type = "datetime", !.int = time]
  ELSE v
TypedValue(v) ==
  IF v.type = "string" THEN TypedText(v, tryParseDateTimeOrTime(v.str)) ELSE v

(* Equality of literals; there is no case for times and networks.           *)
evaluateEq(l, r) ==
  /\ l.type = r.type
  /\ CASE l.type = "bool" -> l.bool = r.bool
       [] l.type = "int" -> l.int = r.int
       [] l.type = "string" -> l.str = r.str
       [] l.type = "ip" -> l.ip = r.ip
       [] OTHER -> FALSE

(* evaluateCompare: numbers, times and strings have an order.               *)
Comparable(l, r) == l.type = r.type /\ l.type \in {"int", "datetime", "string"}
Before(l, r) == IF l.type = "string" THEN TextBefore(l.str, r.str) ELSE l.int < r.int
Holds(op, l, r) == CASE op = ">" -> Before(r, l)
                     [] op = "<" -> Before(l, r)
                     [] op = ">=" -> ~Before(l, r)
                     [] op = "<=" -> ~Before(r, l)

IsBool(n, b) == n.node = "value" /\ n.type = "bool" /\ n.bool = b

(* Mutant of foldBinaryExpr: && folds when only one side is true.           *)
foldAnyTrue(op, l, r) ==
  IF op = "&&" /\ (IsBool(l, TRUE) \/ IsBool(r, TRUE)) THEN BoolValue(TRUE)
  ELSE BinaryExprNode(op, l, r)

(* Constant folding of a binary node whose sides are folded.                *)
foldBinaryExpr(op, l, r) ==
  LET constants == l.node = "value" /\ r.node = "value"
  IN CASE op = "&&" /\ (IsBool(l, FALSE) \/ IsBool(r, FALSE)) -> BoolValue(FALSE)
       [] op = "||" /\ (IsBool(l, TRUE) \/ IsBool(r, TRUE)) -> BoolValue(TRUE)
       [] op = "&&" /\ IsBool(l, TRUE) /\ IsBool(r, TRUE) -> BoolValue(TRUE)
       [] op = "||" /\ IsBool(l, FALSE) /\ IsBool(r, FALSE) -> BoolValue(FALSE)
       [] op = "==" /\ constants -> BoolValue(evaluateEq(l, r))
       [] op = "!=" /\ constants -> BoolValue(~evaluateEq(l, r))
       [] isRelationalOp(op) /\ constants /\ Comparable(l, r) -> BoolValue(Holds(op, l, r))
       [] OTHER -> BinaryExprNode(op, l, r)

foldUnaryExpr(child) ==
  IF child.node = "value" /\ child.type = "bool" THEN BoolValue(~child.bool)
  ELSE UnaryExprNode(child)

RECURSIVE optimizeNode(_)
optimizeNode(n) ==
  CASE n.node = "binary" -> foldBinaryExpr(n.op, optimizeNode(n.left), optimizeNode(n.right))
    [] n.node = "not" -> foldUnaryExpr(optimizeNode(n.child))
    [] n.node = "value" -> TypedValue(n)
    [] OTHER -> n

(* checkTypeCompatibility fails somewhere in the tree: an order between two *)
(* constants of different types.                                            *)
Unordered(l, r) == l.node = "value" /\ r.node = "value" /\ l.type # r.type
RECURSIVE incompatible(_)
incompatible(n) ==
  \/ n.node = "not" /\ incompatible(n.child)
  \/ /\ n.node = "binary"
     /\ \/ incompatible(n.left)
        \/ incompatible(n.right)
        \/ isRelationalOp(n.op) /\ Unordered(optimizeNode(n.left), optimizeNode(n.right))

(* Mutant of extractRequiredAttributes: right sides are not visited.        *)
RECURSIVE extractLeftAttributes(_)
extractLeftAttributes(n) ==
  CASE n.node = "variable" -> {n.field}
    [] n.node = "binary" -> extractLeftAttributes(n.left)
    [] n.node = "not" -> extractLeftAttributes(n.child)
    [] OTHER -> {}

RECURSIVE extractRequiredAttributes(_)
extractRequiredAttributes(n) ==
  CASE n.node = "variable" -> {n.field}
    [] n.node = "binary" -> extractRequiredAttributes(n.left) \cup extractRequiredAttributes(n.right)
    [] n.node = "not" -> extractRequiredAttributes(n.child)
    [] OTHER -> {}

(* Compile; a condition left out is accepted as it is.                      *)
Compile(policy) ==
  LET folded == optimizeNode(policy.condition)
  IN IF /\ validatePolicyObligations(policy)
        /\ policy.condition # NoCondition => checkDepth(policy.condition, 1)
        /\ ~incompatible(policy.condition)
     THEN [ok |-> TRUE,
           policy |-> [policy EXCEPT !.condition = folded],
           required |-> extractRequiredAttributes(folded)]
     ELSE Fail

=============================================================================
