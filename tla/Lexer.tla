------------------------------- MODULE Lexer --------------------------------
(***************************************************************************)
(* The lexer of the policy language (internal/parser/lexer.go).  A text is *)
(* a sequence of characters.  A word is one character here: it stands for  *)
(* a run of letters, which the lexer never looks into except to recognise  *)
(* a whole keyword.  Line and column numbers only serve the messages.  The *)
(* lexer also counts braces (inCondition, braceCount) and never reads the  *)
(* count, so it is left out.                                               *)
(***************************************************************************)
EXTENDS Naturals, Sequences, TLC

CONSTANTS Words      \* the letters and runs of letters texts are made of

Digits == {"0", "1", "2", "3", "4", "5", "6", "7", "8", "9"}
Quote == "\""

(* A token: its type, and for names, numbers and strings their characters.  *)
Token(type, lit) == [type |-> type, lit |-> lit]
TokEOF == Token("EOF", <<>>)

isLetter(ch) == ch \in Words
isDigit(ch) == ch \in Digits

(* The character at a position; 0 past the end of the input.                *)
CharAt(text, p) == IF p <= Len(text) THEN text[p] ELSE "0x0"

(* Where reading characters of one class stops.                             *)
RunEnd(text, p, InClass(_)) ==
  CHOOSE q \in p .. Len(text) + 1 :
    /\ ~InClass(CharAt(text, q))
    /\ \A r \in p .. q - 1 : InClass(CharAt(text, r))

skipWhitespace(text, p) == RunEnd(text, p, LAMBDA ch : ch = " ")

(* The operators, by first character: the second one that completes the     *)
(* long form, the long token and the short one.                             *)
Operators ==
     "=" :> <<"=", "==", "ILLEGAL">>
  @@ "!" :> <<"=", "!=", "!">>
  @@ ">" :> <<"=", ">=", ">">>
  @@ "<" :> <<"=", "<=", "<">>
  @@ "&" :> <<"&", "&&", "ILLEGAL">>
  @@ "|" :> <<"|", "||", "ILLEGAL">>

Punctuation == {".", ",", ":", ";", "(", ")", "{", "}"}

Keywords == {"permit", "forbid", "principal", "action", "resource", "any", "when",
             "unless", "in", "contains", "obligation", "true", "false"}

lookupIdent(ident) ==
  IF Len(ident) = 1 /\ ident[1] \in Keywords THEN ident[1] ELSE "IDENT"

readIdentifier(text, p) == RunEnd(text, p, LAMBDA ch : isLetter(ch) \/ isDigit(ch))

(* The position after the closing quote, or after the end of the input: an  *)
(* unterminated string is a string.                                         *)
readString(text, p) == RunEnd(text, p + 1, LAMBDA ch : ch \notin {Quote, "0x0"}) + 1

(* k more groups of an address, each a dot and digits.                      *)
RECURSIVE readGroups(_, _, _)
readGroups(text, p, k) ==
  IF k = 0 THEN [at |-> p, ok |-> TRUE]
  ELSE IF CharAt(text, p) # "." THEN [at |-> p, ok |-> FALSE]
  ELSE IF ~isDigit(CharAt(text, p + 1)) THEN [at |-> p + 1, ok |-> FALSE]
  ELSE readGroups(text, RunEnd(text, p + 1, isDigit), k - 1)

(* A number, or four groups and an optional prefix length.                  *)
readNumberOrIP(text, p) ==
  LET first == RunEnd(text, p, isDigit)
      quad == readGroups(text, first, 3)
      bits == RunEnd(text, quad.at + 1, isDigit)
  IN IF CharAt(text, first) # "." THEN [at |-> first, type |-> "INT"]
     ELSE IF ~quad.ok THEN [at |-> quad.at, type |-> "ILLEGAL"]
     ELSE IF CharAt(text, quad.at) # "/" THEN [at |-> quad.at, type |-> "IP"]
     ELSE [at |-> bits, type |-> IF bits = quad.at + 1 THEN "ILLEGAL" ELSE "IP"]

(* The token that starts at p, which is past the whitespace, and where the  *)
(* lexer stands after it.                                                   *)
NextToken(text, p) ==
  LET ch == CharAt(text, p)
      op == Operators[ch]
      long == CharAt(text, p + 1) = op[1]
      name == readIdentifier(text, p)
      number == readNumberOrIP(text, p)
      close == readString(text, p)
      Slice(q) == SubSeq(text, p, q - 1)
  IN CASE ch \in DOMAIN Operators ->
            [tok |-> Token(IF long THEN op[2] ELSE op[3], <<>>),
             at |-> IF long THEN p + 2 ELSE p + 1]
       [] ch \in Punctuation -> [tok |-> Token(ch, <<>>), at |-> p + 1]
       [] ch = Quote -> [tok |-> Token("STRING", SubSeq(text, p + 1, close - 2)), at |-> close]
       [] ch = "0x0" -> [tok |-> TokEOF, at |-> p + 1]
       [] isLetter(ch) -> [tok |-> Token(lookupIdent(Slice(name)), Slice(name)), at |-> name]
       [] isDigit(ch) -> [tok |-> Token(number.type, Slice(number.at)), at |-> number.at]
       [] OTHER -> [tok |-> Token("ILLEGAL", <<>>), at |-> p + 1]

(* The tokens the parser draws, up to the end of the input.                 *)
RECURSIVE LexFrom(_, _)
LexFrom(text, p) ==
  LET next == NextToken(text, skipWhitespace(text, p))
  IN IF next.tok = TokEOF THEN <<TokEOF>> ELSE <<next.tok>> \o LexFrom(text, next.at)

Lex(text) == LexFrom(text, 1)

=============================================================================
