--------------------------- MODULE MCPolicyLanguage --------------------------
(* Texts for TLC.  A statement is a head, a condition and a tail.            *)
EXTENDS PolicyLanguage

TheWords == Keywords \cup {"context", "a", "b", "id", "role", "x", "y", "Z", "mask", "audit"}
TheStamps == "2024-05-01T00:00:00Z" :> 100000 @@ "2024-05-02T00:00:00Z" :> 200000
TheOrder == <<" ", "+", ",", "-", ".", "/", "0", "1", "2", "3", "4", "5", "6", "7", "8", "9",
              ":", "2024-05-01T00:00:00Z", "2024-05-02T00:00:00Z", "Z", "a", "role",
              "true", "x", "y">>
TheObligations == {<<"mask">>, <<"audit">>}
TheInherits == {<<<<"x">>, <<"y">>>>}

Scope(keyword) == <<keyword, "=", "=", "any">>
Head1(effect) == <<effect, "(">> \o Scope("principal") \o <<",">> \o Scope("action")
                 \o <<",", "resource", " ", "in", " ", "role", ":", "x", ")">>
Statement(clause, condition) ==
  Head1("permit") \o <<clause, "{">> \o condition \o <<"}", ";">>

A == <<"context", ".", "a">>
B == <<"principal", ".", "b">>
Quoted(s) == <<Quote>> \o s \o <<Quote>>

(* Every sequence of pieces of a condition, well formed or not.              *)
Pieces == {A, <<"true">>, <<"!">>, <<"(">>, <<")">>, <<"&", "&">>, <<"|", "|">>,
           <<"=", "=">>, <<"<">>}
Spaced(p) == FlattenSeq([i \in DOMAIN p |-> <<" ">> \o p[i]])
ShortSequences == UNION {{Spaced(p) : p \in [1 .. n -> Pieces]} : n \in 0 .. 4}
Ops == {<<"&", "&">>, <<"|", "|">>, <<"=", "=">>, <<"!", "=">>, <<"<">>, <<">", "=">>,
        <<" ", "in", " ">>, <<" ", "contains", " ">>}
Nested == UNION {{A \o o \o B \o p \o A, <<"(">> \o A \o o \o B \o <<")">> \o p \o A,
                  A \o o \o <<"(">> \o B \o p \o A \o <<")">>,
                  A \o o \o <<"!">> \o B \o p \o A} : o, p \in Ops}
Structural == {<<Statement("when", c)>> : c \in ShortSequences \cup Nested}

(* Texts of literals and of attributes.                                      *)
Contents == {<<"x">>, <<"y">>, <<"role", ":", "x">>, <<"x", ",", " ", "y">>, <<"7">>,
             <<"-", "7">>, <<"true">>,
             <<"0", "9", ":", "3", "0">>, <<"9", ":", "3", "0">>,
             <<"0", "9", ":", "3", "0", ":", "1", "5">>,
             <<"0", "9", ":", "3", "0", ":", "1", "5", "Z">>,
             <<"0", "9", ":", "3", "0", ":", "9", "9">>,
             <<"1", ".", "2", ".", "3", ".", "4">>, <<"0", "1", ".", "2", ".", "3", ".", "4">>,
             <<"1", ".", "2", ".", "0", ".", "0", "/", "1", "4">>,
             <<"2024-05-01T00:00:00Z">>}
Literals1 == {Quoted(s) : s \in Contents} \cup {<<"7">>, <<"2", "0">>, <<"2", "1">>, <<"true">>}
ComparisonsOf(l) == {l \o o \o r : o \in Ops, r \in Literals1 \cup {B}}
Comparisons == ComparisonsOf(A) \cup ComparisonsOf(B)
Constant == {l \o o \o r : l \in Literals1, o \in {<<"=", "=">>, <<"<">>}, r \in Literals1}
Known == B \o <<"=", "=">> \o Quoted(<<"x">>)
Wrapped(c) == {<<"!", "(">> \o c \o <<")">>,
               c \o <<"&", "&">> \o Known, c \o <<"|", "|">> \o Known,
               c \o <<"&", "&", "false">>, c \o <<"|", "|", "!", "true">>,
               <<"true", "&", "&">> \o c}
Typed == {<<Statement("when", c)>> : c \in Comparisons \cup Constant}
         \cup {<<Statement("unless", c)>> : c \in Comparisons}
         \cup UNION {{<<Statement("when", w)>> : w \in Wrapped(c)} : c \in ComparisonsOf(A)}

(* Statements with one token missing, doubled or replaced, obligations, and  *)
(* sets of several sources.                                                  *)
Eq == <<"=", "=">>
Whole == <<<<"forbid">>, <<"(">>, <<"principal">>, Eq, <<"any">>, <<",">>,
           <<"action">>, Eq, <<"any">>, <<",">>,
           <<"resource">>, <<"in">>, <<"role">>, <<":">>, <<"x">>, <<")">>,
           <<"unless">>, <<"{">>, <<"true">>, <<"}">>,
           <<"obligation">>, <<"mask">>, Quoted(<<"x">>), <<"obligation">>, <<"audit">>, <<";">>>>
Edits == {RemoveAt(Whole, i) : i \in DOMAIN Whole}
         \cup {InsertAt(Whole, i, Whole[i]) : i \in DOMAIN Whole}
         \cup {ReplaceAt(Whole, i, Whole[j]) : i, j \in DOMAIN Whole}
Good == Spaced(Whole)
Sets == {<<>>, <<Good, Good>>, <<Good, <<>>>>, <<Good \o Good>>, <<Good, Statement("when", A)>>}
        \cup {<<Spaced(e)>> : e \in Edits}

TheRuleSets == Structural \cup Typed \cup Sets

Env(context) == [subject |-> <<"x">>, resource |-> <<"y">>, context |-> context]
TheRequests ==
  {Env(<<"raw", <<"a">>>> :> s @@ <<"principal", <<"b">>>> :> <<"y">>) : s \in Contents}
  \cup {Env(<<"principal", <<"b">>>> :> <<"x">>),
        Env(<<"context", <<"a">>>> :> <<"x">>),
        Env(<<"context", <<"a">>>> :> <<"x">> @@ <<"raw", <<"a">>>> :> <<"7">>)}
=============================================================================
