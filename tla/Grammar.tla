------------------------------ MODULE Grammar -------------------------------
(***************************************************************************)
(* The grammar of ECMAScript 5 (chapters 11 to 14) as a writer: the tokens *)
(* of a syntax tree, with the parentheses and semicolons that the grammar  *)
(* asks for.  It is a reference for the parser, not a model of it: levels  *)
(* of the grammar here, operator precedence there.                         *)
(*                                                                         *)
(* A token that ends a statement, and only such a semicolon, is soft.      *)
(***************************************************************************)
EXTENDS Naturals, SequencesExt, Syntax

T(t) == <<[t |-> t, v |-> t, nl |-> FALSE, soft |-> FALSE]>>
Id(v) == <<[t |-> IF v = "let" THEN "let" ELSE "id", v |-> v, nl |-> FALSE, soft |-> FALSE]>>
SemicolonToken == <<[t |-> ";", v |-> ";", nl |-> FALSE, soft |-> TRUE]>>
Name(v) == IF v = "" THEN <<>> ELSE Id(v)
LiteralToken(e) == <<[t |-> e.type, v |-> e.text, nl |-> FALSE, soft |-> FALSE]>>

\* A list with commas between its elements
Commas(l) ==
    FoldLeft(LAMBDA done, x : IF done = <<>> THEN x ELSE done \o T(",") \o x, <<>>, l)

\* The productions, from the loosest: 0 Expression, 1 Assignment, 2 Conditional,
\* 3 to 12 the binary operators, 13 Unary, 14 Postfix, 15 LeftHandSide, 16 Call, 17 Member
BinaryLevels == <<{"||"}, {"&&"}, {"|"}, {"^"}, {"&"}, {"==", "!=", "===", "!=="},
                  {"<", ">", "<=", ">=", "instanceof", "in"}, {"<<", ">>", ">>>"},
                  {"+", "-"}, {"*", "/", "%"}>>
OperatorLevel(op) ==
    IF op = "," THEN 0 ELSE IF op \in {".", "["} THEN 17
    ELSE IF \E i \in DOMAIN BinaryLevels : op \in BinaryLevels[i]
    THEN 2 + (CHOOSE i \in DOMAIN BinaryLevels : op \in BinaryLevels[i]) ELSE 1

Level(e) ==
    CASE e.k = "binary" -> OperatorLevel(e.op)
      [] e.k = "conditional" -> 2
      [] e.k = "prefix" -> IF e.op # "new" THEN 13 ELSE IF e.e.k = "call" THEN 17 ELSE 15
      [] e.k = "postfix" -> 14
      [] e.k = "call" -> 16
      [] OTHER -> 18

RECURSIVE Write(_, _, _), WriteS(_), HasCall(_), Bare(_, _)

\* e where the grammar has a production of this level; no_in: the NoIn variants
Write(e, level, no_in) ==
    IF Level(e) < level \/ (no_in /\ e.k = "binary" /\ e.op = "in")
    THEN T("(") \o Bare(e, FALSE) \o T(")") ELSE Bare(e, no_in)

\* A call anywhere on the left of a member would end a new expression
HasCall(e) ==
    \/ e.k = "call"
    \/ e.k = "binary" /\ e.op \in {".", "["} /\ HasCall(e.lhs)

WriteCallee(e) == IF HasCall(e) THEN T("(") \o Bare(e, FALSE) \o T(")") ELSE Write(e, 17, FALSE)
WriteArguments(l) ==
    T("(") \o Commas([i \in DOMAIN l |-> Write(l[i], 1, FALSE)]) \o T(")")
WriteFunction(f) ==
    T("(") \o Commas([i \in DOMAIN f.params |-> Id(f.params[i])]) \o T(")") \o WriteS(f.block)
WriteKey(e) == IF e.k = "identifier" THEN Id(e.id) ELSE LiteralToken(e)
WriteProperty(p) ==
    IF p.type = "normal" THEN WriteKey(p.name) \o T(":") \o Write(p.value, 1, FALSE)
    ELSE Id(p.type) \o WriteKey(p.name) \o WriteFunction(p.value)

WriteBinary(e, no_in) ==
    LET level == OperatorLevel(e.op)
    IN  CASE e.op = "." -> Write(e.lhs, 16, FALSE) \o T(".") \o Id(e.rhs.text)
          [] e.op = "[" -> Write(e.lhs, 16, FALSE) \o T("[") \o Write(e.rhs, 0, FALSE) \o T("]")
          [] level = 1 -> Write(e.lhs, 15, no_in) \o T(e.op) \o Write(e.rhs, 1, no_in)
          [] OTHER -> Write(e.lhs, level, no_in) \o T(e.op) \o Write(e.rhs, level + 1, no_in)

Bare(e, no_in) ==
    CASE e.k = "identifier" -> Id(e.id)
      [] e.k = "this" -> T("this")
      [] e.k = "literal" -> LiteralToken(e)
      [] e.k = "regexp" -> T("regexp")
      [] e.k = "array" ->
            T("[") \o Commas([i \in DOMAIN e.elements |-> Write(e.elements[i], 1, FALSE)]) \o T("]")
      [] e.k = "object" ->
            T("{") \o Commas([i \in DOMAIN e.elements |-> WriteProperty(e.elements[i])]) \o T("}")
      [] e.k = "call" -> Write(e.member, 16, FALSE) \o WriteArguments(e.arguments)
      [] e.k = "prefix" ->
            IF e.op # "new" THEN T(e.op) \o Write(e.e, 13, no_in)
            ELSE IF e.e.k = "call"
            THEN T("new") \o WriteCallee(e.e.member) \o WriteArguments(e.e.arguments)
            ELSE T("new") \o WriteCallee(e.e)
      [] e.k = "postfix" -> Write(e.e, 15, no_in) \o T(e.op)
      [] e.k = "binary" -> WriteBinary(e, no_in)
      [] e.k = "conditional" ->
            Write(e.cond, 3, no_in) \o T("?") \o Write(e.lhs, 1, FALSE) \o T(":")
            \o Write(e.rhs, 1, no_in)
      [] e.k = "function" -> T("function") \o Name(e.id) \o WriteFunction(e)

\* An expression statement does not begin with "{" or "function"
WriteStatementExpression(e) ==
    LET tokens == Write(e, 0, FALSE)
    IN  IF tokens[1].t \in {"{", "function"} THEN T("(") \o tokens \o T(")") ELSE tokens

WriteList(l) == FlattenSeq([i \in DOMAIN l |-> WriteS(l[i])])
WriteDeclarations(l, no_in) ==
    Commas([i \in DOMAIN l |->
        Id(l[i].id) \o (IF l[i].init.k = "nothing" THEN <<>> ELSE T("=") \o Write(l[i].init, 1, no_in))])
WriteOptional(e) == IF e.k = "nothing" THEN <<>> ELSE Write(e, 0, FALSE)
WriteInit(s) ==
    CASE s.k = "nothing" -> <<>>
      [] s.k = "variable" -> T("var") \o WriteDeclarations(s.l, TRUE)
      [] OTHER -> Write(s.e, 0, TRUE)
WriteHead(e) == T("(") \o Write(e, 0, FALSE) \o T(")")

WriteS(s) ==
    CASE s.k = "block" -> T("{") \o WriteList(s.l) \o T("}")
      [] s.k = "variable" -> T("var") \o WriteDeclarations(s.l, FALSE) \o SemicolonToken
      [] s.k = "empty" -> T(";")
      [] s.k = "debugger" -> T("debugger") \o SemicolonToken
      [] s.k = "expression" -> WriteStatementExpression(s.e) \o SemicolonToken
      [] s.k = "if" ->
            T("if") \o WriteHead(s.cond) \o WriteS(s.if_s)
            \o (IF s.else_s.k = "nothing" THEN <<>> ELSE T("else") \o WriteS(s.else_s))
      [] s.k = "do" -> T("do") \o WriteS(s.s) \o T("while") \o WriteHead(s.cond) \o SemicolonToken
      [] s.k = "while" -> T("while") \o WriteHead(s.cond) \o WriteS(s.s)
      [] s.k = "for" ->
            T("for") \o T("(") \o WriteInit(s.init) \o T(";") \o WriteOptional(s.cond) \o T(";")
            \o WriteOptional(s.iter) \o T(")") \o WriteS(s.s)
      [] s.k = "forin" ->
            T("for") \o T("(") \o WriteInit(s.init) \o T("in") \o WriteOptional(s.e) \o T(")")
            \o WriteS(s.s)
      [] s.k \in {"continue", "break"} -> T(s.k) \o Name(s.id) \o SemicolonToken
      [] s.k = "return" -> T("return") \o WriteOptional(s.e) \o SemicolonToken
      [] s.k = "with" -> T("with") \o WriteHead(s.e) \o WriteS(s.s)
      [] s.k = "labelled" -> Id(s.id) \o T(":") \o WriteS(s.s)
      [] s.k = "switch" ->
            T("switch") \o WriteHead(s.e) \o T("{")
            \o FlattenSeq([i \in DOMAIN s.cl |->
                   (IF s.cl[i].e.k = "nothing" THEN T("default")
                    ELSE T("case") \o Write(s.cl[i].e, 0, FALSE)) \o T(":") \o WriteList(s.cl[i].sl)])
            \o T("}")
      [] s.k = "throw" -> T("throw") \o Write(s.e, 0, FALSE) \o SemicolonToken
      [] s.k = "try" ->
            T("try") \o WriteS(s.block)
            \o (IF s.catch_block.k = "nothing" THEN <<>>
                ELSE T("catch") \o T("(") \o Id(s.catch_id) \o T(")") \o WriteS(s.catch_block))
            \o (IF s.finally_block.k = "nothing" THEN <<>> ELSE T("finally") \o WriteS(s.finally_block))
      [] s.k = "definition" -> T("function") \o Id(s.id) \o WriteFunction(s)
=============================================================================
