----------------------------- MODULE MCLanguage -----------------------------
(***************************************************************************)
(* Language on expressions of every level of the grammar within each       *)
(* other, on statements within statements, and on the rules of strict mode *)
(* in every kind of code.                                                  *)
(***************************************************************************)
EXTENDS Language

a == Identifier("a")
b == Identifier("b")
Fn(l) == FunctionExpression("", <<>>, Block(l, FALSE))
Getter(e) == FunctionExpression("get", <<>>, Block(<<Return(e)>>, FALSE))
Num == Literal("num", "1")

\* One operator of each level.  && is left out: the code reads a || b && c
\* as (a || b) && c; and the comma, which it reads from the right.
\* Nor does it read the operator in within the head of a for statement,
\* where parentheses or brackets make it legal
BinaryOps == {"*", "-", "<<", "<", "in", "==", "&", "^", "|", "||"}
Assignable(e) == e.k = "identifier" \/ (e.k = "binary" /\ e.op \in {".", "["})

\* The expressions with parts from l and r
Around(l, r) ==
    {Binary(op, x, y) : op \in BinaryOps, x \in l, y \in r}
    \cup {Binary(op, x, y) : op \in {"=", "+="}, x \in {z \in l : Assignable(z)}, y \in r}
    \cup {Binary(".", x, Literal("str", "b")) : x \in l} \cup {Binary("[", x, y) : x \in l, y \in r}
    \cup {CallExpression(x, <<y>>) : x \in l, y \in r}
    \cup {Prefix("new", CallExpression(x, <<y>>)) : x \in l, y \in r}
    \cup {Prefix(op, x) : op \in {"-", "typeof", "new"}, x \in {z \in l : z.k # "call"}}
    \cup {Prefix("++", x) : x \in {z \in l : Assignable(z)}}
    \cup {Postfix("--", x) : x \in {z \in l : Assignable(z)}}
    \cup {Conditional(x, y, y) : x \in l, y \in r} \cup {Conditional(x, y, x) : x \in l, y \in r}
    \cup {ArrayLiteral(<<x, y>>) : x \in l, y \in r}
    \cup {ObjectLiteral(<<Property("normal", b, x), Property("get", a, Getter(y))>>) :
             x \in l, y \in r}
    \cup {Fn(<<Return(x)>>) : x \in l}

Simple == Around({a}, {Num})
Expressions == Around(Simple, Simple)

Text(e) == ExpressionStatement(e)
Calls == {Text(CallExpression(a, <<>>)), Text(Postfix("++", a)), Text(Prefix("--", a)),
          Return(a), Return(Nothing), Break(""), Continue("a"), Throw(a), Empty,
          Variable(<<Declaration("a", Num), Declaration("b", Nothing)>>), Debugger,
          Text(Prefix("-", a)), Text(ArrayLiteral(<<>>))}

EndsOpenIf(s) == s.k = "if" /\ s.else_s.k = "nothing"
Braces(s) == Block(<<s>>, FALSE)

\* A statement in each place of another
Within(s) ==
    {Braces(s), While(a, s), Labelled("a", s), With(a, s),
     If(a, s, Nothing), For(Nothing, Nothing, Nothing, s),
     For(Text(Binary("=", a, Num)), Binary("in", a, b), Postfix("++", a), s),
     For(Variable(<<Declaration("a", Conditional(a, Binary("<", a, b), b))>>), Nothing, Nothing, s),
     ForIn(Variable(<<Declaration("a", Nothing)>>), b, s), ForIn(Text(a), Binary("in", a, b), s),
     Switch(a, <<Clause(a, <<s>>), Clause(Nothing, <<s, Break("")>>)>>),
     Try(Braces(s), Nothing, "", Braces(s)), Try(Braces(s), Braces(s), "a", Nothing),
     FunctionDefinition("a", <<"a", "b">>, Braces(s)), Text(CallExpression(Fn(<<s, s>>), <<>>))}
    \cup (IF s.k \in {"empty", "if"} THEN {} ELSE {If(a, s, s)})
    \cup (IF s.k = "empty" THEN {} ELSE {Do(a, s)})

Statements1 == UNION {Within(s) : s \in Calls}
Nested == UNION {Within(s) : s \in UNION {Within(t) : t \in {Text(a), Return(a), Break("")}}}

Program(l, layouts) ==
    [tree |-> Block(l, FALSE), mode |-> "non_strict", legal |-> TRUE, layouts |-> layouts]

\* Breaking a rule of strict mode: a statement for code of either mode
UseStrict == Text(Literal("str", "use strict"))
Offences(strict) ==
    LET block == Block(<<>>, strict)
        fn(id, params) == FunctionDefinition(id, params, block)
        eval == Identifier("eval")
    IN  {Text(Binary("=", eval, Num)), Text(Postfix("++", Identifier("arguments"))),
         Text(Prefix("--", eval)), Text(Prefix("delete", a)), With(a, Empty),
         Text(Literal("num", "010")), Text(CallExpression(a, <<Literal("str", "\\07")>>)),
         Variable(<<Declaration("eval", Nothing)>>), Try(block, block, "arguments", Nothing),
         fn("a", <<"b", "b">>), fn("eval", <<>>), fn("a", <<"b", "arguments">>),
         Text(Binary("=", a, ObjectLiteral(<<Property("normal", b, a), Property("normal", b, a)>>))),
         Text(Binary("=", a, FunctionExpression("eval", <<>>, block)))}

\* Code around the statement x: [code, is x in strict code], x made for that mode
Def(l, strict) == FunctionDefinition("a", <<>>, Block(l, strict))
Contexts(x, strict) ==
    IF strict
    THEN {<<<<UseStrict, x>>, TRUE>>, <<<<Text(Literal("str", "other")), UseStrict, x>>, TRUE>>,
          <<<<UseStrict, Def(<<x>>, TRUE)>>, TRUE>>, <<<<Def(<<UseStrict, x>>, TRUE)>>, FALSE>>,
          <<<<UseStrict, Def(<<Text(a)>>, TRUE), x>>, TRUE>>}
    ELSE {<<<<x>>, FALSE>>, <<<<Text(a), UseStrict, x>>, FALSE>>,
          <<<<Def(<<UseStrict>>, TRUE), x>>, FALSE>>, <<<<Def(<<x>>, FALSE)>>, FALSE>>,
          <<<<Text(Binary("=", a, FunctionExpression("b", <<>>, Block(<<UseStrict>>, TRUE)))), x>>, FALSE>>,
          <<<<Braces(UseStrict), x>>, FALSE>>}

StrictPrograms ==
    {[tree |-> Block(c[1], c[2]), mode |-> "non_strict", legal |-> ~strict, layouts |-> {"line"}] :
        <<c, strict>> \in UNION {{<<c, strict>> : c \in UNION {Contexts(x, strict) : x \in Offences(strict)}} :
                                 strict \in BOOLEAN}}

\* The directive makes the name and the parameters of its function illegal too
OwnDirective(id, params) == FunctionDefinition(id, params, Block(<<UseStrict>>, TRUE))
DirectivePrograms ==
    {[tree |-> Block(<<OwnDirective(n, ps)>>, FALSE), mode |-> "non_strict",
      legal |-> n # "eval" /\ ps = <<"a", "b">>, layouts |-> {"line"}] :
        n \in {"a", "eval"}, ps \in {<<"a", "b">>, <<"a", "a">>, <<"b", "eval">>}}

\* In strict code, functions with the parameters inner within one with the
\* parameters outer.  A function constructor has one function exempted from
\* the rule of parameters: the one whose body ends first, which is the one
\* constructed only when there is none within it
StrictFunction(ps, l) == FunctionDefinition("a", ps, Block(l, TRUE))
InStrictCode(outer, inner) ==
    Block(<<StrictFunction(outer, [k \in DOMAIN inner |-> StrictFunction(inner[k], <<>>)])>>, TRUE)
GoodList == <<"a", "b">>
ParameterLists == {GoodList, <<"b", "b">>}
ExemptionPrograms ==
    {[tree |-> InStrictCode(outer, inner), mode |-> m,
      legal |-> LET ends == Append(inner, outer)
                IN  \A k \in DOMAIN ends :
                        ends[k] = GoodList \/ (k = 1 /\ m = "function_constructor"),
      layouts |-> {"line"}] :
        outer \in ParameterLists, inner \in UNION {[1 .. n -> ParameterLists] : n \in 0 .. 2},
        m \in {"strict", "function_constructor"}}

MCPrograms ==
    {Program(<<Text(e)>>, {"line"}) : e \in Expressions}
    \cup {Program(<<s, t>>, {"line", "break", "missing", "inserted"}) :
             s \in Statements1, t \in {Text(a), Text(Prefix("++", a))}}
    \cup {Program(<<s>>, {"line"}) : s \in Nested}
    \cup StrictPrograms \cup DirectivePrograms \cup ExemptionPrograms
=============================================================================
