------------------------------- MODULE Parser -------------------------------
(***************************************************************************)
(* The recursive descent parser (parser.cpp), from tokens to syntax trees. *)
(*                                                                         *)
(* A token is [t, v, nl]: its type, its text, and whether a line break     *)
(* stands before it.  The members of class parser are one record p, which  *)
(* each function takes and returns with the tree it made.  An exception of *)
(* the parser leaves a token in p that no function accepts, so that every  *)
(* caller comes to its end; what the parse made is then of no account.     *)
(***************************************************************************)
EXTENDS Naturals, Sequences, Syntax, Once

CONSTANT Version    \* of the language: 1, 3 or 5

ASSUME ParserAssumption == Version \in {1, 3, 5}

----------------------------------------------------------------------------
(* Tokens.                                                                 *)

LiteralTokens == {"num", "str", "null", "true", "false"}
AssignmentOps == {"=", "+=", "-=", "*=", "/=", "%=", "<<=", ">>=", ">>>=", "&=", "^=", "|="}
Keywords == {"this", "delete", "void", "typeof", "new", "function", "in", "instanceof", "var",
             "if", "else", "do", "while", "for", "continue", "break", "return", "with",
             "switch", "case", "default", "throw", "try", "catch", "finally", "debugger",
             "null", "true", "false"}
UnaryOps == {"delete", "void", "typeof", "++", "--", "+", "-", "~", "!"}

\* is_reserved: the words of ES5
Reserved == {"class", "const", "enum", "export", "extends", "import", "super"}
StrictReserved == {"implements", "interface", "let", "package", "private", "protected",
                   "public", "static", "yield"}

operator_precedence(op) ==
    CASE op \in {"*", "/", "%"} -> 5
      [] op \in {"+", "-"} -> 6
      [] op \in {"<<", ">>", ">>>"} -> 7
      [] op \in {"<", "<=", ">", ">=", "in", "instanceof"} -> 8
      [] op \in {"==", "===", "!=", "!=="} -> 9
      [] op = "&" -> 10
      [] op = "^" -> 11
      [] op = "|" -> 12
      [] op \in {"&&", "||"} -> 13
      [] op \in AssignmentOps \cup {"?"} -> 15
      [] op = "," -> 16
      [] OTHER -> 17

is_right_to_left(op) == operator_precedence(op) >= 15

ErrorToken == [t |-> "error", v |-> "", nl |-> FALSE]
EndToken == [t |-> "eof", v |-> "", nl |-> FALSE]
Tok(p) == p.cur.t
Failed(p) == Tok(p) = "error"
Fail(p) == [p EXCEPT !.cur = ErrorToken]
Made(e, p) == [e |-> e, p |-> p]
Rejected(p) == Made(Nothing, Fail(p))
Unless(bad, r) == IF bad THEN Made(r.e, Fail(r.p)) ELSE r

\* check_token: the token that comes next, as the state of the parser has it
CheckToken(tok, strict) ==
    IF tok.t \in Reserved \/ (Version >= 5 /\ strict /\ tok.t \in StrictReserved) THEN ErrorToken
    ELSE IF Version >= 5 /\ tok.t \in StrictReserved THEN [tok EXCEPT !.t = "id"]
    ELSE tok

Peek(p) == IF p.i < Len(p.tokens) THEN p.tokens[p.i + 1] ELSE EndToken

\* get_token: the token after it is looked at under the mode of this moment
Get(p) ==
    [p EXCEPT !.i = @ + 1, !.cur = CheckToken(Peek(p), p.strict), !.line_break = Peek(p).nl]

\* A regular expression is read without get_token: line_break_skipped_ stays
GetRegexp(p) == [Get(p) EXCEPT !.line_break = @ \/ p.line_break]

Expect(p, t) == IF Tok(p) = t THEN Get(p) ELSE Fail(p)
Skip(p, t) == IF Tok(p) = t THEN Get(p) ELSE p

\* Mutant: no semicolon is needed anywhere
SemicolonNowhere(p) == Skip(p, ";")

\* expect_semicolon_allow_insertion
Semicolon(p) ==
    IF ~p.line_break /\ Tok(p) \notin {"}", "eof"} THEN Expect(p, ";") ELSE Skip(p, ";")

----------------------------------------------------------------------------
(* Rules of strict mode.                                                   *)

UnassignableName(id) == id \in {"eval", "arguments"}
Unassignable(e) == e.k = "identifier" /\ UnassignableName(e.id)
IsOctal(type, text) == (type = "num" /\ text = "010") \/ (type = "str" /\ text = "\\07")
IsDirective(s) == s.k = "expression" /\ s.e.k = "literal" /\ s.e.type = "str"
IsStrictDirective(e) == e.k = "literal" /\ e.type = "str" /\ e.text = "use strict"

\* parse_primary_expression: a new property of an object literal is refused
Redefines(l, new, strict) ==
    \E i \in DOMAIN l :
        /\ (IF l[i].name.k = "identifier" THEN l[i].name.id ELSE l[i].name.text)
           = (IF new.name.k = "identifier" THEN new.name.id ELSE new.name.text)
        /\ IF new.type = "normal" /\ l[i].type = "normal" THEN strict
           ELSE IF "normal" \in {new.type, l[i].type} THEN TRUE
           ELSE new.type = l[i].type

\* The parameters of a function, once its body is known to be strict
BadParameters(ps) ==
    \E i \in DOMAIN ps : UnassignableName(ps[i]) \/ \E j \in i + 1 .. Len(ps) : ps[i] = ps[j]

----------------------------------------------------------------------------
(* Expressions.                                                            *)

\* The parse functions that call one another; Rule has their bodies
RECURSIVE Rule(_, _, _)
parse_assignment_expression(p) == Rule("assignment", p, FALSE)
parse_expression(p) == Rule("expression", p, FALSE)
parse_unary_expression(p) == Rule("unary", p, FALSE)
parse_member_expression(p) == Rule("member", p, FALSE)
parse_block(p, check) == Rule("block", p, check)
parse_statement(p, check) == Rule("statement", p, check)

\* The loops
RECURSIVE Climb(_, _, _, _), Operand(_, _, _), Elements(_, _, _), Properties(_, _),
          Suffixed(_, _, _), Arguments(_, _), Parameters(_, _), Declarations(_, _),
          Statements(_, _, _), Clauses(_, _, _), ClauseBody(_, _)

Prec(op, no_in) == IF no_in /\ op = "in" THEN 100 ELSE operator_precedence(op)
NoIn(p) == p.suppress_in \/ Version < 3

Assignment(p) == LET lhs == parse_unary_expression(p) IN Climb(lhs.e, lhs.p, 15, NoIn(lhs.p))
Expression(p) == LET lhs == parse_assignment_expression(p) IN Climb(lhs.e, lhs.p, 16, NoIn(lhs.p))

\* parse_expression1
Climb(lhs, p, outer, no_in) ==
    LET op == Tok(p)
        then == parse_assignment_expression(Get(p))
        else == parse_assignment_expression(Expect(then.p, ":"))
        rhs == Operand(parse_unary_expression(Get(p)), Prec(op, no_in), no_in)
    IN  IF Prec(op, no_in) > outer THEN Made(lhs, p)
        ELSE IF op = "?" THEN Climb(Conditional(lhs, then.e, else.e), else.p, outer, no_in)
        ELSE IF p.strict /\ op \in AssignmentOps /\ Unassignable(lhs) THEN Rejected(p)
        ELSE Climb(Binary(op, lhs, rhs.e), rhs.p, outer, no_in)

\* Its inner loop: operators that bind tighter than the one before rhs
Operand(rhs, precedence, no_in) ==
    LET next == Prec(Tok(rhs.p), no_in)
    IN  IF next > precedence \/ (next = precedence /\ ~is_right_to_left(Tok(rhs.p))) THEN rhs
        ELSE Operand(Climb(rhs.e, rhs.p, next, NoIn(rhs.p)), precedence, no_in)

\* parse_left_hand_side_expression
LeftHandSide(p) == LET r == parse_member_expression(p) IN Suffixed(r.e, r.p, TRUE)

\* Mutant: an operator on the next line is taken for a postfix one
PostfixAnywhere(p) ==
    LET r == LeftHandSide(p)
    IN  IF Tok(r.p) \notin {"++", "--"} THEN r
        ELSE Unless(r.p.strict /\ Unassignable(r.e), Made(Postfix(Tok(r.p), r.e), Get(r.p)))

\* parse_postfix_expression
PostfixExpression(p) ==
    LET r == LeftHandSide(p)
    IN  IF r.p.line_break \/ Tok(r.p) \notin {"++", "--"} THEN r
        ELSE Unless(r.p.strict /\ Unassignable(r.e), Made(Postfix(Tok(r.p), r.e), Get(r.p)))

\* parse_unary_expression
Unary(p) ==
    IF Tok(p) \notin UnaryOps THEN PostfixExpression(p)
    ELSE LET r == parse_unary_expression(Get(p))
             bad == (Tok(p) = "delete" /\ r.e.k = "identifier") \/ Unassignable(r.e)
         IN  Unless(r.p.strict /\ bad, Made(Prefix(Tok(p), r.e), r.p))

Elements(p, l, comma) ==
    IF Failed(p) THEN Rejected(p)
    ELSE IF Tok(p) = "]" THEN Made(ArrayLiteral(l), Get(p))
    ELSE IF Tok(p) = "," THEN Elements(Get(p), IF comma THEN l ELSE Append(l, Nothing), FALSE)
    ELSE IF comma THEN Rejected(p)
    ELSE LET r == parse_assignment_expression(p) IN Elements(r.p, Append(l, r.e), TRUE)

\* get_identifier_name
IdentifierName(p) ==
    IF Tok(p) = "id" \/ (Version >= 5 /\ Tok(p) \in Keywords) THEN Made(Identifier(p.cur.v), Get(p))
    ELSE Made(Identifier(""), Fail(p))

\* check_literal
CheckedLiteral(p) ==
    Unless(p.strict /\ IsOctal(Tok(p), p.cur.v), Made(Literal(Tok(p), p.cur.v), Get(p)))

PropertyName(p) == IF Tok(p) \in {"str", "num"} THEN CheckedLiteral(p) ELSE IdentifierName(p)

\* parse_block
BlockStatement(p, check) ==
    LET r == Statements(Expect(p, "{"), check, <<>>)
        end == Expect(r.p, "}")
    IN  Made(Block(r.l, end.strict), end)

\* Mutant: strict mode stays on after a function
FunctionKeepsMode(p) ==
    LET ps == Parameters(Expect(p, "("), <<>>)
        b == parse_block(ps.p, Version >= 5)
        end == IF b.e.strict /\ ~b.p.skip_checks /\ BadParameters(ps.l) THEN Fail(b.p) ELSE b.p
    IN  [params |-> ps.l, block |-> b.e, p |-> [end EXCEPT !.skip_checks = FALSE]]

\* parse_function, with scoped_strict_mode.  The exemption from the checks is
\* looked at after the block: a function within it has used it up
Function(p) ==
    LET ps == Parameters(Expect(p, "("), <<>>)
        b == parse_block(ps.p, Version >= 5)
        end == IF b.e.strict /\ ~b.p.skip_checks /\ BadParameters(ps.l) THEN Fail(b.p) ELSE b.p
    IN  [params |-> ps.l, block |-> b.e,
         p |-> [end EXCEPT !.strict = p.strict, !.skip_checks = FALSE]]

\* parse_property_name_and_value
PropertyOf(p) ==
    LET is_accessor(name) == /\ Version >= 5 /\ Tok(name.p) # ":"
                             /\ name.e.k = "identifier" /\ name.e.id \in {"get", "set"}
        normal(name) ==
            LET value == parse_assignment_expression(Expect(name.p, ":"))
            IN  Made(Property("normal", name.e, value.e), value.p)
        accessor(type, key, f) ==
            Unless(Len(f.params) # (IF type = "get" THEN 0 ELSE 1),
                   Made(Property(type, key, FunctionExpression(type, f.params, f.block)), f.p))
        made(name) ==
            LET key == PropertyName(name.p)
            IN  IF is_accessor(name)
                THEN Once(Function(key.p), LAMBDA f : accessor(name.e.id, key.e, f))
                ELSE normal(name)
    IN  Once(PropertyName(p), made)

\* The properties of an object literal, after "{"
Properties(p, l) ==
    LET q == IF l = <<>> THEN p ELSE Expect(p, ",")
        bad(r) == Failed(r.p) \/ (Version >= 5 /\ Redefines(l, r.e, r.p.strict))
        more(r) == IF bad(r) THEN Rejected(p) ELSE Properties(r.p, Append(l, r.e))
    IN  IF Failed(p) THEN Rejected(p)
        ELSE IF Tok(p) = "}" THEN Made(ObjectLiteral(l), Get(p))
        ELSE IF Version >= 5 /\ l # <<>> /\ Tok(q) = "}" THEN Made(ObjectLiteral(l), Get(q))
        ELSE Once(PropertyOf(q), more)

\* parse_primary_expression
Primary(p) ==
    LET e == parse_expression(Get(p))
    IN  CASE Tok(p) = "id" -> Made(Identifier(p.cur.v), Get(p))
          [] Tok(p) = "this" -> Made(This, Get(p))
          [] Version >= 3 /\ Tok(p) = "[" -> Elements(Get(p), <<>>, FALSE)
          [] Version >= 3 /\ Tok(p) = "{" -> Properties(Get(p), <<>>)
          [] Version >= 3 /\ Tok(p) = "regexp" -> Made(RegexpLiteral(p.cur.v), GetRegexp(p))
          [] Tok(p) = "(" -> Made(e.e, Expect(e.p, ")"))
          [] Tok(p) \in LiteralTokens -> CheckedLiteral(p)
          [] OTHER -> Rejected(p)

\* parse_argument_list, after "(" or ","
Arguments(p, l) ==
    LET r == parse_assignment_expression(p)
    IN  IF Tok(p) = ")" /\ l = <<>> THEN [l |-> l, p |-> Get(p)]
        ELSE IF Tok(r.p) = "," THEN Arguments(Get(r.p), Append(l, r.e))
        ELSE [l |-> Append(l, r.e), p |-> Expect(r.p, ")")]

Suffixed(e, p, calls) ==
    LET args == Arguments(Get(p), <<>>)
        index == parse_expression(Get(p))
        name == IdentifierName(Get(p))
    IN  CASE calls /\ Tok(p) = "(" -> Suffixed(CallExpression(e, args.l), args.p, calls)
          [] Tok(p) = "[" -> Suffixed(Binary("[", e, index.e), Expect(index.p, "]"), calls)
          [] Tok(p) = "." -> Suffixed(Binary(".", e, Literal("str", name.e.id)), name.p, calls)
          [] OTHER -> Made(e, p)

\* check_function_name
Named(p, id, f) == IF f.block.strict /\ UnassignableName(id) THEN Fail(f.p) ELSE f.p

\* parse_member_expression
Member(p) ==
    LET object == parse_member_expression(Get(p))
        args == Arguments(Get(object.p), <<>>)
        id == IF Tok(Get(p)) = "id" THEN Get(p).cur.v ELSE ""
        f == Function(Skip(Get(p), "id"))
        r == Primary(p)
    IN  CASE Tok(p) = "new" /\ Tok(object.p) = "(" ->
                Suffixed(Prefix("new", CallExpression(object.e, args.l)), args.p, FALSE)
          [] Tok(p) = "new" /\ Tok(object.p) # "(" ->
                Suffixed(Prefix("new", object.e), object.p, FALSE)
          [] Version >= 3 /\ Tok(p) = "function" ->
                Made(FunctionExpression(id, f.params, f.block), Named(f.p, id, f))
          [] OTHER -> Suffixed(r.e, r.p, FALSE)

Parameters(p, l) ==
    IF Tok(p) = ")" /\ l = <<>> THEN [l |-> l, p |-> Get(p)]
    ELSE LET q == Expect(p, "id")
         IN  IF Tok(q) = "," THEN Parameters(Get(q), Append(l, p.cur.v))
             ELSE [l |-> Append(l, p.cur.v), p |-> Expect(q, ")")]

----------------------------------------------------------------------------
(* Statements.                                                             *)

\* parse_statement_list
Statements(p, check, l) ==
    LET bad(r) == ~p.strict /\ r.p.strict /\ \E i \in DOMAIN l : IsOctal("str", l[i].e.text)
        more(r) == Statements(IF bad(r) THEN Fail(r.p) ELSE r.p,
                              check /\ IsDirective(r.e), Append(l, r.e))
    IN  IF Tok(p) \in {"eof", "}", "error"} THEN [l |-> l, p |-> p]
        ELSE more(parse_statement(p, check))

\* parse_variable_declaration_list
Declarations(p, l) ==
    LET q == IF p.strict /\ UnassignableName(p.cur.v) THEN Fail(p) ELSE Expect(p, "id")
        init == IF Tok(q) = "=" THEN parse_assignment_expression(Get(q)) ELSE Made(Nothing, q)
        all == Append(l, Declaration(p.cur.v, init.e))
    IN  IF Tok(init.p) = "," THEN Declarations(Get(init.p), all) ELSE [l |-> all, p |-> init.p]

\* get_label
Label(p) ==
    IF Version >= 3 /\ ~p.line_break /\ Tok(p) = "id" THEN [v |-> p.cur.v, p |-> Get(p)]
    ELSE [v |-> "", p |-> p]

Parenthesised(p) == LET e == parse_expression(Expect(p, "(")) IN Made(e.e, Expect(e.p, ")"))
Terminated(r) == Made(r.e, Semicolon(r.p))

IfStatement(p) ==
    LET cond == Parenthesised(p)
        then == parse_statement(cond.p, FALSE)
        q == Skip(then.p, ";")
        else == parse_statement(Get(q), FALSE)
    IN  IF Tok(q) = "else" THEN Made(If(cond.e, then.e, else.e), else.p)
        ELSE Made(If(cond.e, then.e, Nothing), q)

DoStatement(p) ==
    LET s == parse_statement(p, FALSE)
        cond == Parenthesised(Expect(s.p, "while"))
    IN  Terminated(Made(Do(cond.e, s.e), cond.p))

\* The part of a for statement before "in" or the first semicolon
ForInit(p) ==
    LET q == [p EXCEPT !.suppress_in = TRUE]
        ds == Declarations(Get(q), <<>>)
        e == parse_expression(q)
        r == IF Tok(q) = "var" THEN Made(Variable(ds.l), ds.p)
             ELSE Made(ExpressionStatement(e.e), e.p)
    IN  Made(r.e, [r.p EXCEPT !.suppress_in = FALSE])

\* An optional expression and the token after it
Optional(p, t) ==
    LET e == parse_expression(p)
    IN  IF Tok(p) = t THEN Made(Nothing, Get(p)) ELSE Made(e.e, Expect(e.p, t))

ForStatement(p0) ==
    LET p == Expect(p0, "(")
        in(init) ==
            LET object == parse_expression(Get(init.p))
                body == parse_statement(Expect(object.p, ")"), FALSE)
            IN  Unless(init.e.k = "variable" /\ Len(init.e.l) # 1,
                       Made(ForIn(init.e, object.e, body.e), body.p))
        three(init) ==
            LET cond == Optional(Expect(init.p, ";"), ";")
                iter == Optional(cond.p, ")")
                s == parse_statement(iter.p, FALSE)
            IN  Made(For(init.e, cond.e, iter.e, s.e), s.p)
    IN  IF Tok(p) = ";" THEN three(Made(Nothing, p))
        ELSE Once(ForInit(p), LAMBDA init : IF Tok(init.p) = "in" THEN in(init) ELSE three(init))

\* The return statement; throw needs its expression on the same line
ReturnStatement(p) ==
    IF p.line_break \/ Tok(p) = ";" THEN Terminated(Made(Return(Nothing), p))
    ELSE LET e == parse_expression(p) IN Terminated(Made(Return(e.e), e.p))

ThrowStatement(p) ==
    LET e == parse_expression(p)
    IN  IF p.line_break THEN Rejected(p) ELSE Terminated(Made(Throw(e.e), e.p))

ClauseBody(p, l) ==
    IF Tok(p) \in {"}", "case", "default", "eof", "error"} THEN [l |-> l, p |-> p]
    ELSE LET s == parse_statement(p, FALSE) IN ClauseBody(s.p, Append(l, s.e))

Clauses(p, l, has_default) ==
    LET e == IF Tok(p) = "default" THEN Made(Nothing, Get(p))
             ELSE parse_expression(Expect(p, "case"))
        body == ClauseBody(Expect(e.p, ":"), <<>>)
    IN  IF Failed(p) \/ (Tok(p) = "default" /\ has_default) THEN [l |-> l, p |-> Fail(p)]
        ELSE IF Tok(p) = "}" THEN [l |-> l, p |-> Get(p)]
        ELSE Clauses(body.p, Append(l, Clause(e.e, body.l)), has_default \/ Tok(p) = "default")

SwitchStatement(p) ==
    LET e == Parenthesised(p)
        cl == Clauses(Expect(e.p, "{"), <<>>, FALSE)
    IN  Made(Switch(e.e, cl.l), cl.p)

TryStatement(p) ==
    LET block == parse_block(p, FALSE)
        q == Expect(Get(block.p), "(")
        name == IF q.strict /\ UnassignableName(q.cur.v) THEN Fail(q) ELSE Expect(q, "id")
        handler == parse_block(Expect(name, ")"), FALSE)
        catches == Tok(block.p) = "catch"
        caught == IF catches THEN handler ELSE Made(Nothing, block.p)
        last == IF Tok(caught.p) = "finally" THEN parse_block(Get(caught.p), FALSE)
                ELSE Made(Nothing, caught.p)
    IN  Made(Try(block.e, caught.e, IF catches THEN q.cur.v ELSE "", last.e), last.p)

FunctionStatement(p) ==
    LET f == Function(Expect(p, "id"))
    IN  Made(FunctionDefinition(p.cur.v, f.params, f.block), Named(f.p, p.cur.v, f))

\* An expression statement, a directive or a labelled statement
ExpressionOrLabel(p, check) ==
    LET e == parse_expression(p)
        s == parse_statement(Get(e.p), FALSE)
        strict == e.p.strict \/ (check /\ IsStrictDirective(e.e))
    IN  IF Version >= 3 /\ Tok(e.p) = ":"
        THEN IF e.e.k = "identifier" THEN Made(Labelled(e.e.id, s.e), s.p) ELSE Rejected(p)
        ELSE Terminated(Made(ExpressionStatement(e.e), [e.p EXCEPT !.strict = strict]))

\* parse_statement
Statement(p, check) ==
    LET q == Get(p)
        ds == Declarations(q, <<>>)
        label == Label(q)
        head == Parenthesised(q)
        body == parse_statement(head.p, FALSE)
    IN  CASE Tok(p) = "{" -> parse_block(p, FALSE)
          [] Tok(p) = "function" -> FunctionStatement(q)
          [] Tok(p) = "var" -> Terminated(Made(Variable(ds.l), ds.p))
          [] Tok(p) = ";" -> Made(Empty, q)
          [] Tok(p) = "if" -> IfStatement(q)
          [] Tok(p) = "do" -> DoStatement(q)
          [] Tok(p) = "while" -> Made(While(head.e, body.e), body.p)
          [] Tok(p) = "for" -> ForStatement(q)
          [] Tok(p) = "continue" -> Terminated(Made(Continue(label.v), label.p))
          [] Tok(p) = "break" -> Terminated(Made(Break(label.v), label.p))
          [] Tok(p) = "return" -> ReturnStatement(q)
          [] Tok(p) = "with" -> Unless(p.strict, Made(With(head.e, body.e), body.p))
          [] Tok(p) = "switch" -> SwitchStatement(q)
          [] Tok(p) = "throw" -> ThrowStatement(q)
          [] Tok(p) = "try" -> TryStatement(q)
          [] Tok(p) = "debugger" -> Terminated(Made(Debugger, q))
          [] OTHER -> ExpressionOrLabel(p, check)

Rule(name, p, check) ==
    CASE name = "assignment" -> Assignment(p)
      [] name = "expression" -> Expression(p)
      [] name = "unary" -> Unary(p)
      [] name = "member" -> Member(p)
      [] name = "block" -> BlockStatement(p, check)
      [] name = "statement" -> Statement(p, check)

\* parser::parse; mode is non_strict, strict or function_constructor
Parse(tokens, mode) ==
    LET start == [tokens |-> tokens, i |-> 0, cur |-> EndToken, strict |-> mode # "non_strict",
                  skip_checks |-> mode = "function_constructor", line_break |-> FALSE,
                  suppress_in |-> FALSE]
        whole(l, end) == IF Failed(end) THEN Nothing ELSE Block(l, end.strict)
        ended(r) == whole(r.l, Semicolon(r.p))
    IN  Once(Get(start), LAMBDA p : ended(Statements(p, Version >= 5, <<>>)))
=============================================================================
