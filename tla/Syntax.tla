------------------------------- MODULE Syntax -------------------------------
(***************************************************************************)
(* Syntax trees (parser.h): one record for each class of expression and    *)
(* statement, named for the class.  Where the source text of a node lies   *)
(* (source_extend) and how a node prints itself are left out.              *)
(***************************************************************************)
EXTENDS Sequences

Nothing == [k |-> "nothing"]     \* a null pointer to a node

\* Expressions
Identifier(id) == [k |-> "identifier", id |-> id]
This == [k |-> "this"]
Literal(type, text) == [k |-> "literal", type |-> type, text |-> text]
ArrayLiteral(elements) == [k |-> "array", elements |-> elements]
Property(type, name, value) == [k |-> "property", type |-> type, name |-> name, value |-> value]
ObjectLiteral(elements) == [k |-> "object", elements |-> elements]
RegexpLiteral(text) == [k |-> "regexp", text |-> text]
CallExpression(member, arguments) == [k |-> "call", member |-> member, arguments |-> arguments]
Prefix(op, e) == [k |-> "prefix", op |-> op, e |-> e]
Postfix(op, e) == [k |-> "postfix", op |-> op, e |-> e]
Binary(op, lhs, rhs) == [k |-> "binary", op |-> op, lhs |-> lhs, rhs |-> rhs]
Conditional(cond, lhs, rhs) == [k |-> "conditional", cond |-> cond, lhs |-> lhs, rhs |-> rhs]
FunctionExpression(id, params, block) ==
    [k |-> "function", id |-> id, params |-> params, block |-> block]

\* Statements
Block(l, strict) == [k |-> "block", l |-> l, strict |-> strict]
Declaration(id, init) == [k |-> "declaration", id |-> id, init |-> init]
Variable(l) == [k |-> "variable", l |-> l]
Empty == [k |-> "empty"]
Debugger == [k |-> "debugger"]
ExpressionStatement(e) == [k |-> "expression", e |-> e]
If(cond, if_s, else_s) == [k |-> "if", cond |-> cond, if_s |-> if_s, else_s |-> else_s]
Do(cond, s) == [k |-> "do", cond |-> cond, s |-> s]
While(cond, s) == [k |-> "while", cond |-> cond, s |-> s]
For(init, cond, iter, s) == [k |-> "for", init |-> init, cond |-> cond, iter |-> iter, s |-> s]
ForIn(init, e, s) == [k |-> "forin", init |-> init, e |-> e, s |-> s]
Continue(id) == [k |-> "continue", id |-> id]
Break(id) == [k |-> "break", id |-> id]
Return(e) == [k |-> "return", e |-> e]
With(e, s) == [k |-> "with", e |-> e, s |-> s]
Labelled(id, s) == [k |-> "labelled", id |-> id, s |-> s]
Clause(e, sl) == [k |-> "clause", e |-> e, sl |-> sl]
Switch(e, cl) == [k |-> "switch", e |-> e, cl |-> cl]
Throw(e) == [k |-> "throw", e |-> e]
Try(block, catch_block, catch_id, finally_block) ==
    [k |-> "try", block |-> block, catch_block |-> catch_block, catch_id |-> catch_id,
     finally_block |-> finally_block]
FunctionDefinition(id, params, block) ==
    [k |-> "definition", id |-> id, params |-> params, block |-> block]
=============================================================================
