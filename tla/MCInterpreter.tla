--------------------------- MODULE MCInterpreter ---------------------------
(***************************************************************************)
(* Interpreter on every program of a shape: three statements that contain  *)
(* one another, around a leaf.                                             *)
(***************************************************************************)
EXTENDS Interpreter

Plain == [k |-> "plain"]
Undeclared == [k |-> "undeclared"]
Stmt(k, sub) == [k |-> k, sub |-> sub, e |-> Plain]
Mark == Stmt("expression", <<>>)
Expr(e) == [k |-> "expression", sub |-> <<>>, e |-> e]
Block(l) == Stmt("block", l)
Jump(k, id) == [k |-> k, id |-> id, sub |-> <<>>]
Throw(v) == [k |-> "throw", value |-> v, sub |-> <<>>, e |-> Plain]
While(s) == [k |-> "while", cond |-> Plain, sub |-> <<s>>]
Do(s) == [k |-> "do", cond |-> Plain, sub |-> <<s>>]
For(init, iter, s) == [k |-> "for", init |-> init, cond |-> Plain, iter |-> iter, sub |-> <<s>>]
ForIn(s) == [k |-> "forin", e |-> Plain, target |-> Plain, sub |-> <<s>>]
Label(id, s) == [k |-> "labelled", id |-> id, sub |-> <<s>>]
TryOf(b, c, f) == Stmt("try", <<b, c, f>>)
Case(l) == [k |-> "clause", sub |-> l]
SwitchOf(cases, default, clauses) ==
    [k |-> "switch", e |-> Plain, cases |-> cases, default |-> default, sub |-> clauses]
Code(s, strict) == [k |-> "eval", code |-> Block(<<s>>), strict |-> strict]
CallOf(f) == [k |-> "call", f |-> f]
Program(s, strict) == [k |-> "block", sub |-> <<s, Mark>>, e |-> Plain, strict |-> strict]

\* Functions are named by numbers, as they are the first part of an address
Returning == 11     \* function () { return; }
Throwing == 12      \* function () { "use strict"; while (...) throw new Error; }
Breaking == 13      \* function () { break a; }, which the parser accepts
MCFunctions == [f \in {Returning, Throwing, Breaking} |->
    CASE f = Returning -> [strict |-> FALSE, body |-> Block(<<Stmt("return", <<>>)>>)]
      [] f = Throwing -> [strict |-> TRUE, body |-> Block(<<While(Throw("object"))>>)]
      [] OTHER -> [strict |-> FALSE, body |-> Block(<<Jump("break", "a")>>)]]

Leaves == {Mark, Jump("break", ""), Jump("break", "a"), Jump("continue", ""),
           Jump("continue", "a"), Jump("continue", "c"), Stmt("return", <<>>), Throw("object"),
           Expr(Undeclared), Expr(CallOf(Returning)),
           Expr([k |-> "all", l |-> <<CallOf(Throwing), CallOf(Breaking)>>]),
           Expr([k |-> "either", cond |-> Plain, then |-> CallOf(Breaking), else |-> Undeclared])}

Jumps == {Jump("break", ""), Jump("continue", "c"), Stmt("return", <<>>), Throw("object")}

\* A statement in each place of another
Around(s) ==
    {While(s), Do(s), For(Mark, Plain, s), ForIn(s), Label("a", s), Label("a", While(s)),
     Label("b", s), Block(<<s, Mark>>), Block(<<Label("a", Mark), While(s)>>),
     TryOf(Block(<<s>>), Block(<<Mark>>), Nothing), TryOf(Block(<<s>>), Nothing, Block(<<Mark>>)),
     TryOf(Block(<<Throw("object")>>), Block(<<s>>), Block(<<Mark>>)),
     TryOf(Block(<<Throw("object")>>), Nothing, Block(<<s>>)),
     SwitchOf(<<Plain, Plain>>, 2, <<Case(<<s>>), Case(<<Mark>>)>>),
     [k |-> "if", e |-> Plain, sub |-> <<s, Nothing>>],
     [k |-> "with", e |-> Plain, sub |-> <<s>>],
     Expr(Code(s, FALSE)), Expr(Code(s, TRUE))}

Within(S) == UNION {Around(s) : s \in S}
Outer(s) == {Label("c", While(s)), TryOf(Block(<<s>>), Nothing, Block(<<Mark>>)),
             Expr(Code(s, TRUE))}
MCPrograms == {Program(s, FALSE) : s \in UNION {Outer(t) : t \in Within(Within(Jumps))}}
              \cup {Program(s, FALSE) : s \in Within(Within(Leaves))}
              \cup {Program(s, TRUE) : s \in Within({Throw("object"), Expr(CallOf(Throwing))})}
MCOutcomes == {<<>>, <<TRUE>>, <<TRUE, TRUE, TRUE>>, <<FALSE, TRUE, TRUE>>}
============================================================================
