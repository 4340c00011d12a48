------------------------------ MODULE MCScopes ------------------------------
(* Instances of Scopes: a program with a function, which declares one of   *)
(* its own names as a function and the other as a variable, a parameter    *)
(* that is declared again, texts for eval, and an object for with.  y is a *)
(* name nobody declares.                                                   *)
EXTENDS Scopes, TLC

CONSTANTS undefined, one, n1, n2, n3

MCValues == {undefined, one}
MCNames == {"f", "x", "y"}
MCPlain == [i \in {2} |-> {"x"}]

Var(x) == [var |-> TRUE, id |-> x, code |-> ""]
Def(c) == [var |-> FALSE, id |-> "", code |-> c]
Code(id, params, decls, isStrict, body) ==
    [id |-> id, params |-> params, decls |-> decls, strict |-> isStrict, body |-> body]

Calls(x, args) == [op |-> "call", x |-> x, args |-> args]
News(x, args) == [op |-> "new", x |-> x, args |-> args]
Evaluating(how, c) == [op |-> how, code |-> c]
Withs(o) == [op |-> "with", o |-> o]
Catches(x, e) == [op |-> "catch", x |-> x, e |-> e]
Inits(x, e) == [op |-> "var", x |-> x, e |-> e]
Defines(c) == [op |-> "define", code |-> c]
Assigns(x, e) == [op |-> "assign", x |-> x, e |-> e]
AssignsFunction(how, x, c) == [op |-> how, x |-> x, code |-> c]
Deletes(x) == [op |-> "delete", x |-> x]
SetsArgument(i, e) == [op |-> "set argument", i |-> i, e |-> e]
DeletesArgument(i) == [op |-> "delete argument", i |-> i]

MCCodes ==
    [\* Two functions of the same name
     redefines |-> Code("", <<>>, <<Def("f1"), Def("f2")>>, FALSE,
                        {Defines("f1"), Defines("f2"), Assigns("f", one)}),
     \* Declarations in the blocks of a function
     nests |-> Code("", <<>>, <<Var("x"), Def("f1")>>, FALSE, {Calls("f", <<>>), Calls("x", <<>>)}),
     f1 |-> Code("f", <<>>, <<Def("x1")>>, FALSE,
                 {Defines("x1"), Catches("x", undefined), Assigns("x", one)}),
     f2 |-> Code("f", <<>>, <<Var("x"), Def("x2")>>, FALSE,
                 {Deletes("x"), Inits("x", "f"), Defines("x2"), Withs(2),
                  AssignsFunction("function", "x", "s1")}),
     \* A parameter that is declared again, and a function in its place
     aliases |-> Code("", <<>>, <<Def("x1")>>, FALSE,
                      {Calls("x", <<one>>), News("x", <<"x">>),
                       AssignsFunction("new Function", "x", "x2")}),
     x1 |-> Code("x", <<"f">>, <<Var("f")>>, FALSE,
                 {Inits("f", undefined), SetsArgument(1, undefined), DeletesArgument(1),
                  Assigns("f", "x"), Deletes("f")}),
     x2 |-> Code("x", <<"f">>, <<Def("f2")>>, FALSE, {Defines("f2"), Calls("f", <<>>)}),
     s1 |-> Code("", <<"f">>, <<Var("x")>>, TRUE,
                 {Inits("x", one), SetsArgument(1, undefined), Assigns("f", one)}),
     \* Texts for eval
     evaluates |-> Code("", <<>>, <<Def("f3")>>, FALSE,
                        {Calls("f", <<>>), Evaluating("indirect eval", "v2"),
                         Evaluating("eval", "v1"), Evaluating("native eval", "v4")}),
     f3 |-> Code("f", <<>>, <<>>, FALSE,
                 {Evaluating("eval", "v1"), Evaluating("eval", "v2"),
                  Evaluating("indirect eval", "v2"), Evaluating("native eval", "v3")}),
     v1 |-> Code("", <<>>, <<Def("x1")>>, FALSE, {Defines("x1"), Assigns("x", undefined)}),
     v2 |-> Code("", <<>>, <<Var("x")>>, TRUE, {Inits("x", one), Assigns("y", undefined)}),
     v3 |-> Code("", <<>>, <<Def("f2")>>, FALSE, {Withs(2)}),
     v4 |-> Code("", <<>>, <<Def("x2")>>, FALSE, {Defines("x2")})]
MCPrograms == {"redefines", "nests", "aliases", "evaluates"}
MCNodes == {n1, n2, n3}

MCSymmetry == Permutations(MCNodes)
=============================================================================
