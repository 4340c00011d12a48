------------------------------ MODULE Language ------------------------------
(***************************************************************************)
(* The parser on programs written by the grammar: laid out on one line,    *)
(* with a line break before any one token, or without one of the           *)
(* semicolons that end statements.                                         *)
(***************************************************************************)
EXTENDS Parser, Grammar

CONSTANT Programs   \* records [tree, mode, legal, layouts]; tree is a block

VARIABLES
    program,    \* the program that was parsed last
    layout,     \* how it was laid out: [kind, at]
    result      \* what parse returned: a block, or Nothing when it threw

vars == <<program, layout, result>>

Tokens(prog) == WriteList(prog.tree.l)

\* The token at i, with a line break before it
Broken(tokens, i) == IF i \in DOMAIN tokens THEN [tokens EXCEPT ![i].nl = TRUE] ELSE tokens

Laid(tokens, lay) ==
    CASE lay.kind = "line" -> tokens
      [] lay.kind = "break" -> Broken(tokens, lay.at)
      [] lay.kind = "missing" -> RemoveAt(tokens, lay.at)
      [] lay.kind = "inserted" -> Broken(RemoveAt(tokens, lay.at), lay.at)

\* What can be done to a program: one line; else a token it is done at
Ways(prog) ==
    LET tokens == Tokens(prog)
        soft == {i \in DOMAIN tokens : tokens[i].soft}
    IN  {lay \in [kind : prog.layouts, at : 0 .. Len(tokens)] :
            CASE lay.kind = "line" -> lay.at = 0
              [] lay.kind = "break" -> lay.at > 0
              [] OTHER -> lay.at \in soft}

Init ==
    /\ program = [tree |-> Block(<<>>, FALSE), mode |-> "non_strict", legal |-> TRUE, layouts |-> {}]
    /\ layout = [kind |-> "line", at |-> 0]
    /\ result = Block(<<>>, FALSE)

\* mjs::parse
ParseProgram(prog, lay) ==
    /\ result' = Parse(Laid(Tokens(prog), lay), prog.mode)
    /\ program' = prog
    /\ layout' = lay

\* One program in each behaviour: a parser is made for one source
Next ==
    /\ program.layouts = {}
    /\ \E prog \in Programs : \E lay \in Ways(prog) : ParseProgram(prog, lay)

Spec == Init /\ [][Next]_vars

----------------------------------------------------------------------------
(* What a program on one line parses to is the tree it was written from,   *)
(* with the strict mode of each of its functions and blocks, and a program *)
(* that breaks a rule of strict mode (or any rule of ES5) is rejected,     *)
(* exactly when the rule applies where it stands (class parser).  The      *)
(* exemption of new Function is that of the function that ends first, as   *)
(* parse_function has it.                                                  *)
ParsesAsWritten ==
    layout.kind = "line" => result = IF program.legal THEN program.tree ELSE Nothing

Before(tokens, i) == IF i = 1 THEN "" ELSE tokens[i - 1].t
After(tokens, i) == IF i = Len(tokens) THEN "eof" ELSE tokens[i + 1].t

\* A line break matters before token i: the productions with [no LineTerminator here]
Restricted(tokens, i) ==
    \/ Before(tokens, i) \in {"return", "break", "continue", "throw"} /\ ~tokens[i].soft
    \/ tokens[i].t \in {"++", "--"} /\ Before(tokens, i) \in {"id", "]"}

\* The tokens with a semicolon before the one at i
SplitAt(tokens, i) == SubSeq(tokens, 1, i - 1) \o SemicolonToken \o SubSeq(tokens, i, Len(tokens))

(* A line break before a token changes what a program means in the four    *)
(* restricted productions of ES5 (7.9.1), where it is as a semicolon, and  *)
(* nowhere else (expect_semicolon_allow_insertion, get_label,              *)
(* parse_postfix_expression and the return and throw statements).          *)
LineBreaksRestricted ==
    LET meaning(tokens, i) ==
            IF Restricted(tokens, i)
            THEN Once(SplitAt(tokens, i), LAMBDA split : Parse(split, program.mode))
            ELSE program.tree
    IN  layout.kind = "break" => result = meaning(Tokens(program), layout.at)

\* A token that cannot continue a statement after an expression or a name
Offending(t) == t \notin AssignmentOps \cup {"(", "[", ".", "?", ",", "/", ":", "+", "-", ";"}
                         \cup UNION Range(BinaryLevels)

\* The semicolon of a return statement without a value was left out: the
\* code then takes what follows for the value
BareReturn == Before(Tokens(program), layout.at) = "return" /\ layout.kind = "missing"

\* The next name became the label of break or continue
NowLabel(next) ==
    /\ layout.kind = "missing" /\ next = "id"
    /\ Before(Tokens(program), layout.at) \in {"break", "continue"}

(* A semicolon at the end of a statement may be left out before a closing  *)
(* brace, at the end of the program, and at the end of a line when the     *)
(* next token cannot go on with the statement; on the line of an offending *)
(* token it may not (ES5, 7.9.1; expect_semicolon_allow_insertion).        *)
SemicolonsInserted ==
    layout.kind \in {"missing", "inserted"} /\ ~BareReturn =>
        LET next == After(Tokens(program), layout.at)
        IN  IF next \in {"}", "eof"} THEN result = program.tree
            ELSE Offending(next) /\ ~NowLabel(next) =>
                     result = IF layout.kind = "inserted" THEN program.tree ELSE Nothing
=============================================================================
