---------------------------- MODULE Interpreter ----------------------------
(***************************************************************************)
(* The statements of the tree-walking interpreter (interpreter.cpp):       *)
(* completions and jumps, label sets, exceptions of C++ against completions*)
(* of type throw, calls, eval, and the strict mode flag.                   *)
(*                                                                         *)
(* eval(const statement&) and its visitors are recursive C++ functions, so *)
(* they are recursive operators here.  They take a syntax tree s, its      *)
(* address p, whether its code is strict, and the machine m (the members   *)
(* of interpreter::impl), and return a completion and the machine.         *)
(*                                                                         *)
(* Values are abstracted to what decides the flow of control: whether a    *)
(* thrown value is an object.  Conditions (also: does a case match, has a  *)
(* for-in another name) come from m.choices, and are false at its end.     *)
(* m.events is history, no code reads it.                                  *)
(***************************************************************************)
EXTENDS Naturals, Sequences, SequencesExt, Once

CONSTANTS
    Functions,      \* the functions of a program: name to [strict, body]
    Programs,       \* the syntax trees that are evaluated
    Outcomes        \* outcomes of the conditions of an evaluation

VARIABLES
    machine,        \* the interpreter before and after an evaluation
    program,        \* the tree that was evaluated, Nothing before
    outcome         \* its completion

vars == <<machine, program, outcome>>

Nowhere == <<>>     \* the null pointer: no statement has this address
EvalMark == 0       \* in an address: code that eval has parsed
Fresh == [labels |-> <<>>, valid |-> Nowhere, strict |-> FALSE,
          calls |-> <<>>, choices |-> <<>>, events |-> <<>>, failed |-> "none"]

\* completion; from is history: the statement that made it
Normal == [type |-> "normal", value |-> "undefined", target |-> "", from |-> Nowhere]
Completion(t, v, l, p) == [type |-> t, value |-> v, target |-> l, from |-> p]
Done(c, m) == [c |-> c, m |-> m]
Abrupt(r) == r.c.type # "normal"

\* A C++ exception (native_error_exception) that has been thrown
Error(p, m) ==
    Done(Completion("error", "object", "", p), [m EXCEPT !.events = Append(@, <<"raise", p>>)])

\* An assertion that does not hold; nothing runs after it
Abort(why, m) == Done(Completion("abort", "undefined", "", Nowhere), [m EXCEPT !.failed = why])

Log(m, event) == [m EXCEPT !.events = Append(@, event)]

\* The evaluation r, and F after it unless it ended abruptly
Then(r, F(_)) == Once(r, LAMBDA done : IF Abrupt(done) THEN done ELSE F(done.m))

\* Mutant: strict_mode_scope without its destructor
NotRestored(r, m) == r

\* ~strict_mode_scope
Restored(r, m) == [r EXCEPT !.m.strict = m.strict]
Choice(m) == IF m.choices = <<>> THEN FALSE ELSE Head(m.choices)
Chosen(m) == [m EXCEPT !.choices = IF @ = <<>> THEN @ ELSE Tail(@)]

Escape(p, r) ==
    Error(p, Log(r.m, <<"escape", r.c.from>>))

\* eval of an expression or a statement; the operators of this module call
\* one another through it
RECURSIVE Eval(_, _, _, _)

\* The loops
RECURSIVE RunList(_, _, _, _, _), Values(_, _, _, _, _), Loop(_, _, _, _, _, _),
          Match(_, _, _, _, _), Clauses(_, _, _, _, _)

ExpressionKinds == {"plain", "undeclared", "call", "eval", "all", "either"}

----------------------------------------------------------------------------
(* Expressions.  The result is a normal completion, or error.              *)

\* block_statement, with the strict_mode_scope of its code
RunBlock(s, p, strict, m) ==
    IF m.strict /\ ~strict THEN Abort("strict_entered", m)
    ELSE Restored(RunList(s.sub, p, 1, strict, [m EXCEPT !.strict = strict]), m)

\* rethrow_error
Rethrow(r) ==
    IF r.c.value = "object" THEN [r EXCEPT !.c.type = "error"] ELSE Abort("thrown_object", r.m)

\* top_level_eval
TopLevel(r, p) ==
    CASE r.c.type = "throw" -> Rethrow(r)
      [] r.c.type \in {"normal", "return"} -> Done(Normal, r.m)
      [] r.c.type = "abort" -> r
      [] OTHER -> Escape(p, r)

\* call_expression of a function made by create_function
Call(f, p, m) ==
    IF m.strict /\ ~Functions[f].strict THEN Abort("strict_entered", m)
    ELSE LET in == [m EXCEPT !.strict = Functions[f].strict, !.calls = Append(@, p)]
             r == TopLevel(Eval(Functions[f].body, <<f>>, Functions[f].strict, in), p)
         IN  [Restored(r, m) EXCEPT !.m.calls = m.calls]

\* The global function eval; code is strict when it says so or its caller is
EvalCode(e, p, m) ==
    LET in == [m EXCEPT !.calls = Append(@, p)]
        r == Eval(e.code, Append(p, EvalMark), e.strict \/ m.strict, in)
        out == CASE r.c.type = "throw" -> Rethrow(r)
                 [] r.c.type \in {"normal", "abort"} -> r
                 [] OTHER -> Escape(p, r)
    IN  [out EXCEPT !.m.calls = m.calls]

Value(e, p, strict, m) ==
    CASE e.k = "undeclared" -> Error(p, m)
      [] e.k = "call" -> Call(e.f, p, m)
      [] e.k = "eval" -> EvalCode(e, p, m)
      [] e.k = "all" -> Values(e.l, p, 1, strict, m)
      [] e.k = "either" ->
            Then(Eval(e.cond, p, strict, m), LAMBDA v :
                Eval(IF Choice(v) THEN e.then ELSE e.else, p, strict, Chosen(v)))
      [] OTHER -> Done(Normal, m)

\* Operands and arguments, from left to right
Values(l, p, i, strict, m) ==
    IF i > Len(l) THEN Done(Normal, m)
    ELSE Then(Eval(l[i], p, strict, m), LAMBDA v : Values(l, p, i + 1, strict, v))

----------------------------------------------------------------------------
(* Statements.                                                             *)

RunList(l, p, i, strict, m) ==
    IF i > Len(l) THEN Done(Normal, m)
    ELSE Then(Eval(l[i], Append(p, i), strict, m), LAMBDA v : RunList(l, p, i + 1, strict, v))

\* Mutant: the labels of another statement are taken
AnyLabels(p, m) == m.labels

\* get_labels
OwnLabels(p, m) == IF p = m.valid THEN m.labels ELSE <<>>

TakeLabels(p, m) ==
    Log([m EXCEPT !.labels = <<>>, !.valid = Nowhere], <<"labels", p, ToSet(OwnLabels(p, m))>>)

InSet(c, ls) == c.target = "" \/ c.target \in ToSet(ls)

\* Mutant: an unlabelled continue leaves the loop
StopsContinue(c, ls) ==
    CASE c.type = "continue" -> TRUE
      [] OTHER -> c.type # "normal"

\* handle_completion: whether the loop ends
Stops(c, ls) ==
    CASE c.type = "continue" -> ~InSet(c, ls)
      [] OTHER -> c.type # "normal"

Absorbs(c, ls) == c.type \in {"break", "continue"} /\ InSet(c, ls)

Absorbed(r, p, ls) ==
    IF Absorbs(r.c, ls) THEN Done(Normal, Log(r.m, <<"jump", r.c.from, p>>)) ELSE r

\* The iterations of a loop; a do starts without a test
Loop(s, p, strict, ls, m, test) ==
    LET next(v) == Loop(s, p, strict, ls, v, TRUE)
        iterate(v) == IF s.k = "for" THEN Then(Eval(s.iter, p, strict, v), next) ELSE next(v)
        after(r) == IF Stops(r.c, ls) THEN Absorbed(r, p, ls)
                    ELSE iterate(Log(Absorbed(r, p, ls).m, <<"iterate", p>>))
        body(v) == Once(Eval(s.sub[1], Append(p, 1), strict, v), after)
        assign(v) == IF s.k = "forin" THEN Then(Eval(s.target, p, strict, v), body) ELSE body(v)
        tested(v) == IF Choice(v) THEN assign(Chosen(v)) ELSE Done(Normal, Chosen(v))
    IN  IF ~test THEN body(m)
        ELSE IF s.k = "forin" THEN tested(m) ELSE Then(Eval(s.cond, p, strict, m), tested)

\* for_statement asserts that its init completes normally
ForInit(s, p, strict, m) ==
    Once(Eval(s.init, Append(p, 2), strict, m), LAMBDA r :
        IF Abrupt(r) /\ r.c.type # "abort" THEN Abort("for_init", r.m) ELSE r)

\* labelled_statement
Labelled(s, p, strict, m) ==
    LET labels == IF m.valid = p THEN m.labels ELSE <<>>
    IN  IF s.id \in ToSet(labels) THEN Error(p, [m EXCEPT !.labels = labels])
        ELSE Eval(s.sub[1], Append(p, 1), strict,
                 [m EXCEPT !.labels = Append(labels, s.id), !.valid = Append(p, 1)])

\* The clause of a switch that runs first: 0 when there is none
Match(s, p, i, strict, m) ==
    IF i > Len(s.sub) THEN [c |-> Normal, m |-> m, i |-> s.default]
    ELSE IF i = s.default THEN Match(s, p, i + 1, strict, m)
    ELSE LET r == Eval(s.cases[i], p, strict, m)
         IN  IF Abrupt(r) THEN [c |-> r.c, m |-> r.m, i |-> 0]
             ELSE IF Choice(r.m) THEN [c |-> Normal, m |-> Chosen(r.m), i |-> i]
             ELSE Match(s, p, i + 1, strict, Chosen(r.m))

\* The statements of the clauses from i on
Clauses(s, p, i, strict, m) ==
    IF i > Len(s.sub) THEN Done(Normal, m)
    ELSE Then(RunList(s.sub[i].sub, Append(p, i), 1, strict, m), LAMBDA v :
             Clauses(s, p, i + 1, strict, v))

\* switch_statement; s.sub holds a list of statements for each clause
Switch(s, p, strict, m) ==
    LET ls == OwnLabels(p, m)
        ended(r) == IF r.c.type = "break" THEN Absorbed(r, p, ls) ELSE r
        run(first) == IF Abrupt(first) \/ first.i = 0 THEN Done(first.c, first.m)
                      ELSE Once(Clauses(s, p, first.i, strict, first.m), ended)
    IN  Then(Eval(s.e, p, strict, TakeLabels(p, m)), LAMBDA v :
            Once(Match(s, p, 1, strict, v), run))

Nothing == [k |-> "nothing", sub |-> <<>>]   \* a part that is not there

\* Mutant: finally only runs after a normal completion
CatchOnly(r, s, p, strict) == r

\* The finally block: its abrupt completion replaces that of try or catch
Finally(r, s, p, strict) ==
    LET f == Eval(s.sub[3], Append(p, 3), strict, Log(r.m, <<"finally", p>>))
    IN  IF s.sub[3] = Nothing \/ r.c.type = "abort" THEN r
        ELSE IF Abrupt(f) THEN f ELSE Done(r.c, f.m)

\* try_statement
Try(s, p, strict, m) ==
    LET caught(r) ==
            IF r.c.type = "throw" /\ s.sub[2] # Nothing
            THEN Eval(s.sub[2], Append(p, 2), strict, Log(r.m, <<"catch", p>>)) ELSE r
        finally(r) == Finally(r, s, p, strict)
        ended(r) == Done(r.c, Log(r.m, <<"done", p, r.c.type>>))
        block == Eval(s.sub[1], Append(p, 1), strict, Log(m, <<"try", p, s>>))
    IN  Once(Once(Once(block, caught), finally), ended)

\* The visitors
Accept(s, p, strict, m) ==
    LET loop(v) == Loop(s, p, strict, OwnLabels(p, m), v, TRUE)
        branch(i, v) == IF s.sub[i] = Nothing THEN Done(Normal, v)
                        ELSE Eval(s.sub[i], Append(p, i), strict, v)
    IN  CASE s.k = "block" -> RunBlock(s, p, strict, m)
          [] s.k \in {"expression", "var"} -> Eval(s.e, p, strict, m)
          [] s.k = "if" ->
                Then(Eval(s.e, p, strict, m), LAMBDA v : branch(IF Choice(v) THEN 1 ELSE 2, Chosen(v)))
          [] s.k = "do" -> Loop(s, p, strict, OwnLabels(p, m), TakeLabels(p, m), FALSE)
          [] s.k = "while" -> loop(TakeLabels(p, m))
          [] s.k = "for" -> Then(ForInit(s, p, strict, TakeLabels(p, m)), loop)
          [] s.k = "forin" -> Then(Eval(s.e, p, strict, TakeLabels(p, m)), loop)
          [] s.k \in {"break", "continue"} -> Done(Completion(s.k, "undefined", s.id, p), m)
          [] s.k = "return" ->
                Then(Eval(s.e, p, strict, m), LAMBDA v :
                    Done(Completion("return", "undefined", "", p), v))
          [] s.k = "with" -> Then(Eval(s.e, p, strict, m), LAMBDA v : branch(1, v))
          [] s.k = "labelled" -> Labelled(s, p, strict, m)
          [] s.k = "switch" -> Switch(s, p, strict, m)
          [] s.k = "throw" ->
                Then(Eval(s.e, p, strict, m), LAMBDA v :
                    Done(Completion("throw", s.value, "", p), Log(v, <<"raise", p>>)))
          [] s.k = "try" -> Try(s, p, strict, m)
          [] OTHER -> Done(Normal, m)

\* eval(const statement&): exceptions become completions
Run(s, p, strict, m) ==
    LET caught(r) == IF r.c.type = "error" THEN [r EXCEPT !.c.type = "throw"] ELSE r
    IN  Once(Accept(s, p, strict, Log(m, <<"run", p, s, m.strict, strict>>)), caught)

Eval(n, p, strict, m) ==
    IF n.k \in ExpressionKinds THEN Value(n, p, strict, m) ELSE Run(n, p, strict, m)

----------------------------------------------------------------------------

Init ==
    /\ machine = Fresh
    /\ program = Nothing
    /\ outcome = Normal

\* interpreter::eval, once: another tree could be where this one was freed,
\* at the address labels_valid_for_ still holds, which is left out here
Evaluate(s, choices) ==
    \E r \in {Eval(s, <<1>>, s.strict, [machine EXCEPT !.choices = choices])} :
        /\ machine' = [r.m EXCEPT !.choices = <<>>]
        /\ outcome' = r.c
        /\ program' = s

Next ==
    /\ program = Nothing
    /\ \E s \in Programs, choices \in Outcomes : Evaluate(s, choices)

Spec == Init /\ [][Next]_vars

----------------------------------------------------------------------------
(* Properties.  The syntax of what ran is in the events.                   *)

Events(kind) == {i \in DOMAIN machine.events : machine.events[i][1] = kind}
Event(i) == machine.events[i]
Ran(p) == {Event(i)[3] : i \in {j \in Events("run") : Event(j)[2] = p}}
IsKind(p, kinds) == \E s \in Ran(p) : s.k \in kinds
Loops == {"do", "while", "for", "forin"}

\* The labels of the statement at p, by the syntax alone
RECURSIVE LabelsAt(_)
LabelsAt(p) ==
    IF Len(p) > 1 /\ IsKind(Front(p), {"labelled"})
    THEN {s.id : s \in Ran(Front(p))} \cup LabelsAt(Front(p))
    ELSE {}

\* The statement that break or continue s at p ends or continues (ES5, 12.7, 12.8)
RECURSIVE Target(_, _)
Target(s, p) ==
    LET q == Front(p)
        kinds == IF s.k = "break" /\ s.id = "" THEN Loops \cup {"switch"} ELSE Loops
    IN  IF Len(p) = 1 \/ Last(p) = EvalMark THEN Nowhere
        ELSE IF s.id = "" /\ IsKind(q, kinds) THEN q
        ELSE IF s.id # "" /\ s.id \in LabelsAt(q) /\ (s.k = "break" \/ IsKind(q, Loops)) THEN q
        ELSE Target(s, q)

TargetOf(p) == Target(CHOOSE s \in Ran(p) : TRUE, p)

(* The labels a loop or a switch takes from label_set_ are the ones that   *)
(* stand before it, whatever was evaluated in between (get_labels,         *)
(* labels_valid_for_).                                                     *)
LabelsExact ==
    \A i \in Events("labels") : Event(i)[3] = LabelsAt(Event(i)[2])

(* break and continue leave and resume the statement the syntax says, and  *)
(* no other; one that leaves its function, its eval or the program has no  *)
(* loop or switch to go to (handle_completion, switch_statement).          *)
JumpsReachTarget ==
    LET escapes(p) == IsKind(p, {"return"}) \/ ~IsKind(TargetOf(p), Loops \cup {"switch"})
        resumes(i, q) == \E j \in Events("iterate") :
            /\ j > i /\ Event(j)[2] = q
            /\ \A k \in Events("labels") : Event(k)[2] = q => k \notin i .. j
    IN  /\ \A i \in Events("jump") :
            /\ TargetOf(Event(i)[2]) = Event(i)[3]
            /\ IsKind(Event(i)[2], {"continue"}) <=> resumes(i, Event(i)[3])
        /\ \A i \in Events("escape") : escapes(Event(i)[2])
        /\ outcome.type \in {"break", "continue"} => escapes(outcome.from)

(* One step of the reading of a log of try statements: the open ones with  *)
(* the part that runs, and whether something thrown is not yet handled.    *)
Reads(t, e) ==
    LET top == Last(t.open)
        now(part, pending) ==
            [t EXCEPT !.open = Append(Front(@), [top EXCEPT !.part = part, !.saved = t.pending]),
                      !.pending = pending]
        has(i) == top.s.sub[i] # Nothing
        ok(b) == [t EXCEPT !.ok = @ /\ b]
        ends == /\ top.p = e[2]
                /\ has(3) => top.part = "finally"
                /\ t.pending => ~(top.part = "block" /\ has(2)) /\ e[3] = "throw"
                /\ e[3] = "throw" => t.pending \/ (top.part = "finally" /\ top.saved)
    IN  CASE e[1] = "run" -> ok(~t.pending)
          [] e[1] = "raise" -> [t EXCEPT !.pending = TRUE]
          [] e[1] = "try" -> [t EXCEPT !.open = Append(@,
                                 [p |-> e[2], s |-> e[3], part |-> "block", saved |-> FALSE])]
          [] e[1] = "catch" ->
                [now("catch", FALSE) EXCEPT !.ok = @ /\ top.p = e[2] /\ t.pending /\ top.part = "block"]
          [] e[1] = "finally" ->
                [now("finally", FALSE) EXCEPT !.ok = @ /\ top.p = e[2] /\ top.part # "finally"]
          [] e[1] = "done" ->
                [open |-> Front(t.open), pending |-> e[3] = "throw", ok |-> t.ok /\ ends]
          [] OTHER -> t

(* What is thrown goes to the innermost open try with a catch, also across *)
(* calls and eval; no statement runs in between but those of finally; and  *)
(* each try with a finally that was entered runs it once, last, on every   *)
(* path (try_statement, and eval, which turns exceptions to completions).  *)
HandlersRun ==
    LET end == FoldLeft(Reads, [open |-> <<>>, pending |-> FALSE, ok |-> TRUE], machine.events)
    IN  machine.failed = "none" =>
            end.ok /\ end.open = <<>> /\ (end.pending <=> outcome.type = "throw")

(* A statement of strict code runs with strict_mode_ set, one of other     *)
(* code without, and afterwards strict_mode_ and stack_trace_ are as       *)
(* before, however calls and eval code were left.                          *)
StrictFollowsCode ==
    /\ \A i \in Events("run") : Event(i)[3].k # "block" => Event(i)[4] = Event(i)[5]
    /\ machine.failed = "none" => machine.strict = FALSE /\ machine.calls = <<>>
============================================================================
