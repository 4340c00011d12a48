------------------------------- MODULE Scopes -------------------------------
(***************************************************************************)
(* The scopes of the interpreter (interpreter.cpp): the chain of objects   *)
(* in which names are looked up, hoisting, calls of functions and of eval, *)
(* with and catch, and the functions a scope remembers to have created.    *)
(*                                                                         *)
(* A code is a program, a function or a text for eval: what it declares    *)
(* and its statements, nested ones included, which run in any order, any   *)
(* number of times.  Everything the interpreter makes is on one heap, by   *)
(* identities that are used again after a collection.  this and arguments  *)
(* are no names here; an assertion that fails stops the program (a guard). *)
(*                                                                         *)
(* A scope remembers definitions by the address of their syntax tree.      *)
(* That of a function's body lives as long as the function; the tree of a  *)
(* text for eval is gone when eval returns, and the allocator may give its *)
(* addresses to the next tree while scopes remember them (TreesReused).    *)
(***************************************************************************)
EXTENDS Integers, Sequences, FiniteSets, SequencesExt, Functions

CONSTANTS
    Names,          \* identifiers
    Values,         \* what programs store besides functions
    Undefined,      \* the value undefined
    Codes,          \* [code -> [id, params, decls, strict, body]]
    Programs,       \* the codes given to interpreter::eval
    Plain,          \* [object for with -> the names of its properties]
    Nodes,          \* addresses for the definitions in texts for eval and programs
    TreesReused,    \* whether a tree may come to lie where one that was freed lay
    MaxObjects,     \* bound: the size of the heap
    MaxDepth        \* bound: codes, with and catch statements under way

Null == 0
Global == 1

\* Addresses of definitions: those in the body of a function are named by it
Addresses == Nodes \cup DOMAIN Codes
Definitions(code) == {d.code : d \in {e \in ToSet(Codes[code].decls) : ~e.var}}

\* A variable or a function that is declared, and a statement
Declares(d) ==
    IF d.var THEN d.id \in Names
    ELSE d.code \in DOMAIN Codes /\ Codes[d.code].id \in Names
StatementOK(code, s) ==
    /\ s.op \in {"call", "new", "catch", "var", "assign", "function", "new Function", "delete"} =>
        s.x \in Names
    /\ s.op \in {"call", "new"} => s.args \in Seq(Names \cup Values)
    /\ s.op \in {"catch", "var", "assign", "set argument"} => s.e \in Names \cup Values
    /\ s.op \in {"eval", "indirect eval", "native eval", "function", "new Function"} =>
        s.code \in DOMAIN Codes
    /\ s.op = "define" => s.code \in Definitions(code)
    /\ s.op = "with" => s.o \in DOMAIN Plain

ASSUME ScopesAssumption ==
    /\ Undefined \in Values
    /\ Programs \subseteq DOMAIN Codes
    /\ Names \cap Values = {} /\ Values \cap Nat = {}
    /\ Nodes \cap DOMAIN Codes = {}
    /\ \A c \in DOMAIN Codes :
        /\ Codes[c].id \in Names \cup {""}
        /\ Codes[c].params \in Seq(Names)
        /\ Codes[c].strict \in BOOLEAN
        /\ Codes[c].decls \in Seq(ToSet(Codes[c].decls))
        /\ \A d \in ToSet(Codes[c].decls) : d.var \in BOOLEAN /\ Declares(d)
        /\ \A s \in Codes[c].body : StatementOK(c, s)
    /\ IsFiniteSet(DOMAIN Plain) /\ DOMAIN Plain \subseteq Nat \ {Null, Global}
    /\ \A o \in DOMAIN Plain : Plain[o] \subseteq Names
    /\ TreesReused \in BOOLEAN
    /\ MaxObjects \in Nat
    /\ MaxDepth \in Nat

VARIABLES
    heap,       \* [identity -> object, function or scope]
    active,     \* active_scope_
    strict,     \* strict_mode_
    frames,     \* the codes, with and catch statements under way
    direct      \* was_direct_call_to_eval_

vars == <<heap, active, strict, frames, direct>>

Running == Last(frames).code

\* Where the first and the last x is in a sequence, 0 if there is none
Place(s, x) == SelectInSeq(s, LAMBDA y : y = x)
LastPlace(s, x) == SelectLastInSeq(s, LAMBDA y : y = x)

----------------------------------------------------------------------------
(* Objects.  A property has a value, and the attributes dont_delete (as    *)
(* its opposite, del) and read_only (ro).                                  *)

\* heap.make: the heap with one more object, and its identity
New(h, x) ==
    LET n == CHOOSE i \in 1 .. Cardinality(DOMAIN h) + 1 : i \notin DOMAIN h
    IN  [h |-> [i \in DOMAIN h \cup {n} |-> IF i = n THEN x ELSE h[i]], id |-> n]

Own(h, o, x) == x \in DOMAIN h[o].props

SetProperty(h, o, x, p) ==
    [h EXCEPT ![o].props = [y \in DOMAIN @ \cup {x} |-> IF y = x THEN p ELSE @[y]]]

\* object::put
ObjectPut(h, o, x, v, del) ==
    IF ~Own(h, o, x) THEN SetProperty(h, o, x, [v |-> v, del |-> del, ro |-> FALSE])
    ELSE IF h[o].props[x].ro THEN h
    ELSE [h EXCEPT ![o].props[x].v = v]

\* object::redefine_own_property, with dont_delete: attributes do not matter
Redefine(h, o, x, v) == SetProperty(h, o, x, [v |-> v, del |-> FALSE, ro |-> FALSE])

\* activation_object::find: the last parameter of that name that has an argument
Alias(h, o, x) ==
    IF h[o].kind # "activation" THEN 0
    ELSE LastPlace(h[o].params, x)

Get(h, o, x) ==
    LET a == Alias(h, o, x)
        p == IF a = 0 THEN h[o].props ELSE h[h[o].args].props
        y == IF a = 0 THEN x ELSE a
    IN  IF y \in DOMAIN p THEN p[y].v ELSE Undefined

Put(h, o, x, v) ==
    IF Alias(h, o, x) = 0 THEN ObjectPut(h, o, x, v, TRUE)
    ELSE ObjectPut(h, h[o].args, Alias(h, o, x), v, TRUE)

----------------------------------------------------------------------------
(* Scopes.                                                                 *)

NewScope(h, env, prev) ==
    New(h, [kind |-> "scope", env |-> env, prev |-> prev, funcs |-> <<>>, vals |-> <<>>])

ScopesOf(h) == {i \in DOMAIN h : h[i].kind = "scope"}

\* The first scope from s outwards that is one of ts, or Null
FirstScope(h, s, ts) ==
    LET first[i \in ScopesOf(h) \cup {Null}] ==
            IF i = Null \/ i \in ts THEN i ELSE first[h[i].prev]
    IN  first[s]

\* The scopes whose object has a property x
Naming(h, x) == {i \in ScopesOf(h) : Own(h, h[i].env, x)}

HasProperty(h, s, x) == FirstScope(h, s, Naming(h, x)) # Null

\* The object that a reference to x has as its base, Null for none
Lookup(h, s, x) ==
    LET t == FirstScope(h, s, Naming(h, x))
    IN  IF t = Null THEN Null ELSE h[t].env

\* Mutant: declarations in a with statement end up in its object
PutLocalHere(h, s, x, v) == Redefine(h, h[s].env, x, v)

\* put_local
PutLocal(h, s, x, v) ==
    LET declaring == {i \in ScopesOf(h) : h[h[i].env].kind \in {"activation", "global"}}
    IN  Redefine(h, h[FirstScope(h, s, declaring \cup Naming(h, x))].env, x, v)

\* create_function
NewFunction(h, code, s) == New(h, [kind |-> "function", code |-> code, scope |-> s])

\* The functions that scope s has made, as a record of the two vectors
Made(h, s) == [funcs |-> h[s].funcs, vals |-> h[s].vals]

\* Mutant: the value that was remembered stays
ForgetDefinition(m, i) == [m EXCEPT !.funcs = RemoveAt(@, i)]

Forget(m, i) == [funcs |-> RemoveAt(m.funcs, i), vals |-> RemoveAt(m.vals, i)]

\* Mutant: a function that was made before is taken to be there
StillThereIfMade(h, s, i, x) == h[s].vals[i] # Null

\* The i-th function that s has made is still what x means
StillThere(h, s, i, x) == h[s].vals[i] # Null /\ Get(h, h[s].env, x) = h[s].vals[i]

\* put_local_function, for a definition at an address
PutLocalFunction(h, s, d, node) ==
    LET x == Codes[d].id
        i == Place(h[s].funcs, node)
        old == IF i = 0 THEN Made(h, s) ELSE Forget(Made(h, s), i)
        f == NewFunction(h, d, s)
        made == [f.h EXCEPT ![s].funcs = Append(old.funcs, node), ![s].vals = Append(old.vals, f.id)]
    IN  IF i # 0 /\ StillThere(h, s, i, x) THEN h ELSE PutLocal(made, s, x, f.id)

\* hoisting_visitor: the names in order, and of each name that is a function
\* the first definition, unless a variable comes before it
ScanDeclaration(r, d) ==
    IF d.var THEN [r EXCEPT !.ids = Append(@, d.id)]
    ELSE IF Contains(r.ids, Codes[d.code].id) THEN r
    ELSE [ids |-> Append(r.ids, Codes[d.code].id), funcs |-> Append(r.funcs, d.code)]
Scan(decls) == FoldLeft(ScanDeclaration, [ids |-> <<>>, funcs |-> <<>>], decls)

\* A variable <<s, x>> and a definition <<s, d, address>> in scope s
HoistVariable(h, e) ==
    IF HasProperty(h, e[1], e[2]) THEN h ELSE PutLocal(h, e[1], e[2], Undefined)
HoistDefinition(h, e) == PutLocalFunction(h, e[1], e[2], e[3])

\* hoist: what a code declares, in scope s; at gives the addresses
Hoist(h, s, code, at) ==
    LET r == Scan(Codes[code].decls)
        variables == [k \in DOMAIN r.ids |-> <<s, r.ids[k]>>]
        definitions == [k \in DOMAIN r.funcs |-> <<s, r.funcs[k], at[r.funcs[k]]>>]
    IN  FoldLeft(HoistDefinition, FoldLeft(HoistVariable, h, variables), definitions)

\* Addresses for the definitions of a text that is parsed: the trees of the
\* codes under way are there; those that only scopes remember may be gone
Parsed(h, code) ==
    LET held == UNION {Range(frames[k].at) : k \in DOMAIN frames}
        remembered == UNION {ToSet(h[i].funcs) : i \in ScopesOf(h)}
        used == IF TreesReused THEN held ELSE held \cup remembered
    IN  {at \in [Definitions(code) -> Nodes \ used] : IsInjective(at)}

\* The definitions in the body of a function
InBody(code) == [d \in Definitions(code) |-> d]

----------------------------------------------------------------------------
(* Activations.                                                            *)

Property(v) == [v |-> v, del |-> FALSE, ro |-> FALSE]

\* activation_object::activation_object: the arguments, of which those of
\* code that is not strict are aliases of parameters
NewActivation(h, ps, args, isStrict) ==
    LET n == IF Len(ps) < Len(args) THEN Len(ps) ELSE Len(args)
        given(x) == LastPlace(SubSeq(ps, 1, n), x)
        a == New(h, [kind |-> "arguments",
                     props |-> [i \in DOMAIN args |-> [Property(args[i]) EXCEPT !.del = TRUE]]])
    IN  New(a.h, [kind |-> "activation",
                  params |-> IF isStrict THEN <<>> ELSE SubSeq(ps, 1, n),
                  args |-> a.id,
                  props |-> [x \in ToSet(ps) |->
                                Property(IF isStrict /\ given(x) # 0 THEN args[given(x)]
                                         ELSE Undefined)]])

\* The function is a read_only name of its own activation, if it has a name
Named(h, o, f) ==
    LET id == Codes[h[f].code].id
    IN  IF id = "" THEN h
        ELSE SetProperty(h, o, id, [v |-> f, del |-> FALSE, ro |-> TRUE])

Frame(kind, code, at, saved) ==
    [kind |-> kind, code |-> code, at |-> at, saved |-> saved, strict |-> strict]

\* A frame starts, in a heap and a scope
Enter(h, s, f, isStrict) ==
    /\ Cardinality(DOMAIN h) <= MaxObjects
    /\ Len(frames) < MaxDepth
    /\ heap' = h
    /\ active' = s
    /\ frames' = Append(frames, f)
    /\ strict' = isStrict

\* The lambda of create_function; its two assertions are guards
CallFunction(f, args) ==
    LET code == Codes[heap[f].code]
        act == NewActivation(heap, code.params, args, code.strict)
        s == NewScope(act.h, act.id, heap[f].scope)
        h == Hoist(s.h, s.id, heap[f].code, InBody(heap[f].code))
    IN  /\ strict => code.strict
        /\ ~Own(h, act.id, code.id)
        /\ Enter(Named(h, act.id, f), s.id,
                 Frame("call", heap[f].code, InBody(heap[f].code), <<active>>), code.strict)

\* The value of an expression, a name or a value; of a name nobody has defined
\* there is none, and the statement ends with an error
Evaluates(e) == e \in Names => Lookup(heap, active, e) # Null
Value(e) == IF e \in Names THEN Get(heap, Lookup(heap, active, e), e) ELSE e

Inside == frames # <<>>

\* A function called by name, with values for its arguments
Invoke(x, args) ==
    /\ \A e \in ToSet(args) \cup {x} : Evaluates(e)
    /\ Value(x) \notin Values
    /\ CallFunction(Value(x), [i \in DOMAIN args |-> Value(args[i])])

\* call_expression
Call(x, args) ==
    /\ Invoke(x, args)
    /\ direct' = FALSE

\* new does not come by call_expression, nor do native functions that call;
\* the function needs a name (an assertion)
Construct(x, args) ==
    /\ Invoke(x, args)
    /\ Codes[heap[Value(x)].code].id # ""
    /\ UNCHANGED direct

\* The global function eval, by the flag that says how it was called.  Strict
\* code gets a scope, which a call that is not direct replaces at once.
EvalCode(code, isDirect) ==
    LET isStrict == strict \/ Codes[code].strict
        act == NewActivation(heap, <<>>, <<>>, isStrict)
        s1 == IF isStrict THEN NewScope(act.h, act.id, active) ELSE [h |-> heap, id |-> active]
        s2 == IF isDirect THEN s1 ELSE NewScope(s1.h, Global, Null)
        saved == <<active>> \o (IF isDirect THEN <<>> ELSE <<s1.id>>)
    IN  \E at \in Parsed(heap, code) :
            Enter(Hoist(s2.h, s2.id, code, at), s2.id,
                  Frame(IF isDirect THEN "eval" ELSE "indirect", code, at, saved), isStrict)

\* An expression that calls eval: directly, when that is the name
CallEval(code, isDirect) ==
    /\ EvalCode(code, isDirect)
    /\ direct' = isDirect

\* A native function or an accessor calls eval; the flag is what it was
NativeCallsEval(code) ==
    /\ EvalCode(code, direct)
    /\ UNCHANGED direct

\* The global object, its scope, and the objects that programs have for with
InitialScope ==
    NewScope([i \in DOMAIN Plain \cup {Global} |->
                IF i = Global THEN [kind |-> "global", props |-> <<>>]
                ELSE [kind |-> "plain",
                      props |-> [x \in Plain[i] |-> [v |-> Undefined, del |-> TRUE, ro |-> FALSE]]]],
             Global, Null)
InitialHeap == InitialScope.h

\* interpreter::eval, of one program (a bound)
Evaluate(program) ==
    /\ ~Inside
    /\ heap = InitialHeap
    /\ \E at \in Parsed(heap, program) :
            Enter(Hoist(heap, active, program, at), active,
                  Frame("program", program, at, <<active>>), Codes[program].strict)
    /\ UNCHANGED direct

\* with_statement, try_statement with a catch clause
EnterBlock(h, env, kind) ==
    LET s == NewScope(h, env, active)
    IN  /\ Enter(s.h, s.id, Frame(kind, Running, Last(frames).at, <<active>>), strict)
        /\ UNCHANGED direct

With(o) ==
    /\ ~strict
    /\ EnterBlock(heap, o, "with")

Catch(x, e) ==
    /\ Evaluates(e)
    /\ LET o == New(heap, [kind |-> "plain", props |-> [y \in {x} |-> Property(Value(e))]])
       IN  EnterBlock(o.h, o.id, "catch")

\* Mutant: the scopes are left in the order in which they were entered
RestoredInOrder(f) == Last(f.saved)

\* The destructors of auto_scope and force_global_scope, the last one first
Restored(f) == Head(f.saved)

\* The code or the block ends, in whatever way
Leave ==
    /\ Inside
    /\ active' = Restored(Last(frames))
    /\ strict' = Last(frames).strict
    /\ frames' = Front(frames)
    /\ UNCHANGED <<heap, direct>>

----------------------------------------------------------------------------
(* Statements and expressions of the running code.                         *)

Become(h) ==
    /\ Cardinality(DOMAIN h) <= MaxObjects
    /\ heap' = h
    /\ UNCHANGED <<active, strict, frames, direct>>

\* variable_statement with an initializer, whose assertion is a guard
InitVariable(x, e) ==
    /\ Evaluates(e)
    /\ HasProperty(heap, active, x)
    /\ Become(PutLocal(heap, active, x, Value(e)))

\* function_definition as a statement
DefineFunction(d) == Become(PutLocalFunction(heap, active, d, Last(frames).at[d]))

\* put_value; in strict mode what check_strict_mode_put refuses is an error
PutValue(h, b, x, v) ==
    /\ strict => b # Null /\ (Own(h, b, x) => ~h[b].props[x].ro)
    /\ Become(Put(h, IF b = Null THEN Global ELSE b, x, v))

Assign(x, e) ==
    /\ Evaluates(e)
    /\ PutValue(heap, Lookup(heap, active, x), x, Value(e))

\* The assignment of a function_expression
AssignFunction(x, code) ==
    LET f == NewFunction(heap, code, active)
    IN  PutValue(f.h, Lookup(heap, active, x), x, f.id)

\* The assignment of new Function(...), whose scope is a new one
AssignNewFunction(x, code) ==
    LET s == NewScope(heap, Global, Null)
        f == NewFunction(s.h, code, s.id)
    IN  PutValue(f.h, Lookup(heap, active, x), x, f.id)

\* delete of a name, which strict code has not
Delete(x) ==
    LET b == Lookup(heap, active, x)
    IN  /\ ~strict
        /\ b # Null /\ heap[b].props[x].del
        /\ Become([heap EXCEPT ![b].props = [y \in DOMAIN @ \ {x} |-> @[y]]])

\* What the name arguments refers to, Null outside of functions
Arguments ==
    LET calls == {i \in ScopesOf(heap) : heap[heap[i].env].kind = "activation"}
        s == FirstScope(heap, active, calls)
    IN  IF s = Null THEN Null ELSE heap[heap[s].env].args

SetArgument(i, e) ==
    /\ Arguments # Null /\ Evaluates(e)
    /\ i \in DOMAIN heap[Arguments].props
    /\ Become(ObjectPut(heap, Arguments, i, Value(e), TRUE))

DeleteArgument(i) ==
    /\ Arguments # Null
    /\ i \in DOMAIN heap[Arguments].props
    /\ Become([heap EXCEPT ![Arguments].props = [j \in DOMAIN @ \ {i} |-> @[j]]])

\* What object i keeps; the remembered functions of a scope are weak
References(h, i) ==
    CASE h[i].kind = "scope" -> {h[i].env, h[i].prev}
      [] h[i].kind = "function" -> {h[i].scope}
      [] OTHER -> {h[i].props[x].v : x \in DOMAIN h[i].props}
                  \cup (IF h[i].kind = "activation" THEN {h[i].args} ELSE {})

Roots == {Global, active} \cup DOMAIN Plain \cup UNION {ToSet(frames[k].saved) : k \in DOMAIN frames}

\* What is copied after s: as many rounds as there are objects reach them all
Traverse(s, h) == s \cup (DOMAIN h \cap UNION {References(h, i) : i \in s})
Reachable == FoldLeft(Traverse, Roots, [k \in 1 .. Cardinality(DOMAIN heap) |-> heap])

\* Mutant: a collection leaves the weak pointers as they are
AllKept(vals, live) == vals

\* A weak pointer to what goes becomes empty
Kept(vals, live) == [k \in DOMAIN vals |-> IF vals[k] \in live THEN vals[k] ELSE Null]

\* A statement is evaluated, and collects garbage
Collect ==
    /\ Inside
    /\ Become([i \in Reachable |->
                  IF heap[i].kind = "scope" THEN [heap[i] EXCEPT !.vals = Kept(@, Reachable)]
                  ELSE heap[i]])

----------------------------------------------------------------------------

Init ==
    /\ heap = InitialHeap
    /\ active = InitialScope.id
    /\ strict = FALSE
    /\ frames = <<>>
    /\ direct = FALSE

\* A statement of the running code
Execute(s) ==
    \/ s.op = "call" /\ Call(s.x, s.args)
    \/ s.op = "new" /\ Construct(s.x, s.args)
    \/ s.op = "eval" /\ CallEval(s.code, TRUE)
    \/ s.op = "indirect eval" /\ CallEval(s.code, FALSE)
    \/ s.op = "native eval" /\ NativeCallsEval(s.code)
    \/ s.op = "with" /\ With(s.o)
    \/ s.op = "catch" /\ Catch(s.x, s.e)
    \/ s.op = "var" /\ InitVariable(s.x, s.e)
    \/ s.op = "define" /\ DefineFunction(s.code)
    \/ s.op = "assign" /\ Assign(s.x, s.e)
    \/ s.op = "function" /\ AssignFunction(s.x, s.code)
    \/ s.op = "new Function" /\ AssignNewFunction(s.x, s.code)
    \/ s.op = "delete" /\ Delete(s.x)
    \/ s.op = "set argument" /\ SetArgument(s.i, s.e)
    \/ s.op = "delete argument" /\ DeleteArgument(s.i)

Next ==
    \/ \E p \in Programs : Evaluate(p)
    \/ Inside /\ \E s \in Codes[Running].body : Execute(s)
    \/ Leave
    \/ Collect

Spec == Init /\ [][Next]_vars

----------------------------------------------------------------------------
(* Properties.                                                             *)

Is(h, i, kinds) == i \in DOMAIN h /\ h[i].kind \in kinds
Environments == {"global", "activation", "plain"}

\* What an object refers to
Refers(h, x) ==
    /\ x.kind = "scope" =>
        /\ Is(h, x.env, Environments)
        /\ x.prev # Null => Is(h, x.prev, {"scope"})
        /\ \A v \in ToSet(x.vals) \ {Null} : Is(h, v, {"function"})
    /\ x.kind = "function" => Is(h, x.scope, {"scope"})
    /\ x.kind = "activation" => Is(h, x.args, {"arguments"})
    /\ x.kind \in Environments \cup {"arguments"} =>
        \A y \in DOMAIN x.props : x.props[y].v \in Values \/ Is(h, x.props[y].v, {"function"})

(* Every object on the heap refers to objects on the heap, each of the     *)
(* kind its use expects, and what a scope remembers is empty or a function *)
(* (the untracked pointers of scope, activation_object and functions).     *)
TypeOK ==
    /\ Is(heap, active, {"scope"})
    /\ \A i \in DOMAIN heap : Refers(heap, heap[i])
    /\ \A k \in DOMAIN frames : \A s \in ToSet(frames[k].saved) : Is(heap, s, {"scope"})

(* The two vectors of a scope stay parallel through redefinitions and      *)
(* collections: no address is there twice, and the function beside that of *)
(* a definition of the running code was made from it in this scope         *)
(* (put_local_function), if no tree lies where another one was freed.      *)
CachesAligned ==
    /\ \A s \in {i \in DOMAIN heap : heap[i].kind = "scope"} :
        LET m == heap[s]
        IN  /\ Len(m.funcs) = Len(m.vals)
            /\ IsInjective(m.funcs)
            /\ \A v \in ToSet(m.vals) \ {Null} : heap[v].scope = s
    /\ Inside => \A d \in Definitions(Running), k \in DOMAIN heap[active].funcs :
        heap[active].funcs[k] = Last(frames).at[d] /\ heap[active].vals[k] # Null =>
            heap[heap[active].vals[k]].code = d

\* The scope for what runs in a frame of a kind
Suits(h, s, kind, isStrict) ==
    LET env == h[h[s].env].kind
    IN  /\ kind \in {"program", "indirect"} => env = "global" /\ h[s].prev = Null
        /\ kind = "call" \/ (kind = "eval" /\ isStrict) => env = "activation"
        /\ kind \in {"with", "catch"} => env = "plain"

(* Whatever was called and left before, code runs in a scope of its kind:  *)
(* programs and indirect eval in one over the global object, functions and *)
(* strict eval in one over an activation; at the end the active scope has  *)
(* no predecessor (auto_scope, force_global_scope, the assertion of ~impl).*)
CodeInItsScope ==
    Suits(heap, active, IF Inside THEN Last(frames).kind ELSE "program", strict)

(* Declarations in a with or catch block add nothing to its object ("end   *)
(* up in e.g. in the with object otherwise", put_local).                   *)
BlockObjectsGainNothing ==
    [][\A i \in DOMAIN heap \cap DOMAIN heap' :
            heap[i].kind = "plain" /\ heap'[i].kind = "plain" =>
                DOMAIN heap'[i].props \subseteq DOMAIN heap[i].props]_vars

(* A declaration that runs now takes effect, whatever with, catch, earlier *)
(* functions of that name and collections have done: its name means then   *)
(* the new value, or a function of that definition made in this scope.     *)
(* Not for parameters that have an argument, nor where a tree lies at the  *)
(* address of one that was freed (put_local, put_local_function).          *)
DeclarationsTakeEffect ==
    Inside => \A s \in {t \in Codes[Running].body : t.op \in {"var", "define"}} :
        LET x == IF s.op = "define" THEN Codes[s.code].id ELSE s.x
            h == IF s.op = "define" THEN PutLocalFunction(heap, active, s.code, Last(frames).at[s.code])
                 ELSE PutLocal(heap, active, x, Value(s.e))
            now == Get(h, Lookup(h, active, x), x)
        IN  s.op = "define" \/ (Evaluates(s.e) /\ HasProperty(heap, active, x)) =>
                \/ Alias(h, Lookup(h, active, x), x) # 0
                \/ s.op = "var" /\ now = Value(s.e)
                \/ s.op = "define" /\ now \in DOMAIN h /\ h[now].code = s.code /\ h[now].scope = active

----------------------------------------------------------------------------
(* What the proofs need besides: types, chains that end, what addresses    *)
(* mean, and scopes to come back to.                                       *)

PropertyMaps ==
    UNION {[D -> [v : Values \cup Nat, del : BOOLEAN, ro : BOOLEAN]] : D \in SUBSET (Names \cup Nat)}
\* Parameters that are aliases are properties that cannot be deleted
Lasting(props) == {y \in DOMAIN props : ~props[y].del}
Activations ==
    {a \in [kind : {"activation"}, params : Seq(Names), args : Nat, props : PropertyMaps] :
        ToSet(a.params) \subseteq Lasting(a.props)}
Things ==
    [kind : {"scope"}, env : Nat, prev : Nat, funcs : Seq(Addresses), vals : Seq(Nat)]
    \cup [kind : {"function"}, code : DOMAIN Codes, scope : Nat]
    \cup [kind : {"global", "plain", "arguments"}, props : PropertyMaps]
    \cup Activations
Heaps == UNION {[D -> Things] : D \in SUBSET (Nat \ {Null})}

\* An address has one meaning as long as it is in use
Meanings == {m \in [Addresses -> Addresses] : \A c \in DOMAIN Codes : m[c] = c}

\* Address a stands for definition d; when trees are reused that is not known
Stands(m, a, d) == TreesReused \/ m[a] = d

CacheOK(h, s, x, m) ==
    /\ Len(x.funcs) = Len(x.vals) /\ IsInjective(x.funcs)
    /\ \A k \in DOMAIN x.vals : x.vals[k] # Null =>
        h[x.vals[k]].scope = s /\ Stands(m, x.funcs[k], h[x.vals[k]].code)

Ranked(h) ==
    \E n \in Nat : \E rank \in [DOMAIN h -> 0 .. n] : \A s \in ScopesOf(h) :
        h[s].prev # Null => rank[h[s].prev] < rank[s]

HeapOK(h, m) ==
    /\ h \in Heaps /\ IsFiniteSet(DOMAIN h)
    /\ \A i \in DOMAIN h : Refers(h, h[i])
    /\ \A s \in ScopesOf(h) : CacheOK(h, s, h[s], m) /\ (h[s].prev = Null => h[s].env = Global)
    /\ Ranked(h)
    /\ Is(h, Global, {"global"}) /\ \A o \in DOMAIN Plain : Is(h, o, {"plain"})

\* What the frame below the k-th runs
Below(k) == IF k = 1 THEN "program" ELSE frames[k - 1].kind

FrameOK(f) ==
    /\ f.code \in DOMAIN Codes
    /\ f.at \in [Definitions(f.code) -> Addresses]
    /\ f.saved # <<>> /\ f.saved \in Seq(Nat)
    /\ f.strict \in BOOLEAN

FramesInv ==
    /\ frames \in Seq(ToSet(frames)) /\ strict \in BOOLEAN
    /\ Is(heap, active, {"scope"}) /\ CodeInItsScope
    /\ \A k \in DOMAIN frames :
        /\ FrameOK(frames[k])
        /\ \A s \in ToSet(frames[k].saved) : Is(heap, s, {"scope"})
        /\ Suits(heap, Head(frames[k].saved), Below(k), frames[k].strict)

ScopesInv ==
    /\ FramesInv
    /\ \E m \in Meanings :
        /\ HeapOK(heap, m)
        /\ \A k \in DOMAIN frames : \A d \in DOMAIN frames[k].at : Stands(m, frames[k].at[d], d)
=============================================================================
