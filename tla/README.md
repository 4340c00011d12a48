# TLA+ verification of mjs

mjs is an ECMAScript (ES1, ES3, ES5) interpreter in C++17: a parser that
builds syntax trees, a tree-walking interpreter, the built-in objects, and a
copying garbage collector that owns every string, object, scope and closure.
The program is single threaded; what makes it hard is *re-entrancy* (a getter,
a `valueOf` or a comparator runs user code in the middle of a native function),
*moving objects* (a collection at a statement boundary changes the position of
everything), and *long sequences* of legal operations on shared mutable state
(properties with attributes, scopes, labels).

Paths below are relative to the repository; `src/` in PROJECT.json is the
repository's root.

## 1. Inventory

| Component | State it keeps | Operations | Interacts with | What makes it correct |
|---|---|---|---|---|
| `gc_heap` (`src/mjs/gc_heap.h`, `.cpp`) | one storage in two halves (`alloc_context_`), `pointers_` (the attached `gc_heap_ptr`s), `gc_state_` during a collection | `make`, copy/assign/destroy of tracked pointers, `track`, `garbage_collect`, `gc_move`, weak pointers | everything that allocates; the interpreter triggers it | no pointer dangles, exactly what the roots reach survives, `pointers_` is exact, the copy always fits, a collection ends |
| `gc_vector` (`gc_vector.h`) | a table of entries on the heap, its length and capacity | push, erase, resize, growth by copying | heap, property tables, string cache, scopes | contents preserved by growth, erase keeps order; data pointers taken before growth are stale |
| `gc_function` (`gc_function.h`) | a type-erased closure whose captures are tracked pointers | call, move, destroy | heap | captures survive the move, cycles through captures are collected |
| `value_representation` | 64 bits: a double or a tagged 32-bit payload | encode, decode, `fixup` | property values, heap | encode/decode round trip, no number is taken for a pointer |
| object and property model (`object.*`, `native_object.*`, `property_attribute.*`) | per object: properties in order, attributes, prototype, `extensible_` | get, put, can_put, delete, redefine, define accessor | interpreter, all builtins | read-only and non-configurable properties do not change, accessor and `read_only` attributes agree |
| `Object` builtins (`object_object.cpp`) | none of its own | defineProperty, seal, freeze, preventExtensions, is* | property model | ES5 8.12.9: sealed and frozen stay so |
| `array_object` | `length_` besides its properties | put, `length` assignment, push, sort, ... | property model, user code | `length_` above every index property |
| `function_object` | call/construct closures, bound arguments, prototype | call, construct, bind | interpreter | |
| `global_object`, `string_cache` | builtins, prototypes, a most-recently-used cache of weak string pointers | lookup with move-to-front and eviction; URI coding, Math, console | heap (weak pointers) | no stale string, no duplicate, capacity respected |
| interpreter: completions (`interpreter.cpp`) | `label_set_`, `labels_valid_for_` | statements | scopes | break and continue reach their target, finally overrides |
| interpreter: scopes, functions, eval, strict mode | `active_scope_` chain, `strict_mode_`, `stack_trace_`, `was_direct_call_to_eval_`, activation objects | call, eval, with, catch | heap, property model | every exit restores what entry changed; arguments and parameters alias |
| interpreter: collection trigger | `gc_cooldown_` | `eval(statement)` | heap | the heap is collected before it is exhausted |
| lexer, parser | position, tokens, `supress_in_`, `line_break_skipped_` | parse | | precedence, semicolon insertion, for-in |
| `json_object` | the stack of objects under way, the gap, the list of names | `JSON.parse`, `JSON.stringify` | property model, user code | the texts are JSON and stand for the value; stringify ends |
| text and number functions: `string`, `char_conversions`, `number_to_string`, `regexp`, `date_object`, wrappers, `printer` | mostly none | conversions | | boundary arithmetic |
| `mjs.cpp`, `version`, `platform`, `unicode_data.h` | | I/O, constants, a generated table | | |

PROJECT.json lists each of them with its status, and the hazards at their lines.

## 2. What is modelled

Nine components, in modules that can be read on their own:

| Module | Code | Kind |
|---|---|---|
| ObjectGraph, CopyCollector, GCHeap | `gc_heap.*` | three levels of one component, each implementing the one before |
| Properties | `object.cpp`, `object_object.cpp`, parts of `interpreter.cpp` | state machine with suspended operations |
| Interpreter | the statements in `interpreter.cpp` | evaluation of trees, as recursive operators |
| Scopes | scopes, functions, eval in `interpreter.cpp` | state machine over a heap of scopes |
| Arrays | `array_object.cpp` | pure operations, and functions suspended in user code |
| Syntax, Parser; Grammar, Language | `parser.*` | the parser as operators; the reference it is checked against |
| JsonText, Json | `json_object.cpp` | texts as operators, stringify as a state machine |
| StringCache | `string_cache` in `global_object.cpp` | state machine over weak pointers |

User code in the middle of a native function is modelled the same way wherever
it appears: the native function is suspended (`defining` in Properties, `frames`
in Arrays, `current` and `nests` in Json), other actions happen, and it goes on
with what it remembered, be it stale.

### The collector

Three levels of detail, each implementing the one above.

```
ObjectGraph        what clients are promised: a graph, handles, an atomic Collect
     ^  ImplementsGraph (Graph!Spec)
CopyCollector      positions, two halves, pending fixups, in any order
     ^  ImplementsCollector (Collector!Spec)
GCHeap             slots and sizes, pointers_ with erase-by-swap, fixup stack
```

**ObjectGraph** has no storage. Objects are identities with strong and weak
fields, handles are the `gc_heap_ptr`s outside the heap. `Collect` removes the
objects that no handle leads to (reachability is defined as membership in every
closed set, so that it can be used in proofs) and clears the weak fields that
pointed to them.

**CopyCollector** is `garbage_collect`/`gc_move` on object positions. `type[p]`
is the allocation header (`Free`, a type, or `Moved` = `gc_moved_type_index`),
`newPos[p]` is `new_position`, `fld` the pointer members, `root` the handles.
`phase` is where `garbage_collect` is: `"mutate"` (not running), `"move"` (the
loop over `pending_fixups`), `"sweep"` (weak fixups done, halves not yet
swapped). One action is one iteration of the loop: a handle or a field whose
target moves (`FixHandleMove`, `FixFieldMove`) or has moved
(`FixHandleForward`, `FixFieldForward`). The order of the fixups and the place
of a copy in the new half are left open, so what is proved holds for every
order. Room is finite (a half is a set of positions) but sizes are not modelled.

**GCHeap** is the heap as laid out. Positions are slot numbers; an object of
`Body[t]` slots takes one more for its header. `pointers_` is a sequence of
*locations* (`<<0, h>>` a handle, `<<p, f>>` member `f` of the object at `p`),
appended at the back and erased by swapping with the last element, as
`pointer_set` does. `FixupMove` is a whole call of `gc_move`: allocate, move
(the copy attaches its tracked members), register those from the back of
`pointers_`, destroy the original (its members detach in reverse order), leave
the mark and the new position, register the untracked members with the copy's
`fixup()`. `Sweep` swaps the contexts and runs the destructors of the old half
by walking the headers. `MakeThrows` is a constructor that throws after its
slots were taken.

| Code | CopyCollector | GCHeap |
|---|---|---|
| `allocate_and_construct` | `Make` | `Make`, `MakeThrows`, `Fits` |
| `gc_heap_ptr` copy, assignment, destruction | `SetHandle` | `SetHandle`, `Reattached`, `Erase` |
| assignment to a member | `SetField` | `SetMember` |
| `track` | `Track` | `Track` |
| `garbage_collect`: roots | `GcBegin`, `GcNoRoots` | the same, with `IsExternal` |
| the loop and `gc_move` | `Fix...Move`, `Fix...Forward` | `FixupMove`, `FixupForward` |
| weak fixups | `FixWeak` | `FixWeak` |
| swap, `run_destructors` | `Sweep` | `Sweep`, `Walk` |

Abstractions that a reader should know:

- A collection only starts between client operations (`interpreter.cpp`
  collects at statement boundaries, or after an expression in the stress test);
  raw references that native code holds across a collection are not in this
  model but in Arrays.
- A handle receives a new object or the target of a member only when it is
  empty (`root[h] = 0`): the copy elision and temporaries of C++ make a fresh
  `gc_heap_ptr`; reuse of a handle is `SetHandle` (reset) followed by that.
- Objects are constructed one at a time; a constructor that allocates a nested
  object takes the outer slots first in the code, last in the model. The two
  orders differ in positions only.
- Types are layouts: a list of members, each *tracked* (`gc_heap_ptr`, e.g. a
  capture in a `gc_function`), *strong* (`gc_heap_ptr_untracked`,
  `value_representation`) or *weak*. The type index table and NaN tags are not.
- Identities (`id`) are history: no code reads them.

### Properties

**Properties** is the property model of plain objects: `object.cpp`, the part
of `object_object.cpp` that changes attributes, `check_strict_mode_put` and the
accessors of object literals. `props[o][n]` is the `property` of a name with
its attributes, and the Accessor object it may hold (no two properties share
one); `Absent` has the attributes `invalid`, as `own_property_attributes` says.
The chain of prototypes is a constant, as no operation changes `prototype_`.

| Code | Properties |
|---|---|
| `object::get`, `put`, `property::put` | `Get`, `PutProperty` |
| `put_value`, sloppy and strict | `Put`, `StrictPut` |
| `delete_property` | `Delete` |
| `{ n: v, get n() {}, set n(x) {} }` | `LiteralValue`, `LiteralAccessor`, `LiteralDone` |
| `preventExtensions`, `seal`, `freeze`, `isSealed`, `isFrozen` | `PreventExtensions`, `Seal`, `Freeze`, `IsImmutable` |
| `define_own_property` | `DefineOwnProperty`, by its branches: `DefineNew`, `Unaffected`, `Refused`, `RedefineAccessor`, `RedefineData` |
| `getOwnPropertyDescriptor` | `DescriptorOf` |

A definition whose descriptor has a getter is two steps, `DefineSuspended`
(line 91, the attributes are read) and `DefineResumed` (everything after); what
user code does in between are the other actions, nested definitions included
(`defining` is a stack, `MaxDepth` its bound). The descriptor has getters at
other fields too, read later; one point of interruption is modelled, the first.
Other getters and setters return or receive a value; a setter is always the
last thing a put does, so what it does is whatever step comes next. A literal is
being evaluated while its object is in `building`, and nothing else can use it.
Not modelled: `can_put` (in Arrays, which alone uses it), the order of properties, descriptors that inherit fields, objects
with native properties (arrays, strings, functions), whose `put` and
`redefine` are overridden (`length` of arrays is in Arrays).

The assertions in the code are part of the model: `failed` names the one that
does not hold, and the program has then stopped (`Aborted`). Properties that
hold speak of the program up to there, as it is built by default.

### Statements

**Interpreter** follows the recursion of `eval(const statement&)` and its
visitors. A tree has an address, the path to it, which stands for the pointer
that `labels_valid_for_` compares. The machine `m` is the part of
`interpreter::impl` that statements share: the label set, the strict mode flag
and the stack of calls. Completions of C++ (`completion`) and C++ exceptions
are kept apart, as in the code, with `top_level_eval` turning one into the
other. Conditions are drawn from a sequence of outcomes. All recursion but that
of the loops goes through `Eval`, the two overloads of `eval`.

| Code | Interpreter |
|---|---|
| `get_labels`, `labels_valid_for_` | `OwnLabels`, `TakeLabels`, `Labelled` |
| `handle_completion`, the loops | `Stops`, `Absorbs`, `Loop`, `ForInit` |
| `switch_statement` | `Switch`, `Match`, `Clauses` |
| `try_statement` | `Try`, `Finally` |
| calls, `eval`, `strict_mode_scope` | `Call`, `EvalCode`, `RunBlock`, `Restored` |
| `top_level_eval`, `rethrow_error` | `TopLevel`, `Rethrow`, `Escape` |

The properties do not look at the machine but at a log (`events`) and the
syntax alone: which labels stand before a statement (`LabelsAt`), where a jump
leads (`TargetOf`), and how a log of try statements is to be read (`Reads`).
One program is evaluated in a behaviour. `labels_valid_for_` outlives the tree
it points into, and a second program could be allocated at the same addresses;
that is left out here and described in section 5.

### Scopes

**Scopes** has one heap of objects, functions, activations and scopes by
identity, with `Collect` releasing and reusing identities (`Reachable` follows
`fixup` of scopes and activations; the remembered functions are weak). `frames`
is the C++ stack: the codes, `with` and `catch` statements under way with the
scopes that the RAII objects will restore. A *code* is a program, a function or
a text for eval, with its declarations and the statements its body may run, in
any order and number, which covers every flow of control through it.

| Code | Scopes |
|---|---|
| `scope::lookup`, `has_property`, `put_local` | `FirstScope`, `Lookup`, `HasProperty`, `PutLocal` |
| `put_local_function`, `active_functions_`, `active_function_values_` | `PutLocalFunction`, `StillThere`, `Forget` |
| `hoist` and its visitor | `Scan`, `Hoist`, `HoistVariable`, `HoistDefinition` |
| `activation_object` | `NewActivation`, `Alias`, `Get`, `Put`, `SetArgument`, `DeleteArgument` |
| `auto_scope`, `force_global_scope`, `strict_mode_scope` | `Enter`, `Restored`, `Leave` |
| calls, `new`, direct, indirect and native calls of eval | `CallFunction`, `Construct`, `CallEval`, `NativeCallsEval` |

An assertion of the code that fails stops the program: it is a guard, and the
cases met are in section 5. A scope remembers function definitions by the
address of their tree. Trees of eval texts are freed, and the allocator may give
the address of one to the next while scopes remember it. `TreesReused` says
whether it does: if so, `Parsed` gives a text any addresses (`Nodes`) but those of
the code under way, otherwise addresses no scope remembers either. The run takes
the second; section 5 says what fails with the first, and section 4 what is
proved for both. `this` and `arguments` as names are not modelled.

### Arrays

**Arrays** has one receiver, an array or another object with a length, whose
prototype has elements too. `uint32_t` arithmetic wraps at `Modulus` (4 in the
run, so that its end is reached). The functions that run no user code are
operators (`Pop`, `Push`, `Shift`, `Unshift`, `Slice`, `Splice`, `Concat`,
`Reversed`, `IndexOf`, `LastIndexOf`, `ArrayPut`, `PutLength`, `Delete`), each
following its loop element by element; `Apply` puts them together. sort, the
`for_each_helper` family, reduce and the conversion of a new length wait for
user code: `SortBegin`/`SortEnd`, `EachBegin`/`EachReturn`,
`LengthBegin`/`LengthEnd`. In between user code calls the other functions,
throws, or runs a statement that collects (`Collect`) and so moves the receiver.

A frame has what the C++ function holds of the receiver: `raw`, a reference or
`this`, which a collection leaves as it is, and `ptr`, an `object_ptr` or `value`,
which it fixes up. Each function goes on by the one its code uses: the callbacks
by `ptr`, sort by the reference it takes again from `this_`
(`SortRecaptured`), `put_length` by `this`. One that goes on by memory the
receiver has left sets `undefined` to `"released"`, after which the model says
nothing more of the program. The same is done for a compare function that contradicts
itself, for which `std::stable_sort` has no defined behaviour (`SortOverrun`).

### Parser

**Syntax** is one record per class of `parser.h`. **Parser** translates each
`parse_` function; the members of `class parser` (position, `supress_in_`,
`strict_mode_`, `line_break_skipped_`) are a record that is handed through, and
an exception leaves a token nothing accepts. The functions that call one
another do so through `Rule`. **Once** holds the operator with which the
recursive modules name a value that is used several times. **Grammar** writes a tree by the
grammar of ES5, with precedence as levels of productions and parentheses where
they are needed: a second formulation, independent of the parser. **Language**
lays the tokens out (one line, a line break before one token, one semicolon
missing, one replaced by a line break) and parses them.

### JSON

**JsonText** is `json_lexer`, `json_parse_value` and `json_quote` on sequences
of characters. **Json** is `JSON.stringify` as the state machine of `json_str`:
`GetMember`, `CallToJSON`, `CallReplacer`, then `WritePrimitive`, `Open` (with
the stack that detects cycles) and `Close`, `Return`. A getter, `toJSON` or the
replacer may change any object by an assignment or a deletion, return an object
that is under way, or throw. The `quiet` calls run none of it.

### String cache

**StringCache** is `string_cache::get` (`Hit`, `Miss`) with `Collect` clearing
the weak pointers of strings that nothing holds. `recent` is history: what was
looked up last, with the answers.

## 3. Runs

Each takes less than three minutes with two workers.

| Run | Instance | Question | Distinct states |
|---|---|---|---|
| `collector` | 2 handles, 3 identities, halves of 3 positions, a type with a strong member and one with a strong and a weak one | inductive invariant `RefinementInv`, refinement of ObjectGraph, garbage stays garbage | 132 thousand |
| `heap` | 2 handles, 3 identities, closures (two tracked members, 3 slots) and tables (an untracked and a weak one, 2 slots), halves of 6 slots | layout, `pointers_`, fixups, room, no dangling pointer | 848 thousand |
| `heap_refines` | the same members on smaller objects, halves of 4 slots, no symmetry (liveness) | refinement of CopyCollector, and that a collection ends | 195 thousand |
| `properties` | one object, one name, 2 values, 2 functions, all 280 descriptors | attributes under any redefinition; sealed and frozen stay so | 794 |
| `properties_chain` | an object and its prototype, one name, definitions suspended in a getter (one at a time) | accessors with re-entrancy; strict put | 557 thousand |
| `interpreter` | every program of three statements within one another around a leaf, each kind of statement in each place, 3 functions, 4 sequences of outcomes | labels, jumps, exceptions, strict mode | 16 thousand |
| `scopes` | 4 programs, 10 more codes, 10 objects, 3 codes or blocks at a time | scopes, declarations, remembered functions | 79 thousand |
| `language` | expressions of every level of the grammar within every other; statements within statements; the rules of strict mode in every kind of code | trees, line breaks, semicolons | 21 thousand |
| `arrays` | lengths up to 3 (indices 0 to 2), 2 values, an inherited element, 5 receivers, one function suspended | element functions, callbacks, sort | 347 thousand |
| `arrays_length` | the same, the code that converts a length may collect | violation, section 5 | |
| `json` | 16 thousand texts; 1518 calls on heaps of 2 or 4 objects | JSON.parse, JSON.stringify | 204 thousand |
| `string_cache` | capacity 3, 4 names, 6 strings | shared strings | 1036 |

Why the bounds are enough for the interesting cases:

- Heap: two handles give a root that moves its target and one that finds it
  moved; three objects give chains, cycles, an object reached twice, and a weak
  pointer to an object that dies, one that survives by another path, and one
  that is moved after the weak member is registered; both halves become active
  in turn, so what depends on `start_` (capacity, `is_internal`) is met in both.
  A closure and a table fit a half exactly with a slot to spare, two closures
  fill it. The state space is finite without a counter: a full half disables
  allocation (in the code a failed assertion or `std::bad_alloc`).
- Properties: rules are per property, so one name and one object meet every
  combination of attributes; a second function or value is needed only to tell a
  change from none. One prototype is enough for every test `put` makes, as it
  stops at the first property found.
- Statements: jumps and exceptions are decided between a statement, what encloses
  it and what encloses that; the third level is there for a finally or a labelled
  loop around both. Conditions that are true three times meet a loop that goes on
  after a continue.
- Scopes: a name that is declared by two functions, as a variable and as a
  parameter, the same name as function and block object, and depth three for an
  eval in a function in a program.
- Arrays: holes, present and inherited elements in each of three places, and every
  start and end relative to them; the largest index is one increment away.
- JSON: texts of every combination of up to five pieces, among them each kind of
  token cut at every place; a cycle of length one and two, direct and through an
  array.
- String cache: a name more than the capacity, so that eviction and stale entries
  meet.

The deadlock check is off where the system stops by design: `interpreter`,
`language` and `json` handle one program, text or call per behaviour, a text
that breaks every rule ends there; `scopes` can run out of the bounded heap.

Properties:

- `RefinementInv` (CopyCollector): `IInv`, the conjunction of the type invariant
  and, per phase, what every pointer refers to (between collections that is
  `NoDangling`; while objects move, a location is pending if and only if it still
  refers to the old half), with `IdentityInv`, an identity names one object and
  its copy, and `SurvivorsReachable`, what is copied is reachable.
- `ImplementsGraph`: a collection is invisible except for one atomic `Collect`.
  This is *precision* as well as safety: nothing reachable is lost, nothing
  unreachable survives, and a weak pointer is cleared only when its target dies.
- `GarbageStaysGarbage`: what no client can get hold of, by strong or weak
  fields, is never found again.
- `HeapTiled`: everything lies within the storage, and headers and bodies tile
  both halves, at every step.
- `PointersExact`: `pointers_` is exactly the set of non-empty tracked
  pointers, each once, in every state, also between the two halves of a move.
- `FixupsExact`: exactly the locations that still hold an old position are
  registered, once, in the right list. `MoveFits`: `gc_move` never runs out of
  room. `NoDanglingPointer`: at slot level.
- `CollectionEnds`: liveness. Fairness is `WF_vars(CollectorStep)`:
  `garbage_collect` is an ordinary function call on the only thread, so once
  begun its next step is taken. Client steps and the start of a collection
  have no fairness.
- `AccessorAgreement`: an accessor is `read_only` exactly when it has no setter.
  `NonConfigurableStays`, `ReadOnlyFixed`, `NonExtensibleGainsNothing`,
  `IntegrityLevelStays`: the promises of ES5 attributes, over every sequence of
  puts, deletions, definitions, seals and freezes. `StrictPutTakesEffect`: what
  `check_strict_mode_put` lets pass is not ignored by `put`.
  `RedefineByOwnDescriptor`: a property accepts the descriptor reported for it.
- `LabelsExact`, `JumpsReachTarget`, `HandlersRun`, `StrictFollowsCode`
  (Interpreter): what ran is what the syntax says, see section 2. They hold up
  to an assertion that fails (section 5).
- `CachesAligned`, `CodeInItsScope`, `DeclarationsTakeEffect`,
  `BlockObjectsGainNothing` (Scopes): the two vectors of a scope stay parallel;
  code runs in a scope of its kind whatever was called and left before; a
  declaration that runs has its effect; the objects of `with` and `catch` get no
  declarations. `TypeOK` there is about the heap: nothing refers to a released
  object, in particular no remembered function.
- `ParsesAsWritten`, `LineBreaksRestricted`, `SemicolonsInserted` (Language):
  the parser against the grammar, ES5 7.9 and strict mode. Operators the code
  reads in another way (section 5) are left out of the programs: `&&` and the
  comma, and `in` within parentheses in the head of a for statement.
- `IndicesBelowLength`, `MethodsAsSpecified`, `EachElementOnce`,
  `SortKeepsElements`, `OnlyLengthGoesStale` (Arrays): no element at `length` or above
  (of arrays that are not sealed or frozen, with quiet conversions of lengths);
  the element functions are those on sequences; callbacks are called once per
  element that stays; sort stores a permutation of what it read, undefined last, if
  the compare function is consistent; of the functions that wait for user code
  none but `put_length` goes on by a reference to memory the receiver has left.
  In `arrays` user code that converts a length only does that (`QuietLengths`).
  `arrays_length` drops it, and there `NoStaleThis`, that no function at all does so,
  is violated by `put_length`.
- `ParsesJson`, `ResultIsJSON`, `TextStandsForValue`, `StringifyEnds` (Json):
  `IsJSON` is a second formulation of the grammar of JSON, by splitting. The
  parser accepts leading zeros, so the lexer of numbers is compared with
  numbers that allow them. Fairness of `StringifyEnds` is `WF_vars(Next)`: one
  thread, and user code that is called returns or throws.
- `RecentNamesShared` (StringCache): a name looked up with fewer than `Capacity`
  others since is answered with the same string while that lives; the live entries
  are in the order of the last use.

Each property of each run has a mutant (PROJECT.json), a definition changed the
way a plausible mistake would change the code, that breaks it.

## 4. Proofs

| Module | Theorems | Assumptions |
|---|---|---|
| CopyCollectorProofs | `CollectorTypes`, `CollectorInvariant`, `NoDanglingAlways`; `RefinementInvariant`, `Refinement` (CopyCollector implements ObjectGraph), `NoResurrectionOnHeap` | `CollectorAssumption` |
| ObjectGraphProofs | `GraphTypes`, `NoResurrection` | none |
| GCHeapProofs | `HeapInvariant`, `HeapTiledAlways`, `PointersExactAlways`, `FixupsExactAlways`, `MoveFitsAlways`, `NoDanglingPointerAlways`, `HeapImplementsCollector` | `HeapAssumption` |
| FoldProofs | lemmas only: induction along a fold | |
| PropertiesProofs | `PropertyTypes`, `AccessorsAgree`, `StrictPuts`, `OwnDescriptors`; `NonConfigurable`, `ReadOnly`, `NonExtensible`, `IntegrityLevel` if `MaxDepth = 0` | `PropertiesAssumption` |
| ArraysProofs | `ArrayTypes`, `EachFramesWait`, `EachElements`, `SortKeeps`; `OthersRecapture`; `ArrayIndices`, `MethodsSpecified` if `QuietLengths` | `ArraysAssumption` |
| ScopesProofs | `ScopesInvariant`, `ScopesTypes`, `CodeRunsInItsScope`, `BlocksGainNothing`; `CachesStayAligned`, `DeclarationsHold` if not `TreesReused` | `ScopesAssumption` |
| StringCacheProofs | `CacheInvariant`, `RecentNames` | `CacheAssumption` |

Each holds for every value of the constants: any number of handles, objects,
types, members and slots, any objects, prototypes and descriptors, any modulus,
receivers and calls, any codes with any bodies, any capacity and names, and any
depth of calls. The assumptions give the constants their types and keep special
values apart; none bounds anything.

### The collector on positions

`NoDangling` is not inductive: when a collection ends it depends on what was
fixed up while it ran. `IInv` adds the invariants of the other phases.
`MoveInv` is the heart: a handle or a field of a copied object refers to the
old half if it is pending and to an object of the new half otherwise; members
of objects still in the old half refer to the old half; the mark of a moved
object leads to an object of the new half. With nothing pending `MoveInv` gives
`SweepInv` once the weak pointers are fixed, and releasing the old half turns
`SweepInv` into `NoDangling` with the halves exchanged. `OnlyMembers` and
`PendingWellFormed` say that only declared members are non-empty or registered,
without which a weak member could be copied and never registered.

The proof has one lemma per action. A step that moves an object is the same for
a handle and a field except for the location that is fixed up, so both rest on
lemmas about the move itself.

### Its refinement of the object graph

`Refinement` maps every step: client operations to themselves, `FixWeak` and
`GcNoRoots` to `Collect`, all others to a stutter. In the middle of a collection
the identity of a position is that of the object it holds or held, so that
pointers to the old and to the new half name the same object. What the abstract
`Collect` needs is that the objects that were moved are exactly the reachable
ones. One direction is `SurvivorsReachable`, an invariant (what is moved was
pending, and what is pending was reachable); the other holds when nothing is
pending any more, as the moved objects are then closed under strong members.
`NoResurrectionOnHeap` is the theorem of ObjectGraphProofs (what is neither held
nor led to stays so) carried over by the refinement.

### The heap of slots

`HeapInv` is inductive. Its parts, and what each is needed for:

- `HeapTiled`, `Disjoint`, `HalvesInv`: where objects are. `Walk` finds
  exactly the objects of a half because of them.
- `RoomInv`: the slots of what was moved are as many as those in use in the new
  half. With the disjointness of slots in the old half, the next object fits as
  well (`MoveFits`): a counting argument over sets of slots.
- `MembersMatch`: an object has the members of its type; what is left of a moved
  object has none, so that the mark is not traversed.
- `PointersExact`, `IsInjective(pending)`, `IsInjective(weak)`: what is
  registered. A list that holds each element of a set exactly once (`Lists`) is
  what erase-by-swap, append and concatenation preserve; the members of the copy
  can be read off the back of `pointers_` only because of this.
- `Collector!IInv`: the invariant of CopyCollector under the refinement mapping.
  `FixupsExact` and `NoDanglingPointer` follow from it.

Each action has a lemma that it preserves the layout, preserves what is
registered, and is a step of CopyCollector. The last part gives
`HeapImplementsCollector` and, by the theorem of CopyCollectorProofs, that
`Collector!IInv` is preserved. Sequences are traversed by folds, recursive in
the library; FoldProofs proves for any operator that what holds of each
intermediate result holds of the result (by the least counterexample) and is
instantiated with the operators that are folded.

### Properties

Each operation builds a *sound* property from a sound one (`Sound` joins the
type and the agreement of accessors, which makes it inductive), whatever
attributes a definition remembers. `StrictPuts` and `OwnDescriptors` need only
this invariant. For the four action properties `Keeps` relates a property before
and after a step; the lemmas `PutChanges`, `DeleteChanges`, `DefineChanges`, ...
establish it per operation, and `NInv` adds that the properties of a literal
under construction are configurable. `MaxDepth = 0`, no user code in the middle
of a definition, is the exact condition: with one suspended definition the first
of them fails (section 5).

### Arrays

Every function is a fold of `Put`, `Delete` and moves over a range of indices;
the induction along a fold (FoldProofs, instantiated with each of them) gives
`ApplyKeeps`: whatever the arguments, and where indices wrap at `Modulus`, the
receiver stays an object, an array stays an array, and its elements stay below
length. `Reversed` needs that both elements it exchanges lie below the length it
read, which therefore does not change; `Cut` that the elements it deletes are
all of those from the new length on.

`EachInv` is the inductive invariant for functions that call user code. Of a
frame at step `k` it says that what was visited are indices of steps up to `k`,
and that what has been there all the time (`kept`) is still there and was
visited or belongs to a step to come. When a function goes on, the step it finds
was not visited because steps have different indices, and when it finds none
everything kept was visited. No condition on user code is needed: it may change,
throw away or move the receiver, and suspend further functions on top.

`IndicesBelowLength` needs `QuietLengths`, user code that converts a new length
and does nothing else. `LengthsInv` makes it inductive: a pending
assignment to length is the last frame, and remembers the length
the array still has. `StepOK` states once what the actions have in common
(the frames below go on as they were, at most one is new), and each action has
one lemma that it is such a step.

`MethodsSpecified` compares each function with the one on sequences. Two views
of the receiver carry the argument: `Slot(x, i)` is what the object itself has at
an index, or `Hole`; `Seen(x, i)` is what reading it gives, through the prototype.
For each fold of the code (the moves upwards and downwards, deletions,
`PutAll`, the exchanges of reverse, the searches) one lemma says what every slot
is after it, by induction along the fold; in it the order of the moves matters,
as a slot must be read before it is written. The rest is one lemma per function, that
the slots are those of the sequence it should make (`Specified`). A hole that is
moved becomes a hole, not the inherited element, which is why the two
views differ and why `Hole` must not be an element (`ArraysAssumption`). The
condition is that of `ArrayIndices`: an element above length would come into view
when a function makes the array longer.

`SortKeeps` needs no condition on user code. What sort stores is a permutation of
what it read; a permutation takes the places of a value to the places of that
value, so there are as many of them (`Times`), counted by a bijection. They are
written back at places below `Modulus - 1`, since a length is below `Modulus`: that
is the part of the type of a suspended sort that the proof uses.

`OthersRecapture` (`OnlyLengthGoesStale`) needs none either. The types of the
frames carry it: of a function with a callback or of sort, `ptr` leads to the
receiver, which a collection preserves by fixing it up (`MovedFrames`), while
`raw` may be of a place the receiver has left. sort has both, and goes on by
`ptr`; only `put_length`, which has nothing but `this`, is left (`StaleStep`).

### Scopes

`ScopesInv` is the inductive invariant. Its parts, and what each is needed for:

- `Refers`, for each object: references lead to objects of the kind their use
  expects. This is `TypeOK`, and with `Things` (records of the right fields) what
  makes every access of a step defined.
- `Ranked`: scopes can be numbered so that predecessors have smaller numbers.
  Without it a walk along the chain might not end; with it the recursive
  function `FirstScope` exists, which is proved by induction on where the walk is
  cut off, and ends at the global scope at the latest, since only that has no
  predecessor.
- One meaning `m` for the addresses in use: a remembered function was made from
  what its address means, and so was the tree of each frame. `CachesAligned`
  follows. A text that is parsed gets unused addresses, and the meaning is
  changed there. With `TreesReused` there is no such meaning (`Stands`), and the
  theorems that rest on it, `CachesStayAligned` and `DeclarationsHold`, assume that
  trees are not reused. The others, that nothing dangles, that code runs in its
  scope and that blocks gain nothing, hold in both cases.
- `Suits`: the scopes that the RAII objects will restore fit the kind of the code
  below, which is what `CodeInItsScope` becomes when a frame is left.
- `Activations`: parameters that are aliases stay properties of their
  activation, since they cannot be deleted.

`Grows` states once what all steps but a collection do to the heap: nothing
goes, and what is there keeps its kind, its links and, in the objects of `with`
and `catch`, its names; `BlocksGainNothing` is read off it. Each operation on the
heap has one lemma that it keeps the invariant and grows the heap; hoisting is a
fold of them. `Collect` keeps exactly a set that is closed under references:
`Reachable` adds them in as many rounds as there are objects, and a round that
adds nothing comes before (the set grows by one otherwise, and outgrows the
heap). `DeclarationsHold` needs that a walk for a name stops, after the name was
put, at the scope that was chosen before, although more scopes may have the name
now: those have the same object (`FirstSame`, by induction on the rank). No bound
is used: neither `MaxObjects` nor `MaxDepth` occurs in the argument.

### String cache

`CacheInv` adds to the property that the entries are no more than the capacity and
that the history has each name once. The loop of `get` is a fold over the entries;
`Visited` says what it has kept after n of them: the live ones, in their order, with
another name than the one that is looked up. That the name used last comes to the
front of both sequences is stated once (`Fronted`, for a hit and for a miss). The
step that decides is the eviction from a full cache: as the name was not found, the
entries have no lost pointer left; with the new one they are one more than the
capacity, and as they are in the order of the history, the last has at least that
rank there (`RanksGrow`) and is not among the `Capacity` latest.

### Only model-checked

- Interpreter (`LabelsExact`, `JumpsReachTarget`, `HandlersRun`,
  `StrictFollowsCode`), Language (`ParsesAsWritten`, `LineBreaksRestricted`,
  `SemicolonsInserted`) and Json (`ParsesJson`, `ResultIsJSON`,
  `TextStandsForValue`). Statements, programs, texts and values are trees, which
  these modules, with Parser, Grammar and JsonText, traverse by recursive operators.
  The prover cannot reason about those, and what they compute for every tree would
  be an induction over data.
- `CollectionEnds` and `StringifyEnds`, which are liveness, and ENABLED.

## 5. Where the code differs

One run expects a violation: `arrays_length`. `put_length` computes
`length_ = check_array_length(..., to_number(v))`; `to_number` may run user code
that collects, and `length_` is then written through the old `this`.
`a.length = {valueOf: function () { /* allocates a lot */ return 0; }}` ends in a
segmentation fault. sort, in the same file, captures the object again ("Note:
`this` has possibly become invalid here (!)", array_object.cpp:635).

What follows was met while the models were written and reproduced with the
interpreter. The models follow the code in each case; the properties are stated
so that they speak of the rest, and no run is spent on them.

Properties. `put` calls a setter that an inherited accessor does not have
(object.cpp:189; the assertion at 244 fails). Whether getter and setter may be
replaced is decided by `read_only` where it should be by `dont_delete`
(object_object.cpp:199; test_object_object.cpp:384 tries one without a setter). A
definition goes on by attributes that a getter of the descriptor has changed
(object_object.cpp:91): a property that became non-configurable becomes
configurable again, and an object that became non-extensible gains a property.
`freeze` and `seal` of an object with an accessor property fail an assertion
(`redefine_accessor`, object_object.cpp:256); getter and setter are checked for
new properties only (`accessor_functions`, object_object.cpp:212), and `{ get:
undefined }` is taken for an accessor without functions (`some_accessor`,
object_object.cpp:110); a descriptor's getter that deletes the property leads to
an exception nobody catches (object_object.cpp:194); a *configurable* accessor
without a setter rejects another getter (object_object.cpp:200);
`defineProperty` adds a data property by assignment, so that an inherited setter
is called instead (object_object.cpp:105); `put` stores over an inherited
read-only property (object.cpp:172); strict code refuses an assignment that an
inherited setter would receive when the object is not extensible
(interpreter.cpp:1437). `redefine` of a native property keeps a pointer across
user code that may collect (native_object.cpp:88).

Statements. A for-init that throws fails an assertion (interpreter.cpp:959), as do
a strict function that calls one that is not strict (1288) and a primitive
thrown across a function (427). `foo: { break foo; }` is an error, as only loops
and switch take labels. `labels_valid_for_` is left pointing into a tree that is
freed; when the next one is allocated there, its labels are taken for
duplicates.

Scopes. `hoist` does not declare a variable that an outer scope already has
(352), so that `var x = 1; function f() { var x; x = 2 } f()` changes the global
x, and deleting such a variable can lead to a failed assertion (898). `var a = 5`
and `function a() {}` have no effect on a parameter a that has an argument.
A redefinition by eval keeps the old function when its tree gets the address of
the old one ("We only want the function defined once, but want to allow
re-definitions", 1173): with `TreesReused = TRUE` TLC finds it in four steps (an eval
text declares a function and ends, the next declares another at the same
address), and `CachesAligned` and `DeclarationsTakeEffect` fail. `was_direct_call_to_eval_` is that of the last call:
`["eval('1')", "var q = 1"].forEach(eval)` declares q where forEach was called. An
indirect strict eval leaks its variables to the global object. A definition that
is run again after an assignment to its name makes the function anew. A variable
hoisted after a function of that name makes it undefined before its definition. A
function that declares its own name again (or is named as a property of all
objects), and `new` of an anonymous function fail assertions (1381, 1390). A
function declared in a with block is made each time; `with` on a frozen object
lets `var` change it; a property named `this` captures `this`.

Parser. `a || b && c` is read as `(a || b) && c`, the comma from the right. What
follows a stray closing brace at the top level is ignored. `in` within
parentheses in the head of a for statement is rejected. A regular expression
after a line break leaves `line_break_skipped_` set. The token after a strict
function is still checked as strict; `"use strict"` followed by `let` on the next line accepts it.
`typeof eval` is rejected in strict code, `a.class` in ES5. `("use strict")` counts
as a directive and `"use strictly"` fails an assertion (parser.cpp:193). `return`
before a closing brace without a semicolon is rejected, `(a): s` is a label. In
strict code the parameters of a function made by `new Function` are not checked,
but the exemption is that of the function that ends first (parser.cpp:663, 674):
`new Function("a", "a", "return function () {}")` is rejected, since the inner
function has used it up. `ParsesAsWritten` takes the order of the code for right
here, and so shows which function the exemption is for.

Arrays. The sort of an inconsistent compare function is undefined
(array_object.cpp:632). User code that changes the array while its length is converted leaves
elements above length. A non-extensible array gets a larger length without the
element (array_object.cpp:44, an inverted test); a sealed one keeps its elements
when length becomes 0. An index above 2^32 wraps
(`a[9999999999]`, string.cpp:49) and `a['01']` counts as an index. concat drops
holes at the end, filter reads again after the callback, shift of another object
leaves the last element, reverse, slice and sort turn holes into undefined.

JSON. The replacer is called with a view of the key that is stale when a getter
collected (json_object.cpp:528; the walk of the reviver keeps a copy). A gap
above the largest int is converted by an undefined conversion (505). Numbers may
have leading zeros.

## 6. Not modelled

- Text and numbers: the lexer, `string`, `number_to_string`, `char_conversions`,
  `date_object`, the wrappers, `regexp`, URI coding, Math. Sequential functions
  without state, on doubles or long texts.
- The printer leaves things out on purpose, so that its text does not determine
  the tree.
- `unicode_data.h` is generated; `mjs.cpp`, `version` and `platform` are I/O and
  constants.
- `gc_vector`'s growth and the bits of `value_representation`; `bind`, `apply`,
  property enumeration, `join`, arrays of 65536 and more elements (which are
  traversed over a snapshot of their names), the reviver of `JSON.parse`.
- The threshold of the collection trigger: a collection may happen at every
  statement in Scopes and Arrays, so no threshold is more than a special case; that
  1000 statements without one may exhaust the heap is a matter of sizes.

## 7. Plan

1. (done) The collector and its invariant theorem; Properties and its theorems.
2. (done) Interpreter, Scopes, Arrays, Parser, JSON, StringCache.
3. (done) CopyCollector implements ObjectGraph; GCHeap implements
   CopyCollector, with the theorems on slots; all properties of Properties.
4. (done) Arrays: all five properties; the string cache.
5. (done) Scopes: all five properties.
6. Left to the runs: the modules over trees and liveness (section 4). A proof about
   them would need the traversals of a tree as functions on a set of trees that is
   given, instead of recursive operators.
