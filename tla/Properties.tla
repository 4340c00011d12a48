---------------------------- MODULE Properties ----------------------------
(***************************************************************************)
(* The property model of mjs objects: object.cpp (get, put, delete,        *)
(* redefine, accessors), the functions of object_object.cpp that change    *)
(* attributes (Object.defineProperty, seal, freeze, preventExtensions),    *)
(* the check that precedes an assignment in strict code, and the accessors *)
(* of an object literal (both interpreter.cpp).                            *)
(*                                                                         *)
(* A property record stands for object::property together with the         *)
(* Accessor object its value refers to, which no other property shares.    *)
(* The prototype of an object never changes after its construction, so the *)
(* chain of prototypes is a constant.                                      *)
(*                                                                         *)
(* mjs checks itself with assertions.  failed names the one that does not  *)
(* hold, and nothing happens after that: the process is gone.              *)
(***************************************************************************)
EXTENDS Naturals, Sequences

CONSTANTS
    Objects,        \* plain objects
    Names,          \* property names
    Values,         \* primitive values other than undefined
    Functions,      \* function objects
    Undefined,      \* the value undefined
    Returns,        \* what each function returns when called as a getter
    Prototypes,     \* the chain of prototypes of each object, nearest first
    Descriptors,    \* the arguments of defineProperty: sets of fields
    Literals,       \* the objects an object literal creates
    MaxDepth        \* bound: definitions suspended in a descriptor's getter

Flags == {"writable", "enumerable", "configurable"}
Fields == Flags \cup {"value", "get", "set"}
EveryValue == Values \cup Functions \cup {Undefined}
Attributes == {"read_only", "dont_enum", "dont_delete", "accessor"}
Invalid == {"invalid"}   \* own_property_attributes when there is no property

IsDescriptor(d) ==
    /\ DOMAIN d \subseteq Fields
    /\ \A f \in DOMAIN d : d[f] \in (IF f \in Flags THEN BOOLEAN ELSE EveryValue)

ASSUME PropertiesAssumption ==
    /\ Undefined \notin Values \cup Functions
    /\ Returns \in [Functions -> EveryValue]
    /\ Prototypes \in [Objects -> Seq(Objects)]
    /\ \A d \in Descriptors : IsDescriptor(d)
    /\ Literals \subseteq Objects
    /\ MaxDepth \in Nat

Assertions == {"put_read_only", "redefine_accessor", "some_accessor",
               "accessor_functions", "accessor_expected"}

Results == {"none", "ok", "stored", "called", "ignored", "true", "false",
            "TypeError", "cannot_redefine", "not_extensible"}

\* value_ is a value, or refers to an object with get and set
Property ==
    {p \in [attributes : (SUBSET Attributes) \cup {Invalid}, value : EveryValue,
            get : Functions \cup {Undefined}, set : Functions \cup {Undefined}] :
        IF "accessor" \in p.attributes THEN p.value = Undefined
        ELSE p.get = Undefined /\ p.set = Undefined}

Absent == [attributes |-> Invalid,
           value |-> Undefined, get |-> Undefined, set |-> Undefined]

Data(v, a) == [attributes |-> a, value |-> v, get |-> Undefined, set |-> Undefined]

\* Mutant: a read_only of the caller is kept although there is a setter
AccessorAsGiven(g, s, a) ==
    [attributes |-> a \cup {"accessor"} \cup (IF s = Undefined THEN {"read_only"} ELSE {}),
     value |-> Undefined, get |-> g, set |-> s]

\* define_accessor_property: read_only if and only if there is no setter
Accessor(g, s, a) ==
    [attributes |-> (a \ {"read_only"}) \cup {"accessor"}
                        \cup (IF s = Undefined THEN {"read_only"} ELSE {}),
     value |-> Undefined, get |-> g, set |-> s]

VARIABLES
    props,          \* properties_: the property of each object and name
    extensible,     \* extensible_
    building,       \* objects whose literal is still being evaluated
    defining,       \* definitions suspended in a descriptor's getter, a stack
    result,         \* how the last operation ended
    failed          \* the assertion that failed, "none" while mjs runs

vars == <<props, extensible, building, defining, result, failed>>

----------------------------------------------------------------------------
(* Lookup.                                                                 *)

\* Programs hold an object once it, and before it its prototypes, are made
Usable(o) ==
    /\ o \notin building
    /\ \A i \in DOMAIN Prototypes[o] : Prototypes[o][i] \notin building

Own(o, n) == props[o][n].attributes # Invalid
Has(o, n, a) == a \in props[o][n].attributes

\* The first of the prototypes with this property
Nearest(o, n, i) ==
    /\ Own(Prototypes[o][i], n)
    /\ \A j \in 1 .. (i - 1) : ~Own(Prototypes[o][j], n)

Inherited(o, n) ==
    LET chain == Prototypes[o]
    IN  IF \E i \in DOMAIN chain : Nearest(o, n, i)
        THEN props[chain[CHOOSE i \in DOMAIN chain : Nearest(o, n, i)]][n]
        ELSE Absent

\* object::get; a getter is a function without side effects here
Get(o, n) ==
    LET p == IF Own(o, n) THEN props[o][n] ELSE Inherited(o, n)
    IN  IF "accessor" \in p.attributes /\ p.get # Undefined
        THEN Returns[p.get] ELSE p.value

----------------------------------------------------------------------------
(* object::put: ignored, given to a setter, stored, or an assertion fails. *)

\* Mutant: extensible_ is not tested
IgnoresReadOnly(o, n) == Own(o, n) /\ Has(o, n, "read_only")

Ignores(o, n) ==
    IF Own(o, n) THEN Has(o, n, "read_only")
    ELSE "accessor" \notin Inherited(o, n).attributes /\ ~extensible[o]

CallsSetter(o, n) ==
    IF Own(o, n) THEN Has(o, n, "accessor") /\ ~Has(o, n, "read_only")
    ELSE "accessor" \in Inherited(o, n).attributes

Stores(o, n) == ~Ignores(o, n) /\ ~CallsSetter(o, n)

Stored(o, n, v, a) ==
    IF Own(o, n) THEN [props[o][n] EXCEPT !.value = v] ELSE Data(v, a)

\* The user code of the setter is whatever happens next
PutProperty(o, n, v, a) ==
    \/ /\ Stores(o, n)
       /\ props' = [props EXCEPT ![o][n] = Stored(o, n, v, a)]
       /\ UNCHANGED failed
    \/ /\ ~Stores(o, n)
       /\ failed' = IF ~Own(o, n) /\ "read_only" \in Inherited(o, n).attributes
                                  /\ CallsSetter(o, n)
                    THEN "put_read_only" ELSE failed
       /\ UNCHANGED props

PutResult(o, n) ==
    IF Stores(o, n) THEN "stored"
    ELSE IF CallsSetter(o, n) THEN "called" ELSE "ignored"

Put(o, n, v) ==
    /\ Usable(o)
    /\ PutProperty(o, n, v, {})
    /\ result' = PutResult(o, n)
    /\ UNCHANGED <<extensible, building, defining>>

\* Mutant: only the addition of a property is checked
StrictRefusesAdding(o, n) == ~Own(o, n) /\ ~extensible[o]

\* check_strict_mode_put
StrictRefuses(o, n) == IF Own(o, n) THEN Has(o, n, "read_only") ELSE ~extensible[o]

StrictPut(o, n, v) ==
    /\ Usable(o)
    /\ \/ /\ StrictRefuses(o, n)
          /\ result' = "TypeError"
          /\ UNCHANGED <<props, failed>>
       \/ /\ ~StrictRefuses(o, n)
          /\ PutProperty(o, n, v, {})
          /\ result' = PutResult(o, n)
    /\ UNCHANGED <<extensible, building, defining>>

Delete(o, n) ==
    /\ Usable(o)
    /\ \/ /\ ~Has(o, n, "dont_delete")
          /\ props' = [props EXCEPT ![o][n] = Absent]
          /\ result' = "true"
       \/ /\ Has(o, n, "dont_delete")
          /\ result' = "false"
          /\ UNCHANGED props
    /\ UNCHANGED <<extensible, building, defining, failed>>

----------------------------------------------------------------------------
(* Object literals: { n: v, get n() {...}, set n(x) {...} }.               *)

LiteralValue(o, n, v) ==
    /\ o \in building
    /\ PutProperty(o, n, v, {})
    /\ result' = PutResult(o, n)
    /\ UNCHANGED <<extensible, building, defining>>

\* modify_accessor_object
Modified(p, f, is_get) ==
    IF is_get THEN [p EXCEPT !.get = f]
    ELSE [p EXCEPT !.set = f,
                   !.attributes = (@ \ {"read_only"})
                                  \cup (IF f = Undefined THEN {"read_only"} ELSE {})]

LiteralAccessor(o, n, f, is_get) ==
    /\ o \in building
    /\ props' = [props EXCEPT ![o][n] =
          IF Has(o, n, "accessor") THEN Modified(@, f, is_get)
          ELSE Accessor(IF is_get THEN f ELSE Undefined,
                        IF is_get THEN Undefined ELSE f, {})]
    /\ result' = "ok"
    /\ UNCHANGED <<extensible, building, defining, failed>>

LiteralDone(o) ==
    /\ o \in building
    /\ building' = building \ {o}
    /\ result' = "ok"
    /\ UNCHANGED <<props, extensible, defining, failed>>

----------------------------------------------------------------------------
(* preventExtensions, seal, freeze.                                        *)

PreventExtensions(o) ==
    /\ Usable(o)
    /\ extensible' = [extensible EXCEPT ![o] = FALSE]
    /\ result' = "ok"
    /\ UNCHANGED <<props, building, defining, failed>>

Sealed == {"dont_delete"}
Frozen == {"dont_delete", "read_only"}

\* check_for_immutability: Object.isSealed and Object.isFrozen
IsImmutable(o, level) ==
    /\ ~extensible[o]
    /\ \A n \in Names : Own(o, n) => level \subseteq props[o][n].attributes

\* The names make_immutable redefines
Weaker(o, level) == {n \in Names : Own(o, n) /\ ~(level \subseteq props[o][n].attributes)}

MakeImmutable(o, level) ==
    /\ Usable(o)
    /\ IF \E n \in Weaker(o, level) : Has(o, n, "accessor")
       THEN /\ failed' = "redefine_accessor"
            /\ UNCHANGED <<props, extensible>>
       ELSE /\ props' = [props EXCEPT ![o] = [n \in Names |->
                           IF n \in Weaker(o, level)
                           THEN [props[o][n] EXCEPT !.attributes = @ \cup level]
                           ELSE props[o][n]]]
            /\ extensible' = [extensible EXCEPT ![o] = FALSE]
            /\ UNCHANGED failed
    /\ result' = "ok"
    /\ UNCHANGED <<building, defining>>

Seal(o) == MakeImmutable(o, Sealed)
Freeze(o) == MakeImmutable(o, Frozen)

----------------------------------------------------------------------------
(* define_own_property.  d is the descriptor, cur the attributes of the    *)
(* property as they were when the operation began.                         *)

Field(d, f) == IF f \in DOMAIN d THEN d[f] ELSE Undefined
Denies == [writable |-> "read_only", enumerable |-> "dont_enum",
           configurable |-> "dont_delete"]

IsAccessorDescriptor(d) == {"get", "set"} \cap DOMAIN d # {}
IsDataDescriptor(d) == {"value", "writable"} \cap DOMAIN d # {}
IsGenericDescriptor(d) == ~IsAccessorDescriptor(d) /\ ~IsDataDescriptor(d)

\* attributes_from_descriptor: a flag that is absent denies
NewAttributes(d) == {Denies[f] : f \in {g \in Flags : Field(d, g) # TRUE}}

\* Mutant: a flag that is absent clears the attribute
AppliedOrCleared(d, cur, flags) ==
    {Denies[f] : f \in {g \in flags : g \in DOMAIN d /\ d[g] = FALSE}}

\* apply_flag: a flag that is absent keeps the attribute
Applied(d, cur, flags) ==
    {Denies[f] : f \in {g \in flags : IF g \in DOMAIN d THEN d[g] = FALSE
                                      ELSE Denies[g] \in cur}}

Return(r) == result' = r /\ UNCHANGED <<props, failed>>
Fail(assertion) == failed' = assertion /\ UNCHANGED <<props, result>>

\* Mutant: getter and setter are not checked
DefineAccessorUnchecked(o, n, g, s, a) ==
    /\ props' = [props EXCEPT ![o][n] = Accessor(g, s, a)]
    /\ result' = "ok"
    /\ UNCHANGED failed

\* make_accessor_object and object::define_accessor_property
DefineAccessor(o, n, g, s, a) ==
    IF {g, s} \subseteq Functions \cup {Undefined} /\ {g, s} # {Undefined}
    THEN /\ props' = [props EXCEPT ![o][n] = Accessor(g, s, a)]
         /\ result' = "ok"
         /\ UNCHANGED failed
    ELSE Fail("accessor_functions")

DefineNew(o, n, d) ==
    LET g == Field(d, "get")
        s == Field(d, "set")
    IN  \/ /\ ~extensible[o]
           /\ Return("not_extensible")
        \/ /\ extensible[o] /\ ~IsAccessorDescriptor(d)
           /\ PutProperty(o, n, Field(d, "value"), NewAttributes(d))
           /\ result' = "ok"
        \/ /\ extensible[o] /\ IsAccessorDescriptor(d)
           /\ \/ /\ {g, s} = {Undefined}
                 /\ Fail("some_accessor")
              \/ /\ {g, s} # {Undefined}
                 /\ IF {g, s} \subseteq Functions \cup {Undefined}
                    THEN DefineAccessor(o, n, g, s, NewAttributes(d))
                    ELSE Return("TypeError")

\* The descriptor is empty, or the attributes and the value are the same
Unaffected(o, n, d, cur) ==
    \/ DOMAIN d = {}
    \/ cur = NewAttributes(d) /\ Get(o, n) = Field(d, "value")

\* Steps 7, 9.a and 10.a of 8.12.9
RefusedFlags(d, cur) ==
    /\ "dont_delete" \in cur
    /\ \/ "dont_delete" \notin NewAttributes(d)
       \/ "enumerable" \in DOMAIN d /\ ("dont_enum" \in cur) # (d.enumerable = FALSE)

\* Mutant: step 9.a is missing
RefusedKindNever(d, cur) == FALSE

RefusedKind(d, cur) ==
    /\ "dont_delete" \in cur
    /\ ~IsGenericDescriptor(d)
    /\ ("accessor" \notin cur) # IsDataDescriptor(d)

\* Mutant: the value is not compared (10.a.ii)
RefusedWritable(o, n, d, cur) ==
    /\ {"dont_delete", "read_only"} \subseteq cur
    /\ "accessor" \notin cur /\ IsDataDescriptor(d)
    /\ "read_only" \notin NewAttributes(d)

RefusedValue(o, n, d, cur) ==
    /\ {"dont_delete", "read_only"} \subseteq cur
    /\ "accessor" \notin cur /\ IsDataDescriptor(d)
    /\ \/ "read_only" \notin NewAttributes(d)
       \/ "value" \in DOMAIN d /\ Get(o, n) # d.value

Refused(o, n, d, cur) ==
    RefusedFlags(d, cur) \/ RefusedKind(d, cur) \/ RefusedValue(o, n, d, cur)

RedefineAccessor(o, n, d, cur) ==
    LET old == props[o][n]
        g == IF "get" \in DOMAIN d THEN d.get ELSE old.get
        s == IF Field(d, "set") = Undefined THEN old.set ELSE d.set
        a == Applied(d, cur, {"enumerable", "configurable"})
    IN  \/ /\ "accessor" \notin cur
           /\ DefineAccessor(o, n, Field(d, "get"), Field(d, "set"), a)
        \/ /\ "accessor" \in cur /\ "accessor" \notin old.attributes
           /\ Fail("accessor_expected")
        \/ /\ "accessor" \in cur /\ "accessor" \in old.attributes
           /\ IF "read_only" \in cur /\ <<g, s>> # <<old.get, old.set>>
              THEN Return("cannot_redefine")
              ELSE DefineAccessor(o, n, g, s, a)

\* object::redefine_own_property
RedefineData(o, n, d, cur) ==
    /\ props' = [props EXCEPT ![o][n] =
          Data(IF "value" \in DOMAIN d THEN d.value ELSE Get(o, n),
               Applied(d, cur, Flags))]
    /\ result' = "ok"
    /\ UNCHANGED failed

Redefine(o, n, d, cur) ==
    LET accessor == IsAccessorDescriptor(d)
                    \/ (IsGenericDescriptor(d) /\ "accessor" \in cur)
    IN  \/ /\ Unaffected(o, n, d, cur)
           /\ Return("ok")
        \/ /\ ~Unaffected(o, n, d, cur) /\ Refused(o, n, d, cur)
           /\ Return("cannot_redefine")
        \/ /\ ~Unaffected(o, n, d, cur) /\ ~Refused(o, n, d, cur) /\ accessor
           /\ RedefineAccessor(o, n, d, cur)
        \/ /\ ~Unaffected(o, n, d, cur) /\ ~Refused(o, n, d, cur) /\ ~accessor
           /\ RedefineData(o, n, d, cur)

DefineOwnProperty(o, n, d, cur) ==
    \/ /\ IsAccessorDescriptor(d) /\ IsDataDescriptor(d)
       /\ Return("TypeError")
    \/ /\ ~(IsAccessorDescriptor(d) /\ IsDataDescriptor(d))
       /\ cur = Invalid
       /\ DefineNew(o, n, d)
    \/ /\ ~(IsAccessorDescriptor(d) /\ IsDataDescriptor(d))
       /\ cur # Invalid
       /\ Redefine(o, n, d, cur)

\* Object.defineProperty with a descriptor whose fields are plain values
DefineProperty(o, n, d) ==
    /\ Usable(o)
    /\ DefineOwnProperty(o, n, d, props[o][n].attributes)
    /\ UNCHANGED <<extensible, building, defining>>

\* A descriptor with a getter: the attributes have been read (line 91), and
\* the first field that is read (line 92) runs user code
DefineSuspended(o, n, d) ==
    /\ Usable(o)
    /\ Len(defining) < MaxDepth
    /\ defining' = <<[object |-> o, name |-> n, descriptor |-> d,
                      current |-> props[o][n].attributes]>> \o defining
    /\ UNCHANGED <<props, extensible, building, result, failed>>

\* The getter has returned
DefineResumed ==
    /\ defining # <<>>
    /\ LET c == Head(defining)
       IN  DefineOwnProperty(c.object, c.name, c.descriptor, c.current)
    /\ defining' = Tail(defining)
    /\ UNCHANGED <<extensible, building>>

\* Mutant: writable reports the attribute instead of its absence
DescriptorOfReadOnly(o, n) ==
    LET p == props[o][n]
        allowed(f) == Denies[f] \notin p.attributes
    IN  IF "accessor" \in p.attributes
        THEN [get |-> p.get, set |-> p.set, enumerable |-> allowed("enumerable"),
              configurable |-> allowed("configurable")]
        ELSE [value |-> p.value, writable |-> ~allowed("writable"),
              enumerable |-> allowed("enumerable"),
              configurable |-> allowed("configurable")]

\* Object.getOwnPropertyDescriptor
DescriptorOf(o, n) ==
    LET p == props[o][n]
        allowed(f) == Denies[f] \notin p.attributes
    IN  IF "accessor" \in p.attributes
        THEN [get |-> p.get, set |-> p.set, enumerable |-> allowed("enumerable"),
              configurable |-> allowed("configurable")]
        ELSE [value |-> p.value, writable |-> allowed("writable"),
              enumerable |-> allowed("enumerable"),
              configurable |-> allowed("configurable")]

----------------------------------------------------------------------------

Init ==
    /\ props = [o \in Objects |-> [n \in Names |-> Absent]]
    /\ extensible = [o \in Objects |-> TRUE]
    /\ building = Literals
    /\ defining = <<>>
    /\ result = "none"
    /\ failed = "none"

ObjectStep(o) ==
    \/ LiteralDone(o)
    \/ PreventExtensions(o)
    \/ Seal(o)
    \/ Freeze(o)

PropertyStep(o, n) ==
    \/ Delete(o, n)
    \/ \E v \in Values : Put(o, n, v) \/ StrictPut(o, n, v) \/ LiteralValue(o, n, v)
    \/ \E f \in Functions, is_get \in BOOLEAN : LiteralAccessor(o, n, f, is_get)
    \/ \E d \in Descriptors : DefineProperty(o, n, d) \/ DefineSuspended(o, n, d)

Step ==
    \/ \E o \in Objects : ObjectStep(o)
    \/ \E o \in Objects, n \in Names : PropertyStep(o, n)
    \/ DefineResumed

Aborted ==
    /\ failed # "none"
    /\ UNCHANGED vars

Next ==
    \/ /\ failed = "none"
       /\ Step
    \/ Aborted

Spec == Init /\ [][Next]_vars

----------------------------------------------------------------------------
(* Properties.                                                             *)

(* The state is well typed: in particular a property holds a value or an    *)
(* Accessor object, as its accessor attribute says.                        *)
TypeOK ==
    /\ props \in [Objects -> [Names -> Property]]
    /\ extensible \in [Objects -> BOOLEAN]
    /\ building \subseteq Objects
    /\ defining \in Seq([object : Objects, name : Names, descriptor : Descriptors,
                         current : (SUBSET Attributes) \cup {Invalid}])
    /\ result \in Results
    /\ failed \in Assertions \cup {"none"}

(* An accessor property has a getter or a setter, and is read_only exactly  *)
(* when it has no setter ("Maintain invariant regarding the read_only      *)
(* attribute", object.cpp): put, check_strict_mode_put and isFrozen test   *)
(* read_only where they mean that there is no setter.                      *)
AccessorAgreement ==
    \A o \in Objects, n \in Names : Has(o, n, "accessor") =>
        /\ Has(o, n, "read_only") <=> props[o][n].set = Undefined
        /\ {props[o][n].get, props[o][n].set} # {Undefined}

(* A property that is not configurable is never removed, does not become    *)
(* configurable, and stays a data or an accessor property, enumerable or    *)
(* not (the rejections of define_own_property, and delete_property).       *)
NonConfigurableStays ==
    [][\A o \in Objects, n \in Names : Has(o, n, "dont_delete") =>
          \A a \in {"dont_delete", "dont_enum", "accessor"} :
              Has(o, n, a) <=> Has(o, n, a)']_vars

(* A property that is neither configurable nor writable never changes: not  *)
(* by assignment, deletion, redefinition, seal or freeze.                  *)
ReadOnlyFixed ==
    [][\A o \in Objects, n \in Names :
          Frozen \subseteq props[o][n].attributes => props'[o][n] = props[o][n]]_vars

(* An object that is not extensible stays so and gains no property, by put, *)
(* by a setter it inherits or by defineProperty.                           *)
NonExtensibleGainsNothing ==
    [][\A o \in Objects : ~extensible[o] =>
          ~extensible'[o] /\ \A n \in Names : Own(o, n)' => Own(o, n)]_vars

(* What Object.isSealed or Object.isFrozen has answered with true it        *)
(* answers with true ever after.                                           *)
IntegrityLevelStays ==
    [][\A o \in Objects, level \in {Sealed, Frozen} :
          IsImmutable(o, level) => IsImmutable(o, level)']_vars

(* An assignment in strict code is never silently ignored: it throws, calls *)
(* a setter, or the value can be read afterwards.  check_strict_mode_put   *)
(* decides before put does, and by other tests.                            *)
StrictPutTakesEffect ==
    [][\A o \in Objects, n \in Names, v \in Values : StrictPut(o, n, v) =>
          \/ failed' # "none"
          \/ result' \in {"TypeError", "called"}
          \/ Get(o, n)' = v]_vars

(* Defining a property by the descriptor getOwnPropertyDescriptor returns   *)
(* for it succeeds and changes nothing, whatever its attributes.           *)
RedefineByOwnDescriptor ==
    [][\A o \in Objects, n \in Names :
          Own(o, n) /\ DefineProperty(o, n, DescriptorOf(o, n))
              => result' = "ok" /\ UNCHANGED props]_vars
============================================================================
