---------------------------- MODULE MCProperties ----------------------------
(***************************************************************************)
(* Properties on small instances: a single object with every descriptor    *)
(* over two values and two functions (of those that mix accessors with a   *)
(* value, one), and an object with a prototype made by a literal, where one *)
(* value and one function are enough.                                      *)
(***************************************************************************)
EXTENDS Properties, TLC

CONSTANTS obj, proto, x, v1, v2, f1, f2

One == {obj}
Two == {obj, proto}
OneName == {x}
TwoValues == {v1, v2}
OneValue == {v1}
TwoFunctions == {f1, f2}
OneFunction == {f1}
TwoReturns == f1 :> v1 @@ f2 :> v2
OneReturns == f1 :> v1
NoChain == obj :> <<>>
Chain == obj :> <<proto>> @@ proto :> <<>>
FirstLiteral == {obj}
SecondLiteral == {proto}

\* A field that is absent, or has one of some values
Optional(f, V) == {<<>>} \cup {f :> v : v \in V}

DataDescriptors(values, enumerable, configurable) ==
    {a @@ b @@ c @@ d : a \in Optional("value", values),
                        b \in Optional("writable", BOOLEAN),
                        c \in Optional("enumerable", enumerable),
                        d \in Optional("configurable", configurable)}

AccessorDescriptors(getters, setters, enumerable, configurable) ==
    {a @@ b @@ c @@ d : a \in Optional("get", getters),
                        b \in Optional("set", setters),
                        c \in Optional("enumerable", enumerable),
                        d \in Optional("configurable", configurable)}

AllDescriptors ==
    DataDescriptors(TwoValues \cup {Undefined}, BOOLEAN, BOOLEAN)
    \cup AccessorDescriptors(TwoFunctions \cup {Undefined, v1},
                             TwoFunctions \cup {Undefined}, BOOLEAN, BOOLEAN)
    \cup {[get |-> f1, value |-> v1]}

\* What leaves a field out can be defined with the others
FewestDescriptors ==
    {[value |-> v1, configurable |-> TRUE], [writable |-> TRUE], [get |-> f1],
     [set |-> f1, configurable |-> TRUE]}
=============================================================================
