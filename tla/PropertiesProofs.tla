------------------------- MODULE PropertiesProofs -------------------------
(***************************************************************************)
(* Proofs about Properties, for any number of objects, names, values and   *)
(* functions, any chains of prototypes and any descriptors.                *)
(***************************************************************************)
EXTENDS Properties, TLAPS

\* A property whose attributes tell what it holds
Sound == {p \in Property : "accessor" \in p.attributes =>
            /\ "read_only" \in p.attributes <=> p.set = Undefined
            /\ {p.get, p.set} # {Undefined}}

\* Type correctness and AccessorAgreement together
PInv == TypeOK /\ props \in [Objects -> [Names -> Sound]]

\* What a step that is not in the middle of a definition may do to a property
\* of an object that is extensible or not
Keeps(p, q, ext) ==
    /\ "dont_delete" \in p.attributes =>
          \A a \in {"dont_delete", "dont_enum", "accessor"} :
              a \in p.attributes <=> a \in q.attributes
    /\ Frozen \subseteq p.attributes => q = p
    /\ ~ext /\ q.attributes # Invalid => p.attributes # Invalid

KeepsAll ==
    \A o \in Objects :
        /\ ~extensible[o] => ~extensible'[o]
        /\ \A n \in Names : Keeps(props[o][n], props'[o][n], extensible[o])

----------------------------------------------------------------------------
(* Lookup returns typed values.                                            *)

LEMMA InheritedSound ==
    ASSUME PInv, NEW o \in Objects, NEW n \in Names
    PROVE  Inherited(o, n) \in Sound
<1>1. Absent \in Sound
  BY DEF Absent, Sound, Property, EveryValue, Invalid
<1>2. ASSUME \E i \in DOMAIN Prototypes[o] : Nearest(o, n, i)
      PROVE  Inherited(o, n) \in Sound
  <2> DEFINE i == CHOOSE j \in DOMAIN Prototypes[o] : Nearest(o, n, j)
  <2>1. i \in DOMAIN Prototypes[o]
    BY <1>2
  <2>2. Prototypes[o][i] \in Objects
    BY <2>1, PropertiesAssumption
  <2>3. Inherited(o, n) = props[Prototypes[o][i]][n]
    BY <1>2 DEF Inherited
  <2> QED
    BY <2>2, <2>3 DEF PInv
<1> QED
  BY <1>1, <1>2 DEF Inherited

LEMMA GetValue ==
    ASSUME PInv, NEW o \in Objects, NEW n \in Names
    PROVE  Get(o, n) \in EveryValue
<1> DEFINE p == IF Own(o, n) THEN props[o][n] ELSE Inherited(o, n)
<1>1. p \in Sound
  BY InheritedSound DEF PInv
<1>2. p.value \in EveryValue /\ p.get \in Functions \cup {Undefined}
  BY <1>1 DEF Sound, Property
<1>3. p.get # Undefined => Returns[p.get] \in EveryValue
  BY <1>2, PropertiesAssumption
<1> QED
  BY <1>2, <1>3 DEF Get

----------------------------------------------------------------------------
(* What the operations build is sound.                                     *)

LEMMA AbsentSound == Absent \in Sound
BY DEF Absent, Sound, Property, EveryValue, Invalid

LEMMA DataSound ==
    ASSUME NEW v \in EveryValue, NEW a \in SUBSET (Attributes \ {"accessor"})
    PROVE  Data(v, a) \in Sound
BY DEF Data, Sound, Property, EveryValue, Attributes

LEMMA AccessorSound ==
    ASSUME NEW g \in Functions \cup {Undefined}, NEW s \in Functions \cup {Undefined},
           {g, s} # {Undefined}, NEW a \in SUBSET Attributes
    PROVE  Accessor(g, s, a) \in Sound
BY DEF Accessor, Sound, Property, EveryValue, Attributes

LEMMA ModifiedSound ==
    ASSUME NEW p \in Sound, "accessor" \in p.attributes,
           NEW f \in Functions, NEW is_get \in BOOLEAN
    PROVE  Modified(p, f, is_get) \in Sound
<1>1. f # Undefined
  BY PropertiesAssumption
<1>2. p.attributes \in SUBSET Attributes
  BY DEF Sound, Property, Invalid
<1> QED
  BY <1>1, <1>2 DEF Modified, Sound, Property, EveryValue, Attributes

LEMMA StrengthenedSound ==
    ASSUME NEW p \in Sound, p.attributes # Invalid, "accessor" \notin p.attributes,
           NEW level \in {Sealed, Frozen}
    PROVE  [p EXCEPT !.attributes = @ \cup level] \in Sound
BY DEF Sound, Property, Sealed, Frozen, Attributes

LEMMA ValueSound ==
    ASSUME NEW p \in Sound, "accessor" \notin p.attributes, NEW v \in EveryValue
    PROVE  [p EXCEPT !.value = v] \in Sound
BY DEF Sound, Property

LEMMA FlagAttributes ==
    ASSUME NEW d, NEW cur, NEW flags \in SUBSET Flags
    PROVE  /\ NewAttributes(d) \in SUBSET (Attributes \ {"accessor"})
           /\ Applied(d, cur, flags) \in SUBSET (Attributes \ {"accessor"})
<1>1. \A f \in Flags : Denies[f] \in Attributes \ {"accessor"}
  BY DEF Denies, Flags, Attributes
<1> QED
  BY <1>1 DEF NewAttributes, Applied

(* Replacing a property by a sound one keeps every property sound.         *)
LEMMA UpdateSound ==
    ASSUME PInv, NEW o \in Objects, NEW n \in Names, NEW p \in Sound
    PROVE  [props EXCEPT ![o][n] = p] \in [Objects -> [Names -> Sound]]
BY DEF PInv

----------------------------------------------------------------------------
(* The operations.  Each changes one property, to a sound one; keep says   *)
(* that it may not break the promises of Keeps.                            *)

Changes(o, n, keep) ==
    /\ \E q \in Sound :
         /\ props' = [props EXCEPT ![o][n] = q]
         /\ keep => Keeps(props[o][n], q, extensible[o])
    /\ failed' \in Assertions \cup {"none"}

LEMMA NoChange ==
    ASSUME PInv, NEW o \in Objects, NEW n \in Names, NEW keep \in BOOLEAN,
           UNCHANGED props, failed' \in Assertions \cup {"none"}
    PROVE  Changes(o, n, keep)
<1>1. props[o][n] \in Sound /\ props' = [props EXCEPT ![o][n] = props[o][n]]
  BY DEF PInv
<1>2. Keeps(props[o][n], props[o][n], extensible[o])
  BY DEF Keeps
<1> QED
  BY <1>1, <1>2 DEF Changes

LEMMA PutChanges ==
    ASSUME PInv, NEW o \in Objects, NEW n \in Names, NEW v \in EveryValue,
           NEW a \in SUBSET (Attributes \ {"accessor"}), PutProperty(o, n, v, a)
    PROVE  Changes(o, n, TRUE)
<1>1. CASE Stores(o, n) /\ Own(o, n)
  <2> DEFINE p == props[o][n]
             q == [p EXCEPT !.value = v]
  <2>1. p \in Sound
    BY DEF PInv
  <2>2. "accessor" \notin p.attributes /\ "read_only" \notin p.attributes
    BY <1>1 DEF Stores, Ignores, CallsSetter, Has
  <2>3. q \in Sound
    BY <2>1, <2>2, ValueSound
  <2>4. q.attributes = p.attributes
    BY <2>1 DEF Sound, Property
  <2>5. Keeps(p, q, extensible[o])
    BY <2>2, <2>4 DEF Keeps, Frozen
  <2>6. props' = [props EXCEPT ![o][n] = q] /\ UNCHANGED failed
    BY <1>1 DEF PutProperty, Stored
  <2> QED
    BY <2>3, <2>5, <2>6 DEF Changes, PInv, TypeOK
<1>2. CASE Stores(o, n) /\ ~Own(o, n)
  <2>1. props[o][n].attributes = {"invalid"} /\ extensible[o]
    BY <1>2 DEF Stores, Ignores, CallsSetter, Own, Invalid
  <2>2. Keeps(props[o][n], Data(v, a), extensible[o])
    BY <2>1 DEF Keeps, Frozen
  <2>3. props' = [props EXCEPT ![o][n] = Data(v, a)] /\ UNCHANGED failed
    BY <1>2 DEF PutProperty, Stored
  <2> QED
    BY <2>2, <2>3, DataSound DEF Changes, PInv, TypeOK
<1>3. CASE ~Stores(o, n)
  <2>1. UNCHANGED props /\ failed' \in {failed, "put_read_only"}
    BY <1>3 DEF PutProperty
  <2>2. failed' \in Assertions \cup {"none"}
    BY <2>1 DEF PInv, TypeOK, Assertions
  <2> QED
    BY <2>1, <2>2, NoChange
<1> QED
  BY <1>1, <1>2, <1>3

LEMMA DeleteChanges ==
    ASSUME PInv, NEW o \in Objects, NEW n \in Names, Delete(o, n)
    PROVE  Changes(o, n, TRUE)
<1>1. CASE Has(o, n, "dont_delete")
  <2>1. UNCHANGED props /\ failed' \in Assertions \cup {"none"}
    BY <1>1 DEF Delete, PInv, TypeOK
  <2> QED
    BY <2>1, NoChange
<1>2. CASE ~Has(o, n, "dont_delete")
  <2>1. Keeps(props[o][n], Absent, extensible[o])
    BY <1>2 DEF Keeps, Has, Frozen, Absent
  <2>2. props' = [props EXCEPT ![o][n] = Absent] /\ UNCHANGED failed
    BY <1>2 DEF Delete
  <2> QED
    BY <2>1, <2>2, AbsentSound DEF Changes, PInv, TypeOK
<1> QED
  BY <1>1, <1>2

(* The accessors of an object literal: the property is configurable, and    *)
(* the object extensible, as it is not yet in the hands of the program.    *)
LEMMA LiteralChanges ==
    ASSUME PInv, NEW o \in Objects, NEW n \in Names, NEW f \in Functions,
           NEW is_get \in BOOLEAN, LiteralAccessor(o, n, f, is_get), NEW keep \in BOOLEAN,
           keep => extensible[o] /\ "dont_delete" \notin props[o][n].attributes
    PROVE  Changes(o, n, keep)
<1>1. \A q : keep => Keeps(props[o][n], q, extensible[o])
  BY DEF Keeps, Frozen
<1>2. CASE Has(o, n, "accessor")
  <2>1. Modified(props[o][n], f, is_get) \in Sound
    BY <1>2, ModifiedSound DEF PInv, Has
  <2>2. /\ props' = [props EXCEPT ![o][n] = Modified(props[o][n], f, is_get)]
        /\ UNCHANGED failed
    BY <1>2 DEF LiteralAccessor, PInv
  <2> QED
    BY <1>1, <2>1, <2>2 DEF Changes, PInv, TypeOK
<1>3. CASE ~Has(o, n, "accessor")
  <2> DEFINE g == IF is_get THEN f ELSE Undefined
             s == IF is_get THEN Undefined ELSE f
  <2>1. f # Undefined
    BY PropertiesAssumption
  <2>2. Accessor(g, s, {}) \in Sound
    BY <2>1, AccessorSound
  <2>3. props' = [props EXCEPT ![o][n] = Accessor(g, s, {})] /\ UNCHANGED failed
    BY <1>3 DEF LiteralAccessor, PInv
  <2> QED
    BY <1>1, <2>2, <2>3 DEF Changes, PInv, TypeOK
<1> QED
  BY <1>2, <1>3

----------------------------------------------------------------------------
(* defineProperty.                                                         *)

LEMMA DefineAccessorChanges ==
    ASSUME PInv, NEW o \in Objects, NEW n \in Names, NEW g, NEW s,
           NEW a \in SUBSET (Attributes \ {"accessor"}), NEW keep \in BOOLEAN,
           keep /\ {g, s} \subseteq Functions \cup {Undefined}
                => Keeps(props[o][n], Accessor(g, s, a), extensible[o]),
           DefineAccessor(o, n, g, s, a)
    PROVE  Changes(o, n, keep)
<1>1. CASE {g, s} \subseteq Functions \cup {Undefined} /\ {g, s} # {Undefined}
  <2>1. Accessor(g, s, a) \in Sound
    BY <1>1, AccessorSound
  <2>2. props' = [props EXCEPT ![o][n] = Accessor(g, s, a)] /\ UNCHANGED failed
    BY <1>1 DEF DefineAccessor
  <2> QED
    BY <1>1, <2>1, <2>2 DEF Changes, PInv, TypeOK
<1>2. CASE ~({g, s} \subseteq Functions \cup {Undefined} /\ {g, s} # {Undefined})
  <2>1. UNCHANGED props /\ failed' = "accessor_functions"
    BY <1>2 DEF DefineAccessor, Fail
  <2> QED
    BY <2>1, NoChange DEF Assertions
<1> QED
  BY <1>1, <1>2

LEMMA DefineNewChanges ==
    ASSUME PInv, NEW o \in Objects, NEW n \in Names, NEW d \in Descriptors,
           NEW keep \in BOOLEAN, keep => ~Own(o, n), DefineNew(o, n, d)
    PROVE  Changes(o, n, keep)
<1> DEFINE g == Field(d, "get")
           s == Field(d, "set")
<1>1. NewAttributes(d) \in SUBSET (Attributes \ {"accessor"})
  BY FlagAttributes DEF Flags
<1>2. CASE ~extensible[o]
  <2>1. UNCHANGED props /\ failed' = failed
    BY <1>2 DEF DefineNew, Return
  <2> QED
    BY <2>1, NoChange DEF PInv, TypeOK
<1>3. CASE extensible[o] /\ ~IsAccessorDescriptor(d)
  <2>1. PutProperty(o, n, Field(d, "value"), NewAttributes(d))
    BY <1>3 DEF DefineNew
  <2>2. Field(d, "value") \in EveryValue
    BY PropertiesAssumption DEF IsDescriptor, Field, Flags, EveryValue
  <2>3. Changes(o, n, TRUE)
    BY <1>1, <2>1, <2>2, PutChanges
  <2> QED
    BY <2>3 DEF Changes
<1>4. CASE extensible[o] /\ IsAccessorDescriptor(d)
  <2>1. CASE {g, s} = {Undefined}
    <3>1. UNCHANGED props /\ failed' = "some_accessor"
      BY <1>4, <2>1 DEF DefineNew, Fail
    <3> QED
      BY <3>1, NoChange DEF Assertions
  <2>2. CASE {g, s} # {Undefined} /\ {g, s} \subseteq Functions \cup {Undefined}
    <3>1. DefineAccessor(o, n, g, s, NewAttributes(d))
      BY <1>4, <2>2 DEF DefineNew
    <3>2. keep => Keeps(props[o][n], Accessor(g, s, NewAttributes(d)), extensible[o])
      BY <1>4 DEF Keeps, Own, Invalid, Frozen
    <3> QED
      BY <1>1, <3>1, <3>2, DefineAccessorChanges
  <2>3. CASE {g, s} # {Undefined} /\ ~({g, s} \subseteq Functions \cup {Undefined})
    <3>1. UNCHANGED props /\ failed' = failed
      BY <1>4, <2>3 DEF DefineNew, Return
    <3> QED
      BY <3>1, NoChange DEF PInv, TypeOK
  <2> QED
    BY <2>1, <2>2, <2>3
<1> QED
  BY <1>2, <1>3, <1>4

(* A redefinition that is not refused keeps the flags of a property that is *)
(* not configurable.                                                       *)
LEMMA FlagsKept ==
    ASSUME NEW d \in Descriptors, NEW cur, "dont_delete" \in cur, ~RefusedFlags(d, cur),
           NEW flags, {"enumerable", "configurable"} \subseteq flags, flags \subseteq Flags
    PROVE  /\ "dont_delete" \in Applied(d, cur, flags)
           /\ "dont_enum" \in cur <=> "dont_enum" \in Applied(d, cur, flags)
<1>1. \A f \in DOMAIN d \cap Flags : d[f] \in BOOLEAN
  BY PropertiesAssumption DEF IsDescriptor
<1>2. /\ Denies["configurable"] = "dont_delete"
      /\ Denies["enumerable"] = "dont_enum"
      /\ \A f \in Flags : Denies[f] = "dont_delete" => f = "configurable"
      /\ \A f \in Flags : Denies[f] = "dont_enum" => f = "enumerable"
  BY DEF Denies, Flags
<1>3. "configurable" \in DOMAIN d => d["configurable"] = FALSE
  <2>1. "dont_delete" \in NewAttributes(d)
    BY DEF RefusedFlags
  <2>2. Field(d, "configurable") # TRUE
    BY <1>2, <2>1 DEF NewAttributes
  <2> QED
    BY <1>1, <2>2 DEF Field, Flags
<1>4. "enumerable" \in DOMAIN d => ("dont_enum" \in cur <=> d["enumerable"] = FALSE)
  BY DEF RefusedFlags
<1> QED
  BY <1>2, <1>3, <1>4 DEF Applied

LEMMA RedefineAccessorChanges ==
    ASSUME PInv, NEW o \in Objects, NEW n \in Names, NEW d \in Descriptors, NEW cur,
           NEW keep \in BOOLEAN, keep => cur = props[o][n].attributes,
           ~(IsAccessorDescriptor(d) /\ IsDataDescriptor(d)),
           IsAccessorDescriptor(d) \/ (IsGenericDescriptor(d) /\ "accessor" \in cur),
           cur # Invalid, ~Refused(o, n, d, cur), RedefineAccessor(o, n, d, cur)
    PROVE  Changes(o, n, keep)
<1> DEFINE old == props[o][n]
           g == IF "get" \in DOMAIN d THEN d.get ELSE old.get
           s == IF Field(d, "set") = Undefined THEN old.set ELSE d.set
           a == Applied(d, cur, {"enumerable", "configurable"})
<1>1. a \in SUBSET (Attributes \ {"accessor"})
  BY FlagAttributes DEF Flags
<1>2. old \in Sound
  BY DEF PInv
<1>3. CASE "accessor" \notin cur
  <2>1. "dont_delete" \notin cur
    BY <1>3 DEF Refused, RefusedKind, IsGenericDescriptor
  <2>2. \A q : keep => Keeps(old, q, extensible[o])
    BY <2>1 DEF Keeps, Frozen
  <2>3. DefineAccessor(o, n, Field(d, "get"), Field(d, "set"), a)
    BY <1>3 DEF RedefineAccessor
  <2> QED
    BY <1>1, <2>2, <2>3, DefineAccessorChanges
<1>4. CASE "accessor" \in cur /\ "accessor" \notin old.attributes
  <2>1. UNCHANGED props /\ failed' = "accessor_expected"
    BY <1>4 DEF RedefineAccessor, Fail
  <2> QED
    BY <2>1, NoChange DEF Assertions
<1>5. CASE "accessor" \in cur /\ "accessor" \in old.attributes
  <2>1. CASE "read_only" \in cur /\ <<g, s>> # <<old.get, old.set>>
    <3>1. UNCHANGED props /\ failed' = failed
      BY <1>5, <2>1 DEF RedefineAccessor, Return
    <3> QED
      BY <3>1, NoChange DEF PInv, TypeOK
  <2>2. CASE ~("read_only" \in cur /\ <<g, s>> # <<old.get, old.set>>)
    <3>1. DefineAccessor(o, n, g, s, a)
      BY <1>5, <2>2 DEF RedefineAccessor
    <3>2. ASSUME keep, "dont_delete" \in cur
          PROVE  /\ "dont_delete" \in a
                 /\ "dont_enum" \in cur <=> "dont_enum" \in a
      BY <3>2, FlagsKept DEF Refused, Flags
    <3>3. ASSUME keep, Frozen \subseteq cur
          PROVE  Accessor(g, s, a) = old
      <4>1. g = old.get /\ s = old.set
        BY <2>2, <3>3 DEF Frozen
      <4>2. s = Undefined /\ old.value = Undefined
        BY <1>2, <1>5, <3>3, <4>1 DEF Sound, Property, Frozen
      <4>3. old.attributes \in SUBSET Attributes
        BY <1>2, <1>5 DEF Sound, Property, Invalid
      <4>4. (a \ {"read_only"}) \cup {"accessor"} \cup {"read_only"} = old.attributes
        BY <1>1, <1>5, <3>2, <3>3, <4>3 DEF Frozen, Attributes
      <4> QED
        BY <1>2, <4>1, <4>2, <4>4 DEF Accessor, Sound, Property
    <3>4. keep => Keeps(old, Accessor(g, s, a), extensible[o])
      <4> SUFFICES ASSUME keep PROVE Keeps(old, Accessor(g, s, a), extensible[o])
        OBVIOUS
      <4>1. cur = old.attributes
        OBVIOUS
      <4>2. old.attributes # Invalid
        BY <4>1
      <4>3. Accessor(g, s, a).attributes =
              (a \ {"read_only"}) \cup {"accessor"}
                  \cup (IF s = Undefined THEN {"read_only"} ELSE {})
        BY DEF Accessor
      <4>4. "dont_delete" \in cur =>
              \A x \in {"dont_delete", "dont_enum", "accessor"} :
                  x \in old.attributes <=> x \in Accessor(g, s, a).attributes
        BY <1>5, <3>2, <4>1, <4>3
      <4> QED
        BY <3>3, <4>1, <4>2, <4>4 DEF Keeps
    <3> QED
      BY <1>1, <3>1, <3>4, DefineAccessorChanges
  <2> QED
    BY <2>1, <2>2
<1> QED
  BY <1>3, <1>4, <1>5

LEMMA RedefineDataChanges ==
    ASSUME PInv, NEW o \in Objects, NEW n \in Names, NEW d \in Descriptors, NEW cur,
           NEW keep \in BOOLEAN, keep => cur = props[o][n].attributes,
           ~IsAccessorDescriptor(d),
           ~(IsGenericDescriptor(d) /\ "accessor" \in cur),
           cur # Invalid, ~Refused(o, n, d, cur), RedefineData(o, n, d, cur)
    PROVE  Changes(o, n, keep)
<1> DEFINE old == props[o][n]
           v == IF "value" \in DOMAIN d THEN d.value ELSE Get(o, n)
           a == Applied(d, cur, Flags)
<1>1. a \in SUBSET (Attributes \ {"accessor"})
  BY FlagAttributes
<1>2. old \in Sound
  BY DEF PInv
<1>3. v \in EveryValue
  <2>1. "value" \in DOMAIN d => d.value \in EveryValue
    BY PropertiesAssumption DEF IsDescriptor, Flags
  <2> QED
    BY <2>1, GetValue
<1>4. Data(v, a) \in Sound
  BY <1>1, <1>3, DataSound
<1>5. props' = [props EXCEPT ![o][n] = Data(v, a)] /\ UNCHANGED failed
  BY DEF RedefineData
<1>6. ASSUME keep PROVE Keeps(old, Data(v, a), extensible[o])
  <2>1. cur = old.attributes
    BY <1>6
  <2>2. ASSUME "dont_delete" \in cur
        PROVE  /\ "dont_delete" \in a
               /\ "dont_enum" \in cur <=> "dont_enum" \in a
               /\ "accessor" \notin cur
    <3>1. "accessor" \notin cur
      BY <2>2 DEF Refused, RefusedKind, IsGenericDescriptor
    <3> QED
      BY <2>2, <3>1, FlagsKept DEF Refused, Flags
  <2>3. ASSUME Frozen \subseteq cur PROVE Data(v, a) = old
    <3>1. "accessor" \notin cur /\ "dont_delete" \in cur /\ "read_only" \in cur
      BY <2>2, <2>3 DEF Frozen
    <3>2. /\ old.attributes \in SUBSET Attributes
          /\ old.get = Undefined /\ old.set = Undefined
      BY <1>2, <2>1, <3>1 DEF Sound, Property, Invalid
    <3>3. Get(o, n) = old.value
      BY <2>1, <3>1 DEF Get, Own
    <3>4. v = old.value
      BY <2>3, <3>1, <3>3 DEF Refused, RefusedValue, IsDataDescriptor, Frozen
    <3>5. "read_only" \in a
      <4>1. /\ Denies["writable"] = "read_only"
            /\ \A f \in Flags : Denies[f] = "read_only" => f = "writable"
        BY DEF Denies, Flags
      <4>2. "writable" \in DOMAIN d => d["writable"] = FALSE
        <5> SUFFICES ASSUME "writable" \in DOMAIN d PROVE d["writable"] = FALSE
          OBVIOUS
        <5>1. "read_only" \in NewAttributes(d)
          BY <2>3, <3>1 DEF Refused, RefusedValue, IsDataDescriptor, Frozen
        <5>2. Field(d, "writable") # TRUE
          BY <4>1, <5>1 DEF NewAttributes
        <5>3. d["writable"] \in BOOLEAN
          BY PropertiesAssumption DEF IsDescriptor, Flags
        <5> QED
          BY <5>2, <5>3 DEF Field
      <4> QED
        BY <3>1, <4>1, <4>2 DEF Applied, Flags
    <3>6. a = old.attributes
      <4> DEFINE b == old.attributes
      <4>1. /\ b \in SUBSET Attributes /\ a \in SUBSET Attributes
            /\ "accessor" \notin a /\ "accessor" \notin b
            /\ "dont_delete" \in a /\ "dont_delete" \in b
            /\ "read_only" \in a /\ "read_only" \in b
            /\ ("dont_enum" \in b <=> "dont_enum" \in a)
        BY <1>1, <2>1, <2>2, <3>1, <3>2, <3>5
      <4> HIDE DEF a, b
      <4>2. \A x \in Attributes : x \in a <=> x \in b
        BY ONLY <4>1 DEF Attributes
      <4>3. a = b
        BY ONLY <4>1, <4>2
      <4>4. QED BY <4>3 DEF b
    <3> QED
      BY <1>2, <3>2, <3>4, <3>6 DEF Data, Sound, Property
  <2>4. Data(v, a).attributes = a
    BY DEF Data
  <2> QED
    BY <1>1, <2>1, <2>2, <2>3, <2>4 DEF Keeps
<1> QED
  BY <1>4, <1>5, <1>6 DEF Changes, PInv, TypeOK

LEMMA DefineChanges ==
    ASSUME PInv, NEW o \in Objects, NEW n \in Names, NEW d \in Descriptors, NEW cur,
           NEW keep \in BOOLEAN, keep => cur = props[o][n].attributes,
           DefineOwnProperty(o, n, d, cur)
    PROVE  Changes(o, n, keep)
<1> DEFINE mixed == IsAccessorDescriptor(d) /\ IsDataDescriptor(d)
           accessor == IsAccessorDescriptor(d)
                       \/ (IsGenericDescriptor(d) /\ "accessor" \in cur)
<1>1. ASSUME NEW r, Return(r) PROVE Changes(o, n, keep)
  <2>1. UNCHANGED props /\ failed' = failed
    BY <1>1 DEF Return
  <2> QED
    BY <2>1, NoChange DEF PInv, TypeOK
<1>2. CASE mixed
  BY <1>1, <1>2 DEF DefineOwnProperty
<1>3. CASE ~mixed /\ cur = Invalid
  <2>1. DefineNew(o, n, d)
    BY <1>3 DEF DefineOwnProperty
  <2> QED
    BY <1>3, <2>1, DefineNewChanges DEF Own
<1>4. CASE ~mixed /\ cur # Invalid
  <2>1. Redefine(o, n, d, cur)
    BY <1>4 DEF DefineOwnProperty
  <2>2. CASE Unaffected(o, n, d, cur) \/ Refused(o, n, d, cur)
    BY <1>1, <2>1, <2>2 DEF Redefine
  <2>3. CASE ~Unaffected(o, n, d, cur) /\ ~Refused(o, n, d, cur) /\ accessor
    <3>1. RedefineAccessor(o, n, d, cur)
      BY <2>1, <2>3 DEF Redefine
    <3> QED
      BY <1>4, <2>3, <3>1, RedefineAccessorChanges
  <2>4. CASE ~Unaffected(o, n, d, cur) /\ ~Refused(o, n, d, cur) /\ ~accessor
    <3>1. RedefineData(o, n, d, cur)
      BY <2>1, <2>4 DEF Redefine
    <3> QED
      BY <1>4, <2>4, <3>1, RedefineDataChanges
  <2> QED
    BY <2>2, <2>3, <2>4
<1> QED
  BY <1>2, <1>3, <1>4

----------------------------------------------------------------------------
(* The steps.                                                              *)

Calls == Seq([object : Objects, name : Names, descriptor : Descriptors,
              current : (SUBSET Attributes) \cup {Invalid}])

LEMMA HeadOfCalls ==
    ASSUME NEW S, NEW q \in Seq(S), q # <<>>
    PROVE  Head(q) \in S
OBVIOUS

LEMMA ChangesSound ==
    ASSUME PInv, NEW o \in Objects, NEW n \in Names, NEW keep, Changes(o, n, keep)
    PROVE  props' \in [Objects -> [Names -> Sound]]
BY UpdateSound DEF Changes

LEMMA ChangesKeep ==
    ASSUME PInv, NEW o \in Objects, NEW n \in Names, Changes(o, n, TRUE),
           UNCHANGED extensible
    PROVE  KeepsAll
<1>1. \A p, ext : Keeps(p, p, ext)
  BY DEF Keeps
<1>2. PICK q \in Sound : /\ props' = [props EXCEPT ![o][n] = q]
                         /\ Keeps(props[o][n], q, extensible[o])
  BY DEF Changes
<1> QED
  BY <1>1, <1>2 DEF KeepsAll, PInv

LEMMA PropertyStepChanges ==
    ASSUME PInv, NEW o \in Objects, NEW n \in Names, PropertyStep(o, n),
           NEW keep \in BOOLEAN,
           keep /\ o \in building
               => extensible[o] /\ "dont_delete" \notin props[o][n].attributes
    PROVE  Changes(o, n, keep) /\ UNCHANGED <<extensible, building>>
<1>1. Changes(o, n, TRUE) => Changes(o, n, keep)
  BY DEF Changes
<1>2. \A v \in Values : v \in EveryValue /\ {} \in SUBSET (Attributes \ {"accessor"})
  BY DEF EveryValue
<1>3. CASE Delete(o, n)
  BY <1>1, <1>3, DeleteChanges DEF Delete
<1>4. ASSUME NEW v \in Values, PutProperty(o, n, v, {}) PROVE Changes(o, n, keep)
  BY <1>1, <1>2, <1>4, PutChanges
<1>5. ASSUME NEW v \in Values, Put(o, n, v) \/ LiteralValue(o, n, v)
      PROVE  Changes(o, n, keep) /\ UNCHANGED <<extensible, building>>
  BY <1>4, <1>5 DEF Put, LiteralValue
<1>6. ASSUME NEW v \in Values, StrictPut(o, n, v)
      PROVE  Changes(o, n, keep) /\ UNCHANGED <<extensible, building>>
  <2>1. CASE StrictRefuses(o, n)
    <3>1. UNCHANGED <<props, failed, extensible, building>>
      BY <1>6, <2>1 DEF StrictPut
    <3>2. failed' \in Assertions \cup {"none"}
      BY <3>1 DEF PInv, TypeOK
    <3> QED
      BY <3>1, <3>2, NoChange
  <2>2. CASE ~StrictRefuses(o, n)
    BY <1>4, <1>6, <2>2 DEF StrictPut
  <2> QED
    BY <2>1, <2>2
<1>7. ASSUME NEW f \in Functions, NEW is_get \in BOOLEAN, LiteralAccessor(o, n, f, is_get)
      PROVE  Changes(o, n, keep) /\ UNCHANGED <<extensible, building>>
  <2>1. o \in building /\ UNCHANGED <<extensible, building>>
    BY <1>7 DEF LiteralAccessor
  <2> QED
    BY <1>7, <2>1, LiteralChanges
<1>8. ASSUME NEW d \in Descriptors, DefineProperty(o, n, d)
      PROVE  Changes(o, n, keep) /\ UNCHANGED <<extensible, building>>
  BY <1>1, <1>8, DefineChanges DEF DefineProperty
<1>9. ASSUME NEW d \in Descriptors, DefineSuspended(o, n, d)
      PROVE  Changes(o, n, keep) /\ UNCHANGED <<extensible, building>>
  <2>1. UNCHANGED <<props, failed, extensible, building>>
    BY <1>9 DEF DefineSuspended
  <2>2. failed' \in Assertions \cup {"none"}
    BY <2>1 DEF PInv, TypeOK
  <2> QED
    BY <2>1, <2>2, NoChange
<1> QED
  BY <1>3, <1>5, <1>6, <1>7, <1>8, <1>9 DEF PropertyStep

LEMMA ReturnedResults ==
    ASSUME PInv, NEW o \in Objects, NEW n \in Names, NEW d, NEW cur,
           DefineOwnProperty(o, n, d, cur)
    PROVE  result' \in Results
<1>1. ASSUME NEW g, NEW s, NEW a, DefineAccessor(o, n, g, s, a) PROVE result' \in Results
  BY <1>1 DEF DefineAccessor, Fail, PInv, TypeOK, Results
<1>2. DefineNew(o, n, d) => result' \in Results
  BY <1>1 DEF DefineNew, Return, Fail, PInv, TypeOK, Results
<1>3. RedefineAccessor(o, n, d, cur) => result' \in Results
  BY <1>1 DEF RedefineAccessor, Return, Fail, PInv, TypeOK, Results
<1>4. RedefineData(o, n, d, cur) => result' \in Results
  BY DEF RedefineData, Results
<1> QED
  BY <1>2, <1>3, <1>4 DEF DefineOwnProperty, Redefine, Return, Results

LEMMA PropertyStepTypes ==
    ASSUME PInv, NEW o \in Objects, NEW n \in Names, PropertyStep(o, n)
    PROVE  result' \in Results /\ defining' \in Calls
<1>1. result \in Results /\ defining \in Calls
  BY DEF PInv, TypeOK, Calls
<1>2. \A v \in Values : Put(o, n, v) \/ StrictPut(o, n, v) \/ LiteralValue(o, n, v)
          => result' \in Results /\ UNCHANGED defining
  BY DEF Put, StrictPut, LiteralValue, PutResult, Results
<1>3. Delete(o, n) => result' \in Results /\ UNCHANGED defining
  BY DEF Delete, Results
<1>4. \A f, is_get : LiteralAccessor(o, n, f, is_get)
          => result' \in Results /\ UNCHANGED defining
  BY DEF LiteralAccessor, Results
<1>5. \A d \in Descriptors : DefineProperty(o, n, d)
          => result' \in Results /\ UNCHANGED defining
  BY ReturnedResults DEF DefineProperty
<1>6. ASSUME NEW d \in Descriptors, DefineSuspended(o, n, d)
      PROVE  UNCHANGED result /\ defining' \in Calls
  <2> DEFINE call == [object |-> o, name |-> n, descriptor |-> d,
                      current |-> props[o][n].attributes]
  <2>1. props[o][n].attributes \in (SUBSET Attributes) \cup {Invalid}
    BY DEF PInv, Sound, Property
  <2>2. call \in [object : Objects, name : Names, descriptor : Descriptors,
                  current : (SUBSET Attributes) \cup {Invalid}]
    BY <2>1
  <2>3. defining' = <<call>> \o defining /\ UNCHANGED result
    BY <1>6 DEF DefineSuspended
  <2> HIDE DEF call
  <2> QED
    BY <1>1, <2>2, <2>3 DEF Calls
<1> QED
  BY <1>1, <1>2, <1>3, <1>4, <1>5, <1>6 DEF PropertyStep

LEMMA ImmutableStep ==
    ASSUME PInv, NEW o \in Objects, NEW level \in {Sealed, Frozen}, MakeImmutable(o, level)
    PROVE  /\ props' \in [Objects -> [Names -> Sound]]
           /\ extensible' \in [Objects -> BOOLEAN]
           /\ failed' \in Assertions \cup {"none"}
           /\ KeepsAll
           /\ \A r \in Objects \ {o} : props'[r] = props[r] /\ extensible'[r] = extensible[r]
<1> DEFINE aborts == \E n \in Weaker(o, level) : Has(o, n, "accessor")
<1>1. \A p, ext : Keeps(p, p, ext)
  BY DEF Keeps
<1>2. CASE aborts
  <2>1. UNCHANGED <<props, extensible>> /\ failed' = "redefine_accessor"
    BY <1>2 DEF MakeImmutable
  <2> QED
    BY <1>1, <2>1 DEF PInv, TypeOK, KeepsAll, Assertions
<1>3. CASE ~aborts
  <2> DEFINE q(n) == [props[o][n] EXCEPT !.attributes = @ \cup level]
             new(n) == IF n \in Weaker(o, level) THEN q(n) ELSE props[o][n]
  <2>1. /\ props' = [props EXCEPT ![o] = [n \in Names |-> new(n)]]
        /\ extensible' = [extensible EXCEPT ![o] = FALSE]
        /\ UNCHANGED failed
    BY <1>3 DEF MakeImmutable
  <2>2. ASSUME NEW n \in Names
        PROVE  new(n) \in Sound /\ \A ext : Keeps(props[o][n], new(n), ext)
    <3>1. CASE n \in Weaker(o, level)
      <4>1. /\ props[o][n] \in Sound /\ props[o][n].attributes # Invalid
            /\ "accessor" \notin props[o][n].attributes
            /\ ~(level \subseteq props[o][n].attributes)
        BY <1>3, <3>1 DEF PInv, Weaker, Own, Has
      <4>2. q(n) \in Sound
        BY <4>1, StrengthenedSound
      <4>3. q(n).attributes = props[o][n].attributes \cup level
        BY <4>1 DEF Sound, Property
      <4>4. ~(Frozen \subseteq props[o][n].attributes)
        BY <4>1 DEF Frozen, Sealed
      <4>5. "dont_delete" \in props[o][n].attributes =>
              \A a \in {"dont_delete", "dont_enum", "accessor"} :
                  a \in props[o][n].attributes <=> a \in q(n).attributes
        BY <4>3 DEF Frozen, Sealed
      <4> QED
        BY <3>1, <4>1, <4>2, <4>4, <4>5 DEF Keeps
    <3>2. CASE n \notin Weaker(o, level)
      BY <1>1, <3>2 DEF PInv
    <3> QED
      BY <3>1, <3>2
  <2>3. /\ props'[o] = [n \in Names |-> new(n)]
        /\ \A r \in Objects \ {o} : props'[r] = props[r]
    BY <2>1 DEF PInv
  <2>4. /\ \A r \in Objects : ~extensible[r] => ~extensible'[r]
        /\ \A r \in Objects \ {o} : extensible'[r] = extensible[r]
        /\ extensible' \in [Objects -> BOOLEAN]
    BY <2>1 DEF PInv, TypeOK
  <2> HIDE DEF new
  <2>5. props' \in [Objects -> [Names -> Sound]]
    BY <2>1, <2>2 DEF PInv
  <2>6. \A r \in Objects, n \in Names : Keeps(props[r][n], props'[r][n], extensible[r])
    BY <1>1, <2>2, <2>3
  <2> QED
    BY <2>1, <2>3, <2>4, <2>5, <2>6 DEF KeepsAll, PInv, TypeOK
<1> QED
  BY <1>2, <1>3

(* A step of an object as a whole.                                         *)
LEMMA ObjectStepKeeps ==
    ASSUME PInv, NEW o \in Objects, ObjectStep(o)
    PROVE  /\ PInv'
           /\ KeepsAll
           /\ building' \subseteq building
           /\ \A r \in building' : props'[r] = props[r] /\ extensible'[r] = extensible[r]
           /\ UNCHANGED defining
<1>1. \A p, ext : Keeps(p, p, ext)
  BY DEF Keeps
<1>2. building \subseteq Objects
  BY DEF PInv, TypeOK
<1>3. CASE LiteralDone(o)
  BY <1>1, <1>2, <1>3 DEF LiteralDone, PInv, TypeOK, KeepsAll, Results, Sound
<1>4. CASE PreventExtensions(o)
  <2>1. /\ UNCHANGED <<props, building, defining, failed>> /\ result' = "ok"
        /\ extensible' = [extensible EXCEPT ![o] = FALSE]
        /\ o \notin building
    BY <1>4 DEF PreventExtensions, Usable
  <2>2. /\ \A r \in Objects : ~extensible[r] => ~extensible'[r]
        /\ \A r \in Objects \ {o} : extensible'[r] = extensible[r]
        /\ extensible' \in [Objects -> BOOLEAN]
    BY <2>1 DEF PInv, TypeOK
  <2> QED
    BY <1>1, <1>2, <2>1, <2>2 DEF PInv, TypeOK, KeepsAll, Results
<1>5. ASSUME NEW level \in {Sealed, Frozen}, MakeImmutable(o, level)
      PROVE  /\ PInv'
             /\ KeepsAll
             /\ building' \subseteq building
             /\ \A r \in building' : props'[r] = props[r] /\ extensible'[r] = extensible[r]
             /\ UNCHANGED defining
  <2>1. UNCHANGED <<building, defining>> /\ result' = "ok" /\ o \notin building
    BY <1>5 DEF MakeImmutable, Usable
  <2>2. /\ props' \in [Objects -> [Names -> Sound]]
        /\ extensible' \in [Objects -> BOOLEAN]
        /\ failed' \in Assertions \cup {"none"}
        /\ KeepsAll
        /\ \A r \in Objects \ {o} : props'[r] = props[r] /\ extensible'[r] = extensible[r]
    BY <1>5, ImmutableStep
  <2>3. Sound \subseteq Property
    BY DEF Sound
  <2> QED
    BY <1>2, <2>1, <2>2, <2>3 DEF PInv, TypeOK, Results
<1> QED
  BY <1>3, <1>4, <1>5 DEF ObjectStep, Seal, Freeze

----------------------------------------------------------------------------
(* The theorems.                                                           *)

LEMMA InitTypes == Init => PInv
<1> SUFFICES ASSUME Init PROVE PInv
  OBVIOUS
<1>1. props \in [Objects -> [Names -> Sound]]
  BY AbsentSound DEF Init
<1>2. Sound \subseteq Property
  BY DEF Sound
<1>3. defining \in Calls
  BY DEF Init, Calls
<1>4. /\ extensible \in [Objects -> BOOLEAN] /\ building \subseteq Objects
      /\ result \in Results /\ failed \in Assertions \cup {"none"}
  BY PropertiesAssumption DEF Init, Results
<1> QED
  BY <1>1, <1>2, <1>3, <1>4 DEF PInv, TypeOK, Calls

LEMMA NextTypes == PInv /\ [Next]_vars => PInv'
<1> SUFFICES ASSUME PInv, [Next]_vars PROVE PInv'
  OBVIOUS
<1>1. Sound \subseteq Property
  BY DEF Sound
<1>2. ASSUME NEW o \in Objects, NEW n \in Names, NEW keep \in BOOLEAN, Changes(o, n, keep),
             UNCHANGED <<extensible, building>>, result' \in Results, defining' \in Calls
      PROVE  PInv'
  <2>1. props' \in [Objects -> [Names -> Sound]] /\ failed' \in Assertions \cup {"none"}
    BY <1>2, ChangesSound DEF Changes
  <2> QED
    BY <1>1, <1>2, <2>1 DEF PInv, TypeOK, Calls
<1>3. ASSUME NEW o \in Objects, NEW n \in Names, PropertyStep(o, n) PROVE PInv'
  <2>1. Changes(o, n, FALSE) /\ UNCHANGED <<extensible, building>>
    BY <1>3, PropertyStepChanges
  <2>2. result' \in Results /\ defining' \in Calls
    BY <1>3, PropertyStepTypes
  <2> QED
    BY <1>2, <2>1, <2>2
<1>4. CASE DefineResumed
  <2> DEFINE c == Head(defining)
  <2>1. /\ defining \in Calls /\ defining # <<>>
        /\ DefineOwnProperty(c.object, c.name, c.descriptor, c.current)
        /\ defining' = Tail(defining) /\ UNCHANGED <<extensible, building>>
    BY <1>4 DEF DefineResumed, PInv, TypeOK, Calls
  <2>2. c \in [object : Objects, name : Names, descriptor : Descriptors,
               current : (SUBSET Attributes) \cup {Invalid}]
    BY <2>1, HeadOfCalls DEF Calls
  <2>3. defining' \in Calls
    BY <2>1 DEF Calls
  <2>4. c.object \in Objects /\ c.name \in Names /\ c.descriptor \in Descriptors
    BY <2>2
  <2> HIDE DEF c
  <2>5. Changes(c.object, c.name, FALSE)
    BY <2>1, <2>4, DefineChanges
  <2>6. result' \in Results
    BY <2>1, <2>4, ReturnedResults
  <2> QED
    BY <1>2, <2>1, <2>3, <2>4, <2>5, <2>6
<1>5. CASE UNCHANGED vars
  BY <1>5 DEF vars, PInv, TypeOK
<1> QED
  BY <1>3, <1>4, <1>5, ObjectStepKeeps DEF Next, Step, Aborted

(* The state is always well typed, also when descriptors run user code.    *)
THEOREM PropertyTypes == Spec => []TypeOK
<1>1. PInv => TypeOK
  BY DEF PInv
<1> QED
  BY <1>1, InitTypes, NextTypes, PTL DEF Spec

(* Accessors agree with read_only in every state.                          *)
THEOREM AccessorsAgree == Spec => []AccessorAgreement
<1>1. PInv => AccessorAgreement
  BY DEF PInv, AccessorAgreement, Has, Sound
<1> QED
  BY <1>1, InitTypes, NextTypes, PTL DEF Spec

----------------------------------------------------------------------------
(* What strict code and Object.defineProperty may rely on.                 *)

LEMMA StrictPutEffect ==
    ASSUME PInv, NEW o \in Objects, NEW n \in Names, NEW v \in Values, StrictPut(o, n, v)
    PROVE  failed' # "none" \/ result' \in {"TypeError", "called"} \/ Get(o, n)' = v
<1> SUFFICES ASSUME result' \notin {"TypeError", "called"} PROVE Get(o, n)' = v
  OBVIOUS
<1>1. /\ ~StrictRefuses(o, n) /\ PutProperty(o, n, v, {}) /\ result' = PutResult(o, n)
  BY DEF StrictPut
<1>2. ~CallsSetter(o, n)
  BY <1>1 DEF PutResult, Stores
<1>3. Stores(o, n)
  BY <1>1, <1>2 DEF StrictRefuses, CallsSetter, Ignores, Stores
<1>4. props' = [props EXCEPT ![o][n] = Stored(o, n, v, {})]
  BY <1>1, <1>3 DEF PutProperty
<1>5. props'[o][n] = Stored(o, n, v, {}) /\ props[o][n] \in Sound
  BY <1>4 DEF PInv
<1>6. CASE Own(o, n)
  <2>1. ~Has(o, n, "accessor")
    BY <1>2, <1>3, <1>6 DEF CallsSetter, Stores, Ignores
  <2>2. props'[o][n] = [props[o][n] EXCEPT !.value = v]
    BY <1>5, <1>6 DEF Stored
  <2>3. props'[o][n].attributes = props[o][n].attributes /\ props'[o][n].value = v
    BY <1>5, <2>2 DEF Sound, Property
  <2> QED
    BY <1>6, <2>1, <2>3 DEF Get, Own, Has
<1>7. CASE ~Own(o, n)
  <2>1. props'[o][n].attributes = {} /\ props'[o][n].value = v
    BY <1>5, <1>7 DEF Stored, Data
  <2> QED
    BY <2>1 DEF Get, Own, Invalid
<1> QED
  BY <1>6, <1>7

(* No assignment in strict code is lost without a word, whatever is        *)
(* inherited (check_strict_mode_put and object::put).                      *)
THEOREM StrictPuts == Spec => StrictPutTakesEffect
<1>1. PInv /\ [Next]_vars =>
        \A o \in Objects, n \in Names, v \in Values : StrictPut(o, n, v) =>
          \/ failed' # "none"
          \/ result' \in {"TypeError", "called"}
          \/ Get(o, n)' = v
  BY StrictPutEffect
<1> QED
  BY <1>1, InitTypes, NextTypes, PTL DEF Spec, StrictPutTakesEffect

(* The attributes that the flags of a property's own descriptor deny.      *)
LEMMA OwnDescriptorFlags ==
    ASSUME NEW a \in SUBSET Attributes, NEW d, NEW flags \in SUBSET Flags,
           \A f \in flags : f \in DOMAIN d /\ d[f] = (Denies[f] \notin a)
    PROVE  Applied(d, a, flags) = {Denies[f] : f \in flags} \cap a
BY DEF Applied

LEMMA RedefineOwnData ==
    ASSUME PInv, NEW o \in Objects, NEW n \in Names, Own(o, n), ~Has(o, n, "accessor"),
           DefineProperty(o, n, DescriptorOf(o, n))
    PROVE  result' = "ok" /\ UNCHANGED props
<1> DEFINE p == props[o][n]
           d == DescriptorOf(o, n)
<1>1. p \in Sound /\ p.attributes # Invalid /\ "accessor" \notin p.attributes
      /\ p.attributes \in SUBSET Attributes
  BY DEF PInv, Own, Has, Sound, Property
<1>2. /\ DOMAIN d = {"value", "writable", "enumerable", "configurable"}
      /\ d.value = p.value /\ d.writable = ("read_only" \notin p.attributes)
      /\ d.enumerable = ("dont_enum" \notin p.attributes)
      /\ d.configurable = ("dont_delete" \notin p.attributes)
  BY <1>1 DEF DescriptorOf, Denies
<1> HIDE DEF d
<1>3. NewAttributes(d) = p.attributes
  <2>1. NewAttributes(d) = {Denies[f] : f \in {g \in Flags : d[g] # TRUE}}
    BY <1>2 DEF NewAttributes, Field, Flags
  <2>2. \A f \in Flags : d[f] = (Denies[f] \notin p.attributes)
    BY <1>2 DEF Flags, Denies
  <2>3. NewAttributes(d) = {Denies[f] : f \in {g \in Flags : Denies[g] \in p.attributes}}
    BY <2>1, <2>2
  <2>4. \A a \in p.attributes : \E f \in Flags : a = Denies[f]
    BY <1>1 DEF Attributes, Flags, Denies
  <2> QED
    BY <2>3, <2>4
<1>4. Get(o, n) = p.value /\ Field(d, "value") = p.value
  BY <1>1, <1>2 DEF Get, Own, Field
<1>5. Unaffected(o, n, d, p.attributes)
  BY <1>3, <1>4 DEF Unaffected
<1>6. DefineOwnProperty(o, n, d, p.attributes)
  BY DEF DefineProperty, d
<1>7. ~IsAccessorDescriptor(d)
  BY <1>2 DEF IsAccessorDescriptor
<1>8. Redefine(o, n, d, p.attributes)
  BY <1>1, <1>6, <1>7 DEF DefineOwnProperty
<1>9. Return("ok")
  BY <1>5, <1>8 DEF Redefine
<1> QED
  BY <1>9 DEF Return

LEMMA RedefineOwnAccessor ==
    ASSUME PInv, NEW o \in Objects, NEW n \in Names, Own(o, n), Has(o, n, "accessor"),
           DefineProperty(o, n, DescriptorOf(o, n))
    PROVE  result' = "ok" /\ UNCHANGED props
<1> DEFINE p == props[o][n]
           d == DescriptorOf(o, n)
<1>1. p \in Sound /\ p.attributes # Invalid /\ "accessor" \in p.attributes
      /\ p.attributes \in SUBSET Attributes
  BY DEF PInv, Own, Has, Sound, Property
<1>2. /\ DOMAIN d = {"get", "set", "enumerable", "configurable"}
      /\ d.get = p.get /\ d.set = p.set
      /\ d.enumerable = ("dont_enum" \notin p.attributes)
      /\ d.configurable = ("dont_delete" \notin p.attributes)
  BY <1>1 DEF DescriptorOf, Denies
<1> HIDE DEF d
<1>3. IsAccessorDescriptor(d) /\ ~IsDataDescriptor(d) /\ ~IsGenericDescriptor(d)
  BY <1>2 DEF IsAccessorDescriptor, IsDataDescriptor, IsGenericDescriptor
<1>4. Redefine(o, n, d, p.attributes)
  <2>1. DefineOwnProperty(o, n, d, p.attributes)
    BY DEF DefineProperty, d
  <2> QED
    BY <1>1, <1>3, <2>1 DEF DefineOwnProperty
<1>5. ~Unaffected(o, n, d, p.attributes)
  <2>1. NewAttributes(d) # p.attributes
    BY <1>1, FlagAttributes DEF Flags
  <2> QED
    BY <1>2, <2>1 DEF Unaffected
<1>6. ~Refused(o, n, d, p.attributes)
  <2>1. "dont_delete" \in p.attributes => "dont_delete" \in NewAttributes(d)
    BY <1>2 DEF NewAttributes, Field, Flags, Denies
  <2>2. d.enumerable = FALSE <=> "dont_enum" \in p.attributes
    BY <1>2, Zenon
  <2>3. ("dont_enum" \in p.attributes) = (d.enumerable = FALSE)
    BY <2>2
  <2>4. ~RefusedFlags(d, p.attributes)
    BY <2>1, <2>3 DEF RefusedFlags
  <2>5. ("accessor" \notin p.attributes) = IsDataDescriptor(d)
    BY <1>1, <1>3 DEF IsDataDescriptor
  <2>6. ~RefusedKind(d, p.attributes) /\ ~RefusedValue(o, n, d, p.attributes)
    BY <1>1, <2>5 DEF RefusedKind, RefusedValue
  <2> QED
    BY <2>4, <2>6 DEF Refused
<1> DEFINE a == Applied(d, p.attributes, {"enumerable", "configurable"})
<1>7. DefineAccessor(o, n, p.get, p.set, a)
  <2>1. RedefineAccessor(o, n, d, p.attributes)
    BY <1>3, <1>4, <1>5, <1>6 DEF Redefine
  <2>2. Field(d, "set") = p.set
    BY <1>2 DEF Field
  <2> QED
    BY <1>1, <1>2, <2>1, <2>2 DEF RedefineAccessor
<1>8. {p.get, p.set} \subseteq Functions \cup {Undefined} /\ {p.get, p.set} # {Undefined}
      /\ ("read_only" \in p.attributes <=> p.set = Undefined)
  BY <1>1 DEF Sound, Property
<1>9. props' = [props EXCEPT ![o][n] = Accessor(p.get, p.set, a)] /\ result' = "ok"
  BY <1>7, <1>8 DEF DefineAccessor
<1>10. Accessor(p.get, p.set, a) = p
  <2>1. a = {"dont_enum", "dont_delete"} \cap p.attributes
    <3>1. \A f \in {"enumerable", "configurable"} :
            f \in DOMAIN d /\ d[f] = (Denies[f] \notin p.attributes)
      BY <1>2 DEF Denies
    <3>2. a = {Denies[f] : f \in {"enumerable", "configurable"}} \cap p.attributes
      BY <1>1, <3>1, OwnDescriptorFlags DEF Flags
    <3> QED
      BY <3>2 DEF Denies
  <2> HIDE DEF a
  <2>2. (a \ {"read_only"}) \cup {"accessor"} \cup (IF p.set = Undefined THEN {"read_only"} ELSE {})
          = p.attributes
    BY <1>1, <1>8, <2>1 DEF Attributes
  <2>3. p.value = Undefined
    BY <1>1 DEF Sound, Property
  <2> QED
    BY <1>1, <2>2, <2>3 DEF Accessor, Sound, Property
<1> HIDE DEF a
<1> QED
  BY <1>9, <1>10 DEF PInv

(* What getOwnPropertyDescriptor says of a property can be handed back to  *)
(* defineProperty: it succeeds and changes nothing.                        *)
THEOREM OwnDescriptors == Spec => RedefineByOwnDescriptor
<1>1. PInv /\ [Next]_vars =>
        \A o \in Objects, n \in Names :
          Own(o, n) /\ DefineProperty(o, n, DescriptorOf(o, n))
              => result' = "ok" /\ UNCHANGED props
  BY RedefineOwnData, RedefineOwnAccessor
<1> QED
  BY <1>1, InitTypes, NextTypes, PTL DEF Spec, RedefineByOwnDescriptor

----------------------------------------------------------------------------
(* When descriptors have no getters (no definition is suspended), every     *)
(* step keeps its promises.                                                *)

NInv == /\ PInv
        /\ defining = <<>>
        /\ \A o \in building : /\ extensible[o]
                              /\ \A n \in Names : ~Has(o, n, "dont_delete")

(* The value or accessor an object literal defines is configurable.        *)
LEMMA LiteralConfigurable ==
    ASSUME NInv, NEW o \in building, NEW n \in Names, PropertyStep(o, n)
    PROVE  \A m \in Names : "dont_delete" \notin props'[o][m].attributes
<1>1. o \in Objects /\ props[o][n] \in Sound /\ "dont_delete" \notin props[o][n].attributes
  BY DEF NInv, PInv, TypeOK, Has
<1>2. \A m \in Names : "dont_delete" \notin props[o][m].attributes
  BY DEF NInv, Has
<1>3. \/ \E v \in Values : LiteralValue(o, n, v)
      \/ \E f \in Functions, is_get \in BOOLEAN : LiteralAccessor(o, n, f, is_get)
  BY DEF PropertyStep, Delete, Put, StrictPut, DefineProperty, DefineSuspended, Usable
<1>4. ASSUME NEW q, props' = [props EXCEPT ![o][n] = q], "dont_delete" \notin q.attributes
      PROVE  \A m \in Names : "dont_delete" \notin props'[o][m].attributes
  BY <1>1, <1>2, <1>4 DEF NInv, PInv
<1>5. ASSUME NEW v \in Values, LiteralValue(o, n, v)
      PROVE  \A m \in Names : "dont_delete" \notin props'[o][m].attributes
  <2>1. \/ UNCHANGED props
        \/ props' = [props EXCEPT ![o][n] = Stored(o, n, v, {})]
    BY <1>5 DEF LiteralValue, PutProperty
  <2>2. "dont_delete" \notin Stored(o, n, v, {}).attributes
    BY <1>1 DEF Stored, Data, Sound, Property
  <2> QED
    BY <1>2, <1>4, <2>1, <2>2
<1>6. ASSUME NEW f \in Functions, NEW is_get \in BOOLEAN, LiteralAccessor(o, n, f, is_get)
      PROVE  \A m \in Names : "dont_delete" \notin props'[o][m].attributes
  <2> DEFINE q == IF Has(o, n, "accessor") THEN Modified(props[o][n], f, is_get)
                  ELSE Accessor(IF is_get THEN f ELSE Undefined,
                                IF is_get THEN Undefined ELSE f, {})
  <2>1. props' = [props EXCEPT ![o][n] = q]
    BY <1>1, <1>6 DEF LiteralAccessor, NInv, PInv
  <2>2. "dont_delete" \notin q.attributes
    BY <1>1 DEF Modified, Accessor, Sound, Property
  <2> QED
    BY <1>4, <2>1, <2>2
<1> QED
  BY <1>3, <1>5, <1>6

LEMMA NextKeeps ==
    ASSUME MaxDepth = 0, NInv, [Next]_vars
    PROVE  NInv' /\ KeepsAll
<1>1. PInv'
  BY NextTypes DEF NInv
<1>2. ASSUME NEW o \in Objects, NEW n \in Names, PropertyStep(o, n)
      PROVE  NInv' /\ KeepsAll
  <2>1. Changes(o, n, TRUE) /\ UNCHANGED <<extensible, building>>
    BY <1>2, PropertyStepChanges DEF NInv, Has
  <2>2. KeepsAll
    BY <2>1, ChangesKeep DEF NInv
  <2>3. UNCHANGED defining
    <3>1. \A d : ~DefineSuspended(o, n, d)
      BY DEF DefineSuspended, NInv
    <3> QED
      BY <1>2, <3>1 DEF PropertyStep, Delete, Put, StrictPut, LiteralValue,
                        LiteralAccessor, DefineProperty
  <2>4. \A r \in Objects \ {o} : props'[r] = props[r]
    BY <2>1 DEF Changes, NInv, PInv
  <2>5. o \in building => \A m \in Names : "dont_delete" \notin props'[o][m].attributes
    BY <1>2, LiteralConfigurable
  <2>6. building \subseteq Objects
    BY DEF NInv, PInv, TypeOK
  <2> QED
    BY <1>1, <2>1, <2>2, <2>3, <2>4, <2>5, <2>6 DEF NInv, Has
<1>3. ASSUME NEW o \in Objects, ObjectStep(o) PROVE NInv' /\ KeepsAll
  BY <1>1, <1>3, ObjectStepKeeps DEF NInv, Has
<1>4. ~DefineResumed
  BY DEF DefineResumed, NInv
<1>5. CASE UNCHANGED vars
  <2>1. \A p, ext : Keeps(p, p, ext)
    BY DEF Keeps
  <2> QED
    BY <1>1, <1>5, <2>1 DEF vars, NInv, KeepsAll, Has
<1> QED
  BY <1>2, <1>3, <1>4, <1>5 DEF Next, Step, Aborted

LEMMA InitKeeps == Init => NInv
BY InitTypes, PropertiesAssumption DEF Init, NInv, Has, Absent, Invalid

LEMMA AlwaysKeeps ==
    ASSUME MaxDepth = 0
    PROVE  /\ Init => NInv
           /\ NInv /\ [Next]_vars => NInv'
BY InitKeeps, NextKeeps

(* Non-configurable properties stay, with their kind and enumerability,    *)
(* unless a getter of a descriptor runs user code.                         *)
THEOREM NonConfigurable ==
    ASSUME MaxDepth = 0
    PROVE  Spec => NonConfigurableStays
<1>1. NInv /\ [Next]_vars =>
        \A o \in Objects, n \in Names : Has(o, n, "dont_delete") =>
          \A a \in {"dont_delete", "dont_enum", "accessor"} :
              Has(o, n, a) <=> Has(o, n, a)'
  BY NextKeeps DEF KeepsAll, Keeps, Has
<1> QED
  BY <1>1, AlwaysKeeps, PTL DEF Spec, NonConfigurableStays

(* Properties that are neither configurable nor writable never change,     *)
(* under the same condition.                                               *)
THEOREM ReadOnly ==
    ASSUME MaxDepth = 0
    PROVE  Spec => ReadOnlyFixed
<1>1. NInv /\ [Next]_vars =>
        \A o \in Objects, n \in Names :
          Frozen \subseteq props[o][n].attributes => props'[o][n] = props[o][n]
  BY NextKeeps DEF KeepsAll, Keeps
<1> QED
  BY <1>1, AlwaysKeeps, PTL DEF Spec, ReadOnlyFixed

(* Objects that are not extensible gain no property, under the same        *)
(* condition.                                                              *)
THEOREM NonExtensible ==
    ASSUME MaxDepth = 0
    PROVE  Spec => NonExtensibleGainsNothing
<1>1. NInv /\ [Next]_vars =>
        \A o \in Objects : ~extensible[o] =>
          ~extensible'[o] /\ \A n \in Names : Own(o, n)' => Own(o, n)
  BY NextKeeps DEF KeepsAll, Keeps, Own
<1> QED
  BY <1>1, AlwaysKeeps, PTL DEF Spec, NonExtensibleGainsNothing

(* Sealed stays sealed and frozen stays frozen, under the same condition.  *)
THEOREM IntegrityLevel ==
    ASSUME MaxDepth = 0
    PROVE  Spec => IntegrityLevelStays
<1>1. ASSUME NInv, [Next]_vars, NEW o \in Objects,
             NEW level \in {Sealed, Frozen}, IsImmutable(o, level)
      PROVE  IsImmutable(o, level)'
  <2>1. ~extensible[o] /\ KeepsAll
    BY <1>1, NextKeeps DEF IsImmutable
  <2>2. ASSUME NEW n \in Names, Own(o, n)' PROVE level \subseteq props'[o][n].attributes
    <3>1. Keeps(props[o][n], props'[o][n], extensible[o])
      BY <2>1 DEF KeepsAll
    <3>2. level \subseteq props[o][n].attributes
      BY <1>1, <2>1, <2>2, <3>1 DEF Keeps, Own, IsImmutable
    <3>3. CASE level = Sealed
      BY <3>1, <3>2, <3>3 DEF Keeps, Sealed
    <3>4. CASE level = Frozen
      BY <3>1, <3>2, <3>4 DEF Keeps
    <3> QED
      BY <3>3, <3>4
  <2> QED
    BY <2>1, <2>2 DEF IsImmutable, KeepsAll
<1>2. NInv /\ [Next]_vars =>
        \A o \in Objects, level \in {Sealed, Frozen} :
          IsImmutable(o, level) => IsImmutable(o, level)'
  BY <1>1
<1> QED
  BY <1>2, AlwaysKeeps, PTL DEF Spec, IntegrityLevelStays
============================================================================
