-------------------------------- MODULE Json --------------------------------
(***************************************************************************)
(* JSON.stringify (json_object.cpp) with the code of the program that runs *)
(* in the middle of it: getters, toJSON functions and the replacer, which  *)
(* may change every object and throw.  JSON.parse is the operator Parse of *)
(* JsonText; it runs no such code without a reviver.                       *)
(*                                                                         *)
(* Values are those of JsonText, with objects by identity:                 *)
(* [type |-> "object", id].  An object on the heap has a kind, names in    *)
(* order and members; an array has a length and elements from 0 on.        *)
(* Which key user code is given is left out.                               *)
(***************************************************************************)
EXTENDS JsonText, FiniteSetsExt

CONSTANTS
    Texts,      \* texts given to JSON.parse
    Calls,      \* calls of JSON.stringify: [heap, listed, list, replacer, space], for
                \* object 1, with a list of names (if listed), a replacer or neither
    MaxInt,     \* the largest int
    MaxLength,  \* of the arrays that user code makes
    Returns     \* what user code returns besides its argument

ASSUME JsonAssumption == MaxInt \in Nat \ {0} /\ MaxLength \in Nat

VARIABLES
    text,       \* the argument of JSON.parse, if that is what is called
    heap,
    call,       \* stringify_state: what the arguments of JSON.stringify say
    nests,      \* class nest: the objects under way, with their partial texts
    current,    \* json_str: how far it is, and the value
    result

vars == <<text, heap, call, nests, current, result>>

Undefined == [type |-> "undefined"]
Nothing == [type |-> "nothing"]     \* no result yet, or no value under way
Thrown == [type |-> "thrown"]
Text(s) == [type |-> "text", text |-> s]

IsObject(v) == v.type = "object"
Top == Last(nests)
Depth == Len(nests)

----------------------------------------------------------------------------
(* The arguments.                                                          *)

\* stringify_state: names that are there are not inserted again
PropertyNames(list) ==
    FoldLeft(LAMBDA done, x : IF Contains(done, x) THEN done ELSE Append(done, x), <<>>, list)

\* gap_: a number larger than an int is converted to the smallest int, which is
\* what the instructions of the processor make of it
Gap(space) ==
    IF space.type = "text" THEN SubSeq(space.text, 1, IF Len(space.text) < 10 THEN Len(space.text) ELSE 10)
    ELSE LET n == IF space.number > MaxInt THEN -MaxInt - 1 ELSE space.number
         IN  [i \in 1 .. (IF n > 10 THEN 10 ELSE IF n < 0 THEN 0 ELSE n) |-> " "]

\* There are no getters and no functions toJSON (for a history variable)
NoUserCode(h) ==
    \A i \in DOMAIN h :
        ~h[i].toJSON /\ \A x \in DOMAIN h[i].member : h[i].member[x].type # "getter"

\* stringify_state::stringify_state
State(c) ==
    [list |-> PropertyNames(c.list), listed |-> c.listed, gap |-> Gap(c.space),
     replacer |-> c.replacer, quiet |-> ~c.replacer /\ NoUserCode(c.heap)]

----------------------------------------------------------------------------
(* User code.                                                              *)

Without(o, x) ==
    [o EXCEPT !.names = SelectSeq(@, LAMBDA y : y # x), !.member = Restrict(@, DOMAIN @ \ {x})]

\* What one assignment or delete makes of an object
Changed(o) ==
    CASE o.kind = "object" -> {Put(o, x, v) : x \in ToSet(o.names), v \in Returns}
                              \cup {Without(o, x) : x \in ToSet(o.names)}
      [] o.kind = "array" -> {[o EXCEPT !.elements = Front(@)] : i \in {1} \cap DOMAIN o.elements}
                             \cup {[o EXCEPT !.elements = Append(@, v)] : v \in Returns}
      [] OTHER -> {}

Bounded(o) == o.kind = "array" => Len(o.elements) <= MaxLength

\* User code is called with a value, and returns one, unless it throws
Throw ==
    /\ current' = Nothing /\ nests' = <<>> /\ result' = Thrown
    /\ UNCHANGED <<text, call>>

Returned(v, next) ==
    /\ \E w \in Returns \cup {v} : current' = [at |-> next, value |-> w]
    /\ UNCHANGED <<text, call, nests, result>>

UserCode(v, next) ==
    /\ \/ UNCHANGED heap
       \/ \E i \in DOMAIN heap : \E o \in Changed(heap[i]) :
            Bounded(o) /\ heap' = [heap EXCEPT ![i] = o]
    /\ Returned(v, next) \/ Throw

Pass(v, next) ==
    /\ current' = [at |-> next, value |-> v]
    /\ UNCHANGED <<text, heap, call, nests, result>>

----------------------------------------------------------------------------
(* json_str: a value is got, converted, replaced and written.              *)

\* The value that holder->get finds, Undefined if there is none
Member(i, k) ==
    LET o == heap[i]
    IN  IF o.kind = "array" THEN IF k + 1 \in DOMAIN o.elements THEN o.elements[k + 1] ELSE Undefined
        ELSE IF k \in DOMAIN o.member THEN o.member[k] ELSE Undefined

\* holder->get: a getter is user code
GetMember ==
    /\ current = Nothing /\ nests # <<>> /\ Top.next <= Len(Top.keys)
    /\ LET v == Member(Top.id, Top.keys[Top.next])
       IN  IF v.type = "getter" THEN UserCode(Undefined, "toJSON") ELSE Pass(v, "toJSON")

\* A function toJSON of an object is called
CallToJSON ==
    /\ current # Nothing /\ current.at = "toJSON"
    /\ LET v == current.value
       IN  IF IsObject(v) /\ heap[v.id].toJSON THEN UserCode(v, "replace") ELSE Pass(v, "replace")

\* call_replacer
CallReplacer ==
    /\ current # Nothing /\ current.at = "replace"
    /\ IF call.replacer THEN UserCode(current.value, "write") ELSE Pass(current.value, "write")

\* The value of a Boolean, Number or String object
Unwrapped(v) == IF IsObject(v) /\ heap[v.id].kind = "wrapper" THEN heap[v.id].value ELSE v

Colon == <<":">> \o (IF call.gap = <<>> THEN <<>> ELSE <<" ">>)
MemberText(s) == Quoted(Top.keys[Top.next]) \o Colon \o s.text
InArray == heap[Top.id].kind = "array"

\* Mutant: an element without a text is left out
WrittenCompact(s) ==
    IF s = Undefined THEN Top.parts ELSE Append(Top.parts, IF InArray THEN s.text ELSE MemberText(s))

\* The texts when that of the next member is there: for a member without one
\* arrays have null, objects nothing
Written(s) ==
    IF s # Undefined THEN Append(Top.parts, IF InArray THEN s.text ELSE MemberText(s))
    ELSE IF InArray THEN Append(Top.parts, Keywords.null) ELSE Top.parts

\* Mutant: a member that is left out is visited again
AfterWritten(s) == IF s = Undefined THEN Top.next ELSE Top.next + 1

\* The member after the one whose text is there
After(s) == Top.next + 1

\* json_str returns: its caller is json_stringify or the loop over members
Deliver(s) ==
    /\ current' = Nothing
    /\ IF nests = <<>> THEN result' = s /\ UNCHANGED nests
       ELSE /\ nests' = Append(Front(nests), [Top EXCEPT !.parts = Written(s), !.next = After(s)])
            /\ UNCHANGED result
    /\ UNCHANGED <<text, heap, call>>

PrimitiveText(v) ==
    CASE v.type = "string" -> Text(Quoted(v.text))
      [] v.type = "number" -> Text(v.text)
      [] v.type = "nan" -> Text(Keywords.null)
      [] v.type \in DOMAIN Keywords -> Text(Keywords[v.type])
      [] OTHER -> Undefined

WritePrimitive ==
    /\ current # Nothing /\ current.at = "write"
    /\ LET v == Unwrapped(current.value)
       IN  /\ IsObject(v) => heap[v.id].kind = "function"
           /\ Deliver(IF IsObject(v) THEN Undefined ELSE PrimitiveText(v))

\* stringify_state::push
UnderWay(i) == \E k \in DOMAIN nests : nests[k].id = i

\* The members that json_str_object or json_str_array visits
Keys(i) ==
    IF heap[i].kind = "array" THEN [k \in 1 .. Len(heap[i].elements) |-> k - 1]
    ELSE IF call.listed THEN call.list ELSE heap[i].names

\* nest::nest
Open ==
    /\ current # Nothing /\ current.at = "write"
    /\ LET v == Unwrapped(current.value)
       IN  /\ IsObject(v) /\ heap[v.id].kind \in {"object", "array"}
           /\ ~UnderWay(v.id)
           /\ nests' = Append(nests, [id |-> v.id, keys |-> Keys(v.id), next |-> 1, parts |-> <<>>])
    /\ current' = Nothing
    /\ UNCHANGED <<text, heap, call, result>>

\* An object within itself
OpenCyclic ==
    /\ current # Nothing /\ current.at = "write"
    /\ LET v == Unwrapped(current.value) IN IsObject(v) /\ UnderWay(v.id)
    /\ Throw
    /\ UNCHANGED heap

Repeated(s, n) == FlattenSeq([i \in 1 .. n |-> s])

\* The texts of the members put together; d is the depth of the members
Joined(left, parts, right, d) ==
    LET line(n) == IF call.gap = <<>> THEN <<>> ELSE <<"LF">> \o Repeated(call.gap, n)
        more == FlattenSeq([i \in 1 .. Len(parts) - 1 |-> <<",">> \o line(d) \o parts[i + 1]])
    IN  IF parts = <<>> THEN <<left, right>>
        ELSE <<left>> \o line(d) \o Head(parts) \o more \o line(d - 1) \o <<right>>

\* The loop has ended: json_str_object and json_str_array return, ~nest
Close ==
    /\ current = Nothing /\ nests # <<>> /\ Top.next > Len(Top.keys)
    /\ current' = [at |-> "close", value |->
                      Text(IF InArray THEN Joined("[", Top.parts, "]", Depth)
                           ELSE Joined("{", Top.parts, "}", Depth))]
    /\ nests' = Front(nests)
    /\ UNCHANGED <<text, heap, call, result>>

Return ==
    /\ current # Nothing /\ current.at = "close"
    /\ Deliver(current.value)

----------------------------------------------------------------------------

\* A call of JSON.parse, or of JSON.stringify
Init ==
    /\ nests = <<>> /\ result = Nothing
    /\ \/ /\ text \in Texts
          /\ heap = <<>> /\ call = Nothing /\ current = Nothing
       \/ \E c \in Calls :
            /\ text = <<>> /\ heap = c.heap /\ call = State(c)
            /\ current = [at |-> "toJSON", value |-> [type |-> "object", id |-> 1]]

\* The results, once for each text
Parsed == [t \in Texts |-> Parse(t)]

\* json_parse
ParseText ==
    /\ call = Nothing /\ result = Nothing
    /\ result' = Parsed[text]
    /\ UNCHANGED <<text, heap, call, nests, current>>

Next ==
    \/ ParseText
    \/ GetMember \/ CallToJSON \/ CallReplacer
    \/ WritePrimitive \/ Open \/ OpenCyclic \/ Close \/ Return

Spec == Init /\ [][Next]_vars /\ WF_vars(Next)
----------------------------------------------------------------------------
(* The grammar of JSON (ES5.1, 15.12.1) as a predicate on texts.  Numbers  *)
(* may begin with zeros here.                                              *)

From(s, i) == SubSeq(s, i, Len(s))
Upto(s, i) == SubSeq(s, 1, i)

IsNumber(s) ==
    LET digits(d) == d # <<>> /\ ToSet(d) \subseteq Digits
        parts(d, Starts(_), Rest(_)) == \E i \in 0 .. Len(d) : Starts(Upto(d, i)) /\ Rest(From(d, i + 1))
        exponent(d) == d = <<>> \/ (d[1] \in {"e", "E"} /\ parts(From(d, 2), LAMBDA x : x \in {<<>>, <<"+">>, <<"-">>}, digits))
        fraction(d) == parts(d, LAMBDA x : x = <<>> \/ (x[1] = "." /\ digits(From(x, 2))), exponent)
    IN  parts(s, LAMBDA x : x \in {<<>>, <<"-">>}, LAMBDA x : parts(x, digits, fraction))

IsString(s) ==
    LET start[i \in 1 .. Len(s) + 1] ==    \* a character of the string starts at i
            \/ i = 2
            \/ i > 2 /\ start[i - 1] /\ s[i - 1] \notin {"\"", "\\"} \cup Controls
            \/ i > 3 /\ start[i - 2] /\ s[i - 2] = "\\" /\ s[i - 1] \in SelfEscapes \cup DOMAIN Escapes
            \/ i > 7 /\ start[i - 6] /\ s[i - 6] = "\\" /\ s[i - 5] = "u"
                      /\ \A k \in i - 4 .. i - 1 : s[k] \in HexDigits
    IN  Len(s) > 1 /\ s[1] = "\"" /\ s[Len(s)] = "\"" /\ start[Len(s)]

IsSpace(s) == ToSet(s) \subseteq Space

RECURSIVE IsJSON(_), AreItems(_, _)

IsMember(s) ==
    \E i \in DOMAIN s :
        s[i] = ":" /\ IsJSON(From(s, i + 1))
        /\ \E a, b \in 0 .. i - 1 : a < b /\ IsSpace(Upto(s, a)) /\ IsSpace(SubSeq(s, b + 1, i - 1))
                                  /\ IsString(SubSeq(s, a + 1, b))

AreItems(s, members) ==
    \/ IF members THEN IsMember(s) ELSE IsJSON(s)
    \/ \E i \in DOMAIN s :
        /\ s[i] = ","
        /\ IF members THEN IsMember(Upto(s, i - 1)) ELSE IsJSON(Upto(s, i - 1))
        /\ AreItems(From(s, i + 1), members)

\* A value with white space around it
IsJSON(s) ==
    LET bare(x) ==
            \/ x \in Range(Keywords) \/ IsNumber(x) \/ IsString(x)
            \/ \E m \in BOOLEAN :
                /\ Len(x) > 1
                /\ x[1] = (IF m THEN "{" ELSE "[") /\ x[Len(x)] = (IF m THEN "}" ELSE "]")
                /\ LET inner == SubSeq(x, 2, Len(x) - 1) IN IsSpace(inner) \/ AreItems(inner, m)
        ink == {i \in DOMAIN s : s[i] \notin Space}
    IN  ink # {} /\ bare(SubSeq(s, Min(ink), Max(ink)))

----------------------------------------------------------------------------
(* Properties.                                                             *)

(* JSON.parse takes the texts of the grammar and rejects the others:       *)
(* commas, white space between all tokens, escapes and numbers included    *)
(* (json_lexer, json_parse_array, json_parse_object).                      *)
ParsesJson == call = Nothing /\ result # Nothing => (result # Invalid) = IsJSON(text)

(* JSON.stringify returns undefined, throws, or returns a text that        *)
(* JSON.parse takes, unless the indentation is none, and whatever user     *)
(* code has done to the objects in the meantime.                           *)
ResultIsJSON == call # Nothing /\ result.type = "text" /\ IsSpace(call.gap) => Parse(result.text) # Invalid

(* The value that a text stands for: functions and undefined are left out  *)
(* of objects and null in arrays, so is NaN; a list of names says what     *)
(* objects have.                                                           *)
RECURSIVE Meaning(_)
Meaning(v) ==
    LET u == Unwrapped(v)
        o == heap[u.id]
        names == IF call.listed THEN call.list ELSE o.names
        has(x) == x \in DOMAIN o.member /\ Meaning(o.member[x]) # Undefined
        said == SelectSeq(names, has)
        orNull(w) == IF w = Undefined THEN [type |-> "null"] ELSE w
    IN  IF ~IsObject(u) THEN IF u.type = "nan" THEN [type |-> "null"] ELSE u
        ELSE CASE o.kind = "function" -> Undefined
               [] o.kind = "array" -> [type |-> "array", elements |->
                                          [i \in DOMAIN o.elements |-> orNull(Meaning(o.elements[i]))]]
               [] OTHER -> [type |-> "object", names |-> said,
                            member |-> [x \in ToSet(said) |-> Meaning(o.member[x])]]

\* An object that is reached from itself, by the members that are visited
Cyclic ==
    LET objects(i) == {w \in {Unwrapped(Member(i, k)) : k \in ToSet(Keys(i))} : IsObject(w)}
        next(i) == IF heap[i].kind = "function" THEN {} ELSE {u.id : u \in objects(i)}
        reached(i) == LET r[n \in Nat] == IF n = 0 THEN next(i)
                                          ELSE LET t == r[n - 1] IN t \cup UNION {next(j) : j \in t}
                      IN  r[Cardinality(DOMAIN heap)]
    IN  \E i \in {1} \cup reached(1) : i \in reached(i)

(* When no user code runs, the text stands for the value, through every    *)
(* quoted character and any white space as indentation, and an error means *)
(* a cycle.                                                                *)
TextStandsForValue ==
    call # Nothing /\ call.quiet /\ result # Nothing =>
        IF Cyclic THEN result = Thrown
        ELSE IsSpace(call.gap) => result.type = "text" /\ Parse(result.text) = Meaning([type |-> "object", id |-> 1])

(* JSON.stringify ends, also when user code changes the objects under way  *)
(* or returns one that is: the names and the length are read before the    *)
(* loops (json_str_object, json_str_array), and an object within itself is *)
(* an error (stringify_state::push).                                       *)
StringifyEnds == <>(result # Nothing)
=============================================================================
