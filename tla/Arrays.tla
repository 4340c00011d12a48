------------------------------- MODULE Arrays -------------------------------
(***************************************************************************)
(* Arrays (array_object.cpp): how put keeps length_ and the elements       *)
(* together, the functions of Array.prototype that move elements, which    *)
(* work on any object with a length, and those that call user code in      *)
(* between (sort, forEach and its like, the conversion of a new length).   *)
(*                                                                         *)
(* One object, an array or not, is the receiver of everything.  Its        *)
(* elements are a partial function of the index; attributes only matter    *)
(* through preventExtensions, seal and freeze, that is the level.  Numbers *)
(* are uint32_t: they wrap at Modulus, whose predecessor is no index       *)
(* (invalid_index_value).  Not here: elements that are accessors, the      *)
(* other path of the functions for a length of max_normal_size and more,   *)
(* join, which makes a text, and the results of map, filter and reduce.    *)
(***************************************************************************)
EXTENDS Integers, Sequences, SequencesExt

CONSTANTS
    Values,         \* what programs store as elements
    Undefined,      \* the value undefined
    Hole,           \* where an array has no element
    Inherited,      \* the elements of the prototype
    Modulus,        \* stands for 2^32
    Receivers,      \* the objects a program starts with
    Calls,          \* the calls of functions that run no user code
    UserCalls,      \* those of them that user code makes in the middle of another
    Lengths,        \* the numbers assigned to length
    QuietLengths,   \* whether user code that converts a length only does that
    MaxDepth        \* bound: native functions waiting for user code

invalid_index_value == Modulus - 1
Indices == 0 .. Modulus - 1

\* Levels of integrity of an object
Extensible == 0
NotExtensible == 1
Sealed == 2
Frozen == 3

Elements == Values \cup {Undefined}
Objects ==
    [array : BOOLEAN, props : UNION {[D -> Elements] : D \in SUBSET Indices},
     length : Indices, level : Extensible .. Frozen]

\* The functions that run no user code
Methods == {"put", "delete", "length", "pop", "push", "shift", "unshift", "slice", "splice",
            "concat", "reverse", "indexOf", "lastIndexOf", "restrict"}

\* Their arguments: the numbers a and b, and items
CallOK(c) ==
    /\ c.m \in Methods
    /\ c.a \in Int /\ c.b \in Int /\ c.items \in Seq(Values)
    /\ c.m \in {"put", "delete", "length"} => c.a \in Indices
    /\ c.m \in {"put", "indexOf", "lastIndexOf"} => Len(c.items) = 1
    /\ c.m = "restrict" => c.a \in Extensible .. Frozen

\* Elements are below length, as the constructors of arrays leave them
IndicesBelow(x) ==
    x.array /\ x.level \in {Extensible, NotExtensible} =>
        \A i \in DOMAIN x.props : i < x.length \/ i = invalid_index_value

ASSUME ArraysAssumption ==
    /\ Modulus \in Nat \ {0, 1}
    /\ Hole \notin Elements
    /\ Inherited \in [DOMAIN Inherited -> Values]
    /\ DOMAIN Inherited \subseteq 0 .. Modulus - 2
    /\ Lengths \subseteq 0 .. Modulus - 1
    /\ UserCalls \subseteq Calls
    /\ \A c \in Calls : CallOK(c)
    /\ \A x \in Receivers : x \in Objects /\ IndicesBelow(x)
    /\ QuietLengths \in BOOLEAN
    /\ MaxDepth \in Nat

VARIABLES
    o,          \* the receiver
    frames,     \* native functions that wait for user code, the last runs
    undefined   \* why the behaviour of the program is undefined by now

vars == <<o, frames, undefined>>

\* undefined: it is not; a function used memory that an object has left; the
\* library sorted by a compare function that contradicts itself
Causes == {"none", "released", "overrun"}

Wrap(n) == n % Modulus
Smaller(a, b) == IF a < b THEN a ELSE b
Greater(a, b) == IF a > b THEN a ELSE b

----------------------------------------------------------------------------
(* Elements and length.                                                    *)

Own(x, i) == i \in DOMAIN x.props
Has(x, i) == Own(x, i) \/ i \in DOMAIN Inherited
Get(x, i) ==
    IF Own(x, i) THEN x.props[i]
    ELSE IF i \in DOMAIN Inherited THEN Inherited[i] ELSE Undefined

Store(x, i, v) ==
    [x EXCEPT !.props = [j \in DOMAIN @ \cup {i} |-> IF j = i THEN v ELSE @[j]]]

\* object::put
ObjectPut(x, i, v) ==
    IF (Own(x, i) /\ x.level = Frozen) \/ (~Own(x, i) /\ x.level # Extensible) THEN x
    ELSE Store(x, i, v)

CanPut(x, i) == Own(x, i) => x.level # Frozen

\* Mutant: length_ is only raised when an element is appended
GrownByOne(x, i) == IF i = x.length THEN [x EXCEPT !.length = i + 1] ELSE x

Grown(x, i) ==
    IF i # invalid_index_value /\ i >= x.length THEN [x EXCEPT !.length = i + 1] ELSE x

\* array_object::put of an element
ArrayPut(x, i, v) ==
    IF ~CanPut(x, i) \/ (i # invalid_index_value /\ x.level # Extensible /\ Own(x, i)) THEN x
    ELSE ObjectPut(Grown(x, i), i, v)

Put(x, i, v) == IF x.array THEN ArrayPut(x, i, v) ELSE ObjectPut(x, i, v)

Delete(x, i) ==
    IF x.level >= Sealed THEN x
    ELSE [x EXCEPT !.props = [j \in DOMAIN @ \ {i} |-> @[j]]]

\* The numbers from a to b - 1, and back
Up(a, b) == [k \in 1 .. Greater(b - a, 0) |-> a + k - 1]
Down(a, b) == Reverse(Up(a, b))

\* put_length: length_ is n, and the elements up to the old length go
Cut(x, old, n) == FoldLeft(Delete, [x EXCEPT !.length = n], Up(n, old))

PutLength(x, n) ==
    IF x.level = Frozen THEN x
    ELSE IF x.array THEN Cut(x, x.length, n) ELSE [x EXCEPT !.length = n]

NewArray == [array |-> TRUE, props |-> <<>>, length |-> 0, level |-> Extensible]

\* An object as a program sees it: with holes, and without
Shape(x) == [k \in 1 .. x.length |-> IF Has(x, k - 1) THEN Get(x, k - 1) ELSE Hole]
Contents(x) == [k \in 1 .. x.length |-> Get(x, k - 1)]

----------------------------------------------------------------------------
(* The functions that run no user code.  Each returns the receiver after   *)
(* it and its result.                                                      *)

Answer(x, r) == [o |-> x, r |-> r]

\* Mutant: a hole is not moved
MovePresent(x, from, to) == IF Has(x, from) THEN Put(x, to, Get(x, from)) ELSE x

Move(x, from, to) == IF Has(x, from) THEN Put(x, to, Get(x, from)) ELSE Delete(x, to)

\* The elements at ks, one after the other, move by d places
MoveTo(x, e) == Move(x, e[1], e[2])
MoveAll(x, ks, d) == FoldLeft(MoveTo, x, [j \in DOMAIN ks |-> <<ks[j], Wrap(ks[j] + d)>>])

\* Elements stored from position n on, which wraps
PutAt(x, e) == Put(x, e[1], e[2])
PutAll(x, n, items) ==
    FoldLeft(PutAt, x, [k \in DOMAIN items |-> <<Wrap(n + k - 1), items[k]>>])

Pop(x) ==
    LET l == x.length
    IN  IF l = 0 THEN Answer(PutLength(x, 0), <<Undefined>>)
        ELSE Answer(PutLength(Delete(x, l - 1), l - 1), <<Get(x, l - 1)>>)

Push(x, items) ==
    LET n == Wrap(x.length + Len(items))
    IN  Answer(PutLength(PutAll(x, x.length, items), n), <<n>>)

Shift(x) ==
    LET l == x.length
        moved == MoveAll(x, Up(1, l), -1)
    IN  IF l = 0 THEN Answer(PutLength(x, 0), <<Undefined>>)
        ELSE Answer(PutLength(moved, l - 1), <<Get(x, 0)>>)

Unshift(x, items) ==
    LET n == Wrap(x.length + Len(items))
        moved == MoveAll(x, Down(0, x.length), Len(items))
    IN  Answer(PutLength(PutAll(moved, 0, items), n), <<n>>)

calc_start_index(s, l) == IF s < 0 THEN Greater(0, l + s) ELSE Smaller(s, l)

Slice(x, start, end) ==
    LET a == calc_start_index(start, x.length)
        b == calc_start_index(end, x.length)
    IN  Answer(x, Shape(PutAll(NewArray, 0, SubSeq(Contents(x), a + 1, b))))

\* An element that is there is put into another object
PutFound(y, e) == IF e[2] = Hole THEN y ELSE Put(y, e[1], e[2])

Splice(x, s, count, items) ==
    LET l == x.length
        start == calc_start_index(s, l)
        deleted == Smaller(Greater(count, 0), l - start)
        added == Len(items)
        res == FoldLeft(PutFound, NewArray,
                        [k \in 1 .. deleted |-> <<k - 1, Shape(x)[start + k]>>])
        moved == CASE added < deleted ->
                        FoldLeft(Delete, MoveAll(x, Up(start + deleted, l), added - deleted),
                                 Down(l - deleted + added, l))
                   [] added > deleted -> MoveAll(x, Down(start + deleted, l), added - deleted)
                   [] OTHER -> x
    IN  Answer(PutLength(PutAll(moved, start, items), Wrap(l - deleted + added)),
               Shape(PutLength(res, deleted)))

\* array_concat with one more array: only what is there is appended
Concat(x, items) ==
    LET there(y) == FoldLeft(LAMBDA s, k : IF Has(y, k) THEN Append(s, Get(y, k)) ELSE s,
                             <<>>, Up(0, y.length))
    IN  Answer(x, (IF x.array THEN there(x) ELSE <<"this">>) \o items)

Exchange(x, k) ==
    LET j == x.length - k - 1
    IN  Put(Put(x, k, Get(x, j)), j, Get(x, k))

\* reverse reads the length once; an element at a time does not change it
Reversed(x) == Answer(FoldLeft(Exchange, x, Up(0, x.length \div 2)), <<>>)

\* array_index_of and array_last_index_of look at the elements one by one
Found(x, v, ks) ==
    LET is == {i \in DOMAIN ks : Has(x, ks[i]) /\ Get(x, ks[i]) = v}
    IN  <<IF is = {} THEN -1 ELSE ks[Min(is)]>>

IndexOf(x, v, n) ==
    LET l == x.length
        k == IF n >= 0 THEN n ELSE Greater(l + n, 0)
    IN  Answer(x, IF n >= l THEN <<-1>> ELSE Found(x, v, Up(k, l)))

LastIndexOf(x, v, n) ==
    LET l == x.length
        k == IF n >= 0 THEN Smaller(n, l - 1) ELSE l + n
    IN  Answer(x, IF l = 0 THEN <<-1>> ELSE Found(x, v, Down(0, k + 1)))

\* Object.preventExtensions, seal and freeze
Restrict_(x, level) == [x EXCEPT !.level = Greater(@, level)]

Apply(c, x) ==
    CASE c.m = "put" -> Answer(Put(x, c.a, c.items[1]), <<>>)
      [] c.m = "delete" -> Answer(Delete(x, c.a), <<>>)
      [] c.m = "length" -> Answer(PutLength(x, c.a), <<>>)
      [] c.m = "pop" -> Pop(x)
      [] c.m = "push" -> Push(x, c.items)
      [] c.m = "shift" -> Shift(x)
      [] c.m = "unshift" -> Unshift(x, c.items)
      [] c.m = "slice" -> Slice(x, c.a, c.b)
      [] c.m = "splice" -> Splice(x, c.a, c.b, c.items)
      [] c.m = "concat" -> Concat(x, c.items)
      [] c.m = "reverse" -> Reversed(x)
      [] c.m = "indexOf" -> IndexOf(x, c.items[1], c.a)
      [] c.m = "lastIndexOf" -> LastIndexOf(x, c.items[1], c.a)
      [] c.m = "restrict" -> Answer(Restrict_(x, c.a), <<>>)

----------------------------------------------------------------------------
(* The functions that wait for user code.  A frame is one of them:         *)
(*   each     k elements are done, the user's function runs for the next;  *)
(*   sort     the values read, while the user's compare function runs;     *)
(*   length   put_length, while the new length is converted.               *)
(* Each has references to the receiver in its C++ variables.  raw is a     *)
(* reference or this, which a collection leaves as it is; ptr is a pointer *)
(* (object_ptr, value), which a collection fixes up.                       *)
(* kept is history: the elements that were there all the time.             *)

\* map and filter are forEach, but for what they return
Each == {"every", "some", "forEach", "reduce", "reduceRight"}
References == {"none", "receiver", "released"}
Waiting == IF frames = <<>> THEN [m |-> "none"] ELSE Last(frames)

Quiet == QuietLengths /\ Waiting.m = "length"
MayCall == Len(frames) < MaxDepth /\ ~Quiet

Keep(fs, x) ==
    [i \in DOMAIN fs |-> [fs[i] EXCEPT !.kept = {k \in @ : Has(x, k)}]]

\* A function without user code, called by the program or by user code
Call(c) ==
    LET r == Apply(c, o)
    IN  /\ ~Quiet
        /\ o' = r.o
        /\ frames' = Keep(frames, r.o)
        /\ UNCHANGED undefined

Suspend(fs) ==
    /\ frames' = fs
    /\ UNCHANGED <<o, undefined>>

\* A function goes on by the reference r and makes the receiver x; or by one
\* to memory that is nobody's, and what happens to the program is undefined
StoreAndReturn(r, x) ==
    /\ o' = IF r = "receiver" THEN x ELSE o
    /\ undefined' = IF r = "receiver" THEN undefined ELSE "released"
    /\ frames' = Keep(Front(frames), o')

\* The index of step k of a function that goes from the left or the right
At(f, k) == IF f.m = "reduceRight" THEN f.len - 1 - k ELSE k

\* Mutant: the last element is left out
NextBeforeLast(f) ==
    LET there == {k \in f.k .. f.len - 2 : Has(o, At(f, k))}
    IN  IF there = {} THEN f.len ELSE CHOOSE k \in there : \A j \in there : k <= j

\* The next step that finds an element: len when there is none
NextStep(f) ==
    LET there == {k \in f.k .. f.len - 1 : Has(o, At(f, k))}
    IN  IF there = {} THEN f.len ELSE CHOOSE k \in there : \A j \in there : k <= j

\* for_each_helper and array_reduce: go on to the next call, or end
Proceed(f, below) ==
    LET k == NextStep(f)
    IN  Suspend(IF k = f.len THEN below
                ELSE Append(below, [f EXCEPT !.k = k, !.visited = @ \cup {At(f, k)}]))

EachBegin(m, initial) ==
    /\ MayCall
    /\ LET f == [m |-> m, k |-> 0, len |-> o.length, visited |-> {},
                 raw |-> "none", ptr |-> "receiver",
                 kept |-> {k \in 0 .. o.length - 1 : Has(o, k)}]
           k == NextStep(f)
       IN  IF m \notin {"reduce", "reduceRight"} \/ initial THEN Proceed(f, frames)
           \* The first element is taken for the initial value; TypeError if there is none
           ELSE k < f.len /\ Proceed([f EXCEPT !.k = k + 1, !.visited = {At(f, k)}], frames)

\* The user's function returns for the current element, and says yes or no
EachReturn(yes) ==
    LET f == Waiting
    IN  /\ f.m \in Each
        /\ IF f.m = (IF yes THEN "some" ELSE "every") THEN Suspend(Front(frames))
           ELSE IF f.ptr = "receiver" THEN Proceed([f EXCEPT !.k = @ + 1], Front(frames))
           ELSE StoreAndReturn(f.ptr, o)

SortBegin ==
    /\ MayCall
    /\ Suspend(Append(frames, [m |-> "sort", values |-> Contents(o), kept |-> {},
                               raw |-> "receiver", ptr |-> "receiver"]))

\* What std::stable_sort leaves, which only compares and moves: some
\* permutation; sort_compare puts undefined last
Sorted(l) ==
    {[k \in DOMAIN l |-> l[p[k]]] : p \in
        {q \in [DOMAIN l -> DOMAIN l] :
            /\ \A j, k \in DOMAIN l : j # k => q[j] # q[k]
            /\ \A j, k \in DOMAIN l : j < k /\ l[q[j]] = Undefined => l[q[k]] = Undefined}}

\* Mutant: sort goes on with the reference it took at the beginning
SortBeforehand(f) == f.raw

\* o_after: the reference is taken again after the calls of user code
SortRecaptured(f) == f.ptr

\* Mutant: only as much as the receiver is long by now
SortStoredShort(l) == PutAll(o, 0, SubSeq(l, 1, Smaller(Len(l), o.length)))

SortStored(l) == PutAll(o, 0, l)

SortEnd(l) ==
    /\ Waiting.m = "sort"
    /\ StoreAndReturn(SortRecaptured(Waiting), SortStored(l))

\* A compare function that answers for the same two values first no, then
\* yes: behaviour is undefined, and the library may run past the first value
SortOverrun ==
    /\ Waiting.m = "sort"
    /\ \E j, k \in DOMAIN Waiting.values :
            j # k /\ Waiting.values[j] # Undefined /\ Waiting.values[k] # Undefined
    /\ undefined' = "overrun"
    /\ frames' = Front(frames)
    /\ UNCHANGED o

\* An assignment of an object to length, which to_number converts
LengthBegin(n) ==
    /\ o.array
    /\ o.level # Frozen
    /\ MayCall
    /\ Suspend(Append(frames, [m |-> "length", n |-> n, old |-> o.length, kept |-> {},
                               raw |-> "receiver", ptr |-> "none"]))

\* length_ and the elements are those of this
LengthEnd ==
    /\ Waiting.m = "length"
    /\ StoreAndReturn(Waiting.raw, Cut(o, Waiting.old, Waiting.n))

\* User code throws: the native function ends
Throw ==
    /\ frames # <<>>
    /\ Suspend(Front(frames))

\* A statement of user code collects garbage, which moves the receiver
LeftBehind(r) == IF r = "none" THEN r ELSE "released"
FixedUp(r) == IF r = "none" THEN r ELSE "receiver"
Moved(f) == [f EXCEPT !.raw = LeftBehind(@), !.ptr = FixedUp(@)]

Collect ==
    /\ frames # <<>>
    /\ ~Quiet
    /\ Suspend([i \in DOMAIN frames |-> Moved(frames[i])])

----------------------------------------------------------------------------

Init ==
    /\ o \in Receivers
    /\ frames = <<>>
    /\ undefined = "none"

Step ==
    \/ \E c \in IF frames = <<>> THEN Calls ELSE UserCalls : Call(c)
    \/ \E m \in Each, initial \in BOOLEAN : EachBegin(m, initial)
    \/ \E yes \in BOOLEAN : EachReturn(yes)
    \/ SortBegin
    \/ Waiting.m = "sort" /\ \E l \in Sorted(Waiting.values) : SortEnd(l)
    \/ SortOverrun
    \/ \E n \in Lengths : LengthBegin(n)
    \/ LengthEnd
    \/ Throw
    \/ Collect

\* When the behaviour is undefined, nothing more is said of the program
Next ==
    \/ undefined = "none" /\ Step
    \/ undefined # "none" /\ UNCHANGED vars

Spec == Init /\ [][Next]_vars

----------------------------------------------------------------------------
(* Properties.                                                             *)

Through(s) ==
    [k \in DOMAIN s |-> IF s[k] = Hole /\ k - 1 \in DOMAIN Inherited THEN Inherited[k - 1] ELSE s[k]]
Values_(s) == [k \in DOMAIN s |-> IF s[k] = Hole THEN Undefined ELSE s[k]]
Holes(n) == [k \in 1 .. n |-> Hole]

\* What the receiver s becomes: the functions by what they do to a sequence
Expected(c, s) ==
    LET l == Len(s)
        start == IF c.a < 0 THEN Greater(l + c.a, 0) ELSE Smaller(c.a, l)
        rest == start + Smaller(Greater(c.b, 0), l - start)
    IN  CASE c.m = "pop" -> SubSeq(s, 1, l - 1)
          [] c.m = "push" -> s \o c.items
          [] c.m = "shift" -> SubSeq(s, 2, l)
          [] c.m = "unshift" -> c.items \o s
          [] c.m = "splice" -> SubSeq(s, 1, start) \o c.items \o SubSeq(s, rest + 1, l)
          [] c.m = "reverse" -> [k \in 1 .. l |-> s[l - k + 1]]
          [] c.m = "length" -> IF c.a < l THEN SubSeq(s, 1, c.a) ELSE s \o Holes(c.a - l)
          [] c.m = "put" -> [k \in 1 .. Greater(l, c.a + 1) |->
                                IF k = c.a + 1 THEN c.items[1] ELSE IF k <= l THEN s[k] ELSE Hole]
          [] OTHER -> s

\* What they return; the result of a search is the first match in its order
ExpectedResult(c, s) ==
    LET l == Len(s)
        start == IF c.a < 0 THEN Greater(l + c.a, 0) ELSE Smaller(c.a, l)
        end == IF c.b < 0 THEN Greater(l + c.b, 0) ELSE Smaller(c.b, l)
        rest == start + Smaller(Greater(c.b, 0), l - start)
        last == IF c.a < 0 THEN l + c.a ELSE Smaller(c.a, l - 1)
        matches(ks) == {k \in ks : s[k + 1] = c.items[1]}
    IN  CASE c.m \in {"pop", "shift"} -> IF l = 0 THEN <<Undefined>>
                                         ELSE Values_(<<s[IF c.m = "pop" THEN l ELSE 1]>>)
          [] c.m \in {"push", "unshift"} -> <<l + Len(c.items)>>
          [] c.m = "slice" -> Values_(SubSeq(s, start + 1, end))
          [] c.m = "splice" -> Through(SubSeq(s, start + 1, rest))
          [] c.m = "indexOf" ->
                <<IF matches(start .. l - 1) = {} THEN -1
                  ELSE CHOOSE k \in matches(start .. l - 1) : \A j \in matches(start .. l - 1) : k <= j>>
          [] c.m = "lastIndexOf" ->
                <<IF matches(0 .. last) = {} THEN -1
                  ELSE CHOOSE k \in matches(0 .. last) : \A j \in matches(0 .. last) : k >= j>>
          [] OTHER -> <<>>

(* No element of an extensible array, or of one that preventExtensions     *)
(* was called on, has an index of length or above, after any sequence of   *)
(* the operations, those by user code in the middle of sort and of the     *)
(* functions with a callback included; user code that converts a length    *)
(* leaves the array alone (QuietLengths) (array_object::put and             *)
(* put_length; ES3, 15.4).                                                 *)
IndicesBelowLength == IndicesBelow(o)

(* The functions that move elements one by one do to holes, to inherited   *)
(* elements and at both ends what they do to a sequence (array_pop, _push, *)
(* _shift, _unshift, _slice, _splice, reverse, array_index_of,             *)
(* array_last_index_of, put and put_length), as long as length is not      *)
(* exhausted.  reverse may turn a hole into undefined, see Exchange.       *)
MethodsAsSpecified ==
    frames = <<>> => \A c \in Calls :
        LET s == Shape(o)
            r == Apply(c, o)
            same(x) == IF c.m = "reverse" THEN Values_(x) = Contents(r.o)
                       ELSE Through(x) = Shape(r.o)
        IN  /\ c.m \notin {"concat", "delete", "restrict"}
            /\ o.level = Extensible
            /\ Len(s) + Len(c.items) < Modulus
            /\ c.m \in {"put", "length"} => o.array /\ c.a # invalid_index_value
            => same(Expected(c, s)) /\ r.r = ExpectedResult(c, s)

(* forEach, map, filter, reduce and reduceRight call the user's function   *)
(* for each element that is there from the beginning to the end, for no    *)
(* element twice and for none that is not there at its turn, however the   *)
(* function changes the receiver (for_each_helper, array_reduce).          *)
EachCall(f, g) ==
    f.m \in Each =>
        /\ Len(frames') = Len(frames) /\ g.k # f.k =>
            At(g, g.k) \notin f.visited /\ Has(o, At(g, g.k))
        /\ Len(frames') < Len(frames) /\ f.m \notin {"every", "some"}
            /\ (\E yes \in BOOLEAN : EachReturn(yes)) => f.kept \subseteq f.visited

EachElementOnce == [][EachCall(Waiting, Last(frames'))]_vars

\* How often v is in s
Times(s, v) == Cardinality({k \in DOMAIN s : s[k] = v})

(* sort loses and duplicates nothing: whatever the compare function does   *)
(* to the receiver, the elements below the length that sort saw are those  *)
(* it read, undefined last (Array.prototype.sort).                         *)
SortKeepsElements ==
    [][ LET l == Waiting.values
            new == [k \in DOMAIN l |-> Get(o', k - 1)]
        IN  /\ Waiting.m = "sort" /\ Len(frames') < Len(frames) /\ o.level = Extensible
            /\ \E s \in Sorted(l) : SortEnd(s)
            => /\ \A v \in Elements : Times(l, v) = Times(new, v)
               /\ \A j, k \in DOMAIN l : j < k /\ new[j] = Undefined => new[k] = Undefined ]_vars

(* No native function goes on with a reference to an object that user code *)
(* may have moved ("this has possibly become invalid here", sort).         *)
NoStaleThis == undefined # "released"

(* Of the functions that wait for user code only put_length, which works   *)
(* on this, goes on by a reference to memory the object may have left:     *)
(* those with a callback have a pointer, and sort takes its reference      *)
(* again (for_each_helper, array_reduce, sort).                            *)
OnlyLengthGoesStale ==
    [][undefined' = "released" /\ undefined # "released" => Waiting.m = "length"]_vars

----------------------------------------------------------------------------
(* What the proofs need besides: types, and what the waiting functions     *)
(* know.                                                                   *)

\* Their types say too that a pointer always leads to the receiver
Frames ==
    [m : Each, k : Indices, len : Indices, visited : SUBSET Indices, kept : SUBSET Indices,
     raw : {"none"}, ptr : {"receiver"}]
    \cup [m : {"sort"}, values : {s \in Seq(Elements) : Len(s) < Modulus}, kept : SUBSET Indices,
           raw : References, ptr : {"receiver"}]
    \cup [m : {"length"}, n : Indices, old : Indices, kept : SUBSET Indices,
           raw : References, ptr : {"none"}]

TypeOK ==
    /\ o \in Objects
    /\ frames \in Seq(Frames)
    /\ undefined \in Causes

(* If user code that converts a length only does that, nothing happens to  *)
(* the array between the two ends of put_length.                           *)
LengthsInv ==
    \A k \in DOMAIN frames : frames[k].m = "length" =>
        k = Len(frames) /\ o.array /\ frames[k].old = o.length

ArrayInv == TypeOK /\ IndicesBelowLength /\ LengthsInv

(* A call of the user's function is under way for step k: those before it  *)
(* are done, and what has been in x all the time is still to come or was   *)
(* visited.                                                                *)
Progress(x, f) ==
    /\ f.k < f.len
    /\ \A i \in f.visited : \E j \in 0 .. f.k : i = At(f, j)
    /\ \A i \in f.kept : Has(x, i) /\ (i \in f.visited \/ \E j \in f.k + 1 .. f.len - 1 : i = At(f, j))

EachInv == TypeOK /\ \A k \in DOMAIN frames : frames[k].m \in Each => Progress(o, frames[k])
=============================================================================
