------------------------------- MODULE MCJson -------------------------------
(***************************************************************************)
(* Texts of a few pieces for JSON.parse: of structure, of numbers and of   *)
(* strings; and heaps for JSON.stringify: characters that need escapes and *)
(* values without a text, cycles, and objects with getters and toJSON.     *)
(***************************************************************************)
EXTENDS Json

\* Texts of up to n pieces
TextsOf(pieces, n) == UNION {{FlattenSeq(p) : p \in [1 .. k -> pieces]} : k \in 0 .. n}

Key == <<"\"", "a", "\"">>
MCTexts ==
    TextsOf({<<"[">>, <<"]">>, <<",">>, <<" ">>, <<"1">>}, 5)
    \cup TextsOf({<<"{">>, <<"}">>, <<",">>, <<":">>, <<"LF">>, Key}, 4)
    \cup {<<"{">> \o t \o <<"}">> : t \in TextsOf({<<",">>, <<" ">>, <<"1">>, Key, <<":">>}, 5)}
    \cup {t \o u : t, u \in TextsOf({<<"[">>, <<"{">> \o Key \o <<":">>, <<"}">>, <<"]">>}, 2)}
    \cup TextsOf({<<"-">>, <<"0">>, <<".">>, <<"e">>, <<"+">>}, 5)
    \cup {<<"\"">> \o t : t \in TextsOf({<<"\"">>, <<"\\">>, <<"u">>, <<"0">>, <<"n">>, <<"TAB">>}, 4)}
    \cup {<<"\"", "\\", "u">> \o t : t \in TextsOf({<<"0">>, <<"1">>, <<"\"">>}, 6)}
    \cup TextsOf({Keywords.null, Keywords.false, <<"n">>, <<" ">>}, 3)

Num(c) == [type |-> "number", text |-> <<c>>]
Str(s) == [type |-> "string", text |-> s]
Obj(i) == [type |-> "object", id |-> i]
Getter == [type |-> "getter"]
Null == [type |-> "null"]

X == <<"x">>
Y == <<"\"", "\\">>

Object(names, member) ==
    [kind |-> "object", names |-> names, member |-> member, elements |-> <<>>, toJSON |-> FALSE]
Array(elements) == [Object(<<>>, <<>>) EXCEPT !.kind = "array", !.elements = elements]
Function == [Object(<<>>, <<>>) EXCEPT !.kind = "function"]
Wrapper(v) == [Object(<<>>, <<>>) EXCEPT !.kind = "wrapper"] @@ [value |-> v]
XY(v, w) == Object(<<X, Y>>, X :> v @@ Y :> w)

Escaped == Str(<<"\"", "\\", "TAB", "U1", "/">>)
Primitives == {Escaped, [type |-> "nan"], Undefined, Null}

\* Without user code, by objects 2 to 4
QuietHeaps ==
    {<<XY(v, w), Array(<<u, Num("1")>>), Function, Wrapper(Num("2"))>> :
        v, w \in Primitives \cup {Obj(2), Obj(3)}, u \in Primitives \cup {Obj(1), Obj(3), Obj(4)}}

\* Members and elements that user code changes under way
UserHeaps ==
    {<<XY(Getter, Obj(2)), Array(<<Null>>)>>,
     <<[XY(Obj(2), Null) EXCEPT !.toJSON = TRUE], Array(<<Undefined>>)>>,
     <<Array(<<Obj(2)>>), [Object(<<X>>, X :> Obj(1)) EXCEPT !.toJSON = TRUE]>>}

Spaces(n) == [type |-> "number", number |-> n]
NoGap == Spaces(0)
Call(h, replacer, space) ==
    [heap |-> h, listed |-> FALSE, list |-> <<>>, replacer |-> replacer, space |-> space]

MCCalls ==
    {Call(h, FALSE, space) : h \in QuietHeaps,
        space \in {NoGap, Spaces(2), Spaces(101), [type |-> "text", text |-> <<"-">>]}}
    \cup {[Call(h, FALSE, NoGap) EXCEPT !.listed = TRUE, !.list = l] :
            h \in QuietHeaps, l \in {<<X, Y, X>>, <<Y>>}}
    \cup {Call(h, r, NoGap) : h \in UserHeaps, r \in BOOLEAN}

MCReturns == {Obj(1), Obj(2), Undefined}
=============================================================================
