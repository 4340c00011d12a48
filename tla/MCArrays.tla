------------------------------ MODULE MCArrays ------------------------------
(***************************************************************************)
(* Arrays with indices 0 to 2, so that length reaches its end in three     *)
(* steps, over two values and a prototype with one element.                *)
(***************************************************************************)
EXTENDS Arrays, TLC

CONSTANTS v1, v2

MCValues == {v1, v2}
MCInherited == 1 :> v2
MCModulus == 4
MCLengths == 0 .. 2

Object(array, props, length) ==
    [array |-> array, props |-> props, length |-> length, level |-> 0]

\* What Array(), Array(n), Array(x, y), and an object literal make
MCReceivers ==
    {Object(TRUE, <<>>, 0), Object(TRUE, <<>>, 2), Object(TRUE, 0 :> v1 @@ 1 :> v2, 2),
     Object(FALSE, 0 :> v1, 2), Object(FALSE, 0 :> v1 @@ 2 :> v2, 2)}

C(m, x, y, items) == [m |-> m, a |-> x, b |-> y, items |-> items]
Items == {<<>>, <<v1>>, <<v1, v2>>}
MCCalls ==
    {C("put", i, 0, <<v1>>) : i \in 0 .. 2}
    \cup {C("delete", i, 0, <<>>) : i \in 0 .. 2}
    \cup {C("length", n, 0, <<>>) : n \in MCLengths}
    \cup {C(m, 0, 0, <<>>) : m \in {"pop", "shift", "reverse"}}
    \cup {C(m, 0, 0, s) : m \in {"push", "unshift", "concat"}, s \in Items}
    \cup {C("slice", x, y, <<>>) : x \in {0, 1, -1}, y \in {-1, 3}}
    \cup {C("splice", x, y, s) : x \in {0, 1, -1}, y \in {0, 1, 2}, s \in Items}
    \cup {C(m, x, 0, <<v2>>) : m \in {"indexOf", "lastIndexOf"}, x \in {0, 1, -1, 2}}
    \cup {C("restrict", level, 0, <<>>) : level \in 1 .. 3}
MCUserCalls ==
    {c \in MCCalls : c.m \in {"delete", "shift"} \/ (c.m = "length" /\ c.a # 1)
                     \/ (c.m = "unshift" /\ Len(c.items) = 1)}
=============================================================================
