------------------------------ MODULE JsonText ------------------------------
(***************************************************************************)
(* The text of JSON (json_object.cpp): the tokens of json_lexer, what      *)
(* json_parse makes of them, and json_quote.  A text is a sequence of      *)
(* characters: one-letter strings, and names for control characters.  An   *)
(* error is a SyntaxError, of which only the fact is kept.                 *)
(*                                                                         *)
(* Values are [type |-> "null", "true", "false" or "undefined"],           *)
(* [type |-> "number" or "string", text], [type |-> "array", elements] and *)
(* [type |-> "object", names, member], names in the order of insertion.    *)
(***************************************************************************)
EXTENDS Integers, Sequences, FiniteSets, SequencesExt, Functions, Once

Space == {" ", "TAB", "CR", "LF"}
Digits == {"0", "1", "2", "3", "4", "5", "6", "7", "8", "9"}
HexDigits == Digits \cup {"a", "b", "c", "d", "e", "f", "A", "B", "C", "D", "E", "F"}

\* The characters below U+0020; U1 is one without an escape of its own
Controls == {"BS", "TAB", "LF", "FF", "CR", "U1"}

\* The letter of an escape sequence, and what it stands for
Escapes == [b |-> "BS", f |-> "FF", n |-> "LF", r |-> "CR", t |-> "TAB"]
SelfEscapes == {"\"", "/", "\\"}

Keywords == [null |-> <<"n", "u", "l", "l">>, true |-> <<"t", "r", "u", "e">>,
             false |-> <<"f", "a", "l", "s", "e">>]

Invalid == [type |-> "invalid"]

\* The character at i, "" at the end
At(t, i) == IF i \in DOMAIN t THEN t[i] ELSE ""

\* The first position from i that has no character of a set
RunEnd(t, i, chars) ==
    CHOOSE j \in i .. Len(t) + 1 : At(t, j) \notin chars /\ \A k \in i .. j - 1 : t[k] \in chars

----------------------------------------------------------------------------
(* Tokens: [type, end], the end being where the next token starts.         *)

\* A number: leading zeros are taken, whatever follows is the next token
Number(t, i) ==
    LET fraction(int) == IF At(t, int) = "." THEN RunEnd(t, int + 1, Digits) ELSE int
        exponent(f) == At(t, f) \in {"e", "E"}
        digits(f) == IF At(t, f + 1) \in {"+", "-"} THEN f + 2 ELSE f + 1
        last(f) == IF exponent(f) THEN RunEnd(t, digits(f), Digits) ELSE f
        number(int, f, end) ==
            IF /\ t[i] = "-" => int > i + 1
               /\ At(t, int) = "." => f > int + 1
               /\ exponent(f) => end > digits(f)
            THEN [type |-> "number", text |-> SubSeq(t, i, end - 1), end |-> end]
            ELSE Invalid
    IN  Once(RunEnd(t, i + 1, Digits), LAMBDA int :
            Once(fraction(int), LAMBDA f : Once(last(f), LAMBDA end : number(int, f, end))))

\* The code unit of four hexadecimal digits
Unit(h) == IF h = <<"0", "0", "0", "1">> THEN "U1" ELSE h

\* The characters of a string literal from i on; s is what came before
RECURSIVE String(_, _, _)
String(t, i, s) ==
    LET e == At(t, i + 1)
    IN  CASE i > Len(t) \/ t[i] \in Controls -> Invalid
          [] t[i] = "\"" -> [type |-> "string", text |-> s, end |-> i + 1]
          [] t[i] \notin {"\"", "\\"} -> String(t, i + 1, Append(s, t[i]))
          [] e \in SelfEscapes -> String(t, i + 2, Append(s, e))
          [] e \in DOMAIN Escapes -> String(t, i + 2, Append(s, Escapes[e]))
          [] e = "u" /\ \A k \in i + 2 .. i + 5 : At(t, k) \in HexDigits ->
                String(t, i + 6, Append(s, Unit(SubSeq(t, i + 2, i + 5))))
          [] OTHER -> Invalid

\* next_token at i
Token(t, i) ==
    LET c == At(t, i)
        keyword == {k \in DOMAIN Keywords : IsPrefix(Keywords[k], SubSeq(t, i, Len(t)))}
    IN  CASE c = "" -> [type |-> "eof", end |-> i]
          [] c \in {"[", "]", "{", "}", ",", ":"} -> [type |-> c, end |-> i + 1]
          [] c \in Digits \cup {"-"} -> Number(t, i)
          [] c = "\"" -> String(t, i + 1, <<>>)
          [] keyword # {} ->
                LET k == CHOOSE k \in keyword : TRUE IN [type |-> k, end |-> i + Len(Keywords[k])]
          [] OTHER -> Invalid

\* skip_whitespace, and the token that is then current
Current(t, i) == Token(t, RunEnd(t, i, Space))

----------------------------------------------------------------------------
(* json_parse.  A value that has been parsed comes with the position after *)
(* it: [value, end], or it is Invalid.                                     *)

\* object::put: a name that is there keeps its place
Put(o, x, v) ==
    [o EXCEPT !.names = IF Contains(@, x) THEN @ ELSE Append(@, x),
              !.member = [y \in DOMAIN @ \cup {x} |-> IF y = x THEN v ELSE @[y]]]

NoMembers == [type |-> "object", names |-> <<>>, member |-> <<>>]

\* Mutant: a comma may be left out
ItemLenient(t, i, first) ==
    IF ~first /\ Current(t, i).type = "," THEN Current(t, i).end ELSE i

\* Where the next element or member starts: after a comma, unless it is the
\* first; 0 when the comma is missing
Item(t, i, first) ==
    IF first THEN i ELSE IF Current(t, i).type = "," THEN Current(t, i).end ELSE 0

RECURSIVE Value(_, _), Elements(_, _, _), Members(_, _, _)

\* json_parse_array
Elements(t, i, done) ==
    LET more(v) == IF v = Invalid THEN Invalid ELSE Elements(t, v.end, Append(done, v.value))
        start == Item(t, i, done = <<>>)
    IN  IF Current(t, i).type = "]"
        THEN [value |-> [type |-> "array", elements |-> done], end |-> Current(t, i).end]
        ELSE IF start = 0 THEN Invalid ELSE Once(Value(t, start), more)

\* json_parse_object
Members(t, i, done) ==
    LET more(key, v) ==
            IF v = Invalid THEN Invalid ELSE Members(t, v.end, Put(done, key.text, v.value))
        value(key, colon) ==
            IF colon.type # ":" THEN Invalid
            ELSE Once(Value(t, colon.end), LAMBDA v : more(key, v))
        member(key) ==
            IF key.type # "string" THEN Invalid
            ELSE Once(Current(t, key.end), LAMBDA colon : value(key, colon))
        start == Item(t, i, done = NoMembers)
    IN  IF Current(t, i).type = "}" THEN [value |-> done, end |-> Current(t, i).end]
        ELSE IF start = 0 THEN Invalid ELSE Once(Current(t, start), member)

\* json_parse_value
Value(t, i) ==
    LET parse(k) ==
            CASE k.type \in DOMAIN Keywords -> [value |-> [type |-> k.type], end |-> k.end]
              [] k.type \in {"number", "string"} ->
                    [value |-> [type |-> k.type, text |-> k.text], end |-> k.end]
              [] k.type = "[" -> Elements(t, k.end, <<>>)
              [] k.type = "{" -> Members(t, k.end, NoMembers)
              [] OTHER -> Invalid
    IN  Once(Current(t, i), parse)

\* json_parse without a reviver
Parse(t) ==
    LET whole(v) == IF v = Invalid \/ Current(t, v.end).type # "eof" THEN Invalid ELSE v.value
    IN  Once(Value(t, 1), whole)

----------------------------------------------------------------------------

\* Mutant: a backslash is written as it is
QuotedUnescaped(s) ==
    LET written(c) == IF c = "\"" THEN <<"\\", "\"">> ELSE <<c>>
    IN  <<"\"">> \o FlattenSeq([i \in DOMAIN s |-> written(s[i])]) \o <<"\"">>

\* json_quote
Quoted(s) ==
    LET written(c) ==
            CASE c \in {"\"", "\\"} -> <<"\\", c>>
              [] c \in Range(Escapes) -> <<"\\", CHOOSE e \in DOMAIN Escapes : Escapes[e] = c>>
              [] c = "U1" -> <<"\\", "u", "0", "0", "0", "1">>
              [] OTHER -> <<c>>
    IN  <<"\"">> \o FlattenSeq([i \in DOMAIN s |-> written(s[i])]) \o <<"\"">>
=============================================================================
