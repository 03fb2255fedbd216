------------------------------- MODULE JsonText -------------------------------
(***************************************************************************)
(* JSON as text (src/jplist.c, src/jsmn.c): what the reader takes from a   *)
(* string or a primitive, what the writer makes of a tree, and what a text *)
(* means. A text is a sequence of lexemes [type, text]; white space is     *)
(* left out. A string is a quoted lexeme, a primitive an unquoted one, as  *)
(* in OpenStepText. Its text is a sequence of characters as in the file.   *)
(* Some are named, and the four hexadecimal digits after \u are one.       *)
(***************************************************************************)
EXTENDS PlistTrees

CONSTANT MaxInt     \* INT64_MAX

Lexeme(type, text) == [type |-> type, text |-> text]
Mark(type) == Lexeme(type, <<>>)

Kind    == [dict |-> "{", array |-> "["]
Openers == {"{", "["}
Closer  == [t \in Openers |-> IF t = "{" THEN "}" ELSE "]"]
Type    == [t \in Openers |-> IF t = "{" THEN "dict" ELSE "array"]
Leaves  == {"quoted", "unquoted"}
Separators == {",", ":"}

-----------------------------------------------------------------------------
(***************************************************************************)
(* Strings                                                                 *)
(***************************************************************************)
Letter ==
    ("n" :> "LF") @@ ("t" :> "TAB") @@ ("b" :> "BS") @@ ("f" :> "FF") @@ ("\"" :> "\"")
    @@ ("\\" :> "\\") @@ ("/" :> "/")

\* The control characters for which there is no letter, and others.
Coded == ("0000" :> "NUL") @@ ("0001" :> "C1") @@ ("0004" :> "C4") @@ ("0041" :> "A")

\* A text cut into characters and escape sequences.
Units(text) ==
    LET units[i \in 1..(Len(text) + 3)] ==
            LET width == IF text[i] # "\\" THEN 1
                         ELSE IF i < Len(text) /\ text[i + 1] = "u" THEN 3 ELSE 2
            IN  IF i > Len(text) THEN <<>>
                ELSE <<SubSeq(text, i, IF i + width > Len(text) THEN Len(text) ELSE i + width - 1)>>
                     \o units[i + width]
    IN  units[1]

\* jsmn_parse_string looks at the letter after a backslash only.
well_escaped(text) ==
    \A unit \in ToSet(Units(text)) :
        unit[1] = "\\" => Len(unit) > 1 /\ unit[2] \in DOMAIN Letter \cup {"u"}

unescapes(text) ==
    \A unit \in ToSet(Units(text)) :
        /\ Len(unit) = 2 => unit[2] \in DOMAIN Letter
        /\ Len(unit) = 3 => unit[3] \in DOMAIN Coded

unescape_string(text) ==
    FlattenSeq([i \in DOMAIN Units(text) |->
        LET unit == Units(text)[i] IN
        IF Len(unit) = 1 THEN unit
        ELSE IF Len(unit) = 2 THEN <<Letter[unit[2]]>> ELSE <<Coded[unit[3]]>>])

\* A key goes through a C string.
c_string(value) ==
    LET ends == {i \in DOMAIN value : value[i] = "NUL"}
    IN  IF ends = {} THEN value ELSE SubSeq(value, 1, Least(ends) - 1)

\* What the writer puts for a character, a backslash excepted.
charmap ==
    ("LF" :> <<"\\", "n">>) @@ ("TAB" :> <<"\\", "t">>) @@ ("BS" :> <<"\\", "b">>)
    @@ ("FF" :> <<"\\", "f">>) @@ ("\"" :> <<"\\", "\"">>) @@ ("NUL" :> <<"\\", "u", "0000">>)
    @@ ("C1" :> <<"\\", "u", "0001">>) @@ ("C4" :> <<"\\", "u", "0004">>)

\* Slip: the quote is taken for an ordinary character.
escaped_slip(value) ==
    FlattenSeq([i \in DOMAIN value |->
        IF value[i] \in DOMAIN charmap \ {"\""} THEN charmap[value[i]] ELSE <<value[i]>>])

escaped(value) ==
    FlattenSeq([i \in DOMAIN value |->
        IF value[i] \in DOMAIN charmap THEN charmap[value[i]] ELSE <<value[i]>>])

\* A string the writer writes as it is meant.
Kept(value) == "\\" \notin ToSet(value)

-----------------------------------------------------------------------------
(***************************************************************************)
(* Primitives                                                              *)
(***************************************************************************)
Digit ==
    ("0" :> 0) @@ ("1" :> 1) @@ ("2" :> 2) @@ ("3" :> 3) @@ ("4" :> 4) @@ ("5" :> 5)
    @@ ("6" :> 6) @@ ("7" :> 7) @@ ("8" :> 8) @@ ("9" :> 9)

digit_at(text, i) == i \in DOMAIN text /\ text[i] \in DOMAIN Digit

\* The first place from i on that has no digit.
after_digits(text, i) == Least({j \in i..(Len(text) + 1) : ~digit_at(text, j)})

negative(text) == text # <<>> /\ text[1] = "-"
first_digit(text) == IF negative(text) THEN 2 ELSE 1

\* The number, as the writer prints it.
Printed(n) ==
    LET size == IF n < 0 THEN -n ELSE n
        print[m \in 0..size] ==
            (IF m < 10 THEN <<>> ELSE print[m \div 10])
            \o <<CHOOSE c \in DOMAIN Digit : Digit[c] = m % 10>>
    IN  (IF n < 0 THEN <<"-">> ELSE <<>>) \o print[size]

\* Slip: a negative number has the limit of the positive ones.
parse_decimal_slip(text) ==
    LET next(x, c) == IF x > MaxInt \div 10 \/ 10 * x + Digit[c] > MaxInt
                        THEN MaxInt ELSE 10 * x + Digit[c]
        x == FoldLeft(next, 0, SubSeq(text, first_digit(text), after_digits(text, first_digit(text)) - 1))
    IN  IF negative(text) THEN -x ELSE x

\* The digits that do not fit are swallowed.
parse_decimal(text) ==
    LET most == IF negative(text) THEN MaxInt + 1 ELSE MaxInt
        next(x, c) == IF x > MaxInt \div 10 \/ 10 * x + Digit[c] > most
                        THEN most ELSE 10 * x + Digit[c]
        x == FoldLeft(next, 0, SubSeq(text, first_digit(text), after_digits(text, first_digit(text)) - 1))
    IN  IF negative(text) THEN -x ELSE x

exponent_at(text, i) ==
    /\ i \in DOMAIN text /\ text[i] \in {"e", "E"}
    /\ \/ digit_at(text, i + 1)
       \/ i + 1 \in DOMAIN text /\ text[i + 1] \in {"-", "+"} /\ digit_at(text, i + 2)

\* What follows the exponent is not looked at.
is_real(text, i) ==
    \/ exponent_at(text, i)
    \/ /\ i \in DOMAIN text /\ text[i] = "." /\ digit_at(text, i + 1)
       /\ LET end == after_digits(text, i + 1) IN end > Len(text) \/ exponent_at(text, end)

Words == [false |-> <<"f", "a", "l", "s", "e">>, true |-> <<"t", "r", "u", "e">>,
          null  |-> <<"n", "u", "l", "l">>]

\* parse_primitive: the node, or NULL. A word may be cut short, even to nothing,
\* and the first of the words is taken. The value of a real is left out.
parse_primitive(text) ==
    LET end == after_digits(text, first_digit(text)) IN
    CASE IsPrefix(text, Words.false) -> Node("false", NULL)
      [] IsPrefix(text, Words.true) /\ text # <<>> -> Node("true", NULL)
      [] IsPrefix(text, Words.null) /\ text # <<>> -> Node("null", NULL)
      [] digit_at(text, first_digit(text)) /\ end > Len(text) ->
            Node("int", Printed(parse_decimal(text)))
      [] digit_at(text, first_digit(text)) /\ is_real(text, end) -> Node("real", NULL)
      [] OTHER -> NULL

-----------------------------------------------------------------------------
(***************************************************************************)
(* The writer                                                              *)
(***************************************************************************)
\* How a value is written that is no container; <<>> if it cannot be. With the
\* option PLIST_OPT_COERCE data becomes a string (in base64, left out here).
written_leaf(node, coerce) ==
    CASE node.type = "string" -> <<Lexeme("quoted", escaped(node.value))>>
      [] node.type = "int"    -> <<Lexeme("unquoted", node.value)>>
      [] node.type = "real"   -> <<Lexeme("unquoted", <<"0", ".", "0">>)>>
      [] node.type \in DOMAIN Words -> <<Lexeme("unquoted", Words[node.type])>>
      [] node.type = "data" /\ coerce -> <<Lexeme("quoted", node.value)>>
      [] OTHER -> <<>>

\* A comma before every item but the first.
joined(items) ==
    FlattenSeq([i \in DOMAIN items |-> (IF i = 1 THEN <<>> ELSE <<Mark(",")>>) \o items[i]])

\* The lexemes of node n and of its key.
node_to_json(h, n, coerce) ==
    LET text[m \in DOMAIN h] ==
            (IF h[m].key = NULL THEN <<>>
             ELSE <<Lexeme("quoted", escaped(h[m].key)), Mark(":")>>) \o
            (IF h[m].type \in Containers
               THEN <<Mark(Kind[h[m].type])>>
                    \o joined([i \in DOMAIN h[m].kids |-> text[h[m].kids[i]]])
                    \o <<Mark(Closer[Kind[h[m].type]])>>
               ELSE written_leaf(h[m], coerce))
    IN  text[n]

\* node_estimate_size looks through the whole tree before a byte is written.
node_estimate_size(h, n, coerce) ==
    IF \E m \in Below(h, n) : Depth(h, m) - Depth(h, n) > MaxNesting THEN PLIST_ERR_MAX_NESTING
    ELSE IF \E m \in Below(h, n) : h[m].type \notin Containers /\ written_leaf(h[m], coerce) = <<>>
      THEN PLIST_ERR_FORMAT
    ELSE PLIST_ERR_SUCCESS

\* plist_to_json_with_options: the code it returns.
plist_to_json(h, n, coerce) ==
    IF h[n].type \in Containers THEN node_estimate_size(h, n, coerce) ELSE PLIST_ERR_FORMAT

-----------------------------------------------------------------------------
(***************************************************************************)
(* What a text means                                                       *)
(***************************************************************************)
Opens(t)  == t.type \in Openers
Closes(t) == t.type \in {"}", "]"}
ClosingMark(t) == Closer[t.type]

Nest == INSTANCE Nesting WITH Closing <- ClosingMark

\* Separators mean nothing: the reader takes them where it finds them.
Bare(d) == SelectSeq(d, LAMBDA t : t.type \notin Separators)

\* The value that comes first, up to its end. What follows must only be nested
\* and spelled right.
FirstValue(d) == 1 .. (IF Opens(d[1]) THEN Nest!ClosedAt(d, 1) ELSE 1)

Spelled(t) ==
    /\ t.type \notin {"garbage", "unclosed"}
    /\ t.type = "quoted" => well_escaped(t.text)

SoundIn(d, i) ==
    /\ ~Closes(d[i]) => Cardinality(Nest!Around(d, i)) <= MaxNesting
    /\ d[i].type = "quoted" => unescapes(d[i].text)
    /\ d[i].type = "unquoted" => parse_primitive(d[i].text) # NULL
    /\ d[i].type = "{" =>
          LET inside == Nest!Inside(d, i) IN
          /\ Len(inside) % 2 = 0
          /\ \A k \in DOMAIN inside : k % 2 = 1 => d[inside[k]].type = "quoted"

\* An empty text is a false.
Valid(doc) ==
    LET d == Bare(doc) IN
    /\ \A i \in DOMAIN d : Spelled(d[i])
    /\ Nest!Balanced(d)
    /\ d # <<>> => \A i \in FirstValue(d) : SoundIn(d, i)

\* The number a text of digits names, brought into the range of 64 bits.
Clamped(text) ==
    LET digits == SubSeq(text, first_digit(text), Len(text))
        n == FoldLeft(LAMBDA x, c : 10 * x + Digit[c], 0, digits)
        value == IF negative(text) THEN -n ELSE n
    IN  Least({MaxInt, Most({-MaxInt - 1, value})})

LeafTree(t) ==
    IF t.type = "quoted" THEN Tree("string", unescape_string(t.text), <<>>)
    ELSE LET node == parse_primitive(t.text)
         IN  Tree(node.type, IF node.type = "int" THEN Printed(Clamped(t.text)) ELSE NULL, <<>>)

Trees(d) ==
    LET trees[i \in DOMAIN d] ==
            LET inside == Nest!Inside(d, i)
                named(k) == <<c_string(unescape_string(d[inside[2 * k - 1]].text)), trees[inside[2 * k]]>>
            IN  CASE d[i].type = "[" ->
                        Tree("array", NULL, [k \in DOMAIN inside |-> <<NULL, trees[inside[k]]>>])
                  [] d[i].type = "{" ->
                        Tree("dict", NULL, Merged([k \in 1..(Len(inside) \div 2) |-> named(k)]))
                  [] OTHER -> LeafTree(d[i])
    IN  trees

Meaning(doc) ==
    LET d == Bare(doc) IN
    IF d = <<>> THEN Tree("false", NULL, <<>>) ELSE Trees(d)[1]
=============================================================================
