----------------------------- MODULE OpenStepText -----------------------------
(***************************************************************************)
(* OpenStep property lists as text (src/oplist.c): what the reader takes   *)
(* from a string, what the writer makes of a tree, and what a text means.  *)
(* A text is a sequence of lexemes [type, text] with white space between   *)
(* them; that and comments are left out. A string is quoted or not and has *)
(* a sequence of characters as in the file. Some characters are named, and *)
(* the hexadecimal digits after \U are one character.                      *)
(***************************************************************************)
EXTENDS PlistTrees

Lexeme(type, text) == [type |-> type, text |-> text]
Mark(type) == Lexeme(type, <<>>)

Kind    == [dict |-> "{", array |-> "("]
Openers == {"{", "("}
Closer  == [t \in Openers |-> IF t = "{" THEN "}" ELSE ")"]
Type    == [t \in Openers |-> IF t = "{" THEN "dict" ELSE "array"]
Strings == {"quoted", "unquoted"}
Leaves  == Strings \cup {"data"}

-----------------------------------------------------------------------------
(***************************************************************************)
(* Strings                                                                 *)
(***************************************************************************)
Letter == ("n" :> "LF") @@ ("t" :> "TAB") @@ ("b" :> "BS") @@ ("f" :> "FF") @@ ("\"" :> "\"")
Coded  == ("0001" :> "C1") @@ ("0041" :> "A")
Octal  == ("0" :> 0) @@ ("1" :> 1) @@ ("4" :> 4)

\* The characters of octal escapes, by their code.
Character == (0 :> "NUL") @@ (1 :> "C1") @@ (4 :> "C4") @@ (8 :> "BS") @@ (9 :> "TAB")
             @@ (12 :> "FF") @@ (32 :> " ") @@ (33 :> "!") @@ (36 :> "$") @@ (65 :> "A")

octal_at(text, i) == i \in DOMAIN text /\ text[i] \in DOMAIN Octal

\* The count of digits is lowered before it is looked at: there are two at most.
octal_digits(text, i) == IF octal_at(text, i + 1) THEN 2 ELSE 1

octal_code(text, i, count) ==
    FoldLeft(LAMBDA x, c : 8 * x + Octal[c], 0, SubSeq(text, i, i + count - 1))

\* The characters from an escape on, where i is behind the backslash: what it
\* stands for, and how many characters it takes. What is no escape (a second
\* backslash, too) takes none and is looked at again.
escape(text, i) ==
    IF octal_at(text, i)
      THEN <<<<Character[octal_code(text, i, octal_digits(text, i))]>>, octal_digits(text, i)>>
    ELSE IF text[i] = "U"
      THEN IF i < Len(text) /\ text[i + 1] \in DOMAIN Coded THEN <<<<Coded[text[i + 1]]>>, 2>>
           ELSE <<<<"NUL">>, 1>>
    ELSE IF text[i] \in DOMAIN Letter THEN <<<<Letter[text[i]]>>, 1>>
    ELSE <<<<>>, 0>>

unescaped(text) ==
    LET rest[i \in 1..(Len(text) + 1)] ==
            IF i > Len(text) THEN <<>>
            ELSE IF text[i] # "\\" THEN <<text[i]>> \o rest[i + 1]
            ELSE escape(text, i + 1)[1] \o rest[i + 1 + escape(text, i + 1)[2]]
    IN  rest[1]

string_value(t) == IF t.type = "quoted" THEN unescaped(t.text) ELSE t.text

\* A key goes through a C string.
c_string(value) ==
    LET ends == {i \in DOMAIN value : value[i] = "NUL"}
    IN  IF ends = {} THEN value ELSE SubSeq(value, 1, Least(ends) - 1)

\* Of the characters in the models, those that cannot do without quotes.
Special == {"\"", "\\", "/", " ", "!", "LF", "TAB", "FF", "BS", "NUL", "C1", "C4"}

\* Slip: only what is escaped makes quotes necessary.
str_needs_quotes_slip(value) == ToSet(value) \cap (Special \ {" ", "!", "/"}) # {}

str_needs_quotes(value) == ToSet(value) \cap Special # {}

\* Of a code only the \U is written; a backslash is written as it is.
charmap ==
    ("LF" :> <<"\\", "n">>) @@ ("TAB" :> <<"\\", "t">>) @@ ("BS" :> <<"\\", "b">>)
    @@ ("FF" :> <<"\\", "f">>) @@ ("\"" :> <<"\\", "\"">>)
    @@ ("NUL" :> <<"\\", "U">>) @@ ("C1" :> <<"\\", "U">>) @@ ("C4" :> <<"\\", "U">>)

escaped(value) ==
    FlattenSeq([i \in DOMAIN value |->
        IF value[i] \in DOMAIN charmap THEN charmap[value[i]] ELSE <<value[i]>>])

\* Nothing is written of a string that is empty.
written_string(value) ==
    IF str_needs_quotes(value) THEN <<Lexeme("quoted", escaped(value))>>
    ELSE IF value = <<>> THEN <<>> ELSE <<Lexeme("unquoted", value)>>

-----------------------------------------------------------------------------
(***************************************************************************)
(* The writer                                                              *)
(***************************************************************************)
Coerced == [true |-> <<"1">>, false |-> <<"0">>, null |-> <<"N", "U", "L", "L">>]

\* Without the option PLIST_OPT_COERCE there is no way to write some types.
writable(node, coerce) ==
    node.type \in Containers \cup {"string", "data", "int", "real"} \/ (coerce /\ node.type \in DOMAIN Coerced)

written_leaf(node) ==
    CASE node.type = "string" -> written_string(node.value)
      [] node.type = "data" -> <<Lexeme("data", node.value)>>
      [] node.type = "int"  -> <<Lexeme("unquoted", node.value)>>
      [] node.type = "real" -> <<Lexeme("unquoted", <<"0", ".", "0">>)>>
      [] OTHER -> <<Lexeme("unquoted", Coerced[node.type])>>

\* A comma before every item but the first.
items_text(items) ==
    FlattenSeq([i \in DOMAIN items |-> (IF i = 1 THEN <<>> ELSE <<Mark(",")>>) \o items[i]])

\* Slip: the last pair has no semicolon.
pairs_text_slip(pairs) ==
    FlattenSeq([i \in DOMAIN pairs |-> pairs[i] \o (IF i = Len(pairs) THEN <<>> ELSE <<Mark(";")>>)])

\* A semicolon after every pair.
pairs_text(pairs) ==
    FlattenSeq([i \in DOMAIN pairs |-> pairs[i] \o <<Mark(";")>>])

\* The lexemes of node n and of its key.
node_to_openstep(h, n) ==
    LET text[m \in DOMAIN h] ==
            (IF h[m].key = NULL THEN <<>> ELSE written_string(h[m].key) \o <<Mark("=")>>) \o
            LET inner == [i \in DOMAIN h[m].kids |-> text[h[m].kids[i]]]
            IN  CASE h[m].type = "dict"  -> <<Mark("{")>> \o pairs_text(inner) \o <<Mark("}")>>
                  [] h[m].type = "array" -> <<Mark("(")>> \o items_text(inner) \o <<Mark(")")>>
                  [] OTHER -> written_leaf(h[m])
    IN  text[n]

\* plist_to_openstep_with_options: the code it returns. node_estimate_size looks
\* through the whole tree before a byte is written.
plist_to_openstep(h, n, coerce) ==
    IF \E m \in Below(h, n) : Depth(h, m) - Depth(h, n) > MaxNesting THEN PLIST_ERR_MAX_NESTING
    ELSE IF \E m \in Below(h, n) : ~writable(h[m], coerce) THEN PLIST_ERR_FORMAT
    ELSE PLIST_ERR_SUCCESS

\* A string the writer writes as it is meant.
Kept(value) == value # <<>> /\ ToSet(value) \cap {"\\", "NUL", "C1", "C4"} = {}

-----------------------------------------------------------------------------
(***************************************************************************)
(* What a text means                                                       *)
(***************************************************************************)
Opens(t)  == t.type \in Openers
Closes(t) == t.type \in {"}", ")"}
ClosingMark(t) == Closer[t.type]

Nest == INSTANCE Nesting WITH Closing <- ClosingMark

IsValue(t) == t.type \in Openers \cup Leaves
End(d, i) == IF Opens(d[i]) THEN Nest!ClosedAt(d, i) ELSE i

IsMark(d, i, type) == i \in DOMAIN d /\ d[i].type = type

\* The lexemes of a container take turns.
InTurn(d, i) ==
    LET inside == Nest!Inside(d, i)
        type(k) == d[inside[k]].type
    IN  IF d[i].type = "("
          THEN \A k \in DOMAIN inside :
                  IF k % 2 = 1 THEN IsValue(d[inside[k]]) ELSE type(k) = ","
          ELSE /\ Len(inside) % 4 = 0
               /\ \A k \in DOMAIN inside :
                    CASE k % 4 = 1 -> type(k) \in Strings
                      [] k % 4 = 2 -> type(k) = "="
                      [] k % 4 = 3 -> IsValue(d[inside[k]])
                      [] k % 4 = 0 -> type(k) = ";"

\* The value that begins with lexeme i is complete and not nested too deep.
Sound(d, i) ==
    /\ i \in DOMAIN d /\ IsValue(d[i]) /\ End(d, i) <= Len(d)
    /\ \A j \in i..End(d, i) :
          /\ IsValue(d[j]) => Cardinality(Nest!Around(d, j)) < MaxNesting
          /\ Opens(d[j]) => End(d, j) <= Len(d) /\ d[End(d, j)].type = Closer[d[j].type] /\ InTurn(d, j)

\* A first value with a = behind it: the text is strings data, a dict without
\* its braces.
IsStrings(d) == IsMark(d, End(d, 1) + 1, "=")

\* Strings data is never refused: what is wrong in it ends it.
Valid(d) == d = <<>> \/ Sound(d, 1)

Complete(d, i) ==
    /\ i \in DOMAIN d /\ d[i].type \in Strings
    /\ IsMark(d, i + 1, "=")
    /\ Sound(d, i + 2)
    /\ IsMark(d, End(d, i + 2) + 1, ";")

Trees(d) ==
    LET trees[i \in DOMAIN d] ==
            LET inside == Nest!Inside(d, i)
                named(k) == <<c_string(string_value(d[inside[4 * k - 3]])), trees[inside[4 * k - 1]]>>
            IN  CASE d[i].type = "(" ->
                        Tree("array", NULL,
                             [k \in 1..((Len(inside) + 1) \div 2) |-> <<NULL, trees[inside[2 * k - 1]]>>])
                  [] d[i].type = "{" ->
                        Tree("dict", NULL, Merged([k \in 1..(Len(inside) \div 4) |-> named(k)]))
                  [] d[i].type = "data" -> Tree("data", d[i].text, <<>>)
                  [] OTHER -> Tree("string", string_value(d[i]), <<>>)
    IN  trees

\* The pairs of strings data, as far as they are complete.
StringsPairs(d) ==
    LET pairs[i \in 1..(Len(d) + 1)] ==
            IF Complete(d, i)
              THEN <<<<c_string(string_value(d[i])), Trees(d)[i + 2]>>>> \o pairs[End(d, i + 2) + 2]
              ELSE <<>>
    IN  pairs[1]

\* The lexeme that stands behind the last of them.
StringsEnd(d) ==
    LET after[i \in 1..(Len(d) + 1)] ==
            IF Complete(d, i) THEN after[End(d, i + 2) + 2] ELSE i
    IN  after[1]

\* A text of white space is an empty dict.
Meaning(d) ==
    IF d = <<>> THEN Tree("dict", NULL, <<>>)
    ELSE IF IsStrings(d) THEN Tree("dict", NULL, Merged(StringsPairs(d)))
    ELSE Trees(d)[1]
=============================================================================
