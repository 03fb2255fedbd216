---------------------------- MODULE MCPlistMemory ----------------------------
(* Of each format all texts of up to three lexemes or tags, and texts that are  *)
(* longer with one of them replaced, left out, or put in. They are nested       *)
(* beyond MaxNesting, repeat a key, have every kind of escape and numbers at    *)
(* the limit, UIDs at every depth, need more tokens than there is room for at   *)
(* first, and are strings data that is complete or breaks off.                  *)
EXTENDS PlistMemory
XmlTexts == INSTANCE XmlReader WITH Docs <- {}
JsonTexts == INSTANCE JsonText
OpenStepTexts == INSTANCE OpenStepText
Quoted(text) == JsonTexts!Lexeme("quoted", text)
Bare(text) == JsonTexts!Lexeme("unquoted", text)
Data(text) == JsonTexts!Lexeme("data", text)
Mark(type) == JsonTexts!Mark(type)
In(type, inner) == <<Mark(type)>> \o inner \o <<Mark((JsonTexts!Closer @@ OpenStepTexts!Closer)[type])>>
Edited(d, lexemes) ==
    {d} \cup {RemoveAt(d, i) : i \in DOMAIN d}
    \cup {ReplaceAt(d, i, t) : i \in DOMAIN d, t \in lexemes}
    \cup {InsertAt(d, i, t) : i \in 1..(Len(d) + 1), t \in lexemes}
\* Not the texts in which the closing quote would be escaped.
Whole(text) == \A unit \in ToSet(JsonTexts!Units(text)) : unit # <<"\\">>
x == <<Quoted(<<"x">>)>>
MCXmlTags ==
    {XmlTexts!Opening(type) : type \in {"plist", "/plist", "dict", "/dict", "array", "/array", "/other",
                               "bad", "garbage", "unclosed"}}
    \cup {XmlTexts!Tag(type, TRUE, "") : type \in {"plist", "dict", "integer", "key", "array"}}
    \cup {XmlTexts!Tag("key", FALSE, "a"), XmlTexts!Tag("key", FALSE, CF_UID), XmlTexts!Tag("string", FALSE, "1"),
          XmlTexts!Tag("integer", FALSE, "2")}
MCXmlBases ==
    LET a   == <<XmlTexts!Tag("key", FALSE, "a")>>
        b   == <<XmlTexts!Tag("key", FALSE, "b")>>
        str == <<XmlTexts!Tag("string", FALSE, "1")>>
        int == <<XmlTexts!Tag("integer", FALSE, "2")>>
        ofUid == <<XmlTexts!Tag("key", FALSE, CF_UID), XmlTexts!Tag("integer", FALSE, "2")>>
        Element(type, inner) == <<XmlTexts!Opening(type)>> \o inner \o <<XmlTexts!Opening(XmlTexts!Closing[type])>>
        Dict(inner)  == IF inner = <<>> THEN <<XmlTexts!Tag("dict", TRUE, "")>> ELSE Element("dict", inner)
        Array(inner) == IF inner = <<>> THEN <<XmlTexts!Tag("array", TRUE, "")>> ELSE Element("array", inner)
        Plist(inner) == Element("plist", inner)
        uid == Dict(ofUid)
    IN  {Plist(inner) : inner \in
            {Array(<<>>), Dict(a \o str \o a \o int), Dict(a \o Array(str) \o a \o Dict(<<>>)),
             Dict(a \o uid \o b \o str), Array(uid \o Dict(a \o a)),
             Array(Array(<<>>) \o Dict(a \o Array(<<>>))), Plist(Array(str \o Plist(int))),
             Dict(ofUid \o b), Array(Array(Dict(<<>>) \o uid)), Array(Array(uid \o Array(int))),
             Array(Dict(a \o Array(uid))), Array(Array(Array(Array(str))))}}
MCXmlDocs == BoundedSeq(MCXmlTags, 3) \cup UNION {Edited(d, MCXmlTags) : d \in MCXmlBases}
MCJsonLexemes ==
    {Mark(type) : type \in {"{", "}", "[", "]", ",", ":", "garbage", "unclosed"}}
    \cup {Quoted(<<"x">>), Quoted(<<"\\", "n">>), Bare(<<"1">>), Bare(<<"t">>)}
MCJsonStrings == {s \in BoundedSeq({"x", "\\", "n", "u", "0001", "0000"}, 3) : Whole(s)}
MCPrimitives ==
    {<<"n", "u">>, <<"n", "u", "l", "l", "s">>, <<"t", "r", "u", "e">>, <<"1", "9">>, <<"2", "0">>, <<"1", "0", "0">>,
     <<"-", "1", "9">>, <<"-", "2", "0">>, <<"-", "2", "1">>, <<"-", "9", "9">>, <<"0", "7">>, <<"-", "0">>,
     <<"-">>, <<"-", "x">>, <<"1", ".">>, <<"1", ".", "5">>, <<"1", "e", "5", "x">>, <<"1", ".", "5", "e">>,
     <<"1", ".", "5", "e", "-", "5">>, <<"1", "e", "+">>, <<"x">>}
MCJsonBases ==
    LET y == <<Quoted(<<"y", "\\", "\"">>)>>
        n == <<Bare(<<"1", "2">>)>>
        c == <<Mark(",")>>
        k == <<Mark(":")>>
        arr(inner) == In("[", inner)
        dict(inner) == In("{", inner)
    IN  {dict(x \o k \o n \o c \o x \o k \o arr(n)),
         dict(x \o k \o dict(y \o n) \o y \o arr(<<>>)),
         arr(arr(arr(arr(<<>>))) \o c \o dict(<<>>)),
         arr(arr(n) \o c \o dict(x \o arr(arr(<<>>)))),
         arr(arr(arr(arr(n)))),
         dict(x \o arr(dict(x \o n) \o y)),
         arr(n \o n) \o dict(x)}
MCJsonDocs ==
    BoundedSeq(MCJsonLexemes, 3) \cup UNION {Edited(d, MCJsonLexemes) : d \in MCJsonBases}
    \cup {In("{", <<Quoted(s), Mark(":"), Quoted(s)>>) : s \in MCJsonStrings}
    \cup {In("[", <<Bare(p)>>) : p \in MCPrimitives}
MCOpenStepLexemes ==
    {Mark(type) : type \in {"{", "}", "(", ")", "=", ";", ",", "unclosed"}}
    \cup {Bare(<<"x">>), Quoted(<<"y">>), Data(<<"1">>)}
MCOpenStepStrings ==
    {s \in BoundedSeq({"x", "\\", "n", "U", "0001", "\""}, 3)
           \cup BoundedSeq({"x", "\\", "0", "1", "4"}, 4) :
        /\ s # <<>> => Last(s) # "\\"
        /\ \A i \in DOMAIN s : s[i] = "\"" => i > 1 /\ s[i - 1] = "\\"}
MCOpenStepBases ==
    LET y == <<Quoted(<<"y">>)>>
        z == <<Bare(<<"$", "1">>)>>
        c == <<Mark(",")>>
        pair(key, value) == key \o <<Mark("=")>> \o value \o <<Mark(";")>>
        arr(inner) == In("(", inner)
        dict(inner) == In("{", inner)
    IN  {dict(pair(x, y) \o pair(y, <<Data(<<"1">>)>>) \o pair(x, x)),
         dict(pair(x, arr(y \o c)) \o pair(y, dict(<<>>))),
         arr(z \o c \o arr(<<>>) \o c \o dict(pair(x, x))),
         arr(arr(arr(<<>>))),
         pair(x, y) \o pair(y, arr(dict(<<>>))),
         pair(x, arr(arr(y))) \o pair(y, x),
         pair(x, dict(pair(y, arr(x)))) \o pair(x, x) \o pair(y, y)}
MCOpenStepDocs ==
    BoundedSeq(MCOpenStepLexemes, 3) \cup UNION {Edited(d, MCOpenStepLexemes) : d \in MCOpenStepBases}
    \cup {In("{", <<Quoted(s), Mark("="), Quoted(s), Mark(";")>>) : s \in MCOpenStepStrings}
=============================================================================
