------------------------------ MODULE PlistMemory ------------------------------
(***************************************************************************)
(* The readers and writers of text together: a text in XML, JSON or        *)
(* OpenStep is read by its reader, and the tree written again. A tree from *)
(* JSON or OpenStep can be written as either. plist_from_memory            *)
(* (src/plist.c) has to find out from the first bytes of a text in which   *)
(* format it is. (Binary data begins with bytes no text has.)              *)
(***************************************************************************)
EXTENDS PlistTrees

CONSTANTS XmlDocs, JsonDocs, OpenStepDocs, CF_UID, FirstTokens, MoreTokens, MaxFailures, MaxInt

ASSUME MemoryAssumption ==
    /\ MaxNesting \in Nat \ {0} /\ MaxFailures \in Nat
    /\ FirstTokens \in Nat /\ MoreTokens \in Nat \ {0}
    /\ MaxInt \in Nat /\ MaxInt >= 10
    /\ NULL \notin Nat
    /\ \A d \in XmlDocs : d \in Seq(ToSet(d))

VARIABLES format,     \* whose reader it is: "xml", "json" or "openstep"
          doc, pos, pc, heap, plist, err,                  \* of all readers,
          parent, keyname, node_path, twice,               \* of XmlReader,
          tokens, toksuper, maxtoks, index,                \* of JsonReader,
          ret,                                             \* of OpenStepReader,
          depth, frames, oom                               \* of two of them

X == INSTANCE XmlReader WITH Docs <- XmlDocs
J == INSTANCE JsonReader WITH Docs <- JsonDocs
O == INSTANCE OpenStepReader WITH Docs <- OpenStepDocs

xmlVars == <<parent, keyname, node_path, twice>>
jsonVars == <<tokens, toksuper, maxtoks, index>>
vars == <<format, doc, pos, pc, heap, plist, err, xmlVars, jsonVars, ret, depth, frames, oom>>

NoXml  == parent = NULL /\ keyname = NULL /\ node_path = <<>> /\ twice = FALSE
NoJson == tokens = <<>> /\ toksuper = 0 /\ maxtoks = 0 /\ index = 0

Init ==
    \/ format = "xml" /\ X!Init /\ NoJson /\ ret = NULL /\ frames = <<>>
    \/ format = "json" /\ J!Init /\ NoXml /\ ret = NULL /\ depth = 0
    \/ format = "openstep" /\ O!Init /\ NoXml /\ NoJson /\ oom = {}

ReadXml == format = "xml" /\ X!Next /\ UNCHANGED <<format, jsonVars, ret, frames>>
ReadJson == format = "json" /\ J!Next /\ UNCHANGED <<format, xmlVars, ret, depth>>
ReadOpenStep == format = "openstep" /\ O!Next /\ UNCHANGED <<format, xmlVars, jsonVars, oom>>

Next == ReadXml \/ ReadJson \/ ReadOpenStep

\* The code goes on by itself; that an allocation fails cannot be relied on. (Each step
\* of the reader of XML takes a tag, so that its end is no question.)
Spec == Init /\ [][Next]_vars /\ WF_vars((ReadJson \/ ReadOpenStep) /\ UNCHANGED oom)

-----------------------------------------------------------------------------
(***************************************************************************)
(* plist_from_memory                                                       *)
(***************************************************************************)
type_at(d, i) == IF i \in DOMAIN d THEN d[i].type ELSE "end"

\* The quote that ends a string is the first that has no backslash before it.
\* If the text ends in one, that is the quote another string begins with, and
\* what stands behind it (no colon, in the models) is compared with a colon.
runs_over(t) == t.text # <<>> /\ Last(t.text) = "\\"
another(d, i) == \E j \in (i + 1)..Len(d) : d[j].type = "quoted"

\* Tags none of whose first three letters is a hexadecimal digit: <dict>, <array> and
\* <key> are taken for data of OpenStep.
XmlTags == {"plist", "/plist", "string", "integer", "true"}

\* Slip: { and a quoted string are enough for JSON.
detected_slip(d) ==
    CASE type_at(d, 1) = "[" -> "json"
      [] type_at(d, 1) = "{" /\ type_at(d, 2) = "quoted" -> "json"
      [] OTHER -> "openstep"

\* The format, or "none" for a text that breaks off too early to tell.
detected(d) ==
    CASE type_at(d, 1) = "end" -> "none"
      [] type_at(d, 1) \in XmlTags -> "xml"
      [] type_at(d, 1) = "[" -> "json"
      [] type_at(d, 1) = "{" /\ type_at(d, 2) = "end" -> "none"
      [] type_at(d, 1) = "{" /\ type_at(d, 2) = "quoted" ->
            IF runs_over(d[2]) THEN IF another(d, 2) THEN "openstep" ELSE "none"
            ELSE IF type_at(d, 3) = "end" THEN "none"
            ELSE IF type_at(d, 3) = ":" THEN "json" ELSE "openstep"
      [] OTHER -> "openstep"

\* The tree it returns for a text, or NULL for an error.
plist_from_memory(d) ==
    CASE detected(d) = "xml" /\ X!Valid(d) -> X!Meaning(d)
      [] detected(d) = "json" /\ J!Valid(d) -> J!Meaning(d)
      [] detected(d) = "openstep" /\ O!Valid(d) -> O!Meaning(d)
      [] OTHER -> NULL

-----------------------------------------------------------------------------
(***************************************************************************)
(* Properties                                                              *)
(***************************************************************************)
\* Each reader keeps its account of the nesting, see there.
PathAgrees  == format = "xml" => X!PathAgrees
TokensAgree == format = "json" => J!TokensAgree
DepthAgrees == format = "openstep" => O!DepthAgrees

\* When reading ends only the tree that is returned is left. After a failure
\* nothing is, whichever call failed and how deep inside the others: no key, value
\* or container that was not in the tree yet, not the value that made way for
\* strings data, and none that its container had refused. (XmlReader names two
\* exceptions for XML.)
NothingLeaked ==
    IF format = "xml" THEN X!NothingLeaked
    ELSE pc = "done" =>
            /\ J!Live(heap) = IF plist = NULL THEN {} ELSE J!Below(heap, plist)
            /\ (err = J!PLIST_ERR_SUCCESS) <=> (plist # NULL)

\* A text is refused if and only if there is a reason to, however deep inside it,
\* and the tree is what it means: items and pairs in order, repeated keys merged,
\* UID dicts converted, escapes resolved, numbers brought into range, of strings
\* data the complete pairs.
ReadsTheText ==
    pc = "done" /\ oom = {} =>
        LET reads(valid, meaning) ==
                IF valid THEN err = J!PLIST_ERR_SUCCESS /\ J!Built(heap, plist) = meaning
                ELSE err # J!PLIST_ERR_SUCCESS
        IN  CASE format = "xml"      -> X!ReadsTheDocument
              [] format = "json"     -> reads(J!Valid(doc), J!Meaning(doc))
              [] format = "openstep" -> reads(O!Valid(doc), O!Meaning(doc))

\* The readers of JSON and OpenStep return: growing the array of tokens, counting down the items, and
\* beginning again with strings data all end.
Termination == (format # "xml") ~> (pc = "done")

Succeeded == pc = "done" /\ err = J!PLIST_ERR_SUCCESS

\* The nodes of the tree that satisfy P, and its strings and keys.
Some(P(_)) == \E m \in J!Below(heap, plist) : P(heap[m])
SomeString(P(_)) ==
    Some(LAMBDA node : (node.key # NULL /\ P(node.key)) \/ (node.type = "string" /\ P(node.value)))

\* The tree with strings in place of other leaves.
AsStrings(types, values) ==
    [m \in DOMAIN heap |->
        IF heap[m].type \in types
          THEN [heap[m] EXCEPT !.type = "string", !.value = IF @ # NULL THEN @ ELSE values[heap[m].type]]
          ELSE heap[m]]

\* A tree that was read is refused by a writer only if it has values the format
\* has no form for, and never if the caller asks for coercion. Otherwise what is
\* written comes back from plist_from_memory as the same tree, though with strings
\* for what the format has only strings for, and also if it looks like another
\* format. Excepted are strings the writers spoil (J!Kept and O!Kept), reals, of
\* which the model has no digits, and for OpenStep a tree at the limit of nesting,
\* which has a level more than the reader of OpenStep takes.
KeptByConversion ==
    Succeeded /\ format # "xml" =>
        /\ heap[plist].type \in J!Containers =>
              /\ (J!plist_to_json(heap, plist, FALSE) = J!PLIST_ERR_SUCCESS)
                    <=> ~Some(LAMBDA node : node.type = "data")
              /\ J!plist_to_json(heap, plist, TRUE) = J!PLIST_ERR_SUCCESS
              /\ SomeString(LAMBDA s : ~J!Kept(s)) \/
                 plist_from_memory(J!node_to_json(heap, plist, TRUE))
                    = J!Built(AsStrings({"data"}, <<>>), plist)
        /\ (O!plist_to_openstep(heap, plist, FALSE) = J!PLIST_ERR_SUCCESS)
              <=> ~Some(LAMBDA node : node.type \in DOMAIN O!Coerced)
        /\ O!plist_to_openstep(heap, plist, TRUE) = J!PLIST_ERR_SUCCESS
        /\ \/ SomeString(LAMBDA s : ~O!Kept(s)) \/ Some(LAMBDA node : node.type = "real")
           \/ J!Levels(heap, plist) > MaxNesting
           \/ plist_from_memory(O!node_to_openstep(heap, plist))
                 = J!Built(AsStrings(DOMAIN O!Coerced \cup {"int"}, O!Coerced), plist)

\* The same of XML, and of UIDs, which only XML has.
WrittenReadsBack ==
    Succeeded /\ format = "xml" =>
        /\ X!WrittenReadsBack
        /\ plist # NULL => detected(X!plist_to_xml(heap, plist)) = "xml"

\* "A <plist> element must contain exactly one root value node. Any additional
\* value nodes after the first root object must cause parsing to fail."
\* (test/xml_behavior_test.c)
OneRootValue ==
    format = "xml" /\ Succeeded /\ doc # <<>> /\ Head(doc).type = "plist" =>
        Cardinality({i \in ToSet(X!Members(doc, 0)) : doc[i].type # "key"}) <= 1

\* "Failed to parse strings data" (src/src/oplist.c): strings data that breaks off
\* in the middle of a pair is refused. It may end at a }.
StringsDataRefused ==
    format = "openstep" /\ Succeeded /\ doc # <<>> /\ O!IsStrings(doc) =>
        O!StringsEnd(doc) = Len(doc) + 1 \/ O!IsMark(doc, O!StringsEnd(doc), "}")
=============================================================================
