---------------------------- MODULE OpenStepReader ----------------------------
(***************************************************************************)
(* plist_from_openstep (src/oplist.c): node_from_openstep and              *)
(* parse_dict_data call each other over the text, with one context for     *)
(* position, depth and error. When a = follows the first value, the value  *)
(* is dropped and the text is read once more as strings data, the pairs of *)
(* a dict without its braces. A step is what the code does from one        *)
(* lexeme, or from one call or return, to the next.                        *)
(***************************************************************************)
EXTENDS OpenStepText

CONSTANT Docs      \* the texts that are read

VARIABLES doc,
          pos,        \* the lexemes that were read
          pc,         \* what is next: a "value", the "members" of a dict, the "items" of
                      \* an array or the "end" of one, a value "returned", or "done"
          frames,     \* the containers being filled: [type, node, key]
          depth,      \* ctx->depth: the calls of node_from_openstep
          ret,        \* the value that was returned, or NULL
          heap, plist, err

vars == <<doc, pos, pc, frames, depth, ret, heap, plist, err>>

Init ==
    /\ doc \in Docs /\ pos = 0 /\ pc = "value" /\ frames = <<>> /\ depth = 0 /\ ret = NULL
    /\ heap = <<>> /\ plist = NULL /\ err = PLIST_ERR_SUCCESS

AtEnd == pos = Len(doc)
Next_is(type) == ~AtEnd /\ doc[pos + 1].type = type

Frame(type, node) == [type |-> type, node |-> node, key |-> NULL]
Inner == Last(frames)
InDict == frames # <<>> /\ Inner.type # "array"
InStrings == frames # <<>> /\ frames[1].type = "strings"

-----------------------------------------------------------------------------
(***************************************************************************)
(* Failure                                                                 *)
(***************************************************************************)
\* Slip: the keys of the pairs that were begun are forgotten.
begun_slip == {frames[i].node : i \in DOMAIN frames} \cup ({ret} \ {NULL})

\* What is not in a tree yet: each call frees its node, key and value.
begun == {frames[i].node : i \in DOMAIN frames}
         \cup (({frames[i].key : i \in DOMAIN frames} \cup {ret}) \ {NULL})

\* Does plist_from_openstep take the code for a failure of the strings data?
strings_failed(code) == code > 0

GiveUp(code) ==
    /\ pc' = "done" /\ frames' = <<>> /\ ret' = NULL
    /\ IF InStrings /\ ~strings_failed(code)
         THEN /\ heap' = free_all(heap, begun \ {frames[1].node})
              /\ plist' = frames[1].node /\ err' = PLIST_ERR_SUCCESS
         ELSE /\ heap' = free_all(heap, begun)
              /\ plist' = NULL /\ err' = code
    /\ UNCHANGED <<doc, pos, depth>>

-----------------------------------------------------------------------------
(***************************************************************************)
(* node_from_openstep                                                      *)
(***************************************************************************)
\* Slip: one level too many.
too_deep_slip == depth > MaxNesting

\* depth is counted up, and then compared.
too_deep == depth + 1 > MaxNesting

\* (Never at the value of a pair, whose key was read at the same depth: so it makes no
\* difference that the end of the text behind a = is seen before the depth is.)
TooDeep ==
    /\ pc = "value"
    /\ too_deep
    /\ GiveUp(PLIST_ERR_MAX_NESTING)

Entered == pc = "value" /\ ~too_deep

\* There is no value, which at the top means an empty dict.
Nothing ==
    /\ Entered
    /\ AtEnd
    /\ \/ /\ frames = <<>>
          /\ heap' = Append(heap, Node("dict", NULL)) /\ plist' = Len(heap) + 1
          /\ pc' = "done"
          /\ UNCHANGED <<doc, pos, frames, depth, ret, err>>
       \/ frames # <<>> /\ GiveUp(PLIST_ERR_PARSE)

leaf_node(t) ==
    IF t.type = "data" THEN Node("data", t.text) ELSE Node("string", string_value(t))

Leaf ==
    /\ Entered
    /\ ~AtEnd /\ doc[pos + 1].type \in Leaves
    /\ heap' = Append(heap, leaf_node(doc[pos + 1]))
    /\ ret' = Len(heap) + 1
    /\ pos' = pos + 1
    /\ pc' = "returned"
    /\ UNCHANGED <<doc, frames, depth, plist, err>>

Container ==
    /\ Entered
    /\ ~AtEnd /\ doc[pos + 1].type \in Openers
    /\ LET type == Type[doc[pos + 1].type] IN
       /\ heap' = Append(heap, Node(type, NULL))
       /\ frames' = Append(frames, Frame(type, Len(heap) + 1))
       /\ pc' = IF type = "dict" THEN "members" ELSE "items"
    /\ depth' = depth + 1
    /\ pos' = pos + 1
    /\ UNCHANGED <<doc, ret, plist, err>>

NoValue ==
    /\ Entered
    /\ ~AtEnd /\ ~IsValue(doc[pos + 1])
    /\ GiveUp(PLIST_ERR_PARSE)

\* Slip: the way out of a container does not count down.
depth_below_slip == depth

depth_below == depth - 1

\* The innermost container is complete and returned.
Close ==
    /\ ret' = Inner.node
    /\ frames' = Front(frames)
    /\ depth' = depth_below
    /\ pos' = pos + 1
    /\ pc' = "returned"
    /\ UNCHANGED <<doc, heap, plist, err>>

\* An array begins, or goes on behind a comma.
Items ==
    /\ pc = "items"
    /\ \/ Next_is(")") /\ Close
       \/ AtEnd /\ GiveUp(PLIST_ERR_PARSE)
       \/ /\ ~AtEnd /\ ~Next_is(")")
          /\ pc' = "value"
          /\ UNCHANGED <<doc, pos, frames, depth, ret, heap, plist, err>>

\* An item without a comma behind it was the last.
LastItem ==
    /\ pc = "end"
    /\ \/ Next_is(")") /\ Close
       \/ ~Next_is(")") /\ GiveUp(PLIST_ERR_PARSE)

-----------------------------------------------------------------------------
(***************************************************************************)
(* parse_dict_data                                                         *)
(***************************************************************************)
Members ==
    /\ pc = "members"
    /\ \/ Next_is("}") /\ Inner.type = "dict" /\ Close
       \/ AtEnd /\ Inner.type = "dict" /\ GiveUp(PLIST_ERR_PARSE)
       \/ /\ AtEnd \/ Next_is("}")
          /\ Inner.type = "strings"
          /\ plist' = Inner.node /\ frames' = <<>> /\ pc' = "done"
          /\ UNCHANGED <<doc, pos, depth, ret, heap, err>>
       \/ /\ ~AtEnd /\ ~Next_is("}")
          /\ pc' = "value"
          /\ UNCHANGED <<doc, pos, frames, depth, ret, heap, plist, err>>

Returned == pc = "returned"

KeyRead ==
    /\ Returned
    /\ InDict /\ Inner.key = NULL
    /\ \/ /\ heap[ret].type = "string" /\ Next_is("=")
          /\ frames' = [frames EXCEPT ![Len(frames)].key = ret]
          /\ ret' = NULL
          /\ pos' = pos + 1
          /\ pc' = "value"
          /\ UNCHANGED <<doc, depth, heap, plist, err>>
       \/ ~(heap[ret].type = "string" /\ Next_is("=")) /\ GiveUp(PLIST_ERR_PARSE)

\* plist_dict_set_item and plist_array_append_item may refuse. Nobody looks.
with_pair ==
    IF within_limit(heap, Inner.node, ret)
      THEN plist_dict_set_item(heap, Inner.node, c_string(heap[Inner.key].value), ret)
      ELSE heap
with_item ==
    IF within_limit(heap, Inner.node, ret) THEN plist_array_append_item(heap, Inner.node, ret) ELSE heap

\* The pair is complete, and the node of the key is freed: the dict has its own.
PairRead ==
    /\ Returned
    /\ InDict /\ Inner.key # NULL
    /\ \/ /\ Next_is(";")
          /\ heap' = free_all(with_pair, {Inner.key})
          /\ frames' = [frames EXCEPT ![Len(frames)].key = NULL]
          /\ ret' = NULL
          /\ pos' = pos + 1
          /\ pc' = "members"
          /\ UNCHANGED <<doc, depth, plist, err>>
       \/ ~Next_is(";") /\ GiveUp(PLIST_ERR_PARSE)

ItemRead ==
    /\ Returned
    /\ frames # <<>> /\ ~InDict
    /\ heap' = with_item /\ ret' = NULL
    /\ pos' = IF Next_is(",") THEN pos + 1 ELSE pos
    /\ pc' = IF Next_is(",") THEN "items" ELSE "end"
    /\ UNCHANGED <<doc, frames, depth, plist, err>>

-----------------------------------------------------------------------------
(***************************************************************************)
(* plist_from_openstep                                                     *)
(***************************************************************************)
\* Slip: the pairs are looked for behind the first value.
strings_begin_slip == pos

strings_begin == 0

RootRead ==
    /\ Returned
    /\ frames = <<>>
    /\ ret' = NULL
    /\ \/ /\ Next_is("=")
          /\ heap' = Append(free_all(heap, {ret}), Node("dict", NULL))
          /\ frames' = <<Frame("strings", Len(heap) + 1)>>
          /\ pos' = strings_begin
          /\ pc' = "members"
          /\ UNCHANGED plist
       \/ /\ ~Next_is("=")
          /\ plist' = ret /\ pc' = "done"
          /\ UNCHANGED <<heap, frames, pos>>
    /\ UNCHANGED <<doc, depth, err>>

Next ==
    \/ TooDeep \/ Nothing \/ Leaf \/ Container \/ NoValue \/ Items \/ LastItem
    \/ Members \/ KeyRead \/ PairRead \/ ItemRead \/ RootRead

-----------------------------------------------------------------------------
(***************************************************************************)
(* Properties                                                              *)
(***************************************************************************)
\* The context counts the containers being filled, the dict of strings data not
\* with them, and stays within the limit. What a failure would have to free is in
\* no tree and was not freed before: each node that was begun has one owner.
DepthAgrees ==
    pc # "done" =>
        /\ depth = Len(frames) - (IF InStrings THEN 1 ELSE 0)
        /\ depth <= MaxNesting
        /\ \A n \in begun : heap[n].type # "freed" /\ heap[n].up = NULL
        /\ \A i \in DOMAIN frames : frames[i].type = heap[frames[i].node].type
                                   \/ (i = 1 /\ frames[i].type = "strings")
=============================================================================
