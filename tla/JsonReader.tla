------------------------------ MODULE JsonReader ------------------------------
(***************************************************************************)
(* plist_from_json (src/jplist.c): jsmn_parse cuts the text into a flat    *)
(* array of tokens, each container with the number of its items, and is    *)
(* called again where it stopped when the array was too small. Then        *)
(* parse_array and parse_object, which call each other, count their way    *)
(* through the tokens. A step is one lexeme, and then one token.           *)
(***************************************************************************)
EXTENDS JsonText

CONSTANTS Docs,         \* the texts that are read
          FirstTokens,  \* the size of the first array of tokens (256)
          MoreTokens,   \* how much it grows (16)
          MaxFailures   \* bound: the number of allocations that fail

VARIABLES doc,
          pos,        \* the lexemes that were read
          pc,         \* "lex", "build" or "done"
          tokens,     \* [type, text, size, closed]
          toksuper,   \* the innermost token that is not closed, or 0
          maxtoks,    \* the room for tokens
          index,      \* the token that is next to build
          frames,     \* the calls of parse_array and parse_object: [node, left, key]
          heap, plist, err,
          oom         \* what failed for lack of memory: the "tokens", a "node", an "attach"

vars == <<doc, pos, pc, tokens, toksuper, maxtoks, index, frames, heap, plist, err, oom>>
lexer == <<doc, pos, tokens, toksuper, maxtoks>>

Init ==
    /\ doc \in Docs /\ pos = 0 /\ pc = "lex" /\ tokens = <<>> /\ toksuper = 0
    /\ maxtoks = FirstTokens /\ index = 1 /\ frames = <<>>
    /\ heap = <<>> /\ plist = NULL /\ err = PLIST_ERR_SUCCESS /\ oom = {}

Fails(what) == Cardinality(oom) < MaxFailures /\ oom' = oom \cup {what}

-----------------------------------------------------------------------------
(***************************************************************************)
(* jsmn_parse                                                              *)
(***************************************************************************)
lexeme == doc[pos + 1]

Lexing(types) ==
    /\ pc = "lex" /\ pos < Len(doc)
    /\ lexeme.type \in types
    /\ UNCHANGED <<doc, index, frames, heap, plist>>

Token(closed) == [type |-> lexeme.type, text |-> lexeme.text, size |-> 0, closed |-> closed]

\* Slip: an item that is a container is not counted.
counted_slip(t) ==
    IF toksuper = 0 \/ ~t.closed THEN Append(tokens, t)
    ELSE Append([tokens EXCEPT ![toksuper].size = @ + 1], t)

\* The container around it counts an item when it has its token.
counted(t) ==
    IF toksuper = 0 THEN Append(tokens, t)
    ELSE Append([tokens EXCEPT ![toksuper].size = @ + 1], t)

has_room == Len(tokens) < maxtoks

\* Slip: the array is as large as before.
grown_slip == maxtoks

grown == maxtoks + MoreTokens

Unclosed(s) == {i \in DOMAIN s : ~s[i].closed}

Refused ==
    /\ pc' = "done" /\ err' = PLIST_ERR_PARSE
    /\ UNCHANGED <<tokens, toksuper, maxtoks, oom>>

OpenToken ==
    /\ Lexing(Openers)
    /\ has_room
    /\ tokens' = counted(Token(FALSE)) /\ toksuper' = Len(tokens) + 1
    /\ pos' = pos + 1
    /\ UNCHANGED <<pc, maxtoks, err, oom>>

LeafToken ==
    /\ Lexing(Leaves)
    /\ Spelled(lexeme)
    /\ has_room
    /\ tokens' = counted(Token(TRUE))
    /\ pos' = pos + 1
    /\ UNCHANGED <<pc, toksuper, maxtoks, err, oom>>

\* Slip: the container around is not looked for.
closing_slip(i) ==
    /\ tokens' = [tokens EXCEPT ![i].closed = TRUE]
    /\ toksuper' = 0

\* Token i is closed, and the one before it that is still open is the innermost.
closing(i) ==
    /\ tokens' = [tokens EXCEPT ![i].closed = TRUE]
    /\ toksuper' = Most({0} \cup (Unclosed(tokens) \ {i}))

\* The last token that is open, if the lexeme closes one of its type.
matching ==
    {i \in Unclosed(tokens) :
        Closer[tokens[i].type] = lexeme.type /\ \A j \in Unclosed(tokens) : j <= i}

CloseToken ==
    /\ Lexing({"}", "]"})
    /\ pos' = pos + 1
    /\ \/ /\ \E i \in matching : closing(i)
          /\ UNCHANGED <<pc, maxtoks, err, oom>>
       \/ matching = {} /\ Refused

Separator ==
    /\ Lexing(Separators)
    /\ pos' = pos + 1
    /\ UNCHANGED <<pc, tokens, toksuper, maxtoks, err, oom>>

Misspelled ==
    /\ Lexing(Leaves \cup {"garbage", "unclosed"})
    /\ ~Spelled(lexeme)
    /\ pos' = pos + 1
    /\ Refused

\* JSMN_ERROR_NOMEM: the array grows, and jsmn_parse goes on at the same lexeme.
NoRoom ==
    /\ Lexing(Openers \cup Leaves)
    /\ Spelled(lexeme)
    /\ ~has_room
    /\ \/ /\ maxtoks' = grown
          /\ tokens' = tokens
          /\ UNCHANGED <<pc, err, oom>>
       \/ /\ Fails("tokens")
          /\ pc' = "done" /\ err' = PLIST_ERR_NO_MEM
          /\ UNCHANGED <<tokens, maxtoks>>
    /\ UNCHANGED <<pos, toksuper>>

EndOfText ==
    /\ pc = "lex" /\ pos = Len(doc)
    /\ IF Unclosed(tokens) = {} THEN pc' = "build" /\ err' = err
       ELSE pc' = "done" /\ err' = PLIST_ERR_PARSE
    /\ UNCHANGED <<lexer, index, frames, heap, plist, oom>>

-----------------------------------------------------------------------------
(***************************************************************************)
(* parse_array, parse_object, parse_string and parse_primitive             *)
(***************************************************************************)
\* Without any token the first is what memset left there.
token == IF tokens = <<>> THEN [type |-> "unquoted", text |-> <<>>, size |-> 0, closed |-> TRUE]
         ELSE tokens[index]

Building == pc = "build" /\ UNCHANGED lexer

\* The innermost call; a key is what a pair has begun with.
frame == Last(frames)
wants_key   == frames # <<>> /\ frame.left > 0 /\ heap[frame.node].type = "dict" /\ frame.key = NULL
wants_value == ~(frames # <<>> /\ (frame.left = 0 \/ wants_key))

Nodes(calls) == {calls[i].node : i \in DOMAIN calls}

\* Slip: the value that could not be attached is forgotten.
cleaned_up_slip(h, calls, item) == free_all(h, Nodes(calls))

\* Each call frees its node when the call inside it, or it, has failed.
cleaned_up(h, calls, item) == free_all(h, Nodes(calls) \cup ({item} \ {NULL}))

\* The code of a failure is lost on the way, unless it is in the outermost call.
GiveUp(h, calls, item, code, outermost) ==
    /\ pc' = "done"
    /\ heap' = cleaned_up(h, calls, item)
    /\ frames' = <<>>
    /\ err' = IF outermost THEN code ELSE PLIST_ERR_PARSE
    /\ UNCHANGED <<index, plist>>

Key ==
    /\ Building
    /\ wants_key
    /\ \/ /\ token.type = "quoted" /\ unescapes(token.text)
          /\ frames' = [frames EXCEPT ![Len(frames)].key = c_string(unescape_string(token.text)),
                                      ![Len(frames)].left = @ - 1]
          /\ index' = index + 1
          /\ UNCHANGED <<pc, heap, plist, err>>
       \/ /\ ~(token.type = "quoted" /\ unescapes(token.text))
          /\ GiveUp(heap, frames, NULL, PLIST_ERR_PARSE, TRUE)
    /\ UNCHANGED oom

attached(h, call, item) ==
    IF h[call.node].type = "dict" THEN plist_dict_set_item(h, call.node, call.key, item)
    ELSE plist_array_append_item(h, call.node, item)

\* The value item, in heap h, returns to the innermost of calls.
Returned(h, item, calls, next) ==
    LET call == Last(calls) IN
    \/ /\ calls = <<>>
       /\ plist' = item /\ heap' = h /\ pc' = "done" /\ frames' = calls /\ index' = next
       /\ UNCHANGED <<err, oom>>
    \/ /\ calls # <<>>
       /\ within_limit(h, call.node, item)
       /\ heap' = attached(h, call, item)
       /\ frames' = [calls EXCEPT ![Len(calls)].left = @ - 1, ![Len(calls)].key = NULL]
       /\ index' = next
       /\ UNCHANGED <<pc, plist, err, oom>>
    \/ /\ calls # <<>>
       /\ \/ ~within_limit(h, call.node, item) /\ UNCHANGED oom
          \/ Fails("attach")
       /\ GiveUp(h, calls, item, PLIST_ERR_NO_MEM, Len(calls) = 1)

leaf_node ==
    IF token.type = "unquoted" THEN parse_primitive(token.text)
    ELSE IF unescapes(token.text) THEN Node("string", unescape_string(token.text)) ELSE NULL

Leaf ==
    /\ Building
    /\ wants_value
    /\ token.type \in Leaves
    /\ \/ leaf_node # NULL /\ Returned(Append(heap, leaf_node), Len(heap) + 1, frames, index + 1)
       \/ leaf_node = NULL /\ GiveUp(heap, frames, NULL, PLIST_ERR_PARSE, TRUE) /\ UNCHANGED oom
       \/ leaf_node # NULL /\ Fails("node") /\ GiveUp(heap, frames, NULL, PLIST_ERR_PARSE, TRUE)

\* Slip: one level fewer.
too_deep_slip == Len(frames) >= MaxNesting

too_deep == Len(frames) > MaxNesting

\* Slip: a key may be left without a value.
odd_slip == FALSE

odd == token.type = "{" /\ token.size % 2 # 0

Container ==
    /\ Building
    /\ wants_value
    /\ token.type \in Openers
    /\ \/ /\ ~too_deep /\ ~odd
          /\ heap' = Append(heap, Node(Type[token.type], NULL))
          /\ frames' = Append(frames, [node |-> Len(heap) + 1, left |-> token.size, key |-> NULL])
          /\ index' = index + 1
          /\ UNCHANGED <<pc, plist, err, oom>>
       \/ /\ too_deep \/ odd
          /\ GiveUp(heap, frames, NULL, IF too_deep THEN PLIST_ERR_MAX_NESTING ELSE PLIST_ERR_PARSE,
                    frames = <<>>)
          /\ UNCHANGED oom
       \/ /\ ~too_deep /\ ~odd
          /\ Fails("node")
          /\ GiveUp(heap, frames, NULL, PLIST_ERR_NO_MEM, frames = <<>>)

\* The call for a container returns its node.
Return ==
    /\ Building
    /\ frames # <<>> /\ frame.left = 0
    /\ Returned(heap, frame.node, Front(frames), index)

Next ==
    \/ OpenToken \/ LeafToken \/ CloseToken \/ Separator \/ Misspelled \/ NoRoom \/ EndOfText
    \/ Key \/ Leaf \/ Container \/ Return

-----------------------------------------------------------------------------
(***************************************************************************)
(* Properties                                                              *)
(***************************************************************************)
\* However often the array of tokens was too small, it holds what the text says:
\* one token for each lexeme that is not a separator, each container with the
\* number of the items it has so far, and toksuper is the innermost that is open.
TokensAgree ==
    pc = "lex" =>
        LET d == SelectSeq(SubSeq(doc, 1, pos), LAMBDA t : t.type \notin Separators)
            opened == {i \in DOMAIN d : ~Closes(d[i])}
            at(i) == Cardinality({j \in opened : j <= i})
        IN  /\ Len(tokens) = Cardinality(opened)
            /\ \A i \in opened :
                  /\ tokens[at(i)].type = d[i].type
                  /\ tokens[at(i)].closed <=> ~Opens(d[i]) \/ Nest!ClosedAt(d, i) <= Len(d)
                  /\ tokens[at(i)].size = IF Opens(d[i]) THEN Len(Nest!Inside(d, i)) ELSE 0
            /\ toksuper = at(Most({0} \cup {i \in opened : Opens(d[i]) /\ Nest!ClosedAt(d, i) > Len(d)}))
=============================================================================
