------------------------------ MODULE XmlReader ------------------------------
(***************************************************************************)
(* XML property lists (src/xplist.c): the reader, node_from_xml, and the   *)
(* writer, node_to_xml.                                                    *)
(*                                                                         *)
(* The reader goes from tag to tag with no recursion of its own. It keeps  *)
(* the open tags in node_path, their number in depth, and the container    *)
(* that is being filled in parent; the three are set in different places.  *)
(* One iteration of its loop is a step here. A scalar is read with its     *)
(* content and closing tag in one iteration, so it is one tag of the       *)
(* model; comments, DOCTYPE and processing instructions change nothing and *)
(* are left out. A document is a sequence of tags, any sequence.           *)
(*                                                                         *)
(* Nodes are numbered in the order they are allocated. The key node of a   *)
(* pair is kept with its value: PlistDict shows that they stay together.   *)
(***************************************************************************)
EXTENDS PlistTrees

CONSTANTS Docs,         \* the documents that are read: sequences of [type, empty, value]
          MaxFailures,  \* bound: the number of allocations that fail
          CF_UID        \* the key CF$UID

VARIABLES doc,
          pos,        \* the number of tags read
          pc,         \* "read" or "done"
          heap,       \* the nodes: [type, value, key, up, kids]
          plist,      \* the root, or NULL
          parent,     \* the container being filled, or NULL
          keyname,    \* the key read last, without a value yet, or NULL
          node_path,  \* the open tags, innermost last
          depth,      \* the number of open containers
          err,
          oom,        \* the allocations that failed: of a "node", of an item of the
                      \* "path", and those that an "attach" needs
          twice       \* some node was freed twice

vars == <<doc, pos, pc, heap, plist, parent, keyname, node_path, depth, err, oom, twice>>

Scalars    == {"string", "key", "integer", "true"}
Values     == Containers \cup Scalars \cup {"unclosed"}

\* Tags that are no value: "bad" has content that cannot be read or an unknown
\* name, "garbage" is no tag. "/other" closes something that is not a container.
\* "unclosed" is a boolean with something else where it should be closed.
Closing == [plist |-> "/plist", dict |-> "/dict", array |-> "/array"]

-----------------------------------------------------------------------------
(***************************************************************************)
(* The tree that is built                                                  *)
(***************************************************************************)
\* A key out of place is a string.
node_type(t) ==
    CASE t.type = "key"      -> "string"
      [] t.type = "unclosed" -> "true"
      [] OTHER               -> t.type

\* plist_new_plist_data and plist_new_node.
Allocated(t) ==
    Append(heap, Node(node_type(t), t.value))
subnode == Len(heap) + 1

\* The subnode as an item of parent, or with its key.
placed(h, n) ==
    IF h[parent].type = "dict" THEN plist_dict_set_item(h, parent, keyname, n)
    ELSE plist_array_append_item(h, parent, n)

\* The value of the only pair, if its key is CF$UID.
uid_values(h, n) ==
    {k \in ToSet(h[n].kids) : h[n].type = "dict" /\ Len(h[n].kids) = 1 /\ h[k].key = CF_UID}

\* plist_set_uid_val: a dict that holds a UID becomes one, and its items are freed.
with_uid(h, n, k) ==
    [free_all(h, {k}) EXCEPT ![n].type = "uid", ![n].value = h[k].value, ![n].kids = <<>>]

-----------------------------------------------------------------------------
(***************************************************************************)
(* Ways an iteration ends                                                  *)
(***************************************************************************)
\* Slip: the node at hand is forgotten.
cleaned_up_slip(h, sub, root) == free_all(h, {root} \ {NULL})

\* err_out: the node at hand and the tree are freed.
cleaned_up(h, sub, root) == free_all(h, {sub, root} \ {NULL})

GiveUp(code, h, sub, root) ==
    /\ pc' = "done"
    /\ heap' = cleaned_up(h, sub, root)
    /\ twice' = (sub # NULL /\ sub = root)
    /\ plist' = NULL /\ keyname' = NULL /\ node_path' = <<>> /\ err' = code
    /\ UNCHANGED <<parent, depth>>

Fails(what) == Cardinality(oom) < MaxFailures /\ oom' = oom \cup {what}

tag == doc[pos + 1]

Reading(types) ==
    /\ pc = "read" /\ pos < Len(doc)
    /\ tag.type \in types
    /\ pos' = pos + 1
    /\ UNCHANGED doc

-----------------------------------------------------------------------------
Init ==
    /\ doc \in Docs /\ pos = 0 /\ pc = "read" /\ heap = <<>> /\ plist = NULL /\ parent = NULL
    /\ keyname = NULL /\ node_path = <<>> /\ depth = 0
    /\ err = PLIST_ERR_SUCCESS /\ oom = {} /\ twice = FALSE

Garbage ==
    /\ Reading({"garbage"})
    /\ GiveUp(PLIST_ERR_PARSE, heap, NULL, plist)
    /\ UNCHANGED oom

OpenPlist ==
    /\ Reading({"plist"})
    /\ \/ /\ (node_path = <<>> /\ plist # NULL) \/ tag.empty
          /\ GiveUp(PLIST_ERR_PARSE, heap, NULL, plist)
          /\ UNCHANGED oom
       \/ /\ node_path # <<>> \/ plist = NULL
          /\ ~tag.empty
          /\ \/ /\ node_path' = Append(node_path, "plist")
                /\ UNCHANGED <<pc, heap, plist, parent, keyname, depth, err, oom, twice>>
             \/ Fails("path") /\ GiveUp(PLIST_ERR_PARSE, heap, NULL, plist)

\* Slip: any open tag will do.
matches_slip(name) == node_path # <<>>

\* The closing tag name closes the innermost open tag.
matches(name) == node_path # <<>> /\ Closing[Last(node_path)] = name

ClosePlist ==
    /\ Reading({"/plist"})
    /\ \/ /\ plist = NULL \/ ~matches("/plist")
          /\ GiveUp(PLIST_ERR_PARSE, heap, NULL, plist)
       \/ /\ plist # NULL /\ matches("/plist")
          /\ node_path' = Front(node_path)
          /\ UNCHANGED <<pc, heap, plist, parent, keyname, depth, err, twice>>
    /\ UNCHANGED oom

\* A node cannot be allocated, whatever value the tag has.
NoNode ==
    /\ Reading(Values \cup {"bad"})
    /\ Fails("node")
    /\ GiveUp(PLIST_ERR_NO_MEM, heap, NULL, plist)

Unreadable ==
    /\ Reading({"bad", "integer"})
    /\ tag.type = "integer" => tag.empty
    /\ GiveUp(PLIST_ERR_PARSE, Append(heap, Node("bad", "")), subnode, plist)
    /\ UNCHANGED oom

names_the_next(t) ==
    t.type = "key" /\ ~t.empty /\ keyname = NULL /\ parent # NULL /\ heap[parent].type = "dict"

Key ==
    /\ Reading({"key"})
    /\ names_the_next(tag)
    /\ keyname' = tag.value
    /\ UNCHANGED <<pc, heap, plist, parent, node_path, depth, err, oom, twice>>

\* Slip: one level too many.
too_deep_slip == depth > MaxNesting

too_deep == depth >= MaxNesting

\* The iteration from where subnode has its place: the tree is h, below root.
Placed(h, root, outer) ==
    \/ /\ tag.type \in Scalars \/ tag.empty
       /\ heap' = h /\ plist' = root /\ parent' = outer /\ keyname' = NULL
       /\ UNCHANGED <<pc, node_path, depth, err, twice>>
    \/ /\ tag.type = "unclosed"
       /\ GiveUp(PLIST_ERR_PARSE, h, NULL, root)
    \/ /\ tag.type \in Containers /\ ~tag.empty
       /\ too_deep
       /\ GiveUp(PLIST_ERR_MAX_NESTING, h, subnode, root)
    \/ /\ tag.type \in Containers /\ ~tag.empty
       /\ ~too_deep
       /\ heap' = h /\ plist' = root /\ parent' = subnode /\ keyname' = NULL
       /\ node_path' = Append(node_path, tag.type) /\ depth' = depth + 1
       /\ UNCHANGED <<pc, err, twice>>

\* As Placed, but the path item of a container cannot be allocated.
PlacedNoPath(h, root) ==
    /\ tag.type \in Containers /\ ~tag.empty
    /\ ~too_deep
    /\ Fails("path")
    /\ GiveUp(PLIST_ERR_PARSE, h, subnode, root)

ReadingValue ==
    /\ Reading(Values)
    /\ ~(tag.type = "integer" /\ tag.empty)
    /\ ~names_the_next(tag)

\* The first value. An empty container becomes the parent, too.
RootValue ==
    /\ ReadingValue
    /\ plist = NULL
    /\ \/ /\ Placed(Allocated(tag), subnode, IF tag.type \in Containers THEN subnode ELSE NULL)
          /\ UNCHANGED oom
       \/ PlacedNoPath(Allocated(tag), subnode)

\* There is a container for a value, and a key if it is a dict.
has_place ==
    /\ parent # NULL
    /\ heap[parent].type \in Containers
    /\ heap[parent].type = "dict" => keyname # NULL

MisplacedValue ==
    /\ ReadingValue
    /\ plist # NULL /\ ~has_place
    /\ GiveUp(PLIST_ERR_PARSE, Allocated(tag), subnode, plist)
    /\ UNCHANGED oom

fits == within_limit(Allocated(tag), parent, subnode)

\* A value in a container. Nobody looks whether it was attached.
ChildValue ==
    /\ ReadingValue
    /\ plist # NULL /\ has_place
    /\ LET h == IF fits THEN placed(Allocated(tag), subnode) ELSE Allocated(tag) IN
       \/ Placed(h, plist, parent) /\ UNCHANGED oom
       \/ PlacedNoPath(h, plist)
       \/ fits /\ Fails("attach") /\ Placed(Allocated(tag), plist, parent)

\* Slip: the parent stays.
container_of_slip(h, n) == n

\* The container a node is in.
container_of(h, n) == IF n = NULL THEN NULL ELSE h[n].up

\* What makes a UID of the dict that closes.
closed_values ==
    {k \in DOMAIN heap : matches("/dict") /\ parent # NULL /\ k \in uid_values(heap, parent)}

CloseContainer ==
    /\ Reading({"/dict", "/array", "/other"})
    /\ \/ /\ \/ ~matches(tag.type)
             \/ \E k \in closed_values : heap[k].type # "integer"
          /\ GiveUp(PLIST_ERR_PARSE, heap, NULL, plist)
       \/ /\ matches(tag.type)
          /\ \A k \in closed_values : heap[k].type = "integer"
          /\ heap' = IF closed_values = {} THEN heap
                     ELSE with_uid(heap, parent, CHOOSE k \in closed_values : TRUE)
          /\ depth' = IF depth > 0 THEN depth - 1 ELSE 0
          /\ node_path' = Front(node_path)
          /\ parent' = container_of(heap, parent)
          /\ keyname' = NULL
          /\ UNCHANGED <<pc, plist, err, twice>>
    /\ UNCHANGED oom

\* A root that is still a dict with a UID is replaced.
EndOfDocument ==
    /\ pc = "read" /\ pos = Len(doc)
    /\ \/ /\ node_path # <<>>
          /\ GiveUp(PLIST_ERR_PARSE, heap, NULL, plist)
       \/ /\ node_path = <<>>
          /\ LET uids == IF plist = NULL THEN {}
                         ELSE {k \in uid_values(heap, plist) : heap[k].type = "integer"}
             IN  \/ /\ uids = {} /\ UNCHANGED <<heap, plist>>
                 \/ \E k \in uids :
                       /\ heap' = Append(plist_free(heap, plist), Node("uid", heap[k].value))
                       /\ plist' = Len(heap) + 1
          /\ pc' = "done" /\ keyname' = NULL
          /\ UNCHANGED <<parent, node_path, depth, err, twice>>
    /\ UNCHANGED <<doc, pos, oom>>

Next ==
    \/ Garbage \/ OpenPlist \/ ClosePlist \/ NoNode \/ Unreadable \/ Key
    \/ RootValue \/ MisplacedValue \/ ChildValue \/ CloseContainer \/ EndOfDocument

-----------------------------------------------------------------------------
(***************************************************************************)
(* The writer: the tags of the nodes from n down                           *)
(***************************************************************************)
Tag(type, empty, value) == [type |-> type, empty |-> empty, value |-> value]
Opening(type) == Tag(type, FALSE, "")

Keys(h, n) == IF h[n].key = NULL THEN <<>> ELSE <<Tag("key", FALSE, h[n].key)>>

\* Slip: a container is never an empty element.
container_tags_slip(type, inner) ==
    <<Opening(type)>> \o inner \o (IF inner = <<>> THEN <<>> ELSE <<Opening(Closing[type])>>)

container_tags(type, inner) ==
    IF inner = <<>> THEN <<Tag(type, TRUE, "")>>
    ELSE <<Opening(type)>> \o inner \o <<Opening(Closing[type])>>

\* A UID is written as a dict.
uid_tags(value) == <<Tag("key", FALSE, CF_UID), Tag("integer", FALSE, value)>>

node_to_xml(h, n) ==
    LET tags[m \in DOMAIN h] ==
            Keys(h, m) \o
            CASE h[m].type \in Containers ->
                    container_tags(h[m].type,
                        FlattenSeq([i \in DOMAIN h[m].kids |-> tags[h[m].kids[i]]]))
              [] h[m].type = "uid" -> container_tags("dict", uid_tags(h[m].value))
              [] OTHER -> <<Tag(h[m].type, h[m].type = "true", h[m].value)>>
    IN  tags[n]

\* plist_to_xml
plist_to_xml(h, n) == <<Opening("plist")>> \o node_to_xml(h, n) \o <<Opening("/plist")>>

-----------------------------------------------------------------------------
(***************************************************************************)
(* What a document means, told from the nesting of its tags                *)
(***************************************************************************)
Opens(t)  == t.type \in DOMAIN Closing /\ ~t.empty
Closes(t) == t.type \in {"/plist", "/dict", "/array", "/other"}
ClosingTag(t) == Closing[t.type]

Tags == INSTANCE Nesting WITH Closing <- ClosingTag

IsValue(t) == t.type \in Values
IsContainer(t) == t.type \in Containers /\ ~t.empty

\* For each tag the innermost container it is in, or 0.
Enclosing(d) ==
    LET within == Tags!Enclosing(d)
        container[i \in 0..Len(d)] ==
            IF i = 0 \/ IsContainer(d[i]) THEN i ELSE container[within[i]]
    IN  [i \in DOMAIN d |-> container[within[i]]]

\* The values and keys directly in the container that tag j opens, in order.
Members(d, j) ==
    LET within == Enclosing(d)
    IN  SelectSeq([i \in DOMAIN d |-> i], LAMBDA i : IsValue(d[i]) /\ within[i] = j)

\* The members of a dict are keys and values by turns. A key without a value is
\* left out.
Pairs(d, members, trees) ==
    Merged([k \in 1..(Len(members) \div 2) |->
               <<d[members[2 * k - 1]].value, trees[members[2 * k]]>>])

HoldsUid(pairs) == Len(pairs) = 1 /\ pairs[1][1] = CF_UID

Trees(d) ==
    LET members_of == [i \in DOMAIN d |-> IF IsContainer(d[i]) THEN Members(d, i) ELSE <<>>]
        trees[i \in DOMAIN d] ==
            LET members == members_of[i]
                pairs   == Pairs(d, members, trees)
            IN  IF d[i].type = "array"
                  THEN Tree("array", "", [k \in DOMAIN members |-> <<NULL, trees[members[k]]>>])
                ELSE IF d[i].type # "dict" THEN Tree(node_type(d[i]), d[i].value, <<>>)
                ELSE IF HoldsUid(pairs) THEN Tree("uid", pairs[1][2].value, <<>>)
                ELSE Tree("dict", "", pairs)
    IN  trees

Meaning(d) == Trees(d)[Head(Members(d, 0))]

\* The document is empty, or a plist element (which may be left out, or nested)
\* around one value.
OneRoot(d) ==
    \/ d = <<>>
    \/ /\ Len(Members(d, 0)) = 1
       /\ \A i \in DOMAIN d :
             /\ d[i].type = "plist" => i < Head(Members(d, 0)) \/ Tags!Enclosing(d)[i] # 0
             /\ d[i].type = "/plist" => i > Head(Members(d, 0))

Sound(t) ==
    /\ t.type \notin {"bad", "garbage", "unclosed", "/other"}
    /\ t.type \in {"plist", "integer"} => ~t.empty

\* Dict i has a key before every value, and a UID in it is an integer.
KeyedDict(d, i) ==
    LET members == Members(d, i)
        pairs   == Pairs(d, members, [j \in DOMAIN d |-> node_type(d[j])])
    IN  /\ \A k \in DOMAIN members :
              k % 2 = 1 => d[members[k]].type = "key" /\ ~d[members[k]].empty
        /\ HoldsUid(pairs) => pairs[1][2] = "integer"

Valid(d) ==
    /\ \A i \in DOMAIN d : Sound(d[i])
    /\ Tags!Balanced(d)
    /\ OneRoot(d)
    /\ \A i \in DOMAIN d : IsContainer(d[i]) =>
          /\ Cardinality({j \in Tags!Around(d, i) : IsContainer(d[j])}) < MaxNesting
          /\ d[i].type = "dict" => KeyedDict(d, i)

\* More values follow a root that is an empty element.
RootReopened(d) ==
    LET within == Enclosing(d)
        roots  == {i \in DOMAIN d : IsValue(d[i]) /\ within[i] = 0}
    IN  \E i, j \in roots :
            /\ i < j /\ \A k \in roots : i <= k
            /\ d[i].type \in Containers /\ d[i].empty

-----------------------------------------------------------------------------
(***************************************************************************)
(* Properties                                                              *)
(***************************************************************************)
\* No item is refused by its parent: there is memory, and below a root that is
\* reopened, which depth does not count, the limit of depth is met too late.
NoneRefused == "attach" \notin oom /\ ~RootReopened(doc)

Succeeded == pc = "done" /\ err = PLIST_ERR_SUCCESS

\* The containers among the open tags, and the types of the nodes from the root down.
Containing(path) ==
    LET opened[k \in 0..Len(path)] ==
            IF k = 0 THEN <<>>
            ELSE IF path[k] \in Containers THEN Append(opened[k - 1], path[k])
            ELSE opened[k - 1]
    IN  opened[Len(path)]
Downward(h, n) == [i \in DOMAIN Upward(h, n) |-> h[Reverse(Upward(h, n))[i]].type]

\* node_path, depth and parent describe the same nesting: from the root down to
\* parent there is a node for each open container. Only a root that is an empty
\* element is a parent without being open. Neither passes the limit.
PathAgrees ==
    /\ depth \in 0..MaxNesting
    /\ \A n \in DOMAIN heap : Depth(heap, n) <= MaxNesting + 1
    /\ pc = "read" /\ NoneRefused =>
        LET opened == Containing(node_path)
            within == Downward(heap, parent)
        IN  /\ depth = Len(opened)
            /\ within = opened \/ (plist # NULL /\ within = <<heap[plist].type>> \o opened)

\* A failed reading leaves nothing behind and a successful one the tree, both
\* with every other node freed, exactly once: also when the node at hand was in
\* the tree already. Two exceptions: an item that could not be attached, and the
\* path item of the root, without which the root is freed twice.
NothingLeaked ==
    pc = "done" /\ NoneRefused =>
        /\ Live(heap) = IF plist = NULL THEN {} ELSE Below(heap, plist)
        /\ err # PLIST_ERR_SUCCESS => plist = NULL
        /\ twice => "path" \in oom /\ depth = 0

\* A document is refused if and only if there is a reason to, however deep inside
\* it, and the tree is what it means: items in order, values under the key before
\* them, repeated keys merged, UID dicts converted.
ReadsTheDocument ==
    pc = "done" /\ oom = {} /\ ~RootReopened(doc) =>
        IF ~Valid(doc) THEN err # PLIST_ERR_SUCCESS
        ELSE /\ err = PLIST_ERR_SUCCESS
             /\ doc # <<>> => plist # NULL /\ Built(heap, plist) = Meaning(doc)

\* The tree with a UID in place of integer n.
WithUid(n) == [heap EXCEPT ![n].type = "uid"]
IntegerNodes(h) == {n \in Below(h, plist) : h[n].type = "integer" /\ h[n].key # CF_UID}

\* What was read, plist_to_xml can write and plist_from_xml reads back the same.
\* So does a tree that has a UID somewhere, but for one place: at the limit of depth
\* it is written as a dict that is nested too deep to be read.
WrittenReadsBack ==
    Succeeded /\ plist # NULL /\ ~RootReopened(doc) =>
        LET reads_back(h) ==
                LET written == plist_to_xml(h, plist)
                IN  Valid(written) /\ Meaning(written) = Built(h, plist)
        IN  /\ reads_back(heap)
            /\ \A n \in IntegerNodes(heap) :
                  IF Depth(heap, n) <= MaxNesting THEN reads_back(WithUid(n))
                  ELSE ~Valid(plist_to_xml(WithUid(n), plist))
=============================================================================
