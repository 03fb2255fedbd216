------------------------------ MODULE CxxMirror ------------------------------
(***************************************************************************)
(* The C++ wrapper (src/Node.cpp, Structure.cpp, Array.cpp,                *)
(* Dictionary.cpp). An object wraps a node of a C tree, and an Array or a  *)
(* Dictionary keeps beside its node a vector or a map of the objects that  *)
(* wrap its items. Each call changes both. Only an object without a parent *)
(* frees its node.                                                         *)
(*                                                                         *)
(* What the code leaves to its callers is in the guards of the actions:    *)
(* results of the C calls are not looked at, so what is put in must fit,   *)
(* and no C call lacks memory;                                             *)
(* an Array or a Dictionary that has a parent is neither copied (its copy  *)
(* would take the parent, an object, for a node) nor assigned to, and no   *)
(* scalar is that has one (the item of the parent would be freed); and     *)
(* nothing is assigned to what contains it. Nulls have no class: there are *)
(* none. Keys that are added stay within Key.                              *)
(***************************************************************************)
EXTENDS PlistTrees, TLC

CONSTANTS Key,
          Address   \* where nodes are, and objects: as many at a time as there are addresses

VARIABLES heap,  \* the nodes, see PlistTrees
          objs   \* the objects: [node, parent, items], items being the vector of an
                 \* Array, and of a Dictionary the map from keys to objects

vars == <<heap, objs>>

NoObject == [node |-> NULL, parent |-> NULL, items |-> <<>>]

Objects == {w \in DOMAIN objs : objs[w] # NoObject}
type(w) == heap[objs[w].node].type
Of(types) == {w \in Objects : type(w) \in types}
Roots == {w \in Objects : objs[w].parent = NULL}

UnusedNodes(h)   == DOMAIN h \ Live(h)
UnusedObjects(o) == {w \in DOMAIN o : o[w] = NoObject}

\* Addresses of T for those of S, the same if they are all there. (Which they are
\* makes no difference.)
Paired(S, T) ==
    IF S \subseteq T THEN [m \in S |-> m] ELSE CHOOSE f \in Injection(S, T) : TRUE

Init ==
    /\ heap = [n \in Address |-> Freed]
    /\ objs = [w \in Address |-> NoObject]

-----------------------------------------------------------------------------
(***************************************************************************)
(* The C calls that PlistTrees has not                                     *)
(***************************************************************************)
\* Where plist_copy puts the nodes from n down.
copies(h, n) == Paired(Below(h, n), UnusedNodes(h))

plist_copy(h, n) ==
    LET copy == copies(h, n) IN
    [m \in DOMAIN h |->
        IF m \notin Range(copy) THEN h[m]
        ELSE LET of == CHOOSE k \in DOMAIN copy : copy[k] = m
             IN  [h[of] EXCEPT !.up   = IF of = n THEN NULL ELSE copy[@],
                               !.key  = IF of = n THEN NULL ELSE @,
                               !.kids = [i \in DOMAIN @ |-> copy[@[i]]]]]

plist_array_insert_item(h, n, item, pos) ==
    [h EXCEPT ![n].kids = InsertAt(@, pos + 1, item), ![item].up = n]

-----------------------------------------------------------------------------
(***************************************************************************)
(* Objects                                                                 *)
(***************************************************************************)
\* array_fill, dictionary_fill, and so on down: an object for each node below n,
\* which this wraps.
filled(o, h, n, this) ==
    LET of == (n :> this) @@ Paired(Below(h, n) \ {n}, UnusedObjects(o) \ {this})
        items(m) ==
            IF h[m].type = "array" THEN [i \in DOMAIN h[m].kids |-> of[h[m].kids[i]]]
            ELSE [k \in {h[c].key : c \in ToSet(h[m].kids)} |->
                     of[CHOOSE c \in ToSet(h[m].kids) : h[c].key = k]]
        wrapper(m) ==
            [node |-> m, items |-> items(m),
             parent |-> IF m = n THEN o[this].parent ELSE of[h[m].up]]
    IN  [w \in DOMAIN o |->
            IF w \in Range(of) THEN wrapper(CHOOSE m \in DOMAIN of : of[m] = w) ELSE o[w]]

\* Node::FromPlist: the object is new_object(o, n).
new_object(o, n) == Paired({n}, UnusedObjects(o))[n]
FromPlist(o, h, n, parent) ==
    filled([o EXCEPT ![new_object(o, n)] = [NoObject EXCEPT !.parent = parent]], h, n, new_object(o, n))

\* The objects that are deleted with w.
Deleted(o, w) ==
    LET below[v \in DOMAIN o] == {v} \cup UNION {below[x] : x \in Range(o[v].items) \ {NULL}}
    IN  IF w = NULL THEN {} ELSE below[w]

\* delete. Where the code has free(w) the objects below w, which no one can reach
\* any more, are lost and not freed. They are forgotten here, too.
delete(o, ws) == [v \in DOMAIN o |-> IF \E w \in ws : v \in Deleted(o, w) THEN NoObject ELSE o[v]]

\* Slip: the node is left to its parent, also if there is none.
unwrapped_slip(h, w) == h

\* ~Node
unwrapped(h, w) == IF objs[w].parent = NULL THEN plist_free(h, objs[w].node) ELSE h

-----------------------------------------------------------------------------
(***************************************************************************)
(* The calls                                                               *)
(***************************************************************************)
\* new Array(), new Dictionary(), Integer(i)
New(t) ==
    /\ UnusedNodes(heap) # {} /\ UnusedObjects(objs) # {}
    /\ LET n == CHOOSE n \in UnusedNodes(heap) : TRUE IN
       /\ heap' = [heap EXCEPT ![n] = Node(t, "")]
       /\ objs' = FromPlist(objs, heap', n, NULL)

HasRoom(w) ==
    LET n == Cardinality(Below(heap, objs[w].node))
    IN  Cardinality(UnusedNodes(heap)) >= n /\ Cardinality(UnusedObjects(objs)) >= n

\* The copy plist_copy makes of the node of w.
cloned_node(w) == copies(heap, objs[w].node)[objs[w].node]

\* Structure::FromXml of what w->ToXml() returned (XmlReader shows that it is the same
\* tree), or FromBin and ToBin.
Import(w) ==
    /\ HasRoom(w)
    /\ heap' = plist_copy(heap, objs[w].node)
    /\ objs' = FromPlist(objs, heap', cloned_node(w), NULL)

\* Clone of w, as an item of s: UpdateNodeParent has no parent to take it from.
clone(w) == new_object(objs, cloned_node(w))
Cloned(s, w) == FromPlist(objs, plist_copy(heap, objs[w].node), cloned_node(w), s)

\* The clone of w can be made, and be an item of s.
Fits(s, w) ==
    /\ type(w) \in Containers => w \in Roots
    /\ HasRoom(w)
    /\ within_limit(heap, objs[s].node, objs[w].node)

\* Array::Append
AppendItem(a, w) ==
    /\ Fits(a, w)
    /\ heap' = plist_array_append_item(plist_copy(heap, objs[w].node), objs[a].node,
                                       cloned_node(w))
    /\ objs' = [Cloned(a, w) EXCEPT ![a].items = Append(@, clone(w))]

\* Slip: the position is left to the C array.
inserted_slip(items, pos, w) == Append(items, w)

inserted(items, pos, w) == InsertAt(items, pos + 1, w)

\* Array::Insert
InsertItem(a, w, pos) ==
    /\ Fits(a, w)
    /\ heap' = plist_array_insert_item(plist_copy(heap, objs[w].node), objs[a].node,
                                       cloned_node(w), pos)
    /\ objs' = [Cloned(a, w) EXCEPT ![a].items = inserted(@, pos, clone(w))]

\* Array::Remove, of a position or of an item. (plist_array_get_item_index finds
\* the position in the C array.)
RemovePos(a, pos) ==
    /\ heap' = plist_free(heap, heap[objs[a].node].kids[pos])
    /\ objs' = delete([objs EXCEPT ![a].items = RemoveAt(@, pos)], {objs[a].items[pos]})

RemoveItem(a, w) ==
    LET pos == CHOOSE i \in DOMAIN heap[objs[a].node].kids : heap[objs[a].node].kids[i] = objs[w].node
    IN  /\ heap' = plist_free(heap, objs[w].node)
        /\ objs' = delete([objs EXCEPT ![a].items = RemoveAt(@, pos)], {w})

At(d, k) == IF k \in DOMAIN objs[d].items THEN objs[d].items[k] ELSE NULL

\* Dictionary::Set
SetItem(d, k, w) ==
    /\ Fits(d, w)
    /\ heap' = plist_dict_set_item(plist_copy(heap, objs[w].node), objs[d].node, k,
                                   cloned_node(w))
    /\ objs' = delete([Cloned(d, w) EXCEPT ![d].items = (k :> clone(w)) @@ @], {At(d, k)})

Without(map, k) == Restrict(map, DOMAIN map \ {k})

\* Dictionary::Remove, of a key or of a value.
RemoveKey(d, k) ==
    /\ heap' = IF Positions(heap, objs[d].node, k) = {} THEN heap
               ELSE plist_free(heap, CHOOSE n \in ToSet(heap[objs[d].node].kids) : heap[n].key = k)
    /\ objs' = delete([objs EXCEPT ![d].items = Without(@, k)], {At(d, k)})

RemoveValue(d, w) ==
    /\ heap' = plist_free(heap, objs[w].node)
    /\ objs' = delete([objs EXCEPT ![d].items = Without(@, heap[objs[w].node].key)], {w})

\* Dictionary::operator[] makes an entry without an object for a key that is missing.
Subscript(d, k) ==
    /\ k \notin DOMAIN objs[d].items
    /\ objs' = [objs EXCEPT ![d].items = (k :> NULL) @@ @]
    /\ UNCHANGED heap

\* What an assignment to w leaves of the nodes: Dictionary::operator= frees the
\* values only.
cleared(w) ==
    IF type(w) # "dict" THEN plist_free(heap, objs[w].node)
    ELSE [free_all(heap, {objs[v].node : v \in Range(objs[w].items)}) EXCEPT ![objs[w].node].kids = <<>>]

\* operator= of all classes.
Assign(w, source) ==
    LET from  == objs[source].node
        rest  == [delete(objs, Range(objs[w].items)) EXCEPT ![w].items = <<>>]
    IN  /\ w # source /\ type(w) = type(source)
        /\ from \notin Below(heap, objs[w].node)
        /\ NULL \notin Range(objs[w].items)
        /\ Cardinality(UnusedNodes(cleared(w))) >= Cardinality(Below(heap, from))
        /\ Cardinality(UnusedObjects(rest)) >= Cardinality(Below(heap, from)) - 1
        /\ heap' = plist_copy(cleared(w), from)
        /\ objs' = filled(rest, heap', copies(cleared(w), from)[from], w)

\* delete of an object that has no parent.
Delete(w) ==
    /\ heap' = unwrapped(heap, w)
    /\ objs' = delete(objs, {w})

Next ==
    \/ \E t \in {"array", "dict", "int"} : New(t)
    \/ \E w \in Of(Containers) : Import(w)
    \/ \E a \in Of({"array"}) :
          \/ \E w \in Objects : AppendItem(a, w)
          \/ \E w \in Objects, pos \in 0..Len(objs[a].items) : InsertItem(a, w, pos)
          \/ \E pos \in DOMAIN objs[a].items : RemovePos(a, pos) \/ RemoveItem(a, objs[a].items[pos])
    \/ \E d \in Of({"dict"}), k \in Key :
          \/ \E w \in Objects : SetItem(d, k, w)
          \/ RemoveKey(d, k)
          \/ At(d, k) # NULL /\ RemoveValue(d, At(d, k))
          \/ Subscript(d, k)
    \/ \E w \in Roots, source \in Objects : Assign(w, source)
    \/ \E w \in Roots : Delete(w)

Spec == Init /\ [][Next]_vars

-----------------------------------------------------------------------------
(***************************************************************************)
(* Properties                                                              *)
(***************************************************************************)
\* After every sequence of calls each object wraps a node that is there, and its
\* vector or map holds, at the same place, the objects that wrap the items of
\* the node and have it for a parent: what C++ iterates over is what is written.
Mirrors ==
    \A w \in Objects :
        LET n     == objs[w].node
            items == objs[w].items
            wraps(v, c) == objs[v].node = c /\ objs[v].parent = w
        IN  /\ n \in Live(heap)
            /\ objs[w].parent = NULL <=> heap[n].up = NULL
            /\ IF heap[n].type = "dict"
                 THEN /\ \A c \in ToSet(heap[n].kids) :
                            heap[c].key \in DOMAIN items /\ wraps(items[heap[c].key], c)
                      /\ Cardinality({k \in DOMAIN items : items[k] # NULL}) = Len(heap[n].kids)
                 ELSE /\ Len(items) = Len(heap[n].kids)
                      /\ \A i \in DOMAIN items : wraps(items[i], heap[n].kids[i])

\* No node is lost, and none has two objects, of which each might free it: there is
\* one object for each node. Only Dictionary::operator= forgets the dict it had,
\* with its values freed.
NoOrphans ==
    \A n \in Live(heap) :
        \/ Cardinality({w \in Objects : objs[w].node = n}) = 1
        \/ heap[n] = Node("dict", "")
=============================================================================
