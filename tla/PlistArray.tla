------------------------------ MODULE PlistArray ------------------------------
(***************************************************************************)
(* PLIST_ARRAY nodes (src/plist.c). An array keeps its items in the        *)
(* children list of its node, and once it has grown past a threshold it    *)
(* keeps them a second time, in a lookup cache (a ptrarray_t) that answers *)
(* plist_array_get_item in constant time. Every operation on the array     *)
(* updates the children list and the cache in separate steps, and some of  *)
(* them can fail half-way.                                                 *)
(*                                                                         *)
(* Nodes that are not arrays are values: their content does not matter     *)
(* here. Each action is one call of the public API. (X_slip is X with a    *)
(* plausible slip, to test the properties; no specification uses it.)      *)
(***************************************************************************)
EXTENDS ForestOps

CONSTANTS CacheThreshold,  \* 100: a longer array gets a lookup cache
          Shortages        \* the values of short

ASSUME CacheAssumption == CacheThreshold \in Nat
ASSUME ShortagesAssumption == Shortages \subseteq SUBSET Node

VARIABLES type,    \* "free", "array" or "value"
          forest,  \* the node trees (libcnary)
          cache,   \* of each array: its ptrarray_t as a sequence, or NULL
          short,   \* the nodes an attach or insert finds no memory for in the next call
          stale    \* (history) the arrays whose cache a failed roll-back left behind

vars == <<type, forest, cache, short, stale>>

Live   == {n \in Node : type[n] # "free"}
Arrays == {n \in Node : type[n] = "array"}
Roots  == {n \in Live : forest.parent[n] = NULL}
Fresh  == {n \in Node : type[n] = "free"}

Init ==
    /\ type = [n \in Node |-> "free"]
    /\ forest = EmptyForest
    /\ cache = [n \in Node |-> NULL]
    /\ short \in Shortages
    /\ stale = {}

-----------------------------------------------------------------------------
(***************************************************************************)
(* ptrarray.c. Indices are 0-based; -1 asks for an append.                 *)
(***************************************************************************)
\* Slip: the index is ignored.
ptr_array_insert_slip(pa, item, n) == Append(pa, item)

ptr_array_insert(pa, item, n) ==
    IF n < 0 \/ n >= Len(pa) THEN Append(pa, item) ELSE InsertAt(pa, n + 1, item)

ptr_array_remove(pa, n) == IF n \in 0..(Len(pa) - 1) THEN RemoveAt(pa, n + 1) ELSE pa

ptr_array_set(pa, item, n) == IF n \in 0..(Len(pa) - 1) THEN ReplaceAt(pa, n + 1, item) ELSE pa

ptr_array_index(pa, n) == IF n < Len(pa) THEN pa[n + 1] ELSE NULL

\* A cache built from the children of an array that has none and is long
\* enough: for (current = first child; ...) ptr_array_add(pa, current).
built_cache(f, node) ==
    IF Len(f.kids[node]) > CacheThreshold THEN f.kids[node] ELSE NULL

\* The cache of node after item was inserted at n (_plist_array_post_insert).
post_insert(f, node, item, n) ==
    IF cache[node] # NULL THEN ptr_array_insert(cache[node], item, n)
    ELSE built_cache(f, node)

\* The cache of node after item was put at n (_plist_array_post_set).
post_set(f, node, item, n) ==
    LET pa == IF cache[node] # NULL THEN cache[node] ELSE built_cache(f, node) IN
    IF pa = NULL THEN NULL ELSE ptr_array_set(pa, item, n)

plist_array_get_item(node, n) ==
    IF cache[node] # NULL THEN ptr_array_index(cache[node], n)
    ELSE node_nth_child(forest, node, n)

-----------------------------------------------------------------------------
(***************************************************************************)
(* Freeing (plist_free_node): node is detached from its parent, then it    *)
(* and everything below it is freed, caches included. (With memory for the *)
(* stack of plist_free_children.)                                          *)
(***************************************************************************)

detached(f, node) ==
    IF f.parent[node] = NULL THEN f ELSE node_detach(f, f.parent[node], node).f

\* f, the types and the caches c after plist_free_node(node).
FreeNode(f, c, node) ==
    LET gone == Subtree(f, node) IN
    /\ forest' = Release(detached(f, node), gone)
    /\ type' = [n \in Node |-> IF n \in gone THEN "free" ELSE type[n]]
    /\ cache' = [n \in Node |-> IF n \in gone THEN NULL ELSE c[n]]
    /\ stale' = stale \ gone

-----------------------------------------------------------------------------
(***************************************************************************)
(* Actions. Next says what short becomes.                                  *)
(***************************************************************************)
NewNode(n, t) ==
    /\ type' = [type EXCEPT ![n] = t]
    /\ UNCHANGED <<forest, cache, stale>>

\* An array the binary reader built with node_attach: it has no cache,
\* however long it is. items are fresh value nodes. (What the reader does
\* without memory is the subject of BplistReader.)
ParsedArray(a, items) ==
    /\ Range(items) \cap short = {}
    /\ type' = [n \in Node |-> IF n = a THEN "array"
                               ELSE IF n \in Range(items) THEN "value" ELSE type[n]]
    /\ forest' = [kids   |-> [forest.kids EXCEPT ![a] = items],
                  parent |-> [n \in Node |-> IF n \in Range(items) THEN a ELSE forest.parent[n]]]
    /\ UNCHANGED <<cache, stale>>

\* plist_array_append_item
AppendItem(a, item) ==
    LET r == try_attach(short, forest, a, item) IN
    /\ forest' = r.f
    /\ cache' = IF r.ret = NODE_ERR_SUCCESS
                  THEN [cache EXCEPT ![a] = post_insert(r.f, a, item, -1)]
                  ELSE cache
    /\ UNCHANGED <<type, stale>>

\* plist_array_insert_item
InsertItem(a, item, n) ==
    LET r == try_insert(short, forest, a, n, item) IN
    /\ forest' = r.f
    /\ cache' = IF r.ret = NODE_ERR_SUCCESS
                  THEN [cache EXCEPT ![a] = post_insert(r.f, a, item, n)]
                  ELSE cache
    /\ UNCHANGED <<type, stale>>

\* Slip: the old item is put back at the end.
reinsert_slip(f, a, idx, old) == try_attach(short, f, a, old)

\* The roll-back of plist_array_set_item.
reinsert(f, a, idx, old) == try_insert(short, f, a, idx, old)

\* plist_array_set_item: detach the old item, insert the new one in its place;
\* when that fails put the old one back, else update the cache and free it. When
\* putting it back fails too, the array is without it, and its cache is not told.
SetItem(a, item, n) ==
    LET old  == plist_array_get_item(a, n)
        d    == node_detach(forest, a, old)
        r    == try_insert(short, d.f, a, d.ret, item)
        back == reinsert(r.f, a, d.ret, old)
    IN
    /\ old # NULL
    /\ detach_errors(forest, a, old) = {}
    /\ IF r.ret = NODE_ERR_SUCCESS
         THEN FreeNode(r.f, [cache EXCEPT ![a] = post_set(r.f, a, item, d.ret)], old)
         ELSE /\ forest' = back.f
              /\ cache' = IF back.ret = NODE_ERR_SUCCESS
                            THEN [cache EXCEPT ![a] = post_set(back.f, a, old, d.ret)]
                            ELSE cache
              /\ stale' = IF back.ret = NODE_ERR_SUCCESS \/ cache[a] = NULL
                            THEN stale ELSE stale \cup {a}
              /\ UNCHANGED type

\* The cache entry at n goes first, then the item is freed.
remove_at(a, n, item) ==
    FreeNode(forest,
             IF cache[a] = NULL THEN cache
             ELSE [cache EXCEPT ![a] = ptr_array_remove(cache[a], n)],
             item)

\* plist_array_remove_item
RemoveItem(a, n) ==
    LET old == plist_array_get_item(a, n) IN old # NULL /\ remove_at(a, n, old)

\* plist_array_item_remove
ItemRemove(item) ==
    LET a == forest.parent[item] IN
    /\ a \in Arrays
    /\ remove_at(a, node_child_position(forest, a, item), item)

\* Slip: the array's own cache is kept.
caches_without_slip(node, gone) == [n \in Node |-> IF n \in gone THEN NULL ELSE cache[n]]

\* The caches once node has dropped its own and the nodes gone are freed.
caches_without(node, gone) ==
    [n \in Node |-> IF n \in gone \cup {node} THEN NULL ELSE cache[n]]

\* plist_set_string_val and the other setters: an array loses its items and
\* its cache and becomes a value; the node itself stays where it is.
SetValue(node) ==
    LET gone == Subtree(forest, node) \ {node} IN
    /\ forest' = [Release(forest, gone) EXCEPT !.kids[node] = <<>>]
    /\ type' = [n \in Node |-> IF n \in gone THEN "free"
                               ELSE IF n = node THEN "value" ELSE type[n]]
    /\ cache' = caches_without(node, gone)
    /\ stale' = stale \ (gone \cup {node})

\* plist_free of a tree.
FreeRoot(root) ==
    /\ root \in Roots
    /\ FreeNode(forest, cache, root)

\* plist_free of an item while it is in an array: it leaves the children list, but
\* not the cache, so callers do this only with arrays that have none.
FreeItem(item) ==
    /\ item \in Live \ Roots
    /\ cache[forest.parent[item]] = NULL
    /\ FreeNode(forest, cache, item)

\* plist_copy. copyOf maps each node of the tree to its copy. Every copied item
\* is attached to its copied array, and appended to that array's cache when the
\* original has one. (A copy that gets no node or cannot be attached is given up
\* and freed as far as it got: nothing has changed.)
Copy(node, copyOf) ==
    LET copies == Range(copyOf)
        orig(m) == CHOOSE t \in DOMAIN copyOf : copyOf[t] = m
    IN
    /\ copies \cap short \subseteq {copyOf[node]}
    /\ type' = [m \in Node |-> IF m \in copies THEN type[orig(m)] ELSE type[m]]
    /\ forest' = CopyTree(forest, node, copyOf)
    /\ cache' = [m \in Node |-> IF m \notin copies THEN cache[m]
                                ELSE IF cache[orig(m)] = NULL THEN NULL
                                ELSE forest'.kids[m]]
    /\ UNCHANGED stale

\* The asserts at the head of append, insert and set: the item is a root.
Call ==
    \/ \E n \in Fresh, t \in {"array", "value"} : NewNode(n, t)
    \/ \E a \in Fresh : \E k \in 1..Cardinality(Fresh \ {a}) :
          \E items \in Injection(1..k, Fresh \ {a}) :
             MaxDepth >= 1 /\ ParsedArray(a, items)
    \/ \E a \in Arrays, item \in Roots : AppendItem(a, item)
    \/ \E a \in Arrays, item \in Roots, n \in 0..Cardinality(Node) : InsertItem(a, item, n)
    \/ \E a \in Arrays, item \in Roots, n \in 0..Cardinality(Node) : SetItem(a, item, n)
    \/ \E a \in Arrays, n \in 0..Cardinality(Node) : RemoveItem(a, n)
    \/ \E item \in Live \ Roots : ItemRemove(item)
    \/ \E n \in Live : SetValue(n)
    \/ \E n \in Live : FreeRoot(n) \/ FreeItem(n)
    \/ \E n \in Live : \E copyOf \in Injection(Subtree(forest, n), Fresh) : Copy(n, copyOf)

\* A stale cache offers an item that has left the array. What calls on that array
\* make of it is not followed: the next call is one that ends the array.
EndStale ==
    \E n \in Live : Subtree(forest, n) \cap stale # {} /\ (SetValue(n) \/ FreeRoot(n))

Next == (IF stale = {} THEN Call ELSE EndStale) /\ short' \in Shortages

Spec == Init /\ [][Next]_vars

-----------------------------------------------------------------------------
(***************************************************************************)
(* Properties                                                              *)
(***************************************************************************)
\* The state has its type. Only live arrays hold a cache, a freed or retyped node
\* keeps none. The trees stay trees through appends, replacements with rollback,
\* removals, retyping and copying; only arrays have children; freed nodes are in
\* no tree.
TypeOK ==
    /\ type \in [Node -> {"free", "array", "value"}]
    /\ forest \in Forest
    /\ \A n \in Node : cache[n] # NULL => type[n] = "array" /\ cache[n] \in Seq(Node)
    /\ Linked(forest)
    /\ Acyclic(forest)
    /\ Shallow(forest)
    /\ \A n \in Node : forest.parent[n] # NULL =>
          type[n] # "free" /\ type[forest.parent[n]] = "array"
    /\ short \subseteq Node
    /\ \A a \in stale : a \in Arrays /\ cache[a] # NULL

\* The lookup cache is the children list, item by item, after every call, those that
\* run out of memory included: so plist_array_get_item(a, n) is the n-th item whether
\* or not a has a cache. One array is exempt, that of a replacement whose roll-back
\* failed: the lost item is still in its cache.
CacheCoherent == \A a \in Node \ stale : cache[a] # NULL => cache[a] = forest.kids[a]

\* plist_array_set_item replaces the n-th item or leaves the array as it was,
\* whether the insert failed on a cycle, on the depth or for memory. Only when there
\* is no memory to put the old item back does the array lose it ("array now missing
\* element"), and no other: the items after it move up, and it is not freed but a
\* root, which its holder can still use.
SetItemAtomic ==
    [][\A a \in Arrays, item \in Roots, n \in 0..Cardinality(Node) :
          stale = {} /\ SetItem(a, item, n) =>
             LET items == forest.kids[a]
                 old   == items[n + 1]
             IN  \/ forest'.kids[a] \in {items, ReplaceAt(items, n + 1, item)}
                 \/ /\ old \in short
                    /\ forest'.kids[a] = RemoveAt(items, n + 1)
                    /\ old \in Roots']_vars
==============================================================================
