------------------------------ MODULE PlistDict ------------------------------
(***************************************************************************)
(* PLIST_DICT nodes (src/plist.c). The children of a dict alternate key    *)
(* and value nodes. A dict that has grown past a threshold also has a hash *)
(* table (src/hashtable.c) from key data to value nodes, and from then on  *)
(* plist_dict_get_item looks at the table only. The operations update the  *)
(* children and the table in separate steps, allocate nodes, and undo what *)
(* they did when a step fails.                                             *)
(*                                                                         *)
(* A state s is a record [type, name, f, ht], so that an operation that    *)
(* calls others (merge, copy_item) is the composition of their operators:  *)
(*   s.type[n]  "free", "dict", "key" or "value" (any other plist type);   *)
(*   s.name[n]  the string of a key node;                                  *)
(*   s.f        the node trees;                                            *)
(*   s.ht[n]    the hash table of a dict, or NULL.                         *)
(* (X_slip is X with a plausible slip, to test the properties; no          *)
(* specification uses it.)                                                 *)
(***************************************************************************)
EXTENDS ForestOps

CONSTANTS Key,            \* the key strings, as numbers in strcmp order
          HashOf,         \* HashOf[k]: the hash bucket of key k
          HashThreshold,  \* 500: a dict with more children gets a hash table
          Alloc,          \* Alloc[S]: the address calloc returns when the
                          \* nodes of S are in use, or NULL: out of memory
          Shortages       \* the values of short

ASSUME KeyAssumption == Key \subseteq Nat /\ HashOf \in [Key -> Nat]
ASSUME ThresholdAssumption == HashThreshold \in Nat
ASSUME DepthAssumption == MaxDepth >= 1   \* NODE_MAX_DEPTH is 512
ASSUME AllocAssumption ==
    /\ Alloc \in [SUBSET Node -> Node \cup {NULL}]
    /\ \A S \in SUBSET Node : Alloc[S] \notin S
ASSUME ShortagesAssumption == Shortages \subseteq SUBSET Node

VARIABLES s,
          ret,    \* what the last call that returns an error code returned
          short   \* the nodes an attach or insert finds no memory for in the next call

vars == <<s, ret, short>>

PLIST_ERR_SUCCESS == 0
PLIST_ERR_INVALID_ARG == -1

Bucket == {HashOf[k] : k \in Key}
NoName == 0
Entry == [key : Node, value : Node]

Live(st)  == {n \in Node : st.type[n] # "free"}
Dicts(st) == {n \in Node : st.type[n] = "dict"}
Roots(st) == {n \in Live(st) : st.f.parent[n] = NULL}

\* The dicts in which a key has lost its value.
Halved(st) == {d \in Dicts(st) : Len(st.f.kids[d]) % 2 = 1}

-----------------------------------------------------------------------------
(***************************************************************************)
(* hashtable.c. A bucket is the chain of its entries. An entry's key is    *)
(* the data of a key node, so the name it compares by is the node's        *)
(* current name. (The entry counter, which nothing reads, is left out.)    *)
(***************************************************************************)
EmptyTable == [b \in Bucket |-> <<>>]

\* Slip: keys that share a bucket count as equal.
hits_slip(st, t, k) == DOMAIN t[HashOf[k]]

\* The positions in k's bucket of the entries whose key compares equal to k.
hits(st, t, k) == {i \in DOMAIN t[HashOf[k]] : st.name[t[HashOf[k]][i].key] = k}

set_entry(t, b, hit, keynode, v) ==
    IF hit # {} THEN [t EXCEPT ![b][Min(hit)].value = v]
    ELSE [t EXCEPT ![b] = <<[key |-> keynode, value |-> v]>> \o @]

hash_table_insert(st, t, keynode, v) ==
    set_entry(t, HashOf[st.name[keynode]], hits(st, t, st.name[keynode]), keynode, v)

hash_table_lookup(st, t, k) ==
    IF hits(st, t, k) = {} THEN NULL ELSE t[HashOf[k]][Min(hits(st, t, k))].value

\* Slip: the first entry of the bucket goes, whatever its key.
hash_table_remove_slip(st, t, k) ==
    IF hits(st, t, k) = {} THEN t ELSE [t EXCEPT ![HashOf[k]] = Tail(@)]

hash_table_remove(st, t, k) ==
    IF hits(st, t, k) = {} THEN t
    ELSE [t EXCEPT ![HashOf[k]] = RemoveAt(@, Min(hits(st, t, k)))]

-----------------------------------------------------------------------------
(***************************************************************************)
(* Pairs and lookup                                                        *)
(***************************************************************************)
Kids(st, d) == st.f.kids[d]

\* The positions of the key nodes that have a value after them.
KeyPositions(st, d) == {i \in DOMAIN Kids(st, d) : i % 2 = 1 /\ i < Len(Kids(st, d))}

\* The first pair with key k, found by walking the children.
linear_lookup(st, d, k) ==
    LET at == {i \in KeyPositions(st, d) : st.name[Kids(st, d)[i]] = k} IN
    IF at = {} THEN NULL ELSE Kids(st, d)[Min(at) + 1]

plist_dict_get_item(st, d, k) ==
    IF st.ht[d] # NULL THEN hash_table_lookup(st, st.ht[d], k) ELSE linear_lookup(st, d, k)

\* A table filled from the pairs of d, in order.
with_pair(st, t, d, i) ==
    IF i \notin KeyPositions(st, d) THEN t
    ELSE hash_table_insert(st, t, Kids(st, d)[i], Kids(st, d)[i + 1])

built_table(st, d) ==
    LET t[i \in 0..Len(Kids(st, d))] ==
            IF i = 0 THEN EmptyTable ELSE with_pair(st, t[i - 1], d, i)
    IN  t[Len(Kids(st, d))]

-----------------------------------------------------------------------------
(***************************************************************************)
(* Allocating and freeing nodes                                            *)
(***************************************************************************)
\* A new root of type t and name k: [s, n], with n = NULL when out of memory.
new_node(st, t, k) ==
    LET n == Alloc[Live(st)] IN
    IF n = NULL THEN [s |-> st, n |-> NULL]
    ELSE [s |-> [st EXCEPT !.type[n] = t, !.name[n] = k], n |-> n]

\* Everything in S is freed; its nodes are in no list any more.
freed(st, S) ==
    [type |-> [n \in Node |-> IF n \in S THEN "free" ELSE st.type[n]],
     name |-> [n \in Node |-> IF n \in S THEN NoName ELSE st.name[n]],
     f    |-> Release(st.f, S),
     ht   |-> [n \in Node |-> IF n \in S THEN NULL ELSE st.ht[n]]]

\* plist_free_node: detaches the node if it has a parent, frees its subtree. (With
\* memory for the stack of plist_free_children.)
plist_free_node(st, n) ==
    LET p == st.f.parent[n]
        cut == IF p = NULL THEN st ELSE [st EXCEPT !.f = node_detach(@, p, n).f]
    IN  freed(cut, Subtree(cut.f, n))

-----------------------------------------------------------------------------
(***************************************************************************)
(* plist_dict_set_item. item is a root.                                    *)
(***************************************************************************)
with_entry(st, d, keynode, v) ==
    IF st.ht[d] = NULL THEN st
    ELSE [st EXCEPT !.ht[d] = hash_table_insert(st, @, keynode, v)]

\* Slip: the index counts the old value, which has left.
old_again_slip(f, d, pos, old) == try_insert(short, f, d, pos + 1, old)

\* The second insert, of the old value.
old_again(f, d, pos, old) == try_insert(short, f, d, pos, old)

\* What it leaves. When it fails too, the key has no value any more, and a table
\* keeps its entry for it.
put_back(st, d, key, old, back) ==
    IF back.ret = NODE_ERR_SUCCESS THEN with_entry([st EXCEPT !.f = back.f], d, key, old)
    ELSE [st EXCEPT !.f = back.f]

\* The value old of an existing pair gives its place to item; when the insert
\* fails, old is put back and its table entry set again.
replace_value(st, d, old, item) ==
    LET pos == node_child_position(st.f, d, old)
        key == Kids(st, d)[pos]
        put == try_insert(short, node_detach(st.f, d, old).f, d, pos, item)
    IN  IF put.ret = NODE_ERR_SUCCESS
          THEN plist_free_node(with_entry([st EXCEPT !.f = put.f], d, key, item), old)
        ELSE put_back(st, d, key, old, old_again(put.f, d, pos, old))

\* The pair just appended enters the table; a dict that has none and has grown
\* past the threshold gets one.
hashed_pair(st, d, kn, item) ==
    IF st.ht[d] # NULL THEN with_entry(st, d, kn, item)
    ELSE IF Len(Kids(st, d)) > HashThreshold THEN [st EXCEPT !.ht[d] = built_table(st, d)]
    ELSE st

\* The key node kn, attached when ka is a success, gets its value item; when that
\* fails the key node is detached and freed again.
add_value(st, d, kn, ka, item) ==
    LET va == try_attach(short, ka.f, d, item) IN
    IF ka.ret # NODE_ERR_SUCCESS \/ va.ret # NODE_ERR_SUCCESS
      THEN plist_free_node([st EXCEPT !.f = ka.f], kn)
    ELSE hashed_pair([st EXCEPT !.f = va.f], d, kn, item)

\* A new key node is allocated and attached, and its value after it.
add_pair(new, st, d, item) ==
    IF new.n = NULL THEN st
    ELSE add_value(new.s, d, new.n, try_attach(short, new.s.f, d, new.n), item)

set_value_of(st, d, k, old, item) ==
    IF old # NULL THEN replace_value(st, d, old, item)
    ELSE add_pair(new_node(st, "key", k), st, d, item)

plist_dict_set_item(st, d, k, item) ==
    IF item = NULL THEN st ELSE set_value_of(st, d, k, plist_dict_get_item(st, d, k), item)

\* Slip: the table keeps its entry.
remove_pair_slip(st, d, key, old) ==
    IF old = NULL THEN st ELSE plist_free_node(plist_free_node(st, key), old)

\* The pair of the key node key and the value old goes; first its table entry.
remove_pair(st, d, key, old) ==
    LET unhashed == IF st.ht[d] = NULL THEN st
                    ELSE [st EXCEPT !.ht[d] = hash_table_remove(st, @, st.name[key])]
    IN  IF old = NULL THEN st ELSE plist_free_node(plist_free_node(unhashed, key), old)

key_before(st, d, v) == Kids(st, d)[node_child_position(st.f, d, v)]

\* plist_dict_remove_item
plist_dict_remove_item(st, d, k) ==
    LET old == plist_dict_get_item(st, d, k) IN remove_pair(st, d, key_before(st, d, old), old)

-----------------------------------------------------------------------------
(***************************************************************************)
(* plist_copy. The subtree is copied parents first, siblings in order; a   *)
(* copied value is entered in its parent's table when the original parent  *)
(* has one. When a node cannot be allocated or attached, what was copied   *)
(* so far is freed. (The code finishes a child's subtree before it goes to *)
(* the next child, here they are copied level by level: the same nodes are *)
(* allocated, and a failure undoes all.) Result: [s, n], n the copy or     *)
(* NULL.                                                                   *)
(***************************************************************************)
\* A copy of m without its children; its table, if any, is empty.
copy_shallow(st, m) ==
    LET new == new_node(st, st.type[m], st.name[m]) IN
    IF new.n = NULL \/ st.ht[m] = NULL THEN new
    ELSE [new EXCEPT !.s.ht[new.n] = EmptyTable]

\* What attaching the copy c to the copy p of its parent leaves: a value enters
\* p's table with the key before it.
attached_copy(st, p, c, r) ==
    LET sa == [st EXCEPT !.f = r.f]
        at == Len(r.f.kids[p])
    IN  IF r.ret = NODE_ERR_SUCCESS /\ at % 2 = 0
          THEN with_entry(sa, p, r.f.kids[p][at - 1], c) ELSE sa

\* One node more is copied: new is its copy, p the copy of its parent, or NULL.
\* acc is [s, copyOf, ok]: not ok when something failed.
with_copy(acc, m, new, p) ==
    LET r == try_attach(short, new.s.f, p, new.n) IN
    IF new.n = NULL THEN [acc EXCEPT !.ok = FALSE]
    ELSE IF p = NULL THEN [acc EXCEPT !.s = new.s, !.copyOf[m] = new.n]
    ELSE [s |-> attached_copy(new.s, p, new.n, r), copyOf |-> [acc.copyOf EXCEPT ![m] = new.n],
          ok |-> r.ret = NODE_ERR_SUCCESS]

copy_result(st, n, done) ==
    IF done.ok THEN [s |-> done.s, n |-> done.copyOf[n]]
    ELSE [s |-> freed(done.s, Live(done.s) \ Live(st)), n |-> NULL]

copy_node(st, n, acc, m) ==
    IF ~acc.ok THEN acc
    ELSE with_copy(acc, m, copy_shallow(acc.s, m),
                   IF m = n THEN NULL ELSE acc.copyOf[st.f.parent[m]])

\* The nodes of the tree below n, parents before children, siblings in order.
with_children(f, queue, i) ==
    IF i > Len(queue) THEN queue ELSE queue \o f.kids[queue[i]]

TopDown(f, n) ==
    LET queue[i \in 0..Cardinality(Node)] ==
            IF i = 0 THEN <<n>> ELSE with_children(f, queue[i - 1], i)
    IN  queue[Cardinality(Node)]

copied(st, n, order) ==
    LET acc[i \in 0..Len(order)] ==
            IF i = 0 THEN [s |-> st, copyOf |-> [m \in Node |-> NULL], ok |-> TRUE]
            ELSE copy_node(st, n, acc[i - 1], order[i])
    IN  acc[Len(order)]

plist_copy(st, n) == copy_result(st, n, copied(st, n, TopDown(st.f, n)))

-----------------------------------------------------------------------------
(***************************************************************************)
(* plist_dict_merge: an iterator over source; each of its values is copied *)
(* and set in target. The iterator has stepped past the pair before target *)
(* changes; target and source may be the same dict or lie in one another.  *)
(* A merge that halves target is followed up to there.                     *)
(***************************************************************************)
next_sibling(f, n) ==
    IF f.parent[n] = NULL THEN NULL
    ELSE node_nth_child(f, f.parent[n], node_child_position(f, f.parent[n], n) + 1)

merge_pair(acc, target, v, c) ==
    [s |-> plist_dict_set_item(c.s, target, acc.s.name[acc.cur], c.n),
     cur |-> next_sibling(acc.s.f, v)]

merge_step(acc, target) ==
    LET v == next_sibling(acc.s.f, acc.cur) IN
    IF acc.cur = NULL \/ target \in Halved(acc.s) THEN acc
    ELSE merge_pair(acc, target, v, plist_copy(acc.s, v))

\* A dict has fewer keys than there are nodes.
plist_dict_merge(st, target, source) ==
    LET acc[i \in 0..Cardinality(Node)] ==
            IF i = 0 THEN [s |-> st, cur |-> node_nth_child(st.f, source, 0)]
            ELSE merge_step(acc[i - 1], target)
    IN  acc[Cardinality(Node)].s

-----------------------------------------------------------------------------
(***************************************************************************)
(* The remaining operations                                                *)
(***************************************************************************)
\* plist_dict_copy_item: the result of plist_dict_set_item, which has none, is
\* not known to it.
copied_item(st, target, k, node, c) ==
    IF node = NULL THEN [s |-> st, ret |-> PLIST_ERR_INVALID_ARG]
    ELSE [s |-> plist_dict_set_item(c.s, target, k, c.n), ret |-> PLIST_ERR_SUCCESS]

plist_dict_copy_item(st, target, source, k, alt) ==
    LET node == plist_dict_get_item(st, source, alt) IN
    copied_item(st, target, k, node, plist_copy(st, node))

\* Slip: a key the dict has already is taken.
plist_set_key_val_slip(st, key, k) == [st EXCEPT !.name[key] = k]

\* plist_set_key_val of a key node, unless its dict already has the new key.
plist_set_key_val(st, key, k) ==
    IF plist_dict_get_item(st, st.f.parent[key], k) # NULL THEN st
    ELSE [st EXCEPT !.name[key] = k]

\* The other setters: the node loses its children and its table and becomes a
\* value, where it is.
plist_set_element_val(st, n) ==
    LET bare == freed(st, Subtree(st.f, n) \ {n}) IN
    [bare EXCEPT !.f.kids[n] = <<>>, !.type[n] = "value", !.ht[n] = NULL]

\* plist_sort of one dict: its pairs by key; the bubble sort swaps neighbours
\* only when they are out of order, so it is stable.
sorted_kids(st, d) ==
    LET kids == Kids(st, d)
        pairs == 1..(Len(kids) \div 2)
        name(i) == st.name[kids[2 * i - 1]]
        before(i) == {j \in pairs : name(j) < name(i) \/ (name(j) = name(i) /\ j < i)}
        at(rank) == CHOOSE i \in pairs : Cardinality(before(i)) + 1 = rank
    IN  [i \in DOMAIN kids |-> kids[2 * at((i + 1) \div 2) - (i % 2)]]

plist_sort(st, n) ==
    LET sorted == Dicts(st) \cap Subtree(st.f, n) IN
    [st EXCEPT !.f.kids = [m \in Node |-> IF m \in sorted THEN sorted_kids(st, m) ELSE @[m]]]

\* A dict as parse_dict_node of the binary reader builds it: with node_attach,
\* so without a table however long it is. Its values are fresh. NULL when it
\* does not get all its nodes. (What else the reader does without memory is the
\* subject of BplistReader.)
parsed_pair(acc, k) ==
    LET kn == new_node(acc.s, "key", k)
        vn == new_node(kn.s, "value", NoName)
    IN  IF NULL \in {acc.d, kn.n, vn.n} THEN [acc EXCEPT !.d = NULL]
        ELSE [acc EXCEPT !.s = [vn.s EXCEPT
                !.f = node_attach(node_attach(@, acc.d, kn.n).f, acc.d, vn.n).f]]

parsed_dict(st, names) ==
    LET new == new_node(st, "dict", NoName)
        acc[i \in 0..Len(names)] ==
            IF i = 0 THEN [s |-> new.s, d |-> new.n] ELSE parsed_pair(acc[i - 1], names[i])
    IN  IF acc[Len(names)].d = NULL THEN st ELSE acc[Len(names)].s

-----------------------------------------------------------------------------
(***************************************************************************)
(* Actions: one per call. Items handed to a dict are roots (asserted at    *)
(* the head of plist_dict_set_item). Next says what short becomes.         *)
(***************************************************************************)
Init ==
    /\ s = [type |-> [n \in Node |-> "free"], name |-> [n \in Node |-> NoName],
            f |-> EmptyForest, ht |-> [n \in Node |-> NULL]]
    /\ ret = PLIST_ERR_SUCCESS
    /\ short \in Shortages

New(t)             == s' = new_node(s, t, NoName).s /\ UNCHANGED ret
ParsedDict(names)  == short = {} /\ s' = parsed_dict(s, names) /\ UNCHANGED ret
SetItem(d, k, item) == s' = plist_dict_set_item(s, d, k, item) /\ UNCHANGED ret
RemoveItem(d, k)   == s' = plist_dict_remove_item(s, d, k) /\ UNCHANGED ret
SetKeyVal(key, k)  == s' = plist_set_key_val(s, key, k) /\ UNCHANGED ret
SetValue(n)        == s' = plist_set_element_val(s, n) /\ UNCHANGED ret
Sort(n)            == s' = plist_sort(s, n) /\ UNCHANGED ret
Copy(n)            == s' = plist_copy(s, n).s /\ UNCHANGED ret
Free(n)            == s' = plist_free_node(s, n) /\ UNCHANGED ret

\* source is not a value below target: setting one of target's keys could then
\* free the dict the iterator is walking.
Merge(target, source) ==
    /\ source \notin Subtree(s.f, target) \ {target}
    /\ s' = plist_dict_merge(s, target, source)
    /\ UNCHANGED ret

CopyItem(target, source, k, alt) ==
    LET r == plist_dict_copy_item(s, target, source, k, alt) IN s' = r.s /\ ret' = r.ret

KeyNodes == {n \in Node : s.type[n] = "key" /\ s.f.parent[n] # NULL}

\* Two calls are left out that a dict with a hash table does not stand: renaming
\* one of its keys, which the table keeps under the old name, and reading binary
\* data that repeats a key, of which the table finds the last and a walk the first.
Call ==
    \/ \E t \in {"dict", "value"} : New(t)
    \/ \E names \in UNION {[1..l -> Key] : l \in 1..Cardinality(Key)} :
          IsInjective(names) /\ ParsedDict(names)
    \/ \E d \in Dicts(s), k \in Key, item \in Roots(s) : SetItem(d, k, item)
    \/ \E d \in Dicts(s), k \in Key : RemoveItem(d, k)
    \/ \E n \in Live(s) : s.type[n] # "key" /\ SetValue(n)
    \/ \E n \in Live(s) : Sort(n)
    \/ \E n \in Live(s) : s.type[n] # "key" /\ Copy(n)
    \/ \E n \in Roots(s) : Free(n)
    \/ \E t, u \in Dicts(s) : Merge(t, u)
    \/ \E t, u \in Dicts(s), k, alt \in Key : CopyItem(t, u, k, alt)
    \/ \E n \in KeyNodes, k \in Key : s.ht[s.f.parent[n]] = NULL /\ SetKeyVal(n, k)

\* A walk of a halved dict takes values for keys (asserts stop a debug build). What
\* calls on that dict make of it is not followed: the next call frees its tree.
EndHalved == \E n \in Roots(s) : Subtree(s.f, n) \cap Halved(s) # {} /\ Free(n)

Next == (IF Halved(s) = {} THEN Call ELSE EndHalved) /\ short' \in Shortages

Spec == Init /\ [][Next]_vars

-----------------------------------------------------------------------------
(***************************************************************************)
(* Properties                                                              *)
(***************************************************************************)
\* The children q alternate keys and values, and no key occurs twice.
Paired(st, q) ==
    /\ Len(q) % 2 = 0
    /\ \A i \in DOMAIN q : st.type[q[i]] = "key" <=> i % 2 = 1
    /\ \A i, j \in DOMAIN q :
          i % 2 = 1 /\ j % 2 = 1 /\ st.name[q[i]] = st.name[q[j]] => i = j

\* The pairs of keys and values in q, and those a table has.
Pairs(q) ==
    {[key |-> q[i], value |-> q[i + 1]] : i \in {j \in DOMAIN q : j % 2 = 1 /\ j < Len(q)}}
Entries(t) == UNION {ToSet(t[b]) : b \in Bucket}

\* After every sequence of calls, failed and rolled back ones included, the
\* children of a dict alternate keys and values, and no key occurs twice: what
\* serializers and iterators assume of a dict. One dict at a time is exempt, that of
\* a replacement whose roll-back failed (RollBackNeedsMemory says what is left of
\* it). Only dicts have children or a hash table, which a setter takes away with the
\* type.
TypeOK ==
    /\ s.type \in [Node -> {"free", "dict", "key", "value"}]
    /\ s.name \in [Node -> Key \cup {NoName}]
    /\ s.f \in Forest
    /\ \A n \in Node : s.ht[n] # NULL =>
          s.type[n] = "dict" /\ s.ht[n] \in [Bucket -> Seq(Entry)]
    /\ Linked(s.f) /\ Acyclic(s.f) /\ Shallow(s.f)
    /\ \A n \in Node : Kids(s, n) # <<>> => s.type[n] = "dict"
    /\ \A d \in Dicts(s) \ Halved(s) : Paired(s, Kids(s, d))
    /\ \A d, e \in Halved(s) : d = e
    /\ \A n \in Live(s) : s.type[n] = "key" => s.f.parent[n] # NULL
    /\ short \subseteq Node

\* The hash table holds exactly the pairs of the dict, so no entry is left that
\* points at a freed key or value.
TableHoldsPairs ==
    \A d \in Node \ Halved(s) : s.ht[d] # NULL => Entries(s.ht[d]) = Pairs(Kids(s, d))

\* Every item a walk of the dict finds under a key is the item that
\* plist_dict_get_item returns for it, and it returns nothing else: also when
\* it looks in the hash table.
LookupFindsPairs ==
    \A d \in Dicts(s) \ Halved(s), k \in Key :
       plist_dict_get_item(s, d, k) = linear_lookup(s, d, k)

\* A key loses its value only when a replacement fails and there is no memory to put
\* the old value back ("if (rb == NODE_ERR_SUCCESS && ht)"), never because the new
\* one is too deep or part of a cycle. Then nothing else is lost: the old value is
\* not freed but a root, and with it back in its place the children of the dict are
\* pairs again, and its table is the table of these pairs.
RollBackNeedsMemory ==
    [][\A d \in Halved(s') : \E v \in short \cap Roots(s'), i \in DOMAIN Kids(s', d) :
          LET whole == InsertAt(Kids(s', d), i + 1, v) IN
          /\ Paired(s', whole)
          /\ s'.ht[d] # NULL => Entries(s'.ht[d]) = Pairs(whole)]_vars

\* What plist_dict_get_item answers for key k of d changes only through a call
\* that names d and k: removing k, setting it, copying to it, merging a dict that
\* has it, renaming to or from it. A failed and rolled back call under another
\* key, the move to a hash table, copies and frees elsewhere change no answer,
\* and only removing or renaming a key takes it away. (A dict in a value that a
\* merge replaces is freed, and a later copy of that merge may get its address.)
EntryChangesOnlyByItsKey ==
    [][\A d \in (Dicts(s) \ Halved(s)) \cap (Dicts(s') \ Halved(s')), k \in Key :
          LET before == plist_dict_get_item(s, d, k)
              after  == plist_dict_get_item(s', d, k)
          IN  before # after =>
                \/ RemoveItem(d, k)
                \/ \E n \in KeyNodes, j \in Key :
                      s.f.parent[n] = d /\ k \in {s.name[n], j} /\ SetKeyVal(n, j)
                \/ /\ after # NULL
                   /\ \/ \E item \in Roots(s) : SetItem(d, k, item)
                      \/ \E u \in Dicts(s), alt \in Key : CopyItem(d, u, k, alt)
                      \/ \E u \in Dicts(s) :
                            plist_dict_get_item(s, u, k) # NULL /\ Merge(d, u)
                \/ \E t, u \in Dicts(s), j \in Key :
                      /\ d \in Subtree(s.f, plist_dict_get_item(s, t, j))
                      /\ plist_dict_get_item(s, u, j) # NULL
                      /\ Merge(t, u)]_vars
==============================================================================
