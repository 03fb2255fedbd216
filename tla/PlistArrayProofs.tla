--------------------------- MODULE PlistArrayProofs ---------------------------
(***************************************************************************)
(* Arrays of any size with any cache threshold: the trees stay trees, the  *)
(* lookup cache is the children list after every call, and a replacement   *)
(* is all or nothing while there is memory to undo it. The two invariants  *)
(* that MCPlistArray checks lean on each other: a removal finds its item   *)
(* through the cache, so the forest stays one only while the cache is      *)
(* coherent; and the cache is updated from positions in the children list, *)
(* so it stays coherent only while the forest is one. Sound joins them;    *)
(* IInv says it of the caches that no failed roll-back has left behind.    *)
(***************************************************************************)
EXTENDS PlistArray, ForestLemmas

\* Types t, forest f and caches c fit together.
Sound(t, f, c) ==
    /\ t \in [Node -> {"free", "array", "value"}]
    /\ ForestInv(f)
    /\ c = [n \in Node |-> c[n]]
    /\ \A n \in Node : c[n] # NULL => t[n] = "array" /\ c[n] = f.kids[n]
    /\ \A n \in Node : f.parent[n] # NULL => t[n] # "free" /\ t[f.parent[n]] = "array"

Coherent == Sound(type, forest, cache)

\* The caches without those that a failed roll-back left behind their lists.
Kept == [n \in Node |-> IF n \in stale THEN NULL ELSE cache[n]]

IInv ==
    /\ Sound(type, forest, Kept)
    /\ cache = [n \in Node |-> cache[n]]
    /\ short \subseteq Node
    /\ \A a \in stale : a \in Arrays /\ cache[a] \in Seq(Node) /\ cache[a] # NULL

-----------------------------------------------------------------------------
(***************************************************************************)
(* The caches                                                              *)
(***************************************************************************)

\* A free node is in no tree.
LEMMA FreeIsIsolated ==
    ASSUME NEW t, NEW f, NEW c, Sound(t, f, c), NEW n \in Node, t[n] = "free"
    PROVE  f.kids[n] = <<>> /\ f.parent[n] = NULL
<1>1. f.parent[n] = NULL
  BY DEF Sound
<1>2. \A m \in Node : f.parent[m] # n
  BY NodeAssumption DEF Sound
<1>3. f.kids[n] \in Seq(Node)
  BY DEF Sound, ForestInv, Forest
<1>4. ASSUME f.kids[n] # <<>> PROVE FALSE
  <2>1. Len(f.kids[n]) \in Nat \ {0}
    BY <1>3, <1>4, EmptySeq
  <2>2. 1 \in DOMAIN f.kids[n]
    BY <1>3, <2>1, LenProperties
  <2>3. f.parent[f.kids[n][1]] = n /\ f.kids[n][1] \in Node
    BY <2>2, Position DEF Sound
  <2>4. QED
    BY <1>2, <2>3
<1>5. QED
  BY <1>1, <1>4

\* With or without a cache, the n-th item is the n-th child.
LEMMA GetItem ==
    ASSUME Coherent, NEW a \in Node, NEW n \in Nat
    PROVE  /\ plist_array_get_item(a, n) # NULL =>
                 n + 1 \in 1..Len(forest.kids[a]) /\ plist_array_get_item(a, n) = forest.kids[a][n + 1]
           /\ n < Len(forest.kids[a]) =>
                 plist_array_get_item(a, n) = forest.kids[a][n + 1]
           /\ ~(n < Len(forest.kids[a])) => plist_array_get_item(a, n) = NULL
<1>1. forest.kids[a] \in Seq(Node)
  BY DEF Coherent, Sound, ForestInv, Forest
<1>2. Len(forest.kids[a]) \in Nat
  BY <1>1, LenProperties
<1>3. cache[a] # NULL => cache[a] = forest.kids[a]
  BY DEF Coherent, Sound
<1>4. plist_array_get_item(a, n) = IF n < Len(forest.kids[a]) THEN forest.kids[a][n + 1] ELSE NULL
  BY <1>3 DEF plist_array_get_item, ptr_array_index, node_nth_child
<1>5. QED
  BY <1>2, <1>4

\* The cache after an append or an insertion is the list with the new item in it.
LEMMA PostInsert ==
    ASSUME Coherent, NEW a \in Node, NEW n \in Int, NEW item \in Node, NEW g,
           NEW i, i = IF n < 0 THEN Len(forest.kids[a]) + 1 ELSE n + 1,
           i <= Len(forest.kids[a]) + 1,
           g.kids[a] = InsertAt(forest.kids[a], i, item)
    PROVE  post_insert(g, a, item, n) \in {NULL, g.kids[a]}
<1> DEFINE q == forest.kids[a]
<1>1. q \in Seq(Node)
  BY DEF Coherent, Sound, ForestInv, Forest
<1>2. Len(q) \in Nat
  BY <1>1, LenProperties
<1>3. cache[a] # NULL => cache[a] = q
  BY DEF Coherent, Sound
<1>4. ptr_array_insert(q, item, n) = InsertAt(q, i, item)
  <2>1. CASE n < 0 \/ n >= Len(q)
    <3>1. i = Len(q) + 1
      BY <1>2, <2>1
    <3>2. InsertAt(q, i, item) = Append(q, item)
      BY <1>1, <3>1, InsertIsAppend
    <3>3. QED
      BY <2>1, <3>2 DEF ptr_array_insert
  <2>2. CASE ~(n < 0 \/ n >= Len(q))
    BY <2>2 DEF ptr_array_insert
  <2>3. QED
    BY <2>1, <2>2
<1>5. QED
  BY <1>3, <1>4 DEF post_insert, built_cache

\* The cache after a replacement is the list with the replacement in it.
LEMMA PostSet ==
    ASSUME Coherent, NEW a \in Node, NEW n \in Nat, n + 1 \in 1..Len(forest.kids[a]),
           NEW item \in Node, NEW g, g.kids[a] = ReplaceAt(forest.kids[a], n + 1, item)
    PROVE  post_set(g, a, item, n) \in {NULL, g.kids[a]}
<1> DEFINE q == forest.kids[a]
           i == n + 1
           r == ReplaceAt(q, i, item)
<1>1. q \in Seq(Node) /\ i \in 1..Len(q)
  BY DEF Coherent, Sound, ForestInv, Forest
<1>2. Len(q) \in Nat
  BY <1>1, LenProperties
<1>3. cache[a] # NULL => cache[a] = q
  BY DEF Coherent, Sound
<1>4. r \in Seq(Node) /\ ReplaceAt(r, i, item) = r /\ Len(r) = Len(q)
  <2> HIDE DEF i
  <2>1. r \in Seq(Node) /\ ReplaceAt(r, i, item) = r
    BY <1>1, ReplaceProperties
  <2>2. Len(r) = Len(q)
    BY <1>1, ExceptSeq DEF ReplaceAt
  <2>3. QED
    BY <2>1, <2>2
<1>5. n \in 0..(Len(q) - 1)
  BY <1>1, <1>2
<1>6. ptr_array_set(q, item, n) = r
  BY <1>5 DEF ptr_array_set
<1>7. ptr_array_set(r, item, n) = r
  BY <1>4, <1>5 DEF ptr_array_set
<1>8. QED
  BY <1>3, <1>6, <1>7 DEF post_set, built_cache
-----------------------------------------------------------------------------
(***************************************************************************)
(* What the calls do                                                       *)
(***************************************************************************)

\* plist_free_node leaves things sound when the caller has already brought the
\* caches of the surviving arrays in line with the lists they will have.
LEMMA FreedParts ==
    ASSUME NEW f, ForestInv(f), NEW c, c = [n \in Node |-> c[n]], NEW node \in Node,
           type \in [Node -> {"free", "array", "value"}],
           \A n \in Node : f.parent[n] # NULL =>
              n \in Subtree(f, node) \/ (type[n] # "free" /\ type[f.parent[n]] = "array"),
           forest' = Release(detached(f, node), Subtree(f, node)),
           type' = [n \in Node |-> IF n \in Subtree(f, node) THEN "free" ELSE type[n]],
           NEW b, b = [n \in Node |-> IF n \in Subtree(f, node) THEN NULL ELSE c[n]],
           \A n \in Node \ Subtree(f, node) : c[n] # NULL =>
              type[n] = "array" /\ c[n] = forest'.kids[n]
    PROVE  Sound(type', forest', b)
<1> DEFINE T == Subtree(f, node)
           d == detached(f, node)
<1>1. d = IF f.parent[node] = NULL THEN f ELSE node_detach(f, f.parent[node], node).f
  BY DEF detached
<1>2. /\ forest' = Release(d, T)
      /\ type' = [n \in Node |-> IF n \in T THEN "free" ELSE type[n]]
      /\ b = [n \in Node |-> IF n \in T THEN NULL ELSE c[n]]
  OBVIOUS
<1> HIDE DEF d
<1>3. /\ ForestInv(forest')
      /\ f.parent[node] \notin T
      /\ \A n \in T : forest'.parent[n] = NULL
      /\ \A n \in Node \ T : forest'.parent[n] = f.parent[n]
  BY <1>1, <1>2, FreeForest
<1>4. /\ node \in T /\ T \subseteq Node
      /\ \A n \in Node : n # node => (n \in T <=> f.parent[n] \in T)
  BY SubtreeCut
<1> HIDE DEF T
<1>5. ASSUME NEW n \in Node, forest'.parent[n] # NULL
      PROVE  type'[n] # "free" /\ type'[forest'.parent[n]] = "array"
  <2>1. n \notin T /\ forest'.parent[n] = f.parent[n]
    BY <1>3, <1>5
  <2>2. f.parent[n] \in Node /\ f.parent[n] \notin T
    BY <1>3, <1>4, <1>5, <2>1 DEF ForestInv, Forest
  <2>3. type[n] # "free" /\ type[f.parent[n]] = "array"
    BY <1>5, <2>1 DEF T
  <2>4. QED
    BY <1>2, <2>1, <2>2, <2>3
<1>6. ASSUME NEW n \in Node, b[n] # NULL
      PROVE  type'[n] = "array" /\ b[n] = forest'.kids[n]
  <2>1. n \notin T /\ b[n] = c[n]
    BY <1>2, <1>6
  <2>2. type[n] = "array" /\ c[n] = forest'.kids[n]
    BY <1>6, <2>1 DEF T
  <2>3. QED
    BY <1>2, <2>1, <2>2
<1>7. type' \in [Node -> {"free", "array", "value"}]
  BY <1>2
<1>8. b = [n \in Node |-> b[n]]
  BY <1>2
<1>9. QED
  BY <1>3, <1>5, <1>6, <1>7, <1>8 DEF Sound

LEMMA FreeNodeSound ==
    ASSUME NEW f, ForestInv(f), NEW c, c = [n \in Node |-> c[n]], NEW node \in Node,
           type \in [Node -> {"free", "array", "value"}],
           \A n \in Node : f.parent[n] # NULL =>
              n \in Subtree(f, node) \/ (type[n] # "free" /\ type[f.parent[n]] = "array"),
           FreeNode(f, c, node),
           \A n \in Node \ Subtree(f, node) : c[n] # NULL =>
              type[n] = "array" /\ c[n] = forest'.kids[n]
    PROVE  Coherent'
<1>1. /\ forest' = Release(detached(f, node), Subtree(f, node))
      /\ type' = [n \in Node |-> IF n \in Subtree(f, node) THEN "free" ELSE type[n]]
      /\ cache' = [n \in Node |-> IF n \in Subtree(f, node) THEN NULL ELSE c[n]]
  BY DEF FreeNode
<1>2. Sound(type', forest', cache')
  BY <1>1, FreedParts
<1>3. QED
  BY <1>2 DEF Coherent

\* A new empty array or a new value.
LEMMA NewNodeSound ==
    ASSUME Coherent, NEW n \in Fresh, NEW t \in {"array", "value"}, NewNode(n, t)
    PROVE  Coherent'
<1>1. n \in Node /\ type[n] = "free"
  BY DEF Fresh
<1>2. type' = [type EXCEPT ![n] = t] /\ forest' = forest /\ cache' = cache
  BY DEF NewNode
<1>3. forest.parent[n] = NULL /\ \A m \in Node : forest.parent[m] # n
  BY <1>1, NodeAssumption DEF Coherent, Sound
<1>4. QED
  BY <1>1, <1>2, <1>3 DEF Coherent, Sound, ForestInv, Forest

\* An append or an insertion.
LEMMA InsertedSound ==
    ASSUME Coherent, NEW a \in Arrays, NEW item \in Roots, NEW n \in Int, NEW r,
           \/ r.f = forest /\ r.ret # NODE_ERR_SUCCESS
           \/ n = -1 /\ r = node_attach(forest, a, item)
           \/ n \in Nat /\ r = node_insert(forest, a, n, item),
           forest' = r.f, type' = type,
           cache' = IF r.ret = NODE_ERR_SUCCESS
                      THEN [cache EXCEPT ![a] = post_insert(r.f, a, item, n)]
                      ELSE cache
    PROVE  Coherent'
<1> DEFINE q == forest.kids[a]
           i == IF n < 0 THEN Len(q) + 1 ELSE n + 1
           err == attach_guard(forest, a, item)
<1>1. /\ a \in Node /\ type[a] = "array"
      /\ item \in Node /\ type[item] # "free" /\ forest.parent[item] = NULL
  BY DEF Arrays, Roots, Live
<1>2. /\ ForestInv(forest) /\ cache = [m \in Node |-> cache[m]]
      /\ forest.kids \in [Node -> Seq(Node)] /\ forest.parent \in [Node -> Node \cup {NULL}]
  BY DEF Coherent, Sound, ForestInv, Forest
<1>3. q \in Seq(Node) /\ Len(q) \in Nat
  BY <1>1, <1>2, LenProperties
<1>4. CASE r.ret # NODE_ERR_SUCCESS
  <2>1. r.f = forest
    BY <1>1, <1>2, <1>4, AttachForest, InsertForest
  <2>2. QED
    BY <1>4, <2>1 DEF Coherent
<1>5. CASE r.ret = NODE_ERR_SUCCESS
  <2>1. /\ r.f = Link(forest, a, i, item) /\ i <= Len(q) + 1
        /\ ForestInv(r.f)
    <3>1. CASE n = -1 /\ r = node_attach(forest, a, item)
      <4>1. err = NODE_ERR_SUCCESS /\ r.f = Link(forest, a, Len(q) + 1, item)
        BY <1>5, <3>1 DEF node_attach, outcome
      <4>2. i = Len(q) + 1 /\ i <= Len(q) + 1
        BY <1>3, <3>1
      <4>3. ForestInv(r.f)
        BY <1>1, <1>2, <3>1, AttachForest
      <4>4. QED
        BY <4>1, <4>2, <4>3
    <3>2. CASE n \in Nat /\ r = node_insert(forest, a, n, item)
      <4>1. /\ err = NODE_ERR_SUCCESS /\ r.f = Link(forest, a, n + 1, item) /\ ~(n > Len(q))
        BY <1>5, <3>2 DEF node_insert, outcome, checked_index,
           NODE_ERR_SUCCESS, NODE_ERR_INVALID_ARG
      <4>2. i = n + 1 /\ i <= Len(q) + 1
        BY <1>3, <3>2, <4>1
      <4>3. ForestInv(r.f)
        BY <1>1, <1>2, <3>2, InsertForest
      <4>4. QED
        BY <4>1, <4>2, <4>3
    <3>3. QED
      BY <1>5, <3>1, <3>2
  <2>2. /\ r.f.kids[a] = InsertAt(q, i, item)
        /\ \A m \in Node : m # a => r.f.kids[m] = forest.kids[m]
        /\ r.f.parent[item] = a
        /\ \A m \in Node : m # item => r.f.parent[m] = forest.parent[m]
    <3>1. /\ r.f.kids = [forest.kids EXCEPT ![a] = InsertAt(@, i, item)]
          /\ r.f.parent = [forest.parent EXCEPT ![item] = a]
      BY <2>1 DEF Link
    <3>2. QED
      BY <1>1, <1>2, <3>1
  <2> DEFINE pc == post_insert(r.f, a, item, n)
  <2>3. pc \in {NULL, r.f.kids[a]}
    BY <1>1, <2>1, <2>2, PostInsert
  <2>4. cache' = [cache EXCEPT ![a] = pc]
    BY <1>5
  <2> HIDE DEF pc, i, q
  <2>5. ASSUME NEW m \in Node, cache'[m] # NULL
        PROVE  type'[m] = "array" /\ cache'[m] = forest'.kids[m]
    BY <1>1, <1>2, <2>2, <2>3, <2>4, <2>5 DEF Coherent, Sound
  <2>6. ASSUME NEW m \in Node, forest'.parent[m] # NULL
        PROVE  type'[m] # "free" /\ type'[forest'.parent[m]] = "array"
    BY <1>1, <2>2, <2>6 DEF Coherent, Sound
  <2>7. cache' = [m \in Node |-> cache'[m]]
    BY <1>2, <2>4
  <2>8. QED
    BY <2>1, <2>5, <2>6, <2>7 DEF Coherent, Sound
<1>6. QED
  BY <1>4, <1>5

\* A replacement: the array ends up as it was or with the new item in the place
\* of the old one, which is freed. When the insertion fails, only memory can keep the
\* old item from coming back: its place is free and no deeper than before.
LEMMA SetItemSound ==
    ASSUME Coherent, NEW a \in Arrays, NEW item \in Roots, NEW n \in Nat, SetItem(a, item, n)
    PROVE  \/ /\ Coherent' /\ stale' \subseteq stale
              /\ forest'.kids[a] \in {forest.kids[a], ReplaceAt(forest.kids[a], n + 1, item)}
           \/ /\ n + 1 \in 1..Len(forest.kids[a]) /\ forest.kids[a][n + 1] \in short
              /\ forest' = Unlink(forest, a, n + 1) /\ type' = type /\ cache' = cache
              /\ stale' = IF cache[a] = NULL THEN stale ELSE stale \cup {a}
<1> DEFINE q == forest.kids[a]
           i == n + 1
           old == plist_array_get_item(a, n)
           d == node_detach(forest, a, old)
           r == try_insert(short, d.f, a, d.ret, item)
           back == reinsert(r.f, a, d.ret, old)
<1>1. /\ a \in Node /\ type[a] = "array"
      /\ item \in Node /\ type[item] # "free" /\ forest.parent[item] = NULL
  BY DEF Arrays, Roots, Live
<1>2. /\ ForestInv(forest) /\ cache = [m \in Node |-> cache[m]]
      /\ forest.kids \in [Node -> Seq(Node)] /\ forest.parent \in [Node -> Node \cup {NULL}]
      /\ type \in [Node -> {"free", "array", "value"}]
      /\ forest \in Forest
  BY DEF Coherent, Sound, ForestInv, Forest
<1>3. q \in Seq(Node) /\ Len(q) \in Nat /\ DOMAIN q = 1..Len(q)
  BY <1>1, <1>2, LenProperties
<1>4. old # NULL
  BY DEF SetItem
<1>5. i \in 1..Len(q) /\ old = q[i]
  BY <1>1, <1>4, GetItem
<1>6. /\ old \in Node /\ forest.parent[old] = a
      /\ node_child_position(forest, a, old) = n
  <2>1. /\ node_child_position(forest, a, q[i]) = i - 1
        /\ q[i] \in Node /\ forest.parent[q[i]] = a
    BY <1>1, <1>2, <1>3, <1>5, Position
  <2>2. QED
    BY <1>5, <2>1
<1>7. d = [f |-> Unlink(forest, a, i), ret |-> n]
  BY <1>6 DEF node_detach
<1>8. i - 1 = n
  OBVIOUS
<1>r. r = try_insert(short, Unlink(forest, a, i), a, i - 1, item)
  BY <1>7, <1>8
<1>step. IF r.ret = NODE_ERR_SUCCESS
           THEN FreeNode(r.f, [cache EXCEPT ![a] = post_set(r.f, a, item, d.ret)], old)
           ELSE /\ forest' = back.f
                /\ cache' = IF back.ret = NODE_ERR_SUCCESS
                              THEN [cache EXCEPT ![a] = post_set(back.f, a, old, d.ret)]
                              ELSE cache
                /\ stale' = IF back.ret = NODE_ERR_SUCCESS \/ cache[a] = NULL
                              THEN stale ELSE stale \cup {a}
                /\ UNCHANGED type
  BY DEF SetItem
<1>9. d.ret = n
  BY <1>7
<1> DEFINE g == r.f
<1>10. /\ r.ret # NODE_ERR_SUCCESS => g = Unlink(forest, a, i)
       /\ r.ret = NODE_ERR_SUCCESS =>
             /\ ForestInv(g)
             /\ g.kids[a] = ReplaceAt(q, i, item)
             /\ \A m \in Node \ {a} : g.kids[m] = forest.kids[m]
             /\ \A m \in Node \ {item, old} : g.parent[m] = forest.parent[m]
             /\ g.parent[item] = a
             /\ g.parent[old] = NULL
             /\ a \notin Subtree(g, old)
  <2> HIDE DEF r, i, q
  <2>1. i \in 1..Len(forest.kids[a]) /\ old = forest.kids[a][i]
    BY ONLY <1>5 DEF q
  <2>2. /\ ForestInv(forest) /\ a \in Node /\ item \in Node
        /\ forest.parent[item] = NULL
    BY ONLY <1>1, <1>2
  <2>3. /\ r.ret # NODE_ERR_SUCCESS => r.f = Unlink(forest, a, i)
        /\ r.ret = NODE_ERR_SUCCESS =>
              /\ ForestInv(r.f)
              /\ r.f.kids[a] = ReplaceAt(forest.kids[a], i, item)
              /\ \A m \in Node \ {a} : r.f.kids[m] = forest.kids[m]
              /\ \A m \in Node \ {item, forest.kids[a][i]} : r.f.parent[m] = forest.parent[m]
              /\ r.f.parent[item] = a
              /\ r.f.parent[forest.kids[a][i]] = NULL
              /\ a \notin Subtree(r.f, forest.kids[a][i])
    <3>1. \/ r = node_insert(Unlink(forest, a, i), a, i - 1, item)
          \/ r.f = Unlink(forest, a, i) /\ r.ret # NODE_ERR_SUCCESS
      BY ONLY <1>r, TryInsert
    <3>2. QED
      BY ONLY <2>1, <2>2, <3>1, ReplaceForest
  <2>4. QED
    BY ONLY <2>1, <2>3 DEF q
<1>b. ASSUME r.ret # NODE_ERR_SUCCESS
      PROVE  \/ back = node_insert(Unlink(forest, a, i), a, i - 1, q[i])
             \/ /\ q[i] \in short /\ back.f = Unlink(forest, a, i)
                /\ back.ret # NODE_ERR_SUCCESS
  <2>1. back = try_insert(short, Unlink(forest, a, i), a, i - 1, q[i])
    BY <1>5, <1>8, <1>9, <1>10, <1>b DEF reinsert
  <2>2. QED
    BY ONLY <2>1, TryInsert
<1>c. CASE r.ret # NODE_ERR_SUCCESS /\ back.ret # NODE_ERR_SUCCESS
  <2>1. /\ forest' = back.f /\ type' = type /\ cache' = cache
        /\ stale' = IF cache[a] = NULL THEN stale ELSE stale \cup {a}
    BY ONLY <1>c, <1>step
  <2>2. back # [f |-> forest, ret |-> NODE_ERR_SUCCESS]
    BY ONLY <1>c
  <2>3. q[i] \in short /\ back.f = Unlink(forest, a, i)
    <3> HIDE DEF i, q, back
    <3>1. node_insert(Unlink(forest, a, i), a, i - 1, q[i])
             = [f |-> forest, ret |-> NODE_ERR_SUCCESS]
      BY <1>1, <1>2, <1>5, UndoDetach DEF q
    <3>2. QED
      BY ONLY <1>b, <1>c, <2>2, <3>1
  <2>4. QED
    BY <1>5, <2>1, <2>3
<1>11. CASE r.ret # NODE_ERR_SUCCESS /\ back.ret = NODE_ERR_SUCCESS
  <2>1. back = node_insert(Unlink(forest, a, i), a, i - 1, q[i])
    BY ONLY <1>b, <1>11
  <2>2. back = [f |-> forest, ret |-> NODE_ERR_SUCCESS]
    <3> HIDE DEF i, q, back
    <3>1. QED
      BY <1>1, <1>2, <1>5, <2>1, UndoDetach DEF q
  <2> DEFINE pc == post_set(forest, a, old, n)
  <2>3. /\ forest' = forest /\ type' = type /\ cache' = [cache EXCEPT ![a] = pc]
        /\ stale' = stale
    BY <1>9, <1>11, <1>step, <2>2
  <2>4. ReplaceAt(q, i, old) = q
    <3> HIDE DEF i, q, old
    <3>1. QED
      BY <1>3, <1>5, <1>6, ReplaceProperties
  <2>5. pc \in {NULL, forest.kids[a]}
    <3> HIDE DEF old
    <3>1. forest.kids[a] = ReplaceAt(forest.kids[a], n + 1, old)
      BY <2>4
    <3>2. QED
      BY <1>1, <1>5, <1>6, <3>1, PostSet
  <2> HIDE DEF pc, q, old, i
  <2>6. \A m \in Node : cache'[m] # NULL => type[m] = "array" /\ cache'[m] = forest.kids[m]
    BY <1>1, <1>2, <2>3, <2>5 DEF Coherent, Sound
  <2>7. cache' = [m \in Node |-> cache'[m]]
    BY <1>2, <2>3
  <2>8. Coherent'
    BY <2>3, <2>6, <2>7 DEF Coherent, Sound
  <2>9. QED
    BY <2>3, <2>8 DEF q
<1>12. CASE r.ret = NODE_ERR_SUCCESS
  <2> DEFINE pc == post_set(g, a, item, n)
             c == [cache EXCEPT ![a] = pc]
             T == Subtree(g, old)
  <2>1. FreeNode(g, c, old)
    BY <1>9, <1>12, <1>step
  <2>s. stale' \subseteq stale
    BY <2>1 DEF FreeNode
  <2>2. g.kids[a] = ReplaceAt(forest.kids[a], n + 1, item)
    BY <1>10, <1>12
  <2>3. pc \in {NULL, g.kids[a]}
    BY <1>1, <1>5, <2>2, PostSet
  <2>4. forest' = Release(g, T)
    BY <1>10, <1>12, <2>1 DEF FreeNode, detached
  <2> HIDE DEF g, old, r, d, q, i, pc
  <2>5. \A m \in Node \ T : forest'.kids[m] = g.kids[m]
    BY <2>4 DEF Release
  <2>6. c = [m \in Node |-> c[m]]
    BY <1>2
  <2>7. \A m \in Node \ T : c[m] # NULL => type[m] = "array" /\ c[m] = forest'.kids[m]
    BY <1>1, <1>2, <1>10, <1>12, <2>3, <2>5 DEF Coherent, Sound
  <2>8. \A m \in Node : g.parent[m] # NULL =>
           m \in Subtree(g, old) \/ (type[m] # "free" /\ type[g.parent[m]] = "array")
    BY <1>1, <1>2, <1>10, <1>12 DEF Coherent, Sound
  <2> HIDE DEF c
  <2>9. Coherent'
    <3>1. ForestInv(g) /\ old \in Node /\ type \in [Node -> {"free", "array", "value"}]
      BY <1>2, <1>6, <1>10, <1>12
    <3> HIDE DEF T
    <3>2. QED
      BY <2>1, <2>6, <2>7, <2>8, <3>1, FreeNodeSound DEF T
  <2>10. forest'.kids[a] = ReplaceAt(q, i, item)
    BY <1>1, <1>10, <1>12, <2>5
  <2>11. QED
    BY <2>9, <2>10, <2>s DEF q, i
<1>13. QED
  BY <1>c, <1>11, <1>12

\* Freeing a node that is a root, or an item whose array has no cache or has
\* dropped the item's entry from it.
LEMMA FreedSound ==
    ASSUME Coherent, NEW item \in Node, NEW c,
           LET a == forest.parent[item] IN
           \/ a = NULL /\ c = cache
           \/ a # NULL /\ cache[a] = NULL /\ c = cache
           \/ /\ a # NULL /\ cache[a] # NULL
              /\ c = [cache EXCEPT ![a] =
                        ptr_array_remove(cache[a], node_child_position(forest, a, item))],
           FreeNode(forest, c, item)
    PROVE  Coherent'
<1> DEFINE T == Subtree(forest, item)
           a == forest.parent[item]
           k == node_child_position(forest, a, item)
           d == detached(forest, item)
<1>1. /\ ForestInv(forest) /\ cache = [m \in Node |-> cache[m]]
      /\ forest.kids \in [Node -> Seq(Node)] /\ forest.parent \in [Node -> Node \cup {NULL}]
      /\ type \in [Node -> {"free", "array", "value"}]
      /\ \A n \in Node : cache[n] # NULL => type[n] = "array" /\ cache[n] = forest.kids[n]
      /\ \A n \in Node : forest.parent[n] # NULL =>
            type[n] # "free" /\ type[forest.parent[n]] = "array"
  BY DEF Coherent, Sound, ForestInv, Forest
<1>2. d = IF forest.parent[item] = NULL THEN forest
          ELSE node_detach(forest, forest.parent[item], item).f
  BY DEF detached
<1>3. forest' = Release(d, T)
  BY DEF FreeNode
<1> HIDE DEF d
<1>4. /\ a # NULL => forest'.kids[a] = RemoveAt(forest.kids[a], k + 1)
      /\ \A n \in Node \ T : n # a => forest'.kids[n] = forest.kids[n]
  BY <1>1, <1>2, <1>3, FreeForest
<1>5. a # NULL => k \in 0..(Len(forest.kids[a]) - 1)
  <2>1. SUFFICES ASSUME a # NULL PROVE k \in 0..(Len(forest.kids[a]) - 1)
    OBVIOUS
  <2>2. a \in Node
    BY <1>1, <2>1
  <2>3. PICK j \in DOMAIN forest.kids[a] : forest.kids[a][j] = item
    BY <1>1, <2>2 DEF ForestInv, Linked, Children
  <2>4. k = j - 1 /\ j \in 1..Len(forest.kids[a])
    BY <1>1, <2>2, <2>3, Position
  <2>5. Len(forest.kids[a]) \in Nat
    BY <1>1, <2>2, LenProperties
  <2>6. QED
    BY <2>4, <2>5
<1> HIDE DEF T
<1>6. c = [n \in Node |-> c[n]]
  BY <1>1
<1>7. ASSUME NEW n \in Node \ T, c[n] # NULL
      PROVE  type[n] = "array" /\ c[n] = forest'.kids[n]
  <2>1. CASE n # a
    BY <1>1, <1>4, <1>7, <2>1
  <2>2. CASE n = a
    <3>1. a # NULL /\ cache[a] # NULL /\ cache[a] = forest.kids[a] /\ type[a] = "array"
      BY <1>1, <1>7, <2>2, NodeAssumption
    <3>2. c = [cache EXCEPT ![a] = ptr_array_remove(cache[a], k)]
      BY <3>1
    <3>3. ptr_array_remove(cache[a], k) = RemoveAt(forest.kids[a], k + 1)
      BY <1>5, <3>1 DEF ptr_array_remove
    <3>4. QED
      BY <1>1, <1>4, <2>2, <3>1, <3>2, <3>3
  <2>3. QED
    BY <2>1, <2>2
<1>8. QED
  BY <1>1, <1>6, <1>7, FreeNodeSound DEF T

\* A setter empties the node and turns it into a value.
LEMMA SetValueSound ==
    ASSUME NEW c, Sound(type, forest, c), NEW node \in Live, SetValue(node),
           NEW b, b = [n \in Node |-> IF n \in Subtree(forest, node) THEN NULL ELSE c[n]]
    PROVE  Sound(type', forest', b)
<1> DEFINE T == Subtree(forest, node)
           g == Emptied(forest, node)
<1>1. /\ ForestInv(forest) /\ node \in Node
      /\ forest.kids \in [Node -> Seq(Node)] /\ forest.parent \in [Node -> Node \cup {NULL}]
      /\ type \in [Node -> {"free", "array", "value"}] /\ type[node] # "free"
      /\ \A n \in Node : c[n] # NULL => type[n] = "array" /\ c[n] = forest.kids[n]
      /\ \A n \in Node : forest.parent[n] # NULL =>
            type[n] # "free" /\ type[forest.parent[n]] = "array"
  BY DEF Sound, ForestInv, Forest, Live
<1>2. /\ forest' = g
      /\ type' = [n \in Node |-> IF n \in T \ {node} THEN "free"
                                 ELSE IF n = node THEN "value" ELSE type[n]]
      /\ b = [n \in Node |-> IF n \in T THEN NULL ELSE c[n]]
  BY <1>1, EmptiedForest DEF SetValue
<1>3. /\ ForestInv(g)
      /\ \A n \in Node : n \notin T => g.kids[n] = forest.kids[n] /\ g.parent[n] = forest.parent[n]
      /\ g.parent[node] = forest.parent[node] /\ g.kids[node] = <<>>
      /\ \A n \in T \ {node} : g.parent[n] = NULL /\ g.kids[n] = <<>>
  <2>1. /\ g.kids = [n \in Node |-> IF n \in T THEN <<>> ELSE forest.kids[n]]
        /\ g.parent = [n \in Node |-> IF n \in T \ {node} THEN NULL ELSE forest.parent[n]]
    BY DEF Emptied
  <2>2. node \in T /\ T \subseteq Node
    BY <1>1, SubtreeCut
  <2>3. ForestInv(g)
    BY <1>1, EmptiedForest
  <2> HIDE DEF T, g
  <2>4. QED
    BY <1>1, <2>1, <2>2, <2>3
<1>4. /\ node \in T /\ T \subseteq Node /\ forest.parent[node] \notin T
      /\ \A n \in Node : n # node => (n \in T <=> forest.parent[n] \in T)
  BY <1>1, SubtreeCut
<1> HIDE DEF T, g
<1>5. ASSUME NEW n \in Node, forest'.parent[n] # NULL
      PROVE  type'[n] # "free" /\ type'[forest'.parent[n]] = "array"
  <2>1. n \notin T \ {node} /\ forest'.parent[n] = forest.parent[n]
    BY <1>2, <1>3, <1>5
  <2>2. forest.parent[n] \in Node /\ forest.parent[n] \notin T
    BY <1>1, <1>4, <1>5, <2>1
  <2>3. QED
    BY <1>1, <1>2, <1>4, <1>5, <2>1, <2>2
<1>6. ASSUME NEW n \in Node, b[n] # NULL
      PROVE  type'[n] = "array" /\ b[n] = forest'.kids[n]
  BY <1>1, <1>2, <1>3, <1>4, <1>6
<1>7. type' \in [Node -> {"free", "array", "value"}] /\ b = [n \in Node |-> b[n]]
  BY <1>1, <1>2
<1>8. QED
  BY <1>2, <1>3, <1>5, <1>6, <1>7 DEF Sound

\* The links of an array whose items are fresh nodes.
LEMMA ParsedForest ==
    ASSUME NEW f, ForestInv(f), NEW a \in Node, NEW k \in Nat, NEW S \in SUBSET Node, a \notin S,
           \A n \in S \cup {a} : f.kids[n] = <<>> /\ f.parent[n] = NULL,
           NEW items \in Injection(1..k, S), MaxDepth >= 1
    PROVE  ForestInv([kids   |-> [f.kids EXCEPT ![a] = items],
                      parent |-> [n \in Node |-> IF n \in Range(items) THEN a ELSE f.parent[n]]])
<1> DEFINE R == Range(items)
           gk == [f.kids EXCEPT ![a] = items]
           gp == [n \in Node |-> IF n \in R THEN a ELSE f.parent[n]]
           g == [kids |-> gk, parent |-> gp]
<1>1. /\ f.kids \in [Node -> Seq(Node)] /\ f.parent \in [Node -> Node \cup {NULL}]
      /\ f \in Forest /\ Linked(f) /\ Acyclic(f) /\ Shallow(f)
  BY DEF ForestInv, Forest
<1>2. /\ items \in [1..k -> S] /\ DOMAIN items = 1..k
      /\ \A i, j \in 1..k : items[i] = items[j] => i = j
  BY DEF Injection, IsInjective
<1>3. items \in Seq(Node)
  BY <1>2, SeqDef
<1>4. R = {items[i] : i \in DOMAIN items} /\ R \subseteq S /\ a \notin R
  BY <1>2 DEF Range
<1>5. \A n \in R \cup {a}, m \in Node : f.parent[m] # n /\ m \notin Children(f, n)
  <2>1. \A n \in R \cup {a} : Children(f, n) = {} /\ n \in Node
    BY <1>4 DEF Children
  <2>2. QED
    BY <1>1, <2>1 DEF Linked
<1>6. g.kids = gk /\ g.parent = gp
  OBVIOUS
<1>7. /\ gk \in [Node -> Seq(Node)] /\ gk[a] = items
      /\ \A n \in Node : n # a => gk[n] = f.kids[n]
  BY <1>1, <1>3
<1> HIDE DEF R
<1>8. gp \in [Node -> Node \cup {NULL}]
  BY <1>1
<1>9. \A n \in Node : gp[n] = IF n \in R THEN a ELSE f.parent[n]
  OBVIOUS
<1>10. g \in Forest
  BY <1>7, <1>8 DEF Forest
<1> HIDE DEF g, gk, gp
<1>11. Children(g, a) = R /\ \A n \in Node : n # a => Children(g, n) = Children(f, n)
  BY <1>4, <1>6, <1>7 DEF Children
<1>12. Linked(g)
  <2>1. ASSUME NEW n \in Node, NEW m \in Node
        PROVE  g.parent[m] = n <=> m \in Children(g, n)
    <3>1. f.parent[m] = n <=> m \in Children(f, n)
      BY <1>1 DEF Linked
    <3>2. m \in R => f.parent[m] # n
      <4>1. m \in R => f.parent[m] = NULL
        BY <1>4
      <4>2. QED
        BY <4>1, NodeAssumption
    <3>3. CASE n = a
      BY <1>5, <1>6, <1>9, <1>11, <3>3
    <3>4. CASE n # a
      BY <1>6, <1>9, <1>11, <3>1, <3>2, <3>4
    <3>5. QED
      BY <3>3, <3>4
  <2>2. ASSUME NEW n \in Node PROVE NoRepeat(g.kids[n])
    <3>1. CASE n = a
      BY <1>2, <1>6, <1>7, <3>1 DEF NoRepeat
    <3>2. CASE n # a
      BY <1>1, <1>6, <1>7, <3>2 DEF Linked, NoRepeat
    <3>3. QED
      BY <3>1, <3>2
  <2>3. QED
    BY <2>1, <2>2 DEF Linked, NoRepeat
<1>13. Acyclic(g)
  <2>1. ASSUME NEW Q \in SUBSET Node, Q # {}
        PROVE  \E n \in Q : g.parent[n] \notin Q
    <3>1. CASE Q \subseteq R
      BY <1>4, <1>6, <1>9, <2>1, <3>1
    <3>2. CASE ~(Q \subseteq R)
      <4>1. PICK n \in Q \ R : f.parent[n] \notin Q \ R
        BY <1>1, <3>2 DEF Acyclic
      <4>2. f.parent[n] \notin R /\ g.parent[n] = f.parent[n]
        BY <1>5, <1>6, <1>9, <4>1
      <4>3. QED
        BY <4>1, <4>2
    <3>3. QED
      BY <3>1, <3>2
  <2>2. QED
    BY <2>1 DEF Acyclic
<1>14. ASSUME NEW n \in Node PROVE Depth(g, n) <= MaxDepth
  <2>1. CASE n \notin R
    <3> DEFINE A == Ancestors(f, n)
               B == A \ R
    <3>1. A \in SUBSET Node /\ n \in B /\ \A m \in A : f.parent[m] \in A \cup {NULL}
      BY <1>1, <2>1, AncestorsClosed
    <3>2. \A m \in B : g.parent[m] \in B \cup {NULL}
      BY <1>5, <1>6, <1>9, <3>1
    <3>3. IsFiniteSet(A) /\ Cardinality(A) \in Nat /\ Cardinality(A) - 1 <= MaxDepth
      BY <1>1, DepthType DEF Shallow
    <3>4. B \in SUBSET Node /\ B \subseteq A
      BY <3>1
    <3> HIDE DEF A, B
    <3>5. Ancestors(g, n) \subseteq B
      BY <3>1, <3>2, <3>4, AncestorsMinimal
    <3>6. Cardinality(Ancestors(g, n)) <= Cardinality(A)
      BY <3>3, <3>4, <3>5, FS_Subset
    <3>7. QED
      BY <3>3, <3>6, DepthType, MaxDepthAssumption
  <2>2. CASE n \in R
    <3> DEFINE B == {n, a}
    <3>1. B \in SUBSET Node /\ n \in B
      OBVIOUS
    <3>2. \A m \in B : g.parent[m] \in B \cup {NULL}
      BY <1>4, <1>6, <1>9, <2>2
    <3>3. IsFiniteSet(B) /\ Cardinality(B) <= 2
      <4> DEFINE U == {n}
      <4>1. IsFiniteSet(U) /\ Cardinality(U) = 1
        BY FS_Singleton
      <4>2. B = U \cup {a}
        OBVIOUS
      <4> HIDE DEF U, B
      <4>3. /\ IsFiniteSet(U \cup {a})
            /\ Cardinality(U \cup {a}) = IF a \in U THEN Cardinality(U) ELSE Cardinality(U) + 1
        BY <4>1, FS_AddElement
      <4>4. QED
        BY <4>1, <4>2, <4>3
    <3> HIDE DEF B
    <3>4. Ancestors(g, n) \subseteq B
      BY <3>1, <3>2, AncestorsMinimal
    <3>5. Cardinality(Ancestors(g, n)) <= Cardinality(B) /\ Cardinality(B) \in Nat
      BY <3>3, <3>4, FS_Subset, FS_CardinalityType
    <3>6. QED
      BY <3>3, <3>5, DepthType, MaxDepthAssumption
  <2>3. QED
    BY <2>1, <2>2
<1>15. QED
  BY <1>10, <1>12, <1>13, <1>14 DEF ForestInv, Shallow, g, gk, gp, R

\* An array as the binary reader leaves it: items, but no cache.
LEMMA ParsedArraySound ==
    ASSUME Coherent, NEW a \in Fresh, NEW k \in Nat, NEW items \in Injection(1..k, Fresh \ {a}),
           MaxDepth >= 1, ParsedArray(a, items)
    PROVE  Coherent'
<1> DEFINE R == Range(items)
           S == Fresh \ {a}
<1>1. /\ ForestInv(forest) /\ a \in Node /\ type[a] = "free"
      /\ forest.kids \in [Node -> Seq(Node)] /\ forest.parent \in [Node -> Node \cup {NULL}]
      /\ type \in [Node -> {"free", "array", "value"}]
      /\ cache = [n \in Node |-> cache[n]]
      /\ \A n \in Node : cache[n] # NULL => type[n] = "array" /\ cache[n] = forest.kids[n]
      /\ \A n \in Node : forest.parent[n] # NULL =>
            type[n] # "free" /\ type[forest.parent[n]] = "array"
  BY DEF Coherent, Sound, ForestInv, Forest, Fresh
<1>2. /\ S \in SUBSET Node /\ a \notin S
      /\ \A n \in S \cup {a} : type[n] = "free" /\ n \in Node
  BY <1>1 DEF Fresh
<1>3. \A n \in S \cup {a} : forest.kids[n] = <<>> /\ forest.parent[n] = NULL
  BY <1>2, FreeIsIsolated DEF Coherent
<1>4. ForestInv(forest')
  <2>1. /\ ForestInv(forest) /\ a \in Node /\ S \in SUBSET Node /\ a \notin S
        /\ items \in Injection(1..k, S)
        /\ \A n \in S \cup {a} : forest.kids[n] = <<>> /\ forest.parent[n] = NULL
    BY <1>1, <1>2, <1>3
  <2> HIDE DEF S
  <2>2. ForestInv([kids   |-> [forest.kids EXCEPT ![a] = items],
                   parent |-> [n \in Node |-> IF n \in Range(items) THEN a ELSE forest.parent[n]]])
    BY <2>1, ParsedForest
  <2>3. QED
    BY <2>2 DEF ParsedArray
<1> HIDE DEF S
<1>5. R \subseteq S
  BY DEF Range, Injection, S
<1>6. /\ type' = [n \in Node |-> IF n = a THEN "array" ELSE IF n \in R THEN "value" ELSE type[n]]
      /\ forest'.kids = [forest.kids EXCEPT ![a] = items]
      /\ forest'.parent = [n \in Node |-> IF n \in R THEN a ELSE forest.parent[n]]
      /\ cache' = cache
  BY DEF ParsedArray
<1> HIDE DEF R
<1>7. \A n \in Node : cache[n] # NULL => type'[n] = "array" /\ cache[n] = forest'.kids[n]
  BY <1>1, <1>2, <1>5, <1>6
<1>8. ASSUME NEW n \in Node, forest'.parent[n] # NULL
      PROVE  type'[n] # "free" /\ type'[forest'.parent[n]] = "array"
  <2>1. CASE n \in R
    BY <1>1, <1>6, <2>1
  <2>2. CASE n \notin R
    <3>1. /\ forest'.parent[n] = forest.parent[n] /\ forest.parent[n] \in Node
          /\ type[n] # "free" /\ type[forest.parent[n]] = "array"
      BY <1>1, <1>6, <1>8, <2>2
    <3>2. QED
      BY <1>2, <1>5, <1>6, <2>2, <3>1
  <2>3. QED
    BY <2>1, <2>2
<1>9. type' \in [Node -> {"free", "array", "value"}]
  BY <1>1, <1>6
<1>10. QED
  BY <1>1, <1>4, <1>6, <1>7, <1>8, <1>9 DEF Coherent, Sound

\* plist_copy: a copied array has a cache exactly when the original has one.
LEMMA CopySound ==
    ASSUME Coherent, NEW node \in Live, NEW k \in Injection(Subtree(forest, node), Fresh),
           Copy(node, k)
    PROVE  Coherent'
<1> DEFINE T == Subtree(forest, node)
           C == {k[t] : t \in T}
           orig(m) == CHOOSE t \in T : k[t] = m
<1>1. /\ ForestInv(forest) /\ node \in Node
      /\ forest.kids \in [Node -> Seq(Node)] /\ forest.parent \in [Node -> Node \cup {NULL}]
      /\ type \in [Node -> {"free", "array", "value"}] /\ type[node] # "free"
      /\ cache = [n \in Node |-> cache[n]]
      /\ \A n \in Node : cache[n] # NULL => type[n] = "array" /\ cache[n] = forest.kids[n]
      /\ \A n \in Node : forest.parent[n] # NULL =>
            type[n] # "free" /\ type[forest.parent[n]] = "array"
  BY DEF Coherent, Sound, ForestInv, Forest, Live
<1>2. Fresh \in SUBSET Node /\ \A n \in Fresh : type[n] = "free"
  BY DEF Fresh
<1>3. \A n \in Fresh : forest.kids[n] = <<>> /\ forest.parent[n] = NULL
  BY <1>2, FreeIsIsolated DEF Coherent
<1>4. /\ ForestInv(forest')
      /\ \A t \in T : k[t] \in Fresh
      /\ \A n \in Node : n \notin C =>
            forest'.kids[n] = forest.kids[n] /\ forest'.parent[n] = forest.parent[n]
  <2>1. ForestInv(forest) /\ node \in Node /\ forest' = CopyTree(forest, node, k)
    BY <1>1 DEF Copy
  <2>2. QED
    BY <1>2, <1>3, <2>1, CopyForest
<1>5. DOMAIN k = T /\ \A t, u \in T : k[t] = k[u] => t = u
  BY DEF Injection, IsInjective
<1>6. /\ node \in T /\ T \subseteq Node
      /\ \A n \in Node : n # node => (n \in T <=> forest.parent[n] \in T)
  BY <1>1, SubtreeCut
<1>7. Range(k) = C
  BY <1>5 DEF Range
<1>8. \A t \in T : orig(k[t]) = t
  BY <1>5
<1>9. /\ type' = [m \in Node |-> IF m \in C THEN type[orig(m)] ELSE type[m]]
      /\ cache' = [m \in Node |-> IF m \notin C THEN cache[m]
                                  ELSE IF cache[orig(m)] = NULL THEN NULL ELSE forest'.kids[m]]
  BY <1>5, <1>7 DEF Copy
<1>10. forest'.parent = [m \in Node |-> IF m \notin C \/ orig(m) = node THEN forest.parent[m]
                                        ELSE k[forest.parent[orig(m)]]]
  BY <1>5 DEF Copy, CopyTree
<1>11. \A m \in C : \E t \in T : m = k[t]
  OBVIOUS
<1>12. \A t \in T : k[t] \in C /\ k[t] \in Node /\ k[t] \in Fresh
  BY <1>2, <1>4
<1> HIDE DEF T, C, orig
<1>13. ASSUME NEW t \in T
       PROVE  /\ type'[k[t]] = type[t]
              /\ cache'[k[t]] = IF cache[t] = NULL THEN NULL ELSE forest'.kids[k[t]]
              /\ forest'.parent[k[t]] = IF t = node THEN NULL ELSE k[forest.parent[t]]
  <2>1. forest.parent[k[t]] = NULL
    BY <1>3, <1>12
  <2>2. QED
    BY <1>8, <1>9, <1>10, <1>12, <2>1
<1>14. ASSUME NEW m \in Node, cache'[m] # NULL
       PROVE  type'[m] = "array" /\ cache'[m] = forest'.kids[m]
  <2>1. CASE m \in C
    <3>1. PICK t \in T : m = k[t]
      BY <1>11, <2>1
    <3>2. QED
      BY <1>1, <1>6, <1>13, <1>14, <3>1
  <2>2. CASE m \notin C
    BY <1>1, <1>4, <1>9, <1>14, <2>2
  <2>3. QED
    BY <2>1, <2>2
<1>15. ASSUME NEW m \in Node, forest'.parent[m] # NULL
       PROVE  type'[m] # "free" /\ type'[forest'.parent[m]] = "array"
  <2>1. CASE m \in C
    <3>1. PICK t \in T : m = k[t]
      BY <1>11, <2>1
    <3>2. t # node /\ t \in Node /\ forest.parent[t] \in T /\ forest.parent[t] \in Node
      BY <1>6, <1>13, <1>15, <3>1
    <3>3. type[t] # "free" /\ type[forest.parent[t]] = "array"
      BY <1>1, <3>2, NodeAssumption
    <3>4. QED
      BY <1>13, <3>1, <3>2, <3>3
  <2>2. CASE m \notin C
    <3>1. /\ forest'.parent[m] = forest.parent[m] /\ forest.parent[m] \in Node
          /\ type[m] # "free" /\ type[forest.parent[m]] = "array"
      BY <1>1, <1>4, <1>15, <2>2
    <3>2. forest.parent[m] \notin C
      BY <1>2, <1>11, <1>12, <3>1
    <3>3. QED
      BY <1>9, <2>2, <3>1, <3>2
  <2>3. QED
    BY <2>1, <2>2
<1>16. type' \in [Node -> {"free", "array", "value"}]
  <2>1. \A m \in Node : type'[m] \in {"free", "array", "value"}
    <3>1. SUFFICES ASSUME NEW m \in Node PROVE type'[m] \in {"free", "array", "value"}
      OBVIOUS
    <3>2. CASE m \in C
      <4>1. PICK t \in T : m = k[t]
        BY <1>11, <3>2
      <4>2. type'[m] = type[t] /\ t \in Node
        BY <1>6, <1>13, <4>1
      <4>3. QED
        BY <1>1, <4>2
    <3>3. CASE m \notin C
      BY <1>1, <1>9, <3>3
    <3>4. QED
      BY <3>2, <3>3
  <2>2. QED
    BY <1>9, <2>1
<1>17. cache' = [m \in Node |-> cache'[m]]
  BY <1>9
<1>18. QED
  BY <1>4, <1>14, <1>15, <1>16, <1>17 DEF Coherent, Sound

-----------------------------------------------------------------------------
(***************************************************************************)
(* Stale caches                                                            *)
(***************************************************************************)

\* While no cache is stale every cache counts.
LEMMA NoneStale ==
    ASSUME stale = {}, cache = [n \in Node |-> cache[n]]
    PROVE  Kept = cache
<1>1. Kept = [n \in Node |-> cache[n]]
  BY DEF Kept
<1>2. QED
  BY <1>1

\* A call that leaves all caches in line, and none of them stale.
LEMMA AllInLine ==
    ASSUME Coherent', stale' = {}, short' \subseteq Node
    PROVE  IInv'
<1>1. cache' = [n \in Node |-> cache'[n]]
  BY DEF Coherent, Sound
<1>2. Kept' = [n \in Node |-> cache'[n]]
  BY DEF Kept
<1>3. Kept' = cache'
  BY <1>1, <1>2
<1>4. QED
  BY <1>1, <1>3 DEF IInv, Coherent

\* A roll-back that failed: the array is without the item, the cache is not.
LEMMA LostItemSound ==
    ASSUME Coherent, stale = {}, NEW a \in Arrays, NEW i \in 1..Len(forest.kids[a]),
           forest' = Unlink(forest, a, i), type' = type, cache' = cache,
           stale' = IF cache[a] = NULL THEN stale ELSE stale \cup {a},
           short' \subseteq Node
    PROVE  IInv' /\ forest'.parent[forest.kids[a][i]] = NULL
<1> DEFINE c == forest.kids[a][i]
<1>1. /\ ForestInv(forest) /\ a \in Node /\ type[a] = "array"
      /\ forest.kids \in [Node -> Seq(Node)] /\ forest.parent \in [Node -> Node \cup {NULL}]
      /\ cache = [n \in Node |-> cache[n]]
  BY DEF Coherent, Sound, ForestInv, Forest, Arrays
<1>2. ForestInv(forest') /\ forest'.parent[c] = NULL
  BY <1>1, UnlinkForest
<1>3. \A n \in Node : n # a => forest'.kids[n] = forest.kids[n]
  BY <1>1 DEF Unlink
<1>4. \A n \in Node : n # c => forest'.parent[n] = forest.parent[n]
  BY <1>1 DEF Unlink
<1>5. Kept' = [n \in Node |-> IF n \in stale' THEN NULL ELSE cache[n]]
  BY DEF Kept
<1>6. \A n \in Node : Kept'[n] # NULL => n # a /\ Kept'[n] = cache[n]
  BY <1>5
<1> HIDE DEF c
<1>7. \A n \in Node : Kept'[n] # NULL => type'[n] = "array" /\ Kept'[n] = forest'.kids[n]
  BY <1>3, <1>6 DEF Coherent, Sound
<1>8. \A n \in Node : forest'.parent[n] # NULL =>
         type'[n] # "free" /\ type'[forest'.parent[n]] = "array"
  BY <1>2, <1>4 DEF Coherent, Sound
<1>9. Kept' = [n \in Node |-> Kept'[n]]
  BY <1>5
<1>10. Sound(type', forest', Kept')
  BY <1>2, <1>7, <1>8, <1>9 DEF Coherent, Sound
<1>11. \A n \in stale' : n \in Arrays' /\ cache'[n] \in Seq(Node) /\ cache'[n] # NULL
  BY <1>1 DEF Coherent, Sound, Arrays
<1>12. QED
  BY <1>1, <1>2, <1>10, <1>11 DEF IInv, c

\* The end of an array whose cache is stale: the cache goes with it, and the trees and
\* the other caches stay in line.
LEMMA EndStaleSound ==
    ASSUME IInv, EndStale, short' \subseteq Node
    PROVE  IInv'
<1>1. PICK n \in Live : SetValue(n) \/ FreeRoot(n)
  BY DEF EndStale
<1>2. /\ Sound(type, forest, Kept) /\ cache = [m \in Node |-> cache[m]]
      /\ n \in Node /\ ForestInv(forest) /\ type \in [Node -> {"free", "array", "value"}]
  BY <1>1 DEF IInv, Sound, Live
<1> DEFINE T == Subtree(forest, n)
           b == [m \in Node |-> IF m \in T THEN NULL ELSE Kept[m]]
<1>3. n \in T /\ T \subseteq Node
  BY <1>2, SubtreeCut
<1>4. /\ Sound(type', forest', b)
      /\ cache' = [m \in Node |-> IF m \in T THEN NULL ELSE cache[m]]
      /\ stale' = stale \ T
      /\ \A m \in Node \ T : type'[m] = type[m]
  <2>1. CASE SetValue(n)
    <3>1. Sound(type', forest', b)
      BY <1>1, <1>2, <2>1, SetValueSound
    <3>2. /\ cache' = [m \in Node |-> IF m \in (T \ {n}) \cup {n} THEN NULL ELSE cache[m]]
          /\ stale' = stale \ ((T \ {n}) \cup {n})
          /\ type' = [m \in Node |-> IF m \in T \ {n} THEN "free"
                                     ELSE IF m = n THEN "value" ELSE type[m]]
      BY <2>1 DEF SetValue, caches_without
    <3>3. (T \ {n}) \cup {n} = T
      BY <1>3
    <3> HIDE DEF T
    <3>4. QED
      BY <1>3, <3>1, <3>2, <3>3
  <2>2. CASE FreeRoot(n)
    <3>1. /\ forest.parent[n] = NULL
          /\ forest' = Release(detached(forest, n), T)
          /\ type' = [m \in Node |-> IF m \in T THEN "free" ELSE type[m]]
          /\ cache' = [m \in Node |-> IF m \in T THEN NULL ELSE cache[m]]
          /\ stale' = stale \ T
      BY <2>2 DEF FreeRoot, FreeNode, Roots
    <3>2. detached(forest, n) = forest
      BY <3>1 DEF detached
    <3>3. \A m \in Node \ T : forest'.kids[m] = forest.kids[m]
      BY <3>1, <3>2 DEF Release
    <3>4. /\ Kept = [m \in Node |-> Kept[m]]
          /\ \A m \in Node : forest.parent[m] # NULL =>
                m \in T \/ (type[m] # "free" /\ type[forest.parent[m]] = "array")
          /\ \A m \in Node \ T : Kept[m] # NULL =>
                type[m] = "array" /\ Kept[m] = forest'.kids[m]
      BY <1>2, <3>3 DEF Sound
    <3>5. Sound(type', forest', b)
      BY <1>2, <3>1, <3>4, FreedParts
    <3> HIDE DEF T, b
    <3>6. QED
      BY <3>1, <3>5
  <2>3. QED
    BY <1>1, <2>1, <2>2
<1>5. Kept' = b
  <2>1. Kept' = [m \in Node |-> IF m \in stale' THEN NULL ELSE cache'[m]]
    BY DEF Kept
  <2>2. \A m \in Node : (IF m \in stale' THEN NULL ELSE cache'[m])
                         = IF m \in T THEN NULL ELSE Kept[m]
    <3> HIDE DEF T
    <3>1. QED
      BY <1>4 DEF Kept
  <2>3. QED
    BY <2>1, <2>2
<1>6. cache' = [m \in Node |-> cache'[m]]
  BY <1>4
<1>7. ASSUME NEW m \in stale'
      PROVE  m \in Arrays' /\ cache'[m] \in Seq(Node) /\ cache'[m] # NULL
  <2> HIDE DEF T, b
  <2>1. m \in stale /\ m \notin T
    BY <1>4
  <2>2. m \in Node /\ type[m] = "array" /\ cache[m] \in Seq(Node) /\ cache[m] # NULL
    BY <2>1 DEF IInv, Arrays
  <2>3. QED
    BY <1>4, <2>1, <2>2 DEF Arrays
<1>8. QED
  BY <1>4, <1>5, <1>6, <1>7 DEF IInv

-----------------------------------------------------------------------------
(***************************************************************************)
(* The theorems                                                            *)
(***************************************************************************)

\* While no cache is stale, every call keeps the caches in line, or loses the item a
\* roll-back could not put back.
LEMMA CallSound ==
    ASSUME Coherent, stale = {}, Call, short' \subseteq Node
    PROVE  IInv'
<1>0. \A k \in 0..Cardinality(Node) : k \in Nat
  BY NodeAssumption, FS_CardinalityType
<1>2. ASSUME NEW n \in Fresh, NEW t \in {"array", "value"}, NewNode(n, t)
      PROVE  Coherent' /\ stale' = {}
  BY <1>2, NewNodeSound DEF NewNode
<1>3. ASSUME NEW a \in Fresh, NEW k \in 1..Cardinality(Fresh \ {a}),
             NEW items \in Injection(1..k, Fresh \ {a}), MaxDepth >= 1, ParsedArray(a, items)
      PROVE  Coherent' /\ stale' = {}
  <2>1. k \in Nat
    BY <1>3
  <2>2. Coherent'
    BY <1>3, <2>1, ParsedArraySound
  <2>3. stale' = {}
    BY <1>3 DEF ParsedArray
  <2>4. QED
    BY <2>2, <2>3
<1>4. ASSUME NEW a \in Arrays, NEW item \in Roots, AppendItem(a, item)
      PROVE  Coherent' /\ stale' = {}
  <2> DEFINE r == try_attach(short, forest, a, item)
  <2>1. /\ forest' = r.f /\ type' = type /\ stale' = stale
        /\ cache' = IF r.ret = NODE_ERR_SUCCESS
                      THEN [cache EXCEPT ![a] = post_insert(r.f, a, item, -1)]
                      ELSE cache
    BY <1>4 DEF AppendItem
  <2>2. \/ r = node_attach(forest, a, item)
        \/ r.f = forest /\ r.ret # NODE_ERR_SUCCESS
    BY TryAttach
  <2> HIDE DEF r
  <2>3. -1 \in Int /\ -1 = -1
    OBVIOUS
  <2>4. QED
    BY <2>1, <2>2, <2>3, InsertedSound
<1>5. ASSUME NEW a \in Arrays, NEW item \in Roots, NEW n \in 0..Cardinality(Node),
             InsertItem(a, item, n)
      PROVE  Coherent' /\ stale' = {}
  <2> DEFINE r == try_insert(short, forest, a, n, item)
  <2>1. /\ forest' = r.f /\ type' = type /\ stale' = stale
        /\ cache' = IF r.ret = NODE_ERR_SUCCESS
                      THEN [cache EXCEPT ![a] = post_insert(r.f, a, item, n)]
                      ELSE cache
    BY <1>5 DEF InsertItem
  <2>2. /\ n \in Nat /\ n \in Int
        /\ \/ r = node_insert(forest, a, n, item)
           \/ r.f = forest /\ r.ret # NODE_ERR_SUCCESS
    BY <1>0, TryInsert
  <2> HIDE DEF r
  <2>3. QED
    BY <2>1, <2>2, InsertedSound
<1>6. ASSUME NEW a \in Arrays, NEW item \in Roots, NEW n \in 0..Cardinality(Node),
             SetItem(a, item, n)
      PROVE  IInv' \/ (Coherent' /\ stale' = {})
  <2>1. \/ Coherent' /\ stale' \subseteq stale
        \/ /\ n + 1 \in 1..Len(forest.kids[a])
           /\ forest' = Unlink(forest, a, n + 1) /\ type' = type /\ cache' = cache
           /\ stale' = IF cache[a] = NULL THEN stale ELSE stale \cup {a}
    BY <1>0, <1>6, SetItemSound
  <2>2. QED
    BY <2>1, LostItemSound
<1>7. ASSUME NEW a \in Arrays, NEW n \in 0..Cardinality(Node), RemoveItem(a, n)
      PROVE  Coherent' /\ stale' = {}
  <2> DEFINE old == plist_array_get_item(a, n)
  <2>1. a \in Node /\ n \in Nat
    BY <1>0 DEF Arrays
  <2>2. old # NULL /\ remove_at(a, n, old)
    BY <1>7 DEF RemoveItem
  <2>3. n + 1 \in 1..Len(forest.kids[a]) /\ old = forest.kids[a][n + 1]
    BY <2>1, <2>2, GetItem
  <2>4. /\ old \in Node /\ forest.parent[old] = a
        /\ node_child_position(forest, a, old) = n
    <3> DEFINE q == forest.kids[a]
    <3>1. ForestInv(forest) /\ q \in Seq(Node) /\ DOMAIN q = 1..Len(q)
      BY <2>1, LenProperties DEF Coherent, Sound, ForestInv, Forest
    <3>2. /\ node_child_position(forest, a, q[n + 1]) = n + 1 - 1
          /\ q[n + 1] \in Node /\ forest.parent[q[n + 1]] = a
      BY <2>1, <2>3, <3>1, Position
    <3>3. n + 1 - 1 = n
      BY <2>1
    <3>4. QED
      BY <2>3, <3>2, <3>3
  <2> HIDE DEF old
  <2>5. Coherent'
    BY <2>1, <2>2, <2>4, NodeAssumption, FreedSound DEF remove_at
  <2>6. stale' = {}
    BY <2>2 DEF remove_at, FreeNode
  <2>7. QED
    BY <2>5, <2>6
<1>8. ASSUME NEW item \in Live \ Roots, ItemRemove(item) PROVE Coherent' /\ stale' = {}
  <2>1. /\ item \in Node /\ forest.parent[item] \in Node
        /\ remove_at(forest.parent[item],
                     node_child_position(forest, forest.parent[item], item), item)
    BY <1>8 DEF ItemRemove, Live, Arrays
  <2>2. Coherent'
    BY <2>1, NodeAssumption, FreedSound DEF remove_at
  <2>3. stale' = {}
    BY <2>1 DEF remove_at, FreeNode
  <2>4. QED
    BY <2>2, <2>3
<1>9. ASSUME NEW n \in Live, SetValue(n) PROVE Coherent' /\ stale' = {}
  <2>1. /\ Sound(type, forest, cache)
        /\ cache' = [m \in Node |-> IF m \in (Subtree(forest, n) \ {n}) \cup {n} THEN NULL
                                    ELSE cache[m]]
        /\ stale' = {}
    BY <1>9 DEF Coherent, SetValue, caches_without
  <2>2. (Subtree(forest, n) \ {n}) \cup {n} = Subtree(forest, n)
    BY SubtreeCut DEF Coherent, Sound, Live
  <2>3. Sound(type', forest', cache')
    BY <1>9, <2>1, <2>2, SetValueSound
  <2>4. QED
    BY <2>1, <2>3 DEF Coherent
<1>10. ASSUME NEW n \in Live, FreeRoot(n) PROVE Coherent' /\ stale' = {}
  <2>1. n \in Node /\ forest.parent[n] = NULL /\ FreeNode(forest, cache, n)
    BY <1>10 DEF FreeRoot, Roots, Live
  <2>2. QED
    BY <2>1, FreedSound DEF FreeNode
<1>11. ASSUME NEW n \in Live, FreeItem(n) PROVE Coherent' /\ stale' = {}
  <2>1. /\ n \in Node /\ forest.parent[n] # NULL /\ cache[forest.parent[n]] = NULL
        /\ FreeNode(forest, cache, n)
    BY <1>11 DEF FreeItem, Roots, Live
  <2>2. QED
    BY <2>1, FreedSound DEF FreeNode
<1>12. ASSUME NEW n \in Live, NEW k \in Injection(Subtree(forest, n), Fresh), Copy(n, k)
       PROVE  Coherent' /\ stale' = {}
  BY <1>12, CopySound DEF Copy
<1>13. IInv' \/ (Coherent' /\ stale' = {})
  BY <1>2, <1>3, <1>4, <1>5, <1>6, <1>7, <1>8, <1>9, <1>10, <1>11, <1>12 DEF Call
<1>14. QED
  BY <1>13, AllInLine

\* It starts sound and every call keeps it sound.
THEOREM Inductive == (Init => IInv) /\ (IInv /\ [Next]_vars => IInv')
<1>1. ASSUME Init PROVE IInv
  <2>1. /\ Coherent /\ stale = {} /\ short \subseteq Node
        /\ cache = [n \in Node |-> cache[n]]
    BY <1>1, EmptyIsForest, ShortagesAssumption
    DEF Init, Coherent, Sound, EmptyForest
  <2>2. QED
    BY <2>1, NoneStale DEF IInv, Coherent
<1>2. ASSUME IInv, [Next]_vars PROVE IInv'
  <2>1. CASE UNCHANGED vars
    BY <1>2, <2>1 DEF IInv, vars, Kept, Arrays
  <2>2. CASE Next
    <3>1. short' \subseteq Node
      BY <2>2, ShortagesAssumption DEF Next
    <3>2. CASE stale = {}
      <4>1. Coherent /\ Call
        BY <1>2, <2>2, <3>2, NoneStale DEF IInv, Coherent, Next
      <4>2. QED
        BY <3>1, <3>2, <4>1, CallSound
    <3>3. CASE stale # {}
      BY <1>2, <2>2, <3>1, <3>3, EndStaleSound DEF Next
    <3>4. QED
      BY <3>2, <3>3
  <2>3. QED
    BY <1>2, <2>1, <2>2
<1>3. QED
  BY <1>1, <1>2

\* So they are sound after any sequence of calls.
LEMMA Invariance == Spec => []IInv
<1>1. Init => IInv
  BY Inductive
<1>2. IInv /\ [Next]_vars => IInv'
  BY Inductive
<1>3. QED
  BY <1>1, <1>2, PTL DEF Spec

\* The trees of arrays and values stay trees, only arrays have children and only
\* live arrays have caches, whichever calls find no memory.
THEOREM TypeCorrect == Spec => []TypeOK
<1>1. ASSUME IInv PROVE TypeOK
  <2>1. ASSUME NEW n \in Node PROVE forest.kids[n] \in Seq(Node)
    BY <1>1 DEF IInv, Sound, ForestInv, Forest
  <2>2. ASSUME NEW n \in Node, cache[n] # NULL
        PROVE  type[n] = "array" /\ cache[n] \in Seq(Node)
    <3>1. CASE n \in stale
      BY <1>1, <3>1 DEF IInv, Arrays
    <3>2. CASE n \notin stale
      <4>1. Kept[n] = cache[n]
        BY <3>2 DEF Kept
      <4>2. QED
        BY <1>1, <2>1, <2>2, <4>1 DEF IInv, Sound
    <3>3. QED
      BY <3>1, <3>2
  <2>3. QED
    BY <1>1, <2>2 DEF IInv, Sound, ForestInv, TypeOK
<1>2. QED
  BY <1>1, Invariance, PTL

\* The lookup cache is the children list, item by item, after any sequence of
\* calls, for every threshold and every size of array: calls without memory
\* included, the array of a failed roll-back excepted.
THEOREM CacheAlwaysCoherent == Spec => []CacheCoherent
<1>1. ASSUME IInv PROVE CacheCoherent
  <2>1. \A n \in Node \ stale : Kept[n] = cache[n]
    BY DEF Kept
  <2>2. QED
    BY <1>1, <2>1 DEF IInv, Sound, CacheCoherent
<1>2. QED
  BY <1>1, Invariance, PTL

\* plist_array_set_item is all or nothing in every state, however deep the trees are
\* and whatever made the insertion fail, unless there is no memory to put the old item
\* back: then exactly that item leaves the array, and is not freed.
THEOREM SetItemAlwaysAtomic == Spec => SetItemAtomic
<1> DEFINE Holds(a, item, n) ==
              LET items == forest.kids[a]
                  old   == items[n + 1]
              IN  \/ forest'.kids[a] \in {items, ReplaceAt(items, n + 1, item)}
                  \/ /\ old \in short
                     /\ forest'.kids[a] = RemoveAt(items, n + 1)
                     /\ old \in Roots'
<1>1. ASSUME IInv, [Next]_vars, stale = {}, NEW a \in Arrays, NEW item \in Roots,
             NEW n \in 0..Cardinality(Node), SetItem(a, item, n)
      PROVE  Holds(a, item, n)
  <2>1. n \in Nat
    BY NodeAssumption, FS_CardinalityType
  <2>2. Coherent
    BY <1>1, NoneStale DEF IInv, Coherent
  <2>3. IInv'
    BY <1>1, Inductive
  <2> DEFINE i == n + 1
             old == forest.kids[a][i]
  <2>4. CASE forest'.kids[a] \in {forest.kids[a], ReplaceAt(forest.kids[a], n + 1, item)}
    BY <2>4
  <2>5. CASE /\ i \in 1..Len(forest.kids[a]) /\ old \in short
             /\ forest' = Unlink(forest, a, i) /\ type' = type /\ cache' = cache
             /\ stale' = IF cache[a] = NULL THEN stale ELSE stale \cup {a}
    <3>1. /\ ForestInv(forest) /\ a \in Node /\ forest.kids[a] \in Seq(Node)
          /\ DOMAIN forest.kids[a] = 1..Len(forest.kids[a])
          /\ forest.kids \in [Node -> Seq(Node)]
      BY <2>2, LenProperties DEF Coherent, Sound, ForestInv, Forest, Arrays
    <3>2. old \in Node /\ forest.parent[old] = a
      BY <2>5, <3>1, Position
    <3> HIDE DEF old, i
    <3>3. type[old] # "free"
      BY <2>2, <3>1, <3>2, NodeAssumption DEF Coherent, Sound
    <3>4. forest'.parent[old] = NULL
      BY <2>5, <3>1, UnlinkForest DEF old
    <3>5. old \in Roots'
      BY <2>5, <3>2, <3>3, <3>4 DEF Roots, Live
    <3>6. forest'.kids[a] = RemoveAt(forest.kids[a], i)
      BY <2>5, <3>1 DEF Unlink
    <3>7. QED
      BY <2>5, <3>5, <3>6 DEF i, old
  <2>6. QED
    BY <1>1, <2>1, <2>2, <2>4, <2>5, SetItemSound
<1>2. IInv /\ [Next]_vars =>
        [\A a \in Arrays, item \in Roots, n \in 0..Cardinality(Node) :
            stale = {} /\ SetItem(a, item, n) => Holds(a, item, n)]_vars
  BY <1>1
<1>3. QED
  BY <1>2, Invariance, PTL DEF Spec, SetItemAtomic
==============================================================================
