------------------------------ MODULE NodeTree ------------------------------
(***************************************************************************)
(* libcnary as it is written: node_t structures with next, prev and parent *)
(* pointers and a child counter, and per parent a node_list_t with begin,  *)
(* end and count (libcnary/node.c, libcnary/node_list.c). The list         *)
(* operations do their pointer surgery field by field; the tree operations *)
(* guard and compose them.                                                 *)
(*                                                                         *)
(* The spec implements OrderedForest under the mapping at the end, which   *)
(* reads each children list from its begin pointer. (X_slip is X with a    *)
(* plausible slip, to test the properties; no specification uses it.)      *)
(***************************************************************************)
EXTENDS Integers, FiniteSets, Sequences, SequencesExt

CONSTANTS Node, NULL, MaxDepth

ASSUME NodeAssumption == IsFiniteSet(Node) /\ NULL \notin Node
ASSUME MaxDepthAssumption == MaxDepth \in Nat

\* node_list_t; none is at the null pointer.
NodeList == [begin : Node \cup {NULL}, end : Node \cup {NULL}, count : Nat]
ASSUME ListAssumption == NULL \notin NodeList

Op == INSTANCE ForestOps   \* for the error codes and the guards' meaning

VARIABLES alive,     \* the allocated nodes
          next, prev, parent, count,   \* the fields of each node
          children,  \* children[n] is NULL, or the node_list_t of n
          ret

vars == <<alive, next, prev, parent, count, children, ret>>

\* A heap: the fields of all nodes, as one value for the operators below.
Heap == [next |-> next, prev |-> prev, parent |-> parent,
         count |-> count, children |-> children]

EmptyList == [begin |-> NULL, end |-> NULL, count |-> 0]
NullFields == [n \in Node |-> NULL]

Init ==
    /\ alive = {}
    /\ next = NullFields /\ prev = NullFields /\ parent = NullFields
    /\ count = [n \in Node |-> 0]
    /\ children = NullFields
    /\ ret = NULL

-----------------------------------------------------------------------------
(***************************************************************************)
(* Walks. Each is a loop of the C code, unrolled to at most one step per   *)
(* node: step k is the node after k pointer dereferences, or NULL.         *)
(***************************************************************************)
Follow(field, start) ==
    LET at[k \in 0..Cardinality(Node)] ==
            IF k = 0 THEN start
            ELSE IF at[k - 1] = NULL THEN NULL ELSE field[at[k - 1]]
    IN  at

\* The nodes a walk visits, in order.
Walk(field, start) ==
    LET at == Follow(field, start)
        len == Cardinality({k \in DOMAIN at : at[k] # NULL})
    IN  [k \in 1..len |-> at[k - 1]]

\* for (ch = node_first_child(n); ch; ch = node_next_sibling(ch))
ChildSeq(h, n) ==
    IF h.children[n] = NULL THEN <<>> ELSE Walk(h.next, h.children[n].begin)

Chain(h, n) == Walk(h.parent, n)

node_depth_from_root(h, n) == Len(Chain(h, n)) - 1

\* The nodes k levels below root, as the explicit stack of
\* node_subtree_max_depth meets them.
Level(h, root) ==
    LET at[k \in 0..Cardinality(Node)] ==
            IF k = 0 THEN {root} ELSE UNION {ToSet(ChildSeq(h, n)) : n \in at[k - 1]}
    IN  at

Below(h, root) == UNION {Level(h, root)[k] : k \in 0..Cardinality(Node)}

\* With memory for that stack: without, see NoMemory.
node_subtree_max_depth(h, root) ==
    Cardinality({k \in 0..Cardinality(Node) : Level(h, root)[k] # {}}) - 1

would_create_cycle(h, p, c) == c \in ToSet(Chain(h, p))

-----------------------------------------------------------------------------
(***************************************************************************)
(* node_list.c. p's list is not NULL. The order of the assignments matters *)
(* only where one reads what an earlier one wrote; each record below is    *)
(* the heap after all of them.                                             *)
(***************************************************************************)
node_list_add(h, p, n) ==
    LET last == h.children[p].end IN
    [h EXCEPT !.next = [m \in Node |-> IF m = n THEN NULL
                                       ELSE IF m = last THEN n ELSE h.next[m]],
              !.prev[n] = last,
              !.children[p] = [begin |-> IF last = NULL THEN n ELSE @.begin,
                               end   |-> n,
                               count |-> @.count + 1]]

\* Slip: the node before the new one keeps its next pointer.
list_insert_before_slip(h, p, node_index, n) ==
    LET at == Follow(h.next, h.children[p].begin) IN
    [h EXCEPT !.next[n] = at[node_index],
              !.prev = [m \in Node |-> IF m = at[node_index] THEN n ELSE h.prev[m]],
              !.children[p].begin = IF node_index = 0 THEN n ELSE @,
              !.children[p].count = @ + 1]

\* node_index < list->count: insert before the node at that position.
list_insert_before(h, p, node_index, n) ==
    LET at   == Follow(h.next, h.children[p].begin)
        cur  == at[node_index]
        before == IF node_index = 0 THEN NULL ELSE at[node_index - 1]
    IN
    [h EXCEPT !.next = [m \in Node |-> IF m = n THEN cur
                                       ELSE IF m = before THEN n ELSE h.next[m]],
              !.prev = [m \in Node |-> IF m = n THEN before
                                       ELSE IF m = cur THEN n ELSE h.prev[m]],
              !.children[p] = [begin |-> IF before = NULL THEN n ELSE @.begin,
                               end   |-> IF cur = NULL THEN n ELSE @.end,
                               count |-> @.count + 1]]

\* Slip: the index one past the last child is refused.
node_list_insert_slip(h, p, node_index, n) ==
    IF node_index >= h.children[p].count
      THEN [h |-> h, ret |-> Op!NODE_ERR_INVALID_ARG]
    ELSE [h |-> list_insert_before(h, p, node_index, n), ret |-> Op!NODE_ERR_SUCCESS]

node_list_insert(h, p, node_index, n) ==
    IF node_index > h.children[p].count
      THEN [h |-> h, ret |-> Op!NODE_ERR_INVALID_ARG]
    ELSE IF node_index = h.children[p].count
      THEN [h |-> node_list_add(h, p, n), ret |-> Op!NODE_ERR_SUCCESS]
    ELSE [h |-> list_insert_before(h, p, node_index, n), ret |-> Op!NODE_ERR_SUCCESS]

\* Slip: the node after n still points back at n.
list_unlink_slip(h, p, n) ==
    [h EXCEPT !.next = [m \in Node |-> IF m = n THEN NULL
                                       ELSE IF m = h.prev[n] THEN h.next[n] ELSE h.next[m]],
              !.prev[n] = NULL,
              !.children[p] = [begin |-> IF h.prev[n] = NULL THEN h.next[n] ELSE @.begin,
                               end   |-> IF h.next[n] = NULL THEN h.prev[n] ELSE @.end,
                               count |-> @.count - 1]]

\* Unlinks n, a member of p's list.
list_unlink(h, p, n) ==
    [h EXCEPT !.next = [m \in Node |-> IF m = n THEN NULL
                                       ELSE IF m = h.prev[n] THEN h.next[n] ELSE h.next[m]],
              !.prev = [m \in Node |-> IF m = n THEN NULL
                                       ELSE IF m = h.next[n] THEN h.prev[n] ELSE h.prev[m]],
              !.children[p] = [begin |-> IF h.prev[n] = NULL THEN h.next[n] ELSE @.begin,
                               end   |-> IF h.next[n] = NULL THEN h.prev[n] ELSE @.end,
                               count |-> @.count - 1]]

node_list_remove(h, p, n) ==
    IF h.children[p].count = 0 \/ n \notin ToSet(ChildSeq(h, p))
      THEN [h |-> h, ret |-> Op!NODE_ERR_NOT_FOUND]
    ELSE [h |-> list_unlink(h, p, n),
          ret |-> (CHOOSE i \in DOMAIN ChildSeq(h, p) : ChildSeq(h, p)[i] = n) - 1]

-----------------------------------------------------------------------------
(***************************************************************************)
(* node.c                                                                  *)
(***************************************************************************)
attach_guard(h, p, c) ==
    IF NULL \in {p, c} THEN Op!NODE_ERR_INVALID_ARG
    ELSE IF h.parent[c] # NULL THEN Op!NODE_ERR_PARENT
    ELSE IF p = c \/ would_create_cycle(h, p, c) THEN Op!NODE_ERR_CIRCULAR_REF
    ELSE IF node_depth_from_root(h, p) + 1 + node_subtree_max_depth(h, c) > MaxDepth
      THEN Op!NODE_ERR_MAX_DEPTH
    ELSE Op!NODE_ERR_SUCCESS

\* if (!parent->children) parent->children = node_list_create();
with_list(h, p) ==
    IF h.children[p] = NULL THEN [h EXCEPT !.children[p] = EmptyList] ELSE h

\* Slip: the parent's counter grows also when the list refused the child.
adopt_slip(r, p, c) ==
    [h |-> [r.h EXCEPT !.parent[c] = IF r.ret = Op!NODE_ERR_SUCCESS THEN p ELSE @,
                       !.count[p] = @ + 1],
     ret |-> r.ret]

\* On success the list operation is followed by the child's parent pointer
\* and the parent's counter.
adopt(r, p, c) ==
    IF r.ret # Op!NODE_ERR_SUCCESS THEN r
    ELSE [h |-> [r.h EXCEPT !.parent[c] = p, !.count[p] = @ + 1], ret |-> r.ret]

node_attach(h, p, c) ==
    LET err == attach_guard(h, p, c) IN
    IF err # Op!NODE_ERR_SUCCESS THEN [h |-> h, ret |-> err]
    ELSE adopt([h |-> node_list_add(with_list(h, p), p, c),
                ret |-> Op!NODE_ERR_SUCCESS], p, c)

node_insert(h, p, node_index, c) ==
    LET err == attach_guard(h, p, c) IN
    IF err # Op!NODE_ERR_SUCCESS THEN [h |-> h, ret |-> err]
    ELSE adopt(node_list_insert(with_list(h, p), p, node_index, c), p, c)

detach_guard(h, p, c) ==
    IF NULL \in {p, c} THEN Op!NODE_ERR_INVALID_ARG
    ELSE IF h.children[p] = NULL THEN Op!NODE_ERR_NOT_FOUND
    ELSE IF h.parent[c] \notin {NULL, p} THEN Op!NODE_ERR_PARENT
    ELSE Op!NODE_ERR_SUCCESS

\* After the list removal: if (parent->count > 0) parent->count--; the child
\* forgets its parent and siblings.
disown(r, p, c) ==
    IF r.ret < 0 THEN r
    ELSE [h |-> [r.h EXCEPT !.count[p] = IF @ > 0 THEN @ - 1 ELSE @,
                            !.parent[c] = NULL, !.prev[c] = NULL, !.next[c] = NULL],
          ret |-> r.ret]

node_detach(h, p, c) ==
    LET err == detach_guard(h, p, c) IN
    IF err # Op!NODE_ERR_SUCCESS THEN [h |-> h, ret |-> err]
    ELSE disown(node_list_remove(h, p, c), p, c)

\* The memory of the nodes in S goes back to calloc, which hands it out zeroed.
release(h, S) ==
    LET clear(field, zero) == [n \in Node |-> IF n \in S THEN zero ELSE field[n]] IN
    [next |-> clear(h.next, NULL), prev |-> clear(h.prev, NULL),
     parent |-> clear(h.parent, NULL), count |-> clear(h.count, 0),
     children |-> clear(h.children, NULL)]

-----------------------------------------------------------------------------
(***************************************************************************)
(* Actions: one per call.                                                  *)
(***************************************************************************)
SetHeap(h) ==
    /\ next' = h.next /\ prev' = h.prev /\ parent' = h.parent
    /\ count' = h.count /\ children' = h.children

CreateRoot(n) ==
    /\ alive' = alive \cup {n}
    /\ ret' = n
    /\ SetHeap(Heap)

CreateUnder(p, n) ==
    LET r == node_attach(Heap, p, n) IN
    IF r.ret < 0
      THEN alive' = alive /\ ret' = NULL /\ SetHeap(release(r.h, {n}))
      ELSE alive' = alive \cup {n} /\ ret' = n /\ SetHeap(r.h)

Attach(p, c) ==
    LET r == node_attach(Heap, p, c) IN
    alive' = alive /\ ret' = r.ret /\ SetHeap(r.h)

Insert(p, node_index, c) ==
    LET r == node_insert(Heap, p, node_index, c) IN
    alive' = alive /\ ret' = r.ret /\ SetHeap(r.h)

\* No memory for the stack of node_subtree_max_depth, which then answers
\* NODE_MAX_DEPTH + 1, or for the list of a first child.
NoMemory(p, c) ==
    /\ attach_guard(Heap, p, c) = Op!NODE_ERR_SUCCESS
    /\ \/ ret' = Op!NODE_ERR_MAX_DEPTH
       \/ children[p] = NULL /\ ret' = Op!NODE_ERR_NO_MEM
    /\ alive' = alive /\ SetHeap(Heap)

\* node_create or node_copy_deep, when a node cannot be allocated or cannot be
\* attached for lack of memory.
CreateFails ==
    alive' = alive /\ ret' = NULL /\ SetHeap(Heap)

Detach(p, c) ==
    LET r == node_detach(Heap, p, c) IN
    alive' = alive /\ ret' = r.ret /\ SetHeap(r.h)

\* Recursively removes and destroys the children. The caller passes a root.
Destroy(root) ==
    /\ parent[root] = NULL
    /\ alive' = alive \ Below(Heap, root)
    /\ ret' = NULL
    /\ SetHeap(release(Heap, Below(Heap, root)))

\* The copies of n's children are attached to n's copy one after the other.
copy_children(h, copyOf, n) ==
    LET kids == ChildSeq(h, n)
        after[i \in 0..Len(kids)] ==
            IF i = 0 THEN h ELSE node_attach(after[i - 1], copyOf[n], copyOf[kids[i]]).h
    IN  after[Len(kids)]

\* The orders of the nodes of a tree in which each comes after its children.
BottomUp(h, S) ==
    {order \in [1..Cardinality(S) -> S] :
        /\ \A n \in S : \E i \in DOMAIN order : order[i] = n
        /\ \A i, j \in DOMAIN order : h.parent[order[i]] = order[j] => i < j}

\* node_copy_deep, with copyOf the calloc'ed node for each node of the tree. A
\* child's subtree is complete before the child is attached.
CopyDeep(root, copyOf, order) ==
    LET after[i \in 0..Len(order)] ==
            IF i = 0 THEN Heap ELSE copy_children(after[i - 1], copyOf, order[i])
    IN
    /\ alive' = alive \cup {copyOf[n] : n \in Below(Heap, root)}
    /\ ret' = copyOf[root]
    /\ SetHeap(after[Len(order)])

Arg == alive \cup {NULL}
Fresh == Node \ alive

Next ==
    \/ \E n \in Fresh : CreateRoot(n)
    \/ \E p \in alive, n \in Fresh : CreateUnder(p, n)
    \/ \E p, c \in Arg : Attach(p, c)
    \/ \E p, c \in Arg, i \in 0..Cardinality(Node) : Insert(p, i, c)
    \/ \E p, c \in alive : NoMemory(p, c)
    \/ CreateFails
    \/ \E p, c \in Arg : Detach(p, c)
    \/ \E r \in alive : Destroy(r)
    \/ \E n \in alive : \E copyOf \in Injection(Below(Heap, n), Fresh) :
          \E order \in BottomUp(Heap, Below(Heap, n)) : CopyDeep(n, copyOf, order)

Spec == Init /\ [][Next]_vars

-----------------------------------------------------------------------------
(***************************************************************************)
(* Properties                                                              *)
(***************************************************************************)

\* The pointer surgery of add, insert and remove leaves every list doubly
\* linked: begin and end are its two ends, prev undoes next, and a node that is
\* in no list points at no sibling.
DoublyLinked ==
    /\ \A n \in Node : children[n] # NULL =>
          LET s == ChildSeq(Heap, n) IN
          /\ children[n].end = (IF s = <<>> THEN NULL ELSE Last(s))
          /\ \A i \in DOMAIN s : prev[s[i]] = (IF i = 1 THEN NULL ELSE s[i - 1])
    /\ \A n \in Node : parent[n] = NULL => next[n] = NULL /\ prev[n] = NULL

\* The two counters kept for a node, its own count (node_n_children) and its
\* list's, never drift from each other or from the number of children a walk meets.
CountsAgree ==
    \A n \in Node :
        /\ count[n] = Len(ChildSeq(Heap, n))
        /\ children[n] # NULL => children[n].count = count[n]

\* The forest a heap stands for.
ForestOf(h) == [kids |-> [n \in Node |-> ChildSeq(h, n)], parent |-> h.parent]

\* r, what a call returns, and the heap it leaves, are what a says.
Matches(r, a) == r.ret = a.ret /\ ForestOf(r.h) = a.f

\* In every state each call that does not run out of memory, whatever its arguments,
\* has the effect on the forest and the return value that the ordered forest gives
\* it: the right child at the right index, and a failing call changes nothing.
CallsMatch ==
    LET f == ForestOf(Heap) IN
    \A p, c \in Arg :
        /\ Matches(node_attach(Heap, p, c), Op!node_attach(f, p, c))
        /\ \A i \in 0..Cardinality(Node) :
              Matches(node_insert(Heap, p, i, c), Op!node_insert(f, p, i, c))
        /\ LET r == node_detach(Heap, p, c) IN
              IF r.ret < 0 THEN r.ret \in Op!detach_errors(f, p, c) /\ ForestOf(r.h) = f
              ELSE Op!detach_errors(f, p, c) = {} /\ Matches(r, Op!node_detach(f, p, c))

\* Every step is a step OrderedForest allows: creating, destroying and copying
\* trees of nodes included.
Abstract == INSTANCE OrderedForest WITH forest <- ForestOf(Heap)
ImplementsForest == Abstract!Spec
==============================================================================
