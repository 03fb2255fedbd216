------------------------------ MODULE ForestOps ------------------------------
(***************************************************************************)
(* Ordered forests of nodes and the operations libcnary offers on them     *)
(* (libcnary/node.c), as operators on forest values.                       *)
(*                                                                         *)
(* A forest f is a record of two functions over Node:                      *)
(*   f.kids[n]    the children list of n, in sibling order;                *)
(*   f.parent[n]  the parent pointer of n, or NULL.                        *)
(* A C operation that returns an int is an operator that returns a record  *)
(* [f, ret]: the forest it leaves behind and its return value.             *)
(*                                                                         *)
(* The ancestor chain is walked by loops in C. Here it is a least fixpoint *)
(* (the smallest set that holds the node and is closed under "parent of"), *)
(* so that the module needs no recursion and theorems can be proved of it. *)
(***************************************************************************)
EXTENDS Integers, FiniteSets, Sequences, SequencesExt

CONSTANTS Node,      \* the addresses nodes are allocated at
          NULL,      \* the null pointer
          MaxDepth   \* NODE_MAX_DEPTH

ASSUME NodeAssumption == IsFiniteSet(Node) /\ NULL \notin Node
ASSUME MaxDepthAssumption == MaxDepth \in Nat

\* The error codes of node.h.
NODE_ERR_SUCCESS      == 0
NODE_ERR_INVALID_ARG  == -1
NODE_ERR_NO_MEM       == -2
NODE_ERR_PARENT       == -3
NODE_ERR_CIRCULAR_REF == -4
NODE_ERR_MAX_DEPTH    == -5
NODE_ERR_NOT_FOUND    == -6

Forest == [kids : [Node -> Seq(Node)], parent : [Node -> Node \cup {NULL}]]

EmptyForest == [kids |-> [n \in Node |-> <<>>], parent |-> [n \in Node |-> NULL]]

\* The children of n as a set.
Children(f, n) == {f.kids[n][i] : i \in DOMAIN f.kids[n]}

\* The sets that hold n and are closed under "parent of". Only a parent can be
\* an ancestor, so only parents are considered.
Parents(f) == Node \cap {f.parent[m] : m \in Node}
ClosedAbove(f, n) ==
    {S \in SUBSET (Parents(f) \cup {n}) :
        n \in S /\ \A m \in S : f.parent[m] \in S \/ f.parent[m] = NULL}

\* n and all its ancestors: what "for (p = n; p; p = p->parent)" visits.
Ancestors(f, n) ==
    LET closed == ClosedAbove(f, n) IN
    {m \in Parents(f) \cup {n} : \A S \in closed : m \in S}

\* n and all its descendants.
Subtree(f, n) == {m \in Node : n \in Ancestors(f, m)}

\* The number of parent links above n.
Depth(f, n) == Cardinality(Ancestors(f, n)) - 1

(***************************************************************************)
(* The guards node_attach and node_insert share. (An operator X_slip is X  *)
(* with a plausible programming slip; no specification uses it. It serves  *)
(* to test that the properties notice the slip.)                           *)
(***************************************************************************)
\* Slip: the walk starts one link too high.
would_create_cycle_slip(f, parent, child) == child \in Ancestors(f, parent) \ {parent}

would_create_cycle(f, parent, child) == child \in Ancestors(f, parent)

\* Slip: the depth of the child's own subtree is forgotten.
exceeds_max_depth_slip(f, parent, child) == Depth(f, parent) + 1 > MaxDepth

\* depth(parent) + 1 + max_depth(child's subtree) > NODE_MAX_DEPTH.
\* child is a root here, so the depth of m is its depth below child. (This is
\* the check that has memory for its stack; see refused below.)
exceeds_max_depth(f, parent, child) ==
    LET pd == Depth(f, parent) IN
    \E m \in Subtree(f, child) : pd + 1 + Depth(f, m) > MaxDepth

attach_guard(f, parent, child) ==
    IF NULL \in {parent, child} THEN NODE_ERR_INVALID_ARG
    ELSE IF f.parent[child] # NULL THEN NODE_ERR_PARENT
    ELSE IF would_create_cycle(f, parent, child) THEN NODE_ERR_CIRCULAR_REF
    ELSE IF exceeds_max_depth(f, parent, child) THEN NODE_ERR_MAX_DEPTH
    ELSE NODE_ERR_SUCCESS

\* child becomes the i-th child (counting from 1) of parent.
Link(f, parent, i, child) ==
    [kids   |-> [f.kids EXCEPT ![parent] = InsertAt(@, i, child)],
     parent |-> [f.parent EXCEPT ![child] = parent]]

\* Slips: the child keeps its parent pointer; the last child fills the gap.
Unlink_slip_parent(f, parent, i) ==
    [kids |-> [f.kids EXCEPT ![parent] = RemoveAt(@, i)], parent |-> f.parent]
Unlink_slip_swap(f, parent, i) ==
    [kids   |-> [f.kids EXCEPT ![parent] = RemoveAt(ReplaceAt(@, i, Last(@)), Len(@))],
     parent |-> [f.parent EXCEPT ![f.kids[parent][i]] = NULL]]

\* The i-th child (counting from 1) of parent becomes a root.
Unlink(f, parent, i) ==
    [kids   |-> [f.kids EXCEPT ![parent] = RemoveAt(@, i)],
     parent |-> [f.parent EXCEPT ![f.kids[parent][i]] = NULL]]

(***************************************************************************)
(* The operations. Indices are 0-based, as in C.                           *)
(***************************************************************************)
outcome(f, err, linked) ==
    IF err = NODE_ERR_SUCCESS THEN [f |-> linked, ret |-> err] ELSE [f |-> f, ret |-> err]

node_attach(f, parent, child) ==
    outcome(f, attach_guard(f, parent, child), Link(f, parent, Len(f.kids[parent]) + 1, child))

\* The index is looked at only when the shared guard passes.
checked_index(f, parent, node_index, err) ==
    IF err = NODE_ERR_SUCCESS /\ node_index > Len(f.kids[parent])
      THEN NODE_ERR_INVALID_ARG ELSE err

node_insert(f, parent, node_index, child) ==
    outcome(f, checked_index(f, parent, node_index, attach_guard(f, parent, child)),
            Link(f, parent, node_index + 1, child))

(***************************************************************************)
(* node_subtree_max_depth walks the child's tree with a stack it           *)
(* allocates, for a leaf too. When it gets no memory it answers            *)
(* NODE_MAX_DEPTH + 1, so every attach and insert may be refused, whatever *)
(* the child and wherever it was before. short is the set of the children  *)
(* this happens to. (That there is no memory for the list of a first child *)
(* looks the same to the callers in plist.c: a refusal that changes        *)
(* nothing.)                                                               *)
(***************************************************************************)
\* The depth is looked at after the other checks.
refused(f, parent, child) ==
    LET err == attach_guard(f, parent, child) IN
    [f |-> f, ret |-> IF err = NODE_ERR_SUCCESS THEN NODE_ERR_MAX_DEPTH ELSE err]

try_attach(short, f, parent, child) ==
    IF child \in short THEN refused(f, parent, child) ELSE node_attach(f, parent, child)

try_insert(short, f, parent, node_index, child) ==
    IF child \in short THEN refused(f, parent, child)
    ELSE node_insert(f, parent, node_index, child)

\* Whether a parent that lost all its children still has an (empty) list,
\* and so reports NODE_ERR_PARENT rather than NODE_ERR_NOT_FOUND, is not
\* recorded in a forest: detach_errors allows both.
detach_errors(f, parent, child) ==
    IF NULL \in {parent, child} THEN {NODE_ERR_INVALID_ARG}
    ELSE IF f.parent[child] = parent THEN {}
    ELSE IF f.parent[child] = NULL THEN {NODE_ERR_NOT_FOUND}
    ELSE IF f.kids[parent] = <<>> THEN {NODE_ERR_NOT_FOUND, NODE_ERR_PARENT}
    ELSE {NODE_ERR_PARENT}

\* The index of child in its parent's list; the caller passes a child of parent.
node_child_position(f, parent, child) ==
    (CHOOSE i \in DOMAIN f.kids[parent] : f.kids[parent][i] = child) - 1

\* The successful case of node_detach: child is a child of parent.
node_detach(f, parent, child) ==
    LET i == node_child_position(f, parent, child) IN
    [f |-> Unlink(f, parent, i + 1), ret |-> i]

node_nth_child(f, node, n) ==
    IF n < Len(f.kids[node]) THEN f.kids[node][n + 1] ELSE NULL

\* node_destroy of the root of a tree: every node of the tree is freed.
Release(f, S) ==
    [kids   |-> [n \in Node |-> IF n \in S THEN <<>> ELSE f.kids[n]],
     parent |-> [n \in Node |-> IF n \in S THEN NULL ELSE f.parent[n]]]

\* The tree below r is copied to nodes in no tree; copyOf maps each of its nodes
\* to its copy. With memory the copies attach to one another: their tree is no
\* deeper than the original.
CopyTree(f, r, copyOf) ==
    LET copies == {copyOf[t] : t \in DOMAIN copyOf}
        orig(m) == CHOOSE t \in DOMAIN copyOf : copyOf[t] = m
    IN
    [kids   |-> [m \in Node |->
                   IF m \notin copies THEN f.kids[m]
                   ELSE [i \in DOMAIN f.kids[orig(m)] |-> copyOf[f.kids[orig(m)][i]]]],
     parent |-> [m \in Node |->
                   IF m \notin copies \/ orig(m) = r THEN f.parent[m]
                   ELSE copyOf[f.parent[orig(m)]]]]

(***************************************************************************)
(* What it is to be a forest.                                              *)
(***************************************************************************)
\* The two directions of a link agree and no node is listed twice.
Linked(f) ==
    /\ \A p \in Node, n \in Node : f.parent[n] = p <=> n \in Children(f, p)
    /\ \A p \in Node : \A i, j \in DOMAIN f.kids[p] :
          f.kids[p][i] = f.kids[p][j] => i = j

\* Every nonempty set of nodes has a member whose parent is not in it.
Acyclic(f) == \A S \in SUBSET Node : S # {} => \E n \in S : f.parent[n] \notin S

\* No node is deeper than NODE_MAX_DEPTH.
Shallow(f) == \A n \in Node : Depth(f, n) <= MaxDepth
==============================================================================
