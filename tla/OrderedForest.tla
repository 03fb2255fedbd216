---------------------------- MODULE OrderedForest ----------------------------
(***************************************************************************)
(* What libcnary promises: nodes are created, attached under a parent at   *)
(* the end or at an index, detached, copied and destroyed, and whatever    *)
(* the order of the calls the nodes form an ordered forest of bounded      *)
(* depth. Calls that fail leave the forest as it was.                      *)
(*                                                                         *)
(* Each action is one call. A call may be made with any live node, with    *)
(* one exception, the rule every caller in src/plist.c and src/bplist.c    *)
(* follows: node_destroy is called on a root.                              *)
(***************************************************************************)
EXTENDS ForestOps

VARIABLES alive,   \* the allocated nodes
          forest,  \* their children lists and parent pointers
          ret      \* the result of the last call: an int, a node, or NULL

vars == <<alive, forest, ret>>

Fresh == Node \ alive
Arg == alive \cup {NULL}   \* what a caller may pass as a node_t

Init ==
    /\ alive = {}
    /\ forest = EmptyForest
    /\ ret = NULL

CreateRoot(n) ==
    /\ alive' = alive \cup {n}
    /\ ret' = n
    /\ UNCHANGED forest

\* node_create(parent, data): when the attach fails the node is destroyed.
CreateUnder(parent, n) ==
    LET r == node_attach(forest, parent, n) IN
    /\ forest' = r.f
    /\ IF r.ret = NODE_ERR_SUCCESS
         THEN alive' = alive \cup {n} /\ ret' = n
         ELSE alive' = alive /\ ret' = NULL

Attach(parent, child) ==
    LET r == node_attach(forest, parent, child) IN
    /\ forest' = r.f
    /\ ret' = r.ret
    /\ UNCHANGED alive

Insert(parent, node_index, child) ==
    LET r == node_insert(forest, parent, node_index, child) IN
    /\ forest' = r.f
    /\ ret' = r.ret
    /\ UNCHANGED alive

\* node_attach or node_insert of a child that every other check lets pass, when
\* there is no memory for the stack of the depth check, which then refuses the
\* child, or for the list of a first child.
NoMemory(parent, child) ==
    /\ attach_guard(forest, parent, child) = NODE_ERR_SUCCESS
    /\ \/ ret' = NODE_ERR_MAX_DEPTH
       \/ forest.kids[parent] = <<>> /\ ret' = NODE_ERR_NO_MEM
    /\ UNCHANGED <<alive, forest>>

\* node_create or node_copy_deep when a node cannot be allocated, or cannot be
\* attached for lack of memory: what was made so far is destroyed.
CreateFails ==
    /\ ret' = NULL
    /\ UNCHANGED <<alive, forest>>

Detach(parent, child) ==
    LET r == node_detach(forest, parent, child) IN
    /\ detach_errors(forest, parent, child) = {}
    /\ forest' = r.f
    /\ ret' = r.ret
    /\ UNCHANGED alive

DetachFails(parent, child) ==
    /\ ret' \in detach_errors(forest, parent, child)
    /\ UNCHANGED <<alive, forest>>

Destroy(root) ==
    /\ forest.parent[root] = NULL
    /\ alive' = alive \ Subtree(forest, root)
    /\ forest' = Release(forest, Subtree(forest, root))
    /\ ret' = NULL

\* node_copy_deep: copyOf maps every node of the subtree to its copy.
CopyDeep(node, copyOf) ==
    /\ alive' = alive \cup {copyOf[t] : t \in DOMAIN copyOf}
    /\ forest' = CopyTree(forest, node, copyOf)
    /\ ret' = copyOf[node]

Next ==
    \/ \E n \in Fresh : CreateRoot(n)
    \/ \E p \in alive, n \in Fresh : CreateUnder(p, n)
    \/ \E p, c \in Arg : Attach(p, c)
    \/ \E p, c \in Arg, i \in 0..Cardinality(Node) : Insert(p, i, c)
    \/ \E p, c \in alive : NoMemory(p, c)
    \/ CreateFails
    \/ \E p, c \in alive : Detach(p, c)
    \/ \E p, c \in Arg : DetachFails(p, c)
    \/ \E r \in alive : Destroy(r)
    \/ \E n \in alive : \E copyOf \in Injection(Subtree(forest, n), Fresh) :
           CopyDeep(n, copyOf)

Spec == Init /\ [][Next]_vars

-----------------------------------------------------------------------------
(***************************************************************************)
(* Properties                                                              *)
(***************************************************************************)

\* Parent pointers and children lists describe the same tree after any
\* sequence of attaches, inserts, detaches and frees: a node is in exactly the
\* list of the node its parent pointer names, once.
LinksAgree == Linked(forest)

\* The state has the shape of the C structures: addresses are nodes, the links
\* in both directions agree (LinksAgree), and freed nodes hold none.
TypeOK ==
    /\ alive \subseteq Node
    /\ forest \in Forest
    /\ ret \in Int \cup Node \cup {NULL}
    /\ \A n \in Fresh : forest.kids[n] = <<>> /\ forest.parent[n] = NULL
    /\ LinksAgree

\* No sequence of attaches makes a node its own ancestor, so the loops that
\* climb parent pointers (node_depth_from_root, would_create_cycle) end.
NoCycles == Acyclic(forest)

\* No sequence of attaches of trees under trees makes a node deeper than
\* NODE_MAX_DEPTH, the bound the recursive walks of libplist rely on.
DepthBounded == Shallow(forest)

\* A call moves only the node it was asked to move: whatever one step does,
\* any two siblings that are still siblings afterwards keep their order.
SiblingOrderKept ==
    [][\A p \in Node : \A a, b \in Children(forest, p) \cap Children(forest', p) :
          node_child_position(forest, p, a) < node_child_position(forest, p, b)
            => node_child_position(forest', p, a) < node_child_position(forest', p, b)]_vars
==============================================================================
