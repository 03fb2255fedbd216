---------------------------- MODULE BplistReader ----------------------------
(***************************************************************************)
(* The binary plist reader (plist_from_bin and below, src/bplist.c).       *)
(*                                                                         *)
(* A file is a table of objects that refer to one another by index, and    *)
(* may be any graph: shared objects, cycles, indices out of range, objects *)
(* that are no objects. parse_bin_node_at_index calls itself through       *)
(* parse_dict_node and parse_array_node; here the C stack is the variable  *)
(* stack, with a frame per container being filled, and each call, loop     *)
(* iteration and return is a step. What is parsed is a tree: an object     *)
(* referred to twice is parsed twice.                                      *)
(*                                                                         *)
(* Of a file's bytes the model keeps what each object decodes to:          *)
(*   type "nowhere"  its offset points outside of the object area;         *)
(*   type "bad"      parse_bin_node refuses it (unknown marker, bytes past *)
(*                   the end, a size the type does not allow);             *)
(*   the others      a leaf with its value, or a container with its refs:  *)
(*                   for a dict first all keys, then all values.           *)
(* A ref outside of the valid range is a ref >= the number of objects: the *)
(* code treats both alike.                                                 *)
(***************************************************************************)
EXTENDS Integers, FiniteSets, Sequences, SequencesExt

CONSTANTS Files,        \* the files that are read
          MaxNesting    \* PLIST_MAX_NESTING_DEPTH, which is NODE_MAX_DEPTH

ASSUME NestingAssumption == MaxNesting \in Nat

\* Refs and the index of the root are unsigned numbers, of whatever size. Only
\* containers have refs, a dict as many of values as of keys.
IsFile(f) ==
    /\ f.root \in Nat /\ Len(f.objects) \in Nat
    /\ \A i \in 1..Len(f.objects) :
          LET o == f.objects[i] IN
          /\ o.refs \in Seq(Nat)
          /\ o.type \notin {"array", "dict"} => o.refs = <<>>
          /\ o.type = "dict" => Len(o.refs) % 2 = 0

ASSUME FilesAssumption == \A f \in Files : IsFile(f)

VARIABLES file,       \* [objects, root]
          pc,         \* "start", "enter" an object, "loop" in a container,
                      \* "return" from an object, "done"
          arg,        \* the index parse_bin_node_at_index is called with
          res,        \* the tree that returns, or NULL
          stack,      \* the containers being filled, outermost first
          used,       \* used_indexes: the index entered at each level
          err,        \* bplist->err
          allocated,  \* the number of tree nodes allocated and not freed
          oom         \* what failed for lack of memory: a "node", an "attach"

vars == <<file, pc, arg, res, stack, used, err, allocated, oom>>

PLIST_ERR_SUCCESS      == 0
PLIST_ERR_PARSE        == -3
PLIST_ERR_CIRCULAR_REF == -6
PLIST_ERR_MAX_NESTING  == -7

-----------------------------------------------------------------------------
(***************************************************************************)
(* Trees. height and size are what node_subtree_max_depth and a count of   *)
(* the nodes would find.                                                   *)
(***************************************************************************)
\* What stands for no tree has no nodes.
NULL == [size |-> 0]

Leaf(type, value) == [type |-> type, value |-> value, kids |-> <<>>, height |-> 0, size |-> 1]

Higher(a, b) == IF a > b THEN a ELSE b

AsKey(node) == [node EXCEPT !.type = "key"]

Adopt(node, child) ==
    [node EXCEPT !.kids = Append(@, child),
                 !.height = Higher(@, child.height + 1),
                 !.size = @ + child.size]

\* Slip: a height is counted in nodes, not in links.
node_attach_slip(node, child) ==
    IF child.height + 2 > MaxNesting THEN node ELSE Adopt(node, child)

\* node_attach to a container that is still a root. The reader does not look at
\* the result: a child that is refused is neither in the tree nor freed.
node_attach(node, child) ==
    IF child.height + 1 > MaxNesting THEN node ELSE Adopt(node, child)

\* node_attach when it lacks memory (failed) and when it does not. Any child may be
\* the one: each needs the stack that node_subtree_max_depth allocates, and the
\* first child of a node the list of children too.
AttachOrNot(node, child, failed) == IF failed THEN node ELSE node_attach(node, child)

-----------------------------------------------------------------------------
(***************************************************************************)
(* Objects                                                                 *)
(***************************************************************************)
NumObjects(f) == Len(f.objects)
Object(f, i)  == f.objects[i + 1]
IsContainer(o) == o.type \in {"array", "dict"}

\* The number of loop iterations for a container.
Count(o) == IF o.type = "dict" THEN Len(o.refs) \div 2 ELSE Len(o.refs)

\* The refs the j-th iteration (from 0) reads.
RefsAt(o, j) ==
    IF o.type = "dict" THEN <<o.refs[j + 1], o.refs[j + 1 + Count(o)]>> ELSE <<o.refs[j + 1]>>

level == Len(stack)
top == Last(stack)
topObject == Object(file, top.index)

\* Slip: the entry of an earlier sibling stays.
Marked_slip(index) == used \o [i \in 1..(level + 1 - Len(used)) |-> index]

\* used_indexes with index at the current level: as far as it has grown it keeps
\* what earlier siblings left there.
Marked(index) ==
    IF Len(used) < level + 1
      THEN used \o [i \in 1..(level + 1 - Len(used)) |-> index]
      ELSE [used EXCEPT ![level + 1] = index]

\* Slip: the entries of deeper levels, left by earlier siblings, are looked at too.
recursion_detected_slip_all(u) == \E i \in DOMAIN u \ {level + 1} : u[i] = u[level + 1]

recursion_detected(u) == \E i \in 1..level : u[i] = u[level + 1]

too_deep(l) == l > MaxNesting

\* Slip: one iteration too many.
loop_over_slip(j, o) == j > Count(o)

loop_over(j, o) == j = Count(o)

-----------------------------------------------------------------------------
(***************************************************************************)
(* Steps                                                                   *)
(***************************************************************************)
Idle ==
    /\ pc = "start" /\ arg = 0 /\ res = NULL /\ stack = <<>> /\ used = <<>>
    /\ err = PLIST_ERR_SUCCESS /\ allocated = 0 /\ oom = {}

Init == file \in Files /\ Idle

\* plist_from_bin: the trailer names no object as the root.
StartRefused ==
    /\ pc = "start"
    /\ file.root >= NumObjects(file)
    /\ pc' = "done" /\ err' = PLIST_ERR_PARSE
    /\ UNCHANGED <<file, arg, res, stack, used, allocated, oom>>

\* plist_from_bin calls parse_bin_node_at_index with the root.
Start ==
    /\ pc = "start"
    /\ file.root < NumObjects(file)
    /\ pc' = "enter" /\ arg' = file.root
    /\ UNCHANGED <<file, res, stack, used, err, allocated, oom>>

\* parse_bin_node_at_index and parse_bin_node return NULL.
Refuse(code) ==
    /\ pc' = "return" /\ res' = NULL /\ err' = code
    /\ UNCHANGED <<file, arg, stack, allocated>>

\* parse_bin_node_at_index up to the call of parse_bin_node refuses the object.
EnterRefused ==
    /\ pc = "enter"
    /\ \/ /\ Object(file, arg).type = "nowhere"
          /\ Refuse(PLIST_ERR_PARSE)
          /\ UNCHANGED used
       \/ /\ Object(file, arg).type # "nowhere"
          /\ too_deep(level)
          /\ Refuse(PLIST_ERR_MAX_NESTING)
          /\ UNCHANGED used
       \/ /\ Object(file, arg).type # "nowhere"
          /\ ~too_deep(level)
          /\ used' = Marked(arg)
          /\ recursion_detected(used')
          /\ Refuse(PLIST_ERR_CIRCULAR_REF)
    /\ UNCHANGED oom

\* The guards of parse_bin_node_at_index pass.
Entered ==
    /\ pc = "enter"
    /\ Object(file, arg).type # "nowhere"
    /\ ~too_deep(level)
    /\ used' = Marked(arg)
    /\ ~recursion_detected(used')

\* parse_bin_node finds no object here, or memory runs out: bplist->err stays.
\* (A date does not end here for lack of memory: parse_date_node uses what
\* parse_real_node returns without looking whether there is a node, and what
\* follows then is undefined.)
EnterFails ==
    /\ Entered
    /\ \/ Object(file, arg).type = "bad" /\ UNCHANGED oom
       \/ Object(file, arg).type \notin {"bad", "date"} /\ oom' = oom \cup {"node"}
    /\ Refuse(err)

EnterLeaf ==
    /\ Entered
    /\ Object(file, arg).type # "bad" /\ ~IsContainer(Object(file, arg))
    /\ pc' = "return"
    /\ res' = Leaf(Object(file, arg).type, Object(file, arg).value)
    /\ allocated' = allocated + 1
    /\ UNCHANGED <<file, arg, stack, err, oom>>

\* parse_dict_node and parse_array_node create their node.
EnterContainer ==
    /\ Entered
    /\ IsContainer(Object(file, arg))
    /\ pc' = "loop"
    /\ stack' = Append(stack, [index |-> arg, j |-> 0, key |-> NULL,
                               node |-> Leaf(Object(file, arg).type, 0)])
    /\ allocated' = allocated + 1
    /\ UNCHANGED <<file, arg, res, err, oom>>

\* The loop is over: the container returns.
Complete ==
    /\ pc = "loop"
    /\ loop_over(top.j, topObject)
    /\ pc' = "return" /\ res' = top.node /\ stack' = Front(stack)
    /\ UNCHANGED <<file, arg, used, err, allocated, oom>>

\* plist_free(node); return NULL, after gone other nodes were freed.
Abandon(gone) ==
    /\ pc' = "return" /\ res' = NULL /\ stack' = Front(stack)
    /\ allocated' = allocated - top.node.size - gone
    /\ UNCHANGED <<file, arg, used, err, oom>>

\* The refs of an iteration, a dict's key and value both, are checked before
\* the first of them is followed.
BadRef ==
    /\ pc = "loop"
    /\ top.j < Count(topObject)
    /\ \E i \in DOMAIN RefsAt(topObject, top.j) :
          RefsAt(topObject, top.j)[i] >= NumObjects(file)
    /\ Abandon(0)

FollowRef ==
    /\ pc = "loop"
    /\ top.j < Count(topObject)
    /\ \A i \in DOMAIN RefsAt(topObject, top.j) :
          RefsAt(topObject, top.j)[i] < NumObjects(file)
    /\ pc' = "enter" /\ arg' = RefsAt(topObject, top.j)[1]
    /\ UNCHANGED <<file, res, stack, used, err, allocated, oom>>

\* The next iteration, with what this one made of the container.
Continue(node, failed) ==
    /\ pc' = "loop"
    /\ stack' = Append(Front(stack), [top EXCEPT !.j = @ + 1, !.key = NULL, !.node = node])
    /\ oom' = IF failed THEN oom \cup {"attach"} ELSE oom
    /\ UNCHANGED <<file, arg, res, used, err, allocated>>

Returned(type) == pc = "return" /\ stack # <<>> /\ topObject.type = type

ItemReturns ==
    /\ Returned("array")
    /\ \/ res = NULL /\ Abandon(0)
       \/ \E failed \in BOOLEAN :
             /\ res # NULL
             /\ Continue(AttachOrNot(top.node, res, failed), failed)

\* A key must be a string; it becomes a key node.
KeyReturns ==
    /\ Returned("dict")
    /\ top.key = NULL
    /\ \/ res = NULL /\ Abandon(0)
       \/ res # NULL /\ res.type # "string" /\ Abandon(res.size)
       \/ /\ res # NULL /\ res.type = "string"
          /\ pc' = "enter"
          /\ arg' = RefsAt(topObject, top.j)[2]
          /\ stack' = Append(Front(stack), [top EXCEPT !.key = AsKey(res)])
          /\ UNCHANGED <<file, res, used, err, allocated, oom>>

\* Slip: the key is forgotten when there is no value for it.
freed_with_dict_slip(frame) == 0

\* What is freed besides the dict when there is no value for its key.
freed_with_dict(frame) == frame.key.size

ValueReturns ==
    /\ Returned("dict")
    /\ top.key # NULL
    /\ \/ res = NULL /\ Abandon(freed_with_dict(top))
       \/ \E keyFailed, failed \in BOOLEAN :
             LET withKey == AttachOrNot(top.node, top.key, keyFailed) IN
             /\ res # NULL
             /\ Continue(AttachOrNot(withKey, res, failed), keyFailed \/ failed)

\* plist_from_bin returns. An error nobody named is a parse error.
Finish ==
    /\ pc = "return" /\ stack = <<>>
    /\ pc' = "done"
    /\ err' = IF res = NULL /\ err = PLIST_ERR_SUCCESS THEN PLIST_ERR_PARSE ELSE err
    /\ UNCHANGED <<file, arg, res, stack, used, allocated, oom>>

Next ==
    \/ StartRefused \/ Start \/ EnterRefused \/ EnterFails \/ EnterLeaf \/ EnterContainer
    \/ Complete \/ BadRef \/ FollowRef
    \/ ItemReturns \/ KeyReturns \/ ValueReturns \/ Finish

\* The reader runs in the caller's thread and waits for nothing: it takes a step
\* whenever it can.
Spec == Init /\ [][Next]_vars /\ WF_vars(Next)

-----------------------------------------------------------------------------
(***************************************************************************)
(* What a file means, without reading it step by step                      *)
(***************************************************************************)
Indices(f) == 0..(NumObjects(f) - 1)
Next_to(f, i) == {r \in Indices(f) : r \in ToSet(Object(f, i).refs)}

\* The objects at the end of a path of k refs from the root.
AtLevel(f) ==
    LET at[k \in 0..(MaxNesting + 1)] ==
            IF k = 0 THEN {f.root} ELSE UNION {Next_to(f, i) : i \in at[k - 1]}
    IN  at

TooNested(f) == AtLevel(f)[MaxNesting + 1] # {}

Sound(f, i) ==
    LET o == Object(f, i) IN
    /\ o.type \notin {"bad", "nowhere"}
    /\ ToSet(o.refs) \subseteq Indices(f)
    /\ o.type = "dict" =>
          \A j \in 1..Count(o) : Object(f, o.refs[j]).type = "string"

\* A cycle gives paths of every length, so it is too nested.
Readable(f) ==
    /\ f.root \in Indices(f)
    /\ ~TooNested(f)
    /\ \A k \in 0..MaxNesting : \A i \in AtLevel(f)[k] : Sound(f, i)

\* The container an object is, with kids as its items or as its keys and values.
Filled(o, kids) ==
    LET filled[n \in 0..Len(kids)] ==
            IF n = 0 THEN Leaf(o.type, 0) ELSE Adopt(filled[n - 1], kids[n])
    IN  filled[Len(kids)]

\* The items of an array, or the keys and values of a dict in turns: t[i] is the
\* tree of object i.
KidsOf(o, t) ==
    IF o.type = "array" THEN [m \in 1..Len(o.refs) |-> t[o.refs[m]]]
    ELSE [m \in 1..Len(o.refs) |-> IF m % 2 = 1 THEN AsKey(t[o.refs[(m + 1) \div 2]])
                                   ELSE t[o.refs[Count(o) + m \div 2]]]

\* The trees below the objects, every shared object written out, as far as d levels
\* down.
TreesTo(f) ==
    LET tree[d \in 0..MaxNesting] ==
            [i \in Indices(f) |->
                IF ~IsContainer(Object(f, i)) THEN Leaf(Object(f, i).type, Object(f, i).value)
                ELSE Filled(Object(f, i),
                            IF d = 0 THEN <<>> ELSE KidsOf(Object(f, i), tree[d - 1]))]
    IN  tree

Unfolding(f) == TreesTo(f)[MaxNesting][f.root]

\* The objects a path of one or more refs leads to from i.
Below(f, i) ==
    LET at[k \in 1..NumObjects(f)] ==
            IF k = 1 THEN Next_to(f, i) ELSE UNION {Next_to(f, m) : m \in at[k - 1]}
    IN  UNION {at[k] : k \in 1..NumObjects(f)}

-----------------------------------------------------------------------------
(***************************************************************************)
(* Properties                                                              *)
(***************************************************************************)

\* Whatever siblings were read before at the same levels, the entries of
\* used_indexes below the current level are the containers being filled, and
\* no two are the same: the recursion check neither misses a cycle nor can the
\* reader be deeper than the file has objects.
PathIsMarked ==
    /\ \A i \in 1..level : used[i] = stack[i].index
    /\ \A i, j \in 1..level : stack[i].index = stack[j].index => i = j

\* The nodes that are freed when a container being filled is given up.
held(frame) == frame.node.size + frame.key.size
HeldBy(frames) ==
    LET sum[k \in 0..Len(frames)] == IF k = 0 THEN 0 ELSE sum[k - 1] + held(frames[k])
    IN  sum[Len(frames)]

\* Every node allocated is in a container being filled, is a key that waits for
\* its value, or is in the tree that returns: on no error path is a node lost,
\* and although the result of node_attach is not looked at, no child ever is,
\* unless there was no memory to attach it.
NothingLeaked ==
    LET returning == IF pc \in {"return", "done"} THEN res.size ELSE 0
    IN  "attach" \notin oom => allocated = HeldBy(stack) + returning

\* plist_from_bin succeeds on exactly the files that have a tree within the
\* nesting limit, and returns that tree, complete and in order; otherwise, or
\* when a node cannot be allocated, it returns an error and no tree. The one
\* exception is a child that cannot be attached for lack of memory.
ReadsTheTree ==
    pc = "done" /\ "attach" \notin oom =>
        IF oom = {} /\ Readable(file) THEN err = PLIST_ERR_SUCCESS /\ res = Unfolding(file)
        ELSE err # PLIST_ERR_SUCCESS /\ res = NULL

\* A file is called circular only when a cycle can be reached in it, and too
\* nested only when it is.
ErrorsAreTrue ==
    pc = "done" =>
        /\ err = PLIST_ERR_CIRCULAR_REF =>
              \E i \in Below(file, file.root) \cup {file.root} : i \in Below(file, i)
        /\ err = PLIST_ERR_MAX_NESTING => TooNested(file)

\* The reader returns, also from a file whose objects refer to one another in
\* circles.
Termination == <>(pc = "done")
==============================================================================
