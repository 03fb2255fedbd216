---------------------------- MODULE BplistWriter ----------------------------
(***************************************************************************)
(* The binary plist writer (plist_to_bin and serialize_plist,              *)
(* src/bplist.c).                                                          *)
(*                                                                         *)
(* serialize_plist walks the tree depth first and gives every node an      *)
(* index in the table of objects; nodes with the same data share one, so   *)
(* a tree becomes a graph. Then one object after the other is written,     *)
(* with its children as indices. Each call, return and object written is   *)
(* a step; the C stack is calls, with a frame per container.               *)
(*                                                                         *)
(* A node is the path of child positions that leads to it from the root,   *)
(* a tree a record with its type, value and kids, as in BplistReader.      *)
(***************************************************************************)
EXTENDS Integers, FiniteSets, Sequences, SequencesExt

CONSTANTS Trees,          \* the trees that are written
          MaxNesting,     \* PLIST_MAX_NESTING_DEPTH
          DataBucket(_)   \* the bucket of a data node: its address is hashed

VARIABLES tree,
          phase,       \* "start", "serialize", "write", "done"
          calls,       \* the containers being serialized: [node, next]
          in_stack,    \* the nodes marked as active
          objects,     \* the table of objects: nodes
          ref_table,   \* from nodes to indices
          werr,        \* what serialize_plist returned
          written      \* the objects written

writerVars == <<tree, phase, calls, in_stack, objects, ref_table, werr, written>>

PLIST_ERR_SUCCESS      == 0
PLIST_ERR_NO_MEM       == -4
PLIST_ERR_CIRCULAR_REF == -6
PLIST_ERR_MAX_NESTING  == -7

-----------------------------------------------------------------------------
(***************************************************************************)
(* Nodes                                                                   *)
(***************************************************************************)
At(node) ==
    LET at[i \in 0..Len(node)] == IF i = 0 THEN tree ELSE at[i - 1].kids[node[i]]
    IN  at[Len(node)]
Kids(node)  == [i \in DOMAIN At(node).kids |-> Append(node, i)]
depth(node) == Len(node)

\* Slip: only the node itself.
plist_data_compare_slip_same(a, b) == a = b

\* plist_data_compare: a container is the same as itself only.
plist_data_compare(a, b) ==
    \/ a = b
    \/ /\ At(a).type = At(b).type
       /\ At(a).type \notin {"array", "dict"}
       /\ At(a).value = At(b).value

\* plist_data_hash: equal leaves are in one bucket, except that data nodes are
\* hashed by address.
same_bucket(a, b) ==
    At(a).type = "data" /\ At(b).type = "data" => DataBucket(a) = DataBucket(b)

\* The entries hash_table_lookup(ref_table, node) can find.
entries(node) ==
    {other \in DOMAIN ref_table : same_bucket(node, other) /\ plist_data_compare(node, other)}

\* The index hash_table_lookup(ref_table, node) finds.
index_of(node) == ref_table[CHOOSE other \in entries(node) : TRUE]

-----------------------------------------------------------------------------
(***************************************************************************)
(* serialize_plist                                                         *)
(***************************************************************************)
\* Slip: one level too few.
refusal_slip(node) ==
    IF depth(node) >= MaxNesting THEN PLIST_ERR_MAX_NESTING
    ELSE IF node \in in_stack THEN PLIST_ERR_CIRCULAR_REF
    ELSE PLIST_ERR_SUCCESS

\* The guards at the top of serialize_plist.
refusal(node) ==
    IF depth(node) > MaxNesting THEN PLIST_ERR_MAX_NESTING
    ELSE IF node \in in_stack THEN PLIST_ERR_CIRCULAR_REF
    ELSE PLIST_ERR_SUCCESS

\* The index of the object that is appended next.
new_index(objs) == Len(objs)

\* serialize_plist(node) returns at once with code; frames is the caller's stack.
ReturnsAtOnce(node, frames, code) ==
    /\ calls' = frames /\ werr' = code
    /\ UNCHANGED <<in_stack, objects, ref_table>>

\* The first part of serialize_plist, up to the loop over the children.
Serialize(node, frames) ==
    \/ /\ refusal(node) # PLIST_ERR_SUCCESS \/ entries(node) # {}
       /\ ReturnsAtOnce(node, frames, refusal(node))
    \/ /\ refusal(node) = PLIST_ERR_SUCCESS /\ entries(node) = {}
       /\ in_stack' = in_stack \cup {node}
       /\ \/ /\ ref_table' = [n \in DOMAIN ref_table \cup {node} |->
                                 IF n = node THEN new_index(objects) ELSE ref_table[n]]
             /\ objects' = Append(objects, node)
             /\ calls' = Append(frames, [node |-> node, next |-> 1])
             /\ UNCHANGED werr
          \/ \* the index cannot be allocated
             /\ calls' = frames /\ werr' = PLIST_ERR_NO_MEM
             /\ UNCHANGED <<objects, ref_table>>

Init ==
    /\ tree \in Trees
    /\ phase = "start" /\ calls = <<>> /\ in_stack = {} /\ objects = <<>>
    /\ ref_table = [n \in {} |-> 0] /\ werr = PLIST_ERR_SUCCESS /\ written = <<>>

\* plist_to_bin calls serialize_plist with the root.
Begin ==
    /\ phase = "start" /\ phase' = "serialize"
    /\ Serialize(<<>>, <<>>)
    /\ UNCHANGED <<tree, written>>

frame == Last(calls)

VisitChild ==
    /\ phase = "serialize" /\ calls # <<>> /\ werr = PLIST_ERR_SUCCESS
    /\ frame.next <= Len(Kids(frame.node))
    /\ Serialize(Kids(frame.node)[frame.next],
                 Append(Front(calls), [frame EXCEPT !.next = @ + 1]))
    /\ UNCHANGED <<tree, phase, written>>

\* No more children, or one of them failed.
Leave ==
    /\ phase = "serialize" /\ calls # <<>>
    /\ frame.next > Len(Kids(frame.node)) \/ werr # PLIST_ERR_SUCCESS
    /\ in_stack' = in_stack \ {frame.node}
    /\ calls' = Front(calls)
    /\ UNCHANGED <<tree, phase, objects, ref_table, werr, written>>

-----------------------------------------------------------------------------
(***************************************************************************)
(* plist_to_bin                                                            *)
(***************************************************************************)
Serialized ==
    /\ phase = "serialize" /\ calls = <<>>
    /\ phase' = IF werr = PLIST_ERR_SUCCESS THEN "write" ELSE "done"
    /\ UNCHANGED <<tree, calls, in_stack, objects, ref_table, werr, written>>

\* Slip: key and value by turns.
dict_refs_slip(kids) == [i \in DOMAIN kids |-> index_of(kids[i])]

\* write_dict: all keys, then all values.
dict_refs(kids) ==
    LET n == Len(kids) \div 2 IN
    [i \in 1..(2 * n) |->
        index_of(IF i <= n THEN kids[2 * i - 1] ELSE kids[2 * (i - n)])]

\* write_array
array_refs(kids) == [i \in DOMAIN kids |-> index_of(kids[i])]

\* What is written of a node. A key is written as a string.
object(node) ==
    [type  |-> IF At(node).type = "key" THEN "string" ELSE At(node).type,
     value |-> At(node).value,
     refs  |-> CASE At(node).type = "dict"  -> dict_refs(Kids(node))
                 [] At(node).type = "array" -> array_refs(Kids(node))
                 [] OTHER                   -> <<>>]

WriteObject ==
    /\ phase = "write"
    /\ Len(written) < Len(objects)
    /\ written' = Append(written, object(objects[Len(written) + 1]))
    /\ UNCHANGED <<tree, phase, calls, in_stack, objects, ref_table, werr>>

\* The offset table and the trailer, which names object 0 as the root.
WriteTrailer ==
    /\ phase = "write"
    /\ Len(written) = Len(objects)
    /\ phase' = "done"
    /\ UNCHANGED <<tree, calls, in_stack, objects, ref_table, werr, written>>

Next == Begin \/ VisitChild \/ Leave \/ Serialized \/ WriteObject \/ WriteTrailer

-----------------------------------------------------------------------------
(***************************************************************************)
(* Properties                                                              *)
(***************************************************************************)
Nodes == ToSet(objects)

\* serialize_plist meets none of its errors but a lack of memory: the tree is
\* no deeper than node_attach lets it become, which is just what the writer
\* allows, and no sharing of data makes it mistake a node for its own ancestor.
NeverRefused == werr \in {PLIST_ERR_SUCCESS, PLIST_ERR_NO_MEM}

\* No two objects have the same data, unless they are containers or data.
StoredOnce ==
    \A a, b \in Nodes :
        At(a).type \notin {"array", "dict", "data"} /\ At(a).type = At(b).type
            /\ At(a).value = At(b).value => a = b
=============================================================================
