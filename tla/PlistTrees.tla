------------------------------ MODULE PlistTrees ------------------------------
(***************************************************************************)
(* The trees that the readers of text build, and the calls of plist.c they *)
(* build them with. A heap is a sequence of nodes, numbered in the order   *)
(* they are allocated. The key node of a pair is kept with its value:      *)
(* PlistDict shows that they stay together. What frees or undoes does not  *)
(* lack memory here: plist_free_children its stack, the roll-back of       *)
(* plist_dict_set_item the stack of the check of depth: see PlistDict.     *)
(***************************************************************************)
EXTENDS Integers, FiniteSets, Sequences, SequencesExt

CONSTANTS MaxNesting,   \* PLIST_MAX_NESTING_DEPTH
          NULL

PLIST_ERR_SUCCESS     == 0
PLIST_ERR_FORMAT      == -2
PLIST_ERR_PARSE       == -3
PLIST_ERR_NO_MEM      == -4
PLIST_ERR_MAX_NESTING == -7

Containers == {"dict", "array"}

Node(type, value) ==
    [type |-> type, value |-> value, key |-> NULL, up |-> NULL, kids |-> <<>>]

Freed == Node("freed", NULL)
Live(h) == {n \in DOMAIN h : h[n].type # "freed"}

\* The nodes from n up to its root.
Upward(h, n) ==
    LET up[m \in DOMAIN h] == <<m>> \o (IF h[m].up = NULL THEN <<>> ELSE up[h[m].up])
    IN  IF n = NULL THEN <<>> ELSE up[n]

Below(h, n) == {m \in DOMAIN h : n \in ToSet(Upward(h, m))}

Least(S) == CHOOSE x \in S : \A y \in S : x <= y
Most(S)  == CHOOSE x \in S : \A y \in S : x >= y

\* The number of levels below n and of those down to n, both with n.
Levels(h, n) == Most({Len(Upward(h, m)) : m \in Below(h, n)}) - Len(Upward(h, n)) + 1
Depth(h, n)  == Len(Upward(h, n))

\* node_attach and node_insert take an item only within the limit of depth.
within_limit(h, n, item) == Depth(h, n) + Levels(h, item) - 1 <= MaxNesting

\* plist_free: out of its parent, then all that is below.
plist_free(h, n) ==
    LET gone == Below(h, n) IN
    [m \in DOMAIN h |->
        IF m \in gone THEN Freed
        ELSE IF m = h[n].up THEN [h[m] EXCEPT !.kids = SelectSeq(@, LAMBDA k : k # n)]
        ELSE h[m]]

\* plist_free of one after another.
free_all(h, nodes) ==
    LET gone == UNION {Below(h, n) : n \in nodes}
    IN  [m \in DOMAIN h |-> IF m \in gone THEN Freed ELSE h[m]]

plist_array_append_item(h, n, item) ==
    [h EXCEPT ![n].kids = Append(@, item), ![item].up = n]

Positions(h, n, name) == {i \in DOMAIN h[n].kids : h[h[n].kids[i]].key = name}

\* Slip: a repeated key makes another pair.
plist_dict_set_item_slip(h, n, name, item) ==
    [plist_array_append_item(h, n, item) EXCEPT ![item].key = name]

\* A value replaces the one that is there under the key.
plist_dict_set_item(h, n, name, item) ==
    IF Positions(h, n, name) = {}
      THEN [plist_array_append_item(h, n, item) EXCEPT ![item].key = name]
      ELSE LET i   == CHOOSE i \in Positions(h, n, name) : TRUE
               old == h[n].kids[i]
           IN  [plist_free(h, old) EXCEPT ![n].kids = [h[n].kids EXCEPT ![i] = item],
                                          ![item].up = n, ![item].key = name]

-----------------------------------------------------------------------------
(***************************************************************************)
(* Trees as values, to say what was built and what should be               *)
(***************************************************************************)
\* kids are pairs of a key, NULL in an array, and a tree.
Tree(type, value, kids) == [type |-> type, value |-> value, kids |-> kids]

\* The tree below n.
Built(h, n) ==
    LET built[m \in DOMAIN h] ==
            Tree(h[m].type, h[m].value,
                 [i \in DOMAIN h[m].kids |-> <<h[h[m].kids[i]].key, built[h[m].kids[i]]>>])
    IN  built[n]

\* A pair with a key that is there takes the place of the earlier value.
WithPair(pairs, pair) ==
    IF \E i \in DOMAIN pairs : pairs[i][1] = pair[1]
      THEN [i \in DOMAIN pairs |-> IF pairs[i][1] = pair[1] THEN pair ELSE pairs[i]]
      ELSE Append(pairs, pair)

Merged(pairs) == FoldLeft(WithPair, <<>>, pairs)
=============================================================================
