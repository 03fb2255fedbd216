-------------------------- MODULE MCBplistRoundTrip --------------------------
(* Trees of depth 0, 1 and 2, which is MaxNesting, over a few leaves that are   *)
(* alike in value or in type. Data nodes at odd and at even positions are in    *)
(* different buckets.                                                           *)
EXTENDS BplistRoundTrip
MCTrees ==
    LET Str(v)    == Leaf("string", v)
        Key(v)    == Leaf("key", v)
        Tree(type, kids) == FoldLeft(Adopt, Leaf(type, 0), kids)
        Leaves    == {Str(1), Str(2), Leaf("int", 1), Leaf("data", 1)}
        Dict1(vs) == {Tree("dict", <<Key(k), v>>) : k \in {1, 2}, v \in vs}
        Dict2(vs) == {Tree("dict", <<Key(k), v, Key(3 - k), w>>) : k \in {1, 2}, v, w \in vs}
        Array(vs) == {Tree("array", kids) : kids \in BoundedSeq(vs, 2)}
        Level1    == Array(Leaves) \cup Dict1(Leaves) \cup Dict2(Leaves)
        Inner     == Array({Str(1), Leaf("data", 1)}) \cup Dict1({Str(1), Str(2)})
                     \cup Dict2({Str(1)})
    IN  Leaves \cup Level1 \cup Array(Inner \cup Leaves) \cup Dict1(Inner)
        \cup Dict2(Inner \cup {Str(1)})
MCDataBucket(node) == IF node = <<>> THEN 0 ELSE Last(node) % 2
===============================================================================
