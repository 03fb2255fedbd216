---------------------------- MODULE MCBplistReader ----------------------------
(* Files of four objects of which object 0 is the root, a container of one or   *)
(* two items or pairs (or none). The others are strings, a date, no objects, or *)
(* containers of one item or pair: there are paths of every length, cycles      *)
(* through and beside the root, shared objects and dangling refs (4 is out of   *)
(* range). A path of three refs is deeper than MaxNesting.                      *)
EXTENDS BplistReader
MCFiles ==
    LET Obj(type, value, refs) == [type |-> type, value |-> value, refs |-> refs]
        Arrays(refs) == {Obj("array", 0, <<r>>) : r \in refs}
        Roots == {Obj("array", 0, <<r, q>>) : r \in 0..3, q \in 1..4}
                 \cup {Obj("dict", 0, <<k, v>>) : k \in {0, 1, 4}, v \in 1..4}
                 \cup {Obj("dict", 0, <<k, 2, v, 3>>) : k \in {1, 2}, v \in {1, 2}}
        First == {Obj("string", 1, <<>>), Obj("bad", 0, <<>>)} \cup Arrays(0..3)
        Second == {Obj("string", 2, <<>>), Obj("dict", 0, <<1, 3>>), Obj("dict", 0, <<3, 3>>)}
                  \cup Arrays({0, 1, 3})
        Third == {Obj("string", 3, <<>>), Obj("date", 3, <<>>), Obj("bad", 0, <<>>), Obj("nowhere", 0, <<>>),
                  Obj("array", 0, <<>>)} \cup Arrays({0, 1, 2})
    IN  {[objects |-> <<r, a, b, c>>, root |-> 0] :
            r \in Roots, a \in First, b \in Second, c \in Third}
        \cup {[objects |-> <<a>>, root |-> r] : a \in First, r \in {0, 1}}
===============================================================================
