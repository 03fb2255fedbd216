------------------------------ MODULE MCPlistDict ------------------------------
(* Six interchangeable nodes. calloc returns some free one: which one makes   *)
(* no difference, because free nodes are alike in every state, so that states *)
(* which differ only in addresses still have matching successors.             *)
EXTENDS PlistDict
SomeFree == [S \in SUBSET Node |-> IF S = Node THEN NULL ELSE CHOOSE n \in Node : n \notin S]
SameBucket == [k \in Key |-> 0]
AllOrNone == {{}, Node}
NodeSymmetry == Permutations(Node)
==============================================================================
