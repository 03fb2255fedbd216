----------------------------- MODULE MCNodeTree -----------------------------
(* The instance of MCOrderedForest, at pointer level: with four nodes a list *)
(* has a middle element to insert before and to remove, and two trees can be *)
(* joined in either direction. Addresses are interchangeable.                *)
EXTENDS NodeTree
NodeSymmetry == Permutations(Node)
==============================================================================
