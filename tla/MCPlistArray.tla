----------------------------- MODULE MCPlistArray -----------------------------
(* Five interchangeable nodes, depth at most 2, and a cache from two items   *)
(* on: an array of two items with a cache fits beside two more roots, arrays *)
(* nest twice, and a replacement can fail on a cycle and on the depth. In    *)
(* some calls no depth check gets memory for its stack.                      *)
EXTENDS PlistArray
AllOrNone == {{}, Node}
NodeSymmetry == Permutations(Node)
==============================================================================
