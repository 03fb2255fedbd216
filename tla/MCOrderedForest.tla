--------------------------- MODULE MCOrderedForest ---------------------------
(* Four nodes and a depth bound of 2: a chain of three can form, a chain of  *)
(* four is refused, and a copy of a two-node tree fits.                      *)
EXTENDS OrderedForest
==============================================================================
