----------------------------- MODULE MCCxxMirror -----------------------------
(* Four nodes and four objects at a time, in three levels, with two keys: two *)
(* items in a dict beside another value, containers in containers, copies and *)
(* assignments of containers that are not empty.                              *)
EXTENDS CxxMirror
AddressSymmetry == Permutations(Address)
=============================================================================
