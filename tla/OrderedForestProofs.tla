-------------------------- MODULE OrderedForestProofs --------------------------
(***************************************************************************)
(* Whatever calls libcnary serves, on any set of nodes and with any depth  *)
(* limit, the nodes form an ordered forest. The three invariants that      *)
(* MCOrderedForest checks are inductive only together: an attach is safe   *)
(* because the child is a root outside the parent's chain (acyclicity      *)
(* rests on the links), and a detach finds its child in the list that the  *)
(* parent pointer names (the links). IInv joins them.                      *)
(***************************************************************************)
EXTENDS OrderedForest, ForestLemmas

IInv == TypeOK /\ ForestInv(forest)

-----------------------------------------------------------------------------
(***************************************************************************)
(* The invariant                                                           *)
(***************************************************************************)

\* The strengthening is inductive: it holds of the empty heap and every call
\* preserves it.
THEOREM Inductive == (Init => IInv) /\ (IInv /\ [Next]_vars => IInv')
<1>1. Init => IInv
  <2> SUFFICES ASSUME Init PROVE IInv
    OBVIOUS
  <2>1. ForestInv(forest)
    BY EmptyIsForest DEF Init
  <2>2. TypeOK
    BY <2>1 DEF Init, TypeOK, LinksAgree, ForestInv, Fresh, EmptyForest
  <2>3. QED
    BY <2>1, <2>2 DEF IInv
<1>2. IInv /\ [Next]_vars => IInv'
  <2> SUFFICES ASSUME IInv, [Next]_vars PROVE IInv'
    OBVIOUS
  <2>1. /\ ForestInv(forest) /\ alive \subseteq Node
        /\ ret \in Int \cup Node \cup {NULL}
        /\ \A n \in Fresh : n \in Node /\ forest.kids[n] = <<>> /\ forest.parent[n] = NULL
    BY DEF IInv, TypeOK, Fresh
  <2>2. forest.kids \in [Node -> Seq(Node)] /\ forest.parent \in [Node -> Node \cup {NULL}]
    BY <2>1 DEF ForestInv, Forest
  <2>3. SUFFICES /\ ForestInv(forest') /\ alive' \subseteq Node
                 /\ ret' \in Int \cup Node \cup {NULL}
                 /\ \A n \in Node \ alive' : forest'.kids[n] = <<>> /\ forest'.parent[n] = NULL
    BY DEF IInv, TypeOK, LinksAgree, Fresh, ForestInv
  <2>4. CASE UNCHANGED vars
    BY <2>1, <2>4 DEF vars, Fresh
  <2>5. ASSUME NEW n \in Fresh, CreateRoot(n) PROVE <2>3!1
    BY <2>1, <2>5 DEF CreateRoot, Fresh
  <2>6. ASSUME NEW p \in alive, NEW n \in Fresh, CreateUnder(p, n) PROVE <2>3!1
    <3> DEFINE r == node_attach(forest, p, n)
    <3>1. /\ ForestInv(r.f)
          /\ r.ret # NODE_ERR_SUCCESS => r.f = forest
          /\ r.ret = NODE_ERR_SUCCESS => \A m \in Node \ {p, n} :
                r.f.kids[m] = forest.kids[m] /\ r.f.parent[m] = forest.parent[m]
      BY <2>1, AttachForest
    <3> HIDE DEF r
    <3>2. /\ forest' = r.f
          /\ r.ret = NODE_ERR_SUCCESS => alive' = alive \cup {n} /\ ret' = n
          /\ r.ret # NODE_ERR_SUCCESS => alive' = alive /\ ret' = NULL
      BY <2>6 DEF CreateUnder, r
    <3>3. QED
      BY <2>1, <3>1, <3>2 DEF Fresh
  <2>7. ASSUME NEW p \in Arg, NEW c \in Arg, Attach(p, c) PROVE <2>3!1
    <3> DEFINE r == node_attach(forest, p, c)
    <3>0. p \in Node \cup {NULL} /\ c \in Node \cup {NULL}
      BY <2>1 DEF Arg
    <3>1. /\ ForestInv(r.f) /\ r.ret \in Int
          /\ r.ret # NODE_ERR_SUCCESS => r.f = forest
          /\ r.ret = NODE_ERR_SUCCESS => \A m \in Node \ {p, c} :
                r.f.kids[m] = forest.kids[m] /\ r.f.parent[m] = forest.parent[m]
      BY <2>1, <3>0, AttachForest
    <3> HIDE DEF r
    <3>2. forest' = r.f /\ ret' = r.ret /\ alive' = alive
      BY <2>7 DEF Attach, r
    <3>3. QED
      BY <2>1, <3>1, <3>2, NodeAssumption DEF Fresh, Arg
  <2>8. ASSUME NEW p \in Arg, NEW c \in Arg, NEW i \in 0..Cardinality(Node), Insert(p, i, c)
        PROVE  <2>3!1
    <3> DEFINE r == node_insert(forest, p, i, c)
    <3>0. i \in Nat /\ p \in Node \cup {NULL} /\ c \in Node \cup {NULL}
      BY <2>1 DEF Arg
    <3>1. /\ ForestInv(r.f) /\ r.ret \in Int
          /\ r.ret # NODE_ERR_SUCCESS => r.f = forest
          /\ r.ret = NODE_ERR_SUCCESS => \A m \in Node \ {p, c} :
                r.f.kids[m] = forest.kids[m] /\ r.f.parent[m] = forest.parent[m]
      <4>1. ForestInv(forest)
        BY ONLY <2>1
      <4>2. QED
        BY ONLY <3>0, <4>1, InsertForest
    <3> HIDE DEF r
    <3>2. forest' = r.f /\ ret' = r.ret /\ alive' = alive
      BY <2>8 DEF Insert, r
    <3>3. QED
      BY <2>1, <3>1, <3>2, NodeAssumption DEF Fresh, Arg
  <2>9. ASSUME NEW p \in alive, NEW c \in alive, Detach(p, c) PROVE <2>3!1
    <3> DEFINE r == node_detach(forest, p, c)
    <3>1. p \in Node /\ c \in Node /\ forest.parent[c] = p
      BY <2>1, <2>9, NodeAssumption DEF Detach, detach_errors
    <3>2. /\ ForestInv(r.f) /\ r.ret \in Int
          /\ r.f = Unlink(forest, p, r.ret + 1)
          /\ forest.kids[p][r.ret + 1] = c
      BY <2>1, <3>1, DetachForest
    <3>3. forest' = r.f /\ ret' = r.ret /\ alive' = alive
      BY <2>9 DEF Detach
    <3> HIDE DEF r
    <3>4. \A m \in Node \ {p, c} :
             forest'.kids[m] = forest.kids[m] /\ forest'.parent[m] = forest.parent[m]
      BY <2>2, <3>2, <3>3 DEF Unlink
    <3>5. QED
      BY <2>1, <3>2, <3>3, <3>4 DEF Fresh
  <2>10. ASSUME NEW p \in Arg, NEW c \in Arg, DetachFails(p, c) PROVE <2>3!1
    BY <2>1, <2>10 DEF DetachFails, detach_errors, Fresh, NODE_ERR_INVALID_ARG,
       NODE_ERR_NOT_FOUND, NODE_ERR_PARENT
  <2>11. ASSUME NEW n \in alive, Destroy(n) PROVE <2>3!1
    <3> DEFINE S == Subtree(forest, n)
    <3>1. /\ S \in SUBSET Node
          /\ \A m \in Node : forest.parent[m] # NULL => (m \in S <=> forest.parent[m] \in S)
      BY <2>1, <2>11, RootSubtree DEF Destroy, ForestInv
    <3> HIDE DEF S
    <3>2. /\ alive' = alive \ S /\ ret' = NULL
          /\ forest' = Release(forest, S)
      BY <2>11 DEF Destroy, S
    <3>3. ForestInv(forest')
      BY <2>1, <3>1, <3>2, ReleaseForest
    <3>4. QED
      BY <2>1, <3>2, <3>3 DEF Release, Fresh
  <2>12. ASSUME NEW n \in alive, NEW k \in Injection(Subtree(forest, n), Fresh), CopyDeep(n, k)
         PROVE  <2>3!1
    <3> DEFINE C == {k[t] : t \in Subtree(forest, n)}
    <3>1. Fresh \in SUBSET Node /\ n \in Node /\ n \in Subtree(forest, n)
      BY <2>1, AncestorsClosed DEF Fresh, Subtree
    <3>2. /\ ForestInv(forest')
          /\ \A t \in Subtree(forest, n) : k[t] \in Fresh
          /\ \A m \in Node : m \notin C =>
                forest'.kids[m] = forest.kids[m] /\ forest'.parent[m] = forest.parent[m]
      BY <2>1, <2>12, <3>1, CopyForest DEF CopyDeep
    <3>3. DOMAIN k = Subtree(forest, n)
      BY DEF Injection
    <3>4. alive' = alive \cup C /\ ret' = k[n]
      BY <2>12, <3>3 DEF CopyDeep
    <3>5. QED
      BY <2>1, <3>1, <3>2, <3>4 DEF Fresh
  <2>13. ASSUME NEW p \in alive, NEW c \in alive, NoMemory(p, c) PROVE <2>3!1
    BY <2>1, <2>13 DEF NoMemory, NODE_ERR_NO_MEM, NODE_ERR_MAX_DEPTH, Fresh
  <2>14. CASE CreateFails
    BY <2>1, <2>14 DEF CreateFails, Fresh
  <2>15. QED
    BY <2>4, <2>5, <2>6, <2>7, <2>8, <2>9, <2>10, <2>11, <2>12, <2>13, <2>14 DEF Next
<1>3. QED
  BY <1>1, <1>2

\* So it holds after any sequence of calls.
LEMMA Invariance == Spec => []IInv
<1>1. Init => IInv
  BY Inductive
<1>2. IInv /\ [Next]_vars => IInv'
  BY Inductive
<1>3. QED
  BY <1>1, <1>2, PTL DEF Spec

\* No call makes up an address or leaves a link in a freed node, and results are
\* ints, nodes or NULL.
THEOREM TypeCorrect == Spec => []TypeOK
<1>1. IInv => TypeOK
  BY DEF IInv
<1>2. QED
  BY <1>1, Invariance, PTL

\* Parent pointers and children lists agree after any sequence of calls, on any
\* number of nodes.
THEOREM LinksAlwaysAgree == Spec => []LinksAgree
<1>1. IInv => LinksAgree
  BY DEF IInv, ForestInv, LinksAgree
<1>2. QED
  BY <1>1, Invariance, PTL

\* would_create_cycle is enough to keep cycles out for ever: the loops that climb
\* parent pointers end.
THEOREM NeverCyclic == Spec => []NoCycles
<1>1. IInv => NoCycles
  BY DEF IInv, ForestInv, NoCycles
<1>2. QED
  BY <1>1, Invariance, PTL

\* The depth test of node_attach and node_insert, which looks at the parent's
\* depth and the child's height only, bounds the depth of every node for ever.
THEOREM DepthAlwaysBounded == Spec => []DepthBounded
<1>1. IInv => DepthBounded
  BY DEF IInv, ForestInv, DepthBounded
<1>2. QED
  BY <1>1, Invariance, PTL

-----------------------------------------------------------------------------
(***************************************************************************)
(* What a step does to the lists                                           *)
(***************************************************************************)

\* Every call adds one child to a list, takes one out, empties it or leaves it
\* alone.
LEMMA ListsKeepOrder ==
    ASSUME IInv, [Next]_vars, NEW m \in Node
    PROVE  SameOrder(forest.kids[m], forest'.kids[m])
<1>1. /\ ForestInv(forest) /\ alive \subseteq Node
      /\ \A n \in Fresh : n \in Node /\ forest.kids[n] = <<>> /\ forest.parent[n] = NULL
  BY DEF IInv, TypeOK, Fresh
<1>2. SameOrder(forest.kids[m], forest.kids[m])
  BY <1>1, SameListSameOrder DEF ForestInv, Forest, Linked, NoRepeat
<1>3. CASE UNCHANGED forest
  BY <1>2, <1>3
<1>4. ASSUME NEW p \in alive, NEW n \in Fresh, CreateUnder(p, n) PROVE SameOrder(forest.kids[m], forest'.kids[m])
  BY <1>1, <1>4, AttachForest DEF CreateUnder
<1>5. ASSUME NEW p \in Arg, NEW c \in Arg, Attach(p, c) PROVE SameOrder(forest.kids[m], forest'.kids[m])
  BY <1>1, <1>5, AttachForest DEF Attach, Arg
<1>6. ASSUME NEW p \in Arg, NEW c \in Arg, NEW i \in 0..Cardinality(Node), Insert(p, i, c)
      PROVE  SameOrder(forest.kids[m], forest'.kids[m])
  <2>1. i \in Nat /\ p \in Node \cup {NULL} /\ c \in Node \cup {NULL}
    BY <1>1 DEF Arg
  <2>2. SameOrder(forest.kids[m], node_insert(forest, p, i, c).f.kids[m])
    BY <1>1, <2>1, InsertForest, SMTT(30)
  <2>3. QED
    BY <1>6, <2>2 DEF Insert
<1>7. ASSUME NEW p \in alive, NEW c \in alive, Detach(p, c) PROVE SameOrder(forest.kids[m], forest'.kids[m])
  <2>1. p \in Node /\ c \in Node /\ forest.parent[c] = p
    BY <1>1, <1>7, NodeAssumption DEF Detach, detach_errors
  <2>2. QED
    BY <1>1, <1>7, <2>1, DetachForest DEF Detach
<1>8. ASSUME NEW n \in alive, Destroy(n) PROVE SameOrder(forest.kids[m], forest'.kids[m])
  <2>1. forest'.kids[m] \in {<<>>, forest.kids[m]}
    BY <1>8 DEF Destroy, Release
  <2>2. QED
    BY <1>2, <2>1 DEF SameOrder
<1>9. ASSUME NEW n \in alive, NEW k \in Injection(Subtree(forest, n), Fresh), CopyDeep(n, k)
      PROVE  SameOrder(forest.kids[m], forest'.kids[m])
  <2> DEFINE C == {k[t] : t \in Subtree(forest, n)}
  <2>1. Fresh \in SUBSET Node /\ n \in Node
    BY <1>1 DEF Fresh
  <2>2. /\ \A t \in Subtree(forest, n) : k[t] \in Fresh
        /\ m \notin C => forest'.kids[m] = forest.kids[m]
    BY <1>1, <1>9, <2>1, CopyForest DEF CopyDeep
  <2>3. m \in C => forest.kids[m] = <<>>
    BY <1>1, <2>2
  <2>4. QED
    BY <1>2, <2>2, <2>3 DEF SameOrder
<1>10. QED
  BY <1>3, <1>4, <1>5, <1>6, <1>7, <1>8, <1>9
  DEF Next, vars, CreateRoot, NoMemory, CreateFails, DetachFails

\* So two siblings that stay siblings stay in order, in every step of every run.
THEOREM SiblingsStayInOrder == Spec => SiblingOrderKept
<1>1. IInv /\ IInv' /\ [Next]_vars =>
        [\A p \in Node : \A a, b \in Children(forest, p) \cap Children(forest', p) :
            node_child_position(forest, p, a) < node_child_position(forest, p, b)
              => node_child_position(forest', p, a) < node_child_position(forest', p, b)]_vars
  <2>1. ASSUME IInv, IInv', [Next]_vars, NEW p \in Node,
               NEW a \in Children(forest, p) \cap Children(forest', p),
               NEW b \in Children(forest, p) \cap Children(forest', p),
               node_child_position(forest, p, a) < node_child_position(forest, p, b)
        PROVE  node_child_position(forest', p, a) < node_child_position(forest', p, b)
    <3>1. SameOrder(forest.kids[p], forest'.kids[p])
      BY <2>1, ListsKeepOrder
    <3>2. ForestInv(forest) /\ ForestInv(forest')
      BY <2>1 DEF IInv
    <3>3. QED
      BY <2>1, <3>1, <3>2, PositionsKept
  <2>2. QED
    BY <2>1
<1>2. QED
  BY <1>1, Invariance, PTL DEF Spec, SiblingOrderKept
==============================================================================
