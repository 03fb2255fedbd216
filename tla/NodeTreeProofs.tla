--------------------------- MODULE NodeTreeProofs ---------------------------
(***************************************************************************)
(* That libcnary's pointers are an ordered forest after any sequence of    *)
(* calls, for every finite set of nodes and every depth limit, and so that *)
(* NodeTree implements OrderedForest. First one call on one heap: when the *)
(* pointers represent an ordered forest, the loops read that forest, and   *)
(* attaching, inserting, detaching and freeing leave pointers that         *)
(* represent the forest ForestOps says. Then copying a tree, and the calls *)
(* in sequence.                                                            *)
(***************************************************************************)
EXTENDS NodeTree, FiniteSetTheorems, SequenceTheorems, WellFoundedInduction, TLAPS

L == INSTANCE ForestLemmas

\* The library's well-founded induction, for the order of the numbers.
LEMMA LeastCounterexample ==
    ASSUME NEW T \in SUBSET Nat, T # {}
    PROVE  \E n \in T : \A m \in T : n <= m
<1>1. \E n \in T : \A m \in T : <<m, n>> \notin OpToRel(<, Nat)
  BY NatLessThanWellFounded, WFMin
<1>2. \A m, n \in Nat : m < n => <<m, n>> \in OpToRel(<, Nat)  BY DEF OpToRel
<1>3. T \subseteq Nat  OBVIOUS
<1>4. \A m, n \in T : ~(m < n) => n <= m  BY <1>3
<1> QED  BY <1>1, <1>2, <1>3, <1>4

-----------------------------------------------------------------------------
(***************************************************************************)
(* What ForestLemmas and ForestOps say is said of the same operators.      *)
(***************************************************************************)
LEMMA SameLibrary ==
    /\ \A S : L!Cardinality(S) = Cardinality(S) /\ Op!Cardinality(S) = Cardinality(S)
    /\ \A S : L!IsFiniteSet(S) = IsFiniteSet(S)
    /\ \A s : L!ToSet(s) = ToSet(s)
    /\ \A s, i, e : /\ L!InsertAt(s, i, e) = InsertAt(s, i, e)
                    /\ Op!InsertAt(s, i, e) = InsertAt(s, i, e)
    /\ \A s, i : L!RemoveAt(s, i) = RemoveAt(s, i) /\ Op!RemoveAt(s, i) = RemoveAt(s, i)
<1>1. \A S : L!Cardinality(S) = Cardinality(S)  BY DEF L!Cardinality, Cardinality
<1>2. \A S : Op!Cardinality(S) = Cardinality(S)  BY DEF Op!Cardinality, Cardinality
<1>3. \A S : L!IsFiniteSet(S) = IsFiniteSet(S)  BY DEF L!IsFiniteSet, IsFiniteSet
<1>4. \A s : L!ToSet(s) = ToSet(s)  BY DEF L!ToSet, ToSet
<1>5. \A s, i, e : L!InsertAt(s, i, e) = InsertAt(s, i, e)  BY DEF L!InsertAt, InsertAt
<1>6. \A s, i, e : Op!InsertAt(s, i, e) = InsertAt(s, i, e)  BY DEF Op!InsertAt, InsertAt
<1>7. \A s, i : L!RemoveAt(s, i) = RemoveAt(s, i)  BY DEF L!RemoveAt, RemoveAt
<1>8. \A s, i : Op!RemoveAt(s, i) = RemoveAt(s, i)  BY DEF Op!RemoveAt, RemoveAt
<1> QED  BY <1>1, <1>2, <1>3, <1>4, <1>5, <1>6, <1>7, <1>8

\* The assumptions ForestLemmas makes hold here.
LEMMA Constants == MaxDepth \in Nat /\ L!IsFiniteSet(Node) /\ NULL \notin Node
  BY NodeAssumption, MaxDepthAssumption, SameLibrary

LEMMA SameForests ==
    /\ \A f, n : Op!Ancestors(f, n) = L!Ancestors(f, n)
    /\ \A f, n : Op!Subtree(f, n) = L!Subtree(f, n)
    /\ \A f, n : Op!Depth(f, n) = L!Depth(f, n)
    /\ \A f, p, i, c : Op!Link(f, p, i, c) = L!Link(f, p, i, c)
    /\ \A f, p, i : Op!Unlink(f, p, i) = L!Unlink(f, p, i)
    /\ \A f, S : Op!Release(f, S) = L!Release(f, S)
    /\ \A f, r, k : Op!CopyTree(f, r, k) = L!CopyTree(f, r, k)
<1>1. \A f, n : Op!Ancestors(f, n) = L!Ancestors(f, n)
  BY DEF Op!Ancestors, L!Ancestors, Op!ClosedAbove, L!ClosedAbove, Op!Parents, L!Parents
<1>2. \A f, n : Op!Subtree(f, n) = L!Subtree(f, n)  BY <1>1 DEF Op!Subtree, L!Subtree
<1>3. \A f, n : Op!Depth(f, n) = L!Depth(f, n)  BY <1>1, SameLibrary DEF Op!Depth, L!Depth
<1>4. \A f, p, i, c : Op!Link(f, p, i, c) = L!Link(f, p, i, c)
  BY SameLibrary DEF Op!Link, L!Link
<1>5. \A f, p, i : Op!Unlink(f, p, i) = L!Unlink(f, p, i)
  BY SameLibrary DEF Op!Unlink, L!Unlink
<1>6. \A f, S : Op!Release(f, S) = L!Release(f, S)  BY DEF Op!Release, L!Release
<1>7. \A f, r, k : Op!CopyTree(f, r, k) = L!CopyTree(f, r, k)  BY DEF Op!CopyTree, L!CopyTree
<1> QED  BY <1>1, <1>2, <1>3, <1>4, <1>5, <1>6, <1>7

LEMMA SameCodes ==
    /\ L!NODE_ERR_SUCCESS = 0 /\ Op!NODE_ERR_SUCCESS = 0
    /\ L!NODE_ERR_INVALID_ARG = -1 /\ Op!NODE_ERR_INVALID_ARG = -1
    /\ L!NODE_ERR_PARENT = -3 /\ Op!NODE_ERR_PARENT = -3
    /\ L!NODE_ERR_CIRCULAR_REF = -4 /\ Op!NODE_ERR_CIRCULAR_REF = -4
    /\ L!NODE_ERR_MAX_DEPTH = -5 /\ Op!NODE_ERR_MAX_DEPTH = -5
    /\ L!NODE_ERR_NOT_FOUND = -6 /\ Op!NODE_ERR_NOT_FOUND = -6
  BY DEF L!NODE_ERR_SUCCESS, Op!NODE_ERR_SUCCESS, L!NODE_ERR_INVALID_ARG,
         Op!NODE_ERR_INVALID_ARG, L!NODE_ERR_PARENT, Op!NODE_ERR_PARENT,
         L!NODE_ERR_CIRCULAR_REF, Op!NODE_ERR_CIRCULAR_REF, L!NODE_ERR_MAX_DEPTH,
         Op!NODE_ERR_MAX_DEPTH, L!NODE_ERR_NOT_FOUND, Op!NODE_ERR_NOT_FOUND

LEMMA SameCalls ==
    /\ \A f, p, c : Op!attach_guard(f, p, c) = L!attach_guard(f, p, c)
    /\ \A f, p, c : Op!node_attach(f, p, c) = L!node_attach(f, p, c)
    /\ \A f, p, i, c : Op!node_insert(f, p, i, c) = L!node_insert(f, p, i, c)
    /\ \A f, p, c : Op!node_detach(f, p, c) = L!node_detach(f, p, c)
<1>1. \A f, p, c : Op!would_create_cycle(f, p, c) = L!would_create_cycle(f, p, c)
  BY SameForests DEF Op!would_create_cycle, L!would_create_cycle
<1>2. \A f, p, c : Op!exceeds_max_depth(f, p, c) = L!exceeds_max_depth(f, p, c)
  BY SameForests DEF Op!exceeds_max_depth, L!exceeds_max_depth
<1>3. \A f, p, c : Op!attach_guard(f, p, c) = L!attach_guard(f, p, c)
  BY <1>1, <1>2, SameCodes DEF Op!attach_guard, L!attach_guard
<1>4. \A f, e, g : Op!outcome(f, e, g) = L!outcome(f, e, g)
  BY SameCodes DEF Op!outcome, L!outcome
<1>5. \A f, p, c : Op!node_attach(f, p, c) = L!node_attach(f, p, c)
  BY <1>3, <1>4, SameForests DEF Op!node_attach, L!node_attach
<1>6. \A f, p, i, e : Op!checked_index(f, p, i, e) = L!checked_index(f, p, i, e)
  BY SameCodes DEF Op!checked_index, L!checked_index
<1>7. \A f, p, i, c : Op!node_insert(f, p, i, c) = L!node_insert(f, p, i, c)
  BY <1>3, <1>4, <1>6, SameForests DEF Op!node_insert, L!node_insert
<1>8. \A f, p, c : Op!node_detach(f, p, c) = L!node_detach(f, p, c)
  BY SameForests DEF Op!node_detach, L!node_detach, Op!node_child_position, L!node_child_position
<1> QED  BY <1>3, <1>5, <1>7, <1>8

-----------------------------------------------------------------------------
(***************************************************************************)
(* Walks along a pointer field. A path is the sequence of nodes the field  *)
(* leads through, from a start to NULL, without coming back to any.        *)
(***************************************************************************)
NoRepeat(s) == \A i, j \in DOMAIN s : s[i] = s[j] => i = j

Path(field, start, s) ==
    /\ s \in Seq(Node)
    /\ NoRepeat(s)
    /\ start = IF Len(s) = 0 THEN NULL ELSE s[1]
    /\ \A i \in 1..Len(s) : field[s[i]] = IF i = Len(s) THEN NULL ELSE s[i + 1]

LEMMA NodesCounted == Cardinality(Node) \in Nat
  BY NodeAssumption, FS_CardinalityType

\* Without repetitions a sequence has as many elements as its set of them.
LEMMA SetOfNoRepeat ==
    ASSUME NEW s \in Seq(Node), NoRepeat(s)
    PROVE  /\ Len(s) \in Nat
           /\ ToSet(s) = {s[i] : i \in 1..Len(s)}
           /\ ToSet(s) \in SUBSET Node
           /\ Cardinality(ToSet(s)) = Len(s)
           /\ Len(s) <= Cardinality(Node)
<1>1. Len(s) \in Nat /\ DOMAIN s = 1..Len(s) /\ \A i \in 1..Len(s) : s[i] \in Node
  BY LenProperties, ElementOfSeq
<1>2. ToSet(s) = {s[i] : i \in 1..Len(s)}  BY <1>1 DEF ToSet
<1>3. ToSet(s) \in SUBSET Node  BY <1>1, <1>2
<1>4. IsFiniteSet(1..Len(s)) /\ Cardinality(1..Len(s)) = Len(s)
  <2>1. 1 \in Int /\ Len(s) \in Int  BY <1>1
  <2>2. /\ IsFiniteSet(1..Len(s))
        /\ Cardinality(1..Len(s)) = IF 1 > Len(s) THEN 0 ELSE Len(s) - 1 + 1
    BY <2>1, FS_Interval
  <2> QED  BY <1>1, <2>2
<1>5. s \in Surjection(1..Len(s), ToSet(s)) /\ s \in Injection(1..Len(s), ToSet(s))
  <2>1. s \in [1..Len(s) -> ToSet(s)]
    <3>1. s = [i \in DOMAIN s |-> s[i]]  BY <1>1
    <3> QED  BY <1>1, <1>2, <3>1
  <2> QED  BY <1>1, <1>2, <2>1 DEF Surjection, Injection, IsInjective, NoRepeat
<1>6. Cardinality(ToSet(s)) = Cardinality(1..Len(s))  BY <1>4, <1>5, FS_Surjection
<1>7. Cardinality(ToSet(s)) <= Cardinality(Node)  BY <1>3, NodeAssumption, FS_Subset
<1> QED  BY <1>1, <1>2, <1>3, <1>4, <1>6, <1>7

StepsFrom(field, start, at) ==
    at = [k \in 0..Cardinality(Node) |->
            IF k = 0 THEN start ELSE IF at[k - 1] = NULL THEN NULL ELSE field[at[k - 1]]]

\* One function satisfies the recursive definition of a walk.
LEMMA FollowIs ==
    ASSUME NEW field, NEW start, NEW at, StepsFrom(field, start, at)
    PROVE  Follow(field, start) = at
<1> DEFINE N == Cardinality(Node)
           Solves(f) == f = [k \in 0..N |->
                   IF k = 0 THEN start ELSE IF f[k - 1] = NULL THEN NULL ELSE field[f[k - 1]]]
           u == CHOOSE f : Solves(f)
<1>1. N \in Nat  BY NodesCounted
<1>2. Solves(at)  BY DEF StepsFrom
<1>3. Solves(u)  BY <1>2
<1>4. Follow(field, start) = u  BY DEF Follow
<1> HIDE DEF u
<1>5. /\ DOMAIN at = 0..N /\ DOMAIN u = 0..N
      /\ at = [k \in 0..N |-> at[k]] /\ u = [k \in 0..N |-> u[k]]
  BY <1>2, <1>3
<1>6. \A k \in 0..N :
         /\ at[k] = IF k = 0 THEN start ELSE IF at[k - 1] = NULL THEN NULL ELSE field[at[k - 1]]
         /\ u[k] = IF k = 0 THEN start ELSE IF u[k - 1] = NULL THEN NULL ELSE field[u[k - 1]]
  BY <1>2, <1>3
<1> HIDE DEF Solves, N
<1>7. \A k \in 0..N : u[k] = at[k]
  <2> DEFINE T == {k \in 0..N : u[k] # at[k]}
  <2> SUFFICES ASSUME T # {} PROVE FALSE  OBVIOUS
  <2>1. T \in SUBSET Nat  BY <1>1
  <2>2. PICK n \in T : \A m \in T : n <= m  BY <2>1, LeastCounterexample
  <2>3. n \in 0..N /\ u[n] # at[n]  BY <2>2
  <2>4. n # 0  BY <1>6, <2>3
  <2>5. n - 1 \in 0..N /\ ~(n <= n - 1)  BY <1>1, <2>3, <2>4
  <2>6. u[n - 1] = at[n - 1]  BY <2>2, <2>5
  <2> QED  BY <1>6, <2>3, <2>4, <2>6
<1> QED  BY <1>4, <1>5, <1>7

\* Along a path, k steps lead to the node behind the k-th.
LEMMA PathFollow ==
    ASSUME NEW field, NEW start, NEW s, Path(field, start, s)
    PROVE  /\ Follow(field, start) =
                 [k \in 0..Cardinality(Node) |-> IF k < Len(s) THEN s[k + 1] ELSE NULL]
           /\ Walk(field, start) = s
<1> DEFINE N == Cardinality(Node)
           at == [k \in 0..N |-> IF k < Len(s) THEN s[k + 1] ELSE NULL]
<1>1. /\ s \in Seq(Node) /\ NoRepeat(s)
      /\ start = IF Len(s) = 0 THEN NULL ELSE s[1]
      /\ \A i \in 1..Len(s) : field[s[i]] = IF i = Len(s) THEN NULL ELSE s[i + 1]
  BY DEF Path
<1>2. /\ Len(s) \in Nat /\ Len(s) <= N /\ N \in Nat
      /\ \A i \in 1..Len(s) : s[i] \in Node /\ s[i] # NULL
  BY <1>1, SetOfNoRepeat, NodesCounted, ElementOfSeq, NodeAssumption
<1> HIDE DEF N
<1>3. \A k \in 0..N : at[k] =
         IF k = 0 THEN start ELSE IF at[k - 1] = NULL THEN NULL ELSE field[at[k - 1]]
  <2> SUFFICES ASSUME NEW k \in 0..N
               PROVE  at[k] = IF k = 0 THEN start
                              ELSE IF at[k - 1] = NULL THEN NULL ELSE field[at[k - 1]]
    OBVIOUS
  <2>1. CASE k = 0
    BY <1>1, <1>2, <2>1
  <2>2. CASE k # 0
    <3>1. k - 1 \in 0..N /\ k \in Int  BY <1>2, <2>2
    <3>2. at[k - 1] = IF k - 1 < Len(s) THEN s[k - 1 + 1] ELSE NULL  BY <3>1
    <3>3. k - 1 + 1 = k  BY <3>1
    <3>4. CASE k - 1 < Len(s)
      <4>1. k \in 1..Len(s)  BY <1>2, <2>2, <3>4
      <4>2. at[k - 1] = s[k] /\ s[k] # NULL  BY <1>2, <3>2, <3>3, <3>4, <4>1
      <4>3. field[s[k]] = IF k = Len(s) THEN NULL ELSE s[k + 1]  BY <1>1, <4>1
      <4>4. k < Len(s) <=> k # Len(s)  BY <1>2, <4>1
      <4> QED  BY <2>2, <4>2, <4>3, <4>4
    <3>5. CASE ~(k - 1 < Len(s))
      <4>1. at[k - 1] = NULL /\ ~(k < Len(s))  BY <1>2, <3>1, <3>2, <3>5
      <4> QED  BY <2>2, <4>1
    <3> QED  BY <3>4, <3>5
  <2> QED  BY <2>1, <2>2
<1> HIDE DEF at
<1>4. at = [k \in 0..N |-> IF k = 0 THEN start
                           ELSE IF at[k - 1] = NULL THEN NULL ELSE field[at[k - 1]]]
  <2>1. at = [k \in 0..N |-> at[k]]  BY DEF at
  <2> QED  BY <1>3, <2>1
<1>5. Follow(field, start) = at
  <2>1. StepsFrom(field, start, at)  BY <1>4 DEF StepsFrom, N
  <2> QED  BY <2>1, FollowIs
<1>6. {k \in DOMAIN at : at[k] # NULL} = 0..(Len(s) - 1)
  <2>1. \A k \in DOMAIN at : at[k] # NULL <=> k < Len(s)
    <3> SUFFICES ASSUME NEW k \in 0..N PROVE at[k] # NULL <=> k < Len(s)  BY DEF at
    <3>1. at[k] = IF k < Len(s) THEN s[k + 1] ELSE NULL  BY DEF at
    <3>2. k < Len(s) => k + 1 \in 1..Len(s)  BY <1>2
    <3> QED  BY <1>2, <3>1, <3>2
  <2>2. DOMAIN at = 0..N  BY DEF at
  <2> QED  BY <1>2, <2>1, <2>2
<1>7. Cardinality(0..(Len(s) - 1)) = Len(s)
  <2>1. 0 \in Int /\ Len(s) - 1 \in Int  BY <1>2
  <2>2. Cardinality(0..(Len(s) - 1)) = IF 0 > Len(s) - 1 THEN 0 ELSE Len(s) - 1 - 0 + 1
    BY <2>1, FS_Interval
  <2> QED  BY <1>2, <2>2
<1>8. Walk(field, start) = [k \in 1..Len(s) |-> at[k - 1]]
  BY <1>5, <1>6, <1>7 DEF Walk
<1>9. \A k \in 1..Len(s) : at[k - 1] = s[k]
  <2> SUFFICES ASSUME NEW k \in 1..Len(s) PROVE at[k - 1] = s[k]  OBVIOUS
  <2>1. k - 1 \in 0..N /\ k - 1 < Len(s) /\ k - 1 + 1 = k  BY <1>2
  <2> QED  BY <2>1 DEF at
<1>10. s = [k \in 1..Len(s) |-> s[k]]  BY <1>1, LenProperties
<1>11. Walk(field, start) = s  BY <1>8, <1>9, <1>10
<1> QED  BY <1>5, <1>11 DEF at, N

-----------------------------------------------------------------------------
(***************************************************************************)
(* Which forest a heap stands for, said of the pointers: the list of n     *)
(* runs through s in both directions, and the counters are its length.     *)
(***************************************************************************)
Listed(h, n, s) ==
    /\ h.count[n] = Len(s)
    /\ h.children[n] = NULL => Len(s) = 0
    /\ h.children[n] # NULL =>
          h.children[n] = [begin |-> IF Len(s) = 0 THEN NULL ELSE s[1],
                           end   |-> IF Len(s) = 0 THEN NULL ELSE s[Len(s)],
                           count |-> Len(s)]
    /\ \A i \in 1..Len(s) :
          /\ h.next[s[i]] = IF i = Len(s) THEN NULL ELSE s[i + 1]
          /\ h.prev[s[i]] = IF i = 1 THEN NULL ELSE s[i - 1]

Pointers == [Node -> Node \cup {NULL}]

HeapType == [next : Pointers, prev : Pointers, parent : Pointers, count : [Node -> Nat],
             children : [Node -> NodeList \cup {NULL}]]

Represents(h, f) ==
    /\ h \in HeapType
    /\ h.parent = f.parent
    /\ \A n \in Node : Listed(h, n, f.kids[n])
    /\ \A n \in Node : f.parent[n] = NULL => h.next[n] = NULL /\ h.prev[n] = NULL

\* What ForestInv gives for the list of one node.
LEMMA ForestFacts ==
    ASSUME NEW f, L!ForestInv(f)
    PROVE  /\ f \in L!Forest
           /\ f = [kids |-> f.kids, parent |-> f.parent]
           /\ f.kids \in [Node -> Seq(Node)]
           /\ f.parent \in [Node -> Node \cup {NULL}]
           /\ \A n \in Node :
                 /\ f.kids[n] \in Seq(Node) /\ NoRepeat(f.kids[n])
                 /\ Len(f.kids[n]) \in Nat /\ DOMAIN f.kids[n] = 1..Len(f.kids[n])
                 /\ \A i \in 1..Len(f.kids[n]) :
                       f.kids[n][i] \in Node /\ f.parent[f.kids[n][i]] = n
                 /\ \A i, j \in 1..Len(f.kids[n]) : f.kids[n][i] = f.kids[n][j] => i = j
                 /\ \A c \in Node : f.parent[c] = n =>
                       \E i \in 1..Len(f.kids[n]) : f.kids[n][i] = c
<1>1. f \in L!Forest /\ L!Linked(f)  BY DEF L!ForestInv
<1>2. /\ f = [kids |-> f.kids, parent |-> f.parent]
      /\ f.kids \in [Node -> Seq(Node)] /\ f.parent \in [Node -> Node \cup {NULL}]
  BY <1>1 DEF L!Forest
<1>3. ASSUME NEW n \in Node
      PROVE  /\ f.kids[n] \in Seq(Node) /\ NoRepeat(f.kids[n])
             /\ Len(f.kids[n]) \in Nat /\ DOMAIN f.kids[n] = 1..Len(f.kids[n])
             /\ \A i \in 1..Len(f.kids[n]) :
                   f.kids[n][i] \in Node /\ f.parent[f.kids[n][i]] = n
             /\ \A i, j \in 1..Len(f.kids[n]) : f.kids[n][i] = f.kids[n][j] => i = j
             /\ \A c \in Node : f.parent[c] = n =>
                   \E i \in 1..Len(f.kids[n]) : f.kids[n][i] = c
  <2>1. f.kids[n] \in Seq(Node)  BY <1>2
  <2>2. /\ Len(f.kids[n]) \in Nat /\ DOMAIN f.kids[n] = 1..Len(f.kids[n])
        /\ \A i \in 1..Len(f.kids[n]) : f.kids[n][i] \in Node
    BY <2>1, LenProperties, ElementOfSeq
  <2>3. \A i, j \in DOMAIN f.kids[n] : f.kids[n][i] = f.kids[n][j] => i = j
    BY <1>1 DEF L!Linked
  <2>4. \A c \in Node : f.parent[c] = n <=> \E i \in DOMAIN f.kids[n] : f.kids[n][i] = c
    BY <1>1 DEF L!Linked, L!Children
  <2>5. ASSUME NEW i \in 1..Len(f.kids[n]) PROVE f.parent[f.kids[n][i]] = n
    BY <2>2, <2>4
  <2>6. NoRepeat(f.kids[n])  BY <2>3 DEF NoRepeat
  <2> HIDE DEF NoRepeat
  <2> QED  BY <2>1, <2>2, <2>3, <2>4, <2>5, <2>6
<1> HIDE DEF NoRepeat
<1> QED  BY <1>1, <1>2, <1>3

\* Reading a heap gives the forest.
LEMMA ReadsForest ==
    ASSUME NEW f, L!ForestInv(f), NEW h, Represents(h, f)
    PROVE  /\ \A n \in Node : ChildSeq(h, n) = f.kids[n]
           /\ \A n \in Node : h.children[n] # NULL =>
                 Follow(h.next, h.children[n].begin) =
                    [k \in 0..Cardinality(Node) |->
                       IF k < Len(f.kids[n]) THEN f.kids[n][k + 1] ELSE NULL]
           /\ ForestOf(h) = f
<1>1. ASSUME NEW n \in Node, h.children[n] # NULL
      PROVE  Path(h.next, h.children[n].begin, f.kids[n])
  <2>1. f.kids[n] \in Seq(Node) /\ NoRepeat(f.kids[n])  BY ForestFacts
  <2>2. Listed(h, n, f.kids[n])  BY DEF Represents
  <2> QED  BY <1>1, <2>1, <2>2 DEF Path, Listed
<1>2. ASSUME NEW n \in Node
      PROVE  /\ ChildSeq(h, n) = f.kids[n]
             /\ h.children[n] # NULL =>
                   Follow(h.next, h.children[n].begin) =
                      [k \in 0..Cardinality(Node) |->
                         IF k < Len(f.kids[n]) THEN f.kids[n][k + 1] ELSE NULL]
  <2>1. CASE h.children[n] = NULL
    <3>1. Len(f.kids[n]) = 0 /\ f.kids[n] \in Seq(Node)
      BY <2>1, ForestFacts DEF Represents, Listed
    <3>2. f.kids[n] = <<>>  BY <3>1, EmptySeq
    <3> QED  BY <2>1, <3>2 DEF ChildSeq
  <2>2. CASE h.children[n] # NULL
    <3>1. Path(h.next, h.children[n].begin, f.kids[n])  BY <1>1, <2>2
    <3>2. Walk(h.next, h.children[n].begin) = f.kids[n]  BY <3>1, PathFollow
    <3>3. Follow(h.next, h.children[n].begin) =
             [k \in 0..Cardinality(Node) |->
                IF k < Len(f.kids[n]) THEN f.kids[n][k + 1] ELSE NULL]
      BY <3>1, PathFollow
    <3>4. ChildSeq(h, n) = f.kids[n]  BY <2>2, <3>2 DEF ChildSeq
    <3> QED  BY <3>3, <3>4
  <2> QED  BY <2>1, <2>2
<1>3. [n \in Node |-> ChildSeq(h, n)] = f.kids
  <2>1. f.kids = [n \in Node |-> f.kids[n]]  BY ForestFacts
  <2> QED  BY <1>2, <2>1
<1>4. h.parent = f.parent /\ f = [kids |-> f.kids, parent |-> f.parent]
  BY ForestFacts DEF Represents
<1>5. ForestOf(h) = f  BY <1>3, <1>4 DEF ForestOf
<1> QED  BY <1>2, <1>5

-----------------------------------------------------------------------------
(***************************************************************************)
(* Walks up. The parent pointers lead through the ancestors to a root.     *)
(***************************************************************************)

\* From every node a path leads up, through exactly its ancestors. A set of nodes
\* without one would have a member whose parent has one.
LEMMA PathUp ==
    ASSUME NEW f, L!ForestInv(f), NEW n \in Node
    PROVE  \E s : Path(f.parent, n, s) /\ ToSet(s) = L!Ancestors(f, n)
<1> DEFINE Up(m) == \E s : Path(f.parent, m, s) /\ ToSet(s) = L!Ancestors(f, m)
           T == {m \in Node : ~Up(m)}
<1>1. f \in L!Forest /\ L!Acyclic(f) /\ f.parent \in [Node -> Node \cup {NULL}]
  BY ForestFacts DEF L!ForestInv
<1>2. T = {}
  <2> SUFFICES ASSUME T # {} PROVE FALSE  OBVIOUS
  <2>1. T \in SUBSET Node  OBVIOUS
  <2>2. PICK m \in T : f.parent[m] \notin T  BY <1>1, <2>1 DEF L!Acyclic
  <2>3. m \in Node /\ ~Up(m)  BY <2>2
  <2> HIDE DEF Up
  <2>4. CASE f.parent[m] = NULL
    <3>1. L!Ancestors(f, m) = {m}  BY <1>1, <2>3, <2>4, L!AncestorsOfChild, Constants
    <3> DEFINE s == <<m>>
    <3>2. s \in Seq(Node) /\ Len(s) = 1 /\ s[1] = m /\ DOMAIN s = 1..1  BY <2>3
    <3> HIDE DEF s
    <3>3. NoRepeat(s)
      <4>1. \A i \in DOMAIN s : i = 1  BY <3>2
      <4> QED  BY <4>1 DEF NoRepeat
    <3>4. Path(f.parent, m, s)  BY <2>4, <3>2, <3>3 DEF Path
    <3>5. ToSet(s) = {m}
      <4>1. ToSet(s) = {s[i] : i \in 1..1}  BY <3>2 DEF ToSet
      <4>2. \A i \in 1..1 : i = 1  OBVIOUS
      <4>3. 1 \in 1..1  OBVIOUS
      <4> QED  BY <3>2, <4>1, <4>2, <4>3
    <3> QED  BY <2>3, <3>1, <3>4, <3>5 DEF Up
  <2>5. CASE f.parent[m] # NULL
    <3> DEFINE p == f.parent[m]
    <3>1. p \in Node /\ Up(p)  BY <1>1, <2>2, <2>3, <2>5
    <3>2. L!Ancestors(f, m) = {m} \cup L!Ancestors(f, p)
      BY <1>1, <2>3, <2>5, L!AncestorsOfChild, Constants
    <3>3. m \notin L!Ancestors(f, p)  BY <2>3, <2>5, L!ChildNotAbove, Constants
    <3>p. p = f.parent[m]  OBVIOUS
    <3> HIDE DEF p
    <3>4. PICK t : Path(f.parent, p, t) /\ ToSet(t) = L!Ancestors(f, p)  BY <3>1 DEF Up
    <3>5. /\ t \in Seq(Node) /\ NoRepeat(t) /\ p = IF Len(t) = 0 THEN NULL ELSE t[1]
          /\ \A i \in 1..Len(t) : f.parent[t[i]] = IF i = Len(t) THEN NULL ELSE t[i + 1]
      BY <3>4 DEF Path
    <3>6. /\ Len(t) \in Nat /\ Len(t) > 0 /\ DOMAIN t = 1..Len(t) /\ t[1] = p
          /\ ToSet(t) = {t[i] : i \in 1..Len(t)}
          /\ \A i \in 1..Len(t) : t[i] \in Node /\ t[i] # m
      <4>1. Len(t) \in Nat /\ DOMAIN t = 1..Len(t) /\ \A i \in 1..Len(t) : t[i] \in Node
        BY <3>5, LenProperties, ElementOfSeq
      <4>2. ToSet(t) = {t[i] : i \in 1..Len(t)}  BY <4>1 DEF ToSet
      <4>3. Len(t) # 0  BY <3>1, <3>5, NodeAssumption
      <4>4. \A i \in 1..Len(t) : t[i] # m
        <5>1. \A i \in 1..Len(t) : t[i] \in ToSet(t)  BY <4>2
        <5> QED  BY <3>3, <3>4, <5>1
      <4>5. t[1] = p
        <5>1. p = IF Len(t) = 0 THEN NULL ELSE t[1]  BY <3>5
        <5> QED  BY <4>3, <5>1
      <4>6. Len(t) > 0
        <5>1. Len(t) \in Nat  BY <4>1
        <5> QED  BY <4>3, <5>1
      <4> QED  BY <4>1, <4>2, <4>4, <4>5, <4>6
    <3> DEFINE s == <<m>> \o t
    <3>7. /\ s \in Seq(Node) /\ Len(s) = Len(t) + 1 /\ s[1] = m
          /\ \A i \in 2..Len(s) : s[i] = t[i - 1] /\ i - 1 \in 1..Len(t)
      <4>1. <<m>> \in Seq(Node) /\ Len(<<m>>) = 1 /\ <<m>>[1] = m  BY <2>3
      <4>2. /\ s \in Seq(Node) /\ Len(s) = Len(<<m>>) + Len(t)
            /\ \A i \in 1..(Len(<<m>>) + Len(t)) :
                  s[i] = IF i <= Len(<<m>>) THEN <<m>>[i] ELSE t[i - Len(<<m>>)]
        BY <3>5, <4>1, ConcatProperties
      <4> HIDE DEF s
      <4>3. 1 \in 1..(1 + Len(t)) /\ 1 <= 1  BY <3>6
      <4>4. ASSUME NEW i \in 2..Len(s) PROVE s[i] = t[i - 1] /\ i - 1 \in 1..Len(t)
        <5>1. i \in 1..(1 + Len(t)) /\ ~(i <= 1) /\ i - 1 \in 1..Len(t)  BY <3>6, <4>1, <4>2
        <5> QED  BY <4>1, <4>2, <5>1
      <4>5. s[1] = m  BY <4>1, <4>2, <4>3
      <4>6. Len(s) = Len(t) + 1  BY <3>6, <4>1, <4>2
      <4> QED  BY <4>2, <4>4, <4>5, <4>6
    <3> HIDE DEF s
    <3>8. DOMAIN s = 1..Len(s) /\ \A i \in 1..Len(s) : i = 1 \/ i \in 2..Len(s)
      BY <3>6, <3>7, LenProperties
    <3>9. NoRepeat(s)
      <4> SUFFICES ASSUME NEW i \in 1..Len(s), NEW j \in 1..Len(s), s[i] = s[j] PROVE i = j
        BY <3>8 DEF NoRepeat
      <4>1. CASE i = 1 /\ j = 1  BY <4>1
      <4>2. CASE i = 1 /\ j # 1  BY <3>6, <3>7, <3>8, <4>2
      <4>3. CASE i # 1 /\ j = 1  BY <3>6, <3>7, <3>8, <4>3
      <4>4. CASE i # 1 /\ j # 1
        <5>1. t[i - 1] = t[j - 1] /\ i - 1 \in 1..Len(t) /\ j - 1 \in 1..Len(t)
          BY <3>7, <3>8, <4>4
        <5>2. i - 1 = j - 1  BY <3>5, <3>6, <5>1 DEF NoRepeat
        <5> QED  BY <3>6, <3>7, <5>2
      <4> QED  BY <4>1, <4>2, <4>3, <4>4
    <3>10. ASSUME NEW i \in 1..Len(s)
           PROVE  f.parent[s[i]] = IF i = Len(s) THEN NULL ELSE s[i + 1]
      <4>1. CASE i = 1
        <5>1. 2 \in 2..Len(s) /\ i # Len(s) /\ i + 1 = 2 /\ 2 - 1 = 1  BY <3>6, <3>7, <4>1
        <5>2. s[2] = p  BY <3>6, <3>7, <5>1
        <5> QED  BY <3>7, <3>p, <4>1, <5>1, <5>2
      <4>2. CASE i # 1
        <5>1. i \in 2..Len(s) /\ s[i] = t[i - 1] /\ i - 1 \in 1..Len(t)  BY <3>7, <3>8, <4>2
        <5>2. f.parent[t[i - 1]] = IF i - 1 = Len(t) THEN NULL ELSE t[i - 1 + 1]
          BY <3>5, <5>1
        <5>3. i - 1 = Len(t) <=> i = Len(s)  BY <3>6, <3>7, <5>1
        <5>4. i # Len(s) => s[i + 1] = t[i - 1 + 1]
          <6>1. i # Len(s) => i + 1 \in 2..Len(s) /\ i + 1 - 1 = i - 1 + 1
            BY <3>6, <3>7, <5>1
          <6> QED  BY <3>7, <6>1
        <5> QED  BY <5>1, <5>2, <5>3, <5>4
      <4> QED  BY <4>1, <4>2
    <3>11. m = IF Len(s) = 0 THEN NULL ELSE s[1]  BY <3>6, <3>7
    <3>12. Path(f.parent, m, s)  BY <3>7, <3>9, <3>10, <3>11 DEF Path
    <3>13. ToSet(s) = {m} \cup ToSet(t)
      <4>1. ToSet(s) = {s[i] : i \in 1..Len(s)}  BY <3>8 DEF ToSet
      <4>2. \A i \in 1..Len(s) : s[i] = m \/ s[i] \in ToSet(t)  BY <3>6, <3>7, <3>8
      <4>3. 1 \in 1..Len(s)  BY <3>6, <3>7
      <4>4. \A i \in 1..Len(t) : i + 1 \in 1..Len(s) /\ s[i + 1] = t[i]
        <5> SUFFICES ASSUME NEW i \in 1..Len(t)
                     PROVE  i + 1 \in 1..Len(s) /\ s[i + 1] = t[i]
          OBVIOUS
        <5>1. i + 1 \in 2..Len(s) /\ i + 1 \in 1..Len(s) /\ i + 1 - 1 = i  BY <3>6, <3>7
        <5> QED  BY <3>7, <5>1
      <4>5. ToSet(t) = {t[i] : i \in 1..Len(t)}  BY <3>6 DEF ToSet
      <4>6. ToSet(s) \subseteq {m} \cup ToSet(t)  BY <4>1, <4>2
      <4>7. m \in ToSet(s)  BY <3>7, <4>1, <4>3
      <4>8. ToSet(t) \subseteq ToSet(s)  BY <4>1, <4>4, <4>5
      <4> QED  BY <4>6, <4>7, <4>8
    <3> QED  BY <2>3, <3>2, <3>4, <3>12, <3>13 DEF Up
  <2> QED  BY <2>4, <2>5
<1> QED  BY <1>2

\* So the loops upwards see the ancestors, and count the depth.
LEMMA ChainIs ==
    ASSUME NEW f, L!ForestInv(f), NEW h, Represents(h, f), NEW n \in Node
    PROVE  /\ ToSet(Chain(h, n)) = L!Ancestors(f, n)
           /\ node_depth_from_root(h, n) = L!Depth(f, n)
<1>1. PICK s : Path(f.parent, n, s) /\ ToSet(s) = L!Ancestors(f, n)  BY PathUp
<1>2. Walk(f.parent, n) = s  BY <1>1, PathFollow
<1>3. Chain(h, n) = s  BY <1>2 DEF Chain, Represents
<1>4. s \in Seq(Node) /\ NoRepeat(s)  BY <1>1 DEF Path
<1>5. Cardinality(L!Ancestors(f, n)) = Len(s)  BY <1>1, <1>4, SetOfNoRepeat
<1>6. L!Depth(f, n) = Len(s) - 1  BY <1>5, SameLibrary DEF L!Depth
<1> QED  BY <1>1, <1>3, <1>6 DEF node_depth_from_root

-----------------------------------------------------------------------------
(***************************************************************************)
(* Walks down. The k-th level below a node holds its descendants that are  *)
(* k levels deeper.                                                        *)
(***************************************************************************)
LevelsFrom(h, root, at) ==
    at = [k \in 0..Cardinality(Node) |->
            IF k = 0 THEN {root} ELSE UNION {ToSet(ChildSeq(h, n)) : n \in at[k - 1]}]

\* One function satisfies its recursive definition.
LEMMA LevelSolves ==
    ASSUME NEW h, NEW root, NEW at, LevelsFrom(h, root, at)
    PROVE  Level(h, root) = at
<1> DEFINE N == Cardinality(Node)
           nextLevel(S) == UNION {ToSet(ChildSeq(h, n)) : n \in S}
           Solves(f) == f = [k \in 0..N |-> IF k = 0 THEN {root} ELSE nextLevel(f[k - 1])]
           u == CHOOSE f : Solves(f)
<1>1. N \in Nat  BY NodesCounted
<1>2. Solves(at)  BY DEF LevelsFrom
<1>3. Solves(u)  BY <1>2
<1>4. Level(h, root) = u  BY DEF Level
<1> HIDE DEF u, nextLevel
<1>5. /\ at = [k \in 0..N |-> at[k]] /\ u = [k \in 0..N |-> u[k]]
      /\ \A k \in 0..N : /\ at[k] = IF k = 0 THEN {root} ELSE nextLevel(at[k - 1])
                         /\ u[k] = IF k = 0 THEN {root} ELSE nextLevel(u[k - 1])
  BY <1>2, <1>3
<1> HIDE DEF Solves, N
<1>6. \A k \in 0..N : u[k] = at[k]
  <2> DEFINE T == {k \in 0..N : u[k] # at[k]}
  <2> SUFFICES ASSUME T # {} PROVE FALSE  OBVIOUS
  <2>1. T \in SUBSET Nat  BY <1>1
  <2>2. PICK n \in T : \A m \in T : n <= m  BY <2>1, LeastCounterexample
  <2>3. n \in 0..N /\ u[n] # at[n]  BY <2>2
  <2>4. n # 0  BY <1>5, <2>3
  <2>5. n - 1 \in 0..N /\ ~(n <= n - 1)  BY <1>1, <2>3, <2>4
  <2>6. u[n - 1] = at[n - 1]  BY <2>2, <2>5
  <2> QED  BY <1>5, <2>3, <2>4, <2>6
<1> QED  BY <1>4, <1>5, <1>6

\* The depths in a tree: a child is one deeper than its parent, and the tree is
\* left upwards only through its root.
LEMMA Depths ==
    ASSUME NEW f, L!ForestInv(f), NEW c \in Node
    PROVE  /\ c \in L!Subtree(f, c) /\ L!Subtree(f, c) \subseteq Node
           /\ \A m \in Node : L!Depth(f, m) \in Nat /\ L!Depth(f, m) < Cardinality(Node)
           /\ \A m \in Node : f.parent[m] = NULL => L!Depth(f, m) = 0
           /\ \A m \in Node : f.parent[m] # NULL => L!Depth(f, m) = L!Depth(f, f.parent[m]) + 1
           /\ \A m \in L!Subtree(f, c) : L!Depth(f, m) >= L!Depth(f, c)
           /\ \A m \in L!Subtree(f, c) : L!Depth(f, m) = L!Depth(f, c) => m = c
           /\ \A m \in Node : m # c =>
                 (m \in L!Subtree(f, c) <=> f.parent[m] \in L!Subtree(f, c))
<1> DEFINE A(m) == L!Ancestors(f, m)
<1>1. f \in L!Forest /\ f.parent \in [Node -> Node \cup {NULL}]  BY ForestFacts
<1>2. /\ c \in L!Subtree(f, c) /\ L!Subtree(f, c) \subseteq Node
      /\ \A m \in Node : m # c => (m \in L!Subtree(f, c) <=> f.parent[m] \in L!Subtree(f, c))
  BY L!SubtreeCut, Constants
<1>3. ASSUME NEW m \in Node
      PROVE  /\ m \in A(m) /\ A(m) \in SUBSET Node /\ IsFiniteSet(A(m))
             /\ L!Depth(f, m) = Cardinality(A(m)) - 1 /\ Cardinality(A(m)) \in Nat
             /\ L!Depth(f, m) \in Nat /\ L!Depth(f, m) < Cardinality(Node)
  <2>1. /\ m \in A(m) /\ A(m) \in SUBSET Node  BY L!AncestorsClosed, Constants
  <2>2. /\ L!Depth(f, m) \in Nat /\ L!Depth(f, m) = Cardinality(A(m)) - 1
        /\ Cardinality(A(m)) \in Nat
    <3>1. L!Depth(f, m) \in Nat /\ L!Depth(f, m) = L!Cardinality(L!Ancestors(f, m)) - 1
          /\ L!Cardinality(L!Ancestors(f, m)) \in Nat
      BY L!DepthType, Constants
    <3> QED  BY <3>1, SameLibrary
  <2>3. IsFiniteSet(A(m)) /\ Cardinality(A(m)) <= Cardinality(Node)
    BY <2>1, NodeAssumption, FS_Subset
  <2> QED  BY <2>1, <2>2, <2>3, NodesCounted
<1>4. ASSUME NEW m \in Node, f.parent[m] = NULL PROVE L!Depth(f, m) = 0
  <2>1. A(m) = {m}  BY <1>1, <1>4, L!AncestorsOfChild, Constants
  <2>2. Cardinality(A(m)) = 1  BY <2>1, FS_Singleton
  <2> QED  BY <1>3, <2>2
<1>5. ASSUME NEW m \in Node, f.parent[m] # NULL
      PROVE  /\ f.parent[m] \in Node /\ A(m) = {m} \cup A(f.parent[m])
             /\ m \notin A(f.parent[m])
             /\ L!Depth(f, m) = L!Depth(f, f.parent[m]) + 1
  <2>1. f.parent[m] \in Node /\ m \notin A(f.parent[m])
    BY <1>5, L!ChildNotAbove, Constants
  <2>2. A(m) = {m} \cup A(f.parent[m])  BY <1>1, <1>5, L!AncestorsOfChild, Constants
  <2>3. IsFiniteSet(A(f.parent[m]))  BY <1>3, <2>1
  <2> HIDE DEF A
  <2>4. Cardinality(A(m)) = Cardinality(A(f.parent[m])) + 1
    <3>1. A(m) = A(f.parent[m]) \cup {m}  BY <2>2
    <3> QED  BY <2>1, <2>3, <3>1, FS_AddElement
  <2>5. L!Depth(f, m) = Cardinality(A(m)) - 1 /\ Cardinality(A(m)) \in Nat  BY <1>3
  <2>6. /\ L!Depth(f, f.parent[m]) = Cardinality(A(f.parent[m])) - 1
        /\ Cardinality(A(f.parent[m])) \in Nat
    BY <1>3, <2>1
  <2> QED  BY <2>1, <2>2, <2>4, <2>5, <2>6
<1>6. ASSUME NEW m \in L!Subtree(f, c)
      PROVE  /\ L!Depth(f, m) >= L!Depth(f, c)
             /\ L!Depth(f, m) = L!Depth(f, c) => m = c
  <2>1. m \in Node /\ c \in A(m)  BY <1>6 DEF L!Subtree
  <2>2. A(c) \subseteq A(m)  BY <1>1, <2>1, L!AncestorsTransitive, Constants
  <2>3. /\ Cardinality(A(c)) <= Cardinality(A(m))
        /\ Cardinality(A(m)) = Cardinality(A(c)) => A(m) = A(c)
    <3>1. IsFiniteSet(A(m)) /\ A(c) \in SUBSET A(m)  BY <1>3, <2>1, <2>2
    <3> HIDE DEF A
    <3> QED  BY <3>1, FS_Subset
  <2>4. /\ L!Depth(f, m) = Cardinality(A(m)) - 1 /\ Cardinality(A(m)) \in Nat
        /\ L!Depth(f, c) = Cardinality(A(c)) - 1 /\ Cardinality(A(c)) \in Nat
    BY <1>3, <2>1
  <2>5. ASSUME A(m) = A(c) PROVE m = c
    <3> SUFFICES ASSUME m # c PROVE FALSE  OBVIOUS
    <3>1. f.parent[m] # NULL
      <4> SUFFICES ASSUME f.parent[m] = NULL PROVE FALSE  OBVIOUS
      <4>1. A(m) = {m}  BY <1>1, <2>1, L!AncestorsOfChild, Constants
      <4> QED  BY <2>1, <4>1
    <3>2. /\ f.parent[m] \in Node /\ A(m) = {m} \cup A(f.parent[m])
          /\ m \notin A(f.parent[m])
      BY <1>5, <2>1, <3>1
    <3>3. c \in A(f.parent[m])  BY <2>1, <3>2
    <3>4. A(c) \subseteq A(f.parent[m])
      BY <1>1, <3>2, <3>3, L!AncestorsTransitive, Constants
    <3>5. m \in A(m)  BY <1>3, <2>1
    <3> HIDE DEF A
    <3> QED  BY <2>5, <3>2, <3>4, <3>5
  <2> HIDE DEF A
  <2> QED  BY <2>3, <2>4, <2>5
<1> HIDE DEF A
<1> QED  BY <1>2, <1>3, <1>4, <1>5, <1>6

\* What the explicit stack of node_subtree_max_depth meets, level by level.
LEMMA LevelIs ==
    ASSUME NEW f, L!ForestInv(f), NEW h, Represents(h, f), NEW c \in Node
    PROVE  Level(h, c) = [k \in 0..Cardinality(Node) |->
                             {m \in L!Subtree(f, c) : L!Depth(f, m) = L!Depth(f, c) + k}]
<1> DEFINE N == Cardinality(Node)
           T == L!Subtree(f, c)
           d(m) == L!Depth(f, m)
           at == [k \in 0..N |-> {m \in T : d(m) = d(c) + k}]
<1>1. /\ c \in T /\ T \subseteq Node
      /\ \A m \in Node : d(m) \in Nat
      /\ \A m \in Node : f.parent[m] # NULL => d(m) = d(f.parent[m]) + 1
      /\ \A m \in T : d(m) = d(c) => m = c
      /\ \A m \in Node : m # c => (m \in T <=> f.parent[m] \in T)
  BY Depths
<1>1a. \A m \in T : f.parent[m] = NULL => d(m) = 0
  BY Depths
<1>1b. f.parent[c] \notin T
  BY L!SubtreeCut, Constants
<1>2. \A n \in Node : ToSet(ChildSeq(h, n)) = {m \in Node : f.parent[m] = n}
  <2> SUFFICES ASSUME NEW n \in Node
               PROVE  ToSet(ChildSeq(h, n)) = {m \in Node : f.parent[m] = n}
    OBVIOUS
  <2>1. ChildSeq(h, n) = f.kids[n]  BY ReadsForest
  <2>2. /\ DOMAIN f.kids[n] = 1..Len(f.kids[n])
        /\ \A i \in 1..Len(f.kids[n]) : f.kids[n][i] \in Node /\ f.parent[f.kids[n][i]] = n
        /\ \A m \in Node : f.parent[m] = n => \E i \in 1..Len(f.kids[n]) : f.kids[n][i] = m
    BY ForestFacts
  <2>3. ToSet(f.kids[n]) = {f.kids[n][i] : i \in 1..Len(f.kids[n])}  BY <2>2 DEF ToSet
  <2> QED  BY <2>1, <2>2, <2>3
<1>3. N \in Nat  BY NodesCounted
<1> HIDE DEF N, T, d
<1>4. ASSUME NEW k \in 0..N
      PROVE  at[k] = IF k = 0 THEN {c} ELSE UNION {ToSet(ChildSeq(h, n)) : n \in at[k - 1]}
  <2>1. CASE k = 0
    <3>1. at[k] = {m \in T : d(m) = d(c) + 0}  BY <2>1
    <3>2. \A m \in T : d(m) = d(c) + 0 <=> m = c  BY <1>1
    <3> QED  BY <1>1, <2>1, <3>1, <3>2
  <2>2. CASE k # 0
    <3>1. k - 1 \in 0..N /\ k - 1 + 1 = k  BY <1>3, <2>2
    <3>2. at[k] = {m \in T : d(m) = d(c) + k} /\ at[k - 1] = {m \in T : d(m) = d(c) + (k - 1)}
      BY <3>1
    <3>3. ASSUME NEW m \in at[k]
          PROVE  m \in UNION {ToSet(ChildSeq(h, n)) : n \in at[k - 1]}
      <4>1. m \in T /\ m \in Node /\ d(m) = d(c) + k /\ d(c) \in Nat  BY <1>1, <3>2, <3>3
      <4>2. m # c  BY <2>2, <4>1
      <4>3. f.parent[m] \in T /\ f.parent[m] \in Node /\ f.parent[m] # NULL
        BY <1>1, <4>1, <4>2, NodeAssumption
      <4>4. d(m) = d(f.parent[m]) + 1 /\ d(f.parent[m]) \in Nat  BY <1>1, <4>1, <4>3
      <4>5. d(f.parent[m]) = d(c) + (k - 1)  BY <4>1, <4>4
      <4>6. f.parent[m] \in at[k - 1]  BY <3>2, <4>3, <4>5
      <4>7. m \in ToSet(ChildSeq(h, f.parent[m]))  BY <1>2, <4>1, <4>3
      <4> HIDE DEF at
      <4> QED  BY <4>6, <4>7
    <3>4. ASSUME NEW n \in at[k - 1], NEW m \in ToSet(ChildSeq(h, n))
          PROVE  m \in at[k]
      <4>1. n \in T /\ n \in Node /\ d(n) = d(c) + (k - 1) /\ d(c) \in Nat
        BY <1>1, <3>2, <3>4
      <4>2. m \in Node /\ f.parent[m] = n /\ n # NULL  BY <1>2, <3>4, <4>1, NodeAssumption
      <4>3. m # c  BY <1>1b, <4>1, <4>2
      <4>4. m \in T /\ d(m) = d(n) + 1  BY <1>1, <4>1, <4>2, <4>3
      <4>5. d(m) = d(c) + k  BY <4>1, <4>4
      <4> QED  BY <3>2, <4>4, <4>5
    <3> HIDE DEF at
    <3>5. at[k] = UNION {ToSet(ChildSeq(h, n)) : n \in at[k - 1]}  BY <3>3, <3>4
    <3> QED  BY <2>2, <3>5
  <2> QED  BY <2>1, <2>2
<1> HIDE DEF at
<1>5. at = [k \in 0..N |-> IF k = 0 THEN {c}
                           ELSE UNION {ToSet(ChildSeq(h, n)) : n \in at[k - 1]}]
  <2>1. at = [k \in 0..N |-> at[k]]  BY DEF at
  <2> QED  BY <1>4, <2>1
<1>6. LevelsFrom(h, c, at)  BY <1>5 DEF LevelsFrom, N
<1>7. Level(h, c) = at  BY <1>6, LevelSolves
<1> QED  BY <1>7 DEF at, N, T, d

\* All levels together are the tree.
LEMMA BelowIs ==
    ASSUME NEW f, L!ForestInv(f), NEW h, Represents(h, f), NEW c \in Node
    PROVE  Below(h, c) = L!Subtree(f, c)
<1> DEFINE N == Cardinality(Node)
           T == L!Subtree(f, c)
           d(m) == L!Depth(f, m)
<1>1. Level(h, c) = [k \in 0..N |-> {m \in T : d(m) = d(c) + k}]  BY LevelIs
<1>2. \A m \in T : d(m) - d(c) \in 0..N /\ d(m) = d(c) + (d(m) - d(c))
  <2> SUFFICES ASSUME NEW m \in T
               PROVE  d(m) - d(c) \in 0..N /\ d(m) = d(c) + (d(m) - d(c))
    OBVIOUS
  <2>1. m \in Node /\ d(m) \in Nat /\ d(c) \in Nat /\ d(m) < N /\ d(m) >= d(c)
    BY Depths
  <2> QED  BY <2>1, NodesCounted
<1> HIDE DEF N, T, d
<1>3. \A k \in 0..N : Level(h, c)[k] = {m \in T : d(m) = d(c) + k}  BY <1>1
<1>4. Below(h, c) = UNION {Level(h, c)[k] : k \in 0..N}  BY DEF Below, N
<1>5. \A m \in T : m \in Level(h, c)[d(m) - d(c)]  BY <1>2, <1>3
<1>6. \A k \in 0..N : \A m \in Level(h, c)[k] : m \in T  BY <1>3
<1>7. Below(h, c) = T  BY <1>2, <1>4, <1>5, <1>6
<1> QED  BY <1>7 DEF T

\* Numbers that go down to 0 without a gap.
LEMMA NoGap ==
    ASSUME NEW N \in Nat, NEW K \in SUBSET (0..N), 0 \in K,
           \A k \in K : k = 0 \/ k - 1 \in K
    PROVE  /\ Cardinality(K) \in Nat
           /\ \A k \in 0..N : k \in K <=> k < Cardinality(K)
           /\ Cardinality(K) > 0
<1> DEFINE T == (0..(N + 1)) \ K
<1>0. \A k \in K : k \in 0..N /\ k \in Nat  OBVIOUS
<1>1. T \in SUBSET Nat /\ N + 1 \in T  OBVIOUS
<1>2. PICK n \in T : \A m \in T : n <= m  BY <1>1, LeastCounterexample
<1>3. n \in 0..(N + 1) /\ n \notin K /\ n # 0  BY <1>2
<1>4. \A k \in 0..(n - 1) : k \in K
  <2> SUFFICES ASSUME NEW k \in 0..(n - 1), k \notin K PROVE FALSE  OBVIOUS
  <2>1. k \in T /\ ~(n <= k)  BY <1>3
  <2> QED  BY <1>2, <2>1
<1>5. \A k \in K : k < n
  <2> DEFINE U == {k \in K : k >= n}
  <2> SUFFICES ASSUME U # {} PROVE FALSE  BY <1>3
  <2>1. U \in SUBSET Nat
    <3>1. \A k \in K : k \in Nat  BY <1>0
    <3> QED  BY <3>1
  <2>2. PICK k \in U : \A m \in U : k <= m  BY <2>1, LeastCounterexample
  <2>3. k \in K /\ k >= n /\ k \in 0..N  BY <2>2
  <2>4. k # n /\ k # 0  BY <1>3, <2>3
  <2>5. k - 1 \in K /\ k - 1 >= n  BY <1>3, <2>3, <2>4
  <2>6. k - 1 \in U /\ ~(k <= k - 1)  BY <2>3, <2>5
  <2> QED  BY <2>2, <2>6
<1>6. K = 0..(n - 1)
  <2>1. \A k \in K : k \in 0..(n - 1)
    <3> SUFFICES ASSUME NEW k \in K PROVE k \in 0..(n - 1)  OBVIOUS
    <3>1. k \in Nat /\ k < n /\ n \in Nat  BY <1>0, <1>3, <1>5
    <3> QED  BY <3>1
  <2> QED  BY <1>4, <2>1
<1>7. Cardinality(K) = n
  <2>1. 0 \in Int /\ n - 1 \in Int  BY <1>3
  <2>2. Cardinality(0..(n - 1)) = IF 0 > n - 1 THEN 0 ELSE n - 1 - 0 + 1  BY <2>1, FS_Interval
  <2> QED  BY <1>3, <1>6, <2>2
<1> QED  BY <1>3, <1>4, <1>5, <1>7

\* node_subtree_max_depth of a root: some node below it is deeper than a bound
\* exactly when this number is above the bound.
LEMMA MaxDepthIs ==
    ASSUME NEW f, L!ForestInv(f), NEW h, Represents(h, f), NEW c \in Node,
           f.parent[c] = NULL
    PROVE  /\ node_subtree_max_depth(h, c) \in Nat
           /\ \A b \in Int : node_subtree_max_depth(h, c) > b
                 <=> \E m \in L!Subtree(f, c) : L!Depth(f, m) > b
<1> DEFINE N == Cardinality(Node)
           T == L!Subtree(f, c)
           d(m) == L!Depth(f, m)
           K == {k \in 0..N : Level(h, c)[k] # {}}
<1>1. Level(h, c) = [k \in 0..N |-> {m \in T : d(m) = d(c) + k}]  BY LevelIs
<1>2. /\ d(c) = 0 /\ c \in T /\ T \subseteq Node
      /\ \A m \in Node : d(m) \in Nat /\ d(m) < N
      /\ \A m \in Node : f.parent[m] # NULL => d(m) = d(f.parent[m]) + 1
      /\ \A m \in Node : m # c => (m \in T <=> f.parent[m] \in T)
  BY Depths
<1>2a. \A m \in T : d(m) = 0 => m = c
  <2>1. \A m \in T : d(m) = d(c) => m = c  BY Depths
  <2> QED  BY <1>2, <2>1
<1>3. N \in Nat  BY NodesCounted
<1>4. node_subtree_max_depth(h, c) = Cardinality(K) - 1  BY DEF node_subtree_max_depth
<1> HIDE DEF N, T, d
<1>5. \A k \in 0..N : k \in K <=> \E m \in T : d(m) = k
  <2> SUFFICES ASSUME NEW k \in 0..N PROVE k \in K <=> \E m \in T : d(m) = k  OBVIOUS
  <2>1. Level(h, c)[k] = {m \in T : d(m) = d(c) + k}  BY <1>1
  <2>2. d(c) + k = k  BY <1>2, <1>3
  <2> QED  BY <2>1, <2>2
<1>6. K \in SUBSET (0..N)  OBVIOUS
<1> HIDE DEF K
<1>7. \A k \in K : k = 0 \/ k - 1 \in K
  <2> SUFFICES ASSUME NEW k \in K, k # 0 PROVE k - 1 \in K  OBVIOUS
  <2>1. k \in 0..N /\ k - 1 \in 0..N  BY <1>3, <1>6
  <2>2. PICK m \in T : d(m) = k  BY <1>5, <2>1
  <2>3. m # c  BY <1>2, <2>2
  <2>4. f.parent[m] \in T /\ f.parent[m] # NULL  BY <1>2, <2>2, <2>3, NodeAssumption
  <2>5. d(m) = d(f.parent[m]) + 1 /\ d(f.parent[m]) \in Nat  BY <1>2, <2>2, <2>4
  <2>6. d(f.parent[m]) = k - 1  BY <2>1, <2>2, <2>5
  <2> QED  BY <1>5, <2>1, <2>4, <2>6
<1>8. 0 \in K  BY <1>2, <1>3, <1>5
<1>9. /\ Cardinality(K) \in Nat /\ Cardinality(K) > 0
      /\ \A k \in 0..N : k \in K <=> k < Cardinality(K)
  BY <1>3, <1>6, <1>7, <1>8, NoGap
<1>10. Cardinality(K) <= N + 1
  <2>1. IsFiniteSet(0..N) /\ Cardinality(0..N) = N + 1
    <3>1. 0 \in Int /\ N \in Int  BY <1>3
    <3>2. /\ IsFiniteSet(0..N)
          /\ Cardinality(0..N) = IF 0 > N THEN 0 ELSE N - 0 + 1
      BY <3>1, FS_Interval
    <3> QED  BY <1>3, <3>2
  <2>2. Cardinality(K) <= Cardinality(0..N)  BY <1>6, <2>1, FS_Subset
  <2> QED  BY <2>1, <2>2
<1>11. ASSUME NEW b \in Int, Cardinality(K) - 1 > b PROVE \E m \in T : d(m) > b
  <2> DEFINE k == Cardinality(K) - 1
  <2>1. k \in 0..N /\ k < Cardinality(K) /\ k > b  BY <1>3, <1>9, <1>10, <1>11
  <2> HIDE DEF k
  <2>2. PICK m \in T : d(m) = k  BY <1>5, <1>9, <2>1
  <2> QED  BY <2>1, <2>2
<1>12. ASSUME NEW b \in Int, NEW m \in T, d(m) > b PROVE Cardinality(K) - 1 > b
  <2>1. d(m) \in Nat /\ d(m) < N  BY <1>2, <1>12
  <2>2. d(m) \in 0..N  BY <1>3, <2>1
  <2>3. d(m) < Cardinality(K)  BY <1>5, <1>9, <2>2
  <2> QED  BY <1>9, <1>12, <2>1, <2>3
<1>13. Cardinality(K) - 1 \in Nat  BY <1>9
<1>14. \A b \in Int : Cardinality(K) - 1 > b <=> \E m \in T : d(m) > b  BY <1>11, <1>12
<1> QED  BY <1>4, <1>13, <1>14 DEF T, d

\* So the pointer-level guard decides as the forest's does.
LEMMA GuardIs ==
    ASSUME NEW f, L!ForestInv(f), NEW h, Represents(h, f),
           NEW p \in Node \cup {NULL}, NEW c \in Node \cup {NULL}
    PROVE  attach_guard(h, p, c) = L!attach_guard(f, p, c)
<1>1. CASE NULL \in {p, c}
  BY <1>1, SameCodes DEF attach_guard, L!attach_guard
<1>2. CASE NULL \notin {p, c}
  <2>1. p \in Node /\ c \in Node /\ h.parent = f.parent  BY <1>2 DEF Represents
  <2>2. CASE f.parent[c] # NULL
    BY <1>2, <2>1, <2>2, SameCodes DEF attach_guard, L!attach_guard
  <2>3. CASE f.parent[c] = NULL
    <3>1. p \in L!Ancestors(f, p)  BY <2>1, L!AncestorsClosed, Constants
    <3>2. p = c \/ would_create_cycle(h, p, c) <=> L!would_create_cycle(f, p, c)
      <4>1. ToSet(Chain(h, p)) = L!Ancestors(f, p)  BY <2>1, ChainIs
      <4> QED  BY <3>1, <4>1 DEF would_create_cycle, L!would_create_cycle
    <3>3. node_depth_from_root(h, p) + 1 + node_subtree_max_depth(h, c) > MaxDepth
            <=> L!exceeds_max_depth(f, p, c)
      <4> DEFINE D == L!Depth(f, p)
                 M == node_subtree_max_depth(h, c)
      <4>1. node_depth_from_root(h, p) = D  BY <2>1, ChainIs
      <4>2. D \in Nat /\ \A m \in Node : L!Depth(f, m) \in Nat  BY <2>1, Depths
      <4>3. M \in Nat /\ \A b \in Int : M > b <=> \E m \in L!Subtree(f, c) : L!Depth(f, m) > b
        BY <2>1, <2>3, MaxDepthIs
      <4>4. L!Subtree(f, c) \subseteq Node  BY <2>1, Depths
      <4>5. L!exceeds_max_depth(f, p, c)
              <=> \E m \in L!Subtree(f, c) : D + 1 + L!Depth(f, m) > MaxDepth
        BY DEF L!exceeds_max_depth
      <4> HIDE DEF D, M
      <4>6. MaxDepth - D - 1 \in Int  BY <4>2, MaxDepthAssumption
      <4>7. D + 1 + M > MaxDepth <=> M > MaxDepth - D - 1
        BY <4>2, <4>3, MaxDepthAssumption
      <4>8. \A m \in L!Subtree(f, c) :
               D + 1 + L!Depth(f, m) > MaxDepth <=> L!Depth(f, m) > MaxDepth - D - 1
        <5> SUFFICES ASSUME NEW m \in L!Subtree(f, c)
                     PROVE  D + 1 + L!Depth(f, m) > MaxDepth
                              <=> L!Depth(f, m) > MaxDepth - D - 1
          OBVIOUS
        <5>1. L!Depth(f, m) \in Nat  BY <4>2, <4>4
        <5> QED  BY <4>2, <5>1, MaxDepthAssumption
      <4>9. M > MaxDepth - D - 1
              <=> \E m \in L!Subtree(f, c) : L!Depth(f, m) > MaxDepth - D - 1
        BY <4>3, <4>6
      <4>10. D + 1 + M > MaxDepth <=> L!exceeds_max_depth(f, p, c)
        BY <4>5, <4>7, <4>8, <4>9
      <4> QED  BY <4>1, <4>10 DEF M
    <3> QED  BY <1>2, <2>1, <2>3, <3>2, <3>3, SameCodes DEF attach_guard, L!attach_guard
  <2> QED  BY <2>2, <2>3
<1> QED  BY <1>1, <1>2

-----------------------------------------------------------------------------
(***************************************************************************)
(* The pointer surgery. Between the nodes before and cur of the list of p, *)
(* or at an end where one of them is NULL, c is put.                       *)
(***************************************************************************)
SplicedNext(h, c, before, cur) ==
    [m \in Node |-> IF m = c THEN cur ELSE IF m = before THEN c ELSE h.next[m]]
SplicedPrev(h, c, before, cur) ==
    [m \in Node |-> IF m = c THEN before ELSE IF m = cur THEN c ELSE h.prev[m]]
SplicedList(list, c, before, cur) ==
    [begin |-> IF before = NULL THEN c ELSE list.begin,
     end   |-> IF cur = NULL THEN c ELSE list.end,
     count |-> list.count + 1]

\* g is h with c put there and told so.
Spliced(g, h, p, c, before, cur) ==
    /\ g = [next |-> g.next, prev |-> g.prev, parent |-> g.parent,
            count |-> g.count, children |-> g.children]
    /\ g.next = SplicedNext(h, c, before, cur)
    /\ g.prev = SplicedPrev(h, c, before, cur)
    /\ g.parent = [h.parent EXCEPT ![c] = p]
    /\ g.count = [h.count EXCEPT ![p] = @ + 1]
    /\ g.children = [h.children EXCEPT ![p] = SplicedList(h.children[p], c, before, cur)]

\* The types a heap has, one by one.
LEMMA HeapFacts ==
    ASSUME NEW h, h \in HeapType
    PROVE  /\ h = [next |-> h.next, prev |-> h.prev, parent |-> h.parent,
                   count |-> h.count, children |-> h.children]
           /\ h.next \in [Node -> Node \cup {NULL}] /\ h.prev \in [Node -> Node \cup {NULL}]
           /\ h.parent \in [Node -> Node \cup {NULL}] /\ h.count \in [Node -> Nat]
           /\ h.children \in [Node -> NodeList \cup {NULL}]
           /\ \A n \in Node : h.children[n] # NULL =>
                 /\ h.children[n].begin \in Node \cup {NULL}
                 /\ h.children[n].end \in Node \cup {NULL}
                 /\ h.children[n].count \in Nat
<1>1. /\ h = [next |-> h.next, prev |-> h.prev, parent |-> h.parent,
              count |-> h.count, children |-> h.children]
      /\ h.next \in Pointers /\ h.prev \in Pointers
      /\ h.parent \in Pointers /\ h.count \in [Node -> Nat]
      /\ h.children \in [Node -> NodeList \cup {NULL}]
  BY DEF HeapType
<1>2. ASSUME NEW n \in Node, h.children[n] # NULL
      PROVE  /\ h.children[n].begin \in Node \cup {NULL}
             /\ h.children[n].end \in Node \cup {NULL}
             /\ h.children[n].count \in Nat
  <2>1. h.children[n] \in NodeList  BY <1>1, <1>2
  <2> QED  BY <2>1 DEF NodeList
<1> QED  BY <1>1, <1>2 DEF Pointers

\* The list operations on sequences, as ForestLemmas has them.
LEMMA Inserted ==
    ASSUME NEW q \in Seq(Node), NEW i \in 1..(Len(q) + 1), NEW e \in Node
    PROVE  /\ InsertAt(q, i, e) \in Seq(Node)
           /\ Len(InsertAt(q, i, e)) = Len(q) + 1
           /\ \A j \in 1..(Len(q) + 1) : InsertAt(q, i, e)[j] =
                 IF j < i THEN q[j] ELSE IF j = i THEN e ELSE q[j - 1]
<1>1. L!InsertAt(q, i, e) = InsertAt(q, i, e)  BY SameLibrary
<1>2. /\ L!InsertAt(q, i, e) \in Seq(Node)
      /\ Len(L!InsertAt(q, i, e)) = Len(q) + 1
      /\ \A j \in 1..(Len(q) + 1) : L!InsertAt(q, i, e)[j] =
            IF j < i THEN q[j] ELSE IF j = i THEN e ELSE q[j - 1]
  BY L!InsertAtProperties, Constants
<1> QED  BY <1>1, <1>2

LEMMA Removed ==
    ASSUME NEW q \in Seq(Node), NEW i \in 1..Len(q)
    PROVE  /\ RemoveAt(q, i) \in Seq(Node)
           /\ Len(RemoveAt(q, i)) = Len(q) - 1
           /\ \A j \in 1..(Len(q) - 1) : RemoveAt(q, i)[j] = IF j < i THEN q[j] ELSE q[j + 1]
<1>1. L!RemoveAt(q, i) = RemoveAt(q, i)  BY SameLibrary
<1>2. /\ L!RemoveAt(q, i) \in Seq(Node)
      /\ Len(L!RemoveAt(q, i)) = Len(q) - 1
      /\ \A j \in 1..(Len(q) - 1) : L!RemoveAt(q, i)[j] = IF j < i THEN q[j] ELSE q[j + 1]
  BY L!RemoveAtProperties, Constants
<1> QED  BY <1>1, <1>2

LEMMA SpliceRepresents ==
    ASSUME NEW f, L!ForestInv(f), NEW h, Represents(h, f),
           NEW p \in Node, NEW c \in Node, f.parent[c] = NULL,
           h.children[p] # NULL,
           NEW i \in 1..(Len(f.kids[p]) + 1),
           NEW before, before = IF i = 1 THEN NULL ELSE f.kids[p][i - 1],
           NEW cur, cur = IF i = Len(f.kids[p]) + 1 THEN NULL ELSE f.kids[p][i],
           NEW g, Spliced(g, h, p, c, before, cur)
    PROVE  Represents(g, L!Link(f, p, i, c))
<1> DEFINE q == f.kids[p]
           l == Len(q)
           k == L!Link(f, p, i, c)
           r == InsertAt(q, i, c)
<1>1. /\ f.kids \in [Node -> Seq(Node)] /\ f.parent \in [Node -> Node \cup {NULL}]
      /\ q \in Seq(Node) /\ l \in Nat
      /\ \A j \in 1..l : q[j] \in Node /\ f.parent[q[j]] = p
      /\ \A j, m \in 1..l : q[j] = q[m] => j = m
  BY ForestFacts
<1>2. /\ h \in HeapType /\ h.parent = f.parent
      /\ \A n \in Node : Listed(h, n, f.kids[n])
      /\ \A n \in Node : f.parent[n] = NULL => h.next[n] = NULL /\ h.prev[n] = NULL
  BY DEF Represents
<1>3. k = [kids |-> [f.kids EXCEPT ![p] = r], parent |-> [f.parent EXCEPT ![c] = p]]
  BY SameLibrary DEF L!Link
<1>4. /\ k.kids = [f.kids EXCEPT ![p] = r] /\ k.parent = [f.parent EXCEPT ![c] = p]
      /\ k.kids[p] = r
      /\ \A n \in Node : n # p => k.kids[n] = f.kids[n]
  BY <1>1, <1>3
<1>5. /\ r \in Seq(Node) /\ Len(r) = l + 1
      /\ \A j \in 1..(l + 1) : r[j] = IF j < i THEN q[j] ELSE IF j = i THEN c ELSE q[j - 1]
  <2>1. ASSUME NEW x \in Seq(Node), i \in 1..(Len(x) + 1)
        PROVE  /\ InsertAt(x, i, c) \in Seq(Node)
               /\ Len(InsertAt(x, i, c)) = Len(x) + 1
               /\ \A j \in 1..(Len(x) + 1) : InsertAt(x, i, c)[j] =
                     IF j < i THEN x[j] ELSE IF j = i THEN c ELSE x[j - 1]
    BY <2>1, Inserted
  <2>2. q \in Seq(Node) /\ i \in 1..(Len(q) + 1) /\ r = InsertAt(q, i, c) /\ l = Len(q)
    BY <1>1
  <2> HIDE DEF q, r, l
  <2> QED  BY <2>1, <2>2
<1>6. /\ g = [next |-> g.next, prev |-> g.prev, parent |-> g.parent,
              count |-> g.count, children |-> g.children]
      /\ g.next = [m \in Node |-> IF m = c THEN cur ELSE IF m = before THEN c ELSE h.next[m]]
      /\ g.prev = [m \in Node |-> IF m = c THEN before ELSE IF m = cur THEN c ELSE h.prev[m]]
      /\ g.parent = [h.parent EXCEPT ![c] = p]
      /\ g.count = [h.count EXCEPT ![p] = @ + 1]
      /\ g.children = [h.children EXCEPT ![p] = SplicedList(h.children[p], c, before, cur)]
  BY DEF Spliced, SplicedNext, SplicedPrev
<1>k. k = L!Link(f, p, i, c)  OBVIOUS
<1> HIDE DEF k, r, q, l
<1>7. /\ i \in Nat /\ i >= 1 /\ i <= l + 1 /\ l \in Nat
      /\ before = IF i = 1 THEN NULL ELSE q[i - 1]
      /\ cur = IF i = l + 1 THEN NULL ELSE q[i]
      /\ i # 1 => i - 1 \in 1..l
      /\ i # l + 1 => i \in 1..l
  <2>1. /\ i \in 1..(l + 1) /\ before = IF i = 1 THEN NULL ELSE q[i - 1]
        /\ cur = IF i = l + 1 THEN NULL ELSE q[i]
    BY DEF q, l
  <2>2. l \in Nat  BY <1>1
  <2> QED  BY <2>1, <2>2
<1>8. /\ before \in Node \cup {NULL} /\ cur \in Node \cup {NULL}
      /\ before \in Node => f.parent[before] = p
      /\ cur \in Node => f.parent[cur] = p
      /\ before = NULL <=> i = 1
      /\ cur = NULL <=> i = l + 1
  BY <1>1, <1>7, NodeAssumption
<1>9. g \in HeapType
  <2>1. /\ h.next \in [Node -> Node \cup {NULL}] /\ h.prev \in [Node -> Node \cup {NULL}]
        /\ h.parent \in [Node -> Node \cup {NULL}] /\ h.count \in [Node -> Nat]
        /\ h.children \in [Node -> NodeList \cup {NULL}]
        /\ h.children[p].begin \in Node \cup {NULL}
        /\ h.children[p].end \in Node \cup {NULL} /\ h.children[p].count \in Nat
    BY <1>2, HeapFacts
  <2>2. g.next \in [Node -> Node \cup {NULL}]  BY <1>6, <1>8, <2>1
  <2>3. g.prev \in [Node -> Node \cup {NULL}]  BY <1>6, <1>8, <2>1
  <2>4. g.parent \in [Node -> Node \cup {NULL}]  BY <1>6, <2>1
  <2>5. g.count \in [Node -> Nat]  BY <1>6, <2>1
  <2>6. SplicedList(h.children[p], c, before, cur) \in NodeList
    BY <2>1 DEF SplicedList, NodeList
  <2>7. g.children \in [Node -> NodeList \cup {NULL}]  BY <1>6, <2>1, <2>6
  <2> QED  BY <1>6, <2>2, <2>3, <2>4, <2>5, <2>7 DEF HeapType, Pointers
<1>10. g.parent = k.parent  BY <1>2, <1>4, <1>6
<1>11. \A m \in Node : m # c /\ f.parent[m] # p =>
          g.next[m] = h.next[m] /\ g.prev[m] = h.prev[m]
  BY <1>6, <1>8
<1>12. ASSUME NEW n \in Node, k.parent[n] = NULL PROVE g.next[n] = NULL /\ g.prev[n] = NULL
  <2>1. n # c /\ f.parent[n] = NULL  BY <1>1, <1>4, <1>12, NodeAssumption
  <2> QED  BY <1>2, <1>11, <2>1, NodeAssumption
<1>13. ASSUME NEW n \in Node, n # p PROVE Listed(g, n, k.kids[n])
  <2> DEFINE s == f.kids[n]
  <2>1. k.kids[n] = s  BY <1>4, <1>13
  <2>2. \A j \in 1..Len(s) : s[j] \in Node /\ f.parent[s[j]] = n  BY ForestFacts
  <2>3. /\ h.count[n] = Len(s)
        /\ h.children[n] = NULL => Len(s) = 0
        /\ h.children[n] # NULL =>
              h.children[n] = [begin |-> IF Len(s) = 0 THEN NULL ELSE s[1],
                               end   |-> IF Len(s) = 0 THEN NULL ELSE s[Len(s)],
                               count |-> Len(s)]
        /\ \A j \in 1..Len(s) :
              /\ h.next[s[j]] = IF j = Len(s) THEN NULL ELSE s[j + 1]
              /\ h.prev[s[j]] = IF j = 1 THEN NULL ELSE s[j - 1]
    BY <1>2 DEF Listed
  <2> HIDE DEF s
  <2>4. h.count \in [Node -> Nat] /\ h.children \in [Node -> NodeList \cup {NULL}]
    BY <1>2, HeapFacts
  <2>5. g.count[n] = h.count[n] /\ g.children[n] = h.children[n]  BY <1>6, <1>13, <2>4
  <2>6. \A j \in 1..Len(s) : s[j] # c /\ f.parent[s[j]] # p  BY <1>13, <2>2, NodeAssumption
  <2>7. \A j \in 1..Len(s) : g.next[s[j]] = h.next[s[j]] /\ g.prev[s[j]] = h.prev[s[j]]
    BY <1>11, <2>2, <2>6
  <2> QED  BY <2>1, <2>3, <2>5, <2>7 DEF Listed
<1>14. Listed(g, p, r)
  <2>1. /\ h.count[p] = l
        /\ h.children[p] = [begin |-> IF l = 0 THEN NULL ELSE q[1],
                            end   |-> IF l = 0 THEN NULL ELSE q[l], count |-> l]
        /\ \A j \in 1..l : /\ h.next[q[j]] = IF j = l THEN NULL ELSE q[j + 1]
                           /\ h.prev[q[j]] = IF j = 1 THEN NULL ELSE q[j - 1]
    BY <1>2 DEF Listed, q, l
  <2>2. h.count \in [Node -> Nat] /\ h.children \in [Node -> NodeList \cup {NULL}]
    BY <1>2, HeapFacts
  <2>3. g.count[p] = Len(r)  BY <1>5, <1>6, <2>1, <2>2
  <2>4. g.children[p] = [begin |-> IF Len(r) = 0 THEN NULL ELSE r[1],
                         end   |-> IF Len(r) = 0 THEN NULL ELSE r[Len(r)], count |-> Len(r)]
    <3>1. g.children[p] = SplicedList(h.children[p], c, before, cur)  BY <1>6, <2>2
    <3>2. /\ h.children[p].begin = (IF l = 0 THEN NULL ELSE q[1])
          /\ h.children[p].end = (IF l = 0 THEN NULL ELSE q[l])
          /\ h.children[p].count = l
      BY <2>1
    <3>3. (IF before = NULL THEN c ELSE h.children[p].begin) = r[1]
      <4>1. 1 \in 1..(l + 1)  BY <1>1
      <4>2. r[1] = IF 1 < i THEN q[1] ELSE IF 1 = i THEN c ELSE q[1 - 1]  BY <1>5, <4>1
      <4>3. CASE i = 1  BY <1>8, <4>2, <4>3
      <4>4. CASE i # 1
        <5>1. 1 < i /\ l # 0 /\ before # NULL  BY <1>1, <1>7, <1>8, <4>4
        <5> QED  BY <3>2, <4>2, <5>1
      <4> QED  BY <4>3, <4>4
    <3>4. (IF cur = NULL THEN c ELSE h.children[p].end) = r[l + 1]
      <4>1. PICK j \in 1..(l + 1) : j = l + 1  BY <1>1
      <4>2. r[j] = IF j < i THEN q[j] ELSE IF j = i THEN c ELSE q[j - 1]  BY <1>5
      <4>3. CASE i = l + 1
        <5>1. ~(j < i) /\ j = i  BY <1>1, <4>1, <4>3
        <5> QED  BY <1>8, <4>1, <4>2, <4>3, <5>1
      <4>4. CASE i # l + 1
        <5>1. ~(j < i) /\ l # 0 /\ cur # NULL /\ j - 1 = l /\ j # i
          BY <1>1, <1>7, <1>8, <4>1, <4>4
        <5>2. r[j] = q[l]  BY <4>2, <5>1
        <5> QED  BY <3>2, <4>1, <5>1, <5>2
      <4> QED  BY <4>3, <4>4
    <3>5. Len(r) # 0 /\ Len(r) = l + 1  BY <1>1, <1>5
    <3> QED  BY <3>1, <3>2, <3>3, <3>4, <3>5 DEF SplicedList
  <2>5. g.children[p] # NULL
    <3>1. g.children[p] \in NodeList
      <4>1. h.children[p] # NULL  OBVIOUS
      <4>2. /\ h.children[p].begin \in Node \cup {NULL}
            /\ h.children[p].end \in Node \cup {NULL} /\ h.children[p].count \in Nat
        BY <1>2, <4>1, HeapFacts
      <4>3. g.children[p] = SplicedList(h.children[p], c, before, cur)  BY <1>6, <2>2
      <4> QED  BY <4>2, <4>3 DEF SplicedList, NodeList
    <3> QED  BY <3>1, ListAssumption
  <2>6. ASSUME NEW j \in 1..Len(r)
        PROVE  /\ g.next[r[j]] = IF j = Len(r) THEN NULL ELSE r[j + 1]
               /\ g.prev[r[j]] = IF j = 1 THEN NULL ELSE r[j - 1]
    <3>0. j \in 1..(l + 1) /\ Len(r) = l + 1 /\ j \in Nat  BY <1>1, <1>5
    <3>c. \A m \in 1..l : q[m] # c  BY <1>1, NodeAssumption
    <3>n. \A m \in 1..l : /\ g.next[q[m]] = IF q[m] = before THEN c ELSE h.next[q[m]]
                          /\ g.prev[q[m]] = IF q[m] = cur THEN c ELSE h.prev[q[m]]
      <4> SUFFICES ASSUME NEW m \in 1..l
                   PROVE  /\ g.next[q[m]] = IF q[m] = before THEN c ELSE h.next[q[m]]
                          /\ g.prev[q[m]] = IF q[m] = cur THEN c ELSE h.prev[q[m]]
        OBVIOUS
      <4>1. q[m] \in Node /\ q[m] # c  BY <1>1, <3>c
      <4> QED  BY <1>6, <4>1
    <3>b. \A m \in 1..l : q[m] = before <=> m = i - 1
      <4> SUFFICES ASSUME NEW m \in 1..l PROVE q[m] = before <=> m = i - 1  OBVIOUS
      <4>1. q[m] \in Node /\ m >= 1  BY <1>1
      <4>2. CASE i = 1
        <5>1. before = NULL  BY <1>8, <4>2
        <5> QED  BY <4>1, <4>2, <5>1, NodeAssumption
      <4>3. CASE i # 1
        <5>1. i - 1 \in 1..l /\ before = q[i - 1]  BY <1>7, <4>3
        <5> QED  BY <1>1, <5>1
      <4> QED  BY <4>2, <4>3
    <3>d. \A m \in 1..l : q[m] = cur <=> m = i
      <4> SUFFICES ASSUME NEW m \in 1..l PROVE q[m] = cur <=> m = i  OBVIOUS
      <4>1. q[m] \in Node /\ m <= l /\ m \in Nat /\ l \in Nat  BY <1>1
      <4>2. CASE i = l + 1
        <5>1. cur = NULL  BY <1>7, <4>2
        <5> QED  BY <4>1, <4>2, <5>1, NodeAssumption
      <4>3. CASE i # l + 1
        <5>1. i \in 1..l /\ cur = q[i]  BY <1>7, <4>3
        <5> QED  BY <1>1, <5>1
      <4> QED  BY <4>2, <4>3
    <3>1. CASE j < i
      <4>1. r[j] = q[j] /\ j \in 1..l  BY <1>5, <1>7, <3>0, <3>1
      <4>2. j + 1 \in 1..(l + 1) /\ j # l + 1  BY <1>7, <3>0, <3>1
      <4>3. r[j + 1] = IF j + 1 < i THEN q[j + 1] ELSE IF j + 1 = i THEN c ELSE q[j + 1 - 1]
        BY <1>5, <4>2
      <4>4. g.next[q[j]] = r[j + 1]
        <5>1. CASE j = i - 1
          <6>1. j + 1 = i /\ ~(j + 1 < i)  BY <1>7, <5>1
          <6> QED  BY <3>b, <3>n, <4>1, <4>3, <5>1, <6>1
        <5>2. CASE j # i - 1
          <6>1. j + 1 < i /\ j # l  BY <1>7, <3>0, <3>1, <5>2
          <6> QED  BY <2>1, <3>b, <3>n, <4>1, <4>3, <5>2, <6>1
        <5> QED  BY <5>1, <5>2
      <4>5. g.prev[q[j]] = IF j = 1 THEN NULL ELSE r[j - 1]
        <5>1. j # i  BY <1>7, <3>0, <3>1
        <5>2. g.prev[q[j]] = IF j = 1 THEN NULL ELSE q[j - 1]  BY <2>1, <3>d, <3>n, <4>1, <5>1
        <5>3. j # 1 => r[j - 1] = q[j - 1]
          <6>1. j # 1 => j - 1 \in 1..(l + 1) /\ j - 1 < i  BY <1>7, <3>0, <3>1
          <6> QED  BY <1>5, <6>1
        <5> QED  BY <5>2, <5>3
      <4> QED  BY <3>0, <4>1, <4>2, <4>4, <4>5
    <3>2. CASE j = i
      <4>1. r[j] = c  BY <1>5, <1>7, <3>0, <3>2
      <4>2. g.next[c] = cur /\ g.prev[c] = before  BY <1>6
      <4>3. i # l + 1 => r[i + 1] = q[i]
        <5>1. i # l + 1 => i + 1 \in 1..(l + 1) /\ ~(i + 1 < i) /\ i + 1 # i /\ i + 1 - 1 = i
          BY <1>7
        <5> QED  BY <1>5, <5>1
      <4>4. i # 1 => r[i - 1] = q[i - 1]
        <5>1. i # 1 => i - 1 \in 1..(l + 1) /\ i - 1 < i  BY <1>1, <1>7
        <5> QED  BY <1>5, <5>1
      <4> QED  BY <1>7, <3>0, <3>2, <4>1, <4>2, <4>3, <4>4
    <3>3. CASE j > i
      <4>1. /\ j - 1 \in 1..l /\ ~(j < i) /\ j # i /\ j # 1 /\ j - 1 # i - 1
            /\ j - 1 + 1 = j
        BY <1>7, <3>0, <3>3
      <4>2. r[j] = q[j - 1]  BY <1>5, <3>0, <4>1
      <4>3. g.next[q[j - 1]] = IF j - 1 = l THEN NULL ELSE q[j]
        BY <2>1, <3>b, <3>n, <4>1
      <4>4. j # l + 1 => r[j + 1] = q[j]
        <5>1. j # l + 1 => j + 1 \in 1..(l + 1) /\ ~(j + 1 < i) /\ j + 1 # i /\ j + 1 - 1 = j
          BY <1>7, <3>0, <3>3
        <5> QED  BY <1>5, <5>1
      <4>5. j - 1 = l <=> j = l + 1  BY <1>1, <3>0
      <4>6. g.prev[q[j - 1]] = r[j - 1]
        <5>1. CASE j - 1 = i
          <6>1. r[j - 1] = c
            <7>1. i \in 1..(l + 1) /\ ~(i < i)  BY <1>7
            <7> QED  BY <1>5, <5>1, <7>1
          <6> QED  BY <3>d, <3>n, <4>1, <5>1, <6>1
        <5>2. CASE j - 1 # i
          <6>1. /\ j - 1 \in 1..(l + 1) /\ ~(j - 1 < i) /\ j - 1 # 1
            BY <1>7, <3>0, <3>3, <4>1, <5>2
          <6>2. r[j - 1] = q[j - 1 - 1]  BY <1>5, <5>2, <6>1
          <6>3. g.prev[q[j - 1]] = q[j - 1 - 1]  BY <2>1, <3>d, <3>n, <4>1, <5>2, <6>1
          <6> QED  BY <6>2, <6>3
        <5> QED  BY <5>1, <5>2
      <4> QED  BY <3>0, <4>1, <4>2, <4>3, <4>4, <4>5, <4>6
    <3> QED  BY <1>7, <3>0, <3>1, <3>2, <3>3
  <2> QED  BY <2>3, <2>4, <2>5, <2>6 DEF Listed
<1>15. \A n \in Node : Listed(g, n, k.kids[n])  BY <1>4, <1>13, <1>14
<1> QED  BY <1>9, <1>10, <1>12, <1>15, <1>k DEF Represents

-----------------------------------------------------------------------------
(***************************************************************************)
(* node_attach and node_insert                                             *)
(***************************************************************************)
\* A parent's first list is empty, as is its children list in the forest.
LEMMA WithList ==
    ASSUME NEW f, L!ForestInv(f), NEW h, Represents(h, f), NEW p \in Node
    PROVE  Represents(with_list(h, p), f) /\ with_list(h, p).children[p] # NULL
<1> DEFINE g == with_list(h, p)
<1>1. CASE h.children[p] # NULL  BY <1>1 DEF with_list
<1>2. CASE h.children[p] = NULL
  <2>1. g = [h EXCEPT !.children[p] = EmptyList]  BY <1>2 DEF with_list
  <2>2. h \in HeapType /\ h.parent = f.parent  BY DEF Represents
  <2>3. EmptyList \in NodeList  BY DEF EmptyList, NodeList
  <2>4. /\ g.next = h.next /\ g.prev = h.prev /\ g.parent = h.parent /\ g.count = h.count
        /\ g.children = [h.children EXCEPT ![p] = EmptyList]
        /\ h.children \in [Node -> NodeList \cup {NULL}]
    BY <2>1, <2>2, HeapFacts
  <2>5. g \in HeapType
    <3>1. g.children \in [Node -> NodeList \cup {NULL}]  BY <2>3, <2>4
    <3> QED  BY <2>1, <2>2, <3>1 DEF HeapType
  <2> HIDE DEF g
  <2>6. g.children[p] = EmptyList /\ EmptyList # NULL  BY <2>3, <2>4, ListAssumption
  <2>7. ASSUME NEW n \in Node PROVE Listed(g, n, f.kids[n])
    <3>1. Listed(h, n, f.kids[n])  BY DEF Represents
    <3>2. CASE n = p
      <4>1. Len(f.kids[n]) = 0  BY <1>2, <3>1, <3>2 DEF Listed
      <4> QED  BY <2>4, <2>6, <3>1, <3>2, <4>1 DEF Listed, EmptyList
    <3>3. CASE n # p
      <4>1. g.children[n] = h.children[n]  BY <2>4, <3>3
      <4> QED  BY <2>4, <3>1, <4>1 DEF Listed
    <3> QED  BY <3>2, <3>3
  <2>8. \A n \in Node : f.parent[n] = NULL => g.next[n] = NULL /\ g.prev[n] = NULL
    BY <2>4 DEF Represents
  <2> QED  BY <2>2, <2>4, <2>5, <2>6, <2>7, <2>8 DEF Represents, g
<1> QED  BY <1>1, <1>2

\* The ends of a list, and the walk to an index, by their place in the sequence.
LEMMA ListRead ==
    ASSUME NEW f, L!ForestInv(f), NEW h, Represents(h, f), NEW p \in Node, h.children[p] # NULL
    PROVE  /\ h.children[p].begin = IF Len(f.kids[p]) = 0 THEN NULL ELSE f.kids[p][1]
           /\ h.children[p].end = IF Len(f.kids[p]) = 0 THEN NULL ELSE f.kids[p][Len(f.kids[p])]
           /\ h.children[p].count = Len(f.kids[p])
           /\ \A k \in 0..(Len(f.kids[p]) - 1) :
                 Follow(h.next, h.children[p].begin)[k] = f.kids[p][k + 1]
<1> DEFINE q == f.kids[p]
<1>1. q \in Seq(Node) /\ NoRepeat(q) /\ Len(q) \in Nat  BY ForestFacts
<1>2. Listed(h, p, q)  BY DEF Represents
<1>3. Len(q) <= Cardinality(Node) /\ Cardinality(Node) \in Nat
  BY <1>1, SetOfNoRepeat, NodesCounted
<1>4. Follow(h.next, h.children[p].begin) =
        [k \in 0..Cardinality(Node) |-> IF k < Len(q) THEN q[k + 1] ELSE NULL]
  BY ReadsForest
<1> HIDE DEF q
<1>5. ASSUME NEW k \in 0..(Len(q) - 1)
      PROVE  Follow(h.next, h.children[p].begin)[k] = q[k + 1]
  <2>1. k \in 0..Cardinality(Node) /\ k < Len(q)  BY <1>1, <1>3
  <2> QED  BY <1>4, <2>1
<1>6. /\ h.children[p].begin = IF Len(q) = 0 THEN NULL ELSE q[1]
      /\ h.children[p].end = IF Len(q) = 0 THEN NULL ELSE q[Len(q)]
      /\ h.children[p].count = Len(q)
  BY <1>2 DEF Listed
<1> QED  BY <1>5, <1>6 DEF q

\* What adopt writes.
Adopting(a, p, c) == [a EXCEPT !.parent[c] = p, !.count[p] = @ + 1]

LEMMA Adopted ==
    ASSUME NEW a, NEW p, NEW c,
           a = [next |-> a.next, prev |-> a.prev, parent |-> a.parent,
                count |-> a.count, children |-> a.children]
    PROVE  Adopting(a, p, c) =
              [next |-> a.next, prev |-> a.prev, parent |-> [a.parent EXCEPT ![c] = p],
               count |-> [a.count EXCEPT ![p] = @ + 1], children |-> a.children]
<1> DEFINE b == [a EXCEPT !.parent = [a.parent EXCEPT ![c] = p]]
           g == [b EXCEPT !.count = [b.count EXCEPT ![p] = b.count[p] + 1]]
<1>1. b = [next |-> a.next, prev |-> a.prev, parent |-> [a.parent EXCEPT ![c] = p],
           count |-> a.count, children |-> a.children]
  OBVIOUS
<1>2. Adopting(a, p, c) = g  BY <1>1 DEF Adopting
<1> HIDE DEF b
<1>3. g = [next |-> b.next, prev |-> b.prev, parent |-> b.parent,
           count |-> [b.count EXCEPT ![p] = b.count[p] + 1], children |-> b.children]
  BY <1>1
<1>4. /\ b.next = a.next /\ b.prev = a.prev /\ b.parent = [a.parent EXCEPT ![c] = p]
      /\ b.count = a.count /\ b.children = a.children
  BY <1>1
<1> HIDE DEF g
<1> QED  BY <1>2, <1>3, <1>4

\* The list operation and what adopt adds to it are one splice.
LEMMA AddSplices ==
    ASSUME NEW h, h \in HeapType, NEW p \in Node, NEW c \in Node, h.children[p] # NULL
    PROVE  LET r == adopt([h |-> node_list_add(h, p, c), ret |-> Op!NODE_ERR_SUCCESS], p, c)
           IN  r.ret = 0 /\ Spliced(r.h, h, p, c, h.children[p].end, NULL)
<1> DEFINE last == h.children[p].end
           a == node_list_add(h, p, c)
           g == Adopting(a, p, c)
           nn == [m \in Node |-> IF m = c THEN NULL ELSE IF m = last THEN c ELSE h.next[m]]
           pp == [h.prev EXCEPT ![c] = last]
           list == [begin |-> IF last = NULL THEN c ELSE h.children[p].begin,
                    end |-> c, count |-> h.children[p].count + 1]
<1>1. /\ h = [next |-> h.next, prev |-> h.prev, parent |-> h.parent,
              count |-> h.count, children |-> h.children]
      /\ h.next \in [Node -> Node \cup {NULL}] /\ h.prev \in [Node -> Node \cup {NULL}]
      /\ h.parent \in [Node -> Node \cup {NULL}] /\ h.count \in [Node -> Nat]
      /\ h.children \in [Node -> NodeList \cup {NULL}]
  BY HeapFacts
<1>2. adopt([h |-> a, ret |-> Op!NODE_ERR_SUCCESS], p, c) = [h |-> g, ret |-> 0]
  BY SameCodes DEF adopt, Adopting
<1>3. a = [h EXCEPT !.next = nn, !.prev[c] = last, !.children[p] = list]
  BY <1>1 DEF node_list_add
<1> HIDE DEF a, list, nn
<1>4. /\ a = [next |-> a.next, prev |-> a.prev, parent |-> a.parent,
              count |-> a.count, children |-> a.children]
      /\ a.next = nn /\ a.prev = pp /\ a.parent = h.parent /\ a.count = h.count
      /\ a.children = [h.children EXCEPT ![p] = list]
  BY <1>1, <1>3
<1>5. /\ g = [next |-> g.next, prev |-> g.prev, parent |-> g.parent,
              count |-> g.count, children |-> g.children]
      /\ g.next = nn /\ g.prev = pp /\ g.parent = [h.parent EXCEPT ![c] = p]
      /\ g.count = [h.count EXCEPT ![p] = @ + 1]
      /\ g.children = [h.children EXCEPT ![p] = list]
  <2>1. g = [next |-> a.next, prev |-> a.prev, parent |-> [a.parent EXCEPT ![c] = p],
             count |-> [a.count EXCEPT ![p] = @ + 1], children |-> a.children]
    BY <1>4, Adopted
  <2> HIDE DEF g
  <2> QED  BY <1>4, <2>1
<1>6. pp = SplicedPrev(h, c, last, NULL)
  BY <1>1, NodeAssumption DEF SplicedPrev
<1>7. nn = SplicedNext(h, c, last, NULL)  BY DEF nn, SplicedNext
<1>8. list = SplicedList(h.children[p], c, last, NULL)  BY DEF list, SplicedList
<1> HIDE DEF g, pp
<1>9. Spliced(g, h, p, c, last, NULL)  BY <1>5, <1>6, <1>7, <1>8 DEF Spliced
<1> QED  BY <1>2, <1>9 DEF a

LEMMA InsertSplices ==
    ASSUME NEW h, h \in HeapType, NEW p \in Node, NEW c \in Node, h.children[p] # NULL,
           NEW k, NEW before, NEW cur, cur = Follow(h.next, h.children[p].begin)[k],
           before = IF k = 0 THEN NULL ELSE Follow(h.next, h.children[p].begin)[k - 1]
    PROVE  LET r == adopt([h |-> list_insert_before(h, p, k, c), ret |-> Op!NODE_ERR_SUCCESS], p, c)
           IN  r.ret = 0 /\ Spliced(r.h, h, p, c, before, cur)
<1> DEFINE a == list_insert_before(h, p, k, c)
           g == Adopting(a, p, c)
           nn == SplicedNext(h, c, before, cur)
           pp == SplicedPrev(h, c, before, cur)
           list == SplicedList(h.children[p], c, before, cur)
<1>1. /\ h = [next |-> h.next, prev |-> h.prev, parent |-> h.parent,
              count |-> h.count, children |-> h.children]
      /\ h.next \in [Node -> Node \cup {NULL}] /\ h.prev \in [Node -> Node \cup {NULL}]
      /\ h.parent \in [Node -> Node \cup {NULL}] /\ h.count \in [Node -> Nat]
      /\ h.children \in [Node -> NodeList \cup {NULL}]
  BY HeapFacts
<1>2. adopt([h |-> a, ret |-> Op!NODE_ERR_SUCCESS], p, c) = [h |-> g, ret |-> 0]
  BY SameCodes DEF adopt, Adopting
<1>3. a = [h EXCEPT !.next = nn, !.prev = pp, !.children[p] = list]
  BY <1>1 DEF list_insert_before, SplicedNext, SplicedPrev, SplicedList
<1> HIDE DEF a, list, nn, pp
<1>4. /\ a = [next |-> a.next, prev |-> a.prev, parent |-> a.parent,
              count |-> a.count, children |-> a.children]
      /\ a.next = nn /\ a.prev = pp /\ a.parent = h.parent /\ a.count = h.count
      /\ a.children = [h.children EXCEPT ![p] = list]
  BY <1>1, <1>3
<1>5. /\ g = [next |-> g.next, prev |-> g.prev, parent |-> g.parent,
              count |-> g.count, children |-> g.children]
      /\ g.next = nn /\ g.prev = pp /\ g.parent = [h.parent EXCEPT ![c] = p]
      /\ g.count = [h.count EXCEPT ![p] = @ + 1]
      /\ g.children = [h.children EXCEPT ![p] = list]
  <2>1. g = [next |-> a.next, prev |-> a.prev, parent |-> [a.parent EXCEPT ![c] = p],
             count |-> [a.count EXCEPT ![p] = @ + 1], children |-> a.children]
    BY <1>4, Adopted
  <2> HIDE DEF g
  <2> QED  BY <1>4, <2>1
<1> HIDE DEF g
<1>9. Spliced(g, h, p, c, before, cur)  BY <1>5 DEF Spliced, nn, pp, list
<1> QED  BY <1>2, <1>9 DEF a

\* node_attach returns and does what the ordered forest says.
LEMMA AttachIs ==
    ASSUME NEW f, L!ForestInv(f), NEW h, Represents(h, f),
           NEW p \in Node \cup {NULL}, NEW c \in Node \cup {NULL}
    PROVE  /\ node_attach(h, p, c).ret = L!node_attach(f, p, c).ret
           /\ Represents(node_attach(h, p, c).h, L!node_attach(f, p, c).f)
<1> DEFINE err == L!attach_guard(f, p, c)
           w == with_list(h, p)
           r == adopt([h |-> node_list_add(w, p, c), ret |-> Op!NODE_ERR_SUCCESS], p, c)
<1>1. attach_guard(h, p, c) = err  BY GuardIs
<1>2. CASE err # 0
  <2>1. node_attach(h, p, c) = [h |-> h, ret |-> err]
    BY <1>1, <1>2, SameCodes DEF node_attach
  <2>2. L!node_attach(f, p, c) = [f |-> f, ret |-> err]
    BY <1>2, SameCodes DEF L!node_attach, L!outcome
  <2> HIDE DEF err
  <2> QED  BY <2>1, <2>2
<1>3. CASE err = 0
  <2>1. node_attach(h, p, c) = r  BY <1>1, <1>3, SameCodes DEF node_attach
  <2>2. L!node_attach(f, p, c) = [f |-> L!Link(f, p, Len(f.kids[p]) + 1, c), ret |-> 0]
    BY <1>3, SameCodes DEF L!node_attach, L!outcome
  <2>3. p \in Node /\ c \in Node /\ f.parent[c] = NULL
    BY <1>3, SameCodes DEF L!attach_guard
  <2>4. Represents(w, f) /\ w.children[p] # NULL  BY <2>3, WithList
  <2>5. w \in HeapType  BY <2>4 DEF Represents
  <2> HIDE DEF w, err
  <2>6. r.ret = 0 /\ Spliced(r.h, w, p, c, w.children[p].end, NULL)
    BY <2>3, <2>4, <2>5, AddSplices
  <2> HIDE DEF r
  <2>7. Len(f.kids[p]) \in Nat  BY <2>3, ForestFacts
  <2>8. Represents(r.h, L!Link(f, p, Len(f.kids[p]) + 1, c))
    <3>1. PICK i \in 1..(Len(f.kids[p]) + 1) : i = Len(f.kids[p]) + 1  BY <2>7
    <3>2. w.children[p].end = IF i = 1 THEN NULL ELSE f.kids[p][i - 1]
      <4>1. w.children[p].end = IF Len(f.kids[p]) = 0 THEN NULL ELSE f.kids[p][Len(f.kids[p])]
        BY <2>3, <2>4, ListRead
      <4>2. (i = 1 <=> Len(f.kids[p]) = 0) /\ i - 1 = Len(f.kids[p])  BY <2>7, <3>1
      <4> QED  BY <4>1, <4>2
    <3>3. NULL = IF i = Len(f.kids[p]) + 1 THEN NULL ELSE f.kids[p][i]  BY <3>1
    <3>4. Represents(r.h, L!Link(f, p, i, c))
      BY <2>3, <2>4, <2>6, <3>2, <3>3, SpliceRepresents
    <3> QED  BY <3>1, <3>4
  <2> QED  BY <2>1, <2>2, <2>6, <2>8
<1> QED  BY <1>2, <1>3

\* So does node_insert, at every index.
LEMMA InsertIs ==
    ASSUME NEW f, L!ForestInv(f), NEW h, Represents(h, f),
           NEW p \in Node \cup {NULL}, NEW c \in Node \cup {NULL}, NEW k \in Nat
    PROVE  /\ node_insert(h, p, k, c).ret = L!node_insert(f, p, k, c).ret
           /\ Represents(node_insert(h, p, k, c).h, L!node_insert(f, p, k, c).f)
<1> DEFINE err == L!attach_guard(f, p, c)
           w == with_list(h, p)
           l == Len(f.kids[p])
           r == adopt(node_list_insert(w, p, k, c), p, c)
<1>1. attach_guard(h, p, c) = err  BY GuardIs
<1>2. CASE err # 0
  <2>1. node_insert(h, p, k, c) = [h |-> h, ret |-> err]
    BY <1>1, <1>2, SameCodes DEF node_insert
  <2>2. L!node_insert(f, p, k, c) = [f |-> f, ret |-> err]
    BY <1>2, SameCodes DEF L!node_insert, L!outcome, L!checked_index
  <2> HIDE DEF err
  <2> QED  BY <2>1, <2>2
<1>3. CASE err = 0
  <2>1. node_insert(h, p, k, c) = r  BY <1>1, <1>3, SameCodes DEF node_insert
  <2>3. p \in Node /\ c \in Node /\ f.parent[c] = NULL
    BY <1>3, SameCodes DEF L!attach_guard
  <2>4. Represents(w, f) /\ w.children[p] # NULL  BY <2>3, WithList
  <2>5. w \in HeapType /\ l \in Nat  BY <2>3, <2>4, ForestFacts DEF Represents
  <2>6. w.children[p].count = l  BY <2>3, <2>4, ListRead
  <2>7. CASE k > l
    <3>1. r = [h |-> w, ret |-> -1]
      BY <2>6, <2>7, SameCodes DEF node_list_insert, adopt
    <3>2. L!node_insert(f, p, k, c) = [f |-> f, ret |-> -1]
      BY <1>3, <2>7, SameCodes DEF L!node_insert, L!outcome, L!checked_index
    <3> HIDE DEF r, w, err
    <3> QED  BY <2>1, <2>4, <3>1, <3>2
  <2>8. CASE ~(k > l)
    <3>1. L!node_insert(f, p, k, c) = [f |-> L!Link(f, p, k + 1, c), ret |-> 0]
      BY <1>3, <2>8, SameCodes DEF L!node_insert, L!outcome, L!checked_index
    <3>2. k <= l /\ k + 1 \in 1..(l + 1)  BY <2>5, <2>8
    <3>w. w.children[p].begin = IF l = 0 THEN NULL ELSE f.kids[p][1]
      BY <2>3, <2>4, ListRead
    <3>3. CASE k = l
      <4>1. r = adopt([h |-> node_list_add(w, p, c), ret |-> Op!NODE_ERR_SUCCESS], p, c)
        BY <2>5, <2>6, <3>3 DEF node_list_insert
      <4> HIDE DEF w, err
      <4>2. r.ret = 0 /\ Spliced(r.h, w, p, c, w.children[p].end, NULL)
        BY <2>3, <2>4, <2>5, <4>1, AddSplices
      <4>3. w.children[p].end = IF l = 0 THEN NULL ELSE f.kids[p][l]
        BY <2>3, <2>4, ListRead
      <4> HIDE DEF r
      <4>4. PICK i \in 1..(l + 1) : i = k + 1  BY <3>2
      <4>5. w.children[p].end = IF i = 1 THEN NULL ELSE f.kids[p][i - 1]
        <5>1. (i = 1 <=> l = 0) /\ i - 1 = l  BY <2>5, <3>3, <4>4
        <5> QED  BY <4>3, <5>1
      <4>6. NULL = IF i = l + 1 THEN NULL ELSE f.kids[p][i]  BY <3>3, <4>4
      <4>7. Represents(r.h, L!Link(f, p, i, c))
        BY <2>3, <2>4, <4>2, <4>5, <4>6, SpliceRepresents
      <4> QED  BY <2>1, <3>1, <4>2, <4>4, <4>7
    <3>4. CASE k # l
      <4> DEFINE at == Follow(w.next, w.children[p].begin)
                 cur == at[k]
                 before == IF k = 0 THEN NULL ELSE at[k - 1]
      <4>0. k < l /\ k \in 0..(l - 1) /\ (k # 0 => k - 1 \in 0..(l - 1))
        BY <2>5, <3>2, <3>4
      <4>1. r = adopt([h |-> list_insert_before(w, p, k, c), ret |-> Op!NODE_ERR_SUCCESS], p, c)
        <5>1. ~(k > w.children[p].count) /\ k # w.children[p].count
          BY <2>6, <2>8, <3>4
        <5> QED  BY <5>1 DEF node_list_insert
      <4> HIDE DEF w, err
      <4>k. \A m \in 0..(l - 1) : at[m] = f.kids[p][m + 1]  BY <2>3, <2>4, ListRead
      <4>2. PICK x, y : x = before /\ y = cur  OBVIOUS
      <4>3. r.ret = 0 /\ Spliced(r.h, w, p, c, x, y)
        BY <2>3, <2>4, <2>5, <4>1, <4>2, InsertSplices
      <4> HIDE DEF r, at
      <4>4. PICK i \in 1..(l + 1) : i = k + 1  BY <3>2
      <4>5. x = IF i = 1 THEN NULL ELSE f.kids[p][i - 1]
        <5>1. CASE k = 0  BY <4>2, <4>4, <5>1
        <5>2. CASE k # 0
          <6>1. i # 1 /\ i - 1 = k /\ k - 1 + 1 = k  BY <4>4, <5>2
          <6>2. at[k - 1] = f.kids[p][k - 1 + 1]  BY <4>0, <4>k, <5>2
          <6> QED  BY <4>2, <5>2, <6>1, <6>2
        <5> QED  BY <5>1, <5>2
      <4>6. y = IF i = l + 1 THEN NULL ELSE f.kids[p][i]
        <5>1. i # l + 1  BY <2>5, <4>0, <4>4
        <5>2. at[k] = f.kids[p][k + 1]  BY <4>0, <4>k
        <5> QED  BY <4>2, <4>4, <5>1, <5>2
      <4> HIDE DEF cur, before
      <4>7. Represents(r.h, L!Link(f, p, i, c))
        BY <2>3, <2>4, <4>3, <4>5, <4>6, SpliceRepresents
      <4> QED  BY <2>1, <3>1, <4>3, <4>4, <4>7
    <3> QED  BY <3>3, <3>4
  <2> QED  BY <2>7, <2>8
<1> QED  BY <1>2, <1>3

-----------------------------------------------------------------------------
(***************************************************************************)
(* node_detach                                                             *)
(***************************************************************************)
CutList(list, before, after) ==
    [begin |-> IF before = NULL THEN after ELSE list.begin,
     end   |-> IF after = NULL THEN before ELSE list.end,
     count |-> list.count - 1]

LEMMA CutListType ==
    ASSUME NEW list, list.begin \in Node \cup {NULL}, list.end \in Node \cup {NULL},
           list.count - 1 \in Nat,
           NEW before \in Node \cup {NULL}, NEW after \in Node \cup {NULL}
    PROVE  CutList(list, before, after) \in NodeList
  BY DEF CutList, NodeList

\* g is h without c in the list of p.
Cut(g, h, p, c, before, after) ==
    /\ g = [next |-> g.next, prev |-> g.prev, parent |-> g.parent,
            count |-> g.count, children |-> g.children]
    /\ g.next = [m \in Node |-> IF m = c THEN NULL
                                ELSE IF m = before THEN after ELSE h.next[m]]
    /\ g.prev = [m \in Node |-> IF m = c THEN NULL
                                ELSE IF m = after THEN before ELSE h.prev[m]]
    /\ g.parent = [h.parent EXCEPT ![c] = NULL]
    /\ g.count = [h.count EXCEPT ![p] = IF @ > 0 THEN @ - 1 ELSE @]
    /\ g.children = [h.children EXCEPT ![p] = CutList(h.children[p], before, after)]

LEMMA CutRepresents ==
    ASSUME NEW f, L!ForestInv(f), NEW h, Represents(h, f),
           NEW p \in Node, NEW i \in 1..Len(f.kids[p]), NEW c, c = f.kids[p][i],
           NEW before, before = h.prev[c], NEW after, after = h.next[c],
           NEW g, Cut(g, h, p, c, before, after)
    PROVE  Represents(g, L!Unlink(f, p, i))
<1> DEFINE q == f.kids[p]
           l == Len(q)
           k == L!Unlink(f, p, i)
           r == RemoveAt(q, i)
<1>1. /\ f.kids \in [Node -> Seq(Node)] /\ f.parent \in [Node -> Node \cup {NULL}]
      /\ q \in Seq(Node) /\ l \in Nat
      /\ \A j \in 1..l : q[j] \in Node /\ f.parent[q[j]] = p
      /\ \A j, m \in 1..l : q[j] = q[m] => j = m
  BY ForestFacts
<1>2. /\ h \in HeapType /\ h.parent = f.parent
      /\ \A n \in Node : Listed(h, n, f.kids[n])
      /\ \A n \in Node : f.parent[n] = NULL => h.next[n] = NULL /\ h.prev[n] = NULL
  BY DEF Represents
<1>3. k = [kids |-> [f.kids EXCEPT ![p] = r], parent |-> [f.parent EXCEPT ![c] = NULL]]
  BY SameLibrary DEF L!Unlink
<1>4. /\ k.kids = [f.kids EXCEPT ![p] = r] /\ k.parent = [f.parent EXCEPT ![c] = NULL]
      /\ k.kids[p] = r
      /\ \A n \in Node : n # p => k.kids[n] = f.kids[n]
  BY <1>1, <1>3
<1>5. /\ r \in Seq(Node) /\ Len(r) = l - 1
      /\ \A j \in 1..(l - 1) : r[j] = IF j < i THEN q[j] ELSE q[j + 1]
  <2>1. ASSUME NEW x \in Seq(Node), i \in 1..Len(x)
        PROVE  /\ RemoveAt(x, i) \in Seq(Node)
               /\ Len(RemoveAt(x, i)) = Len(x) - 1
               /\ \A j \in 1..(Len(x) - 1) : RemoveAt(x, i)[j] = IF j < i THEN x[j] ELSE x[j + 1]
    BY <2>1, Removed
  <2>2. q \in Seq(Node) /\ i \in 1..Len(q) /\ r = RemoveAt(q, i) /\ l = Len(q)
    BY <1>1
  <2> HIDE DEF q, r, l
  <2> QED  BY <2>1, <2>2
<1>6. /\ g = [next |-> g.next, prev |-> g.prev, parent |-> g.parent,
              count |-> g.count, children |-> g.children]
      /\ g.next = [m \in Node |-> IF m = c THEN NULL ELSE IF m = before THEN after ELSE h.next[m]]
      /\ g.prev = [m \in Node |-> IF m = c THEN NULL ELSE IF m = after THEN before ELSE h.prev[m]]
      /\ g.parent = [h.parent EXCEPT ![c] = NULL]
      /\ g.count = [h.count EXCEPT ![p] = IF @ > 0 THEN @ - 1 ELSE @]
      /\ g.children = [h.children EXCEPT ![p] = CutList(h.children[p], before, after)]
  BY DEF Cut
<1>k. k = L!Unlink(f, p, i)  OBVIOUS
<1>l. /\ h.count[p] = l
      /\ h.children[p] = NULL => l = 0
      /\ h.children[p] # NULL =>
            h.children[p] = [begin |-> IF l = 0 THEN NULL ELSE q[1],
                             end   |-> IF l = 0 THEN NULL ELSE q[l], count |-> l]
      /\ \A j \in 1..l : /\ h.next[q[j]] = IF j = l THEN NULL ELSE q[j + 1]
                         /\ h.prev[q[j]] = IF j = 1 THEN NULL ELSE q[j - 1]
  BY <1>2 DEF Listed
<1>i. i \in 1..l /\ c = q[i]  OBVIOUS
<1> HIDE DEF k, r, q, l
<1>7. /\ i \in Nat /\ i >= 1 /\ i <= l /\ l \in Nat
      /\ c \in Node /\ f.parent[c] = p
      /\ before = IF i = 1 THEN NULL ELSE q[i - 1]
      /\ after = IF i = l THEN NULL ELSE q[i + 1]
      /\ i # 1 => i - 1 \in 1..l
      /\ i # l => i + 1 \in 1..l
      /\ h.children[p] # NULL
  <2>1. before = h.prev[q[i]] /\ after = h.next[q[i]]  BY <1>i
  <2>2. i \in Nat /\ i >= 1 /\ i <= l /\ l \in Nat  BY <1>1, <1>i
  <2>3. l # 0  BY <2>2
  <2>4. (i # 1 => i - 1 \in 1..l) /\ (i # l => i + 1 \in 1..l)  BY <2>2
  <2> QED  BY <1>1, <1>i, <1>l, <2>1, <2>2, <2>3, <2>4
<1>8. /\ before \in Node \cup {NULL} /\ after \in Node \cup {NULL}
      /\ before \in Node => f.parent[before] = p
      /\ after \in Node => f.parent[after] = p
      /\ before = NULL <=> i = 1
      /\ after = NULL <=> i = l
  BY <1>1, <1>7, NodeAssumption
<1>9. g \in HeapType
  <2>1. /\ h.next \in [Node -> Node \cup {NULL}] /\ h.prev \in [Node -> Node \cup {NULL}]
        /\ h.parent \in [Node -> Node \cup {NULL}] /\ h.count \in [Node -> Nat]
        /\ h.children \in [Node -> NodeList \cup {NULL}]
        /\ h.children[p].begin \in Node \cup {NULL}
        /\ h.children[p].end \in Node \cup {NULL}
    BY <1>2, <1>7, HeapFacts
  <2>c. h.children[p].count = l /\ l - 1 \in Nat  BY <1>7, <1>l
  <2>2. g.next \in [Node -> Node \cup {NULL}]
    <3>1. g.next = [m \in Node |-> IF m = c THEN NULL
                                   ELSE IF m = before THEN after ELSE h.next[m]]
      BY <1>6
    <3>2. \A m \in Node : (IF m = c THEN NULL ELSE IF m = before THEN after ELSE h.next[m])
                             \in Node \cup {NULL}
      BY <1>8, <2>1
    <3> QED  BY <3>1, <3>2
  <2>3. g.prev \in [Node -> Node \cup {NULL}]
    <3>1. g.prev = [m \in Node |-> IF m = c THEN NULL
                                   ELSE IF m = after THEN before ELSE h.prev[m]]
      BY <1>6
    <3>2. \A m \in Node : (IF m = c THEN NULL ELSE IF m = after THEN before ELSE h.prev[m])
                             \in Node \cup {NULL}
      BY <1>8, <2>1
    <3> QED  BY <3>1, <3>2
  <2>4. g.parent \in [Node -> Node \cup {NULL}]
    <3>1. g.parent = [h.parent EXCEPT ![c] = NULL]  BY <1>6
    <3> QED  BY <2>1, <3>1
  <2>5. g.count \in [Node -> Nat]
    <3>1. (IF h.count[p] > 0 THEN h.count[p] - 1 ELSE h.count[p]) \in Nat  BY <1>7, <1>l
    <3>2. g.count = [h.count EXCEPT ![p] = IF @ > 0 THEN @ - 1 ELSE @]  BY <1>6
    <3> QED  BY <2>1, <3>1, <3>2
  <2>6. CutList(h.children[p], before, after) \in NodeList
    BY <1>8, <2>1, <2>c, CutListType
  <2>7. g.children \in [Node -> NodeList \cup {NULL}]
    <3>1. PICK list : list = CutList(h.children[p], before, after)  OBVIOUS
    <3>2. g.children = [h.children EXCEPT ![p] = list]  BY <1>6, <3>1
    <3>3. h.children \in [Node -> NodeList \cup {NULL}] /\ list \in NodeList
      BY <2>1, <2>6, <3>1
    <3> QED  BY <3>2, <3>3
  <2> QED  BY <1>6, <2>2, <2>3, <2>4, <2>5, <2>7 DEF HeapType, Pointers
<1>10. g.parent = k.parent  BY <1>2, <1>4, <1>6
<1>11. \A m \in Node : m # c /\ f.parent[m] # p =>
          g.next[m] = h.next[m] /\ g.prev[m] = h.prev[m]
  <2> SUFFICES ASSUME NEW m \in Node, m # c, f.parent[m] # p
               PROVE  g.next[m] = h.next[m] /\ g.prev[m] = h.prev[m]
    OBVIOUS
  <2>1. m # before /\ m # after  BY ONLY <1>8, m \in Node, f.parent[m] # p
  <2> QED  BY ONLY <1>6, <2>1, m \in Node, m # c
<1>12. ASSUME NEW n \in Node, k.parent[n] = NULL PROVE g.next[n] = NULL /\ g.prev[n] = NULL
  <2>1. CASE n = c  BY <1>6, <2>1
  <2>2. CASE n # c
    <3>1. f.parent[n] = NULL  BY <1>1, <1>4, <1>12, <2>2
    <3> QED  BY <1>2, <1>11, <2>2, <3>1, NodeAssumption
  <2> QED  BY <2>1, <2>2
<1>13. ASSUME NEW n \in Node, n # p PROVE Listed(g, n, k.kids[n])
  <2> DEFINE s == f.kids[n]
  <2>1. k.kids[n] = s  BY <1>4, <1>13
  <2>2. \A j \in 1..Len(s) : s[j] \in Node /\ f.parent[s[j]] = n  BY ForestFacts
  <2>3. /\ h.count[n] = Len(s)
        /\ h.children[n] = NULL => Len(s) = 0
        /\ h.children[n] # NULL =>
              h.children[n] = [begin |-> IF Len(s) = 0 THEN NULL ELSE s[1],
                               end   |-> IF Len(s) = 0 THEN NULL ELSE s[Len(s)],
                               count |-> Len(s)]
        /\ \A j \in 1..Len(s) :
              /\ h.next[s[j]] = IF j = Len(s) THEN NULL ELSE s[j + 1]
              /\ h.prev[s[j]] = IF j = 1 THEN NULL ELSE s[j - 1]
    BY <1>2 DEF Listed
  <2> HIDE DEF s
  <2>4. h.count \in [Node -> Nat] /\ h.children \in [Node -> NodeList \cup {NULL}]
    BY <1>2, HeapFacts
  <2>5. g.count[n] = h.count[n] /\ g.children[n] = h.children[n]  BY <1>6, <1>13, <2>4
  <2>6. \A j \in 1..Len(s) : s[j] # c /\ f.parent[s[j]] # p  BY <1>7, <1>13, <2>2
  <2>7. \A j \in 1..Len(s) : g.next[s[j]] = h.next[s[j]] /\ g.prev[s[j]] = h.prev[s[j]]
    BY <1>11, <2>2, <2>6
  <2> QED  BY <2>1, <2>3, <2>5, <2>7 DEF Listed
<1>14. Listed(g, p, r)
  <2>2. h.count \in [Node -> Nat] /\ h.children \in [Node -> NodeList \cup {NULL}]
    BY <1>2, HeapFacts
  <2>3. g.count[p] = Len(r)
    <3>1. g.count[p] = IF l > 0 THEN l - 1 ELSE l  BY <1>6, <1>l, <2>2
    <3>2. l > 0  BY <1>7
    <3> QED  BY <1>5, <3>1, <3>2
  <2>4. g.children[p] = [begin |-> IF Len(r) = 0 THEN NULL ELSE r[1],
                         end   |-> IF Len(r) = 0 THEN NULL ELSE r[Len(r)], count |-> Len(r)]
    <3>1. g.children[p] = CutList(h.children[p], before, after)  BY <1>6, <2>2
    <3>2. /\ h.children[p].begin = (IF l = 0 THEN NULL ELSE q[1])
          /\ h.children[p].end = (IF l = 0 THEN NULL ELSE q[l])
          /\ h.children[p].count = l
      BY <1>7, <1>l
    <3>3. (IF before = NULL THEN after ELSE h.children[p].begin)
             = IF Len(r) = 0 THEN NULL ELSE r[1]
      <4>1. CASE i = 1
        <5>1. before = NULL  BY <1>8, <4>1
        <5>2. CASE l = 1
          <6>1. after = NULL /\ Len(r) = 0  BY ONLY <1>5, <1>8, <4>1, <5>2
          <6> QED  BY ONLY <5>1, <6>1
        <5>3. CASE l # 1
          <6>1. 1 \in 1..(l - 1) /\ Len(r) # 0 /\ ~(1 < i)  BY <1>5, <1>7, <4>1, <5>3
          <6>2. r[1] = q[1 + 1]  BY <1>5, <6>1
          <6>3. after = q[1 + 1]  BY <1>7, <4>1, <5>3
          <6> QED  BY <5>1, <6>1, <6>2, <6>3
        <5> QED  BY <5>2, <5>3
      <4>2. CASE i # 1
        <5>1. 1 < i /\ l # 0 /\ before # NULL /\ 1 \in 1..(l - 1) /\ Len(r) # 0
          BY <1>5, <1>7, <1>8, <4>2
        <5>2. r[1] = q[1]  BY <1>5, <5>1
        <5> QED  BY <3>2, <5>1, <5>2
      <4> QED  BY <4>1, <4>2
    <3>4. (IF after = NULL THEN before ELSE h.children[p].end)
             = IF Len(r) = 0 THEN NULL ELSE r[Len(r)]
      <4>1. CASE l = 1
        <5>1. i = 1 /\ i = l /\ Len(r) = 0  BY <1>5, <1>7, <4>1
        <5> QED  BY <1>8, <5>1
      <4>2. CASE l # 1
        <5>1. PICK j \in 1..(l - 1) : j = Len(r)  BY <1>5, <1>7, <4>2
        <5>2. j = l - 1 /\ Len(r) # 0 /\ l # 0 /\ j + 1 = l  BY <1>5, <1>7, <5>1
        <5>3. r[j] = IF j < i THEN q[j] ELSE q[j + 1]  BY <1>5
        <5>4. CASE i = l
          <6>1. j < i /\ i # 1 /\ i - 1 = j  BY <1>7, <4>2, <5>2, <5>4
          <6>2. before = q[j] /\ after = NULL  BY <1>7, <5>4, <6>1
          <6> QED  BY <5>1, <5>2, <5>3, <6>1, <6>2
        <5>5. CASE i # l
          <6>1. ~(j < i) /\ after # NULL  BY <1>7, <1>8, <5>2, <5>5
          <6> QED  BY <3>2, <5>1, <5>2, <5>3, <6>1
        <5> QED  BY <5>4, <5>5
      <4> QED  BY <4>1, <4>2
    <3> QED  BY <1>5, <3>1, <3>2, <3>3, <3>4 DEF CutList
  <2>5. g.children[p] # NULL
    <3>1. g.children[p] \in NodeList
      <4>2. /\ h.children[p].begin \in Node \cup {NULL}
            /\ h.children[p].end \in Node \cup {NULL} /\ h.children[p].count = l
        BY <1>2, <1>7, <1>l, HeapFacts
      <4>3. g.children[p] = CutList(h.children[p], before, after)  BY <1>6, <2>2
      <4>4. l - 1 \in Nat  BY <1>7
      <4> QED  BY <1>8, <4>2, <4>3, <4>4, CutListType
    <3> QED  BY <3>1, ListAssumption
  <2>6. ASSUME NEW j \in 1..Len(r)
        PROVE  /\ g.next[r[j]] = IF j = Len(r) THEN NULL ELSE r[j + 1]
               /\ g.prev[r[j]] = IF j = 1 THEN NULL ELSE r[j - 1]
    <3>0. j \in 1..(l - 1) /\ Len(r) = l - 1 /\ j \in Nat  BY <1>1, <1>5
    <3>c. \A m \in 1..l : m # i => q[m] # c  BY <1>1, <1>i
    <3>n. \A m \in 1..l : m # i =>
             /\ g.next[q[m]] = IF q[m] = before THEN after ELSE h.next[q[m]]
             /\ g.prev[q[m]] = IF q[m] = after THEN before ELSE h.prev[q[m]]
      <4> SUFFICES ASSUME NEW m \in 1..l, m # i
                   PROVE  /\ g.next[q[m]] = IF q[m] = before THEN after ELSE h.next[q[m]]
                          /\ g.prev[q[m]] = IF q[m] = after THEN before ELSE h.prev[q[m]]
        OBVIOUS
      <4>1. q[m] \in Node /\ q[m] # c  BY <1>1, <3>c
      <4> QED  BY ONLY <1>6, <4>1
    <3>b. \A m \in 1..l : q[m] = before <=> m = i - 1
      <4> SUFFICES ASSUME NEW m \in 1..l PROVE q[m] = before <=> m = i - 1  OBVIOUS
      <4>1. q[m] \in Node /\ m >= 1  BY <1>1
      <4>2. CASE i = 1
        <5>1. before = NULL  BY <1>8, <4>2
        <5> QED  BY <4>1, <4>2, <5>1, NodeAssumption
      <4>3. CASE i # 1
        <5>1. i - 1 \in 1..l /\ before = q[i - 1]  BY <1>7, <4>3
        <5> QED  BY <1>1, <5>1
      <4> QED  BY <4>2, <4>3
    <3>d. \A m \in 1..l : q[m] = after <=> m = i + 1
      <4> SUFFICES ASSUME NEW m \in 1..l PROVE q[m] = after <=> m = i + 1  OBVIOUS
      <4>1. q[m] \in Node /\ m <= l /\ m \in Nat /\ l \in Nat  BY <1>1
      <4>2. CASE i = l
        <5>1. after = NULL  BY <1>7, <4>2
        <5> QED  BY <4>1, <4>2, <5>1, NodeAssumption
      <4>3. CASE i # l
        <5>1. i + 1 \in 1..l /\ after = q[i + 1]  BY <1>7, <4>3
        <5> QED  BY <1>1, <5>1
      <4> QED  BY <4>2, <4>3
    <3>1. CASE j < i
      <4>1. /\ r[j] = q[j] /\ j \in 1..l /\ j # i /\ j # i + 1 /\ j # l
        BY <1>5, <1>7, <3>0, <3>1
      <4>2. g.next[q[j]] = IF j = l - 1 THEN NULL ELSE r[j + 1]
        <5>r. j # l - 1 => r[j + 1] = IF j + 1 < i THEN q[j + 1] ELSE q[j + 1 + 1]
          <6>1. j # l - 1 => j + 1 \in 1..(l - 1)  BY <1>7, <3>0
          <6> QED  BY <1>5, <6>1
        <5>1. CASE j = i - 1
          <6>1. ~(j + 1 < i) /\ j + 1 = i /\ (j = l - 1 <=> i = l)  BY <1>7, <3>0, <5>1
          <6>2. g.next[q[j]] = after  BY <3>b, <3>n, <4>1, <5>1
          <6> QED  BY <1>7, <5>r, <6>1, <6>2
        <5>2. CASE j # i - 1
          <6>1. j + 1 < i /\ j # l - 1  BY <1>7, <3>0, <3>1, <5>2
          <6> QED  BY <1>l, <3>b, <3>n, <4>1, <5>2, <5>r, <6>1
        <5> QED  BY <5>1, <5>2
      <4>3. g.prev[q[j]] = IF j = 1 THEN NULL ELSE r[j - 1]
        <5>1. g.prev[q[j]] = IF j = 1 THEN NULL ELSE q[j - 1]  BY <1>l, <3>d, <3>n, <4>1
        <5>2. j # 1 => j - 1 \in 1..(l - 1) /\ j - 1 < i  BY <1>7, <3>0, <3>1
        <5>3. j # 1 => r[j - 1] = q[j - 1]  BY <1>5, <5>2
        <5> QED  BY <5>1, <5>3
      <4> QED  BY <3>0, <4>1, <4>2, <4>3
    <3>2. CASE ~(j < i)
      <4>0. PICK m \in 1..l : m = j + 1  BY <1>7, <3>0
      <4>1. r[j] = q[m] /\ m # i /\ m # i - 1 /\ (m = l <=> j = l - 1) /\ m # 1 /\ m - 1 = j
        BY <1>5, <1>7, <3>0, <3>2, <4>0
      <4>2. g.next[q[m]] = IF m = l THEN NULL ELSE q[m + 1]  BY <1>l, <3>b, <3>n, <4>1
      <4>3. j # l - 1 => r[j + 1] = q[m + 1]
        <5>1. j # l - 1 => j + 1 \in 1..(l - 1) /\ ~(j + 1 < i)  BY <1>7, <3>0, <3>2
        <5>2. j # l - 1 => r[j + 1] = q[j + 1 + 1]  BY <1>5, <5>1
        <5> QED  BY <4>0, <5>2
      <4>4. g.prev[q[m]] = IF j = 1 THEN NULL ELSE r[j - 1]
        <5>1. CASE j = i
          <6>1. g.prev[q[m]] = before  BY <3>d, <3>n, <4>0, <4>1, <5>1
          <6>2. j # 1 => j - 1 \in 1..(l - 1) /\ j - 1 < i  BY <1>7, <3>0, <5>1
          <6>3. j # 1 => r[j - 1] = q[i - 1]  BY <1>5, <5>1, <6>2
          <6>4. before = IF i = 1 THEN NULL ELSE q[i - 1]  BY <1>7
          <6> QED  BY <5>1, <6>1, <6>3, <6>4
        <5>2. CASE j # i
          <6>1. m # i + 1 /\ j # 1  BY <1>7, <3>0, <3>2, <4>0, <5>2
          <6>2. g.prev[q[m]] = q[j]  BY <1>l, <3>d, <3>n, <4>1, <6>1
          <6>3. j - 1 \in 1..(l - 1) /\ ~(j - 1 < i) /\ j - 1 + 1 = j
            BY <1>7, <3>0, <3>2, <5>2
          <6>4. r[j - 1] = q[j - 1 + 1]  BY <1>5, <6>3
          <6> QED  BY <6>1, <6>2, <6>3, <6>4
        <5> QED  BY <5>1, <5>2
      <4> QED  BY <3>0, <4>1, <4>2, <4>3, <4>4
    <3> QED  BY <3>1, <3>2
  <2> QED  BY <2>3, <2>4, <2>5, <2>6 DEF Listed
<1>15. \A n \in Node : Listed(g, n, k.kids[n])  BY <1>4, <1>13, <1>14
<1> QED  BY <1>9, <1>10, <1>12, <1>15, <1>k DEF Represents

\* What disown writes.
Disowning(a, p, c) ==
    [a EXCEPT !.count[p] = IF @ > 0 THEN @ - 1 ELSE @,
              !.parent[c] = NULL, !.prev[c] = NULL, !.next[c] = NULL]

LEMMA Disowned ==
    ASSUME NEW a, NEW p, NEW c,
           a = [next |-> a.next, prev |-> a.prev, parent |-> a.parent,
                count |-> a.count, children |-> a.children]
    PROVE  Disowning(a, p, c) =
              [next |-> [a.next EXCEPT ![c] = NULL], prev |-> [a.prev EXCEPT ![c] = NULL],
               parent |-> [a.parent EXCEPT ![c] = NULL],
               count |-> [a.count EXCEPT ![p] = IF @ > 0 THEN @ - 1 ELSE @],
               children |-> a.children]
<1> DEFINE fewer(x) == [x EXCEPT ![p] = IF x[p] > 0 THEN x[p] - 1 ELSE x[p]]
           b == [a EXCEPT !.count = fewer(a.count)]
           d == [b EXCEPT !.parent = [b.parent EXCEPT ![c] = NULL]]
           e == [d EXCEPT !.prev = [d.prev EXCEPT ![c] = NULL]]
           g == [e EXCEPT !.next = [e.next EXCEPT ![c] = NULL]]
<1>0. Disowning(a, p, c) = g  BY DEF Disowning
<1> HIDE DEF fewer
<1>1. b = [next |-> a.next, prev |-> a.prev, parent |-> a.parent,
           count |-> fewer(a.count), children |-> a.children]
  OBVIOUS
<1> HIDE DEF b
<1>2. d = [next |-> a.next, prev |-> a.prev, parent |-> [a.parent EXCEPT ![c] = NULL],
           count |-> fewer(a.count), children |-> a.children]
  BY <1>1
<1> HIDE DEF d
<1>3. e = [next |-> a.next, prev |-> [a.prev EXCEPT ![c] = NULL],
           parent |-> [a.parent EXCEPT ![c] = NULL],
           count |-> fewer(a.count), children |-> a.children]
  BY <1>2
<1> HIDE DEF e
<1>4. g = [next |-> [a.next EXCEPT ![c] = NULL], prev |-> [a.prev EXCEPT ![c] = NULL],
           parent |-> [a.parent EXCEPT ![c] = NULL],
           count |-> fewer(a.count), children |-> a.children]
  BY <1>3
<1> HIDE DEF g
<1> QED  BY <1>0, <1>4 DEF fewer

\* The list operation and what disown adds to it are one cut.
LEMMA UnlinkCuts ==
    ASSUME NEW h, h \in HeapType, NEW p \in Node, NEW c \in Node,
           NEW before, before = h.prev[c], NEW after, after = h.next[c],
           NEW x \in Nat
    PROVE  LET r == disown([h |-> list_unlink(h, p, c), ret |-> x], p, c)
           IN  r.ret = x /\ Cut(r.h, h, p, c, before, after)
<1> DEFINE a == list_unlink(h, p, c)
           g == Disowning(a, p, c)
           nn == [m \in Node |-> IF m = c THEN NULL ELSE IF m = before THEN after ELSE h.next[m]]
           pp == [m \in Node |-> IF m = c THEN NULL ELSE IF m = after THEN before ELSE h.prev[m]]
           list == CutList(h.children[p], before, after)
<1>1. /\ h = [next |-> h.next, prev |-> h.prev, parent |-> h.parent,
              count |-> h.count, children |-> h.children]
      /\ h.next \in [Node -> Node \cup {NULL}] /\ h.prev \in [Node -> Node \cup {NULL}]
      /\ h.parent \in [Node -> Node \cup {NULL}] /\ h.count \in [Node -> Nat]
      /\ h.children \in [Node -> NodeList \cup {NULL}]
  BY HeapFacts
<1>2. disown([h |-> a, ret |-> x], p, c) = [h |-> g, ret |-> x]
  <2>1. ~(x < 0)  OBVIOUS
  <2> QED  BY <2>1 DEF disown, Disowning
<1>3. a = [h EXCEPT !.next = nn, !.prev = pp, !.children[p] = list]
  BY <1>1 DEF list_unlink, CutList
<1>5. [nn EXCEPT ![c] = NULL] = nn /\ [pp EXCEPT ![c] = NULL] = pp  OBVIOUS
<1> HIDE DEF a, list, nn, pp
<1>4. /\ a = [next |-> a.next, prev |-> a.prev, parent |-> a.parent,
              count |-> a.count, children |-> a.children]
      /\ a.next = nn /\ a.prev = pp /\ a.parent = h.parent /\ a.count = h.count
      /\ a.children = [h.children EXCEPT ![p] = list]
  BY <1>1, <1>3
<1>6. g = [next |-> [a.next EXCEPT ![c] = NULL], prev |-> [a.prev EXCEPT ![c] = NULL],
           parent |-> [a.parent EXCEPT ![c] = NULL],
           count |-> [a.count EXCEPT ![p] = IF @ > 0 THEN @ - 1 ELSE @],
           children |-> a.children]
  BY <1>4, Disowned
<1> HIDE DEF g
<1>7. /\ g = [next |-> g.next, prev |-> g.prev, parent |-> g.parent,
              count |-> g.count, children |-> g.children]
      /\ g.next = nn /\ g.prev = pp /\ g.parent = [h.parent EXCEPT ![c] = NULL]
      /\ g.count = [h.count EXCEPT ![p] = IF @ > 0 THEN @ - 1 ELSE @]
      /\ g.children = [h.children EXCEPT ![p] = list]
  BY <1>4, <1>5, <1>6
<1>9. Cut(g, h, p, c, before, after)  BY <1>7 DEF Cut, nn, pp, list
<1> QED  BY <1>2, <1>9 DEF a

\* node_detach returns and does what the ordered forest says, and fails with
\* an error it allows.
LEMMA DetachIs ==
    ASSUME NEW f, L!ForestInv(f), NEW h, Represents(h, f),
           NEW p \in Node \cup {NULL}, NEW c \in Node \cup {NULL}
    PROVE  LET r == node_detach(h, p, c) IN
           /\ r.ret \in Int
           /\ r.ret < 0 => r.ret \in Op!detach_errors(f, p, c) /\ r.h = h
           /\ ~(r.ret < 0) =>
                 /\ p \in Node /\ c \in Node /\ f.parent[c] = p
                 /\ Op!detach_errors(f, p, c) = {}
                 /\ r.ret = L!node_detach(f, p, c).ret
                 /\ Represents(r.h, L!node_detach(f, p, c).f)
<1> DEFINE r == node_detach(h, p, c)
<1>1. CASE NULL \in {p, c}
  <2>1. r = [h |-> h, ret |-> -1]  BY <1>1, SameCodes DEF node_detach, detach_guard
  <2>2. Op!detach_errors(f, p, c) = {-1}  BY <1>1, SameCodes DEF Op!detach_errors
  <2> QED  BY <2>1, <2>2
<1>2. CASE NULL \notin {p, c}
  <2>0. p \in Node /\ c \in Node /\ p # NULL /\ c # NULL  BY <1>2
  <2>1. h.parent = f.parent /\ h \in HeapType /\ Listed(h, p, f.kids[p])
    BY <2>0 DEF Represents
  <2>2. /\ f.kids[p] \in Seq(Node) /\ DOMAIN f.kids[p] = 1..Len(f.kids[p])
        /\ Len(f.kids[p]) \in Nat
        /\ \A i \in 1..Len(f.kids[p]) : f.parent[f.kids[p][i]] = p
        /\ f.parent[c] = p => \E i \in 1..Len(f.kids[p]) : f.kids[p][i] = c
    BY <2>0, ForestFacts
  <2>3. CASE h.children[p] = NULL
    <3>1. r = [h |-> h, ret |-> -6]  BY <1>2, <2>3, SameCodes DEF node_detach, detach_guard
    <3>2. Len(f.kids[p]) = 0  BY <2>1, <2>3 DEF Listed
    <3>3. f.parent[c] # p /\ f.kids[p] = <<>>  BY <2>2, <3>2, EmptySeq
    <3>4. -6 \in Op!detach_errors(f, p, c)  BY <1>2, <3>3, SameCodes DEF Op!detach_errors
    <3> QED  BY <3>1, <3>4
  <2>4. CASE h.children[p] # NULL /\ f.parent[c] \notin {NULL, p}
    <3>1. r = [h |-> h, ret |-> -3]
      BY <1>2, <2>1, <2>4, SameCodes DEF node_detach, detach_guard
    <3>2. -3 \in Op!detach_errors(f, p, c)  BY <1>2, <2>4, SameCodes DEF Op!detach_errors
    <3> QED  BY <3>1, <3>2
  <2>5. CASE h.children[p] # NULL /\ f.parent[c] \in {NULL, p}
    <3>1. r = disown(node_list_remove(h, p, c), p, c)
      BY <1>2, <2>1, <2>5, SameCodes DEF node_detach, detach_guard
    <3>2. ChildSeq(h, p) = f.kids[p]  BY <2>0, ReadsForest
    <3>3. ToSet(f.kids[p]) = {f.kids[p][i] : i \in 1..Len(f.kids[p])}  BY <2>2 DEF ToSet
    <3>4. CASE f.parent[c] # p
      <4>1. c \notin ToSet(f.kids[p])  BY <2>2, <3>3, <3>4
      <4>2. r = [h |-> h, ret |-> -6]
        BY <3>1, <3>2, <4>1, SameCodes DEF node_list_remove, disown
      <4>3. f.parent[c] = NULL  BY <2>5, <3>4
      <4>4. Op!detach_errors(f, p, c) = {-6}
        BY <1>2, <3>4, <4>3, SameCodes DEF Op!detach_errors
      <4> QED  BY <4>2, <4>4
    <3>5. CASE f.parent[c] = p
      <4> DEFINE x == L!node_detach(f, p, c).ret
      <4>1. c \in ToSet(f.kids[p])  BY <2>2, <3>3, <3>5
      <4>2. h.children[p].count # 0
        <5>1. h.children[p].count = Len(f.kids[p])  BY <2>1, <2>5 DEF Listed
        <5>2. PICK i \in 1..Len(f.kids[p]) : f.kids[p][i] = c  BY <2>2, <3>5
        <5> QED  BY <2>2, <5>1, <5>2
      <4>3. node_list_remove(h, p, c) =
              [h |-> list_unlink(h, p, c),
               ret |-> (CHOOSE i \in DOMAIN f.kids[p] : f.kids[p][i] = c) - 1]
        BY <3>2, <4>1, <4>2 DEF node_list_remove
      <4>4. (CHOOSE i \in DOMAIN f.kids[p] : f.kids[p][i] = c) - 1 = x
        BY DEF L!node_detach, L!node_child_position
      <4>5. /\ x \in Int /\ x + 1 \in DOMAIN f.kids[p] /\ f.kids[p][x + 1] = c
            /\ L!node_detach(f, p, c).f = L!Unlink(f, p, x + 1)
        BY <2>0, <3>5, L!DetachForest, Constants
      <4> HIDE DEF x, r
      <4>6. x \in Nat  BY <2>2, <4>5
      <4>7. r = disown([h |-> list_unlink(h, p, c), ret |-> x], p, c)  BY <3>1, <4>3, <4>4
      <4>8. PICK before, after : before = h.prev[c] /\ after = h.next[c]  OBVIOUS
      <4>9. r.ret = x /\ Cut(r.h, h, p, c, before, after)
        BY <2>0, <2>1, <4>6, <4>7, <4>8, UnlinkCuts
      <4>10. PICK i \in 1..Len(f.kids[p]) : i = x + 1  BY <2>2, <4>5
      <4>11. Represents(r.h, L!Unlink(f, p, i))
        <5>1. c = f.kids[p][i]  BY <4>5, <4>10
        <5> QED  BY <2>0, <4>8, <4>9, <5>1, CutRepresents
      <4>12. Op!detach_errors(f, p, c) = {}  BY <1>2, <3>5 DEF Op!detach_errors
      <4>13. ~(x < 0)  BY <4>6
      <4> QED  BY <2>0, <3>5, <4>5, <4>9, <4>10, <4>11, <4>12, <4>13 DEF x, r
    <3> QED  BY <3>4, <3>5
  <2> QED  BY <2>3, <2>4, <2>5
<1> QED  BY <1>1, <1>2

-----------------------------------------------------------------------------
(***************************************************************************)
(* node_destroy                                                            *)
(***************************************************************************)
\* Freeing nodes that are linked only to one another.
LEMMA ReleaseRepresents ==
    ASSUME NEW f, L!ForestInv(f), NEW h, Represents(h, f), NEW S \in SUBSET Node,
           \A n \in Node : f.parent[n] # NULL => (n \in S <=> f.parent[n] \in S)
    PROVE  Represents(release(h, S), L!Release(f, S))
<1> DEFINE g == release(h, S)
           k == L!Release(f, S)
<1>1. /\ h.next \in [Node -> Node \cup {NULL}] /\ h.prev \in [Node -> Node \cup {NULL}]
      /\ h.parent \in [Node -> Node \cup {NULL}] /\ h.count \in [Node -> Nat]
      /\ h.children \in [Node -> NodeList \cup {NULL}]
  BY HeapFacts DEF Represents
<1>2. /\ g = [next |-> g.next, prev |-> g.prev, parent |-> g.parent,
              count |-> g.count, children |-> g.children]
      /\ g.next = [n \in Node |-> IF n \in S THEN NULL ELSE h.next[n]]
      /\ g.prev = [n \in Node |-> IF n \in S THEN NULL ELSE h.prev[n]]
      /\ g.parent = [n \in Node |-> IF n \in S THEN NULL ELSE h.parent[n]]
      /\ g.count = [n \in Node |-> IF n \in S THEN 0 ELSE h.count[n]]
      /\ g.children = [n \in Node |-> IF n \in S THEN NULL ELSE h.children[n]]
  BY DEF release
<1>3. /\ k.kids = [n \in Node |-> IF n \in S THEN <<>> ELSE f.kids[n]]
      /\ k.parent = [n \in Node |-> IF n \in S THEN NULL ELSE f.parent[n]]
  BY DEF L!Release
<1> HIDE DEF g, k
<1>4. g \in HeapType
  <2>1. g.next \in Pointers /\ g.prev \in Pointers /\ g.parent \in Pointers
    BY <1>1, <1>2 DEF Pointers
  <2>2. g.count \in [Node -> Nat] /\ g.children \in [Node -> NodeList \cup {NULL}]
    BY <1>1, <1>2
  <2> QED  BY <1>2, <2>1, <2>2 DEF HeapType
<1>5. g.parent = k.parent  BY <1>2, <1>3 DEF Represents
<1>6. ASSUME NEW n \in Node PROVE Listed(g, n, k.kids[n])
  <2>1. CASE n \in S
    <3>1. k.kids[n] = <<>> /\ g.count[n] = 0 /\ g.children[n] = NULL  BY <1>2, <1>3, <2>1
    <3>2. Len(<<>>) = 0 /\ 1..0 = {}  OBVIOUS
    <3> QED  BY <3>1, <3>2 DEF Listed
  <2>2. CASE n \notin S
    <3>1. k.kids[n] = f.kids[n] /\ g.count[n] = h.count[n] /\ g.children[n] = h.children[n]
      BY <1>2, <1>3, <2>2
    <3>2. \A i \in 1..Len(f.kids[n]) : f.kids[n][i] \in Node /\ f.parent[f.kids[n][i]] = n
      BY ForestFacts
    <3>3. \A i \in 1..Len(f.kids[n]) : f.kids[n][i] \notin S  BY <2>2, <3>2, NodeAssumption
    <3>4. \A i \in 1..Len(f.kids[n]) : /\ g.next[f.kids[n][i]] = h.next[f.kids[n][i]]
                                       /\ g.prev[f.kids[n][i]] = h.prev[f.kids[n][i]]
      BY <1>2, <3>2, <3>3
    <3>5. Listed(h, n, f.kids[n])  BY DEF Represents
    <3> QED  BY <3>1, <3>4, <3>5 DEF Listed
  <2> QED  BY <2>1, <2>2
<1>7. ASSUME NEW n \in Node, k.parent[n] = NULL PROVE g.next[n] = NULL /\ g.prev[n] = NULL
  <2>1. n \in S \/ f.parent[n] = NULL  BY <1>3, <1>7
  <2> QED  BY <1>2, <2>1 DEF Represents
<1> QED  BY <1>4, <1>5, <1>6, <1>7 DEF Represents, g, k

\* A node in no tree can be freed without a trace.
LEMMA ReleaseLoneNode ==
    ASSUME NEW f, L!ForestInv(f), NEW n \in Node, f.kids[n] = <<>>, f.parent[n] = NULL
    PROVE  /\ \A m \in Node : f.parent[m] # NULL => (m \in {n} <=> f.parent[m] \in {n})
           /\ L!Release(f, {n}) = f
<1>1. /\ f = [kids |-> f.kids, parent |-> f.parent]
      /\ f.kids \in [Node -> Seq(Node)] /\ f.parent \in [Node -> Node \cup {NULL}]
      /\ \A c \in Node : f.parent[c] = n => \E i \in 1..Len(f.kids[n]) : f.kids[n][i] = c
  BY ForestFacts
<1>2. Len(f.kids[n]) = 0 /\ 1..0 = {}  OBVIOUS
<1>3. \A c \in Node : f.parent[c] # n  BY <1>1, <1>2
<1>4. [m \in Node |-> IF m \in {n} THEN <<>> ELSE f.kids[m]] = f.kids  BY <1>1
<1>5. [m \in Node |-> IF m \in {n} THEN NULL ELSE f.parent[m]] = f.parent  BY <1>1
<1>6. L!Release(f, {n}) = f  BY <1>1, <1>4, <1>5 DEF L!Release
<1> QED  BY <1>3, <1>6

\* A whole tree can.
LEMMA ReleaseTree ==
    ASSUME NEW f, L!ForestInv(f), NEW h, Represents(h, f), NEW r \in Node, f.parent[r] = NULL
    PROVE  LET S == L!Subtree(f, r) IN
           /\ S \in SUBSET Node
           /\ L!ForestInv(L!Release(f, S))
           /\ Represents(release(h, S), L!Release(f, S))
           /\ \A n \in S : L!Release(f, S).kids[n] = <<>> /\ L!Release(f, S).parent[n] = NULL
           /\ \A n \in Node \ S : /\ L!Release(f, S).parent[n] = f.parent[n]
                                  /\ L!Release(f, S).kids[n] = f.kids[n]
<1>1. f \in L!Forest  BY DEF L!ForestInv
<1>2. PICK S : S = L!Subtree(f, r)  OBVIOUS
<1>3. /\ S \in SUBSET Node
      /\ \A n \in Node : f.parent[n] # NULL => (n \in S <=> f.parent[n] \in S)
  BY <1>1, <1>2, L!RootSubtree, Constants
<1>4. PICK d : d = IF f.parent[r] = NULL THEN f ELSE L!node_detach(f, f.parent[r], r).f
  OBVIOUS
<1>5. /\ L!ForestInv(L!Release(d, S))
      /\ \A n \in S : L!Release(d, S).kids[n] = <<>> /\ L!Release(d, S).parent[n] = NULL
      /\ \A n \in Node \ S : /\ L!Release(d, S).parent[n] = f.parent[n]
                             /\ n # f.parent[r] => L!Release(d, S).kids[n] = f.kids[n]
  BY <1>2, <1>4, L!FreeForest, Constants
<1>6. d = f /\ \A n \in Node : n # f.parent[r]  BY <1>4, NodeAssumption
<1>7. Represents(release(h, S), L!Release(f, S))  BY <1>3, ReleaseRepresents
<1> QED  BY <1>2, <1>3, <1>5, <1>6, <1>7

-----------------------------------------------------------------------------
(***************************************************************************)
(* node_copy_deep. S is the tree that is copied, copyOf[t] the node that   *)
(* becomes the copy of t: a node in no tree.                               *)
(***************************************************************************)
Copies(f, S, copyOf) ==
    /\ S \in SUBSET Node
    /\ \A t \in S : copyOf[t] \in Node /\ copyOf[t] \notin S
    /\ \A t \in S : f.kids[copyOf[t]] = <<>> /\ f.parent[copyOf[t]] = NULL
    /\ \A t, x \in S : copyOf[t] = copyOf[x] => t = x
    /\ \E r \in S : /\ S = L!Subtree(f, r)
                    /\ \A n \in Node : n # r => (n \in S <=> f.parent[n] \in S)
                    /\ f.parent[r] \notin S

CopiesOf(copyOf, A) == {copyOf[x] : x \in A}

\* How far the copy is: u[t] of the children of t are copied and attached.
Progress(f, S, u) == u \in [S -> Nat] /\ \A t \in S : u[t] <= Len(f.kids[t])

Copying(g, f, S, copyOf, u) ==
    /\ L!ForestInv(g)
    /\ \A m \in Node : (\A t \in S : m # copyOf[t]) =>
          g.kids[m] = f.kids[m] /\ g.parent[m] = f.parent[m]
    /\ \A t \in S : /\ Len(g.kids[copyOf[t]]) = u[t]
                    /\ \A i \in 1..u[t] : g.kids[copyOf[t]][i] = copyOf[f.kids[t][i]]

\* The children of a node of the tree are in the tree.
LEMMA CopiesBelow ==
    ASSUME NEW f, L!ForestInv(f), NEW S, NEW copyOf, Copies(f, S, copyOf), NEW t \in S
    PROVE  /\ t \in Node
           /\ \A i \in 1..Len(f.kids[t]) : /\ f.kids[t][i] \in S
                                           /\ f.parent[f.kids[t][i]] = t
<1>1. t \in Node  BY DEF Copies
<1>2. \A i \in 1..Len(f.kids[t]) : f.kids[t][i] \in Node /\ f.parent[f.kids[t][i]] = t
  BY <1>1, ForestFacts
<1>3. PICK r \in S : \A n \in Node : n # r => (n \in S <=> f.parent[n] \in S)
  BY DEF Copies
<1> QED  BY <1>1, <1>2, <1>3

\* A copy's parent is the copy of the parent, once it is attached.
LEMMA CopyParent ==
    ASSUME NEW f, L!ForestInv(f), NEW S, NEW copyOf, Copies(f, S, copyOf),
           NEW u, Progress(f, S, u), NEW g, Copying(g, f, S, copyOf, u),
           NEW m \in S, g.parent[copyOf[m]] # NULL
    PROVE  \E t \in S : \E i \in 1..u[t] :
              m = f.kids[t][i] /\ f.parent[m] = t /\ g.parent[copyOf[m]] = copyOf[t]
<1>q. PICK p : p = g.parent[copyOf[m]]  OBVIOUS
<1>0. /\ copyOf[m] \in Node /\ f.parent[copyOf[m]] = NULL /\ L!ForestInv(g)
  BY DEF Copies, Copying
<1>1. p \in Node  BY <1>0, <1>q, ForestFacts
<1>2. PICK j \in 1..Len(g.kids[p]) : g.kids[p][j] = copyOf[m]
  <2>1. \A c \in Node : g.parent[c] = p => \E j \in 1..Len(g.kids[p]) : g.kids[p][j] = c
    BY <1>0, <1>1, ForestFacts
  <2> QED  BY <1>0, <1>q, <2>1
<1>3. CASE \A t \in S : p # copyOf[t]
  <2>1. g.kids[p] = f.kids[p]  BY <1>1, <1>3 DEF Copying
  <2>2. f.parent[copyOf[m]] = p
    <3>1. j \in 1..Len(f.kids[p]) /\ f.kids[p][j] = copyOf[m]  BY ONLY <1>2, <2>1
    <3> QED  BY ONLY <3>1, <1>1, L!ForestInv(f), ForestFacts
  <2> QED  BY <1>0, <1>1, <2>2, NodeAssumption
<1>4. CASE \E t \in S : p = copyOf[t]
  <2>1. PICK t \in S : p = copyOf[t]  BY <1>4
  <2>2. j \in 1..u[t] /\ copyOf[m] = copyOf[f.kids[t][j]]
    BY <1>2, <2>1 DEF Copying
  <2>3. u[t] \in Nat /\ u[t] <= Len(f.kids[t]) /\ Len(f.kids[t]) \in Nat
    BY ForestFacts, CopiesBelow DEF Progress
  <2>4. j \in 1..Len(f.kids[t])  BY <2>2, <2>3
  <2>5. f.kids[t][j] \in S /\ f.parent[f.kids[t][j]] = t  BY <2>4, CopiesBelow
  <2>6. m = f.kids[t][j]  BY <2>2, <2>5 DEF Copies
  <2> QED  BY <1>q, <2>1, <2>2, <2>5, <2>6
<1> QED  BY <1>3, <1>4

\* Above a copy are copies of nodes above the original; below the copy of a
\* node that is still a root, all of them below the original.
LEMMA CopyAncestors ==
    ASSUME NEW f, L!ForestInv(f), NEW S, NEW copyOf, Copies(f, S, copyOf),
           NEW u, Progress(f, S, u), NEW g, Copying(g, f, S, copyOf, u)
    PROVE  /\ \A t \in S : L!Ancestors(g, copyOf[t]) \subseteq
                              CopiesOf(copyOf, L!Ancestors(f, t) \cap S)
           /\ \A m \in S, t \in S :
                 g.parent[copyOf[m]] = NULL /\ copyOf[m] \in L!Ancestors(g, copyOf[t]) =>
                    L!Ancestors(g, copyOf[t]) \subseteq
                       CopiesOf(copyOf, L!Ancestors(f, t) \cap S \cap L!Subtree(f, m))
<1>0. /\ f \in L!Forest /\ g \in L!Forest /\ S \in SUBSET Node
      /\ \A t \in S : copyOf[t] \in Node
      /\ \A t, x \in S : copyOf[t] = copyOf[x] => t = x
  BY DEF Copies, Copying, L!ForestInv
<1>p. \A m \in S : g.parent[copyOf[m]] # NULL =>
         f.parent[m] \in S /\ g.parent[copyOf[m]] = copyOf[f.parent[m]]
  BY CopyParent
<1>1. ASSUME NEW t \in S
      PROVE  L!Ancestors(g, copyOf[t]) \subseteq {copyOf[x] : x \in L!Ancestors(f, t) \cap S}
  <2> DEFINE A == L!Ancestors(f, t)
             T == {copyOf[x] : x \in A \cap S}
  <2>1. t \in A /\ A \subseteq Node /\ \A x \in A : f.parent[x] \in Node => f.parent[x] \in A
    BY <1>0, L!AncestorsClosed, Constants
  <2>2. T \in SUBSET Node /\ copyOf[t] \in T  BY <1>0, <2>1
  <2>3. ASSUME NEW y \in T PROVE g.parent[y] \in T \cup {NULL}
    <3>1. PICK x \in A \cap S : y = copyOf[x]  OBVIOUS
    <3> QED  BY <1>0, <1>p, <2>1, <3>1
  <2> HIDE DEF T
  <2>4. \A y \in T : g.parent[y] \in T \cup {NULL}  BY <2>3
  <2>5. L!Ancestors(g, copyOf[t]) \subseteq T
    BY <1>0, <2>2, <2>4, L!AncestorsMinimal, Constants
  <2> QED  BY <2>5 DEF T
<1>2. ASSUME NEW m \in S, NEW t \in S, g.parent[copyOf[m]] = NULL,
             copyOf[m] \in L!Ancestors(g, copyOf[t])
      PROVE  L!Ancestors(g, copyOf[t]) \subseteq
                {copyOf[x] : x \in L!Ancestors(f, t) \cap S \cap L!Subtree(f, m)}
  <2> DEFINE A == L!Ancestors(f, t) \cap S \cap L!Subtree(f, m)
             T == {copyOf[x] : x \in A}
             B == L!Ancestors(f, t)
  <2>1. t \in B /\ B \subseteq Node /\ \A x \in B : f.parent[x] \in Node => f.parent[x] \in B
    BY <1>0, L!AncestorsClosed, Constants
  <2>2. /\ L!Subtree(f, m) \subseteq Node
        /\ \A n \in Node : n # m => (n \in L!Subtree(f, m) <=> f.parent[n] \in L!Subtree(f, m))
    BY <1>0, L!SubtreeCut, Constants
  <2>3. m \in B
    <3>1. copyOf[m] \in {copyOf[x] : x \in B \cap S}  BY <1>1, <1>2
    <3> QED  BY <1>0, <3>1
  <2>4. t \in A  BY <1>0, <2>1, <2>3 DEF L!Subtree
  <2>5. T \in SUBSET Node /\ copyOf[t] \in T  BY <1>0, <2>4
  <2>6. ASSUME NEW y \in T PROVE g.parent[y] \in T \cup {NULL}
    <3>1. PICK x \in A : y = copyOf[x]  OBVIOUS
    <3>2. CASE g.parent[y] = NULL  BY <3>2
    <3>3. CASE g.parent[y] # NULL
      <4>1. x # m  BY <1>2, <3>1, <3>3
      <4>2. f.parent[x] \in S /\ g.parent[y] = copyOf[f.parent[x]]  BY <1>p, <3>1, <3>3
      <4>3. f.parent[x] \in A  BY <1>0, <2>1, <2>2, <3>1, <4>1, <4>2
      <4> QED  BY <4>2, <4>3
    <3> QED  BY <3>2, <3>3
  <2> HIDE DEF T
  <2>7. \A y \in T : g.parent[y] \in T \cup {NULL}  BY <2>6
  <2>8. L!Ancestors(g, copyOf[t]) \subseteq T
    BY <1>0, <2>5, <2>7, L!AncestorsMinimal, Constants
  <2> QED  BY <2>8 DEF T
<1> QED  BY <1>1, <1>2 DEF CopiesOf

\* The copies of a set of nodes are as many.
LEMMA CopiesCounted ==
    ASSUME NEW f, NEW S, NEW copyOf, Copies(f, S, copyOf), NEW A \in SUBSET S
    PROVE  /\ IsFiniteSet(A) /\ Cardinality(A) \in Nat
           /\ IsFiniteSet(CopiesOf(copyOf, A))
           /\ Cardinality(CopiesOf(copyOf, A)) = Cardinality(A)
<1> DEFINE T == {copyOf[x] : x \in A}
           w == [x \in A |-> copyOf[x]]
<1>1. A \in SUBSET Node /\ T \in SUBSET Node /\ \A t, x \in A : copyOf[t] = copyOf[x] => t = x
  BY DEF Copies
<1>2. IsFiniteSet(A) /\ IsFiniteSet(T) /\ Cardinality(A) \in Nat
  BY <1>1, NodeAssumption, FS_Subset, FS_CardinalityType
<1>3. w \in Surjection(A, T) /\ w \in Injection(A, T)
  BY <1>1 DEF Surjection, Injection, IsInjective
<1> HIDE DEF T, w
<1>4. Cardinality(T) = Cardinality(A)  BY <1>2, <1>3, FS_Surjection
<1> QED  BY <1>2, <1>4 DEF T, CopiesOf

\* No guard refuses the next copy: the copy's tree is where the original's
\* is, less what is above the tree that is copied.
LEMMA CopyFits ==
    ASSUME NEW f, L!ForestInv(f), NEW S, NEW copyOf, Copies(f, S, copyOf),
           NEW u, Progress(f, S, u), NEW g, Copying(g, f, S, copyOf, u),
           NEW t \in S, NEW k \in 1..Len(f.kids[t]), k > u[t],
           NEW m, m = f.kids[t][k]
    PROVE  /\ m \in S /\ f.parent[m] = t
           /\ L!attach_guard(g, copyOf[t], copyOf[m]) = 0
<1>0. /\ f \in L!Forest /\ g \in L!Forest /\ S \in SUBSET Node /\ t \in Node
      /\ L!ForestInv(g) /\ \A n \in Node : L!Depth(f, n) <= MaxDepth
      /\ \A x \in S : copyOf[x] \in Node
      /\ \A x \in S : f.kids[copyOf[x]] = <<>> /\ f.parent[copyOf[x]] = NULL
      /\ \A x, y \in S : copyOf[x] = copyOf[y] => x = y
      /\ \A n \in Node : (\A x \in S : n # copyOf[x]) => g.parent[n] = f.parent[n]
      /\ u[t] \in Nat
  BY DEF Copies, Copying, Progress, L!ForestInv, L!Shallow
<1>1. m \in S /\ f.parent[m] = t /\ m \in Node  BY <1>0, CopiesBelow
<1>2. \A i, j \in 1..Len(f.kids[t]) : f.kids[t][i] = f.kids[t][j] => i = j
  BY <1>0, ForestFacts
<1> DEFINE a == copyOf[t]
           b == copyOf[m]
<1>3. g.parent[b] = NULL
  <2> SUFFICES ASSUME g.parent[b] # NULL PROVE FALSE  OBVIOUS
  <2>1. PICK x \in S : \E i \in 1..u[x] : m = f.kids[x][i] /\ f.parent[m] = x
    BY <1>1, CopyParent
  <2>2. PICK i \in 1..u[t] : m = f.kids[t][i]  BY <1>1, <2>1
  <2>3. i \in 1..Len(f.kids[t]) /\ i # k  BY <1>0, <2>2
  <2> QED  BY <1>2, <2>2, <2>3
<1>4. t # NULL /\ m \notin L!Ancestors(f, t)
  BY <1>0, <1>1, L!ChildNotAbove, Constants, NodeAssumption
<1>5. L!Ancestors(g, a) \subseteq CopiesOf(copyOf, L!Ancestors(f, t) \cap S)
  BY CopyAncestors
<1>6. b \notin L!Ancestors(g, a)
  <2> SUFFICES ASSUME b \in L!Ancestors(g, a) PROVE FALSE  OBVIOUS
  <2>1. PICK x \in L!Ancestors(f, t) \cap S : b = copyOf[x]  BY <1>5 DEF CopiesOf
  <2> QED  BY <1>0, <1>1, <1>4, <2>1
<1>7. ASSUME NEW y \in L!Subtree(g, b), L!Depth(g, a) + 1 + L!Depth(g, y) > MaxDepth
      PROVE  FALSE
  <2>1. y \in Node /\ b \in L!Ancestors(g, y)  BY <1>7 DEF L!Subtree
  <2>2. \E x \in S : y = copyOf[x]
    <3> DEFINE T == {n \in Node : \A x \in S : n # copyOf[x]}
    <3> SUFFICES ASSUME y \in T PROVE FALSE  BY <2>1
    <3>1. ASSUME NEW z \in T PROVE g.parent[z] \in T \cup {NULL}
      <4>1. g.parent[z] = f.parent[z] /\ f.parent[z] \in Node \cup {NULL}
        BY <1>0, ForestFacts
      <4>2. ASSUME NEW x \in S, f.parent[z] = copyOf[x] PROVE FALSE
        <5>1. Len(f.kids[copyOf[x]]) = 0  BY <1>0
        <5>2. \A c \in Node : f.parent[c] = copyOf[x] =>
                 \E i \in 1..Len(f.kids[copyOf[x]]) : f.kids[copyOf[x]][i] = c
          <6>1. PICK n \in Node : n = copyOf[x]  BY <1>0
          <6> QED  BY <6>1, ForestFacts
        <5> QED  BY <4>2, <5>1, <5>2
      <4> QED  BY <4>1, <4>2
    <3>2. T \in SUBSET Node /\ \A z \in T : g.parent[z] \in T \cup {NULL}  BY <3>1
    <3>3. b \notin T  BY <1>1
    <3> HIDE DEF T
    <3>4. L!Ancestors(g, y) \subseteq T  BY <1>0, <2>1, <3>2, L!AncestorsMinimal, Constants
    <3> QED  BY <2>1, <3>3, <3>4
  <2>3. PICK x \in S : y = copyOf[x]  BY <2>2
  <2> DEFINE A1 == L!Ancestors(f, t) \cap S
             A2 == L!Ancestors(f, x) \cap S \cap L!Subtree(f, m)
             A == L!Ancestors(f, x)
  <2>4. L!Ancestors(g, y) \subseteq CopiesOf(copyOf, A2)
    BY <1>1, <1>3, <2>1, <2>3, CopyAncestors
  <2>5. m \in A
    <3>1. L!Ancestors(g, y) \subseteq CopiesOf(copyOf, A \cap S)  BY <2>3, CopyAncestors
    <3>2. PICK z \in A \cap S : b = copyOf[z]  BY <2>1, <3>1 DEF CopiesOf
    <3> QED  BY <1>0, <1>1, <3>2
  <2>6. t \in A
    <3>1. \A n \in A : f.parent[n] \in Node => f.parent[n] \in A
      BY <1>0, L!AncestorsClosed, Constants
    <3> QED  BY <1>0, <1>1, <2>5, <3>1
  <2>7. L!Ancestors(f, t) \subseteq A  BY <1>0, <2>6, L!AncestorsTransitive, Constants
  <2>8. A1 \cap A2 = {}
    <3> SUFFICES ASSUME NEW z \in A1, z \in A2 PROVE FALSE  OBVIOUS
    <3>1. m \in L!Ancestors(f, z)  BY DEF L!Subtree
    <3>2. L!Ancestors(f, z) \subseteq L!Ancestors(f, t)
      BY <1>0, L!AncestorsTransitive, Constants
    <3> QED  BY <1>4, <3>1, <3>2
  <2>9. A1 \cup A2 \subseteq A /\ A1 \in SUBSET S /\ A2 \in SUBSET S  BY <2>7
  <2>10. x \in Node /\ y \in Node /\ a \in Node  BY <1>0, <2>1
  <2>11. /\ IsFiniteSet(A) /\ Cardinality(A) \in Nat /\ L!Depth(f, x) = Cardinality(A) - 1
         /\ Cardinality(L!Ancestors(g, a)) \in Nat /\ Cardinality(L!Ancestors(g, y)) \in Nat
         /\ L!Depth(g, a) = Cardinality(L!Ancestors(g, a)) - 1
         /\ L!Depth(g, y) = Cardinality(L!Ancestors(g, y)) - 1
    BY <2>10, L!DepthType, SameLibrary, Constants
  <2> DEFINE C1 == CopiesOf(copyOf, A1)
             C2 == CopiesOf(copyOf, A2)
  <2>c. L!Ancestors(g, a) \subseteq C1 /\ L!Ancestors(g, y) \subseteq C2  BY <1>5, <2>4
  <2>f. /\ IsFiniteSet(A1) /\ Cardinality(A1) \in Nat
        /\ IsFiniteSet(C1) /\ Cardinality(C1) = Cardinality(A1)
        /\ IsFiniteSet(A2) /\ Cardinality(A2) \in Nat
        /\ IsFiniteSet(C2) /\ Cardinality(C2) = Cardinality(A2)
    <3>1. A1 \in SUBSET S /\ A2 \in SUBSET S  BY <2>9
    <3> HIDE DEF A1, A2
    <3> QED  BY <3>1, CopiesCounted
  <2> HIDE DEF A1, A2, A, C1, C2
  <2>12. /\ Cardinality(L!Ancestors(g, a)) <= Cardinality(A1)
         /\ Cardinality(L!Ancestors(g, y)) <= Cardinality(A2)
    BY <2>c, <2>f, FS_Subset
  <2>13. Cardinality(A1) + Cardinality(A2) <= Cardinality(A)
    <3>1. Cardinality(A1 \cup A2) = Cardinality(A1) + Cardinality(A2) - Cardinality({})
      BY <2>8, <2>f, FS_Union
    <3>2. Cardinality(A1 \cup A2) <= Cardinality(A)  BY <2>9, <2>11, FS_Subset
    <3>3. Cardinality({}) = 0  BY FS_EmptySet
    <3> QED  BY <2>f, <3>1, <3>2, <3>3
  <2>14. L!Depth(f, x) <= MaxDepth  BY <1>0, <2>10
  <2> HIDE DEF a
  <2> QED  BY <1>7, <2>f, <2>11, <2>12, <2>13, <2>14, Constants
<1>8. a \in Node /\ b \in Node /\ NULL \notin {a, b}  BY <1>0, <1>1, NodeAssumption
<1> HIDE DEF a, b
<1>9. L!attach_guard(g, a, b) = 0
  BY <1>3, <1>6, <1>7, <1>8, SameCodes
     DEF L!attach_guard, L!would_create_cycle, L!exceeds_max_depth
<1> QED  BY <1>1, <1>9 DEF a, b

\* A heap in which the copy has got as far as u.
CopyHeap(h, f, S, copyOf, u) ==
    /\ Progress(f, S, u)
    /\ \E g : Copying(g, f, S, copyOf, u) /\ Represents(h, g)

\* The list operation, at the end of a list.
LEMMA PutLast ==
    ASSUME NEW q \in Seq(Node), NEW e \in Node
    PROVE  \A k, s : k = Len(q) + 1 /\ s = InsertAt(q, k, e) =>
              Len(s) = k /\ \A j \in 1..k : s[j] = IF j < k THEN q[j] ELSE e
<1>1. Len(q) \in Nat  BY LenProperties
<1>2. ASSUME NEW i \in 1..(Len(q) + 1)
      PROVE  /\ Len(InsertAt(q, i, e)) = Len(q) + 1
             /\ \A j \in 1..(Len(q) + 1) : InsertAt(q, i, e)[j] =
                   IF j < i THEN q[j] ELSE IF j = i THEN e ELSE q[j - 1]
  <2>1. Len(InsertAt(q, i, e)) = Len(q) + 1  BY Inserted
  <2>2. \A j \in 1..(Len(q) + 1) : InsertAt(q, i, e)[j] =
           IF j < i THEN q[j] ELSE IF j = i THEN e ELSE q[j - 1]
    BY Inserted
  <2> QED  BY <2>1, <2>2
<1>3. SUFFICES ASSUME NEW k, NEW s, k = Len(q) + 1, s = InsertAt(q, k, e)
               PROVE  Len(s) = k /\ \A j \in 1..k : s[j] = IF j < k THEN q[j] ELSE e
  OBVIOUS
<1>4. k \in 1..(Len(q) + 1)  BY <1>1, <1>3
<1>5. /\ Len(s) = Len(q) + 1
      /\ \A j \in 1..(Len(q) + 1) :
            s[j] = IF j < k THEN q[j] ELSE IF j = k THEN e ELSE q[j - 1]
  <2>1. PICK i \in 1..(Len(q) + 1) : i = k  BY <1>4
  <2> QED  BY <1>2, <1>3, <2>1
<1>6. ASSUME NEW j \in 1..k PROVE s[j] = IF j < k THEN q[j] ELSE e
  <2>1. j \in 1..(Len(q) + 1) /\ (j < k \/ (~(j < k) /\ j = k))  BY <1>1, <1>3
  <2> QED  BY <1>5, <2>1
<1> QED  BY <1>3, <1>5, <1>6

LEMMA CopyLink ==
    ASSUME NEW f, L!ForestInv(f), NEW S, NEW copyOf, Copies(f, S, copyOf),
           NEW u, Progress(f, S, u), NEW g, Copying(g, f, S, copyOf, u),
           NEW t \in S, NEW k \in 1..Len(f.kids[t]), k = u[t] + 1,
           NEW v, v = [u EXCEPT ![t] = k],
           NEW a, a = copyOf[t], NEW b, b = copyOf[f.kids[t][k]],
           NEW w, w = L!Link(g, a, Len(g.kids[a]) + 1, b), L!ForestInv(w)
    PROVE  Progress(f, S, v) /\ Copying(w, f, S, copyOf, v)
<1>0. /\ u \in [S -> Nat] /\ \A x \in S : u[x] <= Len(f.kids[x])
      /\ \A x \in S : copyOf[x] \in Node
      /\ \A x, y \in S : copyOf[x] = copyOf[y] => x = y
      /\ \A n \in Node : (\A x \in S : n # copyOf[x]) =>
            g.kids[n] = f.kids[n] /\ g.parent[n] = f.parent[n]
      /\ \A x \in S : /\ Len(g.kids[copyOf[x]]) = u[x]
                      /\ \A i \in 1..u[x] : g.kids[copyOf[x]][i] = copyOf[f.kids[x][i]]
      /\ L!ForestInv(g)
  BY DEF Copies, Copying, Progress
<1>1. f.kids[t][k] \in S /\ t \in Node  BY CopiesBelow
<1>2. a \in Node /\ b \in Node  BY <1>0, <1>1
<1>3. g.kids \in [Node -> Seq(Node)] /\ g.parent \in [Node -> Node \cup {NULL}]
  BY <1>0, ForestFacts
<1>4. PICK q : q = g.kids[a]  OBVIOUS
<1>5. q \in Seq(Node) /\ Len(q) = u[t] /\ u[t] \in Nat /\ Len(q) + 1 = k /\ k \in Nat
  BY <1>0, <1>2, <1>3, <1>4
<1>6. PICK s : s = InsertAt(q, k, b)  OBVIOUS
<1>7. Len(s) = k /\ \A j \in 1..k : s[j] = IF j < k THEN q[j] ELSE b
  BY ONLY <1>2, <1>5, <1>6, PutLast
<1>8. /\ w.kids = [g.kids EXCEPT ![a] = s] /\ w.parent = [g.parent EXCEPT ![b] = a]
  BY <1>4, <1>5, <1>6, SameLibrary DEF L!Link
<1>9. Progress(f, S, v)  BY <1>0, <1>5 DEF Progress
<1>10. ASSUME NEW n \in Node, \A x \in S : n # copyOf[x]
       PROVE  w.kids[n] = f.kids[n] /\ w.parent[n] = f.parent[n]
  <2>1. n # a /\ n # b  BY <1>1, <1>10
  <2>2. w.kids[n] = g.kids[n]
    <3>1. w.kids = [g.kids EXCEPT ![a] = s] /\ g.kids \in [Node -> Seq(Node)]  BY <1>3, <1>8
    <3> QED  BY ONLY n \in Node, <2>1, <3>1
  <2>3. w.parent[n] = g.parent[n]
    <3>1. w.parent = [g.parent EXCEPT ![b] = a] /\ g.parent \in [Node -> Node \cup {NULL}]
      BY <1>3, <1>8
    <3> QED  BY ONLY n \in Node, <2>1, <3>1
  <2> QED  BY <1>0, <1>10, <2>2, <2>3
<1>11. ASSUME NEW x \in S
       PROVE  /\ Len(w.kids[copyOf[x]]) = v[x]
              /\ \A i \in 1..v[x] : w.kids[copyOf[x]][i] = copyOf[f.kids[x][i]]
  <2>1. CASE x = t
    <3>1. w.kids[copyOf[x]] = s /\ v[x] = k  BY <1>0, <1>2, <1>3, <1>8, <2>1
    <3>2. ASSUME NEW i \in 1..k PROVE s[i] = copyOf[f.kids[x][i]]
      <4>1. s[i] = IF i < k THEN q[i] ELSE b  BY <1>7
      <4>2. CASE i < k
        <5>1. i \in 1..u[t]  BY <1>5, <4>2
        <5> QED  BY <1>0, <1>4, <2>1, <4>1, <4>2, <5>1
      <4>3. CASE ~(i < k)
        <5>1. i = k  BY <1>5, <4>3
        <5> QED  BY <2>1, <4>1, <5>1
      <4> QED  BY <4>2, <4>3
    <3> QED  BY <1>7, <3>1, <3>2
  <2>2. CASE x # t
    <3>1. copyOf[x] # a  BY <1>0, <2>2
    <3>2. w.kids[copyOf[x]] = g.kids[copyOf[x]]  BY <1>0, <1>2, <1>3, <1>8, <3>1
    <3>3. v[x] = u[x]  BY <1>0, <2>2
    <3>4. /\ Len(g.kids[copyOf[x]]) = u[x]
          /\ \A i \in 1..u[x] : g.kids[copyOf[x]][i] = copyOf[f.kids[x][i]]
      BY <1>0
    <3> QED  BY <3>2, <3>3, <3>4
  <2> QED  BY <2>1, <2>2
<1> QED  BY <1>9, <1>10, <1>11 DEF Copying

\* One iteration of the loop over the children.
LEMMA CopyStep ==
    ASSUME NEW f, L!ForestInv(f), NEW S, NEW copyOf, Copies(f, S, copyOf),
           NEW u, NEW h, CopyHeap(h, f, S, copyOf, u),
           NEW t \in S, NEW k \in 1..Len(f.kids[t]), k = u[t] + 1,
           NEW v, v = [u EXCEPT ![t] = k]
    PROVE  CopyHeap(node_attach(h, copyOf[t], copyOf[f.kids[t][k]]).h, f, S, copyOf, v)
<1>1. PICK g : Copying(g, f, S, copyOf, u) /\ Represents(h, g)  BY DEF CopyHeap
<1>2. Progress(f, S, u) /\ L!ForestInv(g)  BY <1>1 DEF CopyHeap, Copying
<1>3. PICK a, b : a = copyOf[t] /\ b = copyOf[f.kids[t][k]]  OBVIOUS
<1>4. f.kids[t][k] \in S  BY CopiesBelow
<1>5. a \in Node /\ b \in Node  BY <1>3, <1>4 DEF Copies
<1>6. u[t] \in Nat /\ k > u[t]  BY <1>2 DEF Progress
<1>7. L!attach_guard(g, a, b) = 0
  <2>1. PICK m : m = f.kids[t][k]  OBVIOUS
  <2>2. L!attach_guard(g, copyOf[t], copyOf[m]) = 0  BY <1>1, <1>2, <1>6, <2>1, CopyFits
  <2> QED  BY <1>3, <2>1, <2>2
<1>8. PICK w : w = L!Link(g, a, Len(g.kids[a]) + 1, b)  OBVIOUS
<1>9. L!node_attach(g, a, b).f = w
  BY <1>7, <1>8, SameCodes DEF L!node_attach, L!outcome
<1>10. L!ForestInv(w)  BY <1>2, <1>5, <1>9, L!AttachForest, Constants
<1>11. Represents(node_attach(h, a, b).h, w)  BY <1>1, <1>2, <1>5, <1>9, AttachIs
<1>12. Progress(f, S, v) /\ Copying(w, f, S, copyOf, v)
  BY <1>1, <1>2, <1>3, <1>8, <1>10, CopyLink
<1> QED  BY <1>3, <1>11, <1>12 DEF CopyHeap

\* One function satisfies the recursive definition of the loop.
AttachesFrom(h, n, copyOf, kids, after) ==
    after = [i \in 0..Len(kids) |->
               IF i = 0 THEN h ELSE node_attach(after[i - 1], copyOf[n], copyOf[kids[i]]).h]

LEMMA AttachesExist ==
    ASSUME NEW h, NEW n, NEW copyOf, NEW kids, Len(kids) \in Nat
    PROVE  \E after : AttachesFrom(h, n, copyOf, kids, after)
<1> DEFINE l == Len(kids)
           to(x, i) == node_attach(x, copyOf[n], copyOf[kids[i]]).h
           Upto(a, k) == /\ a = [i \in 0..k |-> a[i]] /\ a[0] = h
                         /\ \A i \in 1..k : a[i] = to(a[i - 1], i)
           T == {k \in 0..l : ~\E a : Upto(a, k)}
<1> HIDE DEF to
<1>1. T = {}
  <2> SUFFICES ASSUME T # {} PROVE FALSE  OBVIOUS
  <2>0. T \in SUBSET Nat  OBVIOUS
  <2> HIDE DEF T
  <2>1. PICK k \in T : \A j \in T : k <= j  BY <2>0, LeastCounterexample
  <2>2. k \in 0..l /\ ~\E a : Upto(a, k)  BY DEF T
  <2>3. CASE k = 0
    <3> DEFINE a == [i \in 0..0 |-> h]
    <3>1. a = [i \in 0..0 |-> a[i]] /\ a[0] = h /\ 1..0 = {}  OBVIOUS
    <3> HIDE DEF a
    <3>2. Upto(a, 0)  BY <3>1
    <3> QED  BY <2>2, <2>3, <3>2
  <2>4. CASE k # 0
    <3>1. k - 1 \in 0..l /\ ~(k <= k - 1) /\ k \in Nat /\ k - 1 \in Nat  BY <2>2, <2>4
    <3>2. k - 1 \notin T  BY <2>1, <3>1
    <3>3. PICK a : Upto(a, k - 1)  BY <3>1, <3>2 DEF T
    <3> DEFINE b == [i \in 0..k |-> IF i = k THEN to(a[k - 1], k) ELSE a[i]]
    <3>4. b = [i \in 0..k |-> b[i]]  OBVIOUS
    <3>5. /\ b[k] = to(a[k - 1], k)
          /\ \A i \in 0..(k - 1) : b[i] = a[i]
      BY <3>1
    <3> HIDE DEF b
    <3>6. b[0] = h  BY <3>1, <3>3, <3>5
    <3>7. ASSUME NEW i \in 1..k PROVE b[i] = to(b[i - 1], i)
      <4>1. CASE i = k
        <5>1. k - 1 \in 0..(k - 1)  BY <3>1
        <5> QED  BY <3>5, <4>1, <5>1
      <4>2. CASE i # k
        <5>1. i \in 0..(k - 1) /\ i - 1 \in 0..(k - 1) /\ i \in 1..(k - 1)  BY <3>1, <4>2
        <5> QED  BY <3>3, <3>5, <5>1
      <4> QED  BY <4>1, <4>2
    <3> QED  BY <2>2, <3>4, <3>6, <3>7
  <2> QED  BY <2>3, <2>4
<1>2. l \in 0..l  OBVIOUS
<1>3. PICK a : Upto(a, l)  BY <1>1, <1>2
<1>4. a = [i \in 0..l |-> IF i = 0 THEN h ELSE to(a[i - 1], i)]
  <2>1. \A i \in 0..l : i # 0 => i \in 1..l  OBVIOUS
  <2>2. \A i \in 0..l : a[i] = IF i = 0 THEN h ELSE to(a[i - 1], i)  BY <1>3, <2>1
  <2>3. a = [i \in 0..l |-> a[i]]  BY <1>3
  <2> QED  BY <2>2, <2>3
<1> QED  BY <1>4 DEF AttachesFrom, to

\* The loop over the children of t copies them all.
LEMMA ChildrenCopied ==
    ASSUME NEW f, L!ForestInv(f), NEW S, NEW copyOf, Copies(f, S, copyOf),
           NEW u, NEW h, CopyHeap(h, f, S, copyOf, u), NEW t \in S, u[t] = 0,
           NEW v, v = [u EXCEPT ![t] = Len(f.kids[t])]
    PROVE  CopyHeap(copy_children(h, copyOf, t), f, S, copyOf, v)
<1> DEFINE kids == f.kids[t]
           l == Len(kids)
<1>1. t \in Node /\ l \in Nat  BY CopiesBelow, ForestFacts
<1>2. ChildSeq(h, t) = kids
  <2>1. PICK g : Copying(g, f, S, copyOf, u) /\ Represents(h, g)  BY DEF CopyHeap
  <2>2. g.kids[t] = f.kids[t]  BY <1>1, <2>1 DEF Copying, Copies
  <2>3. L!ForestInv(g)  BY <2>1 DEF Copying
  <2> QED  BY <1>1, <2>1, <2>2, <2>3, ReadsForest
<1>3. PICK after : AttachesFrom(h, t, copyOf, kids, after)
                   /\ copy_children(h, copyOf, t) = after[l]
  <2> HIDE DEF kids
  <2> DEFINE Solves(a) == a = [i \in 0..l |->
                IF i = 0 THEN h ELSE node_attach(a[i - 1], copyOf[t], copyOf[kids[i]]).h]
             c == CHOOSE a : Solves(a)
  <2>1. copy_children(h, copyOf, t) = c[l]  BY <1>2 DEF copy_children
  <2>2. \E a : Solves(a)
    <3>1. PICK a : AttachesFrom(h, t, copyOf, kids, a)  BY <1>1, AttachesExist
    <3>2. Solves(a)  BY <3>1 DEF AttachesFrom
    <3> HIDE DEF Solves
    <3> QED  BY <3>2
  <2> HIDE DEF Solves
  <2>3. Solves(c)  BY <2>2
  <2>4. AttachesFrom(h, t, copyOf, kids, c)  BY <2>3 DEF Solves, AttachesFrom
  <2> QED  BY <2>1, <2>4
<1>4. /\ after[0] = h
      /\ \A i \in 1..l : after[i] = node_attach(after[i - 1], copyOf[t], copyOf[kids[i]]).h
  <2> HIDE DEF kids
  <2>1. \A i \in 0..l : after[i] =
           IF i = 0 THEN h ELSE node_attach(after[i - 1], copyOf[t], copyOf[kids[i]]).h
    BY <1>3 DEF AttachesFrom
  <2>2. 0 \in 0..l /\ \A i \in 1..l : i \in 0..l /\ i # 0  BY <1>1
  <2> QED  BY <2>1, <2>2
<1> DEFINE at(k) == [u EXCEPT ![t] = k]
           T == {k \in 0..l : ~CopyHeap(after[k], f, S, copyOf, at(k))}
<1>5. T = {}
  <2> SUFFICES ASSUME T # {} PROVE FALSE  OBVIOUS
  <2>0. T \in SUBSET Nat  BY <1>1
  <2>l. \A k \in T : k \in 0..l  OBVIOUS
  <2>k. \A k \in T : ~CopyHeap(after[k], f, S, copyOf, at(k))  OBVIOUS
  <2>m. \A k \in 0..l : k \notin T => CopyHeap(after[k], f, S, copyOf, at(k))  OBVIOUS
  <2> HIDE DEF T
  <2>1. PICK k \in T : \A j \in T : k <= j  BY <2>0, LeastCounterexample
  <2>2. k \in 0..l /\ k \in Nat  BY <1>1, <2>l
  <2>u. u \in [S -> Nat]  BY DEF CopyHeap, Progress
  <2>3. CASE k = 0
    <3>1. at(0) = u  BY <2>u
    <3> HIDE DEF at
    <3>2. CopyHeap(after[0], f, S, copyOf, at(0))  BY <1>4, <3>1
    <3> QED  BY <2>k, <2>3, <3>2
  <2>4. CASE k # 0
    <3>1. k - 1 \in 0..l /\ ~(k <= k - 1) /\ k \in 1..l  BY <2>2, <2>4
    <3>2. k - 1 \notin T  BY <2>1, <3>1
    <3>3. CopyHeap(after[k - 1], f, S, copyOf, at(k - 1))  BY <2>m, <3>1, <3>2
    <3>4. PICK w, x, y : w = at(k - 1) /\ x = after[k - 1] /\ y = at(k)  OBVIOUS
    <3>5. w[t] = k - 1 /\ k = w[t] + 1 /\ y = [w EXCEPT ![t] = k]  BY <2>2, <2>u, <3>4
    <3> HIDE DEF at
    <3>6. CopyHeap(x, f, S, copyOf, w)  BY <3>3, <3>4
    <3>7. CopyHeap(node_attach(x, copyOf[t], copyOf[f.kids[t][k]]).h, f, S, copyOf, y)
      BY <3>1, <3>5, <3>6, CopyStep
    <3>8. after[k] = node_attach(x, copyOf[t], copyOf[f.kids[t][k]]).h  BY <1>4, <3>1, <3>4
    <3> QED  BY <2>k, <3>4, <3>7, <3>8
  <2> QED  BY <2>3, <2>4
<1>6. l \in 0..l /\ v = at(l)  BY <1>1
<1> QED  BY <1>3, <1>5, <1>6

\* The loop over the nodes, as CopyDeep has it.
Copied(h, copyOf, order) ==
    LET after[i \in 0..Len(order)] ==
            IF i = 0 THEN h ELSE copy_children(after[i - 1], copyOf, order[i])
    IN  after[Len(order)]

CopiesFrom(h, copyOf, order, after) ==
    after = [i \in 0..Len(order) |->
               IF i = 0 THEN h ELSE copy_children(after[i - 1], copyOf, order[i])]

LEMMA CopiesExist ==
    ASSUME NEW h, NEW copyOf, NEW order, Len(order) \in Nat
    PROVE  \E after : CopiesFrom(h, copyOf, order, after)
<1> DEFINE l == Len(order)
           to(x, i) == copy_children(x, copyOf, order[i])
           Upto(a, k) == /\ a = [i \in 0..k |-> a[i]] /\ a[0] = h
                         /\ \A i \in 1..k : a[i] = to(a[i - 1], i)
           T == {k \in 0..l : ~\E a : Upto(a, k)}
<1> HIDE DEF to
<1>1. T = {}
  <2> SUFFICES ASSUME T # {} PROVE FALSE  OBVIOUS
  <2>0. T \in SUBSET Nat  OBVIOUS
  <2> HIDE DEF T
  <2>1. PICK k \in T : \A j \in T : k <= j  BY <2>0, LeastCounterexample
  <2>2. k \in 0..l /\ ~\E a : Upto(a, k)  BY DEF T
  <2>3. CASE k = 0
    <3> DEFINE a == [i \in 0..0 |-> h]
    <3>1. a = [i \in 0..0 |-> a[i]] /\ a[0] = h /\ 1..0 = {}  OBVIOUS
    <3> HIDE DEF a
    <3>2. Upto(a, 0)  BY <3>1
    <3> QED  BY <2>2, <2>3, <3>2
  <2>4. CASE k # 0
    <3>1. k - 1 \in 0..l /\ ~(k <= k - 1) /\ k \in Nat /\ k - 1 \in Nat  BY <2>2, <2>4
    <3>2. k - 1 \notin T  BY <2>1, <3>1
    <3>3. PICK a : Upto(a, k - 1)  BY <3>1, <3>2 DEF T
    <3> DEFINE b == [i \in 0..k |-> IF i = k THEN to(a[k - 1], k) ELSE a[i]]
    <3>4. b = [i \in 0..k |-> b[i]]  OBVIOUS
    <3>5. /\ b[k] = to(a[k - 1], k)
          /\ \A i \in 0..(k - 1) : b[i] = a[i]
      BY <3>1
    <3> HIDE DEF b
    <3>6. b[0] = h  BY <3>1, <3>3, <3>5
    <3>7. ASSUME NEW i \in 1..k PROVE b[i] = to(b[i - 1], i)
      <4>1. CASE i = k
        <5>1. k - 1 \in 0..(k - 1)  BY <3>1
        <5> QED  BY <3>5, <4>1, <5>1
      <4>2. CASE i # k
        <5>1. i \in 0..(k - 1) /\ i - 1 \in 0..(k - 1) /\ i \in 1..(k - 1)  BY <3>1, <4>2
        <5> QED  BY <3>3, <3>5, <5>1
      <4> QED  BY <4>1, <4>2
    <3> QED  BY <2>2, <3>4, <3>6, <3>7
  <2> QED  BY <2>3, <2>4
<1>2. l \in 0..l  OBVIOUS
<1>3. PICK a : Upto(a, l)  BY <1>1, <1>2
<1>4. a = [i \in 0..l |-> IF i = 0 THEN h ELSE to(a[i - 1], i)]
  <2>1. \A i \in 0..l : i # 0 => i \in 1..l  OBVIOUS
  <2>2. \A i \in 0..l : a[i] = IF i = 0 THEN h ELSE to(a[i - 1], i)  BY <1>3, <2>1
  <2>3. a = [i \in 0..l |-> a[i]]  BY <1>3
  <2> QED  BY <2>2, <2>3
<1> QED  BY <1>4 DEF CopiesFrom, to

\* A copy of which every child list is done is the copy of the tree.
LEMMA CopyDone ==
    ASSUME NEW f, L!ForestInv(f), NEW S, NEW copyOf, Copies(f, S, copyOf), DOMAIN copyOf = S,
           NEW r \in Node, S = L!Subtree(f, r),
           NEW u, Progress(f, S, u), \A t \in S : u[t] = Len(f.kids[t]),
           NEW g, Copying(g, f, S, copyOf, u)
    PROVE  g = L!CopyTree(f, r, copyOf)
<1> DEFINE copies == {copyOf[t] : t \in DOMAIN copyOf}
           orig(m) == CHOOSE t \in DOMAIN copyOf : copyOf[t] = m
<1>0. /\ \A t \in S : copyOf[t] \in Node /\ t \in Node
      /\ \A t \in S : f.parent[copyOf[t]] = NULL
      /\ \A x, y \in S : copyOf[x] = copyOf[y] => x = y
      /\ \A n \in Node : (\A x \in S : n # copyOf[x]) =>
            g.kids[n] = f.kids[n] /\ g.parent[n] = f.parent[n]
      /\ \A x \in S : /\ Len(g.kids[copyOf[x]]) = u[x]
                      /\ \A i \in 1..u[x] : g.kids[copyOf[x]][i] = copyOf[f.kids[x][i]]
      /\ L!ForestInv(g)
  BY DEF Copies, Copying
<1>1. /\ r \in S /\ f.parent[r] \notin S
      /\ \A n \in Node : n # r => (n \in S <=> f.parent[n] \in S)
  BY L!SubtreeCut, Constants
<1>2. ASSUME NEW t \in S PROVE orig(copyOf[t]) = t
  <2>1. orig(copyOf[t]) \in S /\ copyOf[orig(copyOf[t])] = copyOf[t]  OBVIOUS
  <2> QED  BY <1>0, <2>1
<1>3. \A m \in Node : m \notin copies => \A x \in S : m # copyOf[x]  OBVIOUS
<1>4. ASSUME NEW t \in S
      PROVE  g.kids[copyOf[t]] = [i \in DOMAIN f.kids[t] |-> copyOf[f.kids[t][i]]]
  <2>1. PICK s : s = g.kids[copyOf[t]]  OBVIOUS
  <2>2. s \in Seq(Node)  BY <1>0, <2>1, ForestFacts
  <2>3. Len(s) = u[t] /\ \A i \in 1..u[t] : s[i] = copyOf[f.kids[t][i]]  BY <1>0, <2>1
  <2>4. s = [i \in 1..u[t] |-> s[i]]  BY <2>2, <2>3, LenProperties
  <2>5. DOMAIN f.kids[t] = 1..u[t]  BY <1>0, ForestFacts
  <2>6. s = [i \in 1..u[t] |-> copyOf[f.kids[t][i]]]  BY <2>3, <2>4
  <2> QED  BY <2>1, <2>5, <2>6
<1>5. ASSUME NEW t \in S
      PROVE  g.parent[copyOf[t]] = IF t = r THEN f.parent[copyOf[t]] ELSE copyOf[f.parent[t]]
  <2>1. CASE t = r
    <3> SUFFICES ASSUME g.parent[copyOf[t]] # NULL PROVE FALSE  BY <1>0, <2>1
    <3>1. \E x \in S : f.parent[t] = x  BY CopyParent
    <3> QED  BY <1>1, <2>1, <3>1
  <2>2. CASE t # r
    <3>1. PICK p \in S : p = f.parent[t]  BY <1>0, <1>1, <2>2
    <3>2. PICK i \in 1..Len(f.kids[p]) : f.kids[p][i] = t  BY <1>0, <3>1, ForestFacts
    <3>3. i \in 1..Len(g.kids[copyOf[p]]) /\ g.kids[copyOf[p]][i] = copyOf[t]
      BY <1>0, <3>2
    <3>4. PICK b \in Node : b = copyOf[p]  BY <1>0
    <3>5. g.parent[g.kids[b][i]] = b
      <4>0. L!ForestInv(g)  BY <1>0
      <4>1. \A j \in 1..Len(g.kids[b]) : g.parent[g.kids[b][j]] = b  BY <4>0, ForestFacts
      <4> QED  BY <3>3, <3>4, <4>1
    <3> QED  BY <2>2, <3>1, <3>3, <3>4, <3>5
  <2> QED  BY <2>1, <2>2
<1>6. /\ g = [kids |-> g.kids, parent |-> g.parent]
      /\ g.kids \in [Node -> Seq(Node)] /\ g.parent \in [Node -> Node \cup {NULL}]
  BY <1>0, ForestFacts
<1>7. g.kids = [m \in Node |->
                  IF m \notin copies THEN f.kids[m]
                  ELSE [i \in DOMAIN f.kids[orig(m)] |-> copyOf[f.kids[orig(m)][i]]]]
  <2>1. ASSUME NEW m \in Node
        PROVE  g.kids[m] = IF m \notin copies THEN f.kids[m]
                           ELSE [i \in DOMAIN f.kids[orig(m)] |-> copyOf[f.kids[orig(m)][i]]]
    <3>1. CASE m \notin copies  BY <1>0, <1>3, <3>1
    <3>2. CASE m \in copies
      <4>1. PICK t \in S : m = copyOf[t]  BY <3>2
      <4>2. orig(m) = t  BY <1>2, <4>1
      <4> HIDE DEF orig, copies
      <4> QED  BY <1>4, <3>2, <4>1, <4>2
    <3> QED  BY <3>1, <3>2
  <2> HIDE DEF orig, copies
  <2> QED  BY <1>6, <2>1
<1>8. g.parent = [m \in Node |->
                    IF m \notin copies \/ orig(m) = r THEN f.parent[m]
                    ELSE copyOf[f.parent[orig(m)]]]
  <2>1. ASSUME NEW m \in Node
        PROVE  g.parent[m] = IF m \notin copies \/ orig(m) = r THEN f.parent[m]
                             ELSE copyOf[f.parent[orig(m)]]
    <3>1. CASE m \notin copies  BY <1>0, <1>3, <3>1
    <3>2. CASE m \in copies
      <4>1. PICK t \in S : m = copyOf[t]  BY <3>2
      <4>2. orig(m) = t  BY <1>2, <4>1
      <4> HIDE DEF orig, copies
      <4> QED  BY <1>5, <3>2, <4>1, <4>2
    <3> QED  BY <3>1, <3>2
  <2> HIDE DEF orig, copies
  <2> QED  BY <1>6, <2>1
<1> QED  BY <1>6, <1>7, <1>8 DEF L!CopyTree

\* A bottom-up order meets every node of the tree once.
LEMMA OrderIs ==
    ASSUME NEW h, NEW S \in SUBSET Node, NEW order \in BottomUp(h, S)
    PROVE  /\ Len(order) = Cardinality(S) /\ Len(order) \in Nat
           /\ \A k \in 1..Len(order) : order[k] \in S
           /\ \A t \in S : \E k \in 1..Len(order) : order[k] = t
           /\ \A j, k \in 1..Len(order) : order[j] = order[k] => j = k
<1> DEFINE N == Cardinality(S)
<1>1. N \in Nat /\ IsFiniteSet(S)  BY NodeAssumption, FS_Subset, FS_CardinalityType
<1>2. order \in [1..N -> S] /\ \A n \in S : \E i \in DOMAIN order : order[i] = n
  BY DEF BottomUp
<1> HIDE DEF N
<1>3. order \in Seq(S)  BY <1>1, <1>2, SeqDef
<1>4. Len(order) = N  BY <1>1, <1>2, <1>3, LenProperties
<1>5. order \in Surjection(1..N, S)  BY <1>2 DEF Surjection
<1>6. IsFiniteSet(1..N) /\ Cardinality(1..N) = N
  <2>1. 1 \in Int /\ N \in Int /\ N - 1 + 1 = N  BY <1>1
  <2> QED  BY <1>1, <2>1, FS_Interval
<1>7. order \in Injection(1..N, S)  BY <1>5, <1>6, FS_SurjSameCardinalityImpliesInj DEF N
<1>8. \A j, k \in 1..N : order[j] = order[k] => j = k
  BY <1>2, <1>7 DEF Injection, IsInjective
<1> QED  BY <1>1, <1>2, <1>4, <1>8 DEF N

\* node_copy_deep leaves the forest with the copy of the tree.
LEMMA CopyIs ==
    ASSUME NEW f, L!ForestInv(f), NEW h, Represents(h, f),
           NEW r \in Node, NEW S, S = L!Subtree(f, r),
           NEW X \in SUBSET Node, \A n \in X : f.kids[n] = <<>> /\ f.parent[n] = NULL,
           X \cap S = {}, NEW copyOf \in Injection(S, X), NEW order \in BottomUp(h, S)
    PROVE  /\ L!ForestInv(L!CopyTree(f, r, copyOf))
           /\ Represents(Copied(h, copyOf, order), L!CopyTree(f, r, copyOf))
           /\ \A m \in Node : (\A t \in S : m # copyOf[t]) =>
                 /\ L!CopyTree(f, r, copyOf).kids[m] = f.kids[m]
                 /\ L!CopyTree(f, r, copyOf).parent[m] = f.parent[m]
<1>1. /\ r \in S /\ S \in SUBSET Node /\ f.parent[r] \notin S
      /\ \A n \in Node : n # r => (n \in S <=> f.parent[n] \in S)
  BY L!SubtreeCut, Constants
<1>2. /\ DOMAIN copyOf = S
      /\ \A t \in S : copyOf[t] \in X
      /\ \A t, x \in S : copyOf[t] = copyOf[x] => t = x
  BY DEF Injection, IsInjective
<1>3. Copies(f, S, copyOf)  BY <1>1, <1>2 DEF Copies
<1>4. /\ Len(order) \in Nat
      /\ \A k \in 1..Len(order) : order[k] \in S
      /\ \A t \in S : \E k \in 1..Len(order) : order[k] = t
      /\ \A j, k \in 1..Len(order) : order[j] = order[k] => j = k
  BY <1>1, OrderIs
<1> DEFINE l == Len(order)
           done(k) == [t \in S |-> IF \E j \in 1..k : order[j] = t THEN Len(f.kids[t]) ELSE 0]
<1>5. PICK after : CopiesFrom(h, copyOf, order, after) /\ Copied(h, copyOf, order) = after[l]
  <2> DEFINE Solves(a) == a = [i \in 0..l |->
                IF i = 0 THEN h ELSE copy_children(a[i - 1], copyOf, order[i])]
             c == CHOOSE a : Solves(a)
  <2>1. Copied(h, copyOf, order) = c[l]  BY DEF Copied
  <2>2. \E a : Solves(a)
    <3>1. PICK a : CopiesFrom(h, copyOf, order, a)  BY <1>4, CopiesExist
    <3>2. Solves(a)  BY <3>1 DEF CopiesFrom
    <3> HIDE DEF Solves
    <3> QED  BY <3>2
  <2> HIDE DEF Solves
  <2>3. Solves(c)  BY <2>2
  <2>4. CopiesFrom(h, copyOf, order, c)  BY <2>3 DEF Solves, CopiesFrom
  <2> QED  BY <2>1, <2>4
<1>6. /\ after[0] = h
      /\ \A i \in 1..l : after[i] = copy_children(after[i - 1], copyOf, order[i])
  <2>1. \A i \in 0..l : after[i] =
           IF i = 0 THEN h ELSE copy_children(after[i - 1], copyOf, order[i])
    BY <1>5 DEF CopiesFrom
  <2>2. 0 \in 0..l /\ \A i \in 1..l : i \in 0..l /\ i # 0  BY <1>4
  <2> QED  BY <2>1, <2>2
<1>7. \A t \in S : t \in Node /\ Len(f.kids[t]) \in Nat  BY <1>1, ForestFacts
<1>8. \A k \in Nat : Progress(f, S, done(k))
  BY <1>7 DEF Progress
<1> HIDE DEF done
<1>9. CopyHeap(after[0], f, S, copyOf, done(0))
  <2>1. \A t \in S : done(0)[t] = 0  BY DEF done
  <2>2. \A t \in S : f.kids[copyOf[t]] = <<>> /\ Len(<<>>) = 0 /\ 1..0 = {}
    BY <1>3 DEF Copies
  <2>3. Copying(f, f, S, copyOf, done(0))  BY <2>1, <2>2 DEF Copying
  <2> QED  BY <1>6, <1>8, <2>3 DEF CopyHeap
<1>10. ASSUME NEW k \in 1..l, CopyHeap(after[k - 1], f, S, copyOf, done(k - 1))
       PROVE  CopyHeap(after[k], f, S, copyOf, done(k))
  <2>1. PICK u, v, x, t : u = done(k - 1) /\ v = done(k) /\ x = after[k - 1] /\ t = order[k]
    OBVIOUS
  <2>2. t \in S  BY <1>4, <2>1
  <2>3. u[t] = 0
    <3>1. \A j \in 1..(k - 1) : j \in 1..l /\ j # k  BY <1>4
    <3>2. ~\E j \in 1..(k - 1) : order[j] = t  BY <1>4, <2>1, <3>1
    <3> QED  BY <2>1, <2>2, <3>2 DEF done
  <2>4. v = [u EXCEPT ![t] = Len(f.kids[t])]
    <3>1. 1..k = 1..(k - 1) \cup {k}  BY <1>4
    <3>2. ASSUME NEW y \in S
          PROVE  v[y] = IF y = t THEN Len(f.kids[t]) ELSE u[y]
      <4>1. (\E j \in 1..k : order[j] = y) <=> (y = t \/ \E j \in 1..(k - 1) : order[j] = y)
        BY <2>1, <3>1
      <4>2. v[y] = IF \E j \in 1..k : order[j] = y THEN Len(f.kids[y]) ELSE 0
        BY <2>1 DEF done
      <4>3. u[y] = IF \E j \in 1..(k - 1) : order[j] = y THEN Len(f.kids[y]) ELSE 0
        BY <2>1 DEF done
      <4> QED  BY <4>1, <4>2, <4>3
    <3>3. v = [y \in S |-> v[y]] /\ u = [y \in S |-> u[y]]  BY <2>1 DEF done
    <3> QED  BY <2>2, <3>2, <3>3
  <2>5. CopyHeap(x, f, S, copyOf, u)  BY <1>10, <2>1
  <2>6. CopyHeap(copy_children(x, copyOf, t), f, S, copyOf, v)
    BY <1>3, <2>2, <2>3, <2>4, <2>5, ChildrenCopied
  <2> QED  BY <1>6, <2>1, <2>6
<1>11. CopyHeap(after[l], f, S, copyOf, done(l))
  <2> DEFINE T == {k \in 0..l : ~CopyHeap(after[k], f, S, copyOf, done(k))}
  <2>1. T = {}
    <3> SUFFICES ASSUME T # {} PROVE FALSE  OBVIOUS
    <3>0. T \in SUBSET Nat  BY <1>4
    <3>1. PICK k \in T : \A j \in T : k <= j
      <4> HIDE DEF T
      <4> QED  BY <3>0, LeastCounterexample
    <3>2. k \in 0..l /\ k \in Nat  BY <1>4
    <3>3. ~CopyHeap(after[k], f, S, copyOf, done(k))  OBVIOUS
    <3>4. k # 0  BY <1>9, <3>3
    <3>5. k - 1 \in 0..l /\ ~(k <= k - 1) /\ k \in 1..l  BY <3>2, <3>4
    <3>6. CopyHeap(after[k - 1], f, S, copyOf, done(k - 1))  BY <3>1, <3>5
    <3> QED  BY <1>10, <3>3, <3>5, <3>6
  <2>2. l \in 0..l  BY <1>4
  <2> QED  BY <2>1, <2>2
<1>12. PICK g : Copying(g, f, S, copyOf, done(l)) /\ Represents(after[l], g)
  BY <1>11 DEF CopyHeap
<1>13. PICK u : u = done(l)  OBVIOUS
<1>14. Progress(f, S, u) /\ \A t \in S : u[t] = Len(f.kids[t])
  <2>1. \A t \in S : done(l)[t] = Len(f.kids[t])  BY <1>4 DEF done
  <2> QED  BY <1>4, <1>8, <1>13, <2>1
<1>15. g = L!CopyTree(f, r, copyOf)  BY <1>2, <1>3, <1>12, <1>13, <1>14, CopyDone
<1>16. /\ L!ForestInv(g)
       /\ \A m \in Node : (\A t \in S : m # copyOf[t]) =>
             g.kids[m] = f.kids[m] /\ g.parent[m] = f.parent[m]
  BY <1>12 DEF Copying
<1> QED  BY <1>5, <1>12, <1>15, <1>16

-----------------------------------------------------------------------------
(***************************************************************************)
(* The inductive invariant: the heap represents a forest, and the nodes    *)
(* that are not allocated are in no tree.                                  *)
(***************************************************************************)
Unlinked(f, live) == \A n \in Node \ live : f.kids[n] = <<>> /\ f.parent[n] = NULL

Holds(h, f, live) ==
    /\ live \in SUBSET Node
    /\ L!ForestInv(f)
    /\ Represents(h, f)
    /\ Unlinked(f, live)

IInv == Holds(Heap, ForestOf(Heap), alive)

LEMMA HeapStep ==
    ASSUME NEW h \in HeapType, SetHeap(h)
    PROVE  Heap' = h
  BY DEF HeapType, SetHeap, Heap

\* A call leaves the invariant when the heap it leaves represents a forest.
LEMMA Reached ==
    ASSUME NEW h, NEW g, NEW live, Holds(h, g, live), SetHeap(h), alive' = live
    PROVE  IInv' /\ ForestOf(Heap)' = g
<1>1. h \in HeapType  BY DEF Holds, Represents
<1>2. Heap' = h  BY <1>1, HeapStep
<1>3. ForestOf(h) = g  BY ReadsForest DEF Holds
<1>4. ForestOf(Heap)' = ForestOf(Heap')  BY DEF ForestOf, ChildSeq, Walk, Follow
<1>5. IInv' = Holds(Heap', ForestOf(Heap'), alive')
  BY <1>4 DEF IInv, Holds, Unlinked, Represents
<1> QED  BY <1>2, <1>3, <1>4, <1>5

\* A call that leaves the heap as it is.
LEMMA HeapKept ==
    ASSUME SetHeap(Heap)
    PROVE  Heap' = Heap /\ ForestOf(Heap)' = ForestOf(Heap)
<1>1. Heap' = Heap  BY DEF SetHeap, Heap
<1>2. ForestOf(Heap)' = ForestOf(Heap')  BY DEF ForestOf, ChildSeq, Walk, Follow
<1> QED  BY <1>1, <1>2

LEMMA InitHolds == Init => IInv /\ ForestOf(Heap) = L!EmptyForest
<1> SUFFICES ASSUME Init PROVE IInv /\ ForestOf(Heap) = L!EmptyForest  OBVIOUS
<1> DEFINE f == L!EmptyForest
<1>1. L!ForestInv(f)  BY L!EmptyIsForest, Constants
<1>2. f.kids = [n \in Node |-> <<>>] /\ f.parent = [n \in Node |-> NULL]
  BY DEF L!EmptyForest
<1> HIDE DEF f
<1>3. Heap \in HeapType
  <2>1. next \in Pointers /\ prev \in Pointers /\ parent \in Pointers
    BY DEF Init, NullFields, Pointers
  <2>2. count \in [Node -> Nat] /\ children \in [Node -> NodeList \cup {NULL}]
    BY DEF Init, NullFields
  <2> QED  BY <2>1, <2>2 DEF Heap, HeapType
<1>4. ASSUME NEW n \in Node PROVE Listed(Heap, n, f.kids[n])
  <2>1. Heap.count[n] = 0 /\ Heap.children[n] = NULL  BY DEF Heap, Init, NullFields
  <2>2. f.kids[n] = <<>> /\ Len(<<>>) = 0 /\ 1..0 = {}  BY <1>2
  <2> QED  BY <2>1, <2>2 DEF Listed
<1>5. \A n \in Node : Heap.next[n] = NULL /\ Heap.prev[n] = NULL
  BY DEF Heap, Init, NullFields
<1>6. Heap.parent = f.parent  BY <1>2 DEF Heap, Init, NullFields
<1>7. Represents(Heap, f)  BY <1>3, <1>4, <1>5, <1>6 DEF Represents
<1>8. ForestOf(Heap) = f  BY <1>1, <1>7, ReadsForest
<1>9. alive = {}  BY DEF Init
<1>10. Holds(Heap, f, alive)  BY <1>1, <1>2, <1>7, <1>9 DEF Holds, Unlinked
<1> QED  BY <1>8, <1>10 DEF IInv, f

-----------------------------------------------------------------------------
(***************************************************************************)
(* The operators of OrderedForest are those of ForestLemmas.               *)
(***************************************************************************)
LEMMA SameAbstract ==
    /\ \A f, n : Abstract!Subtree(f, n) = L!Subtree(f, n)
    /\ \A f, S : Abstract!Release(f, S) = L!Release(f, S)
    /\ \A f, r, k : Abstract!CopyTree(f, r, k) = L!CopyTree(f, r, k)
    /\ \A f, p, c : Abstract!attach_guard(f, p, c) = L!attach_guard(f, p, c)
    /\ \A f, p, c : Abstract!node_attach(f, p, c) = L!node_attach(f, p, c)
    /\ \A f, p, i, c : Abstract!node_insert(f, p, i, c) = L!node_insert(f, p, i, c)
    /\ \A f, p, c : Abstract!node_detach(f, p, c) = L!node_detach(f, p, c)
    /\ \A f, p, c : Abstract!detach_errors(f, p, c) = Op!detach_errors(f, p, c)
    /\ Abstract!NODE_ERR_SUCCESS = 0 /\ Abstract!NODE_ERR_NO_MEM = Op!NODE_ERR_NO_MEM
    /\ Abstract!EmptyForest = L!EmptyForest
    /\ Abstract!Fresh = Fresh /\ Abstract!Arg = Arg
    /\ Abstract!Cardinality(Node) = Cardinality(Node)
    /\ \A S, T : Abstract!Injection(S, T) = Injection(S, T)
<1>lib. /\ \A S : Abstract!Cardinality(S) = L!Cardinality(S)
        /\ \A s, i, e : Abstract!InsertAt(s, i, e) = L!InsertAt(s, i, e)
        /\ \A s, i : Abstract!RemoveAt(s, i) = L!RemoveAt(s, i)
  <2>1. \A S : Abstract!Cardinality(S) = L!Cardinality(S)
    BY DEF Abstract!Cardinality, L!Cardinality
  <2>2. \A s, i, e : Abstract!InsertAt(s, i, e) = L!InsertAt(s, i, e)
    BY DEF Abstract!InsertAt, L!InsertAt
  <2>3. \A s, i : Abstract!RemoveAt(s, i) = L!RemoveAt(s, i)
    BY DEF Abstract!RemoveAt, L!RemoveAt
  <2> QED  BY <2>1, <2>2, <2>3
<1>codes. /\ Abstract!NODE_ERR_SUCCESS = 0 /\ Abstract!NODE_ERR_INVALID_ARG = -1
          /\ Abstract!NODE_ERR_PARENT = -3 /\ Abstract!NODE_ERR_CIRCULAR_REF = -4
          /\ Abstract!NODE_ERR_MAX_DEPTH = -5 /\ Abstract!NODE_ERR_NOT_FOUND = -6
  BY DEF Abstract!NODE_ERR_SUCCESS, Abstract!NODE_ERR_INVALID_ARG, Abstract!NODE_ERR_PARENT,
         Abstract!NODE_ERR_CIRCULAR_REF, Abstract!NODE_ERR_MAX_DEPTH, Abstract!NODE_ERR_NOT_FOUND
<1>1. \A f, n : Abstract!Ancestors(f, n) = L!Ancestors(f, n)
  BY DEF Abstract!Ancestors, L!Ancestors, Abstract!ClosedAbove, L!ClosedAbove,
         Abstract!Parents, L!Parents
<1>2. \A f, n : Abstract!Subtree(f, n) = L!Subtree(f, n)
  BY <1>1 DEF Abstract!Subtree, L!Subtree
<1>3. \A f, n : Abstract!Depth(f, n) = L!Depth(f, n)
  BY <1>1, <1>lib DEF Abstract!Depth, L!Depth
<1>4. \A f, p, i, c : Abstract!Link(f, p, i, c) = L!Link(f, p, i, c)
  BY <1>lib DEF Abstract!Link, L!Link
<1>5. \A f, p, i : Abstract!Unlink(f, p, i) = L!Unlink(f, p, i)
  BY <1>lib DEF Abstract!Unlink, L!Unlink
<1>6. \A f, S : Abstract!Release(f, S) = L!Release(f, S)
  BY DEF Abstract!Release, L!Release
<1>7. \A f, r, k : Abstract!CopyTree(f, r, k) = L!CopyTree(f, r, k)
  BY DEF Abstract!CopyTree, L!CopyTree
<1>8. \A f, p, c : Abstract!attach_guard(f, p, c) = L!attach_guard(f, p, c)
  <2>1. \A f, p, c : Abstract!would_create_cycle(f, p, c) = L!would_create_cycle(f, p, c)
    BY <1>1 DEF Abstract!would_create_cycle, L!would_create_cycle
  <2>2. \A f, p, c : Abstract!exceeds_max_depth(f, p, c) = L!exceeds_max_depth(f, p, c)
    BY <1>2, <1>3 DEF Abstract!exceeds_max_depth, L!exceeds_max_depth
  <2> QED  BY <2>1, <2>2, <1>codes, SameCodes DEF Abstract!attach_guard, L!attach_guard
<1>9. \A f, e, g : Abstract!outcome(f, e, g) = L!outcome(f, e, g)
  BY <1>codes, SameCodes DEF Abstract!outcome, L!outcome
<1>10. \A f, p, c : Abstract!node_attach(f, p, c) = L!node_attach(f, p, c)
  BY <1>4, <1>8, <1>9 DEF Abstract!node_attach, L!node_attach
<1>11. \A f, p, i, e : Abstract!checked_index(f, p, i, e) = L!checked_index(f, p, i, e)
  BY <1>codes, SameCodes DEF Abstract!checked_index, L!checked_index
<1>12. \A f, p, i, c : Abstract!node_insert(f, p, i, c) = L!node_insert(f, p, i, c)
  BY <1>4, <1>8, <1>9, <1>11 DEF Abstract!node_insert, L!node_insert
<1>13. \A f, p, c : Abstract!node_detach(f, p, c) = L!node_detach(f, p, c)
  BY <1>5 DEF Abstract!node_detach, L!node_detach, Abstract!node_child_position,
              L!node_child_position
<1>14. \A f, p, c : Abstract!detach_errors(f, p, c) = Op!detach_errors(f, p, c)
  BY <1>codes, SameCodes DEF Abstract!detach_errors, Op!detach_errors
<1>15. Abstract!NODE_ERR_NO_MEM = Op!NODE_ERR_NO_MEM
  BY DEF Abstract!NODE_ERR_NO_MEM, Op!NODE_ERR_NO_MEM
<1>16. Abstract!EmptyForest = L!EmptyForest  BY DEF Abstract!EmptyForest, L!EmptyForest
<1>17. Abstract!Fresh = Fresh /\ Abstract!Arg = Arg
  BY DEF Abstract!Fresh, Fresh, Abstract!Arg, Arg
<1>18. Abstract!Cardinality(Node) = Cardinality(Node)  BY <1>lib, SameLibrary
<1>19. \A S, T : Abstract!Injection(S, T) = Injection(S, T)
  BY DEF Abstract!Injection, Injection, Abstract!IsInjective, IsInjective
<1> QED
  BY <1>codes, <1>2, <1>6, <1>7, <1>8, <1>10, <1>12, <1>13, <1>14, <1>15, <1>16, <1>17,
     <1>18, <1>19

-----------------------------------------------------------------------------
(***************************************************************************)
(* Each call keeps the invariant and is a call of OrderedForest.           *)
(***************************************************************************)
LEMMA InvFacts ==
    ASSUME IInv, NEW f, f = ForestOf(Heap)
    PROVE  /\ alive \in SUBSET Node /\ L!ForestInv(f) /\ Represents(Heap, f)
           /\ \A n \in Node \ alive : f.kids[n] = <<>> /\ f.parent[n] = NULL
           /\ Arg \in SUBSET (Node \cup {NULL}) /\ Fresh \in SUBSET Node
           /\ \A n \in Node : n \in Arg => n \in alive
  BY Constants DEF IInv, Holds, Unlinked, Arg, Fresh

\* The nodes but p and c are linked alike in f and g.
Untouched(f, g, p, c) ==
    \A n \in Node \ {p, c} : g.kids[n] = f.kids[n] /\ g.parent[n] = f.parent[n]

LEMMA AttachOthers ==
    ASSUME NEW f, L!ForestInv(f), NEW p \in Node \cup {NULL}, NEW c \in Node \cup {NULL},
           NEW a, a = L!node_attach(f, p, c)
    PROVE  /\ L!ForestInv(a.f)
           /\ a.ret # 0 => a.f = f
           /\ a.ret = 0 => Untouched(f, a.f, p, c)
<1>1. L!ForestInv(L!node_attach(f, p, c).f)  BY L!AttachForest, Constants
<1>2. L!node_attach(f, p, c).ret # L!NODE_ERR_SUCCESS => L!node_attach(f, p, c).f = f
  BY L!AttachForest, Constants
<1>3. ASSUME L!node_attach(f, p, c).ret = L!NODE_ERR_SUCCESS, NEW n \in Node, n # p, n # c
      PROVE  /\ L!node_attach(f, p, c).f.kids[n] = f.kids[n]
             /\ L!node_attach(f, p, c).f.parent[n] = f.parent[n]
  <2>1. L!node_attach(f, p, c).f = L!Link(f, p, Len(f.kids[p]) + 1, c)
    BY <1>3 DEF L!node_attach, L!outcome
  <2>2. f.kids \in [Node -> Seq(Node)] /\ f.parent \in [Node -> Node \cup {NULL}]
    BY ForestFacts
  <2> QED  BY <1>3, <2>1, <2>2 DEF L!Link
<1>4. L!node_attach(f, p, c).ret = L!NODE_ERR_SUCCESS
        => Untouched(f, L!node_attach(f, p, c).f, p, c)
  BY <1>3 DEF Untouched
<1> QED  BY <1>1, <1>2, <1>4, SameCodes

LEMMA InsertOthers ==
    ASSUME NEW f, L!ForestInv(f), NEW p \in Node \cup {NULL}, NEW c \in Node \cup {NULL},
           NEW k \in Nat
    PROVE  /\ L!ForestInv(L!node_insert(f, p, k, c).f)
           /\ L!node_insert(f, p, k, c).ret # 0 => L!node_insert(f, p, k, c).f = f
           /\ L!node_insert(f, p, k, c).ret = 0 => Untouched(f, L!node_insert(f, p, k, c).f, p, c)
<1>1. L!ForestInv(L!node_insert(f, p, k, c).f)  BY L!InsertForest, Constants
<1>2. L!node_insert(f, p, k, c).ret # L!NODE_ERR_SUCCESS => L!node_insert(f, p, k, c).f = f
  BY L!InsertForest, Constants
<1>3. ASSUME L!node_insert(f, p, k, c).ret = L!NODE_ERR_SUCCESS, NEW n \in Node, n # p, n # c
      PROVE  /\ L!node_insert(f, p, k, c).f.kids[n] = f.kids[n]
             /\ L!node_insert(f, p, k, c).f.parent[n] = f.parent[n]
  <2>1. L!node_insert(f, p, k, c).f = L!Link(f, p, k + 1, c)
    BY <1>3 DEF L!node_insert, L!outcome, L!checked_index
  <2>2. f.kids \in [Node -> Seq(Node)] /\ f.parent \in [Node -> Node \cup {NULL}]
    BY ForestFacts
  <2> QED  BY <1>3, <2>1, <2>2 DEF L!Link
<1>4. L!node_insert(f, p, k, c).ret = L!NODE_ERR_SUCCESS
        => Untouched(f, L!node_insert(f, p, k, c).f, p, c)
  BY <1>3 DEF Untouched
<1> QED  BY <1>1, <1>2, <1>4, SameCodes

\* Attaching and inserting touch allocated nodes only, and failing they touch none.
LEMMA AttachHolds ==
    ASSUME IInv, NEW f, f = ForestOf(Heap), NEW live, alive \subseteq live, live \in SUBSET Node,
           NEW p \in live \cup {NULL}, NEW c \in live \cup {NULL}
    PROVE  /\ node_attach(Heap, p, c).ret = L!node_attach(f, p, c).ret
           /\ Holds(node_attach(Heap, p, c).h, L!node_attach(f, p, c).f, live)
           /\ L!node_attach(f, p, c).ret # 0 => L!node_attach(f, p, c).f = f
<1>1. /\ L!ForestInv(f) /\ Represents(Heap, f)
      /\ \A n \in Node \ alive : f.kids[n] = <<>> /\ f.parent[n] = NULL
  BY InvFacts
<1>2. p \in Node \cup {NULL} /\ c \in Node \cup {NULL}  OBVIOUS
<1>a. PICK a : a = L!node_attach(f, p, c)  OBVIOUS
<1>3. /\ L!ForestInv(a.f)
      /\ a.ret # 0 => a.f = f
      /\ a.ret = 0 => Untouched(f, a.f, p, c)
  <2>1. L!ForestInv(f)  BY <1>1
  <2>2. p \in Node \cup {NULL}  BY <1>2
  <2>3. c \in Node \cup {NULL}  BY <1>2
  <2> QED  BY ONLY <2>1, <2>2, <2>3, <1>a, AttachOthers
<1>4. node_attach(Heap, p, c).ret = a.ret /\ Represents(node_attach(Heap, p, c).h, a.f)
  BY <1>1, <1>2, <1>a, AttachIs
<1>5. Unlinked(a.f, live)
  <2> SUFFICES ASSUME NEW n \in Node \ live
               PROVE  a.f.kids[n] = <<>> /\ a.f.parent[n] = NULL
    BY DEF Unlinked
  <2>1. f.kids[n] = <<>> /\ f.parent[n] = NULL  BY <1>1
  <2>2. n \notin {p, c}  BY Constants
  <2> QED  BY <1>3, <2>1, <2>2 DEF Untouched
<1>6. Holds(node_attach(Heap, p, c).h, a.f, live)  BY <1>3, <1>4, <1>5 DEF Holds
<1> QED  BY <1>a, <1>3, <1>4, <1>6

LEMMA InsertHolds ==
    ASSUME IInv, NEW f, f = ForestOf(Heap), NEW p \in Arg, NEW c \in Arg, NEW k \in Nat
    PROVE  /\ node_insert(Heap, p, k, c).ret = L!node_insert(f, p, k, c).ret
           /\ Holds(node_insert(Heap, p, k, c).h, L!node_insert(f, p, k, c).f, alive)
<1>1. /\ alive \in SUBSET Node /\ L!ForestInv(f) /\ Represents(Heap, f)
      /\ \A n \in Node \ alive : f.kids[n] = <<>> /\ f.parent[n] = NULL
  BY InvFacts
<1>2. p \in Node \cup {NULL} /\ c \in Node \cup {NULL}  BY InvFacts
<1>a. PICK a : a = L!node_insert(f, p, k, c)  OBVIOUS
<1>3. /\ L!ForestInv(a.f)
      /\ a.ret # 0 => a.f = f
      /\ a.ret = 0 => Untouched(f, a.f, p, c)
  <2>1. L!ForestInv(f)  BY <1>1
  <2>2. p \in Node \cup {NULL}  BY <1>2
  <2>3. c \in Node \cup {NULL}  BY <1>2
  <2>4. /\ L!ForestInv(L!node_insert(f, p, k, c).f)
        /\ L!node_insert(f, p, k, c).ret # 0 => L!node_insert(f, p, k, c).f = f
        /\ L!node_insert(f, p, k, c).ret = 0 => Untouched(f, L!node_insert(f, p, k, c).f, p, c)
    BY ONLY <2>1, <2>2, <2>3, k \in Nat, InsertOthers
  <2> QED  BY <2>4, <1>a
<1>4. node_insert(Heap, p, k, c).ret = a.ret /\ Represents(node_insert(Heap, p, k, c).h, a.f)
  BY ONLY k \in Nat, <1>1, <1>2, <1>a, InsertIs
<1>5. Unlinked(a.f, alive)
  <2> SUFFICES ASSUME NEW n \in Node \ alive
               PROVE  a.f.kids[n] = <<>> /\ a.f.parent[n] = NULL
    BY DEF Unlinked
  <2>1. f.kids[n] = <<>> /\ f.parent[n] = NULL  BY <1>1
  <2>2. n \notin {p, c}  BY InvFacts
  <2> QED  BY <1>3, <2>1, <2>2 DEF Untouched
<1>6. Holds(node_insert(Heap, p, k, c).h, a.f, alive)  BY <1>1, <1>3, <1>4, <1>5 DEF Holds
<1> QED  BY <1>a, <1>4, <1>6

LEMMA DetachHolds ==
    ASSUME IInv, NEW f, f = ForestOf(Heap), NEW p \in Node, NEW c \in Node, f.parent[c] = p,
           NEW h, Represents(h, L!node_detach(f, p, c).f)
    PROVE  /\ p \in alive /\ c \in alive
           /\ Holds(h, L!node_detach(f, p, c).f, alive)
<1>1. /\ alive \in SUBSET Node /\ L!ForestInv(f)
      /\ \A n \in Node \ alive : f.kids[n] = <<>> /\ f.parent[n] = NULL
  BY InvFacts
<1> DEFINE a == L!node_detach(f, p, c)
<1>2. /\ L!ForestInv(a.f)
      /\ a.ret + 1 \in DOMAIN f.kids[p] /\ f.kids[p][a.ret + 1] = c
      /\ a.f = L!Unlink(f, p, a.ret + 1)
  BY <1>1, L!DetachForest, Constants
<1> HIDE DEF a
<1>3. /\ f.kids \in [Node -> Seq(Node)] /\ f.parent \in [Node -> Node \cup {NULL}]
      /\ DOMAIN f.kids[p] = 1..Len(f.kids[p]) /\ p # NULL
  BY <1>1, ForestFacts, Constants
<1>4. p \in alive /\ c \in alive
  <2>1. c \in alive  BY <1>1, <1>3
  <2>2. CASE p \notin alive
    <3>1. f.kids[p] = <<>>  BY <1>1, <2>2
    <3>2. Len(<<>>) = 0 /\ 1..0 = {}  OBVIOUS
    <3> QED  BY <1>2, <1>3, <3>1, <3>2
  <2> QED  BY <2>1, <2>2
<1>5. ASSUME NEW n \in Node, n # p, n # c
      PROVE  a.f.kids[n] = f.kids[n] /\ a.f.parent[n] = f.parent[n]
  BY <1>2, <1>3, <1>5 DEF L!Unlink
<1>6. Unlinked(a.f, alive)  BY <1>1, <1>4, <1>5 DEF Unlinked
<1>7. Holds(h, a.f, alive)  BY <1>1, <1>2, <1>6 DEF Holds, a
<1> QED  BY <1>4, <1>7 DEF a

LEMMA AttachCodes ==
    ASSUME NEW f, NEW p, NEW c
    PROVE  L!node_attach(f, p, c).ret \in {0, -1, -3, -4, -5}
<1>1. L!attach_guard(f, p, c) \in {0, -1, -3, -4, -5}  BY SameCodes DEF L!attach_guard
<1>2. L!node_attach(f, p, c).ret = L!attach_guard(f, p, c)
  BY DEF L!node_attach, L!outcome
<1> QED  BY <1>1, <1>2

LEMMA CreateRootStep ==
    ASSUME IInv, NEW n \in Fresh, CreateRoot(n)
    PROVE  IInv' /\ Abstract!CreateRoot(n)
<1>1. PICK f : f = ForestOf(Heap)  OBVIOUS
<1>2. alive' = alive \cup {n} /\ ret' = n /\ SetHeap(Heap)  BY DEF CreateRoot
<1>3. Holds(Heap, f, alive)  BY <1>1 DEF IInv
<1>4. Holds(Heap, f, alive \cup {n})  BY <1>3 DEF Holds, Unlinked, Fresh
<1>5. IInv' /\ ForestOf(Heap)' = f  BY <1>2, <1>4, Reached
<1> QED  BY <1>1, <1>2, <1>5 DEF Abstract!CreateRoot

LEMMA CreateUnderStep ==
    ASSUME IInv, NEW p \in alive, NEW n \in Fresh, CreateUnder(p, n)
    PROVE  IInv' /\ Abstract!CreateUnder(p, n)
<1>1. PICK f : f = ForestOf(Heap)  OBVIOUS
<1>2. PICK a : a = L!node_attach(f, p, n)  OBVIOUS
<1>3. PICK h : h = node_attach(Heap, p, n).h  OBVIOUS
<1>4. PICK live : live = alive \cup {n}  OBVIOUS
<1>5. alive \in SUBSET Node /\ live \in SUBSET Node /\ alive \subseteq live
      /\ p \in live \cup {NULL} /\ n \in live \cup {NULL}
  BY <1>4, InvFacts DEF Fresh
<1>6. /\ node_attach(Heap, p, n).ret = a.ret
      /\ Holds(h, a.f, live)
      /\ a.ret # 0 => a.f = f
  BY <1>1, <1>2, <1>3, <1>5, AttachHolds
<1>7. a.ret \in {0, -1, -3, -4, -5}  BY <1>2, AttachCodes
<1>8. Abstract!node_attach(f, p, n) = a /\ Abstract!NODE_ERR_SUCCESS = 0
  BY <1>2, SameAbstract
<1>9. CASE a.ret < 0
  <2>1. a.f = f /\ a.ret # 0  BY <1>6, <1>7, <1>9
  <2>2. alive' = alive /\ ret' = NULL /\ SetHeap(release(h, {n}))
    BY <1>3, <1>6, <1>9 DEF CreateUnder
  <2>3. n \in Node /\ f.kids[n] = <<>> /\ f.parent[n] = NULL /\ L!ForestInv(f)
    BY <1>1, InvFacts DEF Fresh
  <2>4. Represents(h, f)  BY <1>6, <2>1 DEF Holds
  <2>5. /\ \A m \in Node : f.parent[m] # NULL => (m \in {n} <=> f.parent[m] \in {n})
        /\ L!Release(f, {n}) = f
    BY <2>3, ReleaseLoneNode
  <2>6. {n} \in SUBSET Node  BY <2>3
  <2>7. Represents(release(h, {n}), f)  BY <2>3, <2>4, <2>5, <2>6, ReleaseRepresents
  <2>8. Holds(release(h, {n}), f, alive)
    BY <1>1, <1>5, <2>3, <2>7 DEF IInv, Holds
  <2>9. IInv' /\ ForestOf(Heap)' = f  BY <2>2, <2>8, Reached
  <2> QED  BY <1>1, <1>8, <2>1, <2>2, <2>9 DEF Abstract!CreateUnder
<1>10. CASE ~(a.ret < 0)
  <2>1. a.ret = 0  BY <1>7, <1>10
  <2>2. alive' = live /\ ret' = n /\ SetHeap(h)
    BY <1>3, <1>4, <1>6, <1>10 DEF CreateUnder
  <2>3. IInv' /\ ForestOf(Heap)' = a.f  BY <1>6, <2>2, Reached
  <2> QED  BY <1>1, <1>4, <1>8, <2>1, <2>2, <2>3 DEF Abstract!CreateUnder
<1> QED  BY <1>9, <1>10

LEMMA AttachActionStep ==
    ASSUME IInv, NEW p \in Arg, NEW c \in Arg, Attach(p, c)
    PROVE  IInv' /\ Abstract!Attach(p, c)
<1>1. PICK f : f = ForestOf(Heap)  OBVIOUS
<1>2. PICK a : a = L!node_attach(f, p, c)  OBVIOUS
<1>3. PICK h : h = node_attach(Heap, p, c).h  OBVIOUS
<1>4. /\ alive \in SUBSET Node /\ alive \subseteq alive
      /\ p \in alive \cup {NULL} /\ c \in alive \cup {NULL}
  BY InvFacts DEF Arg
<1>5. node_attach(Heap, p, c).ret = a.ret /\ Holds(h, a.f, alive)
  BY <1>1, <1>2, <1>3, <1>4, AttachHolds
<1>6. alive' = alive /\ ret' = a.ret /\ SetHeap(h)  BY <1>3, <1>5 DEF Attach
<1>7. IInv' /\ ForestOf(Heap)' = a.f  BY <1>5, <1>6, Reached
<1>8. Abstract!node_attach(f, p, c) = a  BY <1>2, SameAbstract
<1> QED  BY <1>1, <1>6, <1>7, <1>8 DEF Abstract!Attach

LEMMA InsertActionStep ==
    ASSUME IInv, NEW p \in Arg, NEW c \in Arg, NEW k \in 0..Cardinality(Node), Insert(p, k, c)
    PROVE  IInv' /\ Abstract!Insert(p, k, c)
<1>1. PICK f : f = ForestOf(Heap)  OBVIOUS
<1>2. PICK a : a = L!node_insert(f, p, k, c)  OBVIOUS
<1>3. PICK h : h = node_insert(Heap, p, k, c).h  OBVIOUS
<1>4. k \in Nat  BY NodesCounted
<1>5. node_insert(Heap, p, k, c).ret = a.ret /\ Holds(h, a.f, alive)
  BY <1>1, <1>2, <1>3, <1>4, InsertHolds
<1>6. alive' = alive /\ ret' = a.ret /\ SetHeap(h)  BY <1>3, <1>5 DEF Insert
<1>7. IInv' /\ ForestOf(Heap)' = a.f  BY <1>5, <1>6, Reached
<1>8. Abstract!node_insert(f, p, k, c) = a  BY <1>2, SameAbstract
<1> QED  BY <1>1, <1>6, <1>7, <1>8 DEF Abstract!Insert

LEMMA NoMemoryStep ==
    ASSUME IInv, NEW p \in alive, NEW c \in alive, NoMemory(p, c)
    PROVE  IInv' /\ Abstract!NoMemory(p, c)
<1>1. PICK f : f = ForestOf(Heap)  OBVIOUS
<1>2. /\ attach_guard(Heap, p, c) = Op!NODE_ERR_SUCCESS
      /\ ret' = Op!NODE_ERR_MAX_DEPTH \/ (children[p] = NULL /\ ret' = Op!NODE_ERR_NO_MEM)
      /\ alive' = alive /\ SetHeap(Heap)
  BY DEF NoMemory
<1>3. L!ForestInv(f) /\ Represents(Heap, f) /\ p \in Node /\ c \in Node
  BY <1>1, InvFacts
<1>4. L!attach_guard(f, p, c) = 0
  <2>1. p \in Node \cup {NULL} /\ c \in Node \cup {NULL}  BY <1>3
  <2> QED  BY <1>2, <1>3, <2>1, GuardIs, SameCodes
<1>5. ASSUME children[p] = NULL PROVE f.kids[p] = <<>>
  <2>1. Len(f.kids[p]) = 0  BY <1>3, <1>5 DEF Represents, Listed, Heap
  <2>2. f.kids[p] \in Seq(Node)  BY <1>3, ForestFacts
  <2> QED  BY <2>1, <2>2, EmptySeq
<1>6. Holds(Heap, f, alive)  BY <1>1 DEF IInv
<1>7. IInv' /\ ForestOf(Heap)' = f  BY <1>2, <1>6, Reached
<1>8. Abstract!NODE_ERR_MAX_DEPTH = Op!NODE_ERR_MAX_DEPTH
  BY DEF Abstract!NODE_ERR_MAX_DEPTH, Op!NODE_ERR_MAX_DEPTH
<1>9. Abstract!attach_guard(f, p, c) = Abstract!NODE_ERR_SUCCESS  BY <1>4, SameAbstract
<1>10. ret' = Abstract!NODE_ERR_MAX_DEPTH \/ (f.kids[p] = <<>> /\ ret' = Abstract!NODE_ERR_NO_MEM)
  BY ONLY <1>2, <1>5, <1>8, SameAbstract
<1>11. alive' = alive  BY <1>2
<1> QED  BY <1>1, <1>7, <1>9, <1>10, <1>11 DEF Abstract!NoMemory

LEMMA CreateFailsStep ==
    ASSUME IInv, CreateFails
    PROVE  IInv' /\ Abstract!CreateFails
<1>1. PICK f : f = ForestOf(Heap)  OBVIOUS
<1>2. alive' = alive /\ ret' = NULL /\ SetHeap(Heap)  BY DEF CreateFails
<1>3. Holds(Heap, f, alive)  BY <1>1 DEF IInv
<1>4. IInv' /\ ForestOf(Heap)' = f  BY <1>2, <1>3, Reached
<1> QED  BY <1>1, <1>2, <1>4 DEF Abstract!CreateFails

LEMMA DetachActionStep ==
    ASSUME IInv, NEW p \in Arg, NEW c \in Arg, Detach(p, c)
    PROVE  /\ IInv'
           /\ Abstract!DetachFails(p, c) \/ (p \in alive /\ c \in alive /\ Abstract!Detach(p, c))
<1>1. PICK f : f = ForestOf(Heap)  OBVIOUS
<1>2. PICK r : r = node_detach(Heap, p, c)  OBVIOUS
<1>3. L!ForestInv(f) /\ Represents(Heap, f) /\ p \in Node \cup {NULL} /\ c \in Node \cup {NULL}
  BY <1>1, InvFacts
<1>4. alive' = alive /\ ret' = r.ret /\ SetHeap(r.h)  BY <1>2 DEF Detach
<1>5. /\ r.ret < 0 => r.ret \in Op!detach_errors(f, p, c) /\ r.h = Heap
      /\ ~(r.ret < 0) => /\ p \in Node /\ c \in Node /\ f.parent[c] = p
                         /\ Op!detach_errors(f, p, c) = {}
                         /\ r.ret = L!node_detach(f, p, c).ret
                         /\ Represents(r.h, L!node_detach(f, p, c).f)
  BY <1>2, <1>3, DetachIs
<1>6. CASE r.ret < 0
  <2>1. Holds(Heap, f, alive)  BY <1>1 DEF IInv
  <2>2. SetHeap(Heap)  BY <1>4, <1>5, <1>6
  <2>3. IInv' /\ ForestOf(Heap)' = f  BY <1>4, <2>1, <2>2, Reached
  <2>4. r.ret \in Op!detach_errors(f, p, c)  BY <1>5, <1>6
  <2>5. Abstract!detach_errors(f, p, c) = Op!detach_errors(f, p, c)  BY SameAbstract
  <2>6. ret' = r.ret /\ alive' = alive  BY <1>4
  <2>7. ret' \in Abstract!detach_errors(ForestOf(Heap), p, c)  BY <1>1, <2>4, <2>5, <2>6
  <2>8. Abstract!DetachFails(p, c)  BY <1>1, <2>3, <2>6, <2>7 DEF Abstract!DetachFails
  <2> QED  BY <2>3, <2>8
<1>7. CASE ~(r.ret < 0)
  <2>1. PICK a : a = L!node_detach(f, p, c)  OBVIOUS
  <2>2. PICK h : h = r.h  OBVIOUS
  <2>3. /\ p \in Node /\ c \in Node /\ f.parent[c] = p
        /\ Op!detach_errors(f, p, c) = {} /\ r.ret = a.ret /\ Represents(h, a.f)
    BY <1>5, <1>7, <2>1, <2>2
  <2>4. p \in alive /\ c \in alive /\ Holds(h, a.f, alive)
    BY <1>1, <2>1, <2>3, DetachHolds
  <2>5. IInv' /\ ForestOf(Heap)' = a.f  BY <1>4, <2>2, <2>4, Reached
  <2>6. Abstract!node_detach(f, p, c) = a /\ Abstract!detach_errors(f, p, c) = {}
    BY <2>1, <2>3, SameAbstract
  <2> QED  BY <1>1, <1>4, <2>3, <2>4, <2>5, <2>6 DEF Abstract!Detach
<1> QED  BY <1>6, <1>7

LEMMA DestroyStep ==
    ASSUME IInv, NEW r \in alive, Destroy(r)
    PROVE  IInv' /\ Abstract!Destroy(r)
<1>1. PICK f : f = ForestOf(Heap)  OBVIOUS
<1>2. /\ alive \in SUBSET Node /\ L!ForestInv(f) /\ Represents(Heap, f) /\ r \in Node
      /\ \A n \in Node \ alive : f.kids[n] = <<>> /\ f.parent[n] = NULL
  BY <1>1, InvFacts
<1>3. PICK S : S = L!Subtree(f, r)  OBVIOUS
<1>4. Below(Heap, r) = S  BY <1>2, <1>3, BelowIs
<1>5. /\ parent[r] = NULL /\ alive' = alive \ S /\ ret' = NULL
      /\ SetHeap(release(Heap, S))
  BY <1>4 DEF Destroy
<1>6. f.parent[r] = NULL  BY <1>2, <1>5 DEF Represents, Heap
<1>7. PICK g : g = L!Release(f, S)  OBVIOUS
<1>8. /\ S \in SUBSET Node /\ L!ForestInv(g) /\ Represents(release(Heap, S), g)
      /\ \A n \in S : g.kids[n] = <<>> /\ g.parent[n] = NULL
      /\ \A n \in Node \ S : g.parent[n] = f.parent[n] /\ g.kids[n] = f.kids[n]
  BY <1>2, <1>3, <1>6, <1>7, ReleaseTree
<1>9. Unlinked(g, alive \ S)  BY <1>2, <1>8 DEF Unlinked
<1>10. Holds(release(Heap, S), g, alive \ S)  BY <1>2, <1>8, <1>9 DEF Holds
<1>11. IInv' /\ ForestOf(Heap)' = g  BY <1>5, <1>10, Reached
<1>12. Abstract!Subtree(f, r) = S /\ Abstract!Release(f, S) = g
  BY <1>3, <1>7, SameAbstract
<1>13. Abstract!Destroy(r)  BY <1>1, <1>5, <1>6, <1>11, <1>12 DEF Abstract!Destroy
<1> QED  BY <1>11, <1>13

\* The nodes of an allocated node's tree are allocated.
LEMMA SubtreeAlive ==
    ASSUME IInv, NEW f, f = ForestOf(Heap), NEW n \in alive
    PROVE  L!Subtree(f, n) \in SUBSET alive
<1>1. /\ alive \in SUBSET Node /\ L!ForestInv(f) /\ n \in Node
      /\ \A m \in Node \ alive : f.parent[m] = NULL
  BY InvFacts
<1>2. /\ L!Subtree(f, n) \subseteq Node
      /\ \A m \in Node : m # n => (m \in L!Subtree(f, n) <=> f.parent[m] \in L!Subtree(f, n))
  BY <1>1, L!SubtreeCut, Constants
<1> SUFFICES ASSUME NEW m \in L!Subtree(f, n), m \notin alive PROVE FALSE  OBVIOUS
<1>3. f.parent[m] = NULL /\ m # n  BY <1>1, <1>2
<1> QED  BY <1>2, <1>3, Constants

LEMMA CopyDeepStep ==
    ASSUME IInv, NEW n \in alive, NEW copyOf \in Injection(Below(Heap, n), Fresh),
           NEW order \in BottomUp(Heap, Below(Heap, n)), CopyDeep(n, copyOf, order)
    PROVE  /\ IInv'
           /\ copyOf \in Injection(L!Subtree(ForestOf(Heap), n), Fresh)
           /\ Abstract!CopyDeep(n, copyOf)
<1>1. PICK f : f = ForestOf(Heap)  OBVIOUS
<1>2. /\ alive \in SUBSET Node /\ L!ForestInv(f) /\ Represents(Heap, f) /\ n \in Node
      /\ Fresh \in SUBSET Node
      /\ \A m \in Fresh : f.kids[m] = <<>> /\ f.parent[m] = NULL
  BY <1>1, InvFacts DEF Fresh
<1>3. PICK S : S = L!Subtree(f, n)  OBVIOUS
<1>4. Below(Heap, n) = S  BY <1>2, <1>3, BelowIs
<1>5. copyOf \in Injection(S, Fresh) /\ order \in BottomUp(Heap, S)  BY <1>4
<1>6. S \in SUBSET alive /\ Fresh \cap S = {}
  BY <1>1, <1>3, SubtreeAlive DEF Fresh
<1>7. PICK g : g = L!CopyTree(f, n, copyOf)  OBVIOUS
<1>8. PICK h : h = Copied(Heap, copyOf, order)  OBVIOUS
<1>9. /\ L!ForestInv(g) /\ Represents(h, g)
      /\ \A m \in Node : (\A t \in S : m # copyOf[t]) =>
            g.kids[m] = f.kids[m] /\ g.parent[m] = f.parent[m]
  BY <1>2, <1>3, <1>5, <1>6, <1>7, <1>8, CopyIs
<1>10. PICK live : live = alive \cup {copyOf[t] : t \in S}  OBVIOUS
<1>11. alive' = live /\ ret' = copyOf[n] /\ SetHeap(h)
  BY <1>4, <1>8, <1>10 DEF CopyDeep, Copied
<1>12. copyOf \in [S -> Fresh]  BY <1>5 DEF Injection
<1>13. live \in SUBSET Node  BY <1>2, <1>10, <1>12
<1>14. Unlinked(g, live)
  <2> SUFFICES ASSUME NEW m \in Node \ live PROVE g.kids[m] = <<>> /\ g.parent[m] = NULL
    BY DEF Unlinked
  <2>1. m \in Fresh /\ \A t \in S : m # copyOf[t]  BY <1>10 DEF Fresh
  <2> QED  BY <1>2, <1>9, <2>1
<1>15. Holds(h, g, live)  BY <1>9, <1>13, <1>14 DEF Holds
<1>16. IInv' /\ ForestOf(Heap)' = g  BY <1>11, <1>15, Reached
<1>17. Abstract!CopyTree(f, n, copyOf) = g  BY <1>7, SameAbstract
<1>18. DOMAIN copyOf = S  BY <1>12
<1>19. Abstract!CopyDeep(n, copyOf)
  BY <1>1, <1>10, <1>11, <1>16, <1>17, <1>18 DEF Abstract!CopyDeep
<1> QED  BY <1>1, <1>3, <1>5, <1>16, <1>19

-----------------------------------------------------------------------------
\* The invariant is inductive, and every step is a step of OrderedForest.
LEMMA StepHolds ==
    ASSUME IInv, Next
    PROVE  IInv' /\ Abstract!Next
<1>1. CASE \E n \in Fresh : CreateRoot(n)
  <2>1. PICK n \in Fresh : CreateRoot(n)  BY <1>1
  <2>2. IInv' /\ Abstract!CreateRoot(n)  BY <2>1, CreateRootStep
  <2> QED  BY <2>2, SameAbstract DEF Abstract!Next
<1>2. CASE \E p \in alive, n \in Fresh : CreateUnder(p, n)
  <2>1. PICK p \in alive, n \in Fresh : CreateUnder(p, n)  BY <1>2
  <2>2. IInv' /\ Abstract!CreateUnder(p, n)  BY <2>1, CreateUnderStep
  <2> QED  BY <2>2, SameAbstract DEF Abstract!Next
<1>3. CASE \E p, c \in Arg : Attach(p, c)
  <2>1. PICK p \in Arg, c \in Arg : Attach(p, c)  BY <1>3
  <2>2. IInv' /\ Abstract!Attach(p, c)  BY <2>1, AttachActionStep
  <2> QED  BY <2>2, SameAbstract DEF Abstract!Next
<1>4. CASE \E p, c \in Arg, i \in 0..Cardinality(Node) : Insert(p, i, c)
  <2>1. PICK p \in Arg, c \in Arg, i \in 0..Cardinality(Node) : Insert(p, i, c)  BY <1>4
  <2>2. IInv' /\ Abstract!Insert(p, i, c)  BY <2>1, InsertActionStep
  <2> QED  BY <2>2, SameAbstract DEF Abstract!Next
<1>5. CASE \E p, c \in alive : NoMemory(p, c)
  <2>1. PICK p \in alive, c \in alive : NoMemory(p, c)  BY <1>5
  <2>2. IInv' /\ Abstract!NoMemory(p, c)  BY <2>1, NoMemoryStep
  <2> QED  BY <2>2 DEF Abstract!Next
<1>6. CASE CreateFails
  BY <1>6, CreateFailsStep DEF Abstract!Next
<1>7. CASE \E p, c \in Arg : Detach(p, c)
  <2>1. PICK p \in Arg, c \in Arg : Detach(p, c)  BY <1>7
  <2>2. /\ IInv'
        /\ Abstract!DetachFails(p, c) \/ (p \in alive /\ c \in alive /\ Abstract!Detach(p, c))
    BY <2>1, DetachActionStep
  <2> QED  BY <2>2, SameAbstract DEF Abstract!Next
<1>8. CASE \E r \in alive : Destroy(r)
  <2>1. PICK r \in alive : Destroy(r)  BY <1>8
  <2>2. IInv' /\ Abstract!Destroy(r)  BY <2>1, DestroyStep
  <2> QED  BY <2>2 DEF Abstract!Next
<1>9. CASE \E n \in alive : \E copyOf \in Injection(Below(Heap, n), Fresh) :
             \E order \in BottomUp(Heap, Below(Heap, n)) : CopyDeep(n, copyOf, order)
  <2>1. PICK n \in alive : \E copyOf \in Injection(Below(Heap, n), Fresh) :
             \E order \in BottomUp(Heap, Below(Heap, n)) : CopyDeep(n, copyOf, order)
    BY <1>9
  <2>2. PICK copyOf \in Injection(Below(Heap, n), Fresh) :
             \E order \in BottomUp(Heap, Below(Heap, n)) : CopyDeep(n, copyOf, order)
    BY <2>1
  <2>3. PICK order \in BottomUp(Heap, Below(Heap, n)) : CopyDeep(n, copyOf, order)
    BY <2>2
  <2>4. /\ IInv'
        /\ copyOf \in Injection(L!Subtree(ForestOf(Heap), n), Fresh)
        /\ Abstract!CopyDeep(n, copyOf)
    BY <2>3, CopyDeepStep
  <2>5. copyOf \in Abstract!Injection(Abstract!Subtree(ForestOf(Heap), n), Abstract!Fresh)
    BY <2>4, SameAbstract
  <2>6. Abstract!Next  BY <2>4, <2>5 DEF Abstract!Next
  <2> QED  BY <2>4, <2>6
<1> QED  BY <1>1, <1>2, <1>3, <1>4, <1>5, <1>6, <1>7, <1>8, <1>9 DEF Next

LEMMA StutterHolds ==
    ASSUME IInv, UNCHANGED vars
    PROVE  IInv' /\ UNCHANGED Abstract!vars
<1>1. SetHeap(Heap) /\ alive' = alive /\ ret' = ret  BY DEF vars, SetHeap, Heap
<1>2. Holds(Heap, ForestOf(Heap), alive)  BY DEF IInv
<1>3. PICK f : f = ForestOf(Heap)  OBVIOUS
<1>4. IInv' /\ ForestOf(Heap)' = f  BY <1>1, <1>2, <1>3, Reached
<1> QED  BY <1>1, <1>3, <1>4 DEF Abstract!vars

LEMMA Inductive == Spec => []IInv
<1>1. Init => IInv  BY InitHolds
<1>2. IInv /\ [Next]_vars => IInv'  BY StepHolds, StutterHolds
<1> QED  BY <1>1, <1>2, PTL DEF Spec

-----------------------------------------------------------------------------
\* After any sequence of calls every children list is doubly linked: begin and end
\* are its two ends, prev undoes next, and a node in no list points at no sibling.
THEOREM AlwaysDoublyLinked == Spec => []DoublyLinked
<1>1. IInv => DoublyLinked
  <2> SUFFICES ASSUME IInv PROVE DoublyLinked  OBVIOUS
  <2>1. PICK f : f = ForestOf(Heap)  OBVIOUS
  <2>2. L!ForestInv(f) /\ Represents(Heap, f)  BY <2>1, InvFacts
  <2>3. /\ Heap.next = next /\ Heap.prev = prev /\ Heap.parent = parent
        /\ Heap.children = children
    BY DEF Heap
  <2>4. ASSUME NEW n \in Node, children[n] # NULL
        PROVE  LET s == ChildSeq(Heap, n) IN
               /\ children[n].end = (IF s = <<>> THEN NULL ELSE Last(s))
               /\ \A i \in DOMAIN s : prev[s[i]] = (IF i = 1 THEN NULL ELSE s[i - 1])
    <3>1. PICK s : s = f.kids[n]  OBVIOUS
    <3>2. ChildSeq(Heap, n) = s  BY <2>2, <3>1, ReadsForest
    <3>3. s \in Seq(Node) /\ Len(s) \in Nat /\ DOMAIN s = 1..Len(s)
      BY <2>2, <3>1, ForestFacts
    <3>4. Listed(Heap, n, s)  BY <2>2, <3>1 DEF Represents
    <3>5. /\ children[n].end = IF Len(s) = 0 THEN NULL ELSE s[Len(s)]
          /\ \A i \in 1..Len(s) : prev[s[i]] = IF i = 1 THEN NULL ELSE s[i - 1]
      BY <2>3, <2>4, <3>4 DEF Listed
    <3>6. s = <<>> <=> Len(s) = 0  BY <3>3, EmptySeq
    <3>7. children[n].end = (IF s = <<>> THEN NULL ELSE Last(s))
      BY <3>5, <3>6 DEF Last
    <3> QED  BY <3>2, <3>3, <3>5, <3>7
  <2>5. \A n \in Node : parent[n] = NULL => next[n] = NULL /\ prev[n] = NULL
    BY <2>2, <2>3 DEF Represents
  <2> QED  BY <2>4, <2>5 DEF DoublyLinked
<1> QED  BY <1>1, Inductive, PTL

\* A node's own counter, its list's counter and the number of children a walk of the
\* list meets are the same, after any sequence of calls.
THEOREM CountsAlwaysAgree == Spec => []CountsAgree
<1>1. IInv => CountsAgree
  <2> SUFFICES ASSUME IInv, NEW n \in Node
               PROVE  /\ count[n] = Len(ChildSeq(Heap, n))
                      /\ children[n] # NULL => children[n].count = count[n]
    BY DEF CountsAgree
  <2>1. PICK f : f = ForestOf(Heap)  OBVIOUS
  <2>2. L!ForestInv(f) /\ Represents(Heap, f)  BY <2>1, InvFacts
  <2>3. ChildSeq(Heap, n) = f.kids[n]  BY <2>2, ReadsForest
  <2>4. Listed(Heap, n, f.kids[n])  BY <2>2 DEF Represents
  <2>5. Heap.count = count /\ Heap.children = children  BY DEF Heap
  <2> QED  BY <2>3, <2>4, <2>5 DEF Listed
<1> QED  BY <1>1, Inductive, PTL

\* In every state node_attach, node_insert and node_detach change the forest the
\* pointers stand for, and return, as the ordered forest says, whatever the arguments.
THEOREM CallsAlwaysMatch == Spec => []CallsMatch
<1>1. IInv => CallsMatch
  <2> SUFFICES ASSUME IInv, NEW f, f = ForestOf(Heap), NEW p \in Arg, NEW c \in Arg
               PROVE  /\ Matches(node_attach(Heap, p, c), Op!node_attach(f, p, c))
                      /\ \A i \in 0..Cardinality(Node) :
                            Matches(node_insert(Heap, p, i, c), Op!node_insert(f, p, i, c))
                      /\ LET r == node_detach(Heap, p, c) IN
                            IF r.ret < 0
                              THEN r.ret \in Op!detach_errors(f, p, c) /\ ForestOf(r.h) = f
                              ELSE /\ Op!detach_errors(f, p, c) = {}
                                   /\ Matches(r, Op!node_detach(f, p, c))
    BY DEF CallsMatch
  <2>1. alive \in SUBSET Node /\ L!ForestInv(f) /\ Represents(Heap, f)  BY InvFacts
  <2>2. p \in Node \cup {NULL} /\ c \in Node \cup {NULL}  BY InvFacts
  <2>3. Matches(node_attach(Heap, p, c), Op!node_attach(f, p, c))
    <3>1. PICK a : a = L!node_attach(f, p, c)  OBVIOUS
    <3>2. PICK r : r = node_attach(Heap, p, c)  OBVIOUS
    <3>3. alive \subseteq alive /\ p \in alive \cup {NULL} /\ c \in alive \cup {NULL}
      BY DEF Arg
    <3>4. r.ret = a.ret /\ Holds(r.h, a.f, alive)
      BY <2>1, <3>1, <3>2, <3>3, AttachHolds
    <3>5. ForestOf(r.h) = a.f  BY <3>4, ReadsForest DEF Holds
    <3>6. Op!node_attach(f, p, c) = a  BY <3>1, SameCalls
    <3> QED  BY <3>2, <3>4, <3>5, <3>6 DEF Matches
  <2>4. ASSUME NEW i \in 0..Cardinality(Node)
        PROVE  Matches(node_insert(Heap, p, i, c), Op!node_insert(f, p, i, c))
    <3>1. PICK a : a = L!node_insert(f, p, i, c)  OBVIOUS
    <3>2. PICK r : r = node_insert(Heap, p, i, c)  OBVIOUS
    <3>3. i \in Nat  BY NodesCounted
    <3>4. r.ret = a.ret /\ Holds(r.h, a.f, alive)
      BY <3>1, <3>2, <3>3, InsertHolds
    <3>5. ForestOf(r.h) = a.f  BY <3>4, ReadsForest DEF Holds
    <3>6. Op!node_insert(f, p, i, c) = a  BY <3>1, SameCalls
    <3> QED  BY <3>2, <3>4, <3>5, <3>6 DEF Matches
  <2>5. PICK r : r = node_detach(Heap, p, c)  OBVIOUS
  <2>6. PICK a : a = L!node_detach(f, p, c)  OBVIOUS
  <2>7. /\ r.ret < 0 => r.ret \in Op!detach_errors(f, p, c) /\ r.h = Heap
        /\ ~(r.ret < 0) => /\ p \in Node /\ c \in Node /\ f.parent[c] = p
                           /\ Op!detach_errors(f, p, c) = {}
                           /\ r.ret = a.ret
                           /\ Represents(r.h, a.f)
    BY <2>1, <2>2, <2>5, <2>6, DetachIs
  <2>8. IF r.ret < 0
          THEN r.ret \in Op!detach_errors(f, p, c) /\ ForestOf(r.h) = f
          ELSE /\ Op!detach_errors(f, p, c) = {}
               /\ Matches(r, Op!node_detach(f, p, c))
    <3>1. CASE r.ret < 0  BY <2>7, <3>1
    <3>2. CASE ~(r.ret < 0)
      <4>1. PICK h : h = r.h  OBVIOUS
      <4>2. Holds(h, a.f, alive)  BY <2>6, <2>7, <3>2, <4>1, DetachHolds
      <4>3. ForestOf(h) = a.f  BY <4>2, ReadsForest DEF Holds
      <4>4. Op!node_detach(f, p, c) = a  BY <2>6, SameCalls
      <4>5. Matches(r, Op!node_detach(f, p, c))
        BY <2>7, <3>2, <4>1, <4>3, <4>4 DEF Matches
      <4> QED  BY <2>7, <3>2, <4>5
    <3> QED  BY <3>1, <3>2
  <2> QED  BY <2>3, <2>4, <2>5, <2>8
<1> QED  BY <1>1, Inductive, PTL

\* libcnary implements the ordered forest: read through the begin and next pointers,
\* every run of calls, creating, copying and freeing trees included, is one of
\* OrderedForest's, so what is proved of OrderedForest holds of the pointers.
THEOREM PointersAreAForest == Spec => ImplementsForest
<1>1. Init => IInv /\ Abstract!Init
  BY InitHolds, SameAbstract DEF Init, Abstract!Init
<1>2. IInv /\ [Next]_vars => [Abstract!Next]_(Abstract!vars)
  BY StepHolds, StutterHolds
<1> QED  BY <1>1, <1>2, Inductive, PTL DEF Spec, Abstract!Spec, ImplementsForest
=============================================================================
