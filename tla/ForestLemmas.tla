---------------------------- MODULE ForestLemmas ----------------------------
(***************************************************************************)
(* Facts about the operators of ForestOps, for any set of nodes and any    *)
(* depth limit: what ancestors are, and that linking, unlinking and        *)
(* releasing keep a forest a forest.                                       *)
(***************************************************************************)
EXTENDS ForestOps, FiniteSetTheorems, SequenceTheorems, TLAPS

\* A forest as libcnary keeps it.
ForestInv(f) == f \in Forest /\ Linked(f) /\ Acyclic(f) /\ Shallow(f)

-----------------------------------------------------------------------------
(***************************************************************************)
(* Sequences                                                               *)
(***************************************************************************)

\* Removing the i-th element (list unlinking) moves the later ones up by one.
LEMMA Removed ==
    ASSUME NEW S, NEW q \in Seq(S), NEW i \in 1..Len(q)
    PROVE  /\ RemoveAt(q, i) \in Seq(S)
           /\ Len(RemoveAt(q, i)) = Len(q) - 1
           /\ \A j \in 1..(Len(q) - 1) : RemoveAt(q, i)[j] = IF j < i THEN q[j] ELSE q[j + 1]
<1> DEFINE a == SubSeq(q, 1, i - 1)
           b == SubSeq(q, i + 1, Len(q))
<1>1. a \in Seq(S) /\ Len(a) = i - 1 /\ \A j \in 1..(i - 1) : a[j] = q[j]
  BY SubSeqProperties
<1>2. b \in Seq(S) /\ Len(b) = Len(q) - i /\ \A j \in 1..(Len(q) - i) : b[j] = q[i + j]
  BY SubSeqProperties
<1>3. RemoveAt(q, i) = a \o b
  BY DEF RemoveAt
<1> HIDE DEF a, b
<1>4. /\ a \o b \in Seq(S)
      /\ Len(a \o b) = Len(a) + Len(b)
      /\ \A j \in 1..(Len(a) + Len(b)) : (a \o b)[j] = IF j <= Len(a) THEN a[j] ELSE b[j - Len(a)]
  BY <1>1, <1>2, ConcatProperties
<1>5. Len(q) \in Nat
  BY LenProperties
<1>6. ASSUME NEW j \in 1..(Len(q) - 1)
      PROVE  (a \o b)[j] = IF j < i THEN q[j] ELSE q[j + 1]
  <2>1. CASE j < i
    BY <1>1, <1>2, <1>4, <1>5, <2>1
  <2>2. CASE ~(j < i)
    <3>1. j - (i - 1) \in 1..(Len(q) - i) /\ i + (j - (i - 1)) = j + 1
      BY <1>5, <2>2
    <3>2. b[j - (i - 1)] = q[j + 1]
      BY <1>2, <3>1
    <3>3. QED
      BY <1>1, <1>2, <1>4, <1>5, <2>2, <3>2
  <2>3. QED
    BY <2>1, <2>2
<1>7. QED
  BY <1>1, <1>2, <1>3, <1>4, <1>5, <1>6

LEMMA RemoveAtProperties ==
    ASSUME NEW q \in Seq(Node), NEW i \in 1..Len(q)
    PROVE  /\ RemoveAt(q, i) \in Seq(Node)
           /\ Len(RemoveAt(q, i)) = Len(q) - 1
           /\ \A j \in 1..(Len(q) - 1) : RemoveAt(q, i)[j] = IF j < i THEN q[j] ELSE q[j + 1]
BY Removed

\* Inserting at i (list insertion) moves the elements from i on down by one.
LEMMA InsertAtProperties ==
    ASSUME NEW q \in Seq(Node), NEW i \in 1..(Len(q) + 1), NEW e \in Node
    PROVE  /\ InsertAt(q, i, e) \in Seq(Node)
           /\ Len(InsertAt(q, i, e)) = Len(q) + 1
           /\ \A j \in 1..(Len(q) + 1) : InsertAt(q, i, e)[j] =
                 IF j < i THEN q[j] ELSE IF j = i THEN e ELSE q[j - 1]
<1> DEFINE a == SubSeq(q, 1, i - 1)
           b == SubSeq(q, i, Len(q))
           c == <<e>> \o b
<1>0. Len(q) \in Nat
  BY LenProperties
<1>1. a \in Seq(Node) /\ Len(a) = i - 1 /\ \A j \in 1..(i - 1) : a[j] = q[j]
  BY <1>0, SubSeqProperties
<1>2. b \in Seq(Node) /\ Len(b) = Len(q) - i + 1
      /\ \A j \in 1..(Len(q) - i + 1) : b[j] = q[i + j - 1]
  BY <1>0, SubSeqProperties
<1>3. InsertAt(q, i, e) = (a \o <<e>>) \o b
  BY DEF InsertAt
<1> HIDE DEF a, b
<1>4. <<e>> \in Seq(Node) /\ Len(<<e>>) = 1 /\ <<e>>[1] = e
  OBVIOUS
<1> DEFINE ae == a \o <<e>>
<1>5. /\ ae \in Seq(Node)
      /\ Len(ae) = i
      /\ \A j \in 1..i : ae[j] = IF j < i THEN q[j] ELSE e
  <2>1. /\ ae \in Seq(Node)
        /\ Len(ae) = Len(a) + 1
        /\ \A j \in 1..(Len(a) + 1) : ae[j] = IF j <= Len(a) THEN a[j] ELSE <<e>>[j - Len(a)]
    BY <1>1, <1>4, ConcatProperties
  <2>2. QED
    BY <1>1, <1>4, <2>1
<1> HIDE DEF ae
<1>6. /\ ae \o b \in Seq(Node)
      /\ Len(ae \o b) = i + Len(b)
      /\ \A j \in 1..(i + Len(b)) : (ae \o b)[j] = IF j <= i THEN ae[j] ELSE b[j - i]
  BY <1>2, <1>5, ConcatProperties
<1>7. ASSUME NEW j \in 1..(Len(q) + 1)
      PROVE  (ae \o b)[j] = IF j < i THEN q[j] ELSE IF j = i THEN e ELSE q[j - 1]
  <2>1. CASE j <= i
    BY <1>0, <1>2, <1>5, <1>6, <2>1
  <2>2. CASE ~(j <= i)
    <3>1. j - i \in 1..(Len(q) - i + 1) /\ i + (j - i) - 1 = j - 1
      BY <1>0, <2>2
    <3>2. b[j - i] = q[j - 1]
      BY <1>2, <3>1
    <3>3. QED
      BY <1>0, <1>2, <1>6, <2>2, <3>2
  <2>3. QED
    BY <2>1, <2>2
<1>8. QED
  BY <1>0, <1>2, <1>3, <1>6, <1>7 DEF ae

\* Inserting behind the last element appends.
LEMMA InsertIsAppend ==
    ASSUME NEW q \in Seq(Node), NEW e \in Node
    PROVE  InsertAt(q, Len(q) + 1, e) = Append(q, e)
<1> DEFINE a == SubSeq(q, 1, Len(q) + 1 - 1)
           b == SubSeq(q, Len(q) + 1, Len(q))
<1>1. Len(q) \in Nat
  BY LenProperties
<1>2. InsertAt(q, Len(q) + 1, e) = (a \o <<e>>) \o b
  BY DEF InsertAt
<1>3. a = q
  <2>1. Len(q) + 1 - 1 = Len(q)
    BY <1>1
  <2>2. QED
    BY <2>1, SubSeqFull
<1>4. b = <<>>
  BY <1>1, SubSeqEmpty
<1> HIDE DEF a, b
<1>5. q \o <<e>> = Append(q, e) /\ Append(q, e) \in Seq(Node)
  BY AppendIsConcat, AppendProperties
<1>6. Append(q, e) \o <<>> = Append(q, e)
  BY <1>5, ConcatEmptySeq
<1>7. a \o <<e>> = Append(q, e)
  BY <1>3, <1>5
<1>8. QED
  BY <1>2, <1>4, <1>6, <1>7

-----------------------------------------------------------------------------
(***************************************************************************)
(* Ancestors                                                               *)
(***************************************************************************)

\* A node is its own ancestor, and the ancestors are closed under "parent of".
LEMMA AncestorsClosed ==
    ASSUME NEW f, NEW n \in Node
    PROVE  /\ n \in Ancestors(f, n)
           /\ Ancestors(f, n) \subseteq Node
           /\ \A m \in Ancestors(f, n) :
                 f.parent[m] \in Node => f.parent[m] \in Ancestors(f, n)
<1> DEFINE P == Parents(f) \cup {n}
           closed == ClosedAbove(f, n)
<1>1. P \subseteq Node /\ \A m \in Node : f.parent[m] \in Node => f.parent[m] \in P
  BY DEF Parents
<1>2. Ancestors(f, n) = {m \in P : \A S \in closed : m \in S}
  BY DEF Ancestors
<1>3. \A S \in closed : n \in S /\ \A m \in S : f.parent[m] \in S \/ f.parent[m] = NULL
  BY DEF ClosedAbove
<1>4. n \in P
  OBVIOUS
<1> HIDE DEF P, closed
<1>5. QED
  BY <1>1, <1>2, <1>3, <1>4, NodeAssumption

\* Any set that holds n and is closed under "parent of" holds n's ancestors.
LEMMA AncestorsMinimal ==
    ASSUME NEW f, NEW n \in Node, NEW S \in SUBSET Node, n \in S,
           \A m \in S : f.parent[m] \in S \cup {NULL}
    PROVE  Ancestors(f, n) \subseteq S
<1> DEFINE T == S \cap (Parents(f) \cup {n})
<1>1. \A m \in T : f.parent[m] \in T \/ f.parent[m] = NULL
  <2>1. ASSUME NEW m \in T PROVE f.parent[m] \in T \/ f.parent[m] = NULL
    <3>1. f.parent[m] \in S \/ f.parent[m] = NULL
      OBVIOUS
    <3>2. f.parent[m] \in Node => f.parent[m] \in Parents(f)
      BY DEF Parents
    <3>3. QED
      BY <3>1, <3>2
  <2>2. QED
    BY <2>1
<1>2. T \in ClosedAbove(f, n)
  BY <1>1 DEF ClosedAbove
<1>3. QED
  BY <1>2 DEF Ancestors

\* An ancestor's ancestors are ancestors.
LEMMA AncestorsTransitive ==
    ASSUME NEW f \in Forest, NEW n \in Node, NEW m \in Ancestors(f, n)
    PROVE  Ancestors(f, m) \subseteq Ancestors(f, n)
<1>1. \A k \in Ancestors(f, n) : f.parent[k] \in Ancestors(f, n) \cup {NULL}
  BY AncestorsClosed DEF Forest
<1>2. QED
  BY <1>1, AncestorsClosed, AncestorsMinimal

\* The ancestors of a child are itself and the ancestors of its parent; a root
\* has no ancestor but itself.
LEMMA AncestorsOfChild ==
    ASSUME NEW f \in Forest, NEW n \in Node
    PROVE  /\ f.parent[n] = NULL => Ancestors(f, n) = {n}
           /\ f.parent[n] # NULL => Ancestors(f, n) = {n} \cup Ancestors(f, f.parent[n])
<1>1. CASE f.parent[n] = NULL
  <2> DEFINE S == {n}
  <2>0. S \in SUBSET Node /\ n \in S /\ \A m \in S : f.parent[m] \in S \cup {NULL}
    BY <1>1
  <2> HIDE DEF S
  <2>1. Ancestors(f, n) \subseteq S
    BY <2>0, AncestorsMinimal
  <2>2. QED
    BY <1>1, <2>1, AncestorsClosed DEF S
<1>2. CASE f.parent[n] # NULL
  <2> DEFINE p == f.parent[n]
             S == {n} \cup Ancestors(f, p)
  <2>1. p \in Node
    BY <1>2 DEF Forest
  <2>2. S \in SUBSET Node /\ n \in S /\ p \in Ancestors(f, p)
    BY <2>1, AncestorsClosed
  <2>3. \A m \in S : f.parent[m] \in S \cup {NULL}
    BY <2>1, <2>2, AncestorsClosed DEF Forest
  <2> HIDE DEF S
  <2>4. Ancestors(f, n) \subseteq S
    BY <2>2, <2>3, AncestorsMinimal
  <2>5. p \in Ancestors(f, n)
    BY <2>1, AncestorsClosed
  <2>6. Ancestors(f, p) \subseteq Ancestors(f, n)
    BY <2>5, AncestorsTransitive
  <2>7. QED
    BY <1>2, <2>4, <2>6, AncestorsClosed DEF S
<1>3. QED
  BY <1>1, <1>2

\* There are finitely many ancestors, so a depth is a natural number.
LEMMA DepthType ==
    ASSUME NEW f, NEW n \in Node
    PROVE  /\ IsFiniteSet(Ancestors(f, n))
           /\ Cardinality(Ancestors(f, n)) \in Nat
           /\ Depth(f, n) \in Nat
           /\ Depth(f, n) = Cardinality(Ancestors(f, n)) - 1
<1>1. Ancestors(f, n) \in SUBSET Node /\ n \in Ancestors(f, n)
  BY AncestorsClosed
<1>2. IsFiniteSet(Ancestors(f, n))
  BY <1>1, NodeAssumption, FS_Subset
<1>3. Cardinality(Ancestors(f, n)) \in Nat
  BY <1>2, FS_CardinalityType
<1>4. Cardinality(Ancestors(f, n)) # 0
  BY <1>1, <1>2, FS_EmptySet
<1>5. QED
  BY <1>2, <1>3, <1>4 DEF Depth

\* The subtree of a root is cut off from the rest: a node that has a parent is in
\* it exactly when its parent is.
LEMMA RootSubtree ==
    ASSUME NEW f \in Forest, NEW r \in Node, f.parent[r] = NULL
    PROVE  /\ r \in Subtree(f, r)
           /\ Subtree(f, r) \subseteq Node
           /\ \A n \in Node : f.parent[n] # NULL =>
                 (n \in Subtree(f, r) <=> f.parent[n] \in Subtree(f, r))
<1>1. r \in Subtree(f, r) /\ Subtree(f, r) \subseteq Node
  BY AncestorsClosed DEF Subtree
<1>2. ASSUME NEW n \in Node, f.parent[n] # NULL
      PROVE  n \in Subtree(f, r) <=> f.parent[n] \in Subtree(f, r)
  <2>1. Ancestors(f, n) = {n} \cup Ancestors(f, f.parent[n])
    BY <1>2, AncestorsOfChild
  <2>2. n # r /\ f.parent[n] \in Node
    BY <1>2 DEF Forest
  <2>3. QED
    BY <2>1, <2>2 DEF Subtree
<1>3. QED
  BY <1>1, <1>2

-----------------------------------------------------------------------------
(***************************************************************************)
(* Cutting links                                                           *)
(***************************************************************************)

\* A forest that has lost some parent links, and gained none, is as acyclic and
\* no deeper.
LEMMA FewerLinks ==
    ASSUME NEW f \in Forest, NEW g \in Forest,
           \A n \in Node : g.parent[n] \in {f.parent[n], NULL}
    PROVE  /\ \A n \in Node : Ancestors(g, n) \subseteq Ancestors(f, n)
           /\ Acyclic(f) => Acyclic(g)
           /\ Shallow(f) => Shallow(g)
<1>1. ASSUME NEW n \in Node
      PROVE  Ancestors(g, n) \subseteq Ancestors(f, n)
  <2>1. Ancestors(f, n) \in SUBSET Node /\ n \in Ancestors(f, n)
    BY AncestorsClosed
  <2>2. \A m \in Ancestors(f, n) : g.parent[m] \in Ancestors(f, n) \cup {NULL}
    BY <2>1, AncestorsClosed DEF Forest
  <2>3. QED
    BY <2>1, <2>2, AncestorsMinimal
<1>2. ASSUME Acyclic(f) PROVE Acyclic(g)
  <2>1. ASSUME NEW S \in SUBSET Node, S # {}
        PROVE  \E n \in S : g.parent[n] \notin S
    <3>1. PICK n \in S : f.parent[n] \notin S
      BY <1>2, <2>1 DEF Acyclic
    <3>2. g.parent[n] \notin S
      BY <3>1, NodeAssumption
    <3>3. QED
      BY <3>2
  <2>2. QED
    BY <2>1 DEF Acyclic
<1>3. ASSUME Shallow(f) PROVE Shallow(g)
  <2>1. ASSUME NEW n \in Node PROVE Depth(g, n) <= Depth(f, n)
    <3>1. Cardinality(Ancestors(g, n)) <= Cardinality(Ancestors(f, n))
      BY <1>1, DepthType, FS_Subset
    <3>2. QED
      BY <3>1, DepthType
  <2>2. QED
    BY <1>3, <2>1, DepthType, MaxDepthAssumption DEF Shallow
<1>4. QED
  BY <1>1, <1>2, <1>3

\* Children as a set, after the list operations.
LEMMA ChildrenOfInsert ==
    ASSUME NEW q \in Seq(Node), NEW i \in 1..(Len(q) + 1), NEW c \in Node,
           NEW r, r = InsertAt(q, i, c)
    PROVE  ToSet(r) = ToSet(q) \cup {c}
<1>1. /\ r \in Seq(Node)
      /\ Len(r) = Len(q) + 1
      /\ \A j \in 1..(Len(q) + 1) : r[j] = IF j < i THEN q[j] ELSE IF j = i THEN c ELSE q[j - 1]
  BY InsertAtProperties
<1>2. DOMAIN r = 1..(Len(q) + 1) /\ DOMAIN q = 1..Len(q) /\ Len(q) \in Nat
  BY <1>1, LenProperties
<1>3. ASSUME NEW j \in DOMAIN r PROVE r[j] \in {q[k] : k \in DOMAIN q} \cup {c}
  <2>1. CASE j < i
    BY <1>1, <1>2, <2>1
  <2>2. CASE j = i
    BY <1>1, <1>2, <2>2
  <2>3. CASE j > i
    <3>1. j - 1 \in DOMAIN q /\ r[j] = q[j - 1]
      BY <1>1, <1>2, <2>3
    <3>2. QED
      BY <3>1
  <2>4. QED
    BY <1>2, <2>1, <2>2, <2>3
<1>4. ASSUME NEW k \in DOMAIN q PROVE \E j \in DOMAIN r : r[j] = q[k]
  <2>1. CASE k < i
    BY <1>1, <1>2, <2>1
  <2>2. CASE k >= i
    <3>1. k + 1 \in DOMAIN r /\ r[k + 1] = q[(k + 1) - 1] /\ (k + 1) - 1 = k
      BY <1>1, <1>2, <2>2
    <3>2. QED
      BY <3>1
  <2>3. QED
    BY <1>2, <2>1, <2>2
<1>5. i \in DOMAIN r /\ r[i] = c
  BY <1>1, <1>2
<1>6. QED
  BY <1>3, <1>4, <1>5 DEF ToSet

\* No element occurs twice.
NoRepeat(q) == \A i, j \in DOMAIN q : q[i] = q[j] => i = j

LEMMA InsertNoRepeat ==
    ASSUME NEW q \in Seq(Node), NEW i \in 1..(Len(q) + 1), NEW c \in Node,
           NoRepeat(q), \A k \in DOMAIN q : q[k] # c
    PROVE  NoRepeat(InsertAt(q, i, c))
<1> DEFINE r == InsertAt(q, i, c)
           old(j) == IF j < i THEN j ELSE j - 1
<1>1. /\ r \in Seq(Node)
      /\ Len(r) = Len(q) + 1
      /\ \A j \in 1..(Len(q) + 1) : r[j] = IF j < i THEN q[j] ELSE IF j = i THEN c ELSE q[j - 1]
  BY InsertAtProperties
<1>2. DOMAIN r = 1..(Len(q) + 1) /\ DOMAIN q = 1..Len(q) /\ Len(q) \in Nat
  BY <1>1, LenProperties
<1> HIDE DEF r
<1>3. \A j \in DOMAIN r : j # i => r[j] = q[old(j)] /\ old(j) \in DOMAIN q
  BY <1>1, <1>2
<1>4. r[i] = c /\ i \in DOMAIN r
  BY <1>1, <1>2
<1>5. ASSUME NEW j \in DOMAIN r, NEW k \in DOMAIN r, r[j] = r[k] PROVE j = k
  <2>1. CASE j = i \/ k = i
    BY <1>3, <1>4, <1>5, <2>1
  <2>2. CASE j # i /\ k # i
    <3>1. old(j) = old(k)
      BY <1>3, <1>5, <2>2 DEF NoRepeat
    <3>2. QED
      BY <1>2, <2>2, <3>1
  <2>3. QED
    BY <2>1, <2>2
<1>6. QED
  BY <1>5 DEF NoRepeat, r

LEMMA RemoveNoRepeat ==
    ASSUME NEW q \in Seq(Node), NEW i \in 1..Len(q), NoRepeat(q), NEW r, r = RemoveAt(q, i)
    PROVE  /\ NoRepeat(r)
           /\ ToSet(r) = ToSet(q) \ {q[i]}
<1> DEFINE old(j) == IF j < i THEN j ELSE j + 1
           new(j) == IF j < i THEN j ELSE j - 1
<1>1. /\ r \in Seq(Node)
      /\ Len(r) = Len(q) - 1
      /\ \A j \in 1..(Len(q) - 1) : r[j] = IF j < i THEN q[j] ELSE q[j + 1]
  BY RemoveAtProperties
<1>2. DOMAIN r = 1..(Len(q) - 1) /\ DOMAIN q = 1..Len(q) /\ Len(q) \in Nat /\ i \in DOMAIN q
  BY <1>1, LenProperties
<1>3. \A j \in DOMAIN r : r[j] = q[old(j)] /\ old(j) \in DOMAIN q /\ old(j) # i
  BY <1>1, <1>2
<1>4. \A k \in DOMAIN q : k # i => new(k) \in DOMAIN r /\ r[new(k)] = q[k]
  BY <1>1, <1>2
<1>5. ASSUME NEW j \in DOMAIN r, NEW k \in DOMAIN r, r[j] = r[k] PROVE j = k
  <2>1. old(j) = old(k)
    BY <1>3, <1>5 DEF NoRepeat
  <2>2. QED
    BY <1>2, <2>1
<1>6. \A j \in DOMAIN r : r[j] # q[i]
  BY <1>2, <1>3 DEF NoRepeat
<1> HIDE DEF old, new
<1>7. QED
  BY <1>2, <1>3, <1>4, <1>5, <1>6 DEF NoRepeat, ToSet

-----------------------------------------------------------------------------
(***************************************************************************)
(* Positions in a list                                                     *)
(***************************************************************************)

\* The elements that two lists share are in the same order in both.
SameOrder(q, r) ==
    \A i, j \in DOMAIN q, k, l \in DOMAIN r : q[i] = r[k] /\ q[j] = r[l] /\ i < j => k < l

\* An insertion does not reorder the list.
LEMMA InsertSameOrder ==
    ASSUME NEW q \in Seq(Node), NEW n \in 1..(Len(q) + 1), NEW c \in Node,
           NoRepeat(q), \A k \in DOMAIN q : q[k] # c
    PROVE  SameOrder(q, InsertAt(q, n, c))
<1> DEFINE r == InsertAt(q, n, c)
           old(j) == IF j < n THEN j ELSE j - 1
<1>1. /\ r \in Seq(Node)
      /\ Len(r) = Len(q) + 1
      /\ \A j \in 1..(Len(q) + 1) : r[j] = IF j < n THEN q[j] ELSE IF j = n THEN c ELSE q[j - 1]
  BY InsertAtProperties
<1>2. DOMAIN r = 1..(Len(q) + 1) /\ DOMAIN q = 1..Len(q) /\ Len(q) \in Nat
  BY <1>1, LenProperties
<1> HIDE DEF r
<1>3. r[n] = c
  BY <1>1, <1>2
<1>4. ASSUME NEW i \in DOMAIN q, NEW k \in DOMAIN r, q[i] = r[k] PROVE k # n /\ i = old(k)
  <2>1. k # n
    BY <1>3, <1>4
  <2>2. r[k] = q[old(k)] /\ old(k) \in DOMAIN q
    BY <1>1, <1>2, <2>1
  <2>3. QED
    BY <1>4, <2>1, <2>2 DEF NoRepeat
<1>5. ASSUME NEW i \in DOMAIN q, NEW j \in DOMAIN q, NEW k \in DOMAIN r, NEW l \in DOMAIN r,
             q[i] = r[k], q[j] = r[l], i < j
      PROVE  k < l
  <2>1. i = old(k) /\ j = old(l) /\ k # n /\ l # n
    BY <1>4, <1>5
  <2>2. QED
    BY <1>2, <1>5, <2>1
<1>6. QED
  BY <1>5 DEF SameOrder, r

\* Nor does a removal.
LEMMA RemoveSameOrder ==
    ASSUME NEW q \in Seq(Node), NEW n \in 1..Len(q), NoRepeat(q)
    PROVE  SameOrder(q, RemoveAt(q, n))
<1> DEFINE r == RemoveAt(q, n)
           old(j) == IF j < n THEN j ELSE j + 1
<1>1. /\ r \in Seq(Node)
      /\ Len(r) = Len(q) - 1
      /\ \A j \in 1..(Len(q) - 1) : r[j] = IF j < n THEN q[j] ELSE q[j + 1]
  BY RemoveAtProperties
<1>2. DOMAIN r = 1..(Len(q) - 1) /\ DOMAIN q = 1..Len(q) /\ Len(q) \in Nat
  BY <1>1, LenProperties
<1> HIDE DEF r
<1>3. ASSUME NEW i \in DOMAIN q, NEW k \in DOMAIN r, q[i] = r[k] PROVE i = old(k)
  <2>1. r[k] = q[old(k)] /\ old(k) \in DOMAIN q
    BY <1>1, <1>2
  <2>2. QED
    BY <1>3, <2>1 DEF NoRepeat
<1>4. ASSUME NEW i \in DOMAIN q, NEW j \in DOMAIN q, NEW k \in DOMAIN r, NEW l \in DOMAIN r,
             q[i] = r[k], q[j] = r[l], i < j
      PROVE  k < l
  <2>1. i = old(k) /\ j = old(l)
    BY <1>3, <1>4
  <2>2. QED
    BY <1>2, <1>4, <2>1
<1>5. QED
  BY <1>4 DEF SameOrder, r

\* Nor does leaving it alone.
LEMMA SameListSameOrder ==
    ASSUME NEW q \in Seq(Node), NoRepeat(q)
    PROVE  SameOrder(q, q)
<1>1. DOMAIN q = 1..Len(q) /\ Len(q) \in Nat
  BY LenProperties
<1>2. QED
  BY <1>1 DEF SameOrder, NoRepeat

\* node_child_position finds the one place a child is at.
LEMMA Position ==
    ASSUME NEW f, ForestInv(f), NEW p \in Node, NEW i \in DOMAIN f.kids[p]
    PROVE  /\ node_child_position(f, p, f.kids[p][i]) = i - 1
           /\ f.kids[p][i] \in Node
           /\ f.parent[f.kids[p][i]] = p
           /\ i \in 1..Len(f.kids[p])
<1> DEFINE q == f.kids[p]
<1>1. q \in Seq(Node) /\ NoRepeat(q)
  BY DEF ForestInv, Forest, Linked, NoRepeat
<1>2. DOMAIN q = 1..Len(q) /\ Len(q) \in Nat
  BY <1>1, LenProperties
<1> DEFINE j == CHOOSE x \in DOMAIN q : q[x] = q[i]
<1>3. j \in DOMAIN q /\ q[j] = q[i]
  OBVIOUS
<1>4. j = i
  BY <1>1, <1>3 DEF NoRepeat
<1>5. q[i] \in Node
  BY <1>1, <1>2, ElementOfSeq
<1>6. f.parent[q[i]] = p
  BY <1>5 DEF ForestInv, Linked, Children
<1>7. QED
  BY <1>2, <1>4, <1>5, <1>6 DEF node_child_position

\* When a step keeps the order in the list of p, it keeps the order of the
\* positions in it.
LEMMA PositionsKept ==
    ASSUME NEW f, ForestInv(f), NEW g, ForestInv(g), NEW p \in Node,
           SameOrder(f.kids[p], g.kids[p]),
           NEW a \in Children(f, p) \cap Children(g, p),
           NEW b \in Children(f, p) \cap Children(g, p),
           node_child_position(f, p, a) < node_child_position(f, p, b)
    PROVE  node_child_position(g, p, a) < node_child_position(g, p, b)
<1>1. PICK i \in DOMAIN f.kids[p], j \in DOMAIN f.kids[p],
           k \in DOMAIN g.kids[p], l \in DOMAIN g.kids[p] :
             a = f.kids[p][i] /\ b = f.kids[p][j] /\ a = g.kids[p][k] /\ b = g.kids[p][l]
  BY DEF Children
<1>2. /\ node_child_position(f, p, a) = i - 1 /\ node_child_position(f, p, b) = j - 1
      /\ i \in 1..Len(f.kids[p]) /\ j \in 1..Len(f.kids[p])
  <2>1. /\ node_child_position(f, p, f.kids[p][i]) = i - 1 /\ i \in 1..Len(f.kids[p])
        /\ node_child_position(f, p, f.kids[p][j]) = j - 1 /\ j \in 1..Len(f.kids[p])
    BY Position
  <2>2. QED
    BY <1>1, <2>1
<1>7. /\ node_child_position(g, p, a) = k - 1 /\ node_child_position(g, p, b) = l - 1
      /\ k \in 1..Len(g.kids[p]) /\ l \in 1..Len(g.kids[p])
  <2>1. /\ node_child_position(g, p, g.kids[p][k]) = k - 1 /\ k \in 1..Len(g.kids[p])
        /\ node_child_position(g, p, g.kids[p][l]) = l - 1 /\ l \in 1..Len(g.kids[p])
    BY Position
  <2>2. QED
    BY <1>1, <2>1
<1>3. Len(f.kids[p]) \in Nat /\ Len(g.kids[p]) \in Nat
  BY LenProperties DEF ForestInv, Forest
<1>4. i < j
  BY <1>2, <1>3
<1>5. k < l
  BY <1>1, <1>4 DEF SameOrder
<1>6. QED
  BY <1>2, <1>3, <1>5, <1>7

-----------------------------------------------------------------------------
(***************************************************************************)
(* The three ways the operations change a forest                           *)
(***************************************************************************)

\* Linking a root below a node that is not in its tree, within the depth limit,
\* keeps a forest a forest: what node_attach and node_insert do.
THEOREM LinkForest ==
    ASSUME NEW f, ForestInv(f), NEW p \in Node, NEW c \in Node,
           NEW i \in 1..(Len(f.kids[p]) + 1),
           f.parent[c] = NULL,
           ~would_create_cycle(f, p, c),
           ~exceeds_max_depth(f, p, c)
    PROVE  ForestInv(Link(f, p, i, c))
<1> DEFINE g == Link(f, p, i, c)
           q == f.kids[p]
<1>1. f \in Forest /\ Linked(f) /\ Acyclic(f) /\ Shallow(f)
  BY DEF ForestInv
<1>2. /\ q \in Seq(Node)
      /\ f.kids \in [Node -> Seq(Node)]
      /\ f.parent \in [Node -> Node \cup {NULL}]
  BY <1>1 DEF Forest
<1>3. c \notin Ancestors(f, p) /\ c # p
  BY AncestorsClosed DEF would_create_cycle
<1>4. InsertAt(q, i, c) \in Seq(Node)
  BY <1>2, InsertAtProperties
<1>5. /\ g.kids = [f.kids EXCEPT ![p] = InsertAt(q, i, c)]
      /\ g.parent = [f.parent EXCEPT ![c] = p]
      /\ g = [kids |-> g.kids, parent |-> g.parent]
  BY DEF Link
<1> HIDE DEF g
<1>6. g \in Forest
  BY <1>2, <1>4, <1>5 DEF Forest
<1>7. /\ g.parent[c] = p
      /\ \A n \in Node : n # c => g.parent[n] = f.parent[n]
      /\ g.kids[p] = InsertAt(q, i, c)
      /\ \A n \in Node : n # p => g.kids[n] = f.kids[n]
  BY <1>2, <1>5
<1>8. Linked(g)
  <2>1. Children(g, p) = Children(f, p) \cup {c}
    <3> DEFINE r == g.kids[p]
    <3>1. r = InsertAt(q, i, c) /\ q \in Seq(Node) /\ i \in 1..(Len(q) + 1)
      BY <1>2, <1>7
    <3> HIDE DEF r, q
    <3>2. ToSet(r) = ToSet(q) \cup {c}
      BY <3>1, ChildrenOfInsert
    <3>3. QED
      BY <3>2 DEF Children, ToSet, r, q
  <2>2. \A n \in Node : n # p => Children(g, n) = Children(f, n)
    BY <1>7 DEF Children
  <2>3. ASSUME NEW n \in Node, NEW m \in Node
        PROVE  g.parent[m] = n <=> m \in Children(g, n)
    <3>1. f.parent[m] = n <=> m \in Children(f, n)
      BY <1>1 DEF Linked
    <3>2. CASE m = c
      BY <1>7, <2>1, <2>2, <3>1, <3>2, NodeAssumption
    <3>3. CASE m # c
      BY <1>7, <2>1, <2>2, <3>1, <3>3
    <3>4. QED
      BY <3>2, <3>3
  <2>4. ASSUME NEW n \in Node
        PROVE  NoRepeat(g.kids[n])
    <3>1. NoRepeat(f.kids[n])
      BY <1>1 DEF Linked, NoRepeat
    <3>2. CASE n # p
      BY <1>7, <3>1, <3>2
    <3>3. CASE n = p
      <4>1. \A k \in DOMAIN q : q[k] # c
        BY <1>1, NodeAssumption DEF Linked, Children
      <4>2. NoRepeat(InsertAt(q, i, c))
        BY <1>2, <3>1, <3>3, <4>1, InsertNoRepeat
      <4>3. QED
        BY <1>7, <3>3, <4>2
    <3>4. QED
      BY <3>2, <3>3
  <2>5. QED
    BY <2>3, <2>4 DEF Linked, NoRepeat
<1>9. Acyclic(g)
  <2>1. ASSUME NEW S \in SUBSET Node, S # {}
        PROVE  \E n \in S : g.parent[n] \notin S
    <3> DEFINE T == S \cap Ancestors(f, p)
    <3>1. CASE c \notin S
      <4>1. PICK n \in S : f.parent[n] \notin S
        BY <1>1, <2>1 DEF Acyclic
      <4>2. QED
        BY <1>7, <3>1, <4>1
    <3>2. CASE c \in S /\ T = {}
      <4>1. p \notin S
        BY <3>2, AncestorsClosed
      <4>2. QED
        BY <1>7, <3>2, <4>1
    <3>3. CASE T # {}
      <4>1. T \in SUBSET Node
        OBVIOUS
      <4>2. PICK n \in T : f.parent[n] \notin T
        BY <1>1, <3>3, <4>1 DEF Acyclic
      <4>3. n \in Node /\ n # c /\ g.parent[n] = f.parent[n]
        BY <1>3, <1>7
      <4>4. CASE f.parent[n] = NULL
        BY <4>3, <4>4, NodeAssumption
      <4>5. CASE f.parent[n] # NULL
        <5>1. f.parent[n] \in Ancestors(f, p)
          BY <1>2, <4>3, <4>5, AncestorsClosed
        <5>2. QED
          BY <4>2, <4>3, <5>1
      <4>6. QED
        BY <4>4, <4>5
    <3>4. QED
      BY <3>1, <3>2, <3>3
  <2>2. QED
    BY <2>1 DEF Acyclic
<1>10. Shallow(g)
  <2>1. ASSUME NEW n \in Node
        PROVE  Depth(g, n) <= MaxDepth
    <3> DEFINE A == Ancestors(f, n)
               B == Ancestors(f, p)
    <3>1. /\ A \in SUBSET Node /\ n \in A /\ B \in SUBSET Node /\ p \in B
          /\ \A m \in A : f.parent[m] \in A \cup {NULL}
          /\ \A m \in B : f.parent[m] \in B \cup {NULL}
      BY <1>2, AncestorsClosed
    <3>2. /\ IsFiniteSet(A) /\ Cardinality(A) \in Nat /\ Depth(f, n) = Cardinality(A) - 1
          /\ IsFiniteSet(B) /\ Cardinality(B) \in Nat /\ Depth(f, p) = Cardinality(B) - 1
      BY DepthType
    <3>3. Depth(f, n) <= MaxDepth
      BY <1>1 DEF Shallow
    <3>4. IsFiniteSet(Ancestors(g, n)) /\ Depth(g, n) = Cardinality(Ancestors(g, n)) - 1
          /\ Cardinality(Ancestors(g, n)) \in Nat
      BY DepthType
    <3>5. CASE c \notin A
      <4> HIDE DEF A
      <4>1. \A m \in A : g.parent[m] \in A \cup {NULL}
        BY <1>7, <3>1, <3>5
      <4>2. Ancestors(g, n) \subseteq A
        BY <3>1, <4>1, AncestorsMinimal
      <4>3. Cardinality(Ancestors(g, n)) <= Cardinality(A)
        BY <3>2, <4>2, FS_Subset
      <4>4. QED
        BY <3>2, <3>3, <3>4, <4>3, MaxDepthAssumption
    <3>6. CASE c \in A
      <4>1. n \in Subtree(f, c)
        BY <3>6 DEF Subtree
      <4>2. ~(Depth(f, p) + 1 + Depth(f, n) > MaxDepth)
        BY <4>1 DEF exceeds_max_depth
      <4> DEFINE C == A \cup B
      <4>3. C \in SUBSET Node /\ n \in C
        BY <3>1
      <4>4. \A m \in C : g.parent[m] \in C \cup {NULL}
        BY <1>7, <3>1
      <4>5. IsFiniteSet(C) /\ Cardinality(C) \in Nat /\ Cardinality(C) <= Cardinality(A) + Cardinality(B)
        <5>1. IsFiniteSet(A \cap B) /\ IsFiniteSet(C)
              /\ Cardinality(C) = Cardinality(A) + Cardinality(B) - Cardinality(A \cap B)
          BY <3>2, FS_Union, FS_Intersection
        <5>2. Cardinality(A \cap B) \in Nat /\ Cardinality(C) \in Nat
          BY <5>1, FS_CardinalityType
        <5>3. QED
          BY <3>2, <5>1, <5>2
      <4> HIDE DEF A, B, C
      <4>6. Ancestors(g, n) \subseteq C
        BY <4>3, <4>4, AncestorsMinimal
      <4>7. Cardinality(Ancestors(g, n)) <= Cardinality(C)
        BY <4>5, <4>6, FS_Subset
      <4>8. QED
        BY <3>2, <3>4, <4>2, <4>5, <4>7, MaxDepthAssumption
    <3>7. QED
      BY <3>5, <3>6
  <2>2. QED
    BY <2>1 DEF Shallow
<1>11. QED
  BY <1>6, <1>8, <1>9, <1>10 DEF ForestInv, g

\* Unlinking the i-th child of p keeps a forest a forest, and makes that child a
\* root: what node_detach does.
THEOREM UnlinkForest ==
    ASSUME NEW f, ForestInv(f), NEW p \in Node, NEW i \in 1..Len(f.kids[p])
    PROVE  /\ ForestInv(Unlink(f, p, i))
           /\ Unlink(f, p, i).parent[f.kids[p][i]] = NULL
<1> DEFINE g == Unlink(f, p, i)
           q == f.kids[p]
           c == q[i]
<1>1. f \in Forest /\ Linked(f) /\ Acyclic(f) /\ Shallow(f)
  BY DEF ForestInv
<1>2. /\ q \in Seq(Node) /\ i \in 1..Len(q)
      /\ f.kids \in [Node -> Seq(Node)]
      /\ f.parent \in [Node -> Node \cup {NULL}]
  BY <1>1 DEF Forest
<1>3. c \in Node /\ i \in DOMAIN q
  BY <1>2, LenProperties, ElementOfSeq
<1>4. f.parent[c] = p /\ NoRepeat(q)
  BY <1>1, <1>3 DEF Linked, Children, NoRepeat
<1>5. RemoveAt(q, i) \in Seq(Node)
  BY <1>2, RemoveAtProperties
<1>6. /\ g.kids = [f.kids EXCEPT ![p] = RemoveAt(q, i)]
      /\ g.parent = [f.parent EXCEPT ![c] = NULL]
      /\ g = [kids |-> g.kids, parent |-> g.parent]
  BY DEF Unlink
<1> HIDE DEF g
<1>7. g \in Forest
  BY <1>2, <1>3, <1>5, <1>6 DEF Forest
<1>8. /\ g.parent[c] = NULL
      /\ \A n \in Node : n # c => g.parent[n] = f.parent[n]
      /\ g.kids[p] = RemoveAt(q, i)
      /\ \A n \in Node : n # p => g.kids[n] = f.kids[n]
  BY <1>2, <1>3, <1>6
<1>9. Acyclic(g) /\ Shallow(g)
  BY <1>1, <1>7, <1>8, FewerLinks
<1>10. NoRepeat(g.kids[p]) /\ Children(g, p) = Children(f, p) \ {c}
  <2> DEFINE r == g.kids[p]
  <2>1. r = RemoveAt(q, i)
    BY <1>8
  <2> HIDE DEF r, q
  <2>2. NoRepeat(r) /\ ToSet(r) = ToSet(q) \ {q[i]}
    BY <1>2, <1>4, <2>1, RemoveNoRepeat
  <2>3. QED
    BY <2>2 DEF Children, ToSet, r, q
<1>11. \A n \in Node : n # p => Children(g, n) = Children(f, n)
  BY <1>8 DEF Children
<1>12. Linked(g)
  <2>1. ASSUME NEW n \in Node, NEW m \in Node
        PROVE  g.parent[m] = n <=> m \in Children(g, n)
    <3>1. f.parent[m] = n <=> m \in Children(f, n)
      BY <1>1 DEF Linked
    <3> HIDE DEF c
    <3>2. CASE m = c
      BY <1>4, <1>8, <1>10, <1>11, <3>1, <3>2, NodeAssumption
    <3>3. CASE m # c
      BY <1>8, <1>10, <1>11, <3>1, <3>3
    <3>4. QED
      BY <3>2, <3>3
  <2>2. ASSUME NEW n \in Node PROVE NoRepeat(g.kids[n])
    BY <1>1, <1>8, <1>10 DEF Linked, NoRepeat
  <2>3. QED
    BY <2>1, <2>2 DEF Linked, NoRepeat
<1>13. QED
  BY <1>7, <1>8, <1>9, <1>12 DEF ForestInv, g

\* Freeing a set of nodes that is cut off from the others, as the tree of a root
\* is, keeps a forest a forest.
THEOREM ReleaseForest ==
    ASSUME NEW f, ForestInv(f), NEW S \in SUBSET Node,
           \A n \in Node : f.parent[n] # NULL => (n \in S <=> f.parent[n] \in S)
    PROVE  ForestInv(Release(f, S))
<1> DEFINE g == Release(f, S)
<1>1. f \in Forest /\ Linked(f) /\ Acyclic(f) /\ Shallow(f)
  BY DEF ForestInv
<1>2. /\ f.kids \in [Node -> Seq(Node)]
      /\ f.parent \in [Node -> Node \cup {NULL}]
      /\ <<>> \in Seq(Node)
  BY <1>1 DEF Forest
<1>3. /\ g.kids = [n \in Node |-> IF n \in S THEN <<>> ELSE f.kids[n]]
      /\ g.parent = [n \in Node |-> IF n \in S THEN NULL ELSE f.parent[n]]
      /\ g = [kids |-> g.kids, parent |-> g.parent]
  BY DEF Release
<1> HIDE DEF g
<1>4. g \in Forest
  <2>1. g.kids \in [Node -> Seq(Node)]
    BY <1>2, <1>3
  <2>2. g.parent \in [Node -> Node \cup {NULL}]
    BY <1>2, <1>3
  <2>3. QED
    BY <1>3, <2>1, <2>2 DEF Forest
<1>5. Acyclic(g) /\ Shallow(g)
  BY <1>1, <1>3, <1>4, FewerLinks
<1>6. \A n \in Node : Children(g, n) = IF n \in S THEN {} ELSE Children(f, n)
  BY <1>3 DEF Children
<1>7. Linked(g)
  <2>1. ASSUME NEW n \in Node, NEW m \in Node
        PROVE  g.parent[m] = n <=> m \in Children(g, n)
    <3>1. f.parent[m] = n <=> m \in Children(f, n)
      BY <1>1 DEF Linked
    <3>2. f.parent[m] = n => (m \in S <=> n \in S)
      BY NodeAssumption
    <3>3. QED
      BY <1>3, <1>6, <3>1, <3>2, NodeAssumption
  <2>2. ASSUME NEW n \in Node PROVE NoRepeat(g.kids[n])
    BY <1>1, <1>3 DEF Linked, NoRepeat
  <2>3. QED
    BY <2>1, <2>2 DEF Linked, NoRepeat
<1>8. QED
  BY <1>4, <1>5, <1>7 DEF ForestInv, g

\* Copying the tree below r to fresh nodes keeps a forest a forest: what
\* node_copy_deep and plist_copy do.
THEOREM CopyForest ==
    ASSUME NEW f, ForestInv(f), NEW r \in Node, NEW S \in SUBSET Node,
           \A n \in S : f.kids[n] = <<>> /\ f.parent[n] = NULL,
           NEW k \in Injection(Subtree(f, r), S)
    PROVE  /\ ForestInv(CopyTree(f, r, k))
           /\ \A t \in Subtree(f, r) : k[t] \in S
           /\ \A n \in Node : n \notin {k[t] : t \in Subtree(f, r)} =>
                 /\ CopyTree(f, r, k).kids[n] = f.kids[n]
                 /\ CopyTree(f, r, k).parent[n] = f.parent[n]
<1> DEFINE g == CopyTree(f, r, k)
           T == Subtree(f, r)
           C == {k[t] : t \in T}
           orig(m) == CHOOSE t \in T : k[t] = m
<1>1. f \in Forest /\ Linked(f) /\ Acyclic(f) /\ Shallow(f)
  BY DEF ForestInv
<1>2. /\ f.kids \in [Node -> Seq(Node)]
      /\ f.parent \in [Node -> Node \cup {NULL}]
  BY <1>1 DEF Forest
<1>3. /\ DOMAIN k = T
      /\ T \subseteq Node /\ C \subseteq S
      /\ \A t \in T : k[t] \in S
      /\ \A t, u \in T : k[t] = k[u] => t = u
  BY DEF Injection, IsInjective, Subtree
<1>4. r \in T
  BY AncestorsClosed DEF Subtree
<1>5. ASSUME NEW t \in T, t # r PROVE f.parent[t] \in T
  <2>1. r \in Ancestors(f, t) /\ t \in Node
    BY <1>5 DEF Subtree
  <2>2. f.parent[t] # NULL
    BY <1>1, <1>5, <2>1, AncestorsOfChild
  <2>3. Ancestors(f, t) = {t} \cup Ancestors(f, f.parent[t]) /\ f.parent[t] \in Node
    BY <1>1, <1>2, <2>1, <2>2, AncestorsOfChild
  <2>4. QED
    BY <1>5, <2>1, <2>3 DEF Subtree
<1>6. ASSUME NEW t \in T, NEW m \in Children(f, t) PROVE m \in T
  <2>1. m \in Node /\ t \in Node
    <3>1. PICK i \in DOMAIN f.kids[t] : m = f.kids[t][i]
      BY DEF Children
    <3>2. t \in Node /\ f.kids[t] \in Seq(Node)
      BY <1>2, <1>3
    <3>3. QED
      BY <3>1, <3>2, LenProperties, ElementOfSeq
  <2>2. f.parent[m] = t
    BY <1>1, <2>1 DEF Linked
  <2>3. Ancestors(f, m) = {m} \cup Ancestors(f, t)
    BY <1>1, <2>1, <2>2, AncestorsOfChild, NodeAssumption
  <2>4. QED
    BY <2>1, <2>3 DEF Subtree
<1>7. \A t \in T : orig(k[t]) = t
  BY <1>3
<1>8. g = [kids   |-> [m \in Node |-> IF m \notin C THEN f.kids[m]
                         ELSE [i \in DOMAIN f.kids[orig(m)] |-> k[f.kids[orig(m)][i]]]],
           parent |-> [m \in Node |-> IF m \notin C \/ orig(m) = r THEN f.parent[m]
                         ELSE k[f.parent[orig(m)]]]]
  BY <1>3 DEF CopyTree
<1> HIDE DEF g
<1>9. ASSUME NEW n \in Node, n \notin C
      PROVE  g.kids[n] = f.kids[n] /\ g.parent[n] = f.parent[n]
  BY <1>8, <1>9
<1>10. ASSUME NEW t \in T
       PROVE  /\ k[t] \in C /\ k[t] \in Node
              /\ g.kids[k[t]] = [i \in DOMAIN f.kids[t] |-> k[f.kids[t][i]]]
              /\ g.parent[k[t]] = IF t = r THEN NULL ELSE k[f.parent[t]]
  <2>1. k[t] \in C /\ k[t] \in Node /\ orig(k[t]) = t /\ f.parent[k[t]] = NULL
    BY <1>3, <1>7
  <2> HIDE DEF C, orig
  <2>2. QED
    BY <1>8, <2>1
<1>inC. \A m \in C : \E t \in T : m = k[t]
  OBVIOUS
<1> HIDE DEF T, orig, C
<1>11. g \in Forest
  <2>1. ASSUME NEW n \in Node
        PROVE  g.kids[n] \in Seq(Node) /\ g.parent[n] \in Node \cup {NULL}
    <3>1. CASE n \notin C
      BY <1>2, <1>9, <3>1
    <3>2. CASE n \in C
      <4>1. PICK t \in T : n = k[t]
        BY <3>2, <1>inC
      <4>2. f.kids[t] \in Seq(Node) /\ DOMAIN f.kids[t] = 1..Len(f.kids[t])
            /\ Len(f.kids[t]) \in Nat
        BY <1>2, <1>3, LenProperties
      <4>3. \A a \in DOMAIN f.kids[t] : k[f.kids[t][a]] \in Node
        BY <1>3, <1>6 DEF Children
      <4>4. g.kids[n] \in Seq(Node)
        <5> DEFINE l == Len(f.kids[t])
                   gk == g.kids[n]
        <5>1. gk = [a \in 1..l |-> k[f.kids[t][a]]] /\ l \in Nat
          BY <1>10, <4>1, <4>2
        <5>2. \A a \in 1..l : k[f.kids[t][a]] \in Node
          BY <4>2, <4>3
        <5> HIDE DEF l, gk
        <5>3. gk \in [1..l -> Node]
          BY <5>1, <5>2
        <5>4. gk \in Seq(Node)
          BY <5>1, <5>3, SeqDef
        <5>5. QED
          BY <5>4 DEF gk
      <4>5. g.parent[n] \in Node \cup {NULL}
        BY <1>3, <1>5, <1>10, <4>1
      <4>6. QED
        BY <4>4, <4>5
    <3>3. QED
      BY <3>1, <3>2
  <2>2. /\ g.kids = [m \in Node |-> g.kids[m]]
        /\ g.parent = [m \in Node |-> g.parent[m]]
        /\ g = [kids |-> g.kids, parent |-> g.parent]
    BY <1>8
  <2> DEFINE gk == g.kids
             gp == g.parent
  <2>3. /\ gk = [m \in Node |-> gk[m]] /\ gp = [m \in Node |-> gp[m]]
        /\ g = [kids |-> gk, parent |-> gp]
        /\ \A n \in Node : gk[n] \in Seq(Node) /\ gp[n] \in Node \cup {NULL}
    BY <2>1, <2>2
  <2> HIDE DEF gk, gp
  <2>4. gk \in [Node -> Seq(Node)] /\ gp \in [Node -> Node \cup {NULL}]
    BY <2>3
  <2>5. QED
    BY <2>3, <2>4 DEF Forest
<1>12. ASSUME NEW n \in Node PROVE f.parent[n] \notin S
  <2>1. \A p \in S : Children(f, p) = {}
    BY DEF Children
  <2>2. QED
    BY <1>1, <2>1 DEF Linked
<1>13. f.parent[r] \notin T
  BY <1>1, <1>3, <1>4, <1>5 DEF Acyclic
<1>14. ASSUME NEW t \in T
       PROVE  Children(g, k[t]) = {k[c] : c \in Children(f, t)}
  <2> DEFINE q == f.kids[t]
  <2>1. g.kids[k[t]] = [a \in DOMAIN q |-> k[q[a]]]
    BY <1>10
  <2> HIDE DEF q
  <2>2. Children(g, k[t]) = {k[q[a]] : a \in DOMAIN q}
    BY <2>1 DEF Children
  <2>3. Children(f, t) = {q[a] : a \in DOMAIN q}
    BY DEF Children, q
  <2>4. QED
    BY <2>2, <2>3
<1>15. \A n \in Node : n \notin C => Children(g, n) = Children(f, n)
  BY <1>9 DEF Children
<1>16. ASSUME NEW n \in Node, NEW m \in Node
       PROVE  g.parent[m] = n <=> m \in Children(g, n)
  <2>0. \A c \in Node, p \in Node : f.parent[c] = p <=> c \in Children(f, p)
    BY <1>1 DEF Linked
  <2>1. CASE n \notin C /\ m \notin C
    BY <1>9, <1>15, <2>0, <2>1
  <2>2. CASE n \notin C /\ m \in C
    <3>1. PICK t \in T : m = k[t]
      BY <2>2, <1>inC
    <3>2. g.parent[m] # n
      <4>1. CASE t = r
        BY <1>10, <3>1, <4>1, NodeAssumption
      <4>2. CASE t # r
        BY <1>5, <1>10, <2>2, <3>1, <4>2
      <4>3. QED
        BY <4>1, <4>2
    <3>3. f.parent[m] = NULL
      BY <1>3, <2>2
    <3>4. m \notin Children(g, n)
      BY <1>15, <2>0, <2>2, <3>3, NodeAssumption
    <3>5. QED
      BY <3>2, <3>4
  <2>3. CASE n \in C /\ m \notin C
    <3>1. PICK u \in T : n = k[u]
      BY <2>3, <1>inC
    <3>2. m \notin Children(g, n)
      <4>1. \A c \in Children(f, u) : k[c] \in C
        BY <1>6, <1>10
      <4>2. Children(g, n) = {k[c] : c \in Children(f, u)}
        BY <1>14, <3>1
      <4>3. QED
        BY <2>3, <4>1, <4>2
    <3>3. g.parent[m] # n
      BY <1>3, <1>9, <1>12, <2>3
    <3>4. QED
      BY <3>2, <3>3
  <2>4. CASE n \in C /\ m \in C
    <3>1. PICK u \in T, t \in T : n = k[u] /\ m = k[t]
      BY <2>4, <1>inC
    <3>2. m \in Children(g, n) <=> t \in Children(f, u)
      BY <1>3, <1>6, <1>14, <3>1
    <3>3. t \in Children(f, u) <=> f.parent[t] = u
      BY <1>3, <2>0
    <3>4. g.parent[m] = n <=> f.parent[t] = u
      <4>1. CASE t = r
        BY <1>10, <1>13, <3>1, <4>1, NodeAssumption
      <4>2. CASE t # r
        <5>1. f.parent[t] \in T /\ g.parent[m] = k[f.parent[t]]
          BY <1>5, <1>10, <3>1, <4>2
        <5>2. QED
          BY <1>3, <3>1, <5>1
      <4>3. QED
        BY <4>1, <4>2
    <3>5. QED
      BY <3>2, <3>3, <3>4
  <2>5. QED
    BY <2>1, <2>2, <2>3, <2>4
<1>17. ASSUME NEW n \in Node PROVE NoRepeat(g.kids[n])
  <2>1. \A p \in Node : NoRepeat(f.kids[p])
    BY <1>1 DEF Linked, NoRepeat
  <2>2. CASE n \notin C
    BY <1>9, <2>1, <2>2
  <2>3. CASE n \in C
    <3>1. PICK t \in T : n = k[t]
      BY <2>3, <1>inC
    <3>2. \A a \in DOMAIN f.kids[t] : f.kids[t][a] \in T
      BY <1>6 DEF Children
    <3>3. NoRepeat(f.kids[t])
      BY <1>3, <2>1
    <3> DEFINE q == f.kids[t]
               gq == g.kids[n]
    <3>4. gq = [a \in DOMAIN q |-> k[q[a]]]
      BY <1>10, <3>1
    <3> HIDE DEF gq
    <3>5. ASSUME NEW a \in DOMAIN gq, NEW b \in DOMAIN gq, gq[a] = gq[b] PROVE a = b
      <4>1. a \in DOMAIN q /\ b \in DOMAIN q /\ k[q[a]] = k[q[b]]
        BY <3>4, <3>5
      <4>2. q[a] = q[b]
        BY <1>3, <3>2, <4>1
      <4>3. QED
        BY <3>3, <4>1, <4>2 DEF NoRepeat
    <3>6. QED
      BY <3>5 DEF NoRepeat, gq
  <2>4. QED
    BY <2>2, <2>3
<1>18. Linked(g)
  BY <1>16, <1>17 DEF Linked, NoRepeat
<1>19. Acyclic(g)
  <2>1. ASSUME NEW R \in SUBSET Node, R # {}
        PROVE  \E n \in R : g.parent[n] \notin R
    <3> DEFINE Q == {t \in T : k[t] \in R}
    <3>1. CASE Q = {}
      <4>1. \A n \in R : n \notin C
        BY <1>inC, <3>1
      <4>2. PICK n \in R : f.parent[n] \notin R
        BY <1>1, <2>1 DEF Acyclic
      <4>3. QED
        BY <1>9, <4>1, <4>2
    <3>2. CASE Q # {}
      <4>1. Q \in SUBSET Node
        BY <1>3
      <4>2. PICK t \in Q : f.parent[t] \notin Q
        BY <1>1, <3>2, <4>1 DEF Acyclic
      <4>3. g.parent[k[t]] \notin R
        BY <1>5, <1>10, <4>2, NodeAssumption
      <4>4. QED
        BY <4>2, <4>3
    <3>3. QED
      BY <3>1, <3>2
  <2>2. QED
    BY <2>1 DEF Acyclic
<1>20. ASSUME NEW n \in Node PROVE Depth(g, n) <= MaxDepth
  <2>1. CASE n \notin C
    <3> DEFINE A == Ancestors(f, n)
               B == A \ C
    <3>1. B \in SUBSET Node /\ n \in B /\ B \subseteq A
      BY <2>1, AncestorsClosed
    <3>2. \A m \in A : f.parent[m] \in A \cup {NULL}
      BY <1>2, AncestorsClosed
    <3>3. \A m \in B : f.parent[m] \in B \cup {NULL}
      BY <1>3, <1>12, <3>1, <3>2
    <3>4. \A m \in B : g.parent[m] \in B \cup {NULL}
      BY <1>9, <3>1, <3>3
    <3>5. Cardinality(A) <= MaxDepth + 1 /\ IsFiniteSet(A) /\ Cardinality(A) \in Nat
      BY <1>1, DepthType, MaxDepthAssumption DEF Shallow
    <3> HIDE DEF A, B
    <3>6. Ancestors(g, n) \subseteq B
      BY <3>1, <3>4, AncestorsMinimal
    <3>7. Cardinality(Ancestors(g, n)) <= Cardinality(A)
      BY <3>1, <3>5, <3>6, FS_Subset
    <3>8. QED
      BY <3>5, <3>7, DepthType, MaxDepthAssumption
  <2>2. CASE n \in C
    <3>1. PICK t \in T : n = k[t]
      BY <2>2, <1>inC
    <3> DEFINE A == Ancestors(f, t) \cap T
               B == {k[a] : a \in A}
               h == [a \in A |-> k[a]]
    <3>2. t \in Node /\ t \in A /\ A \subseteq Ancestors(f, t)
      BY <1>3, AncestorsClosed
    <3>3. B \in SUBSET Node /\ n \in B
      BY <1>10, <3>1, <3>2
    <3>4. ASSUME NEW m \in B PROVE g.parent[m] \in B \cup {NULL}
      <4>1. PICK a \in A : m = k[a]
        OBVIOUS
      <4>2. CASE a = r
        BY <1>10, <4>1, <4>2
      <4>3. CASE a # r
        <5>1. f.parent[a] \in T /\ f.parent[a] \in Node
          BY <1>3, <1>5, <4>3
        <5>2. f.parent[a] \in A
          BY <3>2, <5>1, AncestorsClosed
        <5>3. QED
          BY <1>10, <4>1, <4>3, <5>2
      <4>4. QED
        BY <4>2, <4>3
    <3>5. h \in Surjection(A, B)
      BY DEF Surjection
    <3>6. /\ Cardinality(Ancestors(f, t)) <= MaxDepth + 1
          /\ IsFiniteSet(Ancestors(f, t)) /\ Cardinality(Ancestors(f, t)) \in Nat
      BY <1>1, <3>2, DepthType, MaxDepthAssumption DEF Shallow
    <3> HIDE DEF A, B, h
    <3>7. IsFiniteSet(A) /\ Cardinality(A) <= Cardinality(Ancestors(f, t))
      BY <3>2, <3>6, FS_Subset
    <3>8. IsFiniteSet(B) /\ Cardinality(B) <= Cardinality(A)
      BY <3>5, <3>7, FS_Surjection
    <3>9. Ancestors(g, n) \subseteq B
      BY <3>3, <3>4, AncestorsMinimal
    <3>10. Cardinality(Ancestors(g, n)) <= Cardinality(B)
      BY <3>8, <3>9, FS_Subset
    <3>11. Cardinality(A) \in Nat /\ Cardinality(B) \in Nat
      BY <3>7, <3>8, FS_CardinalityType
    <3>12. QED
      BY <3>6, <3>7, <3>8, <3>10, <3>11, DepthType, MaxDepthAssumption
  <2>3. QED
    BY <2>1, <2>2
<1>21. QED
  BY <1>3, <1>9, <1>11, <1>18, <1>19, <1>20 DEF ForestInv, Shallow, g, T, C
-----------------------------------------------------------------------------
(***************************************************************************)
(* The calls                                                               *)
(***************************************************************************)

\* The empty forest is a forest: the state before the first call.
LEMMA EmptyIsForest == ForestInv(EmptyForest)
<1> DEFINE f == EmptyForest
<1>1. /\ f.kids = [n \in Node |-> <<>>]
      /\ f.parent = [n \in Node |-> NULL]
      /\ f = [kids |-> f.kids, parent |-> f.parent]
  BY DEF EmptyForest
<1> HIDE DEF f
<1>2. <<>> \in Seq(Node)
  OBVIOUS
<1>3. f \in Forest
  BY <1>1, <1>2 DEF Forest
<1>4. Linked(f)
  BY <1>1, NodeAssumption DEF Linked, Children
<1>5. Acyclic(f)
  BY <1>1, NodeAssumption DEF Acyclic
<1>6. ASSUME NEW n \in Node PROVE Depth(f, n) <= MaxDepth
  <2>1. Ancestors(f, n) = {n}
    BY <1>1, <1>3, AncestorsOfChild
  <2>2. Cardinality(Ancestors(f, n)) = 1
    BY <2>1, FS_Singleton
  <2>3. QED
    BY <2>2, DepthType, MaxDepthAssumption
<1>7. QED
  BY <1>3, <1>4, <1>5, <1>6 DEF ForestInv, Shallow, f

\* A child that passes the shared guard of node_attach and node_insert can be
\* linked at any position of the parent's list.
LEMMA GuardedLink ==
    ASSUME NEW f, ForestInv(f), NEW p, NEW c, attach_guard(f, p, c) = NODE_ERR_SUCCESS,
           p \in Node \cup {NULL}, c \in Node \cup {NULL},
           NEW i, p \in Node => i \in 1..(Len(f.kids[p]) + 1)
    PROVE  /\ p \in Node /\ c \in Node /\ ForestInv(Link(f, p, i, c))
           /\ \A n \in Node : SameOrder(f.kids[n], Link(f, p, i, c).kids[n])
<1>1. /\ p # NULL /\ c # NULL
      /\ f.parent[c] = NULL
      /\ ~would_create_cycle(f, p, c)
      /\ ~exceeds_max_depth(f, p, c)
  BY DEF attach_guard, NODE_ERR_SUCCESS, NODE_ERR_INVALID_ARG, NODE_ERR_PARENT,
         NODE_ERR_CIRCULAR_REF, NODE_ERR_MAX_DEPTH
<1>2. p \in Node /\ c \in Node /\ i \in 1..(Len(f.kids[p]) + 1)
  BY <1>1
<1>3. ForestInv(Link(f, p, i, c))
  BY <1>1, <1>2, LinkForest
<1>4. ASSUME NEW n \in Node PROVE SameOrder(f.kids[n], Link(f, p, i, c).kids[n])
  <2>1. /\ f.kids \in [Node -> Seq(Node)] /\ \A m \in Node : NoRepeat(f.kids[m])
        /\ Link(f, p, i, c).kids = [f.kids EXCEPT ![p] = InsertAt(@, i, c)]
    BY DEF ForestInv, Forest, Linked, NoRepeat, Link
  <2>2. CASE n # p
    BY <1>2, <2>1, <2>2, SameListSameOrder
  <2>3. CASE n = p
    <3>1. \A k \in DOMAIN f.kids[p] : f.kids[p][k] # c
      BY <1>1, <1>2, NodeAssumption DEF ForestInv, Linked, Children
    <3>2. SameOrder(f.kids[p], InsertAt(f.kids[p], i, c))
      BY <1>2, <2>1, <3>1, InsertSameOrder
    <3>3. QED
      BY <1>2, <2>1, <2>3, <3>2
  <2>4. QED
    BY <2>2, <2>3
<1>5. QED
  BY <1>2, <1>3, <1>4

\* node_attach and node_insert return a forest, the old one when they fail.
\* Neither touches a node other than the two it is given.
LEMMA AttachForest ==
    ASSUME NEW f, ForestInv(f), NEW p \in Node \cup {NULL}, NEW c \in Node \cup {NULL}
    PROVE  LET r == node_attach(f, p, c) IN
           /\ ForestInv(r.f)
           /\ r.ret \in Int
           /\ r.ret # NODE_ERR_SUCCESS => r.f = f
           /\ \A n \in Node : SameOrder(f.kids[n], r.f.kids[n])
           /\ r.ret = NODE_ERR_SUCCESS =>
                 \A n \in Node \ {p, c} : r.f.kids[n] = f.kids[n] /\ r.f.parent[n] = f.parent[n]
<1> DEFINE err == attach_guard(f, p, c)
           l == Len(f.kids[p]) + 1
           r == node_attach(f, p, c)
<1>1. f.kids \in [Node -> Seq(Node)] /\ f.parent \in [Node -> Node \cup {NULL}]
  BY DEF ForestInv, Forest
<1>same. \A n \in Node : SameOrder(f.kids[n], f.kids[n])
  BY <1>1, SameListSameOrder DEF ForestInv, Linked, NoRepeat
<1>2. err \in Int
  BY DEF attach_guard, NODE_ERR_SUCCESS, NODE_ERR_INVALID_ARG, NODE_ERR_PARENT,
         NODE_ERR_CIRCULAR_REF, NODE_ERR_MAX_DEPTH
<1>3. CASE err # NODE_ERR_SUCCESS
  BY <1>2, <1>3, <1>same DEF node_attach, outcome
<1>4. CASE err = NODE_ERR_SUCCESS
  <2>1. p \in Node => l \in 1..l
    <3>1. ASSUME p \in Node PROVE Len(f.kids[p]) \in Nat
      BY <1>1, <3>1, LenProperties
    <3>2. QED
      BY <3>1
  <2>2. /\ p \in Node /\ c \in Node /\ ForestInv(Link(f, p, l, c))
        /\ \A n \in Node : SameOrder(f.kids[n], Link(f, p, l, c).kids[n])
    BY <1>4, <2>1, GuardedLink
  <2>3. r = [f |-> Link(f, p, l, c), ret |-> NODE_ERR_SUCCESS]
    BY <1>4 DEF node_attach, outcome
  <2>4. \A n \in Node \ {p, c} : /\ Link(f, p, l, c).kids[n] = f.kids[n]
                                 /\ Link(f, p, l, c).parent[n] = f.parent[n]
    BY <1>1 DEF Link
  <2>5. QED
    BY <2>2, <2>3, <2>4 DEF NODE_ERR_SUCCESS
<1>5. QED
  BY <1>3, <1>4

LEMMA InsertForest ==
    ASSUME NEW f, ForestInv(f), NEW p \in Node \cup {NULL}, NEW c \in Node \cup {NULL},
           NEW k \in Nat
    PROVE  LET r == node_insert(f, p, k, c) IN
           /\ ForestInv(r.f)
           /\ r.ret \in Int
           /\ r.ret # NODE_ERR_SUCCESS => r.f = f
           /\ \A n \in Node : SameOrder(f.kids[n], r.f.kids[n])
           /\ r.ret = NODE_ERR_SUCCESS =>
                 \A n \in Node \ {p, c} : r.f.kids[n] = f.kids[n] /\ r.f.parent[n] = f.parent[n]
<1> DEFINE err == attach_guard(f, p, c)
           r == node_insert(f, p, k, c)
<1>1. f.kids \in [Node -> Seq(Node)] /\ f.parent \in [Node -> Node \cup {NULL}]
  BY DEF ForestInv, Forest
<1>same. \A n \in Node : SameOrder(f.kids[n], f.kids[n])
  BY <1>1, SameListSameOrder DEF ForestInv, Linked, NoRepeat
<1>2. err \in Int
  BY DEF attach_guard, NODE_ERR_SUCCESS, NODE_ERR_INVALID_ARG, NODE_ERR_PARENT,
         NODE_ERR_CIRCULAR_REF, NODE_ERR_MAX_DEPTH
<1>3. CASE err # NODE_ERR_SUCCESS
  BY <1>2, <1>3, <1>same DEF node_insert, outcome, checked_index
<1>4. CASE err = NODE_ERR_SUCCESS /\ k > Len(f.kids[p])
  BY <1>4, <1>same DEF node_insert, outcome, checked_index, NODE_ERR_INVALID_ARG, NODE_ERR_SUCCESS
<1>5. CASE err = NODE_ERR_SUCCESS /\ ~(k > Len(f.kids[p]))
  <2>1. p \in Node => k + 1 \in 1..(Len(f.kids[p]) + 1)
    <3>1. ASSUME p \in Node PROVE Len(f.kids[p]) \in Nat
      BY <1>1, <3>1, LenProperties
    <3>2. QED
      BY <1>5, <3>1
  <2>2. /\ p \in Node /\ c \in Node /\ ForestInv(Link(f, p, k + 1, c))
        /\ \A n \in Node : SameOrder(f.kids[n], Link(f, p, k + 1, c).kids[n])
    BY <1>5, <2>1, GuardedLink
  <2>3. r = [f |-> Link(f, p, k + 1, c), ret |-> NODE_ERR_SUCCESS]
    BY <1>5 DEF node_insert, outcome, checked_index
  <2>4. \A n \in Node \ {p, c} : /\ Link(f, p, k + 1, c).kids[n] = f.kids[n]
                                 /\ Link(f, p, k + 1, c).parent[n] = f.parent[n]
    BY <1>1 DEF Link
  <2>5. QED
    BY <2>2, <2>3, <2>4 DEF NODE_ERR_SUCCESS
<1>6. QED
  BY <1>3, <1>4, <1>5

\* A child whose depth check gets no memory is refused, and nothing changes.
LEMMA RefusedForest ==
    ASSUME NEW f, NEW p, NEW c
    PROVE  refused(f, p, c).f = f /\ refused(f, p, c).ret # NODE_ERR_SUCCESS
  BY DEF refused, NODE_ERR_SUCCESS, NODE_ERR_MAX_DEPTH

LEMMA TryAttach ==
    ASSUME NEW short, NEW f, NEW p, NEW c, NEW r, r = try_attach(short, f, p, c)
    PROVE  \/ r = node_attach(f, p, c)
           \/ c \in short /\ r.f = f /\ r.ret # NODE_ERR_SUCCESS
  BY RefusedForest DEF try_attach

LEMMA TryInsert ==
    ASSUME NEW short, NEW f, NEW p, NEW k, NEW c, NEW r, r = try_insert(short, f, p, k, c)
    PROVE  \/ r = node_insert(f, p, k, c)
           \/ c \in short /\ r.f = f /\ r.ret # NODE_ERR_SUCCESS
  BY RefusedForest DEF try_insert

\* node_detach of a child of p returns a forest in which the child is a root.
LEMMA DetachForest ==
    ASSUME NEW f, ForestInv(f), NEW p \in Node, NEW c \in Node, f.parent[c] = p
    PROVE  LET r == node_detach(f, p, c) IN
           /\ ForestInv(r.f)
           /\ r.ret \in Int
           /\ r.f.parent[c] = NULL
           /\ r.ret + 1 \in DOMAIN f.kids[p] /\ f.kids[p][r.ret + 1] = c
           /\ r.f = Unlink(f, p, r.ret + 1)
           /\ \A n \in Node : SameOrder(f.kids[n], r.f.kids[n])
<1> DEFINE i == node_child_position(f, p, c) + 1
<1>1. f \in Forest /\ f.kids[p] \in Seq(Node)
  BY DEF ForestInv, Forest
<1>2. c \in Children(f, p)
  BY DEF ForestInv, Linked
<1>3. DOMAIN f.kids[p] = 1..Len(f.kids[p]) /\ Len(f.kids[p]) \in Nat
  BY <1>1, LenProperties
<1> DEFINE j == CHOOSE x \in DOMAIN f.kids[p] : f.kids[p][x] = c
<1>4. j \in DOMAIN f.kids[p] /\ f.kids[p][j] = c
  BY <1>2 DEF Children
<1>5. node_child_position(f, p, c) = j - 1
  BY DEF node_child_position
<1> HIDE DEF j
<1>6. node_child_position(f, p, c) \in Int /\ i = j
  BY <1>3, <1>4, <1>5
<1>7. node_detach(f, p, c) = [f |-> Unlink(f, p, j), ret |-> j - 1]
  BY <1>5, <1>6 DEF node_detach
<1>8. ForestInv(Unlink(f, p, j)) /\ Unlink(f, p, j).parent[c] = NULL
  BY <1>3, <1>4, UnlinkForest
<1>9. ASSUME NEW n \in Node PROVE SameOrder(f.kids[n], Unlink(f, p, j).kids[n])
  <2>1. /\ f.kids \in [Node -> Seq(Node)] /\ \A m \in Node : NoRepeat(f.kids[m])
        /\ Unlink(f, p, j).kids = [f.kids EXCEPT ![p] = RemoveAt(@, j)]
    BY DEF ForestInv, Forest, Linked, NoRepeat, Unlink
  <2>2. CASE n # p
    BY <2>1, <2>2, SameListSameOrder
  <2>3. CASE n = p
    BY <1>3, <1>4, <2>1, <2>3, RemoveSameOrder
  <2>4. QED
    BY <2>2, <2>3
<1>10. QED
  BY <1>3, <1>4, <1>7, <1>8, <1>9

-----------------------------------------------------------------------------
(***************************************************************************)
(* Freeing and putting back                                                *)
(***************************************************************************)

\* A node is not above its own parent: the walks up from the parent never meet it.
LEMMA ChildNotAbove ==
    ASSUME NEW f, ForestInv(f), NEW c \in Node, f.parent[c] # NULL
    PROVE  f.parent[c] \in Node /\ c \notin Ancestors(f, f.parent[c])
<1> DEFINE p == f.parent[c]
           S == {m \in Ancestors(f, p) : c \in Ancestors(f, m)}
<1>1. f \in Forest /\ Acyclic(f) /\ p \in Node
  BY DEF ForestInv, Forest
<1>2. Ancestors(f, p) \subseteq Node /\ p \in Ancestors(f, p)
  BY <1>1, AncestorsClosed
<1>3. SUFFICES ASSUME c \in Ancestors(f, p) PROVE FALSE
  BY <1>1
<1>4. p \in S
  BY <1>2, <1>3
<1>5. ASSUME NEW m \in S PROVE f.parent[m] \in S
  <2>1. CASE m = c
    BY <1>4, <2>1
  <2>2. CASE m # c
    <3>1. m \in Node /\ c \in Ancestors(f, m) /\ m \in Ancestors(f, p)
      BY <1>2
    <3>2. f.parent[m] # NULL /\ Ancestors(f, m) = {m} \cup Ancestors(f, f.parent[m])
      BY <1>1, <2>2, <3>1, AncestorsOfChild
    <3>3. f.parent[m] \in Node
      BY <1>1, <3>1, <3>2 DEF Forest
    <3>4. f.parent[m] \in Ancestors(f, p)
      BY <1>1, <3>1, <3>3, AncestorsClosed
    <3>5. QED
      BY <2>2, <3>1, <3>2, <3>4
  <2>3. QED
    BY <2>1, <2>2
<1>6. S \in SUBSET Node /\ S # {}
  BY <1>2, <1>4
<1>7. QED
  BY <1>1, <1>5, <1>6 DEF Acyclic

\* Below the root of a subtree, the subtree is cut off from the rest.
LEMMA SubtreeCut ==
    ASSUME NEW f, ForestInv(f), NEW r \in Node
    PROVE  /\ r \in Subtree(f, r)
           /\ Subtree(f, r) \subseteq Node
           /\ f.parent[r] \notin Subtree(f, r)
           /\ \A n \in Node : n # r =>
                 (n \in Subtree(f, r) <=> f.parent[n] \in Subtree(f, r))
<1>1. f \in Forest
  BY DEF ForestInv
<1>2. r \in Subtree(f, r) /\ Subtree(f, r) \subseteq Node
  BY AncestorsClosed DEF Subtree
<1>3. f.parent[r] \notin Subtree(f, r)
  BY ChildNotAbove, NodeAssumption DEF Subtree
<1>4. ASSUME NEW n \in Node, n # r
      PROVE  n \in Subtree(f, r) <=> f.parent[n] \in Subtree(f, r)
  <2>1. CASE f.parent[n] = NULL
    BY <1>1, <1>4, <2>1, AncestorsOfChild, NodeAssumption DEF Subtree
  <2>2. CASE f.parent[n] # NULL
    <3>1. Ancestors(f, n) = {n} \cup Ancestors(f, f.parent[n]) /\ f.parent[n] \in Node
      BY <1>1, <2>2, AncestorsOfChild DEF Forest
    <3>2. QED
      BY <1>4, <3>1 DEF Subtree
  <2>3. QED
    BY <2>1, <2>2
<1>5. QED
  BY <1>2, <1>3, <1>4

\* A forest in which everything below r is freed and r has lost its list.
Emptied(f, r) ==
    [kids   |-> [n \in Node |-> IF n \in Subtree(f, r) THEN <<>> ELSE f.kids[n]],
     parent |-> [n \in Node |-> IF n \in Subtree(f, r) \ {r} THEN NULL ELSE f.parent[n]]]

\* It is a forest too: what a setter does to a node that has items.
LEMMA EmptiedForest ==
    ASSUME NEW f, ForestInv(f), NEW r \in Node
    PROVE  /\ [Release(f, Subtree(f, r) \ {r}) EXCEPT !.kids[r] = <<>>] = Emptied(f, r)
           /\ ForestInv(Emptied(f, r))
<1> DEFINE T == Subtree(f, r)
           S == T \ {r}
           g == Emptied(f, r)
<1>1. f \in Forest /\ Linked(f) /\ Acyclic(f) /\ Shallow(f)
  BY DEF ForestInv
<1>2. /\ f.kids \in [Node -> Seq(Node)]
      /\ f.parent \in [Node -> Node \cup {NULL}]
      /\ <<>> \in Seq(Node)
  BY <1>1 DEF Forest
<1>3. /\ r \in T /\ T \subseteq Node /\ f.parent[r] \notin T
      /\ \A n \in Node : n # r => (n \in T <=> f.parent[n] \in T)
  BY SubtreeCut
<1>4. /\ g.kids = [n \in Node |-> IF n \in T THEN <<>> ELSE f.kids[n]]
      /\ g.parent = [n \in Node |-> IF n \in T \ {r} THEN NULL ELSE f.parent[n]]
      /\ g = [kids |-> g.kids, parent |-> g.parent]
  BY DEF Emptied
<1> HIDE DEF T, g
<1>same. [Release(f, S) EXCEPT !.kids[r] = <<>>] = g
  <2> DEFINE R == Release(f, S)
             h == [R EXCEPT !.kids[r] = <<>>]
  <2>1. /\ R = [kids |-> R.kids, parent |-> R.parent]
        /\ R.kids = [n \in Node |-> IF n \in S THEN <<>> ELSE f.kids[n]]
        /\ R.parent = [n \in Node |-> IF n \in S THEN NULL ELSE f.parent[n]]
    BY DEF Release
  <2> HIDE DEF R
  <2>2. h = [R EXCEPT !.kids = [R.kids EXCEPT ![r] = <<>>]]
    OBVIOUS
  <2>3. h = [kids |-> [R.kids EXCEPT ![r] = <<>>], parent |-> R.parent]
    BY <2>1, <2>2
  <2> HIDE DEF h
  <2>4. [R.kids EXCEPT ![r] = <<>>] = g.kids
    BY <1>3, <1>4, <2>1
  <2>5. R.parent = g.parent
    BY <1>4, <2>1
  <2>6. h = g
    BY <1>4, <2>3, <2>4, <2>5
  <2>7. QED
    BY <2>6 DEF h, R
<1>5. g \in Forest
  <2>1. g.kids \in [Node -> Seq(Node)]
    BY <1>2, <1>4
  <2>2. g.parent \in [Node -> Node \cup {NULL}]
    BY <1>2, <1>4
  <2>3. QED
    BY <1>4, <2>1, <2>2 DEF Forest
<1>6. Acyclic(g) /\ Shallow(g)
  BY <1>1, <1>4, <1>5, FewerLinks
<1>7. \A n \in Node : Children(g, n) = IF n \in T THEN {} ELSE Children(f, n)
  BY <1>4 DEF Children
<1>8. Linked(g)
  <2>1. ASSUME NEW n \in Node, NEW m \in Node
        PROVE  g.parent[m] = n <=> m \in Children(g, n)
    <3>1. f.parent[m] = n <=> m \in Children(f, n)
      BY <1>1 DEF Linked
    <3>2. CASE m = r
      BY <1>3, <1>4, <1>7, <3>1, <3>2
    <3>3. CASE m # r
      BY <1>3, <1>4, <1>7, <3>1, <3>3, NodeAssumption
    <3>4. QED
      BY <3>2, <3>3
  <2>2. ASSUME NEW n \in Node PROVE NoRepeat(g.kids[n])
    BY <1>1, <1>4 DEF Linked, NoRepeat
  <2>3. QED
    BY <2>1, <2>2 DEF Linked, NoRepeat
<1>9. ForestInv(g)
  BY <1>5, <1>6, <1>8 DEF ForestInv
<1>10. QED
  BY <1>9, <1>same DEF g, T

\* plist_free_node: r is detached when it has a parent, then its tree is freed.
LEMMA FreeForest ==
    ASSUME NEW f, ForestInv(f), NEW r \in Node,
           NEW d, d = IF f.parent[r] = NULL THEN f ELSE node_detach(f, f.parent[r], r).f
    PROVE  LET g == Release(d, Subtree(f, r)) IN
           /\ ForestInv(g)
           /\ f.parent[r] \notin Subtree(f, r)
           /\ \A n \in Subtree(f, r) : g.kids[n] = <<>> /\ g.parent[n] = NULL
           /\ \A n \in Node \ Subtree(f, r) :
                 /\ g.parent[n] = f.parent[n]
                 /\ n # f.parent[r] => g.kids[n] = f.kids[n]
           /\ f.parent[r] # NULL =>
                 g.kids[f.parent[r]] =
                    RemoveAt(f.kids[f.parent[r]], node_child_position(f, f.parent[r], r) + 1)
<1> DEFINE T == Subtree(f, r)
           p == f.parent[r]
           g == Release(d, T)
<1>1. /\ r \in T /\ T \subseteq Node /\ p \notin T
      /\ \A n \in Node : n # r => (n \in T <=> f.parent[n] \in T)
  BY SubtreeCut
<1>2. f.kids \in [Node -> Seq(Node)] /\ f.parent \in [Node -> Node \cup {NULL}]
  BY DEF ForestInv, Forest
<1> HIDE DEF T
<1>3. CASE p = NULL
  <2>1. ForestInv(g)
    BY <1>1, <1>3, NodeAssumption, ReleaseForest
  <2>2. QED
    BY <1>1, <1>3, <2>1 DEF Release, T
<1>4. CASE p # NULL
  <2> DEFINE r0 == node_detach(f, p, r)
             i == r0.ret + 1
  <2>1. p \in Node
    BY <1>2, <1>4
  <2>2. /\ ForestInv(r0.f) /\ r0.f.parent[r] = NULL /\ r0.f = Unlink(f, p, i)
        /\ f.kids[p][i] = r
    BY <2>1, DetachForest
  <2>3. r0.ret = node_child_position(f, p, r)
    BY DEF node_detach
  <2>4. d = r0.f
    BY <1>4
  <2> HIDE DEF r0
  <2>5. /\ d.kids = [f.kids EXCEPT ![p] = RemoveAt(@, i)]
        /\ d.parent = [f.parent EXCEPT ![r] = NULL]
    BY <2>2, <2>4 DEF Unlink
  <2>6. /\ d.kids[p] = RemoveAt(f.kids[p], i)
        /\ \A n \in Node : n # p => d.kids[n] = f.kids[n]
        /\ \A n \in Node : n # r => d.parent[n] = f.parent[n]
        /\ d.parent[r] = NULL
    BY <1>2, <2>1, <2>5
  <2>7. \A n \in Node : d.parent[n] # NULL => (n \in T <=> d.parent[n] \in T)
    BY <1>1, <2>6
  <2>8. ForestInv(g)
    BY <1>1, <2>2, <2>4, <2>7, ReleaseForest
  <2>9. /\ \A n \in T : g.kids[n] = <<>> /\ g.parent[n] = NULL
        /\ \A n \in Node \ T : g.kids[n] = d.kids[n] /\ g.parent[n] = d.parent[n]
    BY <1>1 DEF Release
  <2> HIDE DEF g
  <2>10. g.kids[p] = RemoveAt(f.kids[p], node_child_position(f, p, r) + 1)
    BY <1>1, <2>1, <2>3, <2>6, <2>9
  <2>11. \A n \in Node \ T : g.parent[n] = f.parent[n] /\ (n # p => g.kids[n] = f.kids[n])
    BY <1>1, <2>6, <2>9
  <2>12. QED
    BY <1>1, <2>8, <2>9, <2>10, <2>11 DEF g, T
<1>5. QED
  BY <1>3, <1>4

\* A list that loses its i-th element and gets another one there has had its i-th
\* element replaced.
LEMMA ReplaceProperties ==
    ASSUME NEW q \in Seq(Node), NEW i \in 1..Len(q), NEW e \in Node
    PROVE  /\ InsertAt(RemoveAt(q, i), i, e) = ReplaceAt(q, i, e)
           /\ i \in 1..(Len(RemoveAt(q, i)) + 1)
           /\ ReplaceAt(q, i, q[i]) = q
           /\ ReplaceAt(q, i, e) \in Seq(Node)
           /\ ReplaceAt(ReplaceAt(q, i, e), i, e) = ReplaceAt(q, i, e)
<1> DEFINE r == RemoveAt(q, i)
           s == InsertAt(r, i, e)
           t == ReplaceAt(q, i, e)
<1>1. Len(q) \in Nat /\ q \in [1..Len(q) -> Node] /\ DOMAIN q = 1..Len(q)
  BY LenProperties
<1>2. /\ r \in Seq(Node) /\ Len(r) = Len(q) - 1
      /\ \A j \in 1..(Len(q) - 1) : r[j] = IF j < i THEN q[j] ELSE q[j + 1]
  BY RemoveAtProperties
<1> HIDE DEF r
<1>3. i \in 1..(Len(r) + 1)
  BY <1>1, <1>2
<1>4. /\ s \in Seq(Node) /\ Len(s) = Len(q)
      /\ \A j \in 1..Len(q) : s[j] = IF j < i THEN r[j] ELSE IF j = i THEN e ELSE r[j - 1]
  <2>1. \A a \in Seq(Node) : \A k \in 1..(Len(a) + 1) :
           /\ InsertAt(a, k, e) \in Seq(Node)
           /\ Len(InsertAt(a, k, e)) = Len(a) + 1
           /\ \A j \in 1..(Len(a) + 1) : InsertAt(a, k, e)[j] =
                 IF j < k THEN a[j] ELSE IF j = k THEN e ELSE a[j - 1]
    BY InsertAtProperties
  <2>2. /\ s \in Seq(Node) /\ Len(s) = Len(r) + 1
        /\ \A j \in 1..(Len(r) + 1) : s[j] = IF j < i THEN r[j] ELSE IF j = i THEN e ELSE r[j - 1]
    BY <1>2, <1>3, <2>1
  <2>3. Len(r) + 1 = Len(q)
    BY <1>1, <1>2
  <2>4. QED
    BY <2>2, <2>3
<1>5. /\ t \in Seq(Node) /\ Len(t) = Len(q)
      /\ \A j \in 1..Len(q) : t[j] = IF j = i THEN e ELSE q[j]
  BY ExceptSeq DEF ReplaceAt
<1> HIDE DEF s, t
<1>6. ASSUME NEW j \in 1..Len(q) PROVE s[j] = t[j]
  <2>1. CASE j < i
    BY <1>1, <1>2, <1>4, <1>5, <2>1
  <2>2. CASE j = i
    BY <1>4, <1>5, <2>2
  <2>3. CASE j > i
    <3>1. j - 1 \in 1..(Len(q) - 1) /\ ~(j - 1 < i) /\ (j - 1) + 1 = j /\ ~(j < i) /\ j # i
      BY <1>1, <2>3
    <3>2. s[j] = r[j - 1] /\ r[j - 1] = q[j]
      BY <1>2, <1>4, <3>1
    <3>3. QED
      BY <1>5, <3>1, <3>2
  <2>4. QED
    BY <1>1, <2>1, <2>2, <2>3
<1>7. s = t
  BY <1>4, <1>5, <1>6, SeqEqual
<1>8. ReplaceAt(q, i, q[i]) = q
  BY <1>1 DEF ReplaceAt
<1>9. ReplaceAt(t, i, e) = t
  <2>1. t \in [1..Len(q) -> Node] /\ t[i] = e
    BY <1>5, LenProperties
  <2>2. QED
    BY <2>1 DEF ReplaceAt
<1>10. QED
  BY <1>3, <1>5, <1>7, <1>8, <1>9 DEF r, s, t

\* With memory for the check of depth, a child that was detached can be put back
\* where it was: the roll-back of a replacement then restores the forest.
LEMMA UndoDetach ==
    ASSUME NEW f, ForestInv(f), NEW p \in Node, NEW i \in 1..Len(f.kids[p])
    PROVE  node_insert(Unlink(f, p, i), p, i - 1, f.kids[p][i])
             = [f |-> f, ret |-> NODE_ERR_SUCCESS]
<1> DEFINE q == f.kids[p]
           c == q[i]
           d == Unlink(f, p, i)
<1>1. /\ f.kids \in [Node -> Seq(Node)] /\ f.parent \in [Node -> Node \cup {NULL}]
      /\ f = [kids |-> f.kids, parent |-> f.parent] /\ f \in Forest
  BY DEF ForestInv, Forest
<1>2. q \in Seq(Node) /\ Len(q) \in Nat /\ DOMAIN q = 1..Len(q)
  BY <1>1, LenProperties
<1>3. c \in Node /\ f.parent[c] = p
  BY <1>2, Position
<1>4. ForestInv(d) /\ d.parent[c] = NULL
  BY UnlinkForest
<1>5. /\ d.kids = [f.kids EXCEPT ![p] = RemoveAt(q, i)]
      /\ d.parent = [f.parent EXCEPT ![c] = NULL]
  BY DEF Unlink
<1> HIDE DEF d
<1>6. \A n \in Node : Ancestors(d, n) \subseteq Ancestors(f, n)
  <2>1. d \in Forest /\ \A n \in Node : d.parent[n] \in {f.parent[n], NULL}
    BY <1>1, <1>4, <1>5 DEF ForestInv
  <2>2. QED
    BY <1>1, <2>1, FewerLinks
<1>7. c \notin Ancestors(f, p)
  BY <1>3, ChildNotAbove, NodeAssumption
<1>8. ~would_create_cycle(d, p, c)
  BY <1>6, <1>7 DEF would_create_cycle
<1>9. ASSUME NEW m \in Subtree(d, c) PROVE ~(Depth(d, p) + 1 + Depth(d, m) > MaxDepth)
  <2> DEFINE A == Ancestors(f, p)
             B == Ancestors(d, m)
             C == Ancestors(f, m)
             T == Subtree(d, c)
  <2>1. m \in Node /\ c \in B /\ c \in C
    BY <1>6, <1>9 DEF Subtree
  <2>2. A \subseteq C
    <3>1. p \in C
      BY <1>3, <2>1, AncestorsClosed
    <3>2. QED
      BY <1>1, <2>1, <3>1, AncestorsTransitive
  <2>3. B \subseteq T
    <3>1. /\ T \in SUBSET Node
          /\ \A x \in T : d.parent[x] \in T \cup {NULL}
      <4>1. /\ T \subseteq Node
            /\ \A n \in Node : d.parent[n] # NULL => (n \in T <=> d.parent[n] \in T)
        BY <1>3, <1>4, RootSubtree DEF ForestInv
      <4> HIDE DEF T
      <4>2. QED
        BY <4>1
    <3>2. m \in T
      BY <1>9
    <3> HIDE DEF T
    <3>3. QED
      BY <2>1, <3>1, <3>2, AncestorsMinimal
  <2>4. A \cap B = {}
    <3>1. SUFFICES ASSUME NEW x \in A, x \in B PROVE FALSE
      OBVIOUS
    <3>2. x \in Node /\ c \in Ancestors(d, x)
      BY <2>3, <3>1 DEF Subtree
    <3>3. c \in Ancestors(f, x)
      BY <1>6, <3>2
    <3>4. Ancestors(f, x) \subseteq A
      BY <1>1, AncestorsTransitive
    <3>5. QED
      BY <1>7, <3>3, <3>4
  <2>5. /\ IsFiniteSet(A) /\ Cardinality(A) \in Nat
        /\ IsFiniteSet(B) /\ Cardinality(B) \in Nat /\ Depth(d, m) = Cardinality(B) - 1
        /\ IsFiniteSet(C) /\ Cardinality(C) \in Nat /\ Depth(f, m) = Cardinality(C) - 1
    BY <2>1, DepthType
  <2>6. /\ IsFiniteSet(Ancestors(d, p)) /\ Depth(d, p) = Cardinality(Ancestors(d, p)) - 1
        /\ Cardinality(Ancestors(d, p)) \in Nat /\ Ancestors(d, p) \subseteq A
    BY <1>6, DepthType
  <2>7. B \subseteq C
    BY <1>6, <2>1
  <2>8. Depth(f, m) <= MaxDepth
    BY <2>1 DEF ForestInv, Shallow
  <2> HIDE DEF A, B, C
  <2>9. Cardinality(A) + Cardinality(B) <= Cardinality(C)
    <3>1. IsFiniteSet(A \cup B)
          /\ Cardinality(A \cup B) = Cardinality(A) + Cardinality(B) - Cardinality(A \cap B)
      BY <2>5, FS_Union
    <3>2. Cardinality(A \cap B) = 0
      BY <2>4, FS_EmptySet
    <3>3. Cardinality(A \cup B) <= Cardinality(C)
      BY <2>2, <2>5, <2>7, FS_Subset
    <3>4. QED
      BY <2>5, <3>1, <3>2, <3>3
  <2>10. Cardinality(Ancestors(d, p)) <= Cardinality(A)
    BY <2>5, <2>6, FS_Subset
  <2>11. QED
    BY <2>5, <2>6, <2>8, <2>9, <2>10, MaxDepthAssumption
<1>10. attach_guard(d, p, c) = NODE_ERR_SUCCESS
  BY <1>3, <1>4, <1>8, <1>9, NodeAssumption DEF attach_guard, exceeds_max_depth
<1>11. ~(i - 1 > Len(d.kids[p])) /\ i - 1 + 1 = i
  <2>1. d.kids[p] = RemoveAt(q, i)
    BY <1>1, <1>5
  <2>2. Len(RemoveAt(q, i)) = Len(q) - 1
    BY <1>2, RemoveAtProperties
  <2>3. QED
    BY <1>2, <2>1, <2>2
<1>12. node_insert(d, p, i - 1, c) = [f |-> Link(d, p, i, c), ret |-> NODE_ERR_SUCCESS]
  BY <1>10, <1>11 DEF node_insert, outcome, checked_index
<1>13. Link(d, p, i, c) = f
  <2>1. InsertAt(RemoveAt(q, i), i, c) = q
    BY <1>2, <1>3, ReplaceProperties
  <2>2. [d.kids EXCEPT ![p] = InsertAt(@, i, c)] = f.kids
    BY <1>1, <1>5, <2>1
  <2>3. [d.parent EXCEPT ![c] = p] = f.parent
    BY <1>1, <1>3, <1>5
  <2>4. QED
    BY <1>1, <2>2, <2>3 DEF Link
<1>14. QED
  BY <1>12, <1>13 DEF d

\* After a replacement the list has the new item where the old one was; the old
\* item is a root and the array is not below it.
LEMMA ReplaceForest ==
    ASSUME NEW f, ForestInv(f), NEW p \in Node, NEW i \in 1..Len(f.kids[p]),
           NEW e \in Node, f.parent[e] = NULL,
           NEW r, r = node_insert(Unlink(f, p, i), p, i - 1, e)
    PROVE  /\ r.ret # NODE_ERR_SUCCESS => r.f = Unlink(f, p, i)
           /\ r.ret = NODE_ERR_SUCCESS =>
                 /\ ForestInv(r.f)
                 /\ r.f.kids[p] = ReplaceAt(f.kids[p], i, e)
                 /\ \A n \in Node \ {p} : r.f.kids[n] = f.kids[n]
                 /\ \A n \in Node \ {e, f.kids[p][i]} : r.f.parent[n] = f.parent[n]
                 /\ r.f.parent[e] = p
                 /\ r.f.parent[f.kids[p][i]] = NULL
                 /\ p \notin Subtree(r.f, f.kids[p][i])
<1> DEFINE q == f.kids[p]
           c == q[i]
           d == Unlink(f, p, i)
           err == attach_guard(d, p, e)
<1>1. /\ f.kids \in [Node -> Seq(Node)] /\ f.parent \in [Node -> Node \cup {NULL}]
      /\ f \in Forest
  BY DEF ForestInv, Forest
<1>2. q \in Seq(Node) /\ Len(q) \in Nat /\ DOMAIN q = 1..Len(q)
  BY <1>1, LenProperties
<1>3. c \in Node /\ f.parent[c] = p /\ c # e
  BY <1>2, Position, NodeAssumption
<1>4. ForestInv(d) /\ d.parent[c] = NULL
  BY UnlinkForest
<1>5. /\ d.kids = [f.kids EXCEPT ![p] = RemoveAt(q, i)]
      /\ d.parent = [f.parent EXCEPT ![c] = NULL]
  BY DEF Unlink
<1>6. /\ InsertAt(RemoveAt(q, i), i, e) = ReplaceAt(q, i, e)
      /\ Len(RemoveAt(q, i)) = Len(q) - 1
  BY <1>2, ReplaceProperties, RemoveAtProperties
<1>r. r = node_insert(d, p, i - 1, e)
  OBVIOUS
<1> HIDE DEF d
<1>7. ~(i - 1 > Len(d.kids[p])) /\ i - 1 + 1 = i /\ d.kids[p] = RemoveAt(q, i)
  BY <1>1, <1>2, <1>5, <1>6
<1>8. CASE err # NODE_ERR_SUCCESS
  BY <1>8, <1>r DEF node_insert, outcome, checked_index, d
<1>9. CASE err = NODE_ERR_SUCCESS
  <2> DEFINE g == Link(d, p, i, e)
  <2>1. r = [f |-> g, ret |-> NODE_ERR_SUCCESS]
    BY <1>7, <1>9, <1>r DEF node_insert, outcome, checked_index
  <2>2. i \in 1..(Len(d.kids[p]) + 1)
    BY <1>2, <1>6, <1>7
  <2>3. ForestInv(g)
    BY <1>4, <1>9, <2>2, GuardedLink
  <2>4. ~would_create_cycle(d, p, e)
    BY <1>9 DEF attach_guard, NODE_ERR_SUCCESS, NODE_ERR_INVALID_ARG, NODE_ERR_PARENT,
       NODE_ERR_CIRCULAR_REF, NODE_ERR_MAX_DEPTH
  <2>5. /\ g.kids = [d.kids EXCEPT ![p] = InsertAt(@, i, e)]
        /\ g.parent = [d.parent EXCEPT ![e] = p]
    BY DEF Link
  <2> HIDE DEF g
  <2>6. /\ g.kids[p] = ReplaceAt(q, i, e)
        /\ \A n \in Node \ {p} : g.kids[n] = f.kids[n]
        /\ \A n \in Node \ {e, c} : g.parent[n] = f.parent[n]
        /\ g.parent[e] = p
        /\ g.parent[c] = NULL
    BY <1>1, <1>3, <1>5, <1>6, <2>5
  <2>7. p \notin Subtree(g, c)
    <3> DEFINE A == Ancestors(f, p)
               D == Ancestors(d, p)
    <3>1. c \notin A
      BY <1>3, ChildNotAbove, NodeAssumption
    <3>2. D \subseteq A
      <4>1. d \in Forest /\ \A n \in Node : d.parent[n] \in {f.parent[n], NULL}
        BY <1>1, <1>4, <1>5 DEF ForestInv
      <4>2. QED
        BY <1>1, <4>1, FewerLinks
    <3>3. e \notin D
      BY <2>4 DEF would_create_cycle
    <3>4. /\ D \in SUBSET Node /\ p \in D
          /\ \A m \in D : d.parent[m] \in Node => d.parent[m] \in D
      BY AncestorsClosed
    <3>5. d.parent \in [Node -> Node \cup {NULL}]
      BY <1>4 DEF ForestInv, Forest
    <3> HIDE DEF A, D
    <3>6. \A m \in D : g.parent[m] \in D \cup {NULL}
      BY <2>5, <3>3, <3>4, <3>5
    <3>7. Ancestors(g, p) \subseteq D
      BY <3>4, <3>6, AncestorsMinimal
    <3>8. QED
      BY <3>1, <3>2, <3>7 DEF Subtree
  <2>8. QED
    BY <2>1, <2>3, <2>6, <2>7
<1>10. QED
  BY <1>8, <1>9

=============================================================================
