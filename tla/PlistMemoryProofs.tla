--------------------------- MODULE PlistMemoryProofs ---------------------------
(***************************************************************************)
(* The readers of text own what they allocate: whatever the text, however  *)
(* deep inside it a call fails and whichever call it is, nothing is left   *)
(* but the tree that is returned.                                          *)
(*                                                                         *)
(* First come the heaps of PlistTrees. A node is allocated before the      *)
(* items it is given, so that the links to parents go to lower numbers: a  *)
(* heap is a forest, what lives is what is below the roots, and each call  *)
(* does to the roots what its name says. Then each reader has an invariant *)
(* that says who owns each root. The last part is about XML: path, depth   *)
(* and parent, which are kept apart, describe the same nesting.            *)
(***************************************************************************)
EXTENDS PlistMemory, SequenceTheorems, WellFoundedInduction, TLAPS

\* The library's well-founded induction, for the order of the numbers.
LEMMA LeastCounterexample ==
    ASSUME NEW T \in SUBSET Nat, T # {}
    PROVE  \E n \in T : \A m \in T : n <= m
<1>1. \E n \in T : \A m \in T : <<m, n>> \notin OpToRel(<, Nat)
  BY NatLessThanWellFounded, WFMin
<1>2. \A m, n \in Nat : m < n => <<m, n>> \in OpToRel(<, Nat)  BY DEF OpToRel
<1>3. T \subseteq Nat  OBVIOUS
<1>4. \A m, n \in T : ~(m < n) => n <= m  BY <1>3
<1> QED  BY <1>1, <1>2, <1>3, <1>4

-----------------------------------------------------------------------------
(***************************************************************************)
(* Heaps                                                                   *)
(***************************************************************************)
IsNode(r) ==
    r = [type |-> r.type, value |-> r.value, key |-> r.key, up |-> r.up, kids |-> r.kids]

\* The links of node m: its parent was there before it and lives as it does, its
\* items are different nodes and have it for a parent, and it has neither when it
\* was freed.
Links(h, m) ==
    /\ h[m].up = NULL \/ (h[m].up \in 1..(m - 1) /\ h[h[m].up].type # "freed" /\ h[m].type # "freed")
    /\ h[m].kids \in Seq(1..Len(h))
    /\ h[m].type = "freed" => h[m].kids = <<>>
    /\ \A i \in DOMAIN h[m].kids : h[h[m].kids[i]].up = m
    /\ \A i, j \in DOMAIN h[m].kids : h[m].kids[i] = h[m].kids[j] => i = j

IsHeap(h) ==
    /\ \E S : h \in Seq(S)
    /\ \A m \in 1..Len(h) : IsNode(h[m]) /\ Links(h, m)

\* The nodes without a parent.
Roots(h) == {m \in Live(h) : h[m].up = NULL}

LEMMA HeapNumbers ==
    ASSUME NEW h, IsHeap(h)
    PROVE  /\ Len(h) \in Nat /\ DOMAIN h = 1..Len(h)
           /\ h = [m \in 1..Len(h) |-> h[m]]
           /\ NULL \notin 1..Len(h)
           /\ Live(h) \subseteq 1..Len(h)
           /\ \A m \in 1..Len(h) : m \in Nat /\ m # NULL
           /\ \A m \in 1..Len(h) : m \in Live(h) <=> h[m].type # "freed"
<1>1. PICK S : h \in Seq(S)  BY DEF IsHeap
<1>2. Len(h) \in Nat /\ DOMAIN h = 1..Len(h) /\ h \in [1..Len(h) -> S]  BY <1>1, LenProperties
<1>3. 1..Len(h) \subseteq Nat  BY <1>2
<1> QED  BY <1>2, <1>3, MemoryAssumption DEF Live

\* The nodes from m up, for the first n nodes.
Climbs(h, u, n) ==
    u = [m \in 1..n |-> <<m>> \o (IF h[m].up = NULL THEN <<>> ELSE u[h[m].up])]

\* One more node.
LEMMA ClimbFurther ==
    ASSUME NEW h, IsHeap(h), NEW n \in Nat, n + 1 <= Len(h), NEW u, Climbs(h, u, n)
    PROVE  \E v : Climbs(h, v, n + 1)
<1> DEFINE top == <<n + 1>> \o (IF h[n + 1].up = NULL THEN <<>> ELSE u[h[n + 1].up])
           v == [m \in 1..(n + 1) |-> IF m = n + 1 THEN top ELSE u[m]]
<1>1. v = [m \in 1..(n + 1) |-> v[m]]  OBVIOUS
<1>2. v[n + 1] = top
  <2>1. n + 1 \in 1..(n + 1)  OBVIOUS
  <2> HIDE DEF top
  <2> QED  BY ONLY <2>1
<1>3. \A m \in 1..n : v[m] = u[m]  OBVIOUS
<1> HIDE DEF v
<1>4. \A m \in 1..n : u[m] = <<m>> \o (IF h[m].up = NULL THEN <<>> ELSE u[h[m].up])
  BY DEF Climbs
<1>5. \A m \in 1..(n + 1) : h[m].up = NULL \/ h[m].up \in 1..(m - 1)
  <2>1. Len(h) \in Nat /\ 1..(n + 1) \subseteq 1..Len(h)  BY HeapNumbers
  <2> QED  BY <2>1 DEF IsHeap, Links
<1>6. \A m \in 1..(n + 1) : v[m] = <<m>> \o (IF h[m].up = NULL THEN <<>> ELSE v[h[m].up])
  <2> SUFFICES ASSUME NEW m \in 1..(n + 1)
               PROVE  v[m] = <<m>> \o (IF h[m].up = NULL THEN <<>> ELSE v[h[m].up])
    OBVIOUS
  <2>1. h[m].up # NULL => h[m].up \in 1..n  BY <1>5
  <2>2. h[m].up # NULL => v[h[m].up] = u[h[m].up]  BY <2>1, <1>3
  <2>3. CASE m = n + 1  BY <2>2, <2>3, <1>2
  <2>4. CASE m \in 1..n  BY <2>2, <2>4, <1>3, <1>4
  <2> QED  BY <2>3, <2>4
<1>7. v = [m \in 1..(n + 1) |-> <<m>> \o (IF h[m].up = NULL THEN <<>> ELSE v[h[m].up])]
  BY <1>1, <1>6
<1> QED  BY <1>7 DEF Climbs

LEMMA ClimbExists ==
    ASSUME NEW h, IsHeap(h), NEW n \in Nat, n <= Len(h)
    PROVE  \E u : Climbs(h, u, n)
<1> DEFINE T == {k \in Nat : k <= Len(h) /\ ~\E u : Climbs(h, u, k)}
<1> SUFFICES ASSUME T # {} PROVE FALSE  OBVIOUS
<1>0. Len(h) \in Nat  BY HeapNumbers
<1>1. T \in SUBSET Nat  OBVIOUS
<1>2. PICK k \in T : \A m \in T : k <= m  BY <1>1, LeastCounterexample
<1>3. k \in Nat /\ k <= Len(h) /\ ~\E u : Climbs(h, u, k)  BY <1>2
<1>4. CASE k = 0
  <2> DEFINE u == [m \in 1..0 |-> <<>>]
  <2>1. \A f : [m \in 1..0 |-> <<m>> \o (IF h[m].up = NULL THEN <<>> ELSE f[h[m].up])] = u
    OBVIOUS
  <2>2. Climbs(h, u, 0)  BY <2>1 DEF Climbs
  <2> QED  BY <1>3, <1>4, <2>2
<1>5. CASE k # 0
  <2>1. k - 1 \in Nat /\ ~(k <= k - 1) /\ k - 1 + 1 = k /\ k - 1 <= Len(h)  BY <1>0, <1>3, <1>5
  <2>2. PICK u : Climbs(h, u, k - 1)  BY <1>2, <2>1
  <2>3. \E v : Climbs(h, v, k - 1 + 1)  BY <1>3, <2>1, <2>2, ClimbFurther
  <2> QED  BY <1>3, <2>1, <2>3
<1> QED  BY <1>4, <1>5

\* Upward is what its recursive definition says.
LEMMA UpwardIs ==
    ASSUME NEW h, IsHeap(h), NEW m \in 1..Len(h)
    PROVE  Upward(h, m) = <<m>> \o (IF h[m].up = NULL THEN <<>> ELSE Upward(h, h[m].up))
<1> DEFINE u == CHOOSE u : Climbs(h, u, Len(h))
<1>1. Len(h) \in Nat /\ DOMAIN h = 1..Len(h) /\ \A k \in 1..Len(h) : k # NULL  BY HeapNumbers
<1>2. \A k \in 1..Len(h) : Upward(h, k) = u[k]
  BY <1>1 DEF Upward, Climbs
<1>3. \E v : Climbs(h, v, Len(h))  BY <1>1, ClimbExists
<1>4. Climbs(h, u, Len(h))  BY <1>3
<1> HIDE DEF u
<1>5. u[m] = <<m>> \o (IF h[m].up = NULL THEN <<>> ELSE u[h[m].up])  BY <1>4 DEF Climbs
<1>6. h[m].up # NULL => h[m].up \in 1..Len(h)
  <2>1. h[m].up = NULL \/ h[m].up \in 1..(m - 1)  BY DEF IsHeap, Links
  <2> QED  BY <1>1, <2>1
<1> QED  BY <1>2, <1>5, <1>6

LEMMA UpwardSeq ==
    ASSUME NEW h, IsHeap(h), NEW m \in 1..Len(h)
    PROVE  Upward(h, m) \in Seq(1..m)
<1> DEFINE T == {k \in Nat : k \in 1..Len(h) /\ Upward(h, k) \notin Seq(1..k)}
<1>0. Len(h) \in Nat /\ m \in Nat  BY HeapNumbers
<1> SUFFICES ASSUME T # {} PROVE FALSE  BY <1>0
<1>1. T \in SUBSET Nat  OBVIOUS
<1>2. PICK k \in T : \A j \in T : k <= j  BY <1>1, LeastCounterexample
<1>3. k \in Nat /\ k \in 1..Len(h) /\ Upward(h, k) \notin Seq(1..k)  BY <1>2
<1>4. <<k>> \in Seq(1..k) /\ <<>> \in Seq(1..k)  BY <1>3
<1>5. CASE h[k].up = NULL
  <2>1. Upward(h, k) = <<k>> \o <<>>  BY <1>3, <1>5, UpwardIs
  <2> QED  BY <1>3, <1>4, <2>1, ConcatProperties
<1>6. CASE h[k].up # NULL
  <2>1. h[k].up \in 1..(k - 1)  BY <1>3, <1>6 DEF IsHeap, Links
  <2> DEFINE p == h[k].up
  <2>2. Upward(h, k) = <<k>> \o Upward(h, p)  BY <1>3, <1>6, UpwardIs
  <2> HIDE DEF p
  <2>3. p \in Nat /\ p \in 1..Len(h) /\ p < k /\ ~(k <= p)  BY <1>0, <1>3, <2>1 DEF p
  <2>4. Upward(h, p) \in Seq(1..p)  BY <1>2, <2>3
  <2>5. 1..p \subseteq 1..k  BY <2>3, <1>3
  <2>6. Upward(h, p) \in Seq(1..k)  BY <2>4, <2>5, SeqMonotonic
  <2> QED  BY <1>3, <1>4, <2>2, <2>6, ConcatProperties
<1> QED  BY <1>5, <1>6

\* What is below n: n itself, and the items of what is below n.
LEMMA BelowIs ==
    ASSUME NEW h, IsHeap(h), NEW n \in 1..Len(h)
    PROVE  /\ Below(h, n) \subseteq n..Len(h)
           /\ n \in Below(h, n)
           /\ \A m \in 1..Len(h) :
                 m \in Below(h, n) <=> m = n \/ (h[m].up # NULL /\ h[m].up \in Below(h, n))
<1>0. Len(h) \in Nat /\ DOMAIN h = 1..Len(h) /\ n \in Nat  BY HeapNumbers
<1>1. \A m \in 1..Len(h) : m \in Below(h, n) <=> n \in ToSet(Upward(h, m))
  BY <1>0 DEF Below
<1>2. ASSUME NEW m \in 1..Len(h)
      PROVE  ToSet(Upward(h, m)) = {m} \cup (IF h[m].up = NULL THEN {} ELSE ToSet(Upward(h, h[m].up)))
  <2>0. <<m>> \in Seq(1..Len(h)) /\ ToSet(<<m>>) = {m}  BY DEF ToSet
  <2>1. CASE h[m].up = NULL
    <3>1. Upward(h, m) = <<m>> \o <<>>  BY <2>1, UpwardIs
    <3>2. Upward(h, m) = <<m>>  BY <3>1, <2>0, ConcatEmptySeq
    <3> QED  BY <2>0, <2>1, <3>2
  <2>2. CASE h[m].up # NULL
    <3> DEFINE p == h[m].up
    <3>1. p \in 1..Len(h)
      <4>1. h[m].up \in 1..(m - 1)  BY <2>2 DEF IsHeap, Links
      <4> QED  BY <1>0, <4>1
    <3>2. Upward(h, m) = <<m>> \o Upward(h, p)  BY <2>2, UpwardIs
    <3> HIDE DEF p
    <3>3. p \in Nat /\ 1..p \subseteq 1..Len(h)  BY <1>0, <3>1
    <3>4. Upward(h, p) \in Seq(1..Len(h))  BY <3>1, <3>3, UpwardSeq, SeqMonotonic
    <3> DEFINE s == Upward(h, p)
    <3>5. Len(<<m>>) = 1 /\ <<m>>[1] = m  OBVIOUS
    <3> HIDE DEF s
    <3>6. s \in Seq(1..Len(h))  BY <3>4 DEF s
    <3>7. Len(s) \in Nat /\ DOMAIN s = 1..Len(s)  BY <3>6, LenProperties
    <3>8. /\ <<m>> \o s \in Seq(1..Len(h)) /\ Len(<<m>> \o s) = 1 + Len(s)
          /\ \A i \in 1..(1 + Len(s)) : (<<m>> \o s)[i] = IF i <= 1 THEN <<m>>[i] ELSE s[i - 1]
      BY <2>0, <3>5, <3>6, ConcatProperties
    <3>9. DOMAIN (<<m>> \o s) = 1..(1 + Len(s))  BY <3>8, LenProperties
    <3>10. (<<m>> \o s)[1] = m /\ \A i \in 1..Len(s) : (<<m>> \o s)[i + 1] = s[i]
      <4>1. (<<m>> \o s)[1] = m  BY <3>5, <3>7, <3>8
      <4>2. \A i \in 1..Len(s) : (<<m>> \o s)[i + 1] = s[i]
        <5> SUFFICES ASSUME NEW i \in 1..Len(s) PROVE (<<m>> \o s)[i + 1] = s[i]  OBVIOUS
        <5>1. i + 1 \in 1..(1 + Len(s)) /\ ~(i + 1 <= 1) /\ i + 1 - 1 = i  BY <3>7
        <5> QED  BY <3>8, <5>1
      <4> QED  BY <4>1, <4>2
    <3>11. \A i \in 1..(1 + Len(s)) : i = 1 \/ \E j \in 1..Len(s) : i = j + 1
      <4> SUFFICES ASSUME NEW i \in 1..(1 + Len(s)), i # 1 PROVE \E j \in 1..Len(s) : i = j + 1
        OBVIOUS
      <4>1. i - 1 \in 1..Len(s) /\ i = i - 1 + 1  BY <3>7
      <4> QED  BY <4>1
    <3>12. \A i \in 1..Len(s) : i + 1 \in 1..(1 + Len(s))  BY <3>7
    <3>13. 1 \in 1..(1 + Len(s))  BY <3>7
    <3>14. ToSet(<<m>> \o s) = {m} \cup ToSet(s)
      <4> DEFINE t == <<m>> \o s
      <4> HIDE DEF t
      <4>0. DOMAIN t = 1..(1 + Len(s)) /\ t[1] = m /\ \A i \in 1..Len(s) : t[i + 1] = s[i]
        BY <3>9, <3>10 DEF t
      <4>1. ToSet(t) \subseteq {m} \cup ToSet(s)
        <5> SUFFICES ASSUME NEW i \in 1..(1 + Len(s)) PROVE t[i] \in {m} \cup ToSet(s)
          BY <4>0 DEF ToSet
        <5>1. CASE i = 1  BY <4>0, <5>1
        <5>2. CASE i # 1
          <6>1. PICK j \in 1..Len(s) : i = j + 1  BY <3>11, <5>2
          <6>2. t[i] = s[j]  BY <4>0, <6>1
          <6> QED  BY <3>7, <6>2 DEF ToSet
        <5> QED  BY <5>1, <5>2
      <4>2. m \in ToSet(t)  BY <4>0, <3>13 DEF ToSet
      <4>3. ASSUME NEW j \in 1..Len(s) PROVE s[j] \in ToSet(t)
        <5>1. t[j + 1] = s[j] /\ j + 1 \in DOMAIN t  BY <4>0, <3>12
        <5> QED  BY <5>1 DEF ToSet
      <4>4. ToSet(s) \subseteq ToSet(t)  BY <3>7, <4>3 DEF ToSet
      <4> QED  BY <4>1, <4>2, <4>4 DEF t
    <3> QED  BY <2>2, <3>2, <3>14 DEF s, p
  <2> QED  BY <2>1, <2>2
<1>3. \A m \in 1..Len(h) : h[m].up # NULL => h[m].up \in 1..Len(h)
  <2> SUFFICES ASSUME NEW m \in 1..Len(h), h[m].up # NULL PROVE h[m].up \in 1..Len(h)  OBVIOUS
  <2>1. h[m].up \in 1..(m - 1)  BY DEF IsHeap, Links
  <2> QED  BY <1>0, <2>1
<1>4. \A m \in 1..Len(h) :
         m \in Below(h, n) <=> m = n \/ (h[m].up # NULL /\ h[m].up \in Below(h, n))
  BY <1>1, <1>2, <1>3
<1>5. Below(h, n) \subseteq n..Len(h)
  <2> SUFFICES ASSUME NEW m \in Below(h, n) PROVE m \in n..Len(h)  OBVIOUS
  <2>1. m \in 1..Len(h) /\ n \in ToSet(Upward(h, m))  BY <1>0, <1>1 DEF Below
  <2>2. Upward(h, m) \in Seq(1..m)  BY <2>1, UpwardSeq
  <2>3. n \in 1..m
    <3>1. PICK i \in DOMAIN Upward(h, m) : Upward(h, m)[i] = n  BY <2>1 DEF ToSet
    <3> QED  BY <2>2, <3>1, LenProperties
  <2> QED  BY <1>0, <2>1, <2>3
<1> QED  BY <1>4, <1>5

\* The number of levels down to m.
LEMMA DepthIs ==
    ASSUME NEW h, IsHeap(h), NEW m \in 1..Len(h)
    PROVE  /\ Depth(h, m) \in Nat \ {0}
           /\ Depth(h, m) = IF h[m].up = NULL THEN 1 ELSE Depth(h, h[m].up) + 1
<1>0. Len(h) \in Nat /\ m \in Nat  BY HeapNumbers
<1>1. CASE h[m].up = NULL
  <2>1. Upward(h, m) = <<m>> \o <<>>  BY <1>1, UpwardIs
  <2>2. Upward(h, m) = <<m>>  BY <2>1, ConcatEmptySeq
  <2> QED  BY <1>1, <2>2 DEF Depth
<1>2. CASE h[m].up # NULL
  <2> DEFINE p == h[m].up
  <2>1. Upward(h, m) = <<m>> \o Upward(h, p)  BY <1>2, UpwardIs
  <2>2. h[m].up \in 1..(m - 1)  BY <1>2 DEF IsHeap, Links
  <2>3. p \in 1..Len(h) /\ 1..p \subseteq 1..Len(h)  BY <1>0, <2>2
  <2> HIDE DEF p
  <2>4. Upward(h, p) \in Seq(1..Len(h))  BY <2>3, UpwardSeq, SeqMonotonic
  <2>5. <<m>> \in Seq(1..Len(h)) /\ Len(<<m>>) = 1  OBVIOUS
  <2>6. Len(Upward(h, m)) = 1 + Len(Upward(h, p)) /\ Len(Upward(h, p)) \in Nat
    BY <2>1, <2>4, <2>5, ConcatProperties, LenProperties
  <2> QED  BY <1>2, <2>6 DEF Depth, p
<1> QED  BY <1>1, <1>2

LEMMA UpIs ==
    ASSUME NEW h, IsHeap(h), NEW m \in 1..Len(h), h[m].up # NULL
    PROVE  /\ h[m].up \in 1..Len(h) /\ h[m].up \in Nat /\ h[m].up < m
           /\ h[m].up \in Live(h) /\ m \in Live(h)
<1>1. /\ h[m].up \in 1..(m - 1)
      /\ h[h[m].up].type # "freed" /\ h[m].type # "freed"
  BY DEF IsHeap, Links
<1>2. Len(h) \in Nat /\ m \in Nat  BY HeapNumbers
<1>3. h[m].up \in 1..Len(h) /\ h[m].up \in Nat /\ h[m].up < m  BY <1>1, <1>2
<1> QED  BY <1>1, <1>3, HeapNumbers

\* Below a node that lives all nodes do.
LEMMA BelowLives ==
    ASSUME NEW h, IsHeap(h), NEW n \in Live(h)
    PROVE  Below(h, n) \subseteq Live(h)
<1>1. n \in 1..Len(h)  BY HeapNumbers
<1>2. Below(h, n) \subseteq 1..Len(h)
  <2>1. Below(h, n) \subseteq n..Len(h)  BY <1>1, BelowIs
  <2>2. n..Len(h) \subseteq 1..Len(h)  BY <1>1, HeapNumbers
  <2> QED  BY <2>1, <2>2
<1> SUFFICES ASSUME NEW m \in Below(h, n) PROVE m \in Live(h)  OBVIOUS
<1>3. m \in 1..Len(h)  BY <1>2
<1>4. m = n \/ h[m].up # NULL  BY <1>1, <1>3, BelowIs
<1> QED  BY <1>3, <1>4, UpIs

\* Only a root is above itself alone.
LEMMA RootAlone ==
    ASSUME NEW h, IsHeap(h), NEW n \in 1..Len(h), NEW r \in 1..Len(h), h[r].up = NULL,
           r \in Below(h, n)
    PROVE  r = n
  BY BelowIs

LEMMA UnderRoot ==
    ASSUME NEW h, IsHeap(h), NEW m \in Live(h)
    PROVE  \E r \in Roots(h) : m \in Below(h, r)
<1> DEFINE T == {k \in Nat : k \in Live(h) /\ ~\E r \in Roots(h) : k \in Below(h, r)}
<1>0. Len(h) \in Nat /\ Live(h) \subseteq 1..Len(h)  BY HeapNumbers
<1>1. m \in Nat  BY <1>0
<1> SUFFICES ASSUME T # {} PROVE FALSE  BY <1>1
<1>2. T \in SUBSET Nat  OBVIOUS
<1>3. PICK k \in T : \A j \in T : k <= j  BY <1>2, LeastCounterexample
<1>4. k \in Nat /\ k \in Live(h) /\ ~\E r \in Roots(h) : k \in Below(h, r)  BY <1>3
<1>5. k \in 1..Len(h)  BY <1>0, <1>4
<1>6. CASE h[k].up = NULL
  <2>1. k \in Roots(h)  BY <1>4, <1>6 DEF Roots
  <2>2. k \in Below(h, k)  BY <1>5, BelowIs
  <2> QED  BY <1>4, <2>1, <2>2
<1>7. CASE h[k].up # NULL
  <2> DEFINE p == h[k].up
  <2>1. p \in Nat /\ p < k /\ p \in Live(h)  BY <1>5, <1>7, UpIs
  <2>2. ~(k <= p)  BY <2>1, <1>4
  <2>3. PICK r \in Roots(h) : p \in Below(h, r)  BY <1>3, <2>1, <2>2
  <2>4. r \in 1..Len(h)  BY <1>0 DEF Roots
  <2>5. k \in Below(h, r)  BY <1>5, <1>7, <2>3, <2>4, BelowIs
  <2> QED  BY <1>4, <2>5
<1> QED  BY <1>6, <1>7

\* What lives is what is below the roots.
LEMMA NoRootNothing ==
    ASSUME NEW h, IsHeap(h), Roots(h) = {}
    PROVE  Live(h) = {}
  BY UnderRoot

LEMMA OneRootAll ==
    ASSUME NEW h, IsHeap(h), NEW p, Roots(h) = {p}
    PROVE  Live(h) = Below(h, p)
<1>1. p \in Live(h)  BY DEF Roots
<1>2. Below(h, p) \subseteq Live(h)  BY <1>1, BelowLives
<1>3. \A m \in Live(h) : m \in Below(h, p)
  <2> SUFFICES ASSUME NEW m \in Live(h) PROVE m \in Below(h, p)  OBVIOUS
  <2>1. \E r \in Roots(h) : m \in Below(h, r)  BY UnderRoot
  <2> QED  BY <2>1
<1> QED  BY <1>2, <1>3

\* Nodes of two heaps that have the same parents as far up as there are any are
\* below the same nodes.
SameUps(h, g, K) ==
    /\ K \subseteq 1..Len(h) /\ K \subseteq 1..Len(g)
    /\ \A m \in K : h[m].up = g[m].up /\ (h[m].up # NULL => h[m].up \in K)

LEMMA SameUpward ==
    ASSUME NEW h, IsHeap(h), NEW g, IsHeap(g), NEW K, SameUps(h, g, K), NEW m \in K
    PROVE  Upward(h, m) = Upward(g, m)
<1> DEFINE T == {k \in Nat : k \in K /\ Upward(h, k) # Upward(g, k)}
<1>0. K \subseteq 1..Len(h) /\ K \subseteq 1..Len(g) /\ K \subseteq Nat
  BY HeapNumbers DEF SameUps
<1> SUFFICES ASSUME T # {} PROVE FALSE  BY <1>0
<1>1. T \in SUBSET Nat  OBVIOUS
<1>2. PICK k \in T : \A j \in T : k <= j  BY <1>1, LeastCounterexample
<1>3. k \in Nat /\ k \in K /\ Upward(h, k) # Upward(g, k)  BY <1>2
<1>4. h[k].up = g[k].up /\ (h[k].up # NULL => h[k].up \in K)  BY <1>3 DEF SameUps
<1>5. /\ Upward(h, k) = <<k>> \o (IF h[k].up = NULL THEN <<>> ELSE Upward(h, h[k].up))
      /\ Upward(g, k) = <<k>> \o (IF g[k].up = NULL THEN <<>> ELSE Upward(g, g[k].up))
  BY <1>0, <1>3, UpwardIs
<1>6. h[k].up # NULL => Upward(h, h[k].up) = Upward(g, h[k].up)
  <2> SUFFICES ASSUME h[k].up # NULL PROVE Upward(h, h[k].up) = Upward(g, h[k].up)  OBVIOUS
  <2> DEFINE p == h[k].up
  <2>1. p \in Nat /\ p < k /\ p \in K  BY <1>0, <1>3, <1>4, UpIs
  <2>2. ~(k <= p)  BY <2>1, <1>3
  <2>3. p \notin T  BY <1>2, <2>2
  <2> QED  BY <2>1, <2>3
<1> QED  BY <1>3, <1>4, <1>5, <1>6

\* So they are below the same nodes and as deep.
LEMMA SameBelow ==
    ASSUME NEW h, IsHeap(h), NEW g, IsHeap(g), NEW K, SameUps(h, g, K), NEW m \in K
    PROVE  /\ Depth(h, m) = Depth(g, m)
           /\ \A n : m \in Below(h, n) <=> m \in Below(g, n)
<1>1. Upward(h, m) = Upward(g, m)  BY SameUpward
<1>2. m \in DOMAIN h /\ m \in DOMAIN g  BY HeapNumbers DEF SameUps
<1> QED  BY <1>1, <1>2 DEF Depth, Below

-----------------------------------------------------------------------------
(***************************************************************************)
(* What is allocated and freed                                             *)
(***************************************************************************)
\* A node more.
Grown(h, g, type) ==
    /\ IsHeap(g) /\ Len(g) = Len(h) + 1
    /\ \A m \in 1..Len(h) : g[m] = h[m]
    /\ g[Len(h) + 1].type = type /\ g[Len(h) + 1].up = NULL /\ g[Len(h) + 1].kids = <<>>
    /\ Live(g) = Live(h) \cup {Len(h) + 1}
    /\ Roots(g) = Roots(h) \cup {Len(h) + 1}

LEMMA NewNode ==
    ASSUME NEW type, NEW value
    PROVE  /\ IsNode(Node(type, value))
           /\ Node(type, value).type = type /\ Node(type, value).up = NULL
           /\ Node(type, value).kids = <<>> /\ Node(type, value).value = value
  BY DEF IsNode, Node

LEMMA AppendGrows ==
    ASSUME NEW h, IsHeap(h), NEW type, type # "freed", NEW value
    PROVE  Grown(h, Append(h, Node(type, value)), type)
<1> DEFINE r == Node(type, value)  g == Append(h, r)
<1>1. IsNode(r) /\ r.type = type /\ r.up = NULL /\ r.kids = <<>>  BY NewNode
<1> HIDE DEF r
<1>2. PICK S : h \in Seq(S)  BY DEF IsHeap
<1> DEFINE U == S \cup {r}
<1>3. r \in U /\ h \in Seq(U)  BY <1>2, SeqMonotonic
<1> HIDE DEF U
<1>4. /\ g \in Seq(U) /\ Len(g) = Len(h) + 1
      /\ \A m \in 1..Len(h) : g[m] = h[m]
      /\ g[Len(h) + 1] = r
  BY <1>3, AppendProperties
<1> HIDE DEF g
<1>5. Len(h) \in Nat /\ DOMAIN h = 1..Len(h) /\ DOMAIN g = 1..(Len(h) + 1)
  BY <1>4, HeapNumbers, LenProperties
<1>6. 1..Len(h) \subseteq 1..(Len(h) + 1)  BY <1>5
<1>7. \A m \in 1..(Len(h) + 1) : m \in 1..Len(h) \/ m = Len(h) + 1  BY <1>5
<1>8. Len(h) + 1 \in 1..(Len(h) + 1) /\ Len(h) + 1 \notin 1..Len(h)  BY <1>5
<1>9. ASSUME NEW m \in 1..Len(h) PROVE IsNode(g[m]) /\ Links(g, m)
  <2>1. IsNode(h[m]) /\ Links(h, m) /\ g[m] = h[m]  BY <1>4 DEF IsHeap
  <2>2. h[m].up = NULL \/ (h[m].up \in 1..(m - 1) /\ h[m].up \in 1..Len(h))
    BY <2>1, UpIs DEF Links
  <2>3. h[m].kids \in Seq(1..Len(g))  BY <1>4, <1>6, <2>1, SeqMonotonic DEF Links
  <2>4. \A i \in DOMAIN h[m].kids : h[m].kids[i] \in 1..Len(h)
    <3>1. h[m].kids \in Seq(1..Len(h))  BY <2>1 DEF Links
    <3> QED  BY <3>1, LenProperties
  <2>5. \A i \in DOMAIN g[m].kids : g[g[m].kids[i]].up = m  BY <1>4, <2>1, <2>4 DEF Links
  <2>6. g[m].up = NULL \/ (g[m].up \in 1..(m - 1) /\ g[g[m].up].type # "freed" /\ g[m].type # "freed")
    <3>1. h[m].up # NULL => g[h[m].up] = h[h[m].up]  BY <1>4, UpIs
    <3> QED  BY <2>1, <3>1 DEF Links
  <2> QED  BY <2>1, <2>3, <2>5, <2>6 DEF Links
<1>10. IsNode(g[Len(h) + 1]) /\ Links(g, Len(h) + 1)
  <2>1. <<>> \in Seq(1..Len(g)) /\ DOMAIN <<>> = {}  OBVIOUS
  <2> QED  BY <1>1, <1>4, <2>1 DEF Links
<1>11. IsHeap(g)
  <2>1. \A m \in 1..Len(g) : IsNode(g[m]) /\ Links(g, m)  BY <1>4, <1>7, <1>9, <1>10
  <2> QED  BY <1>4, <2>1 DEF IsHeap
<1>12. Live(g) = Live(h) \cup {Len(h) + 1}  BY <1>1, <1>4, <1>5, <1>6, <1>7, <1>8 DEF Live
<1>13. Roots(g) = Roots(h) \cup {Len(h) + 1}
  <2>1. \A m \in Live(h) : g[m] = h[m]  BY <1>4, HeapNumbers
  <2> QED  BY <1>1, <1>4, <1>12, <2>1 DEF Roots
<1>14. Grown(h, g, type)  BY <1>1, <1>4, <1>11, <1>12, <1>13 DEF Grown
<1> QED  BY <1>14 DEF g, r

\* Nodes of gone were freed, all others are as they were.
Frees(h, g, gone) ==
    /\ IsHeap(g) /\ Len(g) = Len(h)
    /\ \A m \in 1..Len(h) \ gone : g[m] = h[m]
    /\ Live(g) = Live(h) \ gone
    /\ Roots(g) = Roots(h) \ gone

\* Whole trees, and branches without what they hang on.
Cut(h, gone) ==
    \A m \in 1..Len(h) : h[m].up # NULL => (m \in gone <=> h[m].up \in gone)

LEMMA CutFrees ==
    ASSUME NEW h, IsHeap(h), NEW gone, Cut(h, gone)
    PROVE  Frees(h, [m \in DOMAIN h |-> IF m \in gone THEN Freed ELSE h[m]], gone)
<1> DEFINE g == [m \in DOMAIN h |-> IF m \in gone THEN Freed ELSE h[m]]
<1>1. PICK S : h \in Seq(S)  BY DEF IsHeap
<1>2. Len(h) \in Nat /\ DOMAIN h = 1..Len(h) /\ h \in [1..Len(h) -> S]  BY <1>1, LenProperties
<1>3. g \in [1..Len(h) -> S \cup {Freed}]  BY <1>2
<1>4. g \in Seq(S \cup {Freed})  BY <1>2, <1>3, SeqDef
<1>5. Len(g) = Len(h) /\ DOMAIN g = 1..Len(h)
  <2>1. DOMAIN g = 1..Len(h)  BY <1>3
  <2>2. DOMAIN g = 1..Len(g) /\ Len(g) \in Nat  BY <1>4, LenProperties
  <2> QED  BY <1>2, <2>1, <2>2
<1>6. \A m \in 1..Len(h) : g[m] = IF m \in gone THEN Freed ELSE h[m]  BY <1>2
<1> HIDE DEF g
<1>7. IsNode(Freed) /\ Freed.type = "freed" /\ Freed.up = NULL /\ Freed.kids = <<>>
  BY NewNode DEF Freed
<1>8. ASSUME NEW m \in 1..Len(h) PROVE IsNode(g[m]) /\ Links(g, m)
  <2>1. IsNode(h[m]) /\ Links(h, m)  BY DEF IsHeap
  <2>2. CASE m \in gone
    <3>1. <<>> \in Seq(1..Len(g)) /\ DOMAIN <<>> = {}  OBVIOUS
    <3> QED  BY <1>6, <1>7, <2>2, <3>1 DEF Links
  <2>3. CASE m \notin gone
    <3>1. g[m] = h[m]  BY <1>6, <2>3
    <3>2. h[m].up # NULL => h[m].up \in 1..Len(h) /\ h[m].up \notin gone  BY <2>3, UpIs DEF Cut
    <3>3. h[m].up # NULL => g[h[m].up] = h[h[m].up]  BY <1>6, <3>2
    <3>4. h[m].kids \in Seq(1..Len(h))  BY <2>1 DEF Links
    <3>5. ASSUME NEW i \in DOMAIN h[m].kids PROVE g[h[m].kids[i]].up = m
      <4> DEFINE c == h[m].kids[i]
      <4>1. c \in 1..Len(h)  BY <3>4, LenProperties
      <4>2. h[c].up = m /\ m # NULL  BY <2>1, HeapNumbers DEF Links
      <4>3. c \notin gone  BY <2>3, <4>1, <4>2 DEF Cut
      <4> QED  BY <1>6, <4>1, <4>2, <4>3
    <3> QED  BY <1>5, <2>1, <3>1, <3>3, <3>4, <3>5 DEF Links
  <2> QED  BY <2>2, <2>3
<1>9. IsHeap(g)  BY <1>4, <1>5, <1>8 DEF IsHeap
<1>10. Live(g) = Live(h) \ gone  BY <1>2, <1>5, <1>6, <1>7 DEF Live
<1>11. Roots(g) = Roots(h) \ gone
  <2>1. \A m \in Live(g) : g[m] = h[m]  BY <1>2, <1>6, <1>10, HeapNumbers
  <2> QED  BY <1>10, <2>1 DEF Roots
<1>12. Frees(h, g, gone)  BY <1>5, <1>6, <1>9, <1>10, <1>11 DEF Frees
<1> QED  BY <1>12 DEF g

\* A node and what is below it.
LEMMA BelowIsCut ==
    ASSUME NEW h, IsHeap(h), NEW nodes, nodes \subseteq 1..Len(h),
           \A s \in nodes : h[s].up = NULL \/ h[s].up \in UNION {Below(h, n) : n \in nodes}
    PROVE  Cut(h, UNION {Below(h, n) : n \in nodes})
<1> DEFINE gone == UNION {Below(h, n) : n \in nodes}
<1> SUFFICES ASSUME NEW m \in 1..Len(h), h[m].up # NULL PROVE m \in gone <=> h[m].up \in gone
  BY DEF Cut
<1>1. \A n \in nodes : m \in Below(h, n) <=> m = n \/ h[m].up \in Below(h, n)  BY BelowIs
<1>2. CASE m \in nodes  BY <1>1, <1>2
<1>3. CASE m \notin nodes  BY <1>1, <1>3
<1> QED  BY <1>2, <1>3

\* Roots, and with them perhaps nodes that are below one of them.
LEMMA FreeAllFrees ==
    ASSUME NEW h, IsHeap(h), NEW nodes, nodes \subseteq 1..Len(h),
           \A s \in nodes : h[s].up = NULL \/ h[s].up \in UNION {Below(h, n) : n \in nodes}
    PROVE  /\ Frees(h, free_all(h, nodes), UNION {Below(h, n) : n \in nodes})
           /\ Roots(free_all(h, nodes)) = Roots(h) \ nodes
<1> DEFINE gone == UNION {Below(h, n) : n \in nodes}
<1>1. Cut(h, gone)  BY BelowIsCut
<1>2. Frees(h, free_all(h, nodes), gone)  BY <1>1, CutFrees DEF free_all
<1>3. Roots(h) \ gone = Roots(h) \ nodes
  <2>1. Roots(h) \subseteq 1..Len(h) /\ \A r \in Roots(h) : h[r].up = NULL  BY HeapNumbers DEF Roots
  <2>2. \A r \in Roots(h) : r \in gone => r \in nodes  BY <2>1, RootAlone
  <2>3. nodes \subseteq gone  BY BelowIs
  <2> QED  BY <2>2, <2>3
<1> QED  BY <1>2, <1>3 DEF Frees

LEMMA FreeAllRoots ==
    ASSUME NEW h, IsHeap(h), NEW nodes, nodes \subseteq Roots(h)
    PROVE  /\ Frees(h, free_all(h, nodes), UNION {Below(h, n) : n \in nodes})
           /\ Roots(free_all(h, nodes)) = Roots(h) \ nodes
<1>1. nodes \subseteq 1..Len(h) /\ \A s \in nodes : h[s].up = NULL  BY HeapNumbers DEF Roots
<1> QED  BY <1>1, FreeAllFrees

-----------------------------------------------------------------------------
(***************************************************************************)
(* Items                                                                   *)
(***************************************************************************)
\* n has taken the root x for an item. Perhaps it has lost another.
Took(h, g, n, x) ==
    /\ IsHeap(g) /\ Len(g) = Len(h)
    /\ Live(g) \subseteq Live(h) /\ Roots(g) = Roots(h) \ {x}
    /\ g[x].up = n /\ n \in Live(g) /\ x \in Live(g)
    /\ \A m \in Live(g) : g[m].type = h[m].type /\ (m # x => g[m].up = h[m].up)

\* An item of n, if any, with what is below it.
CutUnder(h, gone, n) ==
    /\ gone \subseteq 1..Len(h)
    /\ \A m \in 1..Len(h) :
          /\ h[m].up # NULL => (h[m].up \in gone => m \in gone)
          /\ m \in gone => h[m].up # NULL /\ (h[m].up \in gone \/ h[m].up = n)

\* The nodes of the heap in which n has taken x and lost what is gone.
Exchanged(h, g, n, x, gone) ==
    /\ Len(g) = Len(h) /\ \E S : g \in Seq(S)
    /\ \A m \in gone : g[m] = Freed
    /\ \A m \in 1..Len(h) : m \notin gone /\ m # n /\ m # x => g[m] = h[m]
    /\ IsNode(g[n]) /\ g[n].type = h[n].type /\ g[n].up = h[n].up
    /\ IsNode(g[x]) /\ g[x].type = h[x].type /\ g[x].up = n /\ g[x].kids = h[x].kids

\* The items it has now.
NewItems(h, kids, n, x, gone) ==
    /\ kids \in Seq(1..Len(h))
    /\ \A i, j \in DOMAIN kids : kids[i] = kids[j] => i = j
    /\ \A i \in DOMAIN kids : \/ kids[i] = x
                              \/ kids[i] \notin gone /\ \E j \in DOMAIN h[n].kids : h[n].kids[j] = kids[i]

LEMMA ExchangeTakes ==
    ASSUME NEW h, IsHeap(h), NEW n \in Live(h), NEW x \in Roots(h), n < x,
           NEW gone, CutUnder(h, gone, n), n \notin gone,
           NEW g, Exchanged(h, g, n, x, gone), NewItems(h, g[n].kids, n, x, gone)
    PROVE  Took(h, g, n, x)
<1>1. Len(h) \in Nat /\ Len(g) = Len(h) /\ DOMAIN h = 1..Len(h) /\ DOMAIN g = 1..Len(h)
  BY HeapNumbers, LenProperties DEF Exchanged
<1>2. /\ n \in 1..Len(h) /\ x \in 1..Len(h) /\ n # x /\ n \in Nat /\ x \in Nat
      /\ h[x].up = NULL /\ h[x].type # "freed" /\ h[n].type # "freed"
  BY HeapNumbers DEF Roots
<1>3. x \notin gone  BY <1>2 DEF CutUnder
<1>4. IsNode(Freed) /\ Freed.type = "freed" /\ Freed.up = NULL /\ Freed.kids = <<>>
  BY NewNode DEF Freed
<1>5. \A m \in 1..Len(h) : m \notin gone => g[m].type = h[m].type
  BY DEF Exchanged
<1>6. \A m \in 1..Len(h) : m \notin gone /\ m # x => g[m].up = h[m].up
  BY DEF Exchanged
<1>7. \A m \in 1..Len(h) : m \notin gone /\ m # n => g[m].kids = h[m].kids
  BY DEF Exchanged
<1>8. \A m \in 1..Len(h) : IsNode(g[m])
  BY <1>4 DEF Exchanged, IsHeap
<1>9. ASSUME NEW m \in 1..Len(h) PROVE Links(g, m)
  <2>0. Links(h, m)  BY DEF IsHeap
  <2>1. CASE m \in gone
    <3>1. g[m] = Freed  BY <2>1 DEF Exchanged
    <3>2. <<>> \in Seq(1..Len(g)) /\ DOMAIN <<>> = {}  OBVIOUS
    <3> QED  BY <1>4, <3>1, <3>2 DEF Links
  <2>2. CASE m \notin gone
    <3>1. g[m].type = h[m].type  BY <1>5, <2>2
    <3>2. g[m].up = NULL \/ (g[m].up \in 1..(m - 1) /\ g[g[m].up].type # "freed" /\ g[m].type # "freed")
      <4>1. CASE m = x
        <5>1. g[m].up = n  BY <4>1 DEF Exchanged
        <5>2. n \in 1..(x - 1)  BY <1>2
        <5>3. g[n].type = h[n].type  BY DEF Exchanged
        <5> QED  BY <1>2, <3>1, <4>1, <5>1, <5>2, <5>3
      <4>2. CASE m # x /\ h[m].up = NULL  BY <1>6, <2>2, <4>2
      <4>3. CASE m # x /\ h[m].up # NULL
        <5>1. h[m].up \in 1..Len(h) /\ h[m].up \notin gone  BY <2>2, <4>3, UpIs DEF CutUnder
        <5>2. g[m].up = h[m].up  BY <1>6, <2>2, <4>3
        <5>3. g[h[m].up].type = h[h[m].up].type  BY <1>5, <5>1
        <5>4. h[m].up \in 1..(m - 1) /\ h[h[m].up].type # "freed" /\ h[m].type # "freed"
          BY <2>0, <4>3 DEF Links
        <5> QED  BY <3>1, <5>2, <5>3, <5>4
      <4> QED  BY <4>1, <4>2, <4>3
    <3>3. CASE m # n
      <4>1. g[m].kids = h[m].kids  BY <1>7, <2>2, <3>3
      <4>2. h[m].kids \in Seq(1..Len(h))  BY <2>0 DEF Links
      <4>3. ASSUME NEW i \in DOMAIN h[m].kids PROVE g[h[m].kids[i]].up = m
        <5> DEFINE c == h[m].kids[i]
        <5>1. c \in 1..Len(h)  BY <4>2, LenProperties
        <5>2. h[c].up = m /\ m # NULL  BY <2>0, HeapNumbers DEF Links
        <5>3. c \notin gone  BY <2>2, <3>3, <5>1, <5>2 DEF CutUnder
        <5>4. c # x  BY <1>2, <5>2
        <5> QED  BY <1>6, <5>1, <5>2, <5>3, <5>4
      <4> QED  BY <1>1, <2>0, <3>1, <3>2, <4>1, <4>2, <4>3 DEF Links
    <3>4. CASE m = n
      <4> DEFINE k == g[n].kids
      <4> HIDE DEF k
      <4>1. NewItems(h, k, n, x, gone)  BY DEF k
      <4>2. ASSUME NEW i \in DOMAIN k PROVE g[k[i]].up = n
        <5>1. CASE k[i] = x  BY <5>1 DEF Exchanged
        <5>2. CASE k[i] # x
          <6>1. k[i] \notin gone /\ \E j \in DOMAIN h[n].kids : h[n].kids[j] = k[i]
            BY <4>1, <5>2 DEF NewItems
          <6>2. PICK j \in DOMAIN h[n].kids : h[n].kids[j] = k[i]  BY <6>1
          <6>3. h[k[i]].up = n  BY <2>0, <3>4, <6>2 DEF Links
          <6>4. k[i] \in 1..Len(h)  BY <4>1, LenProperties DEF NewItems
          <6> QED  BY <1>6, <5>2, <6>1, <6>3, <6>4
        <5> QED  BY <5>1, <5>2
      <4>3. g[m].type # "freed"  BY <1>2, <3>1, <3>4
      <4> QED  BY <1>1, <3>2, <3>4, <4>1, <4>2, <4>3 DEF Links, NewItems, k
    <3> QED  BY <3>3, <3>4
  <2> QED  BY <2>1, <2>2
<1>10. IsHeap(g)  BY <1>1, <1>8, <1>9 DEF IsHeap, Exchanged
<1>11. Live(g) = Live(h) \ gone
  <2>1. \A m \in gone : g[m].type = "freed"  BY <1>4 DEF Exchanged
  <2> QED  BY <1>1, <1>5, <2>1 DEF Live
<1>12. Roots(g) = Roots(h) \ {x}
  <2>1. \A m \in Roots(h) : m \in 1..Len(h) /\ h[m].up = NULL /\ m \notin gone
    BY HeapNumbers DEF Roots, CutUnder
  <2>2. g[x].up # NULL
    <3>1. g[x].up = n  BY DEF Exchanged
    <3> QED  BY <1>2, <3>1, HeapNumbers
  <2>3. \A m \in Live(g) : m \in 1..Len(h) /\ m \notin gone  BY <1>1, <1>11, HeapNumbers
  <2> QED  BY <1>6, <1>11, <2>1, <2>2, <2>3 DEF Roots
<1>13. \A m \in Live(g) : g[m].type = h[m].type /\ (m # x => g[m].up = h[m].up)
  BY <1>1, <1>5, <1>6, <1>11, HeapNumbers
<1>14. n \in Live(g) /\ x \in Live(g)  BY <1>2, <1>3, <1>11 DEF Roots
<1>15. g[x].up = n  BY DEF Exchanged
<1> QED  BY <1>1, <1>10, <1>11, <1>12, <1>13, <1>14, <1>15 DEF Took

LEMMA SomeSeq ==
    ASSUME NEW k \in Nat, NEW g, DOMAIN g = 1..k, g = [m \in 1..k |-> g[m]]
    PROVE  /\ \E S : g \in Seq(S)
           /\ Len(g) = k
<1> DEFINE S == {g[m] : m \in 1..k}
<1>1. g \in [1..k -> S]  OBVIOUS
<1>2. g \in Seq(S)  BY <1>1, SeqDef
<1>3. Len(g) \in Nat /\ DOMAIN g = 1..Len(g)  BY <1>2, LenProperties
<1>4. Len(g) = k  BY <1>3
<1> QED  BY <1>2, <1>4

\* A field of a node is set.
WithKids(s, r, v) == s = [r EXCEPT !.kids = v]

LEMMA KidsSet ==
    ASSUME NEW r, IsNode(r), NEW v, NEW s, WithKids(s, r, v)
    PROVE  IsNode(s) /\ s.kids = v /\ s.type = r.type /\ s.up = r.up
  BY DEF IsNode, WithKids

WithUp(s, r, v) == s = [r EXCEPT !.up = v]

LEMMA UpSet ==
    ASSUME NEW r, IsNode(r), NEW v, NEW s, WithUp(s, r, v)
    PROVE  IsNode(s) /\ s.up = v /\ s.type = r.type /\ s.kids = r.kids
  BY DEF IsNode, WithUp

WithKey(s, r, v) == s = [r EXCEPT !.key = v]

LEMMA KeySet ==
    ASSUME NEW r, IsNode(r), NEW v, NEW s, WithKey(s, r, v)
    PROVE  IsNode(s) /\ s.type = r.type /\ s.up = r.up /\ s.kids = r.kids
  BY DEF IsNode, WithKey

LEMMA ArrayTakes ==
    ASSUME NEW h, IsHeap(h), NEW n \in Live(h), NEW x \in Roots(h), n < x
    PROVE  /\ Took(h, plist_array_append_item(h, n, x), n, x)
           /\ DOMAIN plist_array_append_item(h, n, x) = 1..Len(h)
           /\ Exchanged(h, plist_array_append_item(h, n, x), n, x, {})
           /\ NewItems(h, plist_array_append_item(h, n, x)[n].kids, n, x, {})
<1> DEFINE g == plist_array_append_item(h, n, x)
<1>1. Len(h) \in Nat /\ DOMAIN h = 1..Len(h) /\ h = [m \in 1..Len(h) |-> h[m]]  BY HeapNumbers
<1>2. /\ n \in 1..Len(h) /\ x \in 1..Len(h) /\ n # x /\ n # NULL
      /\ h[x].up = NULL /\ h[x].type # "freed" /\ h[n].type # "freed"
  BY HeapNumbers DEF Roots
<1>3. IsNode(h[n]) /\ IsNode(h[x]) /\ Links(h, n)  BY <1>2 DEF IsHeap
<1>4. /\ DOMAIN g = 1..Len(h) /\ g = [m \in 1..Len(h) |-> g[m]]
      /\ g[n] = [h[n] EXCEPT !.kids = Append(h[n].kids, x)]
      /\ g[x] = [h[x] EXCEPT !.up = n]
      /\ \A m \in 1..Len(h) : m # n /\ m # x => g[m] = h[m]
  BY <1>1, <1>2 DEF plist_array_append_item
<1> HIDE DEF g
<1>5. (\E S : g \in Seq(S)) /\ Len(g) = Len(h)  BY <1>1, <1>4, SomeSeq
<1>6. IsNode(g[n]) /\ g[n].type = h[n].type /\ g[n].up = h[n].up /\ g[n].kids = Append(h[n].kids, x)
  <2> DEFINE l == Append(h[n].kids, x)
  <2>1. WithKids(g[n], h[n], l)  BY <1>4 DEF WithKids
  <2> HIDE DEF l
  <2>2. IsNode(g[n]) /\ g[n].kids = l /\ g[n].type = h[n].type /\ g[n].up = h[n].up
    BY <1>3, <2>1, KidsSet
  <2> QED  BY <2>2 DEF l
<1>7. IsNode(g[x]) /\ g[x].type = h[x].type /\ g[x].up = n /\ g[x].kids = h[x].kids
  <2>1. WithUp(g[x], h[x], n)  BY <1>4 DEF WithUp
  <2> QED  BY <1>3, <2>1, UpSet
<1>8. Exchanged(h, g, n, x, {})  BY <1>4, <1>5, <1>6, <1>7 DEF Exchanged
<1>9. CutUnder(h, {}, n)  BY DEF CutUnder
<1>10. NewItems(h, g[n].kids, n, x, {})
  <2> DEFINE k == h[n].kids  l == Append(k, x)
  <2>1. k \in Seq(1..Len(h))  BY <1>3 DEF Links
  <2> HIDE DEF k
  <2>2. /\ l \in Seq(1..Len(h)) /\ Len(l) = Len(k) + 1
        /\ \A i \in 1..Len(k) : l[i] = k[i]
        /\ l[Len(k) + 1] = x
    BY <1>2, <2>1, AppendProperties
  <2> HIDE DEF l
  <2>3. Len(k) \in Nat /\ DOMAIN k = 1..Len(k) /\ DOMAIN l = 1..(Len(k) + 1)
    BY <2>1, <2>2, LenProperties
  <2>4. \A i \in 1..(Len(k) + 1) : i \in 1..Len(k) \/ i = Len(k) + 1  BY <2>3
  <2>5. \A i \in 1..Len(k) : k[i] # x
    <3>1. \A i \in 1..Len(k) : h[k[i]].up = n  BY <1>3, <2>3 DEF Links, k
    <3> QED  BY <1>2, <3>1
  <2>6. \A i, j \in 1..Len(k) : k[i] = k[j] => i = j  BY <1>3, <2>3 DEF Links, k
  <2>7. \A i, j \in DOMAIN l : l[i] = l[j] => i = j
    <3> SUFFICES ASSUME NEW i \in DOMAIN l, NEW j \in DOMAIN l, l[i] = l[j] PROVE i = j
      OBVIOUS
    <3>1. (i \in 1..Len(k) \/ i = Len(k) + 1) /\ (j \in 1..Len(k) \/ j = Len(k) + 1)
      BY <2>3, <2>4
    <3> QED  BY <2>2, <2>5, <2>6, <3>1
  <2>8. \A i \in DOMAIN l : l[i] = x \/ \E j \in DOMAIN k : k[j] = l[i]
    BY <2>2, <2>3, <2>4
  <2>9. NewItems(h, l, n, x, {})  BY <2>2, <2>7, <2>8 DEF NewItems, k
  <2> QED  BY <1>6, <2>9 DEF l, k
<1>11. Took(h, g, n, x)  BY <1>8, <1>9, <1>10, ExchangeTakes
<1> QED  BY <1>4, <1>8, <1>10, <1>11 DEF g

LEMMA DictTakes ==
    ASSUME NEW h, IsHeap(h), NEW n \in Live(h), NEW x \in Roots(h), n < x, NEW name
    PROVE  Took(h, plist_dict_set_item(h, n, name, x), n, x)
<1> DEFINE g == plist_dict_set_item(h, n, name, x)
<1>1. Len(h) \in Nat /\ DOMAIN h = 1..Len(h) /\ h = [m \in 1..Len(h) |-> h[m]]  BY HeapNumbers
<1>2. /\ n \in 1..Len(h) /\ x \in 1..Len(h) /\ n # x /\ n # NULL
      /\ h[x].up = NULL /\ h[x].type # "freed" /\ h[n].type # "freed"
      /\ n \in Nat /\ x \in Nat
  BY HeapNumbers DEF Roots
<1>3. IsNode(h[n]) /\ IsNode(h[x]) /\ Links(h, n)  BY <1>2 DEF IsHeap
<1>4. CASE Positions(h, n, name) = {}
  <2> DEFINE a == plist_array_append_item(h, n, x)
  <2>1. /\ DOMAIN a = 1..Len(h) /\ Exchanged(h, a, n, x, {}) /\ NewItems(h, a[n].kids, n, x, {})
    BY ArrayTakes
  <2>2. g = [a EXCEPT ![x].key = name]  BY <1>4 DEF plist_dict_set_item
  <2> HIDE DEF a, g
  <2>3. /\ DOMAIN g = 1..Len(h) /\ g = [m \in 1..Len(h) |-> g[m]]
        /\ g[x] = [a[x] EXCEPT !.key = name]
        /\ \A m \in 1..Len(h) : m # x => g[m] = a[m]
    BY <1>2, <2>1, <2>2
  <2>4. (\E S : g \in Seq(S)) /\ Len(g) = Len(h)  BY <1>1, <2>3, SomeSeq
  <2>5. g[n] = a[n]  BY <1>2, <2>3
  <2>6. IsNode(a[x]) /\ a[x].type = h[x].type /\ a[x].up = n /\ a[x].kids = h[x].kids
    BY <2>1 DEF Exchanged
  <2>7. IsNode(g[x]) /\ g[x].type = h[x].type /\ g[x].up = n /\ g[x].kids = h[x].kids
    <3>1. WithKey(g[x], a[x], name)  BY <2>3 DEF WithKey
    <3>2. IsNode(g[x]) /\ g[x].type = a[x].type /\ g[x].up = a[x].up /\ g[x].kids = a[x].kids
      BY <2>6, <3>1, KeySet
    <3> QED  BY <2>6, <3>2
  <2>8. Exchanged(h, g, n, x, {})  BY <2>1, <2>3, <2>4, <2>5, <2>7 DEF Exchanged
  <2>9. CutUnder(h, {}, n)  BY DEF CutUnder
  <2>10. Took(h, g, n, x)  BY <2>1, <2>5, <2>8, <2>9, ExchangeTakes
  <2> QED  BY <2>10 DEF g
<1>5. CASE Positions(h, n, name) # {}
  <2> DEFINE i == CHOOSE i \in Positions(h, n, name) : TRUE
             old == h[n].kids[i]
             gone == Below(h, old)
             f == plist_free(h, old)
             k == [h[n].kids EXCEPT ![i] = x]
  <2>1. i \in DOMAIN h[n].kids  BY <1>5 DEF Positions
  <2>2. h[n].kids \in Seq(1..Len(h))  BY <1>3 DEF Links
  <2>3. old \in 1..Len(h) /\ h[old].up = n  BY <1>3, <2>1, <2>2, LenProperties DEF Links
  <2>4. g = [f EXCEPT ![n].kids = k, ![x].up = n, ![x].key = name]
    BY <1>5 DEF plist_dict_set_item
  <2> HIDE DEF i
  <2>5. n \notin gone /\ x \notin gone /\ old # n
    <3>1. gone \subseteq old..Len(h)  BY <2>3, BelowIs
    <3>2. n < old /\ old \in Nat  BY <1>2, <2>3, UpIs
    <3>3. n \notin gone  BY <1>1, <1>2, <3>1, <3>2
    <3>4. x = old => FALSE  BY <1>2, <2>3
    <3>5. x \notin gone  BY <1>2, <2>3, <3>4, RootAlone
    <3> QED  BY <1>2, <3>2, <3>3, <3>5
  <2>6. CutUnder(h, gone, n)
    <3>1. gone \subseteq 1..Len(h)
      <4>1. gone \subseteq old..Len(h)  BY <2>3, BelowIs
      <4>2. old..Len(h) \subseteq 1..Len(h)  BY <1>1, <2>3
      <4> QED  BY <4>1, <4>2
    <3>2. \A m \in 1..Len(h) : m \in gone <=> m = old \/ (h[m].up # NULL /\ h[m].up \in gone)
      BY <2>3, BelowIs
    <3> QED  BY <1>2, <2>3, <3>1, <3>2 DEF CutUnder
  <2>7. /\ DOMAIN f = 1..Len(h)
        /\ \A m \in gone : f[m] = Freed
        /\ \A m \in 1..Len(h) : m \notin gone /\ m # n => f[m] = h[m]
    <3>1. gone \subseteq 1..Len(h)  BY <2>6 DEF CutUnder
    <3> QED  BY <1>1, <2>3, <3>1 DEF plist_free
  <2>8. \E l : f[n] = [h[n] EXCEPT !.kids = l]
    BY <1>1, <1>2, <2>3, <2>5 DEF plist_free
  <2> HIDE DEF f, gone, k, old, g
  <2>9. PICK l : f[n] = [h[n] EXCEPT !.kids = l]  BY <2>8
  <2>10. IsNode(f[n]) /\ f[n].type = h[n].type /\ f[n].up = h[n].up
    <3>1. WithKids(f[n], h[n], l)  BY <2>9 DEF WithKids
    <3> QED  BY <1>3, <3>1, KidsSet
  <2>11. /\ DOMAIN g = 1..Len(h) /\ g = [m \in 1..Len(h) |-> g[m]]
         /\ g[n] = [f[n] EXCEPT !.kids = k]
         /\ g[x] = [[f[x] EXCEPT !.up = n] EXCEPT !.key = name]
         /\ \A m \in 1..Len(h) : m # n /\ m # x => g[m] = f[m]
    BY <1>2, <2>4, <2>7
  <2>12. (\E S : g \in Seq(S)) /\ Len(g) = Len(h)  BY <1>1, <2>11, SomeSeq
  <2>13. IsNode(g[n]) /\ g[n].type = h[n].type /\ g[n].up = h[n].up /\ g[n].kids = k
    <3>1. WithKids(g[n], f[n], k)  BY <2>11 DEF WithKids
    <3>2. IsNode(g[n]) /\ g[n].type = f[n].type /\ g[n].up = f[n].up /\ g[n].kids = k
      BY <2>10, <3>1, KidsSet
    <3> QED  BY <2>10, <3>2
  <2>14. IsNode(g[x]) /\ g[x].type = h[x].type /\ g[x].up = n /\ g[x].kids = h[x].kids
    <3> DEFINE y == [f[x] EXCEPT !.up = n]
    <3>1. f[x] = h[x]  BY <1>2, <2>5, <2>7
    <3>2. WithUp(y, h[x], n)  BY <3>1 DEF WithUp
    <3>3. WithKey(g[x], y, name)  BY <2>11 DEF WithKey
    <3> HIDE DEF y
    <3>4. IsNode(y) /\ y.up = n /\ y.type = h[x].type /\ y.kids = h[x].kids
      BY <1>3, <3>2, UpSet
    <3>5. IsNode(g[x]) /\ g[x].type = y.type /\ g[x].up = y.up /\ g[x].kids = y.kids
      BY <3>3, <3>4, KeySet
    <3> QED  BY <3>4, <3>5
  <2>15. gone \subseteq 1..Len(h)  BY <2>6 DEF CutUnder
  <2>16. \A m \in gone : g[m] = Freed  BY <2>5, <2>7, <2>11, <2>15
  <2>17. \A m \in 1..Len(h) : m \notin gone /\ m # n /\ m # x => g[m] = h[m]
    BY <2>7, <2>11
  <2>18. Exchanged(h, g, n, x, gone)
    BY <2>12, <2>13, <2>14, <2>16, <2>17 DEF Exchanged
  <2>19. NewItems(h, k, n, x, gone)
    <3> DEFINE c == h[n].kids
    <3>1. c \in Seq(1..Len(h)) /\ i \in 1..Len(c)  BY <2>1, <2>2, LenProperties
    <3>2. /\ k \in Seq(1..Len(h)) /\ Len(k) = Len(c)
          /\ \A j \in 1..Len(c) : k[j] = IF j = i THEN x ELSE c[j]
      BY <1>2, <3>1, ExceptSeq DEF k
    <3>3. DOMAIN c = 1..Len(c) /\ DOMAIN k = 1..Len(c)  BY <3>1, <3>2, LenProperties
    <3>4. \A j, l1 \in 1..Len(c) : c[j] = c[l1] => j = l1  BY <1>3, <3>3 DEF Links
    <3>5. \A j \in 1..Len(c) : c[j] \in 1..Len(h) /\ h[c[j]].up = n
      <4>1. \A j \in DOMAIN c : h[c[j]].up = n  BY <1>3 DEF Links
      <4>2. \A j \in 1..Len(c) : c[j] \in 1..Len(h)  BY <3>1, ElementOfSeq
      <4> QED  BY <3>3, <4>1, <4>2
    <3>6. \A j \in 1..Len(c) : c[j] # x  BY <1>2, <3>5
    <3>7. \A j \in 1..Len(c) : j # i => c[j] \notin gone
      <4> SUFFICES ASSUME NEW j \in 1..Len(c), j # i PROVE c[j] \notin gone  OBVIOUS
      <4>1. c[j] # old  BY <3>1, <3>4 DEF old
      <4>2. c[j] \in gone => h[c[j]].up \in gone  BY <2>3, <3>5, <4>1, BelowIs DEF gone
      <4> QED  BY <2>5, <3>5, <4>2
    <3> HIDE DEF c
    <3>8. \A j, l1 \in DOMAIN k : k[j] = k[l1] => j = l1  BY <3>2, <3>3, <3>4, <3>6
    <3>9. \A j \in DOMAIN k : k[j] = x \/ (k[j] \notin gone /\ \E l1 \in DOMAIN c : c[l1] = k[j])
      BY <3>2, <3>3, <3>7
    <3> QED  BY <3>2, <3>8, <3>9 DEF NewItems, c
  <2>20. Took(h, g, n, x)  BY <2>5, <2>6, <2>13, <2>18, <2>19, ExchangeTakes
  <2> QED  BY <2>20 DEF g
<1> QED  BY <1>4, <1>5

-----------------------------------------------------------------------------
(***************************************************************************)
(* Levels                                                                  *)
(***************************************************************************)
\* No node below n is deeper than limit.
Bounded(h, n, limit) == \A m \in Below(h, n) : Depth(h, m) <= limit

LEMMA MostIs ==
    ASSUME NEW limit \in Nat, NEW S, S \subseteq 1..limit, S # {}
    PROVE  Most(S) \in S
<1> DEFINE T == {k \in Nat : \A s \in S : s <= k}
<1>1. T \in SUBSET Nat /\ limit \in T  OBVIOUS
<1>2. PICK k \in T : \A m \in T : k <= m  BY <1>1, LeastCounterexample
<1>3. k \in Nat /\ \A s \in S : s <= k  BY <1>2
<1>4. k \in S
  <2> SUFFICES ASSUME k \notin S PROVE FALSE  OBVIOUS
  <2>1. PICK s \in S : TRUE  OBVIOUS
  <2>2. s \in Nat /\ s >= 1 /\ s <= k  BY <1>3, <2>1
  <2>3. k - 1 \in Nat  BY <1>3, <2>2
  <2>4. \A t \in S : t <= k - 1  BY <1>3
  <2>5. k - 1 \in T  BY <2>3, <2>4
  <2> QED  BY <1>2, <1>3, <2>5
<1>5. \E x \in S : \A y \in S : x >= y  BY <1>3, <1>4
<1> QED  BY <1>5 DEF Most

LEMMA RootLevels ==
    ASSUME NEW h, IsHeap(h), NEW n \in Roots(h), NEW limit \in Nat, Bounded(h, n, limit)
    PROVE  Levels(h, n) \in Nat /\ Levels(h, n) <= limit
<1> DEFINE S == {Len(Upward(h, m)) : m \in Below(h, n)}
<1>1. n \in 1..Len(h) /\ h[n].up = NULL  BY HeapNumbers DEF Roots
<1>2. Below(h, n) \subseteq 1..Len(h) /\ n \in Below(h, n)
  <2>1. Below(h, n) \subseteq n..Len(h) /\ n \in Below(h, n)  BY <1>1, BelowIs
  <2>2. n..Len(h) \subseteq 1..Len(h)  BY <1>1, HeapNumbers
  <2> QED  BY <2>1, <2>2
<1>3. Depth(h, n) = 1  BY <1>1, DepthIs
<1>4. \A m \in Below(h, n) : Len(Upward(h, m)) \in 1..limit
  BY <1>2, DepthIs DEF Bounded, Depth
<1>5. S \subseteq 1..limit /\ S # {}  BY <1>2, <1>4
<1>6. Most(S) \in S  BY <1>5, MostIs
<1>7. Levels(h, n) = Most(S) - Len(Upward(h, n)) + 1  BY DEF Levels
<1> HIDE DEF S
<1>8. Most(S) \in 1..limit  BY <1>5, <1>6
<1>9. Len(Upward(h, n)) = 1  BY <1>3 DEF Depth
<1> QED  BY <1>7, <1>8, <1>9

LEMMA GrownBounds ==
    ASSUME NEW h, IsHeap(h), NEW g, NEW type, Grown(h, g, type)
    PROVE  /\ \A r \in 1..Len(h) : \A limit : Bounded(h, r, limit) => Bounded(g, r, limit)
           /\ Bounded(g, Len(h) + 1, 1)
           /\ Below(g, Len(h) + 1) = {Len(h) + 1}
           /\ \A r \in 1..Len(h) : Below(g, r) = Below(h, r)
           /\ \A m \in 1..Len(h) : Depth(g, m) = Depth(h, m)
<1>1. IsHeap(g) /\ Len(g) = Len(h) + 1 /\ \A m \in 1..Len(h) : g[m] = h[m]  BY DEF Grown
<1>2. Len(h) \in Nat /\ 1..Len(h) \subseteq 1..Len(g)  BY <1>1, HeapNumbers
<1>3. SameUps(h, g, 1..Len(h))  BY <1>1, <1>2, UpIs DEF SameUps
<1>4. \A m \in 1..Len(h) : Depth(h, m) = Depth(g, m) /\ \A n : m \in Below(h, n) <=> m \in Below(g, n)
  BY <1>1, <1>3, SameBelow
<1>5. Len(g) \in 1..Len(g) /\ Len(g) \notin 1..Len(h)  BY <1>1, <1>2
<1>6. g[Len(g)].up = NULL  BY <1>1 DEF Grown
<1>7. Below(g, Len(g)) = {Len(g)}
  <2>1. Below(g, Len(g)) \subseteq Len(g)..Len(g) /\ Len(g) \in Below(g, Len(g))  BY <1>1, <1>5, BelowIs
  <2>2. Len(g)..Len(g) = {Len(g)}  BY <1>1, <1>2
  <2> QED  BY <2>1, <2>2
<1>8. Depth(g, Len(g)) = 1  BY <1>1, <1>5, <1>6, DepthIs
<1>9. Bounded(g, Len(g), 1)  BY <1>7, <1>8 DEF Bounded
<1>10. ASSUME NEW r \in 1..Len(h) PROVE Below(g, r) = Below(h, r)
  <2>1. Below(h, r) \subseteq 1..Len(h)
    BY HeapNumbers DEF Below
  <2>2. Below(g, r) \subseteq 1..Len(g)
    BY <1>1, HeapNumbers DEF Below
  <2>3. Len(g) \notin Below(g, r)
    <3>1. r # Len(g) /\ r \in 1..Len(g)  BY <1>2, <1>5
    <3> QED  BY <1>1, <1>5, <1>6, <3>1, RootAlone
  <2>4. Below(g, r) \subseteq 1..Len(h)
    <3>1. \A m \in 1..Len(g) : m \in 1..Len(h) \/ m = Len(g)  BY <1>1, <1>2
    <3> QED  BY <2>2, <2>3, <3>1
  <2> QED  BY <1>4, <2>1, <2>4
<1>11. \A r \in 1..Len(h) : \A limit : Bounded(h, r, limit) => Bounded(g, r, limit)
  <2>1. \A r \in 1..Len(h) : Below(h, r) \subseteq 1..Len(h)  BY HeapNumbers DEF Below
  <2> QED  BY <1>4, <1>10, <2>1 DEF Bounded
<1> QED  BY <1>1, <1>4, <1>7, <1>9, <1>10, <1>11

LEMMA FreesBounds ==
    ASSUME NEW h, IsHeap(h), NEW g, NEW gone, Frees(h, g, gone), NEW r \in Live(g)
    PROVE  /\ \A limit : Bounded(h, r, limit) => Bounded(g, r, limit)
           /\ Below(g, r) = Below(h, r) \cap Live(g)
           /\ \A m \in Live(g) : Depth(g, m) = Depth(h, m)
<1>1. IsHeap(g) /\ Len(g) = Len(h) /\ Live(g) = Live(h) \ gone  BY DEF Frees
<1>2. Live(g) \subseteq 1..Len(h)  BY <1>1, HeapNumbers
<1>3. \A m \in Live(g) : g[m] = h[m]  BY <1>1, <1>2 DEF Frees
<1>4. SameUps(h, g, Live(g))  BY <1>1, <1>2, <1>3, UpIs DEF SameUps
<1>5. \A m \in Live(g) : Depth(h, m) = Depth(g, m) /\ \A n : m \in Below(h, n) <=> m \in Below(g, n)
  BY <1>1, <1>4, SameBelow
<1>6. Below(g, r) \subseteq Live(g)  BY <1>1, BelowLives
<1>7. Below(g, r) = Below(h, r) \cap Live(g)  BY <1>5, <1>6
<1> QED  BY <1>5, <1>7 DEF Bounded

\* What was not below the item is where it was, and what was is as much deeper as
\* the depth of the node that took it.
LEMMA TookApart ==
    ASSUME NEW h, IsHeap(h), NEW n \in Live(h), NEW x \in Roots(h), n < x,
           NEW g, Took(h, g, n, x), NEW m \in Live(g), m \notin Below(h, x)
    PROVE  /\ Depth(g, m) = Depth(h, m)
           /\ \A r : m \in Below(g, r) <=> m \in Below(h, r)
<1> DEFINE K == Live(g) \ Below(h, x)
<1>1. IsHeap(g) /\ Len(g) = Len(h) /\ Live(g) \subseteq 1..Len(h) /\ x \in 1..Len(h)
  BY HeapNumbers DEF Took, Roots
<1>2. x \in Below(h, x)  BY <1>1, BelowIs
<1>3. \A k \in K : k \in 1..Len(h) /\ g[k].up = h[k].up  BY <1>1, <1>2 DEF Took
<1>4. \A k \in K : h[k].up # NULL => h[k].up \in K
  <2> SUFFICES ASSUME NEW k \in K, h[k].up # NULL PROVE h[k].up \in K  OBVIOUS
  <2>1. h[k].up \in Live(g)  BY <1>1, <1>3, UpIs
  <2>2. h[k].up \in Below(h, x) => k \in Below(h, x)  BY <1>1, <1>3, BelowIs
  <2> QED  BY <2>1, <2>2
<1>5. SameUps(h, g, K)  BY <1>1, <1>3, <1>4 DEF SameUps
<1>6. m \in K  OBVIOUS
<1> HIDE DEF K
<1> QED  BY <1>1, <1>5, <1>6, SameBelow

LEMMA TookTogether ==
    ASSUME NEW h, IsHeap(h), NEW n \in Live(h), NEW x \in Roots(h), n < x,
           NEW g, Took(h, g, n, x), NEW m \in Live(g), m \in Below(h, x)
    PROVE  /\ Depth(g, m) = Depth(h, m) + Depth(h, n)
           /\ \A r \in 1..Len(h) : r \notin Below(h, x) => (m \in Below(g, r) <=> n \in Below(h, r))
<1> DEFINE Fine(k) ==
              /\ Depth(g, k) = Depth(h, k) + Depth(h, n)
              /\ \A r \in 1..Len(h) : r \notin Below(h, x) => (k \in Below(g, r) <=> n \in Below(h, r))
           T == {k \in Nat : k \in Live(g) /\ k \in Below(h, x) /\ ~Fine(k)}
<1>0. /\ IsHeap(g) /\ Len(g) = Len(h) /\ Live(g) \subseteq 1..Len(h) /\ x \in 1..Len(h)
      /\ h[x].up = NULL /\ g[x].up = n /\ n \in Live(g) /\ n \in 1..Len(h) /\ n # NULL
  BY HeapNumbers DEF Took, Roots
<1>1. m \in Nat  BY <1>0, HeapNumbers
<1> SUFFICES ASSUME T # {} PROVE FALSE  BY <1>1
<1>2. T \in SUBSET Nat  OBVIOUS
<1>3. PICK k \in T : \A j \in T : k <= j  BY <1>2, LeastCounterexample
<1> HIDE DEF Fine
<1>4. k \in Nat /\ k \in Live(g) /\ k \in Below(h, x) /\ ~Fine(k)  BY <1>3
<1>5. k \in 1..Len(h)  BY <1>0, <1>4
<1>6. n \notin Below(h, x)
  <2>1. Below(h, x) \subseteq x..Len(h)  BY <1>0, BelowIs
  <2> QED  BY <2>1, <1>0, HeapNumbers
<1>7. Depth(g, n) = Depth(h, n) /\ \A r : n \in Below(g, r) <=> n \in Below(h, r)
  BY <1>0, <1>6, TookApart
<1>8. Depth(h, n) \in Nat  BY <1>0, DepthIs
<1>9. g[k].up # NULL
  <2>1. k = x \/ h[k].up # NULL  BY <1>0, <1>4, <1>5, BelowIs
  <2>2. k # x => g[k].up = h[k].up  BY <1>4 DEF Took
  <2> QED  BY <1>0, <2>1, <2>2
<1> DEFINE p == g[k].up
<1>10. p \in 1..Len(h) /\ p \in Nat /\ p < k /\ p \in Live(g)  BY <1>0, <1>5, <1>9, UpIs
<1>11. Depth(g, k) = Depth(g, p) + 1  BY <1>0, <1>5, <1>9, DepthIs
<1>12. \A r \in 1..Len(h) : k \in Below(g, r) <=> k = r \/ p \in Below(g, r)
  BY <1>0, <1>5, <1>9, BelowIs
<1>13. CASE k = x
  <2>1. p = n /\ Depth(h, k) = 1  BY <1>0, <1>13, DepthIs
  <2>2. Depth(g, k) = Depth(h, k) + Depth(h, n)  BY <1>7, <1>8, <1>11, <2>1
  <2>3. \A r \in 1..Len(h) : r \notin Below(h, x) => r # k  BY <1>4
  <2> QED  BY <1>4, <1>7, <1>12, <2>1, <2>2, <2>3 DEF Fine
<1>14. CASE k # x
  <2>1. h[k].up = p  BY <1>4, <1>14 DEF Took
  <2>2. p \in Below(h, x)  BY <1>0, <1>4, <1>5, <1>14, <2>1, BelowIs
  <2>3. ~(k <= p)  BY <1>4, <1>10
  <2>4. Fine(p)  BY <1>3, <1>10, <2>2, <2>3
  <2>5. Depth(h, k) = Depth(h, p) + 1 /\ Depth(h, p) \in Nat  BY <1>5, <1>9, <1>10, <2>1, DepthIs
  <2>6. Depth(g, k) = Depth(h, k) + Depth(h, n)  BY <1>8, <1>11, <2>4, <2>5 DEF Fine
  <2>7. \A r \in 1..Len(h) : r \notin Below(h, x) => r # k  BY <1>4
  <2> QED  BY <1>4, <1>12, <2>4, <2>6, <2>7 DEF Fine
<1> QED  BY <1>13, <1>14

\* The tree of a root after n has taken the root x.
LEMMA TookBounds ==
    ASSUME NEW h, IsHeap(h), NEW n \in Live(h), NEW x \in Roots(h), n < x,
           NEW g, Took(h, g, n, x), NEW r \in Roots(g),
           NEW limit \in Int, Bounded(h, r, limit),
           n \in Below(h, r) => Bounded(h, x, limit - Depth(h, n))
    PROVE  Bounded(g, r, limit)
<1>1. /\ IsHeap(g) /\ Roots(g) = Roots(h) \ {x} /\ Live(g) \subseteq 1..Len(h)
      /\ r \in Live(g) /\ r \in 1..Len(h) /\ r # x /\ h[r].up = NULL /\ x \in 1..Len(h)
      /\ n \in 1..Len(h)
  BY HeapNumbers DEF Took, Roots
<1>2. Below(g, r) \subseteq Live(g)  BY <1>1, BelowLives
<1>3. r \notin Below(h, x)  BY <1>1, RootAlone
<1> SUFFICES ASSUME NEW m \in Below(g, r) PROVE Depth(g, m) <= limit  BY DEF Bounded
<1>4. m \in Live(g)  BY <1>2
<1>5. CASE m \notin Below(h, x)
  <2>1. Depth(g, m) = Depth(h, m) /\ m \in Below(h, r)  BY <1>4, <1>5, TookApart
  <2> QED  BY <2>1 DEF Bounded
<1>6. CASE m \in Below(h, x)
  <2>1. Depth(g, m) = Depth(h, m) + Depth(h, n) /\ n \in Below(h, r)
    BY <1>1, <1>3, <1>4, <1>6, TookTogether
  <2>2. Depth(h, m) <= limit - Depth(h, n)  BY <1>6, <2>1 DEF Bounded
  <2>3. Depth(h, m) \in Nat /\ Depth(h, n) \in Nat  BY <1>1, <1>4, DepthIs
  <2> QED  BY <2>1, <2>2, <2>3
<1> QED  BY <1>5, <1>6

-----------------------------------------------------------------------------
(***************************************************************************)
(* The calls as the readers have them                                      *)
(***************************************************************************)
LEMMA SameCalls ==
    /\ \A h : O!Live(h) = Live(h) /\ J!Live(h) = Live(h)
    /\ \A h, n : O!Upward(h, n) = Upward(h, n) /\ J!Upward(h, n) = Upward(h, n)
    /\ \A type, value : O!Node(type, value) = Node(type, value) /\ J!Node(type, value) = Node(type, value)
    /\ O!Freed = Freed /\ J!Freed = Freed
    /\ \A S : O!Most(S) = Most(S) /\ J!Most(S) = Most(S)
    /\ \A h, n, name : /\ O!Positions(h, n, name) = Positions(h, n, name)
                       /\ J!Positions(h, n, name) = Positions(h, n, name)
    /\ \A h, n, x : /\ O!plist_array_append_item(h, n, x) = plist_array_append_item(h, n, x)
                    /\ J!plist_array_append_item(h, n, x) = plist_array_append_item(h, n, x)
<1>1. \A h : O!Live(h) = Live(h) /\ J!Live(h) = Live(h)  BY DEF O!Live, J!Live, Live
<1>2. \A h, n : O!Upward(h, n) = Upward(h, n) /\ J!Upward(h, n) = Upward(h, n)
  BY DEF O!Upward, J!Upward, Upward
<1>3. \A type, value : O!Node(type, value) = Node(type, value) /\ J!Node(type, value) = Node(type, value)
  BY DEF O!Node, J!Node, Node
<1>4. O!Freed = Freed /\ J!Freed = Freed  BY DEF O!Freed, J!Freed, Freed, O!Node, J!Node, Node
<1>5. \A S : O!Most(S) = Most(S) /\ J!Most(S) = Most(S)  BY DEF O!Most, J!Most, Most
<1>6. \A h, n, name : /\ O!Positions(h, n, name) = Positions(h, n, name)
                      /\ J!Positions(h, n, name) = Positions(h, n, name)
  BY DEF O!Positions, J!Positions, Positions
<1>7. \A h, n, x : /\ O!plist_array_append_item(h, n, x) = plist_array_append_item(h, n, x)
                   /\ J!plist_array_append_item(h, n, x) = plist_array_append_item(h, n, x)
  BY DEF O!plist_array_append_item, J!plist_array_append_item, plist_array_append_item
<1> QED  BY <1>1, <1>2, <1>3, <1>4, <1>5, <1>6, <1>7

LEMMA SameTrees ==
    /\ \A h, n : O!Below(h, n) = Below(h, n) /\ J!Below(h, n) = Below(h, n)
    /\ \A h, n : O!Depth(h, n) = Depth(h, n) /\ J!Depth(h, n) = Depth(h, n)
    /\ \A h, n : O!Levels(h, n) = Levels(h, n) /\ J!Levels(h, n) = Levels(h, n)
<1>1. \A h, n : O!Below(h, n) = Below(h, n) /\ J!Below(h, n) = Below(h, n)
  BY SameCalls DEF O!Below, J!Below, Below, O!ToSet, J!ToSet, ToSet
<1>2. \A h, n : O!Depth(h, n) = Depth(h, n) /\ J!Depth(h, n) = Depth(h, n)
  BY SameCalls DEF O!Depth, J!Depth, Depth
<1>3. \A h, n : O!Levels(h, n) = Levels(h, n) /\ J!Levels(h, n) = Levels(h, n)
  <2> SUFFICES ASSUME NEW h, NEW n PROVE O!Levels(h, n) = Levels(h, n) /\ J!Levels(h, n) = Levels(h, n)
    OBVIOUS
  <2>1. {Len(O!Upward(h, m)) : m \in O!Below(h, n)} = {Len(Upward(h, m)) : m \in Below(h, n)}
    BY <1>1, SameCalls
  <2>2. {Len(J!Upward(h, m)) : m \in J!Below(h, n)} = {Len(Upward(h, m)) : m \in Below(h, n)}
    BY <1>1, SameCalls
  <2> QED  BY <2>1, <2>2, SameCalls DEF O!Levels, J!Levels, Levels
<1> QED  BY <1>1, <1>2, <1>3

LEMMA SameFrees ==
    /\ \A h, n : O!plist_free(h, n) = plist_free(h, n) /\ J!plist_free(h, n) = plist_free(h, n)
    /\ \A h, nodes : O!free_all(h, nodes) = free_all(h, nodes) /\ J!free_all(h, nodes) = free_all(h, nodes)
    /\ \A h, n, x : O!within_limit(h, n, x) <=> within_limit(h, n, x)
    /\ \A h, n, name, x : /\ O!plist_dict_set_item(h, n, name, x) = plist_dict_set_item(h, n, name, x)
                          /\ J!plist_dict_set_item(h, n, name, x) = plist_dict_set_item(h, n, name, x)
<1>1. \A h, n : O!plist_free(h, n) = plist_free(h, n) /\ J!plist_free(h, n) = plist_free(h, n)
  <2> SUFFICES ASSUME NEW h, NEW n
               PROVE  O!plist_free(h, n) = plist_free(h, n) /\ J!plist_free(h, n) = plist_free(h, n)
    OBVIOUS
  <2>1. O!Below(h, n) = Below(h, n) /\ J!Below(h, n) = Below(h, n)  BY SameTrees
  <2>2. O!Freed = Freed /\ J!Freed = Freed  BY SameCalls
  <2>3. O!plist_free(h, n) = plist_free(h, n)  BY ONLY <2>1, <2>2 DEF O!plist_free, plist_free
  <2>4. J!plist_free(h, n) = plist_free(h, n)  BY ONLY <2>1, <2>2 DEF J!plist_free, plist_free
  <2> QED  BY ONLY <2>3, <2>4
<1>2. \A h, nodes : O!free_all(h, nodes) = free_all(h, nodes) /\ J!free_all(h, nodes) = free_all(h, nodes)
  <2> SUFFICES ASSUME NEW h, NEW nodes
               PROVE  O!free_all(h, nodes) = free_all(h, nodes) /\ J!free_all(h, nodes) = free_all(h, nodes)
    OBVIOUS
  <2>1. {O!Below(h, n) : n \in nodes} = {Below(h, n) : n \in nodes}  BY SameTrees
  <2>2. {J!Below(h, n) : n \in nodes} = {Below(h, n) : n \in nodes}  BY SameTrees
  <2> QED  BY <2>1, <2>2, SameCalls DEF O!free_all, J!free_all, free_all
<1>3. \A h, n, x : O!within_limit(h, n, x) <=> within_limit(h, n, x)
  BY SameTrees DEF O!within_limit, within_limit
<1>4. \A h, n, name, x : /\ O!plist_dict_set_item(h, n, name, x) = plist_dict_set_item(h, n, name, x)
                         /\ J!plist_dict_set_item(h, n, name, x) = plist_dict_set_item(h, n, name, x)
  <2> SUFFICES ASSUME NEW h, NEW n, NEW name, NEW x
               PROVE  /\ O!plist_dict_set_item(h, n, name, x) = plist_dict_set_item(h, n, name, x)
                      /\ J!plist_dict_set_item(h, n, name, x) = plist_dict_set_item(h, n, name, x)
    OBVIOUS
  <2> DEFINE i == CHOOSE i \in Positions(h, n, name) : TRUE
             freed == plist_free(h, h[n].kids[i])
             more == plist_array_append_item(h, n, x)
  <2>1. plist_dict_set_item(h, n, name, x) =
           IF Positions(h, n, name) = {} THEN [more EXCEPT ![x].key = name]
           ELSE [freed EXCEPT ![n].kids = [h[n].kids EXCEPT ![i] = x], ![x].up = n, ![x].key = name]
    BY DEF plist_dict_set_item
  <2>2. O!plist_dict_set_item(h, n, name, x) =
           IF Positions(h, n, name) = {} THEN [more EXCEPT ![x].key = name]
           ELSE [freed EXCEPT ![n].kids = [h[n].kids EXCEPT ![i] = x], ![x].up = n, ![x].key = name]
    <3>1. O!Positions(h, n, name) = Positions(h, n, name)  BY SameCalls
    <3>2. (CHOOSE k \in O!Positions(h, n, name) : TRUE) = i  BY <3>1
    <3>3. O!plist_array_append_item(h, n, x) = more  BY SameCalls
    <3>4. O!plist_free(h, h[n].kids[i]) = freed  BY <1>1
    <3> HIDE DEF i, more, freed
    <3> QED  BY ONLY <3>1, <3>2, <3>3, <3>4 DEF O!plist_dict_set_item
  <2>3. J!plist_dict_set_item(h, n, name, x) =
           IF Positions(h, n, name) = {} THEN [more EXCEPT ![x].key = name]
           ELSE [freed EXCEPT ![n].kids = [h[n].kids EXCEPT ![i] = x], ![x].up = n, ![x].key = name]
    <3>1. J!Positions(h, n, name) = Positions(h, n, name)  BY SameCalls
    <3>2. (CHOOSE k \in J!Positions(h, n, name) : TRUE) = i  BY <3>1
    <3>3. J!plist_array_append_item(h, n, x) = more  BY SameCalls
    <3>4. J!plist_free(h, h[n].kids[i]) = freed  BY <1>1
    <3> HIDE DEF i, more, freed
    <3> QED  BY ONLY <3>1, <3>2, <3>3, <3>4 DEF J!plist_dict_set_item
  <2> QED  BY ONLY <2>1, <2>2, <2>3
<1> QED  BY <1>1, <1>2, <1>3, <1>4

-----------------------------------------------------------------------------
(***************************************************************************)
(* OpenStep: who owns what was begun                                       *)
(***************************************************************************)
IsFrame(f) == f = [type |-> f.type, node |-> f.node, key |-> f.key]

IsFrames(fs) ==
    /\ \E S : fs \in Seq(S)
    /\ \A i \in 1..Len(fs) : IsFrame(fs[i]) /\ fs[i].type \in {"dict", "array", "strings"}

\* Each container being filled is a root, and so is the key of a pair that was begun.
\* An array has no key. A container was allocated after the one it is in and its key.
Stacked(h, fs) ==
    /\ \A i \in 1..Len(fs) :
          /\ fs[i].node \in Roots(h)
          /\ fs[i].key # NULL =>
                fs[i].type # "array" /\ fs[i].key \in Roots(h) /\ fs[i].node < fs[i].key
          /\ IF fs[i].type = "strings" THEN i = 1 ELSE fs[i].type = h[fs[i].node].type
    /\ \A i, j \in 1..Len(fs) : i < j =>
          /\ fs[i].node < fs[j].node
          /\ fs[i].key # NULL => fs[i].key < fs[j].node

\* The value that was returned is a root, too, and the latest.
Latest(h, fs, r) ==
    r # NULL =>
        /\ r \in Roots(h)
        /\ \A i \in 1..Len(fs) : fs[i].node < r /\ (fs[i].key # NULL => fs[i].key < r)

Owned(fs, r) ==
    {fs[i].node : i \in DOMAIN fs} \cup (({fs[i].key : i \in DOMAIN fs} \cup {r}) \ {NULL})

\* The dict of strings data is not counted.
Uncounted(fs) == IF fs # <<>> /\ fs[1].type = "strings" THEN 1 ELSE 0

\* Below each container and value there are no more levels than the limit leaves.
InBounds(h, fs, r, d) ==
    /\ \A i \in 1..Len(fs) : Bounded(h, fs[i].node, MaxNesting + Uncounted(fs) + 1 - i)
    /\ r # NULL => Bounded(h, r, MaxNesting - d)

Holds(h, fs, r, d) ==
    /\ IsHeap(h) /\ IsFrames(fs) /\ Stacked(h, fs) /\ Latest(h, fs, r)
    /\ Roots(h) = Owned(fs, r)
    /\ d = Len(fs) - Uncounted(fs) /\ d <= MaxNesting
    /\ InBounds(h, fs, r, d)

LEMMA FrameNumbers ==
    ASSUME NEW fs, IsFrames(fs)
    PROVE  /\ Len(fs) \in Nat /\ DOMAIN fs = 1..Len(fs)
           /\ fs = [i \in 1..Len(fs) |-> fs[i]]
           /\ fs # <<>> <=> Len(fs) > 0
           /\ Uncounted(fs) \in {0, 1} /\ Len(fs) - Uncounted(fs) \in Nat
<1>1. PICK S : fs \in Seq(S)  BY DEF IsFrames
<1>2. Len(fs) \in Nat /\ DOMAIN fs = 1..Len(fs) /\ fs \in [1..Len(fs) -> S]  BY <1>1, LenProperties
<1>3. fs # <<>> <=> Len(fs) > 0  BY <1>1, <1>2, EmptySeq
<1>4. fs = [i \in 1..Len(fs) |-> fs[i]]  BY <1>2
<1> QED  BY <1>2, <1>3, <1>4 DEF Uncounted

\* The roots and the numbers of the frames.
LEMMA FrameRoots ==
    ASSUME NEW h, NEW fs, NEW r, NEW d, Holds(h, fs, r, d)
    PROVE  /\ \A i \in 1..Len(fs) : /\ fs[i].node \in Roots(h) /\ fs[i].node \in 1..Len(h)
                                    /\ fs[i].node \in Nat /\ fs[i].node # NULL
                                    /\ h[fs[i].node].up = NULL /\ h[fs[i].node].type # "freed"
                                    /\ fs[i].key # NULL => fs[i].key \in Roots(h) /\ fs[i].key \in Nat
                                                           /\ fs[i].key \in 1..Len(h)
           /\ r # NULL => r \in Roots(h) /\ r \in Nat /\ r \in 1..Len(h)
<1>1. \A m \in Roots(h) : /\ m \in 1..Len(h) /\ m \in Nat /\ m # NULL
                          /\ h[m].up = NULL /\ h[m].type # "freed"
  BY HeapNumbers DEF Holds, Roots
<1> QED  BY <1>1 DEF Holds, Stacked, Latest

\* The innermost container has key k.
InnerKey(fs, gs, k) == gs = [fs EXCEPT ![Len(fs)].key = k]

LEMMA KeyChanges ==
    ASSUME NEW fs, IsFrames(fs), fs # <<>>, NEW k, NEW gs, InnerKey(fs, gs, k)
    PROVE  /\ IsFrames(gs) /\ Len(gs) = Len(fs)
           /\ \A i \in 1..Len(fs) : gs[i].node = fs[i].node /\ gs[i].type = fs[i].type
           /\ \A i \in 1..Len(fs) : gs[i].key = IF i = Len(fs) THEN k ELSE fs[i].key
<1> DEFINE n == Len(fs)
<1>1. n \in Nat /\ n > 0 /\ DOMAIN fs = 1..n  BY FrameNumbers
<1>2. fs = [i \in 1..n |-> fs[i]]  BY FrameNumbers
<1>3. /\ DOMAIN gs = 1..n /\ gs = [i \in 1..n |-> gs[i]]
      /\ \A i \in 1..n : i # n => gs[i] = fs[i]
      /\ gs[n] = [fs[n] EXCEPT !.key = k]
  <2> DEFINE g == [fs[n] EXCEPT !.key = k]
  <2>1. gs = [fs EXCEPT ![n] = g]  BY DEF InnerKey
  <2> HIDE DEF g, n
  <2>2. n \in 1..n  BY <1>1
  <2>3. /\ DOMAIN gs = 1..n /\ gs = [i \in 1..n |-> gs[i]]
        /\ \A i \in 1..n : i # n => gs[i] = fs[i]
        /\ gs[n] = g
    BY ONLY <1>1, <1>2, <2>1, <2>2
  <2> QED  BY <2>3 DEF g, n
<1>4. (\E S : gs \in Seq(S)) /\ Len(gs) = n  BY <1>1, <1>3, SomeSeq
<1>5. n \in 1..n  BY <1>1
<1>6. fs[n] = [type |-> fs[n].type, node |-> fs[n].node, key |-> fs[n].key]
  BY <1>5 DEF IsFrames, IsFrame
<1>7. /\ IsFrame(gs[n]) /\ gs[n].node = fs[n].node /\ gs[n].type = fs[n].type /\ gs[n].key = k
  <2> DEFINE f == fs[n]
             g == gs[n]
  <2>1. f = [type |-> f.type, node |-> f.node, key |-> f.key]  BY <1>6
  <2>2. g = [f EXCEPT !.key = k]  BY <1>3
  <2> HIDE DEF f, g
  <2>3. g = [type |-> f.type, node |-> f.node, key |-> k]  BY ONLY <2>1, <2>2
  <2>4. IsFrame(g) /\ g.node = f.node /\ g.type = f.type /\ g.key = k  BY ONLY <2>3 DEF IsFrame
  <2> QED  BY <2>4 DEF f, g
<1>8. \A i \in 1..n : IsFrame(gs[i]) /\ gs[i].type \in {"dict", "array", "strings"}
  BY <1>3, <1>5, <1>7 DEF IsFrames
<1>9. IsFrames(gs)  BY <1>4, <1>8 DEF IsFrames
<1> QED  BY <1>3, <1>4, <1>7, <1>9

\* Steps of the owners. A value was allocated:
LEMMA LeafHolds ==
    ASSUME NEW h, NEW fs, NEW d, Holds(h, fs, NULL, d), d + 1 <= MaxNesting,
           NEW g, NEW type, Grown(h, g, type)
    PROVE  Holds(g, fs, Len(h) + 1, d)
<1> DEFINE r == Len(h) + 1
<1>1. /\ IsHeap(h) /\ IsFrames(fs) /\ Stacked(h, fs) /\ InBounds(h, fs, NULL, d)
      /\ Roots(h) = Owned(fs, NULL) /\ d = Len(fs) - Uncounted(fs)
  BY DEF Holds
<1>2. Len(h) \in Nat /\ NULL \notin 1..Len(h)  BY <1>1, HeapNumbers
<1>3. /\ IsHeap(g) /\ Len(g) = r /\ Roots(g) = Roots(h) \cup {r}
      /\ \A m \in 1..Len(h) : g[m] = h[m]
  BY DEF Grown
<1>4. r # NULL  BY <1>2, <1>3, HeapNumbers
<1>5. Stacked(g, fs)  BY <1>1, <1>3, FrameRoots DEF Stacked
<1>6. Latest(g, fs, r)
  <2>1. \A m \in 1..Len(h) : m < r  BY <1>2
  <2> QED  BY <1>3, <2>1, FrameRoots DEF Latest
<1>7. Roots(g) = Owned(fs, r)  BY <1>1, <1>3, <1>4 DEF Owned
<1>8. InBounds(g, fs, r, d)
  <2>1. \A i \in 1..Len(fs) : Bounded(g, fs[i].node, MaxNesting + Uncounted(fs) + 1 - i)
    BY <1>1, GrownBounds, FrameRoots DEF InBounds
  <2>2. Bounded(g, r, 1)  BY <1>1, GrownBounds
  <2>3. d \in Nat /\ MaxNesting \in Nat  BY <1>1, FrameNumbers, MemoryAssumption
  <2>4. Below(g, r) = {r}  BY <1>1, GrownBounds
  <2>5. Depth(g, r) \in Nat  BY <1>2, <1>3, DepthIs
  <2>6. Bounded(g, r, MaxNesting - d)  BY <2>2, <2>3, <2>4, <2>5 DEF Bounded
  <2> QED  BY <2>1, <2>6 DEF InBounds
<1> QED  BY <1>1, <1>3, <1>5, <1>6, <1>7, <1>8 DEF Holds

\* A container was allocated and is filled next:
LEMMA ContainerHolds ==
    ASSUME NEW h, NEW fs, NEW d, Holds(h, fs, NULL, d), d + 1 <= MaxNesting,
           NEW g, NEW type \in {"dict", "array"}, Grown(h, g, type),
           NEW f, f = [type |-> type, node |-> Len(h) + 1, key |-> NULL]
    PROVE  Holds(g, Append(fs, f), NULL, d + 1)
<1> DEFINE r == Len(h) + 1
           n == Len(fs)
           gs == Append(fs, f)
<1>1. /\ IsHeap(h) /\ IsFrames(fs) /\ Stacked(h, fs) /\ InBounds(h, fs, NULL, d)
      /\ Roots(h) = Owned(fs, NULL) /\ d = n - Uncounted(fs)
  BY DEF Holds
<1>2. Len(h) \in Nat  BY <1>1, HeapNumbers
<1>3. /\ IsHeap(g) /\ Len(g) = r /\ Roots(g) = Roots(h) \cup {r} /\ g[r].type = type
      /\ \A m \in 1..Len(h) : g[m] = h[m]
  BY DEF Grown
<1>4. n \in Nat /\ DOMAIN fs = 1..n /\ (fs # <<>> <=> n > 0) /\ Uncounted(fs) \in {0, 1}
  BY <1>1, FrameNumbers
<1>5. PICK S : fs \in Seq(S)  BY <1>1 DEF IsFrames
<1>6. gs \in Seq(S \cup {f}) /\ Len(gs) = n + 1 /\ gs[n + 1] = f /\ \A i \in 1..n : gs[i] = fs[i]
  <2>1. fs \in Seq(S \cup {f})  BY <1>5
  <2> QED  BY <2>1, <1>4, AppendProperties
<1>7. IsFrame(f) /\ f.type = type /\ f.node = r /\ f.key = NULL  BY DEF IsFrame
<1>8. 1..(n + 1) = 1..n \cup {n + 1} /\ DOMAIN gs = 1..(n + 1)
  BY <1>4, <1>6, LenProperties
<1>9. IsFrames(gs)
  <2>1. \A i \in 1..(n + 1) : IsFrame(gs[i]) /\ gs[i].type \in {"dict", "array", "strings"}
    BY <1>1, <1>6, <1>7, <1>8 DEF IsFrames
  <2> QED  BY <1>6, <2>1 DEF IsFrames
<1>10. \A m \in 1..Len(h) : m < r  BY <1>2
<1>11. Stacked(g, gs)
  <2>1. \A i \in 1..n :
           /\ gs[i].node \in Roots(g) /\ gs[i].node < r
           /\ gs[i].key # NULL => gs[i].type # "array" /\ gs[i].key \in Roots(g) /\ gs[i].node < gs[i].key
                                  /\ gs[i].key < r
           /\ IF gs[i].type = "strings" THEN i = 1 ELSE gs[i].type = g[gs[i].node].type
    BY <1>1, <1>3, <1>6, <1>10, FrameRoots DEF Stacked
  <2>2. \A i, j \in 1..n : i < j =>
           gs[i].node < gs[j].node /\ (gs[i].key # NULL => gs[i].key < gs[j].node)
    BY <1>1, <1>6 DEF Stacked
  <2>3. \A i \in 1..n : ~(n + 1 < i) /\ i # n + 1  BY <1>4
  <2>4. ~(n + 1 < n + 1)  BY <1>4
  <2> HIDE DEF r, gs, n
  <2>5. \A i \in 1..(n + 1) :
          /\ gs[i].node \in Roots(g)
          /\ gs[i].key # NULL => gs[i].type # "array" /\ gs[i].key \in Roots(g) /\ gs[i].node < gs[i].key
          /\ IF gs[i].type = "strings" THEN i = 1 ELSE gs[i].type = g[gs[i].node].type
    BY ONLY <1>3, <1>6, <1>7, <1>8, <2>1
  <2>6. \A i, j \in 1..(n + 1) : i < j =>
          gs[i].node < gs[j].node /\ (gs[i].key # NULL => gs[i].key < gs[j].node)
    BY ONLY <1>6, <1>7, <1>8, <2>1, <2>2, <2>3, <2>4
  <2> QED  BY <1>6, <2>5, <2>6 DEF Stacked
<1>12. Roots(g) = Owned(gs, NULL)
  <2>1. {gs[i].node : i \in 1..(n + 1)} = {fs[i].node : i \in 1..n} \cup {r}  BY <1>6, <1>7, <1>8
  <2>2. {gs[i].key : i \in 1..(n + 1)} = {fs[i].key : i \in 1..n} \cup {NULL}  BY <1>6, <1>7, <1>8
  <2>3. Roots(h) = {fs[i].node : i \in 1..n} \cup (({fs[i].key : i \in 1..n} \cup {NULL}) \ {NULL})
    BY <1>1, <1>4 DEF Owned
  <2>4. Owned(gs, NULL) = {gs[i].node : i \in 1..(n + 1)} \cup (({gs[i].key : i \in 1..(n + 1)} \cup {NULL}) \ {NULL})
    BY <1>8 DEF Owned
  <2> HIDE DEF gs, n, r
  <2> QED  BY <2>1, <2>2, <2>3, <2>4, <1>3
<1>13. Uncounted(gs) = Uncounted(fs)
  <2>1. gs # <<>>  BY <1>6, <1>4
  <2>2. CASE n = 0
    <3>1. gs[1] = f /\ fs = <<>>  BY <1>4, <1>6, <2>2
    <3> QED  BY <3>1, <1>7 DEF Uncounted
  <2>3. CASE n > 0
    <3>1. gs[1] = fs[1] /\ fs # <<>>  BY <1>4, <1>6, <2>3
    <3> QED  BY <2>1, <3>1 DEF Uncounted
  <2> QED  BY <1>4, <2>2, <2>3
<1>14. InBounds(g, gs, NULL, d + 1)
  <2>1. \A i \in 1..n : Bounded(g, gs[i].node, MaxNesting + Uncounted(fs) + 1 - i)
    BY <1>1, <1>6, GrownBounds, FrameRoots DEF InBounds
  <2>2. Bounded(g, r, 1) /\ Below(g, r) = {r}  BY <1>1, GrownBounds
  <2>3. Depth(g, r) \in Nat  BY <1>2, <1>3, DepthIs
  <2>4. MaxNesting \in Nat  BY MemoryAssumption
  <2>5. Bounded(g, r, MaxNesting + Uncounted(fs) + 1 - (n + 1))
    BY <1>1, <1>4, <2>2, <2>3, <2>4 DEF Bounded
  <2> HIDE DEF gs, n, r
  <2>6. \A i \in 1..(n + 1) : Bounded(g, gs[i].node, MaxNesting + Uncounted(fs) + 1 - i)
    BY <1>6, <1>7, <1>8, <2>1, <2>5
  <2> QED  BY <1>6, <1>13, <2>6 DEF InBounds
<1>15. Latest(g, gs, NULL)  BY DEF Latest
<1>16. d + 1 = Len(gs) - Uncounted(gs)  BY <1>1, <1>4, <1>6, <1>13
<1> QED  BY <1>3, <1>9, <1>11, <1>12, <1>14, <1>15, <1>16 DEF Holds

\* The innermost container is complete and returned:
LEMMA CloseHolds ==
    ASSUME NEW h, NEW fs, NEW d, Holds(h, fs, NULL, d), fs # <<>>,
           NEW f, f = fs[Len(fs)], f.key = NULL, f.type # "strings",
           NEW gs, gs = SubSeq(fs, 1, Len(fs) - 1)
    PROVE  Holds(h, gs, f.node, d - 1)
<1> DEFINE n == Len(fs)
<1>1. /\ IsHeap(h) /\ IsFrames(fs) /\ Stacked(h, fs) /\ InBounds(h, fs, NULL, d)
      /\ Roots(h) = Owned(fs, NULL) /\ d = n - Uncounted(fs) /\ d <= MaxNesting
  BY DEF Holds
<1>2. n \in Nat /\ n > 0 /\ DOMAIN fs = 1..n /\ Uncounted(fs) \in {0, 1}  BY <1>1, FrameNumbers
<1>3. PICK S : fs \in Seq(S)  BY <1>1 DEF IsFrames
<1>4. gs \in Seq(S) /\ Len(gs) = n - 1 /\ \A i \in 1..(n - 1) : gs[i] = fs[i]
  BY <1>2, <1>3, SubSeqProperties
<1>5. 1..n = 1..(n - 1) \cup {n} /\ DOMAIN gs = 1..(n - 1)  BY <1>2, <1>4, LenProperties
<1>6. IsFrames(gs)  BY <1>1, <1>4, <1>5 DEF IsFrames
<1>7. Stacked(h, gs)
  <2>1. 1..(n - 1) \subseteq 1..n  BY <1>2
  <2> QED  BY ONLY <1>1, <1>4, <2>1 DEF Stacked
<1>8. f.node \in Roots(h) /\ f.node # NULL  BY <1>2, FrameRoots
<1>9. Latest(h, gs, f.node)
  <2>1. \A i \in 1..(n - 1) : i \in 1..n /\ i < n  BY <1>2
  <2>2. n \in 1..n  BY <1>2
  <2>3. \A i \in 1..(n - 1) : fs[i].node < f.node /\ (fs[i].key # NULL => fs[i].key < f.node)
    BY <1>1, <2>1, <2>2 DEF Stacked
  <2> QED  BY <1>4, <1>8, <2>3 DEF Latest
<1>10. Roots(h) = Owned(gs, f.node)
  <2>1. {fs[i].node : i \in 1..n} = {gs[i].node : i \in 1..(n - 1)} \cup {f.node}  BY <1>4, <1>5
  <2>2. {fs[i].key : i \in 1..n} = {gs[i].key : i \in 1..(n - 1)} \cup {NULL}  BY <1>4, <1>5
  <2>3. Roots(h) = {fs[i].node : i \in 1..n} \cup (({fs[i].key : i \in 1..n} \cup {NULL}) \ {NULL})
    BY <1>1, <1>2 DEF Owned
  <2>4. Owned(gs, f.node)
          = {gs[i].node : i \in 1..(n - 1)} \cup (({gs[i].key : i \in 1..(n - 1)} \cup {f.node}) \ {NULL})
    BY <1>5 DEF Owned
  <2> HIDE DEF n
  <2> QED  BY ONLY <2>1, <2>2, <2>3, <2>4, <1>8
<1>11. Uncounted(gs) = Uncounted(fs)
  <2>1. CASE n = 1
    <3>1. gs = <<>>  BY <1>4, <2>1, EmptySeq
    <3> QED  BY <2>1, <3>1 DEF Uncounted
  <2>2. CASE n > 1
    <3>1. 1 \in 1..(n - 1) /\ n - 1 # 0  BY <1>2, <2>2
    <3>2. gs[1] = fs[1]  BY <1>4, <3>1
    <3>3. gs # <<>>  BY <1>4, <3>1, EmptySeq
    <3>4. fs # <<>>  OBVIOUS
    <3> QED  BY <3>2, <3>3, <3>4 DEF Uncounted
  <2> QED  BY <1>2, <2>1, <2>2
<1>12. InBounds(h, gs, f.node, d - 1)
  <2>1. \A i \in 1..n : Bounded(h, fs[i].node, MaxNesting + Uncounted(fs) + 1 - i)
    BY <1>1 DEF InBounds
  <2>2. MaxNesting \in Nat  BY MemoryAssumption
  <2>3. MaxNesting + Uncounted(fs) + 1 - n = MaxNesting - (d - 1)  BY <1>1, <1>2, <2>2
  <2>4. Bounded(h, f.node, MaxNesting - (d - 1))  BY <1>5, <2>1, <2>3
  <2> QED  BY <1>4, <1>5, <1>11, <2>1, <2>4 DEF InBounds
<1>13. d - 1 = Len(gs) - Uncounted(gs) /\ d - 1 <= MaxNesting
  BY <1>1, <1>2, <1>4, <1>11, MemoryAssumption
<1> QED  BY <1>1, <1>6, <1>7, <1>9, <1>10, <1>12, <1>13 DEF Holds

\* The value that was returned is the key of a pair:
LEMMA KeyHolds ==
    ASSUME NEW h, NEW fs, NEW r, NEW d, Holds(h, fs, r, d), fs # <<>>, r # NULL,
           fs[Len(fs)].type # "array", fs[Len(fs)].key = NULL,
           NEW gs, InnerKey(fs, gs, r)
    PROVE  Holds(h, gs, NULL, d)
<1> DEFINE n == Len(fs)
<1>1. /\ IsHeap(h) /\ IsFrames(fs) /\ Stacked(h, fs) /\ InBounds(h, fs, r, d) /\ Latest(h, fs, r)
      /\ Roots(h) = Owned(fs, r) /\ d = n - Uncounted(fs) /\ d <= MaxNesting
  BY DEF Holds
<1>2. n \in Nat /\ n > 0 /\ DOMAIN fs = 1..n  BY <1>1, FrameNumbers
<1>3. /\ IsFrames(gs) /\ Len(gs) = n
      /\ \A i \in 1..n : gs[i].node = fs[i].node /\ gs[i].type = fs[i].type
      /\ \A i \in 1..n : gs[i].key = IF i = n THEN r ELSE fs[i].key
  BY <1>1, KeyChanges
<1>4. DOMAIN gs = 1..n /\ gs # <<>>  BY <1>2, <1>3, FrameNumbers
<1> HIDE DEF n
<1>5. n \in 1..n /\ 1 \in 1..n /\ \A j \in 1..n : ~(n < j)  BY <1>2
<1>6. Stacked(h, gs)
  <2>1. \A i \in 1..n :
          /\ gs[i].node \in Roots(h)
          /\ gs[i].key # NULL => gs[i].type # "array" /\ gs[i].key \in Roots(h) /\ gs[i].node < gs[i].key
          /\ IF gs[i].type = "strings" THEN i = 1 ELSE gs[i].type = h[gs[i].node].type
    BY <1>1, <1>3, <1>5 DEF Stacked, Latest, n
  <2>2. \A i, j \in 1..n : i < j =>
          gs[i].node < gs[j].node /\ (gs[i].key # NULL => gs[i].key < gs[j].node)
    <3>1. \A i, j \in 1..n : i < j => i # n  BY <1>5
    <3> QED  BY <1>1, <1>3, <3>1 DEF Stacked, n
  <2> QED  BY <1>3, <2>1, <2>2 DEF Stacked
<1>7. Roots(h) = Owned(gs, NULL)
  <2>1. {gs[i].node : i \in 1..n} = {fs[i].node : i \in 1..n}  BY <1>3
  <2>2. ({gs[i].key : i \in 1..n} \cup {NULL}) \ {NULL} = ({fs[i].key : i \in 1..n} \cup {r}) \ {NULL}
    BY <1>3, <1>5 DEF n
  <2> QED  BY <2>1, <2>2, <1>1, <1>2, <1>4 DEF Owned
<1>8. Uncounted(gs) = Uncounted(fs)  BY <1>3, <1>4, <1>5 DEF Uncounted
<1>9. InBounds(h, gs, NULL, d)  BY <1>1, <1>3, <1>8 DEF InBounds, n
<1>10. Latest(h, gs, NULL)  BY DEF Latest
<1> QED  BY <1>1, <1>3, <1>6, <1>7, <1>8, <1>9, <1>10 DEF Holds

\* The innermost container is the root the value is given to, and takes it within the limit:
LEMMA InnerTakes ==
    ASSUME NEW h, NEW fs, NEW r, NEW d, Holds(h, fs, r, d), fs # <<>>, r # NULL,
           NEW n, n = fs[Len(fs)].node
    PROVE  /\ n \in Live(h) /\ n \in Roots(h) /\ r \in Roots(h) /\ n < r
           /\ within_limit(h, n, r)
<1>1. /\ IsHeap(h) /\ IsFrames(fs) /\ InBounds(h, fs, r, d) /\ Latest(h, fs, r)
      /\ d = Len(fs) - Uncounted(fs) /\ d <= MaxNesting
  BY DEF Holds
<1>2. Len(fs) \in 1..Len(fs) /\ d \in Nat  BY <1>1, FrameNumbers
<1>3. n \in Roots(h) /\ r \in Roots(h) /\ n < r /\ n \in Live(h) /\ n \in 1..Len(h) /\ h[n].up = NULL
  BY <1>1, <1>2, FrameRoots DEF Latest, Roots
<1>4. Depth(h, n) = 1  BY <1>1, <1>3, DepthIs
<1>5. MaxNesting \in Nat /\ MaxNesting - d \in Nat  BY <1>1, <1>2, MemoryAssumption
<1>6. Levels(h, r) \in Nat /\ Levels(h, r) <= MaxNesting - d
  BY <1>1, <1>3, <1>5, RootLevels DEF InBounds
<1>7. within_limit(h, n, r)  BY <1>2, <1>4, <1>5, <1>6 DEF within_limit
<1> QED  BY <1>3, <1>7

LEMMA TakenHolds ==
    ASSUME NEW h, NEW fs, NEW r, NEW d, Holds(h, fs, r, d), fs # <<>>, r # NULL,
           NEW n, n = fs[Len(fs)].node, NEW g, Took(h, g, n, r)
    PROVE  Holds(g, fs, NULL, d)
<1>1. /\ IsHeap(h) /\ IsFrames(fs) /\ Stacked(h, fs) /\ InBounds(h, fs, r, d) /\ Latest(h, fs, r)
      /\ Roots(h) = Owned(fs, r) /\ d = Len(fs) - Uncounted(fs) /\ d <= MaxNesting
  BY DEF Holds
<1>2. /\ Len(fs) \in Nat /\ DOMAIN fs = 1..Len(fs) /\ Len(fs) \in 1..Len(fs)
      /\ Uncounted(fs) \in {0, 1} /\ MaxNesting \in Nat
  BY <1>1, FrameNumbers, MemoryAssumption
<1>3. n \in Live(h) /\ n \in Roots(h) /\ r \in Roots(h) /\ n < r  BY InnerTakes
<1>4. /\ IsHeap(g) /\ Roots(g) = Roots(h) \ {r} /\ Roots(g) \subseteq Live(g)
      /\ \A m \in Live(g) : g[m].type = h[m].type
  BY DEF Took, Roots
<1>5. \A i \in 1..Len(fs) : fs[i].node # r /\ fs[i].key # r
  BY <1>1, FrameRoots DEF Latest
<1>6. Stacked(g, fs)  BY <1>1, <1>4, <1>5 DEF Stacked
<1>7. Roots(g) = Owned(fs, NULL)
  BY <1>1, <1>2, <1>4, <1>5 DEF Owned
<1>8. InBounds(g, fs, NULL, d)
  <2> SUFFICES ASSUME NEW i \in 1..Len(fs)
               PROVE  Bounded(g, fs[i].node, MaxNesting + Uncounted(fs) + 1 - i)
    BY DEF InBounds
  <2> DEFINE limit == MaxNesting + Uncounted(fs) + 1 - i
  <2>1. Bounded(h, fs[i].node, limit) /\ Bounded(h, r, MaxNesting - d)  BY <1>1 DEF InBounds
  <2>2. fs[i].node \in Roots(g) /\ fs[i].node \in Roots(h) /\ fs[i].node \in 1..Len(h)
    BY <1>6, FrameRoots DEF Stacked
  <2>3. n \in 1..Len(h) /\ h[n].up = NULL  BY <1>1, <1>3, HeapNumbers DEF Roots
  <2>4. limit \in Int  BY <1>2
  <2>5. n \in Below(h, fs[i].node) => Bounded(h, r, limit - Depth(h, n))
    <3> HAVE n \in Below(h, fs[i].node)
    <3>1. n = fs[i].node  BY <1>1, <2>2, <2>3, RootAlone
    <3>2. i = Len(fs)
      <4>1. \A j \in 1..Len(fs) : j < Len(fs) => fs[j].node < fs[Len(fs)].node
        BY <1>1, <1>2 DEF Stacked
      <4>2. fs[i].node \in Nat  BY FrameRoots
      <4>3. ~(fs[i].node < fs[Len(fs)].node)  BY <3>1, <4>2
      <4>4. ~(i < Len(fs))  BY <4>1, <4>3
      <4>5. i \in Nat /\ i <= Len(fs) /\ Len(fs) \in Nat  BY <1>2
      <4> DEFINE l == Len(fs)
      <4>6. ~(i < l) /\ i \in Nat /\ i <= l /\ l \in Nat  BY <4>4, <4>5
      <4> HIDE DEF l
      <4>7. i = l  BY ONLY <4>6
      <4> QED  BY <4>7 DEF l
    <3>3. Depth(h, n) = 1  BY <1>1, <2>3, DepthIs
    <3>4. limit - Depth(h, n) = MaxNesting - d  BY <1>1, <1>2, <3>2, <3>3
    <3> QED  BY <2>1, <3>4
  <2> HIDE DEF limit
  <2>6. Bounded(g, fs[i].node, limit)  BY <1>1, <1>3, <2>1, <2>2, <2>4, <2>5, TookBounds
  <2> QED  BY <2>6 DEF limit
<1>9. Latest(g, fs, NULL)  BY DEF Latest
<1> QED  BY <1>1, <1>4, <1>6, <1>7, <1>8, <1>9 DEF Holds

\* The key of a pair that is complete is freed:
LEMMA PairHolds ==
    ASSUME NEW h, NEW fs, NEW d, Holds(h, fs, NULL, d), fs # <<>>,
           NEW k, k = fs[Len(fs)].key, k # NULL,
           NEW gs, InnerKey(fs, gs, NULL)
    PROVE  Holds(free_all(h, {k}), gs, NULL, d)
<1> DEFINE n == Len(fs)
<1>1. /\ IsHeap(h) /\ IsFrames(fs) /\ Stacked(h, fs) /\ InBounds(h, fs, NULL, d)
      /\ Roots(h) = Owned(fs, NULL) /\ d = n - Uncounted(fs) /\ d <= MaxNesting
  BY DEF Holds
<1>2. n \in Nat /\ n > 0 /\ DOMAIN fs = 1..n  BY <1>1, FrameNumbers
<1>3. /\ IsFrames(gs) /\ Len(gs) = n
      /\ \A i \in 1..n : gs[i].node = fs[i].node /\ gs[i].type = fs[i].type
      /\ \A i \in 1..n : gs[i].key = IF i = n THEN NULL ELSE fs[i].key
  BY <1>1, KeyChanges
<1>4. DOMAIN gs = 1..n /\ gs # <<>>  BY <1>2, <1>3, FrameNumbers
<1>5. n \in 1..n /\ 1 \in 1..n /\ \A j \in 1..n : ~(n < j)  BY <1>2
<1>6. {k} \subseteq Roots(h)  BY <1>5, FrameRoots
<1>7. PICK g : g = free_all(h, {k})  OBVIOUS
<1>8. PICK gone : gone = UNION {Below(h, m) : m \in {k}}  OBVIOUS
<1>9. Frees(h, g, gone) /\ Roots(g) = Roots(h) \ {k}  BY <1>1, <1>6, <1>7, <1>8, FreeAllRoots
<1> HIDE DEF n
<1>10. \A i \in 1..n : fs[i].node \in Nat /\ (fs[i].key # NULL => fs[i].key \in Nat)
  BY FrameRoots DEF n
<1>11. \A i, j \in 1..n : i < j => fs[i].node < fs[j].node /\ (fs[i].key # NULL => fs[i].key < fs[j].node)
  BY <1>1 DEF Stacked, n
<1>12. \A i \in 1..n : fs[i].key # NULL => fs[i].node < fs[i].key  BY <1>1 DEF Stacked, n
<1>13. \A i \in 1..n : i # n => i < n  BY <1>2
<1>14. \A i \in 1..n : fs[i].node # k /\ (i # n => fs[i].key # k)
  <2>1. \A i \in 1..n : i # n => fs[i].node < fs[n].node /\ (fs[i].key # NULL => fs[i].key < fs[n].node)
    BY <1>5, <1>11, <1>13
  <2>2. fs[n].node < k /\ k \in Nat /\ fs[n].node \in Nat  BY <1>5, <1>10, <1>12 DEF n
  <2> QED  BY <1>10, <2>1, <2>2
<1>15. \A m \in Roots(g) : g[m].type = h[m].type
  BY <1>1, <1>9, HeapNumbers DEF Frees, Roots
<1>16. Stacked(g, gs)
  <2>1. \A i \in 1..n :
          /\ gs[i].node \in Roots(g)
          /\ gs[i].key # NULL => gs[i].type # "array" /\ gs[i].key \in Roots(g) /\ gs[i].node < gs[i].key
          /\ IF gs[i].type = "strings" THEN i = 1 ELSE gs[i].type = g[gs[i].node].type
    BY <1>1, <1>3, <1>9, <1>14, <1>15 DEF Stacked, n
  <2>2. \A i, j \in 1..n : i < j =>
          gs[i].node < gs[j].node /\ (gs[i].key # NULL => gs[i].key < gs[j].node)
    BY <1>3, <1>11
  <2> QED  BY <1>3, <2>1, <2>2 DEF Stacked
<1>17. Roots(g) = Owned(gs, NULL)
  <2>1. {gs[i].node : i \in 1..n} = {fs[i].node : i \in 1..n}  BY <1>3
  <2>2. {gs[i].key : i \in 1..n} \ {NULL} = ({fs[i].key : i \in 1..n} \ {NULL}) \ {k}
    <3>1. \A i \in 1..n : gs[i].key # NULL => i # n /\ gs[i].key = fs[i].key /\ gs[i].key # k
      BY <1>3, <1>14
    <3>2. \A i \in 1..n : fs[i].key # NULL /\ fs[i].key # k => gs[i].key = fs[i].key
      BY <1>3 DEF n
    <3> QED  BY <3>1, <3>2
  <2>3. k \notin {fs[i].node : i \in 1..n}  BY <1>14
  <2> QED  BY <2>1, <2>2, <2>3, <1>1, <1>2, <1>4, <1>9 DEF Owned
<1>18. Uncounted(gs) = Uncounted(fs)  BY <1>3, <1>4, <1>5 DEF Uncounted
<1>19. InBounds(g, gs, NULL, d)
  <2>1. \A i \in 1..n : fs[i].node \in Live(g)  BY <1>3, <1>16 DEF Stacked, Roots
  <2>2. \A i \in 1..n : Bounded(g, fs[i].node, MaxNesting + Uncounted(fs) + 1 - i)
    BY <1>1, <1>9, <2>1, FreesBounds DEF InBounds, n
  <2> QED  BY <1>3, <1>18, <2>2 DEF InBounds
<1>20. Latest(g, gs, NULL)  BY DEF Latest
<1>21. Holds(g, gs, NULL, d)
  BY <1>1, <1>3, <1>9, <1>16, <1>17, <1>18, <1>19, <1>20 DEF Holds, Frees
<1> QED  BY <1>7, <1>21

\* Strings data is begun: the first value is freed, and a dict is filled.
LEMMA StringsHold ==
    ASSUME NEW h, NEW r, NEW d, Holds(h, <<>>, r, d), r # NULL,
           NEW f, f = [type |-> "strings", node |-> Len(h) + 1, key |-> NULL]
    PROVE  Holds(Append(free_all(h, {r}), Node("dict", NULL)), <<f>>, NULL, d)
<1>1. /\ IsHeap(h) /\ IsFrames(<<>>) /\ Roots(h) = Owned(<<>>, r) /\ d = 0 - Uncounted(<<>>)
  BY DEF Holds
<1>2. Roots(h) = {r} /\ d = 0  BY <1>1 DEF Owned, Uncounted
<1>3. PICK g : g = free_all(h, {r})  OBVIOUS
<1>4. PICK gone : gone = UNION {Below(h, m) : m \in {r}}  OBVIOUS
<1>5. Frees(h, g, gone) /\ Roots(g) = {}
  <2>1. {r} \subseteq Roots(h)  BY <1>2
  <2>2. Frees(h, g, gone) /\ Roots(g) = Roots(h) \ {r}  BY <1>1, <1>3, <1>4, <2>1, FreeAllRoots
  <2> QED  BY <1>2, <2>2
<1>6. IsHeap(g) /\ Len(g) = Len(h)  BY <1>5 DEF Frees
<1>7. PICK g2 : g2 = Append(g, Node("dict", NULL))  OBVIOUS
<1>8. Grown(g, g2, "dict")  BY <1>6, <1>7, AppendGrows
<1>9. Len(h) \in Nat /\ Len(h) + 1 # NULL  BY <1>1, HeapNumbers, MemoryAssumption
<1>10. /\ IsHeap(g2) /\ Len(g2) = Len(h) + 1 /\ Roots(g2) = {Len(h) + 1}
       /\ g2[Len(h) + 1].type = "dict"
  BY <1>5, <1>6, <1>8 DEF Grown
<1>11. PICK fs : fs = <<f>>  OBVIOUS
<1>12. Len(fs) = 1 /\ fs[1] = f /\ 1..1 = {1} /\ DOMAIN fs = {1} /\ fs # <<>> /\ fs \in Seq({f})
  BY <1>11
<1>13. IsFrame(f) /\ f.type = "strings" /\ f.node = Len(h) + 1 /\ f.key = NULL  BY DEF IsFrame
<1>14. IsFrames(fs)  BY <1>12, <1>13 DEF IsFrames
<1>15. Stacked(g2, fs)  BY <1>10, <1>12, <1>13 DEF Stacked
<1>16. Roots(g2) = Owned(fs, NULL)  BY <1>10, <1>12, <1>13 DEF Owned
<1>17. Uncounted(fs) = 1  BY <1>12, <1>13 DEF Uncounted
<1>18. InBounds(g2, fs, NULL, d)
  <2>1. Bounded(g2, Len(h) + 1, 1) /\ Below(g2, Len(h) + 1) = {Len(h) + 1}  BY <1>6, <1>8, GrownBounds
  <2>2. Depth(g2, Len(h) + 1) \in Nat  BY <1>9, <1>10, DepthIs
  <2>3. MaxNesting \in Nat  BY MemoryAssumption
  <2>4. Bounded(g2, Len(h) + 1, MaxNesting + 1 + 1 - 1)  BY <2>1, <2>2, <2>3 DEF Bounded
  <2> QED  BY <1>12, <1>13, <1>17, <2>4 DEF InBounds
<1>19. Latest(g2, fs, NULL)  BY DEF Latest
<1>20. d = Len(fs) - Uncounted(fs) /\ d <= MaxNesting  BY <1>2, <1>12, <1>17, MemoryAssumption
<1>21. Holds(g2, fs, NULL, d)  BY <1>10, <1>14, <1>15, <1>16, <1>18, <1>19, <1>20 DEF Holds
<1> QED  BY <1>3, <1>7, <1>11, <1>21

\* What is left when reading ends.
Outcome(h, p, e) ==
    IsHeap(h) /\ Roots(h) = (IF p = NULL THEN {} ELSE {p}) /\ (e = 0 <=> p # NULL)

OpenStepInv ==
    IF pc = "done" THEN Outcome(heap, plist, err)
    ELSE /\ pc \in {"value", "members", "items", "end", "returned"}
         /\ Holds(heap, frames, ret, depth)
         /\ (pc = "returned") <=> (ret # NULL)
         /\ pc \in {"items", "end"} => frames # <<>> /\ frames[Len(frames)].type = "array"
         /\ pc = "members" =>
               frames # <<>> /\ frames[Len(frames)].type # "array" /\ frames[Len(frames)].key = NULL
         /\ err = 0 /\ plist = NULL

LEMMA OpenStepGivesUp ==
    ASSUME OpenStepInv, pc # "done", NEW code \in {-3, -7}, O!GiveUp(code)
    PROVE  OpenStepInv'
<1>1. /\ IsHeap(heap) /\ IsFrames(frames) /\ Roots(heap) = Owned(frames, ret)
      /\ Holds(heap, frames, ret, depth)
  BY DEF OpenStepInv, Holds
<1>2. O!begun = Owned(frames, ret)  BY DEF O!begun, Owned
<1>3. \A nodes : O!free_all(heap, nodes) = free_all(heap, nodes)  BY SameFrees
<1>4. pc' = "done"  BY DEF O!GiveUp
<1>5. ~O!strings_failed(code)  BY DEF O!strings_failed
<1>6. CASE O!InStrings
  <2>1. frames # <<>>  BY <1>6 DEF O!InStrings
  <2>2. 1 \in 1..Len(frames)  BY <1>1, <2>1, FrameNumbers
  <2>3. PICK p : p = frames[1].node  OBVIOUS
  <2>4. p \in Roots(heap) /\ p # NULL  BY <1>1, <2>2, <2>3, FrameRoots
  <2>5. PICK nodes : nodes = Roots(heap) \ {p}  OBVIOUS
  <2>6. heap' = free_all(heap, nodes) /\ plist' = p /\ err' = 0
    BY <1>1, <1>2, <1>3, <1>5, <1>6, <2>3, <2>5 DEF O!GiveUp, O!PLIST_ERR_SUCCESS
  <2>7. Frees(heap, heap', UNION {Below(heap, n) : n \in nodes}) /\ Roots(heap') = Roots(heap) \ nodes
    BY <1>1, <2>5, <2>6, FreeAllRoots
  <2>8. IsHeap(heap') /\ Roots(heap') = {p}  BY <2>4, <2>5, <2>7 DEF Frees
  <2>9. Outcome(heap', plist', err')  BY <2>4, <2>6, <2>8 DEF Outcome
  <2> QED  BY <1>4, <2>9 DEF OpenStepInv, Outcome
<1>7. CASE ~O!InStrings
  <2>1. PICK nodes : nodes = Roots(heap)  OBVIOUS
  <2>2. heap' = free_all(heap, nodes) /\ plist' = NULL /\ err' = code
    BY <1>1, <1>2, <1>3, <1>7, <2>1 DEF O!GiveUp
  <2>3. Frees(heap, heap', UNION {Below(heap, n) : n \in nodes}) /\ Roots(heap') = Roots(heap) \ nodes
    BY <1>1, <2>1, <2>2, FreeAllRoots
  <2>4. IsHeap(heap') /\ Roots(heap') = {}  BY <2>1, <2>3 DEF Frees
  <2>5. Outcome(heap', plist', err')  BY <2>2, <2>4 DEF Outcome
  <2> QED  BY <1>4, <2>5 DEF OpenStepInv, Outcome
<1> QED  BY <1>6, <1>7

LEMMA OpenStepCloses ==
    ASSUME OpenStepInv, pc \in {"items", "end", "members"}, frames[Len(frames)].type # "strings",
           O!Close
    PROVE  OpenStepInv'
<1>1. Holds(heap, frames, ret, depth) /\ ret = NULL /\ frames # <<>> /\ err = 0 /\ plist = NULL
  BY DEF OpenStepInv
<1>2. IsFrames(frames) /\ Stacked(heap, frames)  BY <1>1 DEF Holds
<1>3. Len(frames) \in 1..Len(frames)  BY <1>1, <1>2, FrameNumbers
<1>4. frames[Len(frames)].key = NULL  BY <1>2, <1>3 DEF OpenStepInv, Stacked
<1>5. PICK f : f = frames[Len(frames)]  OBVIOUS
<1>6. f.key = NULL /\ f.type # "strings"  BY <1>4, <1>5
<1>7. /\ ret' = f.node /\ frames' = SubSeq(frames, 1, Len(frames) - 1) /\ depth' = depth - 1
      /\ pc' = "returned" /\ heap' = heap /\ plist' = NULL /\ err' = 0
  BY <1>1, <1>5 DEF O!Close, O!Inner, O!Last, O!Front, O!depth_below
<1>8. PICK gs : gs = SubSeq(frames, 1, Len(frames) - 1)  OBVIOUS
<1>9. Holds(heap, gs, f.node, depth - 1)  BY <1>1, <1>5, <1>6, <1>8, CloseHolds
<1>10. f.node # NULL  BY <1>1, <1>3, <1>5, FrameRoots
<1>11. Holds(heap', frames', ret', depth')  BY <1>7, <1>8, <1>9
<1> QED  BY <1>7, <1>10, <1>11 DEF OpenStepInv

LEMMA OpenStepTypes ==
    ASSUME NEW t \in O!Openers
    PROVE  O!Type[t] \in {"dict", "array"}
  BY DEF O!Openers, O!Type

LEMMA OpenStepLeaves ==
    ASSUME NEW t
    PROVE  \E type, value : O!leaf_node(t) = Node(type, value) /\ type # "freed"
<1>1. \A type, value : O!Node(type, value) = Node(type, value)  BY SameCalls
<1>2. O!leaf_node(t) = Node("data", t.text) \/ O!leaf_node(t) = Node("string", O!string_value(t))
  BY <1>1 DEF O!leaf_node
<1>3. "data" # "freed" /\ "string" # "freed"  OBVIOUS
<1> QED  BY <1>2, <1>3

\* Steps towards a value.
LEMMA OpenStepEnters ==
    ASSUME OpenStepInv,
           O!TooDeep \/ O!Nothing \/ O!Leaf \/ O!Container \/ O!NoValue
    PROVE  OpenStepInv'
<1>1. pc = "value"  BY DEF O!TooDeep, O!Nothing, O!Leaf, O!Container, O!NoValue, O!Entered
<1>2. /\ Holds(heap, frames, ret, depth) /\ ret = NULL /\ err = 0 /\ plist = NULL /\ IsHeap(heap)
      /\ IsFrames(frames) /\ depth = Len(frames) - Uncounted(frames)
  BY <1>1 DEF OpenStepInv, Holds
<1>3. depth \in Nat /\ MaxNesting \in Nat  BY <1>2, FrameNumbers, MemoryAssumption
<1>4. O!Entered => depth + 1 <= MaxNesting  BY <1>3 DEF O!Entered, O!too_deep
<1>5. CASE O!TooDeep
  <2>1. O!GiveUp(-7)  BY <1>5 DEF O!TooDeep, O!PLIST_ERR_MAX_NESTING
  <2> QED  BY <1>1, <2>1, OpenStepGivesUp
<1>6. CASE O!Nothing
  <2>1. CASE O!GiveUp(O!PLIST_ERR_PARSE)
    <3>1. O!GiveUp(-3)  BY <2>1 DEF O!PLIST_ERR_PARSE
    <3> QED  BY <1>1, <3>1, OpenStepGivesUp
  <2>2. CASE ~O!GiveUp(O!PLIST_ERR_PARSE)
    <3>1. /\ frames = <<>> /\ heap' = Append(heap, Node("dict", NULL)) /\ plist' = Len(heap) + 1
          /\ pc' = "done" /\ err' = err
      BY <1>6, <2>2, SameCalls DEF O!Nothing
    <3>2. Grown(heap, heap', "dict")  BY <1>2, <3>1, AppendGrows
    <3>3. Roots(heap) = {}  BY <1>2, <3>1 DEF Holds, Owned
    <3>4. Len(heap) \in Nat /\ NULL \notin Nat  BY <1>2, HeapNumbers, MemoryAssumption
    <3>5. Outcome(heap', plist', err')  BY <1>2, <3>1, <3>2, <3>3, <3>4 DEF Outcome, Grown
    <3> QED  BY <3>1, <3>5 DEF OpenStepInv, Outcome
  <2> QED  BY <2>1, <2>2
<1>7. CASE O!Leaf
  <2>1. /\ heap' = Append(heap, O!leaf_node(doc[pos + 1])) /\ ret' = Len(heap) + 1 /\ pc' = "returned"
        /\ frames' = frames /\ depth' = depth /\ plist' = plist /\ err' = err /\ O!Entered
    BY <1>7 DEF O!Leaf
  <2>2. PICK type, value : O!leaf_node(doc[pos + 1]) = Node(type, value) /\ type # "freed"
    BY OpenStepLeaves
  <2>3. Grown(heap, heap', type)  BY <1>2, <2>1, <2>2, AppendGrows
  <2>4. PICK g : g = heap'  OBVIOUS
  <2>5. Holds(g, frames, Len(heap) + 1, depth)  BY <1>2, <1>4, <2>1, <2>3, <2>4, LeafHolds
  <2>6. Holds(heap', frames', ret', depth')  BY <2>1, <2>4, <2>5
  <2>7. Len(heap) + 1 # NULL  BY <1>2, HeapNumbers, MemoryAssumption
  <2> QED  BY <1>2, <2>1, <2>6, <2>7 DEF OpenStepInv
<1>8. CASE O!Container
  <2>1. PICK type : type = O!Type[doc[pos + 1].type]  OBVIOUS
  <2>2. type \in {"dict", "array"}  BY <1>8, <2>1, OpenStepTypes DEF O!Container
  <2>3. PICK f : f = O!Frame(type, Len(heap) + 1)  OBVIOUS
  <2>4. f = [type |-> type, node |-> Len(heap) + 1, key |-> NULL]  BY <2>3 DEF O!Frame
  <2>5. /\ heap' = Append(heap, Node(type, NULL)) /\ frames' = Append(frames, f)
        /\ pc' = (IF type = "dict" THEN "members" ELSE "items")
        /\ depth' = depth + 1 /\ ret' = ret /\ plist' = plist /\ err' = err /\ O!Entered
    BY <1>8, <2>1, <2>3, SameCalls DEF O!Container
  <2>6. Grown(heap, heap', type)  BY <1>2, <2>2, <2>5, AppendGrows
  <2>7. PICK g : g = heap'  OBVIOUS
  <2>8. Holds(g, Append(frames, f), NULL, depth + 1)
    BY <1>2, <1>4, <2>2, <2>4, <2>5, <2>6, <2>7, ContainerHolds
  <2>9. Holds(heap', frames', ret', depth')  BY <1>2, <2>5, <2>7, <2>8
  <2>10. PICK S : frames \in Seq(S)  BY <1>2 DEF IsFrames
  <2>11. PICK gs : gs = Append(frames, f)  OBVIOUS
  <2>12. Len(gs) = Len(frames) + 1 /\ gs[Len(frames) + 1] = f /\ gs # <<>> /\ gs[Len(gs)] = f
    <3>1. frames \in Seq(S \cup {f})  BY <2>10
    <3>2. Len(gs) = Len(frames) + 1 /\ gs[Len(frames) + 1] = f /\ gs \in Seq(S \cup {f})
      BY <2>11, <3>1, AppendProperties
    <3>3. Len(frames) + 1 # 0  BY <1>2, FrameNumbers
    <3> QED  BY <3>2, <3>3, EmptySeq
  <2>13. /\ frames' # <<>> /\ frames'[Len(frames')].type = type /\ frames'[Len(frames')].key = NULL
    BY <2>4, <2>5, <2>11, <2>12
  <2> QED  BY <1>2, <2>2, <2>5, <2>9, <2>13 DEF OpenStepInv
<1>9. CASE O!NoValue
  <2>1. O!GiveUp(-3)  BY <1>9 DEF O!NoValue, O!PLIST_ERR_PARSE
  <2> QED  BY <1>1, <2>1, OpenStepGivesUp
<1> QED  BY <1>5, <1>6, <1>7, <1>8, <1>9

\* Steps in an array and between the pairs of a dict.
LEMMA OpenStepGoesOn ==
    ASSUME OpenStepInv, O!Items \/ O!LastItem \/ O!Members
    PROVE  OpenStepInv'
<1>1. pc \in {"items", "end", "members"}  BY DEF O!Items, O!LastItem, O!Members
<1>2. /\ Holds(heap, frames, ret, depth) /\ ret = NULL /\ frames # <<>> /\ err = 0 /\ plist = NULL
      /\ IsFrames(frames) /\ Stacked(heap, frames) /\ IsHeap(heap) /\ Roots(heap) = Owned(frames, ret)
  BY <1>1 DEF OpenStepInv, Holds
<1>3. O!Inner = frames[Len(frames)]  BY DEF O!Inner, O!Last
<1>4. CASE O!GiveUp(O!PLIST_ERR_PARSE)
  <2>1. O!GiveUp(-3)  BY <1>4 DEF O!PLIST_ERR_PARSE
  <2> QED  BY <1>1, <2>1, OpenStepGivesUp
<1>5. CASE O!Close /\ frames[Len(frames)].type # "strings"
  BY <1>1, <1>5, OpenStepCloses
<1>6. CASE /\ pc' = "value"
           /\ UNCHANGED <<doc, pos, frames, depth, ret, heap, plist, err>>
  BY <1>1, <1>2, <1>6 DEF OpenStepInv
<1>7. CASE /\ pc = "members" /\ O!Inner.type = "strings"
           /\ plist' = O!Inner.node /\ frames' = <<>> /\ pc' = "done"
           /\ UNCHANGED <<doc, pos, depth, ret, heap, err>>
  <2>1. Len(frames) \in 1..Len(frames) /\ DOMAIN frames = 1..Len(frames)  BY <1>2, FrameNumbers
  <2>2. Len(frames) = 1  BY <1>2, <1>3, <1>7, <2>1 DEF Stacked
  <2>3. PICK p : p = frames[1].node  OBVIOUS
  <2>4. frames[1].key = NULL  BY <1>7, <2>2 DEF OpenStepInv
  <2>5. Roots(heap) = {p}  BY <1>2, <2>1, <2>2, <2>3, <2>4 DEF Owned
  <2>6. p # NULL  BY <1>2, <2>1, <2>2, <2>3, FrameRoots
  <2>7. plist' = p /\ err' = 0 /\ heap' = heap  BY <1>2, <1>3, <1>7, <2>2, <2>3
  <2>8. Outcome(heap', plist', err')  BY <1>2, <2>5, <2>6, <2>7 DEF Outcome
  <2> QED  BY <1>7, <2>8 DEF OpenStepInv, Outcome
<1>8. pc \in {"items", "end"} => frames[Len(frames)].type # "strings"  BY DEF OpenStepInv
<1>9. O!Items =>
        \/ pc = "items" /\ O!Close
        \/ O!GiveUp(O!PLIST_ERR_PARSE)
        \/ pc' = "value" /\ UNCHANGED <<doc, pos, frames, depth, ret, heap, plist, err>>
  BY DEF O!Items
<1>10. O!LastItem => (pc = "end" /\ O!Close) \/ O!GiveUp(O!PLIST_ERR_PARSE)  BY DEF O!LastItem
<1>11. O!Members =>
         \/ O!Inner.type = "dict" /\ O!Close
         \/ O!GiveUp(O!PLIST_ERR_PARSE)
         \/ pc' = "value" /\ UNCHANGED <<doc, pos, frames, depth, ret, heap, plist, err>>
         \/ /\ pc = "members" /\ O!Inner.type = "strings"
            /\ plist' = O!Inner.node /\ frames' = <<>> /\ pc' = "done"
            /\ UNCHANGED <<doc, pos, depth, ret, heap, err>>
  BY DEF O!Members
<1> QED  BY <1>3, <1>4, <1>5, <1>6, <1>7, <1>8, <1>9, <1>10, <1>11

\* Steps when a value was returned.
LEMMA OpenStepReturns ==
    ASSUME OpenStepInv, O!KeyRead \/ O!PairRead \/ O!ItemRead \/ O!RootRead
    PROVE  OpenStepInv'
<1>1. pc = "returned"  BY DEF O!KeyRead, O!PairRead, O!ItemRead, O!RootRead, O!Returned
<1>2. /\ Holds(heap, frames, ret, depth) /\ ret # NULL /\ err = 0 /\ plist = NULL
      /\ IsFrames(frames) /\ Stacked(heap, frames) /\ IsHeap(heap) /\ Roots(heap) = Owned(frames, ret)
  BY <1>1 DEF OpenStepInv, Holds
<1>3. O!Inner = frames[Len(frames)]  BY DEF O!Inner, O!Last
<1>4. O!InDict <=> frames # <<>> /\ frames[Len(frames)].type # "array"  BY <1>3 DEF O!InDict
<1>5. PICK n : n = frames[Len(frames)].node  OBVIOUS
<1>6. frames # <<>> =>
        n \in Live(heap) /\ ret \in Roots(heap) /\ n < ret /\ within_limit(heap, n, ret)
  BY <1>2, <1>5, InnerTakes
<1>7. CASE O!GiveUp(O!PLIST_ERR_PARSE)
  <2>1. O!GiveUp(-3)  BY <1>7 DEF O!PLIST_ERR_PARSE
  <2> QED  BY <1>1, <2>1, OpenStepGivesUp
<1>8. CASE O!KeyRead /\ ~O!GiveUp(O!PLIST_ERR_PARSE)
  <2>1. /\ frames # <<>> /\ frames[Len(frames)].type # "array" /\ frames[Len(frames)].key = NULL
        /\ frames' = [frames EXCEPT ![Len(frames)].key = ret] /\ ret' = NULL /\ pc' = "value"
        /\ depth' = depth /\ heap' = heap /\ plist' = plist /\ err' = err
    BY <1>3, <1>4, <1>8 DEF O!KeyRead
  <2>2. PICK gs : gs = frames'  OBVIOUS
  <2>3. InnerKey(frames, gs, ret)  BY <2>1, <2>2 DEF InnerKey
  <2>4. Holds(heap, gs, NULL, depth)  BY <1>2, <2>1, <2>3, KeyHolds
  <2>5. Holds(heap', frames', ret', depth')  BY <2>1, <2>2, <2>4
  <2> QED  BY <1>2, <2>1, <2>5 DEF OpenStepInv
<1>9. CASE O!PairRead /\ ~O!GiveUp(O!PLIST_ERR_PARSE)
  <2>1. /\ frames # <<>> /\ frames[Len(frames)].type # "array" /\ frames[Len(frames)].key # NULL
        /\ heap' = O!free_all(O!with_pair, {O!Inner.key})
        /\ frames' = [frames EXCEPT ![Len(frames)].key = NULL] /\ ret' = NULL /\ pc' = "members"
        /\ depth' = depth /\ plist' = plist /\ err' = err
    BY <1>3, <1>4, <1>9 DEF O!PairRead
  <2>2. PICK name : name = O!c_string(heap[O!Inner.key].value)  OBVIOUS
  <2>3. PICK g : g = plist_dict_set_item(heap, n, name, ret)  OBVIOUS
  <2>4. O!with_pair = g
    <3>1. O!within_limit(heap, n, ret) /\ O!plist_dict_set_item(heap, n, name, ret) = g
      BY <1>6, <2>1, <2>3, SameFrees
    <3> QED  BY <3>1, <1>3, <1>5, <2>2 DEF O!with_pair
  <2>5. Took(heap, g, n, ret)  BY <1>2, <1>6, <2>1, <2>3, DictTakes
  <2>6. Holds(g, frames, NULL, depth)  BY <1>2, <1>5, <2>1, <2>5, TakenHolds
  <2>7. PICK k : k = frames[Len(frames)].key  OBVIOUS
  <2>8. PICK gs : gs = frames'  OBVIOUS
  <2>9. InnerKey(frames, gs, NULL)  BY <2>1, <2>8 DEF InnerKey
  <2>10. heap' = free_all(g, {k})  BY <1>3, <2>1, <2>4, <2>7, SameFrees
  <2>11. Holds(free_all(g, {k}), gs, NULL, depth)  BY <2>1, <2>6, <2>7, <2>9, PairHolds
  <2>12. Holds(heap', frames', ret', depth')  BY <2>1, <2>8, <2>10, <2>11
  <2>13. frames' # <<>> /\ frames'[Len(frames')].type # "array" /\ frames'[Len(frames')].key = NULL
    <3>1. Len(frames) \in 1..Len(frames)  BY <1>2, <2>1, FrameNumbers
    <3>2. /\ IsFrames(gs) /\ Len(gs) = Len(frames)
          /\ gs[Len(frames)].type = frames[Len(frames)].type /\ gs[Len(frames)].key = NULL
      BY <1>2, <2>1, <2>9, <3>1, KeyChanges
    <3>3. gs # <<>>  BY <1>2, <2>1, <3>2, FrameNumbers
    <3> QED  BY <2>1, <2>8, <3>2, <3>3
  <2> QED  BY <1>2, <2>1, <2>12, <2>13 DEF OpenStepInv
<1>10. CASE O!ItemRead
  <2>1. /\ frames # <<>> /\ frames[Len(frames)].type = "array"
        /\ heap' = O!with_item /\ ret' = NULL /\ pc' \in {"items", "end"}
        /\ frames' = frames /\ depth' = depth /\ plist' = plist /\ err' = err
    BY <1>4, <1>10 DEF O!ItemRead
  <2>2. PICK g : g = plist_array_append_item(heap, n, ret)  OBVIOUS
  <2>3. O!with_item = g
    <3>1. O!within_limit(heap, n, ret) /\ O!plist_array_append_item(heap, n, ret) = g
      BY <1>6, <2>1, <2>2, SameFrees, SameCalls
    <3> QED  BY <3>1, <1>3, <1>5 DEF O!with_item
  <2>4. Took(heap, g, n, ret)  BY <1>2, <1>6, <2>1, <2>2, ArrayTakes
  <2>5. Holds(g, frames, NULL, depth)  BY <1>2, <1>5, <2>1, <2>4, TakenHolds
  <2>6. Holds(heap', frames', ret', depth')  BY <2>1, <2>3, <2>5
  <2> QED  BY <1>2, <2>1, <2>6 DEF OpenStepInv
<1>11. CASE O!RootRead
  <2>1. frames = <<>> /\ ret' = NULL /\ depth' = depth /\ err' = err  BY <1>11 DEF O!RootRead
  <2>2. CASE /\ heap' = Append(O!free_all(heap, {ret}), O!Node("dict", NULL))
             /\ frames' = <<O!Frame("strings", Len(heap) + 1)>>
             /\ pc' = "members" /\ UNCHANGED plist
    <3>1. PICK f : f = O!Frame("strings", Len(heap) + 1)  OBVIOUS
    <3>2. f = [type |-> "strings", node |-> Len(heap) + 1, key |-> NULL]  BY <3>1 DEF O!Frame
    <3>3. PICK r : r = ret  OBVIOUS
    <3>4. Holds(heap, <<>>, r, depth) /\ r # NULL  BY <1>2, <2>1, <3>3
    <3>5. Holds(Append(free_all(heap, {r}), Node("dict", NULL)), <<f>>, NULL, depth)
      BY <3>2, <3>4, StringsHold
    <3>6. heap' = Append(free_all(heap, {r}), Node("dict", NULL)) /\ frames' = <<f>>
      BY <2>2, <3>1, <3>3, SameFrees, SameCalls
    <3>7. Holds(heap', frames', ret', depth')  BY <2>1, <3>5, <3>6
    <3>8. frames' # <<>> /\ Len(frames') = 1 /\ frames'[1].type # "array" /\ frames'[1].key = NULL
      BY <3>2, <3>6
    <3> QED  BY <1>2, <2>1, <2>2, <3>7, <3>8 DEF OpenStepInv
  <2>3. CASE plist' = ret /\ pc' = "done" /\ UNCHANGED <<heap, frames, pos>>
    <3>1. Roots(heap) = {ret}  BY <1>2, <2>1 DEF Owned
    <3>2. Outcome(heap', plist', err')  BY <1>2, <2>1, <2>3, <3>1 DEF Outcome
    <3> QED  BY <2>3, <3>2 DEF OpenStepInv, Outcome
  <2> QED  BY <1>11, <2>2, <2>3 DEF O!RootRead
<1>12. O!KeyRead \/ O!PairRead \/ O!ItemRead \/ O!RootRead  OBVIOUS
<1> QED  BY <1>7, <1>8, <1>9, <1>10, <1>11, <1>12

LEMMA OpenStepSteps ==
    ASSUME OpenStepInv, O!Next
    PROVE  OpenStepInv'
BY OpenStepEnters, OpenStepGoesOn, OpenStepReturns DEF O!Next

-----------------------------------------------------------------------------
(***************************************************************************)
(* JSON: each call of parse_array and parse_object owns its node           *)
(***************************************************************************)
IsCalls(calls) ==
    /\ \E S : calls \in Seq(S)
    /\ \A i \in 1..Len(calls) :
          calls[i] = [node |-> calls[i].node, left |-> calls[i].left, key |-> calls[i].key]

\* The roots are the nodes of the calls, the innermost last, and perhaps the item
\* that is returned to them.
Calling(h, calls, item) ==
    /\ IsHeap(h) /\ IsCalls(calls)
    /\ \A i, j \in 1..Len(calls) : i < j => calls[i].node < calls[j].node
    /\ item # NULL => \A i \in 1..Len(calls) : calls[i].node < item
    /\ Roots(h) = {calls[i].node : i \in 1..Len(calls)} \cup ({item} \ {NULL})

JsonInv ==
    IF pc = "done" THEN Outcome(heap, plist, err)
    ELSE /\ pc \in {"lex", "build"}
         /\ pc = "lex" => frames = <<>>
         /\ Calling(heap, frames, NULL)
         /\ err = 0 /\ plist = NULL

LEMMA CallNumbers ==
    ASSUME NEW calls, IsCalls(calls)
    PROVE  /\ Len(calls) \in Nat /\ DOMAIN calls = 1..Len(calls)
           /\ calls = [i \in 1..Len(calls) |-> calls[i]]
           /\ calls # <<>> <=> Len(calls) > 0
<1>1. PICK S : calls \in Seq(S)  BY DEF IsCalls
<1>2. /\ Len(calls) \in Nat /\ DOMAIN calls = 1..Len(calls) /\ calls \in [1..Len(calls) -> S]
  BY <1>1, LenProperties
<1>3. calls # <<>> <=> Len(calls) > 0  BY <1>1, <1>2, EmptySeq
<1>4. calls = [i \in 1..Len(calls) |-> calls[i]]  BY <1>2
<1> QED  BY <1>2, <1>3, <1>4

LEMMA JsonNodes ==
    ASSUME NEW calls, IsCalls(calls)
    PROVE  J!Nodes(calls) = {calls[i].node : i \in 1..Len(calls)}
BY CallNumbers DEF J!Nodes

\* What a call does to its own fields concerns no node.
SameCallNodes(calls, more) ==
    /\ IsCalls(more) /\ Len(more) = Len(calls)
    /\ \A i \in 1..Len(calls) : more[i].node = calls[i].node

LEMMA SameCalling ==
    ASSUME NEW h, NEW calls, NEW item, Calling(h, calls, item), NEW more, SameCallNodes(calls, more)
    PROVE  Calling(h, more, item)
<1>1. {more[i].node : i \in 1..Len(calls)} = {calls[i].node : i \in 1..Len(calls)}
  BY DEF SameCallNodes
<1>2. \A i, j \in 1..Len(calls) : i < j => more[i].node < more[j].node
  BY DEF Calling, SameCallNodes
<1>3. item # NULL => \A i \in 1..Len(calls) : more[i].node < item  BY DEF Calling, SameCallNodes
<1> QED  BY <1>1, <1>2, <1>3 DEF Calling, SameCallNodes

\* The innermost call is c now.
NewCall(calls, more, c) == more = [calls EXCEPT ![Len(calls)] = c]

LEMMA CallChanges ==
    ASSUME NEW calls, IsCalls(calls), calls # <<>>,
           NEW c, c = [node |-> c.node, left |-> c.left, key |-> c.key],
           c.node = calls[Len(calls)].node,
           NEW more, NewCall(calls, more, c)
    PROVE  SameCallNodes(calls, more)
<1> DEFINE n == Len(calls)
<1>1. n \in Nat /\ n > 0 /\ calls = [i \in 1..n |-> calls[i]]  BY CallNumbers
<1>2. more = [calls EXCEPT ![n] = c]  BY DEF NewCall
<1>3. \A i \in 1..n : calls[i] = [node |-> calls[i].node, left |-> calls[i].left, key |-> calls[i].key]
  BY DEF IsCalls
<1>4. c.node = calls[n].node  OBVIOUS
<1>5. DOMAIN calls = 1..n  BY CallNumbers
<1> HIDE DEF n
<1>6. /\ DOMAIN more = 1..n /\ more = [i \in 1..n |-> more[i]]
      /\ \A i \in 1..n : more[i] = IF i = n THEN c ELSE calls[i]
  BY <1>1, <1>2, <1>5
<1>7. (\E S : more \in Seq(S)) /\ Len(more) = n  BY <1>1, <1>6, SomeSeq
<1>8. \A i \in 1..n : /\ more[i].node = calls[i].node
                      /\ more[i] = [node |-> more[i].node, left |-> more[i].left, key |-> more[i].key]
  <2> SUFFICES ASSUME NEW i \in 1..n
               PROVE  /\ more[i].node = calls[i].node
                      /\ more[i] = [node |-> more[i].node, left |-> more[i].left, key |-> more[i].key]
    OBVIOUS
  <2>1. CASE i = n
    <3>1. more[i] = c  BY <1>6, <2>1
    <3> QED  BY <1>4, <2>1, <3>1
  <2>2. CASE i # n
    <3>1. more[i] = calls[i]  BY <1>6, <2>2
    <3> QED  BY <1>3, <3>1
  <2> QED  BY <2>1, <2>2
<1>9. IsCalls(more)  BY <1>7, <1>8 DEF IsCalls
<1> QED  BY <1>7, <1>8, <1>9 DEF SameCallNodes, n

\* The key of a pair was read, or an item.
KeyWasRead(calls, more, key) ==
    more = [calls EXCEPT ![Len(calls)].key = key, ![Len(calls)].left = @ - 1]
ItemWasRead(calls, more) ==
    more = [calls EXCEPT ![Len(calls)].left = @ - 1, ![Len(calls)].key = NULL]

LEMMA CallsGoOn ==
    ASSUME NEW calls, IsCalls(calls), calls # <<>>, NEW key, NEW more,
           KeyWasRead(calls, more, key) \/ ItemWasRead(calls, more)
    PROVE  SameCallNodes(calls, more)
<1> DEFINE n == Len(calls)
           old == calls[n]
<1>1. n \in Nat /\ n > 0 /\ n \in 1..n /\ DOMAIN calls = 1..n  BY CallNumbers
<1>2. old = [node |-> old.node, left |-> old.left, key |-> old.key]  BY <1>1 DEF IsCalls
<1>3. \E c : /\ c = [node |-> c.node, left |-> c.left, key |-> c.key] /\ c.node = old.node
             /\ more = [calls EXCEPT ![n] = c]
  <2>1. CASE KeyWasRead(calls, more, key)
    <3> DEFINE mid == [old EXCEPT !.key = key]
               some == [calls EXCEPT ![n] = mid]
    <3>1. more = [some EXCEPT ![n].left = @ - 1]  BY <2>1 DEF KeyWasRead
    <3> HIDE DEF old
    <3>2. mid = [node |-> old.node, left |-> old.left, key |-> key]  BY ONLY <1>2
    <3> HIDE DEF mid, n
    <3>3. some[n] = mid /\ DOMAIN some = 1..n /\ \A i \in 1..n : i # n => some[i] = calls[i]  BY <1>1
    <3>4. PICK c : c = [mid EXCEPT !.left = mid.left - 1]  OBVIOUS
    <3>5. more = [calls EXCEPT ![n] = c]
      <4>1. more = [some EXCEPT ![n] = [some[n] EXCEPT !.left = some[n].left - 1]]  BY <3>1
      <4>2. more = [some EXCEPT ![n] = c]  BY <4>1, <3>3, <3>4
      <4> QED  BY <4>2, <1>1
    <3>6. c = [node |-> old.node, left |-> mid.left - 1, key |-> key]  BY ONLY <3>2, <3>4
    <3>7. c = [node |-> c.node, left |-> c.left, key |-> c.key] /\ c.node = old.node  BY ONLY <3>6
    <3> QED  BY <3>5, <3>7
  <2>2. CASE ItemWasRead(calls, more)
    <3> DEFINE mid == [old EXCEPT !.left = old.left - 1]
               some == [calls EXCEPT ![n] = mid]
    <3>1. more = [some EXCEPT ![n].key = NULL]  BY <2>2 DEF ItemWasRead
    <3> HIDE DEF old
    <3>2. mid = [node |-> old.node, left |-> old.left - 1, key |-> old.key]  BY ONLY <1>2
    <3> HIDE DEF mid, n
    <3>3. some[n] = mid /\ DOMAIN some = 1..n /\ \A i \in 1..n : i # n => some[i] = calls[i]  BY <1>1
    <3>4. PICK c : c = [mid EXCEPT !.key = NULL]  OBVIOUS
    <3>5. more = [calls EXCEPT ![n] = c]
      <4>1. more = [some EXCEPT ![n] = [some[n] EXCEPT !.key = NULL]]  BY <3>1
      <4>2. more = [some EXCEPT ![n] = c]  BY <4>1, <3>3, <3>4
      <4> QED  BY <4>2, <1>1
    <3>6. c = [node |-> old.node, left |-> old.left - 1, key |-> NULL]  BY ONLY <3>2, <3>4
    <3>7. c = [node |-> c.node, left |-> c.left, key |-> c.key] /\ c.node = old.node  BY ONLY <3>6
    <3> QED  BY <3>5, <3>7
  <2> QED  BY <2>1, <2>2
<1>4. PICK c : /\ c = [node |-> c.node, left |-> c.left, key |-> c.key] /\ c.node = old.node
               /\ more = [calls EXCEPT ![n] = c]
  BY <1>3
<1>5. NewCall(calls, more, c)  BY <1>4 DEF NewCall
<1> QED  BY <1>4, <1>5, CallChanges

\* A failure frees the nodes of all calls and the item.
JsonGaveUp(h, calls, item) ==
    /\ pc' = "done" /\ plist' = NULL /\ err' # 0
    /\ heap' = free_all(h, J!Nodes(calls) \cup ({item} \ {NULL}))

LEMMA JsonGivesUp ==
    ASSUME NEW h, NEW calls, NEW item, Calling(h, calls, item), JsonGaveUp(h, calls, item)
    PROVE  JsonInv'
<1>1. IsHeap(h) /\ IsCalls(calls) /\ Roots(h) = {calls[i].node : i \in 1..Len(calls)} \cup ({item} \ {NULL})
  BY DEF Calling
<1>2. PICK nodes : nodes = Roots(h)  OBVIOUS
<1>3. heap' = free_all(h, nodes)  BY <1>1, <1>2, JsonNodes DEF JsonGaveUp
<1>4. PICK g : g = free_all(h, nodes)  OBVIOUS
<1>5. PICK gone : gone = UNION {Below(h, n) : n \in nodes}  OBVIOUS
<1>6. Frees(h, g, gone) /\ Roots(g) = Roots(h) \ nodes  BY <1>1, <1>2, <1>4, <1>5, FreeAllRoots
<1>7. IsHeap(heap') /\ Roots(heap') = {}  BY <1>2, <1>3, <1>4, <1>6 DEF Frees
<1>8. Outcome(heap', plist', err')  BY <1>7 DEF Outcome, JsonGaveUp
<1> QED  BY <1>8 DEF JsonInv, JsonGaveUp, Outcome

\* The innermost call takes the item.
LEMMA CallTakes ==
    ASSUME NEW h, NEW calls, NEW item, Calling(h, calls, item), calls # <<>>, item # NULL,
           NEW n, n = calls[Len(calls)].node, NEW g, Took(h, g, n, item),
           NEW more, SameCallNodes(calls, more)
    PROVE  Calling(g, more, NULL)
<1>1. /\ IsHeap(h) /\ IsCalls(calls)
      /\ \A i, j \in 1..Len(calls) : i < j => calls[i].node < calls[j].node
      /\ \A i \in 1..Len(calls) : calls[i].node < item
      /\ Roots(h) = {calls[i].node : i \in 1..Len(calls)} \cup {item}
  BY DEF Calling
<1>2. IsHeap(g) /\ Roots(g) = Roots(h) \ {item}  BY DEF Took
<1>3. \A m \in Roots(h) : m \in Nat  BY <1>1, HeapNumbers DEF Roots
<1>4. \A i \in 1..Len(calls) : calls[i].node # item
  <2>1. \A i \in 1..Len(calls) : calls[i].node \in Roots(h)  BY <1>1
  <2>2. \A i \in 1..Len(calls) : calls[i].node \in Nat  BY <1>3, <2>1
  <2>3. item \in Nat  BY <1>1, <1>3
  <2> QED  BY <1>1, <2>2, <2>3
<1>5. Roots(g) = {calls[i].node : i \in 1..Len(calls)} \cup ({NULL} \ {NULL})  BY <1>1, <1>2, <1>4
<1>6. Calling(g, calls, NULL)  BY <1>1, <1>2, <1>5 DEF Calling
<1> QED  BY <1>6, SameCalling

LEMMA JsonReturns ==
    ASSUME NEW h, NEW item, NEW calls, NEW next, Calling(h, calls, item), item # NULL,
           pc = "build", plist = NULL, err = 0, J!Returned(h, item, calls, next)
    PROVE  JsonInv'
<1>1. /\ IsHeap(h) /\ IsCalls(calls)
      /\ \A i \in 1..Len(calls) : calls[i].node < item
      /\ Roots(h) = {calls[i].node : i \in 1..Len(calls)} \cup {item}
  BY DEF Calling
<1>2. CASE calls = <<>>
  <2>1. plist' = item /\ heap' = h /\ pc' = "done" /\ err' = err
    BY <1>2 DEF J!Returned
  <2>2. Roots(h) = {item}  BY <1>1, <1>2
  <2>3. Outcome(heap', plist', err')  BY <1>1, <2>1, <2>2 DEF Outcome
  <2> QED  BY <2>1, <2>3 DEF JsonInv, Outcome
<1>3. CASE calls # <<>>
  <2>1. Len(calls) \in 1..Len(calls)  BY <1>1, <1>3, CallNumbers
  <2>2. PICK call : call = J!Last(calls)  OBVIOUS
  <2>3. call = calls[Len(calls)]  BY <2>2 DEF J!Last
  <2>4. PICK n : n = call.node  OBVIOUS
  <2>5. n = calls[Len(calls)].node /\ n \in Roots(h) /\ n < item /\ n \in Live(h) /\ item \in Roots(h)
    BY <1>1, <2>1, <2>3, <2>4 DEF Roots
  <2>6. CASE /\ heap' = J!attached(h, call, item)
             /\ frames' = [calls EXCEPT ![Len(calls)].left = @ - 1, ![Len(calls)].key = NULL]
             /\ UNCHANGED <<pc, plist, err, oom>>
    <3>1. PICK g : g = J!attached(h, call, item)  OBVIOUS
    <3>2. Took(h, g, n, item)
      <4>1. g = plist_dict_set_item(h, n, call.key, item) \/ g = plist_array_append_item(h, n, item)
        BY <2>4, <3>1, SameFrees, SameCalls DEF J!attached
      <4>2. PICK name : name = call.key  OBVIOUS
      <4> QED  BY <1>1, <2>5, <4>1, <4>2, DictTakes, ArrayTakes
    <3>3. PICK more : more = frames'  OBVIOUS
    <3>4. ItemWasRead(calls, more)  BY <2>6, <3>3 DEF ItemWasRead
    <3>5. SameCallNodes(calls, more)  BY <1>1, <1>3, <3>4, CallsGoOn
    <3>6. Calling(g, more, NULL)  BY <1>3, <2>5, <3>2, <3>5, CallTakes
    <3>7. Calling(heap', frames', NULL)  BY <2>6, <3>1, <3>3, <3>6
    <3> QED  BY <2>6, <3>7 DEF JsonInv
  <2>7. CASE J!GiveUp(h, calls, item, J!PLIST_ERR_NO_MEM, Len(calls) = 1)
    <3>1. JsonGaveUp(h, calls, item)
      BY <2>7, SameFrees
      DEF J!GiveUp, JsonGaveUp, J!cleaned_up, J!PLIST_ERR_NO_MEM, J!PLIST_ERR_PARSE
    <3> QED  BY <3>1, JsonGivesUp
  <2> QED  BY <1>3, <2>2, <2>6, <2>7 DEF J!Returned
<1> QED  BY <1>2, <1>3

LEMMA JsonLeaves ==
    ASSUME J!leaf_node # NULL
    PROVE  \E type, value : J!leaf_node = Node(type, value) /\ type # "freed"
<1>1. \A type, value : J!Node(type, value) = Node(type, value)  BY SameCalls
<1>2. \A text : J!parse_primitive(text) # NULL =>
        \E type, value : J!parse_primitive(text) = J!Node(type, value) /\ type # "freed"
  <2> SUFFICES ASSUME NEW text, J!parse_primitive(text) # NULL
               PROVE  \E type, value : J!parse_primitive(text) = J!Node(type, value) /\ type # "freed"
    OBVIOUS
  <2>1. \/ J!parse_primitive(text) = J!Node("false", NULL)
        \/ J!parse_primitive(text) = J!Node("true", NULL)
        \/ J!parse_primitive(text) = J!Node("null", NULL)
        \/ \E v : J!parse_primitive(text) = J!Node("int", v)
        \/ J!parse_primitive(text) = J!Node("real", NULL)
    BY DEF J!parse_primitive
  <2>2. "false" # "freed" /\ "true" # "freed" /\ "null" # "freed" /\ "int" # "freed" /\ "real" # "freed"
    OBVIOUS
  <2> QED  BY <2>1, <2>2
<1>3. \/ J!leaf_node = J!parse_primitive(J!token.text)
      \/ J!leaf_node = J!Node("string", J!unescape_string(J!token.text))
  BY DEF J!leaf_node
<1>4. "string" # "freed"  OBVIOUS
<1> QED  BY <1>1, <1>2, <1>3, <1>4

\* jsmn_parse makes no node.
LEMMA JsonLexes ==
    ASSUME JsonInv, \/ J!OpenToken \/ J!LeafToken \/ J!CloseToken \/ J!Separator \/ J!Misspelled
                    \/ J!NoRoom \/ J!EndOfText
    PROVE  JsonInv'
<1>1. pc = "lex" /\ heap' = heap /\ plist' = plist /\ frames' = frames
  BY DEF J!OpenToken, J!LeafToken, J!CloseToken, J!Separator, J!Misspelled, J!NoRoom, J!EndOfText, J!Lexing
<1>2. /\ frames = <<>> /\ Calling(heap, frames, NULL) /\ err = 0 /\ plist = NULL
  BY <1>1 DEF JsonInv
<1>3. IsHeap(heap) /\ Roots(heap) = {}  BY <1>2 DEF Calling
<1>4. \/ pc' \in {"lex", "build"} /\ err' = err
      \/ pc' = "done" /\ err' \in {-3, -4}
  BY <1>1
  DEF J!OpenToken, J!LeafToken, J!CloseToken, J!Separator, J!Misspelled, J!NoRoom, J!EndOfText, J!Lexing,
      J!Refused, J!PLIST_ERR_PARSE, J!PLIST_ERR_NO_MEM
<1>5. CASE pc' \in {"lex", "build"} /\ err' = err
  BY <1>1, <1>2, <1>5 DEF JsonInv
<1>6. CASE pc' = "done" /\ err' \in {-3, -4}
  <2>1. Outcome(heap', plist', err')  BY <1>1, <1>2, <1>3, <1>6 DEF Outcome
  <2> QED  BY <1>6, <2>1 DEF JsonInv, Outcome
<1> QED  BY <1>4, <1>5, <1>6

LEMMA JsonBuilds ==
    ASSUME JsonInv, J!Key \/ J!Leaf \/ J!Container \/ J!Return
    PROVE  JsonInv'
<1>1. pc = "build"  BY DEF J!Key, J!Leaf, J!Container, J!Return, J!Building
<1>2. /\ Calling(heap, frames, NULL) /\ err = 0 /\ plist = NULL /\ IsHeap(heap) /\ IsCalls(frames)
      /\ \A i, j \in 1..Len(frames) : i < j => frames[i].node < frames[j].node
      /\ Roots(heap) = {frames[i].node : i \in 1..Len(frames)}
  BY <1>1 DEF JsonInv, Calling
<1>3. CASE \E outermost : \E code \in {-3, -4, -7} : J!GiveUp(heap, frames, NULL, code, outermost)
  <2>1. JsonGaveUp(heap, frames, NULL)
    BY <1>2, <1>3, SameFrees DEF J!GiveUp, JsonGaveUp, J!cleaned_up, J!PLIST_ERR_PARSE
  <2> QED  BY <1>2, <2>1, JsonGivesUp
<1>4. CASE J!Key /\ ~\E outermost : \E code \in {-3, -4, -7} : J!GiveUp(heap, frames, NULL, code, outermost)
  <2>1. PICK key : key = J!c_string(J!unescape_string(J!token.text))  OBVIOUS
  <2>2. /\ frames # <<>>
        /\ frames' = [frames EXCEPT ![Len(frames)].key = key, ![Len(frames)].left = @ - 1]
        /\ UNCHANGED <<pc, heap, plist, err>>
    BY <1>4, <2>1 DEF J!Key, J!wants_key, J!PLIST_ERR_PARSE
  <2>3. PICK more : more = frames'  OBVIOUS
  <2>4. KeyWasRead(frames, more, key)  BY <2>2, <2>3 DEF KeyWasRead
  <2>5. SameCallNodes(frames, more)  BY <1>2, <2>2, <2>4, CallsGoOn
  <2>6. Calling(heap, more, NULL)  BY <1>2, <2>5, SameCalling
  <2>7. Calling(heap', frames', NULL)  BY <2>2, <2>3, <2>6
  <2> QED  BY <1>1, <1>2, <2>2, <2>7 DEF JsonInv
<1>5. CASE J!Leaf /\ ~\E outermost : \E code \in {-3, -4, -7} : J!GiveUp(heap, frames, NULL, code, outermost)
  <2>1. J!leaf_node # NULL /\ J!Returned(Append(heap, J!leaf_node), Len(heap) + 1, frames, index + 1)
    BY <1>5 DEF J!Leaf, J!PLIST_ERR_PARSE
  <2>2. PICK type, value : J!leaf_node = Node(type, value) /\ type # "freed"  BY <2>1, JsonLeaves
  <2>3. PICK h : h = Append(heap, J!leaf_node)  OBVIOUS
  <2>4. PICK item : item = Len(heap) + 1  OBVIOUS
  <2>5. PICK next : next = index + 1  OBVIOUS
  <2>6. Grown(heap, h, type)  BY <1>2, <2>2, <2>3, AppendGrows
  <2>7. item # NULL /\ \A m \in Roots(heap) : m < item
    BY <1>2, <2>4, HeapNumbers, MemoryAssumption DEF Roots
  <2>8. Calling(h, frames, item)  BY <1>2, <2>4, <2>6, <2>7 DEF Calling, Grown
  <2>9. J!Returned(h, item, frames, next)  BY <2>1, <2>3, <2>4, <2>5
  <2> QED  BY <1>1, <1>2, <2>7, <2>8, <2>9, JsonReturns
<1>6. CASE J!Container /\ ~\E outermost : \E code \in {-3, -4, -7} : J!GiveUp(heap, frames, NULL, code, outermost)
  <2>1. PICK type : type = J!Type[J!token.type]  OBVIOUS
  <2>2. type # "freed"  BY <1>6, <2>1 DEF J!Container, J!Type, J!Openers
  <2>3. PICK c : c = [node |-> Len(heap) + 1, left |-> J!token.size, key |-> NULL]  OBVIOUS
  <2>4. /\ heap' = Append(heap, Node(type, NULL)) /\ frames' = Append(frames, c)
        /\ UNCHANGED <<pc, plist, err>>
    BY <1>1, <1>6, <2>1, <2>3, SameCalls
    DEF J!Container, J!Building, J!PLIST_ERR_MAX_NESTING, J!PLIST_ERR_PARSE, J!PLIST_ERR_NO_MEM
  <2>5. PICK h : h = Append(heap, Node(type, NULL))  OBVIOUS
  <2>6. Grown(heap, h, type)  BY <1>2, <2>2, <2>5, AppendGrows
  <2>7. c = [node |-> c.node, left |-> c.left, key |-> c.key] /\ c.node = Len(heap) + 1  BY <2>3
  <2>8. PICK more : more = Append(frames, c)  OBVIOUS
  <2>9. PICK n : n = Len(frames)  OBVIOUS
  <2>10. n \in Nat /\ DOMAIN frames = 1..n  BY <1>2, <2>9, CallNumbers
  <2>11. PICK S : frames \in Seq(S)  BY <1>2 DEF IsCalls
  <2>12. /\ more \in Seq(S \cup {c}) /\ Len(more) = n + 1
         /\ more[n + 1] = c /\ \A i \in 1..n : more[i] = frames[i]
    <3>1. frames \in Seq(S \cup {c})  BY <2>11
    <3> QED  BY <2>8, <2>9, <2>10, <3>1, AppendProperties
  <2>13. 1..(n + 1) = 1..n \cup {n + 1}  BY <2>10
  <2>14. IsCalls(more)  BY <1>2, <2>7, <2>9, <2>12, <2>13 DEF IsCalls
  <2>15. \A i \in 1..n : frames[i].node < Len(heap) + 1
    BY <1>2, <2>9, HeapNumbers DEF Roots
  <2>16. \A i, j \in 1..(n + 1) : i < j => more[i].node < more[j].node
    <3>1. \A i \in 1..n : ~(n + 1 < i)  BY <2>10
    <3>2. ~(n + 1 < n + 1)  BY <2>10
    <3>3. \A i, j \in 1..n : i < j => frames[i].node < frames[j].node  BY <1>2, <2>9
    <3> QED  BY <2>7, <2>12, <2>13, <2>15, <3>1, <3>2, <3>3
  <2>17. Roots(h) = {more[i].node : i \in 1..(n + 1)}
    <3>1. Roots(h) = {frames[i].node : i \in 1..n} \cup {c.node}
      BY <1>2, <2>6, <2>7, <2>9 DEF Grown
    <3> QED  BY <2>12, <2>13, <3>1
  <2>18. Calling(h, more, NULL)
    <3>1. IsHeap(h)  BY <2>6 DEF Grown
    <3> QED  BY <2>12, <2>14, <2>16, <2>17, <3>1 DEF Calling
  <2>19. Calling(heap', frames', NULL)  BY <2>4, <2>5, <2>8, <2>18
  <2> QED  BY <1>1, <1>2, <2>4, <2>19 DEF JsonInv
<1>7. CASE J!Return
  <2>1. frames # <<>> /\ J!Returned(heap, J!frame.node, J!Front(frames), index)
    BY <1>7 DEF J!Return
  <2>2. PICK n : n = Len(frames)  OBVIOUS
  <2>3. n \in Nat /\ n > 0 /\ DOMAIN frames = 1..n  BY <1>2, <2>1, <2>2, CallNumbers
  <2>4. PICK S : frames \in Seq(S)  BY <1>2 DEF IsCalls
  <2>5. PICK calls : calls = J!Front(frames)  OBVIOUS
  <2>6. calls \in Seq(S) /\ Len(calls) = n - 1 /\ \A i \in 1..(n - 1) : calls[i] = frames[i]
    BY <2>2, <2>3, <2>4, <2>5, SubSeqProperties DEF J!Front
  <2>7. 1..n = 1..(n - 1) \cup {n} /\ \A i \in 1..(n - 1) : i < n  BY <2>3
  <2>8. PICK item : item = J!frame.node  OBVIOUS
  <2>9. item = frames[n].node  BY <2>2, <2>8 DEF J!frame, J!Last
  <2>10. IsCalls(calls)  BY <1>2, <2>2, <2>6, <2>7 DEF IsCalls
  <2>11. item \in Roots(heap) /\ item # NULL
    <3>1. item \in Roots(heap)  BY <1>2, <2>2, <2>7, <2>9
    <3> QED  BY <1>2, <3>1, HeapNumbers DEF Roots
  <2>12. Calling(heap, calls, item)
    <3>1. \A i, j \in 1..n : i < j => frames[i].node < frames[j].node  BY <1>2, <2>2
    <3>2. \A i, j \in 1..(n - 1) : i < j => calls[i].node < calls[j].node  BY <2>6, <2>7, <3>1
    <3>3. \A i \in 1..(n - 1) : calls[i].node < item  BY <2>6, <2>7, <2>9, <3>1
    <3>4. Roots(heap) = {calls[i].node : i \in 1..(n - 1)} \cup {item}
      BY <1>2, <2>2, <2>6, <2>7, <2>9
    <3> QED  BY <1>2, <2>6, <2>10, <2>11, <3>2, <3>3, <3>4 DEF Calling
  <2>13. J!Returned(heap, item, calls, index)  BY <2>1, <2>5, <2>8
  <2> QED  BY <1>1, <1>2, <2>11, <2>12, <2>13, JsonReturns
<1> QED  BY <1>3, <1>4, <1>5, <1>6, <1>7

LEMMA JsonSteps ==
    ASSUME JsonInv, J!Next
    PROVE  JsonInv'
BY JsonLexes, JsonBuilds DEF J!Next

-----------------------------------------------------------------------------
(***************************************************************************)
(* XML: the nesting of the tags                                            *)
(***************************************************************************)
IsSeq(s) == \E S : s \in Seq(S)

\* What is around the tag that follows tag i, if w says it of those up to i.
Then(d, w, i) ==
    IF X!Opens(d[i]) THEN i ELSE IF X!Closes(d[i]) /\ w[i] # 0 THEN w[w[i]] ELSE w[i]

\* The same of the first n tags.
Nested(d, w, n) ==
    w = [i \in 1..n |-> IF i = 1 THEN 0 ELSE Then(d, w, i - 1)]

LEMMA NestedBefore ==
    ASSUME NEW d, NEW n \in Nat, NEW w, Nested(d, w, n)
    PROVE  \A i \in 1..n : w[i] \in 0..(i - 1) /\ (i # 1 => w[i] = Then(d, w, i - 1))
<1>1. \A i \in 1..n : w[i] = IF i = 1 THEN 0 ELSE Then(d, w, i - 1)  BY DEF Nested
<1> DEFINE T == {i \in Nat : i \in 1..n /\ w[i] \notin 0..(i - 1)}
<1>2. ASSUME T # {} PROVE FALSE
  <2>1. T \in SUBSET Nat  OBVIOUS
  <2>2. PICK i \in T : \A j \in T : i <= j  BY <1>2, <2>1, LeastCounterexample
  <2>3. i \in 1..n /\ w[i] \notin 0..(i - 1)  BY <2>2
  <2>4. i # 1  BY <1>1, <2>3
  <2>5. i - 1 \in 1..n /\ i - 1 >= 1 /\ i - 1 \in Nat  BY <2>3, <2>4
  <2>6. \A j \in 1..n : j < i => w[j] \in 0..(j - 1)
    <3> SUFFICES ASSUME NEW j \in 1..n, j < i, w[j] \notin 0..(j - 1) PROVE FALSE  OBVIOUS
    <3>1. j \in T  OBVIOUS
    <3> QED  BY <2>2, <2>3, <3>1
  <2>7. w[i - 1] \in 0..(i - 2)  BY <2>3, <2>5, <2>6
  <2>8. w[i - 1] # 0 => w[w[i - 1]] \in 0..(i - 1)
    <3> HAVE w[i - 1] # 0
    <3> DEFINE j == w[i - 1]
    <3>1. j \in 1..n /\ j < i /\ j \in Nat  BY <2>3, <2>7
    <3>2. w[j] \in 0..(j - 1)  BY <2>6, <3>1
    <3> HIDE DEF j
    <3>3. w[j] \in 0..(i - 1)  BY <2>3, <3>1, <3>2
    <3> QED  BY <3>3 DEF j
  <2>9. Then(d, w, i - 1) \in 0..(i - 1)  BY <2>3, <2>5, <2>7, <2>8 DEF Then
  <2> QED  BY <1>1, <2>3, <2>4, <2>9
<1>3. \A i \in 1..n : w[i] \in 0..(i - 1)  BY <1>2
<1> QED  BY <1>1, <1>3

LEMMA NestedFurther ==
    ASSUME NEW d, NEW n \in Nat, NEW u, Nested(d, u, n)
    PROVE  \E v : Nested(d, v, n + 1)
<1> DEFINE new == IF n + 1 = 1 THEN 0 ELSE Then(d, u, n)
           v == [i \in 1..(n + 1) |-> IF i = n + 1 THEN new ELSE u[i]]
<1>1. v = [i \in 1..(n + 1) |-> v[i]]  OBVIOUS
<1>2. v[n + 1] = new  OBVIOUS
<1>3. \A i \in 1..n : v[i] = u[i]  OBVIOUS
<1> HIDE DEF v
<1>4. \A i \in 1..n : u[i] = IF i = 1 THEN 0 ELSE Then(d, u, i - 1)  BY DEF Nested
<1>5. \A i \in 1..n : u[i] \in 0..(i - 1)  BY NestedBefore
<1>6. \A i \in 1..n : Then(d, v, i) = Then(d, u, i)
  <2> SUFFICES ASSUME NEW i \in 1..n PROVE Then(d, v, i) = Then(d, u, i)  OBVIOUS
  <2>1. v[i] = u[i] /\ u[i] \in 0..(i - 1)  BY <1>3, <1>5
  <2>2. u[i] # 0 => u[i] \in 1..n  BY <2>1
  <2>3. u[i] # 0 => v[u[i]] = u[u[i]]  BY <2>2, <1>3
  <2> QED  BY <2>1, <2>3 DEF Then
<1>7. \A i \in 1..(n + 1) : v[i] = IF i = 1 THEN 0 ELSE Then(d, v, i - 1)
  <2> SUFFICES ASSUME NEW i \in 1..(n + 1), i # 1 PROVE v[i] = Then(d, v, i - 1)
    BY <1>2, <1>3, <1>4
  <2>1. i - 1 \in 1..n  OBVIOUS
  <2>2. CASE i = n + 1
    <3>1. n \in 1..n  BY <2>1, <2>2
    <3> QED  BY <2>2, <3>1, <1>2, <1>6
  <2>3. CASE i \in 1..n  BY <2>1, <2>3, <1>3, <1>4, <1>6
  <2> QED  BY <2>2, <2>3
<1>8. Nested(d, v, n + 1)  BY <1>1, <1>7 DEF Nested
<1> QED  BY <1>8

LEMMA NestedExists ==
    ASSUME NEW d, NEW n \in Nat
    PROVE  \E w : Nested(d, w, n)
<1> DEFINE T == {k \in Nat : ~\E w : Nested(d, w, k)}
<1> SUFFICES ASSUME T # {} PROVE FALSE  OBVIOUS
<1>1. T \in SUBSET Nat  OBVIOUS
<1>2. PICK k \in T : \A m \in T : k <= m  BY <1>1, LeastCounterexample
<1>3. k \in Nat /\ ~\E w : Nested(d, w, k)  BY <1>2
<1>4. CASE k = 0
  <2> DEFINE w == [i \in 1..0 |-> 0]
  <2>1. \A f : [i \in 1..0 |-> IF i = 1 THEN 0 ELSE Then(d, f, i - 1)] = w  OBVIOUS
  <2>2. Nested(d, w, 0)  BY <2>1 DEF Nested
  <2> QED  BY <1>3, <1>4, <2>2
<1>5. CASE k # 0
  <2>1. k - 1 \in Nat /\ ~(k <= k - 1) /\ k - 1 + 1 = k  BY <1>3, <1>5
  <2>2. PICK w : Nested(d, w, k - 1)  BY <1>2, <2>1
  <2>3. \E v : Nested(d, v, k - 1 + 1)  BY <1>3, <2>1, <2>2, NestedFurther
  <2> QED  BY <1>3, <2>1, <2>3
<1> QED  BY <1>4, <1>5

\* Tags!Enclosing is what its recursive definition says.
LEMMA EnclosingIs ==
    ASSUME NEW d, IsSeq(d)
    PROVE  /\ Len(d) \in Nat /\ DOMAIN d = 1..Len(d)
           /\ Nested(d, X!Tags!Enclosing(d), Len(d))
<1>1. Len(d) \in Nat /\ DOMAIN d = 1..Len(d)  BY LenProperties DEF IsSeq
<1>2. X!Tags!Enclosing(d) = CHOOSE w : Nested(d, w, Len(d))
  BY <1>1 DEF X!Tags!Enclosing, Nested, Then
<1>3. \E w : Nested(d, w, Len(d))  BY <1>1, NestedExists
<1> QED  BY <1>1, <1>2, <1>3

\* The innermost containers of the first n tags.
Chained(d, w, c, n) ==
    c = [i \in 0..n |-> IF i = 0 \/ X!IsContainer(d[i]) THEN i ELSE c[w[i]]]

LEMMA ChainFurther ==
    ASSUME NEW d, NEW n \in Nat, NEW w, \A i \in 1..(n + 1) : w[i] \in 0..(i - 1),
           NEW u, Chained(d, w, u, n)
    PROVE  \E c : Chained(d, w, c, n + 1)
<1> DEFINE new == IF X!IsContainer(d[n + 1]) THEN n + 1 ELSE u[w[n + 1]]
           c == [i \in 0..(n + 1) |-> IF i = n + 1 THEN new ELSE u[i]]
<1>1. c = [i \in 0..(n + 1) |-> c[i]]  OBVIOUS
<1>2. c[n + 1] = new  OBVIOUS
<1>3. \A i \in 0..n : c[i] = u[i]  OBVIOUS
<1> HIDE DEF c
<1>4. \A i \in 0..n : u[i] = IF i = 0 \/ X!IsContainer(d[i]) THEN i ELSE u[w[i]]  BY DEF Chained
<1>5. \A i \in 0..(n + 1) : c[i] = IF i = 0 \/ X!IsContainer(d[i]) THEN i ELSE c[w[i]]
  <2> SUFFICES ASSUME NEW i \in 0..(n + 1)
               PROVE  c[i] = IF i = 0 \/ X!IsContainer(d[i]) THEN i ELSE c[w[i]]
    OBVIOUS
  <2>1. i # 0 => w[i] \in 0..n /\ c[w[i]] = u[w[i]]
    <3> HAVE i # 0
    <3>1. i \in 1..(n + 1) /\ w[i] \in 0..(i - 1)  OBVIOUS
    <3>2. w[i] \in 0..n  BY <3>1
    <3> QED  BY <3>2, <1>3
  <2>2. CASE i = n + 1  BY <2>1, <2>2, <1>2
  <2>3. CASE i \in 0..n  BY <2>1, <2>3, <1>3, <1>4
  <2> QED  BY <2>2, <2>3
<1>6. Chained(d, w, c, n + 1)  BY <1>1, <1>5 DEF Chained
<1> QED  BY <1>6

LEMMA ChainExists ==
    ASSUME NEW d, NEW n \in Nat, NEW w, \A i \in 1..n : w[i] \in 0..(i - 1)
    PROVE  \E c : Chained(d, w, c, n)
<1> DEFINE T == {k \in Nat : k <= n /\ ~\E c : Chained(d, w, c, k)}
<1> SUFFICES ASSUME T # {} PROVE FALSE  OBVIOUS
<1>1. T \in SUBSET Nat  OBVIOUS
<1>2. PICK k \in T : \A m \in T : k <= m  BY <1>1, LeastCounterexample
<1>3. k \in Nat /\ k <= n /\ ~\E c : Chained(d, w, c, k)  BY <1>2
<1>4. CASE k = 0
  <2> DEFINE c == [i \in 0..0 |-> 0]
  <2>1. \A f : [i \in 0..0 |-> IF i = 0 \/ X!IsContainer(d[i]) THEN i ELSE f[w[i]]] = c  OBVIOUS
  <2>2. Chained(d, w, c, 0)  BY <2>1 DEF Chained
  <2> QED  BY <1>3, <1>4, <2>2
<1>5. CASE k # 0
  <2>1. k - 1 \in Nat /\ ~(k <= k - 1) /\ k - 1 + 1 = k /\ k - 1 <= n  BY <1>3, <1>5
  <2>2. PICK c : Chained(d, w, c, k - 1)  BY <1>2, <2>1
  <2>3. \A i \in 1..(k - 1 + 1) : w[i] \in 0..(i - 1)  BY <1>3, <2>1
  <2>4. \E v : Chained(d, w, v, k - 1 + 1)  BY <2>1, <2>2, <2>3, ChainFurther
  <2> QED  BY <1>3, <2>1, <2>4
<1> QED  BY <1>4, <1>5

LEMMA ContainersAre ==
    ASSUME NEW d, IsSeq(d), NEW w, w = X!Tags!Enclosing(d)
    PROVE  /\ \A i \in 1..Len(d) : w[i] \in 0..(i - 1) /\ (i # 1 => w[i] = Then(d, w, i - 1))
           /\ \E c : /\ Chained(d, w, c, Len(d))
                     /\ X!Enclosing(d) = [i \in 1..Len(d) |-> c[w[i]]]
<1>1. Len(d) \in Nat /\ DOMAIN d = 1..Len(d) /\ Nested(d, w, Len(d))  BY EnclosingIs
<1>2. \A i \in 1..Len(d) : w[i] \in 0..(i - 1) /\ (i # 1 => w[i] = Then(d, w, i - 1))
  BY <1>1, NestedBefore
<1>3. \E c : Chained(d, w, c, Len(d))  BY <1>1, <1>2, ChainExists
<1>4. PICK c : c = CHOOSE c0 : Chained(d, w, c0, Len(d))  OBVIOUS
<1>5. Chained(d, w, c, Len(d))  BY <1>3, <1>4
<1>6. X!Enclosing(d) = [i \in 1..Len(d) |-> c[w[i]]]  BY <1>1, <1>4 DEF X!Enclosing, Chained
<1> QED  BY <1>2, <1>5, <1>6

-----------------------------------------------------------------------------
\* The stack of the tags that are open after the first n tags of d. path are their types.
Opened(d, n, st, path) ==
    /\ st \in Seq(1..n) /\ path \in Seq({"plist", "dict", "array"}) /\ Len(path) = Len(st)
    /\ \A k \in 1..Len(st) :
          /\ path[k] = d[st[k]].type /\ X!Opens(d[st[k]])
          /\ X!Tags!Enclosing(d)[st[k]] = IF k = 1 THEN 0 ELSE st[k - 1]
    /\ (IF n = 0 THEN 0 ELSE Then(d, X!Tags!Enclosing(d), n)) = IF Len(st) = 0 THEN 0 ELSE st[Len(st)]

\* A tag that is in no container.
LEMMA OutsideContainers ==
    ASSUME NEW d, IsSeq(d), NEW n \in Nat, n < Len(d), NEW st, NEW path, Opened(d, n, st, path),
           \A k \in 1..Len(path) : path[k] = "plist"
    PROVE  X!Enclosing(d)[n + 1] = 0
<1>1. PICK w : w = X!Tags!Enclosing(d)  OBVIOUS
<1>2. \A i \in 1..Len(d) : w[i] \in 0..(i - 1) /\ (i # 1 => w[i] = Then(d, w, i - 1))
  BY <1>1, ContainersAre
<1>3. PICK c : Chained(d, w, c, Len(d)) /\ X!Enclosing(d) = [i \in 1..Len(d) |-> c[w[i]]]
  BY <1>1, ContainersAre
<1>4. Len(d) \in Nat /\ n + 1 \in 1..Len(d)  BY EnclosingIs
<1>5. \A i \in 0..Len(d) : c[i] = IF i = 0 \/ X!IsContainer(d[i]) THEN i ELSE c[w[i]]
  BY <1>3 DEF Chained
<1>6. st \in Seq(1..n) /\ Len(st) \in Nat /\ Len(path) = Len(st) /\ \A k \in 1..Len(st) : st[k] \in 1..n
  BY LenProperties, ElementOfSeq DEF Opened
<1> DEFINE T == {k \in Nat : k \in 1..Len(st) /\ c[st[k]] # 0}
<1>7. ASSUME T # {} PROVE FALSE
  <2>1. T \in SUBSET Nat  OBVIOUS
  <2>2. PICK k \in T : \A m \in T : k <= m  BY <1>7, <2>1, LeastCounterexample
  <2>3. k \in Nat /\ k \in 1..Len(st) /\ c[st[k]] # 0  BY <2>2
  <2>4. path[k] = d[st[k]].type /\ path[k] = "plist"  BY <1>6, <2>3 DEF Opened
  <2>5. ~X!IsContainer(d[st[k]])  BY <2>4 DEF X!IsContainer, X!Containers
  <2>6. st[k] \in 0..Len(d) /\ st[k] # 0  BY <1>4, <1>6, <2>3
  <2>7. c[st[k]] = c[w[st[k]]]  BY <1>5, <2>5, <2>6
  <2>8. w[st[k]] = IF k = 1 THEN 0 ELSE st[k - 1]  BY <1>1, <2>3 DEF Opened
  <2>9. c[0] = 0  BY <1>4, <1>5
  <2>10. k # 1  BY <2>3, <2>7, <2>8, <2>9
  <2>11. k - 1 \in 1..Len(st) /\ k - 1 \in Nat /\ ~(k <= k - 1)  BY <2>3, <2>10
  <2>12. k - 1 \notin T  BY <2>2, <2>11
  <2>13. c[st[k - 1]] = 0  BY <2>11, <2>12
  <2> QED  BY <2>3, <2>7, <2>8, <2>10, <2>13
<1>8. \A k \in 1..Len(st) : c[st[k]] = 0
  <2>1. T = {}  BY <1>7
  <2> SUFFICES ASSUME NEW k \in 1..Len(st), c[st[k]] # 0 PROVE FALSE  OBVIOUS
  <2>2. k \in Nat  BY <1>6
  <2>3. k \in T  BY <2>2
  <2> QED  BY <2>1, <2>3
<1>9. c[0] = 0  BY <1>4, <1>5
<1>10. w[n + 1] = IF n = 0 THEN 0 ELSE Then(d, w, n)
  <2>1. w[1] \in 0..0 \/ n # 0  BY <1>2, <1>4
  <2> QED  BY <2>1, <1>2, <1>4
<1>11. c[w[n + 1]] = 0
  <2>1. w[n + 1] = IF Len(st) = 0 THEN 0 ELSE st[Len(st)]  BY <1>1, <1>10 DEF Opened
  <2>2. Len(st) # 0 => Len(st) \in 1..Len(st)  BY <1>6
  <2> QED  BY <2>1, <2>2, <1>8, <1>9
<1> QED  BY <1>3, <1>4, <1>11

\* Only plist elements are open after the first n tags of d.
Outside(d, n, path) ==
    /\ \E st : Opened(d, n, st, path)
    /\ \A k \in 1..Len(path) : path[k] = "plist"

\* The tag that follows the first n: what is around it, and what is around the next.
LEMMA NextAround ==
    ASSUME NEW d, IsSeq(d), NEW n \in Nat, n < Len(d), NEW st, NEW path, Opened(d, n, st, path),
           NEW w, w = X!Tags!Enclosing(d)
    PROVE  /\ n + 1 \in 1..Len(d) /\ w[n + 1] = IF Len(st) = 0 THEN 0 ELSE st[Len(st)]
           /\ Len(st) \in Nat /\ Len(path) = Len(st) /\ st \in Seq(1..n)
           /\ path \in Seq({"plist", "dict", "array"})
           /\ \A k \in 1..Len(st) :
                 /\ st[k] \in 1..n /\ path[k] = d[st[k]].type /\ X!Opens(d[st[k]])
                 /\ w[st[k]] = IF k = 1 THEN 0 ELSE st[k - 1]
<1>1. \A i \in 1..Len(d) : w[i] \in 0..(i - 1) /\ (i # 1 => w[i] = Then(d, w, i - 1))
  BY ContainersAre
<1>2. Len(d) \in Nat /\ n + 1 \in 1..Len(d)  BY EnclosingIs
<1>3. st \in Seq(1..n) /\ Len(st) \in Nat /\ Len(path) = Len(st) /\ \A k \in 1..Len(st) : st[k] \in 1..n
  BY LenProperties, ElementOfSeq DEF Opened
<1>4. w[n + 1] = IF n = 0 THEN 0 ELSE Then(d, w, n)
  <2>1. CASE n = 0  BY <1>1, <1>2, <2>1
  <2>2. CASE n # 0
    <3>1. n + 1 # 1 /\ n + 1 - 1 = n  BY <2>2
    <3> QED  BY <1>1, <1>2, <2>2, <3>1
  <2> QED  BY <2>1, <2>2
<1> QED  BY <1>2, <1>3, <1>4 DEF Opened

LEMMA OutsideFirst ==
    ASSUME NEW d
    PROVE  Outside(d, 0, <<>>)
<1>1. Opened(d, 0, <<>>, <<>>)  BY DEF Opened
<1> QED  BY <1>1 DEF Outside

LEMMA OutsideStays ==
    ASSUME NEW d, IsSeq(d), NEW n \in Nat, n < Len(d), NEW path, Outside(d, n, path),
           ~X!Opens(d[n + 1]), ~X!Closes(d[n + 1])
    PROVE  Outside(d, n + 1, path)
<1>1. PICK st : Opened(d, n, st, path)  BY DEF Outside
<1>2. PICK w : w = X!Tags!Enclosing(d)  OBVIOUS
<1>3. /\ w[n + 1] = IF Len(st) = 0 THEN 0 ELSE st[Len(st)]
      /\ st \in Seq(1..n)
  BY <1>1, <1>2, NextAround
<1>4. Then(d, w, n + 1) = w[n + 1]  BY DEF Then
<1>5. 1..n \subseteq 1..(n + 1) /\ n + 1 # 0  OBVIOUS
<1>6. st \in Seq(1..(n + 1))  BY <1>3, <1>5, SeqMonotonic
<1>7. Opened(d, n + 1, st, path)  BY <1>1, <1>2, <1>3, <1>4, <1>5, <1>6 DEF Opened
<1> QED  BY <1>7 DEF Outside

LEMMA OutsideOpens ==
    ASSUME NEW d, IsSeq(d), NEW n \in Nat, n < Len(d), NEW path, Outside(d, n, path),
           d[n + 1].type = "plist", ~d[n + 1].empty
    PROVE  Outside(d, n + 1, Append(path, "plist"))
<1>1. PICK st : Opened(d, n, st, path)  BY DEF Outside
<1>2. PICK w : w = X!Tags!Enclosing(d)  OBVIOUS
<1>3. /\ w[n + 1] = IF Len(st) = 0 THEN 0 ELSE st[Len(st)]
      /\ Len(st) \in Nat /\ Len(path) = Len(st) /\ st \in Seq(1..n)
      /\ path \in Seq({"plist", "dict", "array"})
      /\ \A k \in 1..Len(st) :
            /\ st[k] \in 1..n /\ path[k] = d[st[k]].type /\ X!Opens(d[st[k]])
            /\ w[st[k]] = IF k = 1 THEN 0 ELSE st[k - 1]
  BY <1>1, <1>2, NextAround
<1>4. X!Opens(d[n + 1])  BY DEF X!Opens, X!Closing
<1>5. Then(d, w, n + 1) = n + 1 /\ n + 1 # 0  BY <1>4 DEF Then
<1>6. 1..n \subseteq 1..(n + 1) /\ n + 1 \in 1..(n + 1)  OBVIOUS
<1>7. PICK m : m = Len(st)  OBVIOUS
<1>8. st \in Seq(1..(n + 1))  BY <1>3, <1>6, SeqMonotonic
<1>9. PICK s : s = Append(st, n + 1)  OBVIOUS
<1>10. s \in Seq(1..(n + 1)) /\ Len(s) = m + 1 /\ s[m + 1] = n + 1 /\ \A k \in 1..m : s[k] = st[k]
  BY <1>6, <1>7, <1>8, <1>9, AppendProperties
<1>11. PICK p : p = Append(path, "plist")  OBVIOUS
<1>12. /\ p \in Seq({"plist", "dict", "array"}) /\ Len(p) = m + 1
       /\ p[m + 1] = "plist" /\ \A k \in 1..m : p[k] = path[k]
  BY <1>3, <1>7, <1>11, AppendProperties
<1>13. m \in Nat /\ 1..(m + 1) = 1..m \cup {m + 1} /\ \A k \in 1..m : k # 1 => k - 1 \in 1..m  BY <1>3, <1>7
<1>14. \A k \in 1..(m + 1) :
          /\ p[k] = d[s[k]].type /\ X!Opens(d[s[k]])
          /\ w[s[k]] = IF k = 1 THEN 0 ELSE s[k - 1]
  <2>1. \A k \in 1..m : /\ p[k] = d[s[k]].type /\ X!Opens(d[s[k]])
                        /\ w[s[k]] = IF k = 1 THEN 0 ELSE s[k - 1]
    <3> TAKE k \in 1..m
    <3>1. /\ s[k] = st[k] /\ p[k] = path[k] /\ k \in 1..Len(st)
          /\ k # 1 => s[k - 1] = st[k - 1]
      BY ONLY k \in 1..m, <1>7, <1>10, <1>12, <1>13
    <3> QED  BY ONLY <3>1, <1>3
  <2>2. w[n + 1] = IF m + 1 = 1 THEN 0 ELSE s[(m + 1) - 1]
    <3>1. m + 1 = 1 <=> m = 0  BY <1>13
    <3>2. m # 0 => m \in 1..m /\ (m + 1) - 1 = m  BY <1>13
    <3> QED  BY <1>3, <1>7, <1>10, <3>1, <3>2
  <2>3. /\ p[m + 1] = d[s[m + 1]].type /\ X!Opens(d[s[m + 1]])
        /\ w[s[m + 1]] = IF m + 1 = 1 THEN 0 ELSE s[(m + 1) - 1]
    BY <1>4, <1>10, <1>12, <2>2
  <2> DEFINE Q(k) == /\ p[k] = d[s[k]].type /\ X!Opens(d[s[k]])
                     /\ w[s[k]] = IF k = 1 THEN 0 ELSE s[k - 1]
  <2>4. \A k \in 1..m : Q(k)  BY <2>1
  <2>6. Q(m + 1)  BY ONLY <2>3
  <2> HIDE DEF Q
  <2>5. ASSUME NEW k \in 1..(m + 1) PROVE Q(k)
    <3>1. k \in 1..m \/ k = m + 1  BY <1>13
    <3> QED  BY ONLY <3>1, <2>4, <2>6
  <2> QED  BY <2>5 DEF Q
<1>15. m + 1 # 0  BY <1>13
<1>16. Opened(d, n + 1, s, p)  BY <1>2, <1>5, <1>10, <1>12, <1>14, <1>15 DEF Opened
<1>17. \A k \in 1..(m + 1) : p[k] = "plist"  BY <1>3, <1>7, <1>12, <1>13 DEF Outside
<1> QED  BY <1>11, <1>12, <1>16, <1>17 DEF Outside

LEMMA OutsideCloses ==
    ASSUME NEW d, IsSeq(d), NEW n \in Nat, n < Len(d), NEW path, Outside(d, n, path), path # <<>>,
           d[n + 1].type = "/plist"
    PROVE  Outside(d, n + 1, Front(path))
<1>1. PICK st : Opened(d, n, st, path)  BY DEF Outside
<1>2. PICK w : w = X!Tags!Enclosing(d)  OBVIOUS
<1>3. /\ w[n + 1] = IF Len(st) = 0 THEN 0 ELSE st[Len(st)]
      /\ Len(st) \in Nat /\ Len(path) = Len(st) /\ st \in Seq(1..n)
      /\ path \in Seq({"plist", "dict", "array"})
      /\ \A k \in 1..Len(st) :
            /\ st[k] \in 1..n /\ path[k] = d[st[k]].type /\ X!Opens(d[st[k]])
            /\ w[st[k]] = IF k = 1 THEN 0 ELSE st[k - 1]
  BY <1>1, <1>2, NextAround
<1>4. ~X!Opens(d[n + 1]) /\ X!Closes(d[n + 1])  BY DEF X!Opens, X!Closing, X!Closes
<1>5. PICK m : m = Len(st)  OBVIOUS
<1>6. m \in Nat /\ m # 0 /\ m \in 1..m  BY <1>3, <1>5, EmptySeq
<1>7. w[n + 1] = st[m] /\ st[m] \in 1..n /\ st[m] # 0  BY <1>3, <1>5, <1>6
<1>8. Then(d, w, n + 1) = IF m = 1 THEN 0 ELSE st[m - 1]  BY <1>3, <1>4, <1>5, <1>6, <1>7 DEF Then
<1>9. 1..n \subseteq 1..(n + 1) /\ n + 1 # 0  OBVIOUS
<1>10. st \in Seq(1..(n + 1))  BY <1>3, <1>9, SeqMonotonic
<1>11. m - 1 \in Nat /\ 1..(m - 1) \subseteq 1..m /\ (m - 1 = 0 <=> m = 1)
       /\ \A k \in 1..(m - 1) : k # 1 => k - 1 \in 1..(m - 1)
  BY <1>6
<1>12. PICK s : s = SubSeq(st, 1, m - 1)  OBVIOUS
<1>20. /\ 1 \in 1..(m + 1) /\ m - 1 \in (1 - 1)..m /\ m - 1 - 1 + 1 = m - 1
       /\ \A k \in 1..(m - 1) : 1 + k - 1 = k
  BY <1>6
<1>13. s \in Seq(1..(n + 1)) /\ Len(s) = m - 1 /\ \A k \in 1..(m - 1) : s[k] = st[k]
  BY <1>5, <1>10, <1>12, <1>20, SubSeqProperties
<1>14. PICK p : p = Front(path)  OBVIOUS
<1>15. p \in Seq({"plist", "dict", "array"}) /\ Len(p) = m - 1 /\ \A k \in 1..(m - 1) : p[k] = path[k]
  BY <1>3, <1>5, <1>14, <1>20, SubSeqProperties DEF Front
<1>16. \A k \in 1..(m - 1) :
          /\ p[k] = d[s[k]].type /\ X!Opens(d[s[k]])
          /\ w[s[k]] = IF k = 1 THEN 0 ELSE s[k - 1]
  <2> TAKE k \in 1..(m - 1)
  <2>1. /\ s[k] = st[k] /\ p[k] = path[k] /\ k \in 1..m
        /\ k # 1 => s[k - 1] = st[k - 1]
    BY ONLY k \in 1..(m - 1), <1>11, <1>13, <1>15
  <2> QED  BY ONLY <2>1, <1>3, <1>5
<1>17. Then(d, w, n + 1) = IF m - 1 = 0 THEN 0 ELSE s[m - 1]
  <2>1. m - 1 # 0 => m - 1 \in 1..(m - 1)  BY <1>6
  <2>2. m - 1 # 0 => s[m - 1] = st[m - 1]  BY <1>13, <2>1
  <2> QED  BY ONLY <1>8, <1>11, <2>2
<1>18. Opened(d, n + 1, s, p)  BY <1>2, <1>9, <1>13, <1>15, <1>16, <1>17 DEF Opened
<1>19. \A k \in 1..(m - 1) : p[k] = "plist"  BY <1>3, <1>5, <1>11, <1>15 DEF Outside
<1> QED  BY <1>14, <1>15, <1>18, <1>19 DEF Outside

\* A document in which an empty container is the first value at the top has no other
\* value there if its root is not reopened.
EmptyRoot(d, n) ==
    \E f \in 1..n : /\ X!IsValue(d[f]) /\ d[f].type \in X!Containers /\ d[f].empty
                    /\ X!Enclosing(d)[f] = 0 /\ \A i \in 1..(f - 1) : ~X!IsValue(d[i])

LEMMA NoValueFollows ==
    ASSUME NEW d, IsSeq(d), NEW n \in Nat, n < Len(d), NEW path, Outside(d, n, path),
           EmptyRoot(d, n), ~X!RootReopened(d)
    PROVE  ~X!IsValue(d[n + 1])
<1> SUFFICES ASSUME X!IsValue(d[n + 1]) PROVE FALSE  OBVIOUS
<1>1. X!Enclosing(d)[n + 1] = 0  BY OutsideContainers DEF Outside
<1>2. Len(d) \in Nat /\ DOMAIN d = 1..Len(d)  BY EnclosingIs
<1>3. PICK f \in 1..n : /\ X!IsValue(d[f]) /\ d[f].type \in X!Containers /\ d[f].empty
                        /\ X!Enclosing(d)[f] = 0 /\ \A i \in 1..(f - 1) : ~X!IsValue(d[i])
  BY DEF EmptyRoot
<1> DEFINE roots == {i \in DOMAIN d : X!IsValue(d[i]) /\ X!Enclosing(d)[i] = 0}
<1>4. f \in roots /\ n + 1 \in roots /\ f < n + 1  BY <1>1, <1>2, <1>3
<1>5. \A k \in roots : f <= k
  <2> SUFFICES ASSUME NEW k \in roots, ~(f <= k) PROVE FALSE  OBVIOUS
  <2>1. k \in 1..(f - 1)  BY <1>2, <1>3
  <2> QED  BY <1>3, <2>1
<1> QED  BY <1>3, <1>4, <1>5 DEF X!RootReopened

LEMMA XmlCalls ==
    /\ \A h : X!Live(h) = Live(h)
    /\ \A type, value : X!Node(type, value) = Node(type, value)
    /\ \A h, n : X!Below(h, n) = Below(h, n) /\ X!Depth(h, n) = Depth(h, n)
    /\ \A h, nodes : X!free_all(h, nodes) = free_all(h, nodes)
    /\ \A h, n : X!plist_free(h, n) = plist_free(h, n)
    /\ \A h, n, x : X!within_limit(h, n, x) <=> within_limit(h, n, x)
    /\ \A h, n, x : X!plist_array_append_item(h, n, x) = plist_array_append_item(h, n, x)
    /\ \A h, n, name, x : X!plist_dict_set_item(h, n, name, x) = plist_dict_set_item(h, n, name, x)
<1>1. \A h : X!Live(h) = Live(h)  BY DEF X!Live, Live
<1>2. \A type, value : X!Node(type, value) = Node(type, value)  BY DEF X!Node, Node
<1>3. X!Freed = Freed  BY DEF X!Freed, Freed, X!Node, Node
<1>4. \A h, n : X!Upward(h, n) = Upward(h, n)  BY DEF X!Upward, Upward
<1>5. \A h, n : X!Below(h, n) = Below(h, n)  BY <1>4 DEF X!Below, Below, X!ToSet, ToSet
<1>6. \A h, n : X!Depth(h, n) = Depth(h, n)  BY <1>4 DEF X!Depth, Depth
<1>7. \A S : X!Most(S) = Most(S)  BY DEF X!Most, Most
<1>8. \A h, n : X!Levels(h, n) = Levels(h, n)
  <2> SUFFICES ASSUME NEW h, NEW n PROVE X!Levels(h, n) = Levels(h, n)  OBVIOUS
  <2>1. {Len(X!Upward(h, m)) : m \in X!Below(h, n)} = {Len(Upward(h, m)) : m \in Below(h, n)}
    BY <1>4, <1>5
  <2> QED  BY <2>1, <1>4, <1>7 DEF X!Levels, Levels
<1>9. \A h, n, x : X!within_limit(h, n, x) <=> within_limit(h, n, x)
  BY <1>6, <1>8 DEF X!within_limit, within_limit
<1>10. \A h, nodes : X!free_all(h, nodes) = free_all(h, nodes)
  <2> SUFFICES ASSUME NEW h, NEW nodes PROVE X!free_all(h, nodes) = free_all(h, nodes)  OBVIOUS
  <2>1. {X!Below(h, n) : n \in nodes} = {Below(h, n) : n \in nodes}  BY <1>5
  <2> QED  BY <2>1, <1>3 DEF X!free_all, free_all
<1>11. \A h, n : X!plist_free(h, n) = plist_free(h, n)
  BY <1>3, <1>5 DEF X!plist_free, plist_free
<1>12. \A h, n, x : X!plist_array_append_item(h, n, x) = plist_array_append_item(h, n, x)
  BY DEF X!plist_array_append_item, plist_array_append_item
<1>13. \A h, n, name : X!Positions(h, n, name) = Positions(h, n, name)
  BY DEF X!Positions, Positions
<1>14. \A h, n, name, x : X!plist_dict_set_item(h, n, name, x) = plist_dict_set_item(h, n, name, x)
  <2> SUFFICES ASSUME NEW h, NEW n, NEW name, NEW x
               PROVE  X!plist_dict_set_item(h, n, name, x) = plist_dict_set_item(h, n, name, x)
    OBVIOUS
  <2> DEFINE i == CHOOSE i \in Positions(h, n, name) : TRUE
             freed == plist_free(h, h[n].kids[i])
             more == plist_array_append_item(h, n, x)
  <2>1. plist_dict_set_item(h, n, name, x) =
           IF Positions(h, n, name) = {} THEN [more EXCEPT ![x].key = name]
           ELSE [freed EXCEPT ![n].kids = [h[n].kids EXCEPT ![i] = x], ![x].up = n, ![x].key = name]
    BY DEF plist_dict_set_item
  <2>2. X!plist_dict_set_item(h, n, name, x) =
           IF Positions(h, n, name) = {} THEN [more EXCEPT ![x].key = name]
           ELSE [freed EXCEPT ![n].kids = [h[n].kids EXCEPT ![i] = x], ![x].up = n, ![x].key = name]
    <3>1. X!Positions(h, n, name) = Positions(h, n, name)  BY <1>13
    <3>2. (CHOOSE k \in X!Positions(h, n, name) : TRUE) = i  BY <3>1
    <3>3. X!plist_array_append_item(h, n, x) = more  BY <1>12
    <3>4. X!plist_free(h, h[n].kids[i]) = freed  BY <1>11
    <3> HIDE DEF i, more, freed
    <3> QED  BY ONLY <3>1, <3>2, <3>3, <3>4 DEF X!plist_dict_set_item
  <2> QED  BY ONLY <2>1, <2>2
<1> QED  BY <1>1, <1>2, <1>5, <1>6, <1>9, <1>10, <1>11, <1>12, <1>14

LEMMA FreeRoot ==
    ASSUME NEW h, IsHeap(h), NEW n \in Roots(h)
    PROVE  plist_free(h, n) = free_all(h, {n})
<1>1. h[n].up = NULL /\ \A m \in DOMAIN h : m # NULL  BY HeapNumbers DEF Roots
<1>2. UNION {Below(h, k) : k \in {n}} = Below(h, n)  OBVIOUS
<1> QED  BY <1>1, <1>2 DEF plist_free, free_all

\* n has lost all its items, and with them what is below them.
Emptied(h, g, n, gone) ==
    /\ Len(g) = Len(h) /\ \E S : g \in Seq(S)
    /\ \A m \in gone : g[m] = Freed
    /\ \A m \in 1..Len(h) : m \notin gone /\ m # n => g[m] = h[m]
    /\ IsNode(g[n]) /\ g[n].type # "freed" /\ g[n].up = h[n].up /\ g[n].kids = <<>>

LEMMA EmptiedIsHeap ==
    ASSUME NEW h, IsHeap(h), NEW n \in Live(h), NEW gone, CutUnder(h, gone, n), n \notin gone,
           NEW g, Emptied(h, g, n, gone)
    PROVE  /\ IsHeap(g) /\ Len(g) = Len(h) /\ Live(g) = Live(h) \ gone /\ Roots(g) = Roots(h)
           /\ \A m \in Live(g) : g[m].up = h[m].up
<1>1. Len(h) \in Nat /\ Len(g) = Len(h) /\ DOMAIN h = 1..Len(h) /\ DOMAIN g = 1..Len(h)
  BY HeapNumbers, LenProperties DEF Emptied
<1>2. n \in 1..Len(h) /\ h[n].type # "freed" /\ n # NULL  BY HeapNumbers
<1>3. IsNode(Freed) /\ Freed.type = "freed" /\ Freed.up = NULL /\ Freed.kids = <<>>
  BY NewNode DEF Freed
<1>4. <<>> \in Seq(1..Len(g)) /\ DOMAIN <<>> = {}  OBVIOUS
<1>5. \A m \in 1..Len(h) : m \notin gone => g[m].up = h[m].up /\ (g[m].type = "freed" <=> h[m].type = "freed")
  BY <1>2 DEF Emptied
<1>6. ASSUME NEW m \in 1..Len(h) PROVE IsNode(g[m]) /\ Links(g, m)
  <2>0. IsNode(h[m]) /\ Links(h, m)  BY DEF IsHeap
  <2>1. CASE m \in gone
    <3>1. g[m] = Freed  BY <2>1 DEF Emptied
    <3> QED  BY <1>3, <1>4, <3>1 DEF Links
  <2>2. CASE m \notin gone
    <3>1. h[m].up # NULL => h[m].up \in 1..Len(h) /\ h[m].up \notin gone
      BY <2>2, UpIs DEF CutUnder
    <3>2. g[m].up = NULL \/ (g[m].up \in 1..(m - 1) /\ g[g[m].up].type # "freed" /\ g[m].type # "freed")
      BY <1>5, <2>0, <2>2, <3>1 DEF Links
    <3>3. CASE m = n  BY <1>4, <2>0, <3>2, <3>3 DEF Links, Emptied
    <3>4. CASE m # n
      <4>1. g[m] = h[m]  BY <2>2, <3>4 DEF Emptied
      <4>2. h[m].kids \in Seq(1..Len(h))  BY <2>0 DEF Links
      <4>3. ASSUME NEW i \in DOMAIN h[m].kids PROVE g[h[m].kids[i]].up = m
        <5> DEFINE c == h[m].kids[i]
        <5>1. c \in 1..Len(h)  BY <4>2, LenProperties
        <5>2. h[c].up = m  BY <2>0 DEF Links
        <5>3. c \notin gone  BY <2>2, <3>4, <5>1, <5>2 DEF CutUnder
        <5> QED  BY <1>5, <5>1, <5>2, <5>3
      <4> QED  BY <1>1, <2>0, <3>2, <4>1, <4>2, <4>3 DEF Links
    <3> QED  BY <3>3, <3>4
  <2> QED  BY <2>1, <2>2
<1>7. IsHeap(g)  BY <1>1, <1>6 DEF IsHeap, Emptied
<1>8. Live(g) = Live(h) \ gone
  <2>1. \A m \in gone : g[m].type = "freed"  BY <1>3 DEF Emptied
  <2> QED  BY <1>1, <1>5, <2>1 DEF Live
<1>9. \A m \in Live(g) : g[m].up = h[m].up  BY <1>1, <1>5, <1>8 DEF Live
<1>10. Roots(g) = Roots(h)
  <2>1. \A r \in Roots(h) : r \notin gone  BY <1>1 DEF Roots, Live, CutUnder
  <2> QED  BY <1>8, <1>9, <2>1 DEF Roots
<1> QED  BY <1>1, <1>7, <1>8, <1>9, <1>10

\* A dict becomes a UID.
UidNode(s, r, v) == s = [r EXCEPT !.type = "uid", !.value = v, !.kids = <<>>]

LEMMA UidSet ==
    ASSUME NEW r, IsNode(r), NEW v, NEW s, UidNode(s, r, v)
    PROVE  IsNode(s) /\ s.type = "uid" /\ s.up = r.up /\ s.kids = <<>>
<1>1. DOMAIN r = {"type", "value", "key", "up", "kids"}  BY DEF IsNode
<1> QED  BY <1>1 DEF UidNode, IsNode

LEMMA UidEmpties ==
    ASSUME NEW h, IsHeap(h), NEW n \in Live(h), NEW k \in X!uid_values(h, n),
           NEW g, g = X!with_uid(h, n, k)
    PROVE  /\ IsHeap(g) /\ Len(g) = Len(h) /\ Roots(g) = Roots(h)
           /\ \A m \in Live(g) : g[m].up = h[m].up
           /\ Live(g) = Live(h) \ Below(h, k)
           /\ n \notin Below(h, k)
           /\ \A m \in Live(g) : m # n => g[m].type = h[m].type
<1>1. n \in 1..Len(h) /\ n \in Nat /\ n # NULL /\ Len(h) \in Nat /\ DOMAIN h = 1..Len(h)  BY HeapNumbers
<1>2. IsNode(h[n]) /\ Links(h, n)  BY <1>1 DEF IsHeap
<1>3. k \in ToSet(h[n].kids)  BY DEF X!uid_values, X!ToSet, ToSet
<1>4. PICK i \in DOMAIN h[n].kids : k = h[n].kids[i]  BY <1>3 DEF ToSet
<1>5. h[n].kids \in Seq(1..Len(h))  BY <1>2 DEF Links
<1>6. k \in 1..Len(h) /\ h[k].up = n
  <2>1. k \in 1..Len(h)  BY <1>4, <1>5, LenProperties
  <2> QED  BY <1>2, <1>4, <2>1 DEF Links
<1>7. k \in Nat /\ n < k  BY <1>1, <1>6, HeapNumbers, UpIs
<1> DEFINE gone == Below(h, k)
<1>8. gone \subseteq k..Len(h)  BY <1>6, BelowIs
<1>9. n \notin gone  BY <1>1, <1>7, <1>8
<1>10. gone \subseteq 1..Len(h)  BY <1>1, <1>6, <1>8
<1>11. CutUnder(h, gone, n)
  <2> SUFFICES ASSUME NEW m \in 1..Len(h)
               PROVE  /\ h[m].up # NULL => (h[m].up \in gone => m \in gone)
                      /\ m \in gone => h[m].up # NULL /\ (h[m].up \in gone \/ h[m].up = n)
    BY <1>10 DEF CutUnder
  <2>1. m \in gone <=> m = k \/ (h[m].up # NULL /\ h[m].up \in gone)  BY <1>6, BelowIs
  <2> QED  BY <1>1, <1>6, <2>1
<1>12. PICK f : f = free_all(h, {k})  OBVIOUS
<1>13. f = [m \in 1..Len(h) |-> IF m \in gone THEN Freed ELSE h[m]]
  <2>1. UNION {Below(h, j) : j \in {k}} = gone  OBVIOUS
  <2> QED  BY <1>1, <1>12, <2>1 DEF free_all
<1>14. PICK v : v = h[k].value  OBVIOUS
<1>15. g = [f EXCEPT ![n].type = "uid", ![n].value = v, ![n].kids = <<>>]
  BY <1>12, <1>14, XmlCalls DEF X!with_uid
<1> HIDE DEF gone
<1>16. DOMAIN f = 1..Len(h) /\ \A m \in 1..Len(h) : f[m] = IF m \in gone THEN Freed ELSE h[m]
  BY <1>13
<1>17. PICK s : s = [h[n] EXCEPT !.type = "uid", !.value = v, !.kids = <<>>]  OBVIOUS
<1>18. IsNode(s) /\ s.type = "uid" /\ s.up = h[n].up /\ s.kids = <<>>
  <2>1. UidNode(s, h[n], v)  BY <1>17 DEF UidNode
  <2> QED  BY <1>2, <2>1, UidSet
<1>19. f[n] = h[n]  BY <1>1, <1>9, <1>16
<1>20. DOMAIN g = 1..Len(h) /\ g[n] = s /\ \A m \in 1..Len(h) : m # n => g[m] = f[m]
  BY ONLY <1>1, <1>15, <1>16, <1>17, <1>19
<1>21. g = [m \in 1..Len(h) |-> g[m]]
  <2>1. g = [m \in 1..Len(h) |-> IF m = n THEN g[n] ELSE f[m]]  BY ONLY <1>1, <1>15, <1>16
  <2> QED  BY <2>1, <1>20
<1>22. (\E S : g \in Seq(S)) /\ Len(g) = Len(h)  BY <1>1, <1>20, <1>21, SomeSeq
<1>23. Emptied(h, g, n, gone)
  <2>1. \A m \in gone : g[m] = Freed
    <3> SUFFICES ASSUME NEW m \in gone PROVE g[m] = Freed  OBVIOUS
    <3>1. m \in 1..Len(h) /\ m # n  BY <1>9, <1>10
    <3> QED  BY <1>16, <1>20, <3>1
  <2>2. \A m \in 1..Len(h) : m \notin gone /\ m # n => g[m] = h[m]  BY <1>16, <1>20
  <2> QED  BY <1>18, <1>20, <1>22, <2>1, <2>2 DEF Emptied
<1>24. /\ IsHeap(g) /\ Len(g) = Len(h) /\ Live(g) = Live(h) \ gone /\ Roots(g) = Roots(h)
       /\ \A m \in Live(g) : g[m].up = h[m].up
  BY <1>9, <1>11, <1>23, EmptiedIsHeap
<1>25. \A m \in Live(g) : m # n => g[m].type = h[m].type
  <2>1. \A m \in Live(g) : m \in 1..Len(h) /\ m \notin gone  BY <1>24, HeapNumbers
  <2> QED  BY <1>23, <2>1 DEF Emptied
<1> QED  BY <1>9, <1>24, <1>25 DEF gone

\* So n is as deep as it was.
LEMMA UidDepth ==
    ASSUME NEW h, IsHeap(h), NEW n \in Live(h), NEW k \in X!uid_values(h, n),
           NEW g, g = X!with_uid(h, n, k)
    PROVE  \A m \in Live(g) : Depth(g, m) = Depth(h, m)
<1>1. /\ IsHeap(g) /\ Len(g) = Len(h)
      /\ \A m \in Live(g) : g[m].up = h[m].up
      /\ Live(g) = Live(h) \ Below(h, k)
  BY UidEmpties
<1>2. Live(g) \subseteq 1..Len(h) /\ Live(g) \subseteq 1..Len(g)  BY <1>1, HeapNumbers
<1>3. \A m \in Live(g) : g[m].up # NULL => g[m].up \in Live(g)  BY <1>1, <1>2, UpIs
<1>4. SameUps(g, h, Live(g))  BY <1>1, <1>2, <1>3 DEF SameUps
<1> QED  BY <1>1, <1>4, SameBelow

-----------------------------------------------------------------------------
(***************************************************************************)
(* XML: the tree is the only root, and parent is in it                     *)
(***************************************************************************)
OneTree(h, root) == IsHeap(h) /\ Roots(h) = IF root = NULL THEN {} ELSE {root}

\* No value was read yet.
Unrooted ==
    /\ plist = NULL /\ parent = NULL /\ depth = 0
    /\ Outside(doc, pos, node_path) /\ \A i \in 1..pos : ~X!IsValue(doc[i])

\* The root is complete.
Complete == plist # NULL /\ parent = NULL /\ depth = 0

\* parent is as deep in the tree as depth says.
Filling == plist # NULL /\ parent \in Live(heap) /\ depth = Depth(heap, parent)

\* The root is an empty container, and no value follows it unless it is reopened.
Hollow ==
    /\ plist # NULL /\ parent = plist /\ depth = 0
    /\ Outside(doc, pos, node_path) /\ EmptyRoot(doc, pos)

XmlReading ==
    /\ pc = "read" /\ IsSeq(doc) /\ pos \in 0..Len(doc)
    /\ OneTree(heap, plist)
    /\ err = 0 /\ twice = FALSE /\ depth \in 0..MaxNesting
    /\ Unrooted \/ Complete \/ Filling \/ Hollow

XmlOutcome ==
    /\ OneTree(heap, plist)
    /\ err # 0 => plist = NULL
    /\ twice => "path" \in oom /\ depth = 0

XmlInv == X!NoneRefused => IF pc = "done" THEN XmlOutcome ELSE XmlReading

\* A failed allocation is not forgotten.
LEMMA RefusedForGood ==
    ASSUME X!Next
    PROVE  X!NoneRefused' => X!NoneRefused
<1>1. doc' = doc
  BY DEF X!Next, X!Garbage, X!OpenPlist, X!ClosePlist, X!NoNode, X!Unreadable, X!Key, X!RootValue,
         X!MisplacedValue, X!ChildValue, X!CloseContainer, X!EndOfDocument, X!ReadingValue, X!Reading
<1>2. oom \subseteq oom'
  BY DEF X!Next, X!Garbage, X!OpenPlist, X!ClosePlist, X!NoNode, X!Unreadable, X!Key, X!RootValue,
         X!MisplacedValue, X!ChildValue, X!CloseContainer, X!EndOfDocument, X!Fails, X!PlacedNoPath
<1> QED  BY <1>1, <1>2 DEF X!NoneRefused

\* The node at hand, if there is one, and the tree that is given up.
AtHand(h, sub, root) ==
    /\ IsHeap(h) /\ Roots(h) \subseteq {sub, root}
    /\ root # NULL => root \in Roots(h)
    /\ sub # NULL => sub \in Roots(h) \/ (root # NULL /\ sub \in Below(h, root))

LEMMA XmlGivesUp ==
    ASSUME XmlReading, NEW h, NEW sub, NEW root, NEW code, X!GiveUp(code, h, sub, root),
           AtHand(h, sub, root), sub # NULL /\ sub = root => "path" \in oom' /\ depth = 0
    PROVE  XmlInv'
<1> DEFINE nodes == {sub, root} \ {NULL}
<1>1. heap' = free_all(h, nodes) /\ plist' = NULL /\ pc' = "done" /\ depth' = depth
      /\ twice' = (sub # NULL /\ sub = root)
  BY XmlCalls DEF X!GiveUp, X!cleaned_up
<1>2. nodes \subseteq 1..Len(h)
  <2>1. root # NULL => root \in 1..Len(h) /\ Below(h, root) \subseteq 1..Len(h)
    <3> HAVE root # NULL
    <3>1. root \in 1..Len(h)  BY HeapNumbers DEF AtHand, Roots
    <3> QED  BY <3>1 DEF AtHand, Below, Live, IsHeap
  <2> QED  BY <2>1, HeapNumbers DEF AtHand, Roots
<1>3. \A s \in nodes : h[s].up = NULL \/ h[s].up \in UNION {Below(h, n) : n \in nodes}
  <2> SUFFICES ASSUME NEW s \in nodes, h[s].up # NULL
               PROVE  h[s].up \in UNION {Below(h, n) : n \in nodes}
    OBVIOUS
  <2>1. s = sub /\ root # NULL /\ sub \in Below(h, root)  BY DEF AtHand, Roots
  <2>2. h[root].up = NULL /\ root \in 1..Len(h)  BY <2>1, HeapNumbers DEF AtHand, Roots
  <2>3. h[s].up \in Below(h, root)  BY <1>2, <2>1, <2>2, BelowIs DEF AtHand
  <2> QED  BY <2>1, <2>3
<1>4. IsHeap(h)  BY DEF AtHand
<1>5. /\ Frees(h, free_all(h, nodes), UNION {Below(h, n) : n \in nodes})
      /\ Roots(free_all(h, nodes)) = Roots(h) \ nodes
  BY <1>2, <1>3, <1>4, FreeAllFrees
<1>6. IsHeap(heap') /\ Roots(heap') = {}
  <2>1. Roots(h) \subseteq nodes  BY HeapNumbers DEF AtHand, Roots
  <2> QED  BY <1>1, <1>5, <2>1 DEF Frees
<1>7. XmlOutcome'
  <2>1. OneTree(heap', plist')  BY <1>1, <1>6 DEF OneTree
  <2>2. twice' => "path" \in oom' /\ depth' = 0  BY <1>1
  <2> QED  BY <1>1, <2>1, <2>2 DEF XmlOutcome, OneTree
<1> QED  BY <1>1, <1>7 DEF XmlInv, XmlOutcome, OneTree

\* The tree alone, and with a new node.
LEMMA TreeAtHand ==
    ASSUME NEW h, NEW root, OneTree(h, root)
    PROVE  AtHand(h, NULL, root)
BY DEF OneTree, AtHand

LEMMA NodeAtHand ==
    ASSUME NEW h, NEW root, OneTree(h, root), NEW g, NEW type, Grown(h, g, type),
           NEW n, n = Len(h) + 1
    PROVE  AtHand(g, n, root) /\ n # NULL /\ n # root
<1>1. n # NULL /\ n # root
  <2>1. n \in Nat  BY HeapNumbers DEF OneTree
  <2>2. root # NULL => root \in 1..Len(h)  BY HeapNumbers DEF OneTree, Roots
  <2>3. n \notin 1..Len(h)  BY HeapNumbers DEF OneTree
  <2> QED  BY <2>1, <2>2, <2>3, MemoryAssumption
<1> QED  BY <1>1 DEF OneTree, AtHand, Grown

LEMMA XmlTakesTag ==
    ASSUME XmlReading, NEW types, X!Reading(types), NEW t, t = doc[pos + 1]
    PROVE  /\ pos \in Nat /\ pos < Len(doc) /\ IsSeq(doc) /\ doc' = doc
           /\ pos' = pos + 1 /\ pos + 1 \in 0..Len(doc) /\ 1..(pos + 1) = 1..pos \cup {pos + 1}
           /\ X!tag = t /\ t.type \in types
<1>1. Len(doc) \in Nat  BY EnclosingIs DEF XmlReading
<1>2. pos \in Nat /\ pos < Len(doc) /\ doc' = doc /\ pos' = pos + 1 /\ X!tag = t /\ t.type \in types
  BY <1>1 DEF X!Reading, X!tag, XmlReading
<1> QED  BY <1>1, <1>2 DEF XmlReading

\* A tag that leaves the tree alone.
LEMMA TreeStays ==
    ASSUME XmlReading, X!NoneRefused, UNCHANGED <<pc, heap, plist, parent, depth, err, twice, doc>>,
           pos' = pos + 1, pos + 1 \in 0..Len(doc),
           Unrooted => Unrooted', Hollow => Outside(doc, pos', node_path')
    PROVE  XmlInv'
<1>1. Hollow => EmptyRoot(doc, pos + 1)
  <2>1. 1..pos \subseteq 1..(pos + 1)  BY DEF XmlReading
  <2> QED  BY <2>1 DEF Hollow, EmptyRoot
<1>2. Hollow => Hollow'  BY <1>1 DEF Hollow
<1>3. Complete => Complete'  BY DEF Complete
<1>4. Filling => Filling'  BY DEF Filling
<1>5. XmlReading'  BY <1>2, <1>3, <1>4 DEF XmlReading
<1> QED  BY <1>5 DEF XmlInv, XmlReading

LEMMA XmlGarbage ==
    ASSUME XmlReading, X!NoneRefused, X!Garbage
    PROVE  XmlInv'
<1>1. X!GiveUp(-3, heap, NULL, plist)  BY DEF X!Garbage, X!PLIST_ERR_PARSE
<1>2. AtHand(heap, NULL, plist)  BY TreeAtHand DEF XmlReading
<1> QED  BY <1>1, <1>2, XmlGivesUp

LEMMA XmlOpensPlist ==
    ASSUME XmlReading, X!NoneRefused, X!OpenPlist
    PROVE  XmlInv'
<1>1. CASE X!GiveUp(X!PLIST_ERR_PARSE, heap, NULL, plist)
  <2>1. AtHand(heap, NULL, plist)  BY TreeAtHand DEF XmlReading
  <2> QED  BY <1>1, <2>1, XmlGivesUp
<1>2. CASE ~X!GiveUp(X!PLIST_ERR_PARSE, heap, NULL, plist)
  <2>1. PICK t : t = doc[pos + 1]  OBVIOUS
  <2>2. X!Reading({"plist"})  BY DEF X!OpenPlist
  <2>3. /\ pos \in Nat /\ pos < Len(doc) /\ IsSeq(doc) /\ doc' = doc
        /\ pos' = pos + 1 /\ pos + 1 \in 0..Len(doc) /\ 1..(pos + 1) = 1..pos \cup {pos + 1}
        /\ X!tag = t /\ t.type = "plist"
    BY <2>1, <2>2, XmlTakesTag
  <2>4. /\ ~t.empty /\ node_path' = Append(node_path, "plist")
        /\ UNCHANGED <<pc, heap, plist, parent, depth, err, twice>>
    BY <1>2, <2>3 DEF X!OpenPlist
  <2>5. ~X!IsValue(t)  BY <2>3 DEF X!IsValue, X!Values, X!Containers, X!Scalars
  <2>6. Outside(doc, pos, node_path) => Outside(doc, pos', node_path')
    BY <2>1, <2>3, <2>4, OutsideOpens
  <2>7. Unrooted => Unrooted'
    <3> HAVE Unrooted
    <3>1. \A i \in 1..(pos + 1) : ~X!IsValue(doc[i])  BY <2>1, <2>3, <2>5 DEF Unrooted
    <3> QED  BY <2>3, <2>4, <2>6, <3>1 DEF Unrooted
  <2>8. Hollow => Outside(doc, pos', node_path')  BY <2>6 DEF Hollow
  <2> QED  BY <2>3, <2>4, <2>7, <2>8, TreeStays
<1> QED  BY <1>1, <1>2

LEMMA XmlClosesPlist ==
    ASSUME XmlReading, X!NoneRefused, X!ClosePlist
    PROVE  XmlInv'
<1>1. CASE X!GiveUp(X!PLIST_ERR_PARSE, heap, NULL, plist)
  <2>1. AtHand(heap, NULL, plist)  BY TreeAtHand DEF XmlReading
  <2> QED  BY <1>1, <2>1, XmlGivesUp
<1>2. CASE ~X!GiveUp(X!PLIST_ERR_PARSE, heap, NULL, plist)
  <2>1. PICK t : t = doc[pos + 1]  OBVIOUS
  <2>2. X!Reading({"/plist"})  BY DEF X!ClosePlist
  <2>3. /\ pos \in Nat /\ pos < Len(doc) /\ IsSeq(doc) /\ doc' = doc
        /\ pos' = pos + 1 /\ pos + 1 \in 0..Len(doc)
        /\ X!tag = t /\ t.type = "/plist"
    BY <2>1, <2>2, XmlTakesTag
  <2>4. /\ plist # NULL /\ node_path # <<>> /\ node_path' = Front(node_path)
        /\ UNCHANGED <<pc, heap, plist, parent, depth, err, twice>>
    BY <1>2, <2>3 DEF X!ClosePlist, X!matches, X!Front, Front
  <2>5. Outside(doc, pos, node_path) => Outside(doc, pos', node_path')
    BY <2>1, <2>3, <2>4, OutsideCloses
  <2>6. Hollow => Outside(doc, pos', node_path')  BY <2>5 DEF Hollow
  <2>7. ~Unrooted  BY <2>4 DEF Unrooted
  <2> QED  BY <2>3, <2>4, <2>6, <2>7, TreeStays
<1> QED  BY <1>1, <1>2

LEMMA XmlKey ==
    ASSUME XmlReading, X!NoneRefused, X!Key
    PROVE  XmlInv'
<1>1. PICK t : t = doc[pos + 1]  OBVIOUS
<1>2. X!Reading({"key"})  BY DEF X!Key
<1>3. /\ pos \in Nat /\ pos < Len(doc) /\ IsSeq(doc) /\ doc' = doc
      /\ pos' = pos + 1 /\ pos + 1 \in 0..Len(doc)
      /\ X!tag = t /\ t.type = "key"
  BY <1>1, <1>2, XmlTakesTag
<1>4. parent # NULL /\ UNCHANGED <<pc, heap, plist, parent, depth, err, twice>>
  BY <1>3 DEF X!Key, X!names_the_next
<1>5. X!IsValue(t)  BY <1>3 DEF X!IsValue, X!Values, X!Scalars
<1>6. ~Hollow
  <2> SUFFICES ASSUME Hollow PROVE FALSE  OBVIOUS
  <2>1. Outside(doc, pos, node_path) /\ EmptyRoot(doc, pos) /\ ~X!RootReopened(doc)
    BY DEF Hollow, X!NoneRefused
  <2> QED  BY <1>1, <1>3, <1>5, <2>1, NoValueFollows
<1>7. ~Unrooted  BY <1>4 DEF Unrooted
<1> QED  BY <1>3, <1>4, <1>6, <1>7, TreeStays

\* The nodes that are allocated.
LEMMA XmlNodes ==
    ASSUME NEW t, t.type \in X!Values
    PROVE  \E type \in X!Values : X!Node(X!node_type(t), t.value) = Node(type, t.value)
<1>1. X!node_type(t) \in X!Values  BY DEF X!node_type, X!Values, X!Scalars, X!Containers
<1> QED  BY <1>1, XmlCalls

LEMMA XmlGivesUpEarly ==
    ASSUME XmlReading, X!NoneRefused, X!NoNode \/ X!Unreadable \/ X!MisplacedValue
    PROVE  XmlInv'
<1>0. OneTree(heap, plist) /\ IsHeap(heap)  BY DEF XmlReading, OneTree
<1>1. CASE X!NoNode
  <2>1. X!GiveUp(X!PLIST_ERR_NO_MEM, heap, NULL, plist)  BY <1>1 DEF X!NoNode
  <2>2. AtHand(heap, NULL, plist)  BY <1>0, TreeAtHand
  <2> QED  BY <2>1, <2>2, XmlGivesUp
<1>2. CASE X!Unreadable
  <2>1. PICK h : h = Append(heap, Node("bad", ""))  OBVIOUS
  <2>2. PICK n : n = Len(heap) + 1  OBVIOUS
  <2>3. X!GiveUp(X!PLIST_ERR_PARSE, h, n, plist)  BY <1>2, <2>1, <2>2, XmlCalls DEF X!Unreadable, X!subnode
  <2>4. Grown(heap, h, "bad")  BY <1>0, <2>1, AppendGrows
  <2>5. AtHand(h, n, plist) /\ n # plist  BY <1>0, <2>2, <2>4, NodeAtHand
  <2> QED  BY <2>3, <2>5, XmlGivesUp
<1>3. CASE X!MisplacedValue
  <2>1. PICK t : t = doc[pos + 1]  OBVIOUS
  <2>2. X!Reading(X!Values) /\ X!GiveUp(X!PLIST_ERR_PARSE, X!Allocated(X!tag), X!subnode, plist)
    BY <1>3 DEF X!MisplacedValue, X!ReadingValue
  <2>3. X!tag = t /\ t.type \in X!Values  BY <2>1, <2>2, XmlTakesTag
  <2>4. PICK type \in X!Values : X!Node(X!node_type(t), t.value) = Node(type, t.value)  BY <2>3, XmlNodes
  <2>5. PICK h : h = Append(heap, Node(type, t.value))  OBVIOUS
  <2>6. PICK n : n = Len(heap) + 1  OBVIOUS
  <2>7. X!GiveUp(X!PLIST_ERR_PARSE, h, n, plist)
    BY <2>2, <2>3, <2>4, <2>5, <2>6 DEF X!Allocated, X!subnode
  <2>8. type # "freed"  BY <2>4 DEF X!Values, X!Scalars, X!Containers
  <2>9. Grown(heap, h, type)  BY <1>0, <2>5, <2>8, AppendGrows
  <2>10. AtHand(h, n, plist) /\ n # plist  BY <1>0, <2>6, <2>9, NodeAtHand
  <2> QED  BY <2>7, <2>10, XmlGivesUp
<1> QED  BY <1>1, <1>2, <1>3

\* The node n of tag t has its place: it is the root, or in parent as deep as depth
\* says. What is read next goes into outer, unless t opens a container.
HasPlace(h, root, outer, n, t) ==
    /\ OneTree(h, root) /\ root # NULL /\ n # NULL /\ n \in Live(h)
    /\ Depth(h, n) = depth + 1
    /\ n = root => depth = 0
    /\ t.type \in X!Scalars \/ t.empty =>
          \/ outer = NULL /\ depth = 0
          \/ outer \in Live(h) /\ depth = Depth(h, outer)
          \/ /\ outer = root /\ depth = 0
             /\ Outside(doc, pos + 1, node_path) /\ EmptyRoot(doc, pos + 1)

LEMMA XmlPlaces ==
    ASSUME XmlReading, X!NoneRefused, X!Reading(X!Values), NEW t, t = doc[pos + 1],
           NEW h, NEW root, NEW outer, NEW n, n = X!subnode, HasPlace(h, root, outer, n, t),
           X!Placed(h, root, outer) \/ X!PlacedNoPath(h, root)
    PROVE  XmlInv'
<1>1. /\ pos \in Nat /\ pos < Len(doc) /\ IsSeq(doc) /\ doc' = doc
      /\ pos' = pos + 1 /\ pos + 1 \in 0..Len(doc) /\ X!tag = t
  BY XmlTakesTag
<1>2. OneTree(h, root) /\ IsHeap(h) /\ Roots(h) = {root}  BY DEF HasPlace, OneTree
<1>3. AtHand(h, NULL, root)  BY <1>2, TreeAtHand
<1>4. AtHand(h, n, root)
  <2>1. n \in Below(h, root)  BY <1>2, OneRootAll DEF HasPlace
  <2> QED  BY <1>2, <2>1 DEF AtHand, HasPlace
<1>5. CASE X!GiveUp(X!PLIST_ERR_PARSE, h, NULL, root)  BY <1>3, <1>5, XmlGivesUp
<1>6. CASE X!too_deep /\ X!GiveUp(X!PLIST_ERR_MAX_NESTING, h, X!subnode, root)
  <2>1. depth # 0
    <3>1. depth \in Int /\ depth >= MaxNesting /\ MaxNesting \in Nat \ {0}
      BY <1>6, MemoryAssumption DEF X!too_deep, XmlReading
    <3> QED  BY <3>1
  <2>2. n # root  BY <2>1 DEF HasPlace
  <2> QED  BY <1>4, <1>6, <2>2, XmlGivesUp
<1>7. CASE X!PlacedNoPath(h, root)
  <2>1. X!GiveUp(X!PLIST_ERR_PARSE, h, n, root) /\ "path" \in oom'  BY <1>7 DEF X!PlacedNoPath, X!Fails
  <2> QED  BY <1>4, <2>1, XmlGivesUp DEF HasPlace
<1>8. CASE /\ t.type \in X!Scalars \/ t.empty
           /\ heap' = h /\ plist' = root /\ parent' = outer
           /\ UNCHANGED <<pc, node_path, depth, err, twice>>
  <2>1. Complete' \/ Filling' \/ Hollow'
    BY <1>1, <1>8 DEF HasPlace, Complete, Filling, Hollow
  <2>2. XmlReading'  BY <1>1, <1>2, <1>8, <2>1 DEF XmlReading
  <2> QED  BY <2>2 DEF XmlInv, XmlReading
<1>9. CASE /\ ~X!too_deep
           /\ heap' = h /\ plist' = root /\ parent' = X!subnode /\ depth' = depth + 1
           /\ UNCHANGED <<pc, err, twice>>
  <2>1. depth' \in 0..MaxNesting
    <3>1. depth \in Int /\ depth >= 0 /\ ~(depth >= MaxNesting) /\ MaxNesting \in Nat
      BY <1>9, MemoryAssumption DEF X!too_deep, XmlReading
    <3> QED  BY <1>9, <3>1
  <2>2. Filling'  BY <1>9 DEF HasPlace, Filling
  <2>3. XmlReading'  BY <1>1, <1>2, <1>9, <2>1, <2>2 DEF XmlReading
  <2> QED  BY <2>3 DEF XmlInv, XmlReading
<1> QED  BY <1>1, <1>5, <1>6, <1>7, <1>8, <1>9 DEF X!Placed

\* What is allocated for a value.
LEMMA XmlAllocates ==
    ASSUME XmlReading, X!Reading(X!Values), NEW t, t = doc[pos + 1], NEW h, h = X!Allocated(X!tag)
    PROVE  /\ Grown(heap, h, X!node_type(t))
           /\ t.type \in X!Containers => X!node_type(t) = t.type
<1>1. X!tag = t /\ t.type \in X!Values  BY XmlTakesTag
<1>2. PICK type : type = X!node_type(t)  OBVIOUS
<1>3. type # "freed" /\ (t.type \in X!Containers => type = t.type)
  BY <1>1, <1>2 DEF X!node_type, X!Values, X!Scalars, X!Containers
<1>4. h = Append(heap, Node(type, t.value))  BY <1>1, <1>2, XmlCalls DEF X!Allocated
<1>5. Grown(heap, h, type)  BY <1>3, <1>4, AppendGrows DEF XmlReading, OneTree
<1> QED  BY <1>2, <1>3, <1>5

LEMMA XmlRootValue ==
    ASSUME XmlReading, X!NoneRefused, X!RootValue
    PROVE  XmlInv'
<1>1. PICK t : t = doc[pos + 1]  OBVIOUS
<1>2. X!Reading(X!Values) /\ plist = NULL  BY DEF X!RootValue, X!ReadingValue
<1>3. /\ pos \in Nat /\ pos < Len(doc) /\ IsSeq(doc) /\ doc' = doc
      /\ pos' = pos + 1 /\ pos + 1 \in 0..Len(doc) /\ X!tag = t /\ t.type \in X!Values
  BY <1>1, <1>2, XmlTakesTag
<1>4. PICK h : h = X!Allocated(X!tag)  OBVIOUS
<1>5. PICK type : Grown(heap, h, type)  BY <1>1, <1>2, <1>4, XmlAllocates
<1>6. PICK n : n = X!subnode  OBVIOUS
<1>7. PICK outer : outer = IF t.type \in X!Containers THEN n ELSE NULL  OBVIOUS
<1>8. X!Placed(h, n, outer) \/ X!PlacedNoPath(h, n)
  BY <1>3, <1>4, <1>6, <1>7 DEF X!RootValue
<1>9. Unrooted  BY <1>2 DEF XmlReading, Complete, Filling, Hollow
<1>10. OneTree(heap, NULL)  BY <1>2 DEF XmlReading
<1>11. n = Len(heap) + 1  BY <1>6 DEF X!subnode
<1>12. n # NULL  BY <1>5, <1>10, <1>11, NodeAtHand
<1>13. IsHeap(h) /\ Roots(h) = {n} /\ n \in Live(h) /\ n \in 1..Len(h) /\ h[n].up = NULL
  <2>1. IsHeap(h) /\ Roots(h) = {n} /\ n \in Live(h) /\ h[n].up = NULL
    BY <1>5, <1>10, <1>11 DEF Grown, OneTree
  <2> QED  BY <2>1, HeapNumbers
<1>14. Depth(h, n) = 1  BY <1>13, DepthIs
<1>15. ASSUME t.type \in X!Scalars \/ t.empty, outer # NULL
       PROVE  Outside(doc, pos + 1, node_path) /\ EmptyRoot(doc, pos + 1)
  <2>1. t.type \in X!Containers /\ t.empty /\ X!IsValue(t)
    BY <1>3, <1>7, <1>15 DEF X!Containers, X!Scalars, X!IsValue
  <2>2. ~X!Opens(t) /\ ~X!Closes(t)  BY <2>1 DEF X!Opens, X!Closes, X!Containers
  <2>3. Outside(doc, pos, node_path) /\ \A i \in 1..pos : ~X!IsValue(doc[i])  BY <1>9 DEF Unrooted
  <2>4. Outside(doc, pos + 1, node_path)  BY <1>1, <1>3, <2>2, <2>3, OutsideStays
  <2>5. X!Enclosing(doc)[pos + 1] = 0  BY <1>3, <2>3, OutsideContainers DEF Outside
  <2>6. pos + 1 \in 1..(pos + 1) /\ 1..((pos + 1) - 1) = 1..pos  BY <1>3
  <2>7. EmptyRoot(doc, pos + 1)  BY <1>1, <2>1, <2>3, <2>5, <2>6 DEF EmptyRoot
  <2> QED  BY <2>4, <2>7
<1>16. HasPlace(h, n, outer, n, t)
  <2>1. OneTree(h, n)  BY <1>12, <1>13 DEF OneTree
  <2>2. depth = 0  BY <1>9 DEF Unrooted
  <2>3. outer = NULL \/ outer = n  BY <1>7
  <2> QED  BY <1>12, <1>13, <1>14, <1>15, <2>1, <2>2, <2>3 DEF HasPlace
<1> QED  BY <1>1, <1>2, <1>6, <1>8, <1>16, XmlPlaces

\* A value of a container is within the limit, and the container takes it.
LEMMA XmlChildTakes ==
    ASSUME XmlReading, X!NoneRefused, X!ChildValue, NEW t, t = doc[pos + 1],
           NEW h, h = X!Allocated(X!tag), NEW n, n = X!subnode, NEW g, g = X!placed(h, n)
    PROVE  /\ X!Reading(X!Values) /\ X!tag = t /\ t.type \in X!Values
           /\ plist # NULL /\ n # NULL /\ n # plist
           /\ IsHeap(heap) /\ Roots(heap) = {plist} /\ Filling
           /\ n = Len(heap) + 1 /\ parent \in 1..Len(heap) /\ parent # NULL /\ parent < n
           /\ Grown(heap, h, X!node_type(t)) /\ Below(h, n) = {n} /\ Depth(h, parent) = depth
           /\ Roots(h) = {plist, n} /\ parent \in Live(h)
           /\ Took(h, g, parent, n)
           /\ X!Placed(g, plist, parent) \/ X!PlacedNoPath(g, plist) \/ X!Fails("attach")
<1>2. X!Reading(X!Values) /\ plist # NULL /\ parent # NULL
  BY DEF X!ChildValue, X!ReadingValue, X!has_place
<1>3. /\ pos \in Nat /\ pos < Len(doc) /\ IsSeq(doc) /\ doc' = doc
      /\ X!tag = t /\ t.type \in X!Values
  BY <1>2, XmlTakesTag
<1>5. PICK type : type = X!node_type(t)  OBVIOUS
<1>4. Grown(heap, h, type)  BY <1>2, <1>5, XmlAllocates
<1>7. n = Len(heap) + 1  BY DEF X!subnode
<1>8. OneTree(heap, plist) /\ IsHeap(heap) /\ Roots(heap) = {plist}  BY <1>2 DEF XmlReading, OneTree
<1>9. n # NULL /\ n # plist  BY <1>4, <1>7, <1>8, NodeAtHand
<1>10. Filling
  <2>1. X!IsValue(doc[pos + 1])  BY <1>3 DEF X!IsValue
  <2>2. ~Hollow
    <3> SUFFICES ASSUME Hollow PROVE FALSE  OBVIOUS
    <3>1. Outside(doc, pos, node_path) /\ EmptyRoot(doc, pos) /\ ~X!RootReopened(doc)
      BY DEF Hollow, X!NoneRefused
    <3> QED  BY <1>3, <2>1, <3>1, NoValueFollows
  <2> QED  BY <1>2, <2>2 DEF XmlReading, Unrooted, Complete
<1>11. parent \in Live(heap) /\ depth = Depth(heap, parent) /\ depth <= MaxNesting
  BY <1>10, MemoryAssumption DEF Filling, XmlReading
<1>12. parent \in 1..Len(heap) /\ parent \in Nat /\ Len(heap) \in Nat /\ parent < n
  BY <1>7, <1>8, <1>11, HeapNumbers
<1>13. /\ IsHeap(h) /\ Roots(h) = {plist, n} /\ parent \in Live(h) /\ n \in Roots(h)
  BY <1>4, <1>7, <1>8, <1>11 DEF Grown
<1>14. Below(h, n) = {n} /\ Bounded(h, n, 1) /\ Depth(h, parent) = depth
  BY <1>4, <1>7, <1>8, <1>11, <1>12, GrownBounds
<1>15. within_limit(h, parent, n)
  <2>1. Levels(h, n) \in Nat /\ Levels(h, n) <= 1  BY <1>13, <1>14, RootLevels
  <2>2. depth \in Nat /\ MaxNesting \in Nat  BY MemoryAssumption DEF XmlReading
  <2> QED  BY <1>11, <1>14, <2>1, <2>2 DEF within_limit
<1>16. X!fits  BY <1>15, XmlCalls DEF X!fits
<1>17. Took(h, g, parent, n)
  <2>1. \/ g = plist_dict_set_item(h, parent, keyname, n)
        \/ g = plist_array_append_item(h, parent, n)
    BY XmlCalls DEF X!placed
  <2> QED  BY <1>12, <1>13, <2>1, ArrayTakes, DictTakes
<1>18. X!Placed(g, plist, parent) \/ X!PlacedNoPath(g, plist) \/ X!Fails("attach")
  BY <1>16 DEF X!ChildValue
<1> QED  BY <1>2, <1>3, <1>4, <1>5, <1>7, <1>8, <1>9, <1>10, <1>12, <1>13, <1>14, <1>17, <1>18

LEMMA XmlChildValue ==
    ASSUME XmlReading, X!NoneRefused, X!ChildValue
    PROVE  XmlInv'
<1>1. PICK t : t = doc[pos + 1]  OBVIOUS
<1>2. PICK h : h = X!Allocated(X!tag)  OBVIOUS
<1>3. PICK n : n = X!subnode  OBVIOUS
<1>4. PICK g : g = X!placed(h, n)  OBVIOUS
<1>5. /\ X!Reading(X!Values) /\ plist # NULL /\ n # NULL /\ n # plist
      /\ parent # NULL /\ parent < n
      /\ IsHeap(h) /\ Below(h, n) = {n} /\ Depth(h, parent) = depth
      /\ Roots(h) = {plist, n} /\ parent \in Live(h)
      /\ Took(h, g, parent, n)
      /\ X!Placed(g, plist, parent) \/ X!PlacedNoPath(g, plist) \/ X!Fails("attach")
  BY <1>1, <1>2, <1>3, <1>4, XmlChildTakes DEF Grown
<1>6. parent \in Nat /\ n \in Roots(h)  BY <1>5, HeapNumbers
<1>7. /\ IsHeap(g) /\ Roots(g) = {plist} /\ parent \in Live(g) /\ n \in Live(g)
      /\ g[n].up = parent
  BY <1>5 DEF Took
<1>8. Depth(g, parent) = depth
  <2>1. parent \notin Below(h, n)  BY <1>5, <1>6
  <2>2. Depth(g, parent) = Depth(h, parent)  BY ONLY <1>5, <1>6, <1>7, <2>1, TookApart
  <2> QED  BY <1>5, <2>2
<1>9. Depth(g, n) = depth + 1
  <2>1. n \in 1..Len(g)  BY <1>7, HeapNumbers
  <2> QED  BY <1>5, <1>7, <1>8, <2>1, DepthIs
<1>10. HasPlace(g, plist, parent, n, t)
  <2>1. OneTree(g, plist)  BY <1>5, <1>7 DEF OneTree
  <2> QED  BY <1>5, <1>7, <1>8, <1>9, <2>1 DEF HasPlace
<1>11. CASE X!Placed(g, plist, parent) \/ X!PlacedNoPath(g, plist)
  BY <1>1, <1>3, <1>5, <1>10, <1>11, XmlPlaces
<1>12. CASE X!Fails("attach")  BY <1>12 DEF XmlInv, X!NoneRefused, X!Fails
<1> QED  BY <1>5, <1>11, <1>12

LEMMA XmlClosesContainer ==
    ASSUME XmlReading, X!NoneRefused, X!CloseContainer
    PROVE  XmlInv'
<1>1. CASE X!GiveUp(X!PLIST_ERR_PARSE, heap, NULL, plist)
  <2>1. AtHand(heap, NULL, plist)  BY TreeAtHand DEF XmlReading
  <2> QED  BY <1>1, <2>1, XmlGivesUp
<1>2. CASE ~X!GiveUp(X!PLIST_ERR_PARSE, heap, NULL, plist)
  <2>1. PICK t : t = doc[pos + 1]  OBVIOUS
  <2>2. X!Reading({"/dict", "/array", "/other"})  BY DEF X!CloseContainer
  <2>3. /\ pos \in Nat /\ pos < Len(doc) /\ IsSeq(doc) /\ doc' = doc
        /\ pos' = pos + 1 /\ pos + 1 \in 0..Len(doc)
        /\ X!tag = t /\ t.type \in {"/dict", "/array", "/other"}
    BY <2>1, <2>2, XmlTakesTag
  <2>4. /\ X!matches(t.type)
        /\ heap' = IF X!closed_values = {} THEN heap
                   ELSE X!with_uid(heap, parent, CHOOSE k \in X!closed_values : TRUE)
        /\ depth' = IF depth > 0 THEN depth - 1 ELSE 0
        /\ parent' = X!container_of(heap, parent)
        /\ UNCHANGED <<pc, plist, err, twice>>
    BY <1>2, <2>3 DEF X!CloseContainer
  <2>5. ~Outside(doc, pos, node_path)
    <3> SUFFICES ASSUME Outside(doc, pos, node_path) PROVE FALSE  OBVIOUS
    <3>1. node_path # <<>> /\ X!Closing[node_path[Len(node_path)]] = t.type
      BY <2>4 DEF X!matches, X!Last
    <3>2. PICK st : Opened(doc, pos, st, node_path)  BY DEF Outside
    <3>3. node_path \in Seq({"plist", "dict", "array"})  BY <3>2 DEF Opened
    <3>4. Len(node_path) \in 1..Len(node_path)  BY <3>1, <3>3, EmptySeq, LenProperties
    <3>5. node_path[Len(node_path)] = "plist"  BY <3>4 DEF Outside
    <3>6. t.type = "/plist"  BY <3>1, <3>5 DEF X!Closing
    <3> QED  BY <2>3, <3>6
  <2>6. ~Unrooted /\ ~Hollow  BY <2>5 DEF Unrooted, Hollow
  <2>7. OneTree(heap, plist) /\ IsHeap(heap)  BY DEF XmlReading, OneTree
  <2>8. ASSUME OneTree(heap', plist'), depth' \in 0..MaxNesting, Complete' \/ Filling'
        PROVE  XmlInv'
    <3>1. XmlReading'  BY <2>3, <2>4, <2>8 DEF XmlReading
    <3> QED  BY <3>1 DEF XmlInv, XmlReading
  <2>9. CASE Complete
    <3>1. X!closed_values = {} /\ parent' = NULL  BY <2>4, <2>9 DEF Complete, X!closed_values, X!container_of
    <3>2. heap' = heap /\ depth' = 0 /\ Complete'  BY <2>4, <2>9, <3>1 DEF Complete
    <3> QED  BY <2>4, <2>7, <2>8, <3>2, MemoryAssumption
  <2>10. CASE Filling
    <3>0. PICK g : g = heap'  OBVIOUS
    <3>1. parent \in Live(heap) /\ depth = Depth(heap, parent) /\ plist # NULL  BY <2>10 DEF Filling
    <3>2. parent \in 1..Len(heap) /\ parent # NULL  BY <2>7, <3>1, HeapNumbers
    <3>3. /\ OneTree(g, plist) /\ parent \in Live(g) /\ g[parent].up = heap[parent].up
          /\ Depth(g, parent) = depth
      <4>1. CASE X!closed_values = {}  BY <2>4, <2>7, <3>0, <3>1, <4>1
      <4>2. CASE X!closed_values # {}
        <5>1. PICK k : k = CHOOSE k0 \in X!closed_values : TRUE  OBVIOUS
        <5>2. k \in X!closed_values  BY <4>2, <5>1
        <5>3. k \in X!uid_values(heap, parent)  BY <5>2 DEF X!closed_values
        <5>4. g = X!with_uid(heap, parent, k)  BY <2>4, <3>0, <4>2, <5>1
        <5>5. /\ IsHeap(g) /\ Len(g) = Len(heap) /\ Roots(g) = Roots(heap)
              /\ \A m \in Live(g) : g[m].up = heap[m].up
              /\ Live(g) = Live(heap) \ Below(heap, k)
              /\ parent \notin Below(heap, k)
          BY <2>7, <3>1, <5>3, <5>4, UidEmpties
        <5>6. \A m \in Live(g) : Depth(g, m) = Depth(heap, m)
          BY <2>7, <3>1, <5>3, <5>4, UidDepth
        <5> QED  BY <2>7, <3>1, <5>5, <5>6 DEF OneTree
      <4> QED  BY <4>1, <4>2
    <3>4. IsHeap(g) /\ parent \in 1..Len(g)  BY <3>3, HeapNumbers DEF OneTree
    <3>5. /\ Depth(g, parent) \in Nat \ {0}
          /\ Depth(g, parent) = IF g[parent].up = NULL THEN 1 ELSE Depth(g, g[parent].up) + 1
      BY <3>4, DepthIs
    <3>6. parent' = g[parent].up  BY <2>4, <3>2, <3>3 DEF X!container_of
    <3>7. depth' = depth - 1 /\ depth - 1 \in 0..MaxNesting
      <4>1. depth \in 0..MaxNesting /\ depth \in Nat \ {0} /\ MaxNesting \in Nat
        BY <3>3, <3>5, MemoryAssumption DEF XmlReading
      <4> QED  BY <2>4, <4>1
    <3>8. CASE g[parent].up = NULL
      <4>1. Complete'  BY <2>4, <3>1, <3>3, <3>5, <3>6, <3>7, <3>8 DEF Complete
      <4> QED  BY <2>4, <2>8, <3>0, <3>3, <3>7, <4>1
    <3>9. CASE g[parent].up # NULL
      <4>1. g[parent].up \in Live(g) /\ g[parent].up \in 1..Len(g)  BY <3>4, <3>9, UpIs
      <4>2. Depth(g, g[parent].up) = depth - 1
        <5>1. Depth(g, g[parent].up) \in Nat  BY <3>4, <4>1, DepthIs
        <5> QED  BY <3>3, <3>5, <3>9, <5>1
      <4>3. Filling'  BY <2>4, <3>0, <3>1, <3>6, <3>7, <4>1, <4>2 DEF Filling
      <4> QED  BY <2>4, <2>8, <3>0, <3>3, <3>7, <4>3
    <3> QED  BY <3>8, <3>9
  <2> QED  BY <2>6, <2>9, <2>10 DEF XmlReading
<1> QED  BY <1>1, <1>2

LEMMA XmlEnds ==
    ASSUME XmlReading, X!NoneRefused, X!EndOfDocument
    PROVE  XmlInv'
<1>1. CASE X!GiveUp(X!PLIST_ERR_PARSE, heap, NULL, plist)
  <2>1. AtHand(heap, NULL, plist)  BY TreeAtHand DEF XmlReading
  <2> QED  BY <1>1, <2>1, XmlGivesUp
<1>2. CASE ~X!GiveUp(X!PLIST_ERR_PARSE, heap, NULL, plist)
  <2>1. pc' = "done" /\ UNCHANGED <<err, twice>>  BY <1>2 DEF X!EndOfDocument
  <2>2. OneTree(heap, plist) /\ err = 0 /\ twice = FALSE  BY DEF XmlReading
  <2>3. OneTree(heap', plist')
    <3>1. CASE UNCHANGED <<heap, plist>>  BY <2>2, <3>1
    <3>2. CASE ~UNCHANGED <<heap, plist>>
      <4>1. PICK k : /\ plist # NULL
                     /\ heap' = Append(X!plist_free(heap, plist), X!Node("uid", heap[k].value))
                     /\ plist' = Len(heap) + 1
        BY <1>2, <3>2 DEF X!EndOfDocument
      <4>2. PICK v : v = heap[k].value  OBVIOUS
      <4>3. IsHeap(heap) /\ Roots(heap) = {plist} /\ plist \in Roots(heap)  BY <2>2, <4>1 DEF OneTree
      <4>4. PICK h : h = free_all(heap, {plist})  OBVIOUS
      <4>5. X!plist_free(heap, plist) = h  BY <4>3, <4>4, FreeRoot, XmlCalls
      <4>6. {plist} \subseteq Roots(heap)  BY <4>3
      <4>7. /\ Frees(heap, h, UNION {Below(heap, n) : n \in {plist}})
            /\ Roots(h) = Roots(heap) \ {plist}
        BY <4>3, <4>4, <4>6, FreeAllRoots
      <4>8. IsHeap(h) /\ Len(h) = Len(heap) /\ Roots(h) = {}  BY <4>3, <4>7 DEF Frees
      <4>9. PICK g : g = Append(h, Node("uid", v))  OBVIOUS
      <4>10. Grown(h, g, "uid")  BY <4>8, <4>9, AppendGrows
      <4>11. heap' = g  BY <4>1, <4>2, <4>5, <4>9, XmlCalls
      <4>12. OneTree(h, NULL)  BY <4>8 DEF OneTree
      <4>13. plist' # NULL  BY <4>1, <4>8, <4>10, <4>12, NodeAtHand
      <4>14. IsHeap(g) /\ Roots(g) = {Len(h) + 1}  BY <4>8, <4>10 DEF Grown
      <4> QED  BY <4>1, <4>8, <4>11, <4>13, <4>14 DEF OneTree
    <3> QED  BY <3>1, <3>2
  <2>4. XmlOutcome'  BY <2>1, <2>2, <2>3 DEF XmlOutcome, OneTree
  <2> QED  BY <2>1, <2>4 DEF XmlInv, XmlOutcome, OneTree
<1> QED  BY <1>1, <1>2

LEMMA XmlSteps ==
    ASSUME XmlInv, X!Next
    PROVE  XmlInv'
<1>1. CASE ~X!NoneRefused  BY <1>1, RefusedForGood DEF XmlInv
<1>2. CASE X!NoneRefused
  <2>1. pc = "read"
    BY DEF X!Next, X!Garbage, X!OpenPlist, X!ClosePlist, X!NoNode, X!Unreadable, X!Key, X!RootValue,
           X!MisplacedValue, X!ChildValue, X!CloseContainer, X!EndOfDocument, X!ReadingValue, X!Reading
  <2>2. XmlReading  BY <1>2, <2>1 DEF XmlInv
  <2> QED  BY <1>2, <2>2, XmlGarbage, XmlOpensPlist, XmlClosesPlist, XmlGivesUpEarly, XmlKey, XmlRootValue,
              XmlChildValue, XmlClosesContainer, XmlEnds
           DEF X!Next
<1> QED  BY <1>1, <1>2

-----------------------------------------------------------------------------
(***************************************************************************)
(* Together                                                                *)
(***************************************************************************)
MemoryInv ==
    /\ format \in {"xml", "json", "openstep"}
    /\ format = "xml" => XmlInv
    /\ format = "json" => JsonInv
    /\ format = "openstep" => OpenStepInv

LEMMA NoNodes ==
    IsHeap(<<>>) /\ Roots(<<>>) = {}
<1>1. <<>> \in Seq({}) /\ Len(<<>>) = 0 /\ DOMAIN <<>> = {} /\ 1..0 = {}  OBVIOUS
<1>2. Live(<<>>) = {}  BY <1>1 DEF Live
<1> QED  BY <1>1, <1>2 DEF IsHeap, Roots

LEMMA MemoryStarts ==
    ASSUME Init
    PROVE  MemoryInv
<1>1. CASE format = "xml" /\ X!Init
  <2>1. /\ doc \in XmlDocs /\ pos = 0 /\ pc = "read" /\ heap = <<>> /\ plist = NULL /\ parent = NULL
        /\ node_path = <<>> /\ depth = 0 /\ err = 0 /\ twice = FALSE
    BY <1>1 DEF X!Init, X!PLIST_ERR_SUCCESS
  <2>2. IsSeq(doc)
    <3>1. doc \in Seq(ToSet(doc))  BY <2>1, MemoryAssumption
    <3> QED  BY <3>1 DEF IsSeq
  <2>3. Len(doc) \in Nat /\ MaxNesting \in Nat  BY <2>2, EnclosingIs, MemoryAssumption
  <2>4. Unrooted  BY <2>1, OutsideFirst DEF Unrooted
  <2>5. XmlReading  BY <2>1, <2>2, <2>3, <2>4, NoNodes DEF XmlReading, OneTree
  <2> QED  BY <1>1, <2>1, <2>5 DEF MemoryInv, XmlInv
<1>2. CASE format = "json" /\ J!Init
  <2>1. pc = "lex" /\ heap = <<>> /\ plist = NULL /\ frames = <<>> /\ err = 0
    BY <1>2 DEF J!Init, J!PLIST_ERR_SUCCESS
  <2>2. <<>> \in Seq({}) /\ Len(<<>>) = 0 /\ 1..0 = {}  OBVIOUS
  <2>3. IsCalls(<<>>)  BY <2>2 DEF IsCalls
  <2>4. Calling(heap, frames, NULL)  BY <2>1, <2>2, <2>3, NoNodes DEF Calling
  <2>5. JsonInv  BY <2>1, <2>4 DEF JsonInv
  <2> QED  BY <1>2, <2>5 DEF MemoryInv
<1>3. CASE format = "openstep" /\ O!Init
  <2>1. pc = "value" /\ heap = <<>> /\ plist = NULL /\ frames = <<>> /\ err = 0 /\ ret = NULL /\ depth = 0
    BY <1>3 DEF O!Init, O!PLIST_ERR_SUCCESS
  <2>2. <<>> \in Seq({}) /\ Len(<<>>) = 0 /\ DOMAIN <<>> = {} /\ 1..0 = {}  OBVIOUS
  <2>3. IsFrames(<<>>)  BY <2>2 DEF IsFrames
  <2>4. Stacked(<<>>, <<>>) /\ Latest(<<>>, <<>>, NULL)  BY <2>2 DEF Stacked, Latest
  <2>5. Owned(<<>>, NULL) = {} /\ Uncounted(<<>>) = 0  BY <2>2 DEF Owned, Uncounted
  <2>6. InBounds(<<>>, <<>>, NULL, 0)  BY <2>2 DEF InBounds
  <2>7. Holds(heap, frames, ret, depth)
    <3>1. 0 = Len(<<>>) - Uncounted(<<>>) /\ 0 <= MaxNesting  BY <2>2, <2>5, MemoryAssumption
    <3>2. Holds(<<>>, <<>>, NULL, 0)  BY <2>3, <2>4, <2>5, <2>6, <3>1, NoNodes DEF Holds
    <3> QED  BY <2>1, <3>2
  <2>8. OpenStepInv  BY <2>1, <2>7 DEF OpenStepInv
  <2> QED  BY <1>3, <2>8 DEF MemoryInv
<1> QED  BY <1>1, <1>2, <1>3 DEF Init

LEMMA MemoryStutters ==
    ASSUME MemoryInv, UNCHANGED vars
    PROVE  MemoryInv'
<1>1. UNCHANGED <<format, doc, pos, pc, heap, plist, err, parent, node_path, twice, frames, ret, depth, oom>>
  BY DEF vars, xmlVars, jsonVars
<1>2. XmlInv => XmlInv'
  BY <1>1 DEF XmlInv, XmlReading, XmlOutcome, Unrooted, Complete, Filling, Hollow, X!NoneRefused
<1>3. JsonInv => JsonInv'  BY <1>1 DEF JsonInv
<1>4. OpenStepInv => OpenStepInv'  BY <1>1 DEF OpenStepInv
<1> QED  BY <1>1, <1>2, <1>3, <1>4 DEF MemoryInv

LEMMA MemorySteps ==
    ASSUME MemoryInv, Next
    PROVE  MemoryInv'
<1>1. CASE ReadXml  BY <1>1, XmlSteps DEF ReadXml, MemoryInv
<1>2. CASE ReadJson  BY <1>2, JsonSteps DEF ReadJson, MemoryInv
<1>3. CASE ReadOpenStep  BY <1>3, OpenStepSteps DEF ReadOpenStep, MemoryInv
<1> QED  BY <1>1, <1>2, <1>3 DEF Next

\* Who owns the nodes is known at every moment, in every reader.
THEOREM OwnersAreKnown ==
    Spec => []MemoryInv
<1>1. Init => MemoryInv  BY MemoryStarts
<1>2. MemoryInv /\ [Next]_vars => MemoryInv'  BY MemorySteps, MemoryStutters
<1> QED  BY <1>1, <1>2, PTL DEF Spec

LEMMA OwnersLeaveNothing ==
    ASSUME MemoryInv
    PROVE  NothingLeaked
<1>1. ASSUME IsHeap(heap), Roots(heap) = IF plist = NULL THEN {} ELSE {plist}
      PROVE  Live(heap) = IF plist = NULL THEN {} ELSE Below(heap, plist)
  BY <1>1, NoRootNothing, OneRootAll
<1>2. CASE format = "xml"
  <2> SUFFICES ASSUME pc = "done", X!NoneRefused
               PROVE  /\ X!Live(heap) = IF plist = NULL THEN {} ELSE X!Below(heap, plist)
                      /\ err # X!PLIST_ERR_SUCCESS => plist = NULL
                      /\ twice => "path" \in oom /\ depth = 0
    BY <1>2 DEF NothingLeaked, X!NothingLeaked
  <2>1. XmlOutcome  BY <1>2 DEF MemoryInv, XmlInv
  <2>2. Live(heap) = IF plist = NULL THEN {} ELSE Below(heap, plist)
    BY <1>1, <2>1 DEF XmlOutcome, OneTree
  <2>3. X!PLIST_ERR_SUCCESS = 0  BY DEF X!PLIST_ERR_SUCCESS
  <2> QED  BY <2>1, <2>2, <2>3, XmlCalls DEF XmlOutcome
<1>3. CASE format # "xml"
  <2> SUFFICES ASSUME pc = "done"
               PROVE  /\ J!Live(heap) = IF plist = NULL THEN {} ELSE J!Below(heap, plist)
                      /\ (err = J!PLIST_ERR_SUCCESS) <=> (plist # NULL)
    BY <1>3 DEF NothingLeaked
  <2>1. Outcome(heap, plist, err)  BY <1>3 DEF MemoryInv, JsonInv, OpenStepInv
  <2>2. Live(heap) = IF plist = NULL THEN {} ELSE Below(heap, plist)  BY <1>1, <2>1 DEF Outcome
  <2>3. J!PLIST_ERR_SUCCESS = 0  BY DEF J!PLIST_ERR_SUCCESS
  <2> QED  BY <2>1, <2>2, <2>3, SameCalls, SameTrees DEF Outcome
<1> QED  BY <1>2, <1>3

\* When reading ends only the tree that is returned is left, and nothing after a
\* failure: in every format, for every text, whichever allocation of the readers fails
\* (none does in what frees or undoes, see PlistTrees) and however deep inside the text.
THEOREM NothingIsLeftBehind ==
    Spec => []NothingLeaked
<1>1. MemoryInv => NothingLeaked  BY OwnersLeaveNothing
<1> QED  BY <1>1, OwnersAreKnown, PTL

LEMMA OwnersCount ==
    ASSUME MemoryInv
    PROVE  DepthAgrees
<1> SUFFICES ASSUME format = "openstep", pc # "done"
             PROVE  /\ depth = Len(frames) - (IF O!InStrings THEN 1 ELSE 0)
                    /\ depth <= MaxNesting
                    /\ \A n \in O!begun : heap[n].type # "freed" /\ heap[n].up = NULL
                    /\ \A i \in DOMAIN frames : frames[i].type = heap[frames[i].node].type
                                               \/ (i = 1 /\ frames[i].type = "strings")
  BY DEF DepthAgrees, O!DepthAgrees
<1>1. Holds(heap, frames, ret, depth)  BY DEF MemoryInv, OpenStepInv
<1>2. Uncounted(frames) = IF O!InStrings THEN 1 ELSE 0  BY DEF Uncounted, O!InStrings
<1>3. O!begun = Roots(heap)  BY <1>1 DEF O!begun, Holds, Owned
<1>4. \A n \in Roots(heap) : heap[n].type # "freed" /\ heap[n].up = NULL  BY DEF Roots, Live
<1>5. DOMAIN frames = 1..Len(frames)  BY <1>1, FrameNumbers DEF Holds
<1> QED  BY <1>1, <1>2, <1>3, <1>4, <1>5 DEF Holds, Stacked

\* The context of OpenStep counts the containers being filled, and every node that
\* was begun is a root that was not freed: so a failure frees each of them once.
THEOREM ContextCounts ==
    Spec => []DepthAgrees
<1>1. MemoryInv => DepthAgrees  BY OwnersCount
<1> QED  BY <1>1, OwnersAreKnown, PTL

-----------------------------------------------------------------------------
(***************************************************************************)
(* XML: how deep the nodes are, also when calls have failed                *)
(***************************************************************************)
\* After a failed attachment there is not one tree any more, but the links to
\* parents still go to nodes that are older.
Low(h) ==
    /\ \E S : h \in Seq(S)
    /\ \A m \in 1..Len(h) : IsNode(h[m]) /\ (h[m].up = NULL \/ h[m].up \in 1..(m - 1))

LEMMA LowLen ==
    ASSUME NEW h, Low(h)
    PROVE  /\ Len(h) \in Nat /\ DOMAIN h = 1..Len(h)
           /\ \A m \in 1..Len(h) : m \in Nat /\ m # NULL
<1>1. PICK S : h \in Seq(S)  BY DEF Low
<1>2. Len(h) \in Nat /\ DOMAIN h = 1..Len(h)  BY <1>1, LenProperties
<1> QED  BY <1>2, MemoryAssumption

\* A heap with just these links.
Bare(r) == [type |-> "array", value |-> "", key |-> NULL, up |-> r.up, kids |-> <<>>]
Skeleton(h) == [m \in 1..Len(h) |-> Bare(h[m])]

LEMMA BareNode ==
    ASSUME NEW r
    PROVE  IsNode(Bare(r)) /\ Bare(r).type = "array" /\ Bare(r).up = r.up /\ Bare(r).kids = <<>>
  BY DEF IsNode, Bare

LEMMA SkeletonIs ==
    ASSUME NEW h, Low(h), NEW s, s = Skeleton(h)
    PROVE  /\ IsHeap(s) /\ Len(s) = Len(h) /\ Len(h) \in Nat /\ DOMAIN h = 1..Len(h)
           /\ \A m \in 1..Len(h) : m \in Nat /\ m # NULL /\ s[m].up = h[m].up
           /\ \A m \in 1..Len(h) : Depth(h, m) = Depth(s, m)
           /\ \A n : Below(h, n) = Below(s, n)
<1>1. Len(h) \in Nat /\ DOMAIN h = 1..Len(h)
  <2>1. PICK S : h \in Seq(S)  BY DEF Low
  <2> QED  BY <2>1, LenProperties
<1>2. DOMAIN s = 1..Len(h) /\ s = [m \in 1..Len(h) |-> s[m]] /\ \A m \in 1..Len(h) : s[m] = Bare(h[m])
  BY DEF Skeleton
<1>3. (\E S : s \in Seq(S)) /\ Len(s) = Len(h)  BY <1>1, <1>2, SomeSeq
<1>4. \A m \in 1..Len(h) : IsNode(s[m]) /\ s[m].type = "array" /\ s[m].up = h[m].up /\ s[m].kids = <<>>
  BY <1>2, BareNode
<1>5. ASSUME NEW m \in 1..Len(h) PROVE Links(s, m)
  <2>1. <<>> \in Seq(1..Len(s)) /\ DOMAIN <<>> = {}  OBVIOUS
  <2>2. h[m].up = NULL \/ (h[m].up \in 1..(m - 1) /\ h[m].up \in 1..Len(h))
    BY <1>1 DEF Low
  <2>3. s[m].up = NULL \/ (s[m].up \in 1..(m - 1) /\ s[s[m].up].type = "array")  BY <1>4, <2>2
  <2> QED  BY <1>4, <2>1, <2>3 DEF Links
<1>6. IsHeap(s)  BY <1>3, <1>4, <1>5 DEF IsHeap
<1>7. \A m \in 1..Len(h) : m \in Nat /\ m # NULL  BY <1>1, MemoryAssumption
<1>8. ASSUME NEW u PROVE Climbs(h, u, Len(h)) <=> Climbs(s, u, Len(h))
  <2>1. \A m \in 1..Len(h) :
           <<m>> \o (IF h[m].up = NULL THEN <<>> ELSE u[h[m].up])
              = <<m>> \o (IF s[m].up = NULL THEN <<>> ELSE u[s[m].up])
    BY <1>4
  <2>2. [m \in 1..Len(h) |-> <<m>> \o (IF h[m].up = NULL THEN <<>> ELSE u[h[m].up])]
           = [m \in 1..Len(h) |-> <<m>> \o (IF s[m].up = NULL THEN <<>> ELSE u[s[m].up])]
    BY <2>1
  <2> QED  BY <2>2 DEF Climbs
<1>9. (CHOOSE u : Climbs(h, u, Len(h))) = CHOOSE u : Climbs(s, u, Len(h))  BY <1>8
<1>10. \A m \in 1..Len(h) : Upward(h, m) = Upward(s, m)
  <2>1. \A m \in 1..Len(h) : Upward(h, m) = (CHOOSE u : Climbs(h, u, Len(h)))[m]
    BY <1>1, <1>7 DEF Upward, Climbs
  <2>2. \A m \in 1..Len(h) : Upward(s, m) = (CHOOSE u : Climbs(s, u, Len(h)))[m]
    BY <1>2, <1>7 DEF Upward, Climbs
  <2> QED  BY <1>9, <2>1, <2>2
<1>11. \A n : Below(h, n) = Below(s, n)  BY <1>1, <1>2, <1>10 DEF Below
<1> QED  BY <1>1, <1>3, <1>4, <1>6, <1>7, <1>10, <1>11 DEF Depth

LEMMA LowDepth ==
    ASSUME NEW h, Low(h), NEW m \in 1..Len(h)
    PROVE  /\ Depth(h, m) \in Nat \ {0} /\ m \in Nat
           /\ h[m].up # NULL => h[m].up \in 1..Len(h) /\ h[m].up \in Nat /\ h[m].up < m
           /\ Depth(h, m) = IF h[m].up = NULL THEN 1 ELSE Depth(h, h[m].up) + 1
<1>1. PICK s : s = Skeleton(h)  OBVIOUS
<1>2. /\ IsHeap(s) /\ Len(s) = Len(h)
      /\ \A k \in 1..Len(h) : k \in Nat /\ s[k].up = h[k].up /\ Depth(h, k) = Depth(s, k)
  BY <1>1, SkeletonIs
<1>3. m \in 1..Len(s)  BY <1>2
<1>4. h[m].up # NULL => h[m].up \in 1..Len(h) /\ h[m].up \in Nat /\ h[m].up < m  BY <1>2, <1>3, UpIs
<1>5. /\ Depth(s, m) \in Nat \ {0}
      /\ Depth(s, m) = IF s[m].up = NULL THEN 1 ELSE Depth(s, s[m].up) + 1
  BY <1>2, <1>3, DepthIs
<1> QED  BY <1>2, <1>4, <1>5

\* Up to k no node has another parent than it had: none is deeper.
Rising(h, g, k) ==
    /\ k \in Nat /\ k <= Len(h) /\ k <= Len(g)
    /\ \A m \in 1..k : g[m].up = NULL \/ g[m].up = h[m].up

LEMMA RisingDepth ==
    ASSUME NEW h, Low(h), NEW g, Low(g), NEW k, Rising(h, g, k)
    PROVE  \A m \in 1..k : Depth(g, m) <= Depth(h, m)
<1>1. k \in Nat /\ \A m \in 1..k : m \in 1..Len(h) /\ m \in 1..Len(g) /\ m \in Nat
  <2>1. Len(h) \in Nat /\ Len(g) \in Nat  BY LowLen
  <2> QED  BY <2>1 DEF Rising
<1> DEFINE T == {j \in Nat : j \in 1..k /\ ~(Depth(g, j) <= Depth(h, j))}
<1>2. ASSUME T # {} PROVE FALSE
  <2>1. T \in SUBSET Nat  OBVIOUS
  <2>2. PICK j \in T : \A i \in T : j <= i  BY <1>2, <2>1, LeastCounterexample
  <2>3. j \in Nat /\ j \in 1..k /\ ~(Depth(g, j) <= Depth(h, j))  BY <2>2
  <2>4. j \in 1..Len(h) /\ j \in 1..Len(g)  BY <1>1, <2>3
  <2>5. /\ Depth(h, j) \in Nat \ {0}
        /\ h[j].up # NULL => h[j].up \in 1..Len(h) /\ h[j].up \in Nat /\ h[j].up < j
        /\ Depth(h, j) = IF h[j].up = NULL THEN 1 ELSE Depth(h, h[j].up) + 1
    BY <2>4, LowDepth
  <2>6. /\ Depth(g, j) \in Nat \ {0}
        /\ Depth(g, j) = IF g[j].up = NULL THEN 1 ELSE Depth(g, g[j].up) + 1
    BY <2>4, LowDepth
  <2>7. g[j].up # NULL /\ g[j].up = h[j].up
    <3>1. g[j].up = NULL \/ g[j].up = h[j].up  BY <2>3 DEF Rising
    <3> QED  BY <2>3, <2>5, <2>6, <3>1
  <2>8. PICK p : p = h[j].up  OBVIOUS
  <2>9. p \in 1..k /\ p \in Nat /\ p < j  BY <1>1, <2>3, <2>5, <2>7, <2>8
  <2>10. p \notin T  BY <2>2, <2>3, <2>9
  <2>11. Depth(g, p) <= Depth(h, p)  BY <2>9, <2>10
  <2>12. Depth(h, p) \in Nat /\ Depth(g, p) \in Nat  BY <1>1, <2>9, LowDepth
  <2> QED  BY <2>3, <2>5, <2>6, <2>7, <2>8, <2>11, <2>12
<1> QED  BY <1>1, <1>2

\* No path is longer than the limit allows.
Shallow(h) == Low(h) /\ \A m \in 1..Len(h) : Depth(h, m) <= MaxNesting + 1

\* A heap in which no node has been given a parent.
Risen(h, g) ==
    /\ \E S : g \in Seq(S)
    /\ Len(g) = Len(h)
    /\ \A m \in 1..Len(h) : IsNode(g[m]) /\ (g[m].up = NULL \/ g[m].up = h[m].up)

LEMMA RisenShallow ==
    ASSUME NEW h, Shallow(h), NEW g, Risen(h, g)
    PROVE  Shallow(g)
<1>1. Low(h)  BY DEF Shallow
<1>2. Low(g) /\ Len(g) = Len(h)  BY <1>1 DEF Low, Risen
<1>3. Len(h) \in Nat  BY <1>1, LowLen
<1>4. Rising(h, g, Len(h))  BY <1>2, <1>3 DEF Rising, Risen
<1>5. \A m \in 1..Len(h) : Depth(g, m) <= Depth(h, m)  BY <1>1, <1>2, <1>4, RisingDepth
<1>6. \A m \in 1..Len(h) : Depth(g, m) \in Nat /\ Depth(h, m) \in Nat  BY <1>1, <1>2, LowDepth
<1>7. \A m \in 1..Len(h) : Depth(h, m) <= MaxNesting + 1  BY DEF Shallow
<1>8. \A m \in 1..Len(h) : Depth(g, m) <= MaxNesting + 1  BY <1>5, <1>6, <1>7, MemoryAssumption
<1> QED  BY <1>2, <1>8 DEF Shallow

LEMMA FreeAllRises ==
    ASSUME NEW h, Low(h), NEW nodes
    PROVE  Risen(h, free_all(h, nodes))
<1>1. PICK g : g = free_all(h, nodes)  OBVIOUS
<1>2. Len(h) \in Nat /\ DOMAIN h = 1..Len(h)  BY LowLen
<1>3. g = [m \in 1..Len(h) |-> IF m \in UNION {Below(h, n) : n \in nodes} THEN Freed ELSE h[m]]
  BY <1>1, <1>2 DEF free_all
<1>4. /\ DOMAIN g = 1..Len(h) /\ g = [m \in 1..Len(h) |-> g[m]]
      /\ \A m \in 1..Len(h) : g[m] = Freed \/ g[m] = h[m]
  BY <1>3
<1>5. IsNode(Freed) /\ Freed.up = NULL  BY NewNode DEF Freed
<1>6. (\E S : g \in Seq(S)) /\ Len(g) = Len(h)  BY <1>2, <1>4, SomeSeq
<1>7. \A m \in 1..Len(h) : IsNode(g[m]) /\ (g[m].up = NULL \/ g[m].up = h[m].up)
  BY <1>4, <1>5 DEF Low
<1> QED  BY <1>1, <1>6, <1>7 DEF Risen

LEMMA PlistFreeRises ==
    ASSUME NEW h, Low(h), NEW n
    PROVE  Risen(h, plist_free(h, n))
<1>1. PICK g : g = plist_free(h, n)  OBVIOUS
<1>2. Len(h) \in Nat /\ DOMAIN h = 1..Len(h)  BY LowLen
<1>3. PICK kids : \A m \in 1..Len(h) : kids[m] = SelectSeq(h[m].kids, LAMBDA k : k # n)
  <2> DEFINE f == [m \in 1..Len(h) |-> SelectSeq(h[m].kids, LAMBDA k : k # n)]
  <2>1. \A m \in 1..Len(h) : f[m] = SelectSeq(h[m].kids, LAMBDA k : k # n)  OBVIOUS
  <2> QED  BY <2>1
<1>4. g = [m \in 1..Len(h) |-> IF m \in Below(h, n) THEN Freed
                               ELSE IF m = h[n].up THEN [h[m] EXCEPT !.kids = kids[m]]
                               ELSE h[m]]
  BY <1>1, <1>2, <1>3 DEF plist_free
<1>5. /\ DOMAIN g = 1..Len(h) /\ g = [m \in 1..Len(h) |-> g[m]]
      /\ \A m \in 1..Len(h) : g[m] = Freed \/ g[m] = h[m] \/ WithKids(g[m], h[m], kids[m])
  BY <1>4 DEF WithKids
<1>6. IsNode(Freed) /\ Freed.up = NULL  BY NewNode DEF Freed
<1>7. (\E S : g \in Seq(S)) /\ Len(g) = Len(h)  BY <1>2, <1>5, SomeSeq
<1>8. ASSUME NEW m \in 1..Len(h) PROVE IsNode(g[m]) /\ (g[m].up = NULL \/ g[m].up = h[m].up)
  <2>1. IsNode(h[m])  BY DEF Low
  <2>2. WithKids(g[m], h[m], kids[m]) => IsNode(g[m]) /\ g[m].up = h[m].up  BY <2>1, KidsSet
  <2> QED  BY <1>5, <1>6, <2>1, <2>2
<1> QED  BY <1>1, <1>7, <1>8 DEF Risen

LEMMA UidRises ==
    ASSUME NEW h, Low(h), NEW n \in 1..Len(h), NEW k
    PROVE  Risen(h, X!with_uid(h, n, k))
<1>1. PICK f : f = free_all(h, {k})  OBVIOUS
<1>2. Risen(h, f)  BY <1>1, FreeAllRises
<1>3. PICK v : v = h[k].value  OBVIOUS
<1>4. PICK g : g = X!with_uid(h, n, k)  OBVIOUS
<1>5. g = [f EXCEPT ![n].type = "uid", ![n].value = v, ![n].kids = <<>>]
  BY <1>1, <1>3, <1>4, XmlCalls DEF X!with_uid
<1>6. PICK S : f \in Seq(S)  BY <1>2 DEF Risen
<1>7. Len(f) = Len(h) /\ Len(h) \in Nat /\ DOMAIN f = 1..Len(h)  BY <1>2, <1>6, LenProperties DEF Risen
<1>8. PICK s : s = [f[n] EXCEPT !.type = "uid", !.value = v, !.kids = <<>>]  OBVIOUS
<1>9. IsNode(f[n])  BY <1>2 DEF Risen
<1>10. IsNode(s) /\ s.up = f[n].up
  <2>1. UidNode(s, f[n], v)  BY ONLY <1>8 DEF UidNode
  <2> QED  BY ONLY <2>1, <1>9, UidSet
<1>11. DOMAIN g = 1..Len(h) /\ g[n] = s /\ \A m \in 1..Len(h) : m # n => g[m] = f[m]
  BY ONLY <1>5, <1>7, <1>8
<1>12. g = [m \in 1..Len(h) |-> g[m]]
  <2>1. g = [m \in 1..Len(h) |-> IF m = n THEN g[n] ELSE f[m]]  BY ONLY <1>5, <1>7
  <2> QED  BY <2>1, <1>11
<1>13. (\E T : g \in Seq(T)) /\ Len(g) = Len(h)  BY <1>7, <1>11, <1>12, SomeSeq
<1>14. \A m \in 1..Len(h) : IsNode(g[m]) /\ (g[m].up = NULL \/ g[m].up = h[m].up)
  BY <1>2, <1>10, <1>11 DEF Risen
<1> QED  BY <1>4, <1>13, <1>14 DEF Risen

\* A new node, which is nobody's item.
LEMMA NewShallow ==
    ASSUME NEW h, Shallow(h), NEW type, NEW value
    PROVE  LET g == Append(h, Node(type, value))
           IN  /\ Shallow(g) /\ Len(g) = Len(h) + 1 /\ Len(h) \in Nat
               /\ g[Len(g)].up = NULL /\ Len(g) \in 1..Len(g) /\ 1..Len(h) \subseteq 1..Len(g)
<1>1. PICK r : r = Node(type, value)  OBVIOUS
<1>2. PICK g : g = Append(h, r)  OBVIOUS
<1>0. IsNode(r) /\ r.up = NULL  BY <1>1, NewNode
<1>3. PICK S : h \in Seq(S)  BY DEF Shallow, Low
<1>4. r \in S \cup {r} /\ h \in Seq(S \cup {r})  BY <1>3, SeqMonotonic
<1>5. /\ g \in Seq(S \cup {r}) /\ Len(g) = Len(h) + 1
      /\ g[Len(h) + 1] = r /\ \A m \in 1..Len(h) : g[m] = h[m]
  BY <1>2, <1>4, AppendProperties
<1>6. Low(h) /\ Len(h) \in Nat  BY LowLen DEF Shallow
<1>7. \A m \in 1..(Len(h) + 1) : m \in 1..Len(h) \/ m = Len(h) + 1  BY <1>6
<1>8. Low(g)
  <2>1. \A m \in 1..Len(g) : IsNode(g[m]) /\ (g[m].up = NULL \/ g[m].up \in 1..(m - 1))
    BY <1>0, <1>5, <1>6, <1>7 DEF Low
  <2> QED  BY <1>5, <2>1 DEF Low
<1>9. Rising(h, g, Len(h))  BY <1>5, <1>6 DEF Rising
<1>10. \A m \in 1..Len(h) : Depth(g, m) <= Depth(h, m)  BY <1>6, <1>8, <1>9, RisingDepth
<1>11. Len(h) + 1 \in 1..Len(g) /\ 1..Len(h) \subseteq 1..Len(g)  BY <1>5, <1>6
<1>12. \A m \in 1..Len(g) : Depth(g, m) <= MaxNesting + 1
  <2>1. Depth(g, Len(h) + 1) = 1  BY <1>0, <1>5, <1>8, <1>11, LowDepth
  <2>2. \A m \in 1..Len(h) : Depth(h, m) \in Nat /\ Depth(g, m) \in Nat  BY <1>6, <1>8, <1>11, LowDepth
  <2>3. \A m \in 1..Len(h) : Depth(h, m) <= MaxNesting + 1  BY DEF Shallow
  <2>4. \A m \in 1..Len(h) : Depth(g, m) <= MaxNesting + 1  BY <1>10, <2>2, <2>3, MemoryAssumption
  <2> QED  BY <1>5, <1>7, <2>1, <2>4, MemoryAssumption
<1> QED  BY <1>0, <1>1, <1>2, <1>5, <1>6, <1>8, <1>11, <1>12 DEF Shallow

\* The newest node x is an item of n now.
TakenIn(h, g, n, x) ==
    /\ \E S : g \in Seq(S)
    /\ Len(g) = Len(h)
    /\ \A m \in 1..Len(h) : IsNode(g[m]) /\ (m # x => g[m].up = NULL \/ g[m].up = h[m].up)
    /\ g[x].up = n

\* Within the limit the node that takes it is not too deep.
LEMMA TakenShallow ==
    ASSUME NEW h, Shallow(h), NEW n \in 1..(Len(h) - 1), NEW x, x = Len(h),
           Depth(h, n) <= MaxNesting, NEW g, TakenIn(h, g, n, x)
    PROVE  Shallow(g)
<1>1. Low(h) /\ Len(h) \in Nat /\ Len(g) = Len(h)  BY LowLen DEF Shallow, TakenIn
<1>2. \A m \in 1..Len(h) : m = x \/ m \in 1..(Len(h) - 1)  BY <1>1
<1>3. n \in 1..Len(h) /\ x \in 1..Len(h) /\ n # x /\ n \in 1..(x - 1) /\ n # NULL  BY <1>1, LowLen
<1>4. 1..(Len(h) - 1) \subseteq 1..Len(h) /\ x \notin 1..(Len(h) - 1)  BY <1>1
<1>5. Low(g)
  <2>1. \A m \in 1..Len(g) : IsNode(g[m]) /\ (g[m].up = NULL \/ g[m].up \in 1..(m - 1))
    BY <1>1, <1>3 DEF Low, TakenIn
  <2> QED  BY <2>1 DEF Low, TakenIn
<1>6. Rising(h, g, Len(h) - 1)
  <2>1. Len(h) - 1 \in Nat /\ Len(h) - 1 <= Len(h)  BY <1>1, <1>3
  <2> QED  BY <1>1, <1>4, <2>1 DEF Rising, TakenIn
<1>7. \A m \in 1..(Len(h) - 1) : Depth(g, m) <= Depth(h, m)  BY <1>1, <1>5, <1>6, RisingDepth
<1>8. \A m \in 1..Len(h) : Depth(h, m) \in Nat /\ Depth(g, m) \in Nat  BY <1>1, <1>5, LowDepth
<1>9. Depth(g, x) = Depth(g, n) + 1
  <2>1. g[x].up = n  BY DEF TakenIn
  <2> QED  BY <1>1, <1>3, <1>5, <2>1, LowDepth
<1>10. Depth(g, x) <= MaxNesting + 1
  <2>1. Depth(g, n) <= Depth(h, n)  BY <1>7
  <2> QED  BY <1>3, <1>8, <1>9, <2>1, MemoryAssumption
<1>11. ASSUME NEW m \in 1..(Len(h) - 1) PROVE Depth(g, m) <= MaxNesting + 1
  <2>1. m \in 1..Len(h)  BY <1>4
  <2>2. Depth(h, m) <= MaxNesting + 1  BY <2>1 DEF Shallow
  <2>3. Depth(g, m) <= Depth(h, m) /\ Depth(g, m) \in Nat /\ Depth(h, m) \in Nat  BY <1>7, <1>8, <2>1
  <2> QED  BY <2>2, <2>3, MemoryAssumption
<1>12. \A m \in 1..Len(g) : Depth(g, m) <= MaxNesting + 1  BY <1>1, <1>2, <1>10, <1>11
<1> QED  BY <1>5, <1>12 DEF Shallow

\* The newest node has no items: its levels are one.
LEMMA NewestFits ==
    ASSUME NEW h, Low(h), NEW n \in 1..Len(h), NEW x \in 1..Len(h), x = Len(h), h[x].up = NULL,
           within_limit(h, n, x)
    PROVE  Depth(h, n) <= MaxNesting
<1>1. PICK s : s = Skeleton(h)  OBVIOUS
<1>2. /\ IsHeap(s) /\ Len(s) = Len(h) /\ Len(h) \in Nat
      /\ Below(h, x) = Below(s, x)
  BY <1>1, SkeletonIs
<1>3. x \in 1..Len(s)  BY <1>2
<1>4. Below(s, x) \subseteq x..Len(s) /\ x \in Below(s, x)  BY <1>2, <1>3, BelowIs
<1>5. Below(h, x) = {x}
  <2>1. x..Len(s) = {x}  BY <1>2
  <2> QED  BY <1>2, <1>4, <2>1
<1>6. Depth(h, x) = 1 /\ Depth(h, n) \in Nat  BY LowDepth
<1>7. {Len(Upward(h, m)) : m \in Below(h, x)} = {1}  BY <1>5, <1>6 DEF Depth
<1>8. Most({1}) = 1  BY DEF Most
<1>9. Levels(h, x) = 1
  <2>1. Levels(h, x) = 1 - Len(Upward(h, x)) + 1  BY <1>7, <1>8 DEF Levels
  <2>2. Len(Upward(h, x)) = 1  BY <1>6 DEF Depth
  <2> QED  BY <2>1, <2>2
<1> QED  BY <1>6, <1>9, MemoryAssumption DEF within_limit

LEMMA ArrayTakesIn ==
    ASSUME NEW h, Low(h), NEW n \in 1..Len(h), NEW x \in 1..Len(h), n # x
    PROVE  TakenIn(h, plist_array_append_item(h, n, x), n, x)
<1>1. PICK g : g = plist_array_append_item(h, n, x)  OBVIOUS
<1>2. Len(h) \in Nat /\ DOMAIN h = 1..Len(h)  BY LowLen
<1>3. PICK S : h \in Seq(S)  BY DEF Low
<1>4. h = [m \in 1..Len(h) |-> h[m]]  BY <1>2, <1>3
<1>5. PICK l : l = Append(h[n].kids, x)  OBVIOUS
<1>6. g = [h EXCEPT ![n].kids = l, ![x].up = n]
  BY <1>1, <1>5 DEF plist_array_append_item
<1>7. /\ DOMAIN g = 1..Len(h) /\ g = [m \in 1..Len(h) |-> g[m]]
      /\ WithKids(g[n], h[n], l) /\ WithUp(g[x], h[x], n)
      /\ \A m \in 1..Len(h) : m # n /\ m # x => g[m] = h[m]
  BY <1>2, <1>4, <1>6 DEF WithKids, WithUp
<1>8. (\E T : g \in Seq(T)) /\ Len(g) = Len(h)  BY <1>2, <1>7, SomeSeq
<1>9. \A m \in 1..Len(h) : IsNode(h[m])  BY DEF Low
<1>10. IsNode(g[n]) /\ g[n].up = h[n].up  BY <1>7, <1>9, KidsSet
<1>11. IsNode(g[x]) /\ g[x].up = n  BY <1>7, <1>9, UpSet
<1>12. \A m \in 1..Len(h) : IsNode(g[m]) /\ (m # x => g[m].up = h[m].up)  BY <1>7, <1>9, <1>10, <1>11
<1> QED  BY <1>1, <1>8, <1>11, <1>12 DEF TakenIn

LEMMA DictTakesIn ==
    ASSUME NEW h, Low(h), NEW n \in 1..Len(h), NEW x \in 1..Len(h), n # x, NEW name
    PROVE  TakenIn(h, plist_dict_set_item(h, n, name, x), n, x)
<1>1. PICK g : g = plist_dict_set_item(h, n, name, x)  OBVIOUS
<1>2. Len(h) \in Nat /\ DOMAIN h = 1..Len(h)  BY LowLen
<1>3. CASE Positions(h, n, name) = {}
  <2>1. PICK a : a = plist_array_append_item(h, n, x)  OBVIOUS
  <2>2. TakenIn(h, a, n, x)  BY <2>1, ArrayTakesIn
  <2>3. PICK S : a \in Seq(S)  BY <2>2 DEF TakenIn
  <2>4. Len(a) = Len(h) /\ DOMAIN a = 1..Len(h)  BY <2>2, <2>3, LenProperties DEF TakenIn
  <2>5. g = [a EXCEPT ![x].key = name]  BY <1>1, <1>3, <2>1 DEF plist_dict_set_item
  <2>6. /\ DOMAIN g = 1..Len(h) /\ g = [m \in 1..Len(h) |-> g[m]]
        /\ WithKey(g[x], a[x], name)
        /\ \A m \in 1..Len(h) : m # x => g[m] = a[m]
    BY <2>4, <2>5 DEF WithKey
  <2>7. (\E T : g \in Seq(T)) /\ Len(g) = Len(h)  BY <1>2, <2>6, SomeSeq
  <2>8. IsNode(a[x])  BY <2>2 DEF TakenIn
  <2>9. IsNode(g[x]) /\ g[x].up = a[x].up  BY <2>6, <2>8, KeySet
  <2> QED  BY <1>1, <2>2, <2>6, <2>7, <2>9 DEF TakenIn
<1>4. CASE Positions(h, n, name) # {}
  <2>1. PICK i : i = CHOOSE i0 \in Positions(h, n, name) : TRUE  OBVIOUS
  <2>2. PICK f : f = plist_free(h, h[n].kids[i])  OBVIOUS
  <2>3. Risen(h, f)  BY <2>2, PlistFreeRises
  <2>4. PICK S : f \in Seq(S)  BY <2>3 DEF Risen
  <2>5. Len(f) = Len(h) /\ DOMAIN f = 1..Len(h)  BY <2>3, <2>4, LenProperties DEF Risen
  <2>6. PICK l : l = [h[n].kids EXCEPT ![i] = x]  OBVIOUS
  <2>7. g = [f EXCEPT ![n].kids = l, ![x].up = n, ![x].key = name]
    BY <1>1, <1>4, <2>1, <2>2, <2>6 DEF plist_dict_set_item
  <2>8. PICK s : WithUp(s, f[x], n)  BY DEF WithUp
  <2>9. /\ DOMAIN g = 1..Len(h) /\ g = [m \in 1..Len(h) |-> g[m]]
        /\ WithKids(g[n], f[n], l) /\ WithKey(g[x], s, name)
        /\ \A m \in 1..Len(h) : m # n /\ m # x => g[m] = f[m]
    BY <2>5, <2>7, <2>8 DEF WithKids, WithUp, WithKey
  <2>10. (\E T : g \in Seq(T)) /\ Len(g) = Len(h)  BY <1>2, <2>9, SomeSeq
  <2>11. \A m \in 1..Len(h) : IsNode(f[m])  BY <2>3 DEF Risen
  <2>12. IsNode(g[n]) /\ g[n].up = f[n].up  BY <2>9, <2>11, KidsSet
  <2>13. IsNode(s) /\ s.up = n  BY <2>8, <2>11, UpSet
  <2>14. IsNode(g[x]) /\ g[x].up = n  BY <2>9, <2>13, KeySet
  <2>15. \A m \in 1..Len(h) : IsNode(g[m]) /\ (m # x => g[m].up = f[m].up)
    BY <2>9, <2>11, <2>12, <2>14
  <2>16. \A m \in 1..Len(h) : f[m].up = NULL \/ f[m].up = h[m].up  BY <2>3 DEF Risen
  <2> QED  BY <1>1, <2>10, <2>14, <2>15, <2>16 DEF TakenIn
<1> QED  BY <1>3, <1>4

\* Neither the nodes nor depth pass the limit, also after a failed attachment.
XmlBounds ==
    /\ Shallow(heap) /\ depth \in 0..MaxNesting
    /\ parent = NULL \/ parent \in 1..Len(heap)

LEMMA BoundsGivenUp ==
    ASSUME XmlBounds, NEW h, Shallow(h), 1..Len(heap) \subseteq 1..Len(h),
           NEW code, NEW sub, NEW root, X!GiveUp(code, h, sub, root)
    PROVE  XmlBounds'
<1>1. PICK g : g = heap'  OBVIOUS
<1>2. g = free_all(h, {sub, root} \ {NULL}) /\ UNCHANGED <<parent, depth>>
  BY <1>1, XmlCalls DEF X!GiveUp, X!cleaned_up
<1>3. Risen(h, g)  BY <1>2, FreeAllRises DEF Shallow
<1>4. Shallow(g)  BY <1>3, RisenShallow
<1>5. Len(g) = Len(h)  BY <1>3 DEF Risen
<1>6. parent = NULL \/ parent \in 1..Len(g)  BY <1>5 DEF XmlBounds
<1> QED  BY <1>1, <1>2, <1>4, <1>6 DEF XmlBounds

LEMMA BoundsPlaced ==
    ASSUME XmlBounds, NEW h, Shallow(h), 1..Len(heap) \subseteq 1..Len(h),
           NEW n, n = X!subnode, n \in 1..Len(h),
           NEW root, NEW outer, outer = NULL \/ outer \in 1..Len(h),
           X!Placed(h, root, outer) \/ X!PlacedNoPath(h, root)
    PROVE  XmlBounds'
<1>1. CASE X!GiveUp(X!PLIST_ERR_PARSE, h, NULL, root) \/ X!GiveUp(X!PLIST_ERR_MAX_NESTING, h, n, root)
           \/ X!GiveUp(X!PLIST_ERR_PARSE, h, n, root)
  BY <1>1, BoundsGivenUp
<1>2. CASE heap' = h /\ parent' = outer /\ depth' = depth
  BY <1>2 DEF XmlBounds
<1>3. CASE heap' = h /\ parent' = n /\ depth' = depth + 1 /\ ~X!too_deep
  <2>1. depth' \in 0..MaxNesting
    <3>1. depth \in Int /\ depth >= 0 /\ ~(depth >= MaxNesting) /\ MaxNesting \in Nat
      BY <1>3, MemoryAssumption DEF X!too_deep, XmlBounds
    <3> QED  BY <1>3, <3>1
  <2> QED  BY <1>3, <2>1 DEF XmlBounds
<1> QED  BY <1>1, <1>2, <1>3 DEF X!Placed, X!PlacedNoPath

LEMMA BoundsKept ==
    ASSUME XmlBounds, X!Next
    PROVE  XmlBounds'
<1>0. /\ Shallow(heap) /\ Low(heap) /\ Len(heap) \in Nat /\ 1..Len(heap) \subseteq 1..Len(heap)
      /\ depth \in 0..MaxNesting
      /\ parent = NULL \/ parent \in 1..Len(heap)
  BY LowLen DEF XmlBounds, Shallow
<1>1. ASSUME NEW code, NEW sub, NEW root, X!GiveUp(code, heap, sub, root) PROVE XmlBounds'
  BY <1>0, <1>1, BoundsGivenUp
<1>2. CASE UNCHANGED <<heap, parent, depth>>  BY <1>2 DEF XmlBounds
<1>3. CASE X!Garbage \/ X!OpenPlist \/ X!ClosePlist \/ X!NoNode \/ X!Key
  BY <1>1, <1>2, <1>3 DEF X!Garbage, X!OpenPlist, X!ClosePlist, X!NoNode, X!Key
<1>4. CASE X!Unreadable
  <2>1. PICK h : h = Append(heap, Node("bad", ""))  OBVIOUS
  <2>2. Shallow(h) /\ 1..Len(heap) \subseteq 1..Len(h)  BY <1>0, <2>1, NewShallow
  <2>3. X!GiveUp(X!PLIST_ERR_PARSE, h, X!subnode, plist)  BY <1>4, <2>1, XmlCalls DEF X!Unreadable
  <2> QED  BY <2>2, <2>3, BoundsGivenUp
<1>5. PICK h : h = X!Allocated(X!tag)  OBVIOUS
<1>6. PICK n : n = X!subnode  OBVIOUS
<1>7. /\ Shallow(h) /\ Low(h) /\ n = Len(h) /\ n \in 1..Len(h) /\ h[n].up = NULL
      /\ 1..Len(heap) \subseteq 1..Len(h) /\ n = Len(heap) + 1
  <2>1. PICK type, value : h = Append(heap, Node(type, value))  BY <1>5, XmlCalls DEF X!Allocated
  <2>2. /\ Shallow(h) /\ Len(h) = Len(heap) + 1 /\ h[Len(h)].up = NULL /\ Len(h) \in 1..Len(h)
        /\ 1..Len(heap) \subseteq 1..Len(h)
    BY <1>0, <2>1, NewShallow
  <2>3. n = Len(heap) + 1  BY <1>6 DEF X!subnode
  <2>4. n = Len(h)  BY <2>2, <2>3
  <2>5. Low(h)  BY <2>2 DEF Shallow
  <2> QED  BY <2>2, <2>3, <2>4, <2>5
<1>8. CASE X!MisplacedValue
  BY <1>5, <1>7, <1>8, BoundsGivenUp DEF X!MisplacedValue
<1>9. CASE X!RootValue
  <2>1. PICK outer : outer = IF X!tag.type \in X!Containers THEN n ELSE NULL  OBVIOUS
  <2>2. X!Placed(h, n, outer) \/ X!PlacedNoPath(h, n)  BY <1>5, <1>6, <1>9, <2>1 DEF X!RootValue
  <2> QED  BY <1>6, <1>7, <2>1, <2>2, BoundsPlaced
<1>10. CASE X!ChildValue
  <2>1. PICK g : g = IF X!fits THEN X!placed(h, n) ELSE h  OBVIOUS
  <2>2. parent # NULL /\ (X!Placed(g, plist, parent) \/ X!PlacedNoPath(g, plist)
                          \/ X!Placed(h, plist, parent))
    BY <1>5, <1>6, <1>10, <2>1 DEF X!ChildValue, X!has_place
  <2>3. parent \in 1..Len(heap) /\ parent \in 1..Len(h) /\ parent \in 1..(Len(h) - 1) /\ parent # n
    BY <1>0, <1>7, <2>2
  <2>4. Shallow(g) /\ Len(g) = Len(h)
    <3>1. CASE ~X!fits  BY <1>7, <2>1, <3>1
    <3>2. CASE X!fits
      <4>1. within_limit(h, parent, n)  BY <1>5, <1>6, <3>2, XmlCalls DEF X!fits
      <4>2. Depth(h, parent) <= MaxNesting  BY <1>7, <2>3, <4>1, NewestFits
      <4>3. \/ g = plist_dict_set_item(h, parent, keyname, n)
            \/ g = plist_array_append_item(h, parent, n)
        BY <2>1, <3>2, XmlCalls DEF X!placed
      <4>4. TakenIn(h, g, parent, n)  BY <1>7, <2>3, <4>3, ArrayTakesIn, DictTakesIn
      <4>5. Shallow(g)  BY <1>7, <2>3, <4>2, <4>4, TakenShallow
      <4> QED  BY <4>4, <4>5 DEF TakenIn
    <3> QED  BY <3>1, <3>2
  <2>5. CASE X!Placed(g, plist, parent) \/ X!PlacedNoPath(g, plist)
    BY <1>6, <1>7, <2>3, <2>4, <2>5, BoundsPlaced
  <2>6. CASE X!Placed(h, plist, parent)  BY <1>6, <1>7, <2>3, <2>6, BoundsPlaced
  <2> QED  BY <2>2, <2>5, <2>6
<1>11. CASE X!CloseContainer
  <2>1. CASE X!GiveUp(X!PLIST_ERR_PARSE, heap, NULL, plist)  BY <1>1, <2>1
  <2>2. CASE ~X!GiveUp(X!PLIST_ERR_PARSE, heap, NULL, plist)
    <3>1. /\ heap' = IF X!closed_values = {} THEN heap
                     ELSE X!with_uid(heap, parent, CHOOSE k \in X!closed_values : TRUE)
          /\ depth' = IF depth > 0 THEN depth - 1 ELSE 0
          /\ parent' = X!container_of(heap, parent)
      BY <1>11, <2>2 DEF X!CloseContainer
    <3>2. PICK g : g = heap'  OBVIOUS
    <3>3. Shallow(g) /\ Len(g) = Len(heap)
      <4>1. CASE X!closed_values = {}  BY <1>0, <3>1, <3>2, <4>1
      <4>2. CASE X!closed_values # {}
        <5>1. PICK k : k = CHOOSE k0 \in X!closed_values : TRUE  OBVIOUS
        <5>2. parent # NULL  BY <4>2 DEF X!closed_values
        <5>3. Risen(heap, g)  BY <1>0, <3>1, <3>2, <4>2, <5>1, <5>2, UidRises
        <5>4. Shallow(g)  BY <1>0, <5>3, RisenShallow
        <5> QED  BY <5>3, <5>4 DEF Risen
      <4> QED  BY <4>1, <4>2
    <3>4. depth' \in 0..MaxNesting  BY <1>0, <3>1, MemoryAssumption
    <3>5. parent' = NULL \/ parent' \in 1..Len(g)
      <4>1. parent # NULL => heap[parent].up = NULL \/ heap[parent].up \in 1..Len(heap)
        BY <1>0, LowDepth
      <4> QED  BY <3>1, <3>3, <4>1 DEF X!container_of
    <3> QED  BY <3>2, <3>3, <3>4, <3>5 DEF XmlBounds
  <2> QED  BY <2>1, <2>2
<1>12. CASE X!EndOfDocument
  <2>1. CASE X!GiveUp(X!PLIST_ERR_PARSE, heap, NULL, plist)  BY <1>1, <2>1
  <2>2. CASE ~X!GiveUp(X!PLIST_ERR_PARSE, heap, NULL, plist) /\ ~UNCHANGED <<heap, plist>>
    <3>1. PICK k : heap' = Append(X!plist_free(heap, plist), X!Node("uid", heap[k].value))
                   /\ UNCHANGED <<parent, depth>>
      BY <1>12, <2>2 DEF X!EndOfDocument
    <3>2. PICK f : f = plist_free(heap, plist)  OBVIOUS
    <3>3. Risen(heap, f)  BY <1>0, <3>2, PlistFreeRises
    <3>4. Shallow(f) /\ Len(f) = Len(heap)  BY <1>0, <3>3, RisenShallow DEF Risen
    <3>5. PICK g : g = heap'  OBVIOUS
    <3>6. g = Append(f, Node("uid", heap[k].value))  BY <3>1, <3>2, <3>5, XmlCalls
    <3>7. Shallow(g) /\ 1..Len(f) \subseteq 1..Len(g)  BY <3>4, <3>6, NewShallow
    <3>8. parent = NULL \/ parent \in 1..Len(g)  BY <1>0, <3>4, <3>7
    <3> QED  BY <1>0, <3>1, <3>5, <3>7, <3>8 DEF XmlBounds
  <2>3. CASE ~X!GiveUp(X!PLIST_ERR_PARSE, heap, NULL, plist) /\ UNCHANGED <<heap, plist>>
    <3>1. UNCHANGED <<parent, depth>>  BY <1>12, <2>3 DEF X!EndOfDocument
    <3> QED  BY <1>2, <2>3, <3>1
  <2> QED  BY <2>1, <2>2, <2>3
<1> QED  BY <1>3, <1>4, <1>8, <1>9, <1>10, <1>11, <1>12 DEF X!Next

-----------------------------------------------------------------------------
(***************************************************************************)
(* XML: the open tags and the nodes from the root down                     *)
(***************************************************************************)
\* What Containing collects from the first n open tags.
Collects(path, f, n) ==
    f = [k \in 0..n |-> IF k = 0 THEN <<>>
                        ELSE IF path[k] \in X!Containers THEN Append(f[k - 1], path[k])
                        ELSE f[k - 1]]

LEMMA CollectsIs ==
    ASSUME NEW path, NEW f, NEW n \in Nat, Collects(path, f, n)
    PROVE  /\ f[0] = <<>>
           /\ \A k \in 1..n : f[k] = IF path[k] \in X!Containers THEN Append(f[k - 1], path[k])
                                     ELSE f[k - 1]
<1>1. 0 \in 0..n /\ \A k \in 1..n : k \in 0..n /\ k # 0  OBVIOUS
<1>2. \A k \in 0..n : f[k] = IF k = 0 THEN <<>>
                             ELSE IF path[k] \in X!Containers THEN Append(f[k - 1], path[k])
                             ELSE f[k - 1]
  BY DEF Collects
<1> QED  BY <1>1, <1>2

LEMMA CollectFurther ==
    ASSUME NEW path, NEW n \in Nat, NEW f, Collects(path, f, n)
    PROVE  \E g : Collects(path, g, n + 1)
<1>1. PICK top : top = IF path[n + 1] \in X!Containers THEN Append(f[n], path[n + 1]) ELSE f[n]
  OBVIOUS
<1>2. PICK g : g = [k \in 0..(n + 1) |-> IF k = n + 1 THEN top ELSE f[k]]  OBVIOUS
<1>3. /\ g = [k \in 0..(n + 1) |-> g[k]] /\ g[n + 1] = top
      /\ \A k \in 0..n : g[k] = f[k]
  BY <1>2
<1>4. f[0] = <<>> /\ \A k \in 1..n : f[k] = IF path[k] \in X!Containers THEN Append(f[k - 1], path[k])
                                            ELSE f[k - 1]
  BY CollectsIs
<1>5. ASSUME NEW k \in 0..(n + 1)
      PROVE  g[k] = IF k = 0 THEN <<>>
                    ELSE IF path[k] \in X!Containers THEN Append(g[k - 1], path[k])
                    ELSE g[k - 1]
  <2>1. CASE k = 0
    <3>1. 0 \in 0..n  OBVIOUS
    <3> QED  BY <1>3, <1>4, <2>1, <3>1
  <2>2. CASE k = n + 1
    <3>1. k # 0 /\ k - 1 = n /\ n \in 0..n  BY <2>2
    <3> QED  BY <1>1, <1>3, <2>2, <3>1
  <2>3. CASE k \in 1..n
    <3>1. k # 0 /\ k - 1 \in 0..n /\ k \in 0..n  BY <2>3
    <3> QED  BY <1>3, <1>4, <2>3, <3>1
  <2> QED  BY <2>1, <2>2, <2>3
<1>6. Collects(path, g, n + 1)  BY <1>3, <1>5 DEF Collects
<1> QED  BY <1>6

LEMMA CollectExists ==
    ASSUME NEW path, NEW n \in Nat
    PROVE  \E f : Collects(path, f, n)
<1> DEFINE T == {k \in Nat : ~\E f : Collects(path, f, k)}
<1> SUFFICES ASSUME T # {} PROVE FALSE  OBVIOUS
<1>1. T \in SUBSET Nat  OBVIOUS
<1>2. PICK k \in T : \A m \in T : k <= m  BY <1>1, LeastCounterexample
<1>3. k \in Nat /\ ~\E f : Collects(path, f, k)  BY <1>2
<1>4. CASE k = 0
  <2> DEFINE f == [i \in 0..0 |-> <<>>]
  <2>1. \A g : [i \in 0..0 |-> IF i = 0 THEN <<>>
                               ELSE IF path[i] \in X!Containers THEN Append(g[i - 1], path[i])
                               ELSE g[i - 1]] = f
    OBVIOUS
  <2>2. Collects(path, f, 0)  BY <2>1 DEF Collects
  <2> QED  BY <1>3, <1>4, <2>2
<1>5. CASE k # 0
  <2>1. k - 1 \in Nat /\ ~(k <= k - 1) /\ k - 1 + 1 = k  BY <1>3, <1>5
  <2>2. PICK f : Collects(path, f, k - 1)  BY <1>2, <2>1
  <2>3. \E g : Collects(path, g, k - 1 + 1)  BY <2>1, <2>2, CollectFurther
  <2> QED  BY <1>3, <2>1, <2>3
<1> QED  BY <1>4, <1>5

SameTo(p, q, n) == \A k \in 1..n : p[k] = q[k]

LEMMA CollectSame ==
    ASSUME NEW p, NEW q, NEW n \in Nat, NEW m \in Nat, n <= m, SameTo(p, q, n),
           NEW f, Collects(p, f, n), NEW g, Collects(q, g, m)
    PROVE  f[n] = g[n]
<1> DEFINE T == {k \in Nat : k <= n /\ f[k] # g[k]}
<1> SUFFICES ASSUME T # {} PROVE FALSE  OBVIOUS
<1>1. T \in SUBSET Nat  OBVIOUS
<1>2. PICK k \in T : \A j \in T : k <= j  BY <1>1, LeastCounterexample
<1>3. k \in Nat /\ k <= n /\ f[k] # g[k]  BY <1>2
<1>4. f[0] = <<>> /\ \A j \in 1..n : f[j] = IF p[j] \in X!Containers THEN Append(f[j - 1], p[j])
                                            ELSE f[j - 1]
  BY CollectsIs
<1>5. g[0] = <<>> /\ \A j \in 1..m : g[j] = IF q[j] \in X!Containers THEN Append(g[j - 1], q[j])
                                            ELSE g[j - 1]
  BY CollectsIs
<1>6. k \in 1..n /\ k \in 1..m /\ k - 1 \in Nat /\ k - 1 <= n /\ ~(k <= k - 1)  BY <1>3, <1>4, <1>5
<1>7. f[k - 1] = g[k - 1]  BY <1>2, <1>6
<1> QED  BY <1>3, <1>4, <1>5, <1>6, <1>7 DEF SameTo

LEMMA ContainingIs ==
    ASSUME NEW S, NEW path \in Seq(S), NEW f, Collects(path, f, Len(path))
    PROVE  X!Containing(path) = f[Len(path)]
<1>1. PICK g : g = CHOOSE g0 : Collects(path, g0, Len(path))  OBVIOUS
<1>2. Collects(path, g, Len(path))  BY <1>1
<1>3. X!Containing(path) = g[Len(path)]  BY <1>1 DEF X!Containing, Collects
<1>4. Len(path) \in Nat  BY LenProperties
<1>5. g[Len(path)] = f[Len(path)]  BY <1>2, <1>4, CollectSame DEF SameTo
<1> QED  BY <1>3, <1>5

\* Only containers count.
LEMMA ContainingAppend ==
    ASSUME NEW S, NEW path \in Seq(S), NEW t \in S
    PROVE  X!Containing(Append(path, t)) =
              IF t \in X!Containers THEN Append(X!Containing(path), t) ELSE X!Containing(path)
<1>1. PICK n : n = Len(path)  OBVIOUS
<1>2. PICK p : p = Append(path, t)  OBVIOUS
<1>3. PICK m : m = n + 1  OBVIOUS
<1>4. n \in Nat /\ p \in Seq(S) /\ Len(p) = m /\ p[m] = t /\ \A k \in 1..n : path[k] = p[k]
  BY <1>1, <1>2, <1>3, AppendProperties, LenProperties
<1>5. m \in Nat /\ n <= m /\ m \in 1..m /\ m - 1 = n  BY <1>3, <1>4
<1>6. PICK f : Collects(path, f, n)  BY <1>4, CollectExists
<1>7. PICK g : Collects(p, g, m)  BY <1>5, CollectExists
<1>8. X!Containing(path) = f[n] /\ X!Containing(p) = g[m]  BY <1>1, <1>4, <1>6, <1>7, ContainingIs
<1>9. f[n] = g[n]
  <2>1. SameTo(path, p, n)  BY <1>4 DEF SameTo
  <2> QED  BY <1>4, <1>5, <1>6, <1>7, <2>1, CollectSame
<1>10. g[m] = IF p[m] \in X!Containers THEN Append(g[m - 1], p[m]) ELSE g[m - 1]
  BY <1>5, <1>7, CollectsIs
<1> QED  BY <1>2, <1>4, <1>5, <1>8, <1>9, <1>10

LEMMA ContainingNone ==
    ASSUME NEW S, NEW path \in Seq(S), \A k \in 1..Len(path) : path[k] = "plist"
    PROVE  X!Containing(path) = <<>>
<1>1. PICK n : n = Len(path)  OBVIOUS
<1>2. n \in Nat  BY <1>1, LenProperties
<1>3. PICK f : Collects(path, f, n)  BY <1>2, CollectExists
<1>4. f[0] = <<>> /\ \A k \in 1..n : f[k] = IF path[k] \in X!Containers THEN Append(f[k - 1], path[k])
                                            ELSE f[k - 1]
  BY <1>2, <1>3, CollectsIs
<1>5. \A k \in 1..n : path[k] \notin X!Containers  BY <1>1 DEF X!Containers
<1> DEFINE T == {k \in Nat : k <= n /\ f[k] # <<>>}
<1>6. ASSUME T # {} PROVE FALSE
  <2>1. T \in SUBSET Nat  OBVIOUS
  <2>2. PICK k \in T : \A j \in T : k <= j  BY <1>6, <2>1, LeastCounterexample
  <2>3. k \in Nat /\ k <= n /\ f[k] # <<>>  BY <2>2
  <2>4. k \in 1..n /\ k - 1 \in Nat /\ k - 1 <= n /\ ~(k <= k - 1)  BY <1>2, <1>4, <2>3
  <2>5. f[k - 1] = <<>>  BY <2>2, <2>4
  <2> QED  BY <1>4, <1>5, <2>3, <2>4, <2>5
<1>7. f[n] = <<>>  BY <1>2, <1>6
<1> QED  BY <1>1, <1>3, <1>7, ContainingIs

LEMMA ContainingSeq ==
    ASSUME NEW S, NEW path \in Seq(S)
    PROVE  X!Containing(path) \in Seq(S)
<1>1. PICK n : n = Len(path)  OBVIOUS
<1>2. n \in Nat /\ \A k \in 1..n : path[k] \in S  BY <1>1, LenProperties, ElementOfSeq
<1>3. PICK f : Collects(path, f, n)  BY <1>2, CollectExists
<1>4. f[0] = <<>> /\ \A k \in 1..n : f[k] = IF path[k] \in X!Containers THEN Append(f[k - 1], path[k])
                                            ELSE f[k - 1]
  BY <1>2, <1>3, CollectsIs
<1> DEFINE T == {k \in Nat : k <= n /\ f[k] \notin Seq(S)}
<1>5. ASSUME T # {} PROVE FALSE
  <2>1. T \in SUBSET Nat  OBVIOUS
  <2>2. PICK k \in T : \A j \in T : k <= j  BY <1>5, <2>1, LeastCounterexample
  <2>3. k \in Nat /\ k <= n /\ f[k] \notin Seq(S)  BY <2>2
  <2>4. k # 0  BY <1>4, <2>3, EmptySeq
  <2>5. k \in 1..n /\ k - 1 \in Nat /\ k - 1 <= n /\ ~(k <= k - 1)  BY <1>2, <2>3, <2>4
  <2>6. f[k - 1] \in Seq(S)  BY <2>2, <2>5
  <2>7. Append(f[k - 1], path[k]) \in Seq(S)  BY <1>2, <2>5, <2>6, AppendProperties
  <2> QED  BY <1>4, <2>3, <2>5, <2>6, <2>7
<1>6. f[n] \in Seq(S)  BY <1>2, <1>5
<1> QED  BY <1>1, <1>3, <1>6, ContainingIs

\* A path that ends with a container.
LEMMA ContainingFront ==
    ASSUME NEW S, NEW path \in Seq(S), path # <<>>
    PROVE  /\ Front(path) \in Seq(S) /\ Len(path) \in 1..Len(path)
           /\ X!Containing(path) = IF path[Len(path)] \in X!Containers
                                     THEN Append(X!Containing(Front(path)), path[Len(path)])
                                     ELSE X!Containing(Front(path))
<1>1. PICK s \in Seq(S), t \in S : path = Append(s, t)  BY SequenceEmptyOrAppend
<1>2. PICK n : n = Len(s)  OBVIOUS
<1>3. n \in Nat /\ Len(path) = n + 1 /\ path[n + 1] = t /\ \A k \in 1..n : path[k] = s[k]
  BY <1>1, <1>2, AppendProperties, LenProperties
<1>4. PICK p : p = Front(path)  OBVIOUS
<1>5. /\ 1 \in Int /\ n \in Int /\ Len(path) - 1 = n /\ \A k \in 1..n : path[k] \in S /\ 1 + k - 1 = k
      /\ (1 <= n => n - 1 + 1 = n) /\ (~(1 <= n) => n = 0)
  BY <1>2, <1>3, ElementOfSeq
<1>6. p = SubSeq(path, 1, n)  BY <1>4, <1>5 DEF Front
<1>7. p \in Seq(S) /\ Len(p) = n /\ \A k \in 1..n : p[k] = s[k]
  <2>1. /\ SubSeq(path, 1, n) \in Seq(S)
        /\ Len(SubSeq(path, 1, n)) = IF 1 <= n THEN n - 1 + 1 ELSE 0
        /\ \A i \in 1..(n - 1 + 1) : SubSeq(path, 1, n)[i] = path[1 + i - 1]
    BY <1>5, SubSeqProperties
  <2>2. n - 1 + 1 = n  BY <1>3
  <2> QED  BY <1>3, <1>5, <1>6, <2>1, <2>2
<1>8. p = s  BY <1>2, <1>7, SeqEqual
<1> QED  BY <1>1, <1>3, <1>4, <1>7, <1>8, ContainingAppend

TypesOf(h) == {h[k].type : k \in 1..Len(h)}

LEMMA DownwardNone ==
    ASSUME NEW h
    PROVE  X!Downward(h, NULL) = <<>>
<1>1. X!Upward(h, NULL) = <<>>  BY DEF X!Upward
<1>2. DOMAIN <<>> = {}  OBVIOUS
<1> QED  BY <1>1, <1>2 DEF X!Downward

LEMMA DownwardElements ==
    ASSUME NEW h, IsHeap(h), NEW m \in 1..Len(h)
    PROVE  /\ Depth(h, m) \in Nat \ {0}
           /\ X!Downward(h, m) \in Seq(TypesOf(h)) /\ Len(X!Downward(h, m)) = Depth(h, m)
           /\ \A i \in 1..Depth(h, m) :
                 X!Downward(h, m)[i] = h[Upward(h, m)[(Depth(h, m) - i) + 1]].type
<1>n. PICK n : n = Depth(h, m)  OBVIOUS
<1>1. PICK u : u = Upward(h, m)  OBVIOUS
<1>2. u \in Seq(1..m) /\ m \in Nat /\ Len(h) \in Nat  BY <1>1, UpwardSeq, HeapNumbers
<1>3. n = Len(u) /\ n \in Nat \ {0} /\ DOMAIN u = 1..n  BY <1>1, <1>2, <1>n, DepthIs, LenProperties DEF Depth
<1>4. \A i \in 1..n : (n - i) + 1 \in 1..n  BY <1>3
<1>5. \A i \in 1..n : u[i] \in 1..Len(h)
  <2>1. \A i \in 1..n : u[i] \in 1..m  BY <1>2, <1>3, ElementOfSeq
  <2> QED  BY <1>2, <2>1
<1>6. PICK d : d = [i \in 1..n |-> h[u[(n - i) + 1]].type]  OBVIOUS
<1>7. X!Downward(h, m) = d
  <2>1. X!Upward(h, m) = u  BY <1>1 DEF X!Upward, Upward
  <2>2. X!Reverse(u) = [i \in 1..n |-> u[(n - i) + 1]]  BY <1>3 DEF X!Reverse
  <2>3. X!Downward(h, m) = [i \in 1..n |-> h[X!Reverse(u)[i]].type]  BY <1>3, <2>1 DEF X!Downward
  <2> QED  BY <1>6, <2>2, <2>3
<1>8. d \in [1..n -> TypesOf(h)]  BY <1>4, <1>5, <1>6 DEF TypesOf
<1>9. d \in Seq(TypesOf(h))  BY <1>3, <1>8, SeqDef
<1>10. DOMAIN d = 1..n /\ Len(d) \in Nat /\ DOMAIN d = 1..Len(d)  BY <1>8, <1>9, LenProperties
<1>11. Len(d) = n  BY <1>3, <1>10
<1> QED  BY <1>n, <1>1, <1>3, <1>6, <1>7, <1>9, <1>11

\* One node further down.
LEMMA DownwardIs ==
    ASSUME NEW h, IsHeap(h), NEW m \in 1..Len(h)
    PROVE  /\ X!Downward(h, m) \in Seq(TypesOf(h)) /\ Len(X!Downward(h, m)) = Depth(h, m)
           /\ h[m].type \in TypesOf(h)
           /\ X!Downward(h, h[m].up) \in Seq(TypesOf(h))
           /\ X!Downward(h, m) = Append(X!Downward(h, h[m].up), h[m].type)
<1>1. PICK n : n = Depth(h, m)  OBVIOUS
<1>2. PICK d : d = X!Downward(h, m)  OBVIOUS
<1>3. PICK u : u = Upward(h, m)  OBVIOUS
<1>4. /\ n \in Nat \ {0} /\ d \in Seq(TypesOf(h)) /\ Len(d) = n
      /\ \A i \in 1..n : d[i] = h[u[(n - i) + 1]].type
  BY <1>1, <1>2, <1>3, DownwardElements
<1>5. h[m].type \in TypesOf(h)  BY DEF TypesOf
<1>6. PICK t : t = h[m].type  OBVIOUS
<1>7. PICK p : p = h[m].up  OBVIOUS
<1>8. u = <<m>> \o (IF p = NULL THEN <<>> ELSE Upward(h, p))  BY <1>3, <1>7, UpwardIs
<1>9. <<m>> \in Seq(1..Len(h)) /\ Len(<<m>>) = 1 /\ <<m>>[1] = m  OBVIOUS
<1>10. CASE p = NULL
  <2>1. u = <<m>>  BY <1>8, <1>9, <1>10, ConcatEmptySeq
  <2>2. n = 1  BY <1>1, <1>7, <1>10, DepthIs
  <2>3. d[1] = t
    <3>1. 1 \in 1..n /\ (n - 1) + 1 = 1  BY <2>2
    <3> QED  BY <1>4, <1>6, <1>9, <2>1, <3>1
  <2>4. X!Downward(h, p) = <<>>  BY <1>10, DownwardNone
  <2>5. <<>> \in Seq(TypesOf(h)) /\ Len(<<>>) = 0  BY EmptySeq
  <2>6. PICK e : e = Append(<<>>, t)  OBVIOUS
  <2>7. e \in Seq(TypesOf(h)) /\ Len(e) = 1 /\ e[1] = t
    <3>1. /\ Append(<<>>, t) \in Seq(TypesOf(h)) /\ Len(Append(<<>>, t)) = Len(<<>>) + 1
          /\ Append(<<>>, t)[Len(<<>>) + 1] = t
      BY <1>5, <1>6, <2>5, AppendProperties
    <3> QED  BY <2>5, <2>6, <3>1
  <2>8. \A i \in 1..Len(d) : d[i] = e[i]  BY <1>4, <2>2, <2>3, <2>7
  <2>9. d = e  BY <1>4, <2>2, <2>7, <2>8, SeqEqual
  <2> QED  BY <1>1, <1>2, <1>4, <1>5, <1>6, <1>7, <2>4, <2>5, <2>6, <2>9
<1>11. CASE p # NULL
  <2>1. p \in 1..Len(h) /\ p \in Nat  BY <1>7, <1>11, UpIs
  <2>2. PICK v : v = Upward(h, p)  OBVIOUS
  <2>3. PICK k : k = Depth(h, p)  OBVIOUS
  <2>4. PICK c : c = X!Downward(h, p)  OBVIOUS
  <2>5. /\ k \in Nat \ {0} /\ c \in Seq(TypesOf(h)) /\ Len(c) = k
        /\ \A i \in 1..k : c[i] = h[v[(k - i) + 1]].type
    <3>1. /\ Depth(h, p) \in Nat \ {0}
          /\ X!Downward(h, p) \in Seq(TypesOf(h)) /\ Len(X!Downward(h, p)) = Depth(h, p)
          /\ \A i \in 1..Depth(h, p) :
                X!Downward(h, p)[i] = h[Upward(h, p)[(Depth(h, p) - i) + 1]].type
      BY <2>1, DownwardElements
    <3> QED  BY <2>2, <2>3, <2>4, <3>1
  <2>6. n = k + 1  BY <1>1, <1>7, <1>11, <2>3, DepthIs
  <2>7. v \in Seq(1..Len(h)) /\ Len(v) = k
    <3>1. v \in Seq(1..p)  BY <2>1, <2>2, UpwardSeq
    <3>2. 1..p \subseteq 1..Len(h)  BY <2>1, HeapNumbers
    <3> QED  BY <2>2, <2>3, <3>1, <3>2, SeqMonotonic DEF Depth
  <2>8. u[1] = m /\ \A j \in 1..k : u[j + 1] = v[j]
    <3>1. u = <<m>> \o v  BY <1>8, <1>11, <2>2
    <3>2. \A i \in 1..(1 + k) : u[i] = IF i <= 1 THEN <<m>>[i] ELSE v[i - 1]
      BY <1>9, <2>7, <3>1, ConcatProperties
    <3>3. 1 \in 1..(1 + k) /\ 1 <= 1  BY <2>5
    <3>4. \A j \in 1..k : j + 1 \in 1..(1 + k) /\ ~(j + 1 <= 1) /\ j + 1 - 1 = j  BY <2>5
    <3> QED  BY <1>9, <3>2, <3>3, <3>4
  <2>9. PICK e : e = Append(c, t)  OBVIOUS
  <2>10. e \in Seq(TypesOf(h)) /\ Len(e) = n /\ e[n] = t /\ \A i \in 1..k : e[i] = c[i]
    BY <1>5, <1>6, <2>5, <2>6, <2>9, AppendProperties
  <2>11. d[n] = t
    <3>1. n \in 1..n /\ (n - n) + 1 = 1  BY <1>4
    <3> QED  BY <1>4, <1>6, <2>8, <3>1
  <2>12. ASSUME NEW i \in 1..k PROVE d[i] = c[i]
    <3>1. i \in 1..n /\ (n - i) + 1 = ((k - i) + 1) + 1 /\ (k - i) + 1 \in 1..k  BY <2>5, <2>6
    <3>2. d[i] = h[u[((k - i) + 1) + 1]].type  BY <1>4, <3>1
    <3>3. u[((k - i) + 1) + 1] = v[(k - i) + 1]  BY <2>8, <3>1
    <3> QED  BY <2>5, <3>2, <3>3
  <2>13. \A i \in 1..Len(d) : d[i] = e[i]
    <3>1. \A i \in 1..n : i = n \/ i \in 1..k  BY <2>5, <2>6
    <3> QED  BY <1>4, <2>10, <2>11, <2>12, <3>1
  <2>14. d = e  BY <1>4, <2>10, <2>13, SeqEqual
  <2> QED  BY <1>1, <1>2, <1>4, <1>5, <1>6, <1>7, <2>4, <2>5, <2>9, <2>14
<1> QED  BY <1>10, <1>11

\* It depends on nothing but the nodes on the way.
LEMMA DownwardSame ==
    ASSUME NEW h, IsHeap(h), NEW g, IsHeap(g), NEW K, SameUps(h, g, K),
           \A k \in K : h[k].type = g[k].type, NEW m \in K
    PROVE  X!Downward(h, m) = X!Downward(g, m)
<1> DEFINE T == {k \in Nat : k \in K /\ X!Downward(h, k) # X!Downward(g, k)}
<1>1. K \subseteq 1..Len(h) /\ K \subseteq 1..Len(g) /\ K \subseteq Nat
  BY HeapNumbers DEF SameUps
<1> SUFFICES ASSUME T # {} PROVE FALSE  BY <1>1
<1>2. T \in SUBSET Nat  OBVIOUS
<1>3. PICK k \in T : \A j \in T : k <= j  BY <1>2, LeastCounterexample
<1>4. k \in Nat /\ k \in K /\ X!Downward(h, k) # X!Downward(g, k)  BY <1>3
<1>5. h[k].type = g[k].type /\ h[k].up = g[k].up /\ (h[k].up # NULL => h[k].up \in K)
  BY <1>4 DEF SameUps
<1>6. k \in 1..Len(h) /\ k \in 1..Len(g)  BY <1>1, <1>4
<1>7. X!Downward(h, k) = Append(X!Downward(h, h[k].up), h[k].type)  BY <1>6, DownwardIs
<1>8. X!Downward(g, k) = Append(X!Downward(g, g[k].up), g[k].type)  BY <1>6, DownwardIs
<1>9. X!Downward(h, h[k].up) = X!Downward(g, h[k].up)
  <2>1. CASE h[k].up = NULL
    <3>1. X!Downward(h, NULL) = <<>> /\ X!Downward(g, NULL) = <<>>  BY DownwardNone
    <3> QED  BY <2>1, <3>1
  <2>2. CASE h[k].up # NULL
    <3>1. PICK p : p = h[k].up  OBVIOUS
    <3>2. p \in Nat /\ p < k /\ p \in K  BY <1>5, <1>6, <2>2, <3>1, UpIs
    <3>3. ~(k <= p)  BY <1>4, <3>2
    <3>4. p \notin T  BY <1>3, <3>3
    <3> QED  BY <3>1, <3>2, <3>4
  <2> QED  BY <2>1, <2>2
<1> QED  BY <1>4, <1>5, <1>7, <1>8, <1>9

-----------------------------------------------------------------------------
(***************************************************************************)
(* XML: node_path and parent describe the same nesting                     *)
(***************************************************************************)
\* The containers among the open tags are those from the root down to parent, unless
\* parent is a root that is not open.
XmlPath ==
    /\ node_path \in Seq({"plist", "dict", "array"})
    /\ (parent # NULL /\ depth = 0) \/ X!Downward(heap, parent) = X!Containing(node_path)

LEMMA PathOutside ==
    ASSUME NEW d, NEW n, NEW path, Outside(d, n, path)
    PROVE  path \in Seq({"plist", "dict", "array"}) /\ X!Containing(path) = <<>>
<1>1. PICK st : Opened(d, n, st, path)  BY DEF Outside
<1>2. path \in Seq({"plist", "dict", "array"})  BY <1>1 DEF Opened
<1>3. \A k \in 1..Len(path) : path[k] = "plist"  BY DEF Outside
<1> QED  BY <1>2, <1>3, ContainingNone

\* The tag that is last is matched by its own closing tag only.
LEMMA PathMatched ==
    ASSUME XmlPath, NEW name, X!matches(name)
    PROVE  /\ node_path # <<>> /\ Front(node_path) \in Seq({"plist", "dict", "array"})
           /\ name = "/plist" => X!Containing(node_path) = X!Containing(Front(node_path))
           /\ name # "/plist" =>
                 \E type \in {"plist", "dict", "array"} :
                    X!Containing(node_path) = Append(X!Containing(Front(node_path)), type)
<1>1. node_path # <<>> /\ X!Closing[node_path[Len(node_path)]] = name  BY DEF X!matches, X!Last
<1>2. PICK last : last = node_path[Len(node_path)]  OBVIOUS
<1>3. /\ Front(node_path) \in Seq({"plist", "dict", "array"}) /\ Len(node_path) \in 1..Len(node_path)
      /\ X!Containing(node_path) = IF last \in X!Containers
                                     THEN Append(X!Containing(Front(node_path)), last)
                                     ELSE X!Containing(Front(node_path))
  BY <1>1, <1>2, ContainingFront DEF XmlPath
<1>4. last \in {"plist", "dict", "array"}  BY <1>2, <1>3, ElementOfSeq DEF XmlPath
<1>5. name = "/plist" <=> last = "plist"  BY <1>1, <1>2, <1>4 DEF X!Closing
<1>6. last \in X!Containers <=> last # "plist"  BY <1>4 DEF X!Containers
<1> QED  BY <1>1, <1>3, <1>4, <1>5, <1>6

LEMMA PathPlist ==
    ASSUME XmlReading, XmlPath, X!OpenPlist \/ X!ClosePlist \/ X!Key, pc' = "read"
    PROVE  XmlPath'
<1>1. UNCHANGED <<heap, parent, depth>>
  BY DEF X!OpenPlist, X!ClosePlist, X!Key, X!GiveUp
<1>2. CASE X!Key
  <2>1. UNCHANGED node_path  BY <1>2 DEF X!Key
  <2> QED  BY <1>1, <2>1 DEF XmlPath
<1>3. CASE X!OpenPlist
  <2>1. node_path' = Append(node_path, "plist")  BY <1>3 DEF X!OpenPlist, X!GiveUp
  <2>2. X!Containing(node_path') = X!Containing(node_path)
    <3>1. "plist" \in {"plist", "dict", "array"} /\ "plist" \notin X!Containers  BY DEF X!Containers
    <3> QED  BY <2>1, <3>1, ContainingAppend DEF XmlPath
  <2>3. node_path' \in Seq({"plist", "dict", "array"})  BY <2>1, AppendProperties DEF XmlPath
  <2> QED  BY <1>1, <2>2, <2>3 DEF XmlPath
<1>4. CASE X!ClosePlist
  <2>1. X!matches("/plist") /\ node_path' = Front(node_path)
    BY <1>4 DEF X!ClosePlist, X!GiveUp, X!Front, Front
  <2>2. /\ node_path' \in Seq({"plist", "dict", "array"})
        /\ X!Containing(node_path') = X!Containing(node_path)
    BY <2>1, PathMatched
  <2> QED  BY <1>1, <2>2 DEF XmlPath
<1> QED  BY <1>2, <1>3, <1>4

\* The node n of tag t is an item of the innermost container that is open, and so is
\* what is read next into outer.
OnPath(h, outer, n, t) ==
    /\ IsHeap(h) /\ n \in 1..Len(h)
    /\ node_path \in Seq({"plist", "dict", "array"})
    /\ (outer # NULL /\ depth = 0) \/ X!Downward(h, outer) = X!Containing(node_path)
    /\ X!Downward(h, h[n].up) = X!Containing(node_path)
    /\ t.type \in X!Containers => h[n].type = t.type

\* If t opens a container, what is read next goes into n.
LEMMA PathPlaced ==
    ASSUME XmlReading, X!Reading(X!Values), NEW t, t = doc[pos + 1],
           NEW h, NEW root, NEW outer, NEW n, n = X!subnode, OnPath(h, outer, n, t),
           X!Placed(h, root, outer) \/ X!PlacedNoPath(h, root), pc' = "read"
    PROVE  XmlPath'
<1>1. X!tag = t  BY XmlTakesTag
<1>2. X!Placed(h, root, outer)  BY DEF X!PlacedNoPath, X!GiveUp
<1>3. CASE heap' = h /\ parent' = outer /\ UNCHANGED <<node_path, depth>>
  BY <1>3 DEF XmlPath, OnPath
<1>4. CASE /\ t.type \in X!Containers /\ heap' = h /\ parent' = n
           /\ node_path' = Append(node_path, t.type)
  <2>1. t.type \in {"plist", "dict", "array"}  BY <1>4 DEF X!Containers
  <2>2. X!Containing(node_path') = Append(X!Containing(node_path), t.type)
    BY <1>4, <2>1, ContainingAppend DEF OnPath
  <2>3. X!Downward(h, n) = Append(X!Downward(h, h[n].up), h[n].type)  BY DownwardIs DEF OnPath
  <2>4. X!Downward(heap', parent') = X!Containing(node_path')  BY <1>4, <2>2, <2>3 DEF OnPath
  <2>5. node_path' \in Seq({"plist", "dict", "array"})  BY <1>4, <2>1, AppendProperties DEF OnPath
  <2> QED  BY <2>4, <2>5 DEF XmlPath
<1> QED  BY <1>1, <1>2, <1>3, <1>4 DEF X!Placed, X!GiveUp

LEMMA PathRootValue ==
    ASSUME XmlReading, XmlPath, X!RootValue, pc' = "read"
    PROVE  XmlPath'
<1>1. PICK t : t = doc[pos + 1]  OBVIOUS
<1>2. X!Reading(X!Values) /\ plist = NULL  BY DEF X!RootValue, X!ReadingValue
<1>3. X!tag = t  BY <1>1, <1>2, XmlTakesTag
<1>4. PICK h : h = X!Allocated(X!tag)  OBVIOUS
<1>5. /\ Grown(heap, h, X!node_type(t)) /\ (t.type \in X!Containers => X!node_type(t) = t.type)
  BY <1>1, <1>2, <1>4, XmlAllocates
<1>6. PICK n : n = X!subnode  OBVIOUS
<1>7. PICK outer : outer = IF t.type \in X!Containers THEN n ELSE NULL  OBVIOUS
<1>8. X!Placed(h, n, outer) \/ X!PlacedNoPath(h, n)
  BY <1>3, <1>4, <1>6, <1>7 DEF X!RootValue
<1>9. Unrooted  BY <1>2 DEF XmlReading, Complete, Filling, Hollow
<1>10. depth = 0 /\ node_path \in Seq({"plist", "dict", "array"}) /\ X!Containing(node_path) = <<>>
  BY <1>9, PathOutside DEF Unrooted
<1>11. n = Len(heap) + 1  BY <1>6 DEF X!subnode
<1>12. IsHeap(h) /\ n \in 1..Len(h) /\ h[n].up = NULL /\ h[n].type = X!node_type(t)
  <2>1. IsHeap(h) /\ n \in Live(h) /\ h[n].up = NULL /\ h[n].type = X!node_type(t)
    BY <1>5, <1>11 DEF Grown
  <2> QED  BY <2>1, HeapNumbers
<1>13. X!Downward(h, h[n].up) = X!Containing(node_path)  BY <1>10, <1>12, DownwardNone
<1>14. (outer # NULL /\ depth = 0) \/ X!Downward(h, outer) = X!Containing(node_path)
  BY <1>10, DownwardNone
<1>15. t.type \in X!Containers => h[n].type = t.type  BY <1>5, <1>12
<1>16. OnPath(h, outer, n, t)  BY <1>10, <1>12, <1>13, <1>14, <1>15 DEF OnPath
<1> QED  BY <1>1, <1>2, <1>6, <1>8, <1>16, PathPlaced

\* A heap that has the same nodes above m.
LEMMA DownwardKept ==
    ASSUME NEW h, IsHeap(h), NEW g, IsHeap(g), Len(h) <= Len(g), NEW x \in Nat, NEW n,
           \A k \in Live(g) : k < x => k \in 1..Len(h),
           \A k \in Live(g) : k < x => g[k].up = h[k].up /\ g[k].type = h[k].type,
           n = NULL \/ (n \in Live(g) /\ n < x)
    PROVE  X!Downward(g, n) = X!Downward(h, n)
<1>1. CASE n = NULL  BY <1>1, DownwardNone
<1>2. CASE n # NULL
  <2> DEFINE K == {k \in Live(g) : k < x}
  <2>1. K \subseteq 1..Len(g) /\ K \subseteq 1..Len(h) /\ K \subseteq Nat  BY HeapNumbers
  <2>2. \A k \in K : g[k].up = h[k].up /\ g[k].type = h[k].type  OBVIOUS
  <2>3. ASSUME NEW k \in K, g[k].up # NULL PROVE g[k].up \in K
    <3>1. g[k].up \in Live(g) /\ g[k].up \in Nat /\ g[k].up < k  BY <2>1, <2>3, UpIs
    <3>2. k \in Nat /\ k < x  BY <2>1
    <3> QED  BY <3>1, <3>2
  <2>4. n \in K  BY <1>2
  <2> HIDE DEF K
  <2>5. SameUps(g, h, K)  BY <2>1, <2>2, <2>3 DEF SameUps
  <2> QED  BY <2>2, <2>4, <2>5, DownwardSame
<1> QED  BY <1>1, <1>2

LEMMA PathChildValue ==
    ASSUME XmlReading, XmlPath, X!NoneRefused, X!NoneRefused', X!ChildValue, pc' = "read"
    PROVE  XmlPath'
<1>1. PICK t : t = doc[pos + 1]  OBVIOUS
<1>2. PICK h : h = X!Allocated(X!tag)  OBVIOUS
<1>3. PICK n : n = X!subnode  OBVIOUS
<1>4. PICK g : g = X!placed(h, n)  OBVIOUS
<1>5. /\ X!Reading(X!Values) /\ IsHeap(heap) /\ Filling
      /\ n = Len(heap) + 1 /\ parent \in 1..Len(heap) /\ parent # NULL /\ parent < n
      /\ Grown(heap, h, X!node_type(t)) /\ Took(h, g, parent, n)
      /\ X!Placed(g, plist, parent) \/ X!PlacedNoPath(g, plist) \/ X!Fails("attach")
  BY <1>1, <1>2, <1>3, <1>4, XmlChildTakes
<1>6. X!Placed(g, plist, parent) \/ X!PlacedNoPath(g, plist)
  BY <1>5 DEF X!Fails, X!NoneRefused
<1>7. t.type \in X!Containers => X!node_type(t) = t.type  BY <1>1, <1>2, <1>5, XmlAllocates
<1>8. depth # 0
  <2>1. Depth(heap, parent) \in Nat \ {0}  BY <1>5, DepthIs
  <2> QED  BY <1>5, <2>1 DEF Filling
<1>9. /\ IsHeap(g) /\ Len(g) = Len(h) /\ Len(h) = Len(heap) + 1 /\ Len(heap) \in Nat
      /\ Live(h) = Live(heap) \cup {n} /\ Live(g) \subseteq Live(h)
      /\ \A k \in 1..Len(heap) : h[k] = heap[k]
      /\ h[n].type = X!node_type(t)
      /\ g[n].up = parent /\ parent \in Live(g) /\ n \in Live(g)
      /\ \A m \in Live(g) : g[m].type = h[m].type /\ (m # n => g[m].up = h[m].up)
  BY <1>5, HeapNumbers DEF Grown, Took
<1>10. n \in Nat /\ n \in 1..Len(g)  BY <1>5, <1>9
<1>11. X!Downward(g, parent) = X!Downward(heap, parent)
  <2>1. \A k \in Live(g) : k < n => k \in 1..Len(heap) /\ k # n
    <3>1. \A k \in Live(g) : k \in 1..Len(g) /\ k \in Nat  BY <1>9, HeapNumbers
    <3>2. Len(g) = n /\ n = Len(heap) + 1 /\ Len(heap) \in Nat  BY <1>5, <1>9
    <3>3. \A k \in 1..n : k < n => k \in 1..Len(heap) /\ k # n  BY ONLY <3>2
    <3> QED  BY <3>1, <3>2, <3>3
  <2>2. \A k \in Live(g) : k < n => g[k].up = heap[k].up /\ g[k].type = heap[k].type
    BY <1>9, <2>1
  <2>3. Len(heap) <= Len(g)  BY <1>9
  <2> QED  BY <1>5, <1>9, <1>10, <2>1, <2>2, <2>3, DownwardKept
<1>12. X!Downward(g, parent) = X!Containing(node_path) /\ node_path \in Seq({"plist", "dict", "array"})
  BY <1>8, <1>11 DEF XmlPath
<1>13. X!Downward(g, g[n].up) = X!Containing(node_path)  BY <1>9, <1>12
<1>14. t.type \in X!Containers => g[n].type = t.type  BY <1>7, <1>9
<1>15. OnPath(g, parent, n, t)  BY <1>9, <1>10, <1>12, <1>13, <1>14 DEF OnPath
<1> QED  BY <1>1, <1>3, <1>5, <1>6, <1>15, PathPlaced

LEMMA PathCloses ==
    ASSUME XmlReading, XmlPath, X!CloseContainer, pc' = "read"
    PROVE  XmlPath'
<1>1. PICK t : t = doc[pos + 1]  OBVIOUS
<1>2. X!Reading({"/dict", "/array", "/other"})  BY DEF X!CloseContainer
<1>3. X!tag = t /\ t.type \in {"/dict", "/array", "/other"}  BY <1>1, <1>2, XmlTakesTag
<1>4. /\ X!matches(t.type)
      /\ heap' = IF X!closed_values = {} THEN heap
                 ELSE X!with_uid(heap, parent, CHOOSE k \in X!closed_values : TRUE)
      /\ node_path' = Front(node_path)
      /\ parent' = X!container_of(heap, parent)
  BY <1>3 DEF X!CloseContainer, X!GiveUp, X!Front, Front
<1>5. PICK path : path = Front(node_path)  OBVIOUS
<1>6. PICK type \in {"plist", "dict", "array"} :
         X!Containing(node_path) = Append(X!Containing(path), type)
  BY <1>3, <1>4, <1>5, PathMatched
<1>7. /\ path \in Seq({"plist", "dict", "array"})
      /\ X!Containing(path) \in Seq({"plist", "dict", "array"})
  BY <1>4, <1>5, PathMatched, ContainingSeq
<1>8. X!Containing(node_path) # <<>>  BY <1>6, <1>7, AppendProperties
<1>9. OneTree(heap, plist) /\ IsHeap(heap)  BY DEF XmlReading, OneTree
<1>10. Filling
  <2>1. ~Unrooted /\ ~Hollow  BY <1>8, PathOutside DEF Unrooted, Hollow
  <2>2. ~Complete
    <3> SUFFICES ASSUME Complete PROVE FALSE  OBVIOUS
    <3>1. X!Downward(heap, NULL) = X!Containing(node_path)  BY DEF Complete, XmlPath
    <3> QED  BY <1>8, <3>1, DownwardNone
  <2> QED  BY <2>1, <2>2 DEF XmlReading
<1>11. parent \in Live(heap) /\ parent \in 1..Len(heap) /\ parent \in Nat /\ parent # NULL /\ depth # 0
  <2>1. parent \in 1..Len(heap) /\ parent \in Nat /\ parent # NULL  BY <1>9, <1>10, HeapNumbers DEF Filling
  <2>2. Depth(heap, parent) \in Nat \ {0}  BY <1>9, <2>1, DepthIs
  <2> QED  BY <1>10, <2>1, <2>2 DEF Filling
<1>12. PICK up : up = heap[parent].up  OBVIOUS
<1>13. X!Downward(heap, up) = X!Containing(path)
  <2>1. X!Downward(heap, parent) = X!Containing(node_path)  BY <1>11 DEF XmlPath
  <2>2. /\ X!Downward(heap, parent) = Append(X!Downward(heap, up), heap[parent].type)
        /\ X!Downward(heap, up) \in Seq(TypesOf(heap)) /\ heap[parent].type \in TypesOf(heap)
    BY <1>9, <1>11, <1>12, DownwardIs
  <2>3. PICK S : S = TypesOf(heap) \cup {"plist", "dict", "array"}  OBVIOUS
  <2>4. /\ X!Downward(heap, up) \in Seq(S) /\ X!Containing(path) \in Seq(S)
        /\ heap[parent].type \in S /\ type \in S
    BY <1>7, <2>2, <2>3, SeqMonotonic
  <2>5. Append(X!Downward(heap, up), heap[parent].type) = Append(X!Containing(path), type)
    BY <1>6, <2>1, <2>2
  <2> QED  BY <2>4, <2>5, AppendInjective
<1>14. PICK g : g = heap'  OBVIOUS
<1>15. X!Downward(g, up) = X!Downward(heap, up)
  <2>1. CASE X!closed_values = {}  BY <1>4, <1>14, <2>1
  <2>2. CASE X!closed_values # {}
    <3>1. PICK k : k = CHOOSE k0 \in X!closed_values : TRUE  OBVIOUS
    <3>2. k \in X!closed_values  BY <2>2, <3>1
    <3>3. k \in X!uid_values(heap, parent)  BY <3>2 DEF X!closed_values
    <3>4. g = X!with_uid(heap, parent, k)  BY <1>4, <1>14, <2>2, <3>1
    <3>5. /\ IsHeap(g) /\ Len(g) = Len(heap)
          /\ \A m \in Live(g) : g[m].up = heap[m].up
          /\ \A m \in Live(g) : m # parent => g[m].type = heap[m].type
          /\ Live(g) = Live(heap) \ Below(heap, k)
          /\ parent \notin Below(heap, k)
      BY <1>9, <1>11, <3>3, <3>4, UidEmpties
    <3>6. parent \in Live(g) /\ parent \in 1..Len(g) /\ g[parent].up = up  BY <1>11, <1>12, <3>5
    <3>7. up = NULL \/ (up \in Live(g) /\ up < parent)  BY <3>5, <3>6, UpIs
    <3>8. \A m \in Live(g) : m < parent => m \in 1..Len(heap) /\ m # parent
      <4>1. \A m \in Live(g) : m \in 1..Len(g) /\ m \in Nat  BY <3>5, HeapNumbers
      <4> QED  BY <1>11, <3>5, <4>1
    <3>9. \A m \in Live(g) : m < parent => g[m].up = heap[m].up /\ g[m].type = heap[m].type
      BY <3>5, <3>8
    <3>10. Len(heap) <= Len(g)  BY <1>9, <3>5, HeapNumbers
    <3> QED  BY <1>9, <1>11, <3>5, <3>7, <3>8, <3>9, <3>10, DownwardKept
  <2> QED  BY <2>1, <2>2
<1>16. parent' = up  BY <1>4, <1>11, <1>12 DEF X!container_of
<1> QED  BY <1>4, <1>5, <1>7, <1>13, <1>14, <1>15, <1>16 DEF XmlPath

NestingInv == format = "xml" => XmlBounds /\ (pc = "read" /\ X!NoneRefused => XmlPath)

LEMMA NestingStarts ==
    ASSUME Init
    PROVE  NestingInv
<1> SUFFICES ASSUME format = "xml" PROVE XmlBounds /\ XmlPath  BY DEF NestingInv
<1>1. heap = <<>> /\ parent = NULL /\ node_path = <<>> /\ depth = 0  BY DEF Init, X!Init
<1>2. <<>> \in Seq({"plist", "dict", "array"}) /\ Len(<<>>) = 0 /\ 1..0 = {}  OBVIOUS
<1>3. Shallow(<<>>)  BY <1>2 DEF Shallow, Low
<1>4. 0 \in 0..MaxNesting  BY MemoryAssumption
<1>5. XmlBounds  BY <1>1, <1>3, <1>4 DEF XmlBounds
<1>6. X!Downward(heap, parent) = <<>>  BY <1>1, DownwardNone
<1>7. X!Containing(node_path) = <<>>  BY <1>1, <1>2, ContainingNone
<1> QED  BY <1>1, <1>2, <1>5, <1>6, <1>7 DEF XmlPath

LEMMA NestingSteps ==
    ASSUME MemoryInv, NestingInv, Next
    PROVE  NestingInv'
<1> SUFFICES ASSUME format' = "xml" PROVE XmlBounds' /\ (pc' = "read" /\ X!NoneRefused' => XmlPath')
  BY DEF NestingInv
<1>1. format = "xml" /\ X!Next  BY DEF Next, ReadXml, ReadJson, ReadOpenStep
<1>2. XmlBounds'  BY <1>1, BoundsKept DEF NestingInv
<1>3. ASSUME pc' = "read", X!NoneRefused' PROVE XmlPath'
  <2>1. X!NoneRefused  BY <1>1, <1>3, RefusedForGood
  <2>2. pc = "read"
    BY <1>1
       DEF X!Next, X!Garbage, X!OpenPlist, X!ClosePlist, X!NoNode, X!Unreadable, X!Key, X!RootValue,
           X!MisplacedValue, X!ChildValue, X!CloseContainer, X!EndOfDocument, X!ReadingValue, X!Reading
  <2>3. XmlReading /\ XmlPath  BY <1>1, <2>1, <2>2 DEF MemoryInv, XmlInv, NestingInv
  <2>4. ~(X!Garbage \/ X!NoNode \/ X!Unreadable \/ X!MisplacedValue \/ X!EndOfDocument)
    BY <1>3 DEF X!Garbage, X!NoNode, X!Unreadable, X!MisplacedValue, X!EndOfDocument, X!GiveUp
  <2> QED  BY <1>1, <1>3, <2>1, <2>3, <2>4, PathPlist, PathRootValue, PathChildValue, PathCloses DEF X!Next
<1> QED  BY <1>2, <1>3

LEMMA NestingStutters ==
    ASSUME NestingInv, UNCHANGED vars
    PROVE  NestingInv'
<1>1. UNCHANGED <<format, doc, pc, heap, parent, node_path, depth, oom>>  BY DEF vars, xmlVars, jsonVars
<1> QED  BY <1>1 DEF NestingInv, XmlBounds, XmlPath, X!NoneRefused

LEMMA NestingAgrees ==
    ASSUME MemoryInv, NestingInv
    PROVE  PathAgrees
<1> SUFFICES ASSUME format = "xml" PROVE X!PathAgrees  BY DEF PathAgrees
<1>1. XmlBounds  BY DEF NestingInv
<1>2. \A n \in DOMAIN heap : X!Depth(heap, n) <= MaxNesting + 1
  <2>1. DOMAIN heap = 1..Len(heap)  BY <1>1, LowLen DEF XmlBounds, Shallow
  <2> QED  BY <1>1, <2>1, XmlCalls DEF XmlBounds, Shallow
<1>3. PICK opened : opened = X!Containing(node_path)  OBVIOUS
<1>4. PICK within : within = X!Downward(heap, parent)  OBVIOUS
<1>5. ASSUME pc = "read", X!NoneRefused
      PROVE  /\ depth = Len(opened)
             /\ within = opened \/ (plist # NULL /\ within = <<heap[plist].type>> \o opened)
  <2>1. XmlReading /\ XmlPath  BY <1>5 DEF MemoryInv, XmlInv, NestingInv
  <2>2. Len(<<>>) = 0  OBVIOUS
  <2>3. CASE Unrooted \/ Complete
    <3>1. parent = NULL /\ depth = 0  BY <2>3 DEF Unrooted, Complete
    <3>2. within = <<>> /\ within = opened  BY <1>3, <1>4, <2>1, <3>1, DownwardNone DEF XmlPath
    <3> QED  BY <2>2, <3>1, <3>2
  <2>4. CASE Filling
    <3>1. IsHeap(heap) /\ parent \in 1..Len(heap)
      BY <2>1, <2>4, HeapNumbers DEF XmlReading, OneTree, Filling
    <3>2. Len(within) = depth /\ Depth(heap, parent) \in Nat \ {0}
      BY <1>4, <2>4, <3>1, DownwardIs, DepthIs DEF Filling
    <3>3. depth # 0  BY <2>4, <3>2 DEF Filling
    <3>4. within = opened  BY <1>3, <1>4, <2>1, <3>3 DEF XmlPath
    <3> QED  BY <3>2, <3>4
  <2>5. CASE Hollow
    <3>1. plist # NULL /\ parent = plist /\ depth = 0 /\ opened = <<>>
      BY <1>3, <2>5, PathOutside DEF Hollow
    <3>2. IsHeap(heap) /\ plist \in 1..Len(heap) /\ heap[plist].up = NULL
      BY <2>1, <3>1, HeapNumbers DEF XmlReading, OneTree, Roots
    <3>3. PICK type : type = heap[plist].type  OBVIOUS
    <3>4. within = Append(X!Downward(heap, NULL), type)  BY <1>4, <3>1, <3>2, <3>3, DownwardIs
    <3>5. within = <<type>>
      <4>1. Append(<<>>, type) = <<type>>  OBVIOUS
      <4> QED  BY <3>4, <4>1, DownwardNone
    <3>6. <<type>> \o <<>> = <<type>>
      <4>1. <<type>> \in Seq({type})  OBVIOUS
      <4> QED  BY <4>1, ConcatEmptySeq
    <3> QED  BY <2>2, <3>1, <3>3, <3>5, <3>6
  <2> QED  BY <2>1, <2>3, <2>4, <2>5 DEF XmlReading
<1> QED  BY <1>1, <1>2, <1>3, <1>4, <1>5 DEF XmlBounds, X!PathAgrees

\* node_path, depth and parent of the reader of XML, which are set in different places,
\* describe the same nesting before every tag: for each open container there is a node
\* of its type from the root down to parent, also where a dict with a UID was replaced;
\* and neither depth nor a node passes the limit, also after a failed attachment.
THEOREM PathIsKept ==
    Spec => []PathAgrees
<1>1. Init => NestingInv  BY NestingStarts
<1>2. MemoryInv /\ NestingInv /\ [Next]_vars => NestingInv'  BY NestingSteps, NestingStutters
<1>3. MemoryInv /\ NestingInv => PathAgrees  BY NestingAgrees
<1> QED  BY <1>1, <1>2, <1>3, OwnersAreKnown, PTL DEF Spec
=============================================================================
