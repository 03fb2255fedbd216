---------------------------- MODULE PlistDictProofs ----------------------------
(***************************************************************************)
(* That a dict stays a list of pairs with distinct keys, and its hash      *)
(* table the table of those pairs, after any sequence of calls: for every  *)
(* finite set of nodes, every hash function and threshold, every depth     *)
(* limit, and whichever allocations fail. A state is sound when the trees  *)
(* are (Base), and each dict is fine: its children alternate keys and      *)
(* values, no name occurs twice, and its table holds its pairs. A call     *)
(* that cannot put a value back leaves a sound state but for that value    *)
(* (Lost). There is one lemma per call, and under it one per step of the   *)
(* call that can fail; copying and merging go through the invariants of    *)
(* their loops.                                                            *)
(***************************************************************************)
EXTENDS PlistDict, ForestLemmas, WellFoundedInduction

\* The states as records.
Table == [Bucket -> Seq(Entry)]
State == [type : [Node -> {"free", "dict", "key", "value"}], name : [Node -> Key \cup {NoName}],
          f : Forest, ht : [Node -> Table \cup {NULL}]]

-----------------------------------------------------------------------------
(***************************************************************************)
(* Hash tables                                                             *)
(***************************************************************************)
\* The table t holds the pairs P, each once and in the bucket of its key, when
\* the key nodes have the names nm.
Holds(nm, t, P) ==
    /\ t \in Table
    /\ \A b \in Bucket : \A i \in DOMAIN t[b] :
          nm[t[b][i].key] \in Key /\ HashOf[nm[t[b][i].key]] = b
    /\ \A b \in Bucket : \A i, j \in DOMAIN t[b] :
          nm[t[b][i].key] = nm[t[b][j].key] => i = j
    /\ Entries(t) = P

LEMMA EntriesAre ==
    ASSUME NEW t
    PROVE  \A e : e \in Entries(t) <=> \E b \in Bucket : \E i \in DOMAIN t[b] : t[b][i] = e
BY DEF Entries, ToSet

LEMMA MinOfOne == \A i \in Int : Min({i}) = i
BY DEF Min

\* The entry at i of k's bucket is the pair with key k, and the only one.
HitAt(st, t, P, k, i) ==
    /\ hits(st, t, k) = {i} /\ Min(hits(st, t, k)) = i
    /\ t[HashOf[k]][i] \in P \cap Entry
    /\ st.name[t[HashOf[k]][i].key] = k
    /\ \A e \in P : st.name[e.key] = k => e = t[HashOf[k]][i]

\* The entry with key k is the pair with key k.
LEMMA Hit ==
    ASSUME NEW st, NEW t, NEW P, Holds(st.name, t, P), NEW k \in Key
    PROVE  /\ HashOf[k] \in Bucket
           /\ t[HashOf[k]] \in Seq(Entry)
           /\ hits(st, t, k) = {} => \A e \in P : st.name[e.key] # k
           /\ hits(st, t, k) # {} => \E i \in 1..Len(t[HashOf[k]]) : HitAt(st, t, P, k, i)
<1> DEFINE b == HashOf[k]
           H == hits(st, t, k)
<1>1. b \in Bucket  BY DEF Bucket
<1>2. t[b] \in Seq(Entry)  BY <1>1 DEF Holds, Table
<1>3. DOMAIN t[b] = 1..Len(t[b]) /\ Len(t[b]) \in Nat /\ t[b] \in [1..Len(t[b]) -> Entry]
  BY <1>2, LenProperties
<1>4. H = {i \in DOMAIN t[b] : st.name[t[b][i].key] = k}  BY DEF hits
<1>5. \A e \in P : st.name[e.key] = k => \E i \in H : t[b][i] = e
  <2> SUFFICES ASSUME NEW e \in P, st.name[e.key] = k PROVE \E i \in H : t[b][i] = e
    OBVIOUS
  <2>1. PICK c \in Bucket : \E i \in DOMAIN t[c] : t[c][i] = e
    BY EntriesAre DEF Holds
  <2>2. PICK i \in DOMAIN t[c] : t[c][i] = e  BY <2>1
  <2>3. HashOf[st.name[t[c][i].key]] = c  BY DEF Holds
  <2>4. c = b  BY <2>2, <2>3
  <2> QED  BY <2>2, <2>4, <1>4
<1>6. \A i \in DOMAIN t[b] : t[b][i] \in P  BY <1>1, EntriesAre DEF Holds
<1>7. \A i, j \in H : i = j  BY <1>1, <1>4 DEF Holds
<1> HIDE DEF b, H
<1>8. ASSUME H # {}
      PROVE  \E i \in 1..Len(t[b]) : HitAt(st, t, P, k, i)
  <2>1. PICK i \in H : TRUE  BY <1>8
  <2>2. H = {i}  BY <1>7, <2>1
  <2>3. i \in 1..Len(t[b]) /\ i \in Int  BY <1>3, <1>4, <2>1
  <2>4. Min(H) = i  BY <2>2, <2>3, MinOfOne
  <2>5. /\ t[b][i] \in P \cap Entry /\ st.name[t[b][i].key] = k
        /\ \A e \in P : st.name[e.key] = k => e = t[b][i]
    BY <2>2, <2>3, <1>3, <1>4, <1>5, <1>6
  <2>6. HitAt(st, t, P, k, i)  BY <2>2, <2>4, <2>5 DEF HitAt, b, H
  <2> QED  BY <2>3, <2>6
<1>9. H = {} => \A e \in P : st.name[e.key] # k  BY <1>5
<1> QED  BY <1>1, <1>2, <1>8, <1>9 DEF b, H

\* hash_table_lookup finds the value of the pair with key k.
LEMMA LookupTable ==
    ASSUME NEW st, NEW t, NEW P, Holds(st.name, t, P), NEW k \in Key
    PROVE  /\ \A e \in P : st.name[e.key] = k => hash_table_lookup(st, t, k) = e.value
           /\ (\A e \in P : st.name[e.key] # k) => hash_table_lookup(st, t, k) = NULL
<1>1. CASE hits(st, t, k) = {}
  <2>1. \A e \in P : st.name[e.key] # k  BY <1>1, Hit
  <2> QED  BY <1>1, <2>1 DEF hash_table_lookup
<1>2. CASE hits(st, t, k) # {}
  <2>1. PICK i : /\ Min(hits(st, t, k)) = i /\ t[HashOf[k]][i] \in P
                 /\ st.name[t[HashOf[k]][i].key] = k
                 /\ \A e \in P : st.name[e.key] = k => e = t[HashOf[k]][i]
    BY <1>2, Hit DEF HitAt
  <2> QED  BY <1>2, <2>1 DEF hash_table_lookup
<1> QED  BY <1>1, <1>2

LEMMA EmptyHolds == \A nm : Holds(nm, EmptyTable, {})
<1>1. EmptyTable \in Table  BY EmptySeq DEF EmptyTable, Table
<1>2. \A b \in Bucket : EmptyTable[b] = <<>>  BY DEF EmptyTable
<1>3. DOMAIN <<>> = {}  OBVIOUS
<1>4. Entries(EmptyTable) = {}  BY <1>2, <1>3 DEF Entries, ToSet
<1> QED  BY <1>1, <1>2, <1>3, <1>4 DEF Holds

\* What a table holds depends on the names of its keys only.
LEMMA HoldsFrame ==
    ASSUME NEW nm, NEW nn, NEW t, NEW P, Holds(nm, t, P), \A e \in P : nn[e.key] = nm[e.key]
    PROVE  Holds(nn, t, P)
<1>1. \A b \in Bucket : \A i \in DOMAIN t[b] : t[b][i] \in P  BY EntriesAre DEF Holds
<1> QED  BY <1>1 DEF Holds

LEMMA HitIs ==
    ASSUME NEW st, NEW t, NEW P, Holds(st.name, t, P), NEW k \in Key, hits(st, t, k) # {}
    PROVE  \E i \in 1..Len(t[HashOf[k]]) : HitAt(st, t, P, k, i)
BY Hit


\* A pair with a new key enters the table.
LEMMA InsertNew ==
    ASSUME NEW st, NEW t, NEW P, Holds(st.name, t, P), NEW kn \in Node, NEW v \in Node,
           st.name[kn] \in Key, \A e \in P : st.name[e.key] # st.name[kn]
    PROVE  Holds(st.name, hash_table_insert(st, t, kn, v), P \cup {[key |-> kn, value |-> v]})
<1> DEFINE nm == st.name
           b == HashOf[nm[kn]]
           e == [key |-> kn, value |-> v]
           c == <<e>> \o t[b]
           u == hash_table_insert(st, t, kn, v)
<1>1. b \in Bucket /\ t[b] \in Seq(Entry) /\ hits(st, t, nm[kn]) = {}
  <2>1. PICK k \in Key : k = st.name[kn]  OBVIOUS
  <2>2. HashOf[k] \in Bucket /\ t[HashOf[k]] \in Seq(Entry)  BY Hit
  <2>3. hits(st, t, k) # {} => \E i \in 1..Len(t[HashOf[k]]) :
           t[HashOf[k]][i] \in P \cap Entry /\ st.name[t[HashOf[k]][i].key] = k
    BY Hit DEF HitAt
  <2> QED  BY <2>1, <2>2, <2>3
<1>2. u = [t EXCEPT ![b] = c]  BY <1>1 DEF hash_table_insert, set_entry
<1>3. t \in [Bucket -> Seq(Entry)]  BY DEF Holds, Table
<1>4. e \in Entry /\ e.key = kn  BY DEF Entry
<1>5. /\ c \in Seq(Entry) /\ DOMAIN c = 1..(Len(t[b]) + 1) /\ c[1] = e
      /\ DOMAIN t[b] = 1..Len(t[b]) /\ Len(t[b]) \in Nat
      /\ \A i \in DOMAIN c : i # 1 => i - 1 \in DOMAIN t[b] /\ c[i] = t[b][i - 1]
      /\ \A i \in DOMAIN t[b] : i + 1 \in DOMAIN c /\ c[i + 1] = t[b][i]
  <2> HIDE DEF e, b
  <2>1. <<e>> \in Seq(Entry) /\ Len(<<e>>) = 1 /\ <<e>>[1] = e  BY <1>4
  <2>2. t[b] \in Seq(Entry) /\ Len(t[b]) \in Nat /\ DOMAIN t[b] = 1..Len(t[b])
    BY <1>1, LenProperties
  <2>3. /\ c \in Seq(Entry) /\ Len(c) = Len(t[b]) + 1
        /\ \A i \in 1..(Len(t[b]) + 1) : c[i] = IF i <= 1 THEN <<e>>[i] ELSE t[b][i - 1]
    BY <2>1, <2>2, ConcatProperties
  <2>4. DOMAIN c = 1..(Len(t[b]) + 1)  BY <2>3, LenProperties
  <2> QED  BY <2>1, <2>2, <2>3, <2>4
<1>6. u[b] = c /\ \A d \in Bucket \ {b} : u[d] = t[d]  BY <1>1, <1>2, <1>3
<1>7. u \in Table  BY <1>2, <1>3, <1>5 DEF Table
<1>8. \A d \in Bucket : \A i \in DOMAIN t[d] : t[d][i] \in P
  BY EntriesAre DEF Holds
<1>9. /\ \A d \in Bucket : \A i \in DOMAIN t[d] : nm[t[d][i].key] \in Key /\ HashOf[nm[t[d][i].key]] = d
      /\ \A d \in Bucket : \A i, j \in DOMAIN t[d] : nm[t[d][i].key] = nm[t[d][j].key] => i = j
      /\ \A x : x \in P <=> \E d \in Bucket : \E i \in DOMAIN t[d] : t[d][i] = x
      /\ nm[kn] \in Key /\ \A x \in P : nm[x.key] # nm[kn]
  BY EntriesAre DEF Holds
<1> HIDE DEF u, c, e, nm, b
<1>10. \A d \in Bucket : \A i \in DOMAIN u[d] : nm[u[d][i].key] \in Key /\ HashOf[nm[u[d][i].key]] = d
  <2> SUFFICES ASSUME NEW d \in Bucket, NEW i \in DOMAIN u[d]
               PROVE  nm[u[d][i].key] \in Key /\ HashOf[nm[u[d][i].key]] = d
    OBVIOUS
  <2>1. CASE d # b  BY <2>1, <1>6, <1>9
  <2>2. CASE d = b /\ i = 1
    <3>1. u[d][i].key = kn  BY <2>2, <1>4, <1>5, <1>6
    <3> QED  BY <3>1, <2>2, <1>9 DEF b
  <2>3. CASE d = b /\ i # 1
    <3>1. i - 1 \in DOMAIN t[b] /\ u[d][i] = t[b][i - 1]  BY <2>3, <1>5, <1>6
    <3> QED  BY <3>1, <2>3, <1>1, <1>9
  <2> QED  BY <2>1, <2>2, <2>3
<1>11. \A d \in Bucket : \A i, j \in DOMAIN u[d] : nm[u[d][i].key] = nm[u[d][j].key] => i = j
  <2> SUFFICES ASSUME NEW d \in Bucket, NEW i \in DOMAIN u[d], NEW j \in DOMAIN u[d],
                      nm[u[d][i].key] = nm[u[d][j].key]
               PROVE  i = j
    OBVIOUS
  <2>1. CASE d # b  BY <2>1, <1>6, <1>9
  <2>2. CASE d = b
    <3>1. i \in 1..(Len(t[b]) + 1) /\ j \in 1..(Len(t[b]) + 1)  BY <2>2, <1>5, <1>6
    <3>2. \A m \in DOMAIN c : m # 1 => nm[c[m].key] # nm[kn]
      BY <1>1, <1>5, <1>8, <1>9
    <3>3. CASE i = 1 \/ j = 1  BY <3>2, <3>3, <2>2, <1>4, <1>5, <1>6
    <3>4. CASE i # 1 /\ j # 1
      <4>1. /\ i - 1 \in DOMAIN t[b] /\ u[d][i] = t[b][i - 1]
            /\ j - 1 \in DOMAIN t[b] /\ u[d][j] = t[b][j - 1]
        BY <3>4, <2>2, <1>5, <1>6
      <4>2. i - 1 = j - 1  BY <4>1, <1>1, <1>9
      <4> QED  BY <4>2, <3>1
    <3> QED  BY <3>3, <3>4
  <2> QED  BY <2>1, <2>2
<1>12. \A x : x \in Entries(u) <=> x \in P \cup {e}
  <2> TAKE x
  <2>1. x \in Entries(u) <=> \E d \in Bucket : \E i \in DOMAIN u[d] : u[d][i] = x
    BY EntriesAre
  <2>2. ASSUME NEW d \in Bucket, NEW i \in DOMAIN u[d], u[d][i] = x PROVE x \in P \cup {e}
    <3>1. CASE d # b  BY <3>1, <2>2, <1>6, <1>8
    <3>2. CASE d = b  BY <3>2, <2>2, <1>1, <1>5, <1>6, <1>8
    <3> QED  BY <3>1, <3>2
  <2>3. ASSUME x \in P PROVE \E d \in Bucket : \E i \in DOMAIN u[d] : u[d][i] = x
    <3>0. PICK d \in Bucket : \E i \in DOMAIN t[d] : t[d][i] = x  BY <2>3, <1>9
    <3>1. PICK i \in DOMAIN t[d] : t[d][i] = x  BY <3>0
    <3>2. CASE d # b  BY <3>1, <3>2, <1>6
    <3>3. CASE d = b  BY <3>1, <3>3, <1>5, <1>6
    <3> QED  BY <3>2, <3>3
  <2>4. ASSUME x = e PROVE \E d \in Bucket : \E i \in DOMAIN u[d] : u[d][i] = x
    <3>1. 1 \in DOMAIN c  BY <1>5
    <3> QED  BY <2>4, <3>1, <1>1, <1>5, <1>6
  <2> QED  BY <2>1, <2>2, <2>3, <2>4
<1>13. Entries(u) = P \cup {e}  BY <1>12
<1> QED  BY <1>7, <1>10, <1>11, <1>13 DEF Holds, u, e, nm

\* The pair with a key the table has gets another value.
LEMMA InsertHit ==
    ASSUME NEW st, NEW t, NEW P, Holds(st.name, t, P), NEW kn \in Node, NEW v \in Node,
           st.name[kn] \in Key, NEW e \in P, st.name[e.key] = st.name[kn]
    PROVE  Holds(st.name, hash_table_insert(st, t, kn, v),
                 (P \ {e}) \cup {[key |-> e.key, value |-> v]})
<1> DEFINE nm == st.name
           b == HashOf[nm[kn]]
           n == [key |-> e.key, value |-> v]
           u == hash_table_insert(st, t, kn, v)
<1>1. PICK i \in 1..Len(t[b]) :
         /\ b \in Bucket /\ t[b] \in Seq(Entry) /\ hits(st, t, nm[kn]) = {i}
         /\ Min(hits(st, t, nm[kn])) = i
         /\ t[b][i] \in P \cap Entry /\ e = t[b][i]
  <2>1. PICK k \in Key : k = st.name[kn]  OBVIOUS
  <2>4. HashOf[k] \in Bucket /\ t[HashOf[k]] \in Seq(Entry)  BY Hit
  <2>5. hits(st, t, k) = {} => \A x \in P : st.name[x.key] # k  BY Hit
  <2>2. hits(st, t, k) # {}  BY <2>1, <2>5
  <2>3. PICK i \in 1..Len(t[HashOf[k]]) : HitAt(st, t, P, k, i)
    BY ONLY <2>2, Holds(st.name, t, P), k \in Key, HitIs
  <2> QED  BY <2>1, <2>2, <2>3, <2>4 DEF HitAt
<1>2. u = [t EXCEPT ![b][i].value = v]  BY <1>1 DEF hash_table_insert, set_entry
<1>3. t \in [Bucket -> Seq(Entry)]  BY DEF Holds, Table
<1>4. e \in Entry /\ n \in Entry /\ n.key = e.key /\ [e EXCEPT !.value = v] = n
  BY ONLY <1>1, v \in Node DEF Entry
<1> DEFINE c == [t[b] EXCEPT ![i] = n]
<1>5. u = [t EXCEPT ![b] = c]  BY <1>1, <1>2, <1>3, <1>4
<1>6. /\ c \in Seq(Entry) /\ DOMAIN c = 1..Len(t[b]) /\ DOMAIN t[b] = 1..Len(t[b]) /\ c[i] = n
      /\ \A j \in 1..Len(t[b]) : j # i => c[j] = t[b][j]
  <2> HIDE DEF b, n
  <2>1. Len(t[b]) \in Nat /\ t[b] \in [1..Len(t[b]) -> Entry]  BY <1>1, LenProperties
  <2>2. c \in [1..Len(t[b]) -> Entry]  BY <2>1, <1>4
  <2>3. c \in Seq(Entry)  BY ONLY <2>1, <2>2 DEF Seq
  <2> QED  BY <2>1, <2>2, <2>3
<1>7. u[b] = c /\ \A d \in Bucket \ {b} : u[d] = t[d]  BY <1>1, <1>3, <1>5
<1>8. u \in Table  BY <1>3, <1>5, <1>6 DEF Table
<1>9. /\ \A d \in Bucket : \A j \in DOMAIN t[d] : nm[t[d][j].key] \in Key /\ HashOf[nm[t[d][j].key]] = d
      /\ \A d \in Bucket : \A j, k \in DOMAIN t[d] : nm[t[d][j].key] = nm[t[d][k].key] => j = k
      /\ \A x : x \in P <=> \E d \in Bucket : \E j \in DOMAIN t[d] : t[d][j] = x
  BY EntriesAre DEF Holds
<1> HIDE DEF u, c, n, nm
<1>10. /\ \A d \in Bucket : DOMAIN u[d] = DOMAIN t[d]
       /\ \A d \in Bucket : \A j \in DOMAIN u[d] : u[d][j].key = t[d][j].key
       /\ \A d \in Bucket : \A j \in DOMAIN u[d] : u[d][j] = IF d = b /\ j = i THEN n ELSE t[d][j]
  BY <1>1, <1>4, <1>6, <1>7
<1>11. /\ \A d \in Bucket : \A j \in DOMAIN u[d] : nm[u[d][j].key] \in Key /\ HashOf[nm[u[d][j].key]] = d
       /\ \A d \in Bucket : \A j, k \in DOMAIN u[d] : nm[u[d][j].key] = nm[u[d][k].key] => j = k
  BY <1>9, <1>10
<1>12. \A d \in Bucket : \A j \in DOMAIN t[d] : t[d][j] = e => d = b /\ j = i
  <2> SUFFICES ASSUME NEW d \in Bucket, NEW j \in DOMAIN t[d], t[d][j] = e PROVE d = b /\ j = i
    OBVIOUS
  <2> HIDE DEF b
  <2>1. b \in Bucket /\ i \in DOMAIN t[b] /\ t[b][i] = t[d][j]  BY <1>1, <1>6
  <2>2. d = b  BY ONLY <2>1, d \in Bucket, j \in DOMAIN t[d], <1>9
  <2> QED  BY ONLY <2>1, <2>2, j \in DOMAIN t[d], <1>9
<1>13. \A x : x \in Entries(u) <=> x \in (P \ {e}) \cup {n}
  <2> TAKE x
  <2>1. x \in Entries(u) <=> \E d \in Bucket : \E j \in DOMAIN u[d] : u[d][j] = x
    BY EntriesAre
  <2>2. ASSUME NEW d \in Bucket, NEW j \in DOMAIN u[d], u[d][j] = x PROVE x \in (P \ {e}) \cup {n}
    <3>1. CASE d = b /\ j = i  BY <3>1, <2>2, <1>10
    <3>2. CASE ~(d = b /\ j = i)  BY <3>2, <2>2, <1>9, <1>10, <1>12
    <3> QED  BY <3>1, <3>2
  <2>3. ASSUME x \in P \ {e} PROVE \E d \in Bucket : \E j \in DOMAIN u[d] : u[d][j] = x
    <3>0. PICK d \in Bucket : \E j \in DOMAIN t[d] : t[d][j] = x  BY <2>3, <1>9
    <3>1. PICK j \in DOMAIN t[d] : t[d][j] = x  BY <3>0
    <3>2. ~(d = b /\ j = i)  BY <3>1, <2>3, <1>1
    <3> QED  BY <3>1, <3>2, <1>10
  <2>4. ASSUME x = n PROVE \E d \in Bucket : \E j \in DOMAIN u[d] : u[d][j] = x
    BY <2>4, <1>1, <1>6, <1>7
  <2> QED  BY <2>1, <2>2, <2>3, <2>4
<1>14. Entries(u) = (P \ {e}) \cup {n}  BY <1>13
<1> QED  BY <1>8, <1>11, <1>14 DEF Holds, u, n, nm

\* A pair leaves the table.
LEMMA RemoveHit ==
    ASSUME NEW st, NEW t, NEW P, Holds(st.name, t, P), NEW e \in P, st.name[e.key] \in Key
    PROVE  Holds(st.name, hash_table_remove(st, t, st.name[e.key]), P \ {e})
<1> DEFINE nm == st.name
           b == HashOf[nm[e.key]]
           u == hash_table_remove(st, t, st.name[e.key])
<1>1. PICK i \in 1..Len(t[b]) :
         /\ b \in Bucket /\ t[b] \in Seq(Entry) /\ hits(st, t, nm[e.key]) = {i}
         /\ Min(hits(st, t, nm[e.key])) = i
         /\ t[b][i] \in P \cap Entry /\ e = t[b][i]
  <2>1. PICK k \in Key : k = st.name[e.key]  OBVIOUS
  <2>4. HashOf[k] \in Bucket /\ t[HashOf[k]] \in Seq(Entry)  BY Hit
  <2>5. hits(st, t, k) = {} => \A x \in P : st.name[x.key] # k  BY Hit
  <2>2. hits(st, t, k) # {}  BY <2>1, <2>5
  <2>3. PICK i \in 1..Len(t[HashOf[k]]) : HitAt(st, t, P, k, i)
    BY ONLY <2>2, Holds(st.name, t, P), k \in Key, HitIs
  <2> QED  BY <2>1, <2>2, <2>3, <2>4 DEF HitAt
<1>2. u = [t EXCEPT ![b] = RemoveAt(t[b], i)]  BY <1>1 DEF hash_table_remove
<1>3. t \in [Bucket -> Seq(Entry)]  BY DEF Holds, Table
<1> DEFINE c == RemoveAt(t[b], i)
           l == Len(t[b])
<1>4. /\ c \in Seq(Entry) /\ DOMAIN c = 1..(l - 1) /\ DOMAIN t[b] = 1..l /\ l \in Nat
      /\ \A j \in 1..(l - 1) : c[j] = IF j < i THEN t[b][j] ELSE t[b][j + 1]
  <2>1. c \in Seq(Entry) /\ Len(c) = l - 1
    BY <1>1, Removed
  <2>2. \A j \in 1..(l - 1) : c[j] = IF j < i THEN t[b][j] ELSE t[b][j + 1]
    BY <1>1, Removed
  <2> QED  BY <2>1, <2>2, <1>1, LenProperties
<1>5. u[b] = c /\ \A d \in Bucket \ {b} : u[d] = t[d]  BY <1>1, <1>2, <1>3
<1>6. u \in Table  BY <1>2, <1>3, <1>4 DEF Table
<1>7. /\ \A d \in Bucket : \A j \in DOMAIN t[d] : nm[t[d][j].key] \in Key /\ HashOf[nm[t[d][j].key]] = d
      /\ \A d \in Bucket : \A j, k \in DOMAIN t[d] : nm[t[d][j].key] = nm[t[d][k].key] => j = k
      /\ \A x : x \in P <=> \E d \in Bucket : \E j \in DOMAIN t[d] : t[d][j] = x
  BY EntriesAre DEF Holds
<1> HIDE DEF u, c, nm
<1> DEFINE old(d, j) == IF d = b /\ j >= i THEN j + 1 ELSE j
<1>8. /\ \A d \in Bucket : \A j \in DOMAIN u[d] :
            old(d, j) \in DOMAIN t[d] /\ u[d][j] = t[d][old(d, j)] /\ ~(d = b /\ old(d, j) = i)
      /\ \A d \in Bucket : \A j, k \in DOMAIN u[d] : old(d, j) = old(d, k) => j = k
  <2>1. i \in 1..l /\ l \in Nat  BY <1>1, <1>4
  <2>2. /\ \A j \in DOMAIN u[b] :
            old(b, j) \in DOMAIN t[b] /\ u[b][j] = t[b][old(b, j)] /\ ~(old(b, j) = i)
        /\ \A j, k \in DOMAIN u[b] : old(b, j) = old(b, k) => j = k
    <3> HIDE DEF l, b
    <3>1. \A j \in 1..(l - 1) : old(b, j) \in 1..l /\ old(b, j) # i /\ c[j] = t[b][old(b, j)]
      BY <2>1, <1>4
    <3>2. \A j, k \in 1..(l - 1) : old(b, j) = old(b, k) => j = k  BY <2>1
    <3> QED  BY <3>1, <3>2, <1>4, <1>5
  <2>3. \A d \in Bucket \ {b} : u[d] = t[d] /\ \A j : old(d, j) = j  BY <1>5
  <2> HIDE DEF old
  <2> QED  BY <2>2, <2>3
<1>9. \A d \in Bucket : \A j \in DOMAIN t[d] :
         ~(d = b /\ j = i) => \E k \in DOMAIN u[d] : u[d][k] = t[d][j]
  <2> SUFFICES ASSUME NEW d \in Bucket, NEW j \in DOMAIN t[d], ~(d = b /\ j = i)
               PROVE  \E k \in DOMAIN u[d] : u[d][k] = t[d][j]
    OBVIOUS
  <2>1. CASE d # b  BY <2>1, <1>5
  <2>2. CASE d = b
    <3>1. j \in 1..l /\ l \in Nat /\ i \in 1..l /\ j # i  BY <2>2, <1>1, <1>4
    <3>2. CASE j < i
      <4>1. j \in 1..(l - 1)  BY <3>1, <3>2
      <4> QED  BY <4>1, <3>2, <2>2, <1>4, <1>5
    <3>3. CASE j > i
      <4>1. j - 1 \in 1..(l - 1) /\ ~(j - 1 < i) /\ j - 1 + 1 = j  BY <3>1, <3>3
      <4> QED  BY <4>1, <2>2, <1>4, <1>5
    <3> QED  BY <3>1, <3>2, <3>3
  <2> QED  BY <2>1, <2>2
<1> HIDE DEF old
<1>10. /\ \A d \in Bucket : \A j \in DOMAIN u[d] : nm[u[d][j].key] \in Key /\ HashOf[nm[u[d][j].key]] = d
       /\ \A d \in Bucket : \A j, k \in DOMAIN u[d] : nm[u[d][j].key] = nm[u[d][k].key] => j = k
  BY <1>7, <1>8
<1>11. \A d \in Bucket : \A j \in DOMAIN t[d] : t[d][j] = e => d = b /\ j = i
  <2> SUFFICES ASSUME NEW d \in Bucket, NEW j \in DOMAIN t[d], t[d][j] = e PROVE d = b /\ j = i
    OBVIOUS
  <2>1. d = b  BY <1>1, <1>7 DEF nm
  <2> QED  BY <2>1, <1>1, <1>4, <1>7
<1>12. \A x : x \in Entries(u) <=> x \in P \ {e}
  <2> TAKE x
  <2>1. x \in Entries(u) <=> \E d \in Bucket : \E j \in DOMAIN u[d] : u[d][j] = x
    BY EntriesAre
  <2>2. ASSUME NEW d \in Bucket, NEW j \in DOMAIN u[d], u[d][j] = x PROVE x \in P \ {e}
    BY <2>2, <1>7, <1>8, <1>11
  <2>3. ASSUME x \in P \ {e} PROVE \E d \in Bucket : \E j \in DOMAIN u[d] : u[d][j] = x
    <3>0. PICK d \in Bucket : \E j \in DOMAIN t[d] : t[d][j] = x  BY <2>3, <1>7
    <3>1. PICK j \in DOMAIN t[d] : t[d][j] = x  BY <3>0
    <3>2. ~(d = b /\ j = i)  BY <3>1, <2>3, <1>1
    <3> QED  BY <3>1, <3>2, <1>9
  <2> QED  BY <2>1, <2>2, <2>3
<1>13. Entries(u) = P \ {e}  BY <1>12
<1> QED  BY <1>6, <1>10, <1>13 DEF Holds, u, nm

-----------------------------------------------------------------------------
(***************************************************************************)
(* The children of a dict                                                  *)
(***************************************************************************)
Pair(k, v) == [key |-> k, value |-> v]
With(P, e) == P \cup {e}
Without(P, e) == P \ {e}

\* The children q alternate keys and values, and no name occurs twice.
Alternates(ty, nm, q) ==
    /\ \A i \in DOMAIN q : ty[q[i]] = "key" <=> i % 2 = 1
    /\ \A i, j \in DOMAIN q : i % 2 = 1 /\ j % 2 = 1 /\ nm[q[i]] = nm[q[j]] => i = j

\* The children q and the table t of a dict, for the types ty and names nm.
Good(ty, nm, q, t) ==
    /\ Alternates(ty, nm, q)
    /\ Len(q) % 2 = 0
    /\ t # NULL => Holds(nm, t, Pairs(q))

LEMMA PairsAre ==
    ASSUME NEW q
    PROVE  \A e : e \in Pairs(q) <=>
              \E i \in DOMAIN q : i % 2 = 1 /\ i < Len(q) /\ e = [key |-> q[i], value |-> q[i + 1]]
BY DEF Pairs

\* What makes a dict good is said of its children only.
LEMMA GoodFrame ==
    ASSUME NEW ty, NEW nm, NEW q, NEW t, Good(ty, nm, q, t), NEW ty2, NEW nm2,
           \A i \in DOMAIN q : (ty2[q[i]] = "key" <=> ty[q[i]] = "key") /\ nm2[q[i]] = nm[q[i]]
    PROVE  Good(ty2, nm2, q, t)
<1>1. \A e \in Pairs(q) : nm2[e.key] = nm[e.key]  BY PairsAre
<1>2. t # NULL => Holds(nm2, t, Pairs(q))  BY <1>1, HoldsFrame DEF Good
<1>3. Alternates(ty2, nm2, q)  BY DEF Good, Alternates
<1> QED  BY <1>2, <1>3 DEF Good

LEMMA AppendedSeq ==
    ASSUME NEW S, NEW q \in Seq(S), NEW e \in S
    PROVE  /\ Append(q, e) \in Seq(S)
           /\ Len(q) \in Nat /\ DOMAIN q = 1..Len(q)
           /\ Len(Append(q, e)) = Len(q) + 1
           /\ DOMAIN Append(q, e) = 1..(Len(q) + 1)
           /\ \A i \in 1..Len(q) : Append(q, e)[i] = q[i]
           /\ Append(q, e)[Len(q) + 1] = e
BY AppendProperties, LenProperties

\* A key at the end opens a pair, the value after it closes the pair.
LEMMA PairsOfKey ==
    ASSUME NEW q \in Seq(Node), Len(q) % 2 = 0, NEW c \in Node
    PROVE  Pairs(Append(q, c)) = Pairs(q)
<1> DEFINE r == Append(q, c)
           l == Len(q)
<1>1. /\ l \in Nat /\ DOMAIN q = 1..l /\ DOMAIN r = 1..(l + 1) /\ Len(r) = l + 1
      /\ \A i \in 1..l : r[i] = q[i]
  BY AppendedSeq
<1>2. l % 2 = 0  OBVIOUS
<1> HIDE DEF r, l
<1>3. \A i \in 1..(l + 1) : i % 2 = 1 /\ i < l + 1 => i < l  BY <1>1, <1>2
<1>4. \A e : e \in Pairs(r) <=> e \in Pairs(q)
  <2> TAKE e
  <2>1. e \in Pairs(q) <=> \E i \in 1..l : i % 2 = 1 /\ i < l /\ e = [key |-> q[i], value |-> q[i + 1]]
    BY <1>1, PairsAre DEF l
  <2>2. e \in Pairs(r) <=> \E i \in 1..(l + 1) : i % 2 = 1 /\ i < l + 1 /\ e = [key |-> r[i], value |-> r[i + 1]]
    BY <1>1, PairsAre
  <2>3. \A i \in 1..(l + 1) : i % 2 = 1 /\ i < l + 1 => i \in 1..l /\ i + 1 \in 1..l /\ r[i] = q[i] /\ r[i + 1] = q[i + 1]
    BY <1>1, <1>3
  <2>4. \A i \in 1..l : i % 2 = 1 /\ i < l => i \in 1..(l + 1) /\ i < l + 1  BY <1>1
  <2> QED  BY <1>3, <2>1, <2>2, <2>3, <2>4
<1> QED  BY <1>4 DEF r

LEMMA PairsOfValue ==
    ASSUME NEW q \in Seq(Node), Len(q) % 2 = 1, NEW v \in Node
    PROVE  Pairs(Append(q, v)) = Pairs(q) \cup {[key |-> q[Len(q)], value |-> v]}
<1> DEFINE r == Append(q, v)
           l == Len(q)
           n == [key |-> q[l], value |-> v]
<1>1. /\ l \in Nat /\ DOMAIN q = 1..l /\ DOMAIN r = 1..(l + 1) /\ Len(r) = l + 1
      /\ \A i \in 1..l : r[i] = q[i]
      /\ r[l + 1] = v
  BY AppendedSeq
<1>2. l % 2 = 1  OBVIOUS
<1> HIDE DEF r, l
<1>3. l \in 1..l /\ r[l] = q[l]  BY <1>1, <1>2
<1>4. \A e : e \in Pairs(r) <=> e \in Pairs(q) \cup {n}
  <2> TAKE e
  <2>1. e \in Pairs(q) <=> \E i \in 1..l : i % 2 = 1 /\ i < l /\ e = [key |-> q[i], value |-> q[i + 1]]
    BY <1>1, PairsAre DEF l
  <2>0. e \in Pairs(r) <=> \E i \in DOMAIN r : i % 2 = 1 /\ i < Len(r) /\ e = [key |-> r[i], value |-> r[i + 1]]
    BY PairsAre
  <2>2. e \in Pairs(r) <=> \E i \in 1..(l + 1) : i % 2 = 1 /\ i < l + 1 /\ e = [key |-> r[i], value |-> r[i + 1]]
    BY <1>1, <2>0
  <2>3. \A i \in 1..(l + 1) : i < l + 1 => i \in 1..l /\ r[i] = q[i] /\ (i < l \/ i = l)
    BY <1>1
  <2>4. \A i \in 1..l : i < l => i \in 1..(l + 1) /\ i < l + 1 /\ r[i] = q[i] /\ r[i + 1] = q[i + 1]
    BY <1>1
  <2>5. l \in 1..(l + 1) /\ l < l + 1 /\ [key |-> r[l], value |-> r[l + 1]] = n  BY <1>1, <1>3
  <2> QED  BY <1>2, <2>1, <2>2, <2>3, <2>4, <2>5
<1> QED  BY <1>4 DEF r, l

\* A new pair at the end.
LEMMA GoodAppend ==
    ASSUME NEW ty, NEW nm, NEW q \in Seq(Node), NEW t, Good(ty, nm, q, t),
           NEW kn \in Node, NEW v \in Node, ty[kn] = "key", ty[v] # "key",
           \A i \in DOMAIN q : i % 2 = 1 => nm[q[i]] # nm[kn],
           NEW u, u = NULL \/ Holds(nm, u, With(Pairs(q), Pair(kn, v)))
    PROVE  /\ Good(ty, nm, Append(Append(q, kn), v), u)
           /\ Pairs(Append(Append(q, kn), v)) = With(Pairs(q), Pair(kn, v))
<1> DEFINE l == Len(q)
           p == Append(q, kn)
           r == Append(p, v)
<1>1. /\ l \in Nat /\ DOMAIN q = 1..l /\ p \in Seq(Node) /\ DOMAIN p = 1..(l + 1) /\ Len(p) = l + 1
      /\ \A i \in 1..l : p[i] = q[i]
      /\ p[l + 1] = kn
  BY AppendedSeq
<1>2. /\ DOMAIN r = 1..(l + 1 + 1) /\ Len(r) = l + 1 + 1
      /\ \A i \in 1..(l + 1) : r[i] = p[i]
      /\ r[l + 1 + 1] = v
  <2> HIDE DEF p
  <2> QED  BY <1>1, AppendedSeq
<1>3. l % 2 = 0  BY DEF Good
<1>4. Pairs(p) = Pairs(q)  BY <1>3, PairsOfKey
<1>5. (l + 1) % 2 = 1  BY <1>1, <1>3
<1>6. Pairs(r) = Pairs(q) \cup {[key |-> kn, value |-> v]}
  <2> HIDE DEF p, l
  <2> QED  BY <1>1, <1>4, <1>5, PairsOfValue
<1> HIDE DEF p, l, r
<1>7. \A i \in 1..(l + 2) : \/ i \in 1..l /\ r[i] = q[i]
                            \/ i = l + 1 /\ r[i] = kn
                            \/ i = l + 2 /\ r[i] = v
  BY <1>1, <1>2
<1>8. \A i \in 1..l : ty[q[i]] = "key" <=> i % 2 = 1  BY <1>1 DEF Good, Alternates
<1>9. \A i, j \in 1..l : i % 2 = 1 /\ j % 2 = 1 /\ nm[q[i]] = nm[q[j]] => i = j
  BY <1>1 DEF Good, Alternates
<1>10. (l + 1) % 2 = 1 /\ (l + 2) % 2 = 0 /\ l + 1 + 1 = l + 2  BY <1>1, <1>3
<1>11. \A i \in 1..(l + 2) : ty[r[i]] = "key" <=> i % 2 = 1  BY <1>7, <1>8, <1>10
<1>12. \A i, j \in 1..(l + 2) : i % 2 = 1 /\ j % 2 = 1 /\ nm[r[i]] = nm[r[j]] => i = j
  BY <1>1, <1>7, <1>9, <1>10
<1>13. Alternates(ty, nm, r)  BY <1>2, <1>10, <1>11, <1>12 DEF Alternates
<1> QED  BY <1>2, <1>6, <1>10, <1>13 DEF Good, r, p, With, Pair

\* The value of a pair is replaced.
\* In r the value v has the place i of q, and the pair of r there replaces q's.
Swapped(q, i, v, r) ==
    Pairs(r) = With(Without(Pairs(q), Pair(q[i - 1], q[i])), Pair(q[i - 1], v))

LEMMA GoodReplace ==
    ASSUME NEW ty, NEW nm, NEW q \in Seq(Node), NEW t, Good(ty, nm, q, t),
           NEW i \in 1..Len(q), i % 2 = 0, NEW v \in Node, ty[v] # "key",
           NEW u, u = NULL \/ Holds(nm, u, With(Without(Pairs(q), Pair(q[i - 1], q[i])), Pair(q[i - 1], v)))
    PROVE  /\ Good(ty, nm, ReplaceAt(q, i, v), u)
           /\ Swapped(q, i, v, ReplaceAt(q, i, v))
<1> DEFINE l == Len(q)
           r == ReplaceAt(q, i, v)
           o == [key |-> q[i - 1], value |-> q[i]]
           n == [key |-> q[i - 1], value |-> v]
<1>1. l \in Nat /\ DOMAIN q = 1..l /\ l % 2 = 0  BY LenProperties DEF Good
<1>2. DOMAIN r = 1..l /\ Len(r) = l /\ r[i] = v /\ \A j \in 1..l : j # i => r[j] = q[j]
  <2>1. r \in Seq(Node)  BY ReplaceProperties
  <2>2. DOMAIN r = 1..l /\ r[i] = v /\ \A j \in 1..l : j # i => r[j] = q[j]
    BY <1>1 DEF ReplaceAt
  <2>3. Len(r) \in Nat /\ DOMAIN r = 1..Len(r)  BY <2>1, LenProperties
  <2>4. Len(r) = l
    <3> HIDE DEF r, l
    <3>1. \A a, b \in Nat : 1..a = 1..b => a = b
      <4> SUFFICES ASSUME NEW a \in Nat, NEW b \in Nat, 1..a = 1..b PROVE a = b  OBVIOUS
      <4>1. a \in 1..b \/ a = 0  OBVIOUS
      <4>2. b \in 1..a \/ b = 0  OBVIOUS
      <4> QED  BY <4>1, <4>2
    <3> QED  BY <1>1, <2>2, <2>3, <3>1
  <2> QED  BY <2>2, <2>4
<1> HIDE DEF r, l
<1>3. \A j \in 1..l : ty[q[j]] = "key" <=> j % 2 = 1  BY <1>1 DEF Good, Alternates
<1>4. \A j, k \in 1..l : j % 2 = 1 /\ k % 2 = 1 /\ nm[q[j]] = nm[q[k]] => j = k
  BY <1>1 DEF Good, Alternates
<1>5. i \in 1..l /\ i - 1 \in 1..l /\ (i - 1) % 2 = 1 /\ i - 1 < l /\ i - 1 + 1 = i  BY <1>1 DEF l
<1>6. Alternates(ty, nm, r)
  <2>1. \A j \in 1..l : ty[r[j]] = "key" <=> j % 2 = 1  BY <1>2, <1>3
  <2>2. \A j \in 1..l : j % 2 = 1 => r[j] = q[j]  BY <1>2
  <2>3. \A j, k \in 1..l : j % 2 = 1 /\ k % 2 = 1 /\ nm[r[j]] = nm[r[k]] => j = k
    BY <1>4, <2>2
  <2> QED  BY <1>2, <2>1, <2>3 DEF Alternates
<1>7. \A e : e \in Pairs(r) <=> e \in (Pairs(q) \ {o}) \cup {n}
  <2> TAKE e
  <2>1. e \in Pairs(q) <=> \E j \in 1..l : j % 2 = 1 /\ j < l /\ e = [key |-> q[j], value |-> q[j + 1]]
    BY <1>1, PairsAre DEF l
  <2>2. e \in Pairs(r) <=> \E j \in 1..l : j % 2 = 1 /\ j < l /\ e = [key |-> r[j], value |-> r[j + 1]]
    BY <1>2, PairsAre
  <2>3. \A j \in 1..l : j % 2 = 1 /\ j < l /\ j # i - 1 =>
           /\ [key |-> r[j], value |-> r[j + 1]] = [key |-> q[j], value |-> q[j + 1]]
           /\ q[j] # q[i - 1]
    <3> SUFFICES ASSUME NEW j \in 1..l, j % 2 = 1, j < l, j # i - 1
                 PROVE  r[j] = q[j] /\ r[j + 1] = q[j + 1] /\ q[j] # q[i - 1]
      OBVIOUS
    <3>1. j # i /\ j + 1 # i /\ j + 1 \in 1..l  BY <1>1, <1>5
    <3> QED  BY <3>1, <1>2, <1>4, <1>5
  <2>4. [key |-> r[i - 1], value |-> r[i - 1 + 1]] = n
    <3>1. i - 1 # i  BY <1>5
    <3> QED  BY <3>1, <1>2, <1>5
  <2>5. ASSUME e \in Pairs(r) PROVE e \in (Pairs(q) \ {o}) \cup {n}
    <3>1. PICK j \in 1..l : j % 2 = 1 /\ j < l /\ e = [key |-> r[j], value |-> r[j + 1]]
      BY <2>2, <2>5
    <3>2. CASE j = i - 1  BY <3>1, <3>2, <2>4
    <3>3. CASE j # i - 1
      <4>1. e = [key |-> q[j], value |-> q[j + 1]] /\ q[j] # q[i - 1]  BY <3>1, <3>3, <2>3
      <4>2. e.key # o.key  BY <4>1
      <4> QED  BY <2>1, <3>1, <4>1, <4>2
    <3> QED  BY <3>2, <3>3
  <2>6. ASSUME e \in Pairs(q) \ {o} PROVE e \in Pairs(r)
    <3>1. PICK j \in 1..l : j % 2 = 1 /\ j < l /\ e = [key |-> q[j], value |-> q[j + 1]]
      BY <2>1, <2>6
    <3>2. j # i - 1  BY <3>1, <2>6, <1>5
    <3> QED  BY <3>1, <3>2, <2>2, <2>3
  <2>7. n \in Pairs(r)
    <3>1. \E j \in 1..l : j % 2 = 1 /\ j < l /\ n = [key |-> r[j], value |-> r[j + 1]]
      BY <2>4, <1>5
    <3> QED  BY <3>1, <1>2, PairsAre
  <2> QED  BY <2>5, <2>6, <2>7
<1>8. Pairs(r) = (Pairs(q) \ {o}) \cup {n}  BY <1>7
<1> QED  BY <1>1, <1>2, <1>6, <1>8 DEF Good, r, Swapped, With, Without, Pair

\* A pair is taken out.
Left(q, i, r) == \A j \in DOMAIN r : \E k \in DOMAIN q : k \notin {i, i + 1} /\ r[j] = q[k]

\* r lacks the pair of q at i.
Dropped(q, i, r) == Pairs(r) = Without(Pairs(q), Pair(q[i], q[i + 1]))

LEMMA GoodRemove ==
    ASSUME NEW ty, NEW nm, NEW q \in Seq(Node), NEW t, Good(ty, nm, q, t),
           NEW i \in 1..Len(q), i % 2 = 1,
           NEW u, u = NULL \/ Holds(nm, u, Without(Pairs(q), Pair(q[i], q[i + 1])))
    PROVE  /\ Good(ty, nm, RemoveAt(RemoveAt(q, i), i), u)
           /\ Left(q, i, RemoveAt(RemoveAt(q, i), i))
           /\ Dropped(q, i, RemoveAt(RemoveAt(q, i), i))
<1> DEFINE l == Len(q)
           p == RemoveAt(q, i)
           r == RemoveAt(p, i)
           o == [key |-> q[i], value |-> q[i + 1]]
<1>1. l \in Nat /\ DOMAIN q = 1..l /\ l % 2 = 0  BY LenProperties DEF Good
<1>2. i \in 1..l /\ i + 1 \in 1..l /\ i \in 1..(l - 1)
  <2> HIDE DEF l
  <2>1. i \in 1..l  BY DEF l
  <2> QED  BY <1>1, <2>1
<1>3. /\ p \in Seq(Node) /\ Len(p) = l - 1
      /\ \A j \in 1..(l - 1) : p[j] = IF j < i THEN q[j] ELSE q[j + 1]
  BY RemoveAtProperties
<1>4. /\ r \in Seq(Node) /\ Len(r) = l - 1 - 1
      /\ \A j \in 1..(l - 1 - 1) : r[j] = IF j < i THEN p[j] ELSE p[j + 1]
  <2> HIDE DEF p
  <2>1. i \in 1..Len(p)  BY <1>2, <1>3
  <2> QED  BY <1>3, <2>1, RemoveAtProperties
<1>5. DOMAIN r = 1..(l - 2) /\ Len(r) = l - 2
  <2> HIDE DEF r, l
  <2> QED  BY <1>1, <1>4, LenProperties
<1> DEFINE at(j) == IF j < i THEN j ELSE j + 2
<1> HIDE DEF r, p, l
<1>6. \A j \in 1..(l - 2) : at(j) \in 1..l /\ at(j) \notin {i, i + 1} /\ r[j] = q[at(j)]
  <2> SUFFICES ASSUME NEW j \in 1..(l - 2)
               PROVE  at(j) \in 1..l /\ at(j) \notin {i, i + 1} /\ r[j] = q[at(j)]
    OBVIOUS
  <2>1. j \in 1..(l - 1) /\ j + 1 \in 1..(l - 1) /\ j \in 1..(l - 1 - 1)  BY <1>1
  <2>2. CASE j < i  BY <2>1, <2>2, <1>1, <1>2, <1>3, <1>4
  <2>3. CASE ~(j < i)
    <3>1. ~(j + 1 < i) /\ j + 1 + 1 = j + 2 /\ j + 2 \in 1..l /\ j + 2 \notin {i, i + 1}  BY <2>1, <2>3, <1>1, <1>2
    <3> QED  BY <3>1, <2>1, <2>3, <1>3, <1>4
  <2> QED  BY <2>2, <2>3
<1>7. \A j \in 1..(l - 2) : (at(j) % 2 = 1 <=> j % 2 = 1) /\ (j % 2 = 1 /\ j < l - 2 => at(j) < l /\ at(j + 1) = at(j) + 1)
  BY <1>1, <1>2
<1>8. \A j, k \in 1..(l - 2) : at(j) = at(k) => j = k  BY <1>1, <1>2
<1>9. \A j \in 1..l : ty[q[j]] = "key" <=> j % 2 = 1  BY <1>1 DEF Good, Alternates
<1>10. \A j, k \in 1..l : j % 2 = 1 /\ k % 2 = 1 /\ nm[q[j]] = nm[q[k]] => j = k
  BY <1>1 DEF Good, Alternates
<1>11. \A k \in 1..l : k % 2 = 1 /\ k < l /\ k # i =>
          \E j \in 1..(l - 2) : j % 2 = 1 /\ j < l - 2 /\ at(j) = k
  <2> SUFFICES ASSUME NEW k \in 1..l, k % 2 = 1, k < l, k # i
               PROVE  \E j \in 1..(l - 2) : j % 2 = 1 /\ j < l - 2 /\ at(j) = k
    OBVIOUS
  <2>1. CASE k < i
    <3>1. k \in 1..(l - 2) /\ k < l - 2  BY <2>1, <1>1, <1>2
    <3> QED  BY <3>1, <2>1
  <2>2. CASE k > i
    <3>1. k - 2 \in 1..(l - 2) /\ k - 2 < l - 2 /\ (k - 2) % 2 = 1 /\ ~(k - 2 < i) /\ k - 2 + 2 = k
      BY <2>2, <1>1, <1>2
    <3> QED  BY <3>1
  <2> QED  BY <2>1, <2>2
<1> HIDE DEF at
<1>12. Alternates(ty, nm, r)
  <2>1. \A j \in 1..(l - 2) : ty[r[j]] = "key" <=> j % 2 = 1  BY <1>6, <1>7, <1>9
  <2>2. \A j, k \in 1..(l - 2) : j % 2 = 1 /\ k % 2 = 1 /\ nm[r[j]] = nm[r[k]] => j = k
    BY <1>6, <1>7, <1>8, <1>10
  <2> QED  BY <2>1, <2>2, <1>5 DEF Alternates
<1>13. \A e : e \in Pairs(r) <=> e \in Pairs(q) \ {o}
  <2> TAKE e
  <2>0. e \in Pairs(q) <=> \E j \in DOMAIN q : j % 2 = 1 /\ j < Len(q) /\ e = [key |-> q[j], value |-> q[j + 1]]
    BY PairsAre
  <2>1. e \in Pairs(q) <=> \E j \in 1..l : j % 2 = 1 /\ j < l /\ e = [key |-> q[j], value |-> q[j + 1]]
    BY <1>1, <2>0 DEF l
  <2>2. e \in Pairs(r) <=> \E j \in 1..(l - 2) : j % 2 = 1 /\ j < l - 2 /\ e = [key |-> r[j], value |-> r[j + 1]]
    BY <1>5, PairsAre
  <2>3. \A j \in 1..(l - 2) : j % 2 = 1 /\ j < l - 2 =>
           [key |-> r[j], value |-> r[j + 1]] = [key |-> q[at(j)], value |-> q[at(j) + 1]]
    <3> SUFFICES ASSUME NEW j \in 1..(l - 2), j % 2 = 1, j < l - 2
                 PROVE  r[j] = q[at(j)] /\ r[j + 1] = q[at(j) + 1]
      OBVIOUS
    <3>1. j + 1 \in 1..(l - 2)  BY <1>1
    <3> QED  BY <3>1, <1>6, <1>7
  <2>4. ASSUME e \in Pairs(r) PROVE e \in Pairs(q) \ {o}
    <3>1. PICK j \in 1..(l - 2) : j % 2 = 1 /\ j < l - 2 /\ e = [key |-> r[j], value |-> r[j + 1]]
      BY <2>2, <2>4
    <3>2. PICK k \in 1..l : k = at(j) /\ k % 2 = 1 /\ k < l /\ k # i  BY <3>1, <1>6, <1>7
    <3>3. e = [key |-> q[k], value |-> q[k + 1]]  BY <3>1, <3>2, <2>3
    <3>4. e.key # o.key
      <4>1. q[k] # q[i]  BY <3>2, <1>2, <1>10
      <4> QED  BY <4>1, <3>3
    <3> QED  BY <2>1, <3>2, <3>3, <3>4
  <2>5. ASSUME e \in Pairs(q) \ {o} PROVE e \in Pairs(r)
    <3>1. PICK k \in 1..l : k % 2 = 1 /\ k < l /\ e = [key |-> q[k], value |-> q[k + 1]]
      BY <2>1, <2>5
    <3>2. k # i  BY <3>1, <2>5
    <3>3. PICK j \in 1..(l - 2) : j % 2 = 1 /\ j < l - 2 /\ at(j) = k  BY <3>1, <3>2, <1>11
    <3> QED  BY <3>1, <3>3, <2>2, <2>3
  <2> QED  BY <2>4, <2>5
<1>14. Pairs(r) = Pairs(q) \ {o}  BY <1>13
<1>15. (l - 2) % 2 = 0  BY <1>1
<1>16. Good(ty, nm, r, u)  BY <1>5, <1>12, <1>14, <1>15 DEF Good, Without, Pair
<1>17. \A j \in DOMAIN r : \E k \in DOMAIN q : k \notin {i, i + 1} /\ r[j] = q[k]
  BY <1>1, <1>5, <1>6
<1> QED  BY <1>14, <1>16, <1>17 DEF r, p, Left, Dropped, Without, Pair

-----------------------------------------------------------------------------
(***************************************************************************)
(* States. Base is what holds also in the middle of a call, while a pair   *)
(* is incomplete; Sound is what holds between calls.                       *)
(***************************************************************************)
Base(st) ==
    /\ st \in State
    /\ ForestInv(st.f)
    /\ \A n \in Node : st.ht[n] # NULL => st.type[n] = "dict"
    /\ \A n \in Node : st.f.kids[n] # <<>> => st.type[n] = "dict"
    /\ \A n \in Node : st.type[n] = "free" => st.f.parent[n] = NULL /\ st.name[n] = NoName
    /\ \A n \in Node : st.type[n] = "key" => st.name[n] \in Key

Fine(st, d) == Good(st.type, st.name, st.f.kids[d], st.ht[d])

Sound(st) ==
    /\ Base(st)
    /\ \A d \in Dicts(st) : Fine(st, d)
    /\ \A n \in Node : st.type[n] = "key" => st.f.parent[n] # NULL

LEMMA Fields ==
    ASSUME NEW st, Base(st)
    PROVE  /\ st \in State
           /\ st = [type |-> st.type, name |-> st.name, f |-> st.f, ht |-> st.ht]
           /\ st.type \in [Node -> {"free", "dict", "key", "value"}]
           /\ st.name \in [Node -> Key \cup {NoName}]
           /\ st.f \in Forest /\ ForestInv(st.f)
           /\ st.f.kids \in [Node -> Seq(Node)]
           /\ st.f.parent \in [Node -> Node \cup {NULL}]
           /\ st.ht \in [Node -> Table \cup {NULL}]
BY DEF Base, State, Forest, ForestInv

LEMMA ChildrenOf ==
    ASSUME NEW st, Base(st), NEW d \in Node
    PROVE  /\ st.f.kids[d] \in Seq(Node)
           /\ Len(st.f.kids[d]) \in Nat
           /\ DOMAIN st.f.kids[d] = 1..Len(st.f.kids[d])
           /\ \A i \in DOMAIN st.f.kids[d] :
                 /\ st.f.kids[d][i] \in Node
                 /\ st.f.parent[st.f.kids[d][i]] = d
                 /\ st.type[st.f.kids[d][i]] # "free"
           /\ \A i, j \in DOMAIN st.f.kids[d] : st.f.kids[d][i] = st.f.kids[d][j] => i = j
           /\ \A n \in Node : st.f.parent[n] = d => \E i \in DOMAIN st.f.kids[d] : st.f.kids[d][i] = n
<1> DEFINE q == st.f.kids[d]
<1>1. q \in Seq(Node)  BY Fields
<1>2. Len(q) \in Nat /\ DOMAIN q = 1..Len(q)  BY <1>1, LenProperties
<1>3. \A i \in DOMAIN q : q[i] \in Node  BY <1>1, <1>2
<1>4. Linked(st.f)  BY DEF Base, ForestInv
<1>5. \A i \in DOMAIN q : st.f.parent[q[i]] = d  BY <1>3, <1>4 DEF Linked, Children
<1>6. \A i \in DOMAIN q : st.type[q[i]] # "free"
  BY <1>3, <1>5, NodeAssumption DEF Base
<1> QED  BY <1>1, <1>2, <1>3, <1>4, <1>5, <1>6 DEF Linked, Children

\* A dict stays good when nothing of it and its children changes.
LEMMA Unaffected ==
    ASSUME NEW st, Base(st), NEW m \in Node, Fine(st, m),
           NEW u, u.f.kids[m] = st.f.kids[m], u.ht[m] = st.ht[m],
           \A c \in Node : st.f.parent[c] = m =>
              (u.type[c] = "key" <=> st.type[c] = "key") /\ u.name[c] = st.name[c]
    PROVE  Fine(u, m)
<1> DEFINE q == st.f.kids[m]
<1>1. \A i \in DOMAIN q : (u.type[q[i]] = "key" <=> st.type[q[i]] = "key") /\ u.name[q[i]] = st.name[q[i]]
  BY ChildrenOf
<1>2. Good(st.type, st.name, q, st.ht[m])  BY DEF Fine
<1> HIDE DEF q
<1>3. Good(u.type, u.name, q, st.ht[m])  BY <1>1, <1>2, GoodFrame
<1> QED  BY <1>3 DEF Fine, q

\* plist_dict_get_item finds the value of the pair with key k, or nothing when
\* no pair has it; a walk finds the same.
LEMMA GetItem ==
    ASSUME NEW st, Base(st), NEW d \in Node, Fine(st, d), NEW k \in Key
    PROVE  /\ linear_lookup(st, d, k) = plist_dict_get_item(st, d, k)
           /\ \/ /\ plist_dict_get_item(st, d, k) = NULL
                 /\ \A i \in DOMAIN st.f.kids[d] : i % 2 = 1 => st.name[st.f.kids[d][i]] # k
              \/ \E i \in DOMAIN st.f.kids[d] :
                    /\ i % 2 = 1 /\ i < Len(st.f.kids[d]) /\ i + 1 \in DOMAIN st.f.kids[d]
                    /\ st.name[st.f.kids[d][i]] = k
                    /\ plist_dict_get_item(st, d, k) = st.f.kids[d][i + 1]
                    /\ plist_dict_get_item(st, d, k) \in Node
<1> DEFINE q == st.f.kids[d]
           l == Len(q)
           nm == st.name
           at == {i \in KeyPositions(st, d) : nm[q[i]] = k}
           linear == linear_lookup(st, d, k)
<1>1. /\ l \in Nat /\ DOMAIN q = 1..l /\ l % 2 = 0
      /\ \A i \in DOMAIN q : q[i] \in Node
      /\ \A i, j \in DOMAIN q : i % 2 = 1 /\ j % 2 = 1 /\ nm[q[i]] = nm[q[j]] => i = j
  BY ChildrenOf DEF Fine, Good, Alternates
<1>2. linear = IF at = {} THEN NULL ELSE q[Min(at) + 1]  BY DEF linear_lookup, Kids
<1>3. KeyPositions(st, d) = {i \in DOMAIN q : i % 2 = 1 /\ i < l}  BY DEF KeyPositions, Kids
<1>4. \A i \in DOMAIN q : i % 2 = 1 => i < l /\ i + 1 \in DOMAIN q
  <2> HIDE DEF l, q
  <2> QED  BY <1>1
<1>5. \A e : e \in Pairs(q) <=>
              \E i \in DOMAIN q : i % 2 = 1 /\ i < l /\ e = [key |-> q[i], value |-> q[i + 1]]
  BY PairsAre
<1>6. st.ht[d] # NULL => Holds(nm, st.ht[d], Pairs(q))  BY DEF Fine, Good
<1>7. plist_dict_get_item(st, d, k) =
         IF st.ht[d] # NULL THEN hash_table_lookup(st, st.ht[d], k) ELSE linear
  BY DEF plist_dict_get_item
<1> HIDE DEF l, q, linear
<1>8. CASE at = {}
  <2>1. \A i \in DOMAIN q : i % 2 = 1 => nm[q[i]] # k  BY <1>3, <1>4, <1>8
  <2>2. \A e \in Pairs(q) : nm[e.key] # k  BY <1>5, <2>1
  <2>3. st.ht[d] # NULL => hash_table_lookup(st, st.ht[d], k) = NULL
    BY <1>6, <2>2, LookupTable
  <2> QED  BY <1>2, <1>7, <1>8, <2>1, <2>3 DEF q, linear, l
<1>9. CASE at # {}
  <2>1. PICK i \in DOMAIN q : i % 2 = 1 /\ i < l /\ nm[q[i]] = k /\ i \in at  BY <1>3, <1>9
  <2>2. at = {i}  BY <1>1, <1>3, <2>1
  <2>3. Min(at) = i  BY <2>1, <2>2, <1>1, MinOfOne
  <2> DEFINE e == [key |-> q[i], value |-> q[i + 1]]
  <2>4. e \in Pairs(q) /\ nm[e.key] = k /\ e.value = q[i + 1]  BY <1>5, <2>1
  <2>5. st.ht[d] # NULL => hash_table_lookup(st, st.ht[d], k) = q[i + 1]
    <3> HIDE DEF e
    <3>1. st.ht[d] # NULL => hash_table_lookup(st, st.ht[d], k) = e.value
      BY <1>6, <2>4, LookupTable
    <3> QED  BY <2>4, <3>1
  <2>6. i + 1 \in DOMAIN q  BY <1>4, <2>1
  <2>7. linear = q[i + 1]  BY <1>2, <1>9, <2>3
  <2> QED  BY <1>1, <1>7, <2>1, <2>5, <2>6, <2>7 DEF q, linear, l
<1> QED  BY <1>8, <1>9

\* Some pair of P has the key k, by the names nm, and the value v.
Bound(nm, P, k, v) == \E e \in P : nm[e.key] = k /\ e.value = v

\* w is that value when there is one, and NULL when there is none.
Found(nm, P, k, w) ==
    (\A v : Bound(nm, P, k, v) => v = w) /\ (w # NULL => Bound(nm, P, k, w))

\* What plist_dict_get_item answers is the value that the pairs bind to the key.
LEMMA Answer ==
    ASSUME NEW st, Base(st), NEW d \in Node, Fine(st, d), NEW k \in Key,
           NEW P, P = Pairs(st.f.kids[d]), NEW w, w = plist_dict_get_item(st, d, k)
    PROVE  /\ Found(st.name, P, k, w)
           /\ w # NULL => w \in Node /\ st.f.parent[w] = d
<1>1. PICK q : q = st.f.kids[d]  OBVIOUS
<1>2. /\ DOMAIN q = 1..Len(q) /\ Len(q) \in Nat
      /\ \A i \in DOMAIN q : q[i] \in Node /\ st.f.parent[q[i]] = d
  BY <1>1, ChildrenOf
<1>3. \A e : e \in P <=>
              \E i \in DOMAIN q : i % 2 = 1 /\ i < Len(q) /\ e = [key |-> q[i], value |-> q[i + 1]]
  BY <1>1, PairsAre
<1>4. \A i, j \in DOMAIN q : i % 2 = 1 /\ j % 2 = 1 /\ st.name[q[i]] = st.name[q[j]] => i = j
  BY <1>1 DEF Fine, Good, Alternates
<1>5. \/ /\ w = NULL
         /\ \A i \in DOMAIN q : i % 2 = 1 => st.name[q[i]] # k
      \/ \E i \in DOMAIN q : /\ i % 2 = 1 /\ i < Len(q) /\ i + 1 \in DOMAIN q
                             /\ st.name[q[i]] = k /\ w = q[i + 1] /\ w \in Node
  BY <1>1, GetItem
<1>6. \A v : Bound(st.name, P, k, v) => v = w
  <2> SUFFICES ASSUME NEW e \in P, st.name[e.key] = k PROVE e.value = w
    BY DEF Bound
  <2>1. PICK i \in DOMAIN q : i % 2 = 1 /\ e = [key |-> q[i], value |-> q[i + 1]]  BY <1>3
  <2>2. st.name[q[i]] = k /\ e.value = q[i + 1]  BY <2>1
  <2>3. PICK j \in DOMAIN q : j % 2 = 1 /\ st.name[q[j]] = k /\ w = q[j + 1]
    BY <1>5, <2>1, <2>2
  <2> QED  BY <2>1, <2>2, <2>3, <1>4
<1>7. ASSUME w # NULL PROVE Bound(st.name, P, k, w) /\ w \in Node /\ st.f.parent[w] = d
  <2>1. PICK i \in DOMAIN q : /\ i % 2 = 1 /\ i < Len(q) /\ i + 1 \in DOMAIN q
                              /\ st.name[q[i]] = k /\ w = q[i + 1]
    BY <1>5, <1>7
  <2>2. PICK e : e = [key |-> q[i], value |-> q[i + 1]]  OBVIOUS
  <2>3. e \in P /\ e.key = q[i] /\ e.value = w  BY <2>1, <2>2, <1>3
  <2> QED  BY <2>1, <2>3, <1>2 DEF Bound
<1> QED  BY <1>6, <1>7 DEF Found

\* Two states in which d is fine and its pairs bind the same values to k give the same
\* answer.
LEMMA SameAnswerOf ==
    ASSUME NEW st, Base(st), NEW u, Base(u), NEW d \in Node, Fine(st, d), Fine(u, d), NEW k \in Key,
           \A v : Bound(u.name, Pairs(u.f.kids[d]), k, v) <=> Bound(st.name, Pairs(st.f.kids[d]), k, v)
    PROVE  plist_dict_get_item(u, d, k) = plist_dict_get_item(st, d, k)
<1>1. Base(st) /\ Base(u) /\ d \in Node /\ Fine(st, d) /\ Fine(u, d)  OBVIOUS
<1>2. PICK P, Q, v, w : /\ P = Pairs(st.f.kids[d]) /\ Q = Pairs(u.f.kids[d])
                        /\ v = plist_dict_get_item(st, d, k) /\ w = plist_dict_get_item(u, d, k)
  OBVIOUS
<1>3. Found(st.name, P, k, v)
  BY <1>1, <1>2, Answer
<1>4. Found(u.name, Q, k, w)
  BY <1>1, <1>2, Answer
<1>5. \A x : Bound(u.name, Q, k, x) <=> Bound(st.name, P, k, x)  BY <1>2
<1>6. v = w  BY ONLY <1>3, <1>4, <1>5 DEF Found
<1> QED  BY <1>2, <1>6

LEMMA SameAnswer ==
    ASSUME NEW st, Sound(st), NEW u, Sound(u), NEW d, d \in Dicts(st), d \in Dicts(u), NEW k \in Key,
           \A v : Bound(u.name, Pairs(u.f.kids[d]), k, v) <=> Bound(st.name, Pairs(st.f.kids[d]), k, v)
    PROVE  plist_dict_get_item(u, d, k) = plist_dict_get_item(st, d, k)
<1>1. Base(st) /\ Base(u) /\ d \in Node /\ Fine(st, d) /\ Fine(u, d)  BY DEF Sound, Dicts
<1> QED  BY <1>1, SameAnswerOf

\* Every dict of both states gives the same answers.
AnswersSame(st, u) ==
    \A d \in Dicts(st) \cap Dicts(u), k \in Key :
       plist_dict_get_item(u, d, k) = plist_dict_get_item(st, d, k)

\* It does when its pairs and the names of its children are the same.
LEMMA KeptAnswersOf ==
    ASSUME NEW st, Base(st), NEW u, Base(u), NEW d \in Node, Fine(st, d), Fine(u, d), NEW k \in Key,
           Pairs(u.f.kids[d]) = Pairs(st.f.kids[d]),
           \A c \in Node : st.f.parent[c] = d => u.name[c] = st.name[c]
    PROVE  plist_dict_get_item(u, d, k) = plist_dict_get_item(st, d, k)
<1>1. PICK P : P = Pairs(st.f.kids[d]) /\ P = Pairs(u.f.kids[d])  OBVIOUS
<1>2. \A e \in P : u.name[e.key] = st.name[e.key]
  <2>1. Base(st) /\ d \in Node  OBVIOUS
  <2>2. \A e \in P : \E i \in DOMAIN st.f.kids[d] : e.key = st.f.kids[d][i]  BY <1>1, PairsAre
  <2>3. \A i \in DOMAIN st.f.kids[d] : u.name[st.f.kids[d][i]] = st.name[st.f.kids[d][i]]
    <3>1. \A i \in DOMAIN st.f.kids[d] :
             st.f.kids[d][i] \in Node /\ st.f.parent[st.f.kids[d][i]] = d
      BY ONLY <2>1, ChildrenOf
    <3> QED  BY <3>1
  <2> QED  BY ONLY <2>2, <2>3
<1>3. \A v : Bound(u.name, P, k, v) <=> Bound(st.name, P, k, v)  BY <1>2 DEF Bound
<1> QED  BY <1>1, <1>3, SameAnswerOf

LEMMA KeptAnswers ==
    ASSUME NEW st, Sound(st), NEW u, Sound(u), NEW d, d \in Dicts(st), d \in Dicts(u), NEW k \in Key,
           Pairs(u.f.kids[d]) = Pairs(st.f.kids[d]),
           \A c \in Node : st.f.parent[c] = d => u.name[c] = st.name[c]
    PROVE  plist_dict_get_item(u, d, k) = plist_dict_get_item(st, d, k)
<1>1. Base(st) /\ Base(u) /\ d \in Node /\ Fine(st, d) /\ Fine(u, d)  BY DEF Sound, Dicts
<1> QED  BY <1>1, KeptAnswersOf

\* What is in use in st is so in u, with the same links.
Intact(st, u) ==
    /\ Base(u)
    /\ \A m \in Live(st) :
          /\ u.type[m] = st.type[m] /\ u.name[m] = st.name[m] /\ u.ht[m] = st.ht[m]
          /\ u.f.parent[m] = st.f.parent[m] /\ u.f.kids[m] = st.f.kids[m]

LEMMA IntactSame ==
    ASSUME NEW st, Base(st)
    PROVE  Intact(st, st)
BY DEF Intact

LEMMA IntactAnswers ==
    ASSUME NEW st, Sound(st), NEW u, Sound(u), Intact(st, u)
    PROVE  AnswersSame(st, u)
<1> SUFFICES ASSUME NEW d \in Dicts(st), d \in Dicts(u), NEW k \in Key
             PROVE  plist_dict_get_item(u, d, k) = plist_dict_get_item(st, d, k)
  BY DEF AnswersSame
<1>1. Base(st) /\ d \in Node /\ d # NULL /\ d \in Live(st)  BY NodeAssumption DEF Sound, Dicts, Live
<1>2. \A c \in Node : st.f.parent[c] = d => c \in Live(st)  BY <1>1 DEF Base, Live
<1>3. \A c \in Node : st.f.parent[c] = d => u.name[c] = st.name[c]  BY <1>2 DEF Intact
<1>4. u.f.kids[d] = st.f.kids[d]  BY <1>1 DEF Intact
<1> QED  BY <1>3, <1>4, KeptAnswers

\* A new node is one that was free; it is a root without children.
Grown(st, u, n, t, k) ==
    /\ n \in Node /\ st.type[n] = "free"
    /\ u.type[n] = t /\ u.name[n] = k
    /\ \A m \in Node : m # n => u.type[m] = st.type[m] /\ u.name[m] = st.name[m]
    /\ u.f = st.f /\ u.ht = st.ht
    /\ u.f.parent[n] = NULL /\ u.f.kids[n] = <<>> /\ u.ht[n] = NULL
    /\ Base(u)
    /\ \A m \in Node : m # n /\ Fine(st, m) => Fine(u, m)
    /\ Fine(u, n)

LEMMA NewNode ==
    ASSUME NEW st, Base(st), NEW t \in {"dict", "key", "value"}, NEW k \in Key \cup {NoName},
           t = "key" => k \in Key,
           NEW n, n = new_node(st, t, k).n, NEW u, u = new_node(st, t, k).s
    PROVE  /\ n = NULL => u = st
           /\ n # NULL => Grown(st, u, n, t, k)
<1>1. /\ n = NULL => u = st
      /\ n = Alloc[Live(st)]
      /\ n # NULL => u = [st EXCEPT !.type[n] = t, !.name[n] = k]
  BY DEF new_node
<1> SUFFICES ASSUME n # NULL PROVE Grown(st, u, n, t, k)
  BY <1>1
<1>2. n \in Node /\ n \notin Live(st)
  <2>1. Live(st) \in SUBSET Node  BY DEF Live
  <2> QED  BY <1>1, <2>1, AllocAssumption
<1>3. st.type[n] = "free"  BY <1>2 DEF Live
<1>4. u = [type |-> [st.type EXCEPT ![n] = t], name |-> [st.name EXCEPT ![n] = k],
           f |-> st.f, ht |-> st.ht]
  <2>1. st = [type |-> st.type, name |-> st.name, f |-> st.f, ht |-> st.ht]  BY Fields
  <2>2. u = [[st EXCEPT !.type = [st.type EXCEPT ![n] = t]] EXCEPT !.name = [st.name EXCEPT ![n] = k]]
    BY <1>1, <2>1
  <2> QED  BY <2>1, <2>2
<1>5. /\ u.type = [st.type EXCEPT ![n] = t] /\ u.name = [st.name EXCEPT ![n] = k]
      /\ u.f = st.f /\ u.ht = st.ht
  BY <1>4
<1>6. /\ u.type[n] = t /\ u.name[n] = k
      /\ \A m \in Node : m # n => u.type[m] = st.type[m] /\ u.name[m] = st.name[m]
  BY <1>2, <1>5, Fields
<1>7. st.f.parent[n] = NULL /\ st.f.kids[n] = <<>> /\ st.ht[n] = NULL
  BY <1>2, <1>3 DEF Base
<1>8. u \in State
  <2>1. u.type \in [Node -> {"free", "dict", "key", "value"}] /\ u.name \in [Node -> Key \cup {NoName}]
    BY <1>2, <1>5, Fields
  <2> QED  BY <1>4, <1>5, <2>1, Fields DEF State
<1>9. Base(u)
  <2>1. /\ \A m \in Node : st.ht[m] # NULL => st.type[m] = "dict"
        /\ \A m \in Node : st.f.kids[m] # <<>> => st.type[m] = "dict"
        /\ \A m \in Node : st.type[m] = "free" => st.f.parent[m] = NULL /\ st.name[m] = NoName
        /\ \A m \in Node : st.type[m] = "key" => st.name[m] \in Key
        /\ ForestInv(st.f)
    BY DEF Base
  <2>2. \A m \in Node : u.ht[m] # NULL => u.type[m] = "dict"  BY <1>5, <1>6, <1>7, <2>1
  <2>3. \A m \in Node : u.f.kids[m] # <<>> => u.type[m] = "dict"  BY <1>5, <1>6, <1>7, <2>1
  <2>4. \A m \in Node : u.type[m] = "free" => u.f.parent[m] = NULL /\ u.name[m] = NoName
    BY <1>5, <1>6, <2>1
  <2>5. \A m \in Node : u.type[m] = "key" => u.name[m] \in Key  BY <1>6, <2>1
  <2>6. ForestInv(u.f)  BY <1>5, <2>1
  <2> QED  BY <1>8, <2>2, <2>3, <2>4, <2>5, <2>6 DEF Base
<1>10. \A m \in Node : m # n /\ Fine(st, m) => Fine(u, m)
  <2> SUFFICES ASSUME NEW m \in Node, Fine(st, m) PROVE Fine(u, m)
    OBVIOUS
  <2>1. \A c \in Node : st.f.parent[c] = m => u.type[c] = st.type[c] /\ u.name[c] = st.name[c]
    BY <1>6, <1>7, NodeAssumption
  <2>2. u.f.kids[m] = st.f.kids[m] /\ u.ht[m] = st.ht[m]  BY <1>5
  <2> QED  BY <2>1, <2>2, Unaffected
<1>11. Fine(u, n)
  <2>1. u.f.kids[n] = <<>> /\ u.ht[n] = NULL  BY <1>5, <1>7
  <2>2. DOMAIN <<>> = {} /\ Len(<<>>) = 0  OBVIOUS
  <2> QED  BY <2>1, <2>2 DEF Fine, Good, Alternates
<1> QED  BY <1>2, <1>3, <1>5, <1>6, <1>7, <1>9, <1>10, <1>11 DEF Grown

\* Freeing a node detaches it and takes its whole subtree; a dict outside the
\* subtree that was not its parent is not affected.
LEMMA FreeNode ==
    ASSUME NEW st, Base(st), NEW n \in Node, NEW p, p = st.f.parent[n],
           NEW T, T = Subtree(st.f, n), NEW u, u = plist_free_node(st, n)
    PROVE  /\ Base(u)
           /\ n \in T /\ p \notin T /\ T \subseteq Node
           /\ \A m \in Node : m # n => (m \in T <=> st.f.parent[m] \in T)
           /\ \A m \in Node \ T :
                 /\ u.type[m] = st.type[m] /\ u.name[m] = st.name[m] /\ u.ht[m] = st.ht[m]
                 /\ u.f.parent[m] = st.f.parent[m]
                 /\ m # p => u.f.kids[m] = st.f.kids[m]
           /\ \A m \in T : u.type[m] = "free" /\ u.f.parent[m] = NULL /\ u.f.kids[m] = <<>>
           /\ p # NULL => p \in Node /\ u.f.kids[p] = RemoveAt(st.f.kids[p], node_child_position(st.f, p, n) + 1)
           /\ \A m \in Node \ T : m # p /\ Fine(st, m) => Fine(u, m)
<1> DEFINE cut == IF p = NULL THEN st ELSE [st EXCEPT !.f = node_detach(@, p, n).f]
           d == IF p = NULL THEN st.f ELSE node_detach(st.f, p, n).f
<1>1. u = freed(cut, Subtree(cut.f, n))  BY DEF plist_free_node
<1>2. cut.f = d /\ cut.type = st.type /\ cut.name = st.name /\ cut.ht = st.ht  BY Fields
<1>3. ForestInv(st.f) /\ st.f \in Forest /\ st.f.parent[n] \in Node \cup {NULL}  BY Fields
<1>4. ForestInv(d) /\ Subtree(d, n) = T
  <2>1. CASE p = NULL  BY <2>1, <1>3
  <2>2. CASE p # NULL
    <3>1. p \in Node  BY <2>2, <1>3
    <3>2. ForestInv(d) /\ d.parent[n] = NULL /\ d.parent = [st.f.parent EXCEPT ![n] = NULL]
      <4>1. /\ ForestInv(node_detach(st.f, p, n).f)
            /\ node_detach(st.f, p, n).f.parent[n] = NULL
            /\ node_detach(st.f, p, n).ret + 1 \in DOMAIN st.f.kids[p]
            /\ st.f.kids[p][node_detach(st.f, p, n).ret + 1] = n
            /\ node_detach(st.f, p, n).f = Unlink(st.f, p, node_detach(st.f, p, n).ret + 1)
        BY <1>3, <3>1, DetachForest
      <4> QED  BY <2>2, <4>1 DEF Unlink
    <3>3. /\ n \in T /\ T \subseteq Node /\ p \notin T
          /\ \A m \in Node : m # n => (m \in T <=> st.f.parent[m] \in T)
      BY <1>3, SubtreeCut
    <3>4. /\ n \in Subtree(d, n) /\ Subtree(d, n) \subseteq Node
          /\ \A m \in Node : m # n => (m \in Subtree(d, n) <=> d.parent[m] \in Subtree(d, n))
      <4> HIDE DEF d
      <4> QED  BY <3>2, SubtreeCut
    <3>5. \A m \in Node : m # n => d.parent[m] = st.f.parent[m]  BY <3>2, <1>3 DEF Forest
    <3>6. \A m \in Node : m \in Subtree(d, n) <=> m \in T
      <4> DEFINE U == Subtree(d, n)
                 odd == {m \in Node : ~(m \in U <=> m \in T)}
      <4> SUFFICES ASSUME odd # {} PROVE FALSE  OBVIOUS
      <4>1. Acyclic(st.f)  BY <1>3 DEF ForestInv
      <4>2. PICK m \in odd : st.f.parent[m] \notin odd  BY <4>1 DEF Acyclic
      <4>3. m # n  BY <3>3, <3>4
      <4>4. (m \in U <=> st.f.parent[m] \in U) /\ (m \in T <=> st.f.parent[m] \in T)
        BY <3>3, <3>4, <3>5, <4>3
      <4>5. st.f.parent[m] \in Node \cup {NULL}  BY <1>3 DEF Forest
      <4> QED  BY <4>2, <4>4, <4>5, <3>3, <3>4, NodeAssumption
    <3> QED  BY <3>2, <3>3, <3>4, <3>6
  <2> QED  BY <2>1, <2>2
<1> DEFINE g == Release(d, T)
<1>5. /\ ForestInv(g)
      /\ p \notin T
      /\ \A m \in T : g.kids[m] = <<>> /\ g.parent[m] = NULL
      /\ \A m \in Node \ T : g.parent[m] = st.f.parent[m] /\ (m # p => g.kids[m] = st.f.kids[m])
      /\ p # NULL => g.kids[p] = RemoveAt(st.f.kids[p], node_child_position(st.f, p, n) + 1)
  BY <1>3, FreeForest
<1>6. /\ n \in T /\ T \subseteq Node
      /\ \A m \in Node : m # n => (m \in T <=> st.f.parent[m] \in T)
  BY <1>3, SubtreeCut
<1> HIDE DEF d, cut
<1>7. u = freed(cut, T)  BY <1>1, <1>2, <1>4
<1>8. u = [type |-> [m \in Node |-> IF m \in T THEN "free" ELSE st.type[m]],
           name |-> [m \in Node |-> IF m \in T THEN NoName ELSE st.name[m]],
           f |-> g, ht |-> [m \in Node |-> IF m \in T THEN NULL ELSE st.ht[m]]]
  BY <1>2, <1>7 DEF freed
<1> HIDE DEF g
<1>9. /\ u.type = [m \in Node |-> IF m \in T THEN "free" ELSE st.type[m]]
      /\ u.name = [m \in Node |-> IF m \in T THEN NoName ELSE st.name[m]]
      /\ u.f = g
      /\ u.ht = [m \in Node |-> IF m \in T THEN NULL ELSE st.ht[m]]
  BY <1>8
<1>10. u \in State
  <2>1. u.type \in [Node -> {"free", "dict", "key", "value"}]  BY <1>9, Fields
  <2>2. u.name \in [Node -> Key \cup {NoName}]  BY <1>9, Fields
  <2>3. u.ht \in [Node -> Table \cup {NULL}]  BY <1>9, Fields
  <2>4. u.f \in Forest  BY <1>5, <1>9 DEF ForestInv
  <2> QED  BY <1>8, <1>9, <2>1, <2>2, <2>3, <2>4 DEF State
<1>11. /\ \A m \in Node \ T :
            /\ u.type[m] = st.type[m] /\ u.name[m] = st.name[m] /\ u.ht[m] = st.ht[m]
            /\ u.f.parent[m] = st.f.parent[m]
            /\ m # p => u.f.kids[m] = st.f.kids[m]
       /\ \A m \in T : u.type[m] = "free" /\ u.name[m] = NoName /\ u.ht[m] = NULL
                       /\ u.f.parent[m] = NULL /\ u.f.kids[m] = <<>>
  BY <1>5, <1>6, <1>9
<1>12. Base(u)
  <2>1. /\ \A m \in Node : st.ht[m] # NULL => st.type[m] = "dict"
        /\ \A m \in Node : st.f.kids[m] # <<>> => st.type[m] = "dict"
        /\ \A m \in Node : st.type[m] = "free" => st.f.parent[m] = NULL /\ st.name[m] = NoName
        /\ \A m \in Node : st.type[m] = "key" => st.name[m] \in Key
    BY DEF Base
  <2>2. \A m \in Node : u.ht[m] # NULL => u.type[m] = "dict"  BY <1>11, <2>1
  <2>3. \A m \in Node : u.f.kids[m] # <<>> => u.type[m] = "dict"
    <3>1. p \in Node => st.type[p] = "dict"
      <4>1. \A x \in Node : \A m \in Node : st.f.parent[m] = x =>
               \E i \in DOMAIN st.f.kids[x] : st.f.kids[x][i] = m
        <5> TAKE x \in Node
        <5> QED  BY ChildrenOf
      <4>2. DOMAIN <<>> = {}  OBVIOUS
      <4> QED  BY <4>1, <4>2, <2>1
    <3> QED  BY <3>1, <1>11, <2>1
  <2>4. \A m \in Node : u.type[m] = "free" => u.f.parent[m] = NULL /\ u.name[m] = NoName
    BY <1>11, <2>1
  <2>5. \A m \in Node : u.type[m] = "key" => u.name[m] \in Key  BY <1>11, <2>1
  <2>6. ForestInv(u.f)  BY <1>5, <1>9
  <2> QED  BY <1>10, <2>2, <2>3, <2>4, <2>5, <2>6 DEF Base
<1>13. \A m \in Node \ T : m # p /\ Fine(st, m) => Fine(u, m)
  <2> SUFFICES ASSUME NEW m \in Node \ T, m # p, Fine(st, m) PROVE Fine(u, m)
    OBVIOUS
  <2>1. \A c \in Node : st.f.parent[c] = m => c \notin T  BY <1>6
  <2>2. \A c \in Node : st.f.parent[c] = m => u.type[c] = st.type[c] /\ u.name[c] = st.name[c]
    BY <2>1, <1>11
  <2>3. u.f.kids[m] = st.f.kids[m] /\ u.ht[m] = st.ht[m]  BY <1>11
  <2> QED  BY <2>2, <2>3, Unaffected
<1> QED  BY <1>3, <1>5, <1>6, <1>9, <1>11, <1>12, <1>13

-----------------------------------------------------------------------------
(***************************************************************************)
(* Calls that free                                                         *)
(***************************************************************************)
LEMMA FreeSound ==
    ASSUME NEW st, Sound(st), NEW n \in Roots(st)
    PROVE  Sound(plist_free_node(st, n)) /\ AnswersSame(st, plist_free_node(st, n))
<1> DEFINE T == Subtree(st.f, n)
           u == plist_free_node(st, n)
<1>1. Base(st) /\ n \in Node /\ st.f.parent[n] = NULL  BY DEF Sound, Roots, Live
<1>2. /\ Base(u)
      /\ \A m \in Node \ T : u.type[m] = st.type[m] /\ u.f.parent[m] = st.f.parent[m]
      /\ \A m \in T : u.type[m] = "free"
  BY <1>1, FreeNode
<1>3. \A m \in Node \ T : m # NULL /\ Fine(st, m) => Fine(u, m)
  BY <1>1, FreeNode
<1>4. /\ \A m \in Node \ T : u.name[m] = st.name[m] /\ (m # NULL => u.f.kids[m] = st.f.kids[m])
      /\ \A m \in Node : m # n => (m \in T <=> st.f.parent[m] \in T)
  BY <1>1, FreeNode
<1> HIDE DEF u, T
<1>5. \A m \in Dicts(u) : m \in Node \ T /\ m \in Dicts(st) /\ m # NULL
  BY <1>2, NodeAssumption DEF Dicts
<1>6. \A m \in Dicts(u) : Fine(u, m)  BY <1>3, <1>5 DEF Sound
<1>7. \A m \in Node : u.type[m] = "key" => u.f.parent[m] # NULL
  <2> SUFFICES ASSUME NEW m \in Node, u.type[m] = "key" PROVE u.f.parent[m] # NULL
    OBVIOUS
  <2>1. m \in Node \ T  BY <1>2
  <2> QED  BY <2>1, <1>2 DEF Sound
<1>8. Sound(u)  BY <1>2, <1>6, <1>7 DEF Sound
<1>9. AnswersSame(st, u)
  <2> SUFFICES ASSUME NEW d \in Dicts(st), d \in Dicts(u), NEW k \in Key
               PROVE  plist_dict_get_item(u, d, k) = plist_dict_get_item(st, d, k)
    BY DEF AnswersSame
  <2>1. d \in Node \ T /\ d # NULL  BY <1>5
  <2>2. \A c \in Node : st.f.parent[c] = d => c \in Node \ T  BY <2>1, <1>1, <1>4
  <2>3. \A c \in Node : st.f.parent[c] = d => u.name[c] = st.name[c]  BY <2>2, <1>4
  <2>4. u.f.kids[d] = st.f.kids[d]  BY <2>1, <1>4
  <2> QED  BY <2>3, <2>4, <1>8, KeptAnswers
<1> QED  BY <1>8, <1>9 DEF u

\* The answers for other dicts than d and other keys than k are the same.
OthersSame(st, u, d, k) ==
    \A m \in Dicts(st) \cap Dicts(u), j \in Key :
       m # d \/ j # k => plist_dict_get_item(u, m, j) = plist_dict_get_item(st, m, j)

\* The table without the pair at position i, then the key and the value are freed.
LEMMA RemovePair ==
    ASSUME NEW st, Sound(st), NEW d \in Dicts(st), NEW i \in 1..Len(st.f.kids[d]), i % 2 = 1
    PROVE  /\ Sound(remove_pair(st, d, st.f.kids[d][i], st.f.kids[d][i + 1]))
           /\ OthersSame(st, remove_pair(st, d, st.f.kids[d][i], st.f.kids[d][i + 1]),
                         d, st.name[st.f.kids[d][i]])
<1> DEFINE q == st.f.kids[d]
           key == q[i]
           old == q[i + 1]
           o == [key |-> key, value |-> old]
           u0 == IF st.ht[d] = NULL THEN st
                 ELSE [st EXCEPT !.ht[d] = hash_table_remove(st, @, st.name[key])]
           u1 == plist_free_node(u0, key)
           u2 == plist_free_node(u1, old)
           T1 == Subtree(u0.f, key)
           T2 == Subtree(u1.f, old)
<1>1. Base(st) /\ d \in Node /\ Fine(st, d) /\ st.type[d] = "dict"  BY DEF Sound, Dicts
<1>2. /\ q \in Seq(Node) /\ Len(q) \in Nat /\ DOMAIN q = 1..Len(q)
      /\ \A j \in DOMAIN q : q[j] \in Node /\ st.f.parent[q[j]] = d
      /\ \A j, k \in DOMAIN q : q[j] = q[k] => j = k
      /\ Good(st.type, st.name, q, st.ht[d])
  BY <1>1, ChildrenOf DEF Fine
<1>3. Len(q) % 2 = 0 /\ i \in DOMAIN q /\ i + 1 \in DOMAIN q /\ i < Len(q) /\ i # i + 1
  <2>1. Len(q) % 2 = 0  BY <1>2 DEF Good
  <2> HIDE DEF q
  <2>2. i \in 1..Len(q)  BY DEF q
  <2> QED  BY <1>2, <2>1, <2>2
<1>4. key \in Node /\ old \in Node /\ key # old /\ st.f.parent[key] = d /\ st.f.parent[old] = d
  BY <1>2, <1>3
<1>5. st.type[key] = "key" /\ st.name[key] \in Key
  <2>1. st.type[key] = "key"  BY <1>2, <1>3 DEF Good, Alternates
  <2> QED  BY <2>1, <1>1, <1>4 DEF Base
<1>6. st.ht[d] # NULL => Holds(st.name, hash_table_remove(st, st.ht[d], st.name[key]), Pairs(q) \ {o})
  <2> SUFFICES ASSUME st.ht[d] # NULL
               PROVE  Holds(st.name, hash_table_remove(st, st.ht[d], st.name[key]), Pairs(q) \ {o})
    OBVIOUS
  <2>1. Holds(st.name, st.ht[d], Pairs(q))  BY <1>2 DEF Good
  <2>2. o \in Pairs(q) /\ o.key = key  BY <1>3, PairsAre
  <2> HIDE DEF o, key, q
  <2>3. \A t, P, e : Holds(st.name, t, P) /\ e \in P /\ st.name[e.key] \in Key =>
            Holds(st.name, hash_table_remove(st, t, st.name[e.key]), P \ {e})
    <3> TAKE t, P, e
    <3> QED  BY RemoveHit
  <2> QED  BY <2>1, <2>2, <2>3, <1>5
<1>7. /\ u0.type = st.type /\ u0.name = st.name /\ u0.f = st.f
      /\ \A m \in Node \ {d} : u0.ht[m] = st.ht[m]
      /\ u0.ht[d] # NULL => Holds(st.name, u0.ht[d], Pairs(q) \ {o})
      /\ Base(u0)
  <2>1. CASE st.ht[d] = NULL  BY <2>1, <1>1
  <2>2. CASE st.ht[d] # NULL
    <3> DEFINE t == hash_table_remove(st, st.ht[d], st.name[key])
    <3>1. st = [type |-> st.type, name |-> st.name, f |-> st.f, ht |-> st.ht]  BY <1>1, Fields
    <3>2. u0 = [type |-> st.type, name |-> st.name, f |-> st.f, ht |-> [st.ht EXCEPT ![d] = t]]
      BY <2>2, <3>1
    <3>3. t \in Table  BY <2>2, <1>6 DEF Holds
    <3>4. st.ht \in [Node -> Table \cup {NULL}]  BY <1>1, Fields
    <3> HIDE DEF t, u0
    <3>5. u0.ht = [st.ht EXCEPT ![d] = t] /\ u0.type = st.type /\ u0.name = st.name /\ u0.f = st.f
      BY <3>2
    <3>6. u0.ht \in [Node -> Table \cup {NULL}] /\ u0.ht[d] = t /\ \A m \in Node \ {d} : u0.ht[m] = st.ht[m]
      BY <3>3, <3>4, <3>5, <1>1
    <3>7. u0 \in State
      <4>1. st.type \in [Node -> {"free", "dict", "key", "value"}] /\ st.name \in [Node -> Key \cup {NoName}]
            /\ st.f \in Forest
        BY <1>1, Fields
      <4> QED  BY <3>2, <3>5, <3>6, <4>1 DEF State
    <3>8. Base(u0)  BY <3>5, <3>6, <3>7, <1>1 DEF Base
    <3> QED  BY <3>5, <3>6, <3>8, <2>2, <1>6 DEF t
  <2> QED  BY <2>1, <2>2
<1> HIDE DEF u0
<1>8. /\ Base(u1)
      /\ d \notin T1 /\ old \notin T1 /\ key \in T1
      /\ \A m \in Node : m # key => (m \in T1 <=> st.f.parent[m] \in T1)
      /\ \A m \in Node \ T1 :
            /\ u1.type[m] = st.type[m] /\ u1.name[m] = st.name[m] /\ u1.ht[m] = u0.ht[m]
            /\ u1.f.parent[m] = st.f.parent[m]
            /\ m # d => u1.f.kids[m] = st.f.kids[m]
      /\ \A m \in T1 : u1.type[m] = "free"
      /\ u1.f.kids[d] = RemoveAt(q, i)
      /\ \A m \in Node \ T1 : m # d /\ Fine(u0, m) => Fine(u1, m)
  <2>1. ForestInv(u0.f)  BY <1>7, Fields
  <2>2. node_child_position(u0.f, d, key) = i - 1  BY <2>1, <1>1, <1>3, <1>7, Position
  <2>3. u0.f.parent[key] = d /\ d # NULL  BY <1>1, <1>4, <1>7, NodeAssumption
  <2>4. /\ Base(u1) /\ key \in T1
        /\ d \notin T1
        /\ \A m \in Node : m # key => (m \in T1 <=> u0.f.parent[m] \in T1)
        /\ \A m \in Node \ T1 :
              /\ u1.type[m] = u0.type[m] /\ u1.name[m] = u0.name[m] /\ u1.ht[m] = u0.ht[m]
              /\ u1.f.parent[m] = u0.f.parent[m]
              /\ m # d => u1.f.kids[m] = u0.f.kids[m]
        /\ \A m \in T1 : u1.type[m] = "free"
        /\ u1.f.kids[d] = RemoveAt(u0.f.kids[d], node_child_position(u0.f, d, key) + 1)
        /\ \A m \in Node \ T1 : m # d /\ Fine(u0, m) => Fine(u1, m)
    <3> HIDE DEF key
    <3>1. PICK p : p = u0.f.parent[key] /\ p = d  BY <2>3
    <3>2. PICK T : T = T1  OBVIOUS
    <3>3. PICK u : u = u1  OBVIOUS
    <3> HIDE DEF u1, T1
    <3>4. /\ Base(u) /\ key \in T
          /\ p \notin T
          /\ \A m \in Node : m # key => (m \in T <=> u0.f.parent[m] \in T)
          /\ \A m \in Node \ T :
                /\ u.type[m] = u0.type[m] /\ u.name[m] = u0.name[m] /\ u.ht[m] = u0.ht[m]
                /\ u.f.parent[m] = u0.f.parent[m]
                /\ m # p => u.f.kids[m] = u0.f.kids[m]
          /\ \A m \in T : u.type[m] = "free"
          /\ p # NULL => u.f.kids[p] = RemoveAt(u0.f.kids[p], node_child_position(u0.f, p, key) + 1)
          /\ \A m \in Node \ T : m # p /\ Fine(u0, m) => Fine(u, m)
      BY <3>1, <3>2, <3>3, <1>4, <1>7, FreeNode DEF u1, T1
    <3> QED  BY <3>1, <3>2, <3>3, <3>4, <2>3
  <2>5. i - 1 + 1 = i  BY <1>2, <1>3
  <2> HIDE DEF u1, T1, key, old, q
  <2>6. old \notin T1  BY <2>4, <1>4, <1>7
  <2>7. u1.f.kids[d] = RemoveAt(q, i)  BY <2>2, <2>4, <2>5, <1>7 DEF q
  <2> QED  BY <2>4, <2>6, <2>7, <1>7
<1> HIDE DEF u1, T1
<1>9. u1.f.parent[old] = d  BY <1>4, <1>8
<1>10. /\ Base(u2)
       /\ d \notin T2 /\ old \in T2
       /\ \A m \in Node : m # old => (m \in T2 <=> u1.f.parent[m] \in T2)
       /\ \A m \in Node \ T2 :
             /\ u2.type[m] = u1.type[m] /\ u2.name[m] = u1.name[m] /\ u2.ht[m] = u1.ht[m]
             /\ u2.f.parent[m] = u1.f.parent[m]
             /\ m # d => u2.f.kids[m] = u1.f.kids[m]
       /\ \A m \in T2 : u2.type[m] = "free"
       /\ u2.f.kids[d] = RemoveAt(RemoveAt(q, i), i)
       /\ \A m \in Node \ T2 : m # d /\ Fine(u1, m) => Fine(u2, m)
  <2>1. ForestInv(u1.f)  BY <1>8, Fields
  <2>2. i \in DOMAIN u1.f.kids[d] /\ u1.f.kids[d][i] = old
    <3> HIDE DEF q
    <3>1. i \in 1..Len(q) /\ i \in 1..(Len(q) - 1)  BY <1>2, <1>3
    <3>2. /\ RemoveAt(q, i) \in Seq(Node) /\ Len(RemoveAt(q, i)) = Len(q) - 1
          /\ \A j \in 1..(Len(q) - 1) : RemoveAt(q, i)[j] = IF j < i THEN q[j] ELSE q[j + 1]
      BY <1>2, <3>1, RemoveAtProperties
    <3>3. DOMAIN RemoveAt(q, i) = 1..(Len(q) - 1)  BY <3>2, LenProperties
    <3>4. ~(i < i)  BY <1>2, <1>3
    <3> QED  BY <3>1, <3>2, <3>3, <3>4, <1>8
  <2>3. node_child_position(u1.f, d, old) = i - 1
    BY <2>1, <2>2, <1>1, Position
  <2>4. d # NULL  BY <1>1, NodeAssumption
  <2>5. /\ Base(u2) /\ old \in T2
        /\ d \notin T2
        /\ \A m \in Node : m # old => (m \in T2 <=> u1.f.parent[m] \in T2)
        /\ \A m \in Node \ T2 :
              /\ u2.type[m] = u1.type[m] /\ u2.name[m] = u1.name[m] /\ u2.ht[m] = u1.ht[m]
              /\ u2.f.parent[m] = u1.f.parent[m]
              /\ m # d => u2.f.kids[m] = u1.f.kids[m]
        /\ \A m \in T2 : u2.type[m] = "free"
        /\ u2.f.kids[d] = RemoveAt(u1.f.kids[d], node_child_position(u1.f, d, old) + 1)
        /\ \A m \in Node \ T2 : m # d /\ Fine(u1, m) => Fine(u2, m)
    <3> HIDE DEF old
    <3>1. PICK p : p = u1.f.parent[old] /\ p = d  BY <1>9
    <3>2. PICK T : T = T2  OBVIOUS
    <3>3. PICK u : u = u2  OBVIOUS
    <3> HIDE DEF u2, T2
    <3>4. /\ Base(u) /\ old \in T
          /\ p \notin T
          /\ \A m \in Node : m # old => (m \in T <=> u1.f.parent[m] \in T)
          /\ \A m \in Node \ T :
                /\ u.type[m] = u1.type[m] /\ u.name[m] = u1.name[m] /\ u.ht[m] = u1.ht[m]
                /\ u.f.parent[m] = u1.f.parent[m]
                /\ m # p => u.f.kids[m] = u1.f.kids[m]
          /\ \A m \in T : u.type[m] = "free"
          /\ p # NULL => u.f.kids[p] = RemoveAt(u1.f.kids[p], node_child_position(u1.f, p, old) + 1)
          /\ \A m \in Node \ T : m # p /\ Fine(u1, m) => Fine(u, m)
      BY <3>1, <3>2, <3>3, <1>4, <1>8, FreeNode DEF u2, T2
    <3> QED  BY <3>1, <3>2, <3>3, <3>4, <2>4
  <2>6. i - 1 + 1 = i  BY <1>2, <1>3
  <2> QED  BY <2>3, <2>5, <2>6, <1>8
<1>11. remove_pair(st, d, key, old) = u2
  <2>1. old # NULL  BY <1>4, NodeAssumption
  <2> QED  BY <2>1 DEF remove_pair, u0, u1
<1> HIDE DEF u2, T2
<1>12. /\ Fine(u2, d)
       /\ Pairs(u2.f.kids[d]) = Pairs(q) \ {o}
       /\ \A h \in DOMAIN q : h \notin {i, i + 1} => u2.name[q[h]] = st.name[q[h]]
  <2> DEFINE r == RemoveAt(RemoveAt(q, i), i)
  <2>1. u2.ht[d] # NULL => Holds(st.name, u2.ht[d], Pairs(q) \ {o})
    BY <1>1, <1>7, <1>8, <1>10
  <2>2. /\ Good(st.type, st.name, r, u2.ht[d])
        /\ \A j \in DOMAIN r : \E k \in DOMAIN q : k \notin {i, i + 1} /\ r[j] = q[k]
        /\ Pairs(r) = Pairs(q) \ {o}
    <3> HIDE DEF q, r
    <3>1. i \in 1..Len(q) /\ o = [key |-> q[i], value |-> q[i + 1]]  BY <1>2, <1>3
    <3>2. PICK ty, nm, t, u : ty = st.type /\ nm = st.name /\ t = st.ht[d] /\ u = u2.ht[d]
      OBVIOUS
    <3>3. Good(ty, nm, q, t) /\ (u = NULL \/ Holds(nm, u, Without(Pairs(q), Pair(q[i], q[i + 1]))))
      BY <3>1, <3>2, <2>1, <1>2 DEF Without, Pair
    <3>4. /\ Good(ty, nm, RemoveAt(RemoveAt(q, i), i), u)
          /\ Left(q, i, RemoveAt(RemoveAt(q, i), i))
          /\ Dropped(q, i, RemoveAt(RemoveAt(q, i), i))
      BY <3>1, <3>3, <1>2, GoodRemove
    <3> QED  BY <3>1, <3>2, <3>4 DEF r, Left, Dropped, Without, Pair
  <2>3. \A k \in DOMAIN q : k \notin {i, i + 1} =>
           u2.type[q[k]] = st.type[q[k]] /\ u2.name[q[k]] = st.name[q[k]]
    <3> SUFFICES ASSUME NEW k \in DOMAIN q, k \notin {i, i + 1}
                 PROVE  u2.type[q[k]] = st.type[q[k]] /\ u2.name[q[k]] = st.name[q[k]]
      OBVIOUS
    <3> HIDE DEF q
    <3>1. q[k] \in Node /\ st.f.parent[q[k]] = d /\ q[k] # q[i] /\ q[k] # q[i + 1]
      BY <1>2, <1>3
    <3>2. q[k] \notin T1  BY <3>1, <1>8
    <3>3. u1.f.parent[q[k]] = d  BY <3>1, <3>2, <1>8
    <3>4. q[k] \notin T2  BY <3>1, <3>3, <1>10
    <3> QED  BY <3>1, <3>2, <3>4, <1>8, <1>10
  <2> HIDE DEF r, q
  <2>4. \A j \in DOMAIN r : u2.type[r[j]] = st.type[r[j]] /\ u2.name[r[j]] = st.name[r[j]]
    BY <2>2, <2>3
  <2>5. Good(u2.type, u2.name, r, u2.ht[d])  BY <2>2, <2>4, GoodFrame
  <2> QED  BY <2>2, <2>3, <2>5, <1>10 DEF Fine, r
<1>13. \A m \in Dicts(u2) : m \in Node \ T1 /\ m \in Node \ T2 /\ m \in Dicts(st)
  <2> SUFFICES ASSUME NEW m \in Dicts(u2)
               PROVE  m \in Node \ T1 /\ m \in Node \ T2 /\ m \in Dicts(st)
    OBVIOUS
  <2>1. m \in Node /\ u2.type[m] = "dict"  BY DEF Dicts
  <2>2. m \in Node \ T2 /\ u1.type[m] = "dict"  BY <2>1, <1>10
  <2>3. m \in Node \ T1 /\ st.type[m] = "dict"  BY <2>2, <1>8
  <2> QED  BY <2>2, <2>3 DEF Dicts
<1>14. \A m \in Dicts(u2) : Fine(u2, m)
  <2> SUFFICES ASSUME NEW m \in Dicts(u2), m # d PROVE Fine(u2, m)
    BY <1>12
  <2>1. m \in Node \ T1 /\ m \in Node \ T2 /\ Fine(st, m)  BY <1>13 DEF Sound
  <2>2. Fine(u0, m)  BY <2>1, <1>7 DEF Fine
  <2> QED  BY <2>1, <2>2, <1>8, <1>10
<1>15. \A m \in Node : u2.type[m] = "key" => u2.f.parent[m] # NULL
  <2> SUFFICES ASSUME NEW m \in Node, u2.type[m] = "key" PROVE u2.f.parent[m] # NULL
    OBVIOUS
  <2>1. m \in Node \ T2 /\ u1.type[m] = "key"  BY <1>10
  <2>2. m \in Node \ T1 /\ st.type[m] = "key"  BY <2>1, <1>8
  <2> QED  BY <2>1, <2>2, <1>8, <1>10 DEF Sound
<1>16. Sound(u2)  BY <1>10, <1>14, <1>15 DEF Sound
<1>17. OthersSame(st, u2, d, st.name[key])
  <2> SUFFICES ASSUME NEW m \in Dicts(st), m \in Dicts(u2), NEW j \in Key, m # d \/ j # st.name[key]
               PROVE  plist_dict_get_item(u2, m, j) = plist_dict_get_item(st, m, j)
    BY DEF OthersSame
  <2>1. CASE m # d
    <3>1. m \in Node \ T1 /\ m \in Node \ T2  BY <1>13
    <3>2. u2.f.kids[m] = st.f.kids[m]  BY <2>1, <3>1, <1>8, <1>10
    <3>3. \A c \in Node : st.f.parent[c] = m => u2.name[c] = st.name[c]
      <4> SUFFICES ASSUME NEW c \in Node, st.f.parent[c] = m PROVE u2.name[c] = st.name[c]
        OBVIOUS
      <4>1. c # key /\ c # old  BY <2>1, <1>4
      <4>2. c \in Node \ T1  BY <3>1, <4>1, <1>8
      <4>3. c \in Node \ T2  BY <3>1, <4>1, <4>2, <1>8, <1>10
      <4> QED  BY <4>2, <4>3, <1>8, <1>10
    <3> QED  BY <3>2, <3>3, <1>16, KeptAnswers
  <2>2. CASE m = d
    <3>1. \A e \in Pairs(q) : e # o => u2.name[e.key] = st.name[e.key]
      <4> SUFFICES ASSUME NEW e \in Pairs(q), e # o PROVE u2.name[e.key] = st.name[e.key]
        OBVIOUS
      <4>1. PICK h \in DOMAIN q : h % 2 = 1 /\ e = [key |-> q[h], value |-> q[h + 1]]  BY PairsAre
      <4>2. h # i  BY <4>1
      <4>3. h # i + 1  BY <4>1, <1>2, <1>3
      <4> QED  BY <4>1, <4>2, <4>3, <1>12
    <3>2. st.name[o.key] # j  BY <2>2
    <3>3. PICK P, Q : P = Pairs(q) /\ Q = P \ {o} /\ Q = Pairs(u2.f.kids[d])  BY <1>12
    <3>4. \A v : Bound(u2.name, Q, j, v) <=> Bound(st.name, P, j, v)
      BY <3>1, <3>2, <3>3 DEF Bound
    <3>5. \A v : Bound(u2.name, Pairs(u2.f.kids[d]), j, v) <=> Bound(st.name, Pairs(st.f.kids[d]), j, v)
      BY ONLY <3>3, <3>4 DEF q
    <3>6. d \in Dicts(u2)  BY <2>2
    <3> HIDE DEF u2
    <3>7. plist_dict_get_item(u2, d, j) = plist_dict_get_item(st, d, j)
      BY <3>5, <3>6, <1>16, SameAnswer
    <3> QED  BY <2>2, <3>7
  <2> QED  BY <2>1, <2>2
<1> QED  BY <1>11, <1>16, <1>17

LEMMA RemoveItemSound ==
    ASSUME NEW st, Sound(st), NEW d \in Dicts(st), NEW k \in Key
    PROVE  /\ Sound(plist_dict_remove_item(st, d, k))
           /\ OthersSame(st, plist_dict_remove_item(st, d, k), d, k)
<1> DEFINE q == st.f.kids[d]
           old == plist_dict_get_item(st, d, k)
<1>1. Base(st) /\ d \in Node /\ Fine(st, d)  BY DEF Sound, Dicts
<1>2. plist_dict_remove_item(st, d, k) = remove_pair(st, d, key_before(st, d, old), old)
  BY DEF plist_dict_remove_item
<1>3. CASE old = NULL  BY <1>2, <1>3 DEF remove_pair, OthersSame
<1>4. CASE old # NULL
  <2>1. PICK i \in DOMAIN q : i % 2 = 1 /\ i + 1 \in DOMAIN q /\ st.name[q[i]] = k /\ old = q[i + 1]
    BY <1>1, <1>4, GetItem
  <2>2. DOMAIN q = 1..Len(q) /\ Len(q) \in Nat  BY <1>1, ChildrenOf
  <2>3. node_child_position(st.f, d, old) = i + 1 - 1
    <3>1. ForestInv(st.f)  BY <1>1, Fields
    <3> QED  BY <3>1, <2>1, <1>1, Position
  <2>4. key_before(st, d, old) = q[i]  BY <2>1, <2>2, <2>3 DEF key_before, Kids
  <2> QED  BY <1>2, <2>1, <2>2, <2>4, RemovePair
<1> QED  BY <1>3, <1>4

\* A setter takes the children of n and its table; n stays where it is.
LEMMA SetValueSound ==
    ASSUME NEW st, Sound(st), NEW n \in Live(st), st.type[n] # "key"
    PROVE  Sound(plist_set_element_val(st, n)) /\ AnswersSame(st, plist_set_element_val(st, n))
<1> DEFINE T == Subtree(st.f, n)
           S == T \ {n}
           g == Emptied(st.f, n)
           u == plist_set_element_val(st, n)
<1>1. Base(st) /\ n \in Node /\ st.type[n] \notin {"key", "free"}  BY DEF Sound, Live
<1>2. /\ st.type \in [Node -> {"free", "dict", "key", "value"}]
      /\ st.name \in [Node -> Key \cup {NoName}]
      /\ ForestInv(st.f)
      /\ st.ht \in [Node -> Table \cup {NULL}]
  BY <1>1, Fields
<1>3. [Release(st.f, S) EXCEPT !.kids[n] = <<>>] = g /\ ForestInv(g)
  BY <1>1, <1>2, EmptiedForest
<1>4. n \in T /\ T \subseteq Node /\ \A m \in Node : m # n => (m \in T <=> st.f.parent[m] \in T)
  BY <1>1, <1>2, SubtreeCut
<1>5. /\ \A m \in T : g.kids[m] = <<>>
      /\ \A m \in Node \ T : g.kids[m] = st.f.kids[m]
      /\ \A m \in S : g.parent[m] = NULL
      /\ \A m \in Node \ S : g.parent[m] = st.f.parent[m]
  BY <1>4 DEF Emptied
<1> HIDE DEF g, T
<1>6. u = [type |-> [m \in Node |-> IF m = n THEN "value" ELSE IF m \in S THEN "free" ELSE st.type[m]],
           name |-> [m \in Node |-> IF m \in S THEN NoName ELSE st.name[m]],
           f |-> g, ht |-> [m \in Node |-> IF m \in T THEN NULL ELSE st.ht[m]]]
  <2> DEFINE F == Release(st.f, S)
             ty == [m \in Node |-> IF m \in S THEN "free" ELSE st.type[m]]
             nm == [m \in Node |-> IF m \in S THEN NoName ELSE st.name[m]]
             ht == [m \in Node |-> IF m \in S THEN NULL ELSE st.ht[m]]
             bare == [type |-> ty, name |-> nm, f |-> F, ht |-> ht]
  <2>1. u = [bare EXCEPT !.f.kids[n] = <<>>, !.type[n] = "value", !.ht[n] = NULL]
    BY DEF plist_set_element_val, freed, T
  <2>2. [F EXCEPT !.kids[n] = <<>>] = g  BY <1>3
  <2>3. [ty EXCEPT ![n] = "value"] = [m \in Node |-> IF m = n THEN "value" ELSE IF m \in S THEN "free" ELSE st.type[m]]
    BY <1>1
  <2>4. [ht EXCEPT ![n] = NULL] = [m \in Node |-> IF m \in T THEN NULL ELSE st.ht[m]]
    BY <1>1, <1>4
  <2> HIDE DEF F, ty, nm, ht
  <2>5. u = [type |-> [ty EXCEPT ![n] = "value"], name |-> nm, f |-> [F EXCEPT !.kids[n] = <<>>],
             ht |-> [ht EXCEPT ![n] = NULL]]
    BY <2>1
  <2> QED  BY <2>2, <2>3, <2>4, <2>5 DEF nm
<1>7. /\ u.type = [m \in Node |-> IF m = n THEN "value" ELSE IF m \in S THEN "free" ELSE st.type[m]]
      /\ u.name = [m \in Node |-> IF m \in S THEN NoName ELSE st.name[m]]
      /\ u.f = g /\ u.ht = [m \in Node |-> IF m \in T THEN NULL ELSE st.ht[m]]
  BY <1>6
<1>8. u \in State
  <2>1. u.type \in [Node -> {"free", "dict", "key", "value"}]  BY <1>2, <1>7
  <2>2. u.name \in [Node -> Key \cup {NoName}]  BY <1>2, <1>7
  <2>3. u.ht \in [Node -> Table \cup {NULL}]  BY <1>2, <1>7
  <2>4. u.f \in Forest  BY <1>3, <1>7 DEF ForestInv
  <2> QED  BY <1>6, <1>7, <2>1, <2>2, <2>3, <2>4 DEF State
<1>9. /\ u.type[n] = "value" /\ u.name[n] = st.name[n]
      /\ \A m \in S : u.type[m] = "free" /\ u.name[m] = NoName
      /\ \A m \in Node \ T : u.type[m] = st.type[m] /\ u.name[m] = st.name[m] /\ u.ht[m] = st.ht[m]
      /\ \A m \in T : u.ht[m] = NULL
  BY <1>1, <1>4, <1>7
<1>10. \A m \in Node : m = n \/ m \in S \/ m \in Node \ T  BY <1>4
<1> HIDE DEF u, S
<1>11. Base(u)
  <2>1. /\ \A m \in Node : st.ht[m] # NULL => st.type[m] = "dict"
        /\ \A m \in Node : st.f.kids[m] # <<>> => st.type[m] = "dict"
        /\ \A m \in Node : st.type[m] = "free" => st.f.parent[m] = NULL /\ st.name[m] = NoName
        /\ \A m \in Node : st.type[m] = "key" => st.name[m] \in Key
    BY <1>1 DEF Base
  <2>2. \A m \in Node : u.ht[m] # NULL => u.type[m] = "dict"
    BY <2>1, <1>9
  <2>3. \A m \in Node : u.f.kids[m] # <<>> => u.type[m] = "dict"  BY <2>1, <1>5, <1>7, <1>9
  <2>4. \A m \in Node : u.type[m] = "free" => u.f.parent[m] = NULL /\ u.name[m] = NoName
    <3> SUFFICES ASSUME NEW m \in Node, u.type[m] = "free"
                 PROVE  u.f.parent[m] = NULL /\ u.name[m] = NoName
      OBVIOUS
    <3>1. CASE m \in S  BY <3>1, <1>5, <1>7, <1>9
    <3>2. CASE m \notin S
      <4>1. m \in Node \ T  BY <3>2, <1>9, <1>10
      <4> QED  BY <4>1, <3>2, <2>1, <1>5, <1>7, <1>9
    <3> QED  BY <3>1, <3>2
  <2>5. \A m \in Node : u.type[m] = "key" => u.name[m] \in Key  BY <2>1, <1>9, <1>10
  <2>6. ForestInv(u.f)  BY <1>3, <1>7
  <2> QED  BY <1>8, <2>2, <2>3, <2>4, <2>5, <2>6 DEF Base
<1>12. \A m \in Dicts(u) : Fine(u, m)
  <2> SUFFICES ASSUME NEW m \in Node, u.type[m] = "dict" PROVE Fine(u, m)
    BY DEF Dicts
  <2>1. m \in Node \ T /\ st.type[m] = "dict"  BY <1>9, <1>10
  <2>2. Fine(st, m)  BY <2>1 DEF Sound, Dicts
  <2>3. \A c \in Node : st.f.parent[c] = m => c = n \/ c \in Node \ T  BY <2>1, <1>4
  <2>4. \A c \in Node : st.f.parent[c] = m =>
           (u.type[c] = "key" <=> st.type[c] = "key") /\ u.name[c] = st.name[c]
    BY <2>3, <1>1, <1>9
  <2>5. u.f.kids[m] = st.f.kids[m] /\ u.ht[m] = st.ht[m]  BY <2>1, <1>5, <1>7, <1>9
  <2> QED  BY <2>1, <2>2, <2>4, <2>5, <1>1, Unaffected
<1>13. \A m \in Node : u.type[m] = "key" => u.f.parent[m] # NULL
  <2> SUFFICES ASSUME NEW m \in Node, u.type[m] = "key" PROVE u.f.parent[m] # NULL
    OBVIOUS
  <2>1. m \in Node \ T /\ m \in Node \ S /\ st.type[m] = "key"  BY <1>9, <1>10 DEF S
  <2> QED  BY <2>1, <1>5, <1>7 DEF Sound
<1>14. Sound(u)  BY <1>11, <1>12, <1>13 DEF Sound
<1>15. AnswersSame(st, u)
  <2> SUFFICES ASSUME NEW m \in Dicts(st), m \in Dicts(u), NEW k \in Key
               PROVE  plist_dict_get_item(u, m, k) = plist_dict_get_item(st, m, k)
    BY DEF AnswersSame
  <2>1. m \in Node \ T  BY <1>9, <1>10 DEF Dicts
  <2>2. \A c \in Node : st.f.parent[c] = m => c = n \/ c \in Node \ T  BY <2>1, <1>4
  <2>3. \A c \in Node : st.f.parent[c] = m => u.name[c] = st.name[c]  BY <2>2, <1>9
  <2>4. u.f.kids[m] = st.f.kids[m]  BY <2>1, <1>5, <1>7
  <2> QED  BY <2>3, <2>4, <1>14, KeptAnswers
<1> QED  BY <1>14, <1>15 DEF u

-----------------------------------------------------------------------------
(***************************************************************************)
(* Sorting                                                                 *)
(***************************************************************************)
\* A forest stays one when children lists are permuted.
LEMMA PermutedForest ==
    ASSUME NEW f, ForestInv(f), NEW g \in Forest, g.parent = f.parent,
           \A p \in Node : Children(g, p) = Children(f, p),
           \A p \in Node : \A i, j \in DOMAIN g.kids[p] : g.kids[p][i] = g.kids[p][j] => i = j
    PROVE  ForestInv(g)
<1>1. Linked(g)  BY DEF ForestInv, Linked
<1>2. Acyclic(g)  BY DEF ForestInv, Acyclic
<1>3. \A n : Ancestors(g, n) = Ancestors(f, n)  BY DEF Ancestors, ClosedAbove, Parents
<1>4. Shallow(g)  BY <1>3 DEF ForestInv, Shallow, Depth
<1> QED  BY <1>1, <1>2, <1>4 DEF ForestInv

\* Where the sets B[i] of what comes before i grow strictly from one to the
\* next, their sizes number the places: each is taken once.
LEMMA RanksAre ==
    ASSUME NEW n \in Nat, NEW B,
           \A i \in 1..n : B[i] \in SUBSET (1..n) /\ i \notin B[i],
           \A i, j \in 1..n : i # j => \/ i \in B[j] /\ B[i] \subseteq B[j]
                                       \/ j \in B[i] /\ B[j] \subseteq B[i]
    PROVE  /\ \A i \in 1..n : Cardinality(B[i]) + 1 \in 1..n
           /\ \A i, j \in 1..n : Cardinality(B[i]) = Cardinality(B[j]) => i = j
           /\ \A r \in 1..n : \E i \in 1..n : Cardinality(B[i]) + 1 = r
<1> DEFINE P == 1..n
<1>1. IsFiniteSet(P) /\ Cardinality(P) = n
  <2>1. 1 \in Int /\ n \in Int  OBVIOUS
  <2> QED  BY <2>1, FS_Interval
<1>2. \A r \in P : IsFiniteSet(P \ {r}) /\ Cardinality(P \ {r}) = n - 1
  <2> TAKE r \in P
  <2> HIDE DEF P
  <2> QED  BY <1>1, FS_RemoveElement
<1>3. \A i \in P : /\ IsFiniteSet(B[i]) /\ Cardinality(B[i]) \in Nat
                   /\ Cardinality(B[i]) + 1 <= n
  <2> TAKE i \in P
  <2>1. PICK b, c : b = B[i] /\ c = P \ {i}  OBVIOUS
  <2>2. b \in SUBSET c  BY <2>1
  <2>3. IsFiniteSet(c) /\ Cardinality(c) = n - 1  BY <2>1, <1>2
  <2>4. IsFiniteSet(b) /\ Cardinality(b) <= Cardinality(c)  BY ONLY <2>2, <2>3, FS_Subset
  <2>5. Cardinality(b) \in Nat  BY <2>4, FS_CardinalityType
  <2>6. Cardinality(b) + 1 <= n  BY <2>3, <2>4, <2>5
  <2> QED  BY <2>1, <2>4, <2>5, <2>6
<1>4. \A i, j \in P : i \in B[j] /\ B[i] \subseteq B[j] => Cardinality(B[i]) < Cardinality(B[j])
  <2> SUFFICES ASSUME NEW i \in P, NEW j \in P, i \in B[j], B[i] \subseteq B[j]
               PROVE  Cardinality(B[i]) < Cardinality(B[j])
    OBVIOUS
  <2>1. PICK b, c : b = B[i] /\ c = B[j]  OBVIOUS
  <2>2. b \in SUBSET (c \ {i}) /\ i \in c  BY <2>1
  <2>3. IsFiniteSet(c) /\ Cardinality(c) \in Nat /\ Cardinality(b) \in Nat  BY <2>1, <1>3
  <2>4. IsFiniteSet(c \ {i}) /\ Cardinality(c \ {i}) = Cardinality(c) - 1
    BY ONLY <2>2, <2>3, FS_RemoveElement
  <2>5. Cardinality(b) <= Cardinality(c \ {i})  BY ONLY <2>2, <2>4, FS_Subset
  <2>6. Cardinality(b) < Cardinality(c)  BY ONLY <2>3, <2>4, <2>5
  <2> QED  BY <2>1, <2>6
<1>5. PICK card : card = [i \in P |-> Cardinality(B[i])]  OBVIOUS
<1>6. /\ \A i \in P : card[i] = Cardinality(B[i])
      /\ \A i \in P : card[i] \in Nat /\ card[i] + 1 \in P
  BY <1>3, <1>5
<1>7. \A i, j \in P : card[i] = card[j] => i = j
  <2> SUFFICES ASSUME NEW i \in P, NEW j \in P, card[i] = card[j], i # j PROVE FALSE
    OBVIOUS
  <2>1. card[i] \in Nat /\ card[j] \in Nat  BY <1>6
  <2>2. card[i] < card[j] \/ card[j] < card[i]  BY <1>4, <1>6
  <2> QED  BY <2>1, <2>2
<1>8. \A r \in P : \E i \in P : card[i] + 1 = r
  <2> SUFFICES ASSUME NEW r \in P, \A i \in P : card[i] + 1 # r PROVE FALSE
    OBVIOUS
  <2> HIDE DEF P
  <2>1. PICK rank : rank = [i \in P |-> card[i] + 1]  OBVIOUS
  <2>2. rank \in [P -> P \ {r}]  BY <2>1, <1>6
  <2>3. IsFiniteSet(P \ {r}) /\ Cardinality(P \ {r}) < Cardinality(P)  BY <1>1, <1>2
  <2>4. PICK i \in P, j \in P : i # j /\ rank[i] = rank[j]
    BY ONLY <1>1, <2>2, <2>3, FS_PigeonHole
  <2>5. card[i] + 1 = card[j] + 1  BY <2>1, <2>4
  <2>6. card[i] \in Nat /\ card[j] \in Nat  BY <1>6
  <2>7. card[i] = card[j]  BY ONLY <2>5, <2>6
  <2> QED  BY <2>4, <2>7, <1>7
<1> QED  BY <1>6, <1>7, <1>8

\* Where the child at place i of a sorted dict came from, when p[r] is the pair of
\* rank r.
Source(p, i) == 2 * p[(i + 1) \div 2] - (i % 2)

Shuffle(p, n) ==
    /\ p \in [1..n -> 1..n]
    /\ \A i, j \in 1..n : p[i] = p[j] => i = j
    /\ \A k \in 1..n : \E i \in 1..n : p[i] = k

Sources(p, l) ==
    /\ \A i \in 1..l : /\ Source(p, i) \in 1..l
                       /\ Source(p, i) % 2 = 1 <=> i % 2 = 1
                       /\ i % 2 = 1 => i < l /\ Source(p, i) < l /\ Source(p, i + 1) = Source(p, i) + 1
    /\ \A i, j \in 1..l : Source(p, i) = Source(p, j) => i = j
    /\ \A k \in 1..l : \E i \in 1..l : Source(p, i) = k

LEMMA SourcesAre ==
    ASSUME NEW n \in Nat, NEW p, Shuffle(p, n)
    PROVE  Sources(p, 2 * n)
<1>1. \A i \in 1..(2 * n) : (i + 1) \div 2 \in 1..n /\ i % 2 \in {0, 1} /\ i = 2 * ((i + 1) \div 2) - (i % 2)
  OBVIOUS
<1>2. \A h \in 1..n : p[h] \in 1..n  BY DEF Shuffle
<1>3. \A h \in 1..n : \A b \in {0, 1} : /\ 2 * h - b \in 1..(2 * n)
                                        /\ (2 * h - b + 1) \div 2 = h
                                        /\ (2 * h - b) % 2 = b
  OBVIOUS
<1>4. \A h, g \in 1..n : \A b, c \in {0, 1} : 2 * h - b = 2 * g - c => h = g /\ b = c
  OBVIOUS
<1>5. \A h \in 1..n : \A b \in {0, 1} : Source(p, 2 * h - b) = 2 * p[h] - b
  BY <1>3 DEF Source
<1>6. \A i \in 1..(2 * n) : \E h \in 1..n : \E b \in {0, 1} : i = 2 * h - b  BY <1>1
<1>7. ASSUME NEW i \in 1..(2 * n)
      PROVE  /\ Source(p, i) \in 1..(2 * n)
             /\ Source(p, i) % 2 = 1 <=> i % 2 = 1
             /\ i % 2 = 1 => i < 2 * n /\ Source(p, i) < 2 * n /\ Source(p, i + 1) = Source(p, i) + 1
  <2>1. PICK h \in 1..n : \E b \in {0, 1} : i = 2 * h - b  BY <1>6
  <2>2. PICK b \in {0, 1} : i = 2 * h - b  BY <2>1
  <2>3. p[h] \in 1..n /\ Source(p, i) = 2 * p[h] - b  BY <1>2, <1>5, <2>2
  <2>4. Source(p, i) \in 1..(2 * n) /\ Source(p, i) % 2 = b /\ i % 2 = b  BY <1>3, <2>2, <2>3
  <2>5. ASSUME b = 1
        PROVE  i < 2 * n /\ Source(p, i) < 2 * n /\ Source(p, i + 1) = Source(p, i) + 1
    <3>1. i + 1 = 2 * h - 0 /\ i < 2 * n  BY <2>2, <2>5
    <3>2. Source(p, i + 1) = 2 * p[h] - 0  BY <3>1, <1>5
    <3> QED  BY <3>1, <3>2, <2>3, <2>5
  <2> QED  BY <2>4, <2>5
<1>8. ASSUME NEW i \in 1..(2 * n), NEW j \in 1..(2 * n), Source(p, i) = Source(p, j) PROVE i = j
  <2>1. PICK h \in 1..n : \E b \in {0, 1} : i = 2 * h - b  BY <1>6
  <2>2. PICK b \in {0, 1} : i = 2 * h - b  BY <2>1
  <2>3. PICK g \in 1..n : \E c \in {0, 1} : j = 2 * g - c  BY <1>6
  <2>4. PICK c \in {0, 1} : j = 2 * g - c  BY <2>3
  <2>5. p[h] \in 1..n /\ p[g] \in 1..n /\ 2 * p[h] - b = 2 * p[g] - c  BY <1>2, <1>5, <1>8, <2>2, <2>4
  <2>6. p[h] = p[g] /\ b = c  BY <1>4, <2>5
  <2>7. h = g  BY <2>6 DEF Shuffle
  <2> QED  BY <2>2, <2>4, <2>6, <2>7
<1>9. ASSUME NEW k \in 1..(2 * n) PROVE \E i \in 1..(2 * n) : Source(p, i) = k
  <2>1. PICK g \in 1..n : \E b \in {0, 1} : k = 2 * g - b  BY <1>6
  <2>2. PICK b \in {0, 1} : k = 2 * g - b  BY <2>1
  <2>3. PICK h \in 1..n : p[h] = g  BY DEF Shuffle
  <2>4. 2 * h - b \in 1..(2 * n)  BY <1>3
  <2>5. Source(p, 2 * h - b) = 2 * g - b  BY <1>5, <2>3
  <2> QED  BY <2>2, <2>4, <2>5
<1> DEFINE l == 2 * n
<1> HIDE DEF l
<1>10. /\ \A i \in 1..l : /\ Source(p, i) \in 1..l
                          /\ Source(p, i) % 2 = 1 <=> i % 2 = 1
                          /\ i % 2 = 1 => i < l /\ Source(p, i) < l /\ Source(p, i + 1) = Source(p, i) + 1
       /\ \A i, j \in 1..l : Source(p, i) = Source(p, j) => i = j
       /\ \A k \in 1..l : \E i \in 1..l : Source(p, i) = k
  BY <1>7, <1>8, <1>9 DEF l
<1> QED  BY <1>10 DEF Sources, l

\* What shuffling the pairs of a dict keeps.
Shuffled(q, r) ==
    /\ r \in Seq(Node)
    /\ \A x : (\E i \in DOMAIN r : r[i] = x) <=> (\E i \in DOMAIN q : q[i] = x)
    /\ \A i, j \in DOMAIN r : r[i] = r[j] => i = j
    /\ Pairs(r) = Pairs(q)

LEMMA GoodShuffle ==
    ASSUME NEW ty, NEW nm, NEW q \in Seq(Node), NEW t, Good(ty, nm, q, t),
           \A i, j \in DOMAIN q : q[i] = q[j] => i = j,
           NEW p, Shuffle(p, Len(q) \div 2),
           NEW r \in [DOMAIN q -> Node], \A i \in DOMAIN q : r[i] = q[Source(p, i)]
    PROVE  Good(ty, nm, r, t) /\ Shuffled(q, r)
<1> DEFINE l == Len(q)
           n == l \div 2
<1>1. /\ l \in Nat /\ DOMAIN q = 1..l /\ l % 2 = 0
      /\ \A i \in DOMAIN q : q[i] \in Node
  BY LenProperties DEF Good
<1>2. n \in Nat /\ l = 2 * n
  <2> HIDE DEF l
  <2> QED  BY <1>1
<1> DEFINE at(i) == Source(p, i)
<1>3. /\ \A i \in 1..l : /\ at(i) \in 1..l
                         /\ at(i) % 2 = 1 <=> i % 2 = 1
                         /\ i % 2 = 1 => i < l /\ at(i) < l /\ at(i + 1) = at(i) + 1
      /\ \A i, j \in 1..l : at(i) = at(j) => i = j
      /\ \A k \in 1..l : \E i \in 1..l : at(i) = k
  <2>1. Shuffle(p, n)  OBVIOUS
  <2> HIDE DEF n, l
  <2>2. Sources(p, 2 * n)  BY <1>2, <2>1, SourcesAre
  <2>3. Sources(p, l)  BY <1>2, <2>2
  <2> QED  BY <2>3 DEF Sources
<1>4. DOMAIN r = 1..l /\ \A i \in 1..l : r[i] = q[at(i)] /\ r[i] \in Node
  BY <1>1
<1>5. r \in Seq(Node) /\ Len(r) = l
  <2>1. r \in [1..l -> Node] /\ l \in Nat  BY <1>1
  <2> HIDE DEF l
  <2> QED  BY <2>1 DEF Seq
<1> HIDE DEF at, l, n
<1>6. \A i, j \in 1..l : q[i] = q[j] => i = j  BY <1>1
<1>7. Alternates(ty, nm, r)
  <2>1. /\ \A i \in 1..l : ty[q[i]] = "key" <=> i % 2 = 1
        /\ \A i, j \in 1..l : i % 2 = 1 /\ j % 2 = 1 /\ nm[q[i]] = nm[q[j]] => i = j
    BY <1>1 DEF Good, Alternates
  <2>2. \A i \in 1..l : ty[r[i]] = "key" <=> i % 2 = 1
    <3> TAKE i \in 1..l
    <3>1. PICK k \in 1..l : k = at(i) /\ (k % 2 = 1 <=> i % 2 = 1) /\ r[i] = q[k]  BY <1>3, <1>4
    <3> QED  BY <3>1, <2>1
  <2>3. \A i, j \in 1..l : i % 2 = 1 /\ j % 2 = 1 /\ nm[r[i]] = nm[r[j]] => i = j
    <3> TAKE i, j \in 1..l
    <3>1. PICK k \in 1..l : k = at(i) /\ (k % 2 = 1 <=> i % 2 = 1) /\ r[i] = q[k]  BY <1>3, <1>4
    <3>2. PICK h \in 1..l : h = at(j) /\ (h % 2 = 1 <=> j % 2 = 1) /\ r[j] = q[h]  BY <1>3, <1>4
    <3>3. ASSUME i % 2 = 1, j % 2 = 1, nm[r[i]] = nm[r[j]] PROVE i = j
      <4>1. k = h  BY <3>1, <3>2, <3>3, <2>1
      <4>2. at(i) = at(j)  BY <4>1, <3>1, <3>2
      <4> QED  BY <4>2, <1>3
    <3> QED  BY <3>3
  <2> QED  BY <2>2, <2>3, <1>4 DEF Alternates
<1>8. Pairs(r) = Pairs(q)
  <2>1. \A e : e \in Pairs(q) <=> \E j \in DOMAIN q : j % 2 = 1 /\ j < Len(q) /\ e = [key |-> q[j], value |-> q[j + 1]]
    BY PairsAre
  <2>2. \A e : e \in Pairs(r) <=> \E j \in DOMAIN r : j % 2 = 1 /\ j < Len(r) /\ e = [key |-> r[j], value |-> r[j + 1]]
    BY PairsAre
  <2>3. \A j \in 1..l : j % 2 = 1 =>
           [key |-> r[j], value |-> r[j + 1]] = [key |-> q[at(j)], value |-> q[at(j) + 1]]
    <3> SUFFICES ASSUME NEW j \in 1..l, j % 2 = 1 PROVE r[j] = q[at(j)] /\ r[j + 1] = q[at(j) + 1]
      OBVIOUS
    <3>1. j + 1 \in 1..l  BY <1>1, <1>3
    <3> QED  BY <3>1, <1>3, <1>4
  <2>4. \A e : e \in Pairs(r) <=> e \in Pairs(q)
    <3> TAKE e
    <3>1. ASSUME e \in Pairs(r) PROVE e \in Pairs(q)
      <4>1. PICK j \in 1..l : j % 2 = 1 /\ e = [key |-> r[j], value |-> r[j + 1]]
        <5>1. PICK j \in DOMAIN r : j % 2 = 1 /\ e = [key |-> r[j], value |-> r[j + 1]]
          BY <3>1, <2>2
        <5> QED  BY <5>1, <1>4
      <4>2. PICK k \in 1..l : k = at(j) /\ k % 2 = 1 /\ k < l  BY <4>1, <1>3
      <4>3. e = [key |-> q[k], value |-> q[k + 1]]  BY <4>1, <4>2, <2>3
      <4> QED  BY <4>2, <4>3, <2>1, <1>1 DEF l
    <3>2. ASSUME e \in Pairs(q) PROVE e \in Pairs(r)
      <4>1. PICK k \in 1..l : k % 2 = 1 /\ e = [key |-> q[k], value |-> q[k + 1]]
        BY <3>2, <2>1, <1>1
      <4>2. PICK j \in 1..l : at(j) = k  BY <1>3
      <4>3. j % 2 = 1 /\ j < l  BY <4>1, <4>2, <1>3
      <4>4. e = [key |-> r[j], value |-> r[j + 1]]  BY <4>1, <4>2, <4>3, <2>3
      <4> QED  BY <4>3, <4>4, <2>2, <1>4, <1>5
    <3> QED  BY <3>1, <3>2
  <2> QED  BY <2>4
<1>9. Good(ty, nm, r, t)  BY <1>1, <1>5, <1>7, <1>8 DEF Good, l
<1>10. \A x : (\E i \in DOMAIN r : r[i] = x) <=> (\E i \in DOMAIN q : q[i] = x)
  <2> TAKE x
  <2>1. ASSUME NEW i \in 1..l, r[i] = x PROVE \E j \in 1..l : q[j] = x  BY <2>1, <1>3, <1>4
  <2>2. ASSUME NEW j \in 1..l, q[j] = x PROVE \E i \in 1..l : r[i] = x
    <3>1. PICK i \in 1..l : at(i) = j  BY <1>3
    <3> QED  BY <3>1, <2>2, <1>4
  <2> QED  BY <2>1, <2>2, <1>1, <1>4
<1>11. \A i, j \in DOMAIN r : r[i] = r[j] => i = j
  <2> TAKE i, j \in DOMAIN r
  <2>1. PICK k \in 1..l : k = at(i) /\ r[i] = q[k] /\ i \in 1..l  BY <1>3, <1>4
  <2>2. PICK h \in 1..l : h = at(j) /\ r[j] = q[h] /\ j \in 1..l  BY <1>3, <1>4
  <2> QED  BY ONLY <2>1, <2>2, <1>3, <1>6
<1> QED  BY <1>5, <1>8, <1>9, <1>10, <1>11 DEF Shuffled

\* The sorted children of a dict are its pairs shuffled.
LEMMA SortedKids ==
    ASSUME NEW st, Base(st), NEW d \in Node, Fine(st, d)
    PROVE  /\ Good(st.type, st.name, sorted_kids(st, d), st.ht[d])
           /\ Shuffled(st.f.kids[d], sorted_kids(st, d))
<1> DEFINE q == st.f.kids[d]
           l == Len(q)
           n == l \div 2
           P == 1..n
           name(i) == st.name[q[2 * i - 1]]
           B == [i \in P |-> {j \in P : name(j) < name(i) \/ (name(j) = name(i) /\ j < i)}]
           p == [r \in P |-> CHOOSE i \in P : Cardinality(B[i]) + 1 = r]
<1>1. /\ q \in Seq(Node) /\ l \in Nat /\ DOMAIN q = 1..l /\ l % 2 = 0
      /\ \A i \in DOMAIN q : q[i] \in Node
      /\ \A i, j \in DOMAIN q : q[i] = q[j] => i = j
      /\ \A i \in DOMAIN q : st.type[q[i]] = "key" <=> i % 2 = 1
      /\ \A i, j \in DOMAIN q : i % 2 = 1 /\ j % 2 = 1 /\ st.name[q[i]] = st.name[q[j]] => i = j
      /\ Good(st.type, st.name, q, st.ht[d])
  BY ChildrenOf DEF Fine, Good, Alternates
<1>2. n \in Nat /\ l = 2 * n
  <2> HIDE DEF l
  <2> QED  BY <1>1
<1>3. \A i \in P : 2 * i - 1 \in 1..l /\ (2 * i - 1) % 2 = 1
  <2> HIDE DEF n, l
  <2> QED  BY <1>2
<1>4. \A i \in P : name(i) \in Nat
  <2> TAKE i \in P
  <2>1. q[2 * i - 1] \in Node /\ st.type[q[2 * i - 1]] = "key"  BY <1>1, <1>3
  <2>2. name(i) \in Key  BY <2>1 DEF Base
  <2> QED  BY <2>2, KeyAssumption
<1>5. \A i, j \in P : name(i) = name(j) => i = j
  <2> TAKE i, j \in P
  <2>1. 2 * i - 1 \in DOMAIN q /\ (2 * i - 1) % 2 = 1 /\ 2 * j - 1 \in DOMAIN q /\ (2 * j - 1) % 2 = 1
    BY <1>1, <1>3
  <2>2. name(i) = name(j) => 2 * i - 1 = 2 * j - 1  BY <1>1, <2>1
  <2>3. i \in Int /\ j \in Int  BY <1>2
  <2> QED  BY <2>2, <2>3
<1> HIDE DEF name, n, l, q
<1>6. /\ \A i \in P : B[i] \in SUBSET P /\ i \notin B[i]
      /\ \A i, j \in P : i # j => (i \in B[j] /\ B[i] \subseteq B[j]) \/ (j \in B[i] /\ B[j] \subseteq B[i])
  <2>1. \A i \in P : B[i] = {j \in P : name(j) < name(i)}  BY <1>4, <1>5
  <2> HIDE DEF B, P
  <2>2. \A i, j \in P : name(i) < name(j) => i \in B[j] /\ B[i] \subseteq B[j]  BY <2>1, <1>4
  <2>3. \A i, j \in P : i # j => name(i) < name(j) \/ name(j) < name(i)  BY <1>4, <1>5
  <2>4. \A i \in P : B[i] \in SUBSET P /\ i \notin B[i]  BY <2>1, <1>4
  <2> QED  BY <2>2, <2>3, <2>4
<1> DEFINE size(i) == Cardinality(B[i])
<1>7. /\ \A i \in P : size(i) + 1 \in P
      /\ \A i, j \in P : size(i) = size(j) => i = j
      /\ \A r \in P : \E i \in P : size(i) + 1 = r
  <2> HIDE DEF B
  <2> QED  BY <1>2, <1>6, RanksAre
<1>8. Shuffle(p, n)
  <2> HIDE DEF B
  <2>1. \A r \in P : p[r] \in P /\ size(p[r]) + 1 = r  BY <1>7
  <2>2. p \in [P -> P]
    <3>1. p = [r \in P |-> p[r]]  OBVIOUS
    <3> QED  BY <2>1, <3>1
  <2> HIDE DEF p
  <2>3. \A r, t \in P : p[r] = p[t] => r = t  BY <2>1
  <2>4. \A k \in P : \E r \in P : p[r] = k
    <3> TAKE k \in P
    <3>1. PICK r \in P : r = size(k) + 1  BY <1>7
    <3>2. p[r] \in P /\ size(p[r]) + 1 = size(k) + 1  BY <2>1, <3>1
    <3>3. size(p[r]) + 1 \in Nat /\ size(k) + 1 \in Nat /\ size(k) \in Nat /\ size(p[r]) \in Nat
      <4>1. \A i \in P : size(i) \in Nat
        <5> TAKE i \in P
        <5>1. IsFiniteSet(P)
          <6>1. 1 \in Int /\ n \in Int  BY <1>2
          <6> QED  BY <6>1, FS_Interval
        <5>2. B[i] \in SUBSET P  BY <1>6
        <5>3. IsFiniteSet(B[i])
          <6> HIDE DEF P
          <6> QED  BY <5>1, <5>2, FS_Subset
        <5> QED  BY <5>3, FS_CardinalityType
      <4> QED  BY <4>1, <3>2
    <3>4. size(p[r]) = size(k)  BY <3>2, <3>3
    <3> QED  BY <3>2, <3>4, <1>7
  <2> QED  BY <2>2, <2>3, <2>4 DEF Shuffle
<1>9. sorted_kids(st, d) = [i \in DOMAIN q |-> q[Source(p, i)]]
  <2>1. \A i \in DOMAIN q : (i + 1) \div 2 \in P  BY <1>1, <1>2
  <2>2. \A r \in P : p[r] = CHOOSE i \in P : Cardinality({j \in P : name(j) < name(i) \/ (name(j) = name(i) /\ j < i)}) + 1 = r
    OBVIOUS
  <2> DEFINE at(r) == CHOOSE i \in P : Cardinality({j \in P : name(j) < name(i) \/ (name(j) = name(i) /\ j < i)}) + 1 = r
  <2>3. sorted_kids(st, d) = [i \in DOMAIN q |-> q[2 * at((i + 1) \div 2) - (i % 2)]]
    BY DEF sorted_kids, Kids, q, name, n, l
  <2>4. \A i \in DOMAIN q : at((i + 1) \div 2) = p[(i + 1) \div 2]  BY <2>1, <2>2
  <2> HIDE DEF p, at
  <2> QED  BY <2>3, <2>4 DEF Source
<1> HIDE DEF p
<1>10. Good(st.type, st.name, sorted_kids(st, d), st.ht[d]) /\ Shuffled(q, sorted_kids(st, d))
  <2>1. Shuffle(p, Len(q) \div 2)  BY <1>8 DEF n, l
  <2>2. \A i \in DOMAIN q : q[Source(p, i)] \in Node
    <3>1. Sources(p, 2 * n)  BY <1>2, <1>8, SourcesAre
    <3>2. Sources(p, l)  BY <1>2, <3>1
    <3>3. \A i \in 1..l : Source(p, i) \in 1..l  BY <3>2 DEF Sources
    <3> QED  BY <3>3, <1>1
  <2>3. PICK r : r = sorted_kids(st, d)  OBVIOUS
  <2>4. r \in [DOMAIN q -> Node] /\ \A i \in DOMAIN q : r[i] = q[Source(p, i)]
    BY <2>2, <2>3, <1>9
  <2>5. PICK ty, nm, t : ty = st.type /\ nm = st.name /\ t = st.ht[d]  OBVIOUS
  <2>6. Good(ty, nm, q, t)  BY <2>5, <1>1
  <2>7. Good(ty, nm, r, t) /\ Shuffled(q, r)
    <3>1. q \in Seq(Node) /\ \A i, j \in DOMAIN q : q[i] = q[j] => i = j  BY <1>1
    <3> QED  BY ONLY <3>1, <2>1, <2>4, <2>6, GoodShuffle
  <2> QED  BY <2>3, <2>5, <2>7
<1> QED  BY <1>10 DEF q

LEMMA SortSound ==
    ASSUME NEW st, Sound(st), NEW n
    PROVE  Sound(plist_sort(st, n)) /\ AnswersSame(st, plist_sort(st, n))
<1> DEFINE S == Dicts(st) \cap Subtree(st.f, n)
           K == [m \in Node |-> IF m \in S THEN sorted_kids(st, m) ELSE st.f.kids[m]]
           g == [kids |-> K, parent |-> st.f.parent]
           u == plist_sort(st, n)
<1>1. Base(st) /\ \A m \in S : m \in Node /\ Fine(st, m)  BY DEF Sound, Dicts
<1>2. u = [type |-> st.type, name |-> st.name, f |-> g, ht |-> st.ht]
  <2>1. st = [type |-> st.type, name |-> st.name, f |-> st.f, ht |-> st.ht]  BY <1>1, Fields
  <2>2. st.f = [kids |-> st.f.kids, parent |-> st.f.parent]  BY <1>1, Fields DEF Forest
  <2>3. u = [st EXCEPT !.f = [st.f EXCEPT !.kids = K]]  BY <2>1, <2>2 DEF plist_sort
  <2>4. [st.f EXCEPT !.kids = K] = g  BY <2>2
  <2> HIDE DEF u, K, g
  <2> QED  BY <2>1, <2>3, <2>4
<1> HIDE DEF u, S
<1>3. \A m \in Node : /\ Shuffled(st.f.kids[m], K[m])
                      /\ Fine(st, m) => Good(st.type, st.name, K[m], st.ht[m])
  <2> TAKE m \in Node
  <2>1. CASE m \in S
    <3>1. Good(st.type, st.name, sorted_kids(st, m), st.ht[m]) /\ Shuffled(st.f.kids[m], sorted_kids(st, m))
      BY <1>1, <2>1, SortedKids
    <3> QED  BY <2>1, <3>1
  <2>2. CASE m \notin S
    <3>1. Shuffled(st.f.kids[m], st.f.kids[m])  BY <1>1, ChildrenOf DEF Shuffled
    <3> QED  BY <2>2, <3>1 DEF Fine
  <2> QED  BY <2>1, <2>2
<1>4. g \in Forest
  <2>1. \A m \in Node : K[m] \in Seq(Node)  BY <1>3 DEF Shuffled
  <2>2. K = [m \in Node |-> K[m]]  OBVIOUS
  <2> HIDE DEF K
  <2>3. K \in [Node -> Seq(Node)]  BY <2>1, <2>2
  <2> QED  BY <2>3, <1>1, Fields DEF Forest
<1> HIDE DEF K
<1>5. g.kids = K /\ g.parent = st.f.parent  OBVIOUS
<1> HIDE DEF g
<1>6. ForestInv(g)
  <2>1. ForestInv(st.f)  BY <1>1, Fields
  <2>2. \A m \in Node : Children(g, m) = Children(st.f, m)
    <3> TAKE m \in Node
    <3>1. \A x : (\E i \in DOMAIN K[m] : K[m][i] = x) <=> (\E i \in DOMAIN st.f.kids[m] : st.f.kids[m][i] = x)
      BY <1>3 DEF Shuffled
    <3>2. PICK q, r : q = st.f.kids[m] /\ r = K[m]  OBVIOUS
    <3>3. \A x : (\E i \in DOMAIN r : r[i] = x) <=> (\E i \in DOMAIN q : q[i] = x)
      BY ONLY <3>1, <3>2
    <3>4. \A x : x \in {r[i] : i \in DOMAIN r} <=> \E i \in DOMAIN r : r[i] = x  BY ONLY TRUE
    <3>5. \A x : x \in {q[i] : i \in DOMAIN q} <=> \E i \in DOMAIN q : q[i] = x  BY ONLY TRUE
    <3>6. {r[i] : i \in DOMAIN r} = {q[i] : i \in DOMAIN q}  BY ONLY <3>3, <3>4, <3>5
    <3>7. g.kids[m] = r /\ st.f.kids[m] = q  BY ONLY <3>2, <1>5
    <3>8. Children(g, m) = {r[i] : i \in DOMAIN r}  BY ONLY <3>7 DEF Children
    <3>9. Children(st.f, m) = {q[i] : i \in DOMAIN q}  BY ONLY <3>7 DEF Children
    <3> QED  BY ONLY <3>6, <3>8, <3>9
  <2>3. \A m \in Node : \A i, j \in DOMAIN g.kids[m] : g.kids[m][i] = g.kids[m][j] => i = j
    BY <1>3, <1>5 DEF Shuffled
  <2> QED  BY <1>4, <1>5, <2>1, <2>2, <2>3, PermutedForest
<1>7. u.type = st.type /\ u.name = st.name /\ u.f = g /\ u.ht = st.ht  BY <1>2
<1>8. u \in State  BY <1>1, <1>2, <1>4, Fields DEF State
<1>9. Base(u)
  <2>1. \A m \in Node : u.f.kids[m] # <<>> => u.type[m] = "dict"
    <3> SUFFICES ASSUME NEW m \in Node, K[m] # <<>> PROVE st.type[m] = "dict"
      BY <1>5, <1>7
    <3>1. PICK i \in DOMAIN K[m] : TRUE
      <4>1. K[m] \in Seq(Node)  BY <1>3 DEF Shuffled
      <4>2. Len(K[m]) \in Nat \ {0} /\ DOMAIN K[m] = 1..Len(K[m])
        BY <4>1, EmptySeq, LenProperties
      <4>3. 1 \in DOMAIN K[m]  BY <4>2
      <4> QED  BY <4>3
    <3>2. \E j \in DOMAIN st.f.kids[m] : st.f.kids[m][j] = K[m][i]  BY <1>3, <3>1 DEF Shuffled
    <3>3. st.f.kids[m] # <<>>
      <4>1. DOMAIN <<>> = {}  OBVIOUS
      <4> QED  BY <3>2, <4>1
    <3> QED  BY <3>3, <1>1 DEF Base
  <2> QED  BY <1>1, <1>5, <1>6, <1>7, <1>8, <2>1 DEF Base
<1>10. \A m \in Dicts(u) : Fine(u, m)
  <2>1. \A m \in Dicts(u) : m \in Node /\ Fine(st, m)  BY <1>7 DEF Sound, Dicts
  <2> QED  BY <2>1, <1>3, <1>5, <1>7 DEF Fine
<1>11. \A m \in Node : u.type[m] = "key" => u.f.parent[m] # NULL  BY <1>5, <1>7 DEF Sound
<1>12. Sound(u)  BY <1>9, <1>10, <1>11 DEF Sound
<1>13. AnswersSame(st, u)
  <2> SUFFICES ASSUME NEW m \in Dicts(st), m \in Dicts(u), NEW k \in Key
               PROVE  plist_dict_get_item(u, m, k) = plist_dict_get_item(st, m, k)
    BY DEF AnswersSame
  <2>1. m \in Node  BY DEF Dicts
  <2>2. Pairs(u.f.kids[m]) = Pairs(st.f.kids[m])  BY <2>1, <1>3, <1>5, <1>7 DEF Shuffled
  <2>3. u.name = st.name  BY <1>7
  <2> QED  BY <2>2, <2>3, <1>12, KeptAnswers
<1> QED  BY <1>12, <1>13 DEF u

-----------------------------------------------------------------------------
(***************************************************************************)
(* Loops. A loop over 1..n is a function t with t[i] the state after i     *)
(* rounds; W[i] is what holds after i rounds.                              *)
(***************************************************************************)
LEMMA LeastCounterexample ==
    ASSUME NEW T \in SUBSET Nat, T # {}
    PROVE  \E n \in T : \A m \in T : n <= m
<1>1. \E n \in T : \A m \in T : <<m, n>> \notin OpToRel(<, Nat)
  BY NatLessThanWellFounded, WFMin
<1>2. \A m, n \in Nat : m < n => <<m, n>> \in OpToRel(<, Nat)  BY DEF OpToRel
<1>3. T \subseteq Nat  OBVIOUS
<1>4. \A m, n \in T : ~(m < n) => n <= m  BY <1>3
<1> QED  BY <1>1, <1>2, <1>3, <1>4

LEMMA LoopInvariant ==
    ASSUME NEW n \in Nat, NEW W, NEW t, t[0] \in W[0],
           \A i \in 1..n : t[i - 1] \in W[i - 1] => t[i] \in W[i]
    PROVE  \A i \in 0..n : t[i] \in W[i]
<1> DEFINE T == {i \in 0..n : t[i] \notin W[i]}
<1> SUFFICES ASSUME T # {} PROVE FALSE
  OBVIOUS
<1>1. T \in SUBSET Nat  OBVIOUS
<1>2. PICK k \in T : \A m \in T : k <= m
  <2> HIDE DEF T
  <2> QED  BY <1>1, LeastCounterexample
<1>3. k \in 1..n /\ k - 1 \in 0..n /\ k - 1 < k  BY <1>2
<1>4. t[k - 1] \in W[k - 1]
  <2>1. k - 1 \notin T
    <3> HIDE DEF T
    <3> QED  BY <1>1, <1>2, <1>3
  <2> QED  BY <2>1, <1>3
<1> QED  BY <1>2, <1>3, <1>4

\* Round i is the function g[i].
Rounds(n, U, g, W) ==
    /\ \A i \in 0..n : W[i] \subseteq U
    /\ \A i \in 1..n : \A x \in W[i - 1] : g[i][x] \in W[i]

Loops(n, U, v, g, W) ==
    \E t \in [0..n -> U] :
        /\ t[0] = v
        /\ \A i \in 1..n : t[i] = g[i][t[i - 1]]
        /\ \A i \in 0..n : t[i] \in W[i]

LEMMA LoopExists ==
    ASSUME NEW n \in Nat, NEW U, NEW W, NEW v \in W[0], NEW g, Rounds(n, U, g, W)
    PROVE  Loops(n, U, v, g, W)
<1> DEFINE Upto(t, k) == /\ t[0] = v
                         /\ \A i \in 1..k : t[i] = g[i][t[i - 1]]
                         /\ \A i \in 0..k : t[i] \in W[i]
           T == {k \in 0..n : \A t \in [0..n -> U] : ~Upto(t, k)}
<1>0. /\ \A i \in 0..n : W[i] \subseteq U
      /\ \A i \in 1..n : \A x \in W[i - 1] : g[i][x] \in W[i]
  BY DEF Rounds
<1>1. T = {}
  <2> SUFFICES ASSUME T # {} PROVE FALSE  OBVIOUS
  <2>1. T \in SUBSET Nat  OBVIOUS
  <2>2. PICK k \in T : \A m \in T : k <= m
    <3> HIDE DEF T
    <3> QED  BY <2>1, LeastCounterexample
  <2>3. v \in U  BY <1>0
  <2>4. k # 0
    <3>1. PICK t : t = [i \in 0..n |-> v]  OBVIOUS
    <3>2. t \in [0..n -> U] /\ t[0] = v  BY <3>1, <2>3
    <3>3. Upto(t, 0)  BY <3>2
    <3> HIDE DEF Upto
    <3> QED  BY <3>2, <3>3, <2>2
  <2>5. k \in 1..n /\ k - 1 \in 0..n /\ k - 1 < k  BY <2>2, <2>4
  <2>6. k - 1 \notin T
    <3> HIDE DEF T
    <3> QED  BY <2>1, <2>2, <2>5
  <2>7. PICK t \in [0..n -> U] : Upto(t, k - 1)
    <3> HIDE DEF Upto
    <3> QED  BY <2>5, <2>6
  <2>8. t[k - 1] \in W[k - 1] /\ t[0] = v
    <3>1. k - 1 \in 0..(k - 1)  BY <2>5
    <3> QED  BY <3>1, <2>7
  <2>9. g[k][t[k - 1]] \in W[k] /\ k \in 0..n  BY <1>0, <2>5, <2>8
  <2>10. PICK u : u = [t EXCEPT ![k] = g[k][t[k - 1]]]  OBVIOUS
  <2>11. /\ u \in [0..n -> U] /\ u[k] = g[k][t[k - 1]]
         /\ \A i \in 0..n : i # k => u[i] = t[i]
    BY <1>0, <2>9, <2>10
  <2>12. u[0] = v  BY <2>4, <2>5, <2>8, <2>11
  <2>13. \A i \in 1..k : u[i] = g[i][u[i - 1]]
    <3> TAKE i \in 1..k
    <3>1. i - 1 \in 0..n /\ i - 1 # k /\ u[i - 1] = t[i - 1]  BY <2>5, <2>11
    <3>2. CASE i = k  BY <3>1, <3>2, <2>11
    <3>3. CASE i # k
      <4>1. i \in 1..(k - 1) /\ i \in 0..n  BY <3>3, <2>5
      <4> QED  BY <3>1, <3>3, <4>1, <2>7, <2>11
    <3> QED  BY <3>2, <3>3
  <2>14. \A i \in 0..k : u[i] \in W[i]
    <3> TAKE i \in 0..k
    <3>1. CASE i = k  BY <3>1, <2>9, <2>11
    <3>2. CASE i # k
      <4>1. i \in 0..(k - 1) /\ i \in 0..n  BY <3>2, <2>5
      <4> QED  BY <3>2, <4>1, <2>7, <2>11
    <3> QED  BY <3>1, <3>2
  <2>15. Upto(u, k)  BY <2>12, <2>13, <2>14
  <2> HIDE DEF Upto
  <2> QED  BY <2>2, <2>11, <2>15
<1>2. n \in 0..n  OBVIOUS
<1>3. PICK t \in [0..n -> U] : Upto(t, n)
  <2> HIDE DEF Upto
  <2> QED  BY <1>1, <1>2
<1> QED  BY <1>3 DEF Loops

\* The pairs whose keys are at the first i places.
PairsUpTo(q, i) == {Pair(q[j], q[j + 1]) : j \in {h \in DOMAIN q : h % 2 = 1 /\ h < Len(q) /\ h <= i}}

LEMMA UpTo ==
    ASSUME NEW q, NEW l \in Nat, Len(q) = l, DOMAIN q = 1..l
    PROVE  /\ PairsUpTo(q, 0) = {}
           /\ PairsUpTo(q, l) = Pairs(q)
           /\ \A i \in 1..l : PairsUpTo(q, i) =
                 IF i % 2 = 1 /\ i < l THEN With(PairsUpTo(q, i - 1), Pair(q[i], q[i + 1]))
                 ELSE PairsUpTo(q, i - 1)
<1>1. \A i : \A e : e \in PairsUpTo(q, i) <=>
                 \E j \in 1..l : j % 2 = 1 /\ j < l /\ j <= i /\ e = Pair(q[j], q[j + 1])
  BY DEF PairsUpTo
<1>2. PairsUpTo(q, 0) = {}  BY <1>1
<1>3. PairsUpTo(q, l) = Pairs(q)
  <2>1. \A e : e \in Pairs(q) <=> \E j \in 1..l : j % 2 = 1 /\ j < l /\ e = Pair(q[j], q[j + 1])
    BY PairsAre DEF Pair
  <2>2. \A j \in 1..l : j <= l  OBVIOUS
  <2>3. \A e : e \in PairsUpTo(q, l) <=> e \in Pairs(q)
    <3> TAKE e
    <3>1. e \in PairsUpTo(q, l) <=> \E j \in 1..l : j % 2 = 1 /\ j < l /\ j <= l /\ e = Pair(q[j], q[j + 1])
      BY <1>1
    <3> QED  BY <3>1, <2>1, <2>2
  <2> QED  BY <2>3
<1>4. \A i \in 1..l : \A e : e \in PairsUpTo(q, i) <=>
         e \in (IF i % 2 = 1 /\ i < l THEN With(PairsUpTo(q, i - 1), Pair(q[i], q[i + 1]))
                ELSE PairsUpTo(q, i - 1))
  <2> TAKE i \in 1..l
  <2> TAKE e
  <2>1. \A j \in 1..l : j <= i <=> (j <= i - 1 \/ j = i)  OBVIOUS
  <2>2. e \in PairsUpTo(q, i) <=> e \in PairsUpTo(q, i - 1) \/ (i % 2 = 1 /\ i < l /\ e = Pair(q[i], q[i + 1]))
    BY <1>1, <2>1
  <2> QED  BY <2>2 DEF With
<1>5. \A i \in 1..l : PairsUpTo(q, i) =
         IF i % 2 = 1 /\ i < l THEN With(PairsUpTo(q, i - 1), Pair(q[i], q[i + 1]))
         ELSE PairsUpTo(q, i - 1)
  BY <1>4
<1> QED  BY <1>2, <1>3, <1>5

\* built_table holds the pairs of the dict.
LEMMA BuiltTable ==
    ASSUME NEW st, Base(st), NEW d \in Node, Alternates(st.type, st.name, st.f.kids[d])
    PROVE  Holds(st.name, built_table(st, d), Pairs(st.f.kids[d]))
<1> DEFINE q == st.f.kids[d]
           l == Len(q)
           W == [i \in 0..l |-> {t \in Table : Holds(st.name, t, PairsUpTo(q, i))}]
           g == [i \in 1..l |-> [t \in Table |-> with_pair(st, t, d, i)]]
           Solves(t) == t = [i \in 0..l |-> IF i = 0 THEN EmptyTable ELSE with_pair(st, t[i - 1], d, i)]
           u == CHOOSE t : Solves(t)
<1>1. /\ l \in Nat /\ DOMAIN q = 1..l
      /\ \A i \in DOMAIN q : q[i] \in Node
      /\ \A i \in DOMAIN q : st.type[q[i]] = "key" <=> i % 2 = 1
      /\ \A i, j \in DOMAIN q : i % 2 = 1 /\ j % 2 = 1 /\ st.name[q[i]] = st.name[q[j]] => i = j
  BY ChildrenOf DEF Alternates
<1>2. built_table(st, d) = u[l]  BY DEF built_table, Kids
<1>3. KeyPositions(st, d) = {i \in 1..l : i % 2 = 1 /\ i < l}  BY <1>1 DEF KeyPositions, Kids
<1>4. /\ PairsUpTo(q, 0) = {} /\ PairsUpTo(q, l) = Pairs(q)
      /\ \A i \in 1..l : PairsUpTo(q, i) =
            IF i % 2 = 1 /\ i < l THEN With(PairsUpTo(q, i - 1), Pair(q[i], q[i + 1]))
            ELSE PairsUpTo(q, i - 1)
  <2> HIDE DEF q
  <2> QED  BY <1>1, UpTo
<1>5. \A i \in 1..l : \A t \in Table :
         with_pair(st, t, d, i) = IF i % 2 = 1 /\ i < l THEN hash_table_insert(st, t, q[i], q[i + 1]) ELSE t
  BY <1>3 DEF with_pair, Kids
<1> HIDE DEF l, q, u
<1>6. \A i \in 1..l : \A t \in W[i - 1] : with_pair(st, t, d, i) \in W[i]
  <2> SUFFICES ASSUME NEW i \in 1..l, NEW t \in W[i - 1]
               PROVE  with_pair(st, t, d, i) \in Table /\ Holds(st.name, with_pair(st, t, d, i), PairsUpTo(q, i))
    BY <1>1
  <2>1. i - 1 \in 0..l  BY <1>1
  <2>2. t \in Table /\ Holds(st.name, t, PairsUpTo(q, i - 1))  BY <2>1
  <2>3. CASE i % 2 = 1 /\ i < l
    <3>1. i + 1 \in 1..l  BY <1>1, <2>3
    <3>2. PICK kn, v, P : kn = q[i] /\ v = q[i + 1] /\ P = PairsUpTo(q, i - 1)  OBVIOUS
    <3>3. kn \in Node /\ v \in Node /\ st.type[kn] = "key"  BY <1>1, <2>3, <3>1, <3>2
    <3>4. st.name[kn] \in Key  BY <3>3 DEF Base
    <3>5. \A e \in P : st.name[e.key] # st.name[kn]
      <4> SUFFICES ASSUME NEW e \in P PROVE st.name[e.key] # st.name[kn]
        OBVIOUS
      <4>1. PICK j \in DOMAIN q : j % 2 = 1 /\ j <= i - 1 /\ e = Pair(q[j], q[j + 1])
        BY <3>2 DEF PairsUpTo
      <4>2. j # i /\ e.key = q[j]  BY <4>1, <1>1 DEF Pair
      <4> QED  BY <4>1, <4>2, <3>2, <2>3, <1>1
    <3>6. Holds(st.name, t, P)  BY <2>2, <3>2
    <3>7. Holds(st.name, hash_table_insert(st, t, kn, v), P \cup {[key |-> kn, value |-> v]})
      BY <3>3, <3>4, <3>5, <3>6, InsertNew
    <3>8. PairsUpTo(q, i) = P \cup {[key |-> kn, value |-> v]}  BY <1>4, <2>3, <3>2 DEF With, Pair
    <3>9. with_pair(st, t, d, i) = hash_table_insert(st, t, kn, v)  BY <1>5, <2>2, <2>3, <3>2
    <3>10. Holds(st.name, with_pair(st, t, d, i), PairsUpTo(q, i))  BY <3>7, <3>8, <3>9
    <3> QED  BY <3>10 DEF Holds
  <2>4. CASE ~(i % 2 = 1 /\ i < l)
    <3>1. PairsUpTo(q, i) = PairsUpTo(q, i - 1)  BY <1>4, <2>4
    <3>2. with_pair(st, t, d, i) = t  BY <1>5, <2>2, <2>4
    <3> QED  BY <2>2, <3>1, <3>2
  <2> QED  BY <2>3, <2>4
<1>7. EmptyTable \in W[0]
  <2>1. Holds(st.name, EmptyTable, {}) /\ 0 \in 0..l  BY <1>1, EmptyHolds
  <2>2. EmptyTable \in Table  BY <2>1 DEF Holds
  <2> QED  BY <2>1, <2>2, <1>4
<1>8. \A i \in 0..l : W[i] \subseteq Table  OBVIOUS
<1>9. \A i \in 1..l : \A t \in W[i - 1] : t \in Table
  <2> SUFFICES ASSUME NEW i \in 1..l PROVE W[i - 1] \subseteq Table  OBVIOUS
  <2>1. i - 1 \in 0..l  BY <1>1
  <2> QED  BY <1>8, <2>1
<1> HIDE DEF W
<1>10. \E t : Solves(t)
  <2>1. \A i \in 1..l : \A x \in W[i - 1] : g[i][x] \in W[i]  BY <1>6, <1>9
  <2> HIDE DEF g
  <2>5. PICK v : v = EmptyTable  OBVIOUS
  <2>6. \E t \in [0..l -> Table] :
           /\ t[0] = v
           /\ \A i \in 1..l : t[i] = g[i][t[i - 1]]
           /\ \A i \in 0..l : t[i] \in W[i]
    <3>1. l \in Nat /\ v \in W[0]  BY <1>1, <1>7, <2>5
    <3>2. Rounds(l, Table, g, W)  BY <1>8, <2>1 DEF Rounds
    <3>3. Loops(l, Table, v, g, W)  BY <3>1, <3>2, LoopExists
    <3> QED  BY <3>3 DEF Loops
  <2>2. PICK t \in [0..l -> Table] : /\ t[0] = EmptyTable
                                     /\ \A i \in 1..l : t[i] = g[i][t[i - 1]]
                                     /\ \A i \in 0..l : t[i] \in W[i]
    BY <2>5, <2>6
  <2>3. \A i \in 1..l : t[i] = with_pair(st, t[i - 1], d, i)
    <3> TAKE i \in 1..l
    <3>1. i - 1 \in 0..l  BY <1>1
    <3> QED  BY <2>2, <3>1 DEF g
  <2>4. t = [i \in 0..l |-> IF i = 0 THEN EmptyTable ELSE with_pair(st, t[i - 1], d, i)]
    <3>1. \A i \in 0..l : t[i] = IF i = 0 THEN EmptyTable ELSE with_pair(st, t[i - 1], d, i)
      BY <2>2, <2>3
    <3> QED  BY <3>1, <2>2
  <2> QED  BY <2>4
<1>11. Solves(u)  BY <1>10 DEF u
<1>12. u[0] = EmptyTable /\ \A i \in 1..l : u[i] = with_pair(st, u[i - 1], d, i)
  <2>1. 0 \in 0..l /\ \A i \in 1..l : i \in 0..l /\ i # 0  BY <1>1
  <2> QED  BY <2>1, <1>11
<1> HIDE DEF Solves, g
<1>13. \A i \in 0..l : u[i] \in W[i]
  <2>1. \A i \in 1..l : u[i - 1] \in W[i - 1] => u[i] \in W[i]  BY <1>6, <1>12
  <2> QED  BY <1>1, <1>7, <1>12, <2>1, LoopInvariant
<1>14. u[l] \in W[l] /\ l \in 0..l  BY <1>1, <1>13
<1>15. Holds(st.name, u[l], PairsUpTo(q, l))  BY <1>14 DEF W
<1>16. Holds(st.name, u[l], Pairs(q))  BY <1>4, <1>15
<1> QED  BY <1>2, <1>16 DEF q

-----------------------------------------------------------------------------
(***************************************************************************)
(* plist_dict_set_item                                                     *)
(***************************************************************************)
WithTable(st, d, t) == [st EXCEPT !.ht[d] = t]
WithTrees(st, g) == [st EXCEPT !.f = g]

\* u is st with the table t for d.
LEMMA SetTable ==
    ASSUME NEW st, Base(st), NEW d \in Node, st.type[d] = "dict", NEW t \in Table,
           NEW u, u = WithTable(st, d, t)
    PROVE  /\ u.type = st.type /\ u.name = st.name /\ u.f = st.f
           /\ u.ht[d] = t /\ \A m \in Node \ {d} : u.ht[m] = st.ht[m]
           /\ Base(u)
<1>1. st = [type |-> st.type, name |-> st.name, f |-> st.f, ht |-> st.ht]  BY Fields
<1>2. u = [type |-> st.type, name |-> st.name, f |-> st.f, ht |-> [st.ht EXCEPT ![d] = t]]
  BY <1>1 DEF WithTable
<1>3. u.ht = [st.ht EXCEPT ![d] = t] /\ u.type = st.type /\ u.name = st.name /\ u.f = st.f
  BY <1>2
<1>4. st.ht \in [Node -> Table \cup {NULL}]  BY Fields
<1>5. u.ht \in [Node -> Table \cup {NULL}] /\ u.ht[d] = t /\ \A m \in Node \ {d} : u.ht[m] = st.ht[m]
  BY <1>3, <1>4
<1>6. u \in State
  <2>1. /\ st.type \in [Node -> {"free", "dict", "key", "value"}]
        /\ st.name \in [Node -> Key \cup {NoName}]
        /\ st.f \in Forest
    BY Fields
  <2> QED  BY <1>2, <1>3, <1>5, <2>1 DEF State
<1>7. Base(u)  BY <1>3, <1>5, <1>6 DEF Base
<1> QED  BY <1>3, <1>5, <1>7

\* u is st with the trees g.
LEMMA SetForest ==
    ASSUME NEW st, Base(st), NEW g, ForestInv(g),
           \A n \in Node : g.kids[n] # <<>> => st.type[n] = "dict",
           \A n \in Node : st.type[n] = "free" => g.parent[n] = NULL,
           NEW u, u = WithTrees(st, g)
    PROVE  /\ u.type = st.type /\ u.name = st.name /\ u.f = g /\ u.ht = st.ht
           /\ Base(u)
<1>1. st = [type |-> st.type, name |-> st.name, f |-> st.f, ht |-> st.ht]  BY Fields
<1>2. u = [type |-> st.type, name |-> st.name, f |-> g, ht |-> st.ht]
  BY <1>1 DEF WithTrees
<1>3. u.type = st.type /\ u.name = st.name /\ u.f = g /\ u.ht = st.ht  BY <1>2
<1>4. u \in State
  <2>1. /\ st.type \in [Node -> {"free", "dict", "key", "value"}]
        /\ st.name \in [Node -> Key \cup {NoName}]
        /\ st.ht \in [Node -> Table \cup {NULL}]
        /\ g \in Forest
    BY Fields DEF ForestInv
  <2> QED  BY <1>2, <2>1 DEF State
<1>5. Base(u)  BY <1>3, <1>4 DEF Base
<1> QED  BY <1>3, <1>5

\* The table of d, if it has one, gets the pair of kn and v and then holds Q.
Enters(st, d, kn, v, Q) ==
    st.ht[d] # NULL => Holds(st.name, hash_table_insert(st, st.ht[d], kn, v), Q)

Entered(st, u, d, Q) ==
    /\ u.type = st.type /\ u.name = st.name /\ u.f = st.f
    /\ \A m \in Node \ {d} : u.ht[m] = st.ht[m]
    /\ u.ht[d] = NULL \/ Holds(st.name, u.ht[d], Q)
    /\ Base(u)

LEMMA WithEntry ==
    ASSUME NEW st, Base(st), NEW d \in Node, st.type[d] = "dict", NEW kn, NEW v, NEW Q,
           Enters(st, d, kn, v, Q), NEW u, u = with_entry(st, d, kn, v)
    PROVE  Entered(st, u, d, Q)
<1>1. CASE st.ht[d] = NULL  BY <1>1 DEF with_entry, Entered
<1>2. CASE st.ht[d] # NULL
  <2>1. PICK t : t = hash_table_insert(st, st.ht[d], kn, v)  OBVIOUS
  <2>2. Holds(st.name, t, Q)  BY <1>2, <2>1 DEF Enters
  <2>3. t \in Table  BY <2>2 DEF Holds
  <2>4. u = WithTable(st, d, t)  BY <1>2, <2>1 DEF with_entry, WithTable
  <2>5. /\ u.type = st.type /\ u.name = st.name /\ u.f = st.f
        /\ u.ht[d] = t /\ \A m \in Node \ {d} : u.ht[m] = st.ht[m]
        /\ Base(u)
    <3>1. Base(st) /\ d \in Node /\ st.type[d] = "dict"  OBVIOUS
    <3> QED  BY ONLY <3>1, <2>3, <2>4, SetTable
  <2> QED  BY <2>2, <2>5 DEF Entered
<1> QED  BY <1>1, <1>2

\* What node_attach does.
Attached(f, r, p, c) ==
    /\ ForestInv(r.f)
    /\ r.ret # NODE_ERR_SUCCESS => r.f = f
    /\ r.ret = NODE_ERR_SUCCESS =>
          /\ f.parent[c] = NULL /\ p # c
          /\ r.f.kids[p] = Append(f.kids[p], c)
          /\ \A n \in Node \ {p} : r.f.kids[n] = f.kids[n]
          /\ r.f.parent[c] = p
          /\ \A n \in Node \ {c} : r.f.parent[n] = f.parent[n]

LEMMA Attach ==
    ASSUME NEW f, ForestInv(f), NEW p \in Node, NEW c \in Node, NEW r, r = node_attach(f, p, c)
    PROVE  Attached(f, r, p, c)
<1>1. ForestInv(r.f) /\ (r.ret # NODE_ERR_SUCCESS => r.f = f)
  BY AttachForest
<1>2. ASSUME r.ret = NODE_ERR_SUCCESS
      PROVE  /\ f.parent[c] = NULL /\ p # c
             /\ r.f.kids[p] = Append(f.kids[p], c)
             /\ \A n \in Node \ {p} : r.f.kids[n] = f.kids[n]
             /\ r.f.parent[c] = p
             /\ \A n \in Node \ {c} : r.f.parent[n] = f.parent[n]
  <2> DEFINE guard == attach_guard(f, p, c)
             l == Link(f, p, Len(f.kids[p]) + 1, c)
  <2>1. r = IF guard = NODE_ERR_SUCCESS THEN [f |-> l, ret |-> guard] ELSE [f |-> f, ret |-> guard]
    BY DEF node_attach, outcome
  <2> HIDE DEF guard, l
  <2>2. guard = NODE_ERR_SUCCESS /\ r.f = l  BY <1>2, <2>1
  <2>3. f.parent[c] = NULL /\ ~would_create_cycle(f, p, c)
    BY <2>2 DEF guard, attach_guard, NODE_ERR_SUCCESS, NODE_ERR_INVALID_ARG, NODE_ERR_PARENT, NODE_ERR_CIRCULAR_REF
  <2>4. p # c
    <3>1. p \in Ancestors(f, p)  BY AncestorsClosed
    <3> QED  BY <2>3, <3>1 DEF would_create_cycle
  <2>5. f.kids \in [Node -> Seq(Node)] /\ f.parent \in [Node -> Node \cup {NULL}]
    BY DEF ForestInv, Forest
  <2>6. InsertAt(f.kids[p], Len(f.kids[p]) + 1, c) = Append(f.kids[p], c)
    BY <2>5, InsertIsAppend
  <2>7. l.kids = [f.kids EXCEPT ![p] = Append(f.kids[p], c)] /\ l.parent = [f.parent EXCEPT ![c] = p]
    BY <2>6 DEF l, Link
  <2> QED  BY <2>2, <2>3, <2>4, <2>5, <2>7
<1> QED  BY <1>1, <1>2 DEF Attached

\* With or without memory for the depth check.
LEMMA AttachTried ==
    ASSUME NEW f, ForestInv(f), NEW p \in Node, NEW c \in Node,
           NEW r, r = try_attach(short, f, p, c)
    PROVE  Attached(f, r, p, c)
<1>1. \/ r = node_attach(f, p, c)
      \/ r.f = f /\ r.ret # NODE_ERR_SUCCESS
  BY TryAttach
<1>2. CASE r = node_attach(f, p, c)  BY <1>2, Attach
<1>3. CASE r.f = f /\ r.ret # NODE_ERR_SUCCESS  BY <1>3 DEF Attached
<1> QED  BY <1>1, <1>2, <1>3

LEMMA LeafSubtree ==
    ASSUME NEW f, ForestInv(f), NEW n \in Node, f.kids[n] = <<>>
    PROVE  Subtree(f, n) = {n}
<1> DEFINE T == Subtree(f, n)
           S == T \ {n}
<1>1. n \in T /\ T \subseteq Node /\ \A m \in Node : m # n => (m \in T <=> f.parent[m] \in T)
  BY SubtreeCut
<1> HIDE DEF T
<1>2. S = {}
  <2> SUFFICES ASSUME S # {} PROVE FALSE  OBVIOUS
  <2>1. PICK m \in S : f.parent[m] \notin S
    <3>1. Acyclic(f)  BY DEF ForestInv
    <3> QED  BY <1>1, <3>1 DEF Acyclic
  <2>2. f.parent[m] = n /\ m \in Node  BY <1>1, <2>1
  <2>3. m \in Children(f, n)  BY <2>2 DEF ForestInv, Linked
  <2>4. DOMAIN f.kids[n] = {}  OBVIOUS
  <2> QED  BY <2>3, <2>4 DEF Children
<1> QED  BY <1>1, <1>2 DEF T

\* What a call that sets item in d keeps: the nodes that are not below d, but for
\* the parent of item, and the keys of d at their places.
Keeps(st, u, d, item) ==
    /\ \A m \in Live(st) : m = d \/ m \notin Subtree(st.f, d) =>
          /\ u.type[m] = st.type[m]
          /\ m # item => u.f.parent[m] = st.f.parent[m]
          /\ m # d => u.f.kids[m] = st.f.kids[m]
    /\ \A i \in DOMAIN st.f.kids[d] : i % 2 = 1 =>
          i \in DOMAIN u.f.kids[d] /\ u.f.kids[d][i] = st.f.kids[d][i]

LEMMA KeepsSame ==
    ASSUME NEW st, NEW u, u.type = st.type, u.f = st.f, NEW d, NEW item
    PROVE  Keeps(st, u, d, item)
BY DEF Keeps

\* What such a call does in all: it frees T, the value that k had in d, or nothing;
\* what else there was stays, but for the children of d and the parent of item; and
\* the answer for k may be item now, the other answers of d are the same.
Sets(st, u, d, k, item, T) ==
    /\ T \subseteq Node /\ d \notin T
    /\ T # {} => /\ plist_dict_get_item(st, d, k) \in Node
                 /\ T = Subtree(st.f, plist_dict_get_item(st, d, k))
    /\ \A m \in T : u.type[m] = "free"
    /\ \A m \in Live(st) \ T :
          /\ u.type[m] = st.type[m] /\ u.name[m] = st.name[m]
          /\ m # item => u.f.parent[m] = st.f.parent[m]
          /\ m # d => u.f.kids[m] = st.f.kids[m]
    /\ \A j \in Key :
          \/ plist_dict_get_item(u, d, j) = plist_dict_get_item(st, d, j)
          \/ j = k /\ item \in Roots(st) /\ plist_dict_get_item(u, d, j) = item

\* A call that failed and undid what it did sets nothing.
LEMMA SetsNothing ==
    ASSUME NEW st, Sound(st), NEW u, Sound(u), NEW d \in Dicts(st), NEW k, NEW item,
           \A m \in Live(st) :
              /\ u.type[m] = st.type[m] /\ u.name[m] = st.name[m]
              /\ u.f.parent[m] = st.f.parent[m] /\ u.f.kids[m] = st.f.kids[m]
    PROVE  \E T : Sets(st, u, d, k, item, T)
<1>1. Base(st) /\ d \in Node /\ d # NULL /\ d \in Live(st) /\ d \in Dicts(u)
  BY NodeAssumption DEF Sound, Dicts, Live
<1>2. \A c \in Node : st.f.parent[c] = d => c \in Live(st)  BY <1>1 DEF Base, Live
<1>3. Pairs(u.f.kids[d]) = Pairs(st.f.kids[d])  BY <1>1
<1>4. \A j \in Key : plist_dict_get_item(u, d, j) = plist_dict_get_item(st, d, j)
  BY <1>1, <1>2, <1>3, KeptAnswers
<1>5. Sets(st, u, d, k, item, {})  BY <1>4 DEF Sets
<1> QED  BY <1>5

\* The pair e is the one with key k now; R is what is left of the other pairs.
LEMMA PairAnswers ==
    ASSUME NEW st, Sound(st), NEW u, Sound(u), NEW d, d \in Dicts(st), d \in Dicts(u), NEW k,
           NEW P, P = Pairs(st.f.kids[d]), NEW R, R \subseteq P,
           NEW e, Pairs(u.f.kids[d]) = With(R, e), u.name[e.key] = k,
           \A x \in R : u.name[x.key] = st.name[x.key],
           \A x \in P \ R : st.name[x.key] = k
    PROVE  \A j \in Key : \/ plist_dict_get_item(u, d, j) = plist_dict_get_item(st, d, j)
                          \/ j = k /\ plist_dict_get_item(u, d, j) = e.value
<1> SUFFICES ASSUME NEW j \in Key
             PROVE  \/ plist_dict_get_item(u, d, j) = plist_dict_get_item(st, d, j)
                    \/ j = k /\ plist_dict_get_item(u, d, j) = e.value
  OBVIOUS
<1>1. PICK Q : Q = Pairs(u.f.kids[d]) /\ Q = R \cup {e}  BY DEF With
<1>2. CASE j = k
  <2>1. Bound(u.name, Q, j, e.value)  BY <1>1, <1>2 DEF Bound
  <2>2. PICK v, w : v = e.value /\ w = plist_dict_get_item(u, d, j)  OBVIOUS
  <2>3. Base(u) /\ d \in Node /\ Fine(u, d)  BY DEF Sound, Dicts
  <2>4. Found(u.name, Q, j, w)  BY <2>2, <2>3, <1>1, Answer
  <2>5. \A x : Bound(u.name, Q, j, x) => x = w  BY <2>4 DEF Found
  <2> QED  BY <2>1, <2>2, <2>5, <1>2
<1>3. CASE j # k
  <2>1. \A v : Bound(u.name, Pairs(u.f.kids[d]), j, v) <=> Bound(st.name, Pairs(st.f.kids[d]), j, v)
    BY <1>1, <1>3 DEF Bound
  <2>2. plist_dict_get_item(u, d, j) = plist_dict_get_item(st, d, j)  BY <2>1, SameAnswer
  <2> QED  BY <2>2
<1> QED  BY <1>2, <1>3

\* What the steps of the subtree of n say determines it.
LEMMA UniqueSubtree ==
    ASSUME NEW f, ForestInv(f), NEW n \in Node, NEW T, T \subseteq Node, n \in T,
           \A m \in Node : m # n => (m \in T <=> f.parent[m] \in T)
    PROVE  T = Subtree(f, n)
<1>1. PICK U : U = Subtree(f, n)  OBVIOUS
<1>2. n \in U /\ U \subseteq Node /\ \A m \in Node : m # n => (m \in U <=> f.parent[m] \in U)
  BY <1>1, SubtreeCut
<1> DEFINE odd == {m \in Node : ~(m \in U <=> m \in T)}
<1>3. ASSUME odd # {} PROVE FALSE
  <2>1. Acyclic(f) /\ f.parent \in [Node -> Node \cup {NULL}]  BY DEF ForestInv, Forest
  <2>2. PICK m \in odd : f.parent[m] \notin odd  BY <1>3, <2>1 DEF Acyclic
  <2>3. m \in Node /\ m # n  BY <1>2
  <2>4. (m \in U <=> f.parent[m] \in U) /\ (m \in T <=> f.parent[m] \in T)  BY <2>3, <1>2
  <2>5. f.parent[m] \in Node \cup {NULL}  BY <2>1, <2>3
  <2> QED  BY <2>2, <2>4, <2>5, <1>2, NodeAssumption
<1> QED  BY <1>1, <1>2, <1>3

\* u is w but for a value that has left its key: the roll-back of a replacement found
\* no memory for it.
Lost(w, u, d, j) ==
    /\ d \in Dicts(w) /\ j \in DOMAIN w.f.kids[d] /\ j % 2 = 0
    /\ u = WithTrees(w, Unlink(w.f, d, j))

\* The one that is lost is without memory.
Cracks(w, u, d) == \E j : Lost(w, u, d, j) /\ w.f.kids[d][j] \in short

\* The value old of a pair gives its place to item, or gets lost.
LEMMA ReplaceSound ==
    ASSUME NEW st, Sound(st), NEW d \in Dicts(st), NEW item \in Roots(st),
           NEW q, q = st.f.kids[d], NEW i \in DOMAIN q, i % 2 = 1, i + 1 \in DOMAIN q,
           NEW k \in Key, st.name[q[i]] = k,
           NEW old, old = q[i + 1], NEW u, u = replace_value(st, d, old, item)
    PROVE  \/ Sound(u) /\ Keeps(st, u, d, item) /\ \E T : Sets(st, u, d, k, item, T)
           \/ Cracks(st, u, d)
<1>1. /\ Base(st) /\ d \in Node /\ Fine(st, d) /\ st.type[d] = "dict" /\ d # NULL
      /\ item \in Node /\ st.f.parent[item] = NULL /\ st.type[item] # "free"
      /\ st.type[item] # "key" /\ ForestInv(st.f)
  BY NodeAssumption DEF Sound, Dicts, Roots, Live, Base
<1>2. /\ q \in Seq(Node) /\ Len(q) \in Nat /\ DOMAIN q = 1..Len(q)
      /\ \A j \in DOMAIN q : q[j] \in Node /\ st.f.parent[q[j]] = d
  BY <1>1, ChildrenOf
<1>3. Good(st.type, st.name, q, st.ht[d])  BY <1>1 DEF Fine
<1>4. PICK key : key = q[i]  OBVIOUS
<1>5. /\ key \in Node /\ old \in Node /\ st.f.parent[old] = d /\ st.type[key] = "key"
      /\ st.name[key] \in Key /\ st.type[old] # "free"
  <2>1. key \in Node /\ old \in Node /\ st.f.parent[old] = d /\ st.type[key] = "key"
    BY <1>2, <1>3, <1>4 DEF Good, Alternates
  <2> QED  BY <2>1, <1>1 DEF Base
<1>6. PICK j : j = i + 1 /\ j \in 1..Len(q) /\ j - 1 = i /\ j % 2 = 0 /\ j \in DOMAIN q
  BY <1>2
<1>7. node_child_position(st.f, d, old) = i
  BY <1>1, <1>6, Position
<1>8. node_detach(st.f, d, old).f = Unlink(st.f, d, j)  BY <1>6, <1>7 DEF node_detach
<1>9. PICK put : put = try_insert(short, Unlink(st.f, d, j), d, i, item)  OBVIOUS
<1>17. \/ put = node_insert(Unlink(st.f, d, j), d, i, item)
       \/ put.f = Unlink(st.f, d, j) /\ put.ret # NODE_ERR_SUCCESS
  BY <1>9, TryInsert
<1>10. PICK e, P : e = Pair(key, old) /\ P = Pairs(q)  OBVIOUS
<1>11. e \in P /\ e.key = key
  <2>1. i < Len(q)
    <3>1. PICK l : l = Len(q) /\ l \in Nat /\ j \in 1..l /\ j = i + 1 /\ i \in 1..l  BY <1>2, <1>6
    <3> QED  BY ONLY <3>1
  <2> QED  BY <2>1, <1>4, <1>10, PairsAre DEF Pair
<1>12. st.ht[d] # NULL => Holds(st.name, st.ht[d], P)  BY <1>3, <1>10 DEF Good
<1>13. key = Kids(st, d)[i]  BY <1>4 DEF Kids
<1>14. CASE put.ret = NODE_ERR_SUCCESS
  <2>1. PICK st1, st2 : st1 = WithTrees(st, put.f) /\ st2 = with_entry(st1, d, key, item)  OBVIOUS
  <2>2. u = plist_free_node(st2, old)
    <3>1. [st EXCEPT !.f = put.f] = st1  BY <2>1 DEF WithTrees
    <3> QED  BY <3>1, <2>1, <1>7, <1>8, <1>9, <1>13, <1>14 DEF replace_value
  <2>3. PICK g : g = put.f  OBVIOUS
  <2>4. /\ ForestInv(g)
        /\ g.kids[d] = ReplaceAt(q, j, item)
        /\ \A n \in Node \ {d} : g.kids[n] = st.f.kids[n]
        /\ \A n \in Node \ {item, old} : g.parent[n] = st.f.parent[n]
        /\ g.parent[item] = d
        /\ g.parent[old] = NULL
        /\ d \notin Subtree(g, old)
    <3>1. PICK f : f = st.f  OBVIOUS
    <3>2. /\ ForestInv(f) /\ j \in 1..Len(f.kids[d]) /\ f.parent[item] = NULL
          /\ put = node_insert(Unlink(f, d, j), d, j - 1, item) /\ put.ret = NODE_ERR_SUCCESS
          /\ f.kids[d] = q /\ q[j] = old
      BY <3>1, <1>1, <1>6, <1>14, <1>17
    <3>3. /\ ForestInv(put.f)
          /\ put.f.kids[d] = ReplaceAt(f.kids[d], j, item)
          /\ \A n \in Node \ {d} : put.f.kids[n] = f.kids[n]
          /\ \A n \in Node \ {item, f.kids[d][j]} : put.f.parent[n] = f.parent[n]
          /\ put.f.parent[item] = d
          /\ put.f.parent[f.kids[d][j]] = NULL
          /\ d \notin Subtree(put.f, f.kids[d][j])
      <4>1. item \in Node /\ d \in Node  BY <1>1
      <4> QED  BY ONLY <3>2, <4>1, ReplaceForest
    <3> QED  BY <3>1, <3>2, <3>3, <2>3
  <2>5. /\ st1.type = st.type /\ st1.name = st.name /\ st1.f = g /\ st1.ht = st.ht
        /\ Base(st1)
    <3>1. \A n \in Node : g.kids[n] # <<>> => st.type[n] = "dict"
      BY <2>4, <1>1 DEF Base
    <3>2. \A n \in Node : st.type[n] = "free" => g.parent[n] = NULL
      BY <2>4, <1>1 DEF Base
    <3>3. st1 = WithTrees(st, g)  BY <2>1, <2>3
    <3> QED  BY <3>1, <3>2, <3>3, <2>4, <1>1, SetForest
  <2>6. PICK Q : Q = With(Without(P, e), Pair(key, item))  OBVIOUS
  <2>7. Enters(st1, d, key, item, Q)
    <3> SUFFICES ASSUME st1.ht[d] # NULL
                 PROVE  Holds(st1.name, hash_table_insert(st1, st1.ht[d], key, item), Q)
      BY DEF Enters
    <3>1. PICK t : t = st1.ht[d]  OBVIOUS
    <3>2. Holds(st1.name, t, P)  BY <3>1, <2>5, <1>12
    <3>3. st1.name[key] \in Key /\ st1.name[e.key] = st1.name[key]  BY <2>5, <1>5, <1>11
    <3>4. Holds(st1.name, hash_table_insert(st1, t, key, item),
                (P \ {e}) \cup {[key |-> e.key, value |-> item]})
      BY <3>2, <3>3, <1>1, <1>5, <1>11, InsertHit
    <3>5. Q = (P \ {e}) \cup {[key |-> e.key, value |-> item]}
      BY <2>6, <1>11 DEF With, Without, Pair
    <3> QED  BY <3>1, <3>4, <3>5
  <2>8. /\ st2.type = st.type /\ st2.name = st.name /\ st2.f = g
        /\ \A m \in Node \ {d} : st2.ht[m] = st.ht[m]
        /\ st2.ht[d] = NULL \/ Holds(st.name, st2.ht[d], Q)
        /\ Base(st2)
    <3>1. st1.type[d] = "dict"  BY <2>5, <1>1
    <3>2. Entered(st1, st2, d, Q)  BY <3>1, <2>1, <2>5, <2>7, <1>1, WithEntry
    <3> QED  BY <3>2, <2>5 DEF Entered
  <2>9. Fine(st2, d) /\ Pairs(ReplaceAt(q, j, item)) = Q
    <3>1. PICK ty, nm, t, w : ty = st.type /\ nm = st.name /\ t = st.ht[d] /\ w = st2.ht[d]
      OBVIOUS
    <3>2. w = NULL \/ Holds(nm, w, With(Without(Pairs(q), Pair(q[j - 1], q[j])), Pair(q[j - 1], item)))
      BY <3>1, <2>6, <2>8, <1>4, <1>6, <1>10
    <3>3. Good(ty, nm, q, t) /\ ty[item] # "key"  BY <3>1, <1>1, <1>3
    <3>4. /\ Good(ty, nm, ReplaceAt(q, j, item), w)
          /\ Swapped(q, j, item, ReplaceAt(q, j, item))
      BY <3>2, <3>3, <1>1, <1>2, <1>6, GoodReplace
    <3>5. Pairs(ReplaceAt(q, j, item)) = Q  BY <3>4, <1>4, <1>6, <1>10, <2>6 DEF Swapped
    <3>6. Fine(st2, d)  BY <3>1, <3>4, <2>4, <2>8 DEF Fine
    <3> QED  BY <3>5, <3>6
  <2>10. PICK T : T = Subtree(g, old)  OBVIOUS
  <2>11. /\ Base(u)
         /\ old \in T /\ T \subseteq Node /\ d \notin T
         /\ \A m \in Node : m # old => (m \in T <=> g.parent[m] \in T)
         /\ \A m \in Node \ T :
               /\ u.type[m] = st.type[m] /\ u.name[m] = st.name[m]
               /\ u.f.parent[m] = g.parent[m]
               /\ u.f.kids[m] = g.kids[m]
         /\ \A m \in T : u.type[m] = "free"
         /\ \A m \in Node \ T : Fine(st2, m) => Fine(u, m)
    <3>1. PICK p : p = NULL  OBVIOUS
    <3>2. p = st2.f.parent[old] /\ T = Subtree(st2.f, old)
      <4>1. st2.f = g  BY <2>8
      <4>2. g.parent[old] = NULL  BY <2>4
      <4> QED  BY ONLY <4>1, <4>2, <3>1, <2>10
    <3>3. /\ Base(u)
          /\ old \in T /\ T \subseteq Node
          /\ \A m \in Node : m # old => (m \in T <=> st2.f.parent[m] \in T)
          /\ \A m \in Node \ T :
                /\ u.type[m] = st2.type[m] /\ u.name[m] = st2.name[m]
                /\ u.f.parent[m] = st2.f.parent[m]
                /\ m # p => u.f.kids[m] = st2.f.kids[m]
          /\ \A m \in T : u.type[m] = "free"
          /\ \A m \in Node \ T : m # p /\ Fine(st2, m) => Fine(u, m)
      <4>1. Base(st2) /\ old \in Node  BY <2>8, <1>5
      <4> QED  BY ONLY <4>1, <3>2, <2>2, FreeNode
    <3>4. \A m \in Node : m # p  BY <3>1, NodeAssumption
    <3>5. st2.f = g /\ st2.type = st.type /\ st2.name = st.name  BY <2>8
    <3>6. d \notin T  BY <2>4, <2>10
    <3> QED  BY ONLY <3>3, <3>4, <3>5, <3>6
  <2>12. \A m \in Dicts(u) : Fine(u, m)
    <3> SUFFICES ASSUME NEW m \in Dicts(u) PROVE Fine(u, m)  OBVIOUS
    <3>1. m \in Node \ T /\ m \in Dicts(st)  BY <2>11 DEF Dicts
    <3>2. CASE m = d  BY <3>1, <3>2, <2>9, <2>11
    <3>3. CASE m # d
      <4>1. Fine(st, m)  BY <3>1 DEF Sound
      <4>2. st2.f.kids[m] = st.f.kids[m] /\ st2.ht[m] = st.ht[m]  BY <3>1, <3>3, <2>4, <2>8
      <4>3. Fine(st2, m)  BY <3>1, <4>1, <4>2, <2>8, <1>1, Unaffected
      <4> QED  BY <4>3, <3>1, <2>11
    <3> QED  BY <3>2, <3>3
  <2>13. \A m \in Node : u.type[m] = "key" => u.f.parent[m] # NULL
    <3> SUFFICES ASSUME NEW m \in Node, u.type[m] = "key" PROVE u.f.parent[m] # NULL
      OBVIOUS
    <3>1. m \in Node \ T /\ st.type[m] = "key" /\ m # old  BY <2>11
    <3>2. st.f.parent[m] # NULL  BY <3>1 DEF Sound
    <3>3. g.parent[m] # NULL  BY <3>1, <3>2, <2>4, <1>1
    <3> QED  BY <3>1, <3>3, <2>11
  <2>14. Sound(u)  BY <2>11, <2>12, <2>13 DEF Sound
  <2>15. PICK D : D = Subtree(st.f, d)  OBVIOUS
  <2>16. d \in D /\ \A m \in Node : m # d => (m \in D <=> st.f.parent[m] \in D)
    BY <2>15, <1>1, SubtreeCut
  <2>17. T \subseteq D
    <3> SUFFICES ASSUME T \ D # {} PROVE FALSE  OBVIOUS
    <3>1. PICK m \in T \ D : g.parent[m] \notin T \ D
      <4>1. Acyclic(g)  BY <2>4 DEF ForestInv
      <4>2. T \ D \in SUBSET Node  BY <2>11
      <4> QED  BY <4>1, <4>2 DEF Acyclic
    <3>2. m \in Node /\ m # d  BY ONLY <3>1, <2>11
    <3>3. m # old
      <4>1. d \in D /\ st.f.parent[old] = d /\ old \in Node /\ old # d
        <5>1. old # d  BY ONLY <2>11
        <5> QED  BY ONLY <5>1, <2>16, <1>5
      <4>2. old \in D  BY ONLY <4>1, <2>16
      <4> QED  BY ONLY <4>2, <3>1
    <3>4. g.parent[m] \in D /\ g.parent[m] \in T  BY <3>1, <3>2, <3>3, <2>11
    <3>5. m # item
      <4>1. g.parent[item] = d /\ d \notin T  BY <2>4, <2>11
      <4> QED  BY ONLY <4>1, <3>4
    <3> QED  BY <3>1, <3>2, <3>3, <3>4, <3>5, <2>4, <2>16
  <2>18. Keeps(st, u, d, item)
    <3>1. \A m \in Live(st) : m = d \/ m \notin D =>
             /\ u.type[m] = st.type[m]
             /\ m # item => u.f.parent[m] = st.f.parent[m]
             /\ m # d => u.f.kids[m] = st.f.kids[m]
      <4> SUFFICES ASSUME NEW m \in Live(st), m = d \/ m \notin D
                   PROVE  /\ u.type[m] = st.type[m]
                          /\ m # item => u.f.parent[m] = st.f.parent[m]
                          /\ m # d => u.f.kids[m] = st.f.kids[m]
        OBVIOUS
      <4>1. m \in Node \ T  BY ONLY m \in Live(st), m = d \/ m \notin D, <2>11, <2>17 DEF Live
      <4>2. m # old  BY ONLY <4>1, <2>11
      <4> QED  BY ONLY <4>1, <4>2, <2>4, <2>11
    <3>2. u.f.kids[d] = ReplaceAt(q, j, item)  BY <2>4, <2>11, <1>1
    <3>3. \A h \in DOMAIN q : h % 2 = 1 => h \in DOMAIN ReplaceAt(q, j, item) /\ ReplaceAt(q, j, item)[h] = q[h]
      <4>1. \A h \in DOMAIN q : h % 2 = 1 => h # j  BY <1>6
      <4> QED  BY ONLY <4>1 DEF ReplaceAt
    <3> QED  BY <3>1, <3>2, <3>3, <2>15 DEF Keeps
  <2>19. plist_dict_get_item(st, d, k) = old
    <3>1. PICK nm, w : nm = st.name /\ w = plist_dict_get_item(st, d, k)  OBVIOUS
    <3>2. nm[e.key] = k /\ e.value = old  BY <3>1, <1>4, <1>10, <1>11 DEF Pair
    <3>3. Bound(nm, P, k, old)  BY <3>2, <1>11 DEF Bound
    <3>4. P = Pairs(st.f.kids[d])  BY <1>10
    <3>5. Found(st.name, P, k, w)  BY <3>1, <3>4, <1>1, Answer
    <3>6. \A v : Bound(nm, P, k, v) => v = w  BY <3>1, <3>5 DEF Found
    <3> QED  BY <3>1, <3>3, <3>6
  <2>20. T = Subtree(st.f, old)
    <3>1. PICK f : f = st.f  OBVIOUS
    <3>2. item \notin T
      <4>1. item # old  BY <2>4, <1>1
      <4>2. g.parent[item] = d /\ d \notin T  BY <2>4, <2>11
      <4> QED  BY <4>1, <4>2, <2>11, <1>1
    <3>3. \A m \in Node : m # old => (m \in T <=> f.parent[m] \in T)
      <4> TAKE m \in Node
      <4>1. CASE m = item
        <5>1. f.parent[m] = NULL /\ NULL \notin T  BY <4>1, <3>1, <2>11, <1>1, NodeAssumption
        <5> QED  BY <4>1, <5>1, <3>2
      <4>2. CASE m # item  BY ONLY m \in Node, <4>2, <3>1, <2>4, <2>11
      <4> QED  BY <4>1, <4>2
    <3>4. ForestInv(f) /\ old \in Node /\ old \in T /\ T \subseteq Node  BY <3>1, <2>11, <1>1, <1>5
    <3>5. T = Subtree(f, old)  BY ONLY <3>3, <3>4, UniqueSubtree
    <3> QED  BY <3>1, <3>5
  <2>21. /\ \A m \in T : u.type[m] = "free"
         /\ \A m \in Live(st) \ T :
               /\ u.type[m] = st.type[m] /\ u.name[m] = st.name[m]
               /\ m # item => u.f.parent[m] = st.f.parent[m]
               /\ m # d => u.f.kids[m] = st.f.kids[m]
    <3>1. \A m \in Live(st) \ T : m \in Node \ T /\ m # old  BY ONLY <2>11 DEF Live
    <3> QED  BY ONLY <3>1, <2>4, <2>11
  <2>22. \A h \in Key : \/ plist_dict_get_item(u, d, h) = plist_dict_get_item(st, d, h)
                        \/ h = k /\ plist_dict_get_item(u, d, h) = item
    <3>1. PICK R, n : R = Without(P, e) /\ n = Pair(key, item)  OBVIOUS
    <3>2. Pairs(u.f.kids[d]) = With(R, n)
      <4>1. u.f.kids[d] = ReplaceAt(q, j, item)  BY ONLY <2>4, <2>11, <1>1
      <4> QED  BY ONLY <4>1, <3>1, <2>6, <2>9
    <3>3. n.key = key /\ n.value = item  BY <3>1 DEF Pair
    <3>4. \A x \in P : u.name[x.key] = st.name[x.key]
      <4> SUFFICES ASSUME NEW x \in P PROVE u.name[x.key] = st.name[x.key]
        OBVIOUS
      <4>1. PICK h \in DOMAIN q : h % 2 = 1 /\ x.key = q[h]  BY <1>10, PairsAre
      <4>2. PICK c : c = x.key  OBVIOUS
      <4>3. c \in Node /\ st.f.parent[c] = d /\ st.type[c] = "key"
        BY <4>1, <4>2, <1>2, <1>3 DEF Good, Alternates
      <4>4. st.type[old] # "key"
        <5>1. q[j] = old /\ j \in DOMAIN q /\ j % 2 # 1  BY <1>6
        <5>2. st.type[q[j]] = "key" <=> j % 2 = 1  BY <5>1, <1>3 DEF Good, Alternates
        <5> QED  BY <5>1, <5>2
      <4>5. c # item /\ c # old  BY <4>3, <4>4, <1>1
      <4>6. g.parent[c] = d  BY <4>3, <4>5, <2>4
      <4>7. c \in Node \ T  BY ONLY <4>3, <4>5, <4>6, <2>11
      <4> QED  BY <4>2, <4>7, <2>11
    <3>5. u.name[key] = k
      <4>1. u.name[e.key] = st.name[e.key]  BY <3>4, <1>11
      <4> QED  BY <4>1, <1>4, <1>11
    <3>6. \A x \in P \ R : st.name[x.key] = k
      <4>1. \A x \in P \ R : x = e  BY <3>1 DEF Without
      <4> QED  BY <4>1, <1>4, <1>11
    <3>7. R \subseteq P  BY <3>1 DEF Without
    <3>8. d \in Dicts(u)  BY <2>11, <1>1 DEF Dicts
    <3>9. P = Pairs(st.f.kids[d]) /\ u.name[n.key] = k  BY <3>3, <3>5, <1>10
    <3>10. \A x \in R : u.name[x.key] = st.name[x.key]  BY <3>4, <3>7
    <3>11. \A h \in Key : \/ plist_dict_get_item(u, d, h) = plist_dict_get_item(st, d, h)
                          \/ h = k /\ plist_dict_get_item(u, d, h) = n.value
      BY ONLY <2>14, <3>2, <3>6, <3>7, <3>8, <3>9, <3>10, Sound(st), d \in Dicts(st), PairAnswers
    <3> QED  BY <3>3, <3>11
  <2>23. Sets(st, u, d, k, item, T)
    <3>1. plist_dict_get_item(st, d, k) \in Node /\ T = Subtree(st.f, plist_dict_get_item(st, d, k))
      BY <2>19, <2>20, <1>5
    <3> QED  BY <3>1, <2>11, <2>21, <2>22 DEF Sets
  <2> QED  BY <2>14, <2>18, <2>23
<1>15. CASE put.ret # NODE_ERR_SUCCESS
  <2>1. put.f = Unlink(st.f, d, j)
    <3> SUFFICES ASSUME put = node_insert(Unlink(st.f, d, j), d, i, item)
                 PROVE  put.f = Unlink(st.f, d, j)
      BY <1>17
    <3>1. PICK f : f = st.f  OBVIOUS
    <3>2. /\ ForestInv(f) /\ j \in 1..Len(f.kids[d]) /\ f.parent[item] = NULL
          /\ put = node_insert(Unlink(f, d, j), d, j - 1, item)
      BY <3>1, <1>1, <1>6
    <3>3. put.f = Unlink(f, d, j)  BY <3>2, <1>1, <1>15, ReplaceForest
    <3> QED  BY <3>1, <3>3
  <2>2. node_insert(put.f, d, i, old) = [f |-> st.f, ret |-> NODE_ERR_SUCCESS]
    <3>1. PICK f : f = st.f  OBVIOUS
    <3>2. ForestInv(f) /\ j \in 1..Len(f.kids[d]) /\ f.kids[d][j] = old  BY <3>1, <1>1, <1>6
    <3>3. node_insert(Unlink(f, d, j), d, j - 1, f.kids[d][j]) = [f |-> f, ret |-> NODE_ERR_SUCCESS]
      BY <3>2, <1>1, UndoDetach
    <3> QED  BY <3>1, <3>2, <3>3, <2>1, <1>6
  <2>10. PICK back : back = try_insert(short, put.f, d, i, old)  OBVIOUS
  <2>11. u = put_back(st, d, key, old, back)
    BY <2>10, <1>7, <1>8, <1>9, <1>13, <1>15 DEF replace_value, old_again
  <2>12. \/ back = node_insert(put.f, d, i, old)
         \/ old \in short /\ back.f = put.f /\ back.ret # NODE_ERR_SUCCESS
    BY <2>10, TryInsert
  <2>13. ASSUME old \in short, back.f = put.f, back.ret # NODE_ERR_SUCCESS PROVE Cracks(st, u, d)
    <3>1. u = WithTrees(st, Unlink(st.f, d, j))  BY <2>1, <2>11, <2>13 DEF put_back, WithTrees
    <3>2. Lost(st, u, d, j)  BY <3>1, <1>6 DEF Lost
    <3>3. st.f.kids[d][j] \in short  BY <2>13, <1>6
    <3> QED  BY <3>2, <3>3 DEF Cracks
  <2> SUFFICES ASSUME back = node_insert(put.f, d, i, old)
               PROVE  Sound(u) /\ Keeps(st, u, d, item) /\ \E T : Sets(st, u, d, k, item, T)
    BY <2>12, <2>13
  <2>3. u = with_entry(st, d, key, old)
    <3>2. back.ret = NODE_ERR_SUCCESS /\ back.f = st.f  BY <2>2
    <3>3. [st EXCEPT !.f = back.f] = st  BY <3>2, <1>1, Fields
    <3> QED  BY <3>2, <3>3, <2>11 DEF put_back
  <2>4. Enters(st, d, key, old, P)
    <3> SUFFICES ASSUME st.ht[d] # NULL
                 PROVE  Holds(st.name, hash_table_insert(st, st.ht[d], key, old), P)
      BY DEF Enters
    <3>1. PICK t : t = st.ht[d]  OBVIOUS
    <3>2. Holds(st.name, t, P)  BY <3>1, <1>12
    <3>3. st.name[key] \in Key /\ st.name[e.key] = st.name[key]  BY <1>5, <1>11
    <3>4. Holds(st.name, hash_table_insert(st, t, key, old),
                (P \ {e}) \cup {[key |-> e.key, value |-> old]})
      BY <3>2, <3>3, <1>5, <1>11, InsertHit
    <3>5. P = (P \ {e}) \cup {[key |-> e.key, value |-> old]}
      BY <1>10, <1>11 DEF Pair
    <3> QED  BY <3>1, <3>4, <3>5
  <2>5. /\ u.type = st.type /\ u.name = st.name /\ u.f = st.f
        /\ \A m \in Node \ {d} : u.ht[m] = st.ht[m]
        /\ u.ht[d] = NULL \/ Holds(st.name, u.ht[d], P)
        /\ Base(u)
    <3>1. Entered(st, u, d, P)  BY <2>3, <2>4, <1>1, WithEntry
    <3> QED  BY <3>1 DEF Entered
  <2>6. \A m \in Dicts(u) : Fine(u, m)
    <3> SUFFICES ASSUME NEW m \in Dicts(u) PROVE Fine(u, m)  OBVIOUS
    <3>1. m \in Node /\ Fine(st, m)  BY <2>5 DEF Sound, Dicts
    <3>2. CASE m = d
      <4>1. Good(st.type, st.name, q, u.ht[d])  BY <2>5, <1>3, <1>10 DEF Good
      <4> QED  BY <3>2, <4>1, <2>5 DEF Fine
    <3>3. CASE m # d  BY <3>1, <3>3, <2>5 DEF Fine
    <3> QED  BY <3>2, <3>3
  <2>7. Sound(u)  BY <2>5, <2>6 DEF Sound
  <2>8. Keeps(st, u, d, item)  BY <2>5, KeepsSame
  <2>9. \E T : Sets(st, u, d, k, item, T)  BY <2>5, <2>7, SetsNothing
  <2> QED  BY <2>7, <2>8, <2>9
<1> QED  BY <1>14, <1>15

LEMMA RemoveAppended ==
    ASSUME NEW q \in Seq(Node), NEW c \in Node
    PROVE  RemoveAt(Append(q, c), Len(q) + 1) = q
<1> DEFINE l == Len(q)
           p == Append(q, c)
           r == RemoveAt(p, l + 1)
<1>1. /\ p \in Seq(Node) /\ l \in Nat /\ DOMAIN q = 1..l /\ Len(p) = l + 1
      /\ \A i \in 1..l : p[i] = q[i]
  BY AppendedSeq
<1> HIDE DEF p, l
<1>2. l + 1 \in 1..Len(p)  BY <1>1
<1>3. /\ r \in Seq(Node) /\ Len(r) = Len(p) - 1
      /\ \A i \in 1..(Len(p) - 1) : r[i] = IF i < l + 1 THEN p[i] ELSE p[i + 1]
  BY <1>1, <1>2, RemoveAtProperties
<1> HIDE DEF r
<1>4. Len(r) = l /\ \A i \in 1..l : r[i] = q[i]  BY <1>1, <1>3
<1>5. r \in Seq(Node) /\ q \in Seq(Node) /\ Len(r) = Len(q) /\ \A i \in 1..Len(r) : r[i] = q[i]
  BY <1>3, <1>4 DEF l
<1>6. r = q  BY <1>5, SeqEqual
<1> QED  BY <1>6 DEF r, p, l

\* A new pair of d: a new key node and the value item.
LEMMA AddPairSound ==
    ASSUME NEW st, Sound(st), NEW d \in Dicts(st), NEW item \in Roots(st), NEW k \in Key,
           NEW q, q = st.f.kids[d], \A i \in DOMAIN q : i % 2 = 1 => st.name[q[i]] # k,
           NEW u, u = add_pair(new_node(st, "key", k), st, d, item)
    PROVE  Sound(u) /\ Keeps(st, u, d, item) /\ \E T : Sets(st, u, d, k, item, T)
<1>1. /\ Base(st) /\ d \in Node /\ Fine(st, d) /\ st.type[d] = "dict" /\ d # NULL
      /\ item \in Node /\ st.f.parent[item] = NULL /\ st.type[item] # "free"
      /\ st.type[item] # "key" /\ ForestInv(st.f)
  BY NodeAssumption DEF Sound, Dicts, Roots, Live, Base
<1>2. /\ q \in Seq(Node) /\ Len(q) \in Nat /\ DOMAIN q = 1..Len(q)
      /\ \A j \in DOMAIN q : q[j] \in Node /\ st.f.parent[q[j]] = d
  BY <1>1, ChildrenOf
<1>3. PICK n, st1 : n = new_node(st, "key", k).n /\ st1 = new_node(st, "key", k).s  OBVIOUS
<1>4. CASE n = NULL
  <2>1. u = st  BY <1>3, <1>4 DEF add_pair
  <2>2. \E T : Sets(st, u, d, k, item, T)  BY <2>1, SetsNothing
  <2> QED  BY <2>1, <2>2, KeepsSame
<1>5. CASE n # NULL
  <2>1. /\ n \in Node /\ st.type[n] = "free"
        /\ st1.f = st.f /\ st1.ht = st.ht
        /\ st1.type[n] = "key" /\ st1.name[n] = k
        /\ \A m \in Node : m # n => st1.type[m] = st.type[m] /\ st1.name[m] = st.name[m]
        /\ st1.f.parent[n] = NULL /\ st1.f.kids[n] = <<>> /\ st1.ht[n] = NULL
        /\ Base(st1)
        /\ \A m \in Node : m # n /\ Fine(st, m) => Fine(st1, m)
    <3>1. Grown(st, st1, n, "key", k)  BY <1>1, <1>3, <1>5, NewNode
    <3> QED  BY <3>1 DEF Grown
  <2>2. st1.f = st.f /\ st1.ht = st.ht /\ n # d /\ n # item /\ n \notin Live(st)
    BY <2>1, <1>1 DEF Live
  <2>3. PICK f : f = st.f /\ f = st1.f  BY <2>2
  <2>4. /\ ForestInv(f) /\ f.kids[d] = q /\ f.parent[n] = NULL /\ f.kids[n] = <<>>
        /\ f.parent[item] = NULL
    BY <2>1, <2>3, <1>1
  <2>5. PICK ka, va : ka = try_attach(short, f, d, n) /\ va = try_attach(short, ka.f, d, item)  OBVIOUS
  <2>6. /\ ForestInv(ka.f)
        /\ ka.ret # NODE_ERR_SUCCESS => ka.f = f
        /\ ka.ret = NODE_ERR_SUCCESS =>
              /\ ka.f.kids[d] = Append(q, n)
              /\ \A m \in Node \ {d} : ka.f.kids[m] = f.kids[m]
              /\ ka.f.parent[n] = d
              /\ \A m \in Node \ {n} : ka.f.parent[m] = f.parent[m]
    <3>1. Attached(f, ka, d, n)  BY <2>1, <2>4, <2>5, <1>1, AttachTried
    <3> QED  BY <3>1, <2>4 DEF Attached
  <2>7. u = add_value(st1, d, n, ka, item)
    BY <1>3, <1>5, <2>3, <2>5 DEF add_pair
  <2>8. \A i \in DOMAIN q : q[i] # n
    <3>1. st.f.parent[n] # d  BY <2>1, <2>3, <2>4, <1>1
    <3> QED  BY <3>1, <1>2
  <2>9. CASE ka.ret # NODE_ERR_SUCCESS \/ va.ret # NODE_ERR_SUCCESS
    <3>1. PICK g : g = ka.f  OBVIOUS
    <3>2. /\ ForestInv(g)
          /\ \A m \in Node \ {d} : g.kids[m] = f.kids[m]
          /\ \A m \in Node \ {n} : g.parent[m] = f.parent[m]
          /\ \/ g.kids[d] = q /\ g.parent[n] = NULL
             \/ g.kids[d] = Append(q, n) /\ g.parent[n] = d
      BY <3>1, <2>4, <2>6
    <3>3. PICK sk : sk = WithTrees(st1, g)  OBVIOUS
    <3>4. sk.type = st1.type /\ sk.name = st1.name /\ sk.f = g /\ sk.ht = st1.ht /\ Base(sk)
      <4>1. \A m \in Node : g.kids[m] # <<>> => st1.type[m] = "dict"
        BY <3>2, <2>1, <2>2, <2>3, <1>1 DEF Base
      <4>2. \A m \in Node : st1.type[m] = "free" => g.parent[m] = NULL
        BY <3>2, <2>1, <2>3 DEF Base
      <4> QED  BY <4>1, <4>2, <3>2, <3>3, <2>1, SetForest
    <3>5. u = plist_free_node(sk, n)
      <4>1. [st1 EXCEPT !.f = ka.f] = sk  BY <3>1, <3>3 DEF WithTrees
      <4> QED  BY <4>1, <2>5, <2>7, <2>9 DEF add_value
    <3>6. Subtree(g, n) = {n}
      <4>1. g.kids[n] = <<>>  BY <3>2, <2>1, <2>2, <2>4
      <4> QED  BY <4>1, <3>2, <2>1, LeafSubtree
    <3>7. PICK p, T : p = g.parent[n] /\ T = {n} /\ T = Subtree(sk.f, n) /\ p = sk.f.parent[n]
      BY <3>4, <3>6
    <3>8. /\ Base(u)
          /\ \A m \in Node \ T :
                /\ u.type[m] = sk.type[m] /\ u.name[m] = sk.name[m] /\ u.ht[m] = sk.ht[m]
                /\ u.f.parent[m] = sk.f.parent[m]
                /\ m # p => u.f.kids[m] = sk.f.kids[m]
          /\ \A m \in T : u.type[m] = "free"
          /\ p # NULL => u.f.kids[p] = RemoveAt(sk.f.kids[p], node_child_position(sk.f, p, n) + 1)
      BY <3>4, <3>5, <3>7, <2>1, FreeNode
    <3>9. u.f.kids[d] = q
      <4>1. CASE g.kids[d] = q /\ g.parent[n] = NULL
        <5>1. d \in Node \ T /\ d # p  BY <4>1, <3>7, <2>2, <1>1
        <5> QED  BY <5>1, <4>1, <3>4, <3>8
      <4>2. CASE g.kids[d] = Append(q, n) /\ g.parent[n] = d
        <5>1. PICK l : l = Len(q) + 1 /\ l \in DOMAIN g.kids[d] /\ g.kids[d][l] = n /\ l - 1 + 1 = l
          BY <4>2, <2>1, <1>2, AppendedSeq
        <5>2. node_child_position(g, d, n) = l - 1
          <6>1. ForestInv(g) /\ d \in Node /\ l \in DOMAIN g.kids[d]  BY <5>1, <3>2, <1>1
          <6>2. node_child_position(g, d, g.kids[d][l]) = l - 1  BY ONLY <6>1, Position
          <6> QED  BY <5>1, <6>2
        <5>3. u.f.kids[d] = RemoveAt(Append(q, n), l)
          <6>1. p = d /\ p # NULL /\ sk.f = g  BY <4>2, <3>4, <3>7, <1>1
          <6>2. u.f.kids[p] = RemoveAt(sk.f.kids[p], node_child_position(sk.f, p, n) + 1)
            BY <6>1, <3>8
          <6> QED  BY ONLY <6>1, <6>2, <5>1, <5>2, <4>2
        <5> QED  BY <5>1, <5>3, <2>1, <1>2, RemoveAppended
      <4> QED  BY <4>1, <4>2, <3>2
    <3>10. \A m \in Node \ {n} :
              /\ u.type[m] = st.type[m] /\ u.name[m] = st.name[m] /\ u.ht[m] = st.ht[m]
              /\ u.f.parent[m] = st.f.parent[m] /\ u.f.kids[m] = st.f.kids[m]
      <4> TAKE m \in Node \ {n}
      <4>1. /\ u.type[m] = st.type[m] /\ u.name[m] = st.name[m] /\ u.ht[m] = st.ht[m]
            /\ u.f.parent[m] = st.f.parent[m]
        BY <3>2, <3>4, <3>7, <3>8, <2>1, <2>2, <2>3
      <4>2. CASE m = d  BY <4>1, <4>2, <3>9
      <4>3. CASE m # d
        <5>1. m # p  BY <4>3, <3>2, <3>7, NodeAssumption
        <5>2. u.f.kids[m] = g.kids[m]  BY <5>1, <3>4, <3>7, <3>8
        <5> QED  BY <4>1, <4>3, <5>2, <3>2, <2>3
      <4> QED  BY <4>2, <4>3
    <3>11. u.type[n] = "free"  BY <3>7, <3>8
    <3>12. \A m \in Dicts(u) : Fine(u, m)
      <4> SUFFICES ASSUME NEW m \in Dicts(u) PROVE Fine(u, m)  OBVIOUS
      <4>1. m \in Node \ {n} /\ m \in Dicts(st)  BY <3>10, <3>11 DEF Dicts
      <4>2. Fine(st, m) /\ m # NULL  BY <4>1, NodeAssumption DEF Sound
      <4>3. \A c \in Node : st.f.parent[c] = m => u.type[c] = st.type[c] /\ u.name[c] = st.name[c]
        BY <4>2, <3>10, <2>3, <2>4
      <4>4. u.f.kids[m] = st.f.kids[m] /\ u.ht[m] = st.ht[m]  BY <4>1, <3>10
      <4> QED  BY <4>1, <4>2, <4>3, <4>4, <1>1, Unaffected
    <3>13. \A m \in Node : u.type[m] = "key" => u.f.parent[m] # NULL
      BY <3>10, <3>11 DEF Sound
    <3>14. Sound(u)  BY <3>8, <3>12, <3>13 DEF Sound
    <3>15. \A m \in Live(st) : m \in Node \ {n}  BY <2>2 DEF Live
    <3>16. Keeps(st, u, d, item)  BY <3>10, <3>15, <2>2, <1>1 DEF Keeps
    <3>17. \E R : Sets(st, u, d, k, item, R)  BY <3>10, <3>14, <3>15, SetsNothing
    <3> QED  BY <3>14, <3>16, <3>17
  <2>10. CASE ka.ret = NODE_ERR_SUCCESS /\ va.ret = NODE_ERR_SUCCESS
    <3>1. PICK r, h : r = Append(Append(q, n), item) /\ h = va.f  OBVIOUS
    <3>2. /\ ForestInv(h) /\ h.kids[d] = r
          /\ \A m \in Node \ {d} : h.kids[m] = f.kids[m]
          /\ h.parent[n] = d /\ h.parent[item] = d
          /\ \A m \in Node \ {n, item} : h.parent[m] = f.parent[m]
      <4>1. PICK g : g = ka.f  OBVIOUS
      <4>2. /\ ForestInv(va.f)
            /\ va.f.kids[d] = Append(g.kids[d], item)
            /\ \A m \in Node \ {d} : va.f.kids[m] = g.kids[m]
            /\ va.f.parent[item] = d
            /\ \A m \in Node \ {item} : va.f.parent[m] = g.parent[m]
          <5>1. Attached(g, va, d, item)  BY <4>1, <2>5, <2>6, <1>1, AttachTried
          <5> QED  BY <5>1, <2>10 DEF Attached
      <4>3. /\ g.kids[d] = Append(q, n)
            /\ \A m \in Node \ {d} : g.kids[m] = f.kids[m]
            /\ g.parent[n] = d
            /\ \A m \in Node \ {n} : g.parent[m] = f.parent[m]
        BY <4>1, <2>6, <2>10
      <4>4. h = va.f /\ r = Append(Append(q, n), item) /\ n \in Node /\ n # item  BY <3>1, <2>1, <2>2
      <4> QED  BY ONLY <4>2, <4>3, <4>4
    <3>3. PICK st2 : st2 = WithTrees(st1, h)  OBVIOUS
    <3>4. st2.type = st1.type /\ st2.name = st1.name /\ st2.f = h /\ st2.ht = st.ht /\ Base(st2)
      <4>1. \A m \in Node : h.kids[m] # <<>> => st1.type[m] = "dict"
        BY <3>2, <2>1, <2>2, <2>3, <1>1 DEF Base
      <4>2. \A m \in Node : st1.type[m] = "free" => h.parent[m] = NULL
        BY <3>2, <2>1, <2>2, <2>3, <1>1 DEF Base
      <4> QED  BY <4>1, <4>2, <3>2, <3>3, <2>1, <2>2, SetForest
    <3>5. u = hashed_pair(st2, d, n, item)
      <4>1. [st1 EXCEPT !.f = va.f] = st2  BY <3>1, <3>3 DEF WithTrees
      <4> QED  BY <4>1, <2>5, <2>7, <2>10 DEF add_value
    <3>6. PICK ty, nm, t, P, Q : /\ ty = st2.type /\ nm = st2.name /\ t = st2.ht[d]
                                 /\ P = Pairs(q) /\ Q = With(Pairs(q), Pair(n, item))
      OBVIOUS
    <3>7. /\ Good(ty, nm, q, t) /\ ty[n] = "key" /\ ty[item] # "key" /\ nm[n] = k
          /\ \A i \in DOMAIN q : i % 2 = 1 => nm[q[i]] # nm[n]
      <4>1. Fine(st1, d)  BY <2>1, <2>2, <1>1
      <4>2. Good(st1.type, st1.name, q, st1.ht[d])  BY <4>1, <2>3, <2>4 DEF Fine
      <4>3. \A i \in DOMAIN q : nm[q[i]] = st.name[q[i]]  BY <3>4, <3>6, <2>1, <2>8, <1>2
      <4> QED  BY <4>2, <4>3, <3>4, <3>6, <2>1, <2>2, <1>1
    <3>8. \A w : w = NULL \/ Holds(nm, w, Q) => Good(ty, nm, r, w) /\ Pairs(r) = Q
      <4> SUFFICES ASSUME NEW w, w = NULL \/ Holds(nm, w, Q) PROVE Good(ty, nm, r, w) /\ Pairs(r) = Q
        OBVIOUS
      <4>1. w = NULL \/ Holds(nm, w, With(Pairs(q), Pair(n, item)))  BY <3>6
      <4>2. /\ Good(ty, nm, Append(Append(q, n), item), w)
            /\ Pairs(Append(Append(q, n), item)) = With(Pairs(q), Pair(n, item))
        <5>1. n \in Node /\ item \in Node /\ q \in Seq(Node)  BY <2>1, <1>1, <1>2
        <5> QED  BY ONLY <5>1, <4>1, <3>7, GoodAppend
      <4> QED  BY <4>2, <3>1, <3>6
    <3>9. Entered(st2, u, d, Q)
      <4>0. st2.type[d] = "dict"  BY <3>4, <2>1, <2>2, <1>1
      <4>1. CASE st2.ht[d] # NULL
        <5>1. Holds(nm, t, P)  BY <4>1, <3>6, <3>7 DEF Good
        <5>2. \A e \in P : nm[e.key] # nm[n]
          <6>1. \A e \in P : \E i \in DOMAIN q : i % 2 = 1 /\ e.key = q[i]  BY <3>6, PairsAre
          <6> QED  BY <6>1, <3>7
        <5>3. Holds(st2.name, hash_table_insert(st2, t, n, item), P \cup {[key |-> n, value |-> item]})
          <6>1. Holds(st2.name, t, P) /\ st2.name[n] \in Key /\ \A e \in P : st2.name[e.key] # st2.name[n]
            BY <5>1, <5>2, <3>6, <3>7
          <6> QED  BY <6>1, <2>1, <1>1, InsertNew
        <5>4. Q = P \cup {[key |-> n, value |-> item]}  BY <3>6 DEF With, Pair
        <5>5. Enters(st2, d, n, item, Q)  BY <5>3, <5>4, <3>6 DEF Enters
        <5>6. u = with_entry(st2, d, n, item)  BY <4>1, <3>5 DEF hashed_pair
        <5> QED  BY <4>0, <5>5, <5>6, <3>4, <1>1, WithEntry
      <4>2. CASE st2.ht[d] = NULL /\ Len(Kids(st2, d)) > HashThreshold
        <5>1. PICK w : w = built_table(st2, d)  OBVIOUS
        <5>2. Good(ty, nm, r, NULL) /\ Pairs(r) = Q  BY <3>8
        <5>3. Alternates(st2.type, st2.name, st2.f.kids[d])
          BY <5>2, <3>2, <3>4, <3>6 DEF Good
        <5>4. Holds(st2.name, w, Pairs(st2.f.kids[d]))  BY <5>1, <5>3, <3>4, <1>1, BuiltTable
        <5>5. Holds(st2.name, w, Q)  BY <5>2, <5>4, <3>2, <3>4
        <5>6. u = WithTable(st2, d, w)  BY <4>2, <5>1, <3>5 DEF hashed_pair, WithTable
        <5>7. w \in Table  BY <5>5 DEF Holds
        <5>8. /\ u.type = st2.type /\ u.name = st2.name /\ u.f = st2.f
              /\ u.ht[d] = w /\ \A m \in Node \ {d} : u.ht[m] = st2.ht[m]
              /\ Base(u)
          BY <4>0, <5>6, <5>7, <3>4, <1>1, SetTable
        <5> QED  BY <5>5, <5>8 DEF Entered
      <4>3. CASE st2.ht[d] = NULL /\ ~(Len(Kids(st2, d)) > HashThreshold)
        <5>1. u = st2  BY <4>3, <3>5 DEF hashed_pair
        <5> QED  BY <5>1, <4>3, <3>4 DEF Entered
      <4> QED  BY <4>1, <4>2, <4>3
    <3>10. /\ u.type = st1.type /\ u.name = st1.name /\ u.f = h /\ Base(u)
           /\ \A m \in Node \ {d} : u.ht[m] = st.ht[m]
           /\ u.ht[d] = NULL \/ Holds(nm, u.ht[d], Q)
      BY <3>4, <3>6, <3>9 DEF Entered
    <3>11. \A m \in Dicts(u) : Fine(u, m)
      <4> SUFFICES ASSUME NEW m \in Dicts(u) PROVE Fine(u, m)  OBVIOUS
      <4>1. m \in Node /\ m # n /\ m \in Dicts(st)  BY <3>10, <2>1 DEF Dicts
      <4>2. CASE m = d
        <5>1. Good(ty, nm, r, u.ht[d])  BY <3>8, <3>10
        <5> QED  BY <4>2, <5>1, <3>2, <3>4, <3>6, <3>10 DEF Fine
      <4>3. CASE m # d
        <5>1. Fine(st, m) /\ m # NULL  BY <4>1, NodeAssumption DEF Sound
        <5>2. \A c \in Node : st.f.parent[c] = m => u.type[c] = st.type[c] /\ u.name[c] = st.name[c]
          BY <5>1, <3>10, <2>1, <2>3, <2>4
        <5>3. u.f.kids[m] = st.f.kids[m] /\ u.ht[m] = st.ht[m]  BY <4>1, <4>3, <3>2, <3>10, <2>3
        <5> QED  BY <4>1, <5>1, <5>2, <5>3, <1>1, Unaffected
      <4> QED  BY <4>2, <4>3
    <3>12. \A m \in Node : u.type[m] = "key" => u.f.parent[m] # NULL
      <4> SUFFICES ASSUME NEW m \in Node, u.type[m] = "key" PROVE u.f.parent[m] # NULL
        OBVIOUS
      <4>1. CASE m = n \/ m = item  BY <4>1, <3>2, <3>10, <1>1
      <4>2. CASE m # n /\ m # item
        <5>1. st.type[m] = "key"  BY <4>2, <3>10, <2>1
        <5>2. st.f.parent[m] # NULL  BY <5>1 DEF Sound
        <5> QED  BY <4>2, <5>2, <3>2, <3>10, <2>3
      <4> QED  BY <4>1, <4>2
    <3>13. Sound(u)  BY <3>10, <3>11, <3>12 DEF Sound
    <3>14. \A m \in Live(st) : m \in Node /\ m # n  BY <2>2 DEF Live
    <3>15. \A i \in DOMAIN q : i \in DOMAIN r /\ r[i] = q[i]
      <4>1. PICK p : p = Append(q, n)  OBVIOUS
      <4>2. /\ p \in Seq(Node) /\ DOMAIN p = 1..(Len(q) + 1) /\ Len(p) = Len(q) + 1
            /\ \A i \in 1..Len(q) : p[i] = q[i]
        BY <4>1, <2>1, <1>2, AppendedSeq
      <4>3. r = Append(p, item)  BY <3>1, <4>1
      <4>4. /\ DOMAIN r = 1..(Len(p) + 1) /\ \A i \in 1..Len(p) : r[i] = p[i]
        BY <4>2, <4>3, <1>1, AppendedSeq
      <4> QED  BY <4>2, <4>4, <1>2
    <3>16. Keeps(st, u, d, item)
      <4>1. \A m \in Live(st) : /\ u.type[m] = st.type[m]
                                /\ m # item => u.f.parent[m] = st.f.parent[m]
                                /\ m # d => u.f.kids[m] = st.f.kids[m]
        BY <3>2, <3>10, <3>14, <2>1, <2>3
      <4>2. u.f.kids[d] = r  BY <3>2, <3>10
      <4> QED  BY <4>1, <4>2, <3>15 DEF Keeps
    <3>17. \A j \in Key : \/ plist_dict_get_item(u, d, j) = plist_dict_get_item(st, d, j)
                          \/ j = k /\ plist_dict_get_item(u, d, j) = item
      <4>1. PICK e : e = Pair(n, item)  OBVIOUS
      <4>2. e.key = n /\ e.value = item  BY <4>1 DEF Pair
      <4>3. Pairs(u.f.kids[d]) = With(P, e)
        <5>1. Pairs(r) = Q
          <6>1. NULL = NULL \/ Holds(nm, NULL, Q)  OBVIOUS
          <6> QED  BY ONLY <6>1, <3>8
        <5> QED  BY <4>1, <5>1, <3>2, <3>6, <3>10
      <4>4. \A x \in P : u.name[x.key] = st.name[x.key]
        <5>1. \A x \in P : \E i \in DOMAIN q : x.key = q[i]  BY <3>6, PairsAre
        <5> QED  BY <5>1, <3>10, <2>1, <2>8, <1>2
      <4>5. u.name[e.key] = k  BY <4>2, <3>10, <2>1
      <4>6. d \in Dicts(u)  BY <3>10, <2>1, <2>2, <1>1 DEF Dicts
      <4>7. P = Pairs(st.f.kids[d]) /\ P \subseteq P /\ \A x \in P \ P : st.name[x.key] = k
        BY <3>6
      <4>8. \A j \in Key : \/ plist_dict_get_item(u, d, j) = plist_dict_get_item(st, d, j)
                           \/ j = k /\ plist_dict_get_item(u, d, j) = e.value
        BY ONLY <3>13, <4>3, <4>4, <4>5, <4>6, <4>7, Sound(st), d \in Dicts(st), PairAnswers
      <4> QED  BY <4>2, <4>8
    <3>18. Sets(st, u, d, k, item, {})
      <4>1. \A m \in Live(st) : /\ u.type[m] = st.type[m] /\ u.name[m] = st.name[m]
                                /\ m # item => u.f.parent[m] = st.f.parent[m]
                                /\ m # d => u.f.kids[m] = st.f.kids[m]
        BY <3>2, <3>10, <3>14, <2>1, <2>3
      <4> QED  BY <4>1, <3>17 DEF Sets
    <3> QED  BY <3>13, <3>16, <3>18
  <2> QED  BY <2>9, <2>10
<1> QED  BY <1>4, <1>5

LEMMA SetItemSound ==
    ASSUME NEW st, Sound(st), NEW d \in Dicts(st), NEW k \in Key,
           NEW item \in Roots(st) \cup {NULL},
           NEW u, u = plist_dict_set_item(st, d, k, item)
    PROVE  \/ Sound(u) /\ Keeps(st, u, d, item) /\ \E T : Sets(st, u, d, k, item, T)
           \/ Cracks(st, u, d)
<1>1. CASE item = NULL
  <2>1. u = st  BY <1>1 DEF plist_dict_set_item
  <2>2. \E T : Sets(st, u, d, k, item, T)  BY <2>1, SetsNothing
  <2> QED  BY <2>1, <2>2, KeepsSame
<1>2. CASE item # NULL
  <2>0. item \in Roots(st)  BY <1>2
  <2>1. PICK old : old = plist_dict_get_item(st, d, k)  OBVIOUS
  <2>2. u = set_value_of(st, d, k, old, item)  BY <2>1, <1>2 DEF plist_dict_set_item
  <2>3. Base(st) /\ d \in Node /\ Fine(st, d)  BY DEF Sound, Dicts
  <2>4. PICK q : q = st.f.kids[d]  OBVIOUS
  <2>5. \/ /\ old = NULL
           /\ \A i \in DOMAIN q : i % 2 = 1 => st.name[q[i]] # k
        \/ \E i \in DOMAIN q : /\ i % 2 = 1 /\ i + 1 \in DOMAIN q /\ st.name[q[i]] = k
                               /\ old = q[i + 1] /\ old \in Node
    BY <2>1, <2>3, <2>4, GetItem
  <2>6. CASE old = NULL
    <3>1. u = add_pair(new_node(st, "key", k), st, d, item)  BY <2>2, <2>6 DEF set_value_of
    <3>2. \A i \in DOMAIN q : i % 2 = 1 => st.name[q[i]] # k  BY <2>5, <2>6, NodeAssumption
    <3> QED  BY <3>1, <3>2, <2>0, <2>4, AddPairSound
  <2>7. CASE old # NULL
    <3>1. PICK i \in DOMAIN q : i % 2 = 1 /\ i + 1 \in DOMAIN q /\ st.name[q[i]] = k /\ old = q[i + 1]
      BY <2>5, <2>7
    <3>2. u = replace_value(st, d, old, item)  BY <2>2, <2>7 DEF set_value_of
    <3> QED  BY <3>1, <3>2, <2>0, <2>4, ReplaceSound
  <2> QED  BY <2>6, <2>7
<1> QED  BY <1>1, <1>2

-----------------------------------------------------------------------------
(***************************************************************************)
(* Lost values                                                             *)
(***************************************************************************)
LEMMA SoundWhole ==
    ASSUME NEW st, Sound(st)
    PROVE  Halved(st) = {}
<1> SUFFICES ASSUME NEW d \in Halved(st) PROVE FALSE
  OBVIOUS
<1>1. d \in Dicts(st) /\ Len(st.f.kids[d]) % 2 = 1  BY DEF Halved
<1>2. Base(st) /\ d \in Node /\ Len(st.f.kids[d]) % 2 = 0
  BY <1>1 DEF Sound, Dicts, Fine, Good
<1>3. Len(st.f.kids[d]) \in Nat  BY ONLY <1>2, ChildrenOf
<1>4. PICK l \in Nat : l % 2 = 1 /\ l % 2 = 0  BY <1>1, <1>2, <1>3
<1> QED  BY ONLY <1>4

\* u is w but for the dict d, which misses the value after its key j - 1: that value is
\* a root, and with it back in its place d has the children of w again.
Halves(w, u, d, j) ==
    /\ Base(u) /\ u.type = w.type /\ u.name = w.name /\ u.ht = w.ht
    /\ d \in Dicts(w)
    /\ \A m \in Node \ {d} : u.f.kids[m] = w.f.kids[m]
    /\ Halved(u) = {d}
    /\ \A m \in Dicts(u) \ {d} : Fine(u, m)
    /\ \A n \in Node : u.type[n] = "key" => u.f.parent[n] # NULL
    /\ w.f.kids[d][j] \in Roots(u)
    /\ j - 1 \in DOMAIN u.f.kids[d]
    /\ InsertAt(u.f.kids[d], j, w.f.kids[d][j]) = w.f.kids[d]
    /\ \A m \in Dicts(u) \ {d}, k \in Key : plist_dict_get_item(u, m, k) = plist_dict_get_item(w, m, k)

LEMMA LostHalves ==
    ASSUME NEW w, Sound(w), NEW u, NEW d, NEW j, Lost(w, u, d, j)
    PROVE  Halves(w, u, d, j)
<1>1. PICK f, q, g, v : f = w.f /\ q = f.kids[d] /\ g = Unlink(f, d, j) /\ v = q[j]  OBVIOUS
<1>2. /\ d \in Dicts(w) /\ j \in DOMAIN q /\ j % 2 = 0 /\ u = WithTrees(w, g)
      /\ d \in Node /\ w.type[d] = "dict" /\ Base(w) /\ Fine(w, d) /\ ForestInv(f)
  BY <1>1 DEF Lost, Dicts, Sound, Base
<1>3. /\ q \in Seq(Node) /\ Len(q) \in Nat /\ DOMAIN q = 1..Len(q)
      /\ \A i \in DOMAIN q : q[i] \in Node /\ f.parent[q[i]] = d /\ w.type[q[i]] # "free"
  BY <1>1, <1>2, ChildrenOf
<1>4. PICK l \in Nat : l = Len(q)  BY <1>3
<1>5. j \in 1..l /\ l % 2 = 0  BY <1>1, <1>2, <1>3, <1>4 DEF Fine, Good
<1>6. PICK p : p = RemoveAt(q, j)  OBVIOUS
<1>7. p \in Seq(Node) /\ Len(p) = l - 1 /\ DOMAIN p = 1..(l - 1)
  <2>1. q \in Seq(Node) /\ j \in 1..Len(q)  BY <1>3, <1>4, <1>5
  <2>2. p \in Seq(Node) /\ Len(p) = Len(q) - 1  BY ONLY <2>1, <1>6, RemoveAtProperties
  <2>3. DOMAIN p = 1..Len(p)  BY ONLY <2>2, LenProperties
  <2> QED  BY ONLY <2>2, <2>3, <1>4
<1>8. /\ ForestInv(g) /\ g.parent[v] = NULL /\ g.kids[d] = p
      /\ \A m \in Node \ {d} : g.kids[m] = f.kids[m]
      /\ \A n \in Node \ {v} : g.parent[n] = f.parent[n]
  <2>1. ForestInv(g) /\ g.parent[v] = NULL
    <3>1. ForestInv(f) /\ d \in Node /\ j \in 1..Len(f.kids[d])  BY <1>1, <1>2, <1>4, <1>5
    <3>2. ForestInv(Unlink(f, d, j)) /\ Unlink(f, d, j).parent[f.kids[d][j]] = NULL
      BY ONLY <3>1, UnlinkForest
    <3> QED  BY <3>2, <1>1
  <2>2. f.kids \in [Node -> Seq(Node)] /\ f.parent \in [Node -> Node \cup {NULL}]
    BY <1>2 DEF ForestInv, Forest
  <2>3. /\ g.kids = [f.kids EXCEPT ![d] = RemoveAt(@, j)]
        /\ g.parent = [f.parent EXCEPT ![f.kids[d][j]] = NULL]
    BY <1>1 DEF Unlink
  <2> QED  BY <2>1, <2>2, <2>3, <1>1, <1>2, <1>6
<1>9. u.type = w.type /\ u.name = w.name /\ u.f = g /\ u.ht = w.ht /\ Base(u)
  <2>1. \A n \in Node : g.kids[n] # <<>> => w.type[n] = "dict"  BY <1>1, <1>2, <1>8 DEF Base
  <2>2. \A n \in Node : w.type[n] = "free" => g.parent[n] = NULL  BY <1>1, <1>2, <1>8 DEF Base
  <2>3. Base(w) /\ ForestInv(g) /\ u = WithTrees(w, g)  BY <1>2, <1>8
  <2> QED  BY ONLY <2>1, <2>2, <2>3, SetForest
<1>10. v \in Node /\ w.type[v] # "free" /\ w.type[v] # "key"
  <2>1. v \in Node /\ w.type[v] # "free"  BY <1>1, <1>2, <1>3
  <2>2. w.type[q[j]] = "key" <=> j % 2 = 1  BY <1>1, <1>2 DEF Fine, Good, Alternates
  <2>3. ~(j % 2 = 1)  BY <1>2
  <2> QED  BY <2>1, <2>2, <2>3, <1>1
<1>11. Dicts(u) = Dicts(w)  BY <1>9 DEF Dicts
<1>12. \A m \in Dicts(u) \ {d} : m \in Node \ {d} /\ Fine(w, m) /\ Fine(u, m)
  <2> TAKE m \in Dicts(u) \ {d}
  <2>1. m \in Node \ {d} /\ Fine(w, m)  BY <1>11 DEF Sound, Dicts
  <2>2. u.f.kids[m] = w.f.kids[m]  BY <2>1, <1>1, <1>8, <1>9
  <2>3. Fine(u, m)  BY <2>1, <2>2, <1>9 DEF Fine
  <2> QED  BY <2>1, <2>3
<1>13. Halved(u) = {d}
  <2>1. u.f.kids[d] = p  BY <1>8, <1>9
  <2>2. (l - 1) % 2 = 1  BY <1>5
  <2>3. d \in Halved(u)  BY <2>1, <2>2, <1>2, <1>7, <1>11 DEF Halved
  <2>4. \A m \in Halved(u) : m = d
    <3> SUFFICES ASSUME NEW m \in Halved(u), m # d PROVE FALSE
      OBVIOUS
    <3>1. m \in Dicts(u) \ {d} /\ Len(u.f.kids[m]) % 2 = 1  BY DEF Halved
    <3>2. m \in Node /\ Len(u.f.kids[m]) % 2 = 0  BY <3>1, <1>12 DEF Fine, Good
    <3>3. Len(u.f.kids[m]) \in Nat  BY ONLY <3>2, <1>9, ChildrenOf
    <3>4. PICK x \in Nat : x % 2 = 1 /\ x % 2 = 0  BY <3>1, <3>2, <3>3
    <3> QED  BY ONLY <3>4
  <2> QED  BY <2>3, <2>4
<1>14. \A n \in Node : u.type[n] = "key" => u.f.parent[n] # NULL
  <2> SUFFICES ASSUME NEW n \in Node, u.type[n] = "key" PROVE u.f.parent[n] # NULL
    OBVIOUS
  <2>1. n # v /\ w.type[n] = "key"  BY <1>9, <1>10
  <2>2. f.parent[n] # NULL  BY <2>1, <1>1 DEF Sound
  <2> QED  BY <2>1, <2>2, <1>8, <1>9
<1>15. v \in Roots(u)  BY <1>8, <1>9, <1>10 DEF Roots, Live
<1>16. InsertAt(p, j, v) = q
  <2>1. InsertAt(RemoveAt(q, j), j, q[j]) = ReplaceAt(q, j, q[j]) /\ ReplaceAt(q, j, q[j]) = q
    <3>1. q \in Seq(Node) /\ j \in 1..Len(q) /\ q[j] \in Node  BY <1>1, <1>3, <1>4, <1>5, <1>10
    <3> QED  BY ONLY <3>1, ReplaceProperties
  <2> QED  BY <2>1, <1>1, <1>6
<1>17. j - 1 \in DOMAIN p
  <2>1. j \in 1..l /\ j % 2 = 0  BY <1>2, <1>5
  <2>2. j - 1 \in 1..(l - 1)  BY ONLY <2>1, l \in Nat
  <2> QED  BY <2>2, <1>7
<1>18. \A m \in Dicts(u) \ {d}, k \in Key : plist_dict_get_item(u, m, k) = plist_dict_get_item(w, m, k)
  <2> TAKE m \in Dicts(u) \ {d}, k \in Key
  <2>1. m \in Node \ {d} /\ Fine(w, m) /\ Fine(u, m)  BY <1>12
  <2>2. u.f.kids[m] = w.f.kids[m]  BY <2>1, <1>1, <1>8, <1>9
  <2>3. Pairs(u.f.kids[m]) = Pairs(w.f.kids[m])  BY <2>2
  <2>4. \A c \in Node : w.f.parent[c] = m => u.name[c] = w.name[c]  BY <1>9
  <2>5. Base(w) /\ Base(u)  BY <1>2, <1>9
  <2> QED  BY ONLY <2>1, <2>3, <2>4, <2>5, k \in Key, KeptAnswersOf
<1> QED  BY <1>1, <1>2, <1>8, <1>9, <1>12, <1>13, <1>14, <1>15, <1>16, <1>17, <1>18 DEF Halves

\* The end of the tree of a dict that has lost a value: what is left is sound, and
\* answers as before.
LEMMA EndSound ==
    ASSUME NEW w, NEW st, NEW d, NEW j, Halves(w, st, d, j),
           NEW n \in Roots(st), d \in Subtree(st.f, n), NEW u, u = plist_free_node(st, n)
    PROVE  /\ Sound(u)
           /\ \A m \in (Dicts(st) \ {d}) \cap Dicts(u), k \in Key :
                 plist_dict_get_item(u, m, k) = plist_dict_get_item(st, m, k)
<1>1. /\ Base(st) /\ n \in Node /\ st.f.parent[n] = NULL
      /\ \A m \in Dicts(st) \ {d} : m \in Node /\ Fine(st, m)
      /\ \A m \in Node : st.type[m] = "key" => st.f.parent[m] # NULL
  BY DEF Halves, Roots, Live, Dicts
<1>2. PICK T, p : T = Subtree(st.f, n) /\ p = NULL  OBVIOUS
<1>3. /\ Base(u) /\ d \in T
      /\ \A m \in Node : m # n => (m \in T <=> st.f.parent[m] \in T)
      /\ \A m \in Node \ T :
            /\ u.type[m] = st.type[m] /\ u.name[m] = st.name[m]
            /\ u.f.parent[m] = st.f.parent[m]
            /\ m # p => u.f.kids[m] = st.f.kids[m]
      /\ \A m \in T : u.type[m] = "free"
      /\ \A m \in Node \ T : m # p /\ Fine(st, m) => Fine(u, m)
  <2>1. p = st.f.parent[n]  BY <1>1, <1>2
  <2>2. d \in T  BY <1>2
  <2> QED  BY ONLY <2>1, <2>2, <1>1, <1>2, u = plist_free_node(st, n), FreeNode
<1>4. \A m \in Dicts(u) : m \in Node \ T /\ m \in Dicts(st) \ {d} /\ m # p
  BY <1>2, <1>3, NodeAssumption DEF Dicts
<1>5. \A m \in Dicts(u) : Fine(st, m) /\ Fine(u, m)  BY ONLY <1>1, <1>3, <1>4
<1>6. \A m \in Node : u.type[m] = "key" => u.f.parent[m] # NULL
  <2> SUFFICES ASSUME NEW m \in Node, u.type[m] = "key" PROVE u.f.parent[m] # NULL
    OBVIOUS
  <2>1. m \in Node \ T  BY <1>3
  <2> QED  BY <2>1, <1>1, <1>3
<1>7. Sound(u)  BY <1>3, <1>5, <1>6 DEF Sound
<1>8. \A m \in Dicts(u), k \in Key : plist_dict_get_item(u, m, k) = plist_dict_get_item(st, m, k)
  <2> TAKE m \in Dicts(u), k \in Key
  <2>1. m \in Node \ T /\ m # p /\ Fine(st, m) /\ Fine(u, m)  BY <1>4, <1>5
  <2>2. Pairs(u.f.kids[m]) = Pairs(st.f.kids[m])  BY <2>1, <1>3
  <2>3. \A c \in Node : st.f.parent[c] = m => u.name[c] = st.name[c]
    <3> TAKE c \in Node
    <3>1. ASSUME st.f.parent[c] = m PROVE c \in Node \ T
      <4>1. c # n  BY <3>1, <2>1, <1>1, <1>2
      <4> QED  BY <3>1, <4>1, <2>1, <1>3
    <3> QED  BY <3>1, <1>3
  <2>4. Base(st) /\ Base(u) /\ m \in Node  BY <1>1, <1>3, <2>1
  <2> QED  BY ONLY <2>1, <2>2, <2>3, <2>4, k \in Key, KeptAnswersOf
<1> QED  BY <1>7, <1>8

\* The only answer that changes is that for k in d, and something is found there.
SetOnly(st, u, d, k) ==
    \A m \in Dicts(st) \cap Dicts(u), j \in Key :
       plist_dict_get_item(u, m, j) # plist_dict_get_item(st, m, j) =>
          m = d /\ j = k /\ plist_dict_get_item(u, m, j) # NULL

LEMMA SetsOnly ==
    ASSUME NEW st, Sound(st), NEW u, Sound(u), NEW d \in Dicts(st), NEW k \in Key, NEW item,
           NEW T, Sets(st, u, d, k, item, T)
    PROVE  SetOnly(st, u, d, k)
<1> SUFFICES ASSUME NEW m \in Dicts(st), m \in Dicts(u), NEW j \in Key,
                    plist_dict_get_item(u, m, j) # plist_dict_get_item(st, m, j)
             PROVE  m = d /\ j = k /\ plist_dict_get_item(u, m, j) # NULL
  BY DEF SetOnly
<1>1. Base(st) /\ d \in Node /\ Fine(st, d) /\ m \in Node /\ m # NULL  BY NodeAssumption DEF Sound, Dicts
<1>2. CASE m = d
  <2>1. j = k /\ plist_dict_get_item(u, d, j) \in Node  BY <1>2 DEF Sets, Roots, Live
  <2> QED  BY <2>1, <1>2, NodeAssumption
<1>3. CASE m # d
  <2>1. m \in Live(st) \ T  BY DEF Sets, Dicts, Live
  <2>2. u.f.kids[m] = st.f.kids[m]  BY <2>1, <1>3 DEF Sets
  <2>3. \A c \in Node : st.f.parent[c] = m => c \in Live(st) \ T
    <3> SUFFICES ASSUME NEW c \in Node, st.f.parent[c] = m, c \in T PROVE FALSE
      BY <1>1 DEF Base, Live
    <3>1. PICK f, r : f = st.f /\ r = plist_dict_get_item(st, d, k)  OBVIOUS
    <3>2. r \in Node /\ T = Subtree(f, r) /\ ForestInv(f)  BY <3>1, <1>1 DEF Sets, Base
    <3>3. f.parent[r] = d
      <4>1. PICK P : P = Pairs(st.f.kids[d])  OBVIOUS
      <4>2. r # NULL  BY <3>2, NodeAssumption
      <4>3. st.f.parent[r] = d  BY <3>1, <4>1, <4>2, <1>1, Answer
      <4> QED  BY <3>1, <4>3
    <3>4. c # r  BY <3>1, <3>3, <1>3
    <3>5. f.parent[c] \in T  BY <3>2, <3>4, SubtreeCut
    <3> QED  BY <3>1, <3>5, <2>1
  <2>4. \A c \in Node : st.f.parent[c] = m => u.name[c] = st.name[c]  BY <2>3 DEF Sets
  <2>5. plist_dict_get_item(u, m, j) = plist_dict_get_item(st, m, j)
    BY <2>2, <2>4, KeptAnswers
  <2> QED  BY <2>5
<1> QED  BY <1>2, <1>3


-----------------------------------------------------------------------------
(***************************************************************************)
(* New nodes, renamed keys, parsed dicts                                   *)
(***************************************************************************)
LEMMA GrownIntact ==
    ASSUME NEW st, NEW u, NEW n, NEW t, NEW k, Grown(st, u, n, t, k)
    PROVE  Intact(st, u)
BY DEF Grown, Intact, Live

LEMMA NewSound ==
    ASSUME NEW st, Sound(st), NEW t \in {"dict", "value"}
    PROVE  Sound(new_node(st, t, NoName).s) /\ AnswersSame(st, new_node(st, t, NoName).s)
<1>1. PICK n, u : n = new_node(st, t, NoName).n /\ u = new_node(st, t, NoName).s  OBVIOUS
<1>2. Base(st) /\ t # "key"  BY DEF Sound
<1>3. CASE n = NULL
  <2>1. t \in {"dict", "key", "value"} /\ NoName \in Key \cup {NoName}  OBVIOUS
  <2>2. PICK k : k = NoName  OBVIOUS
  <2>3. Base(st) /\ t \in {"dict", "key", "value"} /\ k \in Key \cup {NoName} /\ (t = "key" => k \in Key)
    BY <1>2, <2>1, <2>2
  <2>4. n = new_node(st, t, k).n /\ u = new_node(st, t, k).s  BY <1>1, <2>2
  <2>5. u = st  BY ONLY <1>3, <2>3, <2>4, NewNode
  <2> QED  BY <1>1, <2>5 DEF AnswersSame
<1>4. CASE n # NULL
  <2>1. Grown(st, u, n, t, NoName)  BY <1>1, <1>2, <1>4, NewNode
  <2>2. \A m \in Dicts(u) : Fine(u, m)
    <3> TAKE m \in Dicts(u)
    <3>1. m \in Node /\ (m # n => m \in Dicts(st))  BY <2>1 DEF Dicts, Grown
    <3> QED  BY <3>1, <2>1 DEF Grown, Sound
  <2>3. \A m \in Node : u.type[m] = "key" => u.f.parent[m] # NULL
    BY <2>1, <1>2 DEF Grown, Sound
  <2>4. Sound(u)  BY <2>1, <2>2, <2>3 DEF Sound, Grown
  <2>5. AnswersSame(st, u)  BY <2>1, <2>4, GrownIntact, IntactAnswers
  <2> QED  BY <1>1, <2>4, <2>5
<1> QED  BY <1>3, <1>4

\* Only the answers for the old and the new name of n change, in its dict.
RenameOnly(st, u, n, k) ==
    \A m \in Dicts(st) \cap Dicts(u), j \in Key :
       m # st.f.parent[n] \/ j \notin {st.name[n], k} =>
          plist_dict_get_item(u, m, j) = plist_dict_get_item(st, m, j)

\* A key whose dict has no table gets a name that no other key of it has.
LEMMA SetKeyValSound ==
    ASSUME NEW st, Sound(st), NEW n \in Node, st.type[n] = "key", NEW k \in Key,
           st.ht[st.f.parent[n]] = NULL
    PROVE  /\ Sound(plist_set_key_val(st, n, k))
           /\ RenameOnly(st, plist_set_key_val(st, n, k), n, k)
<1>1. PICK d : d = st.f.parent[n]  OBVIOUS
<1>2. PICK u : u = plist_set_key_val(st, n, k)  OBVIOUS
<1>3. Base(st) /\ d # NULL  BY <1>1 DEF Sound
<1>4. d \in Node  BY <1>1, <1>3, Fields
<1>5. PICK q : q = st.f.kids[d]  OBVIOUS
<1>6. /\ q \in Seq(Node) /\ DOMAIN q = 1..Len(q)
      /\ \A i \in DOMAIN q : q[i] \in Node
      /\ \E i \in DOMAIN q : q[i] = n
      /\ \A i, j \in DOMAIN q : q[i] = q[j] => i = j
  BY <1>1, <1>3, <1>4, <1>5, ChildrenOf
<1>7. st.type[d] = "dict"
  <2>1. q # <<>>
    <3>1. DOMAIN <<>> = {}  OBVIOUS
    <3> QED  BY <3>1, <1>6
  <2> QED  BY <2>1, <1>3, <1>4, <1>5 DEF Base
<1>8. Fine(st, d)  BY <1>4, <1>7 DEF Sound, Dicts
<1>9. PICK old : old = plist_dict_get_item(st, d, k)  OBVIOUS
<1>10. CASE old # NULL
  <2>1. u = st  BY <1>1, <1>2, <1>9, <1>10 DEF plist_set_key_val
  <2> QED  BY <1>2, <2>1 DEF RenameOnly
<1>11. CASE old = NULL
  <2>1. PICK nm : nm = [st.name EXCEPT ![n] = k]  OBVIOUS
  <2>2. u.type = st.type /\ u.name = nm /\ u.f = st.f /\ u.ht = st.ht /\ u \in State
        /\ nm[n] = k /\ \A m \in Node : m # n => nm[m] = st.name[m]
    <3>1. st = [type |-> st.type, name |-> st.name, f |-> st.f, ht |-> st.ht]  BY <1>3, Fields
    <3>2. u = [st EXCEPT !.name = nm]  BY <2>1, <1>1, <1>2, <1>9, <1>11 DEF plist_set_key_val
    <3>3. u = [type |-> st.type, name |-> nm, f |-> st.f, ht |-> st.ht]  BY <3>1, <3>2
    <3>4. st.name \in [Node -> Key \cup {NoName}]  BY <1>3, Fields
    <3>5. nm \in [Node -> Key \cup {NoName}]  BY <3>4, <2>1
    <3>6. nm[n] = k /\ \A m \in Node : m # n => nm[m] = st.name[m]  BY <3>4, <2>1
    <3>7. u \in State  BY <3>3, <3>5, <1>3, Fields DEF State
    <3> QED  BY <3>3, <3>6, <3>7
  <2>3. Base(u)
    <3>1. /\ ForestInv(st.f)
          /\ \A m \in Node : st.ht[m] # NULL => st.type[m] = "dict"
          /\ \A m \in Node : st.f.kids[m] # <<>> => st.type[m] = "dict"
          /\ \A m \in Node : st.type[m] = "free" => st.f.parent[m] = NULL /\ st.name[m] = NoName
          /\ \A m \in Node : st.type[m] = "key" => st.name[m] \in Key
      BY <1>3 DEF Base
    <3>2. \A m \in Node : u.type[m] = "key" => u.name[m] \in Key  BY <2>2, <3>1
    <3>3. \A m \in Node : u.type[m] = "free" => u.f.parent[m] = NULL /\ u.name[m] = NoName
      BY <2>2, <3>1
    <3> QED  BY <2>2, <3>1, <3>2, <3>3 DEF Base
  <2>4. \A i \in DOMAIN q : i % 2 = 1 => st.name[q[i]] # k
    <3>1. \/ \A i \in DOMAIN q : i % 2 = 1 => st.name[q[i]] # k
          \/ old \in Node
      BY <1>3, <1>4, <1>5, <1>8, <1>9, GetItem
    <3> QED  BY <3>1, <1>11, NodeAssumption
  <2>5. Fine(u, d)
    <3>1. /\ \A i \in DOMAIN q : st.type[q[i]] = "key" <=> i % 2 = 1
          /\ \A i, j \in DOMAIN q : i % 2 = 1 /\ j % 2 = 1 /\ st.name[q[i]] = st.name[q[j]] => i = j
          /\ Len(q) % 2 = 0
      BY <1>5, <1>8 DEF Fine, Good, Alternates
    <3>2. \A i, j \in DOMAIN q : i % 2 = 1 /\ j % 2 = 1 /\ nm[q[i]] = nm[q[j]] => i = j
      BY <3>1, <2>2, <2>4, <1>6
    <3>3. Alternates(u.type, nm, q)  BY <3>1, <3>2, <2>2 DEF Alternates
    <3>4. u.ht[d] = NULL  BY <2>2, <1>1
    <3>5. u.f.kids[d] = q /\ u.name = nm  BY <2>2, <1>5
    <3> QED  BY <3>1, <3>3, <3>4, <3>5 DEF Fine, Good
  <2>6. \A m \in Dicts(u) : Fine(u, m)
    <3> SUFFICES ASSUME NEW m \in Dicts(u), m # d PROVE Fine(u, m)
      BY <2>5
    <3>1. m \in Node /\ Fine(st, m)  BY <2>2 DEF Sound, Dicts
    <3>2. \A c \in Node : st.f.parent[c] = m => u.type[c] = st.type[c] /\ u.name[c] = st.name[c]
      BY <2>2, <1>1
    <3> QED  BY <3>1, <3>2, <2>2, <1>3, Unaffected
  <2>7. Sound(u)  BY <2>2, <2>3, <2>6 DEF Sound
  <2>8. RenameOnly(st, u, n, k)
    <3> SUFFICES ASSUME NEW m \in Dicts(st), m \in Dicts(u), NEW j \in Key,
                        m # d \/ j \notin {st.name[n], k}
                 PROVE  plist_dict_get_item(u, m, j) = plist_dict_get_item(st, m, j)
      BY <1>1 DEF RenameOnly
    <3>1. CASE m # d
      <4>1. \A c \in Node : st.f.parent[c] = m => u.name[c] = st.name[c]  BY <3>1, <2>2, <1>1
      <4>2. u.f = st.f  BY <2>2
      <4> QED  BY <4>1, <4>2, <2>7, KeptAnswers
    <3>2. CASE j \notin {st.name[n], k}
      <4>1. PICK P : P = Pairs(st.f.kids[m])  OBVIOUS
      <4>2. \A e \in P : e.key \in Node
        <5>1. m \in Node  BY DEF Dicts
        <5>2. \A e \in P : \E i \in DOMAIN st.f.kids[m] : e.key = st.f.kids[m][i]  BY <4>1, PairsAre
        <5> QED  BY <5>1, <5>2, <1>3, ChildrenOf
      <4>3. \A e \in P : u.name[e.key] = j <=> st.name[e.key] = j  BY <4>2, <3>2, <2>2
      <4>4. \A v : Bound(u.name, P, j, v) <=> Bound(st.name, P, j, v)  BY <4>3 DEF Bound
      <4>5. P = Pairs(u.f.kids[m])  BY <4>1, <2>2
      <4>6. \A v : Bound(u.name, Pairs(u.f.kids[m]), j, v) <=> Bound(st.name, Pairs(st.f.kids[m]), j, v)
        BY <4>1, <4>4, <4>5
      <4> QED  BY ONLY <4>6, <2>7, Sound(st), m \in Dicts(st), m \in Dicts(u), j \in Key, SameAnswer
    <3> QED  BY <3>1, <3>2
  <2> QED  BY <1>2, <2>7, <2>8
<1> QED  BY <1>10, <1>11

\* No guard refuses a leaf below a root: only memory can be lacking.
LEMMA LeafAttach ==
    ASSUME NEW f, ForestInv(f), MaxDepth >= 1, NEW d \in Node, NEW c \in Node, d # c,
           f.parent[d] = NULL, f.parent[c] = NULL, f.kids[c] = <<>>
    PROVE  node_attach(f, d, c).ret = NODE_ERR_SUCCESS
<1>1. \A n \in Node : f.parent[n] = NULL => Ancestors(f, n) = {n} /\ Depth(f, n) = 0
  <2> SUFFICES ASSUME NEW n \in Node, f.parent[n] = NULL
               PROVE  Ancestors(f, n) = {n} /\ Depth(f, n) = 0
    OBVIOUS
  <2>1. n \in Ancestors(f, n)  BY AncestorsClosed
  <2>2. PICK S : S = {n}  OBVIOUS
  <2>3. S \in SUBSET Node /\ n \in S /\ \A m \in S : f.parent[m] \in S \cup {NULL}  BY <2>2
  <2>4. Ancestors(f, n) \subseteq S  BY <2>3, AncestorsMinimal
  <2>5. Ancestors(f, n) = {n}  BY <2>1, <2>2, <2>4
  <2>6. Cardinality({n}) = 1  BY FS_Singleton
  <2>7. Depth(f, n) = Cardinality(Ancestors(f, n)) - 1  BY DepthType
  <2> QED  BY ONLY <2>5, <2>6, <2>7
<1>2. Subtree(f, c) = {c}  BY LeafSubtree
<1>3. ~would_create_cycle(f, d, c)  BY <1>1 DEF would_create_cycle
<1>4. ~exceeds_max_depth(f, d, c)
  <2>1. Depth(f, d) = 0 /\ \A m \in Subtree(f, c) : Depth(f, m) = 0  BY <1>1, <1>2
  <2>2. MaxDepth \in Nat  BY MaxDepthAssumption
  <2> QED  BY <2>1, <2>2 DEF exceeds_max_depth
<1>5. NULL \notin {d, c}  BY NodeAssumption
<1> QED  BY <1>3, <1>4, <1>5 DEF node_attach, outcome, attach_guard

\* The dict d after i of its pairs were parsed; st0 is what there was before.
Part(st0, st, d, names, i) ==
    /\ Sound(st) /\ Intact(st0, st) /\ d \notin Live(st0)
    /\ d \in Dicts(st) /\ st.f.parent[d] = NULL /\ st.ht[d] = NULL
    /\ \A h \in DOMAIN st.f.kids[d] : h % 2 = 1 =>
          \E j \in 1..i : st.name[st.f.kids[d][h]] = names[j]

Parsing == [s : State, d : Node \cup {NULL}]

LEMMA ParsedPair ==
    ASSUME NEW l \in Nat, NEW names \in [1..l -> Key],
           \A i, j \in 1..l : names[i] = names[j] => i = j,
           MaxDepth >= 1, NEW i \in 1..l,
           NEW st0, NEW acc \in Parsing, acc.d = NULL \/ Part(st0, acc.s, acc.d, names, i - 1),
           NEW r, r = parsed_pair(acc, names[i])
    PROVE  r \in Parsing /\ (r.d = NULL \/ Part(st0, r.s, r.d, names, i))
<1>1. PICK st, d, k : st = acc.s /\ d = acc.d /\ k = names[i]  OBVIOUS
<1>2. st \in State /\ k \in Key /\ acc = [s |-> st, d |-> d]  BY <1>1 DEF Parsing
<1>3. PICK kn, s1 : kn = new_node(st, "key", k).n /\ s1 = new_node(st, "key", k).s  OBVIOUS
<1>4. PICK vn, s2 : vn = new_node(s1, "value", NoName).n /\ s2 = new_node(s1, "value", NoName).s
  OBVIOUS
<1>5. CASE NULL \in {d, kn, vn}
  <2>1. r = [acc EXCEPT !.d = NULL]  BY <1>1, <1>3, <1>4, <1>5 DEF parsed_pair
  <2>2. r = [s |-> st, d |-> NULL]  BY <2>1, <1>2
  <2> QED  BY <2>2, <1>2 DEF Parsing
<1>6. CASE NULL \notin {d, kn, vn}
  <2>1. Part(st0, st, d, names, i - 1)  BY <1>1, <1>6
  <2>2. /\ Sound(st) /\ Base(st) /\ d \in Node /\ st.type[d] = "dict" /\ Fine(st, d)
        /\ st.f.parent[d] = NULL /\ st.ht[d] = NULL /\ ForestInv(st.f)
    BY <2>1 DEF Part, Sound, Dicts, Base
  <2>3. /\ kn \in Node /\ st.type[kn] = "free"
        /\ s1.type[kn] = "key" /\ s1.name[kn] = k
        /\ \A m \in Node : m # kn => s1.type[m] = st.type[m] /\ s1.name[m] = st.name[m]
        /\ s1.f = st.f /\ s1.ht = st.ht
        /\ st.f.parent[kn] = NULL /\ st.f.kids[kn] = <<>>
        /\ Base(s1)
    <3>1. Grown(st, s1, kn, "key", k)  BY <2>2, <1>2, <1>3, <1>6, NewNode
    <3> QED  BY <3>1 DEF Grown
  <2>4. /\ vn \in Node /\ s1.type[vn] = "free"
        /\ s2.type[vn] = "value" /\ s2.name[vn] = NoName
        /\ \A m \in Node : m # vn => s2.type[m] = s1.type[m] /\ s2.name[m] = s1.name[m]
        /\ s2.f = st.f /\ s2.ht = st.ht
        /\ st.f.parent[vn] = NULL /\ st.f.kids[vn] = <<>>
        /\ Base(s2)
    <3>1. Grown(s1, s2, vn, "value", NoName)  BY <2>3, <1>4, <1>6, NewNode
    <3> QED  BY <3>1, <2>3 DEF Grown
  <2>5. kn # vn /\ kn # d /\ vn # d /\ st.type[vn] = "free" /\ d # NULL
    BY <2>2, <2>3, <2>4, <1>6
  <2>6. PICK f, q : f = st.f /\ q = f.kids[d]  OBVIOUS
  <2>7. PICK ka, va : ka = node_attach(f, d, kn) /\ va = node_attach(ka.f, d, vn)  OBVIOUS
  <2>8. /\ ForestInv(ka.f)
        /\ ka.f.kids[d] = Append(q, kn)
        /\ \A m \in Node \ {d} : ka.f.kids[m] = f.kids[m]
        /\ ka.f.parent[kn] = d
        /\ \A m \in Node \ {kn} : ka.f.parent[m] = f.parent[m]
    <3>1. /\ ForestInv(f) /\ f.parent[d] = NULL /\ f.parent[kn] = NULL /\ f.kids[kn] = <<>>
          /\ kn \in Node /\ d \in Node /\ d # kn
      BY <2>2, <2>3, <2>5, <2>6
    <3>2. Attached(f, ka, d, kn)  BY <3>1, <2>7, Attach
    <3>3. ka.ret = NODE_ERR_SUCCESS  BY <3>1, <2>7, LeafAttach
    <3> QED  BY <3>2, <3>3, <2>6 DEF Attached
  <2>9. /\ ForestInv(va.f)
        /\ va.f.kids[d] = Append(ka.f.kids[d], vn)
        /\ \A m \in Node \ {d} : va.f.kids[m] = ka.f.kids[m]
        /\ va.f.parent[vn] = d
        /\ \A m \in Node \ {vn} : va.f.parent[m] = ka.f.parent[m]
    <3>1. PICK g : g = ka.f  OBVIOUS
    <3>2. /\ ForestInv(g) /\ g.parent[d] = NULL /\ g.parent[vn] = NULL /\ g.kids[vn] = <<>>
          /\ vn \in Node /\ d \in Node /\ d # vn
      BY <3>1, <2>2, <2>4, <2>5, <2>6, <2>8
    <3>3. Attached(g, va, d, vn)  BY <3>1, <3>2, <2>7, Attach
    <3>4. va.ret = NODE_ERR_SUCCESS  BY <3>1, <3>2, <2>7, LeafAttach
    <3> QED  BY <3>1, <3>3, <3>4 DEF Attached
  <2>10. PICK h, w : h = Append(Append(q, kn), vn) /\ w = va.f  OBVIOUS
  <2>11. /\ ForestInv(w) /\ w.kids[d] = h
         /\ \A m \in Node \ {d} : w.kids[m] = f.kids[m]
         /\ w.parent[kn] = d /\ w.parent[vn] = d
         /\ \A m \in Node \ {kn, vn} : w.parent[m] = f.parent[m]
    BY <2>3, <2>5, <2>8, <2>9, <2>10
  <2>12. PICK u : u = WithTrees(s2, w)  OBVIOUS
  <2>13. r = [s |-> u, d |-> d]
    <3>1. r = [acc EXCEPT !.s = [s2 EXCEPT !.f = w]]
      BY <1>1, <1>3, <1>4, <1>6, <2>4, <2>6, <2>7, <2>10 DEF parsed_pair
    <3> QED  BY <3>1, <1>2, <2>12 DEF WithTrees
  <2>14. /\ u.type = s2.type /\ u.name = s2.name /\ u.f = w /\ u.ht = st.ht
         /\ Base(u)
    <3>1. \A m \in Node : w.kids[m] # <<>> => s2.type[m] = "dict"
      BY <2>2, <2>3, <2>4, <2>5, <2>6, <2>11 DEF Base
    <3>2. \A m \in Node : s2.type[m] = "free" => w.parent[m] = NULL
      BY <2>2, <2>3, <2>4, <2>5, <2>6, <2>11 DEF Base
    <3> QED  BY <3>1, <3>2, <2>4, <2>11, <2>12, SetForest
  <2>15. /\ q \in Seq(Node) /\ DOMAIN q = 1..Len(q) /\ Len(q) \in Nat
         /\ \A j \in DOMAIN q : q[j] \in Node /\ st.f.parent[q[j]] = d
    BY <2>2, <2>6, ChildrenOf
  <2>16. \A j \in DOMAIN q : q[j] # kn /\ q[j] # vn  BY <2>3, <2>4, <2>5, <2>15
  <2>17. \A j \in DOMAIN q : j % 2 = 1 => st.name[q[j]] # k
    <3> SUFFICES ASSUME NEW j \in DOMAIN q, j % 2 = 1 PROVE st.name[q[j]] # k
      OBVIOUS
    <3>1. PICK g \in 1..(i - 1) : st.name[q[j]] = names[g]  BY <2>1, <2>6 DEF Part
    <3>2. g \in 1..l /\ g # i  OBVIOUS
    <3> QED  BY <3>1, <3>2, <1>1
  <2>18. Good(u.type, u.name, h, NULL)
    <3>1. PICK ty, nm : ty = u.type /\ nm = u.name  OBVIOUS
    <3>2. Good(st.type, st.name, q, NULL)  BY <2>2, <2>6 DEF Fine, Good
    <3>3. \A j \in DOMAIN q : ty[q[j]] = st.type[q[j]] /\ nm[q[j]] = st.name[q[j]]
      BY <3>1, <2>3, <2>4, <2>14, <2>15, <2>16
    <3>4. Good(ty, nm, q, NULL)  BY <3>2, <3>3, GoodFrame
    <3>5. ty[kn] = "key" /\ ty[vn] # "key" /\ nm[kn] = k  BY <3>1, <2>3, <2>4, <2>5, <2>14
    <3>6. \A j \in DOMAIN q : j % 2 = 1 => nm[q[j]] # nm[kn]  BY <3>3, <3>5, <2>17
    <3>7. PICK t : t = NULL  OBVIOUS
    <3>8. Good(ty, nm, q, t) /\ (t = NULL \/ Holds(nm, t, With(Pairs(q), Pair(kn, vn))))
      BY <3>4, <3>7
    <3>9. Good(ty, nm, Append(Append(q, kn), vn), t)
      <4>1. q \in Seq(Node) /\ kn \in Node /\ vn \in Node  BY <2>3, <2>4, <2>15
      <4> QED  BY ONLY <4>1, <3>5, <3>6, <3>8, GoodAppend
    <3> QED  BY <3>1, <3>7, <3>9, <2>10
  <2>19. \A m \in Dicts(u) : Fine(u, m)
    <3> SUFFICES ASSUME NEW m \in Dicts(u) PROVE Fine(u, m)  OBVIOUS
    <3>1. m \in Node /\ m # kn /\ m # vn /\ m \in Dicts(st)  BY <2>3, <2>4, <2>5, <2>14 DEF Dicts
    <3>2. CASE m = d
      <4>1. u.f.kids[d] = h /\ u.ht[d] = NULL  BY <2>2, <2>11, <2>14
      <4> QED  BY <3>2, <4>1, <2>18 DEF Fine
    <3>3. CASE m # d
      <4>1. Fine(st, m) /\ m # NULL  BY <3>1, NodeAssumption, <2>2 DEF Sound
      <4>2. \A c \in Node : st.f.parent[c] = m => u.type[c] = st.type[c] /\ u.name[c] = st.name[c]
        BY <4>1, <2>3, <2>4, <2>14
      <4>3. u.f.kids[m] = st.f.kids[m] /\ u.ht[m] = st.ht[m]  BY <3>1, <3>3, <2>6, <2>11, <2>14
      <4> QED  BY <3>1, <4>1, <4>2, <4>3, <2>2, Unaffected
    <3> QED  BY <3>2, <3>3
  <2>20. \A m \in Node : u.type[m] = "key" => u.f.parent[m] # NULL
    <3> SUFFICES ASSUME NEW m \in Node, u.type[m] = "key" PROVE u.f.parent[m] # NULL
      OBVIOUS
    <3>1. CASE m \in {kn, vn}  BY <3>1, <2>5, <2>11, <2>14
    <3>2. CASE m \notin {kn, vn}
      <4>1. st.type[m] = "key"  BY <3>2, <2>3, <2>4, <2>14
      <4>2. st.f.parent[m] # NULL  BY <4>1, <2>2 DEF Sound
      <4> QED  BY <3>2, <4>2, <2>6, <2>11, <2>14
    <3> QED  BY <3>1, <3>2
  <2>21. Sound(u)  BY ONLY <2>14, <2>19, <2>20 DEF Sound
  <2>22. Part(st0, u, d, names, i)
    <3>1. d \in Dicts(u) /\ u.f.parent[d] = NULL /\ u.ht[d] = NULL
      BY <2>2, <2>3, <2>4, <2>5, <2>6, <2>11, <2>14 DEF Dicts
    <3>2. PICK p : p = Append(q, kn)  OBVIOUS
    <3>3. /\ p \in Seq(Node) /\ DOMAIN p = 1..(Len(q) + 1) /\ Len(p) = Len(q) + 1
          /\ \A j \in 1..Len(q) : p[j] = q[j]
          /\ p[Len(q) + 1] = kn
      BY <3>2, <2>3, <2>15, AppendedSeq
    <3>4. /\ DOMAIN h = 1..(Len(p) + 1) /\ \A j \in 1..Len(p) : h[j] = p[j]
      BY <3>2, <3>3, <2>4, <2>10, AppendedSeq
    <3>5. Len(q) % 2 = 0  BY <2>2, <2>6 DEF Fine, Good
    <3>6. \A g \in DOMAIN h : g % 2 = 1 => (g \in 1..Len(q) /\ h[g] = q[g]) \/ h[g] = kn
      <4>1. PICK l0 \in Nat : l0 = Len(q)  BY <2>15
      <4>2. /\ DOMAIN h = 1..(l0 + 2) /\ l0 % 2 = 0
            /\ \A j \in 1..(l0 + 1) : h[j] = p[j]
            /\ p[l0 + 1] = kn /\ \A j \in 1..l0 : p[j] = q[j]
        <5>1. Len(p) + 1 = l0 + 2  BY <3>3, <4>1
        <5> QED  BY <3>3, <3>4, <3>5, <4>1, <5>1
      <4> SUFFICES ASSUME NEW g \in DOMAIN h, g % 2 = 1 PROVE (g \in 1..l0 /\ h[g] = q[g]) \/ h[g] = kn
        BY <4>1
      <4>3. g \in 1..(l0 + 2) /\ g \in Nat  BY <4>2
      <4>4. g # l0 + 2  BY ONLY l0 \in Nat, <4>2, g % 2 = 1
      <4>5. CASE g = l0 + 1
        <5>1. g \in 1..(l0 + 1)  BY ONLY l0 \in Nat, <4>5
        <5> QED  BY ONLY <5>1, <4>2, <4>5
      <4>6. CASE g # l0 + 1
        <5>1. g \in 1..l0 /\ g \in 1..(l0 + 1)  BY ONLY l0 \in Nat, <4>3, <4>4, <4>6
        <5> QED  BY ONLY <5>1, <4>2
      <4> QED  BY <4>5, <4>6
    <3>7. \A g \in DOMAIN h : g % 2 = 1 => \E j \in 1..i : u.name[h[g]] = names[j]
      <4> SUFFICES ASSUME NEW g \in DOMAIN h, g % 2 = 1 PROVE \E j \in 1..i : u.name[h[g]] = names[j]
        OBVIOUS
      <4>1. CASE g \in 1..Len(q) /\ h[g] = q[g]
        <5>1. PICK j \in 1..(i - 1) : st.name[q[g]] = names[j]  BY ONLY <4>1, g % 2 = 1, <2>1, <2>6, <2>15 DEF Part
        <5>2. u.name[q[g]] = st.name[q[g]]  BY <4>1, <2>3, <2>4, <2>14, <2>15, <2>16
        <5>3. j \in 1..i  OBVIOUS
        <5> QED  BY <4>1, <5>1, <5>2, <5>3
      <4>2. CASE h[g] = kn
        <5>1. u.name[kn] = k  BY <2>3, <2>4, <2>5, <2>14
        <5> QED  BY <4>2, <5>1, <1>1
      <4> QED  BY <4>1, <4>2, <3>6
    <3>8. u.f.kids[d] = h  BY <2>11, <2>14
    <3>9. Intact(st0, u) /\ d \notin Live(st0)
      <4>1. Intact(st0, st) /\ d \notin Live(st0)  BY <2>1 DEF Part
      <4>2. \A m \in Live(st0) : m \in Node /\ m # d /\ m # kn /\ m # vn
        <5>1. \A m \in Live(st0) : m \in Node /\ st.type[m] # "free"  BY <4>1 DEF Intact, Live
        <5> QED  BY <5>1, <4>1, <2>3, <2>5
      <4>3. \A m \in Live(st0) :
               /\ u.type[m] = st.type[m] /\ u.name[m] = st.name[m] /\ u.ht[m] = st.ht[m]
               /\ u.f.parent[m] = st.f.parent[m] /\ u.f.kids[m] = st.f.kids[m]
        BY <4>2, <2>3, <2>4, <2>6, <2>11, <2>14
      <4> QED  BY <4>1, <4>3, <2>14 DEF Intact
    <3> QED  BY <3>1, <3>7, <3>8, <3>9, <2>21 DEF Part
  <2>23. u \in State  BY <2>14 DEF Base
  <2> QED  BY <2>2, <2>13, <2>22, <2>23 DEF Parsing
<1> QED  BY <1>5, <1>6

LEMMA ParsedDictSound ==
    ASSUME NEW st, Sound(st), MaxDepth >= 1, NEW l \in Nat, NEW names \in [1..l -> Key],
           Len(names) = l, IsInjective(names)
    PROVE  Sound(parsed_dict(st, names)) /\ AnswersSame(st, parsed_dict(st, names))
<1>1. PICK n, s0 : n = new_node(st, "dict", NoName).n /\ s0 = new_node(st, "dict", NoName).s
  OBVIOUS
<1> DEFINE Solves(a) == a = [i \in 0..Len(names) |->
                               IF i = 0 THEN [s |-> new_node(st, "dict", NoName).s,
                                              d |-> new_node(st, "dict", NoName).n]
                               ELSE parsed_pair(a[i - 1], names[i])]
           u == CHOOSE a : Solves(a)
           W == [i \in 0..l |-> {x \in Parsing : x.d = NULL \/ Part(st, x.s, x.d, names, i)}]
           g == [i \in 1..l |-> [x \in Parsing |-> parsed_pair(x, names[i])]]
<1>2. parsed_dict(st, names) = IF u[l].d = NULL THEN st ELSE u[l].s
  BY DEF parsed_dict
<1>3. \A i, j \in 1..l : names[i] = names[j] => i = j  BY DEF IsInjective
<1>4. PICK v : v = [s |-> s0, d |-> n]  OBVIOUS
<1>5. Solves(u) => u[0] = v /\ \A i \in 1..l : u[i] = parsed_pair(u[i - 1], names[i])
  <2> SUFFICES ASSUME Solves(u) PROVE u[0] = v /\ \A i \in 1..l : u[i] = parsed_pair(u[i - 1], names[i])
    OBVIOUS
  <2>1. 0 \in 0..l /\ \A i \in 1..l : i \in 0..l /\ i # 0  OBVIOUS
  <2> HIDE DEF u
  <2> QED  BY <2>1, <1>1, <1>4
<1>6. \A t : /\ t = [i \in 0..l |-> t[i]] /\ t[0] = v
             /\ \A i \in 1..l : t[i] = parsed_pair(t[i - 1], names[i])
             => Solves(t)
  <2> SUFFICES ASSUME NEW t, t = [i \in 0..l |-> t[i]], t[0] = v,
                      \A i \in 1..l : t[i] = parsed_pair(t[i - 1], names[i])
               PROVE  Solves(t)
    OBVIOUS
  <2>1. \A i \in 0..l : t[i] = IF i = 0 THEN v ELSE parsed_pair(t[i - 1], names[i])  OBVIOUS
  <2>2. t = [i \in 0..l |-> IF i = 0 THEN v ELSE parsed_pair(t[i - 1], names[i])]  BY <2>1
  <2> QED  BY <2>2, <1>1, <1>4
<1> HIDE DEF Solves
<1>7. (\E t : Solves(t)) => Solves(u)  OBVIOUS
<1> HIDE DEF u
<1>8. v \in W[0]
  <2>1. Base(st)  BY DEF Sound
  <2>2. CASE n = NULL
    <3>1. s0 = st  BY <1>1, <2>1, <2>2, NewNode
    <3>2. v \in Parsing /\ v.d = NULL  BY <3>1, <2>1, <2>2, <1>4 DEF Parsing, Base
    <3> QED  BY <3>2
  <2>3. CASE n # NULL
    <3>1. Grown(st, s0, n, "dict", NoName)  BY <1>1, <2>1, <2>3, NewNode
    <3>2. Sound(s0)  BY <1>1, NewSound
    <3>3. DOMAIN s0.f.kids[n] = {}
      <4>1. DOMAIN <<>> = {}  OBVIOUS
      <4> QED  BY <3>1, <4>1 DEF Grown
    <3>6. Intact(st, s0)  BY <3>1, GrownIntact
    <3>4. Part(st, s0, n, names, 0)  BY <3>1, <3>2, <3>3, <3>6 DEF Part, Grown, Dicts, Live
    <3>5. v \in Parsing  BY <3>1, <1>4 DEF Parsing, Grown, Base
    <3> QED  BY <3>4, <3>5, <1>4
  <2> QED  BY <2>2, <2>3
<1>9. \A i \in 1..l : \A x \in W[i - 1] : x \in Parsing /\ parsed_pair(x, names[i]) \in W[i]
  <2> SUFFICES ASSUME NEW i \in 1..l, NEW x \in W[i - 1]
               PROVE  x \in Parsing /\ parsed_pair(x, names[i]) \in W[i]
    OBVIOUS
  <2>1. i - 1 \in 0..l /\ i \in 0..l  OBVIOUS
  <2>2. x \in Parsing /\ (x.d = NULL \/ Part(st, x.s, x.d, names, i - 1))  BY <2>1
  <2>3. PICK r : r = parsed_pair(x, names[i])  OBVIOUS
  <2>4. r \in Parsing /\ (r.d = NULL \/ Part(st, r.s, r.d, names, i))
    BY <2>2, <2>3, <1>3, ParsedPair
  <2> QED  BY <2>1, <2>2, <2>3, <2>4
<1>10. \A i \in 0..l : W[i] \subseteq Parsing  OBVIOUS
<1>11. u[l].d = NULL \/ Part(st, u[l].s, u[l].d, names, l)
  <2>0. W[l] = {x \in Parsing : x.d = NULL \/ Part(st, x.s, x.d, names, l)}  OBVIOUS
  <2> HIDE DEF W
  <2>1. \E t : Solves(t)
    <3>1. \A i \in 1..l : \A x \in W[i - 1] : g[i][x] \in W[i]  BY <1>9
    <3> HIDE DEF g
    <3>2. Rounds(l, Parsing, g, W)  BY <3>1, <1>10 DEF Rounds
    <3>3. Loops(l, Parsing, v, g, W)  BY <3>2, <1>8, LoopExists
    <3>4. PICK t \in [0..l -> Parsing] :
             /\ t[0] = v
             /\ \A i \in 1..l : t[i] = g[i][t[i - 1]]
             /\ \A i \in 0..l : t[i] \in W[i]
      BY <3>3 DEF Loops
    <3>5. \A i \in 1..l : t[i] = parsed_pair(t[i - 1], names[i])
      <4> TAKE i \in 1..l
      <4>1. i - 1 \in 0..l  OBVIOUS
      <4> QED  BY <3>4, <4>1 DEF g
    <3>6. t = [i \in 0..l |-> t[i]]  BY <3>4
    <3> QED  BY <3>4, <3>5, <3>6, <1>6
  <2>2. u[0] \in W[0] /\ \A i \in 1..l : u[i - 1] \in W[i - 1] => u[i] \in W[i]
    BY <2>1, <1>5, <1>7, <1>8, <1>9
  <2>3. \A i \in 0..l : u[i] \in W[i]  BY <2>2, LoopInvariant
  <2>4. u[l] \in W[l]  BY <2>3
  <2> QED  BY <2>0, <2>4
<1>12. PICK r : r = parsed_dict(st, names)  OBVIOUS
<1>13. r = st \/ (Sound(r) /\ Intact(st, r))  BY <1>2, <1>11, <1>12 DEF Part
<1>14. Sound(r) /\ AnswersSame(st, r)  BY <1>13, IntactAnswers DEF AnswersSame
<1> QED  BY <1>12, <1>14

-----------------------------------------------------------------------------
(***************************************************************************)
(* The order in which plist_copy visits a tree                             *)
(***************************************************************************)
\* The first i elements of q.
First(q, i) == {q[g] : g \in {h \in DOMAIN q : h <= i}}

\* q[j] is a child of an element before it, and so are its siblings on the left.
Follows(f, q, j) ==
    \E h \in 1..(j - 1) : \E e \in DOMAIN f.kids[q[h]] :
        /\ q[j] = f.kids[q[h]][e]
        /\ \A g \in 1..(e - 1) : f.kids[q[h]][g] \in First(q, j - 1)

\* The children of q[j] are in q.
Spread(f, q, j) == \A e \in DOMAIN f.kids[q[j]] : f.kids[q[j]][e] \in ToSet(q)

\* The queue after i of its elements were replaced by themselves and their children.
Queued(f, n, q, i) ==
    /\ q \in Seq(Node) /\ Len(q) >= 1 /\ q[1] = n
    /\ NoRepeat(q)
    /\ \A j \in DOMAIN q : q[j] \in Subtree(f, n)
    /\ \A j \in DOMAIN q : j > 1 => Follows(f, q, j) /\ f.parent[q[j]] \in First(q, i)
    /\ \A j \in DOMAIN q : j <= i => Spread(f, q, j)

LEMMA FirstIs ==
    ASSUME NEW q, NEW i
    PROVE  \A e : e \in First(q, i) <=> \E g \in DOMAIN q : g <= i /\ q[g] = e
BY DEF First

\* What q has at the front, a longer list that starts with q has too.
LEMMA FirstGrows ==
    ASSUME NEW l \in Nat, NEW k \in Nat, NEW q, DOMAIN q = 1..l, NEW p, DOMAIN p = 1..(l + k),
           \A j \in 1..l : p[j] = q[j], NEW i \in Int, NEW j \in Int, i <= j
    PROVE  First(q, i) \subseteq First(p, j)
<1> SUFFICES ASSUME NEW e \in First(q, i) PROVE e \in First(p, j)
  OBVIOUS
<1>1. PICK g \in 1..l : g <= i /\ q[g] = e  BY FirstIs
<1>2. g \in 1..(l + k) /\ g <= j /\ p[g] = e  BY <1>1
<1> QED  BY <1>2, FirstIs

LEMMA QueueStart ==
    ASSUME NEW f, ForestInv(f), NEW n \in Node, NEW q, q = <<n>>
    PROVE  Queued(f, n, q, 0)
<1>1. q \in Seq(Node) /\ Len(q) = 1 /\ DOMAIN q = 1..1 /\ q[1] = n  OBVIOUS
<1>2. \A j \in DOMAIN q : j = 1  BY <1>1
<1>3. n \in Subtree(f, n)  BY SubtreeCut
<1> QED  BY <1>1, <1>2, <1>3 DEF Queued, NoRepeat

LEMMA QueueStep ==
    ASSUME NEW f, ForestInv(f), NEW n \in Node, NEW i \in Nat \ {0},
           NEW q, Queued(f, n, q, i - 1), NEW p, p = with_children(f, q, i)
    PROVE  Queued(f, n, p, i)
<1>1. /\ q \in Seq(Node) /\ Len(q) >= 1 /\ q[1] = n /\ NoRepeat(q)
      /\ \A j \in DOMAIN q : q[j] \in Subtree(f, n)
      /\ \A j \in DOMAIN q : j > 1 => Follows(f, q, j) /\ f.parent[q[j]] \in First(q, i - 1)
      /\ \A j \in DOMAIN q : j <= i - 1 => Spread(f, q, j)
  BY DEF Queued
<1>2. PICK l \in Nat : l = Len(q)  BY <1>1, LenProperties
<1>3. DOMAIN q = 1..l /\ \A j \in 1..l : q[j] \in Node  BY <1>1, <1>2, LenProperties
<1>4. i \in Int /\ i - 1 \in Int /\ i - 1 <= i  OBVIOUS
<1>5. CASE i > l
  <2>1. p = q  BY <1>2, <1>5 DEF with_children
  <2>2. \A j \in DOMAIN q : j <= i - 1  BY <1>3, <1>5
  <2>3. First(q, i - 1) \subseteq First(q, i)
    <3> SUFFICES ASSUME NEW e \in First(q, i - 1) PROVE e \in First(q, i)  OBVIOUS
    <3>1. PICK g \in DOMAIN q : g <= i - 1 /\ q[g] = e  BY FirstIs
    <3>2. g <= i  BY <3>1, <1>3
    <3> QED  BY <3>1, <3>2, FirstIs
  <2>4. \A j \in DOMAIN q : j > 1 => Follows(f, q, j) /\ f.parent[q[j]] \in First(q, i)
    BY <1>1, <2>3
  <2>5. \A j \in DOMAIN q : j <= i => Spread(f, q, j)  BY <1>1, <2>2
  <2> QED  BY <2>1, <1>1, <2>4, <2>5 DEF Queued
<1>6. CASE i <= l
  <2>1. PICK m, r : m = q[i] /\ r = f.kids[m]  OBVIOUS
  <2>2. i \in 1..l /\ m \in Node  BY <1>3, <1>6, <2>1
  <2>3. p = q \o r  BY <1>2, <1>6, <2>1 DEF with_children
  <2>4. r \in Seq(Node)  BY <2>1, <2>2 DEF ForestInv, Forest
  <2>5. PICK k \in Nat : k = Len(r)  BY <2>4, LenProperties
  <2>6. /\ DOMAIN r = 1..k /\ \A e \in 1..k : r[e] \in Node /\ f.parent[r[e]] = m
        /\ \A e, g \in 1..k : r[e] = r[g] => e = g
    <3>1. DOMAIN r = 1..k /\ \A e \in 1..k : r[e] \in Node  BY <2>4, <2>5, LenProperties
    <3>2. Linked(f)  BY DEF ForestInv
    <3>3. \A e \in 1..k : r[e] \in Children(f, m)  BY <3>1, <2>1 DEF Children
    <3>4. \A e \in 1..k : f.parent[r[e]] = m  BY <3>1, <3>2, <3>3, <2>2 DEF Linked
    <3>5. \A e, g \in 1..k : r[e] = r[g] => e = g  BY <3>1, <3>2, <2>1, <2>2 DEF Linked
    <3> QED  BY <3>1, <3>4, <3>5
  <2>7. /\ p \in Seq(Node) /\ Len(p) = l + k /\ DOMAIN p = 1..(l + k)
        /\ \A j \in 1..l : p[j] = q[j]
        /\ \A e \in 1..k : p[l + e] = r[e]
    <3>1. /\ p \in Seq(Node) /\ Len(p) = l + k
          /\ \A j \in 1..(l + k) : p[j] = IF j <= l THEN q[j] ELSE r[j - l]
      BY <1>1, <1>2, <2>3, <2>4, <2>5, ConcatProperties
    <3>2. DOMAIN p = 1..(l + k)  BY <3>1, LenProperties
    <3>3. \A j \in 1..l : j \in 1..(l + k) /\ j <= l  OBVIOUS
    <3>4. \A e \in 1..k : l + e \in 1..(l + k) /\ ~(l + e <= l) /\ (l + e) - l = e  OBVIOUS
    <3> QED  BY <3>1, <3>2, <3>3, <3>4
  <2>8. \A j \in 1..(l + k) : j \in 1..l \/ \E e \in 1..k : j = l + e
    <3> TAKE j \in 1..(l + k)
    <3>1. CASE j <= l  BY <3>1
    <3>2. CASE ~(j <= l)
      <4>1. j - l \in 1..k /\ j = l + (j - l)  BY <3>2
      <4> QED  BY <4>1
    <3> QED  BY <3>1, <3>2
  <2>9. \A e \in 1..k : \A j \in 1..l : q[j] # r[e]
    <3> SUFFICES ASSUME NEW e \in 1..k, NEW j \in 1..l, q[j] = r[e] PROVE FALSE
      OBVIOUS
    <3>1. f.parent[q[j]] = m  BY <2>6
    <3>2. CASE j = 1
      <4>1. f.parent[n] = m  BY <3>1, <3>2, <1>1
      <4>2. m \in Subtree(f, n)  BY <1>1, <1>3, <2>1, <2>2
      <4> QED  BY <4>1, <4>2, SubtreeCut
    <3>3. CASE j # 1
      <4>1. m \in First(q, i - 1)  BY <3>1, <3>3, <1>1, <1>3
      <4>2. PICK g \in DOMAIN q : g <= i - 1 /\ q[g] = m  BY <4>1, FirstIs
      <4>3. g = i  BY <4>2, <2>1, <2>2, <1>1, <1>3 DEF NoRepeat
      <4> QED  BY <4>2, <4>3
    <3> QED  BY <3>2, <3>3
  <2>10. NoRepeat(p)
    <3> SUFFICES ASSUME NEW j \in DOMAIN p, NEW h \in DOMAIN p, p[j] = p[h] PROVE j = h
      BY DEF NoRepeat
    <3>1. j \in 1..(l + k) /\ h \in 1..(l + k)  BY <2>7
    <3>2. CASE j \in 1..l /\ h \in 1..l  BY <3>2, <1>1, <1>3, <2>7 DEF NoRepeat
    <3>3. CASE j \in 1..l /\ h \notin 1..l
      <4>1. PICK e \in 1..k : h = l + e  BY <3>1, <3>3, <2>8
      <4> QED  BY <4>1, <3>3, <2>7, <2>9
    <3>4. CASE j \notin 1..l /\ h \in 1..l
      <4>1. PICK e \in 1..k : j = l + e  BY <3>1, <3>4, <2>8
      <4> QED  BY <4>1, <3>4, <2>7, <2>9
    <3>5. CASE j \notin 1..l /\ h \notin 1..l
      <4>1. PICK e \in 1..k : j = l + e  BY <3>1, <3>5, <2>8
      <4>2. PICK g \in 1..k : h = l + g  BY <3>1, <3>5, <2>8
      <4>3. p[l + e] = r[e] /\ p[l + g] = r[g]  BY <2>7
      <4>4. r[e] = r[g]  BY <4>1, <4>2, <4>3
      <4>5. e = g  BY <4>4, <2>6
      <4> QED  BY <4>1, <4>2, <4>5
    <3> QED  BY <3>2, <3>3, <3>4, <3>5
  <2>11. \A g, h \in Int : g <= h => First(q, g) \subseteq First(p, h)
    BY ONLY l \in Nat, k \in Nat, <1>3, <2>7, FirstGrows
  <2>12. \A j \in DOMAIN p : p[j] \in Subtree(f, n)
    <3> TAKE j \in DOMAIN p
    <3>1. CASE j \in 1..l  BY <3>1, <1>1, <1>3, <2>7
    <3>2. CASE j \notin 1..l
      <4>1. PICK e \in 1..k : j = l + e  BY <3>2, <2>7, <2>8
      <4>2. p[j] = r[e] /\ r[e] \in Node /\ f.parent[r[e]] = m  BY <4>1, <2>6, <2>7
      <4>3. r[e] # n  BY <2>9, <1>1, <1>2
      <4>4. m \in Subtree(f, n)  BY <1>1, <1>3, <2>1, <2>2
      <4> QED  BY <4>2, <4>3, <4>4, SubtreeCut
    <3> QED  BY <3>1, <3>2
  <2>13. \A j \in DOMAIN p : j > 1 => Follows(f, p, j) /\ f.parent[p[j]] \in First(p, i)
    <3> SUFFICES ASSUME NEW j \in DOMAIN p, j > 1
                 PROVE  Follows(f, p, j) /\ f.parent[p[j]] \in First(p, i)
      OBVIOUS
    <3>0. j \in 1..(l + k)  BY <2>7
    <3>1. CASE j \in 1..l
      <4>1. Follows(f, q, j) /\ f.parent[q[j]] \in First(q, i - 1)  BY <3>1, <1>1, <1>3
      <4>2. PICK h \in 1..(j - 1) : \E e \in DOMAIN f.kids[q[h]] :
               /\ q[j] = f.kids[q[h]][e]
               /\ \A g \in 1..(e - 1) : f.kids[q[h]][g] \in First(q, j - 1)
        BY <4>1 DEF Follows
      <4>3. h \in 1..l /\ p[h] = q[h] /\ p[j] = q[j]  BY <3>1, <2>7
      <4>4. First(q, j - 1) \subseteq First(p, j - 1) /\ First(q, i - 1) \subseteq First(p, i)
        <5>1. j - 1 \in Int /\ j - 1 <= j - 1  BY <3>1
        <5> QED  BY <5>1, <1>4, <2>11
      <4>5. Follows(f, p, j)  BY <4>2, <4>3, <4>4 DEF Follows
      <4> QED  BY <4>1, <4>3, <4>4, <4>5
    <3>2. CASE j \notin 1..l
      <4>1. PICK e \in 1..k : j = l + e  BY <3>0, <3>2, <2>8
      <4>2. p[j] = r[e] /\ f.parent[r[e]] = m /\ p[i] = m  BY <4>1, <2>1, <2>2, <2>6, <2>7
      <4>3. i \in DOMAIN p /\ i \in 1..(j - 1)  BY <4>1, <2>2, <2>7
      <4>4. \A g \in 1..(e - 1) : r[g] \in First(p, j - 1)
        <5> TAKE g \in 1..(e - 1)
        <5>1. g \in 1..k /\ l + g \in 1..(l + k) /\ l + g <= j - 1  BY <4>1
        <5>2. p[l + g] = r[g] /\ l + g \in DOMAIN p  BY <5>1, <2>7
        <5> QED  BY <5>1, <5>2, FirstIs
      <4>5. e \in DOMAIN f.kids[p[i]] /\ p[j] = f.kids[p[i]][e] /\ f.kids[p[i]] = r
        BY <4>2, <2>1, <2>6
      <4>6. Follows(f, p, j)  BY <4>3, <4>4, <4>5 DEF Follows
      <4>7. m \in First(p, i)  BY <4>2, <4>3, FirstIs
      <4> QED  BY <4>2, <4>6, <4>7
    <3> QED  BY <3>1, <3>2
  <2>14. \A j \in DOMAIN p : j <= i => Spread(f, p, j)
    <3> SUFFICES ASSUME NEW j \in DOMAIN p, j <= i PROVE Spread(f, p, j)
      OBVIOUS
    <3>0. j \in 1..l /\ p[j] = q[j] /\ \A x \in ToSet(q) : x \in ToSet(p)
      <4>1. j \in 1..l  BY <2>2, <2>7
      <4>2. \A h \in 1..l : h \in DOMAIN p /\ p[h] = q[h]  BY <2>7
      <4> QED  BY <4>1, <4>2, <1>3 DEF ToSet
    <3>1. CASE j = i
      <4>1. \A e \in 1..k : l + e \in DOMAIN p /\ p[l + e] = r[e]  BY <2>7
      <4>2. \A e \in 1..k : r[e] \in ToSet(p)  BY <4>1 DEF ToSet
      <4> QED  BY <3>0, <3>1, <4>2, <2>1, <2>6 DEF Spread
    <3>2. CASE j # i
      <4>1. j <= i - 1  BY <3>0, <3>2
      <4>2. Spread(f, q, j)  BY <4>1, <3>0, <1>1, <1>3
      <4> QED  BY <4>2, <3>0 DEF Spread
    <3> QED  BY <3>1, <3>2
  <2>15. Len(p) >= 1 /\ p[1] = n
    <3>1. 1 \in 1..l  BY <1>1, <1>2
    <3> QED  BY <3>1, <1>1, <2>7
  <2> QED  BY <2>7, <2>10, <2>12, <2>13, <2>14, <2>15 DEF Queued
<1> QED  BY <1>2, <1>5, <1>6

\* A list without repetitions has no more elements than there are nodes.
LEMMA ShortList ==
    ASSUME NEW q \in Seq(Node), NoRepeat(q)
    PROVE  Len(q) <= Cardinality(Node)
<1>1. PICK l \in Nat : l = Len(q)  BY LenProperties
<1>2. DOMAIN q = 1..l /\ \A j \in 1..l : q[j] \in Node  BY <1>1, LenProperties
<1>3. q \in [1..l -> Node]  BY <1>1
<1>4. q \in Injection(1..l, Node)  BY <1>2, <1>3 DEF NoRepeat, Injection, IsInjective
<1>5. Cardinality(1..l) <= Cardinality(Node)  BY <1>4, NodeAssumption, FS_Injection
<1>6. Cardinality(1..l) = l
  <2>1. 1 \in Int /\ l \in Int /\ (IF 1 > l THEN 0 ELSE l - 1 + 1) = l  OBVIOUS
  <2> QED  BY <2>1, FS_Interval
<1> QED  BY <1>1, <1>5, <1>6

\* The order of plist_copy: the whole tree, parents first, siblings in order.
Visits(f, n, q) ==
    /\ q \in Seq(Node) /\ Len(q) >= 1 /\ q[1] = n
    /\ NoRepeat(q)
    /\ \A j \in DOMAIN q : q[j] \in Subtree(f, n)
    /\ \A j \in DOMAIN q : j > 1 => Follows(f, q, j)
    /\ \A j \in DOMAIN q : Spread(f, q, j)

LEMMA TopDownVisits ==
    ASSUME NEW f, ForestInv(f), NEW n \in Node, NEW q, q = TopDown(f, n)
    PROVE  Visits(f, n, q)
<1> DEFINE l == Cardinality(Node)
           Solves(t) == t = [i \in 0..l |-> IF i = 0 THEN <<n>> ELSE with_children(f, t[i - 1], i)]
           u == CHOOSE t : Solves(t)
           W == [i \in 0..l |-> {x \in Seq(Node) : Queued(f, n, x, i)}]
           g == [i \in 1..l |-> [x \in Seq(Node) |-> with_children(f, x, i)]]
<1>1. l \in Nat  BY NodeAssumption, FS_CardinalityType
<1>2. q = u[l]  BY DEF TopDown
<1> HIDE DEF l
<1>3. PICK v : v = <<n>>  OBVIOUS
<1>4. v \in W[0]
  <2>1. v \in Seq(Node) /\ 0 \in 0..l  BY <1>1, <1>3
  <2> QED  BY <2>1, <1>3, QueueStart
<1>5. \A i \in 1..l : \A x \in W[i - 1] : x \in Seq(Node) /\ with_children(f, x, i) \in W[i]
  <2> SUFFICES ASSUME NEW i \in 1..l, NEW x \in W[i - 1]
               PROVE  x \in Seq(Node) /\ with_children(f, x, i) \in W[i]
    OBVIOUS
  <2>1. i - 1 \in 0..l /\ i \in 0..l /\ i \in Nat \ {0}  BY <1>1
  <2>2. x \in Seq(Node) /\ Queued(f, n, x, i - 1)  BY <2>1
  <2>3. PICK p : p = with_children(f, x, i)  OBVIOUS
  <2>4. Queued(f, n, p, i)  BY <2>1, <2>2, <2>3, QueueStep
  <2> QED  BY <2>1, <2>2, <2>3, <2>4 DEF Queued
<1>6. \A i \in 0..l : W[i] \subseteq Seq(Node)  OBVIOUS
<1>7. 0 \in 0..l /\ l \in 0..l /\ \A i \in 1..l : i \in 0..l /\ i # 0  BY <1>1
<1>8. Solves(u) => u[0] = v /\ \A i \in 1..l : u[i] = with_children(f, u[i - 1], i)
  <2> HIDE DEF u
  <2> QED  BY <1>3, <1>7
<1>9. \A t : /\ t = [i \in 0..l |-> t[i]] /\ t[0] = v
             /\ \A i \in 1..l : t[i] = with_children(f, t[i - 1], i)
             => Solves(t)
  <2> SUFFICES ASSUME NEW t, t = [i \in 0..l |-> t[i]], t[0] = v,
                      \A i \in 1..l : t[i] = with_children(f, t[i - 1], i)
               PROVE  Solves(t)
    OBVIOUS
  <2>1. \A i \in 0..l : t[i] = IF i = 0 THEN v ELSE with_children(f, t[i - 1], i)
    <3> TAKE i \in 0..l
    <3>1. i = 0 \/ i \in 1..l  BY <1>1
    <3> QED  BY <3>1, <1>7
  <2>2. t = [i \in 0..l |-> IF i = 0 THEN v ELSE with_children(f, t[i - 1], i)]  BY <2>1
  <2> QED  BY <2>2, <1>3
<1>10. W[l] = {x \in Seq(Node) : Queued(f, n, x, l)}  BY <1>7
<1> HIDE DEF Solves, W
<1>11. (\E t : Solves(t)) => Solves(u)  OBVIOUS
<1> HIDE DEF u
<1>12. \E t : Solves(t)
  <2>1. \A i \in 1..l : \A x \in W[i - 1] : g[i][x] \in W[i]  BY <1>5
  <2> HIDE DEF g
  <2>2. Rounds(l, Seq(Node), g, W)  BY <2>1, <1>6 DEF Rounds
  <2>3. PICK U : U = Seq(Node)  OBVIOUS
  <2>4. Rounds(l, U, g, W)  BY <2>2, <2>3
  <2>5. Loops(l, U, v, g, W)  BY ONLY <2>4, <1>1, <1>4, LoopExists
  <2>6. PICK t \in [0..l -> U] :
           /\ t[0] = v
           /\ \A i \in 1..l : t[i] = g[i][t[i - 1]]
           /\ \A i \in 0..l : t[i] \in W[i]
    BY <2>5 DEF Loops
  <2>7. \A i \in 1..l : t[i] = with_children(f, t[i - 1], i)
    <3> TAKE i \in 1..l
    <3>1. i - 1 \in 0..l  BY <1>1
    <3>2. t[i - 1] \in Seq(Node)  BY <3>1, <2>3, <2>6
    <3> QED  BY <3>2, <2>6 DEF g
  <2>8. t = [i \in 0..l |-> t[i]]  BY <2>6
  <2> QED  BY <2>6, <2>7, <2>8, <1>9
<1>13. u[l] \in W[l]
  <2>1. u[0] \in W[0] /\ \A i \in 1..l : u[i - 1] \in W[i - 1] => u[i] \in W[i]
    BY <1>4, <1>5, <1>8, <1>11, <1>12
  <2>2. \A i \in 0..l : u[i] \in W[i]  BY <2>1, <1>1, LoopInvariant
  <2> QED  BY <2>2, <1>7
<1>14. Queued(f, n, q, l)  BY <1>2, <1>10, <1>13
<1>15. Len(q) <= l  BY <1>14, ShortList DEF Queued, l
<1>16. \A j \in DOMAIN q : j <= l
  <2>1. q \in Seq(Node)  BY <1>14 DEF Queued
  <2>2. Len(q) \in Nat /\ DOMAIN q = 1..Len(q)  BY <2>1, LenProperties
  <2> QED  BY <2>2, <1>1, <1>15
<1> QED  BY <1>14, <1>16 DEF Queued, Visits

-----------------------------------------------------------------------------
(***************************************************************************)
(* plist_copy                                                              *)
(***************************************************************************)
\* v is u with the new node c, a copy of x without its children.
Sprouted(u, v, c, x) ==
    /\ c \in Node /\ u.type[c] = "free"
    /\ v.type[c] = u.type[x] /\ v.name[c] = u.name[x]
    /\ \A m \in Node \ {c} : v.type[m] = u.type[m] /\ v.name[m] = u.name[m] /\ v.ht[m] = u.ht[m]
    /\ v.f = u.f /\ u.f.parent[c] = NULL /\ u.f.kids[c] = <<>>
    /\ v.ht[c] = NULL \/ Holds(v.name, v.ht[c], {})
    /\ Base(v)

LEMMA ShallowCopy ==
    ASSUME NEW u, Base(u), NEW x \in Live(u), NEW r, r = copy_shallow(u, x)
    PROVE  /\ r.n = NULL => r.s = u
           /\ r.n # NULL => Sprouted(u, r.s, r.n, x)
<1>1. PICK t, k : t = u.type[x] /\ k = u.name[x]  OBVIOUS
<1>2. /\ x \in Node /\ t \in {"dict", "key", "value"} /\ k \in Key \cup {NoName}
      /\ (t = "key" => k \in Key)
  <2>1. x \in Node /\ t # "free"  BY <1>1 DEF Live
  <2>2. t \in {"free", "dict", "key", "value"} /\ k \in Key \cup {NoName}  BY <1>1, <2>1, Fields
  <2> QED  BY <1>1, <2>1, <2>2 DEF Base
<1>3. PICK c, v : c = new_node(u, t, k).n /\ v = new_node(u, t, k).s  OBVIOUS
<1>4. new_node(u, t, k) = [s |-> v, n |-> c]  BY <1>3 DEF new_node
<1>5. /\ c = NULL => v = u
      /\ c # NULL => Grown(u, v, c, t, k)
  <2>1. Base(u)  OBVIOUS
  <2> QED  BY ONLY <1>2, <1>3, <2>1, NewNode
<1>6. r = IF c = NULL \/ u.ht[x] = NULL THEN [s |-> v, n |-> c]
          ELSE [[s |-> v, n |-> c] EXCEPT !.s.ht[c] = EmptyTable]
  BY <1>1, <1>4 DEF copy_shallow
<1>7. CASE c = NULL
  <2>1. r = [s |-> v, n |-> c]  BY <1>6, <1>7
  <2> QED  BY <2>1, <1>5, <1>7
<1>8. CASE c # NULL /\ u.ht[x] = NULL
  <2>1. r.s = v /\ r.n = c  BY <1>6, <1>8
  <2>2. Grown(u, v, c, t, k)  BY <1>5, <1>8
  <2>3. Sprouted(u, v, c, x)  BY <1>1, <2>2 DEF Grown, Sprouted
  <2> QED  BY <2>1, <2>3, <1>8
<1>9. CASE c # NULL /\ u.ht[x] # NULL
  <2>1. Grown(u, v, c, t, k)  BY <1>5, <1>9
  <2>2. t = "dict"  BY <1>1, <1>2, <1>9 DEF Base
  <2>3. PICK e : e = EmptyTable  OBVIOUS
  <2>4. Holds(v.name, e, {})  BY <2>3, EmptyHolds
  <2>5. e \in Table  BY <2>4 DEF Holds
  <2>6. PICK z : z = WithTable(v, c, e)  OBVIOUS
  <2>7. /\ z.type = v.type /\ z.name = v.name /\ z.f = v.f
        /\ z.ht[c] = e /\ \A m \in Node \ {c} : z.ht[m] = v.ht[m]
        /\ Base(z)
    <3>1. Base(v) /\ c \in Node /\ v.type[c] = "dict"  BY <2>1, <2>2 DEF Grown
    <3> QED  BY ONLY <3>1, <2>5, <2>6, SetTable
  <2>8. r.s = z /\ r.n = c  BY <1>6, <1>9, <2>3, <2>6 DEF WithTable
  <2>9. Sprouted(u, z, c, x)  BY <1>1, <2>1, <2>4, <2>7 DEF Grown, Sprouted
  <2> QED  BY <2>8, <2>9, <1>9
<1> QED  BY <1>7, <1>8, <1>9

\* z is v with the child c at the end of p's list, in p's table with its key.
Joined(v, z, p, c) ==
    /\ z.type = v.type /\ z.name = v.name
    /\ v.f.parent[c] = NULL
    /\ z.f.kids[p] = Append(v.f.kids[p], c)
    /\ \A m \in Node \ {p} : z.f.kids[m] = v.f.kids[m] /\ z.ht[m] = v.ht[m]
    /\ z.f.parent[c] = p
    /\ \A m \in Node \ {c} : z.f.parent[m] = v.f.parent[m]
    /\ z.ht[p] = NULL \/ Holds(z.name, z.ht[p], Pairs(z.f.kids[p]))
    /\ Base(z)

\* The last element of k has a name no key before it has.
LastIsNew(nm, k) ==
    Len(k) % 2 = 1 =>
        /\ nm[k[Len(k)]] \in Key
        /\ \A j \in DOMAIN k : j % 2 = 1 /\ j < Len(k) => nm[k[j]] # nm[k[Len(k)]]

LEMMA JoinCopy ==
    ASSUME NEW v, Base(v), NEW p \in Node, NEW c \in Node, v.type[p] = "dict", v.type[c] # "free",
           NEW r, r = try_attach(short, v.f, p, c), r.ret = NODE_ERR_SUCCESS,
           NEW k, k = v.f.kids[p], LastIsNew(v.name, k),
           v.ht[p] = NULL \/ Holds(v.name, v.ht[p], Pairs(k)),
           NEW z, z = attached_copy(v, p, c, r)
    PROVE  Joined(v, z, p, c)
<1>1. PICK f, g : f = v.f /\ g = r.f  OBVIOUS
<1>2. ForestInv(f)  BY <1>1 DEF Base
<1>3. Attached(f, r, p, c)
  <2>1. r = try_attach(short, f, p, c)  BY <1>1
  <2> QED  BY ONLY <1>2, <2>1, p \in Node, c \in Node, AttachTried
<1>4. /\ ForestInv(g) /\ f.parent[c] = NULL /\ p # c
      /\ g.kids[p] = Append(k, c)
      /\ \A m \in Node \ {p} : g.kids[m] = f.kids[m]
      /\ g.parent[c] = p
      /\ \A m \in Node \ {c} : g.parent[m] = f.parent[m]
  BY <1>1, <1>3 DEF Attached
<1>5. PICK w : w = WithTrees(v, g)  OBVIOUS
<1>6. w.type = v.type /\ w.name = v.name /\ w.f = g /\ w.ht = v.ht /\ Base(w)
  <2>1. \A m \in Node : g.kids[m] # <<>> => v.type[m] = "dict"
    BY <1>1, <1>4 DEF Base
  <2>2. \A m \in Node : v.type[m] = "free" => g.parent[m] = NULL
    BY <1>1, <1>4 DEF Base
  <2>3. Base(v)  OBVIOUS
  <2> QED  BY ONLY <2>1, <2>2, <2>3, <1>4, <1>5, SetForest
<1>7. PICK h : h = Append(k, c)  OBVIOUS
<1>8. PICK l \in Nat : l = Len(k)
  <2>1. k \in Seq(Node)  BY Fields
  <2> QED  BY <2>1, LenProperties
<1>9. /\ k \in Seq(Node) /\ DOMAIN k = 1..l
      /\ h \in Seq(Node) /\ Len(h) = l + 1 /\ DOMAIN h = 1..(l + 1)
      /\ \A j \in 1..l : h[j] = k[j]
      /\ h[l + 1] = c
  <2>1. k \in Seq(Node)  BY Fields
  <2> QED  BY ONLY <2>1, <1>7, <1>8, c \in Node, AppendedSeq
<1>10. z = IF (l + 1) % 2 = 0 THEN with_entry(w, p, h[l], c) ELSE w
  <2>1. z = LET sa == w
                at == Len(h)
            IN  IF at % 2 = 0 THEN with_entry(sa, p, h[at - 1], c) ELSE sa
    BY <1>1, <1>4, <1>5, <1>7 DEF attached_copy, WithTrees
  <2>2. (l + 1) - 1 = l  OBVIOUS
  <2> QED  BY <2>1, <2>2, <1>9
<1>11. CASE l % 2 = 0
  <2>1. (l + 1) % 2 # 0  BY <1>11
  <2>2. z = w  BY <1>10, <2>1
  <2>3. Pairs(h) = Pairs(k)  BY <1>7, <1>8, <1>9, <1>11, PairsOfKey
  <2> QED  BY <2>2, <2>3, <1>1, <1>4, <1>6, <1>7 DEF Joined
<1>12. CASE l % 2 # 0
  <2>1. (l + 1) % 2 = 0 /\ l % 2 = 1 /\ l \in 1..l  BY <1>12
  <2>2. PICK kn : kn = k[l]  OBVIOUS
  <2>3. kn \in Node /\ h[l] = kn  BY <2>1, <2>2, <1>9, LenProperties
  <2>4. z = with_entry(w, p, kn, c)  BY <1>10, <2>1, <2>3
  <2>5. v.name[kn] \in Key /\ \A j \in 1..l : j % 2 = 1 /\ j < l => v.name[k[j]] # v.name[kn]
    BY <2>1, <2>2, <1>8, <1>9 DEF LastIsNew
  <2>6. PICK P, Q : P = Pairs(k) /\ Q = Pairs(h)  OBVIOUS
  <2>7. Q = P \cup {[key |-> kn, value |-> c]}
    BY <1>7, <1>8, <1>9, <2>1, <2>2, <2>6, PairsOfValue
  <2>8. \A e \in P : w.name[e.key] # w.name[kn]
    <3> SUFFICES ASSUME NEW e \in P PROVE v.name[e.key] # v.name[kn]
      BY <1>6
    <3>1. PICK j \in DOMAIN k : j % 2 = 1 /\ j < Len(k) /\ e = [key |-> k[j], value |-> k[j + 1]]
      BY <2>6, PairsAre
    <3> QED  BY <3>1, <2>5, <1>8, <1>9
  <2>9. Enters(w, p, kn, c, Q)
    <3> SUFFICES ASSUME w.ht[p] # NULL
                 PROVE  Holds(w.name, hash_table_insert(w, w.ht[p], kn, c), Q)
      BY DEF Enters
    <3>1. PICK t : t = w.ht[p]  OBVIOUS
    <3>2. Holds(w.name, t, P)  BY <3>1, <2>6, <1>6
    <3>3. w.name[kn] \in Key  BY <2>5, <1>6
    <3>4. Holds(w.name, hash_table_insert(w, t, kn, c), P \cup {[key |-> kn, value |-> c]})
      BY ONLY <3>2, <3>3, <2>3, <2>8, c \in Node, InsertNew
    <3> QED  BY <3>1, <3>4, <2>7
  <2>10. Entered(w, z, p, Q)
    <3>1. Base(w) /\ w.type[p] = "dict"  BY <1>6
    <3> QED  BY ONLY <3>1, p \in Node, <2>4, <2>9, WithEntry
  <2>11. /\ z.type = w.type /\ z.name = w.name /\ z.f = w.f
         /\ \A m \in Node \ {p} : z.ht[m] = w.ht[m]
         /\ z.ht[p] = NULL \/ Holds(w.name, z.ht[p], Q)
         /\ Base(z)
    BY <2>10 DEF Entered
  <2>12. k = v.f.kids[p]  OBVIOUS
  <2>13. z.type = v.type /\ z.name = v.name /\ z.f = g  BY ONLY <2>11, <1>6
  <2>14. g.kids[p] = h /\ h = Append(v.f.kids[p], c)  BY ONLY <2>12, <1>4, <1>7
  <2>15. /\ v.f.parent[c] = NULL /\ z.f.kids[p] = Append(v.f.kids[p], c) /\ z.f.parent[c] = p
         /\ \A m \in Node \ {c} : z.f.parent[m] = v.f.parent[m]
    BY ONLY <2>13, <2>14, <1>1, <1>4
  <2>16. \A m \in Node \ {p} : z.f.kids[m] = v.f.kids[m] /\ z.ht[m] = v.ht[m]
    BY ONLY <2>11, <2>13, <1>1, <1>4, <1>6
  <2>17. z.ht[p] = NULL \/ Holds(z.name, z.ht[p], Pairs(z.f.kids[p]))
    BY ONLY <2>6, <2>11, <2>13, <2>14
  <2> QED  BY ONLY <2>11, <2>13, <2>15, <2>16, <2>17 DEF Joined
<1> QED  BY <1>11, <1>12

\* co[x] is the copy of x, with the copies of those of its children that are in S.
Twin(st, u, co, x, S) ==
    /\ co[x] \in Node /\ st.type[co[x]] = "free"
    /\ u.type[co[x]] = st.type[x] /\ u.name[co[x]] = st.name[x]
    /\ Len(u.f.kids[co[x]]) <= Len(st.f.kids[x])
    /\ \A e \in DOMAIN u.f.kids[co[x]] : u.f.kids[co[x]][e] = co[st.f.kids[x][e]]
    /\ \A e \in DOMAIN st.f.kids[x] : e <= Len(u.f.kids[co[x]]) <=> st.f.kids[x][e] \in S
    /\ u.ht[co[x]] = NULL \/ Holds(u.name, u.ht[co[x]], Pairs(u.f.kids[co[x]]))

\* The nodes of S, in the tree below n, are copied.
Copies(st, n, u, co, S) ==
    /\ Intact(st, u) /\ S \subseteq Live(st)
    /\ co \in [Node -> Node \cup {NULL}]
    /\ \A x \in S : Twin(st, u, co, x, S)
    /\ \A x, y \in S : co[x] = co[y] => x = y
    /\ n \in S /\ u.f.parent[co[n]] = NULL
    /\ \A x \in S \ {n} : st.f.parent[x] \in S /\ u.f.parent[co[x]] # NULL
    /\ \A m \in Live(u) \ Live(st) : \E x \in S : m = co[x]

\* The first copy is that of the top.
LEMMA FirstCopy ==
    ASSUME NEW st, Base(st), NEW n \in Live(st), NEW v, NEW c, Sprouted(st, v, c, n),
           NEW co \in [Node -> Node \cup {NULL}], NEW d, d = [co EXCEPT ![n] = c], NEW S, S = {n}
    PROVE  Copies(st, n, v, d, S)
<1>1. n \in Node /\ c \in Node /\ c \notin Live(st)  BY DEF Live, Sprouted
<1>2. d \in [Node -> Node \cup {NULL}] /\ d[n] = c  BY <1>1
<1>3. /\ st.type[c] = "free"
      /\ v.type[c] = st.type[n] /\ v.name[c] = st.name[n]
      /\ \A m \in Node \ {c} : v.type[m] = st.type[m] /\ v.name[m] = st.name[m] /\ v.ht[m] = st.ht[m]
      /\ v.f = st.f /\ v.f.parent[c] = NULL /\ v.f.kids[c] = <<>>
      /\ v.ht[c] = NULL \/ Holds(v.name, v.ht[c], {})
      /\ Base(v)
  BY DEF Sprouted
<1>4. Intact(st, v)
  <2>1. \A m \in Live(st) : m \in Node \ {c}  BY <1>1 DEF Live
  <2> QED  BY <2>1, <1>3 DEF Intact
<1>5. PICK q, l : q = st.f.kids[n] /\ l = Len(q)  OBVIOUS
<1>6. /\ l \in Nat /\ DOMAIN q = 1..l
      /\ \A e \in DOMAIN q : q[e] \in Node /\ st.f.parent[q[e]] = n
  BY <1>1, <1>5, ChildrenOf
<1>7. \A e \in DOMAIN q : q[e] \notin S
  <2>1. ForestInv(st.f)  BY DEF Base
  <2>2. st.f.parent[n] # n  BY <1>1, <2>1, SubtreeCut
  <2> QED  BY <2>2, <1>6
<1>8. PICK k : k = v.f.kids[c]  OBVIOUS
<1>9. k = <<>> /\ Len(k) = 0 /\ DOMAIN k = {}
  <2>1. Len(<<>>) = 0 /\ DOMAIN <<>> = {}  OBVIOUS
  <2> QED  BY <2>1, <1>3, <1>8
<1>10. Pairs(k) = {}
  <2>1. \A e : e \notin Pairs(k)  BY <1>9, PairsAre
  <2> QED  BY <2>1
<1>11. Twin(st, v, d, n, S)
  <2>1. \A e \in DOMAIN q : ~(e <= Len(k))  BY <1>6, <1>9
  <2>2. 0 <= l  BY <1>6
  <2> QED  BY ONLY <2>1, <2>2, <1>1, <1>2, <1>3, <1>5, <1>7, <1>8, <1>9, <1>10 DEF Twin
<1>12. \A m \in Live(v) \ Live(st) : m = c  BY <1>3 DEF Live
<1> QED  BY <1>2, <1>3, <1>4, <1>11, <1>12 DEF Copies

\* The copy a of y, with the children k, when v has one copy more, c, than u.
TwinIs(st, u, v, co, S, c, y, a, q, k) ==
    /\ y \in Node /\ a \in Node /\ a # c
    /\ v.type[a] = st.type[y] /\ v.name[a] = st.name[y] /\ v.ht[a] = u.ht[a]
    /\ st.type[a] = "free"
    /\ q \in Seq(Node) /\ Len(q) \in Nat /\ DOMAIN q = 1..Len(q)
    /\ k \in Seq(Node) /\ Len(k) \in Nat /\ DOMAIN k = 1..Len(k)
    /\ Len(k) <= Len(q)
    /\ \A e \in DOMAIN k : /\ e \in DOMAIN q /\ q[e] \in S
                           /\ k[e] = co[q[e]] /\ k[e] # c
                           /\ v.type[k[e]] = st.type[q[e]] /\ v.name[k[e]] = st.name[q[e]]
    /\ \A e \in DOMAIN q : e <= Len(k) <=> q[e] \in S
    /\ v.ht[a] = NULL \/ Holds(v.name, v.ht[a], Pairs(k))

LEMMA TwinFacts ==
    ASSUME NEW st, Base(st), NEW n, NEW u, NEW co, NEW S, Copies(st, n, u, co, S),
           NEW v, NEW c, NEW x, Sprouted(u, v, c, x), NEW y \in S,
           NEW a, a = co[y], NEW q, q = st.f.kids[y], NEW k, k = u.f.kids[a]
    PROVE  TwinIs(st, u, v, co, S, c, y, a, q, k)
<1>1. /\ Base(u) /\ S \subseteq Live(st) /\ Twin(st, u, co, y, S)
      /\ \A w \in S : Twin(st, u, co, w, S)
  BY DEF Copies, Intact
<1>2. \A w \in S : w \in Node /\ st.type[w] # "free"  BY <1>1 DEF Live
<1>3. /\ c \in Node /\ u.type[c] = "free"
      /\ \A m \in Node \ {c} : v.type[m] = u.type[m] /\ v.name[m] = u.name[m] /\ v.ht[m] = u.ht[m]
  BY DEF Sprouted
<1>4. \A w \in S : /\ co[w] \in Node /\ co[w] # c
                   /\ v.type[co[w]] = st.type[w] /\ v.name[co[w]] = st.name[w]
                   /\ v.ht[co[w]] = u.ht[co[w]]
  <2> SUFFICES ASSUME NEW w \in S
               PROVE  /\ co[w] \in Node /\ co[w] # c
                      /\ v.type[co[w]] = st.type[w] /\ v.name[co[w]] = st.name[w]
                      /\ v.ht[co[w]] = u.ht[co[w]]
    OBVIOUS
  <2>1. co[w] \in Node /\ u.type[co[w]] = st.type[w] /\ u.name[co[w]] = st.name[w]
    BY <1>1 DEF Twin
  <2>2. co[w] # c  BY <2>1, <1>2, <1>3
  <2> QED  BY <2>1, <2>2, <1>3
<1>5. /\ st.type[a] = "free"
      /\ Len(k) <= Len(q)
      /\ \A e \in DOMAIN k : k[e] = co[q[e]]
      /\ \A e \in DOMAIN q : e <= Len(k) <=> q[e] \in S
      /\ u.ht[a] = NULL \/ Holds(u.name, u.ht[a], Pairs(k))
  BY <1>1 DEF Twin
<1>6. q \in Seq(Node) /\ Len(q) \in Nat /\ DOMAIN q = 1..Len(q)
  <2>1. y \in Node  BY <1>2
  <2> QED  BY <2>1, ChildrenOf
<1>7. k \in Seq(Node) /\ Len(k) \in Nat /\ DOMAIN k = 1..Len(k)
  <2>1. a \in Node  BY <1>4
  <2> QED  BY <2>1, <1>1, ChildrenOf
<1>8. \A e \in DOMAIN k : e \in DOMAIN q /\ q[e] \in S /\ k[e] = co[q[e]]
  <2> TAKE e \in DOMAIN k
  <2>1. e \in 1..Len(q) /\ e <= Len(k)  BY <1>5, <1>6, <1>7
  <2> QED  BY <2>1, <1>5, <1>6
<1>9. v.ht[a] = NULL \/ Holds(v.name, v.ht[a], Pairs(k))
  <2> SUFFICES ASSUME v.ht[a] # NULL PROVE Holds(v.name, v.ht[a], Pairs(k))
    OBVIOUS
  <2>1. PICK t, P, nm, nn : t = u.ht[a] /\ P = Pairs(k) /\ nm = u.name /\ nn = v.name  OBVIOUS
  <2>2. v.ht[a] = t /\ Holds(nm, t, P)  BY <2>1, <1>4, <1>5
  <2>3. \A e \in P : nn[e.key] = nm[e.key]
    <3> TAKE e \in P
    <3>1. PICK j \in DOMAIN k : e = [key |-> k[j], value |-> k[j + 1]]  BY <2>1, PairsAre
    <3>2. q[j] \in S /\ e.key = co[q[j]]  BY <3>1, <1>8
    <3> QED  BY <3>2, <2>1, <1>3, <1>4
  <2>4. Holds(nn, t, P)  BY ONLY <2>2, <2>3, HoldsFrame
  <2> QED  BY <2>1, <2>2, <2>4
<1>10. \A e \in DOMAIN k : k[e] # c /\ v.type[k[e]] = st.type[q[e]] /\ v.name[k[e]] = st.name[q[e]]
  BY <1>4, <1>8
<1>11. y \in Node /\ a \in Node /\ a # c
       /\ v.type[a] = st.type[y] /\ v.name[a] = st.name[y] /\ v.ht[a] = u.ht[a]
  BY <1>2, <1>4
<1> QED  BY ONLY <1>5, <1>6, <1>7, <1>8, <1>9, <1>10, <1>11 DEF TwinIs

\* The elements of q before place e are in S.
LeftIn(q, e, S) == \A g \in 1..(e - 1) : q[g] \in S

\* Of the children q of o, x at place e is the first that is not in S; p is the
\* copy of o.
Due(st, co, S, o, q, e, x, p) ==
    /\ q = st.f.kids[o] /\ e \in DOMAIN q /\ x = q[e] /\ p = co[o]
    /\ x \notin S /\ LeftIn(q, e, S)

\* The next child e of o, x, is copied: then the copy of o has one child more.
LEMMA NextTwin ==
    ASSUME NEW st, Sound(st), NEW n, NEW u, NEW co, NEW S, Copies(st, n, u, co, S),
           NEW o \in S, NEW q, NEW e, NEW x, NEW p, Due(st, co, S, o, q, e, x, p),
           NEW v, NEW c, Sprouted(u, v, c, x),
           NEW r, r = try_attach(short, v.f, p, c), r.ret = NODE_ERR_SUCCESS,
           NEW z, z = attached_copy(v, p, c, r)
    PROVE  Joined(v, z, p, c) /\ Len(v.f.kids[p]) = e - 1
<1>0. q = st.f.kids[o] /\ e \in DOMAIN q /\ x = q[e] /\ p = co[o] /\ x \notin S /\ LeftIn(q, e, S)
  BY DEF Due
<1> USE <1>0
<1>1. Base(st) /\ st.type[o] = "dict" /\ Fine(st, o) /\ o \in Node
  <2>1. Base(st) /\ o \in Live(st)  BY DEF Sound, Copies
  <2>2. o \in Node  BY <2>1 DEF Live
  <2>3. q # <<>>
    <3>1. DOMAIN <<>> = {}  OBVIOUS
    <3> QED  BY <3>1
  <2>4. st.type[o] = "dict"  BY <2>1, <2>2, <2>3 DEF Base
  <2> QED  BY <2>1, <2>2, <2>4 DEF Sound, Dicts
<1>2. PICK k : k = u.f.kids[p]  OBVIOUS
<1>3. /\ p \in Node /\ p # c /\ v.type[p] = "dict"
      /\ q \in Seq(Node) /\ Len(q) \in Nat /\ DOMAIN q = 1..Len(q)
      /\ k \in Seq(Node) /\ Len(k) \in Nat /\ DOMAIN k = 1..Len(k)
      /\ \A j \in DOMAIN k : /\ j \in DOMAIN q
                             /\ v.type[k[j]] = st.type[q[j]] /\ v.name[k[j]] = st.name[q[j]]
      /\ \A j \in DOMAIN q : j <= Len(k) <=> q[j] \in S
      /\ v.ht[p] = NULL \/ Holds(v.name, v.ht[p], Pairs(k))
  <2>1. Base(st) /\ Copies(st, n, u, co, S) /\ Sprouted(u, v, c, x) /\ o \in S  BY <1>1
  <2>2. p = co[o] /\ q = st.f.kids[o] /\ k = u.f.kids[p]  BY <1>2
  <2>3. TwinIs(st, u, v, co, S, c, o, p, q, k)  BY ONLY <2>1, <2>2, TwinFacts
  <2> QED  BY ONLY <2>3, <1>1 DEF TwinIs
<1>4. Len(k) = e - 1
  <2>1. PICK l, m \in Nat : l = Len(k) /\ m = Len(q)  BY <1>3
  <2>2. e \in 1..m /\ ~(e <= l)  BY <2>1, <1>3
  <2>3. e = 1 \/ e - 1 \in 1..(e - 1)  BY <2>2
  <2>4. e = 1 \/ e - 1 <= l
    <3>1. \A g \in 1..(e - 1) : g \in 1..m  BY <2>2
    <3> QED  BY <2>1, <2>3, <3>1, <1>3 DEF LeftIn
  <2>5. l = e - 1  BY ONLY <2>2, <2>4, l \in Nat, m \in Nat
  <2> QED  BY <2>1, <2>5
<1>5. v.f = u.f /\ Base(v) /\ c \in Node  BY DEF Sprouted
<1>6. v.type[c] # "free"
  <2>1. x \in Node /\ st.type[x] # "free"
    <3>1. Base(st) /\ o \in Node  BY ONLY <1>1
    <3> QED  BY ONLY <3>1, <1>0, ChildrenOf
  <2>2. x \in Live(st)  BY <2>1 DEF Live
  <2>3. u.type[x] = st.type[x]  BY <2>2 DEF Copies, Intact
  <2> QED  BY <2>1, <2>3 DEF Sprouted
<1>7. LastIsNew(v.name, k)
  <2> SUFFICES ASSUME Len(k) % 2 = 1
               PROVE  /\ v.name[k[Len(k)]] \in Key
                      /\ \A j \in DOMAIN k : j % 2 = 1 /\ j < Len(k) => v.name[k[j]] # v.name[k[Len(k)]]
    BY DEF LastIsNew
  <2>1. PICK l \in Nat : l = Len(k)  BY <1>3
  <2>2. l \in DOMAIN k /\ l \in DOMAIN q /\ l % 2 = 1
    <3>1. l \in 1..l  BY <2>1
    <3> QED  BY <3>1, <2>1, <1>3
  <2>3. /\ \A j \in DOMAIN q : st.type[q[j]] = "key" <=> j % 2 = 1
        /\ \A i, j \in DOMAIN q : i % 2 = 1 /\ j % 2 = 1 /\ st.name[q[i]] = st.name[q[j]] => i = j
    BY <1>1 DEF Fine, Good, Alternates
  <2>4. st.name[q[l]] \in Key
    <3>1. q[l] \in Node  BY <2>2, <1>3
    <3> QED  BY <3>1, <2>2, <2>3, <1>1 DEF Base
  <2>5. \A j \in DOMAIN k : j % 2 = 1 /\ j < l => st.name[q[j]] # st.name[q[l]]
    <3> SUFFICES ASSUME NEW j \in DOMAIN k, j % 2 = 1, j < l PROVE st.name[q[j]] # st.name[q[l]]
      OBVIOUS
    <3>1. j # l /\ j \in DOMAIN q  BY <2>1, <1>3
    <3> QED  BY <3>1, <2>2, <2>3
  <2> QED  BY <2>1, <2>2, <2>4, <2>5, <1>3
<1>8. Joined(v, z, p, c)
  <2>1. k = v.f.kids[p]  BY <1>2, <1>5
  <2>2. p \in Node /\ v.type[p] = "dict" /\ (v.ht[p] = NULL \/ Holds(v.name, v.ht[p], Pairs(k)))
    BY <1>3
  <2> QED  BY ONLY <2>1, <2>2, <1>5, <1>6, <1>7, r = try_attach(short, v.f, p, c),
                   r.ret = NODE_ERR_SUCCESS, z = attached_copy(v, p, c, r), JoinCopy
<1> QED  BY <1>2, <1>4, <1>5, <1>8

LEMMA NextCopy ==
    ASSUME NEW st, Sound(st), NEW n, NEW u, NEW co, NEW S, Copies(st, n, u, co, S),
           NEW o \in S, NEW q, NEW e, NEW x, NEW p, Due(st, co, S, o, q, e, x, p),
           st.f.parent[n] # x, NEW v, NEW c, Sprouted(u, v, c, x), NEW z, Joined(v, z, p, c), Len(v.f.kids[p]) = e - 1,
           NEW d, d = [co EXCEPT ![x] = c], NEW T, T = S \cup {x}
    PROVE  Copies(st, n, z, d, T)
<1>0. q = st.f.kids[o] /\ e \in DOMAIN q /\ x = q[e] /\ p = co[o] /\ x \notin S /\ LeftIn(q, e, S)
  BY DEF Due
<1> USE <1>0
<1>1. /\ Base(st) /\ Intact(st, u) /\ Base(u) /\ S \subseteq Live(st) /\ S \subseteq Node
      /\ co \in [Node -> Node \cup {NULL}]
      /\ \A y, w \in S : co[y] = co[w] => y = w
      /\ n \in S /\ u.f.parent[co[n]] = NULL
      /\ \A y \in S \ {n} : st.f.parent[y] \in S /\ u.f.parent[co[y]] # NULL
      /\ \A m \in Live(u) \ Live(st) : \E y \in S : m = co[y]
  BY DEF Sound, Copies, Intact, Live
<1>2. /\ c \in Node /\ u.type[c] = "free"
      /\ v.type[c] = u.type[x] /\ v.name[c] = u.name[x]
      /\ \A m \in Node \ {c} : v.type[m] = u.type[m] /\ v.name[m] = u.name[m] /\ v.ht[m] = u.ht[m]
      /\ v.f = u.f /\ u.f.parent[c] = NULL /\ u.f.kids[c] = <<>>
      /\ v.ht[c] = NULL \/ Holds(v.name, v.ht[c], {})
  BY DEF Sprouted
<1>3. /\ z.type = v.type /\ z.name = v.name
      /\ z.f.kids[p] = Append(u.f.kids[p], c)
      /\ \A m \in Node \ {p} : z.f.kids[m] = u.f.kids[m] /\ z.ht[m] = v.ht[m]
      /\ z.f.parent[c] = p
      /\ \A m \in Node \ {c} : z.f.parent[m] = u.f.parent[m]
      /\ z.ht[p] = NULL \/ Holds(z.name, z.ht[p], Pairs(z.f.kids[p]))
      /\ Base(z)
  BY <1>2 DEF Joined
<1>4. /\ x \in Node /\ st.f.parent[x] = o /\ st.type[x] # "free" /\ x \in Live(st)
      /\ DOMAIN q = 1..Len(q) /\ Len(q) \in Nat
      /\ \A i, j \in DOMAIN q : q[i] = q[j] => i = j
  <2>1. o \in Node  BY <1>1
  <2>2. Base(st)  BY <1>1
  <2> QED  BY ONLY <2>1, <2>2, <1>0, ChildrenOf DEF Live
<1>5. d \in [Node -> Node \cup {NULL}] /\ d[x] = c /\ \A y \in S : d[y] = co[y]
  BY <1>1, <1>2, <1>4
<1>16. \A y \in S : TwinIs(st, u, v, co, S, c, y, co[y], st.f.kids[y], u.f.kids[co[y]])
  <2> TAKE y \in S
  <2>1. Base(st) /\ Copies(st, n, u, co, S) /\ Sprouted(u, v, c, x)  BY <1>1
  <2> QED  BY ONLY <2>1, y \in S, TwinFacts
<1>17. \A y \in S : co[y] \in Node /\ co[y] # c /\ st.type[co[y]] = "free"
  BY ONLY <1>16 DEF TwinIs
<1>6. c \notin Live(st) /\ p \in Node /\ p # c
  <2>1. c \notin Live(st)  BY <1>1, <1>2 DEF Intact, Live
  <2> QED  BY <2>1, <1>17
<1>7. Intact(st, z)
  <2> SUFFICES ASSUME NEW m \in Live(st)
               PROVE  /\ z.type[m] = st.type[m] /\ z.name[m] = st.name[m] /\ z.ht[m] = st.ht[m]
                      /\ z.f.parent[m] = st.f.parent[m] /\ z.f.kids[m] = st.f.kids[m]
    BY <1>3 DEF Intact
  <2>1. m \in Node \ {c} /\ m \in Node  BY <1>6 DEF Live
  <2>2. m # p
    <3>1. st.type[p] = "free"  BY <1>17
    <3> QED  BY <3>1 DEF Live
  <2> QED  BY ONLY m \in Live(st), <2>1, <2>2, <1>1, <1>2, <1>3 DEF Intact
<1>8. ASSUME NEW y \in S
      PROVE  Twin(st, z, d, y, T)
  <2>1. PICK a, k, h : a = co[y] /\ k = u.f.kids[a] /\ h = st.f.kids[y]  OBVIOUS
  <2>2. /\ y \in Node /\ a \in Node /\ a # c
        /\ v.type[a] = st.type[y] /\ v.name[a] = st.name[y]
        /\ st.type[a] = "free"
        /\ h \in Seq(Node) /\ Len(h) \in Nat /\ DOMAIN h = 1..Len(h)
        /\ k \in Seq(Node) /\ Len(k) \in Nat /\ DOMAIN k = 1..Len(k)
        /\ Len(k) <= Len(h)
        /\ \A i \in DOMAIN k : i \in DOMAIN h /\ h[i] \in S /\ k[i] = co[h[i]]
        /\ \A i \in DOMAIN h : i <= Len(k) <=> h[i] \in S
        /\ v.ht[a] = NULL \/ Holds(v.name, v.ht[a], Pairs(k))
    <3>1. TwinIs(st, u, v, co, S, c, y, a, h, k)  BY ONLY <1>16, <2>1, y \in S
    <3> QED  BY ONLY <3>1 DEF TwinIs
  <2>3. d[y] = a  BY <2>1, <1>5
  <2>4. PICK b : b = z.f.kids[a]  OBVIOUS
  <2>5. CASE y # o
    <3>1. a # p  BY <2>1, <2>5, <1>1
    <3>2. b = k /\ z.ht[a] = v.ht[a]  BY <3>1, <2>1, <2>2, <2>4, <1>3
    <3>3. \A i \in DOMAIN h : h[i] # x /\ (h[i] \in S <=> h[i] \in T)
      <4>1. \A i \in DOMAIN h : st.f.parent[h[i]] = y 
        <5>1. Base(st) /\ y \in Node /\ h = st.f.kids[y]  BY <1>1, <2>1, <2>2
        <5> QED  BY ONLY <5>1, ChildrenOf
      <4> QED  BY <4>1, <2>5, <1>4
    <3>4. \A i \in DOMAIN k : k[i] = d[h[i]]  BY <2>2, <1>5
    <3>5. z.ht[a] = NULL \/ Holds(z.name, z.ht[a], Pairs(b))  BY <3>2, <2>2, <1>3
    <3>6. /\ Len(b) <= Len(h)
          /\ \A i \in DOMAIN b : b[i] = d[h[i]]
          /\ \A i \in DOMAIN h : i <= Len(b) <=> h[i] \in T
      <4>1. /\ Len(k) <= Len(h)
            /\ \A i \in DOMAIN h : i <= Len(k) <=> h[i] \in S
            /\ b = k
        BY ONLY <2>2, <3>2
      <4> QED  BY ONLY <4>1, <3>3, <3>4
    <3>7. h = st.f.kids[y] /\ z.type[a] = st.type[y] /\ z.name[a] = st.name[y] /\ a \in Node
          /\ st.type[a] = "free"
      BY <2>1, <2>2, <1>3
    <3> QED  BY ONLY <3>5, <3>6, <3>7, <2>3, <2>4 DEF Twin
  <2>6. CASE y = o
    <3>1. a = p /\ h = q /\ b = Append(k, c) /\ Len(k) = e - 1  BY <2>1, <2>4, <2>6, <1>2, <1>3
    <3>2. PICK l \in Nat : l = Len(k)  BY <2>2
    <3>3. /\ Len(b) = l + 1 /\ DOMAIN b = 1..(l + 1)
          /\ \A i \in 1..l : b[i] = k[i]
          /\ b[l + 1] = c
      BY <3>1, <3>2, <2>2, <1>2, AppendedSeq
    <3>4. e = l + 1 /\ e \in 1..Len(q)
      <4>1. e \in 1..Len(q)  BY <1>4
      <4> QED  BY <4>1, <3>1, <3>2, <1>4
    <3>5. Len(b) = e /\ Len(b) <= Len(h)  BY <3>1, <3>3, <3>4, <1>4
    <3>6. \A i \in DOMAIN b : b[i] = d[h[i]]
      <4> TAKE i \in DOMAIN b
      <4>1. CASE i = l + 1  BY <4>1, <3>1, <3>3, <3>4, <1>5
      <4>2. CASE i # l + 1
        <5>1. i \in 1..l  BY <4>2, <3>3
        <5> QED  BY <5>1, <3>2, <3>3, <2>2, <1>5
      <4> QED  BY <4>1, <4>2
    <3>7. \A i \in DOMAIN h : i <= Len(b) <=> h[i] \in T
      <4> TAKE i \in DOMAIN h
      <4>1. i \in 1..Len(q) /\ Len(q) \in Nat  BY <3>1, <1>4
      <4>2. i <= l <=> h[i] \in S  BY <3>2, <2>2
      <4>3. h[i] = x <=> i = e  BY <3>1, <1>4
      <4>4. i <= e <=> (i <= l \/ i = e)  BY ONLY <4>1, <3>4, l \in Nat
      <4> QED  BY <4>2, <4>3, <4>4, <3>5
    <3>8. z.ht[a] = NULL \/ Holds(z.name, z.ht[a], Pairs(b))  BY <3>1, <2>4, <1>3
    <3>9. h = st.f.kids[y] /\ z.type[a] = st.type[y] /\ z.name[a] = st.name[y] /\ a \in Node
          /\ st.type[a] = "free"
      BY <2>1, <2>2, <1>3
    <3> QED  BY ONLY <3>5, <3>6, <3>7, <3>8, <3>9, <2>3, <2>4 DEF Twin
  <2> QED  BY <2>5, <2>6
<1>9. Twin(st, z, d, x, T)
  <2>1. PICK b, h : b = z.f.kids[c] /\ h = st.f.kids[x]  OBVIOUS
  <2>2. b = <<>> /\ Len(b) = 0 /\ DOMAIN b = {}
    <3>1. Len(<<>>) = 0 /\ DOMAIN <<>> = {}  OBVIOUS
    <3>2. b = <<>>  BY <2>1, <1>2, <1>3, <1>6
    <3> QED  BY <3>1, <3>2
  <2>3. Pairs(b) = {}
    <3>1. \A g : g \notin Pairs(b)  BY ONLY <2>2, PairsAre
    <3> QED  BY <3>1
  <2>4. Len(h) \in Nat /\ DOMAIN h = 1..Len(h) /\ \A i \in DOMAIN h : h[i] \in Node /\ st.f.parent[h[i]] = x
    <3>1. Base(st) /\ x \in Node /\ h = st.f.kids[x]  BY <2>1, <1>1, <1>4
    <3> QED  BY ONLY <3>1, ChildrenOf
  <2>5. \A i \in DOMAIN h : h[i] \notin T
    <3> SUFFICES ASSUME NEW i \in DOMAIN h, h[i] \in T PROVE FALSE  OBVIOUS
    <3>1. h[i] # x
      <4>1. ForestInv(st.f)  BY <1>1 DEF Base
      <4>2. st.f.parent[x] # x  BY <4>1, <1>4, SubtreeCut
      <4> QED  BY <4>2, <2>4
    <3>2. h[i] \in S /\ h[i] # n  BY <3>1, <2>4
    <3> QED  BY <3>2, <2>4, <1>1
  <2>6. \A i \in DOMAIN h : ~(i <= Len(b))  BY <2>2, <2>4
  <2>7. z.ht[c] = v.ht[c]  BY <1>2, <1>3, <1>6
  <2>8. z.ht[c] = NULL \/ Holds(z.name, z.ht[c], Pairs(b))  BY <2>3, <2>7, <1>2, <1>3
  <2>9. st.type[c] = "free" /\ z.type[c] = st.type[x] /\ z.name[c] = st.name[x]
    BY <1>1, <1>2, <1>3, <1>4, <1>6 DEF Intact, Live
  <2>10. Len(b) <= Len(h)  BY <2>2, <2>4
  <2>11. \A i \in DOMAIN b : b[i] = d[h[i]]  BY <2>2
  <2>12. c \in Node /\ d[x] = c  BY <1>2, <1>5
  <2> QED  BY ONLY <2>1, <2>5, <2>6, <2>8, <2>9, <2>10, <2>11, <2>12 DEF Twin
<1>10. \A y \in S : d[y] # c
  <2> TAKE y \in S
  <2>1. co[y] # c  BY <1>17
  <2> QED  BY <2>1, <1>5
<1>11. \A y, w \in T : d[y] = d[w] => y = w  BY <1>1, <1>5, <1>10
<1>12. n \in T /\ z.f.parent[d[n]] = NULL
  <2>1. co[n] \in Node /\ co[n] # c  BY <1>1, <1>17
  <2> QED  BY <2>1, <1>1, <1>3, <1>5
<1>13. \A y \in T \ {n} : st.f.parent[y] \in T /\ z.f.parent[d[y]] # NULL
  <2> SUFFICES ASSUME NEW y \in T \ {n} PROVE st.f.parent[y] \in T /\ z.f.parent[d[y]] # NULL
    OBVIOUS
  <2>1. CASE y = x
    <3>1. st.f.parent[y] \in T  BY ONLY <2>1, <1>4, o \in S, T = S \cup {x}
    <3>2. z.f.parent[d[y]] = p  BY ONLY <2>1, <1>3, <1>5
    <3>3. p # NULL  BY ONLY <1>6, NodeAssumption
    <3> QED  BY ONLY <3>1, <3>2, <3>3
  <2>2. CASE y # x
    <3>1. y \in S \ {n}  BY <2>2
    <3>2. co[y] \in Node /\ co[y] # c  BY <3>1, <1>17
    <3> QED  BY ONLY <3>1, <3>2, T = S \cup {x}, <1>1, <1>3, <1>5
  <2> QED  BY <2>1, <2>2
<1>14. \A m \in Live(z) \ Live(st) : \E y \in T : m = d[y]
  <2> SUFFICES ASSUME NEW m \in Live(z) \ Live(st) PROVE \E y \in T : m = d[y]
    OBVIOUS
  <2>1. CASE m = c  BY <2>1, <1>5
  <2>2. CASE m # c
    <3>1. m \in Live(u) \ Live(st)  BY <2>2, <1>2, <1>3 DEF Live
    <3>2. PICK y \in S : m = co[y]  BY <3>1, <1>1
    <3> QED  BY <3>2, <1>5
  <2> QED  BY <2>1, <2>2
<1>15. T \subseteq Live(st)  BY <1>1, <1>4
<1> QED  BY <1>5, <1>7, <1>8, <1>9, <1>11, <1>12, <1>13, <1>14, <1>15 DEF Copies

\* When copying fails, freeing what is new gives the state back.
LEMMA UndoCopy ==
    ASSUME NEW st, Base(st), NEW u, Intact(st, u)
    PROVE  freed(u, Live(u) \ Live(st)) = st
<1>1. PICK S : S = Live(u) \ Live(st)  OBVIOUS
<1>2. PICK w : w = freed(u, S)  OBVIOUS
<1>3. /\ Base(u)
      /\ \A m \in Live(st) :
            /\ u.type[m] = st.type[m] /\ u.name[m] = st.name[m] /\ u.ht[m] = st.ht[m]
            /\ u.f.parent[m] = st.f.parent[m] /\ u.f.kids[m] = st.f.kids[m]
  BY DEF Intact
<1>4. PICK ty, nm, ks, ps, hs :
         /\ ty = [n \in Node |-> IF n \in S THEN "free" ELSE u.type[n]]
         /\ nm = [n \in Node |-> IF n \in S THEN NoName ELSE u.name[n]]
         /\ ks = [n \in Node |-> IF n \in S THEN <<>> ELSE u.f.kids[n]]
         /\ ps = [n \in Node |-> IF n \in S THEN NULL ELSE u.f.parent[n]]
         /\ hs = [n \in Node |-> IF n \in S THEN NULL ELSE u.ht[n]]
  OBVIOUS
<1>5. w = [type |-> ty, name |-> nm, f |-> [kids |-> ks, parent |-> ps], ht |-> hs]
  BY <1>2, <1>4 DEF freed, Release
<1>6. \A v : Base(v) => \A n \in Node : v.type[n] = "free" =>
         /\ v.name[n] = NoName /\ v.f.kids[n] = <<>> /\ v.f.parent[n] = NULL /\ v.ht[n] = NULL
  BY DEF Base
<1>7. \A n \in Node :
         /\ n \in S => /\ st.type[n] = "free" /\ st.name[n] = NoName /\ st.f.kids[n] = <<>>
                       /\ st.f.parent[n] = NULL /\ st.ht[n] = NULL
         /\ n \notin S => /\ u.type[n] = st.type[n] /\ u.name[n] = st.name[n]
                          /\ u.f.kids[n] = st.f.kids[n] /\ u.f.parent[n] = st.f.parent[n]
                          /\ u.ht[n] = st.ht[n]
  <2> TAKE n \in Node
  <2>1. CASE n \in Live(st)  BY <2>1, <1>1, <1>3
  <2>2. CASE n \notin Live(st)
    <3>1. st.type[n] = "free" /\ (n \notin S => u.type[n] = "free")  BY <2>2, <1>1 DEF Live
    <3> QED  BY <3>1, <1>3, <1>6
  <2> QED  BY <2>1, <2>2
<1>8. /\ st.type \in [Node -> {"free", "dict", "key", "value"}]
      /\ st.name \in [Node -> Key \cup {NoName}]
      /\ st.f.kids \in [Node -> Seq(Node)]
      /\ st.f.parent \in [Node -> Node \cup {NULL}]
      /\ st.ht \in [Node -> Table \cup {NULL}]
      /\ st.f \in Forest
      /\ st = [type |-> st.type, name |-> st.name, f |-> st.f, ht |-> st.ht]
  BY Fields
<1>9. ty = st.type  BY ONLY <1>4, <1>7, <1>8
<1>10. nm = st.name  BY ONLY <1>4, <1>7, <1>8
<1>11. ks = st.f.kids
  <2>1. DOMAIN ks = Node /\ DOMAIN st.f.kids = Node /\ \A n \in Node : ks[n] = st.f.kids[n]
    BY <1>4, <1>7, <1>8
  <2>2. ks = [n \in Node |-> ks[n]]  BY ONLY <1>4
  <2>3. st.f.kids = [n \in Node |-> st.f.kids[n]]  BY ONLY <1>8
  <2> QED  BY ONLY <2>1, <2>2, <2>3
<1>12. ps = st.f.parent  BY ONLY <1>4, <1>7, <1>8
<1>13. hs = st.ht  BY ONLY <1>4, <1>7, <1>8
<1>14. st.f = [kids |-> st.f.kids, parent |-> st.f.parent]  BY <1>8 DEF Forest
<1>15. w = st  BY ONLY <1>5, <1>8, <1>9, <1>10, <1>11, <1>12, <1>13, <1>14
<1> QED  BY <1>1, <1>2, <1>15

\* u is st with a copy c, a root, of the tree below n.
Cloned(st, u, c, n) ==
    /\ Sound(u) /\ Intact(st, u)
    /\ c \in Roots(u) /\ st.type[c] = "free" /\ u.type[c] = st.type[n]

LEMMA AllCopied ==
    ASSUME NEW st, Sound(st), NEW n \in Live(st), st.type[n] # "key", NEW u, NEW co, NEW S,
           Copies(st, n, u, co, S),
           \A x \in S : \A e \in DOMAIN st.f.kids[x] : st.f.kids[x][e] \in S
    PROVE  Cloned(st, u, co[n], n)
<1>1. /\ Base(st) /\ Intact(st, u) /\ Base(u) /\ S \subseteq Live(st) /\ S \subseteq Node
      /\ \A x \in S : Twin(st, u, co, x, S)
      /\ n \in S /\ u.f.parent[co[n]] = NULL
      /\ \A x \in S \ {n} : st.f.parent[x] \in S /\ u.f.parent[co[x]] # NULL
      /\ \A m \in Live(u) \ Live(st) : \E x \in S : m = co[x]
  BY DEF Sound, Copies, Intact, Live
<1>2. \A x \in S : /\ co[x] \in Node /\ st.type[co[x]] = "free"
                   /\ u.type[co[x]] = st.type[x] /\ u.name[co[x]] = st.name[x]
  BY <1>1 DEF Twin
<1>3. co[n] \in Roots(u) /\ st.type[co[n]] = "free" /\ u.type[co[n]] = st.type[n]
  <2>1. st.type[n] # "free"  BY DEF Live
  <2> QED  BY <2>1, <1>1, <1>2 DEF Roots, Live
<1>4. \A m \in Dicts(u) : Fine(u, m)
  <2> SUFFICES ASSUME NEW m \in Dicts(u) PROVE Fine(u, m)
    OBVIOUS
  <2>1. m \in Node /\ u.type[m] = "dict"  BY DEF Dicts
  <2>2. CASE m \in Live(st)
    <3>1. /\ st.type[m] = "dict" /\ u.f.kids[m] = st.f.kids[m] /\ u.ht[m] = st.ht[m]
      BY <2>1, <2>2, <1>1 DEF Intact
    <3>2. Fine(st, m)  BY <2>1, <3>1 DEF Sound, Dicts
    <3>3. \A c \in Node : st.f.parent[c] = m => u.type[c] = st.type[c] /\ u.name[c] = st.name[c]
      <4> SUFFICES ASSUME NEW c \in Node, st.f.parent[c] = m
                   PROVE  u.type[c] = st.type[c] /\ u.name[c] = st.name[c]
        OBVIOUS
      <4>1. st.type[c] # "free"  BY <1>1, <2>1, NodeAssumption DEF Base
      <4> QED  BY <4>1, <1>1 DEF Intact, Live
    <3> QED  BY <2>1, <3>1, <3>2, <3>3, <1>1, Unaffected
  <2>3. CASE m \notin Live(st)
    <3>1. m \in Live(u)  BY <2>1 DEF Live
    <3>2. PICK x \in S : m = co[x]  BY <3>1, <2>3, <1>1
    <3>3. PICK q, k : q = st.f.kids[x] /\ k = u.f.kids[m]  OBVIOUS
    <3>4. x \in Node /\ st.type[x] = "dict" /\ Fine(st, x)
      <4>1. x \in Node /\ st.type[x] = "dict"  BY <2>1, <3>2, <1>1, <1>2
      <4> QED  BY <4>1 DEF Sound, Dicts
    <3>5. PICK l, h \in Nat : l = Len(q) /\ h = Len(k)  BY <2>1, <3>3, <3>4, <1>1, ChildrenOf
    <3>6. DOMAIN q = 1..l /\ DOMAIN k = 1..h  BY <2>1, <3>3, <3>4, <3>5, <1>1, ChildrenOf
    <3>7. /\ h <= l
          /\ \A e \in DOMAIN k : k[e] = co[q[e]]
          /\ \A e \in DOMAIN q : e <= h
          /\ \A e \in DOMAIN q : q[e] \in S
          /\ u.ht[m] = NULL \/ Holds(u.name, u.ht[m], Pairs(k))
      <4>1. Twin(st, u, co, x, S)  BY <1>1
      <4>2. \A e \in DOMAIN q : q[e] \in S  BY <3>3
      <4> QED  BY <4>1, <4>2, <3>2, <3>3, <3>5 DEF Twin
    <3>8. h = l
      <4>1. l = 0 \/ l \in 1..l  OBVIOUS
      <4>2. l <= h  BY ONLY <4>1, <3>6, <3>7, l \in Nat, h \in Nat
      <4> QED  BY ONLY <4>2, <3>7, l \in Nat, h \in Nat
    <3>9. \A i \in DOMAIN k : /\ i \in DOMAIN q
                              /\ u.type[k[i]] = st.type[q[i]] /\ u.name[k[i]] = st.name[q[i]]
      BY <3>6, <3>7, <3>8, <1>2
    <3>10. /\ \A i \in DOMAIN q : st.type[q[i]] = "key" <=> i % 2 = 1
           /\ \A i, j \in DOMAIN q : i % 2 = 1 /\ j % 2 = 1 /\ st.name[q[i]] = st.name[q[j]] => i = j
           /\ l % 2 = 0
      BY <3>3, <3>4, <3>5 DEF Fine, Good, Alternates
    <3>11. Alternates(u.type, u.name, k)  BY <3>9, <3>10 DEF Alternates
    <3>12. Len(k) % 2 = 0  BY <3>5, <3>8, <3>10
    <3>13. Good(u.type, u.name, k, u.ht[m])  BY <3>7, <3>11, <3>12 DEF Good
    <3> QED  BY <3>3, <3>13 DEF Fine
  <2> QED  BY <2>2, <2>3
<1>5. \A m \in Node : u.type[m] = "key" => u.f.parent[m] # NULL
  <2> SUFFICES ASSUME NEW m \in Node, u.type[m] = "key" PROVE u.f.parent[m] # NULL
    OBVIOUS
  <2>1. CASE m \in Live(st)
    <3>1. st.type[m] = "key" /\ u.f.parent[m] = st.f.parent[m]  BY <2>1, <1>1 DEF Intact
    <3> QED  BY <3>1 DEF Sound
  <2>2. CASE m \notin Live(st)
    <3>1. m \in Live(u)  BY DEF Live
    <3>2. PICK x \in S : m = co[x]  BY <3>1, <2>2, <1>1
    <3>3. x # n  BY <3>2, <1>2
    <3> QED  BY <3>2, <3>3, <1>1
  <2> QED  BY <2>1, <2>2
<1>6. Sound(u)  BY <1>1, <1>4, <1>5 DEF Sound
<1> QED  BY <1>1, <1>3, <1>6 DEF Cloned

\* The copying loop after the nodes of S.
Copying == [s : State, copyOf : [Node -> Node \cup {NULL}], ok : BOOLEAN]

Underway(st, n, acc, S) ==
    /\ acc \in Copying
    /\ acc.ok => Copies(st, n, acc.s, acc.copyOf, S)
    /\ ~acc.ok => Intact(st, acc.s)

LEMMA CopyFirst ==
    ASSUME NEW st, Base(st), NEW n \in Live(st), NEW acc \in Copying, acc.s = st, acc.ok,
           NEW r, r = copy_node(st, n, acc, n), NEW S, S = {n}
    PROVE  Underway(st, n, r, S)
<1>1. PICK co : co = acc.copyOf  OBVIOUS
<1>2. acc = [s |-> st, copyOf |-> co, ok |-> TRUE] /\ co \in [Node -> Node \cup {NULL}]
  BY <1>1 DEF Copying
<1>3. PICK new, c, v : new = copy_shallow(st, n) /\ c = new.n /\ v = new.s  OBVIOUS
<1>4. /\ c = NULL => v = st
      /\ c # NULL => Sprouted(st, v, c, n)
  BY <1>3, ShallowCopy
<1>5. r = with_copy(acc, n, new, NULL)  BY <1>3 DEF copy_node
<1>6. CASE c = NULL
  <2>1. r = [acc EXCEPT !.ok = FALSE]  BY <1>3, <1>5, <1>6 DEF with_copy
  <2>2. r = [s |-> st, copyOf |-> co, ok |-> FALSE]  BY ONLY <1>2, <2>1
  <2>3. Intact(st, st)  BY DEF Intact
  <2> QED  BY <2>2, <2>3, <1>2 DEF Underway, Copying, Base
<1>7. CASE c # NULL
  <2>1. r = [acc EXCEPT !.s = v, !.copyOf[n] = c]  BY <1>3, <1>5, <1>7 DEF with_copy
  <2>2. PICK d : d = [co EXCEPT ![n] = c]  OBVIOUS
  <2>3. r = [s |-> v, copyOf |-> d, ok |-> TRUE]  BY ONLY <1>2, <2>1, <2>2
  <2>4. Sprouted(st, v, c, n)  BY <1>4, <1>7
  <2>5. Copies(st, n, v, d, S)  BY ONLY <2>2, <2>4, <1>2, Base(st), n \in Live(st), S = {n}, FirstCopy
  <2>6. v \in State /\ d \in [Node -> Node \cup {NULL}]
    BY <2>5 DEF Copies, Intact, Base
  <2> QED  BY <2>3, <2>5, <2>6 DEF Underway, Copying
<1> QED  BY <1>6, <1>7

LEMMA CopyNext ==
    ASSUME NEW st, Sound(st), NEW n, NEW acc, NEW S, Underway(st, n, acc, S),
           NEW o \in S, o \in Node, NEW q, q = st.f.kids[o], NEW e \in DOMAIN q,
           NEW x, x = q[e], x \notin S, x # n, LeftIn(q, e, S), st.f.parent[n] # x,
           NEW r, r = copy_node(st, n, acc, x), NEW T, T = S \cup {x}
    PROVE  Underway(st, n, r, T)
<1>1. CASE ~acc.ok
  <2>1. r = acc  BY <1>1 DEF copy_node
  <2> QED  BY <2>1, <1>1 DEF Underway
<1>2. CASE acc.ok
  <2>1. PICK u, co : u = acc.s /\ co = acc.copyOf  OBVIOUS
  <2>2. acc = [s |-> u, copyOf |-> co, ok |-> TRUE] /\ co \in [Node -> Node \cup {NULL}] /\ u \in State
    BY <1>2, <2>1 DEF Underway, Copying
  <2>3. Copies(st, n, u, co, S)  BY <1>2, <2>1 DEF Underway
  <2>4. Base(st) /\ Intact(st, u) /\ Base(u)  BY <2>3 DEF Sound, Copies, Intact
  <2>5. x \in Node /\ st.f.parent[x] = o /\ st.type[x] # "free"  BY <2>4, ChildrenOf
  <2>6. x \in Live(st) /\ x \in Live(u)
    <3>1. x \in Live(st)  BY <2>5 DEF Live
    <3>2. u.type[x] = st.type[x]  BY <2>4, <3>1 DEF Intact
    <3> QED  BY <2>5, <3>1, <3>2 DEF Live
  <2>7. PICK new, c, v : new = copy_shallow(u, x) /\ c = new.n /\ v = new.s  OBVIOUS
  <2>8. /\ c = NULL => v = u
        /\ c # NULL => Sprouted(u, v, c, x)
    BY ONLY <2>4, <2>6, <2>7, ShallowCopy
  <2>9. PICK p : p = co[o]  OBVIOUS
  <2>10. p \in Node /\ p # NULL
    <3>1. Twin(st, u, co, o, S)  BY <2>3 DEF Copies
    <3> QED  BY <3>1, <2>9, NodeAssumption DEF Twin
  <2>11. r = with_copy(acc, x, new, p)  BY <1>2, <2>1, <2>5, <2>7, <2>9 DEF copy_node
  <2>12. CASE c = NULL
    <3>1. r = [acc EXCEPT !.ok = FALSE]  BY <2>7, <2>11, <2>12 DEF with_copy
    <3>2. r = [s |-> u, copyOf |-> co, ok |-> FALSE]  BY ONLY <2>2, <3>1
    <3> QED  BY <3>2, <2>2, <2>4 DEF Underway, Copying
  <2>13. CASE c # NULL
    <3>1. Sprouted(u, v, c, x)  BY <2>8, <2>13
    <3>2. PICK t : t = try_attach(short, v.f, p, c)  OBVIOUS
    <3>3. PICK z, d : z = attached_copy(v, p, c, t) /\ d = [co EXCEPT ![x] = c]  OBVIOUS
    <3>4. r = [s |-> z, copyOf |-> d, ok |-> t.ret = NODE_ERR_SUCCESS]
      BY <2>1, <2>7, <2>10, <2>11, <2>13, <3>2, <3>3 DEF with_copy
    <3>5. d \in [Node -> Node \cup {NULL}]
      <4>1. c \in Node  BY <3>1 DEF Sprouted
      <4> QED  BY <4>1, <3>3, <2>2
    <3>6. CASE t.ret = NODE_ERR_SUCCESS
      <4>0. Due(st, co, S, o, q, e, x, p)  BY <2>9 DEF Due
      <4>1. Joined(v, z, p, c) /\ Len(v.f.kids[p]) = e - 1
        BY ONLY <4>0, <2>3, <3>1, <3>2, <3>3, <3>6, Sound(st), o \in S, NextTwin
      <4>2. Copies(st, n, z, d, T)
        BY ONLY <4>0, <4>1, <2>3, <3>1, <3>3, Sound(st), o \in S, st.f.parent[n] # x,
                T = S \cup {x}, NextCopy
      <4>3. z \in State  BY <4>2 DEF Copies, Intact, Base
      <4>4. r = [s |-> z, copyOf |-> d, ok |-> TRUE]  BY <3>4, <3>6
      <4> QED  BY ONLY <3>5, <4>2, <4>3, <4>4 DEF Underway, Copying
    <3>7. CASE t.ret # NODE_ERR_SUCCESS
      <4>1. c \in Node /\ Base(v)  BY <3>1 DEF Sprouted
      <4>2. PICK f : f = v.f  OBVIOUS
      <4>3. Attached(f, t, p, c)
        <5>1. ForestInv(f) /\ t = try_attach(short, f, p, c)  BY <3>2, <4>1, <4>2 DEF Base
        <5> QED  BY ONLY <5>1, <4>1, <2>10, AttachTried
      <4>4. t.f = v.f  BY <3>7, <4>2, <4>3 DEF Attached
      <4>5. z = [v EXCEPT !.f = v.f]  BY <3>3, <3>7, <4>4 DEF attached_copy
      <4>6. v = [type |-> v.type, name |-> v.name, f |-> v.f, ht |-> v.ht]  BY <4>1, Fields
      <4>7. z = v  BY ONLY <4>5, <4>6
      <4>8. Intact(st, v)
        <5>1. \A m \in Live(st) : m \in Node \ {c} /\ v.f = u.f
          <6>1. \A m \in Live(st) : m \in Node /\ u.type[m] # "free"  BY <2>4 DEF Intact, Live
          <6> QED  BY <6>1, <3>1 DEF Sprouted
        <5> QED  BY <5>1, <2>4, <3>1 DEF Intact, Sprouted
      <4>9. z \in State  BY <4>1, <4>7 DEF Base
      <4>10. r = [s |-> z, copyOf |-> d, ok |-> FALSE]  BY <3>4, <3>7
      <4> QED  BY ONLY <3>5, <4>7, <4>8, <4>9, <4>10 DEF Underway, Copying
    <3> QED  BY <3>6, <3>7
  <2> QED  BY <2>12, <2>13
<1> QED  BY <1>1, <1>2

\* One round of the copying loop.
LEMMA CopyRound ==
    ASSUME NEW st, Sound(st), NEW n \in Node, NEW q, Visits(st.f, n, q),
           NEW i \in DOMAIN q, i > 1, NEW acc, NEW S, S = First(q, i - 1), Underway(st, n, acc, S),
           NEW r, r = copy_node(st, n, acc, q[i]), NEW T, T = First(q, i)
    PROVE  Underway(st, n, r, T)
<1>1. /\ q \in Seq(Node) /\ q[1] = n /\ NoRepeat(q)
      /\ \A j \in DOMAIN q : q[j] \in Subtree(st.f, n)
      /\ Follows(st.f, q, i)
  BY DEF Visits
<1>2. PICK l \in Nat : DOMAIN q = 1..l /\ \A j \in 1..l : q[j] \in Node
  BY <1>1, LenProperties
<1>3. i \in 1..l /\ i \in Int  BY <1>2
<1>4. PICK h \in 1..(i - 1) : \E e \in DOMAIN st.f.kids[q[h]] :
         /\ q[i] = st.f.kids[q[h]][e]
         /\ \A g \in 1..(e - 1) : st.f.kids[q[h]][g] \in First(q, i - 1)
  BY <1>1 DEF Follows
<1>5. PICK e \in DOMAIN st.f.kids[q[h]] :
         /\ q[i] = st.f.kids[q[h]][e]
         /\ \A g \in 1..(e - 1) : st.f.kids[q[h]][g] \in First(q, i - 1)
  BY <1>4
<1>6. PICK o, k, x : o = q[h] /\ k = st.f.kids[o] /\ x = q[i]  OBVIOUS
<1>7. e \in DOMAIN k /\ x = k[e] /\ LeftIn(k, e, S)  BY <1>5, <1>6 DEF LeftIn
<1>8. o \in S /\ o \in Node
  <2>1. h \in 1..l /\ h <= i - 1  BY <1>3
  <2> QED  BY <2>1, <1>2, <1>6, FirstIs
<1>9. x \notin S
  <2> SUFFICES ASSUME x \in S PROVE FALSE  OBVIOUS
  <2>1. PICK g \in DOMAIN q : g <= i - 1 /\ q[g] = x  BY FirstIs
  <2>2. g = i  BY <2>1, <1>1, <1>6 DEF NoRepeat
  <2> QED  BY <2>1, <2>2, <1>3
<1>10. x # n
  <2>1. 1 \in DOMAIN q /\ i # 1  BY <1>2, <1>3
  <2> QED  BY <2>1, <1>1, <1>6 DEF NoRepeat
<1>11. st.f.parent[n] # x
  <2>1. ForestInv(st.f)  BY DEF Sound, Base
  <2>2. st.f.parent[n] \notin Subtree(st.f, n)  BY <2>1, SubtreeCut
  <2> QED  BY <2>2, <1>1, <1>6
<1>12. T = S \cup {x}
  <2>1. \A y : y \in T <=> y \in S \cup {x}
    <3> TAKE y
    <3>1. y \in T <=> \E g \in DOMAIN q : g <= i /\ q[g] = y  BY FirstIs
    <3>2. y \in S <=> \E g \in DOMAIN q : g <= i - 1 /\ q[g] = y  BY FirstIs
    <3>3. \A g \in 1..l : g <= i <=> (g <= i - 1 \/ g = i)  BY <1>3
    <3> QED  BY <3>1, <3>2, <3>3, <1>2, <1>6
  <2> QED  BY <2>1
<1>13. r = copy_node(st, n, acc, x)  BY <1>6
<1>14. k = st.f.kids[o]  BY <1>6
<1> QED  BY ONLY <1>7, <1>8, <1>9, <1>10, <1>11, <1>12, <1>13, <1>14, Sound(st),
                 Underway(st, n, acc, S), CopyNext

\* plist_copy gives a copy, or nothing and the state it found.
LEMMA CopySound ==
    ASSUME NEW st, Sound(st), NEW n \in Live(st), st.type[n] # "key",
           NEW r, r = plist_copy(st, n)
    PROVE  /\ r.n = NULL => r.s = st
           /\ r.n # NULL => Cloned(st, r.s, r.n, n)
<1>1. PICK q, done : q = TopDown(st.f, n) /\ done = copied(st, n, q)  OBVIOUS
<1>2. r = copy_result(st, n, done)  BY <1>1 DEF plist_copy
<1>3. n \in Node /\ Base(st) /\ ForestInv(st.f)  BY DEF Live, Sound, Base
<1>4. Visits(st.f, n, q)  BY <1>1, <1>3, TopDownVisits
<1>5. PICK l \in Nat : l = Len(q)  BY <1>4, LenProperties DEF Visits
<1>6. /\ q \in Seq(Node) /\ l >= 1 /\ q[1] = n /\ DOMAIN q = 1..l
      /\ \A j \in DOMAIN q : Spread(st.f, q, j)
  BY <1>4, <1>5, LenProperties DEF Visits
<1>7. PICK v : v = [s |-> st, copyOf |-> [m \in Node |-> NULL], ok |-> TRUE]  OBVIOUS
<1> DEFINE Solves(t) == t = [i \in 0..Len(q) |->
                               IF i = 0 THEN [s |-> st, copyOf |-> [m \in Node |-> NULL], ok |-> TRUE]
                               ELSE copy_node(st, n, t[i - 1], q[i])]
           u == CHOOSE t : Solves(t)
           W == [i \in 0..l |-> IF i = 0 THEN {v}
                                ELSE {x \in Copying : Underway(st, n, x, First(q, i))}]
           g == [i \in 1..l |-> [x \in Copying |-> copy_node(st, n, x, q[i])]]
<1>8. done = u[l]  BY <1>1, <1>5 DEF copied
<1>9. v \in Copying /\ v.s = st /\ v.ok
  <2>1. st \in State  BY <1>3 DEF Base
  <2> QED  BY <2>1, <1>7 DEF Copying
<1>10. 0 \in 0..l /\ l \in 0..l /\ l # 0 /\ \A i \in 1..l : i \in 0..l /\ i # 0  BY <1>6
<1>11. \A i \in 0..l : W[i] \subseteq Copying  BY <1>9
<1>12. \A i \in 1..l : \A x \in W[i - 1] : x \in Copying /\ copy_node(st, n, x, q[i]) \in W[i]
  <2> SUFFICES ASSUME NEW i \in 1..l, NEW x \in W[i - 1]
               PROVE  x \in Copying /\ copy_node(st, n, x, q[i]) \in W[i]
    OBVIOUS
  <2>1. PICK y, S : y = copy_node(st, n, x, q[i]) /\ S = First(q, i)  OBVIOUS
  <2>2. x \in Copying /\ Underway(st, n, y, S)
    <3>1. CASE i = 1
      <4>1. x = v /\ y = copy_node(st, n, x, n)  BY <3>1, <2>1, <1>6, <1>10
      <4>2. S = {n}
        <5>1. \A z : z \in S <=> z = n
          <6> TAKE z
          <6>1. z \in S <=> \E h \in DOMAIN q : h <= 1 /\ q[h] = z  BY <2>1, <3>1, FirstIs
          <6>2. \A h \in 1..l : h <= 1 <=> h = 1  OBVIOUS
          <6> QED  BY <6>1, <6>2, <1>6
        <5> QED  BY <5>1
      <4>3. Underway(st, n, y, S)
        BY ONLY <4>1, <4>2, <1>3, <1>9, n \in Live(st), CopyFirst
      <4> QED  BY <4>1, <4>3, <1>9
    <3>2. CASE i # 1
      <4>1. i - 1 \in 0..l /\ i - 1 # 0 /\ i > 1  BY <3>2
      <4>2. PICK R : R = First(q, i - 1)  OBVIOUS
      <4>3. x \in Copying /\ Underway(st, n, x, R)  BY <4>1, <4>2
      <4>4. i \in DOMAIN q  BY <1>6
      <4>5. Underway(st, n, y, S)
        BY ONLY <4>1, <4>2, <4>3, <4>4, <2>1, <1>3, <1>4, Sound(st), CopyRound
      <4> QED  BY <4>3, <4>5
    <3> QED  BY <3>1, <3>2
  <2>3. y \in Copying  BY <2>2 DEF Underway
  <2>4. W[i] = {z \in Copying : Underway(st, n, z, First(q, i))}  BY <1>10
  <2> QED  BY <2>1, <2>2, <2>3, <2>4
<1>13. W[l] = {x \in Copying : Underway(st, n, x, First(q, l))} /\ v \in W[0]  BY <1>10
<1>14. Solves(u) => u[0] = v /\ \A i \in 1..l : u[i] = copy_node(st, n, u[i - 1], q[i])
  <2> HIDE DEF u
  <2> QED  BY <1>5, <1>7, <1>10
<1>15. \A t : /\ t = [i \in 0..l |-> t[i]] /\ t[0] = v
              /\ \A i \in 1..l : t[i] = copy_node(st, n, t[i - 1], q[i])
              => Solves(t)
  <2> SUFFICES ASSUME NEW t, t = [i \in 0..l |-> t[i]], t[0] = v,
                      \A i \in 1..l : t[i] = copy_node(st, n, t[i - 1], q[i])
               PROVE  Solves(t)
    OBVIOUS
  <2>1. \A i \in 0..l : t[i] = IF i = 0 THEN v ELSE copy_node(st, n, t[i - 1], q[i])
    <3> TAKE i \in 0..l
    <3>1. i = 0 \/ i \in 1..l  OBVIOUS
    <3> QED  BY <3>1, <1>10
  <2>2. t = [i \in 0..l |-> IF i = 0 THEN v ELSE copy_node(st, n, t[i - 1], q[i])]  BY <2>1
  <2> QED  BY <2>2, <1>5, <1>7
<1> HIDE DEF Solves, W
<1>16. (\E t : Solves(t)) => Solves(u)  OBVIOUS
<1> HIDE DEF u
<1>17. \E t : Solves(t)
  <2>1. \A i \in 1..l : \A x \in W[i - 1] : g[i][x] \in W[i]  BY <1>12
  <2> HIDE DEF g
  <2>2. Rounds(l, Copying, g, W)  BY <2>1, <1>11 DEF Rounds
  <2>3. Loops(l, Copying, v, g, W)  BY ONLY <2>2, l \in Nat, <1>13, LoopExists
  <2>4. PICK t \in [0..l -> Copying] :
           /\ t[0] = v
           /\ \A i \in 1..l : t[i] = g[i][t[i - 1]]
           /\ \A i \in 0..l : t[i] \in W[i]
    BY <2>3 DEF Loops
  <2>5. \A i \in 1..l : t[i] = copy_node(st, n, t[i - 1], q[i])
    <3> TAKE i \in 1..l
    <3>1. i - 1 \in 0..l  OBVIOUS
    <3>2. t[i - 1] \in Copying  BY <3>1, <2>4
    <3> QED  BY <3>2, <2>4 DEF g
  <2>6. t = [i \in 0..l |-> t[i]]  BY <2>4
  <2> QED  BY <2>4, <2>5, <2>6, <1>15
<1>18. done \in W[l]
  <2>1. u[0] \in W[0] /\ \A i \in 1..l : u[i - 1] \in W[i - 1] => u[i] \in W[i]
    BY <1>12, <1>13, <1>14, <1>16, <1>17
  <2>2. \A i \in 0..l : u[i] \in W[i]  BY <2>1, LoopInvariant
  <2> QED  BY <2>2, <1>8, <1>10
<1>19. PICK S : S = First(q, l)  OBVIOUS
<1>20. Underway(st, n, done, S)  BY <1>13, <1>18, <1>19
<1>21. CASE done.ok
  <2>1. PICK w, co : w = done.s /\ co = done.copyOf  OBVIOUS
  <2>2. Copies(st, n, w, co, S)  BY <2>1, <1>20, <1>21 DEF Underway
  <2>3. \A x \in S : \A e \in DOMAIN st.f.kids[x] : st.f.kids[x][e] \in S
    <3> TAKE x \in S
    <3>1. PICK j \in DOMAIN q : q[j] = x  BY <1>19, FirstIs
    <3>2. Spread(st.f, q, j)  BY <1>6
    <3>3. \A y \in ToSet(q) : y \in S
      <4> TAKE y \in ToSet(q)
      <4>1. PICK h \in DOMAIN q : q[h] = y  BY DEF ToSet
      <4>2. h <= l  BY <1>6
      <4> QED  BY <4>1, <4>2, <1>19, FirstIs
    <3> QED  BY <3>1, <3>2, <3>3 DEF Spread
  <2>4. Cloned(st, w, co[n], n)  BY <2>2, <2>3, AllCopied
  <2>5. r = [s |-> w, n |-> co[n]]  BY <2>1, <1>2, <1>21 DEF copy_result
  <2>6. r.n # NULL  BY <2>4, <2>5, NodeAssumption DEF Cloned, Roots, Live
  <2> QED  BY <2>4, <2>5, <2>6
<1>22. CASE ~done.ok
  <2>1. PICK w : w = done.s  OBVIOUS
  <2>2. Intact(st, w)  BY <2>1, <1>20, <1>22 DEF Underway
  <2>3. freed(w, Live(w) \ Live(st)) = st  BY <2>2, <1>3, UndoCopy
  <2>4. r = [s |-> freed(w, Live(w) \ Live(st)), n |-> NULL]  BY <2>1, <1>2, <1>22 DEF copy_result
  <2> QED  BY <2>3, <2>4
<1> QED  BY <1>21, <1>22

-----------------------------------------------------------------------------
(***************************************************************************)
(* plist_dict_merge and plist_dict_copy_item                               *)
(***************************************************************************)
LEMMA NextSibling ==
    ASSUME NEW st, Base(st), NEW d \in Node, NEW q, q = st.f.kids[d], NEW i \in DOMAIN q
    PROVE  /\ i < Len(q) => i + 1 \in DOMAIN q /\ next_sibling(st.f, q[i]) = q[i + 1]
           /\ ~(i < Len(q)) => next_sibling(st.f, q[i]) = NULL
<1>1. PICK f, n : f = st.f /\ n = q[i]  OBVIOUS
<1>2. ForestInv(f) /\ q = f.kids[d]  BY <1>1 DEF Base
<1>3. i \in 1..Len(q) /\ Len(q) \in Nat /\ DOMAIN q = 1..Len(q)  BY ChildrenOf
<1>4. node_child_position(f, d, n) = i - 1 /\ f.parent[n] = d
  <2>1. i \in DOMAIN f.kids[d] /\ f.kids[d][i] = n  BY <1>1
  <2> QED  BY ONLY <2>1, <1>2, d \in Node, Position
<1>5. d # NULL /\ (i - 1) + 1 = i  BY <1>3, NodeAssumption
<1>6. next_sibling(f, n) = IF i < Len(q) THEN q[i + 1] ELSE NULL
  BY <1>2, <1>4, <1>5 DEF next_sibling, node_nth_child
<1>7. i < Len(q) => i + 1 \in DOMAIN q  BY <1>3
<1> QED  BY <1>1, <1>6, <1>7

\* What merging source into target has left of st in the state a: the nodes in K,
\* as they were. The others were in values of target that source has a key for, and
\* those are the keys of target whose answers may have changed.
Merged(st, a, target, source, K) ==
    /\ K \subseteq Live(st) \cap Live(a) /\ {target, source} \subseteq K
    /\ \A m \in K : /\ a.type[m] = st.type[m] /\ a.name[m] = st.name[m]
                    /\ a.f.parent[m] = st.f.parent[m] /\ st.f.parent[m] \in K \cup {NULL}
                    /\ m # target => a.f.kids[m] = st.f.kids[m]
    /\ \A m \in Node : st.f.parent[m] \in K \ {target} => m \in K
    /\ \A m \in Live(st) \ K : \E j \in Key :
          /\ m \in Subtree(st.f, plist_dict_get_item(st, target, j))
          /\ plist_dict_get_item(st, source, j) # NULL
    /\ \A j \in Key :
          \/ plist_dict_get_item(a, target, j) = plist_dict_get_item(st, target, j)
          \/ /\ plist_dict_get_item(a, target, j) \notin K \cup {NULL}
             /\ plist_dict_get_item(st, source, j) # NULL

\* The next value of source that is to be merged into target.
Merging(st, target, source, acc) ==
    /\ acc \in [s : State, cur : Node \cup {NULL}]
    /\ Sound(acc.s) /\ {target, source} \subseteq Dicts(acc.s)
    /\ source = target \/ target \notin Ancestors(acc.s.f, source)
    /\ acc.cur = NULL \/ \E i \in DOMAIN acc.s.f.kids[source] :
                            i % 2 = 1 /\ acc.cur = acc.s.f.kids[source][i]
    /\ \E K : Merged(st, acc.s, target, source, K)

\* The merge has ended at a state w: a value of target is lost.
Stopped(st, target, source, acc) ==
    /\ acc \in [s : State, cur : Node \cup {NULL}]
    /\ \E w, K : /\ Sound(w) /\ Merged(st, w, target, source, K)
                 /\ Cracks(w, acc.s, target)

\* The parent of a node in use is in use.
LEMMA LiveParent ==
    ASSUME NEW st, Base(st), NEW m \in Node, st.f.parent[m] # NULL
    PROVE  st.f.parent[m] \in Live(st)
<1>1. PICK p : p = st.f.parent[m]  OBVIOUS
<1>2. p \in Node  BY <1>1, Fields
<1>3. \E i \in DOMAIN st.f.kids[p] : st.f.kids[p][i] = m
  <2>1. Linked(st.f)  BY DEF Base, ForestInv
  <2>2. m \in Children(st.f, p)  BY ONLY <2>1, <1>1, <1>2, m \in Node DEF Linked
  <2> QED  BY ONLY <2>2 DEF Children
<1>4. st.f.kids[p] # <<>>
  <2>1. DOMAIN <<>> = {}  OBVIOUS
  <2> QED  BY <2>1, <1>3
<1>5. st.type[p] = "dict"  BY <1>2, <1>4 DEF Base
<1> QED  BY <1>1, <1>2, <1>5 DEF Live

LEMMA MergedStart ==
    ASSUME NEW st, Sound(st), NEW target \in Dicts(st), NEW source \in Dicts(st)
    PROVE  Merged(st, st, target, source, Live(st))
<1>1. Base(st)  BY DEF Sound
<1>2. \A m \in Live(st) : m \in Node /\ st.f.parent[m] \in Live(st) \cup {NULL}
  BY <1>1, LiveParent DEF Live
<1>3. \A m \in Node : st.f.parent[m] \in Live(st) => m \in Live(st)
  <2>1. NULL \notin Live(st)  BY NodeAssumption DEF Live
  <2> QED  BY <2>1, <1>1 DEF Base, Live
<1>4. {target, source} \subseteq Live(st)  BY DEF Dicts, Live
<1> QED  BY <1>2, <1>3, <1>4 DEF Merged

\* A key that source has now it had at the start.
LEMMA MergedKeys ==
    ASSUME NEW st, Sound(st), NEW a, Sound(a), NEW target, NEW source \in Dicts(st), source \in Dicts(a),
           NEW K, Merged(st, a, target, source, K),
           NEW k \in Key, plist_dict_get_item(a, source, k) # NULL
    PROVE  plist_dict_get_item(st, source, k) # NULL
<1>1. CASE source = target  BY <1>1 DEF Merged
<1>2. CASE source # target
  <2>1. source \in K \ {target}  BY <1>2 DEF Merged
  <2>2. a.f.kids[source] = st.f.kids[source]  BY <2>1 DEF Merged
  <2>3. \A c \in Node : st.f.parent[c] = source => a.name[c] = st.name[c]  BY <2>1 DEF Merged
  <2>4. plist_dict_get_item(a, source, k) = plist_dict_get_item(st, source, k)
    BY <2>2, <2>3, KeptAnswers
  <2> QED  BY <2>4
<1> QED  BY <1>1, <1>2

\* One pair more is merged: a copy is made, and set under the key k.
LEMMA MergedStep ==
    ASSUME NEW st, Sound(st), NEW target \in Dicts(st), NEW source \in Dicts(st),
           source = target \/ target \notin Ancestors(st.f, source),
           NEW a, Sound(a), target \in Dicts(a), NEW K, Merged(st, a, target, source, K),
           NEW k \in Key, plist_dict_get_item(st, source, k) # NULL,
           NEW b, Sound(b), Intact(a, b), NEW item, item = NULL \/ a.type[item] = "free",
           NEW u, NEW T, Sets(b, u, target, k, item, T)
    PROVE  Merged(st, u, target, source, K \ T)
<1>1. /\ \A m \in Live(a) : /\ m \in Live(b) /\ m # item /\ m \in Node
                            /\ b.type[m] = a.type[m] /\ b.name[m] = a.name[m]
                            /\ b.f.parent[m] = a.f.parent[m] /\ b.f.kids[m] = a.f.kids[m]
      /\ Base(b) /\ Base(st)
  BY NodeAssumption DEF Intact, Live, Sound
<1>2. /\ K \subseteq Live(st) /\ K \subseteq Live(a) /\ target \in K /\ source \in K
      /\ \A m \in K : /\ a.type[m] = st.type[m] /\ a.name[m] = st.name[m]
                      /\ a.f.parent[m] = st.f.parent[m] /\ st.f.parent[m] \in K \cup {NULL}
                      /\ m # target => a.f.kids[m] = st.f.kids[m]
      /\ \A m \in Node : st.f.parent[m] \in K \ {target} => m \in K
  BY DEF Merged
<1>3. /\ T \subseteq Node /\ target \notin T
      /\ \A m \in Live(b) \ T :
            /\ u.type[m] = b.type[m] /\ u.name[m] = b.name[m]
            /\ m # item => u.f.parent[m] = b.f.parent[m]
            /\ m # target => u.f.kids[m] = b.f.kids[m]
  BY DEF Sets
<1>4. target \in Dicts(b) /\ target \in Node  BY <1>1 DEF Dicts, Live
<1>5. \A j \in Key : plist_dict_get_item(b, target, j) = plist_dict_get_item(a, target, j)
  BY <1>4, IntactAnswers DEF AnswersSame
<1>6. PICK f, g, r : f = st.f /\ g = b.f /\ r = plist_dict_get_item(b, target, k)  OBVIOUS
<1>7. T # {} => /\ r \in Node /\ T = Subtree(g, r) /\ r \in T /\ g.parent[r] = target
                /\ \A m \in Node : m # r => (m \in T <=> g.parent[m] \in T)
  <2> SUFFICES ASSUME T # {}
               PROVE  /\ r \in Node /\ T = Subtree(g, r) /\ r \in T /\ g.parent[r] = target
                      /\ \A m \in Node : m # r => (m \in T <=> g.parent[m] \in T)
    OBVIOUS
  <2>1. r \in Node /\ T = Subtree(g, r)  BY <1>6 DEF Sets
  <2>2. ForestInv(g)  BY <1>1, <1>6 DEF Base
  <2>3. r \in T /\ \A m \in Node : m # r => (m \in T <=> g.parent[m] \in T)
    BY <2>1, <2>2, SubtreeCut
  <2>4. g.parent[r] = target
    <3>1. PICK P : P = Pairs(b.f.kids[target])  OBVIOUS
    <3>2. Fine(b, target) /\ r # NULL  BY <2>1, <1>4, NodeAssumption DEF Sound
    <3>3. b.f.parent[r] = target  BY <3>1, <3>2, <1>1, <1>4, <1>6, Answer
    <3> QED  BY <3>3, <1>6
  <2> QED  BY <2>1, <2>3, <2>4
<1>8. \A m \in K : m \in Node /\ g.parent[m] = f.parent[m] /\ f.parent[m] \in K \cup {NULL}
  BY <1>1, <1>2, <1>6
<1>9. \A m \in K : Ancestors(g, m) \subseteq Ancestors(f, m) \cap K
  <2> TAKE m \in K
  <2>1. PICK S : S = Ancestors(f, m) \cap K  OBVIOUS
  <2>2. m \in Node  BY <1>8
  <2>3. /\ m \in Ancestors(f, m) /\ Ancestors(f, m) \subseteq Node
        /\ \A w \in Ancestors(f, m) : f.parent[w] \in Node => f.parent[w] \in Ancestors(f, m)
    BY ONLY <2>2, AncestorsClosed
  <2>4. \A w \in S : g.parent[w] \in S \cup {NULL}
    <3> TAKE w \in S
    <3>1. w \in K /\ w \in Ancestors(f, m)  BY <2>1
    <3>2. g.parent[w] = f.parent[w] /\ f.parent[w] \in K \cup {NULL}  BY <3>1, <1>8
    <3>3. f.parent[w] = NULL \/ f.parent[w] \in Ancestors(f, m)  BY <3>1, <3>2, <2>3, <1>8
    <3> QED  BY <3>2, <3>3, <2>1
  <2>5. S \in SUBSET Node /\ m \in S  BY <2>1, <2>3
  <2>6. Ancestors(g, m) \subseteq S  BY ONLY <2>2, <2>4, <2>5, AncestorsMinimal
  <2> QED  BY <2>1, <2>6
<1>10. \A m \in K \cap T : /\ r \in Ancestors(g, m)
                           /\ m \in Subtree(f, plist_dict_get_item(st, target, k))
  <2> TAKE m \in K \cap T
  <2>1. r \in Ancestors(g, m)  BY <1>7 DEF Subtree
  <2>2. r \in K /\ r \in Ancestors(f, m) /\ m \in Node  BY <2>1, <1>8, <1>9
  <2>3. r = plist_dict_get_item(a, target, k)  BY <1>5, <1>6
  <2>4. r = plist_dict_get_item(st, target, k)  BY <2>2, <2>3 DEF Merged
  <2> QED  BY <2>1, <2>2, <2>4 DEF Subtree
<1>11. source \notin T
  <2> SUFFICES ASSUME source \in T PROVE FALSE  OBVIOUS
  <2>1. r \in Ancestors(g, source) /\ g.parent[r] = target /\ source \in Node
    BY <1>2, <1>7, <1>8, <1>10
  <2>2. target \in Ancestors(g, source)
    BY ONLY <2>1, <1>4, AncestorsClosed
  <2>3. target \in Ancestors(f, source)  BY <2>2, <1>2, <1>9
  <2> QED  BY <2>3, <1>3, <1>6
<1>12. \A m \in K \ T : /\ m \in Live(st) /\ m \in Live(u)
                        /\ u.type[m] = st.type[m] /\ u.name[m] = st.name[m]
                        /\ u.f.parent[m] = st.f.parent[m]
                        /\ m # target => u.f.kids[m] = st.f.kids[m]
  <2> TAKE m \in K \ T
  <2>1. m \in Live(st) /\ m \in Live(a) /\ m \in Live(b) \ T /\ m # item /\ m \in Node
    BY <1>1, <1>2
  <2>2. /\ u.type[m] = st.type[m] /\ u.name[m] = st.name[m]
        /\ u.f.parent[m] = st.f.parent[m]
        /\ m # target => u.f.kids[m] = st.f.kids[m]
    BY <2>1, <1>1, <1>2, <1>3
  <2>3. m \in Live(u)  BY <2>1, <2>2 DEF Live
  <2> QED  BY <2>1, <2>2, <2>3
<1>13. \A m \in K \ T : st.f.parent[m] \in (K \ T) \cup {NULL}
  <2> SUFFICES ASSUME NEW m \in K \ T, st.f.parent[m] \in T PROVE FALSE
    BY <1>2
  <2>1. g.parent[m] \in T  BY <1>6, <1>8
  <2> QED  BY <2>1, <1>7, <1>8
<1>14. \A m \in Node : st.f.parent[m] \in (K \ T) \ {target} => m \in K \ T
  <2> SUFFICES ASSUME NEW m \in Node, st.f.parent[m] \in (K \ T) \ {target}, m \in T PROVE FALSE
    BY <1>2
  <2>1. m \in K  BY <1>2
  <2>2. g.parent[m] \notin T /\ g.parent[m] # target  BY <2>1, <1>6, <1>8
  <2> QED  BY <2>2, <1>7
<1>15. \A m \in Live(st) \ (K \ T) : \E j \in Key :
          /\ m \in Subtree(st.f, plist_dict_get_item(st, target, j))
          /\ plist_dict_get_item(st, source, j) # NULL
  <2> TAKE m \in Live(st) \ (K \ T)
  <2>1. CASE m \in K  BY <2>1, <1>6, <1>10
  <2>2. CASE m \notin K  BY <2>2 DEF Merged
  <2> QED  BY <2>1, <2>2
<1>16. \A j \in Key :
          \/ plist_dict_get_item(u, target, j) = plist_dict_get_item(st, target, j)
          \/ /\ plist_dict_get_item(u, target, j) \notin (K \ T) \cup {NULL}
             /\ plist_dict_get_item(st, source, j) # NULL
  <2> TAKE j \in Key
  <2>1. CASE plist_dict_get_item(u, target, j) = plist_dict_get_item(b, target, j)
    <3>1. plist_dict_get_item(u, target, j) = plist_dict_get_item(a, target, j)  BY <2>1, <1>5
    <3> QED  BY <3>1 DEF Merged
  <2>2. CASE j = k /\ item \in Roots(b) /\ plist_dict_get_item(u, target, j) = item
    <3>1. item # NULL  BY <2>2, NodeAssumption DEF Roots, Live
    <3>2. item \notin K  BY <1>1, <1>2
    <3> QED  BY <2>2, <3>1, <3>2
  <2> QED  BY <2>1, <2>2 DEF Sets
<1>17. K \ T \subseteq Live(st) \cap Live(u) /\ {target, source} \subseteq K \ T
  BY <1>2, <1>3, <1>11, <1>12
<1> QED  BY <1>12, <1>13, <1>14, <1>15, <1>16, <1>17 DEF Merged

\* Which answers differ after the merge.
MergeOnly(st, u, target, source) ==
    \A m \in Dicts(st) \cap Dicts(u), j \in Key :
       plist_dict_get_item(u, m, j) # plist_dict_get_item(st, m, j) =>
          \/ /\ m = target /\ plist_dict_get_item(u, m, j) # NULL
             /\ plist_dict_get_item(st, source, j) # NULL
          \/ \E i \in Key : /\ m \in Subtree(st.f, plist_dict_get_item(st, target, i))
                            /\ plist_dict_get_item(st, source, i) # NULL

LEMMA MergedOnly ==
    ASSUME NEW st, Sound(st), NEW u, Sound(u), NEW target, NEW source,
           NEW K, Merged(st, u, target, source, K)
    PROVE  MergeOnly(st, u, target, source)
<1> SUFFICES ASSUME NEW m \in Dicts(st), m \in Dicts(u), NEW j \in Key,
                    plist_dict_get_item(u, m, j) # plist_dict_get_item(st, m, j)
             PROVE  \/ /\ m = target /\ plist_dict_get_item(u, m, j) # NULL
                       /\ plist_dict_get_item(st, source, j) # NULL
                    \/ \E i \in Key : /\ m \in Subtree(st.f, plist_dict_get_item(st, target, i))
                                      /\ plist_dict_get_item(st, source, i) # NULL
  BY DEF MergeOnly
<1>1. CASE m = target  BY <1>1 DEF Merged
<1>2. CASE m \notin K
  <2>1. m \in Live(st) \ K  BY <1>2 DEF Dicts, Live
  <2> QED  BY <2>1 DEF Merged
<1>3. CASE m \in K \ {target}
  <2>1. u.f.kids[m] = st.f.kids[m]  BY <1>3 DEF Merged
  <2>2. \A c \in Node : st.f.parent[c] = m => u.name[c] = st.name[c]  BY <1>3 DEF Merged
  <2>3. plist_dict_get_item(u, m, j) = plist_dict_get_item(st, m, j)  BY <2>1, <2>2, KeptAnswers
  <2> QED  BY <2>3
<1> QED  BY <1>1, <1>2, <1>3

\* After a copy and a call that sets it in target, source is where it was.
LEMMA SourceStays ==
    ASSUME NEW a, Base(a), NEW b, Intact(a, b), NEW item, item = NULL \/ a.type[item] = "free",
           NEW target \in Dicts(a), NEW source \in Dicts(a),
           source = target \/ target \notin Ancestors(a.f, source),
           NEW u, Sound(u), Keeps(b, u, target, item)
    PROVE  /\ {target, source} \subseteq Dicts(u)
           /\ source = target \/ target \notin Ancestors(u.f, source)
           /\ \A i \in DOMAIN a.f.kids[source] : i % 2 = 1 =>
                 i \in DOMAIN u.f.kids[source] /\ u.f.kids[source][i] = a.f.kids[source][i]
<1>1. /\ Base(b)
      /\ \A m \in Live(a) :
            /\ b.type[m] = a.type[m]
            /\ b.f.parent[m] = a.f.parent[m] /\ b.f.kids[m] = a.f.kids[m]
  BY DEF Intact
<1>2. target \in Node /\ source \in Node /\ target \in Live(a) /\ source \in Live(a)
      /\ a.type[target] = "dict" /\ a.type[source] = "dict"
  BY DEF Dicts, Live
<1>3. \A m \in Live(a) : m \in Node /\ m \in Live(b) /\ m # item
  <2>1. NULL \notin Node  BY NodeAssumption
  <2> QED  BY <2>1, <1>1 DEF Live
<1>4. /\ \A m \in Live(b) : m = target \/ m \notin Subtree(b.f, target) =>
            /\ u.type[m] = b.type[m]
            /\ m # item => u.f.parent[m] = b.f.parent[m]
            /\ m # target => u.f.kids[m] = b.f.kids[m]
      /\ \A i \in DOMAIN b.f.kids[target] : i % 2 = 1 =>
            i \in DOMAIN u.f.kids[target] /\ u.f.kids[target][i] = b.f.kids[target][i]
  BY DEF Keeps
<1>5. target \in Dicts(u)  BY <1>1, <1>2, <1>3, <1>4 DEF Dicts
<1>6. CASE source = target  BY <1>1, <1>2, <1>4, <1>5, <1>6
<1>7. CASE source # target
  <2>1. PICK f : f = a.f  OBVIOUS
  <2>2. PICK A : A = Ancestors(f, source) \cap Live(a)  OBVIOUS
  <2>3. target \notin A  BY <2>1, <2>2, <1>7
  <2>4. A \in SUBSET Node /\ A \subseteq Live(a)  BY <2>2, <1>3
  <2>5. source \in A /\ \A m \in A : f.parent[m] \in A \cup {NULL}
    <3>1. source \in Ancestors(f, source)
          /\ \A m \in Ancestors(f, source) : f.parent[m] \in Node => f.parent[m] \in Ancestors(f, source)
      BY <1>2, AncestorsClosed
    <3>2. \A m \in A : f.parent[m] = NULL \/ f.parent[m] \in Live(a)  BY <2>1, <2>4, LiveParent
    <3>3. \A m \in A : f.parent[m] = NULL \/ f.parent[m] \in A
      BY <3>1, <3>2, <2>2, <1>3
    <3> QED  BY <3>1, <3>3, <2>2, <1>2
  <2>6. \A m \in A : target \notin Ancestors(b.f, m)
    <3> SUFFICES ASSUME NEW m \in A PROVE target \notin Ancestors(b.f, m)
      OBVIOUS
    <3>1. PICK g : g = b.f  OBVIOUS
    <3>2. \A w \in A : g.parent[w] \in A \cup {NULL}  BY <3>1, <2>1, <2>4, <2>5, <1>1
    <3>3. m \in Node  BY <2>4
    <3>4. Ancestors(g, m) \subseteq A  BY ONLY <3>2, <3>3, <2>4, m \in A, AncestorsMinimal
    <3> QED  BY <3>1, <3>4, <2>3
  <2>7. \A m \in A : /\ u.type[m] = a.type[m] /\ u.f.parent[m] = f.parent[m]
                     /\ u.f.kids[m] = f.kids[m]
    <3> TAKE m \in A
    <3>1. m \in Live(a) /\ m \in Live(b) /\ m # item /\ m # target  BY <2>3, <2>4, <1>3
    <3>2. m \notin Subtree(b.f, target)  BY <2>6 DEF Subtree
    <3> QED  BY <3>1, <3>2, <2>1, <1>1, <1>4
  <2>8. target \notin Ancestors(u.f, source)
    <3>1. PICK g : g = u.f  OBVIOUS
    <3>2. \A w \in A : g.parent[w] \in A \cup {NULL}  BY <3>1, <2>5, <2>7
    <3>3. Ancestors(g, source) \subseteq A  BY ONLY <3>2, <2>4, <2>5, <1>2, AncestorsMinimal
    <3> QED  BY <3>1, <3>3, <2>3
  <2>9. source \in Dicts(u)  BY <2>5, <2>7, <1>2 DEF Dicts
  <2>10. u.f.kids[source] = a.f.kids[source]  BY <2>1, <2>5, <2>7
  <2> QED  BY <2>8, <2>9, <2>10, <1>5
<1> QED  BY <1>6, <1>7

\* The copy that plist_copy made, or that it made none.
LEMMA CopiedItem ==
    ASSUME NEW st, Sound(st), NEW n \in Live(st), st.type[n] # "key",
           NEW b, b = plist_copy(st, n).s, NEW item, item = plist_copy(st, n).n
    PROVE  /\ Sound(b) /\ Intact(st, b)
           /\ item \in Roots(b) \cup {NULL}
           /\ item = NULL \/ st.type[item] = "free"
<1>1. PICK r : r = plist_copy(st, n)  OBVIOUS
<1>2. /\ r.n = NULL => r.s = st
      /\ r.n # NULL => Cloned(st, r.s, r.n, n)
  BY <1>1, CopySound
<1>3. b = r.s /\ item = r.n  BY <1>1
<1>4. Intact(st, st)  BY IntactSame DEF Sound
<1> QED  BY <1>2, <1>3, <1>4 DEF Cloned

LEMMA MergeRound ==
    ASSUME NEW st, Sound(st), NEW target \in Dicts(st), NEW source \in Dicts(st),
           source = target \/ target \notin Ancestors(st.f, source),
           NEW acc, Merging(st, target, source, acc),
           NEW r, r = merge_step(acc, target)
    PROVE  Merging(st, target, source, r) \/ Stopped(st, target, source, r)
<1>1. PICK a, cur : a = acc.s /\ cur = acc.cur  OBVIOUS
<1>2. PICK v : v = next_sibling(a.f, cur)  OBVIOUS
<1>5. Sound(a) /\ target \notin Halved(a)
  <2>1. Sound(a)  BY <1>1 DEF Merging
  <2>2. Halved(a) = {}  BY ONLY <2>1, SoundWhole
  <2> QED  BY <2>1, <2>2
<1>3. CASE cur = NULL
  <2>1. r = acc  BY <1>1, <1>3 DEF merge_step
  <2> QED  BY <2>1
<1>4. CASE cur # NULL
  <2>1. /\ Sound(a) /\ Base(a) /\ target \in Dicts(a) /\ source \in Dicts(a) /\ source \in Node
        /\ source = target \/ target \notin Ancestors(a.f, source)
    BY <1>1 DEF Merging, Sound, Dicts
  <2>2. PICK q : q = a.f.kids[source]  OBVIOUS
  <2>3. PICK i \in DOMAIN q : i % 2 = 1 /\ cur = q[i]  BY <1>1, <1>4, <2>2 DEF Merging
  <2>4. /\ DOMAIN q = 1..Len(q) /\ Len(q) \in Nat
        /\ \A j \in DOMAIN q : q[j] \in Node /\ a.type[q[j]] # "free"
    BY <2>1, <2>2, ChildrenOf
  <2>5. /\ \A j \in DOMAIN q : a.type[q[j]] = "key" <=> j % 2 = 1
        /\ Len(q) % 2 = 0
    BY <2>1, <2>2 DEF Sound, Fine, Good, Alternates
  <2>6. i < Len(q) /\ (i + 1) % 2 = 0
    <3>1. PICK l \in Nat : l = Len(q)  BY <2>4
    <3>2. i \in 1..l /\ l % 2 = 0 /\ i % 2 = 1  BY <3>1, <2>3, <2>4, <2>5
    <3>3. i # l  BY <3>2
    <3> QED  BY <3>1, <3>2, <3>3
  <2>7. i + 1 \in DOMAIN q /\ v = q[i + 1]
    BY <2>1, <2>2, <2>3, <2>6, <1>2, NextSibling
  <2>8. v \in Live(a) /\ a.type[v] # "key"
    <3>1. (i + 1) % 2 # 1  BY <2>6
    <3> QED  BY <3>1, <2>4, <2>5, <2>7 DEF Live
  <2>9. PICK k : k = a.name[cur]  OBVIOUS
  <2>10. k \in Key
    <3>1. cur \in Node /\ a.type[cur] = "key"  BY <2>3, <2>4, <2>5
    <3> QED  BY <3>1, <2>1, <2>9 DEF Base
  <2>11. PICK c, b, item : c = plist_copy(a, v) /\ b = c.s /\ item = c.n  OBVIOUS
  <2>12. /\ Sound(b) /\ Intact(a, b)
         /\ item \in Roots(b) \cup {NULL}
         /\ item = NULL \/ a.type[item] = "free"
    <3>1. b = plist_copy(a, v).s /\ item = plist_copy(a, v).n  BY <2>11
    <3> QED  BY ONLY <3>1, <2>1, <2>8, CopiedItem
  <2>13. PICK u, next : u = plist_dict_set_item(b, target, k, item) /\ next = next_sibling(a.f, v)
    OBVIOUS
  <2>14. r = [s |-> u, cur |-> next]
    BY <1>1, <1>2, <1>4, <1>5, <2>9, <2>11, <2>13 DEF merge_step, merge_pair
  <2>20. target \in Dicts(b)  BY <2>1, <2>12 DEF Intact, Dicts, Live
  <2>21. \/ Sound(u) /\ Keeps(b, u, target, item) /\ \E T : Sets(b, u, target, k, item, T)
         \/ Cracks(b, u, target)
    BY ONLY <2>20, <2>10, <2>12, <2>13, SetItemSound
  <2>22. plist_dict_get_item(a, source, k) # NULL
    <3>1. \/ \A j \in DOMAIN q : j % 2 = 1 => a.name[q[j]] # k
          \/ plist_dict_get_item(a, source, k) \in Node
      BY <2>1, <2>2, <2>10, GetItem DEF Sound
    <3> QED  BY <3>1, <2>3, <2>9, NodeAssumption
  <2>23. ASSUME NEW K, Merged(st, a, target, source, K), NEW x, NEW T,
                Sets(b, x, target, k, item, T)
         PROVE  Merged(st, x, target, source, K \ T)
    <3>1. plist_dict_get_item(st, source, k) # NULL
      BY <2>23, <2>22, <2>1, <2>10, MergedKeys
    <3> QED
      BY ONLY <2>23, <3>1, <2>1, <2>10, <2>12, Sound(st), target \in Dicts(st), source \in Dicts(st),
              source = target \/ target \notin Ancestors(st.f, source), MergedStep
  <2>24. next \in Node \cup {NULL}
    <3>1. PICK h : h = i + 1  OBVIOUS
    <3>2. /\ source \in Node /\ Base(a) /\ q = a.f.kids[source] /\ h \in DOMAIN q
          /\ next = next_sibling(a.f, q[h])
      BY <3>1, <2>1, <2>2, <2>7, <2>13
    <3>3. CASE h < Len(q)
      <4>1. h + 1 \in DOMAIN q /\ next = q[h + 1]  BY ONLY <3>2, <3>3, NextSibling
      <4> QED  BY <4>1, <2>4
    <3>4. CASE ~(h < Len(q))
      <4>1. source \in Node /\ Base(a) /\ q = a.f.kids[source] /\ h \in DOMAIN q  BY <3>2
      <4>2. next_sibling(a.f, q[h]) = NULL  BY ONLY <3>4, <4>1, NextSibling
      <4> QED  BY <3>2, <4>2
    <3> QED  BY <3>3, <3>4
  <2>25. ASSUME Cracks(b, u, target) PROVE Stopped(st, target, source, r)
    <3>1. PICK K : Merged(st, a, target, source, K)  BY <1>1 DEF Merging
    <3>2. \A m \in Live(b) : /\ b.type[m] = b.type[m] /\ b.name[m] = b.name[m]
                            /\ b.f.parent[m] = b.f.parent[m] /\ b.f.kids[m] = b.f.kids[m]
      OBVIOUS
    <3>3. PICK T : Sets(b, b, target, k, item, T)
      BY ONLY <3>2, <2>12, <2>20, SetsNothing
    <3>4. PICK L : Merged(st, b, target, source, L)  BY <3>1, <3>3, <2>23
    <3>5. PICK j : Lost(b, u, target, j)  BY <2>25 DEF Cracks
    <3>6. Halves(b, u, target, j)  BY ONLY <3>5, <2>12, LostHalves
    <3>7. u \in State  BY <3>6 DEF Halves, Base
    <3>8. r.s = u /\ r \in [s : State, cur : Node \cup {NULL}]  BY <2>14, <2>24, <3>7
    <3>9. Sound(b) /\ Cracks(b, r.s, target)  BY <3>8, <2>12, <2>25
    <3> QED  BY ONLY <3>4, <3>8, <3>9 DEF Stopped
  <2> SUFFICES ASSUME Sound(u) /\ Keeps(b, u, target, item) /\ \E T : Sets(b, u, target, k, item, T)
               PROVE  Merging(st, target, source, r)
    BY <2>21, <2>25
  <2>15. Sound(u) /\ Keeps(b, u, target, item) /\ \E T : Sets(b, u, target, k, item, T)
    OBVIOUS
  <2>16. /\ {target, source} \subseteq Dicts(u)
         /\ source = target \/ target \notin Ancestors(u.f, source)
         /\ \A j \in DOMAIN a.f.kids[source] : j % 2 = 1 =>
               j \in DOMAIN u.f.kids[source] /\ u.f.kids[source][j] = a.f.kids[source][j]
    BY ONLY <2>1, <2>12, <2>15, SourceStays
  <2>17. next = NULL \/ \E j \in DOMAIN u.f.kids[source] : j % 2 = 1 /\ next = u.f.kids[source][j]
    <3>1. PICK h : h = i + 1  OBVIOUS
    <3>2. h \in DOMAIN q /\ v = q[h]  BY <3>1, <2>7
    <3>3. CASE h < Len(q)
      <4>1. h + 1 \in DOMAIN q /\ next = q[h + 1]
        BY <3>2, <3>3, <2>1, <2>2, <2>13, NextSibling
      <4>2. (h + 1) % 2 = 1  BY <3>1, <2>3, <2>4
      <4> QED  BY <4>1, <4>2, <2>2, <2>16
    <3>4. CASE ~(h < Len(q))
      <4>1. next = next_sibling(a.f, q[h])  BY <3>2, <2>13
      <4>2. source \in Node /\ Base(a)  BY <2>1
      <4>3. q = a.f.kids[source] /\ h \in DOMAIN q  BY <2>2, <3>2
      <4>4. next_sibling(a.f, q[h]) = NULL  BY ONLY <3>4, <4>2, <4>3, NextSibling
      <4> QED  BY <4>1, <4>4
    <3> QED  BY <3>3, <3>4
  <2>18. u \in State /\ next \in Node \cup {NULL}
    <3>1. Base(u)  BY <2>15 DEF Sound
    <3>2. source \in Node  BY <2>1
    <3>3. \A j \in DOMAIN u.f.kids[source] : u.f.kids[source][j] \in Node  BY <3>1, <3>2, ChildrenOf
    <3> QED  BY <3>1, <3>3, <2>17 DEF Base
  <2>19. \E K : Merged(st, u, target, source, K)
    <3>1. PICK K, T : Merged(st, a, target, source, K) /\ Sets(b, u, target, k, item, T)
      BY <2>15, <1>1 DEF Merging
    <3> QED  BY <3>1, <2>23
  <2> QED  BY <2>14, <2>15, <2>16, <2>17, <2>18, <2>19 DEF Merging
<1> QED  BY <1>3, <1>4

\* A merge that has lost a value of target goes no further.
LEMMA StoppedRound ==
    ASSUME NEW st, NEW target, NEW source, NEW acc, Stopped(st, target, source, acc),
           NEW r, r = merge_step(acc, target)
    PROVE  Stopped(st, target, source, r)
<1>1. PICK w, a : a = acc.s /\ Sound(w) /\ Cracks(w, a, target)  BY DEF Stopped
<1>2. PICK j : Lost(w, a, target, j)  BY <1>1 DEF Cracks
<1>3. Halves(w, a, target, j)  BY ONLY <1>1, <1>2, LostHalves
<1>4. target \in Halved(a)  BY <1>3 DEF Halves
<1>5. r = acc  BY <1>1, <1>4 DEF merge_step
<1> QED  BY <1>5

LEMMA MergeSound ==
    ASSUME NEW st, Sound(st), NEW target \in Dicts(st), NEW source \in Dicts(st),
           source \notin Subtree(st.f, target) \ {target}
    PROVE  \E w : /\ Sound(w) /\ MergeOnly(st, w, target, source)
                  /\ \/ plist_dict_merge(st, target, source) = w
                     \/ Cracks(w, plist_dict_merge(st, target, source), target)
<1> DEFINE l == Cardinality(Node)
           Solves(t) == t = [i \in 0..l |-> IF i = 0 THEN [s |-> st, cur |-> node_nth_child(st.f, source, 0)]
                                            ELSE merge_step(t[i - 1], target)]
           u == CHOOSE t : Solves(t)
           U == [s : State, cur : Node \cup {NULL}]
           M == {x \in U : Merging(st, target, source, x) \/ Stopped(st, target, source, x)}
           W == [i \in 0..l |-> M]
           g == [i \in 1..l |-> [x \in U |-> merge_step(x, target)]]
<1>1. l \in Nat  BY NodeAssumption, FS_CardinalityType
<1>2. plist_dict_merge(st, target, source) = u[l].s  BY DEF plist_dict_merge
<1> HIDE DEF l
<1>3. PICK v : v = [s |-> st, cur |-> node_nth_child(st.f, source, 0)]  OBVIOUS
<1>4. v \in M
  <2>1. Base(st) /\ source \in Node  BY DEF Sound, Dicts
  <2>2. PICK q : q = st.f.kids[source]  OBVIOUS
  <2>3. /\ DOMAIN q = 1..Len(q) /\ Len(q) \in Nat
        /\ \A j \in DOMAIN q : q[j] \in Node
    BY <2>1, <2>2, ChildrenOf
  <2>4. PICK cur : cur = node_nth_child(st.f, source, 0)  OBVIOUS
  <2>5. cur = IF 0 < Len(q) THEN q[1] ELSE NULL  BY <2>2, <2>4 DEF node_nth_child
  <2>6. cur = NULL \/ \E i \in DOMAIN q : i % 2 = 1 /\ cur = q[i]
    <3>1. CASE 0 < Len(q)
      <4>1. 1 \in DOMAIN q /\ 1 % 2 = 1  BY <3>1, <2>3
      <4> QED  BY <3>1, <4>1, <2>5
    <3>2. CASE ~(0 < Len(q))  BY <3>2, <2>5
    <3> QED  BY <3>1, <3>2
  <2>7. source = target \/ target \notin Ancestors(st.f, source)  BY <2>1 DEF Subtree
  <2>8. st \in State /\ cur \in Node \cup {NULL}  BY <2>1, <2>3, <2>6 DEF Base
  <2>9. v = [s |-> st, cur |-> cur]  BY <1>3, <2>4
  <2>10. \E K : Merged(st, st, target, source, K)  BY MergedStart
  <2>11. Merging(st, target, source, v)  BY <2>2, <2>6, <2>7, <2>8, <2>9, <2>10 DEF Merging
  <2> QED  BY <2>8, <2>9, <2>11
<1>5. \A x \in M : merge_step(x, target) \in M
  <2> TAKE x \in M
  <2>1. source = target \/ target \notin Ancestors(st.f, source)  BY DEF Subtree, Dicts
  <2>2. PICK r : r = merge_step(x, target)  OBVIOUS
  <2>3. CASE Merging(st, target, source, x)
    <3>1. Merging(st, target, source, r) \/ Stopped(st, target, source, r)
      BY <2>1, <2>2, <2>3, MergeRound
    <3> QED  BY <2>2, <3>1 DEF Merging, Stopped
  <2>4. CASE Stopped(st, target, source, x)
    <3>1. Stopped(st, target, source, r)  BY ONLY <2>2, <2>4, StoppedRound
    <3> QED  BY <2>2, <3>1 DEF Stopped
  <2> QED  BY <2>3, <2>4
<1>6. M \subseteq U  OBVIOUS
<1>7. 0 \in 0..l /\ l \in 0..l /\ \A i \in 1..l : i \in 0..l /\ i - 1 \in 0..l /\ i # 0  BY <1>1
<1>8. \A i \in 0..l : W[i] = M  OBVIOUS
<1>9. Solves(u) => u[0] = v /\ \A i \in 1..l : u[i] = merge_step(u[i - 1], target)
  <2> HIDE DEF u
  <2> QED  BY <1>3, <1>7
<1>10. \A t : /\ t = [i \in 0..l |-> t[i]] /\ t[0] = v
              /\ \A i \in 1..l : t[i] = merge_step(t[i - 1], target)
              => Solves(t)
  <2> SUFFICES ASSUME NEW t, t = [i \in 0..l |-> t[i]], t[0] = v,
                      \A i \in 1..l : t[i] = merge_step(t[i - 1], target)
               PROVE  Solves(t)
    OBVIOUS
  <2>1. \A i \in 0..l : t[i] = IF i = 0 THEN v ELSE merge_step(t[i - 1], target)
    <3> TAKE i \in 0..l
    <3>1. i = 0 \/ i \in 1..l  BY <1>1
    <3> QED  BY <3>1, <1>7
  <2>2. t = [i \in 0..l |-> IF i = 0 THEN v ELSE merge_step(t[i - 1], target)]  BY <2>1
  <2> QED  BY <2>2, <1>3
<1> HIDE DEF Solves, W, M, U
<1>11. (\E t : Solves(t)) => Solves(u)  OBVIOUS
<1> HIDE DEF u
<1>12. \E t : Solves(t)
  <2>1. \A i \in 1..l : \A x \in W[i - 1] : g[i][x] \in W[i]  BY <1>5, <1>6, <1>7, <1>8
  <2> HIDE DEF g
  <2>2. Rounds(l, U, g, W)  BY <2>1, <1>6, <1>8 DEF Rounds
  <2>3. v \in W[0]  BY <1>4, <1>7, <1>8
  <2>4. Loops(l, U, v, g, W)  BY ONLY <2>2, <2>3, <1>1, LoopExists
  <2>5. PICK t \in [0..l -> U] :
           /\ t[0] = v
           /\ \A i \in 1..l : t[i] = g[i][t[i - 1]]
           /\ \A i \in 0..l : t[i] \in W[i]
    BY <2>4 DEF Loops
  <2>6. \A i \in 1..l : t[i] = merge_step(t[i - 1], target)
    <3> TAKE i \in 1..l
    <3>1. t[i - 1] \in U  BY <1>7, <2>5
    <3> QED  BY <3>1, <2>5 DEF g
  <2>7. t = [i \in 0..l |-> t[i]]  BY <2>5
  <2> QED  BY <2>5, <2>6, <2>7, <1>10
<1>13. u[l] \in W[l]
  <2>1. u[0] \in W[0] /\ \A i \in 1..l : u[i - 1] \in W[i - 1] => u[i] \in W[i]
    BY <1>4, <1>5, <1>7, <1>8, <1>9, <1>11, <1>12
  <2>2. \A i \in 0..l : u[i] \in W[i]  BY <2>1, <1>1, LoopInvariant
  <2> QED  BY <2>2, <1>7
<1>14. Merging(st, target, source, u[l]) \/ Stopped(st, target, source, u[l])
  BY <1>7, <1>8, <1>13 DEF M
<1>15. PICK z : z = u[l].s  OBVIOUS
<1>16. PICK w, K : Sound(w) /\ Merged(st, w, target, source, K) /\ (z = w \/ Cracks(w, z, target))
  BY <1>14, <1>15 DEF Merging, Stopped
<1>17. MergeOnly(st, w, target, source)  BY <1>16, MergedOnly
<1> QED  BY <1>2, <1>15, <1>16, <1>17

LEMMA CopyItemSound ==
    ASSUME NEW st, Sound(st), NEW target \in Dicts(st), NEW source \in Dicts(st),
           NEW k \in Key, NEW alt \in Key
    PROVE  \E w : /\ Sound(w) /\ SetOnly(st, w, target, k)
                  /\ \/ plist_dict_copy_item(st, target, source, k, alt).s = w
                     \/ Cracks(w, plist_dict_copy_item(st, target, source, k, alt).s, target)
<1>1. PICK node : node = plist_dict_get_item(st, source, alt)  OBVIOUS
<1>2. PICK c : c = plist_copy(st, node)  OBVIOUS
<1>3. plist_dict_copy_item(st, target, source, k, alt) = copied_item(st, target, k, node, c)
  BY <1>1, <1>2 DEF plist_dict_copy_item
<1>4. CASE node = NULL
  <2>1. copied_item(st, target, k, node, c).s = st  BY <1>4 DEF copied_item
  <2> QED  BY <2>1, <1>3 DEF SetOnly
<1>5. CASE node # NULL
  <2>1. Base(st) /\ source \in Node /\ Fine(st, source)  BY DEF Sound, Dicts
  <2>2. PICK q : q = st.f.kids[source]  OBVIOUS
  <2>3. PICK i \in DOMAIN q : i % 2 = 1 /\ i + 1 \in DOMAIN q /\ node = q[i + 1]
    BY <2>1, <2>2, <1>1, <1>5, GetItem
  <2>4. node \in Live(st) /\ st.type[node] # "key"
    <3>1. node \in Node /\ st.type[node] # "free"  BY <2>1, <2>2, <2>3, ChildrenOf
    <3>2. i \in 1..Len(q) /\ Len(q) \in Nat  BY <2>1, <2>2, ChildrenOf
    <3>3. (i + 1) % 2 # 1  BY <3>2, <2>3
    <3>4. st.type[node] = "key" <=> (i + 1) % 2 = 1  BY <2>1, <2>2, <2>3 DEF Fine, Good, Alternates
    <3> QED  BY <3>1, <3>3, <3>4 DEF Live
  <2>5. PICK b, item : b = c.s /\ item = c.n  OBVIOUS
  <2>6. Sound(b) /\ Intact(st, b) /\ item \in Roots(b) \cup {NULL}
    <3>1. b = plist_copy(st, node).s /\ item = plist_copy(st, node).n  BY <1>2, <2>5
    <3> QED  BY ONLY <3>1, <2>4, Sound(st), CopiedItem
  <2>7. target \in Dicts(b)  BY <2>6 DEF Intact, Dicts, Live
  <2>8. PICK u : u = plist_dict_set_item(b, target, k, item)  OBVIOUS
  <2>9. \/ Sound(u) /\ \E T : Sets(b, u, target, k, item, T)
        \/ Cracks(b, u, target)
    BY ONLY <2>6, <2>7, <2>8, k \in Key, SetItemSound
  <2>10. copied_item(st, target, k, node, c).s = u  BY <1>5, <2>5, <2>8 DEF copied_item
  <2>11. AnswersSame(st, b)  BY <2>6, IntactAnswers
  <2>12. \A m \in Dicts(st) : m \in Dicts(b)  BY <2>6 DEF Intact, Dicts, Live
  <2>13. CASE Sound(u) /\ \E T : Sets(b, u, target, k, item, T)
    <3>1. SetOnly(b, u, target, k)  BY <2>6, <2>7, <2>13, SetsOnly
    <3>2. SetOnly(st, u, target, k)  BY <3>1, <2>11, <2>12 DEF SetOnly, AnswersSame
    <3> QED  BY <3>2, <2>10, <2>13, <1>3
  <2>14. CASE Cracks(b, u, target)
    <3>1. SetOnly(st, b, target, k)  BY <2>11, <2>12 DEF SetOnly, AnswersSame
    <3> QED  BY <3>1, <2>6, <2>10, <2>14, <1>3
  <2> QED  BY <2>9, <2>13, <2>14
<1> QED  BY <1>4, <1>5

-----------------------------------------------------------------------------
(***************************************************************************)
(* The specification                                                       *)
(***************************************************************************)
\* The state is sound, or it is a sound one in which a dict has lost a value: no more
\* than one, for a call that halves a dict is the last before the end of its tree.
IInv ==
    /\ \/ Sound(s)
       \/ \E w, d, j : Sound(w) /\ Lost(w, s, d, j)
    /\ short \subseteq Node

LEMMA InitSound == Init => IInv
<1> SUFFICES ASSUME Init PROVE Sound(s)
  BY ShortagesAssumption DEF IInv, Init
<1>1. PICK f : f = EmptyForest  OBVIOUS
<1>2. /\ s = [type |-> [n \in Node |-> "free"], name |-> [n \in Node |-> NoName],
              f |-> f, ht |-> [n \in Node |-> NULL]]
  BY <1>1 DEF Init
<1>3. ForestInv(f)  BY <1>1, EmptyIsForest
<1>4. f \in Forest  BY <1>3 DEF ForestInv
<1>5. \A n \in Node : f.kids[n] = <<>> /\ f.parent[n] = NULL  BY <1>1 DEF EmptyForest
<1>6. /\ s.f = f
      /\ \A n \in Node : s.type[n] = "free" /\ s.name[n] = NoName /\ s.ht[n] = NULL
  BY <1>2
<1>7. s \in State
  <2>1. [n \in Node |-> "free"] \in [Node -> {"free", "dict", "key", "value"}]  OBVIOUS
  <2>2. [n \in Node |-> NoName] \in [Node -> Key \cup {NoName}]  OBVIOUS
  <2>3. [n \in Node |-> NULL] \in [Node -> Table \cup {NULL}]  OBVIOUS
  <2> QED  BY ONLY <1>2, <1>4, <2>1, <2>2, <2>3 DEF State
<1>8. Base(s)  BY <1>3, <1>5, <1>6, <1>7 DEF Base
<1>9. Dicts(s) = {}  BY <1>6 DEF Dicts
<1> QED  BY <1>6, <1>8, <1>9 DEF Sound

\* A call leaves a sound state, or loses a value of one dict of such a state. One step
\* per call.
LEMMA CallSteps ==
    ASSUME Sound(s), Call
    PROVE  Sound(s') \/ \E w, d : Sound(w) /\ Cracks(w, s', d)
<1> DEFINE Steps == Sound(s') \/ \E w, d : Sound(w) /\ Cracks(w, s', d)
<1>2. ASSUME NEW t \in {"dict", "value"}, New(t) PROVE Sound(s')
  BY <1>2, NewSound DEF New
<1>3. ASSUME NEW l \in 1..Cardinality(Key), NEW names \in [1..l -> Key],
             IsInjective(names), ParsedDict(names)
      PROVE  Sound(s')
  <2>1. l \in Nat  OBVIOUS
  <2>2. Len(names) = l  BY <2>1
  <2>3. Sound(parsed_dict(s, names))  BY <1>3, <2>1, <2>2, DepthAssumption, ParsedDictSound
  <2> QED  BY <1>3, <2>3 DEF ParsedDict
<1>4. ASSUME NEW d \in Dicts(s), NEW k \in Key, NEW item \in Roots(s), SetItem(d, k, item)
      PROVE  Steps
  <2>1. PICK u : u = plist_dict_set_item(s, d, k, item)  OBVIOUS
  <2>2. Sound(u) \/ Cracks(s, u, d)  BY <2>1, SetItemSound
  <2> QED  BY <1>4, <2>1, <2>2 DEF SetItem
<1>5. ASSUME NEW d \in Dicts(s), NEW k \in Key, RemoveItem(d, k) PROVE Sound(s')
  BY <1>5, RemoveItemSound DEF RemoveItem
<1>6. ASSUME NEW n \in Live(s), s.type[n] # "key", SetValue(n) PROVE Sound(s')
  BY <1>6, SetValueSound DEF SetValue
<1>7. ASSUME NEW n \in Live(s), Sort(n) PROVE Sound(s')
  BY <1>7, SortSound DEF Sort
<1>8. ASSUME NEW n \in Live(s), s.type[n] # "key", Copy(n) PROVE Sound(s')
  <2>1. PICK r : r = plist_copy(s, n)  OBVIOUS
  <2>2. /\ r.n = NULL => r.s = s
        /\ r.n # NULL => Cloned(s, r.s, r.n, n)
    BY ONLY <1>8, <2>1, Sound(s), CopySound
  <2>3. Sound(r.s)  BY <2>2 DEF Cloned
  <2> QED  BY <1>8, <2>1, <2>3 DEF Copy
<1>9. ASSUME NEW n \in Roots(s), Free(n) PROVE Sound(s')
  BY <1>9, FreeSound DEF Free
<1>10. ASSUME NEW t \in Dicts(s), NEW u \in Dicts(s), Merge(t, u) PROVE Steps
  BY <1>10, MergeSound DEF Merge
<1>11. ASSUME NEW t \in Dicts(s), NEW u \in Dicts(s), NEW k \in Key, NEW alt \in Key,
              CopyItem(t, u, k, alt)
       PROVE  Steps
  BY <1>11, CopyItemSound DEF CopyItem
<1>12. ASSUME NEW n \in KeyNodes, NEW k \in Key, s.ht[s.f.parent[n]] = NULL, SetKeyVal(n, k)
       PROVE  Sound(s')
  BY <1>12, SetKeyValSound DEF SetKeyVal, KeyNodes
<1> HIDE DEF Steps
<1>13. Sound(s') => Steps  BY DEF Steps
<1>14. Steps
  BY <1>13, <1>2, <1>3, <1>4, <1>5, <1>6, <1>7, <1>8, <1>9, <1>10, <1>11, <1>12 DEF Call
<1> QED  BY <1>14 DEF Steps

\* A dict that has lost a value goes with its tree.
LEMMA EndSteps ==
    ASSUME NEW w, Sound(w), NEW e, NEW j, Lost(w, s, e, j), EndHalved
    PROVE  /\ Sound(s')
           /\ \A m \in (Dicts(s) \ Halved(s)) \cap Dicts(s'), k \in Key :
                 plist_dict_get_item(s', m, k) = plist_dict_get_item(s, m, k)
<1>1. Halves(w, s, e, j)  BY LostHalves
<1>2. Halved(s) = {e}  BY <1>1 DEF Halves
<1>3. PICK n \in Roots(s) : Subtree(s.f, n) \cap Halved(s) # {} /\ Free(n)  BY DEF EndHalved
<1>4. e \in Subtree(s.f, n)  BY <1>2, <1>3
<1>5. PICK st, u : st = s /\ u = plist_free_node(st, n) /\ u = s'  BY <1>3 DEF Free
<1>6. /\ Sound(u)
      /\ \A m \in (Dicts(st) \ {e}) \cap Dicts(u), k \in Key :
            plist_dict_get_item(u, m, k) = plist_dict_get_item(st, m, k)
  <2>1. Halves(w, st, e, j) /\ n \in Roots(st) /\ e \in Subtree(st.f, n)  BY <1>1, <1>4, <1>5
  <2>2. u = plist_free_node(st, n)  BY <1>5
  <2> QED  BY ONLY <2>1, <2>2, EndSound
<1> QED  BY ONLY <1>2, <1>5, <1>6

LEMMA NextSteps ==
    ASSUME IInv, Next
    PROVE  /\ Sound(s') \/ \E w, d : Sound(w) /\ Cracks(w, s', d)
           /\ short' \subseteq Node
<1>1. short' \subseteq Node  BY ShortagesAssumption DEF Next
<1>2. CASE Sound(s)
  <2>1. Halved(s) = {}  BY <1>2, SoundWhole
  <2>2. Call  BY <2>1 DEF Next
  <2> QED  BY <1>1, <1>2, <2>2, CallSteps
<1>3. CASE \E w, d, j : Sound(w) /\ Lost(w, s, d, j)
  <2>1. PICK w, d, j : Sound(w) /\ Lost(w, s, d, j)  BY <1>3
  <2>2. Halved(s) # {}
    <3>1. Halves(w, s, d, j)  BY <2>1, LostHalves
    <3> QED  BY <3>1 DEF Halves
  <2>3. EndHalved  BY <2>2 DEF Next
  <2> QED  BY <1>1, <2>1, <2>3, EndSteps
<1> QED  BY <1>2, <1>3 DEF IInv

LEMMA NextSound == IInv /\ [Next]_vars => IInv'
<1>1. ASSUME IInv, UNCHANGED vars PROVE IInv'
  <2>1. s' = s /\ short' = short  BY <1>1 DEF vars
  <2>2. /\ \/ Sound(s)
           \/ \E w, d, j : Sound(w) /\ Lost(w, s, d, j)
        /\ short \subseteq Node
    BY <1>1 DEF IInv
  <2> QED  BY <2>1, <2>2 DEF IInv
<1>2. ASSUME IInv, Next PROVE IInv'
  <2>1. Sound(s') \/ \E w, d : Sound(w) /\ Cracks(w, s', d)  BY <1>2, NextSteps
  <2>2. Sound(s') \/ \E w, d, j : Sound(w) /\ Lost(w, s', d, j)  BY <2>1 DEF Cracks
  <2>3. short' \subseteq Node  BY <1>2, NextSteps
  <2> QED  BY <2>2, <2>3 DEF IInv
<1> QED  BY <1>1, <1>2

LEMMA Invariance == Spec => []IInv
BY InitSound, NextSound, PTL DEF Spec

\* What the invariant says of a dict that has all its values.
LEMMA WholeDict ==
    ASSUME IInv, NEW d \in Dicts(s) \ Halved(s)
    PROVE  Base(s) /\ d \in Node /\ Fine(s, d)
<1>1. CASE Sound(s)  BY <1>1 DEF Sound, Dicts
<1>2. CASE \E w, e, j : Sound(w) /\ Lost(w, s, e, j)
  <2>1. PICK w, e, j : Sound(w) /\ Lost(w, s, e, j)  BY <1>2
  <2>2. Halves(w, s, e, j)  BY <2>1, LostHalves
  <2>3. Base(s) /\ Halved(s) = {e} /\ \A m \in Dicts(s) \ {e} : Fine(s, m)  BY <2>2 DEF Halves
  <2> QED  BY <2>3 DEF Dicts
<1> QED  BY <1>1, <1>2 DEF IInv

\* Whatever holds both of sound states and of those that have lost a value holds.
LEMMA WholeState ==
    ASSUME IInv
    PROVE  /\ Base(s)
           /\ \A d, e \in Halved(s) : d = e
           /\ \A n \in Node : s.type[n] = "key" => s.f.parent[n] # NULL
           /\ short \subseteq Node
<1>1. CASE Sound(s)
  <2>1. Halved(s) = {}  BY <1>1, SoundWhole
  <2> QED  BY <1>1, <2>1 DEF Sound, IInv
<1>2. CASE \E w, e, j : Sound(w) /\ Lost(w, s, e, j)
  <2>1. PICK w, e, j : Sound(w) /\ Lost(w, s, e, j)  BY <1>2
  <2>2. Halves(w, s, e, j)  BY <2>1, LostHalves
  <2> QED  BY <2>2 DEF Halves, IInv
<1> QED  BY <1>1, <1>2 DEF IInv

\* A good dict is one of pairs with distinct keys.
LEMMA GoodIsPaired ==
    ASSUME NEW st, NEW d, Fine(st, d)
    PROVE  Paired(st, st.f.kids[d])
<1>1. PICK q : q = st.f.kids[d]  OBVIOUS
<1>2. Good(st.type, st.name, q, st.ht[d])  BY <1>1 DEF Fine
<1>3. Paired(st, q)  BY <1>2 DEF Good, Alternates, Paired
<1> QED  BY <1>1, <1>3

\* After any sequence of calls, for all failing allocations (of nodes, and of the
\* stacks of the depth checks), hash functions and thresholds, the children of a dict
\* alternate keys and values and no key occurs twice, but in the one dict of a
\* replacement whose roll-back failed as well; and only dicts have children or a table.
THEOREM TypeAlwaysCorrect == Spec => []TypeOK
<1>1. IInv => TypeOK
  <2> SUFFICES ASSUME IInv PROVE TypeOK
    OBVIOUS
  <2>1. /\ Base(s)
        /\ \A d, e \in Halved(s) : d = e
        /\ \A n \in Node : s.type[n] = "key" => s.f.parent[n] # NULL
        /\ short \subseteq Node
    BY WholeState
  <2>2. /\ s.type \in [Node -> {"free", "dict", "key", "value"}]
        /\ s.name \in [Node -> Key \cup {NoName}]
        /\ s.f \in Forest /\ ForestInv(s.f)
        /\ s.ht \in [Node -> Table \cup {NULL}]
    BY ONLY <2>1, Fields
  <2>3. \A n \in Node : s.ht[n] # NULL =>
           s.type[n] = "dict" /\ s.ht[n] \in [Bucket -> Seq(Entry)]
    BY <2>1, <2>2 DEF Base, Table
  <2>4. \A n \in Node : Kids(s, n) # <<>> => s.type[n] = "dict"  BY <2>1 DEF Base, Kids
  <2>5. ASSUME NEW d \in Dicts(s) \ Halved(s) PROVE Paired(s, Kids(s, d))
    <3>1. Fine(s, d)  BY WholeDict
    <3>2. Paired(s, s.f.kids[d])  BY <3>1, GoodIsPaired
    <3> QED  BY <3>2 DEF Kids
  <2>6. \A n \in Live(s) : s.type[n] = "key" => s.f.parent[n] # NULL  BY <2>1 DEF Live
  <2>7. Linked(s.f) /\ Acyclic(s.f) /\ Shallow(s.f)  BY <2>2 DEF ForestInv
  <2> QED  BY ONLY <2>1, <2>2, <2>3, <2>4, <2>5, <2>6, <2>7 DEF TypeOK
<1> QED  BY <1>1, Invariance, PTL

\* The hash table of a dict that has all its values holds its pairs, each once, and
\* nothing else: no entry of it is left that points at a freed key or value, whatever
\* failed.
THEOREM TableAlwaysHoldsPairs == Spec => []TableHoldsPairs
<1>1. IInv => TableHoldsPairs
  <2> SUFFICES ASSUME IInv, NEW d \in Node \ Halved(s), s.ht[d] # NULL
               PROVE  Entries(s.ht[d]) = Pairs(Kids(s, d))
    BY DEF TableHoldsPairs
  <2>1. d \in Dicts(s)  BY WholeState DEF Base, Dicts
  <2>2. Fine(s, d)  BY <2>1, WholeDict
  <2>3. Entries(s.ht[d]) = Pairs(s.f.kids[d])  BY <2>2 DEF Fine, Good, Holds
  <2> QED  BY <2>3 DEF Kids
<1> QED  BY <1>1, Invariance, PTL

\* plist_dict_get_item answers from the table, when there is one, what a walk of
\* the children finds.
THEOREM LookupAlwaysFindsPairs == Spec => []LookupFindsPairs
<1>1. IInv => LookupFindsPairs
  <2> SUFFICES ASSUME IInv, NEW d \in Dicts(s) \ Halved(s), NEW k \in Key
               PROVE  plist_dict_get_item(s, d, k) = linear_lookup(s, d, k)
    BY DEF LookupFindsPairs
  <2>1. Base(s) /\ d \in Node /\ Fine(s, d)  BY WholeDict
  <2> QED  BY <2>1, GetItem
<1> QED  BY <1>1, Invariance, PTL

\* A key loses its value only when there is no memory to put back an old value that
\* a failed replacement has taken out; the value is then a root, still in use, and
\* back in its place it would make the dict, and its table, whole again.
THEOREM KeyLosesValueOnlyWithoutMemory == Spec => RollBackNeedsMemory
<1> DEFINE Step ==
      \A d \in Halved(s') : \E v \in short \cap Roots(s'), i \in DOMAIN Kids(s', d) :
         LET whole == InsertAt(Kids(s', d), i + 1, v) IN
         /\ Paired(s', whole)
         /\ s'.ht[d] # NULL => Entries(s'.ht[d]) = Pairs(whole)
<1>1. ASSUME IInv, Next, NEW d \in Halved(s')
      PROVE  \E v \in short \cap Roots(s'), i \in DOMAIN Kids(s', d) :
                LET whole == InsertAt(Kids(s', d), i + 1, v) IN
                /\ Paired(s', whole)
                /\ s'.ht[d] # NULL => Entries(s'.ht[d]) = Pairs(whole)
  <2>1. PICK u : u = s'  OBVIOUS
  <2>2. ~ Sound(u)
    <3>1. Halved(u) # {}  BY <2>1
    <3> QED  BY <3>1, SoundWhole
  <2>3. PICK w, e : Sound(w) /\ Cracks(w, u, e)  BY <1>1, <2>1, <2>2, NextSteps
  <2>4. PICK j : Lost(w, u, e, j) /\ w.f.kids[e][j] \in short  BY <2>3 DEF Cracks
  <2>5. Halves(w, u, e, j)  BY ONLY <2>3, <2>4, LostHalves
  <2>6. d = e  BY <2>1, <2>5 DEF Halves
  <2>7. PICK q, v, i : q = w.f.kids[d] /\ v = q[j] /\ i = j - 1  OBVIOUS
  <2>8. /\ u.type = w.type /\ u.name = w.name /\ u.ht = w.ht /\ d \in Dicts(w)
        /\ v \in Roots(u) /\ i \in DOMAIN u.f.kids[d] /\ InsertAt(u.f.kids[d], j, v) = q
    BY <2>5, <2>6, <2>7 DEF Halves
  <2>9. i + 1 = j
    <3>1. j \in DOMAIN w.f.kids[d] /\ Base(w) /\ d \in Node
      BY <2>3, <2>4, <2>6 DEF Lost, Sound, Dicts
    <3>2. DOMAIN w.f.kids[d] = 1..Len(w.f.kids[d]) /\ Len(w.f.kids[d]) \in Nat
      BY <3>1, ChildrenOf
    <3> QED  BY ONLY <3>1, <3>2, <2>7
  <2>10. Fine(w, d)  BY <2>3, <2>8 DEF Sound
  <2>11. Paired(w, q)  BY <2>7, <2>10, GoodIsPaired
  <2>12. Paired(u, q)  BY <2>8, <2>11 DEF Paired
  <2>13. u.ht[d] # NULL => Entries(u.ht[d]) = Pairs(q)
    <3>1. Good(w.type, w.name, q, w.ht[d])  BY <2>7, <2>10 DEF Fine
    <3> QED  BY <3>1, <2>8 DEF Good, Holds
  <2>14. v \in short \cap Roots(u) /\ i \in DOMAIN Kids(u, d)
    <3>1. v \in short  BY ONLY <2>4, <2>6, <2>7
    <3> QED  BY <3>1, <2>8 DEF Kids
  <2>15. q = InsertAt(Kids(u, d), i + 1, v)  BY <2>8, <2>9 DEF Kids
  <2> QED  BY <2>1, <2>12, <2>13, <2>14, <2>15
<1>2. IInv /\ [Next]_vars => (Step \/ UNCHANGED vars)  BY <1>1
<1> QED  BY <1>2, Invariance, PTL DEF Spec, RollBackNeedsMemory

\* What may change the answer of d to k: a removal or a new name for a key of d; a
\* new value for k, which leaves an answer; a merge into a dict that has d below
\* a value it replaces.
Causes(d, k) ==
    \/ RemoveItem(d, k)
    \/ \E n \in KeyNodes, j \in Key :
          s.f.parent[n] = d /\ k \in {s.name[n], j} /\ SetKeyVal(n, j)
    \/ /\ plist_dict_get_item(s', d, k) # NULL
       /\ \/ \E item \in Roots(s) : SetItem(d, k, item)
          \/ \E u \in Dicts(s), alt \in Key : CopyItem(d, u, k, alt)
          \/ \E u \in Dicts(s) : plist_dict_get_item(s, u, k) # NULL /\ Merge(d, u)
    \/ \E t, u \in Dicts(s), j \in Key :
          /\ d \in Subtree(s.f, plist_dict_get_item(s, t, j))
          /\ plist_dict_get_item(s, u, j) # NULL
          /\ Merge(t, u)

\* A lost value is not one of d.
LEMMA LostElsewhere ==
    ASSUME NEW w, Sound(w), NEW u, NEW e, Cracks(w, u, e), NEW d \in Dicts(u) \ Halved(u), NEW k \in Key
    PROVE  d # e /\ d \in Dicts(w) /\ plist_dict_get_item(u, d, k) = plist_dict_get_item(w, d, k)
<1>1. PICK j : Lost(w, u, e, j)  BY DEF Cracks
<1>2. Halves(w, u, e, j)  BY <1>1, LostHalves
<1> QED  BY <1>2 DEF Halves, Dicts

\* One step per call.
LEMMA ChangeHasCause ==
    ASSUME Sound(s), Call, NEW d \in Dicts(s), d \in Dicts(s') \ Halved(s'), NEW k \in Key,
           plist_dict_get_item(s', d, k) # plist_dict_get_item(s, d, k)
    PROVE  Causes(d, k)
<1>1. Sound(s)  OBVIOUS
<1>2. ~ AnswersSame(s, s')  BY DEF AnswersSame
<1>3. ASSUME NEW t \in {"dict", "value"}, New(t) PROVE FALSE
  BY <1>1, <1>2, <1>3, NewSound DEF New
<1>4. ASSUME NEW l \in 1..Cardinality(Key), NEW names \in [1..l -> Key],
             IsInjective(names), ParsedDict(names)
      PROVE  FALSE
  <2>1. l \in Nat  OBVIOUS
  <2>2. Len(names) = l  BY <2>1
  <2>3. AnswersSame(s, parsed_dict(s, names))
    BY <1>1, <1>4, <2>1, <2>2, DepthAssumption, ParsedDictSound
  <2> QED  BY <1>2, <1>4, <2>3 DEF ParsedDict
<1>5. ASSUME NEW m \in Dicts(s), NEW j \in Key, NEW item \in Roots(s), SetItem(m, j, item)
      PROVE  Causes(d, k)
  <2>1. PICK u : u = plist_dict_set_item(s, m, j, item)  OBVIOUS
  <2>4. u = s'  BY <1>5, <2>1 DEF SetItem
  <2>6. ~ Cracks(s, u, m)
    <3> SUFFICES ASSUME Cracks(s, u, m) PROVE FALSE
      OBVIOUS
    <3>1. d \in Dicts(u) \ Halved(u)  BY <2>4
    <3>2. plist_dict_get_item(u, d, k) = plist_dict_get_item(s, d, k)
      BY ONLY <3>1, <1>1, Cracks(s, u, m), k \in Key, LostElsewhere
    <3> QED  BY <3>2, <2>4
  <2>2. PICK T : Sound(u) /\ Sets(s, u, m, j, item, T)  BY <1>1, <2>1, <2>6, SetItemSound
  <2>3. SetOnly(s, u, m, j)  BY <1>1, <2>2, SetsOnly
  <2>5. m = d /\ j = k /\ plist_dict_get_item(s', d, k) # NULL  BY <2>3, <2>4 DEF SetOnly
  <2> QED  BY <1>5, <2>5 DEF Causes
<1>6. ASSUME NEW m \in Dicts(s), NEW j \in Key, RemoveItem(m, j) PROVE Causes(d, k)
  <2>1. PICK u : u = plist_dict_remove_item(s, m, j)  OBVIOUS
  <2>2. OthersSame(s, u, m, j)  BY <1>1, <2>1, RemoveItemSound
  <2>3. u = s'  BY <1>6, <2>1 DEF RemoveItem
  <2>4. m = d /\ j = k  BY <2>2, <2>3 DEF OthersSame
  <2> QED  BY <1>6, <2>4 DEF Causes
<1>7. ASSUME NEW n \in Live(s), s.type[n] # "key", SetValue(n) PROVE FALSE
  BY <1>1, <1>2, <1>7, SetValueSound DEF SetValue
<1>8. ASSUME NEW n \in Live(s), Sort(n) PROVE FALSE
  BY <1>1, <1>2, <1>8, SortSound DEF Sort
<1>9. ASSUME NEW n \in Live(s), s.type[n] # "key", Copy(n) PROVE FALSE
  <2>1. PICK r : r = plist_copy(s, n)  OBVIOUS
  <2>2. /\ r.n = NULL => r.s = s
        /\ r.n # NULL => Cloned(s, r.s, r.n, n)
    BY ONLY <1>1, <1>9, <2>1, CopySound
  <2>3. r.s = s'  BY <1>9, <2>1 DEF Copy
  <2>4. CASE r.n = NULL  BY <2>2, <2>3, <2>4
  <2>5. CASE r.n # NULL
    <3>1. Sound(s') /\ Intact(s, s')  BY <2>2, <2>3, <2>5 DEF Cloned
    <3> QED  BY <1>1, <1>2, <3>1, IntactAnswers
  <2> QED  BY <2>4, <2>5
<1>10. ASSUME NEW n \in Roots(s), Free(n) PROVE FALSE
  BY <1>1, <1>2, <1>10, FreeSound DEF Free
<1>11. ASSUME NEW t \in Dicts(s), NEW u \in Dicts(s), Merge(t, u) PROVE Causes(d, k)
  <2>4. PICK x, w : /\ x = s' /\ x = plist_dict_merge(s, t, u)
                    /\ Sound(w) /\ MergeOnly(s, w, t, u) /\ (x = w \/ Cracks(w, x, t))
    BY <1>1, <1>11, MergeSound DEF Merge
  <2>5. plist_dict_get_item(w, d, k) = plist_dict_get_item(s', d, k) /\ d \in Dicts(w)
    <3>1. d \in Dicts(x) \ Halved(x)  BY <2>4
    <3>2. CASE Cracks(w, x, t)
      <4>1. plist_dict_get_item(x, d, k) = plist_dict_get_item(w, d, k) /\ d \in Dicts(w)
        BY ONLY <3>1, <3>2, <2>4, k \in Key, LostElsewhere
      <4> QED  BY <4>1, <2>4
    <3> QED  BY <3>1, <3>2, <2>4
  <2>1. \/ /\ d = t /\ plist_dict_get_item(s', d, k) # NULL
           /\ plist_dict_get_item(s, u, k) # NULL
        \/ \E i \in Key : /\ d \in Subtree(s.f, plist_dict_get_item(s, t, i))
                          /\ plist_dict_get_item(s, u, i) # NULL
    BY <2>4, <2>5 DEF MergeOnly
  <2>2. CASE /\ d = t /\ plist_dict_get_item(s', d, k) # NULL
             /\ plist_dict_get_item(s, u, k) # NULL
    BY <1>11, <2>2 DEF Causes
  <2>3. CASE \E i \in Key : /\ d \in Subtree(s.f, plist_dict_get_item(s, t, i))
                            /\ plist_dict_get_item(s, u, i) # NULL
    BY <1>11, <2>3 DEF Causes
  <2> QED  BY <2>1, <2>2, <2>3
<1>12. ASSUME NEW t \in Dicts(s), NEW u \in Dicts(s), NEW j \in Key, NEW alt \in Key,
              CopyItem(t, u, j, alt)
       PROVE  Causes(d, k)
  <2>3. PICK x, w : /\ x = s' /\ Sound(w) /\ SetOnly(s, w, t, j) /\ (x = w \/ Cracks(w, x, t))
    BY <1>1, <1>12, CopyItemSound DEF CopyItem
  <2>4. d \in Dicts(x) \ Halved(x)  BY <2>3
  <2>5. plist_dict_get_item(w, d, k) = plist_dict_get_item(x, d, k) /\ d \in Dicts(w)
    <3>1. CASE Cracks(w, x, t)
      BY ONLY <3>1, <2>3, <2>4, k \in Key, LostElsewhere
    <3> QED  BY <3>1, <2>3, <2>4
  <2>2. t = d /\ j = k /\ plist_dict_get_item(s', d, k) # NULL  BY <2>3, <2>5 DEF SetOnly
  <2> QED  BY <1>12, <2>2 DEF Causes
<1>13. ASSUME NEW n \in KeyNodes, NEW j \in Key, s.ht[s.f.parent[n]] = NULL, SetKeyVal(n, j)
       PROVE  Causes(d, k)
  <2>1. RenameOnly(s, s', n, j)  BY <1>1, <1>13, SetKeyValSound DEF SetKeyVal, KeyNodes
  <2>2. s.f.parent[n] = d /\ k \in {s.name[n], j}  BY <2>1 DEF RenameOnly
  <2> QED  BY <1>13, <2>2 DEF Causes
<1> QED
  BY <1>3, <1>4, <1>5, <1>6, <1>7, <1>8, <1>9, <1>10, <1>11, <1>12, <1>13 DEF Call

\* What a dict answers to a key changes in calls for that key of that dict only: a
\* removal, a new name for its key, or a call that sets, copies or merges a value,
\* failed or not, and which never leaves the key without one; and in a merge that
\* replaces the value the dict itself is part of. A copy, a sort, a new type or the
\* freeing of another tree changes no answer, with and without a hash table.
THEOREM EntriesChangeByTheirKeys == Spec => EntryChangesOnlyByItsKey
<1>1. ASSUME IInv, [Next]_vars,
             NEW d \in (Dicts(s) \ Halved(s)) \cap (Dicts(s') \ Halved(s')), NEW k \in Key,
             plist_dict_get_item(s, d, k) # plist_dict_get_item(s', d, k)
      PROVE  Causes(d, k)
  <2>1. CASE UNCHANGED vars  BY <1>1, <2>1 DEF vars
  <2>2. CASE Next /\ Sound(s)
    <3>1. Halved(s) = {}  BY <2>2, SoundWhole
    <3>2. Call  BY <2>2, <3>1 DEF Next
    <3> QED  BY <1>1, <2>2, <3>2, ChangeHasCause
  <2>3. CASE Next /\ \E w, e, j : Sound(w) /\ Lost(w, s, e, j)
    <3>1. PICK w, e, j : Sound(w) /\ Lost(w, s, e, j)  BY <2>3
    <3>2. Halved(s) # {}
      <4>1. Halves(w, s, e, j)  BY <3>1, LostHalves
      <4> QED  BY <4>1 DEF Halves
    <3>3. EndHalved  BY <2>3, <3>2 DEF Next
    <3>4. plist_dict_get_item(s', d, k) = plist_dict_get_item(s, d, k)
      BY <3>1, <3>3, EndSteps
    <3> QED  BY <1>1, <3>4
  <2> QED  BY <1>1, <2>1, <2>2, <2>3 DEF IInv
<1> DEFINE Step ==
      \A d \in (Dicts(s) \ Halved(s)) \cap (Dicts(s') \ Halved(s')), k \in Key :
         LET before == plist_dict_get_item(s, d, k)
             after  == plist_dict_get_item(s', d, k)
         IN  before # after =>
               \/ RemoveItem(d, k)
               \/ \E n \in KeyNodes, j \in Key :
                     s.f.parent[n] = d /\ k \in {s.name[n], j} /\ SetKeyVal(n, j)
               \/ /\ after # NULL
                  /\ \/ \E item \in Roots(s) : SetItem(d, k, item)
                     \/ \E u \in Dicts(s), alt \in Key : CopyItem(d, u, k, alt)
                     \/ \E u \in Dicts(s) :
                           plist_dict_get_item(s, u, k) # NULL /\ Merge(d, u)
               \/ \E t, u \in Dicts(s), j \in Key :
                     /\ d \in Subtree(s.f, plist_dict_get_item(s, t, j))
                     /\ plist_dict_get_item(s, u, j) # NULL
                     /\ Merge(t, u)
<1>2. IInv /\ [Next]_vars => Step  BY <1>1 DEF Causes
<1> QED  BY <1>2, Invariance, PTL DEF Spec, EntryChangesOnlyByItsKey
=============================================================================
