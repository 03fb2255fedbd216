---------------------------- MODULE BplistProofs ----------------------------
(***************************************************************************)
(* Theorems about the binary reader and writer, for every nesting limit.   *)
(* Of the reader, for every set of files that FilesAssumption allows, any  *)
(* graph of objects:                                                       *)
(*                                                                         *)
(*   PathAlwaysMarked    used_indexes holds the containers being filled;   *)
(*   NothingEverLeaks    no tree node is lost;                             *)
(*   ErrorsAlwaysTrue    circular and too nested files are what they are   *)
(*                       called;                                           *)
(*   AlwaysReadsTheTree  the result is the whole tree, or an error.        *)
(*                                                                         *)
(* Of the writer, and of the two together, for every set of trees that     *)
(* TreesAssumption allows and every hash of the data nodes:                *)
(*                                                                         *)
(*   NeverRefusesATree   the writer refuses no tree;                       *)
(*   StoresDataOnce      equal leaves share an object;                     *)
(*   RoundTripsAlways    what is written is read back as the same tree.    *)
(***************************************************************************)
EXTENDS BplistRoundTrip, FiniteSetTheorems, SequenceTheorems, WellFoundedInduction, TLAPS

IsSeq(s) == \E S : s \in Seq(S)

\* Appending to a sequence, whatever is in it.
LEMMA Appended ==
    ASSUME NEW s, IsSeq(s), NEW e
    PROVE  /\ IsSeq(Append(s, e))
           /\ Len(s) \in Nat /\ Len(Append(s, e)) = Len(s) + 1
           /\ \A i \in 1..Len(s) : Append(s, e)[i] = s[i]
           /\ Append(s, e)[Len(s) + 1] = e
<1>1. PICK S : s \in Seq(S)  BY DEF IsSeq
<1>2. s \in Seq(S \cup {e})  BY <1>1, SeqMonotonic
<1>3. e \in S \cup {e}  OBVIOUS
<1> HIDE DEF IsSeq
<1>4. Len(s) \in Nat  BY <1>1, LenProperties
<1> QED  BY <1>2, <1>3, <1>4, AppendProperties DEF IsSeq

\* Dropping the last element.
LEMMA Shortened ==
    ASSUME NEW s, IsSeq(s), s # <<>>
    PROVE  /\ IsSeq(Front(s))
           /\ Len(s) \in Nat /\ Len(s) > 0 /\ Len(Front(s)) = Len(s) - 1
           /\ \A i \in 1..(Len(s) - 1) : Front(s)[i] = s[i]
           /\ Last(s) = s[Len(s)]
<1>1. PICK S : s \in Seq(S)  BY DEF IsSeq
<1>2. Len(s) \in Nat /\ Len(s) > 0  BY <1>1, EmptySeq
<1>3. \A i \in 1..(Len(s) - 1) : s[i] \in S  BY <1>1, <1>2, ElementOfSeq
<1>4. /\ SubSeq(s, 1, Len(s) - 1) \in Seq(S)
      /\ Len(SubSeq(s, 1, Len(s) - 1)) = Len(s) - 1
      /\ \A i \in 1..(Len(s) - 1) : SubSeq(s, 1, Len(s) - 1)[i] = s[i]
  <2>1. 1 \in Int /\ Len(s) - 1 \in Int /\ \A i \in 1..(Len(s) - 1) : s[i] \in S
    BY <1>2, <1>3
  <2>2. /\ SubSeq(s, 1, Len(s) - 1) \in Seq(S)
        /\ Len(SubSeq(s, 1, Len(s) - 1)) =
              IF 1 <= Len(s) - 1 THEN Len(s) - 1 - 1 + 1 ELSE 0
        /\ \A i \in 1..(Len(s) - 1 - 1 + 1) :
              SubSeq(s, 1, Len(s) - 1)[i] = s[1 + i - 1]
    BY <2>1, SubSeqProperties
  <2>3. Len(s) - 1 - 1 + 1 = Len(s) - 1 /\ \A i \in 1..(Len(s) - 1) : 1 + i - 1 = i
    BY <1>2
  <2> QED  BY <2>2, <2>3, <1>2
<1> QED  BY <1>2, <1>4 DEF Front, Last, IsSeq

-----------------------------------------------------------------------------
\* The path is marked and used_indexes reaches that far.
PathInv ==
    /\ IsSeq(stack)
    /\ IsSeq(used)
    /\ level <= Len(used)
    /\ PathIsMarked

\* What is inductive.
IInv ==
    /\ PathInv
    /\ pc = "loop" => stack # <<>>

\* The entry of the current level becomes index, those below it stay.
LEMMA MarkedEntries ==
    ASSUME PathInv, NEW index
    PROVE  /\ IsSeq(Marked(index))
           /\ level + 1 <= Len(Marked(index))
           /\ Marked(index)[level + 1] = index
           /\ \A i \in 1..level : Marked(index)[i] = used[i]
<1>1. PICK S : used \in Seq(S)  BY DEF PathInv, IsSeq
<1>2. PICK T : stack \in Seq(T)  BY DEF PathInv, IsSeq
<1>3. level \in Nat /\ Len(used) \in Nat /\ level <= Len(used)
  BY <1>1, <1>2, LenProperties DEF PathInv, level
<1>4. used \in Seq(S \cup {index})  BY <1>1, SeqMonotonic
<1>5. CASE Len(used) < level + 1
  <2>1. Marked(index) = used \o [i \in 1..1 |-> index]
    <3>1. level + 1 - Len(used) = 1  BY <1>3, <1>5
    <3> QED  BY <1>5, <3>1 DEF Marked
  <2>2. [i \in 1..1 |-> index] = <<index>>  OBVIOUS
  <2>3. <<index>> \in Seq(S \cup {index}) /\ Len(<<index>>) = 1 /\ <<index>>[1] = index
    OBVIOUS
  <2>4. /\ Marked(index) \in Seq(S \cup {index})
        /\ Len(Marked(index)) = Len(used) + 1
        /\ \A i \in 1..(Len(used) + 1) :
              Marked(index)[i] = IF i <= Len(used) THEN used[i] ELSE <<index>>[i - Len(used)]
    BY <1>4, <2>1, <2>2, <2>3, ConcatProperties
  <2>5. Len(used) = level  BY <1>3, <1>5
  <2> HIDE DEF Marked, level
  <2>6. IsSeq(Marked(index))  BY <2>4 DEF IsSeq
  <2> QED  BY <1>3, <2>3, <2>4, <2>5, <2>6
<1>6. CASE ~(Len(used) < level + 1)
  <2>1. level + 1 \in 1..Len(used)  BY <1>3, <1>6
  <2>2. Marked(index) = [used EXCEPT ![level + 1] = index]  BY <1>6 DEF Marked
  <2>3. /\ Marked(index) \in Seq(S \cup {index})
        /\ Len(Marked(index)) = Len(used)
        /\ \A i \in 1..Len(used) :
              Marked(index)[i] = IF i = level + 1 THEN index ELSE used[i]
    BY <1>4, <2>1, <2>2, ExceptSeq
  <2>4. IsSeq(Marked(index))  BY <2>3 DEF IsSeq
  <2> QED  BY <1>3, <2>1, <2>3, <2>4
<1> QED  BY <1>5, <1>6

\* Marking a level above the path leaves the path as it is.
LEMMA MarkingKeeps ==
    ASSUME PathInv, NEW index, used' = Marked(index), UNCHANGED stack
    PROVE  PathInv'
<1>1. level' = level /\ level \in Nat
  <2>1. PICK T : stack \in Seq(T)  BY DEF PathInv, IsSeq
  <2> QED  BY <2>1, LenProperties DEF level
<1>2. IsSeq(used)' /\ level' <= Len(used')
  <2>1. IsSeq(used')  BY MarkedEntries
  <2>2. level + 1 <= Len(used') /\ Len(used') \in Nat
    <3>1. PICK S : used' \in Seq(S)  BY <2>1 DEF IsSeq
    <3> QED  BY <3>1, MarkedEntries, LenProperties
  <2> QED  BY <1>1, <2>1, <2>2 DEF IsSeq
<1>3. PathIsMarked'
  BY <1>1, MarkedEntries DEF PathInv, PathIsMarked
<1> QED  BY <1>1, <1>2, <1>3 DEF PathInv, IsSeq

\* Entering a container: it is marked, and no container around it is the same.
LEMMA EnteringKeeps ==
    ASSUME PathInv, NEW index, NEW newFrame, newFrame.index = index,
           used' = Marked(index), ~recursion_detected(used'),
           stack' = Append(stack, newFrame)
    PROVE  PathInv'
<1>1. /\ IsSeq(stack') /\ level \in Nat /\ level' = level + 1
      /\ \A i \in 1..level : stack'[i] = stack[i]
      /\ stack'[level + 1].index = index
  BY Appended DEF PathInv, level
<1>2. /\ IsSeq(used') /\ level' <= Len(used')
      /\ used'[level + 1] = index /\ \A i \in 1..level : used'[i] = used[i]
  BY <1>1, MarkedEntries
<1>3. \A i \in 1..level : used'[i] # index
  BY <1>2 DEF recursion_detected
<1>4. \A i \in 1..level' : used'[i] = stack'[i].index
  <2>1. \A i \in 1..level : used'[i] = stack'[i].index
    BY <1>1, <1>2 DEF PathInv, PathIsMarked
  <2>2. \A i \in 1..level' : i \in 1..level \/ i = level + 1
    BY <1>1
  <2> QED  BY <1>1, <1>2, <2>1, <2>2
<1>5. \A i, j \in 1..level' : stack'[i].index = stack'[j].index => i = j
  BY <1>1, <1>2, <1>3, <1>4 DEF PathInv, PathIsMarked
<1> QED  BY <1>1, <1>2, <1>4, <1>5 DEF PathInv, PathIsMarked, IsSeq

\* Returning from a container.
LEMMA ReturningKeeps ==
    ASSUME PathInv, stack # <<>>, stack' = Front(stack), UNCHANGED used
    PROVE  PathInv'
<1>1. /\ IsSeq(stack') /\ level \in Nat /\ level' = level - 1
      /\ \A i \in 1..(level - 1) : stack'[i] = stack[i]
  BY Shortened DEF PathInv, level
<1>2. Len(used) \in Nat
  <2>1. PICK S : used \in Seq(S)  BY DEF PathInv, IsSeq
  <2> QED  BY <2>1, LenProperties
<1>3. IsSeq(used')  BY DEF PathInv, IsSeq
<1>4. level' <= Len(used')  BY <1>1, <1>2 DEF PathInv
<1>5. \A i \in 1..level' : i \in 1..level /\ stack'[i] = stack[i]  BY <1>1
<1>6. PathIsMarked'
  BY <1>5 DEF PathInv, PathIsMarked
<1> QED  BY <1>1, <1>3, <1>4, <1>6 DEF PathInv, IsSeq

\* The innermost container is replaced by itself, filled further.
LEMMA FillingKeeps ==
    ASSUME PathInv, stack # <<>>, NEW newFrame, newFrame.index = top.index,
           stack' = Append(Front(stack), newFrame), UNCHANGED used
    PROVE  PathInv'
<1>1. /\ IsSeq(Front(stack)) /\ level \in Nat /\ level > 0
      /\ Len(Front(stack)) = level - 1
      /\ \A i \in 1..(level - 1) : Front(stack)[i] = stack[i]
      /\ top = stack[level]
  BY Shortened DEF PathInv, level, top
<1>2. /\ IsSeq(stack') /\ level' = level
      /\ \A i \in 1..(level - 1) : stack'[i] = stack[i]
      /\ stack'[level] = newFrame
  BY <1>1, Appended DEF level
<1>3. \A i \in 1..level : stack'[i].index = stack[i].index
  BY <1>1, <1>2
<1>4. IsSeq(used')  BY DEF PathInv, IsSeq
<1>5. level' <= Len(used')  BY <1>2 DEF PathInv
<1>6. PathIsMarked'
  <2>1. \A i \in 1..level : used'[i] = stack'[i].index
    BY <1>3 DEF PathInv, PathIsMarked
  <2>2. \A i, j \in 1..level : stack'[i].index = stack'[j].index => i = j
    BY <1>3 DEF PathInv, PathIsMarked
  <2> QED  BY ONLY <1>2, <2>1, <2>2 DEF PathIsMarked
<1> QED  BY <1>2, <1>4, <1>5, <1>6 DEF PathInv, IsSeq

-----------------------------------------------------------------------------
LEMMA InitInv == Idle => IInv
<1> SUFFICES ASSUME Idle PROVE IInv  OBVIOUS
<1>1. stack = <<>> /\ used = <<>> /\ pc = "start"  BY DEF Idle
<1>2. IsSeq(<<>>) /\ Len(<<>>) = 0
  <2>1. <<>> \in Seq({}) /\ Len(<<>>) = 0  BY EmptySeq
  <2> QED  BY <2>1 DEF IsSeq
<1> QED  BY <1>1, <1>2 DEF IInv, PathInv, PathIsMarked, level

LEMMA InitReady == Init => Idle /\ IsFile(file)
<1> QED  BY FilesAssumption DEF Init

\* One step per action; three lemmas for what actions have in common.
LEMMA PathUntouched ==
    ASSUME PathInv, UNCHANGED <<stack, used>>
    PROVE  PathInv'
BY DEF PathInv, PathIsMarked, level, IsSeq

LEMMA PathAbandoned ==
    ASSUME IInv, stack # <<>>, NEW gone, Abandon(gone)
    PROVE  IInv'
<1>1. PathInv'  BY ReturningKeeps DEF Abandon, IInv
<1> QED  BY <1>1 DEF Abandon, IInv

LEMMA PathContinued ==
    ASSUME IInv, stack # <<>>, NEW node, NEW failed, Continue(node, failed)
    PROVE  IInv'
<1> DEFINE filled == [top EXCEPT !.j = @ + 1, !.key = NULL, !.node = node]
<1>1. filled.index = top.index  OBVIOUS
<1>2. stack' = Append(Front(stack), filled) /\ UNCHANGED used
  BY DEF Continue
<1> HIDE DEF filled
<1>3. PathInv'  BY <1>1, <1>2, FillingKeeps DEF IInv
<1>4. stack' # <<>>
  <2>1. IsSeq(Front(stack)) /\ Len(Front(stack)) \in Nat
    BY Shortened DEF IInv, PathInv
  <2>2. Len(stack') = Len(Front(stack)) + 1  BY <1>2, <2>1, Appended
  <2>3. Len(<<>>) = 0  OBVIOUS
  <2> QED  BY <2>1, <2>2, <2>3
<1> QED  BY <1>3, <1>4 DEF IInv

LEMMA StepInv == IInv /\ [Next]_vars => IInv'
<1> SUFFICES ASSUME IInv, [Next]_vars PROVE IInv'  OBVIOUS
<1>1. PathInv /\ (pc = "loop" => stack # <<>>)  BY DEF IInv
<1>2. CASE StartRefused  BY <1>1, <1>2, PathUntouched DEF StartRefused, IInv
<1>3. CASE Start  BY <1>1, <1>3, PathUntouched DEF Start, IInv
<1>4. CASE EnterRefused
  <2>1. UNCHANGED stack /\ (UNCHANGED used \/ used' = Marked(arg)) /\ pc' = "return"
    BY <1>4 DEF EnterRefused, Refuse
  <2>2. PathInv'  BY <1>1, <2>1, MarkingKeeps, PathUntouched
  <2> QED  BY <2>1, <2>2 DEF IInv
<1>5. CASE EnterFails
  <2>1. PathInv'  BY <1>1, <1>5, MarkingKeeps DEF EnterFails, Entered, Refuse
  <2> QED  BY <1>5, <2>1 DEF EnterFails, Refuse, IInv
<1>6. CASE EnterLeaf
  <2>1. PathInv'  BY <1>1, <1>6, MarkingKeeps DEF EnterLeaf, Entered
  <2> QED  BY <1>6, <2>1 DEF EnterLeaf, IInv
<1>7. CASE EnterContainer
  <2> DEFINE new == [index |-> arg, j |-> 0, key |-> NULL,
                     node |-> Leaf(Object(file, arg).type, 0)]
  <2>1. /\ used' = Marked(arg) /\ ~recursion_detected(used')
        /\ stack' = Append(stack, new)
    BY <1>7 DEF EnterContainer, Entered
  <2>2. new.index = arg  OBVIOUS
  <2> HIDE DEF new
  <2>3. PathInv'  BY <1>1, <2>1, <2>2, EnteringKeeps
  <2>4. stack' # <<>>
    <3>1. Len(stack) \in Nat /\ Len(stack') = Len(stack) + 1
      BY <1>1, <2>1, Appended DEF PathInv
    <3>2. Len(<<>>) = 0  OBVIOUS
    <3> QED  BY <3>1, <3>2
  <2> QED  BY <2>3, <2>4 DEF IInv
<1>8. CASE Complete
  <2>1. PathInv'  BY <1>1, <1>8, ReturningKeeps DEF Complete
  <2> QED  BY <1>8, <2>1 DEF Complete, IInv
<1>9. CASE BadRef
  <2>1. stack # <<>> /\ Abandon(0)  BY <1>1, <1>9 DEF BadRef
  <2> QED  BY <2>1, PathAbandoned
<1>10. CASE FollowRef  BY <1>1, <1>10, PathUntouched DEF FollowRef, IInv
<1>11. CASE ItemReturns
  <2>1. stack # <<>>  BY <1>11 DEF ItemReturns, Returned
  <2>2. \/ Abandon(0)
        \/ \E failed \in BOOLEAN : Continue(AttachOrNot(top.node, res, failed), failed)
    BY <1>11 DEF ItemReturns
  <2> QED  BY <2>1, <2>2, PathAbandoned, PathContinued
<1>12. CASE KeyReturns
  <2>1. stack # <<>>  BY <1>12 DEF KeyReturns, Returned
  <2>2. \/ Abandon(0)
        \/ Abandon(res.size)
        \/ /\ pc' = "enter" /\ UNCHANGED used
           /\ stack' = Append(Front(stack), [top EXCEPT !.key = AsKey(res)])
    BY <1>12 DEF KeyReturns
  <2>3. ASSUME pc' = "enter", UNCHANGED used,
               stack' = Append(Front(stack), [top EXCEPT !.key = AsKey(res)])
        PROVE  IInv'
    <3>1. [top EXCEPT !.key = AsKey(res)].index = top.index  OBVIOUS
    <3>2. PathInv'  BY <1>1, <2>1, <2>3, <3>1, FillingKeeps
    <3> QED  BY <2>3, <3>2 DEF IInv
  <2> QED  BY <2>1, <2>2, <2>3, PathAbandoned
<1>13. CASE ValueReturns
  <2>1. stack # <<>>  BY <1>13 DEF ValueReturns, Returned
  <2>2. \/ Abandon(freed_with_dict(top))
        \/ \E keyFailed, failed \in BOOLEAN :
              Continue(AttachOrNot(AttachOrNot(top.node, top.key, keyFailed), res, failed),
                       keyFailed \/ failed)
    BY <1>13 DEF ValueReturns
  <2> QED  BY <2>1, <2>2, PathAbandoned, PathContinued
<1>14. CASE Finish  BY <1>1, <1>14, PathUntouched DEF Finish, IInv
<1>15. CASE UNCHANGED vars  BY <1>1, <1>15, PathUntouched DEF vars, IInv
<1> QED
  BY <1>2, <1>3, <1>4, <1>5, <1>6, <1>7, <1>8, <1>9, <1>10, <1>11, <1>12, <1>13, <1>14, <1>15
  DEF Next

-----------------------------------------------------------------------------
\* Whatever graph the objects of a file form and whatever was read before, the
\* recursion check of parse_bin_node_at_index compares with exactly the containers
\* that are being filled, and no container is entered inside itself.
THEOREM PathAlwaysMarked == Spec => []PathIsMarked
<1>1. IInv => PathIsMarked  BY DEF IInv, PathInv
<1> QED  BY <1>1, InitReady, InitInv, StepInv, PTL DEF Spec

-----------------------------------------------------------------------------
(***************************************************************************)
(* No node is lost. First the sum over the containers being filled: a      *)
(* recursive function, which exists and is the only one of its kind, both  *)
(* by a least counterexample.                                              *)
(***************************************************************************)
LEMMA LeastCounterexample ==
    ASSUME NEW T \in SUBSET Nat, T # {}
    PROVE  \E n \in T : \A m \in T : n <= m
<1>1. \E n \in T : \A m \in T : <<m, n>> \notin OpToRel(<, Nat)
  BY NatLessThanWellFounded, WFMin
<1>2. \A m, n \in Nat : m < n => <<m, n>> \in OpToRel(<, Nat)  BY DEF OpToRel
<1>3. T \subseteq Nat  OBVIOUS
<1>4. \A m, n \in T : ~(m < n) => n <= m  BY <1>3
<1> QED  BY <1>1, <1>2, <1>3, <1>4

\* t adds up, from left to right, what the frames of s hold.
AddsUp(t, s) ==
    t = [k \in 0..Len(s) |-> IF k = 0 THEN 0 ELSE t[k - 1] + held(s[k])]

Counted(s) == IsSeq(s) /\ \A i \in 1..Len(s) : held(s[i]) \in Nat

LEMMA SumExists ==
    ASSUME NEW s, Counted(s)
    PROVE  \E t \in [0..Len(s) -> Nat] : AddsUp(t, s)
<1> DEFINE Upto(t, n) == /\ t \in [0..n -> Nat]
                         /\ t[0] = 0
                         /\ \A k \in 1..n : t[k] = t[k - 1] + held(s[k])
           Has(n) == \E t : Upto(t, n)
           T == {n \in 0..Len(s) : ~Has(n)}
<1>1. Len(s) \in Nat
  <2>1. PICK S : s \in Seq(S)  BY DEF Counted, IsSeq
  <2> QED  BY <2>1, LenProperties
<1>2. T = {}
  <2> SUFFICES ASSUME T # {} PROVE FALSE  OBVIOUS
  <2>1. T \in SUBSET Nat  BY <1>1
  <2>2. PICK n \in T : \A m \in T : n <= m  BY <2>1, LeastCounterexample
  <2>3. n \in 0..Len(s) /\ n \in Nat /\ ~Has(n)
    <3> HIDE DEF Has
    <3> QED  BY <1>1, <2>2
  <2>4. CASE n = 0
    <3>1. Upto([k \in 0..0 |-> 0], 0)  OBVIOUS
    <3> QED  BY <2>3, <2>4, <3>1
  <2>5. CASE n # 0
    <3>1. Has(n - 1)
      <4> HIDE DEF Has
      <4> QED  BY <1>1, <2>2, <2>3, <2>5
    <3>2. PICK t : Upto(t, n - 1)  BY <3>1
    <3> DEFINE u == [k \in 0..n |-> IF k = n THEN t[n - 1] + held(s[n]) ELSE t[k]]
    <3>3. held(s[n]) \in Nat  BY <1>1, <2>3, <2>5 DEF Counted
    <3>4. t[n - 1] \in Nat /\ \A k \in 0..(n - 1) : t[k] \in Nat  BY <2>3, <2>5, <3>2
    <3>5. u \in [0..n -> Nat]  BY <2>3, <2>5, <3>3, <3>4
    <3>6. u[0] = 0  BY <2>3, <2>5, <3>2
    <3>7. \A k \in 1..n : u[k] = u[k - 1] + held(s[k])
      <4> SUFFICES ASSUME NEW k \in 1..n PROVE u[k] = u[k - 1] + held(s[k])  OBVIOUS
      <4>1. CASE k = n
        <5>1. u[k] = t[n - 1] + held(s[n]) /\ u[k - 1] = t[n - 1]  BY <2>3, <2>5, <4>1
        <5> QED  BY <4>1, <5>1
      <4>2. CASE k # n
        <5>1. k \in 1..(n - 1) /\ k - 1 # n /\ k \in 0..n /\ k - 1 \in 0..n  BY <2>3, <4>2
        <5>2. u[k] = t[k] /\ u[k - 1] = t[k - 1]  BY <4>2, <5>1
        <5> QED  BY <3>2, <5>1, <5>2
      <4> QED  BY <4>1, <4>2
    <3>8. Upto(u, n)  BY <3>5, <3>6, <3>7
    <3> QED  BY <2>3, <3>8
  <2> QED  BY <2>4, <2>5
<1>3. PICK t : Upto(t, Len(s))
  <2>1. Len(s) \in 0..Len(s)  BY <1>1
  <2> QED  BY <1>2, <2>1
<1>4. t = [k \in 0..Len(s) |-> t[k]]  BY <1>3
<1>5. \A k \in 0..Len(s) : t[k] = IF k = 0 THEN 0 ELSE t[k - 1] + held(s[k])
  BY <1>1, <1>3
<1>6. [k \in 0..Len(s) |-> t[k]]
        = [k \in 0..Len(s) |-> IF k = 0 THEN 0 ELSE t[k - 1] + held(s[k])]
  BY <1>5
<1> QED  BY <1>4, <1>6 DEF AddsUp

\* HeldBy is what such a function ends with.
LEMMA HeldByAddsUp ==
    ASSUME NEW s, Counted(s)
    PROVE  \E t : AddsUp(t, s) /\ HeldBy(s) = t[Len(s)]
<1> DEFINE t == CHOOSE t : AddsUp(t, s)
<1>1. AddsUp(t, s)  BY SumExists
<1>2. HeldBy(s) = t[Len(s)]  BY DEF HeldBy, AddsUp
<1> QED  BY <1>1, <1>2

\* The first elements of a sequence, summed up, do not depend on those after them.
LEMMA SumsAgree ==
    ASSUME NEW s, NEW r, Len(s) \in Nat, Len(r) \in Nat, Len(s) <= Len(r),
           \A i \in 1..Len(s) : r[i] = s[i],
           NEW t, AddsUp(t, s), NEW u, AddsUp(u, r)
    PROVE  \A k \in 0..Len(s) : u[k] = t[k]
<1> DEFINE T == {k \in 0..Len(s) : u[k] # t[k]}
<1> SUFFICES ASSUME T # {} PROVE FALSE  OBVIOUS
<1>1. T \in SUBSET Nat  OBVIOUS
<1>2. PICK n \in T : \A m \in T : n <= m  BY <1>1, LeastCounterexample
<1>3. n \in 0..Len(s) /\ n \in 0..Len(r) /\ u[n] # t[n]  BY <1>2
<1>4. /\ t[n] = IF n = 0 THEN 0 ELSE t[n - 1] + held(s[n])
      /\ u[n] = IF n = 0 THEN 0 ELSE u[n - 1] + held(r[n])
  BY <1>3 DEF AddsUp
<1>5. n # 0  BY <1>3, <1>4
<1>6. n - 1 \in 0..Len(s) /\ n \in 1..Len(s) /\ ~(n <= n - 1)  BY <1>3, <1>5
<1>7. u[n - 1] = t[n - 1]  BY <1>2, <1>6
<1>8. r[n] = s[n]  BY <1>6
<1> QED  BY <1>3, <1>4, <1>5, <1>7, <1>8

LEMMA HeldByNatural ==
    ASSUME NEW s, Counted(s)
    PROVE  HeldBy(s) \in Nat
<1>1. Len(s) \in Nat
  <2>1. PICK S : s \in Seq(S)  BY DEF Counted, IsSeq
  <2> QED  BY <2>1, LenProperties
<1>2. PICK t : AddsUp(t, s) /\ HeldBy(s) = t[Len(s)]  BY HeldByAddsUp
<1>3. PICK u \in [0..Len(s) -> Nat] : AddsUp(u, s)  BY SumExists
<1>4. Len(s) <= Len(s) /\ Len(s) \in 0..Len(s)  BY <1>1
<1>5. \A k \in 0..Len(s) : u[k] = t[k]  BY <1>1, <1>2, <1>3, <1>4, SumsAgree
<1> QED  BY <1>2, <1>3, <1>4, <1>5

LEMMA HeldByNone == HeldBy(<<>>) = 0
<1>1. Counted(<<>>)
  <2>1. <<>> \in Seq({}) /\ Len(<<>>) = 0  BY EmptySeq
  <2> QED  BY <2>1 DEF Counted, IsSeq
<1>2. PICK t : AddsUp(t, <<>>) /\ HeldBy(<<>>) = t[Len(<<>>)]  BY <1>1, HeldByAddsUp
<1>3. Len(<<>>) = 0 /\ 0 \in 0..0  OBVIOUS
<1> QED  BY <1>2, <1>3 DEF AddsUp

\* A frame more.
LEMMA HeldByAppended ==
    ASSUME NEW s, Counted(s), NEW e, held(e) \in Nat
    PROVE  /\ Counted(Append(s, e))
           /\ HeldBy(Append(s, e)) = HeldBy(s) + held(e)
<1> DEFINE r == Append(s, e)
<1>1. /\ IsSeq(r) /\ Len(s) \in Nat /\ Len(r) = Len(s) + 1
      /\ \A i \in 1..Len(s) : r[i] = s[i]
      /\ r[Len(s) + 1] = e
  BY Appended DEF Counted
<1> HIDE DEF r
<1>2. Counted(r)
  <2>1. \A i \in 1..Len(r) : i \in 1..Len(s) \/ i = Len(s) + 1  BY <1>1
  <2>2. \A i \in 1..Len(s) : held(s[i]) \in Nat  BY DEF Counted
  <2>3. \A i \in 1..Len(r) : held(r[i]) \in Nat  BY <1>1, <2>1, <2>2
  <2> QED  BY <1>1, <2>3 DEF Counted
<1>3. PICK t : AddsUp(t, s) /\ HeldBy(s) = t[Len(s)]  BY HeldByAddsUp
<1>4. PICK u : AddsUp(u, r) /\ HeldBy(r) = u[Len(r)]  BY <1>2, HeldByAddsUp
<1>5. u[Len(s)] = t[Len(s)]
  <2>1. Len(r) \in Nat /\ Len(s) <= Len(r)  BY <1>1
  <2>2. \A k \in 0..Len(s) : u[k] = t[k]  BY <1>1, <1>3, <1>4, <2>1, SumsAgree
  <2> QED  BY <1>1, <2>2
<1>6. u[Len(r)] = u[Len(s)] + held(r[Len(r)])
  <2>1. Len(r) \in 0..Len(r) /\ Len(r) # 0 /\ Len(r) - 1 = Len(s)  BY <1>1
  <2> QED  BY <1>4, <2>1 DEF AddsUp
<1> QED  BY <1>1, <1>2, <1>3, <1>4, <1>5, <1>6 DEF r

\* A frame less, and the last frame exchanged for another.
LEMMA HeldByShortened ==
    ASSUME NEW s, Counted(s), s # <<>>
    PROVE  /\ Counted(Front(s)) /\ held(Last(s)) \in Nat
           /\ HeldBy(s) = HeldBy(Front(s)) + held(Last(s))
<1> DEFINE r == Front(s)
           e == Last(s)
<1>1. /\ IsSeq(r) /\ Len(s) \in Nat /\ Len(s) > 0 /\ Len(r) = Len(s) - 1
      /\ \A i \in 1..(Len(s) - 1) : r[i] = s[i]
      /\ e = s[Len(s)]
  BY Shortened DEF Counted
<1>2. s = Append(r, e)
  <2>1. PICK S : s \in Seq(S)  BY DEF Counted, IsSeq
  <2>2. s[Len(s)] \in S  BY <1>1, <2>1, ElementOfSeq
  <2>3. \A i \in 1..(Len(s) - 1) : s[i] \in S  BY <1>1, <2>1, ElementOfSeq
  <2>4. r \in Seq(S)
    <3>1. r = SubSeq(s, 1, Len(s) - 1)  BY DEF Front
    <3>2. 1 \in Int /\ Len(s) - 1 \in Int  BY <1>1
    <3> QED  BY <2>3, <3>1, <3>2, SubSeqProperties
  <2> HIDE DEF r, e
  <2>5. Append(r, e) \in Seq(S) /\ Len(Append(r, e)) = Len(s)
    BY <1>1, <2>2, <2>4, AppendProperties
  <2>6. \A i \in 1..Len(s) : Append(r, e)[i] = s[i]
    <3>1. \A i \in 1..Len(r) : Append(r, e)[i] = r[i]  BY <1>1, <2>2, <2>4, AppendProperties
    <3>2. Append(r, e)[Len(r) + 1] = e  BY <1>1, <2>2, <2>4, AppendProperties
    <3>3. \A i \in 1..Len(s) : i \in 1..Len(r) \/ i = Len(r) + 1  BY <1>1
    <3> QED  BY <1>1, <3>1, <3>2, <3>3
  <2> QED  BY <2>1, <2>5, <2>6, SeqEqual
<1> HIDE DEF r, e
<1>3. Counted(r) /\ held(e) \in Nat
  <2>1. \A i \in 1..Len(s) : held(s[i]) \in Nat  BY DEF Counted
  <2>2. \A i \in 1..Len(r) : i \in 1..Len(s) /\ r[i] = s[i]  BY <1>1
  <2>3. Len(s) \in 1..Len(s)  BY <1>1
  <2>4. \A i \in 1..Len(r) : held(r[i]) \in Nat  BY <2>1, <2>2
  <2> QED  BY <1>1, <2>1, <2>3, <2>4 DEF Counted
<1>4. HeldBy(s) = HeldBy(r) + held(e)  BY <1>2, <1>3, HeldByAppended
<1> QED  BY <1>3, <1>4 DEF r, e

-----------------------------------------------------------------------------
\* A tree l levels below the root: node_attach will not find it too high there.
TreeFits(t, l) ==
    /\ {"type", "kids", "height", "size"} \subseteq DOMAIN t
    /\ t.size \in Nat /\ t.size > 0
    /\ t.height \in Nat /\ l + t.height <= MaxNesting

\* A container l levels below the root that is being filled. Only a dict has a key
\* that waits for its value.
FrameFits(f, frame, l) ==
    /\ DOMAIN frame = {"index", "j", "key", "node"}
    /\ TreeFits(frame.node, l)
    /\ \/ frame.key = NULL
       \/ TreeFits(frame.key, l + 1) /\ Object(f, frame.index).type = "dict"

FramesFit(f, s) == IsSeq(s) /\ \A i \in 1..Len(s) : FrameFits(f, s[i], i - 1)

\* What is inductive, of which NothingLeaked is a part.
NodesInv ==
    /\ FramesFit(file, stack)
    /\ pc = "start" => res = NULL
    /\ pc \in {"return", "done"} => res = NULL \/ TreeFits(res, level)
    /\ pc = "loop" => stack # <<>> /\ top.key = NULL
    /\ NothingLeaked

LEMMA LeafFits ==
    ASSUME NEW type, NEW value, NEW l \in Nat, ~too_deep(l)
    PROVE  TreeFits(Leaf(type, value), l) /\ Leaf(type, value).size = 1
BY NestingAssumption DEF TreeFits, Leaf, too_deep

LEMMA KeyFits ==
    ASSUME NEW t, NEW l, TreeFits(t, l)
    PROVE  TreeFits(AsKey(t), l) /\ AsKey(t).size = t.size
BY DEF TreeFits, AsKey

LEMMA NullIsNoTree ==
    /\ NULL.size = 0
    /\ \A t, l : TreeFits(t, l) => t # NULL
<1>1. NULL.size = 0  BY DEF NULL
<1> HIDE DEF NULL
<1> QED  BY <1>1 DEF TreeFits

\* node_attach never refuses a child one level further down.
LEMMA ChildIsAttached ==
    ASSUME NEW l \in Nat, NEW node, TreeFits(node, l), NEW child, TreeFits(child, l + 1),
           NEW failed \in BOOLEAN
    PROVE  /\ TreeFits(AttachOrNot(node, child, failed), l)
           /\ ~failed => AttachOrNot(node, child, failed).size = node.size + child.size
<1>1. CASE failed  BY <1>1 DEF AttachOrNot
<1>2. CASE ~failed
  <2>1. child.height \in Nat /\ node.height \in Nat /\ child.size \in Nat /\ node.size \in Nat
    BY DEF TreeFits
  <2>2. ~(child.height + 1 > MaxNesting) /\ l + (child.height + 1) <= MaxNesting
    BY <2>1, NestingAssumption DEF TreeFits
  <2>3. AttachOrNot(node, child, failed) = Adopt(node, child)
    BY <1>2, <2>2 DEF AttachOrNot, node_attach
  <2>4. /\ DOMAIN Adopt(node, child) = DOMAIN node
        /\ Adopt(node, child).size = node.size + child.size
        /\ Adopt(node, child).height = Higher(node.height, child.height + 1)
    BY DEF Adopt, TreeFits
  <2>5. /\ Higher(node.height, child.height + 1) \in Nat
        /\ l + Higher(node.height, child.height + 1) <= MaxNesting
    BY <2>1, <2>2, NestingAssumption DEF Higher, TreeFits
  <2> HIDE DEF TreeFits
  <2>6. TreeFits(Adopt(node, child), l)  BY <2>1, <2>4, <2>5 DEF TreeFits
  <2> QED  BY <1>2, <2>3, <2>4, <2>6
<1> QED  BY <1>1, <1>2

\* What the frames hold is counted.
LEMMA FrameHolds ==
    ASSUME NEW f, NEW frame, NEW l, FrameFits(f, frame, l)
    PROVE  /\ frame.node.size \in Nat /\ frame.key.size \in Nat
           /\ held(frame) = frame.node.size + frame.key.size /\ held(frame) \in Nat
BY NullIsNoTree DEF FrameFits, TreeFits, held

LEMMA FramesCounted ==
    ASSUME NEW f, NEW s, FramesFit(f, s)
    PROVE  Counted(s) /\ Len(s) \in Nat /\ HeldBy(s) \in Nat
<1>1. Counted(s)  BY FrameHolds DEF FramesFit, Counted
<1>2. Len(s) \in Nat
  <2>1. PICK S : s \in Seq(S)  BY DEF FramesFit, IsSeq
  <2> QED  BY <2>1, LenProperties
<1> QED  BY <1>1, <1>2, HeldByNatural

LEMMA FramePushed ==
    ASSUME NEW f, NEW s, FramesFit(f, s), NEW e, FrameFits(f, e, Len(s))
    PROVE  /\ FramesFit(f, Append(s, e)) /\ Len(Append(s, e)) = Len(s) + 1
           /\ Append(s, e) # <<>> /\ Last(Append(s, e)) = e
           /\ HeldBy(Append(s, e)) = HeldBy(s) + held(e)
<1> DEFINE r == Append(s, e)
<1>1. /\ IsSeq(r) /\ Len(s) \in Nat /\ Len(r) = Len(s) + 1
      /\ \A i \in 1..Len(s) : r[i] = s[i]
      /\ r[Len(s) + 1] = e
  BY Appended DEF FramesFit
<1>2. HeldBy(r) = HeldBy(s) + held(e)
  <2>1. Counted(s) /\ held(e) \in Nat  BY FramesCounted, FrameHolds
  <2> QED  BY <2>1, HeldByAppended
<1> HIDE DEF r
<1>3. FramesFit(f, r)
  <2>1. \A i \in 1..Len(r) : i \in 1..Len(s) \/ i = Len(s) + 1  BY <1>1
  <2>2. \A i \in 1..Len(s) : FrameFits(f, r[i], i - 1)  BY <1>1 DEF FramesFit
  <2>3. Len(s) + 1 - 1 = Len(s)  BY <1>1
  <2>4. FrameFits(f, r[Len(s) + 1], Len(s) + 1 - 1)  BY <1>1, <2>3
  <2> QED  BY <1>1, <2>1, <2>2, <2>4 DEF FramesFit
<1>4. r # <<>>  BY <1>1, EmptySeq
<1>5. Last(r) = e  BY <1>1 DEF Last
<1> QED  BY <1>1, <1>2, <1>3, <1>4, <1>5 DEF r

LEMMA FramePopped ==
    ASSUME NEW f, NEW s, FramesFit(f, s), s # <<>>
    PROVE  /\ FramesFit(f, Front(s)) /\ Len(s) \in Nat /\ Len(s) > 0
           /\ Len(Front(s)) = Len(s) - 1
           /\ FrameFits(f, Last(s), Len(s) - 1)
           /\ HeldBy(s) = HeldBy(Front(s)) + held(Last(s))
<1>1. /\ IsSeq(Front(s)) /\ Len(s) \in Nat /\ Len(s) > 0 /\ Len(Front(s)) = Len(s) - 1
      /\ \A i \in 1..(Len(s) - 1) : Front(s)[i] = s[i]
      /\ Last(s) = s[Len(s)]
  BY Shortened DEF FramesFit
<1>2. \A i \in 1..Len(s) : FrameFits(f, s[i], i - 1)  BY DEF FramesFit
<1>3. FramesFit(f, Front(s))
  <2>1. \A i \in 1..Len(Front(s)) : i \in 1..Len(s) /\ Front(s)[i] = s[i]  BY <1>1
  <2> QED  BY <1>1, <1>2, <2>1 DEF FramesFit
<1>4. FrameFits(f, Last(s), Len(s) - 1)
  <2>1. Len(s) \in 1..Len(s)  BY <1>1
  <2> QED  BY <1>1, <1>2, <2>1
<1>5. HeldBy(s) = HeldBy(Front(s)) + held(Last(s))
  BY FramesCounted, HeldByShortened
<1> QED  BY <1>1, <1>3, <1>4, <1>5

LEMMA FrameReplaced ==
    ASSUME NEW f, NEW s, FramesFit(f, s), s # <<>>, NEW e, FrameFits(f, e, Len(s) - 1)
    PROVE  /\ FramesFit(f, Append(Front(s), e)) /\ Len(Append(Front(s), e)) = Len(s)
           /\ Append(Front(s), e) # <<>> /\ Last(Append(Front(s), e)) = e
           /\ HeldBy(Append(Front(s), e)) = HeldBy(s) - held(Last(s)) + held(e)
<1> DEFINE r == Front(s)
<1>1. /\ FramesFit(f, r) /\ Len(s) \in Nat /\ Len(r) = Len(s) - 1
      /\ HeldBy(s) = HeldBy(r) + held(Last(s))
      /\ FrameFits(f, Last(s), Len(s) - 1)
  BY FramePopped
<1> HIDE DEF r
<1>2. FrameFits(f, e, Len(r))  BY <1>1
<1>3. /\ FramesFit(f, Append(r, e)) /\ Len(Append(r, e)) = Len(r) + 1
      /\ Append(r, e) # <<>> /\ Last(Append(r, e)) = e
      /\ HeldBy(Append(r, e)) = HeldBy(r) + held(e)
  BY <1>1, <1>2, FramePushed
<1>4. HeldBy(r) \in Nat /\ held(Last(s)) \in Nat /\ held(e) \in Nat
  BY <1>1, FramesCounted, FrameHolds
<1>5. /\ Len(Append(r, e)) = Len(s)
      /\ HeldBy(Append(r, e)) = HeldBy(s) - held(Last(s)) + held(e)
  BY <1>1, <1>3, <1>4
<1> QED  BY <1>3, <1>5 DEF r

LEMMA NodesInit == Idle => NodesInv
<1> SUFFICES ASSUME Idle PROVE NodesInv  OBVIOUS
<1>1. stack = <<>> /\ pc = "start" /\ res = NULL /\ allocated = 0 /\ oom = {}
  BY DEF Idle
<1>2. FramesFit(file, <<>>)
  <2>1. <<>> \in Seq({}) /\ Len(<<>>) = 0  BY EmptySeq
  <2> QED  BY <2>1 DEF FramesFit, IsSeq
<1> QED  BY <1>1, <1>2, HeldByNone DEF NodesInv, NothingLeaked

\* Nothing happens to the frames, and no tree returns.
LEMMA NodesUntouched ==
    ASSUME NodesInv, UNCHANGED <<file, stack>>,
           pc' # "loop", pc' # "start", pc' \in {"return", "done"} => res' = NULL,
           pc \in {"return", "done"} => res = NULL,
           UNCHANGED allocated, oom \subseteq oom'
    PROVE  NodesInv'
<1>1. "attach" \notin oom' => allocated' = HeldBy(stack')
  BY NullIsNoTree, FramesCounted DEF NodesInv, NothingLeaked
<1>2. NothingLeaked'
  <2>1. HeldBy(stack') \in Nat  BY FramesCounted DEF NodesInv
  <2> QED  BY <1>1, <2>1, NullIsNoTree DEF NothingLeaked
<1> QED  BY <1>2 DEF NodesInv

\* A container is given up, with gone nodes that were not in it.
LEMMA NodesAbandoned ==
    ASSUME NodesInv, stack # <<>>, NEW gone \in Nat, Abandon(gone),
           "attach" \notin oom => allocated = HeldBy(stack) - top.key.size + gone
    PROVE  NodesInv'
<1>1. /\ FramesFit(file, Front(stack))
      /\ FrameFits(file, top, Len(stack) - 1)
      /\ HeldBy(stack) = HeldBy(Front(stack)) + held(top)
  BY FramePopped DEF NodesInv, top
<1>2. /\ pc' = "return" /\ res' = NULL /\ stack' = Front(stack) /\ file' = file
      /\ allocated' = allocated - top.node.size - gone /\ oom' = oom
  BY DEF Abandon
<1>3. /\ HeldBy(Front(stack)) \in Nat /\ held(top) = top.node.size + top.key.size
      /\ top.node.size \in Nat /\ top.key.size \in Nat
  BY <1>1, FramesCounted, FrameHolds
<1>4. "attach" \notin oom => allocated' = HeldBy(stack')
  <2>1. "attach" \notin oom => allocated = HeldBy(stack) - top.key.size + gone  OBVIOUS
  <2>2. HeldBy(stack') = HeldBy(Front(stack))  BY <1>2
  <2> QED  BY ONLY gone \in Nat, <2>1, <2>2, <1>1, <1>2, <1>3
<1>5. NothingLeaked'  BY <1>2, <1>3, <1>4, NullIsNoTree DEF NothingLeaked
<1> QED  BY <1>1, <1>2, <1>5 DEF NodesInv

\* A container gets what the iteration made of it.
LEMMA NodesContinued ==
    ASSUME NodesInv, stack # <<>>, NEW node, NEW failed \in BOOLEAN, Continue(node, failed),
           TreeFits(node, level - 1),
           "attach" \notin oom /\ ~failed =>
              allocated = HeldBy(stack) - held(top) + node.size
    PROVE  NodesInv'
<1> DEFINE filled == [top EXCEPT !.j = @ + 1, !.key = NULL, !.node = node]
<1>1. /\ pc' = "loop" /\ stack' = Append(Front(stack), filled)
      /\ UNCHANGED <<file, allocated>> /\ oom' = IF failed THEN oom \cup {"attach"} ELSE oom
  BY DEF Continue
<1>2. FrameFits(file, top, Len(stack) - 1)  BY FramePopped DEF NodesInv, top
<1>3. /\ DOMAIN filled = DOMAIN top
      /\ filled.key = NULL /\ filled.node = node
  BY <1>2 DEF FrameFits
<1> HIDE DEF filled
<1>4. FrameFits(file, filled, Len(stack) - 1)
  BY <1>2, <1>3 DEF FrameFits, level
<1>5. held(filled) = node.size
  <2>1. node.size \in Nat  BY DEF TreeFits
  <2> QED  BY <1>3, <2>1, NullIsNoTree DEF held
<1>6. /\ FramesFit(file, stack') /\ stack' # <<>> /\ Last(stack') = filled
      /\ HeldBy(stack') = HeldBy(stack) - held(top) + node.size
  BY <1>1, <1>4, <1>5, FrameReplaced DEF NodesInv, top
<1>7. "attach" \notin oom' => allocated' = HeldBy(stack') /\ HeldBy(stack') \in Nat
  BY <1>1, <1>6, FramesCounted
<1>8. NothingLeaked'  BY <1>1, <1>7 DEF NothingLeaked
<1> QED  BY <1>1, <1>3, <1>6, <1>8 DEF NodesInv, top

\* The innermost container when something was read for it.
LEMMA TopFits ==
    ASSUME NodesInv, stack # <<>>
    PROVE  /\ level \in Nat /\ level > 0 /\ level - 1 \in Nat /\ level - 1 + 1 = level
           /\ FrameFits(file, top, level - 1)
           /\ held(top) = top.node.size + top.key.size
           /\ top.node.size \in Nat /\ top.key.size \in Nat /\ HeldBy(stack) \in Nat
           /\ TreeFits(top.node, level - 1)
           /\ top.key = NULL \/ TreeFits(top.key, level)
           /\ topObject.type # "dict" => top.key = NULL
<1>1. /\ level \in Nat /\ level > 0
      /\ FrameFits(file, top, level - 1)
  BY FramePopped DEF NodesInv, top, level
<1>2. level - 1 \in Nat /\ level - 1 + 1 = level  BY <1>1
<1>3. HeldBy(stack) \in Nat  BY FramesCounted DEF NodesInv
<1>4. /\ held(top) = top.node.size + top.key.size
      /\ top.node.size \in Nat /\ top.key.size \in Nat
  BY <1>1, FrameHolds
<1>5. /\ TreeFits(top.node, level - 1)
      /\ \/ top.key = NULL
         \/ TreeFits(top.key, level) /\ topObject.type = "dict"
  BY <1>1, <1>2 DEF FrameFits, topObject
<1> QED  BY <1>1, <1>2, <1>3, <1>4, <1>5

\* The tree that returns.
LEMMA ResultFits ==
    ASSUME NodesInv, pc \in {"return", "done"}
    PROVE  /\ res = NULL \/ TreeFits(res, level)
           /\ res.size \in Nat /\ (res = NULL => res.size = 0)
           /\ "attach" \notin oom => allocated = HeldBy(stack) + res.size
BY NullIsNoTree DEF NodesInv, NothingLeaked, TreeFits

LEMMA NodesEntered ==
    ASSUME NodesInv, EnterLeaf \/ EnterContainer
    PROVE  NodesInv'
<1>1. /\ level \in Nat /\ FramesFit(file, stack) /\ HeldBy(stack) \in Nat
      /\ "attach" \notin oom => allocated = HeldBy(stack)
  <2>1. pc = "enter"  BY DEF EnterLeaf, EnterContainer, Entered
  <2> QED  BY <2>1, FramesCounted DEF NodesInv, NothingLeaked, level
<1>2. ~too_deep(level) /\ file' = file /\ oom' = oom /\ allocated' = allocated + 1
  BY DEF EnterLeaf, EnterContainer, Entered
<1>3. CASE EnterLeaf
  <2>1. /\ pc' = "return" /\ stack' = stack
        /\ res' = Leaf(Object(file, arg).type, Object(file, arg).value)
    BY <1>3 DEF EnterLeaf
  <2>2. TreeFits(res', level) /\ res'.size = 1  BY <1>1, <1>2, <2>1, LeafFits
  <2>3. level' = level  BY <2>1 DEF level
  <2>4. NothingLeaked'  BY <1>1, <1>2, <2>1, <2>2 DEF NothingLeaked
  <2> QED  BY <1>1, <1>2, <2>1, <2>2, <2>3, <2>4 DEF NodesInv
<1>4. CASE EnterContainer
  <2> DEFINE node == Leaf(Object(file, arg).type, 0)
             new == [index |-> arg, j |-> 0, key |-> NULL, node |-> node]
  <2>1. pc' = "loop" /\ stack' = Append(stack, new)  BY <1>4 DEF EnterContainer
  <2>2. TreeFits(node, level) /\ node.size = 1  BY <1>1, <1>2, LeafFits
  <2>3. DOMAIN new = {"index", "j", "key", "node"} /\ new.key = NULL /\ new.node = node
    OBVIOUS
  <2> HIDE DEF node, new
  <2>4. FrameFits(file, new, Len(stack))  BY <2>2, <2>3 DEF FrameFits, level
  <2>5. held(new) = 1  BY <2>2, <2>3, NullIsNoTree DEF held
  <2>6. /\ FramesFit(file, stack') /\ stack' # <<>> /\ Last(stack') = new
        /\ HeldBy(stack') = HeldBy(stack) + 1
    BY <1>1, <2>1, <2>4, <2>5, FramePushed
  <2>7. NothingLeaked'  BY <1>1, <1>2, <2>1, <2>6 DEF NothingLeaked
  <2> QED  BY <1>2, <2>1, <2>3, <2>6, <2>7 DEF NodesInv, top
<1> QED  BY <1>3, <1>4

\* A container is complete, and returns.
LEMMA NodesCompleted ==
    ASSUME NodesInv, Complete
    PROVE  NodesInv'
<1>1. stack # <<>> /\ pc = "loop" /\ top.key = NULL  BY DEF NodesInv, Complete
<1>2. /\ pc' = "return" /\ res' = top.node /\ stack' = Front(stack)
      /\ UNCHANGED <<file, allocated, oom>>
  BY DEF Complete
<1>3. /\ FramesFit(file, stack') /\ Len(stack') = level - 1
      /\ HeldBy(stack) = HeldBy(stack') + held(top)
  BY <1>1, <1>2, FramePopped DEF NodesInv, top, level
<1>4. /\ held(top) = top.node.size + top.key.size /\ top.key.size = 0
      /\ top.node.size \in Nat /\ TreeFits(res', level')
  BY <1>1, <1>2, <1>3, TopFits, NullIsNoTree DEF level
<1>5. HeldBy(stack') \in Nat  BY <1>3, FramesCounted
<1>6. "attach" \notin oom' => allocated' = HeldBy(stack') + res'.size
  BY <1>1, <1>2, <1>3, <1>4, <1>5, TopFits DEF NodesInv, NothingLeaked
<1>7. NothingLeaked'  BY <1>2, <1>6 DEF NothingLeaked
<1> QED  BY <1>2, <1>3, <1>4, <1>7 DEF NodesInv

LEMMA ItemCounted ==
    ASSUME NodesInv, ItemReturns
    PROVE  NodesInv'
<1>1. stack # <<>> /\ pc = "return" /\ topObject.type = "array"
  BY DEF ItemReturns, Returned
<1>2. top.key = NULL /\ top.key.size = 0  BY <1>1, TopFits, NullIsNoTree
<1>3. CASE res = NULL /\ Abandon(0)
  <2>1. "attach" \notin oom => allocated = HeldBy(stack) - top.key.size + 0
    BY <1>1, <1>2, <1>3, TopFits, ResultFits
  <2> QED  BY <1>1, <1>3, <2>1, NodesAbandoned
<1>4. ASSUME NEW failed \in BOOLEAN, res # NULL,
             Continue(AttachOrNot(top.node, res, failed), failed)
      PROVE  NodesInv'
  <2> DEFINE node == AttachOrNot(top.node, res, failed)
  <2>1. /\ TreeFits(top.node, level - 1) /\ TreeFits(res, level - 1 + 1)
        /\ level - 1 \in Nat
    BY <1>1, <1>4, TopFits, ResultFits
  <2>2. TreeFits(node, level - 1) /\ (~failed => node.size = top.node.size + res.size)
    BY <2>1, ChildIsAttached
  <2>3. Continue(node, failed)  BY <1>4
  <2> HIDE DEF node
  <2>4. "attach" \notin oom /\ ~failed => allocated = HeldBy(stack) - held(top) + node.size
    BY <1>1, <1>2, <2>2, TopFits, ResultFits
  <2> QED  BY <1>1, <2>2, <2>3, <2>4, NodesContinued
<1> QED  BY <1>3, <1>4 DEF ItemReturns

LEMMA KeyCounted ==
    ASSUME NodesInv, KeyReturns
    PROVE  NodesInv'
<1>1. stack # <<>> /\ pc = "return" /\ top.key = NULL /\ topObject.type = "dict"
  BY DEF KeyReturns, Returned
<1>2. top.key.size = 0  BY <1>1, NullIsNoTree
<1>3. CASE res = NULL /\ Abandon(0)
  <2>1. "attach" \notin oom => allocated = HeldBy(stack) - top.key.size + 0
    BY <1>1, <1>2, <1>3, TopFits, ResultFits
  <2> QED  BY <1>1, <1>3, <2>1, NodesAbandoned
<1>4. CASE res # NULL /\ Abandon(res.size)
  <2>1. "attach" \notin oom => allocated = HeldBy(stack) - top.key.size + res.size
    BY <1>1, <1>2, TopFits, ResultFits
  <2>2. res.size \in Nat  BY <1>1, ResultFits
  <2> QED  BY <1>1, <1>4, <2>1, <2>2, NodesAbandoned
<1>5. CASE /\ res # NULL /\ pc' = "enter" /\ UNCHANGED <<file, allocated, oom>>
           /\ stack' = Append(Front(stack), [top EXCEPT !.key = AsKey(res)])
  <2> DEFINE named == [top EXCEPT !.key = AsKey(res)]
  <2>1. FrameFits(file, top, level - 1) /\ TreeFits(res, level - 1 + 1)
    BY <1>1, <1>5, TopFits, ResultFits
  <2>2. /\ DOMAIN named = {"index", "j", "key", "node"}
        /\ named.key = AsKey(res) /\ named.node = top.node /\ named.index = top.index
    BY <2>1 DEF FrameFits
  <2>3. TreeFits(AsKey(res), level - 1 + 1) /\ AsKey(res).size = res.size
    BY <2>1, KeyFits
  <2>4. stack' = Append(Front(stack), named)  BY <1>5
  <2> HIDE DEF named
  <2>5. FrameFits(file, named, Len(stack) - 1)
    BY <1>1, <2>1, <2>2, <2>3 DEF FrameFits, topObject, level
  <2>6. held(named) = held(top) + res.size
    BY <1>1, <1>2, <2>2, <2>3, TopFits, ResultFits DEF held
  <2>7. /\ FramesFit(file, stack')
        /\ HeldBy(stack') = HeldBy(stack) - held(top) + held(named)
    BY <1>1, <2>4, <2>5, FrameReplaced DEF NodesInv, top
  <2>8. "attach" \notin oom' => allocated' = HeldBy(stack')
    <3>1. HeldBy(stack) \in Nat /\ held(top) \in Nat /\ res.size \in Nat
          /\ ("attach" \notin oom => allocated = HeldBy(stack) + res.size)
      BY <1>1, TopFits, ResultFits
    <3> QED  BY ONLY <3>1, <1>5, <2>6, <2>7
  <2>9. HeldBy(stack') \in Nat  BY <2>7, FramesCounted
  <2>10. NothingLeaked'  BY <1>5, <2>8, <2>9 DEF NothingLeaked
  <2> QED  BY <1>5, <2>7, <2>10 DEF NodesInv
<1> QED  BY <1>3, <1>4, <1>5 DEF KeyReturns

LEMMA ValueCounted ==
    ASSUME NodesInv, ValueReturns
    PROVE  NodesInv'
<1>1. stack # <<>> /\ pc = "return" /\ top.key # NULL
  BY DEF ValueReturns, Returned
<1>2. CASE res = NULL /\ Abandon(freed_with_dict(top))
  <2>1. freed_with_dict(top) = top.key.size  BY DEF freed_with_dict
  <2>2. "attach" \notin oom => allocated = HeldBy(stack) - top.key.size + top.key.size
    BY <1>1, <1>2, TopFits, ResultFits
  <2>3. top.key.size \in Nat  BY <1>1, TopFits
  <2> QED  BY <1>1, <1>2, <2>1, <2>2, <2>3, NodesAbandoned
<1>3. ASSUME NEW keyFailed \in BOOLEAN, NEW failed \in BOOLEAN, res # NULL,
             Continue(AttachOrNot(AttachOrNot(top.node, top.key, keyFailed), res, failed),
                      keyFailed \/ failed)
      PROVE  NodesInv'
  <2> DEFINE withKey == AttachOrNot(top.node, top.key, keyFailed)
             node == AttachOrNot(withKey, res, failed)
  <2>1. /\ TreeFits(top.node, level - 1) /\ TreeFits(top.key, level - 1 + 1)
        /\ TreeFits(res, level - 1 + 1) /\ level - 1 \in Nat
    BY <1>1, <1>3, TopFits, ResultFits
  <2>2. /\ TreeFits(withKey, level - 1)
        /\ ~keyFailed => withKey.size = top.node.size + top.key.size
    BY <2>1, ChildIsAttached
  <2>3. Continue(node, keyFailed \/ failed)  BY <1>3
  <2> HIDE DEF withKey
  <2>4. TreeFits(node, level - 1) /\ (~failed => node.size = withKey.size + res.size)
    BY <2>1, <2>2, ChildIsAttached
  <2> HIDE DEF node
  <2>5. (keyFailed \/ failed) \in BOOLEAN  OBVIOUS
  <2>6. "attach" \notin oom /\ ~(keyFailed \/ failed) =>
           allocated = HeldBy(stack) - held(top) + node.size
    BY <1>1, <2>2, <2>4, TopFits, ResultFits
  <2> QED  BY <1>1, <2>3, <2>4, <2>5, <2>6, NodesContinued
<1> QED  BY <1>2, <1>3 DEF ValueReturns

LEMMA NodesStep == NodesInv /\ [Next]_vars => NodesInv'
<1> SUFFICES ASSUME NodesInv, [Next]_vars PROVE NodesInv'  OBVIOUS
<1>1. CASE StartRefused  BY <1>1, NodesUntouched DEF StartRefused, NodesInv
<1>2. CASE Start  BY <1>2, NodesUntouched DEF Start
<1>3. CASE EnterRefused
  <2>1. pc = "enter" /\ pc' = "return" /\ res' = NULL /\ UNCHANGED <<file, stack, allocated, oom>>
    BY <1>3 DEF EnterRefused, Refuse
  <2> QED  BY <2>1, NodesUntouched
<1>4. CASE EnterFails
  <2>1. /\ pc = "enter" /\ pc' = "return" /\ res' = NULL /\ UNCHANGED <<file, stack, allocated>>
        /\ oom \subseteq oom'
    BY <1>4 DEF EnterFails, Entered, Refuse
  <2> QED  BY <2>1, NodesUntouched
<1>5. CASE EnterLeaf  BY <1>5, NodesEntered
<1>6. CASE EnterContainer  BY <1>6, NodesEntered
<1>7. CASE Complete  BY <1>7, NodesCompleted
<1>8. CASE BadRef
  <2>1. stack # <<>> /\ pc = "loop" /\ top.key = NULL /\ Abandon(0)
    BY <1>8 DEF BadRef, NodesInv
  <2>2. "attach" \notin oom => allocated = HeldBy(stack) - top.key.size + 0
    BY <2>1, TopFits, NullIsNoTree DEF NodesInv, NothingLeaked
  <2> QED  BY <2>1, <2>2, NodesAbandoned
<1>9. CASE FollowRef  BY <1>9, NodesUntouched DEF FollowRef
<1>10. CASE ItemReturns  BY <1>10, ItemCounted
<1>11. CASE KeyReturns  BY <1>11, KeyCounted
<1>12. CASE ValueReturns  BY <1>12, ValueCounted
<1>13. CASE Finish
  <2>1. pc = "return" /\ pc' = "done" /\ UNCHANGED <<file, res, stack, allocated, oom>>
    BY <1>13 DEF Finish
  <2>2. level' = level  BY <2>1 DEF level
  <2> QED  BY <2>1, <2>2 DEF NodesInv, NothingLeaked
<1>14. CASE UNCHANGED vars
  BY <1>14 DEF vars, NodesInv, NothingLeaked, level, top
<1> QED
  BY <1>1, <1>2, <1>3, <1>4, <1>5, <1>6, <1>7, <1>8, <1>9, <1>10, <1>11, <1>12, <1>13, <1>14
  DEF Next

\* Whatever a file's objects are and whichever nodes cannot be allocated, as long as
\* there is memory to attach a child: parse_bin_node_at_index, parse_dict_node and
\* parse_array_node lose no node, on no path, although none of them looks at the
\* result of node_attach.
THEOREM NothingEverLeaks == Spec => []NothingLeaked
<1>1. NodesInv => NothingLeaked  BY DEF NodesInv
<1> QED  BY <1>1, InitReady, NodesInit, NodesStep, PTL DEF Spec
-----------------------------------------------------------------------------
(***************************************************************************)
(* What is called circular is circular, and what is called too nested is   *)
(* too nested. The stack is a path of refs from the root, and arg, when an *)
(* object is entered, is one ref further.                                  *)
(***************************************************************************)
\* p is a path of k refs from object i.
Steps(f, i, k, p) ==
    /\ p \in [0..k -> Indices(f)] /\ p[0] = i
    /\ \A m \in 0..(k - 1) : p[m + 1] \in Next_to(f, p[m])

Ends(f, i, k) == {e \in Indices(f) : \E p : Steps(f, i, k, p) /\ p[k] = e}

\* The ends of the paths that are one ref longer.
LEMMA OneFurther ==
    ASSUME NEW f, NEW i \in Indices(f)
    PROVE  /\ Ends(f, i, 0) = {i}
           /\ \A k \in Nat : Ends(f, i, k + 1) = UNION {Next_to(f, m) : m \in Ends(f, i, k)}
<1>1. Ends(f, i, 0) = {i}
  <2>1. Steps(f, i, 0, [m \in 0..0 |-> i])  BY DEF Steps
  <2>2. [m \in 0..0 |-> i][0] = i  OBVIOUS
  <2>3. \A p : Steps(f, i, 0, p) => p[0] = i  BY DEF Steps
  <2> QED  BY <2>1, <2>2, <2>3 DEF Ends
<1>2. ASSUME NEW k \in Nat, NEW e \in Ends(f, i, k + 1)
      PROVE  \E m \in Ends(f, i, k) : e \in Next_to(f, m)
  <2>1. PICK p : Steps(f, i, k + 1, p) /\ p[k + 1] = e  BY <1>2 DEF Ends
  <2> DEFINE q == [m \in 0..k |-> p[m]]
  <2>2. /\ p \in [0..(k + 1) -> Indices(f)] /\ p[0] = i
        /\ \A m \in 0..k : p[m + 1] \in Next_to(f, p[m])
    <3>1. k + 1 - 1 = k  OBVIOUS
    <3> QED  BY <2>1, <3>1 DEF Steps
  <2>3. \A m \in 0..k : m \in 0..(k + 1)  OBVIOUS
  <2>4. q \in [0..k -> Indices(f)] /\ q[0] = i /\ q[k] = p[k]  BY <2>2, <2>3
  <2>5. \A m \in 0..(k - 1) : /\ m \in 0..k /\ m + 1 \in 0..k
                              /\ q[m] = p[m] /\ q[m + 1] = p[m + 1]
    OBVIOUS
  <2> HIDE DEF q
  <2>6. Steps(f, i, k, q)  BY <2>2, <2>4, <2>5 DEF Steps
  <2>7. k \in 0..k  OBVIOUS
  <2>8. q[k] \in Ends(f, i, k)  BY <2>4, <2>6, <2>7 DEF Ends
  <2> QED  BY <2>1, <2>2, <2>4, <2>7, <2>8
<1>3. ASSUME NEW k \in Nat, NEW m \in Ends(f, i, k), NEW e \in Next_to(f, m)
      PROVE  e \in Ends(f, i, k + 1)
  <2>1. PICK p : Steps(f, i, k, p) /\ p[k] = m  BY <1>3 DEF Ends
  <2>2. e \in Indices(f)  BY <1>3 DEF Next_to
  <2> DEFINE q == [l \in 0..(k + 1) |-> IF l = k + 1 THEN e ELSE p[l]]
  <2>3. /\ p \in [0..k -> Indices(f)] /\ p[0] = i
        /\ \A l \in 0..(k - 1) : p[l + 1] \in Next_to(f, p[l])
    BY <2>1 DEF Steps
  <2>4. \A l \in 0..(k + 1) : l = k + 1 \/ l \in 0..k  OBVIOUS
  <2>5. q \in [0..(k + 1) -> Indices(f)]  BY <2>2, <2>3, <2>4
  <2>6. q[0] = i /\ q[k + 1] = e /\ \A l \in 0..k : q[l] = p[l]  BY <2>3
  <2> HIDE DEF q
  <2>7. \A l \in 0..k : q[l + 1] \in Next_to(f, q[l])
    <3> SUFFICES ASSUME NEW l \in 0..k PROVE q[l + 1] \in Next_to(f, q[l])  OBVIOUS
    <3>1. CASE l = k  BY <1>3, <2>1, <2>6, <3>1
    <3>2. CASE l # k
      <4>1. l \in 0..(k - 1) /\ l + 1 \in 0..k  BY <3>2
      <4> QED  BY <2>3, <2>6, <4>1
    <3> QED  BY <3>1, <3>2
  <2>8. k + 1 - 1 = k  OBVIOUS
  <2>9. Steps(f, i, k + 1, q)  BY <2>5, <2>6, <2>7, <2>8 DEF Steps
  <2> QED  BY <2>2, <2>6, <2>9 DEF Ends
<1>4. ASSUME NEW k \in Nat
      PROVE  Ends(f, i, k + 1) = UNION {Next_to(f, m) : m \in Ends(f, i, k)}
  <2>1. Ends(f, i, k + 1) \subseteq UNION {Next_to(f, m) : m \in Ends(f, i, k)}
    BY <1>2, <1>4
  <2>2. UNION {Next_to(f, m) : m \in Ends(f, i, k)} \subseteq Ends(f, i, k + 1)
    BY <1>3, <1>4
  <2> QED  BY <2>1, <2>2
<1> QED  BY <1>1, <1>4

\* The levels of a file, as it defines them, are the ends of paths: one function
\* satisfies the recursive definition.
LEMMA AtLevelIs ==
    ASSUME NEW f, f.root \in Indices(f)
    PROVE  \A k \in 0..(MaxNesting + 1) : AtLevel(f)[k] = Ends(f, f.root, k)
<1> DEFINE N == MaxNesting + 1
           further(S) == UNION {Next_to(f, i) : i \in S}
           Solves(at) == at = [k \in 0..N |-> IF k = 0 THEN {f.root} ELSE further(at[k - 1])]
           u == CHOOSE at : Solves(at)
           e == [k \in 0..N |-> Ends(f, f.root, k)]
<1>1. N \in Nat  BY NestingAssumption
<1>2. \A k \in 0..N : e[k] = IF k = 0 THEN {f.root} ELSE further(e[k - 1])
  <2> SUFFICES ASSUME NEW k \in 0..N
               PROVE  e[k] = IF k = 0 THEN {f.root} ELSE further(e[k - 1])
    OBVIOUS
  <2>1. CASE k = 0  BY <2>1, OneFurther
  <2>2. CASE k # 0
    <3>1. k - 1 \in Nat /\ k - 1 \in 0..N /\ k - 1 + 1 = k  BY <1>1, <2>2
    <3>2. e[k] = Ends(f, f.root, k) /\ e[k - 1] = Ends(f, f.root, k - 1)  BY <3>1
    <3>3. Ends(f, f.root, k - 1 + 1) = further(Ends(f, f.root, k - 1))  BY <3>1, OneFurther
    <3> QED  BY <2>2, <3>1, <3>2, <3>3
  <2> QED  BY <2>1, <2>2
<1>3. e = [k \in 0..N |-> e[k]]  OBVIOUS
<1>4. \A k \in 0..N : e[k] = Ends(f, f.root, k)  OBVIOUS
<1> HIDE DEF e, further, N
<1>5. Solves(e)
  <2>1. e = [k \in 0..N |-> IF k = 0 THEN {f.root} ELSE further(e[k - 1])]  BY <1>2, <1>3
  <2> QED  BY <2>1
<1>6. Solves(u)  BY <1>5
<1>7. AtLevel(f) = u  BY DEF AtLevel, N, further
<1> HIDE DEF u
<1>8. \A k \in 0..N : u[k] = IF k = 0 THEN {f.root} ELSE further(u[k - 1])
  BY <1>6
<1> HIDE DEF Solves
<1>9. \A k \in 0..N : u[k] = e[k]
  <2> DEFINE T == {k \in 0..N : u[k] # e[k]}
  <2> SUFFICES ASSUME T # {} PROVE FALSE  OBVIOUS
  <2>1. T \in SUBSET Nat  BY <1>1
  <2>2. PICK n \in T : \A m \in T : n <= m  BY <2>1, LeastCounterexample
  <2>3. n \in 0..N /\ u[n] # e[n]  BY <2>2
  <2>4. n # 0  BY <1>2, <1>8, <2>3
  <2>5. n - 1 \in 0..N /\ ~(n <= n - 1)  BY <1>1, <2>3, <2>4
  <2>6. u[n - 1] = e[n - 1]  BY <2>2, <2>5
  <2> QED  BY <1>2, <1>8, <2>3, <2>4, <2>6
<1> QED  BY <1>4, <1>7, <1>9 DEF N

LEMMA BelowIs ==
    ASSUME NEW f, NumObjects(f) \in Nat, NEW i \in Indices(f)
    PROVE  Below(f, i) = UNION {Ends(f, i, k) : k \in 1..NumObjects(f)}
<1> DEFINE N == NumObjects(f)
           further(S) == UNION {Next_to(f, m) : m \in S}
           Solves(at) == at = [k \in 1..N |-> IF k = 1 THEN Next_to(f, i) ELSE further(at[k - 1])]
           u == CHOOSE at : Solves(at)
           e == [k \in 1..N |-> Ends(f, i, k)]
<1>1. N \in Nat  OBVIOUS
<1>2. \A k \in 1..N : e[k] = IF k = 1 THEN Next_to(f, i) ELSE further(e[k - 1])
  <2> SUFFICES ASSUME NEW k \in 1..N
               PROVE  e[k] = IF k = 1 THEN Next_to(f, i) ELSE further(e[k - 1])
    OBVIOUS
  <2>1. k - 1 \in Nat /\ k - 1 + 1 = k  BY <1>1
  <2>2. e[k] = further(Ends(f, i, k - 1))
    <3>1. Ends(f, i, k - 1 + 1) = further(Ends(f, i, k - 1))  BY <2>1, OneFurther
    <3> QED  BY <2>1, <3>1
  <2>3. CASE k = 1
    <3>1. Ends(f, i, k - 1) = {i}  BY <2>3, OneFurther
    <3> QED  BY <2>2, <2>3, <3>1
  <2>4. CASE k # 1
    <3>1. k - 1 \in 1..N  BY <1>1, <2>4
    <3> QED  BY <2>2, <2>4, <3>1
  <2> QED  BY <2>3, <2>4
<1>3. e = [k \in 1..N |-> e[k]]  OBVIOUS
<1>4. \A k \in 1..N : e[k] = Ends(f, i, k)  OBVIOUS
<1> HIDE DEF e, further, N
<1>5. Solves(e)
  <2>1. e = [k \in 1..N |-> IF k = 1 THEN Next_to(f, i) ELSE further(e[k - 1])]
    BY <1>2, <1>3
  <2> QED  BY <2>1
<1>6. Solves(u)  BY <1>5
<1>7. Below(f, i) = UNION {u[k] : k \in 1..N}  BY DEF Below, N, further
<1> HIDE DEF u
<1>8. \A k \in 1..N : u[k] = IF k = 1 THEN Next_to(f, i) ELSE further(u[k - 1])
  BY <1>6
<1> HIDE DEF Solves
<1>9. \A k \in 1..N : u[k] = e[k]
  <2> DEFINE T == {k \in 1..N : u[k] # e[k]}
  <2> SUFFICES ASSUME T # {} PROVE FALSE  OBVIOUS
  <2>1. T \in SUBSET Nat  BY <1>1
  <2>2. PICK n \in T : \A m \in T : n <= m  BY <2>1, LeastCounterexample
  <2>3. n \in 1..N /\ u[n] # e[n]  BY <2>2
  <2>4. n # 1  BY <1>2, <1>8, <2>3
  <2>5. n - 1 \in 1..N /\ ~(n <= n - 1)  BY <1>1, <2>3, <2>4
  <2>6. u[n - 1] = e[n - 1]  BY <2>2, <2>5
  <2> QED  BY <1>2, <1>8, <2>3, <2>4, <2>6
<1> QED  BY <1>4, <1>7, <1>9 DEF N

-----------------------------------------------------------------------------
Circular(f) == \E i \in Below(f, f.root) \cup {f.root} : i \in Below(f, i)

\* A container that waits for an object its refs name.
Waits(f, frame) ==
    LET refs == RefsAt(Object(f, frame.index), frame.j) IN
    /\ frame.j < Count(Object(f, frame.index))
    /\ \A i \in DOMAIN refs : refs[i] < NumObjects(f)

\* Where object i stands: it is the root, or the container at level l names it.
Named(f, s, l, i) ==
    /\ i \in Indices(f)
    /\ IF l = 0 THEN i = f.root ELSE i \in Next_to(f, s[l].index)

RouteInv ==
    /\ IsFile(file)
    /\ IsSeq(stack) /\ level <= MaxNesting + 1
    /\ \A l \in 1..level : Named(file, stack, l - 1, stack[l].index) /\ stack[l].j \in Nat
    /\ \A l \in 1..level : l < level \/ pc \in {"enter", "return"} => Waits(file, stack[l])
    /\ pc = "start" => stack = <<>>
    /\ pc = "loop" => stack # <<>>
    /\ pc = "enter" => Named(file, stack, level, arg)

ErrorsInv ==
    /\ err = PLIST_ERR_CIRCULAR_REF => Circular(file)
    /\ err = PLIST_ERR_MAX_NESTING => TooNested(file)

LEMMA FileIs ==
    ASSUME NEW f, IsFile(f)
    PROVE  /\ NumObjects(f) \in Nat /\ f.root \in Nat
           /\ \A i \in Indices(f) : /\ Object(f, i).refs \in Seq(Nat)
                                    /\ ~IsContainer(Object(f, i)) => Object(f, i).refs = <<>>
                                    /\ Object(f, i).type = "dict" => Len(Object(f, i).refs) % 2 = 0
<1>1. /\ f.root \in Nat /\ Len(f.objects) \in Nat
      /\ \A i \in 1..Len(f.objects) :
            /\ f.objects[i].refs \in Seq(Nat)
            /\ ~IsContainer(f.objects[i]) => f.objects[i].refs = <<>>
            /\ f.objects[i].type = "dict" => Len(f.objects[i].refs) % 2 = 0
  BY DEF IsContainer, IsFile
<1>2. \A i \in Indices(f) : i + 1 \in 1..Len(f.objects)
  BY <1>1 DEF Indices, NumObjects
<1> QED  BY <1>1, <1>2 DEF NumObjects, Object

\* The refs a container waits for name objects below it.
LEMMA RefsAreNext ==
    ASSUME NEW f, IsFile(f), NEW frame, frame.index \in Indices(f), frame.j \in Nat,
           Waits(f, frame)
    PROVE  \A i \in DOMAIN RefsAt(Object(f, frame.index), frame.j) :
              RefsAt(Object(f, frame.index), frame.j)[i] \in Next_to(f, frame.index)
<1> DEFINE o == Object(f, frame.index)
           j == frame.j
<1>1. o.refs \in Seq(Nat) /\ Len(o.refs) \in Nat /\ NumObjects(f) \in Nat
  <2>1. o.refs \in Seq(Nat) /\ NumObjects(f) \in Nat  BY FileIs
  <2> QED  BY <2>1, LenProperties
<1>2. j < Count(o) /\ \A i \in DOMAIN RefsAt(o, j) : RefsAt(o, j)[i] < NumObjects(f)
  BY DEF Waits
<1> HIDE DEF o, j
<1>3. \A m \in 1..Len(o.refs) : o.refs[m] < NumObjects(f) => o.refs[m] \in Next_to(f, frame.index)
  <2> SUFFICES ASSUME NEW m \in 1..Len(o.refs), o.refs[m] < NumObjects(f)
               PROVE  o.refs[m] \in Next_to(f, frame.index)
    OBVIOUS
  <2>1. o.refs[m] \in Nat  BY <1>1, ElementOfSeq
  <2>2. o.refs[m] \in Indices(f)  BY <1>1, <2>1 DEF Indices
  <2>3. o.refs[m] \in ToSet(o.refs)
    <3>1. DOMAIN o.refs = 1..Len(o.refs)  BY <1>1, LenProperties
    <3> QED  BY <3>1 DEF ToSet
  <2> QED  BY <2>2, <2>3 DEF Next_to, o
<1>4. j \in Nat  BY DEF j
<1>5. CASE o.type = "dict"
  <2>1. Count(o) = Len(o.refs) \div 2 /\ Count(o) \in Nat /\ 2 * Count(o) <= Len(o.refs)
    <3>1. \A n \in Nat : n \div 2 \in Nat /\ 2 * (n \div 2) <= n  OBVIOUS
    <3> QED  BY <1>1, <1>5, <3>1 DEF Count
  <2>2. j + 1 \in 1..Len(o.refs) /\ j + 1 + Count(o) \in 1..Len(o.refs)
    <3>1. \A c, n, k \in Nat : k < c /\ 2 * c <= n =>
             k + 1 \in 1..n /\ k + 1 + c \in 1..n
      OBVIOUS
    <3>2. j < Count(o)  BY <1>2
    <3> QED  BY ONLY <1>1, <1>4, <2>1, <3>1, <3>2
  <2>3. RefsAt(o, j) = <<o.refs[j + 1], o.refs[j + 1 + Count(o)]>>  BY <1>5 DEF RefsAt
  <2>4. o.refs[j + 1] < NumObjects(f) /\ o.refs[j + 1 + Count(o)] < NumObjects(f)
    BY <1>2, <2>3
  <2> QED  BY <1>3, <2>2, <2>3, <2>4 DEF o, j
<1>6. CASE o.type # "dict"
  <2>1. Count(o) = Len(o.refs)  BY <1>6 DEF Count
  <2>2. j + 1 \in 1..Len(o.refs)  BY <1>1, <1>2, <1>4, <2>1
  <2>3. RefsAt(o, j) = <<o.refs[j + 1]>>  BY <1>6 DEF RefsAt
  <2>4. o.refs[j + 1] < NumObjects(f)  BY <1>2, <2>3
  <2> QED  BY <1>3, <2>2, <2>3, <2>4 DEF o, j
<1> QED  BY <1>5, <1>6

\* The object at level l, the one being entered included, ends a path from the
\* object at any level at or above it.
LEMMA Route ==
    ASSUME RouteInv, NEW l \in 0..level, l < level \/ pc = "enter", NEW b \in 1..(l + 1),
           NEW e, e = IF l = level THEN arg ELSE stack[l + 1].index,
           NEW i, i = IF b = level + 1 THEN arg ELSE stack[b].index
    PROVE  i \in Indices(file) /\ e \in Ends(file, i, l + 1 - b)
<1> DEFINE at == [m \in 1..(level + 1) |-> IF m = level + 1 THEN arg ELSE stack[m].index]
           p == [m \in 0..(l + 1 - b) |-> at[b + m]]
<1>1. level \in Nat
  <2>1. PICK T : stack \in Seq(T)  BY DEF RouteInv, IsSeq
  <2> QED  BY <2>1, LenProperties DEF level
<1>2. \A m \in 1..(l + 1) : Named(file, stack, m - 1, at[m])
  <2>1. \A m \in 1..(l + 1) : m \in 1..level \/ (m = level + 1 /\ l = level)  BY <1>1
  <2>2. \A m \in 1..level : m # level + 1  BY <1>1
  <2>3. at[level + 1] = arg /\ \A m \in 1..level : at[m] = stack[m].index  BY <1>1, <2>2
  <2> HIDE DEF at
  <2>4. l = level => Named(file, stack, level, at[level + 1])  BY <1>1, <2>3 DEF RouteInv
  <2>5. \A m \in 1..level : Named(file, stack, m - 1, at[m])  BY <2>3 DEF RouteInv
  <2> SUFFICES ASSUME NEW m \in 1..(l + 1) PROVE Named(file, stack, m - 1, at[m])
    OBVIOUS
  <2>6. CASE m \in 1..level  BY <2>5, <2>6
  <2>7. CASE m = level + 1 /\ l = level
    <3>1. m - 1 = level  BY <1>1, <2>7
    <3> QED  BY <2>4, <2>7, <3>1
  <2> QED  BY <2>1, <2>6, <2>7
<1>3. at[b] = i /\ at[l + 1] = e  BY <1>1
<1>4. \A m \in 1..level : at[m] = stack[m].index  BY <1>1
<1> HIDE DEF at
<1>5. \A m \in 1..(l + 1) : at[m] \in Indices(file)  BY <1>2 DEF Named
<1>6. \A m \in 1..l : at[m + 1] \in Next_to(file, at[m])
  <2> SUFFICES ASSUME NEW m \in 1..l PROVE at[m + 1] \in Next_to(file, at[m])  OBVIOUS
  <2>1. m + 1 \in 1..(l + 1) /\ m + 1 - 1 = m /\ m # 0 /\ m \in 1..level  BY <1>1
  <2>2. Named(file, stack, m, at[m + 1])  BY <1>2, <2>1
  <2> QED  BY <1>4, <2>1, <2>2 DEF Named
<1>7. p \in [0..(l + 1 - b) -> Indices(file)]
  <2>1. \A m \in 0..(l + 1 - b) : b + m \in 1..(l + 1)  BY <1>1
  <2> QED  BY <1>5, <2>1
<1>8. p[0] = i /\ p[l + 1 - b] = e
  <2>1. 0 \in 0..(l + 1 - b) /\ l + 1 - b \in 0..(l + 1 - b) /\ b + 0 = b
        /\ b + (l + 1 - b) = l + 1
    BY <1>1
  <2>2. p[0] = at[b + 0] /\ p[l + 1 - b] = at[b + (l + 1 - b)]  BY <2>1
  <2> QED  BY <1>3, <2>1, <2>2
<1>9. \A m \in 0..(l + 1 - b - 1) : p[m + 1] \in Next_to(file, p[m])
  <2> SUFFICES ASSUME NEW m \in 0..(l + 1 - b - 1) PROVE p[m + 1] \in Next_to(file, p[m])
    OBVIOUS
  <2>1. m \in 0..(l + 1 - b) /\ m + 1 \in 0..(l + 1 - b) /\ b + m \in 1..l
        /\ b + (m + 1) = b + m + 1
    BY <1>1
  <2>2. p[m] = at[b + m] /\ p[m + 1] = at[b + m + 1]  BY <2>1
  <2> QED  BY <1>6, <2>1, <2>2
<1> HIDE DEF p
<1>10. Steps(file, i, l + 1 - b, p)  BY <1>7, <1>8, <1>9 DEF Steps
<1>11. b \in 1..(l + 1) /\ l + 1 \in 1..(l + 1)  BY <1>1
<1>12. i \in Indices(file) /\ e \in Indices(file)  BY <1>3, <1>5, <1>11
<1> QED  BY <1>8, <1>10, <1>12 DEF Ends

\* Deeper than the limit, the object that is entered ends a path of that length.
LEMMA DeepIsNested ==
    ASSUME RouteInv, pc = "enter", too_deep(level)
    PROVE  TooNested(file)
<1>1. level \in Nat
  <2>1. PICK T : stack \in Seq(T)  BY DEF RouteInv, IsSeq
  <2> QED  BY <2>1, LenProperties DEF level
<1>2. level = MaxNesting + 1  BY <1>1, NestingAssumption DEF too_deep, RouteInv
<1> DEFINE l == level
           first == IF 1 = l + 1 THEN arg ELSE stack[1].index
<1>3. l \in 0..level /\ 1 \in 1..(l + 1) /\ l + 1 - 1 = MaxNesting + 1 /\ l # 0
  BY <1>1, <1>2, NestingAssumption
<1>4. first \in Indices(file) /\ arg \in Ends(file, first, MaxNesting + 1)
  BY <1>3, Route
<1>5. first = file.root
  <2>1. 1 \in 1..level /\ first = stack[1].index /\ 1 - 1 = 0  BY <1>1, <1>3
  <2> QED  BY <2>1 DEF RouteInv, Named
<1>6. MaxNesting + 1 \in 0..(MaxNesting + 1)  BY NestingAssumption
<1> HIDE DEF first
<1>7. AtLevel(file)[MaxNesting + 1] = Ends(file, file.root, MaxNesting + 1)
  BY <1>4, <1>5, <1>6, AtLevelIs
<1> QED  BY <1>4, <1>5, <1>7 DEF TooNested

\* No two containers being filled are the same, so there are not more of them
\* than objects.
LEMMA LevelBounded ==
    ASSUME RouteInv, PathInv
    PROVE  level \in Nat /\ level <= NumObjects(file)
<1> DEFINE p == [i \in 1..level |-> stack[i].index]
           N == NumObjects(file)
<1>1. level \in Nat
  <2>1. PICK T : stack \in Seq(T)  BY DEF RouteInv, IsSeq
  <2> QED  BY <2>1, LenProperties DEF level
<1>2. N \in Nat  BY FileIs DEF RouteInv
<1>3. \A i \in 1..level : stack[i].index \in Indices(file)  BY DEF RouteInv, Named
<1>4. p \in [1..level -> Indices(file)]  BY <1>3
<1>5. \A i, j \in 1..level : p[i] = p[j] => i = j  BY DEF PathInv, PathIsMarked
<1>6. IsFiniteSet(1..level) /\ Cardinality(1..level) = level
  <2>1. 1 \in Int /\ level \in Int  BY <1>1
  <2> QED  BY <1>1, <2>1, FS_Interval
<1>7. IsFiniteSet(Indices(file)) /\ Cardinality(Indices(file)) = N
  <2>1. 0 \in Int /\ N - 1 \in Int  BY <1>2
  <2>2. /\ IsFiniteSet(0..(N - 1))
        /\ Cardinality(0..(N - 1)) = IF 0 > N - 1 THEN 0 ELSE N - 1 - 0 + 1
    BY <2>1, FS_Interval
  <2> QED  BY <1>2, <2>2 DEF Indices
<1> HIDE DEF p, N
<1>8. p \in Injection(1..level, Indices(file))
  BY <1>4, <1>5 DEF Injection, IsInjective
<1>9. Cardinality(1..level) <= Cardinality(Indices(file))  BY <1>7, <1>8, FS_Injection
<1> QED  BY <1>1, <1>6, <1>7, <1>9 DEF N

\* An object that is entered inside itself is on a cycle below the root.
LEMMA RecursionIsCircular ==
    ASSUME RouteInv, PathInv, pc = "enter", recursion_detected(Marked(arg))
    PROVE  Circular(file)
<1>1. level \in Nat /\ NumObjects(file) \in Nat /\ level <= NumObjects(file)
  BY LevelBounded, FileIs DEF RouteInv
<1>2. PICK i \in 1..level : stack[i].index = arg
  <2>1. PICK i \in 1..level : Marked(arg)[i] = Marked(arg)[level + 1]
    BY DEF recursion_detected
  <2>2. Marked(arg)[i] = used[i] /\ Marked(arg)[level + 1] = arg  BY MarkedEntries
  <2> QED  BY <2>1, <2>2 DEF PathInv, PathIsMarked
<1>3. arg \in Indices(file) /\ arg \in Ends(file, arg, level + 1 - i)
  <2>1. level \in 0..level /\ i \in 1..(level + 1) /\ i # level + 1  BY <1>1
  <2> QED  BY <1>2, <2>1, Route
<1>4. arg \in Below(file, arg)
  <2>1. level + 1 - i \in 1..NumObjects(file)  BY <1>1
  <2> QED  BY <1>1, <1>3, <2>1, BelowIs
<1>5. arg \in Below(file, file.root) \cup {file.root}
  <2>1. 1 \in 1..level /\ 1 - 1 = 0  BY <1>1
  <2>2. stack[1].index = file.root /\ file.root \in Indices(file)
    BY <2>1 DEF RouteInv, Named
  <2>3. CASE i = 1  BY <1>2, <2>2, <2>3
  <2>4. CASE i # 1
    <3>1. /\ i - 1 \in 0..level /\ 1 \in 1..(i - 1 + 1) /\ i - 1 # level /\ 1 # level + 1
          /\ i - 1 + 1 = i /\ i - 1 + 1 - 1 = i - 1 /\ i - 1 \in 1..NumObjects(file)
      BY <1>1, <2>4
    <3>2. arg \in Ends(file, file.root, i - 1 + 1 - 1)  BY <1>2, <2>2, <3>1, Route
    <3> QED  BY <1>1, <2>2, <3>1, <3>2, BelowIs
  <2> QED  BY <2>3, <2>4
<1> QED  BY <1>4, <1>5 DEF Circular

-----------------------------------------------------------------------------
LEMMA RouteLevel == RouteInv => level \in Nat
<1> SUFFICES ASSUME RouteInv PROVE level \in Nat  OBVIOUS
<1>1. PICK T : stack \in Seq(T)  BY DEF RouteInv, IsSeq
<1> QED  BY <1>1, LenProperties DEF level

LEMMA RouteUntouched ==
    ASSUME RouteInv, UNCHANGED <<file, stack>>, pc' \notin {"start", "loop"},
           pc' = "enter" => Named(file, stack, level, arg'),
           pc' \in {"enter", "return"} /\ level > 0 => Waits(file, stack[level])
    PROVE  RouteInv'
<1>1. level' = level /\ level \in Nat  BY RouteLevel DEF level
<1>2. \A l \in 1..level : l < level \/ pc' \in {"enter", "return"} => Waits(file, stack[l])
  <2>1. \A l \in 1..level : l < level \/ (l = level /\ level > 0)  BY <1>1
  <2> QED  BY <2>1 DEF RouteInv
<1> QED  BY <1>1, <1>2 DEF RouteInv, IsSeq

LEMMA RoutePopped ==
    ASSUME RouteInv, stack # <<>>, stack' = Front(stack), pc' = "return", UNCHANGED file
    PROVE  RouteInv'
<1>1. /\ IsSeq(stack') /\ level \in Nat /\ level > 0 /\ level' = level - 1
      /\ \A l \in 1..(level - 1) : stack'[l] = stack[l]
  BY Shortened DEF RouteInv, level
<1>2. /\ \A l \in 1..level : Named(file, stack, l - 1, stack[l].index) /\ stack[l].j \in Nat
      /\ \A l \in 1..level : l < level => Waits(file, stack[l])
      /\ level <= MaxNesting + 1 /\ IsFile(file)
  BY DEF RouteInv
<1>3. \A l \in 1..level' :
         /\ Named(file, stack', l - 1, stack'[l].index) /\ stack'[l].j \in Nat
         /\ Waits(file, stack'[l])
  <2> SUFFICES ASSUME NEW l \in 1..level'
               PROVE  /\ Named(file, stack', l - 1, stack'[l].index) /\ stack'[l].j \in Nat
                      /\ Waits(file, stack'[l])
    OBVIOUS
  <2>1. l \in 1..level /\ l < level /\ stack'[l] = stack[l]  BY <1>1
  <2>2. l - 1 = 0 \/ stack'[l - 1] = stack[l - 1]  BY <1>1
  <2>3. Named(file, stack', l - 1, stack[l].index)  BY <1>2, <2>1, <2>2 DEF Named
  <2> QED  BY <1>2, <2>1, <2>3
<1>4. level' <= MaxNesting + 1  BY <1>1, <1>2, NestingAssumption
<1> QED  BY <1>1, <1>2, <1>3, <1>4 DEF RouteInv, IsSeq

LEMMA RoutePushed ==
    ASSUME RouteInv, pc = "enter", ~too_deep(level), NEW new, new.index = arg, new.j = 0,
           stack' = Append(stack, new), pc' = "loop", UNCHANGED file
    PROVE  RouteInv'
<1>1. /\ IsSeq(stack') /\ level \in Nat /\ level' = level + 1
      /\ \A l \in 1..level : stack'[l] = stack[l]
      /\ stack'[level + 1] = new
  BY Appended DEF RouteInv, level
<1>2. /\ \A l \in 1..level : Named(file, stack, l - 1, stack[l].index) /\ stack[l].j \in Nat
      /\ \A l \in 1..level : Waits(file, stack[l])
      /\ Named(file, stack, level, arg) /\ IsFile(file)
  BY DEF RouteInv
<1>3. \A l \in 1..level :
         /\ Named(file, stack', l - 1, stack'[l].index) /\ stack'[l].j \in Nat
         /\ Waits(file, stack'[l])
  <2> SUFFICES ASSUME NEW l \in 1..level
               PROVE  /\ Named(file, stack', l - 1, stack'[l].index) /\ stack'[l].j \in Nat
                      /\ Waits(file, stack'[l])
    OBVIOUS
  <2>1. l - 1 = 0 \/ l - 1 \in 1..level  BY <1>1
  <2>2. stack'[l] = stack[l] /\ (l - 1 = 0 \/ stack'[l - 1] = stack[l - 1])
    BY ONLY <1>1, <2>1, l \in 1..level
  <2>3. Named(file, stack', l - 1, stack[l].index)  BY <1>2, <2>2 DEF Named
  <2> QED  BY <1>2, <2>2, <2>3
<1>4. Named(file, stack', level, stack'[level + 1].index) /\ stack'[level + 1].j \in Nat
  <2>1. level = 0 \/ stack'[level] = stack[level]
    <3>1. level = 0 \/ level \in 1..level  BY <1>1
    <3> QED  BY ONLY <1>1, <3>1
  <2>2. stack'[level + 1].index = arg /\ stack'[level + 1].j = 0  BY <1>1
  <2>3. Named(file, stack', level, arg)  BY <1>2, <2>1 DEF Named
  <2> QED  BY ONLY <2>2, <2>3
<1>5. \A l \in 1..level' :
         /\ Named(file, stack', l - 1, stack'[l].index) /\ stack'[l].j \in Nat
         /\ l < level' => Waits(file, stack'[l])
  <2> SUFFICES ASSUME NEW l \in 1..level'
               PROVE  /\ Named(file, stack', l - 1, stack'[l].index) /\ stack'[l].j \in Nat
                      /\ l < level' => Waits(file, stack'[l])
    OBVIOUS
  <2>1. CASE l \in 1..level  BY <1>3, <2>1
  <2>2. CASE l = level + 1
    <3>1. l - 1 = level /\ ~(l < level')  BY <1>1, <2>2
    <3> QED  BY <1>4, <2>2, <3>1
  <2>3. l \in 1..level \/ l = level + 1  BY ONLY <1>1, l \in 1..level'
  <2> QED  BY <2>1, <2>2, <2>3
<1>6. level' <= MaxNesting + 1  BY <1>1, NestingAssumption DEF too_deep
<1>7. stack' # <<>>
  <2>1. Len(stack') > 0  BY <1>1 DEF level
  <2> QED  BY <2>1, EmptySeq
<1> QED  BY <1>1, <1>2, <1>5, <1>6, <1>7 DEF RouteInv, IsSeq

LEMMA RouteReplaced ==
    ASSUME RouteInv, stack # <<>>, NEW new, new.index = top.index, new.j \in Nat,
           stack' = Append(Front(stack), new), pc' \in {"loop", "enter"}, UNCHANGED file,
           pc' = "enter" => Waits(file, new) /\ arg' \in Next_to(file, top.index)
    PROVE  RouteInv'
<1>1. /\ IsSeq(Front(stack)) /\ level \in Nat /\ level > 0 /\ Len(Front(stack)) = level - 1
      /\ \A l \in 1..(level - 1) : Front(stack)[l] = stack[l]
      /\ top = stack[level]
  BY Shortened DEF RouteInv, level, top
<1>2. /\ IsSeq(stack') /\ level' = level
      /\ \A l \in 1..(level - 1) : stack'[l] = stack[l]
      /\ stack'[level] = new
  BY <1>1, Appended DEF level
<1>3. /\ \A l \in 1..level : Named(file, stack, l - 1, stack[l].index) /\ stack[l].j \in Nat
      /\ \A l \in 1..level : l < level => Waits(file, stack[l])
      /\ level <= MaxNesting + 1 /\ IsFile(file)
  BY DEF RouteInv
<1>4. \A l \in 1..level : stack'[l].index = stack[l].index  BY <1>1, <1>2
<1>5. \A l \in 1..level : Named(file, stack', l - 1, stack'[l].index)
  <2> SUFFICES ASSUME NEW l \in 1..level
               PROVE  Named(file, stack', l - 1, stack'[l].index)
    OBVIOUS
  <2>1. l - 1 = 0 \/ stack'[l - 1].index = stack[l - 1].index  BY <1>1, <1>4
  <2>2. Named(file, stack, l - 1, stack'[l].index)  BY <1>3, <1>4
  <2> QED  BY <2>1, <2>2 DEF Named
<1>6. \A l \in 1..level : stack'[l].j \in Nat  BY <1>1, <1>2, <1>3
<1>7. \A l \in 1..level : l < level \/ pc' \in {"enter", "return"} => Waits(file, stack'[l])
  <2>1. \A l \in 1..level : l < level \/ l = level  BY <1>1
  <2>2. \A l \in 1..level : l < level => stack'[l] = stack[l]  BY <1>1, <1>2
  <2> QED  BY <1>2, <1>3, <2>1, <2>2
<1>8. pc' = "enter" => Named(file, stack', level, arg')
  <2>1. stack'[level].index = top.index  BY <1>2
  <2> QED  BY <1>1, <2>1 DEF Named, Next_to
<1>9. stack' # <<>>
  <2>1. Len(stack') > 0  BY <1>1, <1>2 DEF level
  <2> QED  BY <2>1, EmptySeq
<1> QED  BY <1>2, <1>3, <1>5, <1>6, <1>7, <1>8, <1>9 DEF RouteInv, IsSeq

\* The innermost container: it waits while the object it named is entered and
\* returns.
LEMMA TopWaits ==
    ASSUME RouteInv, NodesInv, stack # <<>>
    PROVE  /\ top = stack[level] /\ level \in 1..level
           /\ top.index \in Indices(file) /\ top.j \in Nat
           /\ DOMAIN top = {"index", "j", "key", "node"}
           /\ pc \in {"enter", "return"} => Waits(file, top)
<1>1. level \in Nat /\ level > 0 /\ top = stack[level]
  BY Shortened DEF RouteInv, level, top
<1>2. level \in 1..level  BY <1>1
<1>3. FrameFits(file, stack[level], level - 1)  BY <1>2 DEF NodesInv, FramesFit, level
<1>4. DOMAIN top = {"index", "j", "key", "node"}  BY <1>1, <1>3 DEF FrameFits
<1> QED  BY <1>1, <1>2, <1>4 DEF RouteInv, Named

LEMMA RouteContinued ==
    ASSUME RouteInv, NodesInv, stack # <<>>, NEW node, NEW failed, Continue(node, failed)
    PROVE  RouteInv'
<1> DEFINE filled == [top EXCEPT !.j = @ + 1, !.key = NULL, !.node = node]
<1>1. filled.index = top.index /\ filled.j \in Nat  BY TopWaits
<1>2. stack' = Append(Front(stack), filled) /\ pc' = "loop" /\ UNCHANGED file
  BY DEF Continue
<1> HIDE DEF filled
<1> QED  BY <1>1, <1>2, RouteReplaced

LEMMA RouteAbandoned ==
    ASSUME RouteInv, stack # <<>>, NEW gone, Abandon(gone)
    PROVE  RouteInv'
BY RoutePopped DEF Abandon

LEMMA RouteInit == Idle /\ IsFile(file) => RouteInv /\ ErrorsInv
<1> SUFFICES ASSUME Idle, IsFile(file) PROVE RouteInv /\ ErrorsInv  OBVIOUS
<1>1. stack = <<>> /\ pc = "start" /\ IsFile(file) /\ err = 0  BY DEF Idle, PLIST_ERR_SUCCESS
<1>2. IsSeq(<<>>) /\ Len(<<>>) = 0
  <2>1. <<>> \in Seq({}) /\ Len(<<>>) = 0  BY EmptySeq
  <2> QED  BY <2>1 DEF IsSeq
<1>3. ErrorsInv
  BY <1>1 DEF ErrorsInv, PLIST_ERR_CIRCULAR_REF, PLIST_ERR_MAX_NESTING
<1>4. level = 0 /\ level <= MaxNesting + 1  BY <1>1, <1>2, NestingAssumption DEF level
<1> QED  BY <1>1, <1>2, <1>3, <1>4 DEF RouteInv

LEMMA RouteStep ==
    ASSUME RouteInv, NodesInv, [Next]_vars
    PROVE  RouteInv'
<1>1. level \in Nat /\ IsFile(file)  BY RouteLevel DEF RouteInv
<1>2. stack # <<>> => level > 0
  BY Shortened DEF RouteInv, level
<1>3. pc \in {"enter", "return"} /\ level > 0 => Waits(file, stack[level])
  <2>1. level > 0 => level \in 1..level  BY <1>1
  <2> QED  BY <2>1 DEF RouteInv
<1>4. CASE StartRefused
  <2>1. pc' = "done" /\ UNCHANGED <<file, stack>>  BY <1>4 DEF StartRefused
  <2> QED  BY <2>1, RouteUntouched
<1>5. CASE Start
  <2>1. /\ pc = "start" /\ pc' = "enter" /\ arg' = file.root /\ UNCHANGED <<file, stack>>
        /\ file.root < NumObjects(file)
    BY <1>5 DEF Start
  <2>2. stack = <<>> /\ level = 0
    <3>1. stack = <<>>  BY <2>1 DEF RouteInv
    <3>2. Len(<<>>) = 0  BY EmptySeq
    <3> QED  BY <3>1, <3>2 DEF level
  <2>3. file.root \in Nat /\ NumObjects(file) \in Nat  BY <1>1, FileIs
  <2>4. file.root \in Indices(file)  BY <2>1, <2>3 DEF Indices
  <2>5. Named(file, stack, level, arg')  BY <2>1, <2>2, <2>4 DEF Named
  <2> QED  BY <2>1, <2>2, <2>5, RouteUntouched
<1>6. CASE EnterRefused
  <2>1. pc = "enter" /\ pc' = "return" /\ UNCHANGED <<file, stack>>
    BY <1>6 DEF EnterRefused, Refuse
  <2> QED  BY <1>3, <2>1, RouteUntouched
<1>7. CASE EnterFails
  <2>1. pc = "enter" /\ pc' = "return" /\ UNCHANGED <<file, stack>>
    BY <1>7 DEF EnterFails, Entered, Refuse
  <2> QED  BY <1>3, <2>1, RouteUntouched
<1>8. CASE EnterLeaf
  <2>1. pc = "enter" /\ pc' = "return" /\ UNCHANGED <<file, stack>>
    BY <1>8 DEF EnterLeaf, Entered
  <2> QED  BY <1>3, <2>1, RouteUntouched
<1>9. CASE EnterContainer
  <2> DEFINE new == [index |-> arg, j |-> 0, key |-> NULL,
                     node |-> Leaf(Object(file, arg).type, 0)]
  <2>1. /\ pc = "enter" /\ ~too_deep(level) /\ pc' = "loop" /\ UNCHANGED file
        /\ stack' = Append(stack, new)
    BY <1>9 DEF EnterContainer, Entered
  <2>2. new.index = arg /\ new.j = 0  OBVIOUS
  <2> HIDE DEF new
  <2> QED  BY <2>1, <2>2, RoutePushed
<1>10. CASE Complete
  <2>1. stack # <<>> /\ stack' = Front(stack) /\ pc' = "return" /\ UNCHANGED file
    BY <1>10 DEF Complete, RouteInv
  <2> QED  BY <2>1, RoutePopped
<1>11. CASE BadRef
  <2>1. stack # <<>> /\ Abandon(0)  BY <1>11 DEF BadRef, RouteInv
  <2> QED  BY <2>1, RouteAbandoned
<1>12. CASE FollowRef
  <2>1. /\ pc = "loop" /\ pc' = "enter" /\ UNCHANGED <<file, stack>>
        /\ arg' = RefsAt(Object(file, top.index), top.j)[1]
        /\ Waits(file, top)
    BY <1>12 DEF FollowRef, Waits, topObject
  <2>2. stack # <<>>  BY <2>1 DEF RouteInv
  <2>3. /\ top = stack[level] /\ level \in 1..level
        /\ top.index \in Indices(file) /\ top.j \in Nat
    BY <2>2, TopWaits
  <2>4. 1 \in DOMAIN RefsAt(Object(file, top.index), top.j)  BY DEF RefsAt
  <2>5. arg' \in Next_to(file, top.index)  BY <1>1, <2>1, <2>3, <2>4, RefsAreNext
  <2>6. Named(file, stack, level, arg')  BY <1>1, <2>3, <2>5 DEF Named, Next_to
  <2> QED  BY <2>1, <2>3, <2>6, RouteUntouched
<1>13. CASE ItemReturns
  <2>1. stack # <<>>  BY <1>13 DEF ItemReturns, Returned
  <2>2. \/ Abandon(0)
        \/ \E failed \in BOOLEAN : Continue(AttachOrNot(top.node, res, failed), failed)
    BY <1>13 DEF ItemReturns
  <2> QED  BY <2>1, <2>2, RouteAbandoned, RouteContinued
<1>14. CASE KeyReturns
  <2>1. stack # <<>> /\ topObject.type = "dict" /\ pc = "return"
    BY <1>14 DEF KeyReturns, Returned
  <2>2. \/ Abandon(0)
        \/ Abandon(res.size)
        \/ /\ pc' = "enter" /\ arg' = RefsAt(topObject, top.j)[2] /\ UNCHANGED file
           /\ stack' = Append(Front(stack), [top EXCEPT !.key = AsKey(res)])
    BY <1>14 DEF KeyReturns
  <2>3. ASSUME pc' = "enter", arg' = RefsAt(topObject, top.j)[2], UNCHANGED file,
               stack' = Append(Front(stack), [top EXCEPT !.key = AsKey(res)])
        PROVE  RouteInv'
    <3> DEFINE named == [top EXCEPT !.key = AsKey(res)]
    <3>1. /\ top.index \in Indices(file) /\ top.j \in Nat /\ Waits(file, top)
          /\ DOMAIN top = {"index", "j", "key", "node"}
      BY <2>1, TopWaits
    <3>2. named.index = top.index /\ named.j = top.j  BY <3>1
    <3>3. 2 \in DOMAIN RefsAt(topObject, top.j)  BY <2>1 DEF RefsAt
    <3>4. arg' \in Next_to(file, top.index)
      BY <1>1, <2>3, <3>1, <3>3, RefsAreNext DEF topObject
    <3>5. stack' = Append(Front(stack), named)  BY <2>3
    <3> HIDE DEF named
    <3>6. Waits(file, named)  BY <3>1, <3>2 DEF Waits
    <3> QED  BY <2>1, <2>3, <3>1, <3>2, <3>4, <3>5, <3>6, RouteReplaced
  <2> QED  BY <2>1, <2>2, <2>3, RouteAbandoned
<1>15. CASE ValueReturns
  <2>1. stack # <<>>  BY <1>15 DEF ValueReturns, Returned
  <2>2. \/ Abandon(freed_with_dict(top))
        \/ \E keyFailed, failed \in BOOLEAN :
              Continue(AttachOrNot(AttachOrNot(top.node, top.key, keyFailed), res, failed),
                       keyFailed \/ failed)
    BY <1>15 DEF ValueReturns
  <2> QED  BY <2>1, <2>2, RouteAbandoned, RouteContinued
<1>16. CASE Finish
  <2>1. pc' = "done" /\ UNCHANGED <<file, stack>>  BY <1>16 DEF Finish
  <2> QED  BY <2>1, RouteUntouched
<1>17. CASE UNCHANGED vars
  <2>1. UNCHANGED <<file, pc, arg, stack>>  BY <1>17 DEF vars
  <2> QED  BY <2>1 DEF RouteInv, IsSeq, level
<1> QED
  BY <1>4, <1>5, <1>6, <1>7, <1>8, <1>9, <1>10, <1>11, <1>12, <1>13, <1>14, <1>15, <1>16, <1>17
  DEF Next

\* An error is named once, by the object that has it.
LEMMA ErrorsStep ==
    ASSUME RouteInv, PathInv, ErrorsInv, [Next]_vars
    PROVE  ErrorsInv'
<1>1. UNCHANGED file /\ (err' = err \/ err' = PLIST_ERR_PARSE) => ErrorsInv'
  BY DEF ErrorsInv, PLIST_ERR_PARSE, PLIST_ERR_CIRCULAR_REF, PLIST_ERR_MAX_NESTING
<1>2. CASE EnterRefused
  <2>1. UNCHANGED file /\ pc = "enter"  BY <1>2 DEF EnterRefused, Refuse
  <2>2. \/ err' = PLIST_ERR_PARSE
        \/ err' = PLIST_ERR_MAX_NESTING /\ too_deep(level)
        \/ err' = PLIST_ERR_CIRCULAR_REF /\ recursion_detected(Marked(arg))
    BY <1>2 DEF EnterRefused, Refuse
  <2>3. CASE err' = PLIST_ERR_PARSE  BY <1>1, <2>1, <2>3
  <2>4. CASE err' = PLIST_ERR_MAX_NESTING /\ too_deep(level)
    <3>1. TooNested(file)  BY <2>1, <2>4, DeepIsNested
    <3> QED
      BY <2>1, <2>4, <3>1 DEF ErrorsInv, PLIST_ERR_CIRCULAR_REF, PLIST_ERR_MAX_NESTING
  <2>5. CASE err' = PLIST_ERR_CIRCULAR_REF /\ recursion_detected(Marked(arg))
    <3>1. Circular(file)  BY <2>1, <2>5, RecursionIsCircular
    <3> QED
      BY <2>1, <2>5, <3>1 DEF ErrorsInv, PLIST_ERR_CIRCULAR_REF, PLIST_ERR_MAX_NESTING
  <2> QED  BY <2>2, <2>3, <2>4, <2>5
<1>3. ~EnterRefused => UNCHANGED file /\ (err' = err \/ err' = PLIST_ERR_PARSE)
  BY DEF Next, vars, StartRefused, Start, EnterFails, EnterLeaf, EnterContainer, Refuse,
         Complete, BadRef, Abandon, FollowRef, ItemReturns, KeyReturns, ValueReturns,
         Continue, Finish
<1> QED  BY <1>1, <1>2, <1>3

\* Whatever graph the objects form: plist_from_bin says PLIST_ERR_CIRCULAR_REF only
\* of a file in which a path of refs from the root comes to a cycle, and
\* PLIST_ERR_MAX_NESTING only of one with a path longer than the limit.
THEOREM ErrorsAlwaysTrue == Spec => []ErrorsAreTrue
<1> DEFINE Inv == IInv /\ NodesInv /\ RouteInv /\ ErrorsInv
<1>1. Init => Inv  BY InitReady, InitInv, NodesInit, RouteInit
<1>2. Inv /\ [Next]_vars => Inv'
  BY StepInv, NodesStep, RouteStep, ErrorsStep DEF IInv
<1>3. Inv => ErrorsAreTrue  BY DEF ErrorsInv, ErrorsAreTrue, Circular
<1> QED  BY <1>1, <1>2, <1>3, PTL DEF Spec

-----------------------------------------------------------------------------
(***************************************************************************)
(* That the reader returns the tree of the file. First the two functions   *)
(* in the definition of that tree exist, which a least counterexample      *)
(* shows, and then what they are.                                          *)
(***************************************************************************)
\* n of the kids are in the node that begins as o.
Built(node, o, kids, n) ==
    \E g : /\ g = [m \in 0..n |-> g[m]] /\ g[0] = Leaf(o.type, 0)
           /\ \A m \in 1..n : g[m] = Adopt(g[m - 1], kids[m])
           /\ node = g[n]

LEMMA BuiltNothing ==
    ASSUME NEW o, NEW kids
    PROVE  Built(Leaf(o.type, 0), o, kids, 0)
<1> DEFINE g == [m \in 0..0 |-> Leaf(o.type, 0)]
<1>1. g = [m \in 0..0 |-> g[m]] /\ g[0] = Leaf(o.type, 0) /\ 1..0 = {}  OBVIOUS
<1> HIDE DEF g
<1> QED  BY <1>1 DEF Built

LEMMA BuiltFurther ==
    ASSUME NEW o, NEW kids, NEW n \in Nat, NEW node, Built(node, o, kids, n)
    PROVE  Built(Adopt(node, kids[n + 1]), o, kids, n + 1)
<1>1. PICK g : /\ g = [m \in 0..n |-> g[m]] /\ g[0] = Leaf(o.type, 0)
               /\ \A m \in 1..n : g[m] = Adopt(g[m - 1], kids[m])
               /\ node = g[n]
  BY DEF Built
<1> DEFINE last == Adopt(node, kids[n + 1])
           b == [m \in 0..(n + 1) |-> IF m = n + 1 THEN last ELSE g[m]]
<1>2. b = [m \in 0..(n + 1) |-> b[m]]  OBVIOUS
<1>3. b[n + 1] = last /\ \A m \in 0..n : b[m] = g[m]  OBVIOUS
<1>4. last = Adopt(g[n], kids[n + 1])  BY <1>1
<1> HIDE DEF b, last
<1>5. b[0] = Leaf(o.type, 0)  BY <1>1, <1>3
<1>6. ASSUME NEW m \in 1..(n + 1) PROVE b[m] = Adopt(b[m - 1], kids[m])
  <2>1. CASE m = n + 1
    <3>1. m - 1 = n /\ n \in 0..n  BY <2>1
    <3> QED  BY <1>3, <1>4, <2>1, <3>1
  <2>2. CASE m # n + 1
    <3>1. m \in 1..n /\ m \in 0..n /\ m - 1 \in 0..n  BY <2>2
    <3> QED  BY <1>1, <1>3, <3>1
  <2> QED  BY <2>1, <2>2
<1>7. Built(last, o, kids, n + 1)  BY <1>2, <1>3, <1>5, <1>6 DEF Built
<1> QED  BY <1>7 DEF last

\* There is one such node, and it has the type of the object.
LEMMA BuiltIsFilled ==
    ASSUME NEW o, NEW kids, Len(kids) \in Nat, NEW node, Built(node, o, kids, Len(kids))
    PROVE  node = Filled(o, kids)
<1> DEFINE n == Len(kids)
           Solves(g) == g = [m \in 0..n |-> IF m = 0 THEN Leaf(o.type, 0)
                                           ELSE Adopt(g[m - 1], kids[m])]
           u == CHOOSE g : Solves(g)
<1>1. PICK g : /\ g = [m \in 0..n |-> g[m]] /\ g[0] = Leaf(o.type, 0)
               /\ \A m \in 1..n : g[m] = Adopt(g[m - 1], kids[m])
               /\ node = g[n]
  BY DEF Built
<1>2. \A m \in 0..n : g[m] = IF m = 0 THEN Leaf(o.type, 0) ELSE Adopt(g[m - 1], kids[m])
  <2>1. \A m \in 0..n : m # 0 => m \in 1..n  OBVIOUS
  <2> QED  BY <1>1, <2>1
<1>3. Solves(g)
  <2>1. g = [m \in 0..n |-> IF m = 0 THEN Leaf(o.type, 0) ELSE Adopt(g[m - 1], kids[m])]
    BY <1>1, <1>2
  <2> QED  BY <2>1
<1>4. Solves(u)  BY <1>3
<1>5. Filled(o, kids) = u[n]  BY DEF Filled
<1> HIDE DEF u
<1>6. \A m \in 0..n : u[m] = IF m = 0 THEN Leaf(o.type, 0) ELSE Adopt(u[m - 1], kids[m])
  BY <1>4
<1> HIDE DEF Solves
<1>7. n \in Nat  OBVIOUS
<1> HIDE DEF n
<1>8. \A m \in 0..n : u[m] = g[m]
  <2> DEFINE T == {m \in 0..n : u[m] # g[m]}
  <2> SUFFICES ASSUME T # {} PROVE FALSE  OBVIOUS
  <2>1. T \in SUBSET Nat  OBVIOUS
  <2>2. PICK k \in T : \A m \in T : k <= m  BY <2>1, LeastCounterexample
  <2>3. k \in 0..n /\ u[k] # g[k]  BY <2>2
  <2>4. k # 0  BY <1>2, <1>6, <2>3
  <2>5. k - 1 \in 0..n /\ ~(k <= k - 1)  BY <1>7, <2>3, <2>4
  <2>6. u[k - 1] = g[k - 1]  BY <2>2, <2>5
  <2> QED  BY <1>2, <1>6, <2>3, <2>4, <2>6
<1> QED  BY <1>1, <1>5, <1>7, <1>8

LEMMA BuiltType ==
    ASSUME NEW o, NEW kids, NEW n \in Nat, NEW node, Built(node, o, kids, n)
    PROVE  node.type = o.type
<1>1. PICK g : /\ g[0] = Leaf(o.type, 0)
               /\ \A m \in 1..n : g[m] = Adopt(g[m - 1], kids[m])
               /\ node = g[n]
  BY DEF Built
<1> DEFINE IsNode(t) == DOMAIN t = {"type", "value", "kids", "height", "size"}
<1>2. IsNode(g[0]) /\ g[0].type = o.type  BY <1>1 DEF Leaf
<1>3. \A t, kid : IsNode(t) => IsNode(Adopt(t, kid)) /\ Adopt(t, kid).type = t.type
  BY DEF Adopt
<1> HIDE DEF IsNode
<1>4. \A m \in 0..n : IsNode(g[m]) /\ g[m].type = o.type
  <2> DEFINE T == {m \in 0..n : ~(IsNode(g[m]) /\ g[m].type = o.type)}
  <2> SUFFICES ASSUME T # {} PROVE FALSE  OBVIOUS
  <2>1. T \in SUBSET Nat  OBVIOUS
  <2>2. PICK k \in T : \A m \in T : k <= m  BY <2>1, LeastCounterexample
  <2>3. k \in 0..n /\ ~(IsNode(g[k]) /\ g[k].type = o.type)  BY <2>2
  <2>4. k # 0  BY <1>2, <2>3
  <2>5. k - 1 \in 0..n /\ ~(k <= k - 1) /\ k \in 1..n  BY <2>3, <2>4
  <2>6. IsNode(g[k - 1]) /\ g[k - 1].type = o.type  BY <2>2, <2>5
  <2>7. g[k] = Adopt(g[k - 1], kids[k])  BY <1>1, <2>5
  <2> QED  BY <1>3, <2>3, <2>6, <2>7
<1> QED  BY <1>1, <1>4

\* A node with n kids exists, and so does the filled one.
LEMMA BuiltExists ==
    ASSUME NEW o, NEW kids, NEW n \in Nat
    PROVE  \E node : Built(node, o, kids, n)
<1> DEFINE T == {m \in Nat : ~\E node : Built(node, o, kids, m)}
<1> SUFFICES ASSUME T # {} PROVE FALSE  OBVIOUS
<1>1. T \in SUBSET Nat  OBVIOUS
<1>2. PICK k \in T : \A m \in T : k <= m  BY <1>1, LeastCounterexample
<1>3. k \in Nat /\ ~\E node : Built(node, o, kids, k)  BY <1>2
<1>4. k # 0  BY <1>3, BuiltNothing
<1>5. k - 1 \in Nat /\ ~(k <= k - 1) /\ k - 1 + 1 = k  BY <1>3, <1>4
<1>6. PICK node : Built(node, o, kids, k - 1)  BY <1>2, <1>5
<1>7. Built(Adopt(node, kids[k - 1 + 1]), o, kids, k - 1 + 1)  BY <1>5, <1>6, BuiltFurther
<1> QED  BY <1>3, <1>5, <1>7

LEMMA FilledType ==
    ASSUME NEW o, NEW kids, Len(kids) \in Nat
    PROVE  Filled(o, kids).type = o.type
<1>1. PICK node : Built(node, o, kids, Len(kids))  BY BuiltExists
<1> QED  BY <1>1, BuiltIsFilled, BuiltType

\* The trees of the objects d levels from the end, given those one level below.
Row(f, d, below) ==
    [i \in Indices(f) |->
        IF ~IsContainer(Object(f, i)) THEN Leaf(Object(f, i).type, Object(f, i).value)
        ELSE Filled(Object(f, i), IF d = 0 THEN <<>> ELSE KidsOf(Object(f, i), below))]

Rows(f, t, n) == t = [d \in 0..n |-> Row(f, d, t[d - 1])]

LEMMA RowsExist ==
    ASSUME NEW f, NEW n \in Nat
    PROVE  \E t : Rows(f, t, n)
<1> DEFINE T == {k \in Nat : ~\E t : Rows(f, t, k)}
<1> SUFFICES ASSUME T # {} PROVE FALSE  OBVIOUS
<1>1. T \in SUBSET Nat  OBVIOUS
<1>2. PICK k \in T : \A m \in T : k <= m  BY <1>1, LeastCounterexample
<1>3. k \in Nat /\ ~\E t : Rows(f, t, k)  BY <1>2
<1>4. CASE k = 0
  <2>1. \A x, y : Row(f, 0, x) = Row(f, 0, y)  BY DEF Row
  <2> DEFINE t == [d \in 0..0 |-> Row(f, 0, <<>>)]
  <2>2. t = [d \in 0..0 |-> Row(f, d, t[d - 1])]
    <3>1. \A d \in 0..0 : Row(f, 0, <<>>) = Row(f, d, t[d - 1])
      <4> SUFFICES ASSUME NEW d \in 0..0 PROVE Row(f, 0, <<>>) = Row(f, d, t[d - 1])
        OBVIOUS
      <4>1. d = 0  OBVIOUS
      <4>2. Row(f, 0, <<>>) = Row(f, 0, t[d - 1])  BY <2>1
      <4> QED  BY <4>1, <4>2
    <3> QED  BY <3>1
  <2> HIDE DEF t
  <2> QED  BY <1>3, <1>4, <2>2 DEF Rows
<1>5. CASE k # 0
  <2>1. k - 1 \in Nat /\ ~(k <= k - 1)  BY <1>3, <1>5
  <2>2. PICK t : Rows(f, t, k - 1)  BY <1>2, <2>1
  <2> DEFINE b == [d \in 0..k |-> IF d = k THEN Row(f, k, t[k - 1]) ELSE t[d]]
  <2>3. b = [d \in 0..k |-> b[d]]  OBVIOUS
  <2>4. b[k] = Row(f, k, t[k - 1]) /\ \A d \in 0..(k - 1) : b[d] = t[d]  BY <1>3
  <2>5. \A d \in 0..(k - 1) : t[d] = Row(f, d, t[d - 1])  BY <2>2 DEF Rows
  <2> HIDE DEF b
  <2>6. \A d \in 0..k : b[d] = Row(f, d, b[d - 1])
    <3> SUFFICES ASSUME NEW d \in 0..k PROVE b[d] = Row(f, d, b[d - 1])  OBVIOUS
    <3>1. CASE d = k
      <4>1. k - 1 \in 0..(k - 1)  BY <2>1
      <4> QED  BY <2>4, <3>1, <4>1
    <3>2. CASE d # k /\ d # 0
      <4>1. d \in 0..(k - 1) /\ d - 1 \in 0..(k - 1)  BY <1>3, <3>2
      <4> QED  BY <2>4, <2>5, <4>1
    <3>3. CASE d = 0
      <4>1. \A x, y : Row(f, 0, x) = Row(f, 0, y)  BY DEF Row
      <4>2. 0 \in 0..(k - 1)  BY <2>1
      <4>3. b[0] = Row(f, 0, t[0 - 1])  BY <2>4, <2>5, <4>2
      <4>4. Row(f, 0, t[0 - 1]) = Row(f, 0, b[0 - 1])  BY <4>1
      <4> QED  BY <3>3, <4>3, <4>4
    <3> QED  BY <3>1, <3>2, <3>3
  <2>7. b = [d \in 0..k |-> Row(f, d, b[d - 1])]  BY <2>3, <2>6
  <2> QED  BY <1>3, <2>7 DEF Rows
<1> QED  BY <1>4, <1>5

LEMMA TreesAre ==
    ASSUME NEW f, NEW d \in 0..MaxNesting, NEW i \in Indices(f)
    PROVE  TreesTo(f)[d][i] =
              IF ~IsContainer(Object(f, i)) THEN Leaf(Object(f, i).type, Object(f, i).value)
              ELSE Filled(Object(f, i),
                          IF d = 0 THEN <<>> ELSE KidsOf(Object(f, i), TreesTo(f)[d - 1]))
<1> DEFINE u == CHOOSE t : Rows(f, t, MaxNesting)
<1>1. TreesTo(f) = u  BY DEF TreesTo, Rows, Row
<1>2. PICK t : Rows(f, t, MaxNesting)  BY NestingAssumption, RowsExist
<1>3. Rows(f, u, MaxNesting)  BY <1>2
<1> HIDE DEF u
<1>4. u[d] = Row(f, d, u[d - 1])  BY <1>3 DEF Rows
<1> QED  BY <1>1, <1>4 DEF Row

\* The tree of object i at level l.
TreeAt(f, i, l) == TreesTo(f)[MaxNesting - l][i]

\* What a container at level l is filled with.
KidsAt(f, o, l) ==
    IF MaxNesting - l = 0 THEN <<>> ELSE KidsOf(o, TreesTo(f)[MaxNesting - l - 1])

LEMMA TreeAtIs ==
    ASSUME NEW f, NEW l \in 0..MaxNesting, NEW i \in Indices(f)
    PROVE  TreeAt(f, i, l) =
              IF ~IsContainer(Object(f, i)) THEN Leaf(Object(f, i).type, Object(f, i).value)
              ELSE Filled(Object(f, i), KidsAt(f, Object(f, i), l))
<1>1. MaxNesting - l \in 0..MaxNesting  BY NestingAssumption
<1> QED  BY <1>1, TreesAre DEF TreeAt, KidsAt

\* The items of an array.
LEMMA ArrayKids ==
    ASSUME NEW f, NEW o, o.refs \in Seq(Nat), o.type = "array",
           NEW l \in Nat, l + 1 <= MaxNesting
    PROVE  /\ Len(KidsAt(f, o, l)) = Len(o.refs)
           /\ \A m \in 1..Len(o.refs) : KidsAt(f, o, l)[m] = TreeAt(f, o.refs[m], l + 1)
<1>1. Len(o.refs) \in Nat  BY LenProperties
<1>2. MaxNesting - l # 0 /\ MaxNesting - l - 1 = MaxNesting - (l + 1)  BY NestingAssumption
<1> DEFINE kids == [m \in 1..Len(o.refs) |-> TreeAt(f, o.refs[m], l + 1)]
           S == {kids[m] : m \in 1..Len(o.refs)}
<1>3. KidsAt(f, o, l) = kids  BY <1>2 DEF KidsAt, KidsOf, TreeAt
<1>4. kids \in [1..Len(o.refs) -> S]  OBVIOUS
<1>5. \A m \in 1..Len(o.refs) : kids[m] = TreeAt(f, o.refs[m], l + 1)  OBVIOUS
<1> HIDE DEF kids, S
<1>6. Len(kids) = Len(o.refs)  BY <1>1, <1>4, SeqDef
<1> QED  BY <1>3, <1>5, <1>6

\* The keys and values of a dict.
LEMMA DictKids ==
    ASSUME NEW f, NEW o, o.refs \in Seq(Nat), o.type = "dict", Len(o.refs) % 2 = 0,
           NEW l \in Nat, l + 1 <= MaxNesting
    PROVE  /\ Count(o) \in Nat /\ Len(o.refs) = 2 * Count(o)
           /\ Len(KidsAt(f, o, l)) = Len(o.refs)
           /\ \A j \in 0..(Count(o) - 1) :
                 /\ KidsAt(f, o, l)[2 * j + 1] = AsKey(TreeAt(f, o.refs[j + 1], l + 1))
                 /\ KidsAt(f, o, l)[2 * j + 2] = TreeAt(f, o.refs[j + 1 + Count(o)], l + 1)
<1>1. Len(o.refs) \in Nat  BY LenProperties
<1>2. MaxNesting - l # 0 /\ MaxNesting - l - 1 = MaxNesting - (l + 1)  BY NestingAssumption
<1>3. Count(o) \in Nat /\ Len(o.refs) = 2 * Count(o)
  <2>1. \A n \in Nat : n % 2 = 0 => n \div 2 \in Nat /\ n = 2 * (n \div 2)  OBVIOUS
  <2> QED  BY <1>1, <2>1 DEF Count
<1> DEFINE t == TreesTo(f)[MaxNesting - (l + 1)]
           kids == [m \in 1..Len(o.refs) |-> IF m % 2 = 1 THEN AsKey(t[o.refs[(m + 1) \div 2]])
                                             ELSE t[o.refs[Count(o) + m \div 2]]]
           S == {kids[m] : m \in 1..Len(o.refs)}
<1>4. KidsAt(f, o, l) = kids  BY <1>2 DEF KidsAt, KidsOf
<1>5. kids \in [1..Len(o.refs) -> S]  OBVIOUS
<1>6. \A j \in 0..(Count(o) - 1) :
         /\ kids[2 * j + 1] = AsKey(t[o.refs[j + 1]])
         /\ kids[2 * j + 2] = t[o.refs[j + 1 + Count(o)]]
  <2> SUFFICES ASSUME NEW j \in 0..(Count(o) - 1)
               PROVE  /\ kids[2 * j + 1] = AsKey(t[o.refs[j + 1]])
                      /\ kids[2 * j + 2] = t[o.refs[j + 1 + Count(o)]]
    OBVIOUS
  <2>1. 2 * j + 1 \in 1..Len(o.refs) /\ 2 * j + 2 \in 1..Len(o.refs)  BY <1>3
  <2>2. /\ (2 * j + 1) % 2 = 1 /\ (2 * j + 1 + 1) \div 2 = j + 1
        /\ (2 * j + 2) % 2 = 0 /\ (2 * j + 2) \div 2 = j + 1
    <3>1. \A n \in Nat : /\ (2 * n + 1) % 2 = 1 /\ (2 * n + 1 + 1) \div 2 = n + 1
                         /\ (2 * n + 2) % 2 = 0 /\ (2 * n + 2) \div 2 = n + 1
      OBVIOUS
    <3>2. j \in Nat  OBVIOUS
    <3> QED  BY <3>1, <3>2
  <2>3. Count(o) + (j + 1) = j + 1 + Count(o)  BY <1>3
  <2> HIDE DEF t
  <2> QED  BY <2>1, <2>2, <2>3
<1> HIDE DEF kids, S
<1>7. Len(kids) = Len(o.refs)  BY <1>1, <1>5, SeqDef
<1> QED  BY <1>3, <1>4, <1>6, <1>7 DEF TreeAt, t

\* A tree has the type of its object.
LEMMA TreeType ==
    ASSUME NEW f, IsFile(f), NEW l \in 0..MaxNesting, NEW i \in Indices(f)
    PROVE  TreeAt(f, i, l).type = Object(f, i).type
<1> DEFINE o == Object(f, i)
           kids == KidsAt(f, o, l)
<1>1. CASE ~IsContainer(o)
  <2>1. TreeAt(f, i, l) = Leaf(o.type, o.value)  BY <1>1, TreeAtIs
  <2> QED  BY <2>1 DEF Leaf
<1>2. CASE IsContainer(o)
  <2>1. TreeAt(f, i, l) = Filled(o, kids)  BY <1>2, TreeAtIs
  <2>2. o.refs \in Seq(Nat) /\ (o.type = "dict" => Len(o.refs) % 2 = 0)  BY FileIs
  <2>3. Len(o.refs) \in Nat  BY <2>2, LenProperties
  <2>4. Len(kids) \in Nat
    <3>1. CASE l = MaxNesting
      <4>1. kids = <<>>  BY <3>1, NestingAssumption DEF KidsAt
      <4> QED  BY <4>1, EmptySeq
    <3>2. CASE l # MaxNesting
      <4>1. l \in Nat /\ l + 1 <= MaxNesting  BY <3>2, NestingAssumption
      <4> QED  BY <1>2, <2>2, <2>3, <4>1, ArrayKids, DictKids DEF IsContainer
    <3> QED  BY <3>1, <3>2
  <2> HIDE DEF kids
  <2> QED  BY <2>1, <2>4, FilledType
<1> QED  BY <1>1, <1>2

-----------------------------------------------------------------------------
\* The objects on the paths from i are sound d levels down, where the paths end.
Fine(f, i, d) ==
    /\ \A k \in 0..d : \A e \in Ends(f, i, k) : Sound(f, e)
    /\ Ends(f, i, d + 1) = {}

\* The paths from i go through the objects that i refers to.
LEMMA OneBefore ==
    ASSUME NEW f, NEW i \in Indices(f), NEW k \in Nat, NEW e \in Ends(f, i, k + 1)
    PROVE  \E m \in Next_to(f, i) : m \in Indices(f) /\ e \in Ends(f, m, k)
<1>1. PICK p : Steps(f, i, k + 1, p) /\ p[k + 1] = e  BY DEF Ends
<1> DEFINE q == [l \in 0..k |-> p[l + 1]]
<1>2. /\ p \in [0..(k + 1) -> Indices(f)] /\ p[0] = i
      /\ \A l \in 0..k : p[l + 1] \in Next_to(f, p[l])
  <2>1. k + 1 - 1 = k  OBVIOUS
  <2> QED  BY <1>1, <2>1 DEF Steps
<1>3. 0 \in 0..k /\ 0 + 1 = 1 /\ k \in 0..k  OBVIOUS
<1>4. p[1] \in Next_to(f, i) /\ p[1] \in Indices(f)
  <2>1. p[0 + 1] \in Next_to(f, p[0])  BY <1>2, <1>3
  <2> QED  BY <1>2, <1>3, <2>1 DEF Next_to
<1>5. \A l \in 0..k : l + 1 \in 0..(k + 1)  OBVIOUS
<1>6. q \in [0..k -> Indices(f)] /\ q[0] = p[1] /\ q[k] = e  BY <1>1, <1>2, <1>3, <1>5
<1>7. \A l \in 0..(k - 1) : /\ l + 1 \in 0..k /\ q[l] = p[l + 1]
                            /\ q[l + 1] = p[l + 1 + 1]
  OBVIOUS
<1> HIDE DEF q
<1>8. \A l \in 0..(k - 1) : q[l + 1] \in Next_to(f, q[l])  BY <1>2, <1>7
<1>9. Steps(f, p[1], k, q)  BY <1>6, <1>8 DEF Steps
<1>10. e \in Ends(f, p[1], k)
  <2>1. e \in Indices(f)  BY DEF Ends
  <2> QED  BY <1>6, <1>9, <2>1 DEF Ends
<1> QED  BY <1>4, <1>10

\* A sound object is fine when those it refers to are, one level less.
LEMMA FineContainer ==
    ASSUME NEW f, NEW i \in Indices(f), Sound(f, i), NEW d \in Nat,
           \A m \in Next_to(f, i) : d > 0 /\ Fine(f, m, d - 1)
    PROVE  Fine(f, i, d)
<1>1. ASSUME NEW k \in 0..d, NEW e \in Ends(f, i, k) PROVE Sound(f, e)
  <2>1. CASE k = 0
    <3>1. e = i  BY <1>1, <2>1, OneFurther
    <3> QED  BY <3>1
  <2>2. CASE k # 0
    <3>1. k - 1 \in Nat /\ k - 1 + 1 = k  BY <2>2
    <3>2. PICK m \in Next_to(f, i) : e \in Ends(f, m, k - 1)  BY <1>1, <3>1, OneBefore
    <3>3. k - 1 \in 0..(d - 1)  BY <2>2
    <3> QED  BY <3>2, <3>3 DEF Fine
  <2> QED  BY <2>1, <2>2
<1>2. Ends(f, i, d + 1) = {}
  <2> SUFFICES ASSUME NEW e \in Ends(f, i, d + 1) PROVE FALSE  OBVIOUS
  <2>1. PICK m \in Next_to(f, i) : e \in Ends(f, m, d)  BY OneBefore
  <2>2. d - 1 + 1 = d  OBVIOUS
  <2>3. Ends(f, m, d - 1 + 1) = {}  BY DEF Fine
  <2> QED  BY <2>1, <2>2, <2>3
<1> QED  BY <1>1, <1>2 DEF Fine

LEMMA ReadableIs ==
    ASSUME NEW f, f.root \in Indices(f)
    PROVE  Readable(f) <=> Fine(f, f.root, MaxNesting)
<1>1. \A k \in 0..(MaxNesting + 1) : AtLevel(f)[k] = Ends(f, f.root, k)  BY AtLevelIs
<1>2. MaxNesting + 1 \in 0..(MaxNesting + 1)
      /\ \A k \in 0..MaxNesting : k \in 0..(MaxNesting + 1)
  BY NestingAssumption
<1>3. TooNested(f) <=> Ends(f, f.root, MaxNesting + 1) # {}  BY <1>1, <1>2 DEF TooNested
<1> QED  BY <1>1, <1>2, <1>3 DEF Readable, Fine

\* A path has paths of every shorter length.
LEMMA Prefix ==
    ASSUME NEW f, NEW i, NEW k \in Nat, Ends(f, i, k) # {}, NEW j \in 0..k
    PROVE  Ends(f, i, j) # {}
<1>1. PICK e \in Ends(f, i, k) : TRUE  OBVIOUS
<1>2. PICK p : Steps(f, i, k, p)  BY <1>1 DEF Ends
<1> DEFINE q == [m \in 0..j |-> p[m]]
<1>3. /\ p \in [0..k -> Indices(f)] /\ p[0] = i
      /\ \A m \in 0..(k - 1) : p[m + 1] \in Next_to(f, p[m])
  BY <1>2 DEF Steps
<1>4. \A m \in 0..j : m \in 0..k /\ q[m] = p[m]  OBVIOUS
<1>5. q \in [0..j -> Indices(f)] /\ q[0] = i /\ q[j] \in Indices(f)  BY <1>3, <1>4
<1>6. \A m \in 0..(j - 1) : m \in 0..(k - 1) /\ m \in 0..j /\ m + 1 \in 0..j  OBVIOUS
<1> HIDE DEF q
<1>7. Steps(f, i, j, q)  BY <1>3, <1>4, <1>5, <1>6 DEF Steps
<1> QED  BY <1>5, <1>7 DEF Ends

\* A cycle gives paths of every length, so it is too nested.
LEMMA CircularIsNested ==
    ASSUME NEW f, NumObjects(f) \in Nat, f.root \in Indices(f), Circular(f)
    PROVE  TooNested(f)
<1>1. PICK i : i \in Below(f, f.root) \cup {f.root} /\ i \in Below(f, i)  BY DEF Circular
<1>2. PICK b \in Nat : i \in Ends(f, f.root, b)
  <2>1. CASE i = f.root  BY <2>1, OneFurther
  <2>2. CASE i \in Below(f, f.root)
    <3>1. PICK k \in 1..NumObjects(f) : i \in Ends(f, f.root, k)  BY <2>2, BelowIs
    <3> QED  BY <3>1
  <2> QED  BY <1>1, <2>1, <2>2
<1>3. i \in Indices(f)  BY <1>2 DEF Ends
<1>4. PICK c \in Nat \ {0} : i \in Ends(f, i, c)
  <2>1. PICK k \in 1..NumObjects(f) : i \in Ends(f, i, k)  BY <1>1, <1>3, BelowIs
  <2> QED  BY <2>1
<1>5. PICK p : Steps(f, i, c, p) /\ p[c] = i  BY <1>4 DEF Ends
<1> DEFINE cycle == {p[m] : m \in 0..(c - 1)}
<1>6. \A e \in cycle : \E n \in cycle : n \in Next_to(f, e)
  <2> SUFFICES ASSUME NEW m \in 0..(c - 1) PROVE \E n \in cycle : n \in Next_to(f, p[m])
    OBVIOUS
  <2>1. p[m + 1] \in Next_to(f, p[m])  BY <1>5 DEF Steps
  <2>2. CASE m + 1 = c
    <3>1. p[m + 1] = p[0] /\ 0 \in 0..(c - 1)  BY <1>5, <2>2 DEF Steps
    <3> QED  BY <2>1, <3>1
  <2>3. CASE m + 1 # c
    <3>1. m + 1 \in 0..(c - 1)  BY <2>3
    <3> QED  BY <2>1, <3>1
  <2> QED  BY <2>2, <2>3
<1>7. i \in cycle
  <2>1. p[0] = i /\ 0 \in 0..(c - 1)  BY <1>5 DEF Steps
  <2> QED  BY <2>1
<1> HIDE DEF cycle
<1>8. \A n \in Nat : Ends(f, f.root, b + n) \cap cycle # {}
  <2> DEFINE T == {n \in Nat : Ends(f, f.root, b + n) \cap cycle = {}}
  <2> SUFFICES ASSUME T # {} PROVE FALSE  OBVIOUS
  <2>1. T \in SUBSET Nat  OBVIOUS
  <2>2. PICK n \in T : \A m \in T : n <= m  BY <2>1, LeastCounterexample
  <2>3. n \in Nat /\ Ends(f, f.root, b + n) \cap cycle = {}  BY <2>2
  <2>4. n # 0
    <3>1. b + 0 = b  OBVIOUS
    <3> QED  BY <1>2, <1>7, <2>3, <3>1
  <2>5. n - 1 \in Nat /\ ~(n <= n - 1) /\ b + (n - 1) \in Nat /\ b + (n - 1) + 1 = b + n
    BY <2>3, <2>4
  <2>6. PICK e \in cycle : e \in Ends(f, f.root, b + (n - 1))  BY <2>2, <2>5
  <2>7. PICK m \in cycle : m \in Next_to(f, e)  BY <1>6
  <2>8. m \in Ends(f, f.root, b + (n - 1) + 1)  BY <2>5, <2>6, <2>7, OneFurther
  <2> QED  BY <2>3, <2>5, <2>7, <2>8
<1>9. Ends(f, f.root, MaxNesting + 1) # {}
  <2>1. MaxNesting + 1 \in Nat /\ b + (MaxNesting + 1) \in Nat
        /\ MaxNesting + 1 \in 0..(b + (MaxNesting + 1))
    BY NestingAssumption
  <2>2. Ends(f, f.root, b + (MaxNesting + 1)) # {}  BY <1>8, <2>1
  <2> QED  BY <2>1, <2>2, Prefix
<1>10. MaxNesting + 1 \in 0..(MaxNesting + 1)  BY NestingAssumption
<1> QED  BY <1>9, <1>10, AtLevelIs DEF TooNested

-----------------------------------------------------------------------------
\* The root is an object once anything was entered.
LEMMA RootIsObject ==
    ASSUME RouteInv, pc = "enter" \/ stack # <<>>
    PROVE  /\ NumObjects(file) \in Nat /\ file.root \in Indices(file) /\ level \in Nat
           /\ level > 0 => stack[1].index = file.root
<1>1. level \in Nat /\ NumObjects(file) \in Nat  BY RouteLevel, FileIs DEF RouteInv
<1>2. CASE level > 0
  <2>1. 1 \in 1..level /\ 1 - 1 = 0  BY <1>1, <1>2
  <2> QED  BY <1>1, <2>1 DEF RouteInv, Named
<1>3. CASE ~(level > 0)
  <2>1. level = 0 /\ stack = <<>>
    <3>1. stack # <<>> => level > 0  BY Shortened DEF RouteInv, level
    <3> QED  BY <1>1, <1>3, <3>1
  <2> QED  BY <1>1, <1>3, <2>1 DEF RouteInv, Named
<1> QED  BY <1>2, <1>3

\* A file with an object on the path that is not sound, or that is too deep, has no
\* tree.
LEMMA UnsoundOnPath ==
    ASSUME RouteInv, NEW l \in 0..level, l < level \/ pc = "enter",
           NEW e, e = IF l = level THEN arg ELSE stack[l + 1].index,
           ~Sound(file, e)
    PROVE  ~Readable(file)
<1>1. pc = "enter" \/ stack # <<>>
  <2>1. Len(<<>>) = 0  BY EmptySeq
  <2> QED  BY <2>1, RouteLevel DEF level
<1>2. /\ NumObjects(file) \in Nat /\ file.root \in Indices(file) /\ level \in Nat
      /\ level > 0 => stack[1].index = file.root
  BY <1>1, RootIsObject
<1> DEFINE i == IF 1 = level + 1 THEN arg ELSE stack[1].index
<1>3. i = file.root
  <2>1. CASE level > 0  BY <1>2, <2>1
  <2>2. CASE ~(level > 0)
    <3>1. level = 0 /\ pc = "enter"  BY <1>2, <2>2
    <3> QED  BY <3>1 DEF RouteInv, Named
  <2> QED  BY <2>1, <2>2
<1>4. 1 \in 1..(l + 1) /\ l + 1 - 1 = l /\ l \in Nat  BY <1>2
<1>5. e \in Ends(file, i, l + 1 - 1)  BY <1>4, Route
<1> HIDE DEF i
<1>6. e \in Ends(file, file.root, l)  BY <1>3, <1>4, <1>5
<1>7. CASE l <= MaxNesting
  <2>1. l \in 0..MaxNesting  BY <1>4, <1>7, NestingAssumption
  <2>2. ~Fine(file, file.root, MaxNesting)  BY <1>6, <2>1 DEF Fine
  <2> QED  BY <1>2, <2>2, ReadableIs
<1>8. CASE ~(l <= MaxNesting)
  <2>1. MaxNesting + 1 \in 0..l  BY <1>4, <1>8, NestingAssumption
  <2>2. Ends(file, file.root, MaxNesting + 1) # {}  BY <1>4, <1>6, <2>1, Prefix
  <2>3. ~Fine(file, file.root, MaxNesting)  BY <2>2 DEF Fine
  <2> QED  BY <1>2, <2>3, ReadableIs
<1> QED  BY <1>7, <1>8

-----------------------------------------------------------------------------
\* Object i was read at level l: everything below it is fine.
Read(f, i, l) == i \in Indices(f) /\ l \in 0..MaxNesting /\ Fine(f, i, MaxNesting - l)

KeyRead(f, i, l) == Read(f, i, l) /\ Object(f, i).type = "string"

\* A container at level l that is being filled has the trees of what was read for
\* it, and nothing else.
ReadFrame(f, frame, l) ==
    LET o == Object(f, frame.index) IN
    /\ frame.index \in Indices(f) /\ IsContainer(o)
    /\ l \in 0..MaxNesting /\ frame.j \in 0..Count(o)
    /\ o.type = "array" =>
          /\ Built(frame.node, o, KidsAt(f, o, l), frame.j)
          /\ \A m \in 1..frame.j : Read(f, o.refs[m], l + 1)
    /\ o.type = "dict" =>
          /\ Built(frame.node, o, KidsAt(f, o, l), 2 * frame.j)
          /\ \A m \in 1..frame.j : /\ KeyRead(f, o.refs[m], l + 1)
                                   /\ Read(f, o.refs[m + Count(o)], l + 1)
          /\ frame.key # NULL => /\ KeyRead(f, o.refs[frame.j + 1], l + 1)
                                 /\ frame.key = AsKey(TreeAt(f, o.refs[frame.j + 1], l + 1))

LEMMA RefsAre ==
    ASSUME NEW f, IsFile(f), NEW i \in Indices(f), NEW o, o = Object(f, i), IsContainer(o)
    PROVE  /\ o.refs \in Seq(Nat) /\ Len(o.refs) \in Nat /\ Count(o) \in Nat
           /\ \A m \in 1..Len(o.refs) : o.refs[m] \in Nat /\ o.refs[m] \in ToSet(o.refs)
           /\ o.type = "array" => Count(o) = Len(o.refs)
           /\ o.type = "dict" => Len(o.refs) % 2 = 0 /\ Len(o.refs) = 2 * Count(o)
<1>1. o.refs \in Seq(Nat) /\ (o.type = "dict" => Len(o.refs) % 2 = 0)  BY FileIs
<1>2. Len(o.refs) \in Nat /\ DOMAIN o.refs = 1..Len(o.refs)  BY <1>1, LenProperties
<1>3. \A m \in 1..Len(o.refs) : o.refs[m] \in Nat  BY <1>1, ElementOfSeq
<1>4. \A n \in Nat : n % 2 = 0 => n \div 2 \in Nat /\ n = 2 * (n \div 2)  OBVIOUS
<1>5. CASE o.type = "dict"
  <2>1. Count(o) = Len(o.refs) \div 2  BY <1>5 DEF Count
  <2>2. Count(o) \in Nat /\ Len(o.refs) = 2 * Count(o)  BY <1>1, <1>2, <1>4, <1>5, <2>1
  <2> QED  BY <1>1, <1>2, <1>3, <1>5, <2>2 DEF ToSet
<1>6. CASE o.type # "dict"
  <2>1. Count(o) = Len(o.refs)  BY <1>6 DEF Count
  <2> QED  BY <1>1, <1>2, <1>3, <1>6, <2>1 DEF ToSet
<1> QED  BY <1>5, <1>6

\* The refs of an iteration.
LEMMA RefsAtAre ==
    ASSUME NEW f, IsFile(f), NEW i \in Indices(f), NEW o, o = Object(f, i), IsContainer(o),
           NEW j \in Nat, j < Count(o)
    PROVE  /\ j + 1 \in 1..Count(o) /\ j + 1 \in 1..Len(o.refs)
           /\ o.type = "array" => RefsAt(o, j) = <<o.refs[j + 1]>>
           /\ o.type = "dict" => /\ RefsAt(o, j) = <<o.refs[j + 1], o.refs[j + 1 + Count(o)]>>
                                 /\ j + 1 + Count(o) \in 1..Len(o.refs)
<1>1. Len(o.refs) \in Nat /\ Count(o) \in Nat /\ j + 1 \in 1..Count(o)
  <2>1. Len(o.refs) \in Nat /\ Count(o) \in Nat  BY RefsAre
  <2> QED  BY <2>1
<1>2. CASE o.type = "dict"
  <2>1. Len(o.refs) = 2 * Count(o)  BY <1>2, RefsAre
  <2>2. j + 1 \in 1..Len(o.refs) /\ j + 1 + Count(o) \in 1..Len(o.refs)  BY <1>1, <2>1
  <2>3. RefsAt(o, j) = <<o.refs[j + 1], o.refs[j + 1 + Count(o)]>>  BY <1>2 DEF RefsAt
  <2> QED  BY <1>1, <1>2, <2>2, <2>3
<1>3. CASE o.type = "array"
  <2>1. Count(o) = Len(o.refs)  BY <1>3, RefsAre
  <2>2. RefsAt(o, j) = <<o.refs[j + 1]>>  BY <1>3 DEF RefsAt
  <2> QED  BY <1>1, <1>3, <2>1, <2>2
<1> QED  BY <1>2, <1>3 DEF IsContainer

LEMMA LeafRead ==
    ASSUME NEW f, IsFile(f), NEW i \in Indices(f), NEW l \in 0..MaxNesting,
           ~IsContainer(Object(f, i)), Object(f, i).type \notin {"bad", "nowhere"}
    PROVE  /\ Read(f, i, l)
           /\ TreeAt(f, i, l) = Leaf(Object(f, i).type, Object(f, i).value)
<1>1. Object(f, i).refs = <<>>  BY FileIs
<1>2. ToSet(<<>>) = {}  BY DEF ToSet
<1>3. Object(f, i).type # "dict"  BY DEF IsContainer
<1>4. Sound(f, i)  BY <1>1, <1>2, <1>3 DEF Sound
<1>5. Next_to(f, i) = {}  BY <1>1, <1>2 DEF Next_to
<1>6. MaxNesting - l \in Nat  BY NestingAssumption
<1>7. Fine(f, i, MaxNesting - l)  BY <1>4, <1>5, <1>6, FineContainer
<1> QED  BY <1>7, TreeAtIs DEF Read

LEMMA EmptyFrame ==
    ASSUME NEW f, IsFile(f), NEW i \in Indices(f), IsContainer(Object(f, i)),
           NEW l \in 0..MaxNesting,
           NEW frame, frame.index = i, frame.j = 0, frame.key = NULL,
           frame.node = Leaf(Object(f, i).type, 0)
    PROVE  ReadFrame(f, frame, l)
<1> DEFINE o == Object(f, i)
<1>1. Count(o) \in Nat  BY RefsAre
<1>2. 0 \in 0..Count(o) /\ 2 * 0 = 0 /\ 1..0 = {}  BY <1>1
<1>3. Built(frame.node, o, KidsAt(f, o, l), 0)  BY BuiltNothing
<1> HIDE DEF o
<1>4. Object(f, frame.index) = o  BY DEF o
<1>5. IsContainer(o)  BY DEF o
<1> QED  BY <1>2, <1>3, <1>4, <1>5 DEF ReadFrame

\* A container whose loop is over is the tree of its object.
LEMMA FullFrame ==
    ASSUME NEW f, IsFile(f), NEW frame, NEW l, ReadFrame(f, frame, l),
           frame.j = Count(Object(f, frame.index))
    PROVE  Read(f, frame.index, l) /\ frame.node = TreeAt(f, frame.index, l)
<1> DEFINE i == frame.index
           o == Object(f, i)
           kids == KidsAt(f, o, l)
<1>1. i \in Indices(f) /\ IsContainer(o) /\ l \in 0..MaxNesting  BY DEF ReadFrame
<1>2. /\ o.refs \in Seq(Nat) /\ Len(o.refs) \in Nat /\ Count(o) \in Nat
      /\ \A e \in ToSet(o.refs) : \E m \in 1..Len(o.refs) : e = o.refs[m]
  <2>1. o.refs \in Seq(Nat) /\ Len(o.refs) \in Nat /\ Count(o) \in Nat  BY <1>1, RefsAre
  <2>2. DOMAIN o.refs = 1..Len(o.refs)  BY <2>1, LenProperties
  <2> QED  BY <2>1, <2>2 DEF ToSet
<1>3. /\ \A m \in 1..Len(o.refs) : Read(f, o.refs[m], l + 1)
      /\ o.type = "dict" => \A m \in 1..Count(o) : Object(f, o.refs[m]).type = "string"
      /\ Built(frame.node, o, kids, Len(o.refs))
  <2>1. CASE o.type = "array"
    <3>1. frame.j = Len(o.refs)  BY <1>1, <2>1, RefsAre
    <3> QED  BY <2>1, <3>1 DEF ReadFrame
  <2>2. CASE o.type = "dict"
    <3>1. Len(o.refs) = 2 * Count(o) /\ frame.j = Count(o)  BY <1>1, <2>2, RefsAre
    <3>2. /\ Built(frame.node, o, kids, 2 * Count(o))
          /\ \A m \in 1..Count(o) : /\ KeyRead(f, o.refs[m], l + 1)
                                    /\ Read(f, o.refs[m + Count(o)], l + 1)
      BY <2>2, <3>1 DEF ReadFrame
    <3>3. ASSUME NEW m \in 1..Len(o.refs) PROVE Read(f, o.refs[m], l + 1)
      <4>1. CASE m \in 1..Count(o)  BY <3>2, <4>1 DEF KeyRead
      <4>2. CASE m \notin 1..Count(o)
        <5>1. m - Count(o) \in 1..Count(o) /\ m - Count(o) + Count(o) = m
          BY <1>2, <3>1, <4>2
        <5> QED  BY <3>2, <5>1
      <4> QED  BY <4>1, <4>2
    <3> QED  BY <2>2, <3>1, <3>2, <3>3 DEF KeyRead
  <2> QED  BY <1>1, <2>1, <2>2 DEF IsContainer
<1>4. Read(f, i, l)
  <2>1. ToSet(o.refs) \subseteq Indices(f)  BY <1>2, <1>3 DEF Read
  <2>2. o.type \notin {"bad", "nowhere"}  BY <1>1 DEF IsContainer
  <2>3. Sound(f, i)  BY <1>3, <2>1, <2>2 DEF Sound
  <2>4. MaxNesting - l \in Nat  BY <1>1, NestingAssumption
  <2>5. ASSUME NEW e \in Next_to(f, i)
        PROVE  MaxNesting - l > 0 /\ Fine(f, e, MaxNesting - l - 1)
    <3>1. PICK m \in 1..Len(o.refs) : e = o.refs[m]  BY <1>2 DEF Next_to
    <3>2. l + 1 \in 0..MaxNesting /\ Fine(f, e, MaxNesting - (l + 1))
      BY <1>3, <3>1 DEF Read
    <3>3. MaxNesting - l > 0 /\ MaxNesting - (l + 1) = MaxNesting - l - 1
      BY <1>1, <3>2, NestingAssumption
    <3> QED  BY <3>2, <3>3
  <2>6. Fine(f, i, MaxNesting - l)  BY <1>1, <2>3, <2>4, <2>5, FineContainer
  <2> QED  BY <1>1, <2>6 DEF Read
<1>5. Len(kids) = Len(o.refs)
  <2>1. CASE l = MaxNesting
    <3>1. kids = <<>>  BY <2>1, NestingAssumption DEF KidsAt
    <3>2. Len(o.refs) = 0
      <4> SUFFICES ASSUME Len(o.refs) # 0 PROVE FALSE  OBVIOUS
      <4>1. 1 \in 1..Len(o.refs)  BY <1>2
      <4>2. l + 1 \in 0..MaxNesting  BY <1>3, <4>1 DEF Read
      <4> QED  BY <2>1, <4>2, NestingAssumption
    <3> QED  BY <3>1, <3>2, EmptySeq
  <2>2. CASE l # MaxNesting
    <3>1. l \in Nat /\ l + 1 <= MaxNesting  BY <1>1, <2>2, NestingAssumption
    <3>2. CASE o.type = "array"  BY <1>2, <3>1, <3>2, ArrayKids
    <3>3. CASE o.type = "dict"
      <4>1. Len(o.refs) % 2 = 0  BY <1>1, <3>3, RefsAre
      <4> QED  BY <1>2, <3>1, <3>3, <4>1, DictKids
    <3> QED  BY <1>1, <3>2, <3>3 DEF IsContainer
  <2> QED  BY <2>1, <2>2
<1>6. frame.node = Filled(o, kids)
  <2> HIDE DEF kids, o, i
  <2> QED  BY <1>2, <1>3, <1>5, BuiltIsFilled
<1>7. TreeAt(f, i, l) = Filled(o, kids)  BY <1>1, TreeAtIs
<1> QED  BY <1>4, <1>6, <1>7

\* An item more.
LEMMA ItemRead ==
    ASSUME NEW f, IsFile(f), NEW frame, NEW l, ReadFrame(f, frame, l),
           NEW o, o = Object(f, frame.index), o.type = "array",
           frame.j < Count(o), Read(f, o.refs[frame.j + 1], l + 1),
           NEW new, new.index = frame.index, new.j = frame.j + 1, new.key = NULL,
           new.node = Adopt(frame.node, TreeAt(f, o.refs[frame.j + 1], l + 1))
    PROVE  ReadFrame(f, new, l)
<1> DEFINE j == frame.j
           kids == KidsAt(f, o, l)
<1>1. /\ frame.index \in Indices(f) /\ IsContainer(o) /\ l \in 0..MaxNesting
      /\ j \in 0..Count(o) /\ Built(frame.node, o, kids, j)
      /\ \A m \in 1..j : Read(f, o.refs[m], l + 1)
  BY DEF ReadFrame
<1>2. o.refs \in Seq(Nat) /\ Len(o.refs) \in Nat /\ Count(o) = Len(o.refs)  BY <1>1, RefsAre
<1>3. j \in Nat /\ j < Count(o) /\ j + 1 \in 1..Len(o.refs) /\ j + 1 \in 0..Count(o)
  BY <1>1, <1>2
<1>4. l \in Nat /\ l + 1 <= MaxNesting
  <2>1. l + 1 \in 0..MaxNesting  BY DEF Read
  <2> QED  BY <1>1, <2>1, NestingAssumption
<1>5. kids[j + 1] = TreeAt(f, o.refs[j + 1], l + 1)
  BY <1>2, <1>3, <1>4, ArrayKids
<1>6. \A m \in 1..(j + 1) : Read(f, o.refs[m], l + 1)
  <2>1. \A n \in Nat : \A m \in 1..(n + 1) : m \in 1..n \/ m = n + 1
    BY ONLY SMT
  <2>2. \A m \in 1..(j + 1) : m \in 1..j \/ m = j + 1  BY <1>3, <2>1
  <2> QED  BY <1>1, <2>2
<1> HIDE DEF kids
<1>7. Built(new.node, o, kids, j + 1)
  <2>1. Built(Adopt(frame.node, kids[j + 1]), o, kids, j + 1)
    <3> HIDE DEF j
    <3> QED  BY <1>1, <1>3, BuiltFurther
  <2> QED  BY <1>5, <2>1
<1>8. Object(f, new.index) = o /\ new.j = j + 1  OBVIOUS
<1> HIDE DEF j
<1> QED  BY <1>1, <1>3, <1>6, <1>7, <1>8 DEF ReadFrame, kids

\* A key, which waits for its value.
LEMMA NameRead ==
    ASSUME NEW f, IsFile(f), NEW frame, NEW l, ReadFrame(f, frame, l),
           NEW o, o = Object(f, frame.index), o.type = "dict",
           KeyRead(f, o.refs[frame.j + 1], l + 1),
           NEW new, new.index = frame.index, new.j = frame.j, new.node = frame.node,
           new.key = AsKey(TreeAt(f, o.refs[frame.j + 1], l + 1))
    PROVE  ReadFrame(f, new, l)
BY DEF ReadFrame

\* A pair more.
LEMMA PairRead ==
    ASSUME NEW f, IsFile(f), NEW frame, NEW l, ReadFrame(f, frame, l),
           NEW o, o = Object(f, frame.index), o.type = "dict",
           frame.j < Count(o), frame.key # NULL,
           Read(f, o.refs[frame.j + 1 + Count(o)], l + 1),
           NEW new, new.index = frame.index, new.j = frame.j + 1, new.key = NULL,
           new.node = Adopt(Adopt(frame.node, frame.key),
                            TreeAt(f, o.refs[frame.j + 1 + Count(o)], l + 1))
    PROVE  ReadFrame(f, new, l)
<1> DEFINE j == frame.j
           kids == KidsAt(f, o, l)
<1>1. /\ frame.index \in Indices(f) /\ IsContainer(o) /\ l \in 0..MaxNesting
      /\ j \in 0..Count(o) /\ Built(frame.node, o, kids, 2 * j)
      /\ \A m \in 1..j : /\ KeyRead(f, o.refs[m], l + 1)
                         /\ Read(f, o.refs[m + Count(o)], l + 1)
      /\ KeyRead(f, o.refs[j + 1], l + 1)
      /\ frame.key = AsKey(TreeAt(f, o.refs[j + 1], l + 1))
  BY DEF ReadFrame
<1>2. /\ o.refs \in Seq(Nat) /\ Len(o.refs) \in Nat /\ Count(o) \in Nat
      /\ Len(o.refs) % 2 = 0
  BY <1>1, RefsAre
<1>3. /\ j \in Nat /\ j \in 0..(Count(o) - 1) /\ j + 1 \in 0..Count(o)
      /\ 2 * j \in Nat /\ 2 * j + 1 \in Nat /\ 2 * j + 1 + 1 = 2 * j + 2
      /\ 2 * (j + 1) = 2 * j + 2
  <2>1. j < Count(o) /\ j \in 0..Count(o) /\ Count(o) \in Nat  BY <1>1, <1>2
  <2> HIDE DEF j
  <2> QED  BY ONLY <2>1
<1>4. l \in Nat /\ l + 1 <= MaxNesting
  <2>1. l + 1 \in 0..MaxNesting  BY DEF Read
  <2> QED  BY <1>1, <2>1, NestingAssumption
<1>5. /\ kids[2 * j + 1] = frame.key
      /\ kids[2 * j + 2] = TreeAt(f, o.refs[j + 1 + Count(o)], l + 1)
  <2>1. /\ kids[2 * j + 1] = AsKey(TreeAt(f, o.refs[j + 1], l + 1))
        /\ kids[2 * j + 2] = TreeAt(f, o.refs[j + 1 + Count(o)], l + 1)
    <3>1. \A k \in 0..(Count(o) - 1) :
             /\ kids[2 * k + 1] = AsKey(TreeAt(f, o.refs[k + 1], l + 1))
             /\ kids[2 * k + 2] = TreeAt(f, o.refs[k + 1 + Count(o)], l + 1)
      <4>1. o.type = "dict"  OBVIOUS
      <4>2. o.refs \in Seq(Nat) /\ Len(o.refs) % 2 = 0 /\ l \in Nat /\ l + 1 <= MaxNesting
        BY ONLY <1>2, <1>4
      <4> QED  BY ONLY <4>1, <4>2, DictKids, Zenon
    <3> HIDE DEF j, kids
    <3> QED  BY <1>3, <3>1
  <2> QED  BY <1>1, <2>1
<1>6. \A m \in 1..(j + 1) : /\ KeyRead(f, o.refs[m], l + 1)
                            /\ Read(f, o.refs[m + Count(o)], l + 1)
  <2>1. \A n \in Nat : \A m \in 1..(n + 1) : m \in 1..n \/ m = n + 1
    BY ONLY SMT
  <2>2. \A m \in 1..(j + 1) : m \in 1..j \/ m = j + 1  BY <1>3, <2>1
  <2> QED  BY <1>1, <2>2
<1> HIDE DEF kids
<1>7. Built(new.node, o, kids, 2 * (j + 1))
  <2> DEFINE n == 2 * j
             withKey == Adopt(frame.node, kids[n + 1])
  <2>1. n \in Nat /\ n + 1 \in Nat /\ Built(frame.node, o, kids, n)  BY <1>1, <1>3
  <2> HIDE DEF n
  <2>2. Built(withKey, o, kids, n + 1)  BY <2>1, BuiltFurther
  <2>3. Built(Adopt(withKey, kids[n + 1 + 1]), o, kids, n + 1 + 1)
    <3> HIDE DEF withKey
    <3> QED  BY <2>1, <2>2, BuiltFurther
  <2>4. n + 1 + 1 = 2 * (j + 1) /\ n + 1 = 2 * j + 1 /\ n + 1 + 1 = 2 * j + 2
    BY <1>3 DEF n
  <2>5. new.node = Adopt(withKey, kids[n + 1 + 1])  BY <1>5, <2>4
  <2> QED  BY <2>3, <2>4, <2>5
<1>8. Object(f, new.index) = o /\ new.j = j + 1  OBVIOUS
<1> HIDE DEF j
<1> QED  BY <1>1, <1>3, <1>6, <1>7, <1>8 DEF ReadFrame, kids

-----------------------------------------------------------------------------
\* The object that is read for the container at level l - 1, or the root.
Awaited(f, s, l) ==
    IF l = 0 THEN f.root
    ELSE RefsAt(Object(f, s[l].index), s[l].j)[IF s[l].key = NULL THEN 1 ELSE 2]

FramesRead(f, s) ==
    \A m \in 1..Len(s) : s[m].index = Awaited(f, s, m - 1) /\ ReadFrame(f, s[m], m - 1)

\* What is inductive while every child found memory. A tree that returns is that
\* of the object that was to be read; none returns only if the file has none, or a
\* node could not be allocated.
ReadInv ==
    "attach" \notin oom =>
        /\ FramesRead(file, stack)
        /\ pc = "enter" => arg = Awaited(file, stack, level)
        /\ oom # {} \/ err # PLIST_ERR_SUCCESS => pc \in {"return", "done"} /\ res = NULL
        /\ pc \in {"return", "done"} =>
              IF res = NULL THEN oom = {} => ~Readable(file)
              ELSE /\ Read(file, Awaited(file, stack, level), level)
                   /\ res = TreeAt(file, Awaited(file, stack, level), level)
        /\ pc = "done" => stack = <<>> /\ (res = NULL => err # PLIST_ERR_SUCCESS)

LEMMA FramesReadPushed ==
    ASSUME NEW f, NEW s, IsSeq(s), FramesRead(f, s),
           NEW e, e.index = Awaited(f, s, Len(s)), ReadFrame(f, e, Len(s))
    PROVE  FramesRead(f, Append(s, e))
<1> DEFINE r == Append(s, e)
<1>1. /\ Len(s) \in Nat /\ Len(r) = Len(s) + 1
      /\ \A m \in 1..Len(s) : r[m] = s[m]
      /\ r[Len(s) + 1] = e
  BY Appended
<1> HIDE DEF r
<1>2. \A m \in 0..Len(s) : Awaited(f, r, m) = Awaited(f, s, m)
  <2>1. \A m \in 0..Len(s) : m = 0 \/ m \in 1..Len(s)  BY <1>1
  <2> QED  BY <1>1, <2>1 DEF Awaited
<1>3. ASSUME NEW m \in 1..Len(s)
      PROVE  r[m].index = Awaited(f, r, m - 1) /\ ReadFrame(f, r[m], m - 1)
  <2>1. m - 1 \in 0..Len(s) /\ r[m] = s[m]  BY <1>1
  <2>2. s[m].index = Awaited(f, s, m - 1) /\ ReadFrame(f, s[m], m - 1)  BY DEF FramesRead
  <2> QED  BY <1>2, <2>1, <2>2
<1>4. r[Len(s) + 1].index = Awaited(f, r, Len(s)) /\ ReadFrame(f, r[Len(s) + 1], Len(s))
  <2>1. Len(s) \in 0..Len(s)  BY <1>1
  <2> QED  BY <1>1, <1>2, <2>1
<1>5. ASSUME NEW m \in 1..Len(r)
      PROVE  r[m].index = Awaited(f, r, m - 1) /\ ReadFrame(f, r[m], m - 1)
  <2>1. CASE m \in 1..Len(s)  BY <1>3, <2>1
  <2>2. CASE m = Len(s) + 1
    <3>1. m - 1 = Len(s)  BY <1>1, <2>2
    <3> QED  BY <1>4, <2>2, <3>1
  <2>3. m \in 1..Len(s) \/ m = Len(s) + 1  BY <1>1
  <2> QED  BY <2>1, <2>2, <2>3
<1>6. FramesRead(f, r)  BY <1>5 DEF FramesRead
<1> QED  BY <1>6 DEF r

LEMMA FramesReadPopped ==
    ASSUME NEW f, NEW s, IsSeq(s), s # <<>>, FramesRead(f, s)
    PROVE  /\ FramesRead(f, Front(s))
           /\ Last(s).index = Awaited(f, Front(s), Len(s) - 1)
           /\ ReadFrame(f, Last(s), Len(s) - 1)
<1> DEFINE r == Front(s)
<1>1. /\ Len(s) \in Nat /\ Len(s) > 0 /\ Len(r) = Len(s) - 1
      /\ \A m \in 1..(Len(s) - 1) : r[m] = s[m]
      /\ Last(s) = s[Len(s)]
  BY Shortened
<1> HIDE DEF r
<1>2. \A m \in 0..(Len(s) - 1) : Awaited(f, r, m) = Awaited(f, s, m)
  <2>1. \A m \in 0..(Len(s) - 1) : m = 0 \/ m \in 1..(Len(s) - 1)  BY <1>1
  <2> QED  BY <1>1, <2>1 DEF Awaited
<1>3. \A m \in 1..Len(s) : s[m].index = Awaited(f, r, m - 1) /\ ReadFrame(f, s[m], m - 1)
  <2> SUFFICES ASSUME NEW m \in 1..Len(s)
               PROVE  s[m].index = Awaited(f, r, m - 1) /\ ReadFrame(f, s[m], m - 1)
    OBVIOUS
  <2>1. m - 1 \in 0..(Len(s) - 1)  BY <1>1
  <2>2. s[m].index = Awaited(f, s, m - 1) /\ ReadFrame(f, s[m], m - 1)  BY DEF FramesRead
  <2> QED  BY <1>2, <2>1, <2>2
<1>4. FramesRead(f, r)
  <2>1. \A m \in 1..Len(r) : m \in 1..Len(s) /\ r[m] = s[m]  BY <1>1
  <2> QED  BY <1>3, <2>1 DEF FramesRead
<1>5. Len(s) \in 1..Len(s)  BY <1>1
<1> QED  BY <1>1, <1>3, <1>4, <1>5 DEF r

LEMMA FramesReadReplaced ==
    ASSUME NEW f, NEW s, IsSeq(s), s # <<>>, FramesRead(f, s),
           NEW e, e.index = Last(s).index, ReadFrame(f, e, Len(s) - 1)
    PROVE  /\ FramesRead(f, Append(Front(s), e))
           /\ Len(Append(Front(s), e)) = Len(s) /\ Append(Front(s), e)[Len(s)] = e
<1> DEFINE r == Front(s)
<1>1. /\ IsSeq(r) /\ Len(r) = Len(s) - 1 /\ Len(s) \in Nat
      /\ FramesRead(f, r) /\ Last(s).index = Awaited(f, r, Len(s) - 1)
  BY Shortened, FramesReadPopped
<1> HIDE DEF r
<1>2. e.index = Awaited(f, r, Len(r)) /\ ReadFrame(f, e, Len(r))  BY <1>1
<1>3. FramesRead(f, Append(r, e))  BY <1>1, <1>2, FramesReadPushed
<1>4. Len(Append(r, e)) = Len(r) + 1 /\ Append(r, e)[Len(r) + 1] = e  BY <1>1, Appended
<1>5. Len(r) + 1 = Len(s)  BY <1>1
<1> QED  BY <1>3, <1>4, <1>5 DEF r

-----------------------------------------------------------------------------
LEMMA ReadInit == Idle => ReadInv
<1> SUFFICES ASSUME Idle PROVE ReadInv  OBVIOUS
<1>1. stack = <<>> /\ pc = "start" /\ err = PLIST_ERR_SUCCESS /\ oom = {}  BY DEF Idle
<1>2. FramesRead(file, <<>>)
  <2>1. Len(<<>>) = 0 /\ 1..0 = {}  BY EmptySeq
  <2> QED  BY <2>1 DEF FramesRead
<1> QED  BY <1>1, <1>2 DEF ReadInv

\* Nothing is read.
LEMMA NothingRead ==
    ASSUME UNCHANGED file, FramesRead(file, stack'), pc' = "return", res' = NULL,
           oom' = {} => ~Readable(file)
    PROVE  ReadInv'
BY DEF ReadInv

\* The reader goes on.
LEMMA ReadGoesOn ==
    ASSUME UNCHANGED file, FramesRead(file, stack'), pc' \in {"loop", "enter"},
           oom' = {}, err' = PLIST_ERR_SUCCESS,
           pc' = "enter" => arg' = Awaited(file, stack', Len(stack'))
    PROVE  ReadInv'
BY DEF ReadInv, level

\* A tree returns.
LEMMA TreeReturns ==
    ASSUME UNCHANGED file, FramesRead(file, stack'), pc' = "return",
           oom' = {}, err' = PLIST_ERR_SUCCESS, res' # NULL,
           Read(file, Awaited(file, stack', Len(stack')), Len(stack')),
           res' = TreeAt(file, Awaited(file, stack', Len(stack')), Len(stack'))
    PROVE  ReadInv'
BY DEF ReadInv, level

\* The innermost container, and what of it is not good for a tree.
LEMMA TopRead ==
    ASSUME RouteInv, NodesInv, ReadInv, "attach" \notin oom, stack # <<>>
    PROVE  /\ IsSeq(stack) /\ FramesRead(file, stack) /\ IsFile(file)
           /\ level \in 1..level /\ level - 1 + 1 = level
           /\ DOMAIN top = {"index", "j", "key", "node"}
           /\ top.index \in Indices(file) /\ IsContainer(topObject) /\ top.j \in Nat
           /\ ReadFrame(file, top, level - 1)
           /\ Awaited(file, stack, level) =
                 RefsAt(topObject, top.j)[IF top.key = NULL THEN 1 ELSE 2]
           /\ ~Sound(file, top.index) => ~Readable(file)
<1>1. /\ top = stack[level] /\ level \in 1..level /\ top.index \in Indices(file)
      /\ DOMAIN top = {"index", "j", "key", "node"} /\ top.j \in Nat
  BY TopWaits
<1>2. level \in Nat /\ level # 0 /\ level - 1 + 1 = level /\ level - 1 \in 0..level
      /\ level - 1 < level /\ level - 1 # level
  BY <1>1, RouteLevel
<1>3. IsSeq(stack) /\ FramesRead(file, stack) /\ IsFile(file)  BY DEF RouteInv, ReadInv
<1>4. ReadFrame(file, top, level - 1)
  BY <1>3, FramesReadPopped DEF top, level
<1>5. IsContainer(topObject)  BY <1>4 DEF ReadFrame, topObject
<1>6. Awaited(file, stack, level) =
         RefsAt(topObject, top.j)[IF top.key = NULL THEN 1 ELSE 2]
  BY <1>1, <1>2 DEF Awaited, topObject
<1>7. ~Sound(file, top.index) => ~Readable(file)
  <2> DEFINE e == IF level - 1 = level THEN arg ELSE stack[level - 1 + 1].index
  <2>1. e = top.index  BY <1>1, <1>2
  <2>2. ~Sound(file, e) => ~Readable(file)  BY <1>2, UnsoundOnPath
  <2> HIDE DEF e
  <2> QED  BY <2>1, <2>2
<1> QED  BY <1>1, <1>2, <1>3, <1>4, <1>5, <1>6, <1>7

LEMMA ReadAbandoned ==
    ASSUME RouteInv, NodesInv, ReadInv, "attach" \notin oom, stack # <<>>,
           NEW gone, Abandon(gone), oom = {} => ~Readable(file)
    PROVE  ReadInv'
<1>1. IsSeq(stack) /\ FramesRead(file, stack)  BY TopRead
<1>2. /\ pc' = "return" /\ res' = NULL /\ stack' = Front(stack)
      /\ UNCHANGED file /\ UNCHANGED oom
  BY DEF Abandon
<1>3. FramesRead(file, stack')  BY <1>1, <1>2, FramesReadPopped
<1> QED  BY <1>2, <1>3, NothingRead

LEMMA ReadContinued ==
    ASSUME RouteInv, NodesInv, ReadInv, "attach" \notin oom, stack # <<>>,
           oom = {}, err = PLIST_ERR_SUCCESS, NEW node, Continue(node, FALSE),
           \A new : /\ new.index = top.index /\ new.j = top.j + 1
                    /\ new.key = NULL /\ new.node = node
                    => ReadFrame(file, new, level - 1)
    PROVE  ReadInv'
<1> DEFINE filled == [top EXCEPT !.j = @ + 1, !.key = NULL, !.node = node]
<1>1. /\ IsSeq(stack) /\ FramesRead(file, stack)
      /\ DOMAIN top = {"index", "j", "key", "node"}
  BY TopRead
<1>2. /\ filled.index = top.index /\ filled.j = top.j + 1
      /\ filled.key = NULL /\ filled.node = node
  BY <1>1
<1>3. /\ pc' = "loop" /\ stack' = Append(Front(stack), filled)
      /\ UNCHANGED file /\ UNCHANGED oom /\ UNCHANGED err
  BY DEF Continue
<1> HIDE DEF filled
<1>4. ReadFrame(file, filled, Len(stack) - 1)  BY <1>2 DEF level
<1>5. FramesRead(file, stack')  BY <1>1, <1>2, <1>3, <1>4, FramesReadReplaced DEF top
<1> QED  BY <1>3, <1>5, ReadGoesOn

-----------------------------------------------------------------------------
LEMMA ChildIsAdopted ==
    ASSUME NEW l \in Nat, NEW node, TreeFits(node, l), NEW child, TreeFits(child, l + 1)
    PROVE  /\ AttachOrNot(node, child, FALSE) = Adopt(node, child)
           /\ TreeFits(Adopt(node, child), l)
<1>1. child.height \in Nat /\ l + 1 + child.height <= MaxNesting  BY DEF TreeFits
<1>2. ~(child.height + 1 > MaxNesting)  BY <1>1, NestingAssumption
<1>3. AttachOrNot(node, child, FALSE) = Adopt(node, child)
  BY <1>2 DEF AttachOrNot, node_attach
<1>4. TreeFits(AttachOrNot(node, child, FALSE), l)  BY ChildIsAttached
<1> QED  BY <1>3, <1>4

\* An object that is entered.
LEMMA EntersRead ==
    ASSUME RouteInv, PathInv, NodesInv, ReadInv, "attach" \notin oom,
           EnterRefused \/ EnterFails \/ EnterLeaf \/ EnterContainer
    PROVE  ReadInv'
<1>1. pc = "enter"
  BY DEF EnterRefused, EnterFails, EnterLeaf, EnterContainer, Entered
<1>2. /\ FramesRead(file, stack) /\ arg = Awaited(file, stack, level)
      /\ oom = {} /\ err = PLIST_ERR_SUCCESS
  BY <1>1 DEF ReadInv
<1>3. /\ level \in Nat /\ IsSeq(stack) /\ IsFile(file)
      /\ arg \in Indices(file) /\ NumObjects(file) \in Nat /\ file.root \in Indices(file)
  BY <1>1, RouteLevel, RootIsObject DEF RouteInv, Named
<1>4. ~Sound(file, arg) => ~Readable(file)
  <2> DEFINE e == IF level = level THEN arg ELSE stack[level + 1].index
  <2>1. e = arg  OBVIOUS
  <2>2. level \in 0..level  BY <1>3
  <2>3. ~Sound(file, e) => ~Readable(file)  BY <1>1, <2>2, UnsoundOnPath
  <2> HIDE DEF e
  <2> QED  BY <2>1, <2>3
<1>5. Object(file, arg).type \in {"bad", "nowhere"} => ~Readable(file)
  BY <1>4 DEF Sound
<1>6. CASE EnterRefused
  <2>1. pc' = "return" /\ res' = NULL /\ UNCHANGED <<file, stack>>
    BY <1>6 DEF EnterRefused, Refuse
  <2>2. \/ Object(file, arg).type = "nowhere"
        \/ too_deep(level)
        \/ recursion_detected(Marked(arg))
    BY <1>6 DEF EnterRefused
  <2>3. too_deep(level) => ~Readable(file)  BY <1>1, DeepIsNested DEF Readable
  <2>4. recursion_detected(Marked(arg)) => ~Readable(file)
    BY <1>1, <1>3, RecursionIsCircular, CircularIsNested DEF Readable
  <2>5. ~Readable(file)  BY <1>5, <2>2, <2>3, <2>4
  <2> QED  BY <1>2, <2>1, <2>5, NothingRead
<1>7. CASE EnterFails
  <2>1. pc' = "return" /\ res' = NULL /\ UNCHANGED <<file, stack>>
    BY <1>7 DEF EnterFails, Refuse
  <2>2. oom' = {} => Object(file, arg).type = "bad"  BY <1>7 DEF EnterFails
  <2> QED  BY <1>2, <1>5, <2>1, <2>2, NothingRead
<1>8. CASE EnterLeaf
  <2>1. /\ pc' = "return" /\ UNCHANGED <<file, stack>> /\ UNCHANGED oom /\ UNCHANGED err
        /\ res' = Leaf(Object(file, arg).type, Object(file, arg).value)
        /\ ~IsContainer(Object(file, arg))
        /\ Object(file, arg).type \notin {"bad", "nowhere"} /\ ~too_deep(level)
    BY <1>8 DEF EnterLeaf, Entered
  <2>2. level \in 0..MaxNesting  BY <1>3, <2>1, NestingAssumption DEF too_deep
  <2>3. Read(file, arg, level) /\ res' = TreeAt(file, arg, level)
    BY <1>3, <2>1, <2>2, LeafRead
  <2>4. res' # NULL  BY <1>3, <2>1, LeafFits, NullIsNoTree
  <2>5. Len(stack') = level  BY <2>1 DEF level
  <2> QED  BY <1>2, <2>1, <2>3, <2>4, <2>5, TreeReturns
<1>9. CASE EnterContainer
  <2> DEFINE new == [index |-> arg, j |-> 0, key |-> NULL,
                     node |-> Leaf(Object(file, arg).type, 0)]
  <2>1. /\ pc' = "loop" /\ UNCHANGED file /\ UNCHANGED oom /\ UNCHANGED err
        /\ stack' = Append(stack, new)
        /\ IsContainer(Object(file, arg)) /\ ~too_deep(level)
    BY <1>9 DEF EnterContainer, Entered
  <2>2. level \in 0..MaxNesting  BY <1>3, <2>1, NestingAssumption DEF too_deep
  <2>3. /\ new.index = arg /\ new.j = 0 /\ new.key = NULL
        /\ new.node = Leaf(Object(file, arg).type, 0)
    OBVIOUS
  <2> HIDE DEF new
  <2>4. ReadFrame(file, new, level)  BY <1>3, <2>1, <2>2, <2>3, EmptyFrame
  <2>5. FramesRead(file, stack')
    BY <1>2, <1>3, <2>1, <2>3, <2>4, FramesReadPushed DEF level
  <2> QED  BY <1>2, <2>1, <2>5, ReadGoesOn
<1> QED  BY <1>6, <1>7, <1>8, <1>9

\* The loop of a container.
LEMMA LoopsRead ==
    ASSUME RouteInv, NodesInv, ReadInv, "attach" \notin oom, Complete \/ BadRef \/ FollowRef
    PROVE  ReadInv'
<1>1. pc = "loop" /\ stack # <<>> /\ top.key = NULL
  BY DEF Complete, BadRef, FollowRef, NodesInv
<1>2. /\ FramesRead(file, stack) /\ oom = {} /\ err = PLIST_ERR_SUCCESS
  BY <1>1 DEF ReadInv
<1>3. /\ IsSeq(stack) /\ IsFile(file) /\ level \in 1..level
      /\ top.index \in Indices(file) /\ IsContainer(topObject) /\ top.j \in Nat
      /\ ReadFrame(file, top, level - 1)
      /\ Awaited(file, stack, level) = RefsAt(topObject, top.j)[1]
      /\ ~Sound(file, top.index) => ~Readable(file)
  BY <1>1, TopRead
<1>4. CASE Complete
  <2>1. /\ pc' = "return" /\ res' = top.node /\ stack' = Front(stack)
        /\ UNCHANGED file /\ UNCHANGED oom /\ UNCHANGED err
        /\ top.j = Count(Object(file, top.index))
    BY <1>4 DEF Complete, loop_over, topObject
  <2>2. Read(file, top.index, level - 1) /\ res' = TreeAt(file, top.index, level - 1)
    BY <1>3, <2>1, FullFrame
  <2>3. /\ FramesRead(file, stack') /\ Len(stack') = level - 1
        /\ top.index = Awaited(file, stack', Len(stack'))
    BY <1>1, <1>2, <1>3, <2>1, FramesReadPopped, Shortened DEF top, level
  <2>4. res' # NULL  BY <1>1, <2>1, TopFits, NullIsNoTree
  <2> QED  BY <1>2, <2>1, <2>2, <2>3, <2>4, TreeReturns
<1>5. CASE BadRef
  <2> DEFINE o == topObject
             j == top.j
             N == NumObjects(file)
  <2>1. /\ Abandon(0) /\ j < Count(o)
        /\ \E i \in DOMAIN RefsAt(o, j) : RefsAt(o, j)[i] >= N
    BY <1>5 DEF BadRef
  <2>2. o = Object(file, top.index) /\ IsContainer(o)  BY <1>3 DEF topObject
  <2>3. N \in Nat /\ \A m \in 1..Len(o.refs) : o.refs[m] \in ToSet(o.refs)
    BY <1>3, <2>2, FileIs, RefsAre
  <2>4. \E m \in 1..Len(o.refs) : o.refs[m] >= N
    <3>1. CASE o.type = "array"
      <4>1. RefsAt(o, j) = <<o.refs[j + 1]>> /\ j + 1 \in 1..Len(o.refs)
        BY <1>3, <2>1, <2>2, <3>1, RefsAtAre
      <4>2. o.refs[j + 1] >= N
        <5> HIDE DEF o, j, N
        <5> QED  BY <2>1, <4>1
      <4> QED  BY <4>1, <4>2
    <3>2. CASE o.type = "dict"
      <4>1. /\ RefsAt(o, j) = <<o.refs[j + 1], o.refs[j + 1 + Count(o)]>>
            /\ j + 1 \in 1..Len(o.refs) /\ j + 1 + Count(o) \in 1..Len(o.refs)
        BY <1>3, <2>1, <2>2, <3>2, RefsAtAre
      <4>2. o.refs[j + 1] >= N \/ o.refs[j + 1 + Count(o)] >= N
        <5> HIDE DEF o, j, N
        <5> QED  BY <2>1, <4>1
      <4> QED  BY <4>1, <4>2
    <3> QED  BY <2>2, <3>1, <3>2 DEF IsContainer
  <2>5. ~Sound(file, top.index)
    <3>1. PICK m \in 1..Len(o.refs) : o.refs[m] >= N  BY <2>4
    <3>2. o.refs[m] \notin Indices(file)  BY <2>3, <3>1 DEF Indices
    <3>3. ~(ToSet(o.refs) \subseteq Indices(file))  BY <2>3, <3>2
    <3> QED  BY <2>2, <3>3 DEF Sound
  <2>6. ~Readable(file)  BY <1>3, <2>5
  <2> QED  BY <1>1, <2>1, <2>6, ReadAbandoned
<1>6. CASE FollowRef
  <2>1. /\ pc' = "enter" /\ arg' = RefsAt(topObject, top.j)[1]
        /\ UNCHANGED file /\ UNCHANGED stack /\ UNCHANGED oom /\ UNCHANGED err
    BY <1>6 DEF FollowRef
  <2>2. Len(stack') = level  BY <2>1 DEF level
  <2> QED  BY <1>2, <1>3, <2>1, <2>2, ReadGoesOn
<1> QED  BY <1>4, <1>5, <1>6

\* What holds when something returned for a container that waits for it: the next of
\* its refs was read, or there is no tree.
LEMMA ForTop ==
    ASSUME RouteInv, NodesInv, ReadInv, "attach" \notin oom, pc = "return", stack # <<>>
    PROVE  /\ res = NULL => (oom = {} => ~Readable(file))
           /\ top.j < Count(topObject)
           /\ res # NULL =>
                 LET i == RefsAt(topObject, top.j)[IF top.key = NULL THEN 1 ELSE 2]
                     l == level - 1
                 IN  /\ oom = {} /\ err = PLIST_ERR_SUCCESS
                     /\ Read(file, i, l + 1) /\ res = TreeAt(file, i, l + 1)
                     /\ res.type = Object(file, i).type
                     /\ l \in Nat /\ TreeFits(top.node, l) /\ TreeFits(res, l + 1)
<1>1. /\ Awaited(file, stack, level) =
            RefsAt(topObject, top.j)[IF top.key = NULL THEN 1 ELSE 2]
      /\ level - 1 + 1 = level /\ IsFile(file)
  BY TopRead
<1>2. top.j < Count(topObject)
  BY TopWaits DEF Waits, topObject
<1>3. CASE res = NULL  BY <1>2, <1>3 DEF ReadInv
<1>4. CASE res # NULL
  <2> DEFINE i == Awaited(file, stack, level)
  <2>1. oom = {} /\ err = PLIST_ERR_SUCCESS /\ Read(file, i, level) /\ res = TreeAt(file, i, level)
    BY <1>4 DEF ReadInv
  <2>2. res.type = Object(file, i).type
    <3> HIDE DEF i
    <3>1. i \in Indices(file) /\ level \in 0..MaxNesting  BY <2>1 DEF Read
    <3> QED  BY <1>1, <2>1, <3>1, TreeType
  <2>3. level - 1 \in Nat /\ TreeFits(top.node, level - 1) /\ TreeFits(res, level)
    BY <1>4, TopFits, ResultFits
  <2> QED  BY <1>1, <1>2, <1>4, <2>1, <2>2, <2>3
<1> QED  BY <1>3, <1>4

LEMMA ItemIsRead ==
    ASSUME RouteInv, NodesInv, ReadInv, "attach" \notin oom', ItemReturns
    PROVE  ReadInv'
<1>1. pc = "return" /\ stack # <<>> /\ topObject.type = "array"
  BY DEF ItemReturns, Returned
<1>2. CASE res = NULL /\ Abandon(0)
  <2>1. "attach" \notin oom  BY <1>2 DEF Abandon
  <2> QED  BY <1>1, <1>2, <2>1, ForTop, ReadAbandoned
<1>3. ASSUME NEW failed \in BOOLEAN, res # NULL,
             Continue(AttachOrNot(top.node, res, failed), failed)
      PROVE  ReadInv'
  <2>1. "attach" \notin oom /\ failed = FALSE  BY <1>3 DEF Continue
  <2> DEFINE o == topObject
             l == level - 1
             i == o.refs[top.j + 1]
             node == Adopt(top.node, TreeAt(file, i, l + 1))
  <2>2. /\ top.index \in Indices(file) /\ IsContainer(o) /\ IsFile(file)
        /\ ReadFrame(file, top, l) /\ o = Object(file, top.index)
        /\ top.j \in Nat /\ top.j < Count(o)
    BY <1>1, <2>1, TopRead, ForTop DEF topObject
  <2>3. top.key = NULL  BY <1>1, TopFits
  <2>4. RefsAt(o, top.j)[1] = i  BY <1>1, <2>2, RefsAtAre
  <2>5. /\ oom = {} /\ err = PLIST_ERR_SUCCESS
        /\ Read(file, i, l + 1) /\ res = TreeAt(file, i, l + 1)
        /\ l \in Nat /\ TreeFits(top.node, l) /\ TreeFits(res, l + 1)
    BY <1>1, <1>3, <2>1, <2>3, <2>4, ForTop
  <2>6. AttachOrNot(top.node, res, FALSE) = node  BY <2>5, ChildIsAdopted
  <2>7. Continue(node, FALSE)  BY <1>3, <2>1, <2>6
  <2>8. ASSUME NEW new, new.index = top.index, new.j = top.j + 1, new.key = NULL,
               new.node = node
        PROVE  ReadFrame(file, new, l)
    <3> HIDE DEF o, l
    <3> QED  BY <1>1, <2>2, <2>5, <2>8, ItemRead DEF o
  <2> HIDE DEF node
  <2> QED  BY <1>1, <2>1, <2>5, <2>7, <2>8, ReadContinued
<1> QED  BY <1>2, <1>3 DEF ItemReturns

LEMMA KeyIsRead ==
    ASSUME RouteInv, NodesInv, ReadInv, "attach" \notin oom', KeyReturns
    PROVE  ReadInv'
<1>1. pc = "return" /\ stack # <<>> /\ topObject.type = "dict" /\ top.key = NULL
  BY DEF KeyReturns, Returned
<1>2. "attach" \notin oom  BY DEF KeyReturns, Abandon
<1> DEFINE o == topObject
           l == level - 1
           i == o.refs[top.j + 1]
<1>3. /\ top.index \in Indices(file) /\ IsContainer(o) /\ IsFile(file)
      /\ ReadFrame(file, top, l) /\ o = Object(file, top.index)
      /\ top.j \in Nat /\ top.j < Count(o)
      /\ IsSeq(stack) /\ FramesRead(file, stack)
      /\ DOMAIN top = {"index", "j", "key", "node"}
      /\ ~Sound(file, top.index) => ~Readable(file)
  BY <1>1, <1>2, TopRead, ForTop DEF topObject
<1>4. /\ RefsAt(o, top.j) = <<i, o.refs[top.j + 1 + Count(o)]>>
      /\ top.j + 1 \in 1..Count(o)
  BY <1>1, <1>3, RefsAtAre
<1>5. CASE res = NULL /\ Abandon(0)  BY <1>1, <1>2, <1>5, ForTop, ReadAbandoned
<1>6. ASSUME res # NULL
      PROVE  /\ oom = {} /\ err = PLIST_ERR_SUCCESS
             /\ Read(file, i, l + 1) /\ res = TreeAt(file, i, l + 1)
             /\ res.type = Object(file, i).type
             /\ TreeFits(res, l + 1)
  <2>1. RefsAt(o, top.j)[1] = i  BY <1>4
  <2> QED  BY <1>1, <1>2, <1>6, <2>1, ForTop
<1>7. CASE res # NULL /\ res.type # "string" /\ Abandon(res.size)
  <2>1. Object(file, i).type # "string"  BY <1>6, <1>7
  <2>2. ~Sound(file, top.index)  BY <1>1, <1>3, <1>4, <2>1 DEF Sound
  <2> QED  BY <1>1, <1>2, <1>3, <1>7, <2>2, ReadAbandoned
<1>8. CASE /\ res # NULL /\ res.type = "string"
           /\ pc' = "enter" /\ arg' = RefsAt(topObject, top.j)[2]
           /\ stack' = Append(Front(stack), [top EXCEPT !.key = AsKey(res)])
           /\ UNCHANGED <<file, err, oom>>
  <2> DEFINE new == [top EXCEPT !.key = AsKey(res)]
  <2>1. /\ new.index = top.index /\ new.j = top.j /\ new.node = top.node
        /\ new.key = AsKey(res)
    BY <1>3
  <2>2. stack' = Append(Front(stack), new)  BY <1>8
  <2> HIDE DEF new
  <2>3. KeyRead(file, i, l + 1) /\ new.key = AsKey(TreeAt(file, i, l + 1))
    BY <1>6, <1>8, <2>1 DEF KeyRead
  <2>4. ReadFrame(file, new, l)
    <3> HIDE DEF l
    <3>1. o.type = "dict"  BY <1>1
    <3> QED  BY <1>3, <2>1, <2>3, <3>1, NameRead
  <2>5. /\ FramesRead(file, stack')
        /\ Len(stack') = level /\ stack'[level] = new
    BY <1>1, <1>3, <2>1, <2>2, <2>4, FramesReadReplaced DEF top, level
  <2>6. new.key # NULL
    <3>1. TreeFits(new.key, l + 1)  BY <1>6, <1>8, <2>1, KeyFits
    <3> QED  BY <3>1, NullIsNoTree
  <2>7. level # 0  BY <1>1, TopFits
  <2>8. Awaited(file, stack', Len(stack')) = RefsAt(o, top.j)[2]
    BY <1>3, <2>1, <2>5, <2>6, <2>7 DEF Awaited
  <2> QED  BY <1>6, <1>8, <2>5, <2>8, ReadGoesOn
<1> QED  BY <1>5, <1>7, <1>8 DEF KeyReturns

LEMMA ValueIsRead ==
    ASSUME RouteInv, NodesInv, ReadInv, "attach" \notin oom', ValueReturns
    PROVE  ReadInv'
<1>1. pc = "return" /\ stack # <<>> /\ topObject.type = "dict" /\ top.key # NULL
  BY DEF ValueReturns, Returned
<1>2. CASE res = NULL /\ Abandon(freed_with_dict(top))
  <2>1. "attach" \notin oom  BY <1>2 DEF Abandon
  <2> QED  BY <1>1, <1>2, <2>1, ForTop, ReadAbandoned
<1>3. ASSUME NEW keyFailed \in BOOLEAN, NEW failed \in BOOLEAN, res # NULL,
             Continue(AttachOrNot(AttachOrNot(top.node, top.key, keyFailed), res, failed),
                      keyFailed \/ failed)
      PROVE  ReadInv'
  <2>1. "attach" \notin oom /\ failed = FALSE /\ keyFailed = FALSE  BY <1>3 DEF Continue
  <2> DEFINE o == topObject
             l == level - 1
             i == o.refs[top.j + 1 + Count(o)]
             withKey == Adopt(top.node, top.key)
             node == Adopt(withKey, TreeAt(file, i, l + 1))
  <2>2. /\ top.index \in Indices(file) /\ IsContainer(o) /\ IsFile(file)
        /\ ReadFrame(file, top, l) /\ o = Object(file, top.index)
        /\ top.j \in Nat /\ top.j < Count(o)
    BY <1>1, <2>1, TopRead, ForTop DEF topObject
  <2>3. RefsAt(o, top.j)[2] = i  BY <1>1, <2>2, RefsAtAre
  <2>4. /\ oom = {} /\ err = PLIST_ERR_SUCCESS
        /\ Read(file, i, l + 1) /\ res = TreeAt(file, i, l + 1)
        /\ l \in Nat /\ TreeFits(top.node, l) /\ TreeFits(res, l + 1)
    BY <1>1, <1>3, <2>1, <2>3, ForTop
  <2>5. TreeFits(top.key, l + 1)  BY <1>1, TopFits
  <2>6. AttachOrNot(top.node, top.key, FALSE) = withKey /\ TreeFits(withKey, l)
    BY <2>4, <2>5, ChildIsAdopted
  <2>7. AttachOrNot(withKey, res, FALSE) = node
    <3> HIDE DEF withKey
    <3> QED  BY <2>4, <2>6, ChildIsAdopted
  <2>8. Continue(node, FALSE)
    <3>1. (keyFailed \/ failed) = FALSE  BY <2>1
    <3> QED  BY <1>3, <2>1, <2>6, <2>7, <3>1
  <2>9. ASSUME NEW new, new.index = top.index, new.j = top.j + 1, new.key = NULL,
               new.node = node
        PROVE  ReadFrame(file, new, l)
    <3> HIDE DEF o, l
    <3> QED  BY <1>1, <2>2, <2>4, <2>9, PairRead DEF o
  <2> HIDE DEF node
  <2> QED  BY <1>1, <2>1, <2>4, <2>8, <2>9, ReadContinued
<1> QED  BY <1>2, <1>3 DEF ValueReturns

LEMMA ReadStep ==
    ASSUME RouteInv, PathInv, NodesInv, ReadInv, [Next]_vars
    PROVE  ReadInv'
<1>1. CASE "attach" \in oom'  BY <1>1 DEF ReadInv
<1>2. CASE "attach" \notin oom'
  <2>1. oom \subseteq oom'
    BY DEF Next, vars, StartRefused, Start, EnterRefused, EnterFails, EnterLeaf,
           EnterContainer, Complete, BadRef, Abandon, FollowRef, ItemReturns, KeyReturns,
           ValueReturns, Continue, Finish
  <2>2. "attach" \notin oom  BY <1>2, <2>1
  <2>3. CASE StartRefused
    <3>1. /\ pc = "start" /\ file.root >= NumObjects(file)
          /\ pc' = "done" /\ err' = PLIST_ERR_PARSE
          /\ UNCHANGED file /\ UNCHANGED res /\ UNCHANGED stack /\ UNCHANGED oom
      BY <2>3 DEF StartRefused
    <3>2. stack = <<>> /\ res = NULL /\ IsFile(file)  BY <3>1 DEF RouteInv, NodesInv
    <3>3. ~Readable(file)
      <4>1. file.root \in Nat /\ NumObjects(file) \in Nat  BY <3>2, FileIs
      <4>2. file.root \notin Indices(file)  BY <3>1, <4>1 DEF Indices
      <4> QED  BY <4>2 DEF Readable
    <3>4. err' # PLIST_ERR_SUCCESS  BY <3>1 DEF PLIST_ERR_PARSE, PLIST_ERR_SUCCESS
    <3> QED  BY <2>2, <3>1, <3>2, <3>3, <3>4 DEF ReadInv
  <2>4. CASE Start
    <3>1. /\ pc = "start" /\ pc' = "enter" /\ arg' = file.root
          /\ UNCHANGED file /\ UNCHANGED stack /\ UNCHANGED oom /\ UNCHANGED err
      BY <2>4 DEF Start
    <3>2. /\ FramesRead(file, stack) /\ stack = <<>> /\ oom = {} /\ err = PLIST_ERR_SUCCESS
      BY <2>2, <3>1 DEF RouteInv, ReadInv
    <3>3. Awaited(file, stack', Len(stack')) = file.root
      BY <3>1, <3>2, EmptySeq DEF Awaited
    <3> QED  BY <3>1, <3>2, <3>3, ReadGoesOn
  <2>5. CASE EnterRefused \/ EnterFails \/ EnterLeaf \/ EnterContainer
    BY <2>2, <2>5, EntersRead
  <2>6. CASE Complete \/ BadRef \/ FollowRef  BY <2>2, <2>6, LoopsRead
  <2>7. CASE ItemReturns  BY <1>2, <2>7, ItemIsRead
  <2>8. CASE KeyReturns  BY <1>2, <2>8, KeyIsRead
  <2>9. CASE ValueReturns  BY <1>2, <2>9, ValueIsRead
  <2>10. CASE Finish
    <3>1. /\ pc = "return" /\ stack = <<>> /\ pc' = "done"
          /\ err' = IF res = NULL /\ err = PLIST_ERR_SUCCESS THEN PLIST_ERR_PARSE ELSE err
          /\ UNCHANGED file /\ UNCHANGED res /\ UNCHANGED stack /\ UNCHANGED oom
      BY <2>10 DEF Finish
    <3>2. res = NULL => err' # PLIST_ERR_SUCCESS
      BY <3>1 DEF PLIST_ERR_PARSE, PLIST_ERR_SUCCESS
    <3>3. res # NULL => err' = err  BY <3>1
    <3>4. level' = level  BY <3>1 DEF level
    <3> QED  BY <2>2, <3>1, <3>2, <3>3, <3>4 DEF ReadInv
  <2>11. CASE UNCHANGED vars
    <3>1. /\ UNCHANGED file /\ UNCHANGED pc /\ UNCHANGED arg /\ UNCHANGED res
          /\ UNCHANGED stack /\ UNCHANGED err /\ UNCHANGED oom
      BY <2>11 DEF vars
    <3> QED  BY <3>1 DEF ReadInv, level
  <2> QED
    BY <2>3, <2>4, <2>5, <2>6, <2>7, <2>8, <2>9, <2>10, <2>11 DEF Next
<1> QED  BY <1>1, <1>2

\* What is inductive of a reader with a file.
ReaderInv == IInv /\ NodesInv /\ RouteInv /\ ReadInv

LEMMA ReaderReady == Idle /\ IsFile(file) => ReaderInv
<1> QED  BY InitInv, NodesInit, RouteInit, ReadInit DEF ReaderInv

LEMMA ReaderKeeps == ReaderInv /\ [Next]_vars => ReaderInv'
<1> QED  BY StepInv, NodesStep, RouteStep, ReadStep DEF ReaderInv, IInv

LEMMA ReaderAnswers == ReaderInv => ReadsTheTree
<1> SUFFICES ASSUME ReaderInv, pc = "done", "attach" \notin oom
             PROVE  IF oom = {} /\ Readable(file)
                      THEN err = PLIST_ERR_SUCCESS /\ res = Unfolding(file)
                      ELSE err # PLIST_ERR_SUCCESS /\ res = NULL
  BY DEF ReadsTheTree
<1> USE DEF ReaderInv
<1>1. stack = <<>> /\ level = 0
  <2>1. stack = <<>>  BY DEF ReadInv
  <2> QED  BY <2>1, EmptySeq DEF level
<1>2. Awaited(file, stack, level) = file.root  BY <1>1 DEF Awaited
<1>3. CASE res = NULL  BY <1>3 DEF ReadInv
<1>4. CASE res # NULL
  <2>1. /\ oom = {} /\ err = PLIST_ERR_SUCCESS
        /\ Read(file, file.root, 0) /\ res = TreeAt(file, file.root, 0)
    BY <1>1, <1>2, <1>4 DEF ReadInv
  <2>2. MaxNesting - 0 = MaxNesting  BY NestingAssumption
  <2>3. Readable(file)  BY <2>1, <2>2, ReadableIs DEF Read
  <2>4. res = Unfolding(file)  BY <2>1, <2>2 DEF TreeAt, Unfolding
  <2> QED  BY <2>1, <2>3, <2>4
<1> QED  BY <1>3, <1>4

\* Whatever graph the objects form, which siblings were read before and which nodes
\* cannot be allocated, as long as there is memory to attach a child: plist_from_bin
\* returns a tree of exactly the files that have one within the nesting limit, and
\* it is the whole tree, with every shared object written out, every item in its
\* place and every key before its value. Of any other file it returns an error
\* and no tree.
THEOREM AlwaysReadsTheTree == Spec => []ReadsTheTree
<1>1. Init => ReaderInv  BY InitReady, ReaderReady
<1> QED  BY <1>1, ReaderKeeps, ReaderAnswers, PTL DEF Spec

-----------------------------------------------------------------------------
(***************************************************************************)
(* The round trip. First where the nodes of a tree are: what a path leads  *)
(* to, and that it is on the level that its length says.                   *)
(***************************************************************************)
\* s goes from t along the first n entries of p.
Goes(s, t, p, n) == s = [m \in 0..n |-> IF m = 0 THEN t ELSE s[m - 1].kids[p[m]]]

\* The node of t that path p leads to.
Place(t, p) ==
    LET at[i \in 0..Len(p)] == IF i = 0 THEN t ELSE at[i - 1].kids[p[i]]
    IN  at[Len(p)]

LEMMA AtIsPlace ==
    \A node : Writer!At(node) = Place(tree, node)
<1> QED  BY DEF Writer!At, Place

LEMMA GoesExist ==
    ASSUME NEW t, NEW p, NEW n \in Nat
    PROVE  \E s : Goes(s, t, p, n)
<1> DEFINE T == {k \in Nat : ~\E s : Goes(s, t, p, k)}
<1> SUFFICES ASSUME T # {} PROVE FALSE  OBVIOUS
<1>1. T \in SUBSET Nat  OBVIOUS
<1>2. PICK k \in T : \A m \in T : k <= m  BY <1>1, LeastCounterexample
<1>3. k \in Nat /\ ~\E s : Goes(s, t, p, k)  BY <1>2
<1>4. CASE k = 0
  <2> DEFINE s == [m \in 0..0 |-> t]
  <2>1. s = [m \in 0..0 |-> IF m = 0 THEN t ELSE s[m - 1].kids[p[m]]]
    <3>1. \A m \in 0..0 : t = IF m = 0 THEN t ELSE s[m - 1].kids[p[m]]  OBVIOUS
    <3> QED  BY <3>1
  <2> HIDE DEF s
  <2> QED  BY <1>3, <1>4, <2>1 DEF Goes
<1>5. CASE k # 0
  <2>1. k - 1 \in Nat /\ ~(k <= k - 1)  BY <1>3, <1>5
  <2>2. PICK s : Goes(s, t, p, k - 1)  BY <1>2, <2>1
  <2> DEFINE b == [m \in 0..k |-> IF m = k THEN s[k - 1].kids[p[k]] ELSE s[m]]
  <2>3. b = [m \in 0..k |-> b[m]]  OBVIOUS
  <2>4. b[k] = s[k - 1].kids[p[k]] /\ \A m \in 0..(k - 1) : b[m] = s[m]  BY <1>3
  <2>5. \A m \in 0..(k - 1) : s[m] = IF m = 0 THEN t ELSE s[m - 1].kids[p[m]]
    BY <2>2 DEF Goes
  <2> HIDE DEF b
  <2>6. \A m \in 0..k : b[m] = IF m = 0 THEN t ELSE b[m - 1].kids[p[m]]
    <3> SUFFICES ASSUME NEW m \in 0..k
                 PROVE  b[m] = IF m = 0 THEN t ELSE b[m - 1].kids[p[m]]
      OBVIOUS
    <3>1. CASE m = k
      <4>1. k - 1 \in 0..(k - 1)  BY <2>1
      <4> QED  BY <1>5, <2>4, <3>1, <4>1
    <3>2. CASE m # k /\ m # 0
      <4>1. m \in 0..(k - 1) /\ m - 1 \in 0..(k - 1)  BY <1>3, <3>2
      <4> QED  BY <2>4, <2>5, <3>2, <4>1
    <3>3. CASE m = 0
      <4>1. 0 \in 0..(k - 1)  BY <2>1
      <4> QED  BY <2>4, <2>5, <3>3, <4>1
    <3> QED  BY <3>1, <3>2, <3>3
  <2>7. b = [m \in 0..k |-> IF m = 0 THEN t ELSE b[m - 1].kids[p[m]]]  BY <2>3, <2>6
  <2> QED  BY <1>3, <2>7 DEF Goes
<1> QED  BY <1>4, <1>5

\* There is one such function, and a path leads to its end.
LEMMA GoesToPlace ==
    ASSUME NEW t, NEW p, Len(p) \in Nat, NEW s, Goes(s, t, p, Len(p))
    PROVE  Place(t, p) = s[Len(p)]
<1> DEFINE n == Len(p)
           u == CHOOSE v : Goes(v, t, p, n)
<1>1. Goes(u, t, p, n)  OBVIOUS
<1>2. Place(t, p) = u[n]  BY DEF Place, Goes
<1> HIDE DEF u, n
<1>3. n \in Nat /\ Goes(s, t, p, n)  BY DEF n
<1>4. /\ \A m \in 0..n : s[m] = IF m = 0 THEN t ELSE s[m - 1].kids[p[m]]
      /\ \A m \in 0..n : u[m] = IF m = 0 THEN t ELSE u[m - 1].kids[p[m]]
  BY <1>1, <1>3 DEF Goes
<1>5. \A m \in 0..n : u[m] = s[m]
  <2> DEFINE T == {m \in 0..n : u[m] # s[m]}
  <2> SUFFICES ASSUME T # {} PROVE FALSE  OBVIOUS
  <2>1. T \in SUBSET Nat  OBVIOUS
  <2>2. PICK k \in T : \A m \in T : k <= m  BY <2>1, LeastCounterexample
  <2>3. k \in 0..n /\ u[k] # s[k]  BY <2>2
  <2>4. k # 0  BY <1>4, <2>3
  <2>5. k - 1 \in 0..n /\ ~(k <= k - 1)  BY <1>3, <2>3, <2>4
  <2>6. u[k - 1] = s[k - 1]  BY <2>2, <2>5
  <2> QED  BY <1>4, <2>3, <2>4, <2>6
<1> QED  BY <1>2, <1>3, <1>5 DEF n

LEMMA PlaceOfRoot ==
    ASSUME NEW t
    PROVE  Place(t, <<>>) = t
<1>1. Len(<<>>) = 0  BY EmptySeq
<1>2. PICK s : Goes(s, t, <<>>, 0)  BY GoesExist
<1>3. s[0] = t  BY <1>2 DEF Goes
<1> QED  BY <1>1, <1>2, <1>3, GoesToPlace

LEMMA PlaceOfChild ==
    ASSUME NEW t, NEW p \in Seq(Nat), NEW i \in Nat
    PROVE  Place(t, Append(p, i)) = Place(t, p).kids[i]
<1> DEFINE q == Append(p, i)
           n == Len(p)
<1>1. /\ n \in Nat /\ Len(q) = n + 1 /\ q[n + 1] = i
      /\ \A m \in 1..n : q[m] = p[m]
  BY AppendProperties, LenProperties
<1> HIDE DEF q, n
<1>2. n = Len(p)  BY DEF n
<1>3. PICK s : Goes(s, t, q, n + 1)
  <2>1. n + 1 \in Nat  BY <1>1
  <2> QED  BY ONLY <2>1, GoesExist
<1>4. \A m \in 0..(n + 1) : s[m] = IF m = 0 THEN t ELSE s[m - 1].kids[q[m]]
  BY <1>3 DEF Goes
<1>5. Place(t, q) = s[n + 1]  BY <1>1, <1>3, GoesToPlace
<1>6. s[n + 1] = s[n].kids[i]
  <2>1. n + 1 \in 0..(n + 1) /\ n + 1 # 0 /\ n + 1 - 1 = n  BY <1>1
  <2> QED  BY <1>1, <1>4, <2>1
<1>7. PICK r : Goes(r, t, p, n)  BY <1>1, GoesExist
<1>8. \A m \in 0..n : r[m] = IF m = 0 THEN t ELSE r[m - 1].kids[p[m]]
  BY <1>7 DEF Goes
<1>9. \A m \in 0..n : r[m] = s[m]
  <2> DEFINE T == {m \in 0..n : r[m] # s[m]}
  <2> SUFFICES ASSUME T # {} PROVE FALSE  OBVIOUS
  <2>1. T \in SUBSET Nat  OBVIOUS
  <2>2. PICK k \in T : \A m \in T : k <= m  BY <2>1, LeastCounterexample
  <2>3. k \in 0..n /\ r[k] # s[k]  BY <2>2
  <2>4. k \in 0..(n + 1) /\ 0 \in 0..n /\ 0 \in 0..(n + 1)  BY <1>1, <2>3
  <2>5. k # 0  BY <1>4, <1>8, <2>3, <2>4
  <2>6. k - 1 \in 0..n /\ ~(k <= k - 1) /\ k \in 1..n  BY <1>1, <2>3, <2>5
  <2>7. r[k - 1] = s[k - 1]  BY <2>2, <2>6
  <2>8. q[k] = p[k]  BY <1>1, <2>6
  <2> QED  BY <1>4, <1>8, <2>3, <2>4, <2>5, <2>7, <2>8
<1>10. Place(t, p) = r[n]  BY <1>1, <1>2, <1>7, GoesToPlace
<1>11. n \in 0..n  BY <1>1
<1> QED  BY <1>5, <1>6, <1>9, <1>10, <1>11 DEF q

\* The levels of a tree are those of its definition.
LEMMA LevelsAre ==
    ASSUME NEW t, NEW k \in 0..(MaxNesting + 1)
    PROVE  NodesAt(t)[k] =
              IF k = 0 THEN {t} ELSE UNION {ToSet(u.kids) : u \in NodesAt(t)[k - 1]}
<1> DEFINE N == MaxNesting + 1
           below(S) == UNION {ToSet(u.kids) : u \in S}
           Solves(at, n) == at = [m \in 0..n |-> IF m = 0 THEN {t} ELSE below(at[m - 1])]
           u == CHOOSE at : Solves(at, N)
<1>1. N \in Nat  BY NestingAssumption
<1>2. NodesAt(t) = u  BY DEF NodesAt
<1> HIDE DEF N, below
<1>3. \E at : Solves(at, N)
  <2> DEFINE T == {n \in Nat : ~\E at : Solves(at, n)}
  <2> SUFFICES ASSUME T # {} PROVE FALSE  BY <1>1
  <2>1. T \in SUBSET Nat  OBVIOUS
  <2>2. PICK n \in T : \A m \in T : n <= m  BY <2>1, LeastCounterexample
  <2>3. n \in Nat /\ ~\E at : Solves(at, n)  BY <2>2
  <2>4. CASE n = 0
    <3> DEFINE s == [m \in 0..0 |-> {t}]
    <3>1. s = [m \in 0..0 |-> IF m = 0 THEN {t} ELSE below(s[m - 1])]
      <4>1. \A m \in 0..0 : {t} = IF m = 0 THEN {t} ELSE below(s[m - 1])  OBVIOUS
      <4> QED  BY <4>1
    <3> HIDE DEF s
    <3> QED  BY <2>3, <2>4, <3>1
  <2>5. CASE n # 0
    <3>1. n - 1 \in Nat /\ ~(n <= n - 1)  BY <2>3, <2>5
    <3>2. PICK s : Solves(s, n - 1)  BY <2>2, <3>1
    <3> DEFINE b == [m \in 0..n |-> IF m = n THEN below(s[n - 1]) ELSE s[m]]
    <3>3. b = [m \in 0..n |-> b[m]]  OBVIOUS
    <3>4. b[n] = below(s[n - 1]) /\ \A m \in 0..(n - 1) : b[m] = s[m]  BY <2>3
    <3>5. \A m \in 0..(n - 1) : s[m] = IF m = 0 THEN {t} ELSE below(s[m - 1])  BY <3>2
    <3> HIDE DEF b
    <3>6. \A m \in 0..n : b[m] = IF m = 0 THEN {t} ELSE below(b[m - 1])
      <4> SUFFICES ASSUME NEW m \in 0..n
                   PROVE  b[m] = IF m = 0 THEN {t} ELSE below(b[m - 1])
        OBVIOUS
      <4>1. CASE m = n
        <5>1. n - 1 \in 0..(n - 1)  BY <3>1
        <5> QED  BY <2>5, <3>4, <4>1, <5>1
      <4>2. CASE m # n /\ m # 0
        <5>1. m \in 0..(n - 1) /\ m - 1 \in 0..(n - 1)  BY <2>3, <4>2
        <5> QED  BY <3>4, <3>5, <4>2, <5>1
      <4>3. CASE m = 0
        <5>1. 0 \in 0..(n - 1)  BY <3>1
        <5> QED  BY <3>4, <3>5, <4>3, <5>1
      <4> QED  BY <4>1, <4>2, <4>3
    <3>7. b = [m \in 0..n |-> IF m = 0 THEN {t} ELSE below(b[m - 1])]  BY <3>3, <3>6
    <3> QED  BY <2>3, <3>7
  <2> QED  BY <2>4, <2>5
<1>4. Solves(u, N)  BY <1>3
<1> HIDE DEF u
<1>5. u[k] = IF k = 0 THEN {t} ELSE below(u[k - 1])  BY <1>4 DEF N
<1> QED  BY <1>2, <1>5 DEF below

\* p is a path in t, no longer than the nesting may be.
Path(t, p) == p \in Seq(Nat) /\ Len(p) \in 0..MaxNesting /\ Place(t, p) \in NodesAt(t)[Len(p)]

LEMMA RootPath ==
    ASSUME NEW t
    PROVE  Path(t, <<>>) /\ Place(t, <<>>) = t
<1>1. Len(<<>>) = 0 /\ <<>> \in Seq(Nat)  BY EmptySeq
<1>2. 0 \in 0..MaxNesting /\ 0 \in 0..(MaxNesting + 1)  BY NestingAssumption
<1>3. NodesAt(t)[0] = {t}  BY <1>2, LevelsAre
<1> QED  BY <1>1, <1>2, <1>3, PlaceOfRoot DEF Path

\* A path within the limit leads to a node as it should be, and its children have
\* paths within the limit.
LEMMA PathGoesOn ==
    ASSUME NEW t, IsTree(t), NEW p, Path(t, p)
    PROVE  /\ WellMade(Place(t, p))
           /\ Len(Place(t, p).kids) \in Nat
           /\ DOMAIN Place(t, p).kids = 1..Len(Place(t, p).kids)
           /\ \A i \in 1..Len(Place(t, p).kids) :
                 /\ Path(t, Append(p, i)) /\ Len(Append(p, i)) = Len(p) + 1
                 /\ Place(t, Append(p, i)) = Place(t, p).kids[i]
<1> DEFINE n == Len(p)
           u == Place(t, p)
<1>1. p \in Seq(Nat) /\ n \in 0..MaxNesting /\ u \in NodesAt(t)[n]  BY DEF Path
<1>2. WellMade(u)  BY <1>1 DEF IsTree
<1>3. u.kids \in Seq(ToSet(u.kids))  BY <1>2 DEF WellMade
<1>4. Len(u.kids) \in Nat /\ DOMAIN u.kids = 1..Len(u.kids)  BY <1>3, LenProperties
<1>5. ASSUME NEW i \in 1..Len(u.kids)
      PROVE  /\ Path(t, Append(p, i)) /\ Len(Append(p, i)) = n + 1
             /\ Place(t, Append(p, i)) = u.kids[i]
  <2>1. i \in Nat  BY <1>4
  <2>2. Place(t, Append(p, i)) = u.kids[i]  BY <1>1, <2>1, PlaceOfChild
  <2>3. Append(p, i) \in Seq(Nat) /\ Len(Append(p, i)) = n + 1
    BY <1>1, <2>1, AppendProperties
  <2>4. u.kids[i] \in ToSet(u.kids)  BY <1>4 DEF ToSet
  <2>5. /\ n + 1 \in 0..(MaxNesting + 1) /\ n + 1 # 0 /\ n + 1 - 1 = n
        /\ n + 1 # MaxNesting + 1 => n + 1 \in 0..MaxNesting
    BY <1>1, NestingAssumption
  <2> HIDE DEF n, u
  <2>6. NodesAt(t)[n + 1] = UNION {ToSet(v.kids) : v \in NodesAt(t)[n]}
    <3>1. PICK k \in 0..(MaxNesting + 1) : k = n + 1  BY <2>5
    <3>2. NodesAt(t)[k] = UNION {ToSet(v.kids) : v \in NodesAt(t)[k - 1]}
      BY <2>5, <3>1, LevelsAre
    <3>3. n \in Nat /\ \A m \in Nat : m + 1 - 1 = m  BY <1>1 DEF n
    <3>4. k - 1 = n  BY <3>1, <3>3
    <3> QED  BY ONLY <3>1, <3>2, <3>4
  <2>7. u.kids[i] \in NodesAt(t)[n + 1]  BY <1>1, <2>4, <2>6
  <2>8. n + 1 # MaxNesting + 1  BY <2>7 DEF IsTree
  <2> QED  BY <2>2, <2>3, <2>5, <2>7, <2>8 DEF Path
<1> QED  BY <1>2, <1>4, <1>5

-----------------------------------------------------------------------------
(***************************************************************************)
(* What a file must be to be read as a tree: for each node of the tree an  *)
(* object, with its data and, for a container, the indices of the objects  *)
(* for its children.                                                       *)
(***************************************************************************)
\* The nodes a and b have the same data.
Alike(t, a, b) ==
    \/ a = b
    \/ /\ Place(t, a).type = Place(t, b).type
       /\ Place(t, a).type \notin {"array", "dict"}
       /\ Place(t, a).value = Place(t, b).value

\* Object r, which was written of ob[r + 1], stands for the node p as well.
Stands(t, f, ob, r, p) == r \in Indices(f) /\ Alike(t, p, ob[r + 1])

Portrays(t, f, ob, r, p) ==
    LET o == Object(f, r)
        u == Place(t, p)
    IN  /\ o.type = IF u.type = "key" THEN "string" ELSE u.type
        /\ o.value = u.value
        /\ o.refs \in Seq(Nat)
        /\ u.type \notin {"array", "dict"} => o.refs = <<>>
        /\ u.type \in {"array", "dict"} => Len(o.refs) = Len(u.kids)
        /\ u.type = "array" =>
              \A m \in 1..Len(u.kids) : Stands(t, f, ob, o.refs[m], Append(p, m))
        /\ u.type = "dict" =>
              \A m \in 1..Count(o) :
                 /\ Stands(t, f, ob, o.refs[m], Append(p, 2 * m - 1))
                 /\ Stands(t, f, ob, o.refs[m + Count(o)], Append(p, 2 * m))

Faithful(t, f, ob) ==
    \A r, p : Path(t, p) /\ Stands(t, f, ob, r, p) => Portrays(t, f, ob, r, p)

\* What is read of object r at level l is the node p.
Shown(t, f, r, p, l) ==
    Place(t, p) = IF Place(t, p).type = "key" THEN AsKey(TreeAt(f, r, l)) ELSE TreeAt(f, r, l)

ShownBelow(t, f, ob, l) ==
    \A r, p : Path(t, p) /\ Len(p) = l /\ Stands(t, f, ob, r, p) =>
                 Read(f, r, l) /\ Shown(t, f, r, p, l)

\* The container a node is depends on its type and its kids only.
LEMMA FilledAlike ==
    ASSUME NEW o, NEW u, o.type = u.type, NEW kids, Len(kids) \in Nat
    PROVE  Filled(o, kids) = Filled(u, kids)
<1>1. PICK node : Built(node, o, kids, Len(kids))  BY BuiltExists
<1>2. Built(node, u, kids, Len(kids))  BY <1>1 DEF Built
<1>3. node = Filled(o, kids)  BY <1>1, BuiltIsFilled
<1>4. node = Filled(u, kids)  BY <1>2, BuiltIsFilled
<1> QED  BY <1>3, <1>4

LEMMA KidsAtIs ==
    ASSUME NEW f, NEW o, IsContainer(o), NEW l \in Nat, l + 1 <= MaxNesting
    PROVE  KidsAt(f, o, l) = [m \in 1..Len(o.refs) |-> KidsAt(f, o, l)[m]]
<1>1. MaxNesting - l # 0  BY NestingAssumption
<1> DEFINE below == TreesTo(f)[MaxNesting - l - 1]
<1>2. KidsAt(f, o, l) = KidsOf(o, below)  BY <1>1 DEF KidsAt
<1> HIDE DEF below
<1>3. KidsOf(o, below) = [m \in 1..Len(o.refs) |-> KidsOf(o, below)[m]]
  <2>1. CASE o.type = "array"  BY <2>1 DEF KidsOf
  <2>2. CASE o.type # "array"  BY <2>2 DEF KidsOf
  <2> QED  BY <2>1, <2>2
<1> QED  BY <1>2, <1>3

\* A leaf.
LEMMA LeafShown ==
    ASSUME NEW t, IsTree(t), NEW f, IsFile(f), NEW ob, Faithful(t, f, ob),
           NEW l \in 0..MaxNesting, NEW r, NEW p, Path(t, p), Stands(t, f, ob, r, p),
           ~IsContainer(Place(t, p))
    PROVE  Read(f, r, l) /\ Shown(t, f, r, p, l)
<1> DEFINE o == Object(f, r)
           u == Place(t, p)
<1>1. r \in Indices(f)  BY DEF Stands
<1>2. /\ o.type = IF u.type = "key" THEN "string" ELSE u.type
      /\ o.value = u.value
  BY DEF Faithful, Portrays
<1>3. WellMade(u)  BY PathGoesOn
<1>4. u = Leaf(u.type, u.value) /\ u.type \notin {"bad", "nowhere"}
  BY <1>3 DEF WellMade
<1>5. ~IsContainer(o) /\ o.type \notin {"bad", "nowhere"}  BY <1>2, <1>4 DEF IsContainer
<1>6. Read(f, r, l) /\ TreeAt(f, r, l) = Leaf(o.type, o.value)  BY <1>1, <1>5, LeafRead
<1>7. CASE u.type = "key"
  <2>1. AsKey(Leaf(o.type, o.value)) = Leaf("key", u.value)  BY <1>2 DEF AsKey, Leaf
  <2> QED  BY <1>4, <1>6, <1>7, <2>1 DEF Shown
<1>8. CASE u.type # "key"  BY <1>2, <1>4, <1>6, <1>8 DEF Shown
<1> QED  BY <1>6, <1>7, <1>8

\* What a container refers to is shown one level down.
RefsShown(t, f, p, o, l) ==
    /\ \A m \in 1..Len(o.refs) : Read(f, o.refs[m], l + 1)
    /\ o.type = "array" =>
          \A m \in 1..Len(o.refs) : TreeAt(f, o.refs[m], l + 1) = Place(t, p).kids[m]
    /\ o.type = "dict" =>
          \A m \in 1..Count(o) :
             /\ Object(f, o.refs[m]).type = "string"
             /\ AsKey(TreeAt(f, o.refs[m], l + 1)) = Place(t, p).kids[2 * m - 1]
             /\ TreeAt(f, o.refs[m + Count(o)], l + 1) = Place(t, p).kids[2 * m]

LEMMA RefsAreShown ==
    ASSUME NEW t, IsTree(t), NEW f, IsFile(f), NEW ob, Faithful(t, f, ob),
           NEW l \in 0..MaxNesting, ShownBelow(t, f, ob, l + 1),
           NEW r, NEW p, Path(t, p), Len(p) = l, Stands(t, f, ob, r, p),
           IsContainer(Place(t, p))
    PROVE  RefsShown(t, f, p, Object(f, r), l)
<1> DEFINE o == Object(f, r)
           u == Place(t, p)
<1>1. r \in Indices(f)  BY DEF Stands
<1>2. Portrays(t, f, ob, r, p)  BY DEF Faithful
<1>3. /\ WellMade(u) /\ Len(u.kids) \in Nat /\ DOMAIN u.kids = 1..Len(u.kids)
      /\ \A i \in 1..Len(u.kids) :
            /\ Path(t, Append(p, i)) /\ Len(Append(p, i)) = l + 1
            /\ Place(t, Append(p, i)) = u.kids[i]
  BY PathGoesOn
<1>4. o.type = u.type /\ IsContainer(o) /\ Len(o.refs) = Len(u.kids)
  BY <1>2 DEF Portrays, IsContainer
<1>5. \A i \in DOMAIN u.kids : u.kids[i].type = "key" <=> u.type = "dict" /\ i % 2 = 1
  BY <1>3 DEF WellMade
<1>6. CASE o.type = "array"
  <2>1. \A m \in 1..Len(u.kids) : Stands(t, f, ob, o.refs[m], Append(p, m))
    BY <1>2, <1>4, <1>6 DEF Portrays
  <2>2. ASSUME NEW m \in 1..Len(o.refs)
        PROVE  Read(f, o.refs[m], l + 1) /\ TreeAt(f, o.refs[m], l + 1) = u.kids[m]
    <3> DEFINE c == Append(p, m)
    <3>1. m \in 1..Len(u.kids) /\ m \in DOMAIN u.kids  BY <1>3, <1>4
    <3>2. Path(t, c) /\ Len(c) = l + 1 /\ Place(t, c) = u.kids[m]  BY <1>3, <3>1
    <3>3. Read(f, o.refs[m], l + 1) /\ Shown(t, f, o.refs[m], c, l + 1)
      BY <2>1, <3>1, <3>2 DEF ShownBelow
    <3>4. u.kids[m].type # "key"  BY <1>4, <1>5, <1>6, <3>1
    <3> QED  BY <3>2, <3>3, <3>4 DEF Shown
  <2> QED  BY <1>6, <2>2 DEF RefsShown
<1>7. CASE o.type = "dict"
  <2>1. \A m \in 1..Count(o) : /\ Stands(t, f, ob, o.refs[m], Append(p, 2 * m - 1))
                               /\ Stands(t, f, ob, o.refs[m + Count(o)], Append(p, 2 * m))
    BY <1>2, <1>4, <1>7 DEF Portrays
  <2>2. Count(o) \in Nat /\ Len(o.refs) = 2 * Count(o)  BY <1>1, <1>4, <1>7, RefsAre
  <2>3. ASSUME NEW m \in 1..Count(o)
        PROVE  /\ Read(f, o.refs[m], l + 1) /\ Read(f, o.refs[m + Count(o)], l + 1)
               /\ Object(f, o.refs[m]).type = "string"
               /\ AsKey(TreeAt(f, o.refs[m], l + 1)) = u.kids[2 * m - 1]
               /\ TreeAt(f, o.refs[m + Count(o)], l + 1) = u.kids[2 * m]
    <3> DEFINE a == 2 * m - 1
               b == 2 * m
               k == o.refs[m]
               v == o.refs[m + Count(o)]
    <3>1. a \in 1..Len(u.kids) /\ b \in 1..Len(u.kids) /\ a % 2 = 1 /\ b % 2 # 1
      <4>1. \A n \in Nat : (2 * n) % 2 = 0 /\ (2 * n - 1) % 2 = 1  OBVIOUS
      <4>2. m \in Nat /\ m >= 1 /\ m <= Count(o)  BY <2>2
      <4>3. a \in 1..(2 * Count(o)) /\ b \in 1..(2 * Count(o))  BY <2>2, <4>2
      <4> QED  BY <1>4, <2>2, <4>1, <4>2, <4>3
    <3>2. u.kids[a].type = "key" /\ u.kids[b].type # "key"
      BY <1>3, <1>4, <1>5, <1>7, <3>1
    <3>3. Stands(t, f, ob, k, Append(p, a)) /\ Stands(t, f, ob, v, Append(p, b))
      BY <2>1
    <3> HIDE DEF a, b, k, v
    <3>4. /\ Path(t, Append(p, a)) /\ Len(Append(p, a)) = l + 1
          /\ Place(t, Append(p, a)) = u.kids[a]
          /\ Path(t, Append(p, b)) /\ Len(Append(p, b)) = l + 1
          /\ Place(t, Append(p, b)) = u.kids[b]
      BY <1>3, <3>1
    <3>5. Read(f, k, l + 1) /\ Shown(t, f, k, Append(p, a), l + 1)
      BY <3>3, <3>4 DEF ShownBelow
    <3>6. Read(f, v, l + 1) /\ Shown(t, f, v, Append(p, b), l + 1)
      BY <3>3, <3>4 DEF ShownBelow
    <3>7. Portrays(t, f, ob, k, Append(p, a))  BY <3>3, <3>4 DEF Faithful
    <3>8. Object(f, k).type = "string"  BY <3>2, <3>4, <3>7 DEF Portrays
    <3>9. AsKey(TreeAt(f, k, l + 1)) = u.kids[a]  BY <3>2, <3>4, <3>5 DEF Shown
    <3>10. TreeAt(f, v, l + 1) = u.kids[b]  BY <3>2, <3>4, <3>6 DEF Shown
    <3> QED  BY <3>5, <3>6, <3>8, <3>9, <3>10 DEF a, b, k, v
  <2>4. ASSUME NEW m \in 1..Len(o.refs) PROVE Read(f, o.refs[m], l + 1)
    <3>1. CASE m \in 1..Count(o)  BY <2>3, <3>1
    <3>2. CASE m \notin 1..Count(o)
      <4>1. m - Count(o) \in 1..Count(o) /\ m - Count(o) + Count(o) = m
        BY <2>2, <3>2
      <4> QED  BY <2>3, <4>1
    <3> QED  BY <3>1, <3>2
  <2> QED  BY <1>7, <2>3, <2>4 DEF RefsShown
<1> QED  BY <1>4, <1>6, <1>7 DEF IsContainer

\* A container, when what is a level below it is shown.
LEMMA ContainerShown ==
    ASSUME NEW t, IsTree(t), NEW f, IsFile(f), NEW ob, Faithful(t, f, ob),
           NEW l \in 0..MaxNesting, ShownBelow(t, f, ob, l + 1),
           NEW r, NEW p, Path(t, p), Len(p) = l, Stands(t, f, ob, r, p),
           IsContainer(Place(t, p))
    PROVE  Read(f, r, l) /\ Shown(t, f, r, p, l)
<1> DEFINE o == Object(f, r)
           u == Place(t, p)
           kids == KidsAt(f, o, l)
<1>1. r \in Indices(f)  BY DEF Stands
<1>2. Portrays(t, f, ob, r, p)  BY DEF Faithful
<1>3. o.type = u.type /\ IsContainer(o) /\ Len(o.refs) = Len(u.kids)
  BY <1>2 DEF Portrays, IsContainer
<1>4. RefsShown(t, f, p, o, l)  BY RefsAreShown
<1>5. /\ Count(o) \in Nat /\ Len(o.refs) \in Nat /\ o.refs \in Seq(Nat)
      /\ o.type = "array" => Count(o) = Len(o.refs)
      /\ o.type = "dict" => Len(o.refs) % 2 = 0 /\ Len(o.refs) = 2 * Count(o)
  BY <1>1, <1>3, RefsAre
<1>6. Read(f, r, l) /\ TreeAt(f, r, l) = Filled(o, kids)
  <2>1. PICK node : Built(node, o, kids, Len(o.refs))  BY <1>5, BuiltExists
  <2>2. PICK frame : frame = [index |-> r, j |-> Count(o), key |-> NULL, node |-> node]
    OBVIOUS
  <2>3. frame.index = r /\ frame.j = Count(o) /\ frame.key = NULL /\ frame.node = node
    BY <2>2
  <2>4. Count(o) \in 0..Count(o)  BY <1>5
  <2> HIDE DEF o, kids
  <2>5. Object(f, frame.index) = o /\ kids = KidsAt(f, o, l)  BY <2>3 DEF o, kids
  <2>6. o.type = "array" => /\ Built(node, o, KidsAt(f, o, l), Count(o))
                            /\ \A m \in 1..Count(o) : Read(f, o.refs[m], l + 1)
    BY <1>4, <1>5, <2>1, <2>5 DEF RefsShown
  <2>7. o.type = "dict" =>
           /\ Built(node, o, KidsAt(f, o, l), 2 * Count(o))
           /\ \A m \in 1..Count(o) : /\ KeyRead(f, o.refs[m], l + 1)
                                     /\ Read(f, o.refs[m + Count(o)], l + 1)
    <3> SUFFICES ASSUME o.type = "dict"
                 PROVE  /\ Built(node, o, KidsAt(f, o, l), 2 * Count(o))
                        /\ \A m \in 1..Count(o) :
                              /\ KeyRead(f, o.refs[m], l + 1)
                              /\ Read(f, o.refs[m + Count(o)], l + 1)
      OBVIOUS
    <3>1. Len(o.refs) = 2 * Count(o)  BY <1>5
    <3>2. \A m \in 1..Count(o) : m \in 1..Len(o.refs) /\ m + Count(o) \in 1..Len(o.refs)
      BY <1>5, <3>1
    <3>3. \A m \in 1..Count(o) : Object(f, o.refs[m]).type = "string"  BY <1>4 DEF RefsShown
    <3>4. \A m \in 1..Len(o.refs) : Read(f, o.refs[m], l + 1)  BY <1>4 DEF RefsShown
    <3> QED  BY <2>1, <2>5, <3>1, <3>2, <3>3, <3>4 DEF KeyRead
  <2>8. ReadFrame(f, frame, l)
    BY <1>1, <1>3, <2>3, <2>4, <2>5, <2>6, <2>7 DEF ReadFrame
  <2>9. Read(f, r, l)  BY <2>3, <2>5, <2>8, FullFrame
  <2> QED  BY <1>1, <1>3, <2>5, <2>9, TreeAtIs DEF o
<1>7. WellMade(u) /\ Len(u.kids) \in Nat /\ DOMAIN u.kids = 1..Len(u.kids)  BY PathGoesOn
<1>8. u = Filled(u, u.kids) /\ u.type # "key"  BY <1>7 DEF WellMade, IsContainer
<1>9. kids = u.kids
  <2>1. u.kids = [m \in 1..Len(u.kids) |-> u.kids[m]]
    <3>1. u.kids \in Seq(ToSet(u.kids))  BY <1>7 DEF WellMade
    <3>2. u.kids \in [1..Len(u.kids) -> ToSet(u.kids)]  BY <3>1, LenProperties
    <3> HIDE DEF u
    <3> QED  BY <3>2
  <2>2. CASE l = MaxNesting
    <3>1. kids = <<>>  BY <2>2, NestingAssumption DEF KidsAt
    <3>2. Len(u.kids) = 0
      <4> SUFFICES ASSUME Len(u.kids) # 0 PROVE FALSE  OBVIOUS
      <4>1. 1 \in 1..Len(o.refs)  BY <1>3, <1>5
      <4>2. l + 1 \in 0..MaxNesting  BY <1>4, <4>1 DEF Read, RefsShown
      <4> QED  BY <2>2, <4>2, NestingAssumption
    <3>3. u.kids \in Seq(ToSet(u.kids))  BY <1>7 DEF WellMade
    <3>4. u.kids = <<>>  BY <3>2, <3>3, EmptySeq
    <3> QED  BY <3>1, <3>4
  <2>3. CASE l # MaxNesting
    <3>1. l \in Nat /\ l + 1 <= MaxNesting  BY <2>3, NestingAssumption
    <3>2. kids = [m \in 1..Len(o.refs) |-> kids[m]]  BY <1>3, <3>1, KidsAtIs
    <3>3. ASSUME NEW m \in 1..Len(o.refs) PROVE kids[m] = u.kids[m]
      <4>1. CASE o.type = "array"
        <5>1. kids[m] = TreeAt(f, o.refs[m], l + 1)  BY <1>5, <3>1, <4>1, ArrayKids
        <5> QED  BY <1>4, <4>1, <5>1 DEF RefsShown
      <4>2. CASE o.type = "dict"
        <5>1. \A j \in 0..(Count(o) - 1) :
                 /\ kids[2 * j + 1] = AsKey(TreeAt(f, o.refs[j + 1], l + 1))
                 /\ kids[2 * j + 2] = TreeAt(f, o.refs[j + 1 + Count(o)], l + 1)
          <6>1. o.refs \in Seq(Nat) /\ o.type = "dict" /\ Len(o.refs) % 2 = 0  BY <1>5, <4>2
          <6> HIDE DEF o
          <6> QED  BY ONLY <3>1, <6>1, DictKids
        <5>2. \A i \in 1..Count(o) :
                 /\ AsKey(TreeAt(f, o.refs[i], l + 1)) = u.kids[2 * i - 1]
                 /\ TreeAt(f, o.refs[i + Count(o)], l + 1) = u.kids[2 * i]
          BY <1>4, <4>2 DEF RefsShown
        <5>3. \E j \in 0..(Count(o) - 1) : m = 2 * j + 1 \/ m = 2 * j + 2
          <6>1. \A n, c \in Nat : n \in 1..(2 * c) =>
                   (n - 1) \div 2 \in 0..(c - 1)
                   /\ (n = 2 * ((n - 1) \div 2) + 1 \/ n = 2 * ((n - 1) \div 2) + 2)
            OBVIOUS
          <6>2. m \in Nat /\ m \in 1..(2 * Count(o))  BY <1>5, <4>2
          <6> QED  BY <1>5, <6>1, <6>2
        <5>4. PICK j \in 0..(Count(o) - 1) : m = 2 * j + 1 \/ m = 2 * j + 2  BY <5>3
        <5>5. j + 1 \in 1..Count(o) /\ 2 * (j + 1) - 1 = 2 * j + 1 /\ 2 * (j + 1) = 2 * j + 2
          BY <1>5
        <5>6. PICK i \in 1..Count(o) : i = j + 1  BY <5>5
        <5> HIDE DEF kids, o, u
        <5> QED  BY <5>1, <5>2, <5>4, <5>5, <5>6
      <4> QED  BY <1>3, <4>1, <4>2 DEF IsContainer
    <3> HIDE DEF kids, u, o
    <3> QED  BY <1>3, <2>1, <3>2, <3>3
  <2> QED  BY <2>2, <2>3
<1>10. Filled(o, u.kids) = Filled(u, u.kids)  BY <1>3, <1>7, FilledAlike
<1> HIDE DEF kids, o
<1> QED  BY <1>6, <1>8, <1>9, <1>10 DEF Shown

\* Every level is shown, from the deepest up.
LEMMA LevelsShown ==
    ASSUME NEW t, IsTree(t), NEW f, IsFile(f), NEW ob, Faithful(t, f, ob),
           NEW l \in 0..MaxNesting
    PROVE  ShownBelow(t, f, ob, l)
<1> DEFINE T == {d \in 0..(MaxNesting + 1) : ~ShownBelow(t, f, ob, MaxNesting + 1 - d)}
<1>1. T = {}
  <2> SUFFICES ASSUME T # {} PROVE FALSE  OBVIOUS
  <2>1. T \in SUBSET Nat  BY NestingAssumption
  <2>2. PICK d \in T : \A m \in T : d <= m  BY <2>1, LeastCounterexample
  <2> DEFINE k == MaxNesting + 1 - d
  <2>3. d \in 0..(MaxNesting + 1) /\ ~ShownBelow(t, f, ob, k)  BY <2>2
  <2>4. CASE d = 0
    <3>1. k \notin 0..MaxNesting  BY <2>4, NestingAssumption
    <3> QED  BY <2>3, <3>1 DEF ShownBelow, Path
  <2>5. CASE d # 0
    <3>1. /\ k \in 0..MaxNesting /\ d - 1 \in 0..(MaxNesting + 1) /\ ~(d <= d - 1)
          /\ MaxNesting + 1 - (d - 1) = k + 1
      BY <2>3, <2>5, NestingAssumption
    <3>2. ShownBelow(t, f, ob, k + 1)  BY <2>2, <3>1
    <3> HIDE DEF k
    <3>3. ShownBelow(t, f, ob, k)
      <4> SUFFICES ASSUME NEW r, NEW p, Path(t, p), Len(p) = k, Stands(t, f, ob, r, p)
                   PROVE  Read(f, r, k) /\ Shown(t, f, r, p, k)
        BY DEF ShownBelow
      <4>1. CASE IsContainer(Place(t, p))  BY <3>1, <3>2, <4>1, ContainerShown
      <4>2. CASE ~IsContainer(Place(t, p))  BY <3>1, <4>2, LeafShown
      <4> QED  BY <4>1, <4>2
    <3> QED  BY <2>3, <3>3
  <2> QED  BY <2>4, <2>5
<1>2. MaxNesting + 1 - l \in 0..(MaxNesting + 1) /\ MaxNesting + 1 - (MaxNesting + 1 - l) = l
  BY NestingAssumption
<1> QED  BY <1>1, <1>2

\* A file that is faithful to a tree is read as the tree.
LEMMA FaithfulIsRead ==
    ASSUME NEW t, IsTree(t), NEW f, IsFile(f), NEW ob, Faithful(t, f, ob),
           f.root = 0, Stands(t, f, ob, 0, <<>>)
    PROVE  Readable(f) /\ Unfolding(f) = t
<1>1. Path(t, <<>>) /\ Place(t, <<>>) = t  BY RootPath
<1>2. Len(<<>>) = 0 /\ 0 \in 0..MaxNesting  BY EmptySeq, NestingAssumption
<1>3. Read(f, 0, 0) /\ Shown(t, f, 0, <<>>, 0)  BY <1>1, <1>2, LevelsShown DEF ShownBelow
<1>4. MaxNesting - 0 = MaxNesting  BY NestingAssumption
<1>5. f.root \in Indices(f)  BY <1>3 DEF Read
<1>6. Readable(f)  BY <1>3, <1>4, <1>5, ReadableIs DEF Read
<1>7. t.type # "key"  BY DEF IsTree
<1>8. TreeAt(f, 0, 0) = t  BY <1>1, <1>3, <1>7 DEF Shown
<1> QED  BY <1>4, <1>6, <1>8 DEF TreeAt, Unfolding

-----------------------------------------------------------------------------
(***************************************************************************)
(* The writer's tables, as they grow.                                      *)
(***************************************************************************)
\* The table of objects: node objs[i] has index i - 1, and the root is the first.
Table(t, objs, refs) ==
    /\ objs \in Seq(Seq(Nat))
    /\ \A i \in 1..Len(objs) : objs[i] \in DOMAIN refs /\ refs[objs[i]] = i - 1
    /\ \A n \in DOMAIN refs : Path(t, n) /\ \E i \in 1..Len(objs) : objs[i] = n
    /\ Len(objs) > 0 => objs[1] = <<>>

\* What StoredOnce says.
Once(t, refs) ==
    \A a, b \in DOMAIN refs :
        /\ Place(t, a).type \notin {"array", "dict", "data"}
        /\ Place(t, a).type = Place(t, b).type /\ Place(t, a).value = Place(t, b).value
        => a = b

\* The lookup of node c finds an entry.
Bucketed(t, a, b) ==
    Place(t, a).type = "data" /\ Place(t, b).type = "data" => DataBucket(a) = DataBucket(b)
Finds(t, refs, c) == \E other \in DOMAIN refs : Bucketed(t, c, other) /\ Alike(t, c, other)

\* The calls are a path in the tree.
Frames(refs, s) ==
    /\ IsSeq(s)
    /\ \A i \in 1..Len(s) :
          /\ s[i] = [node |-> s[i].node, next |-> s[i].next]
          /\ s[i].node \in DOMAIN refs /\ Len(s[i].node) = i - 1
          /\ s[i].next \in Nat \ {0}

Active(nodes, s) == \A n \in nodes : \E i \in 1..Len(s) : s[i].node = n

\* Every child of a node that has an index has one, or a call will come to it.
Awaits(s, n, i) == \E j \in 1..Len(s) : s[j].node = n /\ i >= s[j].next
Children(t, refs, s) ==
    \A n \in DOMAIN refs : \A i \in 1..Len(Place(t, n).kids) :
        Finds(t, refs, Append(n, i)) \/ Awaits(s, n, i)
ChildrenBut(t, refs, s, c) ==
    \A n \in DOMAIN refs : \A i \in 1..Len(Place(t, n).kids) :
        Finds(t, refs, Append(n, i)) \/ Append(n, i) = c \/ Awaits(s, n, i)

\* refs with an entry more.
Grown(refs, node, index) ==
    [n \in DOMAIN refs \cup {node} |-> IF n = node THEN index ELSE refs[n]]

LEMMA TableGrows ==
    ASSUME NEW t, NEW objs, NEW refs, Table(t, objs, refs), NEW node, Path(t, node),
           node \notin DOMAIN refs, Len(objs) = 0 => node = <<>>
    PROVE  /\ Table(t, Append(objs, node), Grown(refs, node, Len(objs)))
           /\ Len(Append(objs, node)) > 0
<1> DEFINE new == Grown(refs, node, Len(objs))
           m == Len(objs)
           longer == Append(objs, node)
<1>1. objs \in Seq(Seq(Nat)) /\ node \in Seq(Nat)  BY DEF Table, Path
<1>2. /\ longer \in Seq(Seq(Nat)) /\ m \in Nat /\ Len(longer) = m + 1
      /\ longer[m + 1] = node /\ \A i \in 1..m : longer[i] = objs[i]
  BY <1>1, AppendProperties, LenProperties
<1>3. /\ DOMAIN new = DOMAIN refs \cup {node} /\ new[node] = m
      /\ \A n \in DOMAIN refs : n # node => new[n] = refs[n]
  BY DEF Grown
<1>4. /\ \A i \in 1..m : objs[i] \in DOMAIN refs /\ refs[objs[i]] = i - 1
      /\ \A n \in DOMAIN refs : Path(t, n) /\ \E i \in 1..m : objs[i] = n
      /\ m > 0 => objs[1] = <<>>
  BY DEF Table
<1>5. m = 0 => node = <<>>  OBVIOUS
<1> HIDE DEF new, longer, m
<1>6. ASSUME NEW i \in 1..(m + 1) PROVE longer[i] \in DOMAIN new /\ new[longer[i]] = i - 1
  <2>1. CASE i = m + 1
    <3>1. longer[i] = node /\ i - 1 = m  BY <1>2, <2>1
    <3> QED  BY <1>3, <3>1
  <2>2. CASE i # m + 1
    <3>1. i \in 1..m  BY <1>2, <2>2
    <3> QED  BY <1>2, <1>3, <1>4, <3>1
  <2> QED  BY <2>1, <2>2
<1>7. ASSUME NEW n \in DOMAIN new
      PROVE  Path(t, n) /\ \E i \in 1..(m + 1) : longer[i] = n
  <2>1. CASE n = node
    <3>1. m + 1 \in 1..(m + 1)  BY <1>2
    <3> QED  BY <1>2, <2>1, <3>1
  <2>2. CASE n # node
    <3>1. n \in DOMAIN refs  BY <1>3, <2>2
    <3>2. PICK i \in 1..m : objs[i] = n  BY <1>4, <3>1
    <3>3. i \in 1..(m + 1)  BY <1>2
    <3> QED  BY <1>2, <1>4, <3>1, <3>2, <3>3
  <2> QED  BY <2>1, <2>2
<1>8. longer[1] = <<>>
  <2>1. CASE m = 0
    <3>1. longer[0 + 1] = node  BY <1>2, <2>1
    <3> QED  BY <1>5, <2>1, <3>1
  <2>2. CASE m # 0
    <3>1. 1 \in 1..m /\ m > 0  BY <1>2, <2>2
    <3> QED  BY <1>2, <1>4, <3>1
  <2> QED  BY <2>1, <2>2
<1>9. Table(t, longer, new)  BY <1>2, <1>6, <1>7, <1>8 DEF Table
<1> QED  BY <1>2, <1>9 DEF new, longer, m

\* A node that is not found is like none before it.
LEMMA OnceGrows ==
    ASSUME NEW t, NEW refs, Once(t, refs), NEW node, ~Finds(t, refs, node), NEW index
    PROVE  Once(t, Grown(refs, node, index))
<1>1. DOMAIN Grown(refs, node, index) = DOMAIN refs \cup {node}  BY DEF Grown
<1>2. ASSUME NEW other \in DOMAIN refs,
             Place(t, node).type \notin {"array", "dict", "data"},
             Place(t, node).type = Place(t, other).type,
             Place(t, node).value = Place(t, other).value
      PROVE  FALSE
  <2>1. Bucketed(t, node, other)  BY <1>2 DEF Bucketed
  <2>2. Alike(t, node, other)  BY <1>2 DEF Alike
  <2> QED  BY <2>1, <2>2 DEF Finds
<1> SUFFICES ASSUME NEW a \in DOMAIN refs \cup {node}, NEW b \in DOMAIN refs \cup {node},
                    Place(t, a).type \notin {"array", "dict", "data"},
                    Place(t, a).type = Place(t, b).type,
                    Place(t, a).value = Place(t, b).value
             PROVE  a = b
  BY <1>1 DEF Once
<1>3. CASE a \in DOMAIN refs /\ b \in DOMAIN refs  BY <1>3 DEF Once
<1>4. CASE a = node /\ b \in DOMAIN refs  BY <1>2, <1>4
<1>5. CASE b = node /\ a \in DOMAIN refs  BY <1>2, <1>5
<1> QED  BY <1>3, <1>4, <1>5

\* What was found is found in a larger table, which finds the new node as well.
LEMMA FindsMore ==
    ASSUME NEW t, NEW refs, NEW node, NEW index
    PROVE  /\ DOMAIN Grown(refs, node, index) = DOMAIN refs \cup {node}
           /\ \A c : Finds(t, refs, c) => Finds(t, Grown(refs, node, index), c)
           /\ Finds(t, Grown(refs, node, index), node)
<1>1. DOMAIN Grown(refs, node, index) = DOMAIN refs \cup {node}  BY DEF Grown
<1>2. Bucketed(t, node, node) /\ Alike(t, node, node)  BY DEF Bucketed, Alike
<1> QED  BY <1>1, <1>2 DEF Finds

LEMMA FramesGrow ==
    ASSUME NEW refs, NEW s, Frames(refs, s), NEW node, Len(node) = Len(s), NEW index
    PROVE  Frames(Grown(refs, node, index), Append(s, [node |-> node, next |-> 1]))
<1> DEFINE new == Grown(refs, node, index)
           e == [node |-> node, next |-> 1]
           longer == Append(s, e)
<1>1. DOMAIN new = DOMAIN refs \cup {node}  BY DEF Grown
<1>2. e.node = node /\ e.next = 1 /\ e = [node |-> e.node, next |-> e.next]  OBVIOUS
<1> HIDE DEF new, e
<1>3. IsSeq(s)  BY DEF Frames
<1>4. /\ IsSeq(longer) /\ Len(s) \in Nat /\ Len(longer) = Len(s) + 1
      /\ \A i \in 1..Len(s) : longer[i] = s[i]
      /\ longer[Len(s) + 1] = e
  BY <1>3, Appended
<1> HIDE DEF longer
<1>5. ASSUME NEW i \in 1..(Len(s) + 1)
      PROVE  /\ longer[i] = [node |-> longer[i].node, next |-> longer[i].next]
             /\ longer[i].node \in DOMAIN new /\ Len(longer[i].node) = i - 1
             /\ longer[i].next \in Nat \ {0}
  <2>1. CASE i = Len(s) + 1
    <3>1. longer[i] = e /\ i - 1 = Len(s)  BY <1>4, <2>1
    <3> QED  BY <1>1, <1>2, <3>1
  <2>2. CASE i # Len(s) + 1
    <3>1. i \in 1..Len(s)  BY <1>4, <2>2
    <3> QED  BY <1>1, <1>4, <3>1 DEF Frames
  <2> QED  BY <2>1, <2>2
<1>6. Frames(new, longer)  BY <1>4, <1>5 DEF Frames
<1> QED  BY <1>6 DEF new, longer, e

LEMMA ActiveGrows ==
    ASSUME NEW nodes, NEW s, IsSeq(s), Active(nodes, s), NEW node
    PROVE  Active(nodes \cup {node}, Append(s, [node |-> node, next |-> 1]))
<1> DEFINE e == [node |-> node, next |-> 1]
           longer == Append(s, e)
<1>1. e.node = node  OBVIOUS
<1> HIDE DEF e
<1>2. /\ Len(s) \in Nat /\ Len(longer) = Len(s) + 1
      /\ \A i \in 1..Len(s) : longer[i] = s[i]
      /\ longer[Len(s) + 1] = e
  BY Appended
<1> HIDE DEF longer
<1>3. \A n \in nodes : \E i \in 1..Len(longer) : longer[i].node = n
  <2> SUFFICES ASSUME NEW n \in nodes PROVE \E i \in 1..Len(longer) : longer[i].node = n
    OBVIOUS
  <2>1. PICK i \in 1..Len(s) : s[i].node = n  BY DEF Active
  <2>2. i \in 1..Len(longer)  BY <1>2
  <2> QED  BY <1>2, <2>1, <2>2
<1>4. \E i \in 1..Len(longer) : longer[i].node = node
  <2>1. Len(s) + 1 \in 1..Len(longer)  BY <1>2
  <2> QED  BY <1>1, <1>2, <2>1
<1>5. Active(nodes \cup {node}, longer)  BY <1>3, <1>4 DEF Active
<1> QED  BY <1>5 DEF longer, e

LEMMA ChildrenGrow ==
    ASSUME NEW t, NEW refs, NEW s, IsSeq(s), NEW node, ChildrenBut(t, refs, s, node), NEW index
    PROVE  Children(t, Grown(refs, node, index), Append(s, [node |-> node, next |-> 1]))
<1> DEFINE new == Grown(refs, node, index)
           e == [node |-> node, next |-> 1]
           longer == Append(s, e)
<1>1. e.node = node /\ e.next = 1  OBVIOUS
<1>2. /\ DOMAIN new = DOMAIN refs \cup {node}
      /\ \A c : Finds(t, refs, c) => Finds(t, new, c)
      /\ Finds(t, new, node)
  BY FindsMore
<1> HIDE DEF new, e
<1>3. /\ Len(s) \in Nat /\ Len(longer) = Len(s) + 1
      /\ \A i \in 1..Len(s) : longer[i] = s[i]
      /\ longer[Len(s) + 1] = e
  BY Appended
<1> HIDE DEF longer
<1>4. \A n, i : Awaits(s, n, i) => Awaits(longer, n, i)
  <2> SUFFICES ASSUME NEW n, NEW i, Awaits(s, n, i) PROVE Awaits(longer, n, i)  OBVIOUS
  <2>1. PICK j \in 1..Len(s) : s[j].node = n /\ i >= s[j].next  BY DEF Awaits
  <2>2. j \in 1..Len(longer) /\ longer[j] = s[j]  BY <1>3
  <2> QED  BY <2>1, <2>2 DEF Awaits
<1>5. \A i : i \in 1..Len(Place(t, node).kids) => Awaits(longer, node, i)
  <2> SUFFICES ASSUME NEW i \in 1..Len(Place(t, node).kids) PROVE Awaits(longer, node, i)
    OBVIOUS
  <2>1. Len(s) + 1 \in 1..Len(longer)  BY <1>3
  <2>2. i >= 1  OBVIOUS
  <2> QED  BY <1>1, <1>3, <2>1, <2>2 DEF Awaits
<1>6. Children(t, new, longer)
  <2> SUFFICES ASSUME NEW n \in DOMAIN new, NEW i \in 1..Len(Place(t, n).kids)
               PROVE  Finds(t, new, Append(n, i)) \/ Awaits(longer, n, i)
    BY DEF Children
  <2>1. CASE n = node  BY <1>5, <2>1
  <2>2. CASE n # node
    <3>1. n \in DOMAIN refs  BY <1>2, <2>2
    <3>2. Finds(t, refs, Append(n, i)) \/ Append(n, i) = node \/ Awaits(s, n, i)
      BY <3>1 DEF ChildrenBut
    <3> QED  BY <1>2, <1>4, <3>2
  <2> QED  BY <2>1, <2>2
<1> QED  BY <1>6 DEF new, longer, e

LEMMA ChildrenFound ==
    ASSUME NEW t, NEW refs, NEW s, NEW node, ChildrenBut(t, refs, s, node),
           Finds(t, refs, node)
    PROVE  Children(t, refs, s)
<1> QED  BY DEF ChildrenBut, Children

\* The last call goes on to its next child.
Advanced(s, e) == Append(Front(s), [e EXCEPT !.next = @ + 1])

LEMMA CallAdvances ==
    ASSUME NEW t, NEW refs, NEW s, Frames(refs, s), s # <<>>, Children(t, refs, s),
           NEW nodes, Active(nodes, s), NEW e, e = Last(s),
           NEW r, r = Advanced(s, e)
    PROVE  /\ Frames(refs, r) /\ Len(r) = Len(s) /\ Len(e.node) + 1 = Len(r)
           /\ e.node \in DOMAIN refs /\ e.next \in Nat \ {0}
           /\ Active(nodes, r) /\ ChildrenBut(t, refs, r, Append(e.node, e.next))
<1> DEFINE n == Len(s)
           new == [e EXCEPT !.next = @ + 1]
<1>1. IsSeq(s)  BY DEF Frames
<1>2. /\ IsSeq(Front(s)) /\ n \in Nat /\ n > 0 /\ Len(Front(s)) = n - 1
      /\ \A i \in 1..(n - 1) : Front(s)[i] = s[i]
      /\ e = s[n]
  BY <1>1, Shortened
<1>3. /\ IsSeq(r) /\ Len(r) = n - 1 + 1 /\ r[n - 1 + 1] = new
      /\ \A i \in 1..(n - 1) : r[i] = Front(s)[i]
  BY <1>2, Appended DEF Advanced
<1>4. /\ Len(r) = n /\ r[n] = new /\ n \in 1..n /\ n - 1 + 1 = n
      /\ \A i \in 1..(n - 1) : r[i] = s[i]
      /\ \A i \in 1..n : i = n \/ i \in 1..(n - 1)
      /\ \A i \in 1..(n - 1) : i \in 1..n
  BY <1>2, <1>3
<1>5. /\ e = [node |-> e.node, next |-> e.next]
      /\ e.node \in DOMAIN refs /\ Len(e.node) = n - 1
      /\ e.next \in Nat \ {0}
  BY <1>2, <1>4 DEF Frames
<1>6. new.node = e.node /\ new.next = e.next + 1 /\ new = [node |-> new.node, next |-> new.next]
  <2>1. new = [node |-> e.node, next |-> e.next + 1]  BY ONLY <1>5
  <2> HIDE DEF new
  <2> QED  BY ONLY <2>1
<1> HIDE DEF new, n
<1>7. Frames(refs, r)
  <2> SUFFICES ASSUME NEW i \in 1..n
               PROVE  /\ r[i] = [node |-> r[i].node, next |-> r[i].next]
                      /\ r[i].node \in DOMAIN refs /\ Len(r[i].node) = i - 1
                      /\ r[i].next \in Nat \ {0}
    BY <1>3, <1>4 DEF Frames
  <2>1. CASE i = n
    <3>1. e.next + 1 \in Nat \ {0}  BY <1>5
    <3> QED  BY <1>4, <1>5, <1>6, <2>1, <3>1
  <2>2. CASE i # n
    <3>1. r[i] = s[i] /\ i \in 1..Len(s)  BY <1>4, <2>2 DEF n
    <3> QED  BY <3>1 DEF Frames
  <2> QED  BY <2>1, <2>2
<1>8. \A i \in 1..n : r[i].node = s[i].node  BY <1>2, <1>4, <1>6
<1>9. Active(nodes, r)
  <2> SUFFICES ASSUME NEW m \in nodes PROVE \E i \in 1..Len(r) : r[i].node = m
    BY DEF Active
  <2>1. PICK i \in 1..n : s[i].node = m  BY DEF Active, n
  <2>2. Len(r) = n  BY <1>4
  <2> QED  BY <1>8, <2>1, <2>2
<1>10. ChildrenBut(t, refs, r, Append(e.node, e.next))
  <2> SUFFICES ASSUME NEW m \in DOMAIN refs, NEW i \in 1..Len(Place(t, m).kids),
                      Awaits(s, m, i)
               PROVE  Append(m, i) = Append(e.node, e.next) \/ Awaits(r, m, i)
    BY DEF Children, ChildrenBut
  <2>1. PICK j \in 1..n : s[j].node = m /\ i >= s[j].next  BY DEF Awaits, n
  <2>2. CASE j # n
    <3>1. r[j] = s[j]  BY <1>4, <2>2
    <3> QED  BY <1>4, <2>1, <3>1 DEF Awaits
  <2>3. CASE j = n /\ i = e.next  BY <1>2, <2>1, <2>3
  <2>4. CASE j = n /\ i # e.next
    <3>1. i >= e.next + 1
      <4>1. i >= e.next /\ i \in Nat  BY <1>2, <2>1, <2>4
      <4> QED  BY ONLY <1>5, <2>4, <4>1
    <3>2. r[n].node = m /\ i >= r[n].next  BY <1>2, <1>4, <1>6, <2>1, <2>4, <3>1
    <3> QED  BY <1>4, <3>2 DEF Awaits
  <2> QED  BY <2>2, <2>3, <2>4
<1>11. Len(e.node) + 1 = Len(r)  BY <1>2, <1>4, <1>5
<1> QED  BY <1>4, <1>5, <1>7, <1>9, <1>10, <1>11 DEF n

\* The last call returns.
LEMMA CallReturns ==
    ASSUME NEW refs, NEW s, Frames(refs, s), s # <<>>, NEW e, e = Last(s)
    PROVE  /\ Frames(refs, Front(s)) /\ e.node \in DOMAIN refs
           /\ \A nodes : Active(nodes, s) => Active(nodes \ {e.node}, Front(s))
           /\ \A t : Children(t, refs, s) /\ Len(Place(t, e.node).kids) \in Nat
                        /\ e.next > Len(Place(t, e.node).kids)
                     => Children(t, refs, Front(s))
<1> DEFINE n == Len(s)
           r == Front(s)
<1>1. IsSeq(s)  BY DEF Frames
<1>2. /\ IsSeq(r) /\ n \in Nat /\ n > 0 /\ Len(r) = n - 1
      /\ \A i \in 1..(n - 1) : r[i] = s[i]
      /\ e = s[n]
  BY <1>1, Shortened
<1> HIDE DEF r
<1>3. /\ n \in 1..n /\ \A i \in 1..n : i = n \/ i \in 1..(n - 1)
      /\ \A i \in 1..(n - 1) : i \in 1..n
  BY <1>2
<1>4. Frames(refs, r)
  <2> SUFFICES ASSUME NEW i \in 1..(n - 1)
               PROVE  /\ r[i] = [node |-> r[i].node, next |-> r[i].next]
                      /\ r[i].node \in DOMAIN refs /\ Len(r[i].node) = i - 1
                      /\ r[i].next \in Nat \ {0}
    BY <1>2 DEF Frames
  <2>1. r[i] = s[i] /\ i \in 1..n  BY <1>2, <1>3
  <2> QED  BY <2>1 DEF Frames
<1>5. e.node \in DOMAIN refs /\ e.next \in Nat \ {0}  BY <1>2, <1>3 DEF Frames
<1>6. ASSUME NEW nodes, Active(nodes, s) PROVE Active(nodes \ {e.node}, r)
  <2> SUFFICES ASSUME NEW m \in nodes, m # e.node
               PROVE  \E i \in 1..Len(r) : r[i].node = m
    BY DEF Active
  <2>1. PICK i \in 1..n : s[i].node = m  BY <1>6 DEF Active
  <2>2. i \in 1..(n - 1)  BY <1>2, <1>3, <2>1
  <2> QED  BY <1>2, <2>1, <2>2
<1>7. ASSUME NEW t, Children(t, refs, s), Len(Place(t, e.node).kids) \in Nat,
             e.next > Len(Place(t, e.node).kids)
      PROVE  Children(t, refs, r)
  <2> SUFFICES ASSUME NEW m \in DOMAIN refs, NEW i \in 1..Len(Place(t, m).kids), Awaits(s, m, i)
               PROVE  Awaits(r, m, i)
    BY <1>7 DEF Children
  <2>1. PICK j \in 1..n : s[j].node = m /\ i >= s[j].next  BY DEF Awaits
  <2>2. CASE j = n
    <3>1. m = e.node /\ i >= e.next  BY <1>2, <2>1, <2>2
    <3>2. PICK k : k = Len(Place(t, e.node).kids)  OBVIOUS
    <3>3. k \in Nat /\ e.next > k /\ i \in 1..k  BY <1>7, <3>1, <3>2
    <3> QED  BY ONLY <1>5, <3>1, <3>3
  <2>3. CASE j # n
    <3>1. j \in 1..(n - 1)  BY <1>3, <2>3
    <3> QED  BY <1>2, <2>1, <3>1 DEF Awaits
  <2> QED  BY <2>2, <2>3
<1> QED  BY <1>4, <1>5, <1>6, <1>7 DEF r

-----------------------------------------------------------------------------
(***************************************************************************)
(* The writer, step by step.                                               *)
(***************************************************************************)
WriterPhase ==
    /\ phase \in {"start", "serialize", "write", "done"}
    /\ phase # "serialize" => calls = <<>>
    /\ phase = "start" => objects = <<>> /\ in_stack = {} /\ werr = PLIST_ERR_SUCCESS
    /\ phase # "start" /\ werr = PLIST_ERR_SUCCESS => Len(objects) > 0
    /\ phase = "write" => werr = PLIST_ERR_SUCCESS

WriterTables ==
    /\ tree \in Trees /\ werr \in {PLIST_ERR_SUCCESS, Writer!PLIST_ERR_NO_MEM}
    /\ Table(tree, objects, ref_table) /\ Once(tree, ref_table)
    /\ Frames(ref_table, calls)
    /\ werr = PLIST_ERR_SUCCESS =>
          Active(in_stack, calls) /\ Children(tree, ref_table, calls)

WriterOutput ==
    /\ IsSeq(written) /\ Len(written) <= Len(objects)
    /\ phase \in {"start", "serialize"} => written = <<>>
    /\ \A i \in 1..Len(written) : written[i] = Writer!object(objects[i])
    /\ phase = "done" /\ werr = PLIST_ERR_SUCCESS => Len(written) = Len(objects)

WriterInv == WriterPhase /\ WriterTables /\ WriterOutput

\* The writer's library is the reader's.
LEMMA SameLibrary ==
    \A s : Writer!Last(s) = Last(s) /\ Writer!Front(s) = Front(s) /\ Writer!ToSet(s) = ToSet(s)
<1> QED  BY DEF Writer!Last, Last, Writer!Front, Front, Writer!ToSet, ToSet

LEMMA EntriesAreFound ==
    \A c : Writer!entries(c) # {} <=> Finds(tree, ref_table, c)
<1> SUFFICES ASSUME NEW c
             PROVE  Writer!entries(c) # {} <=> Finds(tree, ref_table, c)
  OBVIOUS
<1>1. \A a, b : Writer!same_bucket(a, b) <=> Bucketed(tree, a, b)
  BY AtIsPlace DEF Writer!same_bucket, Bucketed
<1>2. \A a, b : Writer!plist_data_compare(a, b) <=> Alike(tree, a, b)
  BY AtIsPlace DEF Writer!plist_data_compare, Alike
<1> QED  BY <1>1, <1>2 DEF Writer!entries, Finds

\* The children of a node, with their paths.
LEMMA WriterKids ==
    ASSUME tree \in Trees, NEW node, Path(tree, node)
    PROVE  /\ Len(Writer!Kids(node)) = Len(Place(tree, node).kids)
           /\ DOMAIN Writer!Kids(node) = 1..Len(Place(tree, node).kids)
           /\ Len(Place(tree, node).kids) \in Nat
           /\ \A i \in 1..Len(Place(tree, node).kids) :
                 /\ Writer!Kids(node)[i] = Append(node, i)
                 /\ Path(tree, Append(node, i)) /\ Len(Append(node, i)) = Len(node) + 1
<1> DEFINE n == Len(Place(tree, node).kids)
<1>1. IsTree(tree)  BY TreesAssumption
<1>2. /\ n \in Nat /\ DOMAIN Place(tree, node).kids = 1..n
      /\ \A i \in 1..n : Path(tree, Append(node, i)) /\ Len(Append(node, i)) = Len(node) + 1
  BY <1>1, PathGoesOn
<1>3. Writer!Kids(node) = [i \in 1..n |-> Append(node, i)]
  BY <1>2, AtIsPlace DEF Writer!Kids
<1> HIDE DEF n
<1> DEFINE S == {Append(node, i) : i \in 1..n}
<1>4. Writer!Kids(node) \in [1..n -> S]  BY <1>3
<1>5. Len(Writer!Kids(node)) = n  BY <1>2, <1>4, SeqDef
<1>6. DOMAIN Writer!Kids(node) = 1..n /\ \A i \in 1..n : Writer!Kids(node)[i] = Append(node, i)
  BY <1>3
<1> QED  BY <1>2, <1>5, <1>6 DEF n

LEMMA NotRefused ==
    ASSUME NEW node, Path(tree, node), NEW frames, Len(node) = Len(frames),
           Frames(ref_table, frames), Active(in_stack, frames)
    PROVE  Writer!refusal(node) = PLIST_ERR_SUCCESS
<1>1. Len(node) \in 0..MaxNesting  BY DEF Path
<1>2. ~(Len(node) > MaxNesting)  BY <1>1, NestingAssumption
<1>3. node \notin in_stack
  <2> SUFFICES ASSUME node \in in_stack PROVE FALSE  OBVIOUS
  <2>1. PICK i \in 1..Len(frames) : frames[i].node = node  BY DEF Active
  <2>2. Len(node) = i - 1  BY <2>1 DEF Frames
  <2>3. PICK n : n = Len(node)  OBVIOUS
  <2>4. n \in Nat /\ i \in 1..n /\ n = i - 1  BY <1>1, <2>2, <2>3
  <2> QED  BY ONLY <2>4
<1> QED  BY <1>2, <1>3 DEF Writer!refusal, Writer!depth, Writer!PLIST_ERR_SUCCESS, PLIST_ERR_SUCCESS

\* serialize_plist, when all other children are accounted for.
LEMMA SerializeKeeps ==
    ASSUME tree \in Trees, werr = PLIST_ERR_SUCCESS,
           Table(tree, objects, ref_table), Once(tree, ref_table),
           NEW node, Path(tree, node), Len(objects) = 0 => node = <<>>,
           NEW frames, Frames(ref_table, frames), Len(node) = Len(frames),
           Active(in_stack, frames), ChildrenBut(tree, ref_table, frames, node),
           UNCHANGED tree, Writer!Serialize(node, frames)
    PROVE  WriterTables' /\ (werr' = PLIST_ERR_SUCCESS => Len(objects') > 0)
<1>1. Writer!refusal(node) = PLIST_ERR_SUCCESS  BY NotRefused
<1>2. Writer!entries(node) # {} <=> Finds(tree, ref_table, node)  BY EntriesAreFound
<1>3. IsSeq(frames)  BY DEF Frames
<1> USE DEF Writer!PLIST_ERR_SUCCESS, PLIST_ERR_SUCCESS
<1>4. CASE Finds(tree, ref_table, node)
  <2>1. calls' = frames /\ werr' = 0 /\ UNCHANGED <<in_stack, objects, ref_table>>
    BY <1>1, <1>2, <1>4 DEF Writer!Serialize, Writer!ReturnsAtOnce
  <2>2. Children(tree, ref_table, frames)  BY <1>4, ChildrenFound
  <2>3. Len(objects) > 0
    <3>1. PICK other \in DOMAIN ref_table : TRUE  BY <1>4 DEF Finds
    <3>2. PICK i \in 1..Len(objects) : objects[i] = other  BY DEF Table
    <3>3. Len(objects) \in Nat  BY LenProperties DEF Table
    <3> QED  BY ONLY <3>2, <3>3
  <2> QED  BY <2>1, <2>2, <2>3 DEF WriterTables
<1>5. CASE ~Finds(tree, ref_table, node)
  <2>1. Writer!entries(node) = {}  BY <1>2, <1>5
  <2>2. /\ in_stack' = in_stack \cup {node}
        /\ \/ /\ ref_table' = Grown(ref_table, node, Len(objects))
              /\ objects' = Append(objects, node)
              /\ calls' = Append(frames, [node |-> node, next |-> 1])
              /\ werr' = werr
           \/ /\ calls' = frames /\ werr' = Writer!PLIST_ERR_NO_MEM
              /\ UNCHANGED <<objects, ref_table>>
    BY <1>1, <2>1 DEF Writer!Serialize, Writer!ReturnsAtOnce, Writer!new_index, Grown
  <2>3. CASE /\ calls' = frames /\ werr' = Writer!PLIST_ERR_NO_MEM
             /\ UNCHANGED <<objects, ref_table>>
    BY <2>3 DEF WriterTables, Writer!PLIST_ERR_NO_MEM
  <2>4. CASE /\ ref_table' = Grown(ref_table, node, Len(objects))
             /\ objects' = Append(objects, node)
             /\ calls' = Append(frames, [node |-> node, next |-> 1])
             /\ werr' = werr
    <3>1. node \notin DOMAIN ref_table
      <4>1. Bucketed(tree, node, node) /\ Alike(tree, node, node)  BY DEF Bucketed, Alike
      <4> QED  BY <1>5, <4>1 DEF Finds
    <3>2. Table(tree, objects', ref_table') /\ Len(objects') > 0  BY <2>4, <3>1, TableGrows
    <3>3. Once(tree, ref_table')  BY <1>5, <2>4, OnceGrows
    <3>4. Frames(ref_table', calls')  BY <2>4, FramesGrow
    <3>5. Active(in_stack', calls')  BY <1>3, <2>2, <2>4, ActiveGrows
    <3>6. Children(tree, ref_table', calls')  BY <1>3, <2>4, ChildrenGrow
    <3> QED  BY <2>4, <3>2, <3>3, <3>4, <3>5, <3>6 DEF WriterTables
  <2> QED  BY <2>2, <2>3, <2>4
<1> QED  BY <1>4, <1>5

LEMMA NoFrames ==
    \A refs : Frames(refs, <<>>) /\ Active({}, <<>>) /\ Len(<<>>) = 0
<1>1. Len(<<>>) = 0 /\ <<>> \in Seq({}) /\ 1..0 = {}  BY EmptySeq
<1>2. IsSeq(<<>>)  BY <1>1 DEF IsSeq
<1> QED  BY <1>1, <1>2 DEF Frames, Active

LEMMA WriterInit == Writer!Init => WriterInv
<1> SUFFICES ASSUME Writer!Init PROVE WriterInv  OBVIOUS
<1>1. /\ tree \in Trees /\ phase = "start" /\ calls = <<>> /\ in_stack = {}
      /\ objects = <<>> /\ ref_table = [n \in {} |-> 0] /\ werr = 0 /\ written = <<>>
  BY DEF Writer!Init, Writer!PLIST_ERR_SUCCESS
<1>2. DOMAIN ref_table = {}  BY <1>1
<1>3. Len(<<>>) = 0 /\ <<>> \in Seq(Seq(Nat)) /\ 1..0 = {}  BY EmptySeq
<1>4. IsSeq(<<>>)  BY <1>3 DEF IsSeq
<1>5. Table(tree, objects, ref_table)  BY <1>1, <1>2, <1>3 DEF Table
<1>6. Once(tree, ref_table) /\ Children(tree, ref_table, calls)  BY <1>2 DEF Once, Children
<1>7. WriterTables  BY <1>1, <1>5, <1>6, NoFrames DEF WriterTables, PLIST_ERR_SUCCESS
<1>8. WriterPhase  BY <1>1 DEF WriterPhase, PLIST_ERR_SUCCESS
<1>9. WriterOutput  BY <1>1, <1>3, <1>4 DEF WriterOutput
<1> QED  BY <1>7, <1>8, <1>9 DEF WriterInv

\* Nothing is written while there are no objects to speak of.
LEMMA NothingWritten ==
    ASSUME written' = <<>>, Len(objects') \in Nat, phase' = "serialize"
    PROVE  WriterOutput'
<1>1. Len(<<>>) = 0 /\ <<>> \in Seq({}) /\ 1..0 = {}  BY EmptySeq
<1>2. IsSeq(<<>>)  BY <1>1 DEF IsSeq
<1> QED  BY <1>1, <1>2 DEF WriterOutput

LEMMA WriterBegins ==
    ASSUME WriterInv, Writer!Begin
    PROVE  WriterInv'
<1>1. /\ phase = "start" /\ phase' = "serialize" /\ Writer!Serialize(<<>>, <<>>)
      /\ UNCHANGED <<tree, written>>
  BY DEF Writer!Begin
<1>2. /\ objects = <<>> /\ in_stack = {} /\ werr = PLIST_ERR_SUCCESS /\ calls = <<>>
      /\ tree \in Trees /\ Table(tree, objects, ref_table) /\ Once(tree, ref_table)
      /\ Children(tree, ref_table, calls) /\ written = <<>>
  BY <1>1 DEF WriterInv, WriterPhase, WriterTables, WriterOutput
<1>3. ChildrenBut(tree, ref_table, <<>>, <<>>)  BY <1>2 DEF Children, ChildrenBut
<1>4. WriterTables' /\ (werr' = PLIST_ERR_SUCCESS => Len(objects') > 0)
  BY <1>1, <1>2, <1>3, NoFrames, RootPath, SerializeKeeps
<1>5. WriterPhase'  BY <1>1, <1>4 DEF WriterPhase
<1>6. Len(objects') \in Nat  BY <1>4, LenProperties DEF WriterTables, Table
<1>7. WriterOutput'  BY <1>1, <1>2, <1>6, NothingWritten
<1> QED  BY <1>4, <1>5, <1>7 DEF WriterInv

LEMMA WriterVisits ==
    ASSUME WriterInv, Writer!VisitChild
    PROVE  WriterInv'
<1> PICK e : e = Last(calls)  OBVIOUS
<1> PICK frames : frames = Advanced(calls, e)  OBVIOUS
<1> PICK kid : kid = Writer!Kids(e.node)[e.next]  OBVIOUS
<1>1. /\ phase = "serialize" /\ calls # <<>> /\ werr = PLIST_ERR_SUCCESS
      /\ e.next <= Len(Writer!Kids(e.node))
      /\ Writer!Serialize(kid, frames)
      /\ UNCHANGED <<tree, phase, written>>
  BY SameLibrary DEF Writer!VisitChild, Writer!frame, Advanced, Writer!PLIST_ERR_SUCCESS,
     PLIST_ERR_SUCCESS
<1>2. /\ tree \in Trees /\ Table(tree, objects, ref_table) /\ Once(tree, ref_table)
      /\ Frames(ref_table, calls) /\ Active(in_stack, calls)
      /\ Children(tree, ref_table, calls) /\ written = <<>> /\ Len(objects) > 0
  BY <1>1 DEF WriterInv, WriterPhase, WriterTables, WriterOutput
<1>3. /\ Frames(ref_table, frames) /\ Len(e.node) + 1 = Len(frames)
      /\ e.node \in DOMAIN ref_table /\ e.next \in Nat \ {0}
      /\ Active(in_stack, frames) /\ ChildrenBut(tree, ref_table, frames, Append(e.node, e.next))
  BY <1>1, <1>2, CallAdvances
<1>4. Path(tree, e.node)  BY <1>2, <1>3 DEF Table
<1>5. kid = Append(e.node, e.next) /\ Path(tree, kid) /\ Len(kid) = Len(frames)
  <2>1. /\ Len(Writer!Kids(e.node)) = Len(Place(tree, e.node).kids)
        /\ Len(Place(tree, e.node).kids) \in Nat
        /\ \A i \in 1..Len(Place(tree, e.node).kids) :
              /\ Writer!Kids(e.node)[i] = Append(e.node, i)
              /\ Path(tree, Append(e.node, i))
              /\ Len(Append(e.node, i)) = Len(e.node) + 1
    BY <1>2, <1>4, WriterKids
  <2>2. e.next \in 1..Len(Place(tree, e.node).kids)
    <3>1. PICK k : k = Len(Place(tree, e.node).kids)  OBVIOUS
    <3>2. k \in Nat /\ e.next <= k  BY <1>1, <2>1, <3>1
    <3>3. e.next \in 1..k  BY ONLY <1>3, <3>2
    <3> QED  BY <3>1, <3>3
  <2> QED  BY <1>3, <2>1, <2>2
<1>6. WriterTables' /\ (werr' = PLIST_ERR_SUCCESS => Len(objects') > 0)
  <2>1. ChildrenBut(tree, ref_table, frames, kid)  BY <1>3, <1>5
  <2>2. ~(Len(objects) = 0)  BY <1>2
  <2>3. tree' = tree  BY <1>1
  <2> QED  BY <1>1, <1>2, <1>3, <1>5, <2>1, <2>2, <2>3, SerializeKeeps
<1>7. WriterPhase'  BY <1>1, <1>6 DEF WriterPhase
<1>8. Len(objects') \in Nat  BY <1>6, LenProperties DEF WriterTables, Table
<1>9. WriterOutput'  BY <1>1, <1>2, <1>8, NothingWritten
<1> QED  BY <1>6, <1>7, <1>9 DEF WriterInv

LEMMA WriterLeaves ==
    ASSUME WriterInv, Writer!Leave
    PROVE  WriterInv'
<1> PICK e : e = Last(calls)  OBVIOUS
<1>1. /\ phase = "serialize" /\ calls # <<>>
      /\ e.next > Len(Writer!Kids(e.node)) \/ werr # PLIST_ERR_SUCCESS
      /\ in_stack' = in_stack \ {e.node}
      /\ calls' = Front(calls)
      /\ UNCHANGED <<tree, phase, objects, ref_table, werr, written>>
  BY SameLibrary DEF Writer!Leave, Writer!frame, Writer!PLIST_ERR_SUCCESS, PLIST_ERR_SUCCESS
<1>2. WriterTables /\ Frames(ref_table, calls) /\ Table(tree, objects, ref_table)
  BY DEF WriterInv, WriterTables
<1>3. /\ Frames(ref_table, Front(calls)) /\ e.node \in DOMAIN ref_table
      /\ \A nodes : Active(nodes, calls) => Active(nodes \ {e.node}, Front(calls))
      /\ Children(tree, ref_table, calls) /\ Len(Place(tree, e.node).kids) \in Nat
            /\ e.next > Len(Place(tree, e.node).kids)
         => Children(tree, ref_table, Front(calls))
  BY <1>1, <1>2, CallReturns
<1>4. Path(tree, e.node)  BY <1>2, <1>3 DEF Table
<1>5. Len(Writer!Kids(e.node)) = Len(Place(tree, e.node).kids)
      /\ Len(Place(tree, e.node).kids) \in Nat
  BY <1>2, <1>4, WriterKids DEF WriterTables
<1>6. ASSUME werr = PLIST_ERR_SUCCESS
      PROVE  Active(in_stack', calls') /\ Children(tree, ref_table, calls')
  <2>1. Active(in_stack, calls) /\ Children(tree, ref_table, calls)
    BY <1>2, <1>6 DEF WriterTables
  <2> QED  BY <1>1, <1>3, <1>5, <1>6, <2>1
<1>7. WriterTables'  BY <1>1, <1>2, <1>3, <1>6 DEF WriterTables
<1>8. WriterPhase' /\ written' = <<>> /\ Len(objects') \in Nat
  BY <1>1, <1>2, LenProperties DEF WriterInv, WriterPhase, WriterOutput, Table
<1>9. WriterOutput'  BY <1>1, <1>8, NothingWritten
<1> QED  BY <1>7, <1>8, <1>9 DEF WriterInv

\* An object is written as it will be found: the tables it is made from do not
\* change any more.
LEMMA ObjectsStay ==
    ASSUME UNCHANGED <<tree, ref_table>>
    PROVE  \A n : Writer!object(n)' = Writer!object(n)
<1>1. \A n : Writer!At(n)' = Writer!At(n)  BY DEF Writer!At
<1>2. \A n : Writer!index_of(n)' = Writer!index_of(n)
  BY <1>1 DEF Writer!index_of, Writer!entries, Writer!same_bucket, Writer!plist_data_compare
<1>3. \A n : Writer!Kids(n)' = Writer!Kids(n)  BY <1>1 DEF Writer!Kids
<1>4. \A kids : Writer!dict_refs(kids)' = Writer!dict_refs(kids)  BY <1>2 DEF Writer!dict_refs
<1>5. \A kids : Writer!array_refs(kids)' = Writer!array_refs(kids)  BY <1>2 DEF Writer!array_refs
<1> QED  BY <1>1, <1>3, <1>4, <1>5 DEF Writer!object

LEMMA WriterSerialized ==
    ASSUME WriterInv, Writer!Serialized
    PROVE  WriterInv'
<1>1. /\ phase = "serialize" /\ calls = <<>>
      /\ phase' = IF werr = PLIST_ERR_SUCCESS THEN "write" ELSE "done"
      /\ UNCHANGED <<tree, calls, in_stack, objects, ref_table, werr, written>>
  BY DEF Writer!Serialized, Writer!PLIST_ERR_SUCCESS, PLIST_ERR_SUCCESS
<1>2. WriterTables'  BY <1>1 DEF WriterInv, WriterTables
<1>3. WriterPhase'  BY <1>1 DEF WriterInv, WriterPhase
<1>4. \A n : Writer!object(n)' = Writer!object(n)  BY <1>1, ObjectsStay
<1>5. WriterOutput'  BY <1>1, <1>4 DEF WriterInv, WriterOutput
<1> QED  BY <1>2, <1>3, <1>5 DEF WriterInv

LEMMA WriterWrites ==
    ASSUME WriterInv, Writer!WriteObject
    PROVE  WriterInv'
<1>1. /\ phase = "write" /\ Len(written) < Len(objects)
      /\ written' = Append(written, Writer!object(objects[Len(written) + 1]))
      /\ UNCHANGED <<tree, phase, calls, in_stack, objects, ref_table, werr>>
  BY DEF Writer!WriteObject
<1>2. WriterTables'  BY <1>1 DEF WriterInv, WriterTables
<1>3. WriterPhase'  BY <1>1 DEF WriterInv, WriterPhase
<1>4. \A n : Writer!object(n)' = Writer!object(n)  BY <1>1, ObjectsStay
<1>5. Len(objects) \in Nat  BY LenProperties DEF WriterInv, WriterTables, Table
<1>6. IsSeq(written) /\ \A i \in 1..Len(written) : written[i] = Writer!object(objects[i])
  BY DEF WriterInv, WriterOutput
<1>7. /\ IsSeq(written') /\ Len(written) \in Nat /\ Len(written') = Len(written) + 1
      /\ \A i \in 1..Len(written) : written'[i] = written[i]
      /\ written'[Len(written) + 1] = Writer!object(objects[Len(written) + 1])
  BY <1>1, <1>6, Appended
<1>8. ASSUME NEW i \in 1..(Len(written) + 1) PROVE written'[i] = Writer!object(objects[i])
  <2>1. CASE i = Len(written) + 1  BY <1>7, <2>1
  <2>2. CASE i # Len(written) + 1
    <3>1. i \in 1..Len(written)  BY <1>7, <2>2
    <3> QED  BY <1>6, <1>7, <3>1
  <2> QED  BY <2>1, <2>2
<1>9. Len(written') <= Len(objects)  BY <1>1, <1>5, <1>7
<1>10. WriterOutput'  BY <1>1, <1>4, <1>7, <1>8, <1>9 DEF WriterOutput
<1> QED  BY <1>2, <1>3, <1>10 DEF WriterInv

LEMMA WriterEnds ==
    ASSUME WriterInv, Writer!WriteTrailer
    PROVE  WriterInv'
<1>1. /\ phase = "write" /\ Len(written) = Len(objects) /\ phase' = "done"
      /\ UNCHANGED <<tree, calls, in_stack, objects, ref_table, werr, written>>
  BY DEF Writer!WriteTrailer
<1>2. WriterTables'  BY <1>1 DEF WriterInv, WriterTables
<1>3. WriterPhase'  BY <1>1 DEF WriterInv, WriterPhase
<1>4. \A n : Writer!object(n)' = Writer!object(n)  BY <1>1, ObjectsStay
<1>5. WriterOutput'  BY <1>1, <1>4 DEF WriterInv, WriterOutput
<1> QED  BY <1>2, <1>3, <1>5 DEF WriterInv

LEMMA WriterKeeps ==
    ASSUME WriterInv, Writer!Next
    PROVE  WriterInv' /\ phase # "done"
<1>1. phase # "done"
  BY DEF Writer!Next, Writer!Begin, Writer!VisitChild, Writer!Leave, Writer!Serialized,
         Writer!WriteObject, Writer!WriteTrailer
<1>2. CASE Writer!Begin  BY <1>1, <1>2, WriterBegins
<1>3. CASE Writer!VisitChild  BY <1>1, <1>3, WriterVisits
<1>4. CASE Writer!Leave  BY <1>1, <1>4, WriterLeaves
<1>5. CASE Writer!Serialized  BY <1>1, <1>5, WriterSerialized
<1>6. CASE Writer!WriteObject  BY <1>1, <1>6, WriterWrites
<1>7. CASE Writer!WriteTrailer  BY <1>1, <1>7, WriterEnds
<1> QED  BY <1>1, <1>2, <1>3, <1>4, <1>5, <1>6, <1>7 DEF Writer!Next

LEMMA WriterStays ==
    ASSUME WriterInv, UNCHANGED writerVars
    PROVE  WriterInv'
<1>1. UNCHANGED <<tree, phase, calls, in_stack, objects, ref_table, werr, written>>
  BY DEF writerVars
<1>2. \A n : Writer!object(n)' = Writer!object(n)  BY <1>1, ObjectsStay
<1>3. WriterOutput'  BY <1>1, <1>2 DEF WriterInv, WriterOutput
<1>4. WriterTables' /\ WriterPhase'  BY <1>1 DEF WriterInv, WriterTables, WriterPhase
<1> QED  BY <1>3, <1>4 DEF WriterInv

LEMMA WriterPromises == WriterInv => NeverRefused /\ StoredOnce
<1> SUFFICES ASSUME WriterInv PROVE NeverRefused /\ StoredOnce  OBVIOUS
<1>1. NeverRefused
  BY DEF WriterInv, WriterTables, NeverRefused, Writer!NeverRefused, Writer!PLIST_ERR_SUCCESS,
         PLIST_ERR_SUCCESS
<1>2. Table(tree, objects, ref_table) /\ Once(tree, ref_table)
  BY DEF WriterInv, WriterTables
<1>3. \A n \in Writer!Nodes : n \in DOMAIN ref_table
  <2>1. objects \in Seq(Seq(Nat))  BY <1>2 DEF Table
  <2>2. DOMAIN objects = 1..Len(objects)  BY <2>1, LenProperties
  <2>3. Writer!Nodes = {objects[i] : i \in 1..Len(objects)}
    BY <2>2 DEF Writer!Nodes, Writer!ToSet
  <2> QED  BY <1>2, <2>3 DEF Table
<1>4. Writer!StoredOnce  BY <1>2, <1>3, AtIsPlace DEF Writer!StoredOnce, Once
<1> QED  BY <1>1, <1>4 DEF StoredOnce

-----------------------------------------------------------------------------
(***************************************************************************)
(* What is handed over is faithful to the tree.                            *)
(***************************************************************************)
HandedOver ==
    /\ phase = "done" /\ werr = PLIST_ERR_SUCCESS
    /\ file = [objects |-> written, root |-> 0]
    /\ file # NULL

\* The table is complete.
LEMMA AllFound ==
    ASSUME WriterInv, phase = "done", werr = PLIST_ERR_SUCCESS
    PROVE  /\ IsTree(tree) /\ Table(tree, objects, ref_table)
           /\ \A n \in DOMAIN ref_table : \A i \in 1..Len(Place(tree, n).kids) :
                 Finds(tree, ref_table, Append(n, i))
           /\ IsSeq(written) /\ Len(written) = Len(objects) /\ Len(objects) \in Nat
           /\ Len(objects) > 0
           /\ \A i \in 1..Len(objects) : written[i] = Writer!object(objects[i])
<1>1. calls = <<>> /\ Len(objects) > 0  BY DEF WriterInv, WriterPhase
<1>2. IsTree(tree)  BY TreesAssumption DEF WriterInv, WriterTables
<1>3. Table(tree, objects, ref_table) /\ Children(tree, ref_table, <<>>)
  BY <1>1 DEF WriterInv, WriterTables
<1>4. \A n, i : ~Awaits(<<>>, n, i)
  <2>1. Len(<<>>) = 0 /\ 1..0 = {}  BY EmptySeq
  <2> QED  BY <2>1 DEF Awaits
<1>5. Len(objects) \in Nat  BY <1>3, LenProperties DEF Table
<1>6. /\ IsSeq(written) /\ Len(written) = Len(objects)
      /\ \A i \in 1..Len(written) : written[i] = Writer!object(objects[i])
  BY DEF WriterInv, WriterOutput
<1> QED  BY <1>1, <1>2, <1>3, <1>4, <1>5, <1>6 DEF Children

\* The index that is written for a node is that of an object with its data.
LEMMA IndexStands ==
    ASSUME Table(tree, objects, ref_table), NEW c, Finds(tree, ref_table, c),
           Len(objects) \in Nat, NEW f, Len(f.objects) = Len(objects)
    PROVE  Writer!index_of(c) \in Nat /\ Stands(tree, f, objects, Writer!index_of(c), c)
<1>1. Writer!entries(c) # {}  BY EntriesAreFound
<1> DEFINE other == CHOOSE n \in Writer!entries(c) : TRUE
<1>2. other \in Writer!entries(c)  BY <1>1
<1>3. Writer!index_of(c) = ref_table[other]  BY DEF Writer!index_of
<1> HIDE DEF other
<1>4. other \in DOMAIN ref_table /\ Writer!plist_data_compare(c, other)
  BY <1>2 DEF Writer!entries
<1>5. Alike(tree, c, other)  BY <1>4, AtIsPlace DEF Writer!plist_data_compare, Alike
<1>6. PICK i \in 1..Len(objects) : objects[i] = other  BY <1>4 DEF Table
<1>7. ref_table[other] = i - 1  BY <1>6 DEF Table
<1>8. i - 1 \in Nat /\ i - 1 \in 0..(Len(objects) - 1) /\ i - 1 + 1 = i  OBVIOUS
<1>9. PICK r : r = i - 1  OBVIOUS
<1>10. r \in Indices(f)  BY <1>8, <1>9 DEF Indices, NumObjects
<1>11. objects[r + 1] = other  BY <1>6, <1>8, <1>9
<1>12. Stands(tree, f, objects, r, c)  BY <1>5, <1>10, <1>11 DEF Stands
<1> QED  BY <1>3, <1>7, <1>8, <1>9, <1>12

\* What was written of a node portrays it.
LEMMA ObjectPortrays ==
    ASSUME IsTree(tree), tree \in Trees, Table(tree, objects, ref_table), Len(objects) \in Nat,
           NEW n \in DOMAIN ref_table,
           \A i \in 1..Len(Place(tree, n).kids) : Finds(tree, ref_table, Append(n, i)),
           NEW f, Len(f.objects) = Len(objects),
           NEW r, Object(f, r) = Writer!object(n)
    PROVE  Portrays(tree, f, objects, r, n)
           /\ (Place(tree, n).type = "dict" => Len(Object(f, r).refs) % 2 = 0)
<1> DEFINE u == Place(tree, n)
           k == Len(u.kids)
<1>1. Path(tree, n)  BY DEF Table
<1>2. /\ Len(Writer!Kids(n)) = k /\ DOMAIN Writer!Kids(n) = 1..k /\ k \in Nat
      /\ \A i \in 1..k : Writer!Kids(n)[i] = Append(n, i)
  BY <1>1, WriterKids
<1>3. WellMade(u)  BY <1>1, PathGoesOn
<1>4. \A i \in 1..k : /\ Writer!index_of(Append(n, i)) \in Nat
                      /\ Stands(tree, f, objects, Writer!index_of(Append(n, i)), Append(n, i))
  BY IndexStands
<1>5. PICK o : o = Object(f, r)  OBVIOUS
<1>6. o = [type  |-> IF u.type = "key" THEN "string" ELSE u.type,
           value |-> u.value,
           refs  |-> CASE u.type = "dict"  -> Writer!dict_refs(Writer!Kids(n))
                       [] u.type = "array" -> Writer!array_refs(Writer!Kids(n))
                       [] OTHER            -> <<>>]
  BY <1>5, AtIsPlace DEF Writer!object
<1> HIDE DEF u, k
<1>7. CASE u.type = "array"
  <2>1. o.type = "array" /\ o.value = u.value /\ o.refs = Writer!array_refs(Writer!Kids(n))
    BY <1>6, <1>7
  <2>2. o.refs = [i \in 1..k |-> Writer!index_of(Append(n, i))]
    BY <1>2, <2>1 DEF Writer!array_refs
  <2>3. o.refs \in [1..k -> Nat]  BY <1>4, <2>2
  <2>4. o.refs \in Seq(Nat) /\ Len(o.refs) = k  BY <1>2, <2>3, SeqDef
  <2>5. \A m \in 1..k : Stands(tree, f, objects, o.refs[m], Append(n, m))  BY <1>4, <2>2
  <2> QED  BY <1>5, <1>7, <2>1, <2>4, <2>5 DEF Portrays, u, k
<1>8. CASE u.type = "dict"
  <2>1. o.type = "dict" /\ o.value = u.value /\ o.refs = Writer!dict_refs(Writer!Kids(n))
    BY <1>6, <1>8
  <2> DEFINE h == k \div 2
  <2>2. h \in Nat /\ k = 2 * h
    <3>1. k % 2 = 0  BY <1>3, <1>8 DEF WellMade, k
    <3>2. \A m \in Nat : m % 2 = 0 => m \div 2 \in Nat /\ m = 2 * (m \div 2)  OBVIOUS
    <3> QED  BY <1>2, <3>1, <3>2
  <2>3. o.refs = [i \in 1..(2 * h) |->
                    Writer!index_of(IF i <= h THEN Writer!Kids(n)[2 * i - 1]
                                    ELSE Writer!Kids(n)[2 * (i - h)])]
    BY <1>2, <2>1 DEF Writer!dict_refs
  <2> HIDE DEF h
  <2>4. ASSUME NEW m \in 1..h
        PROVE  /\ o.refs[m] = Writer!index_of(Append(n, 2 * m - 1))
               /\ o.refs[m + h] = Writer!index_of(Append(n, 2 * m))
               /\ 2 * m - 1 \in 1..k /\ 2 * m \in 1..k
    <3>1. /\ m \in 1..(2 * h) /\ m + h \in 1..(2 * h) /\ m <= h /\ ~(m + h <= h)
          /\ 2 * (m + h - h) = 2 * m /\ 2 * m - 1 \in 1..k /\ 2 * m \in 1..k
      BY <2>2
    <3>2. o.refs[m] = Writer!index_of(Writer!Kids(n)[2 * m - 1])  BY <2>3, <3>1
    <3>3. o.refs[m + h] = Writer!index_of(Writer!Kids(n)[2 * m])
      <4>1. PICK i \in 1..(2 * h) : i = m + h  BY <3>1
      <4>2. o.refs[i] = Writer!index_of(Writer!Kids(n)[2 * (i - h)])  BY <2>3, <3>1, <4>1
      <4>3. i - h = m  BY <2>2, <4>1
      <4> QED  BY <4>1, <4>2, <4>3
    <3> QED  BY <1>2, <3>1, <3>2, <3>3
  <2>5. o.refs \in [1..(2 * h) -> Nat]
    <3> SUFFICES ASSUME NEW i \in 1..(2 * h) PROVE o.refs[i] \in Nat  BY <2>3
    <3>1. CASE i <= h
      <4>1. i \in 1..h  BY <2>2, <3>1
      <4> QED  BY <1>4, <2>4, <4>1
    <3>2. CASE ~(i <= h)
      <4>1. i - h \in 1..h /\ i - h + h = i  BY <2>2, <3>2
      <4> QED  BY <1>4, <2>4, <4>1
    <3> QED  BY <3>1, <3>2
  <2>6. 2 * h \in Nat  BY <2>2
  <2>7. o.refs \in Seq(Nat) /\ Len(o.refs) = 2 * h  BY <2>5, <2>6, SeqDef
  <2>8. Count(o) = h /\ Len(o.refs) % 2 = 0
    <3>1. (2 * h) \div 2 = h /\ (2 * h) % 2 = 0  BY <2>2
    <3> QED  BY <2>1, <2>7, <3>1 DEF Count
  <2>9. \A m \in 1..h : /\ Stands(tree, f, objects, o.refs[m], Append(n, 2 * m - 1))
                        /\ Stands(tree, f, objects, o.refs[m + h], Append(n, 2 * m))
    BY <1>4, <2>4
  <2> QED  BY <1>5, <1>8, <2>1, <2>2, <2>7, <2>8, <2>9 DEF Portrays, u, k
<1>9. CASE u.type \notin {"array", "dict"}
  <2>1. /\ o.type = IF u.type = "key" THEN "string" ELSE u.type
        /\ o.value = u.value /\ o.refs = <<>>
    BY <1>6, <1>9
  <2>2. <<>> \in Seq(Nat)  BY EmptySeq
  <2> QED  BY <1>5, <1>9, <2>1, <2>2 DEF Portrays, u
<1> QED  BY <1>7, <1>8, <1>9

\* A leaf that is like another is portrayed by the same object.
LEMMA AlikePortrayed ==
    ASSUME NEW t, NEW f, NEW ob, NEW r, NEW a, Portrays(t, f, ob, r, a),
           NEW p, Alike(t, p, a)
    PROVE  Portrays(t, f, ob, r, p)
<1>1. CASE p = a  BY <1>1
<1>2. CASE p # a
  <2>1. /\ Place(t, p).type = Place(t, a).type
        /\ Place(t, p).type \notin {"array", "dict"}
        /\ Place(t, p).value = Place(t, a).value
    BY <1>2 DEF Alike
  <2> QED  BY <2>1 DEF Portrays
<1> QED  BY <1>1, <1>2

LEMMA WrittenIsFaithful ==
    ASSUME WriterInv, phase = "done", werr = PLIST_ERR_SUCCESS,
           NEW f, f.objects = written, f.root = 0
    PROVE  /\ IsFile(f) /\ Faithful(tree, f, objects) /\ Stands(tree, f, objects, 0, <<>>)
           /\ IsTree(tree)
<1> DEFINE n == Len(objects)
<1>1. /\ IsTree(tree) /\ Table(tree, objects, ref_table)
      /\ \A m \in DOMAIN ref_table : \A i \in 1..Len(Place(tree, m).kids) :
            Finds(tree, ref_table, Append(m, i))
      /\ Len(written) = n /\ n \in Nat /\ n > 0
      /\ \A i \in 1..n : written[i] = Writer!object(objects[i])
  BY AllFound
<1>2. tree \in Trees  BY DEF WriterInv, WriterTables
<1>3. Len(f.objects) = n /\ Indices(f) = 0..(n - 1)  BY <1>1 DEF Indices, NumObjects
<1> HIDE DEF n
<1>4. ASSUME NEW r \in Indices(f)
      PROVE  /\ objects[r + 1] \in DOMAIN ref_table /\ Path(tree, objects[r + 1])
             /\ Portrays(tree, f, objects, r, objects[r + 1])
             /\ Place(tree, objects[r + 1]).type = "dict" => Len(Object(f, r).refs) % 2 = 0
  <2>1. r + 1 \in 1..n  BY <1>1, <1>3
  <2>2. objects[r + 1] \in DOMAIN ref_table  BY <1>1, <2>1 DEF Table, n
  <2>3. Object(f, r) = Writer!object(objects[r + 1])  BY <1>1, <2>1 DEF Object
  <2>4. PICK m : m = objects[r + 1]  OBVIOUS
  <2>5. Path(tree, m)  BY <1>1, <2>2, <2>4 DEF Table
  <2>6. /\ Len(objects) \in Nat /\ Len(f.objects) = Len(objects)
        /\ \A i \in 1..Len(Place(tree, m).kids) : Finds(tree, ref_table, Append(m, i))
    BY <1>1, <1>3, <2>2, <2>4 DEF n
  <2>7. /\ Portrays(tree, f, objects, r, m)
        /\ Place(tree, m).type = "dict" => Len(Object(f, r).refs) % 2 = 0
    BY <1>1, <1>2, <2>2, <2>3, <2>4, <2>6, ObjectPortrays
  <2> QED  BY <2>2, <2>4, <2>5, <2>7
<1>5. Faithful(tree, f, objects)
  <2> SUFFICES ASSUME NEW r, NEW p, Stands(tree, f, objects, r, p)
               PROVE  Portrays(tree, f, objects, r, p)
    BY DEF Faithful
  <2>1. r \in Indices(f) /\ Alike(tree, p, objects[r + 1])  BY DEF Stands
  <2> QED  BY <1>4, <2>1, AlikePortrayed
<1>6. Stands(tree, f, objects, 0, <<>>)
  <2>1. objects[0 + 1] = <<>>  BY <1>1 DEF Table, n
  <2>2. 0 \in Indices(f)  BY <1>1, <1>3
  <2> QED  BY <2>1, <2>2 DEF Stands, Alike
<1>7. ASSUME NEW i \in 1..Len(f.objects)
      PROVE  /\ f.objects[i].refs \in Seq(Nat)
             /\ f.objects[i].type \notin {"array", "dict"} => f.objects[i].refs = <<>>
             /\ f.objects[i].type = "dict" => Len(f.objects[i].refs) % 2 = 0
  <2>1. PICK r : r = i - 1  OBVIOUS
  <2>2. r \in Indices(f) /\ r + 1 = i  BY <1>1, <1>3, <2>1
  <2>3. Object(f, r) = f.objects[i]  BY <2>2 DEF Object
  <2>4. PICK p : p = objects[r + 1]  OBVIOUS
  <2>5. /\ Portrays(tree, f, objects, r, p)
        /\ Place(tree, p).type = "dict" => Len(Object(f, r).refs) % 2 = 0
    BY <1>4, <2>2, <2>4
  <2> QED  BY <2>3, <2>5 DEF Portrays
<1>8. f.root \in Nat /\ Len(f.objects) \in Nat  BY <1>1, <1>3
<1>9. IsFile(f)  BY ONLY <1>7, <1>8 DEF IsFile
<1> QED  BY <1>1, <1>5, <1>6, <1>9

-----------------------------------------------------------------------------
(***************************************************************************)
(* The two together: the reader waits for the file, and then reads what    *)
(* was written, which nobody changes any more.                             *)
(***************************************************************************)
TripInv ==
    /\ WriterInv
    /\ \/ file = NULL /\ Idle
       \/ HandedOver /\ ReaderInv

LEMMA FileStays == Next => file' = file
<1> QED
  BY DEF Next, StartRefused, Start, EnterRefused, EnterFails, EnterLeaf, EnterContainer,
         Complete, BadRef, FollowRef, ItemReturns, KeyReturns, ValueReturns, Finish,
         Refuse, Abandon, Continue

LEMMA TripKeepsWriting ==
    ASSUME TripInv, WriterStep
    PROVE  TripInv'
<1>1. Writer!Next /\ UNCHANGED vars  BY DEF WriterStep
<1>2. WriterInv' /\ phase # "done"  BY <1>1, WriterKeeps DEF TripInv
<1>3. file = NULL /\ Idle  BY <1>2 DEF TripInv, HandedOver
<1>4. UNCHANGED <<file, pc, arg, res, stack, used, err, allocated, oom>>  BY <1>1 DEF vars
<1>5. file' = NULL /\ Idle'  BY <1>3, <1>4 DEF Idle
<1> QED  BY <1>2, <1>5 DEF TripInv

LEMMA TripKeepsHanding ==
    ASSUME TripInv, HandOver
    PROVE  TripInv'
<1>1. /\ phase = "done" /\ werr = PLIST_ERR_SUCCESS /\ file = NULL
      /\ file' = [objects |-> written, root |-> 0]
      /\ UNCHANGED <<writerVars, pc, arg, res, stack, used, err, allocated, oom>>
  BY DEF HandOver, Writer!PLIST_ERR_SUCCESS, PLIST_ERR_SUCCESS
<1>2. Idle  BY <1>1 DEF TripInv, HandedOver
<1>3. Idle'  BY <1>1, <1>2 DEF Idle
<1>4. file'.objects = written /\ file'.root = 0  BY <1>1
<1>5. IsFile(file')  BY <1>1, <1>4, WrittenIsFaithful DEF TripInv
<1>6. (Idle /\ IsFile(file) => ReaderInv)'  BY ReaderReady, PTL
<1>7. ReaderInv'  BY <1>3, <1>5, <1>6
<1>8. file' # NULL
  <2>1. DOMAIN NULL = {"size"}  BY DEF NULL
  <2>2. DOMAIN file' = {"objects", "root"}  BY <1>1
  <2> QED  BY <2>1, <2>2
<1>9. UNCHANGED <<phase, werr, written>>  BY <1>1 DEF writerVars
<1>10. HandedOver'  BY <1>1, <1>8, <1>9 DEF HandedOver
<1>11. WriterInv'  BY <1>1, WriterStays DEF TripInv
<1> QED  BY <1>7, <1>10, <1>11 DEF TripInv

LEMMA TripKeepsReading ==
    ASSUME TripInv, ReaderStep
    PROVE  TripInv'
<1>1. file # NULL /\ Next /\ UNCHANGED writerVars  BY DEF ReaderStep
<1>2. HandedOver /\ ReaderInv  BY <1>1 DEF TripInv
<1>3. ReaderInv'  BY <1>1, <1>2, ReaderKeeps
<1>4. UNCHANGED <<file, phase, werr, written>>  BY <1>1, FileStays DEF writerVars
<1>5. HandedOver'  BY <1>2, <1>4 DEF HandedOver
<1>6. WriterInv'  BY <1>1, WriterStays DEF TripInv
<1> QED  BY <1>3, <1>5, <1>6 DEF TripInv

LEMMA TripStarts == TripInit => TripInv
<1> QED  BY WriterInit DEF TripInit, TripInv

LEMMA TripKeeps == TripInv /\ [TripNext]_tripVars => TripInv'
<1> SUFFICES ASSUME TripInv, [TripNext]_tripVars PROVE TripInv'  OBVIOUS
<1>1. CASE WriterStep  BY <1>1, TripKeepsWriting
<1>2. CASE HandOver  BY <1>2, TripKeepsHanding
<1>3. CASE ReaderStep  BY <1>3, TripKeepsReading
<1>4. CASE UNCHANGED tripVars
  <2>1. UNCHANGED writerVars /\ UNCHANGED vars  BY <1>4 DEF tripVars
  <2>2. WriterInv'  BY <2>1, WriterStays DEF TripInv
  <2>3. UNCHANGED <<file, pc, arg, res, stack, used, err, allocated, oom>>  BY <2>1 DEF vars
  <2>4. CASE file = NULL /\ Idle
    <3>1. file' = NULL /\ Idle'  BY <2>3, <2>4 DEF Idle
    <3> QED  BY <2>2, <3>1 DEF TripInv
  <2>5. CASE HandedOver /\ ReaderInv
    <3>1. ReaderInv'  BY <2>1, <2>5, ReaderKeeps
    <3>2. UNCHANGED <<phase, werr, written>>  BY <2>1 DEF writerVars
    <3>3. HandedOver'  BY <2>3, <2>5, <3>2 DEF HandedOver
    <3> QED  BY <2>2, <3>1, <3>3 DEF TripInv
  <2> QED  BY <2>4, <2>5 DEF TripInv
<1> QED  BY <1>1, <1>2, <1>3, <1>4 DEF TripNext

LEMMA TripAnswers == TripInv => RoundTrip
<1> SUFFICES ASSUME TripInv, pc = "done", oom = {}
             PROVE  err = PLIST_ERR_SUCCESS /\ res = tree
  BY DEF RoundTrip
<1>1. ~Idle  BY DEF Idle
<1>2. WriterInv /\ HandedOver /\ ReaderInv  BY <1>1 DEF TripInv
<1>3. ReadsTheTree  BY <1>2, ReaderAnswers
<1>4. /\ phase = "done" /\ werr = PLIST_ERR_SUCCESS
      /\ file.objects = written /\ file.root = 0
  BY <1>2 DEF HandedOver
<1>5. /\ IsFile(file) /\ Faithful(tree, file, objects) /\ IsTree(tree)
      /\ Stands(tree, file, objects, 0, <<>>)
  BY <1>2, <1>4, WrittenIsFaithful
<1>6. Readable(file) /\ Unfolding(file) = tree  BY <1>4, <1>5, FaithfulIsRead
<1> QED  BY <1>3, <1>6 DEF ReadsTheTree

LEMMA TripPromises == TripInv => NeverRefused /\ StoredOnce
<1> QED  BY WriterPromises DEF TripInv

LEMMA TripAlways == TripSpec => []TripInv
<1> QED  BY TripStarts, TripKeeps, PTL DEF TripSpec

\* Whatever tree node_attach lets be built, however its leaves are alike and whatever
\* addresses its data nodes have: serialize_plist never refuses it as too nested or
\* as circular.
THEOREM NeverRefusesATree == TripSpec => []NeverRefused
<1> QED  BY TripAlways, TripPromises, PTL

\* No two objects of a file that plist_to_bin writes have the same data, unless they
\* are containers or data.
THEOREM StoresDataOnce == TripSpec => []StoredOnce
<1> QED  BY TripAlways, TripPromises, PTL

\* plist_from_bin reads what plist_to_bin wrote of any tree as that tree, whatever
\* objects the writer let its branches share, unless memory runs out.
THEOREM RoundTripsAlways == TripSpec => []RoundTrip
<1> QED  BY TripAlways, TripAnswers, PTL
=============================================================================
