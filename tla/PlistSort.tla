------------------------------- MODULE PlistSort -------------------------------
(***************************************************************************)
(* plist_sort (src/plist.c) on the children of one dict: a bubble sort that *)
(* swaps a pair of key and value with the pair behind it by rewriting next, *)
(* prev, begin and end of libcnary's list in place. One comparison is a    *)
(* step. Dicts further inside have been sorted before, each on its own.    *)
(***************************************************************************)
EXTENDS Integers, FiniteSets, Sequences, SequencesExt

CONSTANTS Key,        \* the keys, in the order of strcmp
          MaxPairs,   \* bound: the number of pairs in the dict
          NULL

ASSUME SortAssumption ==
    /\ Key \subseteq Int /\ MaxPairs \in Nat \ {0}
    /\ NULL \notin 1 .. 2 * MaxPairs

VARIABLES key,          \* the strings of the pairs, as the dict had them at first
          next, prev,   \* of the children
          begin, end,   \* of the list of children
          cur,          \* cur_key
          swapped,
          pc            \* "pass", "compare" or "done"

list == <<next, prev, begin, end>>
sortVars == <<key, list, cur, swapped, pc>>

\* At first pair i has the nodes 2i-1, its key, and 2i, its value.
Node == 1 .. 2 * Len(key)
KEY_STRVAL(k) == key[(k + 1) \div 2]

SortInit ==
    /\ key \in SeqOf(Key, MaxPairs) \ {<<>>}
    /\ next = [n \in Node |-> IF n = 2 * Len(key) THEN NULL ELSE n + 1]
    /\ prev = [n \in Node |-> IF n = 1 THEN NULL ELSE n - 1]
    /\ begin = 1 /\ end = 2 * Len(key)
    /\ cur = NULL /\ swapped = FALSE /\ pc = "pass"

NEXT_KEY(k) == next[next[k]]

\* A pass goes on to the end of the list: lptr, which should mark the part that is
\* sorted, is set to NULL again at the beginning of each.
lptr == NULL

StartPass ==
    /\ pc = "pass"
    /\ swapped' = FALSE /\ cur' = begin /\ pc' = "compare"
    /\ UNCHANGED <<key, list>>

\* Slip: pairs with the same key are swapped, too.
out_of_order_slip(a, b) == KEY_STRVAL(a) >= KEY_STRVAL(b)

out_of_order(a, b) == KEY_STRVAL(a) > KEY_STRVAL(b)

\* Slip: the node before the pairs is forgotten.
swap_slip(a, b) ==
    LET before == prev[a]  after == next[next[b]] IN
    /\ next' = [next EXCEPT ![next[a]] = after, ![next[b]] = a]
    /\ prev' = [n \in Node |-> CASE n = a -> next[b] [] n = b -> before
                                 [] n = after -> next[a] [] OTHER -> prev[n]]
    /\ begin' = IF before = NULL THEN b ELSE begin
    /\ end' = IF after = NULL THEN next[a] ELSE end

\* The pair of key a goes behind the pair of key b, which followed it.
swap(a, b) ==
    LET before == prev[a]  after == next[next[b]] IN
    /\ next' = [n \in Node |-> CASE n = next[a] -> after [] n = next[b] -> a
                                 [] n = before -> b [] OTHER -> next[n]]
    /\ prev' = [n \in Node |-> CASE n = a -> next[b] [] n = b -> before
                                 [] n = after -> next[a] [] OTHER -> prev[n]]
    /\ begin' = IF before = NULL THEN b ELSE begin
    /\ end' = IF after = NULL THEN next[a] ELSE end

\* The larger key is carried on and compared with the one behind it.
Swap ==
    /\ pc = "compare"
    /\ NEXT_KEY(cur) # lptr
    /\ out_of_order(cur, NEXT_KEY(cur))
    /\ swap(cur, NEXT_KEY(cur))
    /\ swapped' = TRUE
    /\ UNCHANGED <<key, cur, pc>>

Advance ==
    /\ pc = "compare"
    /\ NEXT_KEY(cur) # lptr
    /\ ~out_of_order(cur, NEXT_KEY(cur))
    /\ cur' = NEXT_KEY(cur)
    /\ UNCHANGED <<key, list, swapped, pc>>

\* Slip: one pass is enough.
again_slip == FALSE

again == swapped

EndPass ==
    /\ pc = "compare"
    /\ NEXT_KEY(cur) = lptr
    /\ pc' = IF again THEN "pass" ELSE "done"
    /\ UNCHANGED <<key, list, cur, swapped>>

SortNext == StartPass \/ Swap \/ Advance \/ EndPass

SortSpec == SortInit /\ [][SortNext]_sortVars /\ WF_sortVars(SortNext)

-----------------------------------------------------------------------------
(***************************************************************************)
(* Properties                                                              *)
(***************************************************************************)
\* The nodes from n on, one more than there are, NULL after the last.
Walk(step, n) ==
    LET after == [m \in Node \cup {NULL} |-> IF m = NULL THEN NULL ELSE step[m]]
        at[i \in 1 .. 2 * Len(key) + 1] == IF i = 1 THEN n ELSE after[at[i - 1]]
    IN  at

\* The keys in the order of the list.
Ordered == LET nodes == Walk(next, begin) IN [i \in 1..Len(key) |-> nodes[2 * i - 1]]

\* After every swap, wherever in the list it was, the list has the same pairs, no
\* key is parted from its value, and from its end it reads as from its beginning.
NothingLost ==
    LET nodes == Walk(next, begin)
        back  == Walk(prev, end)
        count == 2 * Len(key)
    IN  /\ {nodes[i] : i \in 1..count} = Node /\ nodes[count + 1] = NULL
        /\ \A i \in 1..count : back[i] = nodes[count + 1 - i]
        /\ \A i \in 1..Len(key) :
              nodes[2 * i - 1] % 2 = 1 /\ nodes[2 * i] = nodes[2 * i - 1] + 1

\* In the end the keys are in order, and pairs with the same key as they were: what
\* a lookup of a repeated key finds is not changed by sorting.
SortedAndStable ==
    pc = "done" =>
        \A i, j \in DOMAIN Ordered : i < j =>
            LET a == Ordered[i]  b == Ordered[j] IN
            KEY_STRVAL(a) < KEY_STRVAL(b) \/ (KEY_STRVAL(a) = KEY_STRVAL(b) /\ a < b)

\* There is a pass without a swap, whatever the keys are.
Termination == <>(pc = "done")
=============================================================================
