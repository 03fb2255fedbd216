------------------------------- MODULE Nesting -------------------------------
(***************************************************************************)
(* How the tokens of a text are nested, told from the text alone and from  *)
(* nothing a reader does.                                                  *)
(***************************************************************************)
EXTENDS Integers, Sequences, SequencesExt

CONSTANTS Opens(_),      \* does this token open something,
          Closes(_),     \* or close something?
          Closing(_)     \* the type of token that closes it

Lowest(S) == CHOOSE x \in S : \A y \in S : x <= y

\* For each token the innermost token it is inside, or 0. What closes a token is
\* inside it. A token that closes nothing changes nothing.
Enclosing(d) ==
    LET within[i \in DOMAIN d] ==
            IF i = 1 THEN 0
            ELSE LET before == within[i - 1] IN
                 IF Opens(d[i - 1]) THEN i - 1
                 ELSE IF Closes(d[i - 1]) /\ before # 0 THEN within[before]
                 ELSE before
    IN  within

\* Where what token i opens is closed: past the end if nowhere.
ClosedAt(d, i) ==
    LET within == Enclosing(d) IN
    Lowest({j \in i + 1 .. Len(d) : Closes(d[j]) /\ within[j] = i} \cup {Len(d) + 1})

\* Each token that opens is closed, by one of its kind, and none closes nothing.
Balanced(d) ==
    LET within == Enclosing(d) IN
    /\ \A i \in DOMAIN d : Opens(d[i]) => ClosedAt(d, i) <= Len(d)
    /\ \A i \in DOMAIN d : Closes(d[i]) => within[i] # 0 /\ d[i].type = Closing(d[within[i]])

\* The tokens that token i is inside.
Around(d, i) ==
    LET within == Enclosing(d)
        around[j \in 0..Len(d)] == IF j = 0 THEN {} ELSE {j} \cup around[within[j]]
    IN  around[within[i]]

\* The tokens directly inside token j, in order; what closes it is not.
Inside(d, j) ==
    LET within == Enclosing(d) IN
    SelectSeq([i \in DOMAIN d |-> i], LAMBDA i : within[i] = j /\ ~Closes(d[i]))
=============================================================================
