--------------------------- MODULE BplistRoundTrip ---------------------------
(***************************************************************************)
(* plist_to_bin and then plist_from_bin: the file the writer made is handed *)
(* to the reader (test/plist_cmp.c, test/*.test compare the two trees).     *)
(* The reader's Files are none here: it reads what was written.             *)
(***************************************************************************)
EXTENDS BplistReader

CONSTANTS Trees,          \* the trees that are written
          DataBucket(_)

\* A node as plist.c makes it of its items, or of its keys and values in turns. A
\* key node is in a dict, and before each value there is one.
WellMade(t) ==
    /\ t.kids \in Seq(ToSet(t.kids))
    /\ IF IsContainer(t) THEN t = Filled(t, t.kids)
       ELSE t = Leaf(t.type, t.value) /\ t.type \notin {"bad", "nowhere"}
    /\ t.type = "dict" => Len(t.kids) % 2 = 0
    /\ \A i \in DOMAIN t.kids :
          t.kids[i].type = "key" <=> t.type = "dict" /\ i % 2 = 1

\* The nodes k levels below the root of t.
NodesAt(t) ==
    LET at[k \in 0..(MaxNesting + 1)] ==
            IF k = 0 THEN {t} ELSE UNION {ToSet(u.kids) : u \in at[k - 1]}
    IN  at

\* The reader's limit of nesting is the depth up to which node_attach lets a tree
\* grow.
IsTree(t) ==
    /\ t.type # "key"
    /\ \A k \in 0..MaxNesting : \A u \in NodesAt(t)[k] : WellMade(u)
    /\ NodesAt(t)[MaxNesting + 1] = {}

ASSUME TreesAssumption == \A t \in Trees : IsTree(t)

VARIABLES tree, phase, calls, in_stack, objects, ref_table, werr, written

Writer == INSTANCE BplistWriter

writerVars == <<tree, phase, calls, in_stack, objects, ref_table, werr, written>>

tripVars == <<writerVars, vars>>

TripInit == Writer!Init /\ Idle /\ file = NULL

WriterStep == Writer!Next /\ UNCHANGED vars

\* The caller passes on what plist_to_bin returned.
HandOver ==
    /\ phase = "done" /\ werr = Writer!PLIST_ERR_SUCCESS
    /\ file = NULL
    /\ file' = [objects |-> written, root |-> 0]
    /\ UNCHANGED <<writerVars, pc, arg, res, stack, used, err, allocated, oom>>

ReaderStep == file # NULL /\ Next /\ UNCHANGED writerVars

TripNext == WriterStep \/ HandOver \/ ReaderStep

TripSpec == TripInit /\ [][TripNext]_tripVars /\ WF_tripVars(TripNext)

\* What plist_to_bin wrote, plist_from_bin reads back as the same tree: types,
\* values, order and pairing of keys and values, also where the file shares
\* objects between branches; a tree at the nesting limit is no exception.
RoundTrip ==
    pc = "done" /\ oom = {} => err = PLIST_ERR_SUCCESS /\ res = tree

\* Of the writer, see there: it refuses no tree that can be built, and stores no
\* leaf twice.
NeverRefused == Writer!NeverRefused
StoredOnce   == Writer!StoredOnce
==============================================================================
