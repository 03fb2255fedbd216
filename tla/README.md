# libplist in TLA+

Models of the core of libplist, model-checked with TLC, and theorems about them
checked with TLAPS. Paths below are relative to the repository root, with `src/`
in front as in `PROJECT.json` (`src/src/plist.c` is `src/plist.c` of libplist).

## 1. Inventory

| Part | State it keeps | Operations | What makes it correct |
|---|---|---|---|
| node tree (`src/libcnary/node.c`, `node_list.c`) | per node `next`, `prev`, `parent`, `count`; per parent a list with `begin`, `end`, `count` | create, attach, insert, detach, destroy, copy, walk | an ordered forest: both directions of every link agree, no cycle, bounded depth, counters right |
| arrays (`src/src/plist.c`, `ptrarray.c`) | the items as children, and beyond 100 items a lookup cache | append, insert, set, remove, get, iterate, copy, setters, free | the cache is the children list; a failed replacement changes nothing |
| dictionaries (`src/src/plist.c`, `hashtable.c`) | alternating key and value children, and beyond 500 children a hash table | set, get, remove, merge, copy_item, rename a key, sort, iterate, copy, setters, free | children alternate, keys are unique, table and children give the same answers, failures are rolled back |
| values (`src/src/plist.c`) | a tagged union per node | get, set, compare, convert | comparison and conversion agree with type and value |
| binary reader and writer (`src/src/bplist.c`) | trailer fields, table of objects in use, output buffer | parse, serialize | every reference is bounds-checked, recursion is refused, what is written reads back |
| XML reader and writer (`xplist.c`) | position, node path, depth, key at hand | parse, estimate size, write | nesting is balanced and bounded, keys pair with values, what is written reads back |
| JSON reader and writer (`jplist.c`, `jsmn.c`) | array of tokens with their sizes, position in it | tokenize, build, estimate size, write | sizes are right, the walk takes each token once, escapes and numbers are read as meant |
| OpenStep reader and writer (`oplist.c`) | position, depth, error | parse, restart as strings data, estimate size, write | each error leaves every recursive call, nesting is bounded, strings are quoted when they must be |
| output-only formats (`out-*.c`) | output buffer | write | |
| byte buffer, base64, time64 | buffers | append, encode, decode | |
| format detection (`plist.c`) | none | `plist_from_memory`, `plist_read_from_file` | what the writer of a format makes is taken for that format |
| C++ wrapper (`src/src/*.cpp`) | object trees beside the C tree | set, append, insert, remove, copy | objects mirror the C tree |
| Python binding, `plistutil` | wrapper objects; options | | |

How they interact. Everything holds a tree of libcnary nodes. A `plist_t` is a
`node_t` whose data is a tagged union; arrays and dicts keep their elements as
children, and their cache or table in the union. The readers build trees: the XML,
JSON and OpenStep readers through `plist_array_append_item` and
`plist_dict_set_item`, the binary reader directly through `node_attach`, which
makes no cache or table. The writers walk trees. `plist_from_memory` chooses a reader
by the first bytes of a text, so the writers must not make what another reader is chosen for. The wrappers keep objects beside
the nodes. There are no threads and no persistent state. Calls are sequential, and
what is hard is the long sequence of legal calls that makes two representations of
the same content disagree, and the call that fails half-way.

`PROJECT.json` lists the hazards line by line.

## 2. The modules

| Module | What it is |
|---|---|
| `ForestOps` | Ordered forests as values and libcnary's operations on them, with guards, error codes and results. Constant-level, no recursion: an ancestor set is a least fixpoint. |
| `OrderedForest` | What libcnary promises: one action per call over a forest. |
| `NodeTree` | libcnary as written: pointers, lists, counters. Implements `OrderedForest`. |
| `PlistArray` | Arrays: children list and lookup cache. |
| `PlistDict` | Dicts: alternating children and hash table, with failing allocations. |
| `PlistSort` | The bubble sort of a dict, pointer by pointer. |
| `PlistScalar` | Integers, UIDs and booleans: constructors, setters, comparison, and their way through the binary and the XML format. |
| `BplistReader` | The binary reader on any graph of objects, step by step. |
| `BplistWriter` | The binary writer: the table of shared objects, the objects written. |
| `BplistRoundTrip` | Composes the two: writer, then reader of what was written. |
| `PlistTrees` | The trees that the readers of text build, and the calls they build them with. |
| `Nesting` | How the tokens of a text are nested, told from the text alone. |
| `XmlReader` | The XML reader on any sequence of tags, and the tags the writer makes. |
| `JsonText` | JSON texts: strings, escapes, numbers; what a text means; what the writer makes of a tree. |
| `JsonReader` | The JSON reader: `jsmn_parse`, then the walk over its tokens. |
| `OpenStepText` | The same of OpenStep texts, |
| `OpenStepReader` | and their reader, with strings data. |
| `PlistMemory` | Composes the three readers and writers of text with `plist_from_memory`. |
| `CxxMirror` | The C++ wrapper: objects beside the C tree. |
| `ForestLemmas` | TLAPS: what ancestors are; linking, unlinking, freeing and copying keep a forest a forest; where the children are afterwards; what a detach and an insert undo. |
| `OrderedForestProofs` | TLAPS: the invariants of `OrderedForest`, sibling order included. |
| `NodeTreeProofs` | TLAPS: one call on one heap of `NodeTree` (the loops read the forest, and each call leaves the forest that `ForestOps` says), the deep copy, the invariants, and that `NodeTree` implements `OrderedForest`. |
| `PlistArrayProofs` | TLAPS: the cache of an array and its replacements. |
| `PlistDictProofs` | TLAPS: the pairs of a dict and its hash table, through every call and every failure of one. |
| `PlistValueProofs` | TLAPS: the sort loses nothing and sorts; numbers keep their value and order, for bytes of any size. |
| `BplistProofs` | TLAPS: the recursion check of the binary reader, its errors, that it leaks nothing, and that it returns the tree of the file; that the writer refuses no tree and stores no leaf twice, and that what it writes is read back as the same tree. |
| `PlistMemoryProofs` | TLAPS: who owns the nodes at every step of the three readers of text, so that they leave nothing behind; that the depth of the OpenStep reader is what it should be; that path, depth and parent of the XML reader describe the same nesting. |
| `MC*` | Instances for TLC. |

`PlistArray` and `PlistDict` are built on `ForestOps`; that libcnary really behaves
like `ForestOps` is what `NodeTree!CallsMatch` (each call that has memory, with every choice of
arguments, in every reachable heap) and the refinement `NodeTree!ImplementsForest` (calls that have
none included) say. TLC checks them on a small instance, and both are theorems.

A child may be refused by `node_attach` and `node_insert` at any time. The check of depth
(`node_subtree_max_depth`) allocates a stack for every child, for a leaf too, and answers
`NODE_MAX_DEPTH + 1` when it gets none. It follows that a roll-back, which puts back what was
just taken out, may fail as well. In `OrderedForest` and `NodeTree` this is the action `NoMemory`. In
`PlistArray` and `PlistDict` the variable `short` is the set of nodes for which the next call will not
have that memory (`try_attach`, `try_insert`); `Shortages`, a constant, says which sets occur.

### From code to model

* **A call is a step**, in the modules about containers and values. libplist has no
  concurrency of its own, so an action is one API call from start to return, every
  internal step included. What happens inside
  a call (detach, insert, roll back, update the cache, free) is a composition of
  operators in the order of the code.
* **Nodes are model values.** A freed node returns to the pool and may be allocated
  again. Freed nodes have all-empty fields, as after `calloc`.
* **`OrderedForest`**: `alive` is the set of allocated nodes, `forest` their children
  lists and parent pointers, `ret` the result of the call. Arguments may be any live
  node or NULL, except that `node_destroy` gets a root (every caller in libplist
  detaches first). `NoMemory` and `CreateFails` are the failing allocations.
* **`NodeTree`**: the same actions over `next`, `prev`, `parent`, `count` and
  `children` (NULL or a record `begin`, `end`, `count`). A loop of the C code is a
  bounded walk (`Follow`, `Walk`, `Level`). The refinement mapping reads each children
  list from `begin` along `next`. Whether a parent that lost all its children still owns
  an empty list is invisible in a forest, and the abstract `detach_errors` allows either
  error code there. `CopyDeep` copies the nodes of a tree in an order in which children
  come before their parents (`BottomUp`), since `node_copy_deep` finishes the copy of a
  child before it attaches it.
* **`PlistArray`**: `type`, `forest`, `cache`. `CacheThreshold` stands for the 100 of
  `_plist_array_post_insert`. `ParsedArray` is an array as the binary reader leaves it,
  long but without a cache. `SetItem` has the detach, the insert, the roll-back, the
  cache update and the free. Items passed in are roots, as the code asserts. `FreeItem` is
  `plist_free` of an item while it is in an array, which the model allows for an array
  without a cache only (see below). When a roll-back fails ("array now missing element"),
  the cache still has the item that the list has lost: `stale` is the set of such
  arrays. What further calls make of a stale cache is not followed: the next call is one
  that ends the array (`EndStale`).
* **`PlistDict`**: the state is one record `s` so that `plist_dict_merge` and
  `plist_dict_copy_item` are compositions of the other operators. Key strings are
  numbers in `strcmp` order; `HashOf` maps a key to its bucket and is a constant, so
  that colliding and non-colliding keys can both be checked. An entry of the table
  points at a key NODE and compares with its current name, as the code's entries point
  at key data. `HashThreshold` stands for the 500 of `plist_dict_set_item`. `Alloc` is
  the allocator: which free address it returns, or NULL when it fails. A replacement whose
  roll-back fails leaves a key without a value, whose entry in the table still points at the
  old one: `Halved` are the dicts with such a key. A merge is followed up to there, and the next call
  frees the tree (`EndHalved`).
* **`PlistScalar`**: one node, its 8-byte word and its length. `meant` is a ghost
  variable: the number the caller gave. All limits of the code (1, 2, 4 and 8 bytes,
  `INT_MAX`, `INT64_MAX`) are powers of the size of a byte, so `Byte` is a constant:
  256 in the code, 4 in the runs, with every limit in reach. Words are of 8 such bytes
  and wrap around.
* **`BplistReader`**: here a call of `plist_from_bin` is many steps, because what matters
  is the recursion. `stack` is the C stack with a frame per container being filled, `pc`
  says whether an object is entered, filled or returned. A file is a table of objects
  of which the model keeps what each decodes to; the table may be any graph. `used` is
  `used_indexes`, with everything earlier siblings left in it. Any allocation of a node
  may fail, and any attachment of a child, whose result the reader ignores; `oom` remembers which
  kind did, for the properties to speak of files read with enough memory.
* **`BplistWriter`**: a node is the path that leads to it. `serialize_plist` gives each
  node a place in `objects` unless `ref_table` finds one with equal data. Data nodes are
  hashed by address, so whether two equal ones are found depends on their buckets:
  `DataBucket`, a constant, says which share one.
* **`BplistRoundTrip`** extends `BplistReader` and instantiates `BplistWriter`, so that a
  state has the variables of both. The reader waits (`Idle`) until the writer is done
  and the caller passes its objects on (`HandOver`); there are no other files. `IsTree` says
  what a tree is that the calls of `plist.c` can make: only containers have items, keys and values
  take turns in a dict, and nothing is deeper than `node_attach` allows
  (`TreesAssumption`).
* **`XmlReader`**: an iteration of the loop of `node_from_xml` is a step. A document is a
  sequence of tags, not necessarily well nested; a scalar with its content and closing tag
  is one, as the code reads it in one iteration. `heap` holds the nodes in order of
  allocation; `plist`, `parent`, `keyname`, `node_path` and `depth` are the locals of
  the function. Every error goes to `err_out`, which frees the node at hand and the tree
  (`cleaned_up`). `Valid` and `Meaning` tell from the nesting of the tags, without
  following the reader, what documents are right and what tree they mean: the reader's
  liberties are in them (the plist element may be missing or nested, a second key in a row
  is a value, a last key without a value is dropped). `plist_to_xml` gives the tags the
  writer makes of a tree.
* **`JsonReader`**: a text is a sequence of lexemes; of strings and primitives the
  characters are kept, since escapes, saturation and words cut short are the point. First a
  lexeme is a step: `tokens` is the array jsmn fills, `toksuper` its innermost open token,
  `maxtoks` the room it has. When it is full `plist_from_json` grows it and calls
  `jsmn_parse` again (`NoRoom`), which may fail. Then a token is a step: `frames` are the
  calls of `parse_array` and `parse_object`, with the items they still expect and the key
  at hand. `JsonText!Meaning` says what a text means from its nesting: commas and colons
  count for nothing wherever they are, only the first value at top level is built.
* **`OpenStepReader`**: `frames` are the calls of `node_from_openstep` and
  `parse_dict_data` that fill something, `depth` is the counter of the context. `pc` says
  what the code looks for next, and `ret` is the value a call returned. On an error all
  calls return, each freeing what it began (`begun`). When `=` follows the first value,
  the value is freed and the text is read again as strings data (`RootRead`).
* **`PlistMemory`** is the disjunction of the three readers, which share their variables
  where they mean the same. `detected` is the choice of `plist_from_memory`, with its scan
  for the end of the first string. The properties write the tree that was read in both text
  formats, or in XML, and give the result to `plist_from_memory` again: the operators
  `Valid` and `Meaning`, which `ReadsTheText` shows the readers to agree with, say what
  comes back.
* **`PlistSort`**: a comparison is a step. `list` is libcnary's list, without any notion of
  pairs: a swap is the pointer assignments of the code, the special cases at both ends
  included. `lptr`, which should mark the sorted part, is reset in each pass, so a pass
  always goes to the end; the model has it so.
* **`CxxMirror`**: `heap` is the C tree, `objs` the C++ objects with their node, parent and
  items. An action is a method: it does what the C call does to the heap and what the
  wrapper does to its vector or map. Iterators invalidated by the C++ library are not
  modelled. The module's head says which calls are excluded, because the code does not
  define what they do.

An operator named `X_slip` is `X` with a plausible programming slip. No specification
uses one; substituting it for `X` must break the property that is there to notice.

## 3. Runs

| Run | Bounds | What it shows |
|---|---|---|
| `forest` | 4 nodes, depth 2 | the forest invariants and that siblings keep their order, calls that lack memory included |
| `nodes` | 4 nodes, depth 2, symmetry | each pointer-level call does and returns what the forest operation does; lists doubly linked; counters agree |
| `array` | 5 nodes, depth 2, cache from 2 items, memory for all checks of depth in a call or for none | cache coherence, also after calls that lack memory; a replacement is all or nothing, but for the roll-back that lacks memory, which costs one item and no other |
| `dict` | 6 nodes, depth 2, 2 colliding keys, table from 2 children, memory as in `array` | table, children and lookups agree; failed calls are rolled back; a key loses its value only in a roll-back that lacks memory |
| `sort` | up to 6 pairs with 4 keys, in any order | the sort ends, loses no node and parts no pair, and is stable |
| `scalars` | byte of 2 bits, the words within 3 of each limit | values survive both formats, however often and after whatever they replaced; sign and order are right |
| `reader` | graphs of 4 objects, nesting limit 2 | the tree read is the unfolding of the file, errors are reported for a reason, nothing is leaked, and the reader ends on cyclic files too |
| `roundtrip` | trees of depth 0 to 2, nesting limit 2 | no tree is refused; what is written reads back; nothing is stored twice |
| `memory` | of each text format all sequences of up to 3 lexemes or tags, and 7 to 12 longer texts with any one lexeme replaced, left out or put in; strings and numbers of up to 5 characters; nesting limit 3; room for 2 tokens at first; one failed allocation | each reader keeps its account of the nesting, ends, leaks nothing, refuses a text only for a reason and otherwise gives the tree it means; that tree, written in any format that can hold it, is recognized by `plist_from_memory` and comes back |
| `cxx` | 4 nodes and 4 objects, 3 levels, 2 keys, symmetry | every wrapper mirrors its C container; no node is lost or freed by two objects |
| `xml_two_roots`, `openstep_strings` | as `memory`, no failed allocation | a statement of a test and one of an error message that the code does not keep (below) |

Why the bounds are enough. In a list the cases are: first, middle, last and only
element; three siblings under one parent have them all and take four nodes. A depth of 2
allows a chain of three, refuses a chain of four, and lets the height of the attached
tree and the depth of the parent both matter. An array with a cache needs two items
above a threshold of 1; five nodes leave room for a replacement item and a second array.
A dict with a table takes five nodes (two pairs); the sixth is the item being set, and
its key then finds memory exhausted, which is the failing allocation. Memory for all the
checks of depth in a call, or for none, gives each outcome of each attachment: with none the
first attachment that passes the other checks fails, and so does its roll-back; a roll-back that
succeeds follows a refusal for a cycle or for the depth. The theorems have any set of
refused nodes, and so an insert that lacks memory before a roll-back that has it. The thresholds are
constants only to be small here; nothing in the operators depends on their value.
Files of four objects with a root of one or two items or pairs have paths longer than the
limit of 2, cycles that pass through the root and that do not, objects shared between
branches and levels, refs out of range, and every object that cannot be decoded in every
position. The trees of `roundtrip` reach the limit of 2 exactly, which is where writer,
reader and `node_attach` must agree, and have equal leaves of every kind at different levels.
The texts of `memory` are where a reader goes wrong: next to a valid one. They nest one
container further than the limit, have every kind of container empty and not, repeated
keys, keys without values, UIDs below the root and at it, a plist element inside, escapes
whole and cut, numbers on both sides of the saturation limit, and strings data that ends
well or breaks off anywhere. Room for 2 tokens that grows by 1 makes jsmn stop and go on
in every position, with every `toksuper`. One failed allocation is enough, since each reader
gives up at the first. Bubble sort of six pairs has swaps at the front, in the middle, at
the end and next to each other, and a first pair that is also the last but one; four keys
leave equal ones among six. Four objects of `cxx` make a container inside a container
with an item, and one object that replaces or joins it.

Symmetry. Addresses are interchangeable: no operator orders or inspects them (`cxx` permutes
the addresses of nodes and of objects together). In
`PlistDict` the allocator picks a fixed free node with CHOOSE. Free nodes are alike in
every field, so picking another gives a state that differs by a permutation only.

Deadlock and fairness. In the modules where a step is a call no deadlock is possible (a
call can always be made), TLC checks it, and no fairness is assumed: a library is free not
to be called. That the library's own loops over parent pointers end is `NoCycles`.
The readers, the round trip and the sort stop when the call is over, so their runs do not
check deadlock. The readers and the sort check `Termination` instead, under weak fairness
of `Next`. That is what the code gives: it runs in the caller's thread, waits for nothing,
and nothing else runs. In `memory` it is the fairness of steps of the JSON
and OpenStep readers in which no allocation fails: a failure must not be what ends a loop,
and each step of the XML reader takes a tag, so that its end is no question. Termination
could fail by an endless recursion or loop, which no fairness excludes: a cyclic binary file, an array of tokens that does not grow, strings data that
begins again and again, a pass of the sort that always swaps.

### Where documentation and code differ

With a run that shows it:

1. After a root that is an empty element further values are not refused; they become items
   of the root (`xml_two_roots`): `<plist><array/><string>1</string></plist>` is read as an
   array of one string, while `<array></array>` in its place is refused.
   `test/xml_behavior_test.c` says that additional values after the first root object
   must cause parsing to fail. As the root was never counted as open, the nesting limit is
   one too high below it, and items that `node_attach` refuses for their depth are lost
   without an error. The other properties of `XmlReader` leave such documents out
   (`RootReopened`).
2. OpenStep strings data that breaks off is returned as a success (`openstep_strings`):
   `oplist.c:1037` asks whether the error is positive, and all error codes are negative. So
   `a=b; c` gives a dict with one pair. `OpenStepText!Meaning` has it so, for the other
   properties.

Excluded by a guard, because what was kept for lookups is not told of the change:

3. `plist_free` of an item of an array with a cache (`PlistArray!FreeItem`). The node leaves
   the children list, not the cache. `plist_set_key_val` of a key of a dict with a table: the
   entry stays in the bucket of the old name. `plist.h` promises neither restriction.
4. Repeated keys from a binary file, in a dict that then gets a table: which of the items a
   lookup returns changes with an insertion of another key. `PlistDict` has no such dicts.

Seen while modelling, without a run: `plist_from_bin` returns success with a tree that
lacks items when one cannot be attached for lack of memory, since the reader ignores what
`node_attach` returns (in `BplistReader` as `oom` containing "attach"); a replacement in an array
whose roll-back fails leaves the item that was lost in the cache, where
`plist_array_get_item` still finds it, and in a dict it leaves a key without a value and an
entry of the table for it, so that the next pair that is set begins with a key in the place of a value
(`PlistArray!SetItemAtomic` and `PlistDict!RollBackNeedsMemory` say what is left);
`node_attach` reports a lack of memory as `NODE_ERR_MAX_DEPTH`; a boolean made with
`plist_new_bool(2)` is not `plist_bool_val_is_true` before it has been through a file, and
is after; `plist_from_xml` of a document without tags returns success and NULL; when
the path item of the XML root cannot be allocated the root is freed twice (`twice`); a UID
at the limit of depth is written to XML as a dict that is too deep to be read
(`WrittenReadsBack` excepts it); `plist_dict_copy_item` reports success when the entry
was not created; `plist_int_val_compare` of an unsigned value above `INT64_MAX`, and
`plist_uint_val_compare` of a negative one, give the order of the reinterpreted bits;
`plist_new_uint` and `plist_set_uint_val` choose the length by different limits, so that
`plist_compare_node_value` tells equal values apart.

JSON: the reader saturates unsigned values above `INT64_MAX`; words may be cut short (`nu`
is null) and a number with an exponent may have anything behind it; an error inside a
container is always `PLIST_ERR_PARSE`, also that of nesting, and a leaf one level too deep
at the limit gives `PLIST_ERR_NO_MEM`; the writer leaves a backslash as it is, so that a
string with one comes back as another or not at all (`Kept`); a text `{"a\\":1}` is taken
for OpenStep by `plist_from_memory`, which takes a quote behind any backslash for an escaped
one.

OpenStep: the reader never makes a backslash of two; of octal escapes it reads two digits,
where its comment says three; the writer leaves a backslash as it is and writes the empty
string as nothing (`Kept`); text behind the first value is ignored; the reader takes one
level of nesting less than trees may have. `plist_from_memory` takes `<dict>`, `<array>`,
`<key>`, `<real>`, `<date>` and `<data>` at the beginning of a text for OpenStep data, since
the letter after the bracket is a hexadecimal digit.

C++: the copy of a container that has a parent asks for the type of an object as if it
were a node; assigning to a scalar that is an item frees the item of the C container;
`Dictionary::operator=` does not free the old dict; `operator[]` of a missing key enters a
NULL object; results of the C calls are not looked at.

## 4. Theorems

A theorem of an invariant has the form `Spec => []Property`. Behind each is an inductive
invariant, `IInv` in every module, which says more than the property because the property
alone is not inductive.

### The forest: `OrderedForestProofs`, `ForestLemmas`

For every finite set of nodes that `NULL` is not in and every depth limit (`NodeAssumption`,
`MaxDepthAssumption`), from `OrderedForest!Spec`:

* `TypeCorrect`, `LinksAlwaysAgree`, `NeverCyclic`, `DepthAlwaysBounded`;
* `SiblingsStayInOrder`, of the action property `SiblingOrderKept`.

The three invariants are inductive only together (`IInv`). An attach cannot close a cycle
because the child is a root that is not among the parent's ancestors; that the subtree of
the child moves along with it, and so gets deeper by exactly the parent's depth plus one,
uses that ancestor sets follow the parent pointers; a detach finds its child at a
position of the list because the links agree. `ForestLemmas` has one theorem for each way
of changing a forest: `LinkForest`, `UnlinkForest`, `ReleaseForest`, `CopyForest`. Acyclicity
is stated as "every nonempty set of nodes has a member whose parent is outside it", which
needs no induction to use. Depth is the cardinality of the ancestor set, and the bounds
come from FiniteSetTheorems. Sibling order follows from where an insertion and a removal
leave the other children of the list (`PositionsKept`); two nodes that are siblings before
and after a step are in the list that the step changes or in one that it does not touch.

### libcnary's pointers: `NodeTreeProofs`

For the same constants, and lists that are no `NULL` (`ListAssumption`), from
`NodeTree!Spec`:

* `AlwaysDoublyLinked`, of `DoublyLinked`; `CountsAlwaysAgree`, of `CountsAgree`;
* `CallsAlwaysMatch`, of `CallsMatch`: with any arguments, each pointer-level call returns what
  the forest operation returns and leaves its forest;
* `PointersAreAForest`, of the refinement `ImplementsForest`. The theorems
  of `OrderedForest` are thereby theorems of the pointers as well.

The inductive invariant (`Holds`) is that the heap `Represents` an ordered forest: for
each node, its list header and the links of its children are those of one sequence of
nodes, the sequence that the forest has as its children; `count` is the length of it; a root
has no siblings; a node that is not allocated has no link at all. None of it is inductive
without the forest: that the walk along `next` ends, and that a splice at one list leaves
the links of the others alone, is because a node is in one list only, once. From there the
proof of a call has two halves. The loops read the forest: a walk gives exactly the sequence, the position of a child is
its index, the levels of `node_destroy` and of the depth check are the subtree. The
assignments make the forest: an insertion splices one node (`Spliced`) whichever of first,
middle, last and only it becomes, and likewise a removal, and the result represents the forest that `ForestOps` gives.
For the deep copy (`CopyIs`) the state in between is described by how many children of each node
have been attached to its copy; the proof holds for copies in any order,
so that it does not depend on the order of the recursion.

### Arrays: `PlistArrayProofs`

For every finite set of nodes, depth limit and cache threshold, from `PlistArray!Spec`:

* `TypeCorrect`, `CacheAlwaysCoherent` and `SetItemAlwaysAtomic`.

The invariant (`Sound`) joins the forest, the caches and the types: a cache is the list of
children, node by node; only arrays have one; only arrays have children, and freed nodes
hold nothing. A removal takes its index from the cache, so the forest
stays one only while the cache is right, and the cache is kept by position, so it stays right
only while the list has no node twice. Which nodes are refused for memory is arbitrary
(`ShortagesAssumption`), so that each attach and insert has two outcomes, each with its
lemma (`TryAttach`, `TryInsert`, `RefusedForest`). For `SetItemAlwaysAtomic` the lemmas `UndoDetach` and
`ReplaceForest` show that what was just detached, when it is put back, passes all the checks of
`node_insert` and gives the forest there was, unless there is no memory for the check of depth; then
the list is the old one without that item, which is a root. The invariant has a
second form for the array that lost it: its cache has one item more than its list.

### Dicts: `PlistDictProofs`

For every finite set of nodes, depth limit, hash function and threshold, every allocator,
also one that fails whenever it likes, and attachments that lack memory in any call and for any
of its nodes, from `PlistDict!Spec`:

* `TypeAlwaysCorrect`, of `TypeOK`: keys and values alternate, keys are distinct, except in
  the one dict whose roll-back has failed;
* `TableAlwaysHoldsPairs`, of `TableHoldsPairs`, and `LookupAlwaysFindsPairs`, of
  `LookupFindsPairs`;
* `KeyLosesValueOnlyWithoutMemory`, of the action property `RollBackNeedsMemory`;
* `EntriesChangeByTheirKeys`, of the action property `EntryChangesOnlyByItsKey`.

`DepthAssumption` says that a pair fits below a dict at all (`NODE_MAX_DEPTH` is 512): the
binary reader ignores the results of `node_attach`. The three invariants are inductive only together with
the forest and with what the table needs (`Sound`): each entry is in the bucket of its key's
name, and no two entries have the same one (`Holds`). A replacement finds its key through the
table, so it puts the value after the right key only while the table is right; the table
stays right only because the key node it points at goes together with its entry; and an entry
is found by its name, so names must be distinct and no key with an entry be renamed. Free
nodes have no parent and no name, so that a new node is in no list.

Each step of a call that can fail has a lemma of its own. A failed attach of a value leaves the key
alone at the end of the list, where it is found and freed again; a value that is replaced
leaves its place with its subtree, and if the insert fails it comes back and its entry is set
a second time, which finds the entry that is still there. If it cannot come back for
lack of memory, the state is a sound one but for one value of one dict, which was unlinked
(`Lost`). So the invariant (`IInv`) is that the state is sound or a sound one that has lost a value. What
the sound one says of the other is in `Halves`: the other dicts are as they were, and the
list of this one is whole again with the value in its place (`LostHalves`), which gives
`KeyLosesValueOnlyWithoutMemory`; and freeing its tree leaves a sound state (`EndSound`). A copy is described by
`Copies`: what was there is untouched (`Intact`), the new nodes are copies of a prefix of the
queue, and each copied dict has the pairs whose values are copied (`Twin`), with a key waiting
for its value in between; the queue has every node of the tree, each once, parents first
and siblings in order (`Visits`). A failed copy frees exactly the nodes
it made (`UndoCopy`). A merge copies and sets one value after another; its iterator stays good
because a call that sets an item in the target changes no list outside of the target's tree,
and of the target's own list only values (`Keeps`, `SourceStays`).

`EntriesChangeByTheirKeys` follows from the same invariant, since in a sound state the
answer for a key is the value of the one pair with that name (`Answer`), and each call has a
lemma that says which answers it changes: none (`AnswersSame`), those for a removed or
renamed key (`OthersSame`, `RenameOnly`), that for the key set (`SetOnly`). For a merge
they are put together round by round (`MergedStep`): the nodes that stay all along (`Merged`)
keep their links, each of the others was below a value of the target that the merge replaces,
so a dict elsewhere changes only when it was below such a value (`MergeOnly`).
The property needs that last disjunct: a value of the target that is
replaced may hold dicts, down to the source itself, and they are taken apart as it is freed.

### The sort: `PlistValueProofs`

For dicts with up to any number of pairs and any keys (`SortAssumption`), from `PlistSort!SortSpec`:

* `SortLosesNothing`, of `NothingLost`, and `SortSorts`, of `SortedAndStable`.

The invariant (`SortHolds`): in every state there is an order of the pairs such that the pointers, in both
directions, are those of the list that has the pairs in that order, key before value
(`Listed`); pairs with equal keys are in the order they had at first (`Stable`); and while a
pass has not swapped anything, the keys up to the one at hand ascend. The swap of the code is
shown to exchange two neighbours of that order, in each of the cases at the ends. That a pass
without a swap is the last one makes the third part the result.

### The binary reader and writer: `BplistProofs`

For every set of files, of any size and form, and every nesting limit, from
`BplistReader!Spec`. Of a file `FilesAssumption` says what the decoding gives: refs and the
index of the root are unsigned numbers, in range or not, only containers have refs, and a dict
has an even number of them.

* `PathAlwaysMarked`: below the current level, `used_indexes` is the list of the containers
  being filled, and no two are the same;
* `NothingEverLeaks`, of `NothingLeaked`: the nodes allocated are those of the tree returned and
  of the frames being filled, on every path through the errors;
* `ErrorsAlwaysTrue`, of `ErrorsAreTrue`: what is called circular or too nested is so;
* `AlwaysReadsTheTree`, of `ReadsTheTree`: the result is the whole tree of the file, exactly when
  the file has one.

Two facts are needed to make the first inductive (`IInv`): `used_indexes` is at least as long as
the stack is high, and in the loop of a container there is a container. Entering an object
overwrites the entry of its own level only, so the entries below stay (`MarkingKeeps`); the
recursion check compares the new entry with all of these, so they stay distinct when it
becomes a container (`EnteringKeeps`); returning shortens the stack and leaves the entries
(`ReturningKeeps`), which are then stale but above the level.

The second needs (`NodesInv`) that trees in the frames never reach below the nesting limit, so
that `node_attach` refuses none of them for its depth: a refused node would be lost, as the
reader does not look at the result. And only a frame of a dict holds a key that waits for
its value.

For the third, the stack is a path of refs from the root and the object that is entered is one
ref further (`RouteInv`, `Route`). Deeper than the limit, that path is too long; an object
that is on it already closes a cycle. `Below` looks along paths no longer than the file has
objects, and the paths met are no longer than that because no two containers on the stack
are the same (`LevelBounded`, from the first theorem). `Ends`, the ends of the paths of a
length, is what the levels of a file are, as recursive functions define them (`AtLevelIs`,
`BelowIs`).

The fourth (`ReadInv`) says of each frame which object it is, what of it was read, and that its
node is `Built` of exactly the trees of these, in order: the key and the value of a pair
next to each other. An object that was read is `Fine`: every path from it ends within the
levels that are left, at sound objects. A container is `Fine` when those it refers to are
(`FineContainer`), so that with its last item the frame is the tree of its object (`FullFrame`), which at
the root is the whole file (`ReadableIs`). In the other direction each refusal names an
object on the path that is not sound, a path that is too long, or a cycle, and a cycle
gives paths of every length (`CircularIsNested`): there is no tree. That the second
theorem's invariant holds is needed here as well, since a child that was refused would be missing
from the tree.

For every set of trees that `TreesAssumption` allows, of any size, every nesting limit and every
`DataBucket`, from `BplistRoundTrip!TripSpec`:

* `NeverRefusesATree`, of `NeverRefused`: the writer's own check of recursion stops no tree;
* `StoresDataOnce`, of `StoredOnce`: leaves with equal data share an object;
* `RoundTripsAlways`, of `RoundTrip`: what is written is read back as the same tree.

A node is the path that leads to it. The writer's invariant (`WriterInv`) has three parts. Of the
tables (`WriterTables`): each place in `objects` holds a node with that place in `ref_table`, leaves
with equal data have one place (`Table`, `Once`); the node of an open call is one level below
that of the call before it, and `in_stack` has no other nodes (`Frames`, `Active`), so that
no child is refused as already on the stack; and each container that was
serialized has places for all of its children, or, while a call for it is open, for those before
the child at hand (`Children`). Without the last part the places say nothing about what is below
them. Of the output (`WriterOutput`): what is written so far are the objects at these places.
A step of the loop enters at most one node in the tables, and one lemma per action has the parts
that it can disturb; `WriterKeeps` collects them.

When the writer is done, the file is `Faithful` to the tree: from the root, which is the first object,
each place a child refers to `Stands` for that child, its data and as many children as it has
(`WrittenIsFaithful`). Objects are shared, so that two paths may lead to one object; what they
have in common is then their data (`Alike`). That a faithful file is read as the tree is a fact about files
and not about steps (`FaithfulIsRead`): by induction from the deepest level up, the tree
that unfolds from an object (`Unfolding` of `BplistReader`, which `ReadsTheTree` is about) is the
one below every path that it stands for (`LevelsShown`). The invariant of the two together
(`TripInv`) is that either nothing was handed over and the reader is idle, or the writer is
done, its file is the one that is read, and the reader's own invariant holds of it. That one was proved
for files of `FilesAssumption`, and what the writer makes is such a file. The last step joins
`AlwaysReadsTheTree`, for that file, with what its tree is.

### The readers of text: `PlistMemoryProofs`

For every set of XML, JSON and OpenStep texts, of any length, every nesting limit and any
failures that the model has, from `PlistMemory!Spec`. `MemoryAssumption` says of the texts only that an
XML document is a finite sequence of tags, and of `NULL` that it is no number, as nodes are.

* `OwnersAreKnown`: `MemoryInv`, the inductive invariant, holds;
* `NothingIsLeftBehind`, of `PlistMemory!NothingLeaked`: when a reader is done, what is
  allocated is the tree it returns, or nothing;
* `ContextCounts`, of `DepthAgrees`: `ctx->depth` is the number of open calls;
* `PathIsKept`, of `PathAgrees`: `node_path`, `depth` and `parent` of the XML reader describe the same
  nesting, and neither `depth` nor a node passes the limit.

The three readers share the calls they build trees with, so the first part is about these. A heap
is sound (`IsHeap`) when each node is in the list of its parent once and nowhere else, a child was
made after its parent, and freed nodes are linked to nothing. That children are the younger ones
makes what is below a node (`BelowIs`) and its depth (`DepthIs`) well-founded. Each call has a lemma
on what it does to the roots and to what is below them: allocating adds a root, attaching
takes one away, freeing a root takes it with exactly the nodes below it, and setting a key that a dict has
frees the value that was there. If every root has an owner before a call, it has after it.

Who the owners are is different in each reader. In JSON and OpenStep they are the open calls: a root is
the container of a frame, its key that waits for a value, or the value that was returned to it
(`Owned`), and no node has two owners, because frames are in the order in which their nodes were made
(`Stacked`, `Latest`). Giving up frees the node of each frame, and so all nodes (`OpenStepGivesUp`,
`JsonGivesUp`). The JSON reader frees an item that its container refuses; the
OpenStep reader does not look, and would lose it. So the proof has to show that none is refused there: its
invariant bounds the levels below each open container by what the limit leaves (`InBounds`). The dict of strings data is the first frame
and is not counted, which is the reason that the bounds there are one higher.

In XML there are no calls, and the tree has one root at all times (`OneTree`). The four forms of the state are: no
value was read (`Unrooted`); `parent` is a container at depth `depth` (`Filling`); the
root is complete (`Complete`); and the root is an empty element, which stays `parent`
without being counted in `depth` (`Hollow`). In the last one a value would be attached below the limit that
`depth` knows; that none follows is a fact about the document (`RootReopened`), so the
proof relates `node_path` to how the tags are nested (`Opened`, `OutsideContainers`,
`NoValueFollows`). As long as `depth` is the depth of `parent`, `node_attach` refuses no
item. A dict that becomes a UID loses its only item and with it every node below it
(`UidEmpties`). What is proved of XML has the two exceptions `NothingLeaked` itself
has: an item that could not be attached for lack of memory, and a reopened root.

The limit of depth is proved without these exceptions (`XmlBounds`). After a failed attachment the heap is
not one tree any more, but links to parents still go to older nodes (`Low`), no call but an
attachment gives a node a parent (`Risen`), and `node_attach` refuses what would be too
deep (`TakenShallow`). The types (`XmlPath`) need the tree: the containers among the
open tags (`Containing`) are the types of the nodes from the root down to `parent`
(`Downward`). A container that opens appends to both, one that closes takes the last of both away,
and what closing does to the heap, a UID in place of a dict, does not reach the nodes above
(`DownwardKept`). It follows that a closing tag is never matched while `parent` is `NULL`.

### Integers, UIDs and booleans: `PlistValueProofs`

For every even number of values of a byte (`ByteAssumption`), so for the 256 of the code, where
TLC has 4, and all 8-byte values, from `PlistScalar!Spec`:

* `ValueAlwaysKept`, of `ValueKept`, and `AlwaysSignedOrder`, of `SignedOrder`;
* `AlwaysEqualThroughBinary`, of the action property `EqualThroughBinary`.

The invariant (`Holds`) is `ValueKept` and that the length of an integer is 8 or 16: with
length 8 the word means a number in two's complement, with 16 the word itself, and every
constructor, setter and reader chooses the length that fits. That the bytes give back the
word is `HostOrder`: after each byte the value read so far is the word divided by the
power of a byte that is left, which is 0 before the first byte because the size is
enough (`SizeIsEnough`), and of an unsigned integer because the first 8 of its 16 bytes are
skipped. `SetBoolHolds` shows that replacing one byte of a word that an earlier value left
behind gives the new truth value.

### How the proofs do without induction theorems

The library's theorems of induction take an operator as a parameter and cannot be used with
the provers at hand. Where a walk, a sum, a copy, a tree or a power is a function
defined by recursion over numbers, the proofs take the least number for which the claim would
fail (`LeastCounterexample`, from `WFMin` and `NatLessThanWellFounded`). The same argument
shows that such a function exists and that there is only one.

### Only model-checked

* Not proved: of `CxxMirror` `Mirrors` and `NoOrphans`; of the reader of JSON `TokensAgree`. Nothing in
  them is out of reach.
* What the readers and writers of text produce: `ReadsTheText`, `KeptByConversion`,
  `WrittenReadsBack`. They compare with functions that are recursive over trees and with folds over
  texts; that these agree for every text is an induction over data.
* `Termination`: liveness is out of the prover's reach.

## 5. Not modelled, and the plan

Abstracted in what is modelled: the contents of data, reals and dates, and of strings
outside JSON and OpenStep; `plist_dict_merge` of a dict into one that contains it, where the code
frees what it iterates; growth of the cache's buffer; of the binary format the trailer's
arithmetic, the sizes of refs and offsets, and the bytes of every type but integers, UIDs
and booleans; of XML everything below the level of tags: entities, CDATA, comments,
attributes, the text of reals, dates and data, indentation; of JSON and OpenStep white
space, comments, layout, the digits of reals, and what dates and UIDs become when the
caller asks for coercion; the estimates of sizes, which only choose the first size of a
buffer or refuse what does not fit into memory; a NUL byte inside a text.

Of the lack of memory, these cases are left out:

* of caches and of tables, where the code dereferences NULL in most places, and of the node of a
  date in the binary reader, whose result `parse_date_node` uses without a look;
* of the stack of `plist_free_children` (`plist.c:435`): everything that is freed is freed, where
  the code would leave the children allocated below a node that is gone;
* in the readers of text, of a roll-back in `plist_dict_set_item`, which would follow another
  failure in the same call; with `MaxFailures` above 1 failures are counted by kind;
* in the OpenStep reader and in the C calls of the C++ wrapper, any: neither looks at the results
  of the calls that could report them;
* what follows a failed roll-back: the calls after it on an array whose cache is stale, or on a
  dict with a key that has no value (`EndStale`, `EndHalved`).

That there is no memory for the list of a first child is, for the callers in `plist.c` and in the binary
reader, the same refusal as that of the check of depth, and not told apart there.

Not modelled: the output-only formats and base64 (pure formatting), the byte buffer (its
growth is plain reallocation), the calendar of `time64.c` (vendored), the Python binding
(a second set of wrapper objects, in Cython, with the life times of Python's objects),
`plistutil` (options and files).

Next, in this order:

1. proofs: `Mirrors` and `NoOrphans` of `CxxMirror`, `TokensAgree`;
2. the trailer's arithmetic of `bplist.c`, with wrapping words, at the limits of the file;
3. iterators held by a caller across other calls;
4. base64 and the byte buffer as bounded algorithms.
