------------------------------ MODULE Structures -------------------------------
(***************************************************************************)
(* The trees, linked lists and graphs that the language wrappers build     *)
(* from the lists of a test case and turn back into lists.  The ten        *)
(* wrappers do it in two orders and differ in corner cases; what each of   *)
(* them does is a record of choices.                                       *)
(***************************************************************************)
EXTENDS OutputsMatch, SequencesExt

\* What a function is handed and hands back: a structure, a JSON value as it is, no
\* object, JavaScript's undefined, or an exception instead of any of these.  The nodes
\* of a structure are the places of its list, 0 is no node.
Json(v) == [kind |-> "json", v |-> v]
Nil == [kind |-> "nil"]
Undefined == [kind |-> "undefined"]
Broken == [kind |-> "broken"]

\* order: in which the nodes of a tree take their children
\* pos: a negative one other than -1 raises or is ignored, or any is unused
\* neighbour: one that is no node raises, is kept as null, is skipped; or no graphs
\* empty, unreached: what no node, and the row of a node out of reach, is written as
\* text: one of several lines is always split, or for a list, or never, or no list
PythonBuilders == [order |-> "list", pos |-> "ignored", neighbour |-> "raises",
                   empty |-> Null, unreached |-> List(<<>>), text |-> "split"]
JsBuilders == [PythonBuilders EXCEPT !.neighbour = "kept"]
TsBuilders == [JsBuilders EXCEPT !.text = "kept"]
JavaBuilders == [order |-> "queue", pos |-> "raises", neighbour |-> "kept",
                 empty |-> Null, unreached |-> List(<<>>), text |-> "split for a list"]
KotlinBuilders == [JavaBuilders EXCEPT !.neighbour = "raises", !.text = "no list"]
CsharpBuilders == KotlinBuilders
GoBuilders == [order |-> "list", pos |-> "ignored", neighbour |-> "skipped",
               empty |-> List(<<>>), unreached |-> Null, text |-> "no list"]
CppBuilders == [order |-> "queue", pos |-> "ignored", neighbour |-> "unsupported",
                empty |-> List(<<>>), unreached |-> Null, text |-> "split for a list"]
RustBuilders == [CppBuilders EXCEPT !.pos = "unused", !.text = "no list"]

\* C is linked with the harness of C++.
Builders == [python |-> PythonBuilders, js |-> JsBuilders, ts |-> TsBuilders,
             java |-> JavaBuilders, kotlin |-> KotlinBuilders, csharp |-> CsharpBuilders,
             go |-> GoBuilders, rust |-> RustBuilders, cpp |-> CppBuilders, c |-> CppBuilders]

-----------------------------------------------------------------------------
(* Trees *)

NodeAt(values, i) == IF i <= Len(values) /\ values[i] # Null THEN i ELSE 0

\* (mutant) Children where a heap has them, as if null had children too.
AttachAsHeap(tree, i, next) ==
    [tree EXCEPT !.left[i] = NodeAt(tree.val, 2 * i), !.right[i] = NodeAt(tree.val, 2 * i + 1)]

\* Node i takes the next two entries.
Attach(tree, i, next) ==
    [tree EXCEPT !.left[i] = NodeAt(tree.val, next), !.right[i] = NodeAt(tree.val, next + 1)]

RECURSIVE ListOrder(_, _, _)
ListOrder(tree, i, next) ==
    IF i > Len(tree.val) THEN tree
    ELSE IF NodeAt(tree.val, i) = 0 THEN ListOrder(tree, i + 1, next)
    ELSE ListOrder(Attach(tree, i, next), i + 1, next + 2)

RECURSIVE QueueOrder(_, _, _)
QueueOrder(tree, queue, next) ==
    IF queue = <<>> \/ next > Len(tree.val) THEN tree
    ELSE LET i == Head(queue)
             grown == Attach(tree, i, next)
             children == SelectSeq(<<grown.left[i], grown.right[i]>>, LAMBDA c : c # 0)
         IN  QueueOrder(grown, Tail(queue) \o children, next + 2)

buildTree(b, values) ==
    LET none == [i \in DOMAIN values |-> 0]
        bare == [kind |-> "tree", val |-> values, left |-> none, right |-> none]
    IN  IF NodeAt(values, 1) = 0 THEN Nil
        ELSE IF b.order = "list" THEN ListOrder(bare, 1, 2) ELSE QueueOrder(bare, <<1>>, 2)

RECURSIVE LevelsFrom(_, _)
LevelsFrom(tree, queue) ==
    IF queue = <<>> THEN <<>>
    ELSE LET i == Head(queue)
         IN  IF i = 0 THEN <<Null>> \o LevelsFrom(tree, Tail(queue))
             ELSE <<tree.val[i]>> \o LevelsFrom(tree, Tail(queue) \o <<tree.left[i], tree.right[i]>>)

TrimNulls(l) == SubSeq(l, 1, Max({0} \cup {i \in DOMAIN l : l[i] # Null}))

treeToList(tree) == TrimNulls(LevelsFrom(tree, <<1>>))

-----------------------------------------------------------------------------
(* Linked lists *)

\* pos is the place, counted from 0, of the node the last one links to.
buildLinkedList(b, values, pos) ==
    LET n == Len(values)
        back == IF pos \in 0..(n - 1) /\ b.pos # "unused" THEN pos + 1 ELSE 0
    IN  IF n = 0 THEN Nil
        ELSE IF pos < -1 /\ b.pos = "raises" THEN Broken
        ELSE [kind |-> "list", val |-> values,
              next |-> [i \in 1..n |-> IF i = n THEN back ELSE i + 1]]

RECURSIVE WalkFrom(_, _, _)
WalkFrom(list, i, visited) ==
    IF i = 0 \/ i \in visited THEN <<>>
    ELSE <<list.val[i]>> \o WalkFrom(list, list.next[i], visited \cup {i})

linkedListToList(list) == WalkFrom(list, 1, {})

-----------------------------------------------------------------------------
(* Graphs *)

\* The rows of an adjacency list, as numbers
Rows(values) == [i \in DOMAIN values |-> [j \in DOMAIN values[i].l |-> values[i].l[j].n \div Unit]]

BadNeighbours(rows) == {n \in UNION {ToSet(rows[i]) : i \in DOMAIN rows} : n \notin DOMAIN rows}

buildGraph(b, values) ==
    LET rows == Rows(values)
        known == [i \in DOMAIN rows |-> SelectSeq(rows[i], LAMBDA n : n \in DOMAIN rows)]
    IN  IF values = <<>> THEN Nil
        ELSE IF b.neighbour = "unsupported" \/ (b.neighbour = "raises" /\ BadNeighbours(rows) # {})
        THEN Broken
        ELSE [kind |-> "graph", rows |-> IF b.neighbour = "skipped" THEN known ELSE rows]

\* The nodes in reach: the breadth-first search
RECURSIVE Reached(_, _)
Reached(rows, seen) ==
    LET more == seen \cup UNION {ToSet(rows[i]) : i \in seen \cap DOMAIN rows}
    IN  IF more = seen THEN seen ELSE Reached(rows, more)

graphToAdjList(b, graph) ==
    LET seen == Reached(graph.rows, {1})
        row(i) == List([j \in DOMAIN graph.rows[i] |-> Whole(graph.rows[i][j])])
    IN  [i \in 1..Max(seen) |-> IF i \in seen THEN row(i) ELSE b.unreached]

-----------------------------------------------------------------------------

\* A text of several lines, and the list of them, without the count that may lead them
Lines == Value("str", 2, <<>>)
Split == List(<<Word, Word>>)

\* A value for a parameter of a type; the values of the test cases fit their types.
Convert(b, type, value, pos) ==
    CASE type = "tree" -> buildTree(b, value.l)
      [] type = "list" -> buildLinkedList(b, value.l, pos)
      [] type = "graph" -> buildGraph(b, value.l)
      [] value = Lines /\ (b.text = "split" \/ (b.text = "split for a list" /\ type = "strings")) ->
            Json(Split)
      [] value = Lines /\ b.text = "no list" /\ type = "strings" -> Broken
      [] OTHER -> Json(value)

\* A neighbour that was kept as null fails where the search reaches it.
CanEncode(object) ==
    object.kind = "graph" => Reached(object.rows, {1}) \subseteq DOMAIN object.rows

autoConvertOutput(b, object) ==
    CASE object.kind = "tree" -> List(treeToList(object))
      [] object.kind = "list" -> List(linkedListToList(object))
      [] object.kind = "graph" -> List(graphToAdjList(b, object))
      [] object.kind = "json" -> object.v
      [] object.kind = "nil" -> b.empty
      [] OTHER -> Null
=============================================================================
