-------------------------------- MODULE Wrapper --------------------------------
(***************************************************************************)
(* Test cases on their way through a language's wrapper and the judge: the *)
(* wrapper finds and converts the arguments (the *_wrapper.py templates,   *)
(* docker/cpp_support.hpp and the code generators of go.py, rust.py,       *)
(* cpp.py and c.py), calls the function, writes its result, and            *)
(* pipeline.py compares it.  Beside them, comparisons of values of all     *)
(* kinds with each other.                                                  *)
(***************************************************************************)
EXTENDS Structures

CONSTANTS MaxTree, MaxList, MaxGraph  \* the longest lists, the largest graphs of the test cases

VARIABLES lang,      \* of the submission; "none" if only two values are compared
          fn,        \* the submitted function: its parameters and what it does
          cases,     \* the test cases that are left: sequences of keys with values
          cyclePos,  \* the global listCyclePos of the C and C++ harness
          args,      \* of the call
          pc,        \* bind, call, judge, judged; failed if an error is reported
          actual, expected, inPlace, matched, reported  \* of the comparison

callVars == <<lang, fn, cases, cyclePos, args, pc>>
vars == <<callVars, actual, expected, inPlace, matched, reported>>

ByKey == {"python", "js", "ts"}
ByType == {"java", "kotlin", "csharp"}
ByName == {"go", "rust", "cpp", "c"}
Languages == ByKey \cup ByType \cup ByName

Names(params) == {params[i].name : i \in DOMAIN params}
Keys(input) == {input[i].key : i \in DOMAIN input}
ValueOf(input, key) == input[CHOOSE i \in DOMAIN input : input[i].key = key].value
WithoutPos(input) == SelectSeq(input, LAMBDA e : e.key # "pos")
HasType(params, type) == \E i \in DOMAIN params : params[i].type = type
PosOr(input, default) ==
    IF "pos" \in Keys(input) THEN ValueOf(input, "pos").n \div Unit ELSE default

-----------------------------------------------------------------------------
(* The arguments in Python, JavaScript and TypeScript: converted by the prefix of *)
(* the key, and bound in the order of the keys.                                   *)

KeyType(key) ==
    CASE key \in {"root", "root1"} -> "tree"
      [] key \in {"head", "head1", "head2", "head3"} -> "list"
      [] key \in {"adj", "adj1"} -> "graph"
      [] OTHER -> "json"

ByPrefix(b, input, i) ==
    LET given == WithoutPos(input)[i]
    IN  Convert(b, KeyType(given.key), given.value, PosOr(input, -1))

\* Another number of values than of parameters goes by keywords, one of which is
\* missing or unexpected, or is "pos" and was skipped.
PythonArgs(params, input) ==
    IF Len(WithoutPos(input)) # Len(params) THEN <<Broken>>
    ELSE [i \in DOMAIN params |-> ByPrefix(PythonBuilders, input, i)]

Spread(b, params, input) ==
    [i \in DOMAIN params |-> IF i <= Len(WithoutPos(input)) THEN ByPrefix(b, input, i) ELSE Undefined]

JsArgs(params, input) == Spread(JsBuilders, params, input)
TsArgs(params, input) == Spread(TsBuilders, params, input)

-----------------------------------------------------------------------------
(* The arguments in Java, Kotlin and C#: by position, and converted by the type of *)
(* the parameter.                                                                  *)

\* What a reflective call makes of null
NullArgument(l, type) ==
    CASE l = "csharp" /\ type = "int" -> Json(Whole(0))
      [] type = "int" \/ (l = "kotlin" /\ type = "array") -> Broken
      [] OTHER -> Nil

\* "pos" counts as a value only if there are not enough without it.
ByPosition(l, params, input) ==
    LET values == IF Len(params) > Len(WithoutPos(input)) THEN input ELSE WithoutPos(input)
    IN  [i \in DOMAIN params |->
            IF i <= Len(values)
            THEN Convert(Builders[l], params[i].type, values[i].value, PosOr(input, -1))
            ELSE NullArgument(l, params[i].type)]

JavaArgs(params, input) == ByPosition("java", params, input)
KotlinArgs(params, input) == ByPosition("kotlin", params, input)
CsharpArgs(params, input) == ByPosition("csharp", params, input)

-----------------------------------------------------------------------------
(* The arguments in Go, Rust, C++ and C: by the parameter's name, else by position. *)

\* (mutant) The position counts "pos".
PickCountingPos(input, name, i, skipPos) ==
    IF name \in Keys(input) THEN Json(ValueOf(input, name))
    ELSE IF i <= Len(input) THEN Json(input[i].value) ELSE Broken

\* The value for parameter i, or an error that it is missing
pick(input, name, i, skipPos) ==
    LET positional == IF skipPos THEN WithoutPos(input) ELSE input
    IN  IF name \in Keys(input) THEN Json(ValueOf(input, name))
        ELSE IF i <= Len(positional) THEN Json(positional[i].value) ELSE Broken

Picked(b, params, input, i, pos) ==
    LET raw == pick(input, params[i].name, i, HasType(params, "list"))
    IN  IF raw = Broken THEN Broken ELSE Convert(b, params[i].type, raw.v, pos)

\* Go's parameters as one writes them: of neighbours with one type only the last has it
Segments(params) ==
    [i \in DOMAIN params |->
        IF i < Len(params) /\ params[i].type = params[i + 1].type
        THEN <<params[i].name>> ELSE <<params[i].name, params[i].type>>]

\* Names wait for the type that follows them.
RECURSIVE _parse_params(_, _)
_parse_params(segments, pending) ==
    IF segments = <<>> THEN <<>>
    ELSE LET s == Head(segments)
             names == Append(pending, s[1])
         IN  IF Len(s) = 1 THEN _parse_params(Tail(segments), names)
             ELSE [i \in DOMAIN names |-> [name |-> names[i], type |-> s[2]]]
                    \o _parse_params(Tail(segments), <<>>)

GoArgs(params, input) ==
    LET parsed == _parse_params(Segments(params), <<>>)
    IN  [i \in DOMAIN parsed |-> Picked(GoBuilders, parsed, input, i, PosOr(input, -1))]

RustArgs(params, input) ==
    [i \in DOMAIN params |-> Picked(RustBuilders, params, input, i, -1)]

CppArgs(params, input, pos) ==
    [i \in DOMAIN params |-> Picked(CppBuilders, params, input, i, pos)]

\* In C an array is followed by its size.
Sized == {"array", "strings"}
SizeNames == {"size", "groupSize"}
CParams(params) ==
    FlattenSeq([i \in DOMAIN params |->
        IF params[i].type \in Sized THEN <<params[i], [name |-> "size", type |-> "int"]>>
        ELSE <<params[i]>>])

\* A number whose name ends in "size" is the size of the last array and none of the
\* values, of which the others are counted.
RECURSIVE CBind(_, _, _, _, _, _)
CBind(params, input, skipPos, index, sized, pos) ==
    IF params = <<>> THEN <<>>
    ELSE LET p == Head(params)
             isSize == p.type = "int" /\ p.name \in SizeNames /\ sized # Nil
             raw == pick(input, p.name, index, skipPos)
             value == Convert(CppBuilders, p.type, raw.v, pos)
             size == IF p.type \in Sized THEN Json(Whole(Len(value.v.l))) ELSE sized
         IN  IF isSize THEN <<sized>> \o CBind(Tail(params), input, skipPos, index, sized, pos)
             ELSE IF raw = Broken THEN <<Broken>>
             ELSE <<value>> \o CBind(Tail(params), input, skipPos, index + 1, size, pos)

\* What the function sees: of an array, as much as the size that comes with it
CArgs(params, input, pos) ==
    LET bound == CBind(CParams(params), input, HasType(params, "list"), 1, Nil, pos)
        place(i) == i + Cardinality({j \in 1..(i - 1) : params[j].type \in Sized})
        seen(i) == SubSeq(bound[place(i)].v.l, 1, bound[place(i) + 1].v.n \div Unit)
    IN  IF Broken \in ToSet(bound) THEN <<Broken>>
        ELSE [i \in DOMAIN params |->
                IF params[i].type \in Sized THEN Json(List(seen(i))) ELSE bound[place(i)]]

Arguments(params, input, pos) ==
    CASE lang = "python" -> PythonArgs(params, input)
      [] lang = "js" -> JsArgs(params, input)
      [] lang = "ts" -> TsArgs(params, input)
      [] lang = "java" -> JavaArgs(params, input)
      [] lang = "kotlin" -> KotlinArgs(params, input)
      [] lang = "csharp" -> CsharpArgs(params, input)
      [] lang = "go" -> GoArgs(params, input)
      [] lang = "rust" -> RustArgs(params, input)
      [] lang = "cpp" -> CppArgs(params, input, pos)
      [] lang = "c" -> CArgs(params, input, pos)

-----------------------------------------------------------------------------
(* The call and its result.  A function returns one of its arguments, changes the   *)
(* first one in place (it turns round the values in it), tells which node the last  *)
(* node of a list links to, or returns nothing though it should.                    *)

TurnRound(values) ==
    LET solid == SelectSeq(values, LAMBDA v : v # Null)
        rank(i) == Cardinality({j \in 1..i : values[j] # Null})
    IN  [i \in DOMAIN values |->
            IF values[i] = Null THEN Null ELSE solid[Len(solid) + 1 - rank(i)]]

Changed(object) ==
    CASE object.kind \in {"tree", "list"} -> [object EXCEPT !.val = TurnRound(@)]
      [] object.kind = "json" /\ object.v.t = "list" -> [object EXCEPT !.v.l = TurnRound(@)]
      [] OTHER -> object

LinkOfLast(object) ==
    CASE object.kind = "list" -> Json(Whole(object.next[Len(object.next)] - 1))
      [] object.kind = "nil" -> Json(Whole(-1))
      [] OTHER -> Broken

Returned ==
    CASE fn.body = "first" -> args[1]
      [] fn.body = "second" -> args[2]
      [] fn.body = "last link" -> LinkOfLast(args[1])
      [] lang \in {"js", "ts"} -> Undefined
      [] OTHER -> Nil

Encoded(object) == autoConvertOutput(Builders[lang], object)

\* What is written: the result, with the mutated first argument if Python returned None,
\* JavaScript undefined, or the function has no type
PythonResult(result, first) ==
    IF result \in {Nil, Json(Null)} THEN InPlace(Encoded(first)) ELSE Encoded(result)

JsResult(result, first) ==
    IF result = Undefined THEN InPlace(Encoded(first)) ELSE Encoded(result)

TsResult(result, first) == JsResult(result, first)

JavaResult(result, first) ==
    IF fn.body = "in place" THEN InPlace(Encoded(first)) ELSE Encoded(result)

KotlinResult(result, first) == JavaResult(result, first)
CsharpResult(result, first) == JavaResult(result, first)
GoResult(result, first) == JavaResult(result, first)
CppResult(result, first) == JavaResult(result, first)

\* A number is no &mut argument: null is written for it.
RustResult(result, first) ==
    IF fn.body = "in place" /\ fn.params[1].type = "int" THEN InPlace(Null)
    ELSE JavaResult(result, first)

\* Nothing is written for a number.
CResult(result, first) ==
    IF fn.body = "in place" /\ fn.params[1].type = "int" THEN Null ELSE JavaResult(result, first)

Result(result, first) ==
    CASE lang = "python" -> PythonResult(result, first)
      [] lang = "js" -> JsResult(result, first)
      [] lang = "ts" -> TsResult(result, first)
      [] lang = "java" -> JavaResult(result, first)
      [] lang = "kotlin" -> KotlinResult(result, first)
      [] lang = "csharp" -> CsharpResult(result, first)
      [] lang = "go" -> GoResult(result, first)
      [] lang = "rust" -> RustResult(result, first)
      [] lang = "cpp" -> CppResult(result, first)
      [] lang = "c" -> CResult(result, first)

-----------------------------------------------------------------------------
(* The steps. *)

\* (mutant) The position of the last test case stays.
cyclePosKept(input, last) == PosOr(input, last)

\* judgeRunOne and the constructor of Input
cyclePosOf(input, last) == PosOr(input, -1)

Bind ==
    /\ pc = "bind"
    /\ cyclePos' = IF lang \in {"c", "cpp"} THEN cyclePosOf(cases[1], cyclePos) ELSE cyclePos
    /\ args' = Arguments(fn.params, cases[1], cyclePos')
    /\ pc' = IF Broken \in ToSet(args') THEN "failed" ELSE "call"
    /\ UNCHANGED <<lang, fn, cases, actual, expected, inPlace, matched, reported>>

Call ==
    /\ pc = "call"
    /\ LET first == IF fn.body = "in place" THEN Changed(args[1]) ELSE args[1]
           fails == Returned = Broken \/ ~CanEncode(Returned)
       IN  /\ pc' = IF fails THEN "failed" ELSE "judge"
           /\ actual' = IF fails THEN Null ELSE Result(Returned, first)
    /\ UNCHANGED <<lang, fn, cases, cyclePos, args, expected, inPlace, matched, reported>>

\* The comparison of one test case in execute()
Compare ==
    /\ pc = "judge"
    /\ LET result == _apply_in_place(actual, inPlace)
       IN  /\ matched' = IF _outputs_match(result, expected) THEN "yes" ELSE "no"
           /\ reported' = _reported(result, expected)
    /\ pc' = "judged"
    /\ UNCHANGED <<lang, fn, cases, cyclePos, args, actual, expected, inPlace>>

\* The value a test case means for parameter i: the one under its name, or in its place;
\* a text for a list of strings means its lines
Meant(params, input, i) ==
    LET given == WithoutPos(input)
        raw == IF Names(params) \subseteq Keys(input) THEN ValueOf(input, params[i].name)
               ELSE IF i <= Len(given) THEN given[i].value ELSE Null
    IN  IF params[i].type = "strings" /\ raw = Lines THEN Split ELSE raw

\* The answer the function would give to the values that are meant
Answer(input) ==
    LET first == Meant(fn.params, input, 1)
        pos == PosOr(input, -1)
    IN  CASE fn.body = "first" -> first
          [] fn.body = "second" -> Meant(fn.params, input, 2)
          [] fn.body = "in place" -> [first EXCEPT !.l = TurnRound(@)]
          [] fn.body = "last link" -> Whole(IF pos \in 0..(Len(first.l) - 1) THEN pos ELSE -1)
          [] fn.body = "nothing" -> Null

NextCase ==
    /\ pc = "judged" /\ matched = "yes" /\ Len(cases) > 1
    /\ cases' = Tail(cases)
    /\ expected' = Answer(cases[2])
    /\ actual' = Null /\ matched' = "none" /\ reported' = Null
    /\ args' = <<>> /\ pc' = "bind"
    /\ UNCHANGED <<lang, fn, cyclePos, inPlace>>

Ended ==
    /\ pc = "failed" \/ (pc = "judged" /\ (matched = "no" \/ Len(cases) < 2))
    /\ UNCHANGED vars

Next == Bind \/ Call \/ Compare \/ NextCase \/ Ended

-----------------------------------------------------------------------------
(* The functions and their test cases.  Entries are numbered by their places, so   *)
(* that every node can be told from the others.                                    *)

Param(name, type) == [name |-> name, type |-> type]
Entry(key, value) == [key |-> key, value |-> value]
Numbered(n) == [i \in 1..n |-> Whole(i)]

Trees == UNION {{List([i \in 1..n |-> IF i \in S THEN Null ELSE Whole(i)]) :
                     S \in SUBSET (1..n)} : n \in 0..MaxTree}
Lists == {List(Numbered(n)) : n \in 0..MaxList}
GraphRow(S) == List([j \in 1..Cardinality(S) |-> Whole(SetToSortSeq(S, <)[j])])
Graphs == UNION {{List([i \in 1..n |-> GraphRow(f[i] \ {i})]) :
                      f \in [1..n -> SUBSET (1..n)]} : n \in 0..MaxGraph}
              \cup {List(<<GraphRow({2}), GraphRow({1, 9})>>)}

ValuesOf(type) ==
    CASE type = "tree" -> Trees
      [] type = "graph" -> Graphs
      [] type \in {"list", "array"} -> Lists
      [] type = "string" -> {Word, Lines}
      [] type = "strings" -> {Split, Lines}
      [] type = "int" -> {Whole(5)}

Sample(type, i) == IF type = "int" THEN Whole(4 + i) ELSE List(<<Whole(i), Whole(3)>>)

Singles == {Param("root", "tree"), Param("head", "list"), Param("l1", "list"),
            Param("adj", "graph"), Param("nums", "array"), Param("k", "int"),
            Param("s", "string"), Param("ops", "strings")}

Pairs == {<<Param("nums", "array"), Param("k", "int")>>,
          <<Param("nums", "array"), Param("groupSize", "int")>>,
          <<Param("nums", "array"), Param("b", "array")>>,
          <<Param("head", "list"), Param("k", "int")>>,
          <<Param("head", "list"), Param("head2", "list")>>,
          <<Param("root", "tree"), Param("k", "int")>>,
          <<Param("k", "int"), Param("pos", "int")>>}

Bodies(type) ==
    CASE type = "tree" -> {"first", "in place", "nothing"}
      [] type = "list" -> {"first", "in place", "nothing", "last link"}
      [] type \in {"graph", "string", "strings"} -> {"first"}
      [] OTHER -> {"first", "in place"}

Functions == UNION {{[params |-> <<p>>, body |-> b] : b \in Bodies(p.type)} : p \in Singles}
                 \cup {[params |-> p, body |-> b] : p \in Pairs, b \in {"first", "second"}}

\* A key that is not the parameter's name, with the same prefix
OtherKey(name) ==
    CASE name = "root" -> "root1"
      [] name = "head" -> "head1"
      [] name = "head2" -> "head3"
      [] name = "adj" -> "adj1"
      [] name \in {"nums", "l1", "s", "ops"} -> "x"
      [] OTHER -> "y"

\* Keys in their order, each with the parameter whose value it has: the names, other
\* keys, too few, too many, in the wrong order, and some names only
Keyings(params) ==
    LET own == [i \in DOMAIN params |-> <<params[i].name, i>>]
        other == [i \in DOMAIN params |-> <<OtherKey(params[i].name), i>>]
    IN  {own, other}
            \cup IF Len(params) < 2 THEN {}
                 ELSE {<<own[1]>>, Append(own, <<"z", 1>>)}
                        \cup IF params[1].type # params[2].type THEN {}
                             ELSE {Reverse(own), <<other[1], own[2]>>, <<<<params[2].name, 1>>, other[2]>>}

WithPos(input, positions) ==
    {input} \cup UNION {{Append(input, Entry("pos", Whole(p))), <<Entry("pos", Whole(p))>> \o input} :
                            p \in positions}

Inputs(params, values, positions) ==
    UNION {WithPos([j \in DOMAIN ks |-> Entry(ks[j][1], values[ks[j][2]])],
                   IF HasType(params, "list") THEN positions ELSE {}) : ks \in Keyings(params)}

\* One test case, or two lists one after the other, with and without a cycle
CasesOf(params) ==
    IF Len(params) = 2
    THEN {<<i>> : i \in Inputs(params, [j \in 1..2 |-> Sample(params[j].type, j)], {0})}
    ELSE {<<i>> : i \in UNION {Inputs(params, <<v>>, -2..MaxList) : v \in ValuesOf(params[1].type)}}
           \cup IF params[1].name # "head" THEN {}
                ELSE LET some == Inputs(params, <<Sample("list", 1)>>, {0, 1}) IN some \X some

NoFunction == [params |-> <<>>, body |-> "none"]

CallInit ==
    /\ lang \in Languages
    /\ fn \in Functions
    /\ cases \in CasesOf(fn.params)
    /\ pc = "bind"
    /\ actual = Null
    /\ expected \in {Answer(cases[1]), List(<<Whole(7)>>)}
                        \cup IF fn.body = "nothing" THEN {Meant(fn.params, cases[1], 1)} ELSE {}
    /\ inPlace \in {"unset"} \cup IF fn.body = "in place" THEN {} ELSE {"no"}

\* Two values of all kinds
Atoms == {Null, Bool(0), Bool(1), Whole(0), Whole(1), Float(Unit), Float(Unit + 1), Float(Unit + 2)}
Strings == {Word, Str(Whole(1)), Str(Float(Unit)), Str(Null), Str(Bool(1)), Str(List(<<Whole(1)>>))}
Flat == {List(<<>>)} \cup {List(<<x>>) : x \in Atoms \cup Strings}
            \cup {List(<<x, y>>) : x, y \in {Null, Bool(1), Whole(1), Float(Unit + 1), Str(Whole(1))}}
Values == Atoms \cup Strings \cup Flat
            \cup {List(<<x>>) : x \in Flat} \cup {Dict(x) : x \in Atoms \cup Strings}

ValuesInit ==
    /\ lang = "none" /\ fn = NoFunction /\ cases = <<>>
    /\ pc = "judge"
    /\ actual \in Values \cup {InPlace(v) : v \in Flat}
    /\ expected \in Values
    /\ inPlace \in {"unset", "no"}

Init ==
    /\ CallInit \/ ValuesInit
    /\ cyclePos = -1
    /\ args = <<>>
    /\ matched = "none"
    /\ reported = Null

Spec == Init /\ [][Next]_vars

-----------------------------------------------------------------------------

\* The comparison takes no side: which of two values is the actual one and which
\* the expected one makes no difference, though the code treats them one by one.
Symmetric ==
    (pc = "judged" /\ actual.t # "inplace") =>
        (matched = "yes" <=> _outputs_match(expected, actual))

\* All that the docstring of _outputs_match promises is accepted: the relaxations work
\* in combination, in either order and to any depth of lists of one.
AcceptsPromised == (matched = "no" /\ actual.t # "inplace") => ~Promised(actual, expected)

\* Place p of a list is a child of the node that is the p \div 2-th one of the list.
ChildrenByLevel(tree, i) ==
    LET rank == Cardinality({j \in 1..i : tree.val[j] # Null})
    IN  /\ tree.left[i] = NodeAt(tree.val, 2 * rank)
        /\ tree.right[i] = NodeAt(tree.val, 2 * rank + 1)

RECURSIVE Descendants(_, _)
Descendants(tree, S) ==
    LET more == S \cup (({tree.left[i] : i \in S} \cup {tree.right[i] : i \in S}) \ {0})
    IN  IF more = S THEN S ELSE Descendants(tree, more)

\* Every wrapper hands the function the tree that the list is the level order of,
\* though some attach children in the order of the list and some in that of a queue,
\* whatever nulls stand in the list and whatever comes after its last level.
TreesByLevel ==
    \A k \in DOMAIN args : args[k].kind = "tree" =>
        \A i \in Descendants(args[k], {1}) : ChildrenByLevel(args[k], i)

\* A list has the cycle its own test case asks for, also when the process or the
\* harness has seen others before, and none without "pos".
CycleOfThisCase ==
    \A k \in DOMAIN args : (args[k].kind = "list" /\ lang # "rust") =>
        LET n == Len(args[k].val)
            pos == PosOr(cases[1], -1)
        IN  args[k].next[n] = IF pos \in 0..(n - 1) THEN pos + 1 ELSE 0

-----------------------------------------------------------------------------

\* The level order of a tree, with nothing that hangs on no node
IsLevelOrder(values) ==
    values = <<>> \/ (/\ values[1] # Null /\ values[Len(values)] # Null
                      /\ \A p \in 2..Len(values) :
                            Cardinality({j \in 1..(p - 1) : values[j] # Null}) >= p \div 2)

IsConnected(rows) == rows = <<>> \/ Reached(rows, {1}) = DOMAIN rows

FitsType(type, value) ==
    CASE type = "tree" -> IsLevelOrder(value.l)
      [] type = "graph" -> Builders[lang].neighbour # "unsupported" /\ IsConnected(Rows(value.l))
      [] OTHER -> TRUE

\* The keys are the parameters' names in their order, or in any order where names
\* are looked up, or none of them is a name.
KeysFit(params, given) ==
    \/ \A i \in DOMAIN params : given[i].key = params[i].name
    \/ Names(params) \cap Keys(given) = {}
    \/ lang \in ByName /\ Names(params) = Keys(given)

\* A test case in the form the wrapper of the language understands
WellFormed(params, input) ==
    LET given == WithoutPos(input)
    IN  /\ Len(given) = Len(params)
        /\ KeysFit(params, given)
        /\ lang \in ByKey => \A i \in DOMAIN params :
                params[i].type \in {"tree", "list", "graph"} => KeyType(given[i].key) = params[i].type
        /\ \A i \in DOMAIN params : FitsType(params[i].type, Meant(params, input, i))
        /\ Lines \in {input[i].value : i \in DOMAIN input} =>
                Builders[lang].text \in IF HasType(params, "strings") THEN {"split", "split for a list"}
                                        ELSE {"kept", "split for a list", "no list"}
        /\ PosOr(input, -1) >= -1
        /\ ~(fn.body = "in place" /\ params[1].type = "int")
        /\ lang = "rust" => fn.body # "last link"
        /\ lang = "c" => ~(HasType(params, "array") /\ "groupSize" \in Names(params))

\* On well-formed test cases the verdict is the one the function deserves, in every
\* language: its answer to the values that were meant, returned or left in the first
\* argument, is accepted where it is expected and rejected where it is not; a result
\* that was forgotten counts as none if the caller said "in_place": false.
JudgedRight ==
    (/\ lang # "none" /\ WellFormed(fn.params, cases[1])
     /\ fn.body = "nothing" /\ lang \in ByKey => inPlace = "no") =>
        /\ pc # "failed"
        /\ pc = "judged" => (matched = "yes" <=> _plain_match(Answer(cases[1]), expected))

\* "Arguments are bound by parameter name when the test-case keys match, otherwise by
\* position" (readme.md:325).
BoundByName ==
    (lang # "none" /\ Names(fn.params) = Keys(cases[1]) /\ \A i \in DOMAIN fn.params :
        fn.params[i].type \in {"int", "array"}) =>
            /\ pc # "failed"
            /\ pc = "call" => \A i \in DOMAIN fn.params :
                    args[i] = Json(ValueOf(cases[1], fn.params[i].name))

\* "Strict equality is tried first. If that fails we apply these relaxations: ..."
\* (pipeline.py:68): nothing else is accepted.
AcceptsOnlyPromised == (matched = "yes" /\ actual.t # "inplace") => Promised(actual, expected)

\* "The looser rules below apply to the top-level value only" (pipeline.py:88): a
\* list of strings is no list of numbers.
LooserAtTopOnly ==
    (matched = "yes" /\ actual.t = "list" /\ expected.t = "list" /\ Len(actual.l) = Len(expected.l)) =>
        _values_match(actual, expected)
=============================================================================
