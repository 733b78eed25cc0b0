----------------------------- MODULE OutputsMatch ------------------------------
(***************************************************************************)
(* The comparison of a result with the expected output (pipeline.py:       *)
(* _floats_close, _values_match, _outputs_match, _reported,                *)
(* _apply_in_place), over JSON values as Python has them.                  *)
(***************************************************************************)
EXTENDS Integers, Sequences, FiniteSetsExt

CONSTANT Unit  \* 1.0 in units of FLOAT_TOLERANCE (10^5 in the code)

ASSUME UnitAssumption == Unit \in Nat \ {0}

\* A value: its type, a number (of a bool, an int or a float, in units; the keys of
\* a dict; the spelling of a word) and its parts.  A "str" is the text str(v) of
\* its one part v, or a word, which has none.
Value(t, n, l) == [t |-> t, n |-> n, l |-> l]
Null == Value("null", 0, <<>>)
Bool(b) == Value("bool", b * Unit, <<>>)
Whole(i) == Value("int", i * Unit, <<>>)
Float(n) == Value("float", n, <<>>)
Str(v) == Value("str", 0, <<v>>)
Word == Value("str", 1, <<>>)
List(l) == Value("list", 0, l)
Dict(v) == Value("dict", 1, <<v>>)

IsNumber(v) == v.t \in {"bool", "int", "float"}

\* The text str(v), named by the value it is the text of
Text(v) == IF v.t = "str" /\ v.l # <<>> THEN v.l[1] ELSE v

\* float(str(v)) is defined
IsNumeral(v) == Text(v).t \in {"int", "float"}

Abs(n) == IF n < 0 THEN -n ELSE n

_floats_close(a, b) == Abs(a - b) * Unit <= Max({Unit, Abs(a), Abs(b)})

Close(a, b) ==
    /\ IsNumber(a) /\ IsNumber(b)
    /\ "float" \in {a.t, b.t}
    /\ "bool" \notin {a.t, b.t}
    /\ _floats_close(a.n, b.n)

\* Python's ==, under which True is 1 and 1 is 1.0
RECURSIVE PyEq(_, _)
PyEq(a, b) ==
    \/ IsNumber(a) /\ IsNumber(b) /\ a.n = b.n
    \/ a.t \in {"null", "str"} /\ a = b
    \/ /\ a.t \in {"list", "dict"}
       /\ a.t = b.t /\ a.n = b.n /\ Len(a.l) = Len(b.l)
       /\ \A i \in 1..Len(a.l) : PyEq(a.l[i], b.l[i])

RECURSIVE _values_match(_, _)
_values_match(a, e) ==
    \/ PyEq(a, e)
    \/ {a, e} = {Null, List(<<>>)}
    \/ Close(a, e)
    \/ /\ a.t \in {"list", "dict"}
       /\ a.t = e.t /\ a.n = e.n /\ Len(a.l) = Len(e.l)
       /\ \A i \in 1..Len(a.l) : _values_match(a.l[i], e.l[i])

\* str(actual) == str(expected), or the same float() of both texts
TextsMatch(a, e) ==
    \/ Text(a) = Text(e)
    \/ IsNumeral(a) /\ IsNumeral(e) /\ Text(a).n = Text(e).n

IsSingleton(v) == v.t = "list" /\ Len(v.l) = 1

\* (mutant) Only the actual value is unwrapped.
RECURSIVE MatchUnwrapsActual(_, _)
MatchUnwrapsActual(a, e) ==
    \/ _values_match(a, e)
    \/ TextsMatch(a, e)
    \/ IsSingleton(a) /\ MatchUnwrapsActual(a.l[1], e)

\* (mutant) Without the numeric strings.
RECURSIVE MatchNoStrings(_, _)
MatchNoStrings(a, e) ==
    \/ _values_match(a, e)
    \/ IsSingleton(a) /\ MatchNoStrings(a.l[1], e)
    \/ IsSingleton(e) /\ MatchNoStrings(a, e.l[1])

\* _outputs_match, for a value that is not an InPlaceResult
RECURSIVE _plain_match(_, _)
_plain_match(a, e) ==
    \/ _values_match(a, e)
    \/ TextsMatch(a, e)
    \/ IsSingleton(a) /\ _plain_match(a.l[1], e)
    \/ IsSingleton(e) /\ _plain_match(a, e.l[1])

\* A result is a value, or an InPlaceResult: value None and the mutated argument
InPlace(mutated) == Value("inplace", 0, <<mutated>>)

_outputs_match(r, e) ==
    IF r.t = "inplace" THEN _plain_match(Null, e) \/ _plain_match(r.l[1], e) ELSE _plain_match(r, e)

\* The value shown to the user
_reported(r, e) ==
    IF r.t # "inplace" THEN r
    ELSE IF _outputs_match(Null, e) THEN Null ELSE r.l[1]

\* in_place is False in the request: the mutated argument is dropped
_apply_in_place(r, inPlace) == IF r.t = "inplace" /\ inPlace = "no" THEN Null ELSE r

-----------------------------------------------------------------------------

\* What the docstring of _outputs_match promises to accept, on the values without
\* their wrapping in lists of one.
RECURSIVE Unwrap(_)
Unwrap(v) == IF IsSingleton(v) THEN Unwrap(v.l[1]) ELSE v

Promised(a, e) ==
    \/ _values_match(a, e)
    \/ LET x == Unwrap(a)
           y == Unwrap(e)
       IN  _values_match(x, y) \/ (IsNumeral(x) /\ IsNumeral(y) /\ Text(x).n = Text(y).n)
=============================================================================
