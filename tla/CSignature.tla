------------------------------ MODULE CSignature -------------------------------
(***************************************************************************)
(* The scanner under the C and C++ executors (languages/c_signature.py):   *)
(* strip_comments, split_top_level and _matching_paren, and the way        *)
(* parse_signature puts them together to find the parameters of a          *)
(* function; and the splitters of the Go and Rust executors.  Checked on   *)
(* every text of up to MaxLen characters of an alphabet that has one       *)
(* character of each kind the scanners tell apart.                         *)
(***************************************************************************)
EXTENDS Integers, Sequences, FiniteSets, FiniteSetsExt, SequencesExt

CONSTANTS Alphabet,  \* of the texts: a subset of Characters
          MaxLen     \* of the texts

\* "nl" a newline, "sp" a blank, "bs" a backslash, "dq" a double quote, "f" the name
\* of the function, "x" any other letter
Characters == {"/", "*", "nl", "sp", "bs", "'", "dq", "x", "f", ",", "=", ";",
               "(", ")", "[", "]", "<", ">", "{", "}"}

ASSUME AlphabetAssumption == Alphabet \subseteq Characters /\ MaxLen \in Nat

VARIABLE code

Quotes == {"'", "dq"}
Word == {"x", "f"}
Blank(c) == IF c = "nl" THEN "nl" ELSE "sp"
Blanks(s) == [i \in DOMAIN s |-> Blank(s[i])]

\* The least of a set of positions, or the one given
Least(S, default) == IF S = {} THEN default ELSE Min(S)

-----------------------------------------------------------------------------
(* strip_comments *)

RECURSIVE StripFrom(_, _), Literal(_, _, _)

\* (mutant) An escape is one character.
RECURSIVE LiteralEscapeShort(_, _, _)
LiteralEscapeShort(s, quote, i) ==
    IF i > Len(s) THEN <<>>
    ELSE IF s[i] = quote THEN <<quote>> \o StripFrom(s, i + 1)
    ELSE IF s[i] = "bs" /\ i < Len(s) THEN <<"sp">> \o Literal(s, quote, i + 2)
    ELSE <<Blank(s[i])>> \o Literal(s, quote, i + 1)

\* From position i on, inside a string or character literal
Literal(s, quote, i) ==
    IF i > Len(s) THEN <<>>
    ELSE IF s[i] = quote THEN <<quote>> \o StripFrom(s, i + 1)
    ELSE IF s[i] = "bs" /\ i < Len(s) THEN <<"sp", "sp">> \o Literal(s, quote, i + 2)
    ELSE <<Blank(s[i])>> \o Literal(s, quote, i + 1)

LineEnd(s, i) == Least({p \in i..Len(s) : s[p] = "nl"}, Len(s) + 1)

BlockEnd(s, i) ==
    LET ends == {p \in (i + 2)..(Len(s) - 1) : s[p] = "*" /\ s[p + 1] = "/"}
    IN  IF ends = {} THEN Len(s) + 1 ELSE Min(ends) + 2

Opens(s, i, second) == i < Len(s) /\ s[i] = "/" /\ s[i + 1] = second

\* From position i on, outside literals and comments
StripFrom(s, i) ==
    LET skip(end) == Blanks(SubSeq(s, i, end - 1)) \o StripFrom(s, end)
    IN  CASE i > Len(s) -> <<>>
          [] Opens(s, i, "/") -> skip(LineEnd(s, i))
          [] Opens(s, i, "*") -> skip(BlockEnd(s, i))
          [] i <= Len(s) /\ s[i] \in Quotes -> <<s[i]>> \o Literal(s, s[i], i + 1)
          [] OTHER -> <<s[i]>> \o StripFrom(s, i + 1)

strip_comments(s) == StripFrom(s, 1)

-----------------------------------------------------------------------------
(* split_top_level of the C and C++ scanner and _split_top_level of the Go and the *)
(* Rust executor, _matching_paren                                                  *)

Opening == {"<", "(", "[", "{"}
Closing == {">", ")", "]", "}"}

\* The brackets that are counted together
Brackets(opening, closing) == [opening |-> opening, closing |-> closing]
CCounters == <<Brackets(Opening, Closing)>>
GoCounters == <<Brackets({"("}, {")"}), Brackets({"["}, {"]"}), Brackets({"{"}, {"}"})>>
RustCounters == <<Brackets({"<"}, {">"}), Brackets({"("}, {")"}), Brackets({"["}, {"]"})>>

\* (mutant) The depth may go below zero.
DepthUnclamped(b, d, c) == IF c \in b.opening THEN d + 1 ELSE IF c \in b.closing THEN d - 1 ELSE d

\* A counter after a character; it stays at 0
Depth(b, d, c) ==
    IF c \in b.opening THEN d + 1 ELSE IF c \in b.closing THEN Max({0, d - 1}) ELSE d

\* str.strip
Strip(s) ==
    LET solid == {i \in DOMAIN s : s[i] \notin {"sp", "nl"}}
    IN  IF solid = {} THEN <<>> ELSE SubSeq(s, Min(solid), Max(solid))

\* The loop: what is left of the text, the counters and the current part
RECURSIVE SplitFrom(_, _, _, _)
SplitFrom(counters, s, d, current) ==
    IF s = <<>> THEN <<Strip(current)>>
    ELSE LET e == [k \in DOMAIN counters |-> Depth(counters[k], d[k], Head(s))]
         IN  IF Head(s) = "," /\ ToSet(e) = {0}
             THEN <<Strip(current)>> \o SplitFrom(counters, Tail(s), e, <<>>)
             ELSE SplitFrom(counters, Tail(s), e, Append(current, Head(s)))

Parts(counters, s) == SplitFrom(counters, s, [k \in DOMAIN counters |-> 0], <<>>)
NotEmpty(part) == part # <<>>

\* The C scanner drops an empty part at the end only, the others every one.
split_top_level(s) ==
    LET parts == Parts(CCounters, s) IN IF Last(parts) = <<>> THEN Front(parts) ELSE parts
GoSplit(s) == SelectSeq(Parts(GoCounters, s), NotEmpty)
RustSplit(s) == SelectSeq(Parts(RustCounters, s), NotEmpty)

\* (mutant) The first closing parenthesis.
FirstClose(s, i, d) == Least({p \in i..Len(s) : s[p] = ")"}, 0)

\* The position of the parenthesis that brings the depth back to 0; 0 if none
RECURSIVE MatchFrom(_, _, _)
MatchFrom(s, i, d) ==
    IF i > Len(s) THEN 0
    ELSE IF s[i] = "(" THEN MatchFrom(s, i + 1, d + 1)
    ELSE IF s[i] = ")" THEN (IF d = 1 THEN i ELSE MatchFrom(s, i + 1, d - 1))
    ELSE MatchFrom(s, i + 1, d)

_matching_paren(s, open) == MatchFrom(s, open, 0)

\* _return_type_before: a word stands between the last delimiter and position p.  Of
\* the words only "x" is told apart; "static" and its like are left out.
HasReturnType(s, p) ==
    LET last == Max({0} \cup {q \in 1..(p - 1) : s[q] \in {";", "{", "}"}})
    IN  \E q \in (last + 1)..(p - 1) : s[q] \notin {"sp", "nl"}

\* _parse_param: what stands before "=" must be a type, a name and array suffixes
ParamParses(raw) ==
    LET text == Strip(SubSeq(raw, 1, Least({p \in DOMAIN raw : raw[p] = "="}, Len(raw) + 1) - 1))
        suffix == {p \in DOMAIN text : text[p] = "[" /\ text[Len(text)] = "]"
                       /\ \A q \in (p + 1)..Len(text) : text[q - 1] = "]" => text[q] = "["}
        named == Strip(SubSeq(text, 1, Least(suffix, Len(text) + 1) - 1))
        type == Max({0} \cup {p \in DOMAIN named : named[p] \notin Word})
    IN  type < Len(named) /\ Strip(SubSeq(named, 1, type)) # <<>>

CompileError == "CompileError"

\* parse_signature for the function "f": the number of its parameters.  The first
\* place that looks like a definition is taken; positions come from the clean text,
\* parameters from the raw one.
parse_signature(s) ==
    LET clean == strip_comments(s)
        next(p) == Least({q \in p..Len(clean) : clean[q] \notin {"sp", "nl"}}, Len(clean) + 1)
        is(p, c) == p <= Len(clean) /\ clean[p] = c
        isDefinition(p) ==
            LET close == _matching_paren(clean, next(p + 1))
            IN  /\ clean[p] = "f" /\ (p > 1 => clean[p - 1] \notin Word)
                /\ is(next(p + 1), "(")
                /\ close # 0 /\ is(next(close + 1), "{")
                /\ HasReturnType(clean, p)
        found == {p \in DOMAIN clean : isDefinition(p)}
        open == next(Min(found) + 1)
        close == _matching_paren(clean, open)
        raws == IF Strip(SubSeq(clean, open + 1, close - 1)) = <<>> THEN <<>>
                ELSE split_top_level(Strip(SubSeq(s, open + 1, close - 1)))
    IN  IF found = {} \/ \E i \in DOMAIN raws : ~ParamParses(raws[i])
        THEN CompileError ELSE ToString(Len(raws))

-----------------------------------------------------------------------------
(* The texts. *)

Init == code = <<>>

Type ==
    /\ Len(code) < MaxLen
    /\ \E c \in Alphabet : code' = Append(code, c)

Typed == Len(code) = MaxLen /\ UNCHANGED code

Next == Type \/ Typed

Spec == Init /\ [][Next]_code

-----------------------------------------------------------------------------

\* A lexer for comments and literals in the textbook form, a state per character.
Lex(state, c) ==
    CASE state \in {"code", "slash"} /\ c \in Quotes -> c
      [] state = "slash" /\ c = "/" -> "line"
      [] state = "slash" /\ c = "*" -> "block"
      [] state \in {"code", "slash"} -> IF c = "/" THEN "slash" ELSE "code"
      [] state = "line" -> IF c = "nl" THEN "code" ELSE "line"
      [] state = "block" -> IF c = "*" THEN "star" ELSE "block"
      [] state = "star" -> IF c = "/" THEN "code" ELSE IF c = "*" THEN "star" ELSE "block"
      [] state = "escape '" -> "'"
      [] state = "escape dq" -> "dq"
      [] OTHER -> IF c = state THEN "code"
                  ELSE IF c = "bs" THEN (IF state = "'" THEN "escape '" ELSE "escape dq")
                  ELSE state

Lexed(s) ==
    LET after[i \in 0..Len(s)] == IF i = 0 THEN "code" ELSE Lex(after[i - 1], s[i])
        Comment == {"line", "block", "star"}
        kept(i) ==
            \/ after[i - 1] \in {"code", "slash"} /\ after[i] \in {"code"} \cup Quotes
            \/ after[i] = "slash" /\ (i < Len(s) => after[i + 1] \notin Comment)
            \/ after[i - 1] \in Quotes /\ after[i] = "code"
        escaped(i) == after[i - 1] \in {"escape '", "escape dq"}
    IN  [i \in 1..Len(s) |->
            IF kept(i) THEN s[i] ELSE IF escaped(i) THEN "sp" ELSE Blank(s[i])]

\* strip_comments blanks exactly the comments and the insides of literals, as the
\* lexer has them, and nothing moves: a position in the clean text is the same
\* position in the code.
StripsLikeLexer == strip_comments(code) = Lexed(code)

\* The brackets left open after position p, in closed form: the most by which opening
\* ones outnumber closing ones in what ends there
StillOpen(b, s, p) ==
    Max({Cardinality({i \in q..p : s[i] \in b.opening}) - Cardinality({i \in q..p : s[i] \in b.closing}) :
            q \in 1..(p + 1)})

Cut(counters, s) ==
    LET commas == {p \in DOMAIN s : s[p] = "," /\ \A k \in DOMAIN counters : StillOpen(counters[k], s, p) = 0}
        ends == SetToSortSeq(commas \cup {0, Len(s) + 1}, <)
    IN  [i \in 1..(Len(ends) - 1) |-> Strip(SubSeq(s, ends[i] + 1, ends[i + 1] - 1))]

\* Parameters are cut at the commas outside all open brackets, and only there, whatever
\* unmatched closing bracket stands before (as in "->"): the same in the C and C++
\* scanner with one counter for all brackets and in Go's and Rust's with one for each
\* kind.
SplitsAtTop ==
    /\ LET cut == Cut(CCounters, code)
       IN  split_top_level(code) = IF Last(cut) = <<>> THEN Front(cut) ELSE cut
    /\ GoSplit(code) = SelectSeq(Cut(GoCounters, code), NotEmpty)
    /\ RustSplit(code) = SelectSeq(Cut(RustCounters, code), NotEmpty)

Balanced(s) ==
    \A p \in 0..Len(s) :
        LET net == Cardinality({i \in 1..p : s[i] = "("}) - Cardinality({i \in 1..p : s[i] = ")"})
        IN  net >= 0 /\ (p = Len(s) => net = 0)

\* What stands between a parenthesis and its match has matching parentheses, and a
\* parenthesis without a match has none that would do.
MatchIsFirstBalanced ==
    \A p \in DOMAIN code : code[p] = "(" =>
        LET inner(q) == SelectSeq(SubSeq(code, p + 1, q - 1), LAMBDA c : c \in {"(", ")"})
            closing == {q \in (p + 1)..Len(code) : code[q] = ")" /\ Balanced(inner(q))}
        IN  _matching_paren(code, p) = Least(closing, 0)

\* A definition "x f(code) {".
Definition == <<"x", "sp", "f", "(">> \o code \o <<")", "{">>

\* "Remove comments and blank out string/char literals, keeping offsets stable"
\* (c_signature.py:33): a definition that parses without its comments, and whose first
\* parameter begins with a name, also parses with them, into as many parameters.
CommentsDoNotCount ==
    LET plain == parse_signature(strip_comments(Definition))
        sensible == Head(code) = "x" /\ "/" \notin ToSet(strip_comments(code))
    IN  code # <<>> /\ sensible /\ plain # CompileError => parse_signature(Definition) = plain
=============================================================================
