----------------------------- MODULE ParserText -----------------------------
(***************************************************************************)
(* Where the productions of parser.go that need no backtracking end.  A    *)
(* text is a sequence of characters of these kinds:                        *)
(*   "x" "q" "b"   letters                "=" "?"   the other atext        *)
(*   "." "(" ")" "\\" "\""                themselves                       *)
(*   " "           blank or tab           "NL"      CR or LF               *)
(*   "8"           a byte above 127 other than 160                         *)
(* Position p stands before character p + 1, as in the code.  A backslash  *)
(* at the very end takes the cursor one position past it.                  *)
(***************************************************************************)
EXTENDS Naturals, Sequences, FiniteSets

Letters == {"x", "q", "b"}
Atext == Letters \cup {"=", "?"}
White == {" ", "NL"}
Char == Atext \cup White \cup {".", "(", ")", "\\", "\"", "8"}

\* NextChar(), "" for the 0 that stands for the end of the text.
NextChar(s, p) == IF p < Len(s) THEN s[p + 1] ELSE ""

\* The least member of S, or n if there is none.
MinOr(S, n) == IF S = {} THEN n ELSE CHOOSE k \in S : \A l \in S : k <= l

\* The end of the longest run of characters in C that starts at p.
SpanEnd(s, p, C) ==
    IF p >= Len(s) THEN p
    ELSE MinOr({e \in p..(Len(s) - 1) : NextChar(s, e) \notin C}, Len(s))

PresentAt(s, p, w) == p + Len(w) <= Len(s) /\ SubSeq(s, p + 1, p + Len(w)) = w

WhitespaceEnd(s, p) == SpanEnd(s, p, White)

\* Reading from p on, character e is a backslash that escapes the next: it ends
\* an odd run of backslashes.
Escapes(s, p, e) == Cardinality({k \in p..e : \A j \in (k + 1)..e : s[j] = "\\"}) % 2 = 0

\* Of the characters p + 1 to e, those that are c and not escaped.
Unescaped(s, p, e, c) == {k \in (p + 1)..e : s[k] = c /\ ~Escapes(s, p, k - 1)}

\* Position e is in a comment, reading from p on.
InComment(s, p, e) ==
    Cardinality(Unescaped(s, p, e, "(")) > Cardinality(Unescaped(s, p, e, ")"))

\* Past comments and the white space around them.
CommentEnd(s, p) ==
    IF p >= Len(s) THEN p
    ELSE MinOr({e \in p..(Len(s) - 1) :
                   NextChar(s, e) \notin White \cup {"("} /\ ~InComment(s, p, e)},
               IF Escapes(s, p, Len(s)) THEN Len(s) + 1 ELSE Len(s))

\* The end of an atom, the comment before it included.
AtomEnd(s, p) == SpanEnd(s, CommentEnd(s, p), Atext)

\* The end of a quoted string whose opening quote is character p.
QuotedEnd(s, p) ==
    MinOr(Unescaped(s, p, Len(s), "\""),
          IF Escapes(s, p, Len(s)) THEN Len(s) + 1 ELSE Len(s))

\* String(): a quoted string or else an atom.
StringEnd(s, p) ==
    LET c == CommentEnd(s, p)
    IN  IF NextChar(s, c) = "\"" THEN QuotedEnd(s, c + 1) ELSE AtomEnd(s, p)

TokenChars == Letters \cup {"."}

MIMETokenEnd(s, p) == SpanEnd(s, CommentEnd(s, p), TokenChars)

MIMEValueEnd(s, p) ==
    IF NextChar(s, CommentEnd(s, p)) = "\"" THEN StringEnd(s, p) ELSE MIMETokenEnd(s, p)

-----------------------------------------------------------------------------
(***************************************************************************)
(* An encoded-word: "=?" charset "?" q or b "?" text "?=".  The kind t of  *)
(* the surroundings says which characters the text may have.               *)
(***************************************************************************)
CharsetChars == Letters

WordChars(t, enc) ==
    IF enc = "b" THEN Letters \cup {"="}
    ELSE IF t = "phrase" THEN Letters \cup {"=", "."}
    ELSE Char \ (White \cup {"?", "8"})

\* The end of the encoded-word at p, or p if there is none or its charset is
\* not among the known ones.
EncodedWordEnd(s, p, t, known) ==
    LET c == SpanEnd(s, p + 2, CharsetChars)
        enc == NextChar(s, c + 1)
        e == SpanEnd(s, c + 3, WordChars(t, enc))
    IN  IF /\ PresentAt(s, p, <<"=", "?">>)
           /\ PresentAt(s, c, <<"?">>)
           /\ enc \in {"q", "b"}
           /\ PresentAt(s, c + 2, <<"?">>)
           /\ PresentAt(s, e, <<"?", "=">>)
           /\ SubSeq(s, p + 3, c) \in known
        THEN e + 2
        ELSE p

\* The message of a require that fails quotes up to 15 characters of the text,
\* and simplify panics if all of them are white space.
RequirePanics(s, p, w) ==
    /\ ~PresentAt(s, p, w) /\ p < Len(s)
    /\ \A k \in (p + 1)..(IF p + 15 < Len(s) THEN p + 15 ELSE Len(s)) : s[k] \in White

Past(s, p, w) == IF PresentAt(s, p, w) THEN p + Len(w) ELSE p

\* encodedWord reads on when something is missing: any of its requires may fail.
EncodedWordPanics(s, p, t) ==
    LET c == SpanEnd(s, p + 2, CharsetChars)
        enc == NextChar(s, Past(s, c, <<"?">>))
        d == Past(s, c, <<"?">>) + (IF enc \in {"q", "b"} THEN 1 ELSE 0)
        e == SpanEnd(s, Past(s, d, <<"?">>), WordChars(t, enc))
    IN  /\ PresentAt(s, p, <<"=", "?">>)
        /\ \/ RequirePanics(s, c, <<"?">>)
           \/ RequirePanics(s, d, <<"?">>)
           \/ RequirePanics(s, e, <<"?", "=">>)

=============================================================================
