---------------------------- MODULE AddressText ----------------------------
(***************************************************************************)
(* The productions of the address parser of addresses.go.  It reads a text *)
(* from its end to its beginning: a production starts at an index, the     *)
(* code's i, and answers the index before what it took.  A text is a       *)
(* sequence of characters of these kinds:                                  *)
(*   "a" "b" "-"   letters, and another character of atext                 *)
(*   " "           white space                                             *)
(*   the specials , ; : < > @ . " ( ) [ ] '  themselves                    *)
(* Texts have no digit, backslash, percent sign, encoded-word and no 8-bit *)
(* byte; what the code does for those is left out.                         *)
(*                                                                         *)
(* A production takes and returns the parser as a record                   *)
(*   i             the index                                               *)
(*   v             the string the production returns besides the index     *)
(*   com           lastComment                                             *)
(*   err           firstError # nil                                        *)
(*   bad           an index or slice was out of range: the code panics     *)
(***************************************************************************)
EXTENDS Integers, Sequences, FiniteSets

Letters == {"a", "b"}
Atext == Letters \cup {"-", "'"}
Specials == {",", ";", ":", "<", ">", "@", ".", "\"", "(", ")", "[", "]"}
Char == Atext \cup Specials \cup {" "}

\* s[i], "none" where that is out of range, and s[l:r].
Chr(s, i) == IF 0 <= i /\ i < Len(s) THEN s[i + 1] ELSE "none"
Slice(s, l, r) == SubSeq(s, l + 1, r)

\* The text has the word w at index i.
HasAt(s, i, w) == i >= 0 /\ i + Len(w) <= Len(s) /\ Slice(s, i, i + Len(w)) = w
HasWord(s, w) == \E i \in 0..Len(s) : HasAt(s, i, w)

Lowest(S, n) == IF S = {} THEN n ELSE CHOOSE k \in S : \A l \in S : k <= l
Highest(S, n) == IF S = {} THEN n ELSE CHOOSE k \in S : \A l \in S : k >= l

\* From i to the left, the first index not below l whose character is not in C,
\* and l - 1 if there is none; from i to the right likewise.
Back(s, i, l, C) == IF i < l THEN i ELSE Highest({k \in l..i : Chr(s, k) \notin C}, l - 1)
Ahead(s, i, r, C) == IF i >= r THEN i ELSE Lowest({k \in i..(r - 1) : Chr(s, k) \notin C}, r)

To(q, i) == [q EXCEPT !.i = i]
Read(q, v) == [q EXCEPT !.v = v]
Crash(q) == [q EXCEPT !.bad = TRUE]

-----------------------------------------------------------------------------
(***************************************************************************)
(* strings.go: simplify and unquote with its escape character '.           *)
(***************************************************************************)
\* simplify of a string that is all white space slices past its end.
SimplifyPanics(t) == t # <<>> /\ \A k \in DOMAIN t : t[k] = " "

\* The characters of t at the positions in S, in order.
Picked(t, S) ==
    LET Nth(n) == CHOOSE k \in S : Cardinality({m \in S : m < k}) = n - 1
    IN  [n \in 1..Cardinality(S) |-> t[Nth(n)]]

simplify(t) ==
    LET Inked == {k \in DOMAIN t : t[k] # " "}
        Gap(k) == k - 1 \in Inked /\ \E m \in Inked : m > k
    IN  Picked(t, {k \in DOMAIN t : k \in Inked \/ Gap(k)})

\* The number of apostrophes that stand together up to index i.
Escapes(t, i) == i - Back(t, i, 1, {"'"})

isQuoted(t) ==
    /\ Len(t) >= 2 /\ t[1] = "\"" /\ t[Len(t)] = "\""
    /\ Escapes(t, Len(t) - 2) % 2 = 0

\* An apostrophe escapes the next character, and goes; so do the quotes.
unquote(t) ==
    IF isQuoted(t)
    THEN Picked(t, {k \in 2..(Len(t) - 1) : t[k] # "'" \/ Escapes(t, k - 1) % 2 = 0})
    ELSE t

(***************************************************************************)
(* setError(_, i) also cuts out the text near i, from i - 8 to index 20.   *)
(***************************************************************************)
setError(s, q, i) ==
    LET start == IF i > 8 THEN i - 8 ELSE 0
        end == IF Len(s) < 20 THEN Len(s) ELSE 20
    IN  IF start > end \/ SimplifyPanics(Slice(s, start, end))
        THEN Crash(q)
        ELSE [q EXCEPT !.err = TRUE]

-----------------------------------------------------------------------------
(***************************************************************************)
(* White space and comments.                                               *)
(***************************************************************************)
RECURSIVE Comments(_, _), ccontent(_, _)

space(s, i) == Back(s, i, 0, {" "})

\* Comment() of parser.go on a text that starts with "(": the inside of it, up
\* to the parenthesis that balances the first.
CommentText(t) ==
    LET Open(k) == Cardinality({j \in 1..k : t[j] = "("}) - Cardinality({j \in 1..k : t[j] = ")"})
    IN  SubSeq(t, 2, Lowest({k \in DOMAIN t : Open(k) = 0}, Len(t) + 1) - 1)

\* c is at the start of the comment that ends at index end.
Commented(s, end, c) ==
    IF c.bad THEN c
    ELSE IF Chr(s, c.i) = "(" THEN [c EXCEPT !.com = CommentText(Slice(s, c.i, end + 1))]
    ELSE setError(s, c, c.i)

\* A comment at the very start of the text is not skipped: it stops at its "(".
BeforeComment(s, c) ==
    IF c.bad \/ c.i = 0 THEN c ELSE Comments(s, To(c, space(s, c.i - 1)))

Comments(s, q) ==
    IF q.bad \/ q.i <= 0 \/ Chr(s, q.i) # ")" THEN q
    ELSE BeforeComment(s, Commented(s, q.i, ccontent(s, To(q, q.i - 1))))

comment(s, q) == Comments(s, To(q, space(s, q.i)))

OneBefore(q) == To(q, q.i - 1)

CcontentGoesOn(s, q) == IF q.bad \/ q.i = 0 THEN q ELSE ccontent(s, OneBefore(q))

\* To the "(" of the comment q is in.
ccontent(s, q) ==
    IF q.bad \/ Chr(s, q.i) = "(" THEN q
    ELSE IF q.i < 0 THEN Crash(q)
    ELSE CcontentGoesOn(s, IF Chr(s, q.i) = ")" THEN comment(s, q) ELSE q)

-----------------------------------------------------------------------------
(***************************************************************************)
(* Atoms, domains, phrases and localparts.                                 *)
(***************************************************************************)
RECURSIVE Labels(_, _), Words(_, _), LocalWords(_, _, _), RouteHosts(_, _)

\* The atom from index i + 1 to q.i.
AtomFrom(s, i, q) == Read(comment(s, To(q, i)), Slice(s, i + 1, q.i + 1))

AtomAt(s, q) == IF q.bad THEN q ELSE AtomFrom(s, Back(s, q.i, 0, Atext), q)

atom(s, q) == AtomAt(s, comment(s, q))

\* Another label, before a domain's labels so far.
Label(a, labels) == IF a.v = <<>> THEN Read(a, labels) ELSE Read(a, a.v \o <<".">> \o labels)

\* The loop of domain over the dots before the last atom.
Labels(s, q) ==
    IF q.bad \/ Chr(s, q.i) # "." THEN q
    ELSE Labels(s, Label(atom(s, OneBefore(q)), q.v))

\* unqp reads on past the end of a literal that ends with white space.
UnqpPanics(t) == t # <<>> /\ t[Len(t)] = " "

\* Of a run of white space the last character stays.
unqp(t) == Picked(t, {k \in DOMAIN t : t[k] # " " \/ Chr(t, k) # " "})

\* A literal whose "[" is at index open and whose "]" is at q.i.  The slice that
\* becomes the domain leaves out the last character and the "]".
Literal(s, open, q) ==
    IF open <= 0 THEN Read(setError(s, To(q, open), open), <<>>)
    ELSE IF UnqpPanics(Slice(s, open, q.i - 1)) THEN Crash(q)
    ELSE Read(To(q, open - 1), unqp(Slice(s, open, q.i - 1)))

DomainAt(s, q) ==
    IF q.bad \/ q.i < 0 THEN Read(q, <<>>)
    ELSE IF Chr(s, q.i) = "]" THEN Literal(s, Back(s, q.i - 1, 0, Char \ {"["}), q)
    ELSE Labels(s, atom(s, q))

domain(s, q) == DomainAt(s, comment(s, q))

\* The quoted word from index open to q.i; there must be an opening quote.
QuotedWord(s, open, q) ==
    IF open < 0 THEN Crash(q) ELSE Read(To(q, open - 1), unquote(Slice(s, open, q.i + 1)))

IsQuotedWord(s, q) == q.i > 0 /\ Chr(s, q.i) = "\""

Dotted(w) == Read(w, w.v \o <<".">>)

Word(s, q) ==
    IF IsQuotedWord(s, q) THEN QuotedWord(s, Back(s, q.i - 1, 0, Char \ {"\""}), q)
    ELSE IF Chr(s, q.i) = "." THEN Dotted(atom(s, OneBefore(q)))
    ELSE atom(s, q)

\* The word w and the words r to its right.
Joined(w, r) ==
    IF r = <<>> \/ w = <<>> \/ w[Len(w)] = " " THEN w \o r ELSE w \o <<" ">> \o r

\* The loop of phrase, at q with the words r to the right, has read the word w.
\* It ends when there is no atom.
WordRead(s, q, w) ==
    IF w.bad THEN w
    ELSE IF w.v = <<>> /\ Chr(s, q.i) # "." /\ ~IsQuotedWord(s, q)
    THEN Read(comment(s, w), q.v)
    ELSE Words(s, Read(comment(s, w), Joined(w.v, q.v)))

Words(s, q) == IF q.bad \/ q.i < 0 THEN q ELSE WordRead(s, q, Word(s, q))

Simplified(q) == IF q.bad \/ SimplifyPanics(q.v) THEN Crash(q) ELSE Read(q, simplify(q.v))

phrase(s, q) == Simplified(Words(s, Read(comment(s, q), <<>>)))

\* The loop of localpart has read everything in w, its words all atoms if only.
LocalWordRead(s, w, only) ==
    IF w.bad THEN w
    ELSE IF Chr(s, w.i) = "." THEN LocalWords(s, OneBefore(Read(w, <<".">> \o w.v)), only)
    ELSE IF only /\ w.v = <<>> THEN setError(s, w, w.i)
    ELSE w

Prefixed(w, r) == Read(w, w.v \o r)

LocalWords(s, q, only) ==
    IF q.i < 0 THEN Crash(q)
    ELSE IF Chr(s, q.i) = "\"" THEN LocalWordRead(s, Prefixed(phrase(s, q), q.v), FALSE)
    ELSE LocalWordRead(s, Prefixed(atom(s, q), q.v), only)

localpart(s, q) ==
    IF q.bad THEN q
    ELSE IF q.i < 0 THEN setError(s, Read(q, <<>>), q.i)
    ELSE LocalWords(s, Read(q, <<>>), TRUE)

\* The loop of route.
RouteHosts(s, q) ==
    IF q.bad \/ q.v = <<>> \/ Chr(s, q.i) \notin {",", "@"} THEN q
    ELSE RouteHosts(s, domain(s, To(q, Back(s, IF Chr(s, q.i) = "@" THEN q.i - 1 ELSE q.i,
                                            0, {","}))))

\* Skips an obs-route, and forgets the errors met on the way.
route(s, q) ==
    IF q.bad \/ Chr(s, q.i) # ":" \/ q.err THEN q
    ELSE [RouteHosts(s, domain(s, OneBefore(q))) EXCEPT !.err = FALSE]

=============================================================================
