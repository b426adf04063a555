------------------------------- MODULE Parser -------------------------------
(***************************************************************************)
(* The parser of parser.go and a caller that uses its productions, its     *)
(* marks and restore in any order, as the Parse functions of fields.go do. *)
(*                                                                         *)
(* The states saved by mark form a linked list in which each is numbered   *)
(* one higher than the next: the sequence states, whose last element is    *)
(* the current one.  mark does not copy the error, restore throws away the *)
(* states above a mark, and most productions leave marks behind.           *)
(*                                                                         *)
(* A production without backtracking is one step, and so is one iteration  *)
(* of the loops of DotAtom, encodedWords, Text and Phrase.                 *)
(***************************************************************************)
EXTENDS ParserText

CONSTANTS
    Texts,          \* the texts to parse
    Charsets,       \* the names of charsets that are known
    MaxCalls        \* bound: calls by the caller

ASSUME ParserAssumption ==
    /\ \A s \in Texts : s \in Seq(Char)
    /\ MaxCalls \in Nat

VARIABLES
    str,            \* the text
    states,         \* the parserStates, [at, err], the current one last
    held,           \* the marks the caller holds, the oldest first
    calls,          \* calls made
    pc,             \* "idle" between the calls, "panic" after a run-time panic
    from,           \* the position at the call
    start,          \* the variable of Text and Phrase
    back,           \* where encodedWords returns to
    out,            \* what Text or Phrase has put together
    gap             \* white space not written yet

vars == <<str, states, held, calls, pc, from, start, back, out, gap>>

Pos(st) == st[Len(st)].at
Valid(st) == ~st[Len(st)].err

Step(st, p) == [st EXCEPT ![Len(st)].at = p]
Fail(st) == [st EXCEPT ![Len(st)].err = TRUE]

mark(st) == Append(st, [at |-> Pos(st), err |-> FALSE])

\* restore that goes back to the last mark whichever is asked for.
restoreLast(st, m) == IF m <= Len(st) THEN SubSeq(st, 1, Len(st) - 1) ELSE st

\* mark returns the number of the state below the new one.
restore(st, m) == IF m <= Len(st) THEN SubSeq(st, 1, m) ELSE st

Init ==
    /\ str \in Texts
    /\ states = <<[at |-> 0, err |-> FALSE]>>
    /\ held = <<>> /\ calls = 0 /\ pc = "idle" /\ from = 0
    /\ start = 0 /\ back = "idle" /\ out = <<>> /\ gap = FALSE

-----------------------------------------------------------------------------
Call ==
    /\ pc = "idle" /\ calls < MaxCalls
    /\ calls' = calls + 1
    /\ from' = Pos(states)
    /\ UNCHANGED <<str, back>>

\* The caller marks, as ContentType.Parse and ContentDisposition.Parse do.
CallMark ==
    /\ Call
    /\ states' = mark(states)
    /\ held' = Append(held, Len(states))
    /\ UNCHANGED <<pc, start, out, gap>>

CallRestore ==
    /\ Call
    /\ \E k \in DOMAIN held :
          /\ states' = restore(states, held[k])
          /\ held' = SubSeq(held, 1, k - 1)
    /\ UNCHANGED <<pc, start, out, gap>>

\* Whitespace, Comment, Atom, String, MIMEToken or MIMEValue.
CallScan ==
    /\ Call
    /\ \E p \in {WhitespaceEnd(str, Pos(states)), CommentEnd(str, Pos(states)),
                 AtomEnd(str, Pos(states)), StringEnd(str, Pos(states)),
                 MIMETokenEnd(str, Pos(states)), MIMEValueEnd(str, Pos(states))} :
          states' = Step(states, p)
    /\ UNCHANGED <<held, pc, start, out, gap>>

-----------------------------------------------------------------------------
CallDotAtom ==
    /\ Call
    /\ LET c == CommentEnd(str, Pos(states))
           e == AtomEnd(str, Pos(states))
       IN  /\ states' = Step(states, e)
           /\ pc' = IF e = c THEN "idle" ELSE "dotatom"
    /\ UNCHANGED <<held, start, out, gap>>

\* One more "." atom, the comments around the dot included, or none.
AfterDot(st) ==
    LET c == CommentEnd(str, Pos(st))
        dot == PresentAt(str, c, <<".">>)
        d == CommentEnd(str, IF dot THEN c + 1 ELSE c)
        e == AtomEnd(str, d)
    IN  IF dot /\ e # d THEN Step(st, e) ELSE Fail(Step(st, e))

DotAtom ==
    /\ pc = "dotatom"
    /\ LET st == AfterDot(mark(states))
       IN  IF Valid(st)
           THEN states' = st /\ pc' = "dotatom"
           ELSE states' = restore(st, Len(states)) /\ pc' = "idle"
    /\ UNCHANGED <<str, held, calls, from, start, back, out, gap>>

-----------------------------------------------------------------------------
\* encodedWord leaves its mark behind if it succeeds.
encodedWord(st, t) ==
    LET p == Pos(st)
        e == EncodedWordEnd(str, p, t, Charsets)
    IN  IF e # p THEN Step(mark(st), e) ELSE restore(Fail(mark(st)), Len(st))

\* encodedWords with the mark set behind the white space.
EncodedWordsMarkLate ==
    /\ pc = "words"
    /\ LET n == WhitespaceEnd(str, Pos(states))
           st == mark(Step(states, n))
           w == encodedWord(st, back)
       IN  IF EncodedWordPanics(str, n, back)
           THEN states' = states /\ pc' = "panic"
           ELSE IF Pos(w) # n
           THEN states' = w /\ pc' = "words"
           ELSE states' = restore(w, Len(states)) /\ pc' = back
    /\ UNCHANGED <<str, held, calls, from, start, back, out, gap>>

\* One iteration of encodedWords; white space after the last word is given back.
\* A run-time panic unwinds everything: nobody reads the states again.
EncodedWords ==
    /\ pc = "words"
    /\ LET st == mark(states)
           n == WhitespaceEnd(str, Pos(st))
           w == encodedWord(Step(st, n), back)
       IN  IF EncodedWordPanics(str, n, back)
           THEN states' = states /\ pc' = "panic"
           ELSE IF Pos(w) # n
           THEN states' = w /\ pc' = "words"
           ELSE states' = restore(w, Len(states)) /\ pc' = back
    /\ UNCHANGED <<str, held, calls, from, start, back, out, gap>>

\* Start encodedWords on the states st, at the word that starts at p.
Encoded(st, p, who) ==
    /\ states' = st /\ start' = p
    /\ pc' = "words" /\ back' = who
    /\ UNCHANGED <<out, gap>>

-----------------------------------------------------------------------------
WrittenGap == IF gap THEN <<"space">> ELSE <<>>

CallText ==
    /\ Call
    /\ LET e == WhitespaceEnd(str, Pos(states))
       IN  states' = Step(states, e) /\ gap' = (e # Pos(states))
    /\ pc' = "nextword" /\ out' = <<>>
    /\ UNCHANGED <<held, start>>

\* Text that goes on while there is text.
TextTookWhileText(st, p, kind) ==
    LET e == WhitespaceEnd(str, Pos(st))
    IN  IF Pos(st) >= Len(str)
        THEN /\ states' = st /\ pc' = "idle"
             /\ out' = out \o WrittenGap /\ gap' = FALSE
        ELSE /\ states' = Step(st, e) /\ gap' = (e # Pos(st)) /\ pc' = "nextword"
             /\ out' = out \o WrittenGap \o <<kind>>

\* The rest of an iteration of Text: what was read up to the position of st.
TextTook(st, p, kind) ==
    LET e == WhitespaceEnd(str, Pos(st))
    IN  IF Pos(st) = p
        THEN /\ states' = st /\ pc' = "idle"
             /\ out' = out \o WrittenGap /\ gap' = FALSE
        ELSE /\ states' = Step(st, e) /\ gap' = (e # Pos(st)) /\ pc' = "nextword"
             /\ out' = out \o WrittenGap \o <<kind>>

PlainEnd(p) == SpanEnd(str, p, Char \ (White \cup {"8"}))

Text ==
    /\ pc = "nextword"
    /\ LET p == Pos(states)
           m == mark(states)
       IN  IF PresentAt(str, p, <<"=", "?">>)
           THEN Encoded(restore(Step(m, p + 2), Len(states)), p, "text")
           ELSE TextTook(Step(m, PlainEnd(p)), p, "word") /\ UNCHANGED <<start, back>>
    /\ UNCHANGED <<str, held, calls, from>>

TextEncoded ==
    /\ pc = "text"
    /\ IF Pos(states) # start
       THEN TextTook(states, start, "encoded")
       ELSE TextTook(Step(states, PlainEnd(start)), start, "word")
    /\ UNCHANGED <<str, held, calls, from, start, back>>

-----------------------------------------------------------------------------
CallPhrase ==
    /\ Call
    /\ states' = Step(states, CommentEnd(str, Pos(states)))
    /\ pc' = "nextphrase" /\ out' = <<>> /\ gap' = FALSE
    /\ UNCHANGED <<held, start>>

LastIs(kind) == out # <<>> /\ out[Len(out)] = kind

\* Phrase without the rule of RFC 2047.
PhraseTookSpaced(st, p, kind) ==
    LET e == CommentEnd(str, Pos(st))
    IN  IF Pos(st) = p
        THEN states' = st /\ pc' = "idle" /\ UNCHANGED <<out, gap>>
        ELSE /\ states' = Step(st, e) /\ gap' = (e # Pos(st))
             /\ pc' = "nextphrase"
             /\ out' = out \o WrittenGap \o <<kind>>

\* The rest of an iteration of Phrase.  A comment counts as a space, and the
\* space between two encoded words is not written.
PhraseTook(st, p, kind) ==
    LET e == CommentEnd(str, Pos(st))
    IN  IF Pos(st) = p
        THEN states' = st /\ pc' = "idle" /\ UNCHANGED <<out, gap>>
        ELSE /\ states' = Step(st, e) /\ gap' = (e # Pos(st))
             /\ pc' = "nextphrase"
             /\ out' = (IF kind = "encoded" /\ LastIs("encoded") THEN out ELSE out \o WrittenGap)
                       \o <<kind>>

\* A quoted string, whose opening quote Present has stepped over, or an atom.
PlainPhrase(st, below, p) ==
    IF PresentAt(str, p, <<"\"">>)
    THEN LET b == restore(Step(st, p + 1), below) IN PhraseTook(Step(b, StringEnd(str, p)), p, "word")
    ELSE PhraseTook(Step(st, AtomEnd(str, p)), p, "word")

Phrase ==
    /\ pc = "nextphrase"
    /\ LET p == Pos(states)
           m == mark(states)
       IN  IF p >= Len(str)
           THEN pc' = "idle" /\ UNCHANGED <<states, start, back, out, gap>>
           ELSE IF PresentAt(str, p, <<"=", "?">>)
           THEN Encoded(restore(Step(m, p + 2), Len(states)), p, "phrase")
           ELSE PlainPhrase(m, Len(states), p) /\ UNCHANGED <<start, back>>
    /\ UNCHANGED <<str, held, calls, from>>

PhraseEncoded ==
    /\ pc = "phrase"
    /\ IF Pos(states) # start
       THEN PhraseTook(states, start, "encoded")
       ELSE PlainPhrase(states, Len(states), start)
    /\ UNCHANGED <<str, held, calls, from, start, back>>

-----------------------------------------------------------------------------
Working == DotAtom \/ EncodedWords \/ Text \/ TextEncoded \/ Phrase \/ PhraseEncoded

Next ==
    \/ CallMark \/ CallRestore \/ CallScan \/ CallDotAtom \/ CallText \/ CallPhrase
    \/ Working

Spec == Init /\ [][Next]_vars

-----------------------------------------------------------------------------
(***************************************************************************)
(* What the comments at mark, restore and the productions say: seen by the *)
(* caller, between calls, a production only moves the cursor forward, and  *)
(* no further than one past the end; it records no error and disturbs no   *)
(* mark the caller holds, however many marks it leaves behind and however  *)
(* often it went back itself; and restore brings the marked position back. *)
(***************************************************************************)
Abstract == INSTANCE Cursor WITH
    limit <- Len(str) + 1,
    at <- IF pc = "idle" THEN Pos(states) ELSE from,
    valid <- Valid(states),
    saved <- [k \in DOMAIN held |-> states[held[k]].at]

ImplementsCursor == Abstract!Spec

(***************************************************************************)
(* The loops of DotAtom, Text, Phrase and encodedWords end on every text,  *)
(* although Text and Phrase go back to where encodedWords began and try    *)
(* something else: a step of a production ends it, or the iteration is at  *)
(* a later character, or at the same one and further on: first encoded-  *)
(* Words is called, then it reads word after word, then it has returned.   *)
(***************************************************************************)
Encoding == pc \in {"words", "text", "phrase"}
IterationAt == IF Encoding THEN start ELSE Pos(states)
Stage == IF ~Encoding THEN 0 ELSE IF pc = "words" THEN 1 ELSE 2

Progress ==
    \/ pc' \in {"idle", "panic"}
    \/ IterationAt' > IterationAt
    \/ IterationAt' = IterationAt /\ Stage' > Stage
    \/ IterationAt' = IterationAt /\ Stage' = Stage /\ Pos(states') > Pos(states)

ProductionsProgress == [][pc # "idle" => Progress]_vars

(***************************************************************************)
(* DotAtom and encodedWords try one more dot or word than there is.  What  *)
(* they read in vain is given back: DotAtom ends behind an atom character, *)
(* not behind a dot, comment or blank, and encodedWords behind a "?=" or   *)
(* where it began.                                                         *)
(***************************************************************************)
TriedInVain ==
    [][/\ pc = "dotatom" /\ pc' = "idle" => str[Pos(states')] \in Atext
       /\ pc = "words" /\ pc' = back =>
             \/ Pos(states') = start
             \/ SubSeq(str, Pos(states') - 1, Pos(states')) = <<"?", "=">>]_vars

(***************************************************************************)
(* "RFC 2047 says that spaces between encoded-words should be disregarded, *)
(* so we do" (Phrase): neither Phrase nor Text writes a space between two  *)
(* encoded words, whichever of the loops reads them and whatever comment   *)
(* is between them.                                                        *)
(***************************************************************************)
NoSpaceBetweenEncoded ==
    \A k \in 1..(Len(out) - 2) : SubSeq(out, k, k + 2) # <<"encoded", "space", "encoded">>

(***************************************************************************)
(* encodedWord returns "an empty string if the cursor does not point to a  *)
(* valid encoded-word": no production ends in a run-time panic.            *)
(***************************************************************************)
ProductionsReturn == pc # "panic"

=============================================================================
