----------------------------- MODULE Multipart -----------------------------
(***************************************************************************)
(* Part.parseMultipart: cutting a body into parts at its boundary lines.   *)
(*                                                                         *)
(* The body is a sequence of lines, each of one kind:                      *)
(*   "delim"  "--" and the divider        "end"    the same, and "--"      *)
(*   "blank"  an empty line               "field"  "name: value"           *)
(*   "text"   anything else                                                *)
(*   "stub"   a last line that starts like a boundary line and is too short *)
(* A body may be cut off in its last line, which then has no line break.   *)
(* Position k is the start of line k, and Len(body) + 1 the end.  The scan *)
(* stops at the start of lines only, and never at a blank one.             *)
(***************************************************************************)
EXTENDS Naturals, Sequences, FiniteSets

CONSTANTS
    Bodies      \* pairs of a sequence of lines and whether it is cut off

LineKind == {"delim", "end", "blank", "field", "text", "stub"}

ASSUME BodiesAssumption == \A b \in Bodies : b[1] \in Seq(LineKind)

VARIABLES
    body,       \* the lines of rfc5322
    cut,        \* the last line has no line break
    i,          \* where the scan is
    partStart,      \* where the present part starts, 0 before the first boundary
    last,       \* the end was seen
    Parts,      \* the parts found: [Number, from, to], lines from..to
    phase

splitVars == <<body, cut, i, partStart, last, Parts, phase>>

end == Len(body) + 1

SplitInit ==
    /\ \E b \in Bodies : body = b[1] /\ cut = b[2]
    /\ i = 1 /\ partStart = 0 /\ last = FALSE /\ Parts = <<>>
    /\ phase = "scan"

-----------------------------------------------------------------------------
LeastOr(S, n) == IF S = {} THEN n ELSE CHOOSE k \in S : \A l \in S : k <= l

\* NextLine that may stay where it is.
ThisLine(k) == LeastOr({l \in 1..Len(body) : l >= k /\ body[l] # "blank"}, end)

\* The rest of line k is skipped, and then every line break.
NextLine(k) == LeastOr({l \in 1..Len(body) : l > k /\ body[l] # "blank"}, end)

\* The first line after the header that starts at line k: the fields, and the
\* blank line if there is one.
AfterHeader(k) ==
    LET stop == LeastOr({l \in 1..Len(body) : l >= k /\ body[l] # "field"}, end)
    IN  IF stop < end /\ body[stop] = "blank" THEN stop + 1 ELSE stop

AtBoundary == i \in 1..Len(body) => body[i] \in {"delim", "end"}

\* The code looks two characters beyond the "--" and the divider.
BoundaryPanics ==
    i = Len(body) /\ (body[i] = "stub" \/ (cut /\ body[i] = "delim"))

\* After that misses the line after the boundary line.
AfterTwo == IF i >= end THEN end ELSE i + 2

\* After that includes the boundary line.
FromBoundary == IF i >= end THEN end ELSE i

\* Where the next part would start: the line after the boundary line.
After == IF i >= end THEN end ELSE i + 1

\* The part is empty once the line break before the boundary is taken off;
\* that line break belongs to the header if there is nothing else.
PartEmpty ==
    LET top == AfterHeader(partStart)
    IN  top >= i \/ (top = i - 1 /\ body[top] = "blank")

-----------------------------------------------------------------------------
\* No boundary here: go to the next line.
Skip ==
    /\ phase = "scan" /\ ~last /\ ~AtBoundary /\ ~BoundaryPanics
    /\ i' = NextLine(i)
    /\ UNCHANGED <<body, cut, partStart, last, Parts, phase>>

\* The preamble ends, or the end of the body is reached without a part open:
\* nothing is stored.  Then the line after the boundary is skipped.
Open ==
    /\ phase = "scan" /\ ~last /\ AtBoundary /\ ~BoundaryPanics
    /\ partStart = 0 \/ partStart >= end
    /\ last' = (i >= end \/ body[i] = "end")
    /\ partStart' = After
    /\ i' = IF After >= end THEN end ELSE NextLine(After)
    /\ UNCHANGED <<body, cut, Parts, phase>>

\* Store that does not move on to the next part.
StoreAgain ==
    /\ phase = "scan" /\ ~last /\ AtBoundary /\ ~BoundaryPanics
    /\ partStart > 0 /\ partStart < end
    /\ ~PartEmpty
    /\ Parts' = Append(Parts, [Number |-> Len(Parts) + 1,
                               from |-> AfterHeader(partStart), to |-> i - 1])
    /\ last' = (i >= end \/ body[i] = "end")
    /\ i' = IF After >= end THEN end ELSE NextLine(After)
    /\ UNCHANGED <<body, cut, partStart, phase>>

\* A part ends here and is parsed.
Store ==
    /\ phase = "scan" /\ ~last /\ AtBoundary /\ ~BoundaryPanics
    /\ partStart > 0 /\ partStart < end
    /\ ~PartEmpty
    /\ Parts' = Append(Parts, [Number |-> Len(Parts) + 1,
                               from |-> AfterHeader(partStart), to |-> i - 1])
    /\ last' = (i >= end \/ body[i] = "end")
    /\ partStart' = After
    /\ i' = IF After >= end THEN end ELSE NextLine(After)
    /\ UNCHANGED <<body, cut, phase>>

\* rfc5322[start:i] with start > i, or rfc5322[0] of an empty part, or an
\* index beyond the end.
Panic ==
    /\ phase = "scan" /\ ~last
    /\ BoundaryPanics \/ (AtBoundary /\ partStart > 0 /\ partStart < end /\ PartEmpty)
    /\ phase' = "panic"
    /\ UNCHANGED <<body, cut, i, partStart, last, Parts>>

Return ==
    /\ phase = "scan" /\ last
    /\ phase' = "done"
    /\ UNCHANGED <<body, cut, i, partStart, last, Parts>>

SplitNext == Skip \/ Open \/ Store \/ Panic \/ Return

SplitSpec == SplitInit /\ [][SplitNext]_splitVars /\ WF_splitVars(SplitNext)

-----------------------------------------------------------------------------
(***************************************************************************)
(* Properties                                                              *)
(***************************************************************************)
\* The variables have their types.
TypeOK ==
    /\ i \in 1..end /\ partStart \in 0..end /\ last \in BOOLEAN
    /\ \A k \in DOMAIN Parts : Parts[k].from \in 1..end /\ Parts[k].to \in 1..Len(body)
    /\ phase \in {"scan", "done", "panic"}

\* The parts are numbered from 1 in the order of the body, none is empty and
\* no two overlap, although i is moved back and forth within one iteration.
PartsOrdered ==
    \A k \in DOMAIN Parts :
        /\ Parts[k].Number = k
        /\ Parts[k].from <= Parts[k].to
        /\ k > 1 => Parts[k - 1].to < Parts[k].from

IsBoundary(l) == body[l] \in {"delim", "end"}
InPart(l) == \E k \in DOMAIN Parts : l \in Parts[k].from..Parts[k].to

\* Every line of text after the first boundary line and before the end is in
\* a part: no part is lost, whether or not the body has an end line.
NothingLost ==
    phase = "done" => \A l \in 1..Len(body) :
        /\ body[l] = "text"
        /\ \E d \in 1..(l - 1) : body[d] = "delim"
        /\ \A e \in 1..(l - 1) : body[e] # "end"
        => InPart(l)

\* The preamble and the epilogue are in no part, and a boundary line is in a
\* part only if it follows another one directly.
OnlyParts ==
    \A l \in 1..Len(body) :
        InPart(l) =>
            /\ \E d \in 1..(l - 1) : IsBoundary(d)
            /\ \A e \in 1..(l - 1) : body[e] = "end" => e > 1 /\ body[e - 1] = "delim"
            /\ IsBoundary(l) => IsBoundary(l - 1)

\* The scan comes to an end.
Terminates == <>(phase \in {"done", "panic"})

\* The comment on parseMultipart: "dividing the part into bodyparts wherever
\* the boundary divider occurs".
DividedEverywhere == \A l \in 1..Len(body) : IsBoundary(l) => ~InPart(l)

=============================================================================
