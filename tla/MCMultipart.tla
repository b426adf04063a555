---------------------------- MODULE MCMultipart ----------------------------
(***************************************************************************)
(* Multipart for TLC: every body of up to MaxLines lines.                  *)
(***************************************************************************)
EXTENDS Multipart

CONSTANT MaxLines

Kinds == {"delim", "end", "blank", "field", "text"}
Whole == UNION {[1..n -> Kinds] : n \in 1..MaxLines}

\* A last line without a line break is not blank; a stub may have one.
MCBodies ==
    {<<b, FALSE>> : b \in Whole}
    \cup {<<b, TRUE>> : b \in {w \in Whole : w[Len(w)] # "blank"}}
    \cup {<<Append(b, "stub"), TRUE>> : b \in {w \in Whole : Len(w) < MaxLines}}

=============================================================================
