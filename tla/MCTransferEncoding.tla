------------------------- MODULE MCTransferEncoding -------------------------
(***************************************************************************)
(* TransferEncoding for TLC.  For base-64 every remainder modulo three     *)
(* occurs after several lines.  For quoted-printable there are short       *)
(* strings of all kinds of bytes, and long ones whose interesting bytes    *)
(* stand where a line is broken, with a blank near enough or not.          *)
(***************************************************************************)
EXTENDS TransferEncoding

CONSTANTS SomeBytes, MaxBytes

UpTo(n, S) == UNION {[1..l -> S] : l \in 0..n}
Xs(n) == [l \in 1..n |-> 120]

MCStrings == UpTo(MaxBytes, SomeBytes)

Kinds == {120, Space, Equals, Dash, LF, CR, 200}

MCQPStrings ==
    UpTo(4, Kinds)
    \cup {Xs(62) \o t \o Xs(n) \o u : t \in UpTo(2, {Space, Dash}), n \in 6..9, u \in UpTo(2, Kinds)}
    \cup {From \o Xs(2), <<120, LF>> \o From}

MCQPTexts == UpTo(5, {Equals, 52, 49, 120, Space, CR, LF})

\* A word that looks like a boundary is moved to the start of a line.
BoundaryStrings == {Xs(64) \o <<Space, Dash, Dash>> \o Xs(n) : n \in 1..9}

\* A text that ends with a space, and one with a line feed that has no CR.
CommentStrings == BoundaryStrings \cup {<<120, Space>>, <<120, LF, 120>>}

=============================================================================
