------------------------------- MODULE Base64 -------------------------------
(***************************************************************************)
(* e64 and de64: a string is encoded, may gain characters that are no part *)
(* of base-64 on its way, and is decoded.                                  *)
(*                                                                         *)
(* A character of the encoded text is what from64 maps it to: 0..63 for    *)
(* the alphabet to64, Pad for "=", Break for CR, LF and other white space, *)
(* and Other for the rest.                                                 *)
(***************************************************************************)
EXTENDS Naturals, Sequences

CONSTANTS
    Strings,        \* the strings encoded, sequences of bytes
    LineLengths,    \* the values of lineLength, 0 for none
    MaxNoise        \* bound: characters inserted on the way

Pad == 64
Break == 65
Other == 99

VARIABLES
    s, lineLength,  \* the arguments of e64
    i, c,           \* e64: bytes used, characters on this line
    buf,            \* the encoded text
    noise,          \* characters inserted
    p, m, decoded,  \* de64: characters read, phase, bits left over
    out,            \* what de64 has decoded
    pc

vars == <<s, lineLength, i, c, buf, noise, p, m, decoded, out, pc>>

-----------------------------------------------------------------------------
\* The four characters for three bytes.
Encoded(a, b, d) ==
    <<a \div 4, (a % 4) * 16 + b \div 16, (b % 16) * 4 + d \div 64, d % 64>>

LineFull(n) == lineLength > 0 /\ n >= lineLength

Group ==
    /\ pc = "encode" /\ i + 3 <= Len(s)
    /\ LET full == LineFull(c + 4)
       IN  /\ buf' = buf \o Encoded(s[i + 1], s[i + 2], s[i + 3])
                         \o (IF full THEN <<Break, Break>> ELSE <<>>)
           /\ c' = IF full THEN 0 ELSE c + 4
    /\ i' = i + 3
    /\ UNCHANGED <<s, lineLength, noise, p, m, decoded, out, pc>>

\* The one or two bytes left.
Rest ==
    LET two == i + 1 < Len(s)
        e == Encoded(s[i + 1], IF two THEN s[i + 2] ELSE 0, 0)
    IN  IF i < Len(s)
        THEN <<e[1], e[2], IF two THEN e[3] ELSE Pad, Pad>>
        ELSE <<>>

\* The rest does not count for c: it gets a line break only if it did not
\* start a line.
Finish ==
    /\ pc = "encode" /\ i + 3 > Len(s)
    /\ buf' = buf \o Rest \o (IF lineLength > 0 /\ c > 0 THEN <<Break, Break>> ELSE <<>>)
    /\ pc' = "sent"
    /\ UNCHANGED <<s, lineLength, i, c, noise, p, m, decoded, out>>

\* The environment: a character of no meaning is inserted after the k-th.
Insert(k, ch) ==
    /\ pc = "sent" /\ noise < MaxNoise
    /\ buf' = SubSeq(buf, 1, k) \o <<ch>> \o SubSeq(buf, k + 1, Len(buf))
    /\ noise' = noise + 1
    /\ UNCHANGED <<s, lineLength, i, c, p, m, decoded, out, pc>>

Receive ==
    /\ pc = "sent"
    /\ pc' = "decode"
    /\ UNCHANGED <<s, lineLength, i, c, buf, noise, p, m, decoded, out>>

-----------------------------------------------------------------------------
\* The bits of ch that complete a byte in phase ph, and those left over.
High(ch, ph) == CASE ph = 1 -> ch \div 16 [] ph = 2 -> ch \div 4 [] ph = 3 -> ch
Low(ch, ph) == CASE ph = 0 -> ch * 4 [] ph = 1 -> (ch % 16) * 16 [] ph = 2 -> (ch % 4) * 64
                 [] ph = 3 -> decoded

\* NextPhase that counts every character.
NextPhaseAlways(ch) == (m + 1) % 4

\* Only characters of the alphabet advance the phase.
NextPhase(ch) == IF ch < 64 THEN (m + 1) % 4 ELSE m

Decode ==
    /\ pc = "decode" /\ p < Len(buf)
    /\ LET ch == buf[p + 1]
       IN  /\ out' = IF ch < 64 /\ m > 0
                     THEN Append(out, (decoded + High(ch, m)) % 256) ELSE out
           /\ decoded' = IF ch < 64 THEN Low(ch, m) % 256 ELSE decoded
           /\ m' = NextPhase(ch)
           /\ pc' = IF ch = Pad THEN "done" ELSE "decode"
    /\ p' = p + 1
    /\ UNCHANGED <<s, lineLength, i, c, buf, noise>>

Return ==
    /\ pc = "decode" /\ p = Len(buf)
    /\ pc' = "done"
    /\ UNCHANGED <<s, lineLength, i, c, buf, noise, p, m, decoded, out>>

Next ==
    \/ Group \/ Finish
    \/ \E k \in 0..Len(buf), ch \in {Break, Other} : Insert(k, ch)
    \/ Receive \/ Decode \/ Return

-----------------------------------------------------------------------------
(***************************************************************************)
(* Properties                                                              *)
(***************************************************************************)
\* Stretches of the encoded text without a line break.
Lines(b) ==
    {l \in (1..Len(b)) \X (1..Len(b)) :
        l[1] <= l[2] /\ \A k \in l[1]..l[2] : b[k] # Break}

\* A line is at most as long as lineLength rounded up to whole groups, and
\* without lineLength there is no line break at all.
LinesBounded ==
    noise = 0 =>
        IF lineLength = 0 THEN \A k \in DOMAIN buf : buf[k] # Break
        ELSE \A l \in Lines(buf) : l[2] - l[1] + 1 <= ((lineLength + 3) \div 4) * 4

\* The comment on e64: "returns the result in lines of at most lineLength
\* characters".
LinesAtMost ==
    (noise = 0 /\ lineLength > 0) =>
        \A l \in Lines(buf) : l[2] - l[1] + 1 <= lineLength

=============================================================================
