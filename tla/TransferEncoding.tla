-------------------------- MODULE TransferEncoding --------------------------
(***************************************************************************)
(* encodeCTE and decodeCTE: base-64, as in module Base64, quoted-printable *)
(* by eQP and deQP, or no encoding.  Here a character of the encoded text  *)
(* is its byte, unless the encoding is base-64.                            *)
(*                                                                         *)
(* encoding "word" stands for the calls of eQP and deQP with underscore,   *)
(* which the encoded-words of RFC 2047 use, and "foreign" for a            *)
(* quoted-printable text that somebody else encoded.                       *)
(***************************************************************************)
EXTENDS Base64, FiniteSets

CONSTANTS
    QPStrings,      \* the strings given to eQP
    QPTexts         \* texts given to deQP that eQP did not write

Byte == 0..255

ASSUME TransferAssumption ==
    /\ Strings \subseteq Seq(Byte) /\ QPStrings \subseteq Seq(Byte) /\ QPTexts \subseteq Seq(Byte)
    /\ LineLengths \subseteq Nat /\ MaxNoise \in Nat

VARIABLE e              \* the encoding

cvars == <<e, vars>>

LF == 10
CR == 13
Tab == 9
Space == 32
Dash == 45
Equals == 61
Underscore == 95
From == <<70, 114, 111, 109, 32>>

CInit ==
    /\ e \in {"base64", "qp", "word", "binary", "foreign"}
    /\ i = 0 /\ c = 0 /\ noise = 0
    /\ p = 0 /\ m = 0 /\ decoded = 0 /\ out = <<>>
    /\ s \in IF e = "base64" THEN Strings ELSE IF e = "foreign" THEN {<<>>} ELSE QPStrings
    /\ buf \in IF e = "foreign" THEN QPTexts ELSE {<<>>}
    /\ lineLength \in IF e = "base64" THEN LineLengths ELSE IF e = "qp" THEN {0, 72} ELSE {0}
    /\ pc = IF e = "foreign" THEN "decode" ELSE "encode"

from == e = "qp" /\ lineLength > 0
underscore == e = "word"

-----------------------------------------------------------------------------
(***************************************************************************)
(* eQP                                                                     *)
(***************************************************************************)
Hex(n) == IF n < 10 THEN 48 + n ELSE 55 + n
Escaped(b) == <<Equals, Hex(b \div 16), Hex(b % 16)>>

Alphanumeric == (48..57) \cup (65..90) \cup (97..122)

\* The characters of a boundary, and blanks: ' ( ) + , - . / : = ? and _ too.
BoundaryChars == Alphanumeric \cup {Space, 39, 40, 41, 43, 44, 45, 46, 47, 58, 61, 63, 95}

\* The characters from k up to the first control character may be a boundary.
maybeBoundary(t, k) ==
    /\ k + 1 <= Len(t) /\ t[k] = Dash /\ t[k + 1] = Dash
    /\ \A l \in k..Len(t) : (\A n \in k..l : t[n] >= Space) => t[l] \in BoundaryChars

HasFrom(t, k) == k + 4 <= Len(t) /\ SubSeq(t, k, k + 4) = From

\* The next character is a line feed, with or without a CR.
BareLF == s[i + 1] = LF
CRLF == i + 1 < Len(s) /\ s[i + 1] = CR /\ s[i + 2] = LF

\* Mutant: a space at the end of a line is left as it is.
ProtectedNot(b) == b

\* A space at the end of a line is encoded.
Protected(b) ==
    IF b # <<>> /\ b[Len(b)] = Space
    THEN SubSeq(b, 1, Len(b) - 1) \o Escaped(Space) ELSE b

QPLineFeed ==
    /\ e \in {"qp", "word"} /\ pc = "encode" /\ i < Len(s)
    /\ BareLF \/ CRLF
    /\ buf' = Protected(buf) \o (IF BareLF THEN <<LF>> ELSE <<CR, LF>>)
    /\ c' = 0
    /\ i' = IF BareLF THEN i + 1 ELSE i + 2
    /\ UNCHANGED <<e, s, lineLength, noise, p, m, decoded, out, pc>>

\* How many characters go to the next line at a soft line break: those after a
\* blank among the last nine, or none.
Moved(b) ==
    LET Blank == {j \in 1..9 : b[Len(b) + 1 - j] = Space}
    IN  IF Blank = {} THEN 0 ELSE (CHOOSE j \in Blank : \A k \in Blank : j <= k) - 1

SoftBreak(b) ==
    SubSeq(b, 1, Len(b) - Moved(b)) \o <<Equals, CR, LF>>
        \o SubSeq(b, Len(b) - Moved(b) + 1, Len(b))

\* What a character becomes, at the start of a line or not.
Written(k, first) ==
    IF underscore /\ s[k] = Space THEN <<Underscore>>
    ELSE IF \/ underscore /\ s[k] \notin Alphanumeric
            \/ from /\ first /\ (maybeBoundary(s, k) \/ HasFrom(s, k))
    THEN Escaped(s[k])
    ELSE IF (s[k] \in Space..126 /\ s[k] # Equals) \/ s[k] = Tab THEN <<s[k]>>
    ELSE Escaped(s[k])

\* Mutant: the line is broken a little later.
LineLongLate == c > 74

\* The line is long enough to be broken.
LineLong == c > 72

QPChar ==
    /\ e \in {"qp", "word"} /\ pc = "encode" /\ i < Len(s)
    /\ ~BareLF /\ ~CRLF
    /\ \E b \in {IF LineLong THEN SoftBreak(buf) ELSE buf} :
       \E n \in {IF LineLong THEN Moved(buf) ELSE c} :
       \E w \in {Written(i + 1, n = 0)} :
           buf' = b \o w /\ c' = n + Len(w)
    /\ i' = i + 1
    /\ UNCHANGED <<e, s, lineLength, noise, p, m, decoded, out, pc>>

QPFinish ==
    /\ e \in {"qp", "word"} /\ pc = "encode" /\ i = Len(s)
    /\ pc' = "sent"
    /\ UNCHANGED <<e, s, lineLength, i, c, buf, noise, p, m, decoded, out>>

\* The environment: white space is added to a line that ends with a soft break.
QPInsert(k) ==
    /\ e \in {"qp", "word"} /\ pc = "sent" /\ noise < MaxNoise
    /\ SubSeq(buf, k, k + 1) = <<Equals, CR>>
    /\ buf' = SubSeq(buf, 1, k) \o <<Space>> \o SubSeq(buf, k + 1, Len(buf))
    /\ noise' = noise + 1
    /\ UNCHANGED <<e, s, lineLength, i, c, p, m, decoded, out, pc>>

-----------------------------------------------------------------------------
(***************************************************************************)
(* deQP.  It has read p characters.                                        *)
(***************************************************************************)
HexValue(b) == IF b \in 48..57 THEN b - 48 ELSE IF b \in 65..70 THEN b - 55
               ELSE IF b \in 97..102 THEN b - 87 ELSE 99

\* The first character after p + 1 that is no white space.
AfterBlanks ==
    CHOOSE k \in (p + 2)..(Len(buf) + 1) :
        /\ k <= Len(buf) => buf[k] \notin {Space, Tab}
        /\ \A l \in (p + 2)..(k - 1) : buf[l] \in {Space, Tab}

SoftEnd(k) ==
    IF k <= Len(buf) /\ buf[k] = LF THEN k
    ELSE IF k < Len(buf) /\ buf[k] = CR /\ buf[k + 1] = LF THEN k + 1
    ELSE 0

\* An equals sign too close to the end for two digits gives a NUL.
EscapeGood == p + 3 > Len(buf) \/ (HexValue(buf[p + 2]) < 16 /\ HexValue(buf[p + 3]) < 16)
EscapeValue == IF p + 3 > Len(buf) THEN 0 ELSE 16 * HexValue(buf[p + 2]) + HexValue(buf[p + 3])

QPDecode ==
    /\ e \in {"qp", "word", "foreign"} /\ pc = "decode" /\ p < Len(buf)
    /\ \/ /\ buf[p + 1] # Equals
          /\ out' = Append(out, IF underscore /\ buf[p + 1] = Underscore THEN Space ELSE buf[p + 1])
          /\ p' = p + 1
       \/ /\ buf[p + 1] = Equals
          /\ \E k \in {SoftEnd(AfterBlanks)} :
                IF k > 0 THEN p' = k /\ out' = out
                ELSE IF EscapeGood THEN p' = p + 3 /\ out' = Append(out, EscapeValue)
                ELSE p' = p + 1 /\ out' = Append(out, Equals)
    /\ UNCHANGED <<e, s, lineLength, i, c, buf, noise, m, decoded, pc>>

-----------------------------------------------------------------------------
\* No encoding at all.
Binary ==
    /\ e = "binary" /\ pc = "encode"
    /\ buf' = s /\ out' = s
    /\ pc' = "done"
    /\ UNCHANGED <<e, s, lineLength, i, c, noise, p, m, decoded>>

CReceive == e # "base64" /\ Receive /\ UNCHANGED e

QPReturn ==
    /\ e \in {"qp", "word", "foreign"} /\ pc = "decode" /\ p >= Len(buf)
    /\ pc' = "done"
    /\ UNCHANGED <<e, s, lineLength, i, c, buf, noise, p, m, decoded, out>>

CNext ==
    \/ e = "base64" /\ Next /\ UNCHANGED e
    \/ QPLineFeed \/ QPChar \/ QPFinish
    \/ \E k \in 1..(Len(buf) - 1) : QPInsert(k)
    \/ CReceive \/ QPDecode \/ QPReturn
    \/ Binary

CSpec == CInit /\ [][CNext]_cvars

-----------------------------------------------------------------------------
\* Decoding gives back what was encoded, whatever bytes it has, wherever lines
\* are broken, and although what the decoders are to ignore was added on the way.
ReadBack == pc = "done" /\ e # "foreign" => out = s

\* Stretches of the quoted-printable text without a line feed.
QPLines(b) == {l \in (1..Len(b)) \X (1..Len(b)) :
                   l[1] <= l[2] /\ \A k \in l[1]..l[2] : b[k] \notin {CR, LF}}

\* A line of base-64 is at most as long as lineLength rounded up to whole groups.
\* One of quoted-printable is at most as long as the 76 characters of RFC 2045,
\* its equals sign included, although a break moves part of it to the next one.
EncodedLinesBounded ==
    noise = 0 /\ pc = "sent" =>
        IF e = "base64" THEN LinesBounded
        ELSE \A l \in QPLines(buf) : l[2] - l[1] + 1 <= 76

\* No line that eQP ends, with a line feed of the text or with a soft break, ends
\* with a space, which mail transport may remove, although a soft break may move
\* what stood before the line feed.  A tab, and the end of a text that does not
\* end with a line feed, are left as they are.
NoSpaceBeforeBreak ==
    noise = 0 /\ pc = "sent" /\ e # "base64" =>
        \A k \in 2..Len(buf) : buf[k] \in {CR, LF} => buf[k - 1] # Space

\* The comment on eQP: "this function also makes sure that no output line starts
\* with "From " or looks like a MIME boundary".
NoBoundaryLine ==
    from /\ pc = "sent" =>
        \A k \in 2..Len(buf) :
            buf[k - 1] = LF => ~maybeBoundary(buf, k) /\ ~HasFrom(buf, k)

\* The comment on eQP: "It encodes trailing spaces, as suggested in RFC 2045".
TrailingSpacesEncoded ==
    pc = "sent" /\ e = "qp" =>
        \A k \in 1..Len(buf) :
            k = Len(buf) \/ buf[k + 1] \in {CR, LF} => buf[k] \notin {Space, Tab}

\* The comment on eQP: "In the encoded version, all line feeds are CRLF".
LineFeedsAreCRLF ==
    pc = "sent" /\ e = "qp" =>
        \A k \in 1..Len(buf) : buf[k] = LF => k > 1 /\ buf[k - 1] = CR

=============================================================================
