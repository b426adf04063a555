---------------------------- MODULE MessageText ----------------------------
(***************************************************************************)
(* A message is parsed to a tree of parts (Message.Parse, parseMultipart,  *)
(* parseBodypart), written (Message.RFC822, appendMultipart), and what was *)
(* written is parsed and written again.                                    *)
(*                                                                         *)
(* A text is a sequence of tokens: NL (CR LF), a field, the start of a     *)
(* boundary line ("--" and the boundary), the "--" that ends one, or any   *)
(* other content of a line.  Boundaries differ in their first character,   *)
(* lines that are no boundary do not start with "--", and plain lines have *)
(* a blank.  The fields are valid, there is one of a name, and Repair and  *)
(* RepairWithBody leave them alone (see MessageHeader).  Texts are ASCII.  *)
(* Base-64 and quoted-printable text is what its decoder gives back (see   *)
(* TransferEncoding).                                                      *)
(***************************************************************************)
EXTENDS Naturals, Sequences, SequencesExt

CONSTANT Scenarios      \* records: head, the start of a text, and pieces, the sets
                        \* of what may follow as the first, second ... piece

NL == <<"nl">>
Dashes == <<"dashes">>
Delim(b) == <<"delim", b>>
Line(l) == <<"line", l>>
Field(name, value) == <<"field", name, value>>

\* Header fields.  A Content-Type has the boundary of a multipart, and a
\* Content-Transfer-Encoding both the Encoding and the text it is written from.
ContentType(type, boundary) == [name |-> "Content-Type", type |-> type, boundary |-> boundary]
CTE(Encoding, baseValue) ==
    [name |-> "Content-Transfer-Encoding", Encoding |-> Encoding, baseValue |-> baseValue]
MIMEVersion == [name |-> "MIME-Version"]

VARIABLES
    text,       \* what is parsed, and what was written
    m,          \* the message
    first,      \* the message and the text after the first round
    given,      \* the text received
    pieces,     \* the pieces that may still arrive
    pc

vars == <<text, m, first, given, pieces, pc>>

-----------------------------------------------------------------------------
(***************************************************************************)
(* Headers                                                                 *)
(***************************************************************************)
Named(h, name) == SelectSeq(h, LAMBDA f : f.name = name)
Has(h, name) == Named(h, name) # <<>>
Without(h, name) == SelectSeq(h, LAMBDA f : f.name # name)

NoType == ContentType("none", "")
TypeOf(h) == IF Has(h, "Content-Type") THEN Named(h, "Content-Type")[1] ELSE NoType
IsMultipart(h) == TypeOf(h).type \in {"multipart/mixed", "multipart/digest"}
EncodingOf(h) ==
    IF Has(h, "Content-Transfer-Encoding")
    THEN Named(h, "Content-Transfer-Encoding")[1].Encoding ELSE "binary"

\* How a field is read and written.
Read(tok) ==
    CASE tok[2] = "Content-Type" -> ContentType(tok[3][1], tok[3][2])
      [] tok[2] = "Content-Transfer-Encoding" -> CTE(tok[3][1], tok[3][1])
      [] OTHER -> [name |-> tok[2]]

Written(f) ==
    CASE f.name = "Content-Type" -> Field(f.name, <<f.type, f.boundary>>)
      [] f.name = "Content-Transfer-Encoding" -> Field(f.name, <<f.baseValue>>)
      [] OTHER -> Field(f.name, <<>>)

\* ReadHeader: lines up to the first that is no field, and a blank line.
IsField(t, k) == 2 * k - 1 <= Len(t) /\ t[2 * k - 1][1] = "field"
FieldCount(t) == CHOOSE n \in 0..Len(t) : ~IsField(t, n + 1) /\ \A k \in 1..n : IsField(t, k)
ReadHeader(t) == [k \in 1..FieldCount(t) |-> Read(t[2 * k - 1])]

\* It reads one line break after each field, even if the text ends there.
numBytes(t) ==
    2 * FieldCount(t)
    + (IF 2 * FieldCount(t) < Len(t) /\ t[2 * FieldCount(t) + 1] = NL THEN 1 ELSE 0)

AsText(h) == FlattenSeq([k \in DOMAIN h |-> <<Written(h[k]), NL>>])

\* What Simplify does to the fields modelled here.
Typed(h, default) ==
    IF /\ default = "text/plain" /\ TypeOf(h).type = "text/plain"
       /\ ~Has(h, "Content-Transfer-Encoding")
    THEN Without(h, "Content-Type")
    ELSE IF default = "message/rfc822" /\ ~Has(h, "Content-Type")
    THEN Append(h, ContentType("message/rfc822", ""))
    ELSE h

Versioned(h, mode) ==
    IF mode = "MIME" \/ ~(Has(h, "Content-Type") \/ Has(h, "Content-Transfer-Encoding"))
    THEN Without(h, "MIME-Version")
    ELSE IF Has(h, "MIME-Version") THEN h ELSE Append(h, MIMEVersion)

Simplify(h, mode, default) == Versioned(Typed(h, default), mode)

-----------------------------------------------------------------------------
(***************************************************************************)
(* Parsing.  A part that is no embedded message has message = <<>>.        *)
(***************************************************************************)
Part(h, t, data, parts, message) ==
    [Header |-> h, Text |-> t, Data |-> data, Parts |-> parts, message |-> message]

Panic == Part(<<[name |-> "panic"]>>, <<>>, <<>>, <<>>, <<>>)
Panicked(parts) == \E k \in DOMAIN parts : parts[k] = Panic

toCRLF(t) == IF t # <<>> /\ Last(t) = NL THEN t ELSE Append(t, NL)

\* Mutant: no text needs to be encoded.
needsQPNever(t) == FALSE

\* needsQP: a line of a text looks like a boundary.
needsQP(t) == \E k \in DOMAIN t : t[k][1] = "delim"

\* eQP protects such a line, or one with an equals sign, and deQP reads it back.
eQP(t) == [k \in DOMAIN t |-> IF t[k][1] \in {"delim", "quoted"} THEN <<"quoted", t[k]>> ELSE t[k]]
deQP(t) == [k \in DOMAIN t |-> IF t[k][1] = "quoted" THEN t[k][2] ELSE t[k]]

\* e64 gives lines of base-64, here one; de64 ignores what is none.
encodeCTE(t, e) ==
    CASE t = <<>> -> t
      [] e = "base64" -> <<<<"base64", t>>, NL>>
      [] e = "quoted-printable" -> eQP(t)
      [] OTHER -> t

de64(t) == FlattenSeq([k \in DOMAIN t |-> IF t[k][1] = "base64" THEN t[k][2] ELSE <<>>])

decodeCTE(t, e) ==
    CASE t = <<>> -> t
      [] e = "base64" -> de64(t)
      [] e = "quoted-printable" -> deQP(toCRLF(t))
      [] OTHER -> toCRLF(t)

WithDefault(h, default) ==
    IF Has(h, "Content-Type") THEN h ELSE Append(h, ContentType(default, ""))

\* The Encoding is set to e, and only a field that is added says so.
SetEncoding(h, e) ==
    IF Has(h, "Content-Transfer-Encoding")
    THEN [k \in DOMAIN h |->
             IF h[k].name = "Content-Transfer-Encoding" THEN CTE(e, h[k].baseValue) ELSE h[k]]
    ELSE Append(h, CTE(e, e))

Encode(h, e) == IF e = "binary" THEN Without(h, "Content-Transfer-Encoding") ELSE SetEncoding(h, e)

\* PGP data is not encoded.
DataEncoding(type, data) ==
    IF \/ type = "application/pgp-signature" /\ ~needsQP(data)
       \/ type = "application/octet-stream" /\ Line("BEGIN PGP MESSAGE") \in ToSet(data)
    THEN "binary" ELSE "base64"

TextPart(h, t, mode, default) ==
    Part(Simplify(Encode(h, IF needsQP(t) THEN "quoted-printable" ELSE "binary"), mode, default),
         t, <<>>, <<>>, <<>>)

DataPart(h, data, mode, default) ==
    Part(Simplify(Encode(h, DataEncoding(TypeOf(h).type, data)), mode, default),
         <<>>, data, <<>>, <<>>)

MultipartPart(h, data, parts, mode, default) ==
    IF Panicked(parts) THEN Panic
    ELSE Part(Simplify(h, mode, default), <<>>, data, parts, <<>>)

\* The blank lines before an embedded message.
SkipBlank(t) ==
    IF \A k \in DOMAIN t : t[k] = NL THEN <<>>
    ELSE SubSeq(t, CHOOSE k \in DOMAIN t : t[k] # NL /\ \A l \in 1..(k - 1) : t[l] = NL, Len(t))

-----------------------------------------------------------------------------
(***************************************************************************)
(* Writing.  A nil message cannot be written, which gives NoText.          *)
(***************************************************************************)
NoText == <<<<"panic">>>>
Bad(t) == \E k \in DOMAIN t : t[k] = <<"panic">>

RECURSIVE appendAnyPart(_, _), RFC822(_)

appendMultipart(h, parts) ==
    <<Delim(TypeOf(h).boundary)>>
    \o FlattenSeq([k \in DOMAIN parts |->
           <<NL>> \o AsText(parts[k].Header) \o <<NL>> \o appendAnyPart(parts[k], TypeOf(h))
           \o <<NL, Delim(TypeOf(h).boundary)>>])
    \o <<Dashes, NL>>

appendAnyPart(bp, ct) ==
    LET type == TypeOf(bp.Header).type
    IN  IF type = "message/rfc822" \/ (ct.type = "multipart/digest" /\ type = "none")
        THEN IF bp.message = <<>> THEN NoText ELSE RFC822(bp.message[1])
        ELSE IF type \in {"none", "text/plain"} THEN encodeCTE(bp.Text, EncodingOf(bp.Header))
        ELSE IF IsMultipart(bp.Header) THEN appendMultipart(bp.Header, bp.Parts)
        ELSE encodeCTE(bp.Data, EncodingOf(bp.Header))

\* A message that is no multipart writes its first part, under its own header.
Body(msg) ==
    IF IsMultipart(msg.Header) THEN appendMultipart(msg.Header, msg.Parts)
    ELSE IF msg.Parts = <<>> THEN <<>>
    ELSE appendAnyPart([msg.Parts[1] EXCEPT !.Header = msg.Header], TypeOf(msg.Header))

RFC822(msg) == AsText(msg.Header) \o <<NL>> \o Body(msg)

-----------------------------------------------------------------------------
RECURSIVE parseMultipart(_, _, _, _, _, _), parseBodypart(_, _, _, _), ParseMessage(_)

\* The message in a message/rfc822 part; its parts become those of the part.
MessagePart(h, data, msg, mode, default) ==
    IF msg = Panic \/ Bad(RFC822(msg)) THEN Panic
    ELSE Part(Simplify(h, mode, default), <<>>, data, msg.Parts, <<msg>>)

\* The part with its body decoded, and with a Content-Type.  inner is the text
\* without a leading line break, if it is not only that.
ParseAs(h, body, inner, mode, default) ==
    IF TypeOf(h).type = "text/plain" THEN TextPart(h, toCRLF(body), mode, default)
    ELSE IF IsMultipart(h)
    THEN MultipartPart(h, body,
             parseMultipart(inner, TypeOf(h).boundary, TypeOf(h).type = "multipart/digest", 1, 1, <<>>),
             mode, default)
    ELSE IF TypeOf(h).type = "message/rfc822"
    THEN IF SkipBlank(inner) = <<>> THEN Panic
         ELSE MessagePart(h, body, ParseMessage(SkipBlank(inner)), mode, default)
    ELSE DataPart(h, body, mode, default)

parseBodypart(t, h, mode, default) ==
    IF t = <<>> THEN Panic
    ELSE ParseAs(WithDefault(h, default),
                 decodeCTE(IF t = <<NL>> THEN <<>> ELSE t, EncodingOf(h)),
                 IF t[1] = NL THEN Tail(t) ELSE t, mode, default)

\* Where the scan goes on: after the rest of the line and every line break.
LineStarts(t, i) == {k \in (i + 1)..Len(t) : t[k] # NL /\ t[k - 1] = NL}
AfterLine(t, i) == IF LineStarts(t, i) = {} THEN Len(t) + 1 ELSE Min(LineStarts(t, i))

\* The text from start to the boundary at i, without the line break before it.
BoundaryBreak(t, i) == IF t[i - 1] = NL THEN i - 1 ELSE i
PartAt(t, start, i, j, digest) ==
    LET header == SubSeq(t, start, j - 1)
        from == start + numBytes(header)
    IN  IF from > BoundaryBreak(t, i) THEN Panic
        ELSE parseBodypart(SubSeq(t, from, BoundaryBreak(t, i) - 1), ReadHeader(header), "MIME",
                           IF digest THEN "message/rfc822" ELSE "text/plain")

Ended(t, i) == i > Len(t) \/ t[i + 1] = Dashes
AfterBoundary(t, i) ==
    LET j == IF i > Len(t) THEN i ELSE IF t[i + 1] = Dashes THEN i + 2 ELSE i + 1
    IN  IF j <= Len(t) /\ t[j] = NL THEN j + 1 ELSE j

\* The parts once the boundary at i is seen.
PartsWith(t, i, start, digest, parts) ==
    IF start > 1 /\ start <= Len(t)
    THEN Append(parts, PartAt(t, start, i, AfterBoundary(t, i), digest)) ELSE parts

\* Mutant: the next part starts where the last one did.
NextStartKept(t, i, start) == IF start > 1 THEN start ELSE AfterBoundary(t, i)

\* The next part starts after the boundary line.
NextStart(t, i, start) == AfterBoundary(t, i)

\* The scan stands at the start of a line, or at the end.
parseMultipart(t, divider, digest, i, start, parts) ==
    IF Panicked(parts) THEN parts
    ELSE IF i <= Len(t) /\ t[i] # Delim(divider)
    THEN parseMultipart(t, divider, digest, AfterLine(t, i), start, parts)
    ELSE IF i = Len(t) THEN <<Panic>>
    ELSE IF Ended(t, i) THEN PartsWith(t, i, start, digest, parts)
    ELSE parseMultipart(t, divider, digest, AfterLine(t, AfterBoundary(t, i)),
                        NextStart(t, i, start), PartsWith(t, i, start, digest, parts))

ParseMessage(t) ==
    LET h == ReadHeader(t)
    IN  IF numBytes(t) > Len(t) THEN Panic
        ELSE IF IsMultipart(h)
        THEN MultipartPart(h, <<>>,
                 parseMultipart(t, TypeOf(h).boundary, TypeOf(h).type = "multipart/digest", 1, 1, <<>>),
                 "RFC5322", "text/plain")
        ELSE parseBodypart(SubSeq(t, numBytes(t) + 1, Len(t)), h, "RFC5322", "text/plain")

-----------------------------------------------------------------------------
Init ==
    /\ \E sc \in Scenarios : given = sc.head /\ pieces = sc.pieces
    /\ text = <<>> /\ first = <<>>
    /\ m = Part(<<>>, <<>>, <<>>, <<>>, <<>>)
    /\ pc = "receive"

\* The environment: the text arrives, and ends, perhaps within a line.
Receive ==
    /\ pc = "receive" /\ pieces # <<>>
    /\ \E piece \in Head(pieces) : given' = given \o piece
    /\ pieces' = Tail(pieces)
    /\ UNCHANGED <<text, m, first, pc>>

EndOfText ==
    /\ pc = "receive"
    /\ text' \in IF Last(given) = NL THEN {given, Front(given)} ELSE {given}
    /\ pc' = "parse"
    /\ UNCHANGED <<m, first, given, pieces>>

Parse ==
    /\ pc = "parse"
    /\ m' = ParseMessage(text)
    /\ pc' = IF m' = Panic THEN "panic" ELSE "write"
    /\ UNCHANGED <<text, first, given, pieces>>

Write ==
    /\ pc = "write"
    /\ text' = RFC822(m)
    /\ first' = IF first = <<>> THEN <<m, text'>> ELSE first
    /\ pc' = IF Bad(text') THEN "panic" ELSE IF first = <<>> THEN "parse" ELSE "done"
    /\ UNCHANGED <<m, given, pieces>>

Next == Receive \/ EndOfText \/ Parse \/ Write

Spec == Init /\ [][Next]_vars

-----------------------------------------------------------------------------
(***************************************************************************)
(* Properties                                                              *)
(***************************************************************************)
\* The Data of a multipart or a message is its text as it was received.
RECURSIVE Content(_)
Content(part) ==
    [part EXCEPT
        !.Data = IF IsMultipart(part.Header) \/ part.message # <<>> THEN <<>> ELSE @,
        !.Parts = [k \in DOMAIN @ |-> Content(@[k])],
        !.message = [k \in DOMAIN @ |-> Content(@[k])]]

\* Some part has no text at all, which parseBodypart cannot read.
RECURSIVE HasEmpty(_)
HasEmpty(part) ==
    \/ \E k \in DOMAIN part.Parts : HasEmpty(part.Parts[k])
    \/ part.message # <<>> /\ HasEmpty(part.message[1])
    \/ ~IsMultipart(part.Header) /\ part.Text = <<>> /\ part.Data = <<>>

\* The comment on RFC822: "The return value is a canonical expression of the
\* message, not whatever was parsed."
Canonical ==
    /\ pc = "panic" => first = <<>>
    /\ pc = "done" => Content(m) = Content(first[1]) /\ text = first[2]

\* What RFC822 writes of a message whose parts have some text is a canonical
\* form: parsing it does not panic, gives the same tree, with the same texts,
\* data and headers, and that is written the same way, whatever lines of the
\* received text looked like boundaries, and wherever it was cut off.
CanonicalForm == first # <<>> /\ ~HasEmpty(first[1]) => Canonical

RECURSIVE Leaves(_)
Leaves(part) ==
    IF part.message # <<>> THEN Leaves(part.message[1])
    ELSE part.Text \o (IF IsMultipart(part.Header) THEN <<>> ELSE part.Data)
         \o FlattenSeq([k \in DOMAIN part.Parts |-> Leaves(part.Parts[k])])

Decoded(t) == FlattenSeq([k \in DOMAIN t |-> IF t[k][1] = "base64" THEN t[k][2] ELSE <<t[k]>>])
Lines(t) == SelectSeq(Decoded(t), LAMBDA tok : tok[1] = "line")

RECURSIVE IsSubsequence(_, _)
IsSubsequence(u, t) ==
    \/ u = <<>>
    \/ /\ t # <<>>
       /\ IsSubsequence(IF Head(u) = Head(t) THEN Tail(u) ELSE u, Tail(t))

\* No line of the received text gets into two parts, or into an earlier part
\* than a line before it, at any depth of nesting.
LeavesInOrder == pc = "write" => IsSubsequence(Lines(Leaves(m)), Lines(given))

=============================================================================
