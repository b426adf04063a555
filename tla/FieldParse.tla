----------------------------- MODULE FieldParse -----------------------------
(***************************************************************************)
(* What the Parse functions of fields.go make of a field, given what the   *)
(* parsers below them found in its text.  WellParsed says which fields can *)
(* come out; the repairs of header.go count on it.                         *)
(*                                                                         *)
(* The address parser's answer is a record                                 *)
(*   err, addrs   firstError # nil, and the addresses                      *)
(*   ctl          the text holds a control character                       *)
(*   one          the text is one character long                           *)
(*   angle, at    the text contains "<>", "@"                              *)
(***************************************************************************)
EXTENDS Header

Field(fn, err, val) == [name |-> fn, err |-> err, val |-> val]

-----------------------------------------------------------------------------
(***************************************************************************)
(* Address fields                                                          *)
(***************************************************************************)
parseAddressList(fn, r) == Field(fn, IF r.err THEN "bad" ELSE "", r.addrs)

HasType(l, t) == \E i \in DOMAIN l : TypeOf(l[i]) = t

\* No groups.
parseMailboxList(fn, r) ==
    LET f == parseAddressList(fn, r)
    IN  IF f.err = "" /\ HasType(r.addrs, "EmptyGroup") THEN Field(fn, "bad", f.val) ELSE f

parseMailbox(fn, r) ==
    LET f == parseAddressList(fn, r)
    IN  IF f.err = "" /\ Len(r.addrs) > 1 THEN Field(fn, "bad", f.val) ELSE f

\* references(): the message-ids <a@b> of the text; what is none is passed over
\* without an error.
references(r) ==
    LET normal == {i \in DOMAIN r.addrs : TypeOf(r.addrs[i]) = "Normal"}
    IN  [r EXCEPT !.err = FALSE, !.addrs = At(r.addrs, normal)]

parseReferences(fn, r) == parseAddressList(fn, references(r))

\* Both accept exactly one address, and keep none otherwise.
parseMessageID(fn, r) ==
    IF Len(references(r).addrs) # 1 THEN Field(fn, "bad", <<>>)
    ELSE Field(fn, "", references(r).addrs)

parseContentID(fn, r) ==
    IF Len(r.addrs) # 1 \/ ~(HasType(r.addrs, "Normal") \/ HasType(r.addrs, "Local"))
    THEN Field(fn, "bad", <<>>)
    ELSE parseAddressList(fn, r)

\* A Sender without an address is no error.
parseSender(r) ==
    LET f == parseMailbox("Sender", r)
    IN  IF f.val = <<>> THEN Field("Sender", "", f.val) ELSE f

\* parseReturnPath that only looks at the error.
parseAnyReturnPath(r) ==
    LET f == parseMailbox("Return-Path", r)
    IN  IF f.err # "" THEN Field("Return-Path", "", <<>>) ELSE f

\* A Return-Path that is anything but one address or <> is emptied.
parseReturnPath(r) ==
    LET f == parseMailbox("Return-Path", r)
    IN  IF \/ f.err # "" \/ Len(f.val) # 1
           \/ ~(HasType(f.val, "Bounce") \/ HasType(f.val, "Normal"))
        THEN Field("Return-Path", "", <<>>)
        ELSE f

\* To, Cc, Bcc, Reply-To and their Resent- forms.  Two more rules, for text
\* without "@" and for source routes, apply if the field is not valid, but
\* stand where it is known to be.
parseRecipients(fn, r) ==
    LET f == parseAddressList(fn, r)
        forgive == f.err # "" /\ (r.one \/ (fn = "Cc" /\ r.ctl /\ Len(f.val) <= 1))
        NotBounce(a) == TypeOf(a) # "Bounce"
    IN  IF forgive THEN Field(fn, "", <<>>)
        ELSE IF f.err = "" /\ r.angle THEN Field(fn, "", SelectSeq(f.val, NotBounce))
        ELSE f

outlawBounce(f) == IF HasType(f.val, "Bounce") THEN Field(f.name, "No-bounce", f.val) ELSE f

RecipientNames == {"To", "Cc", "Bcc", "Reply-To", "Resent-To", "Resent-Cc", "Resent-Bcc"}

AddressField_Parse(fn, r) ==
    IF fn = "Return-Path" THEN parseReturnPath(r)
    ELSE outlawBounce(
        CASE fn = "Sender" -> parseSender(r)
          [] fn = "Resent-Sender" -> parseMailbox(fn, r)
          [] fn \in {"From", "Resent-From"} -> parseMailboxList(fn, r)
          [] fn \in RecipientNames -> parseRecipients(fn, r)
          [] fn = "Content-ID" -> parseContentID(fn, r)
          [] fn \in {"Message-ID", "Resent-Message-ID"} -> parseMessageID(fn, r)
          [] fn = "References" -> parseReferences(fn, r))

-----------------------------------------------------------------------------
(***************************************************************************)
(* Content-Type.  The text is a record                                     *)
(*   token   what precedes the first character that ends a token, or ""    *)
(*   rest    what follows it: "end", "/", "=" or "other"                   *)
(*   sub     the token after "/"                                           *)
(*   params  the parameters                                                *)
(*   junk    a boundary that parseParameters missed, or ""                 *)
(*   file    what the name or filename ends in: "jpg", "html", "other", "" *)
(***************************************************************************)
\* Content-Types of one word; "x-word" is any other that starts with "x-".
OneWord ==
    [n \in {"", "text", "sgml", "postscript", "tex", "troff", "dvi", "x-word"} |->
        CASE n \in {"", "text"} -> <<"text", "plain">>
          [] n = "sgml" -> <<"text", n>>
          [] OTHER -> <<"application", n>>]

\* The type and subtype before any guess.
Stated(c) ==
    CASE c.rest = "end" -> IF c.token \in DOMAIN OneWord THEN OneWord[c.token]
                           ELSE <<c.token, "">>
      [] c.rest = "/" -> <<c.token, c.sub>>
      [] c.rest = "=" -> <<"text", "plain">>
      [] c.rest = "other" -> <<"application", "octet-stream">>

MustGuess(c) ==
    CASE c.rest = "end" -> FALSE
      [] c.rest = "/" -> c.token = "" \/ c.sub = ""
      [] OTHER -> TRUE

Guessed(c) ==
    LET t == Stated(c)
    IN  IF ~MustGuess(c) THEN t
        ELSE IF c.file = "jpg" THEN <<"image", "jpeg">>
        ELSE IF c.file = "html" THEN <<"text", "html">>
        ELSE IF t[1] = "text" THEN <<"text", "plain">>
        ELSE <<"application", "octet-stream">>

\* A type that was overruled is kept as a parameter.
Overruled(c) ==
    \/ c.rest = "other"
    \/ /\ MustGuess(c) /\ c.file \notin {"jpg", "html"}
       /\ ~(c.file = "" /\ Stated(c) = <<"text", "">>)

TypeRead(c) ==
    LET ct == [type |-> Guessed(c)[1], subtype |-> Guessed(c)[2], params |-> c.params,
               raw |-> c.token]
    IN  IF Overruled(c) THEN addParameter(ct, "original-type", "") ELSE ct

Unbounded(ct) == ct.type = "multipart" /\ parameter(ct, "boundary") = ""

\* An appledouble without a boundary is octets.
NoAppledouble(ct) ==
    IF Unbounded(ct) /\ ct.subtype = "appledouble"
    THEN [ct EXCEPT !.type = "application", !.subtype = "octet-stream"]
    ELSE ct

MissedBoundary(ct, junk) ==
    IF Unbounded(ct) /\ junk # "" THEN addParameter(ct, "boundary", junk) ELSE ct

ContentType_Parse(c) ==
    LET ct == TypeRead(c)
        missing == "" \in {ct.type, ct.subtype}
        val == IF missing THEN ct ELSE MissedBoundary(NoAppledouble(ct), c.junk)
    IN  Field("Content-Type", IF missing \/ Unbounded(val) THEN "bad" ELSE "", val)

\* The zero value of the encoding is quoted-printable.
ContentTransferEncoding_Parse(t) ==
    LET Is(e, b) == [enc |-> e, base |-> b]
    IN  CASE t \in {"7bit", "8bit", "8bits", "binary", "unknown", "16bit"} ->
                Field("Content-Transfer-Encoding", "", Is("7bit", "7bit"))
          [] t \in {"quoted-printable", "base64"} ->
                Field("Content-Transfer-Encoding", "", Is(t, t))
          [] t \in {"x-uuencode", "uuencode"} ->
                Field("Content-Transfer-Encoding", "", Is("x-uuencode", "x-uuencode"))
          [] OTHER -> Field("Content-Transfer-Encoding", "bad", Is("quoted-printable", ""))

ContentDisposition_Parse(t, params) ==
    IF t = "" THEN Field("Content-Disposition", "bad", [disp |-> "", params |-> [n \in {} |-> ""]])
    ELSE Field("Content-Disposition", "",
               [disp |-> IF t = "inline" THEN t ELSE "attachment", params |-> params])

\* Date, given the time parseDate finds, or NoTime.
DateField_Parse(t) == Field("Date", IF t = NoTime THEN "bad" ELSE "", t)

-----------------------------------------------------------------------------
(***************************************************************************)
(* What comes out                                                          *)
(***************************************************************************)
\* The address fields: an error of the address parser may be forgiven, but
\* never so that a <> is left in a valid field other than Return-Path, or an
\* unusable address in Return-Path.
WellParsedAddresses(f) ==
    /\ f.err = "No-bounce" <=> f.name # "Return-Path" /\ HasType(f.val, "Bounce")
    /\ f.name = "Return-Path" =>
          /\ f.err = "" /\ Len(f.val) <= 1
          /\ ~HasType(f.val, "EmptyGroup") /\ ~HasType(f.val, "Local")
    /\ f.name = "Sender" => (f.err = "" => Len(f.val) <= 1) /\ (f.err # "" => f.val # <<>>)
    /\ f.name = "From" /\ f.err = "" => ~HasType(f.val, "EmptyGroup")
    /\ f.name = "Message-ID" => IF f.err = "" THEN Len(f.val) = 1 ELSE f.val = <<>>
    /\ f.name = "References" => f.err = ""

\* A Content-Type has an error for one of two reasons, a valid multipart has a
\* boundary, and the encoding of a Content-Transfer-Encoding is its text.
WellParsedMIME(f) ==
    CASE f.name = "Content-Type" ->
            f.err # "" <=> \/ "" \in {f.val.type, f.val.subtype}
                           \/ f.val.type = "multipart" /\ parameter(f.val, "boundary") = ""
      [] f.name = "Content-Transfer-Encoding" ->
            f.val = [enc |-> IF f.err = "" THEN f.val.base ELSE "quoted-printable",
                     base |-> IF f.err = "" THEN f.val.enc ELSE ""]
      [] f.name = "Content-Disposition" ->
            f.val.disp \in (IF f.err = "" THEN {"inline", "attachment"} ELSE {""})

MIMENames == {"Content-Type", "Content-Transfer-Encoding", "Content-Disposition"}

WellParsed(f) ==
    /\ f.name \in AddressNames => WellParsedAddresses(f)
    /\ f.name \in MIMENames => WellParsedMIME(f)
    /\ f.name = "Date" => (f.err = "" <=> f.val # NoTime)

=============================================================================
