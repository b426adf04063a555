----------------------------- MODULE PartHeader -----------------------------
(***************************************************************************)
(* What Part.parseBodypart does to the header of the part while it decides *)
(* how the body is to be stored: the Content-Transfer-Encoding and the     *)
(* charset parameter are made to fit.  body.charset is the charset that    *)
(* parseBodypart settles on for a text, body.noEquals, body.needsQP and    *)
(* body.pgp what it asks of the text.  An encoding is [enc, base]: the     *)
(* Encoding the body is stored with and the baseValue that is written out; *)
(* "7bit" stands for BinaryEncoding.                                       *)
(***************************************************************************)
EXTENDS HeaderRepairBody

\* c-t-e: q-p and another one on a body that both leave alone.
DropEquivalentEncodings(h, body) ==
    LET ctes == Named(h, "Content-Transfer-Encoding")
    IN  IF /\ body.noEquals /\ Cardinality(ctes) > 1
           /\ \E p \in ctes : h.Fields[p].val.enc = "quoted-printable"
        THEN RemoveAllNamed(h, "Content-Transfer-Encoding") ELSE h

AddDefaultType(h) ==
    LET Type(t, s) == [type |-> t, subtype |-> s, params |-> [n \in {} |-> ""], raw |-> ""]
    IN  IF ContentType(h) # Nil THEN h
        ELSE AddField(h, "Content-Type",
                      IF h.defaultType = "text/plain" THEN Type("text", "plain")
                      ELSE Type("message", "rfc822"))

\* cte.Encoding = e on the first Content-Transfer-Encoding, or a new one.
UseEncoding(h, e) ==
    LET p == field(h, "Content-Transfer-Encoding", 0)
    IN  IF p = Nil THEN AddField(h, "Content-Transfer-Encoding", Encoding(e, e))
        ELSE SetField(h, p, [h.Fields[p] EXCEPT !.val.enc = e])

\* A Subject that did not parse is decoded with the charset of the body.
DecodeSubjects(h, body) ==
    [h EXCEPT !.Fields =
        [p \in DOMAIN h.Fields |->
            IF body.charset = "gb2312" /\ p \in InvalidOnes(h, "Subject")
            THEN [h.Fields[p] EXCEPT !.val = "decoded"] ELSE h.Fields[p]]]

EncodeText(h, body) ==
    LET p == ContentType(h)
        ct == h.Fields[p].val
        labelled == IF body.charset = "us-ascii" THEN removeParameter(ct, "charset")
                    ELSE addParameter(ct, "charset", body.charset)
        k == SetField(DecodeSubjects(h, body), p, [h.Fields[p] EXCEPT !.val = labelled])
    IN  IF body.needsQP THEN UseEncoding(k, "quoted-printable")
        ELSE RemoveAllNamed(k, "Content-Transfer-Encoding")

EncodeData(h, body) ==
    IF IsType(h, "multipart") \/ IsType(h, "message") THEN h
    ELSE IF body.pgp /\ IsType(h, "application")
    THEN RemoveAllNamed(h, "Content-Transfer-Encoding")
    ELSE UseEncoding(h, "base64")

\* The header once it has a type.
Typed(h, body) == AddDefaultType(DropEquivalentEncodings(h, body))

\* rfc5322[0] of an empty body; a body parsed according to its type.
PartPanics(h, body) ==
    LET ct == First(Typed(h, body), "Content-Type").val
    IN  \/ body.kind = "empty"
        \/ body.trap = "html" /\ IsHtml(ct)
        \/ /\ body.trap = "nested"
           /\ ct.type = "multipart" \/ (ct.type = "message" /\ ct.subtype = "rfc822")

\* parseBodypart up to its call of Simplify.
parseBodypart(h, body) ==
    LET k == Typed(h, body)
    IN  IF IsType(k, "text") THEN EncodeText(k, body) ELSE EncodeData(k, body)

=============================================================================
