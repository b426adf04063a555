--------------------------- MODULE HeaderSimplify ---------------------------
(***************************************************************************)
(* Header.Simplify.  Each definition is one rule, and Simplify composes    *)
(* them in the order of the code.                                          *)
(***************************************************************************)
EXTENDS Header

Has(h, fn) == Named(h, fn) # {}

\* Apply Uniquify to the first field of each address field name.
UniquifyAll(h) ==
    [h EXCEPT !.Fields =
        [p \in DOMAIN h.Fields |->
            LET f == h.Fields[p]
            IN  IF f.name \in addressFieldNames /\ p = field(h, f.name, 0)
                THEN [f EXCEPT !.val = Uniquified(@)]
                ELSE f]]

-----------------------------------------------------------------------------
(***************************************************************************)
(* The MIME fields.  hadCTE tells whether there was a Content-Transfer-    *)
(* Encoding before DropBinary: the code's variable cte is not cleared when *)
(* the field is removed.                                                   *)
(***************************************************************************)
DropEmptyDescription(h) ==
    IF Has(h, "Content-Description") /\ h.Fields[field(h, "Content-Description", 0)].val = ""
    THEN RemoveAllNamed(h, "Content-Description") ELSE h

DropBinary(h) ==
    IF /\ Has(h, "Content-Transfer-Encoding")
       /\ h.Fields[field(h, "Content-Transfer-Encoding", 0)].val.enc = "7bit"
    THEN RemoveAllNamed(h, "Content-Transfer-Encoding") ELSE h

DropInline(h) ==
    LET cdi == h.Fields[field(h, "Content-Disposition", 0)].val
    IN  IF /\ Has(h, "Content-Disposition")
           /\ h.mode = "RFC5322" /\ (ContentType(h) = Nil \/ IsType(h, "text"))
           /\ cdi.disp = "inline" /\ DOMAIN cdi.params = {}
        THEN RemoveAllNamed(h, "Content-Disposition") ELSE h

\* DefaultContentType that takes text/plain for everyone's default.
DropPlainType(h, hadCTE) ==
    IF /\ Has(h, "Content-Type") /\ ~hadCTE /\ IsType(h, "text")
       /\ DOMAIN h.Fields[ContentType(h)].val.params = {}
    THEN RemoveAllNamed(h, "Content-Type") ELSE h

DefaultContentType(h, hadCTE) ==
    LET ct == h.Fields[ContentType(h)].val
    IN  IF Has(h, "Content-Type")
        THEN IF /\ DOMAIN ct.params = {} /\ ~hadCTE
                /\ ~Has(h, "Content-Disposition") /\ ~Has(h, "Content-Description")
                /\ h.defaultType = "text/plain"
                /\ ct.type = "text" /\ ct.subtype = "plain"
             THEN RemoveAllNamed(h, "Content-Type") ELSE h
        ELSE IF h.defaultType = "message/rfc822"
        THEN AddField(h, "Content-Type",
                      [type |-> "message", subtype |-> "rfc822",
                       params |-> [n \in {} |-> ""], raw |-> ""])
        ELSE h

\* FixMIMEVersion that does not look for a MIME-Version first.
AddMIMEVersion(h, hadCTE) ==
    IF h.mode = "MIME" THEN RemoveAllNamed(h, "MIME-Version")
    ELSE AddField(h, "MIME-Version", "1.0")

FixMIMEVersion(h, hadCTE) ==
    IF \/ h.mode = "MIME"
       \/ /\ ~hadCTE
          /\ \A fn \in {"Content-Type", "Content-Description", "Content-Disposition",
                        "Content-Location", "Content-Base"} : ~Has(h, fn)
    THEN RemoveAllNamed(h, "MIME-Version")
    ELSE IF Has(h, "MIME-Version") THEN h
    ELSE AddField(h, "MIME-Version", "1.0")

DropCharset(h) ==
    LET p == ContentType(h)
    IN  IF \E t \in {"multipart", "message", "image", "audio", "video"} : IsType(h, t)
        THEN SetField(h, p, [h.Fields[p] EXCEPT !.val = removeParameter(@, "charset")])
        ELSE h

SimplifyMIME(h) ==
    LET described == DropEmptyDescription(h)
        hadCTE == Has(described, "Content-Transfer-Encoding")
        typed == DefaultContentType(DropInline(DropBinary(described)), hadCTE)
    IN  DropCharset(FixMIMEVersion(typed, hadCTE))

-----------------------------------------------------------------------------
(***************************************************************************)
(* The address fields                                                      *)
(***************************************************************************)
\* Errors-To holds an address or nothing; ignore its case.
DropErrorsTo(h) ==
    LET rp == AddressesOf(h, "Return-Path")
        et == AddressesOf(h, "Errors-To")
    IN  IF /\ Has(h, "Errors-To") /\ Len(rp) = 1
           /\ [i \in DOMAIN et |-> UniquifyKey(et[i])] = <<UniquifyKey(rp[1])>>
        THEN RemoveAllNamed(h, "Errors-To") ELSE h

\* DropCopyOfFrom that compares the two lists the other way round.
DropSubsetOfFrom(h, fn) ==
    IF /\ AddressesOf(h, fn) # <<>>
       /\ Keys(AddressesOf(h, fn)) \subseteq Keys(AddressesOf(h, "From"))
    THEN RemoveAllNamed(h, fn) ELSE h

\* A Reply-To or Sender that is the same as From.
DropCopyOfFrom(h, fn) ==
    IF sameAddresses(AddressesOf(h, "From"), AddressesOf(h, fn))
    THEN RemoveAllNamed(h, fn) ELSE h

\* Every field of these names goes if the first of them has no address.
DroppedWhenEmpty == {"Message-ID", "Sender", "Return-Path", "To", "Cc", "Bcc", "Reply-To"}

DropEmpty(h) ==
    Without(h, {p \in DOMAIN h.Fields :
                   /\ h.Fields[p].name \in DroppedWhenEmpty
                   /\ AddressesOf(h, h.Fields[p].name) = <<>>})

SimplifyAddresses(h) ==
    DropEmpty(DropCopyOfFrom(DropCopyOfFrom(DropErrorsTo(h), "Reply-To"), "Sender"))

\* Return-Path is written to compare it with Errors-To, Message-ID to see if it
\* is empty.
SimplifyPanics(h) ==
    LET rp == AddressesOf(UniquifyAll(h), "Return-Path")
    IN  /\ Valid(h)
        /\ \/ Has(h, "Errors-To") /\ Len(rp) = 1 /\ Unwritable(rp[1])
           \/ Has(h, "Message-ID") /\ WritePanics(h.Fields[field(h, "Message-ID", 0)])

Simplify(h) ==
    IF Valid(h) THEN SimplifyAddresses(SimplifyMIME(UniquifyAll(verify(h)))) ELSE verify(h)

=============================================================================
