-------------------------- MODULE HeaderRepairBody --------------------------
(***************************************************************************)
(* The rules of Header.RepairWithBody, in the order in which it applies    *)
(* them, after RemoveIdentical (which it shares with Repair).  occ is the  *)
(* number of fields of each name when RepairWithBody started.  A rule that *)
(* can fail with a run-time panic has a companion predicate ...Panics.     *)
(*                                                                         *)
(* The body is reduced to what the rules ask of it, a record               *)
(*   kind     "empty", "blank" (white space only) or "text"                *)
(*   html     it starts with <!doctype or <html                            *)
(*   lines    the candidate boundary lines "--..." in order, without "--"  *)
(*   cut      the scan for candidates runs off the end of the body         *)
(*   found    the boundaries b for which "\n--b" occurs                    *)
(*   base64   more than five lines, all equally long                       *)
(*   report   it is a delivery report that names an MTA and a recipient    *)
(*   trap     "nested" if it cannot be parsed as a multipart or a message  *)
(*            without a panic, "html" if guessHtmlCodec panics, or "none"  *)
(*   noEquals, needsQP, pgp   what parseBodypart asks (module PartHeader)  *)
(* and, although it says more of the message than of its body,             *)
(*   odd      the texts in it that the parsers below the rules panic on:   *)
(*            "from" if nothing but white space is left of the text of     *)
(*            From without its quotes or angle brackets, "report" if a     *)
(*            line of the report, or a value in it, is blank or makes      *)
(*            NewAddressParser panic, "word" if the first word of an       *)
(*            X-From-Line or of a receipt field that has no address does   *)
(***************************************************************************)
EXTENDS HeaderRepair, FieldParse

CONSTANTS
    Now,                \* time.Now()
    Sensible,           \* localparts that localpartIsSensible accepts
    BadSubjects,        \* subjects that are too long or not ASCII
    EndOf(_),           \* the boundary b followed by "--"
    LongLines,          \* candidate lines of more than 70 characters
    Untrimmed,          \* parameter values that simplify changes
    Encodings,          \* values that parse as a Content-Transfer-Encoding
    DomainShape(_),     \* domain -> [len, dots]: length, indices of "."
    WithoutLabel(_),    \* the domain after its first "."
    PostmasterName(_),  \* display name for the unnamed user of a domain
    Reread(_)           \* what NewHeaderField finds in the text of an address:
                        \* [panics, err, addrs]

\* The addresses that the repairs make up are addresses and can be written, the
\* present is a time, the empty domain is empty, and reading an address again
\* fails or gives a list of addresses.
ASSUME RepairAssumption ==
    /\ {"postmaster", "invalid"} \subseteq Localparts /\ "invalid.invalid" \in Domains
    /\ \A d \in Domains : WithoutLabel(d) \in Domains /\ PostmasterName(d) \in Names
    /\ Now \in Nat /\ DomainShape("").len = 0
    /\ (Sensible \cup {"postmaster", "invalid"}) \cap DotEnded = {}
    /\ \A a \in Address :
          LET r == Reread(a)
          IN  /\ r = [panics |-> r.panics, err |-> r.err, addrs |-> r.addrs]
              /\ r.panics \in BOOLEAN /\ r.err \in BOOLEAN /\ r.addrs \in Seq(Address)

First(h, fn) == h.Fields[field(h, fn, 0)]

-----------------------------------------------------------------------------
(***************************************************************************)
(* Date.  The condition "no Date, or an invalid one, or h.Date() != nil"   *)
(* holds for every RFC5322 header.                                         *)
(***************************************************************************)
\* Format(time.RFC822Z) has no seconds.
ToMinute(t) == (t \div 60) * 60

NoDateField == -2
BlankTime == -3     \* white space, or no text at all, where a Received should
                    \* have its date

\* What ReadHeader adds to a header: addresses are a list, and the date of a
\* Received is a time.
ReadShape(f) ==
    /\ FieldShape(f)
    /\ f.name \in AddressNames \cup {"Errors-To", "X-From-Line", "Return-Receipt-To",
                                   "Disposition-Notification-To"}
       => f.val \in Seq(Address)
    /\ f.name = "Received" => f.val \in Nat \cup {NoTime, BlankTime}

\* The text after the last ";" of each Received, as parseDate reads it.
ReceivedDates(h) ==
    {h.Fields[p].val : p \in Named(h, "Received")} \ {NoTime, BlankTime}

\* The enclosing parts, innermost first, each given by its header's Date:
\* NoDateField without such a field (or without a header), NoTime if it did
\* not parse.  Date() asserts the type of a nil interface when there is none.
EnclosingDate(parents) ==
    LET stops == {i \in DOMAIN parents : parents[i] # NoTime}
    IN  IF stops = {} THEN NoTime ELSE parents[NthOf(stops, 0)]

\* parseDate calls simplify, which fails on white space.
DatePanics(h, parents) ==
    /\ h.mode = "RFC5322"
    /\ \/ \E p \in Named(h, "Received") : h.Fields[p].val = BlankTime
       \/ ReceivedDates(h) = {} /\ EnclosingDate(parents) = NoDateField

\* The oldest Received date, else that of an enclosing part, else the present
\* if there is no Date field at all.
SensibleDate(h, occ, parents) ==
    IF ReceivedDates(h) # {}
    THEN CHOOSE t \in ReceivedDates(h) : \A u \in ReceivedDates(h) : t <= u
    ELSE IF EnclosingDate(parents) # NoTime THEN EnclosingDate(parents)
    ELSE IF occ["Date"] = 0 THEN Now
    ELSE NoTime

FixDate(h, occ, parents) ==
    IF h.mode = "RFC5322" /\ SensibleDate(h, occ, parents) # NoTime
    THEN AddField(h, "Date", ToMinute(SensibleDate(h, occ, parents)))
    ELSE h

-----------------------------------------------------------------------------
(***************************************************************************)
(* From, when it is missing                                                *)
(***************************************************************************)
\* The fields whose addresses the rules take for a From.
ReceiptNames == {"Return-Receipt-To", "Disposition-Notification-To"}
StandInNames == {"Return-Path", "Sender", "X-From-Line"} \cup ReceiptNames
FromSources == {"From"} \cup StandInNames

\* The From that h.Add(From, a.toString()) makes: the address is written, and
\* what was written is parsed again.
FromReread(a) == outlawBounce(parseMailboxList("From", Reread(a)))

AddFrom(h, a) == addField(h, FromReread(a))

AddFromPanics(a) == Unwritable(a) \/ Reread(a).panics

\* The word that should be an address is parsed, and assertSingleAddress writes
\* the addresses that are not what it expects into its error.
WordPanics(l, body) ==
    \/ l = <<>> /\ "word" \in body.odd
    \/ \E i \in DOMAIN l : TypeOf(l[i]) = "Local" /\ Unwritable(l[i])

HasNormal(l) == l # <<>> /\ TypeOf(l[1]) = "Normal"

\* StandIn that also takes the address replies should go to.
StandInReplyTo(h) ==
    IF HasNormal(AddressesOf(h, "Return-Path")) THEN AddressesOf(h, "Return-Path")
    ELSE IF HasNormal(AddressesOf(h, "Sender")) THEN AddressesOf(h, "Sender")
    ELSE AddressesOf(h, "Reply-To")

\* The addresses that stand in for a missing From: the loop over the
\* enclosing parts looks at this header every time.
StandIn(h) ==
    IF HasNormal(AddressesOf(h, "Return-Path")) THEN AddressesOf(h, "Return-Path")
    ELSE IF HasNormal(AddressesOf(h, "Sender")) THEN AddressesOf(h, "Sender")
    ELSE AddressesOf(h, "X-From-Line")

AddMissingFrom(h, occ) ==
    IF occ["From"] = 0 /\ h.mode = "RFC5322" /\ StandIn(h) # <<>>
    THEN AddFrom(h, StandIn(h)[1])
    ELSE h

AddMissingFromPanics(h, occ, body) ==
    /\ occ["From"] = 0 /\ h.mode = "RFC5322"
    /\ \/ /\ ~HasNormal(AddressesOf(h, "Return-Path")) /\ ~HasNormal(AddressesOf(h, "Sender"))
          /\ Named(h, "X-From-Line") # {} /\ WordPanics(AddressesOf(h, "X-From-Line"), body)
       \/ StandIn(h) # <<>> /\ AddFromPanics(StandIn(h)[1])

\* Return-Receipt-To and Disposition-Notification-To, and those with an address.
ReceiptQueries(h) == {p \in DOMAIN h.Fields : h.Fields[p].name \in ReceiptNames}
ReceiptFields(h) == {p \in ReceiptQueries(h) : h.Fields[p].val # <<>>}
ReceiptAddress(h) == h.Fields[NthOf(ReceiptFields(h), 0)].val[1]

\* UseReceiptAddress that does not ask whether From is good.
PreferReceiptAddress(h) ==
    IF h.mode = "RFC5322" /\ ReceiptFields(h) # {}
    THEN AddFrom(RemoveAllNamed(h, "From"), ReceiptAddress(h))
    ELSE h

NoFrom(h) ==
    /\ h.mode = "RFC5322"
    /\ \/ field(h, "From", 0) = Nil
       \/ First(h, "From").err # "" /\ First(h, "From").val = <<>>

\* The first of them that has an address.
UseReceiptAddress(h) ==
    IF NoFrom(h) /\ ReceiptFields(h) # {}
    THEN AddFrom(RemoveAllNamed(h, "From"), ReceiptAddress(h))
    ELSE h

UseReceiptPanics(h, body) ==
    /\ NoFrom(h)
    /\ \/ \E p \in ReceiptQueries(h) :
             /\ \A q \in ReceiptFields(h) : p <= q
             /\ WordPanics(h.Fields[p].val, body)
       \/ ReceiptFields(h) # {} /\ AddFromPanics(ReceiptAddress(h))

-----------------------------------------------------------------------------
(***************************************************************************)
(* Received and the fields that are best dropped                           *)
(***************************************************************************)
\* The code asks whether the header, not the field, is valid.
DropReceived(h, occ) ==
    IF occ["Received"] = 0 \/ Named(h, "Received") = {} THEN h
    ELSE IF Valid(h) THEN verify(h)
    ELSE RemoveAllNamed(verify(h), "Received")

DroppableNames == {"Content-Location", "Content-Disposition", "Content-ID", "Message-ID"}

DropInvalid(h, occ) ==
    Without(h, UNION {InvalidOnes(h, fn) : fn \in DroppableNames})

\* Keep the first valid Sender that differs from From.
ChooseSender(h, occ) ==
    LET good == {p \in ValidOnes(h, "Sender") :
                    ~sameAddresses(h.Fields[p].val, AddressesOf(h, "From"))}
    IN  IF occ["Sender"] > 1 /\ good # {}
        THEN Without(h, Named(h, "Sender") \ {NthOf(good, 0)})
        ELSE h

\* The variable seen is never set, so only the bad ones go.
ChooseSubject(h, occ) ==
    LET bad == {p \in Named(h, "Subject") : h.Fields[p].val \in BadSubjects}
    IN  IF occ["Subject"] > 1 /\ Cardinality(bad) < occ["Subject"]
        THEN Without(h, bad)
        ELSE h

-----------------------------------------------------------------------------
(***************************************************************************)
(* Content-Type                                                            *)
(***************************************************************************)
\* The Content-Type is an unparsable multipart whose boundary is unknown.
NeedsBoundary(h, occ, body) ==
    /\ occ["Content-Type"] > 0 /\ body.kind # "empty"
    /\ IsType(h, "multipart") /\ First(h, "Content-Type").err # ""
    /\ parameter(First(h, "Content-Type").val, "boundary") = ""

\* What the candidates after the first say about it.
EndsAt(lines, i) == lines[i] = EndOf(lines[1])
Confuses(lines, i) == lines[i] \notin {lines[1], EndOf(lines[1])} \cup LongLines

\* The index of the candidate at which the scan stops, or 0.
StopsAt(lines) ==
    NthOf({i \in 2..Len(lines) : EndsAt(lines, i) \/ Confuses(lines, i)}, 0)

GuessBoundaryPanics(h, occ, body) ==
    NeedsBoundary(h, occ, body) /\ StopsAt(body.lines) = 0 /\ body.cut

\* GuessBoundary that takes the end of the multipart for a second boundary.
GuessUnended(h, occ, body) ==
    LET ct == First(h, "Content-Type")
    IN  IF NeedsBoundary(h, occ, body) /\ body.lines # <<>> /\ StopsAt(body.lines) = 0
        THEN SetField(h, ContentType(h),
                      [ct EXCEPT !.err = "",
                                 !.val = addParameter(@, "boundary", body.lines[1])])
        ELSE h

GuessBoundary(h, occ, body) ==
    LET lines == body.lines
        ct == First(h, "Content-Type")
    IN  IF /\ NeedsBoundary(h, occ, body) /\ lines # <<>>
           /\ StopsAt(lines) = 0 \/ EndsAt(lines, StopsAt(lines))
        THEN SetField(h, ContentType(h),
                      [ct EXCEPT !.err = "",
                                 !.val = addParameter(@, "boundary", lines[1])])
        ELSE h

IsPlain(ct) == ct.type = "text" /\ ct.subtype = "plain"
IsHtml(ct) == ct.type = "text" /\ ct.subtype = "html"

\* h.field(ContentTypeFieldName, 1) may be gone since the fields were counted.
DropPlainPanics(h, occ) == occ["Content-Type"] = 2 /\ Occurrences(h, "Content-Type") < 2

DropPlain(h, occ) ==
    LET two == {field(h, "Content-Type", 0), field(h, "Content-Type", 1)}
        ct(p) == h.Fields[p].val
        keep == {p \in two : ~IsPlain(ct(p)) /\ ~IsHtml(ct(p))}
    IN  IF /\ occ["Content-Type"] = 2
           /\ \E p \in two : IsPlain(ct(p))
           /\ keep # {}
        THEN Without(h, Named(h, "Content-Type") \ keep)
        ELSE h

\* Good, bad or neutral, given the body.
Grade(f, body) ==
    LET b == parameter(f.val, "boundary")
    IN  CASE f.err # "" -> "bad"
          [] f.err = "" /\ IsHtml(f.val) -> IF body.html THEN "good" ELSE "bad"
          [] f.err = "" /\ f.val.type = "multipart" ->
                IF b # "" /\ b \notin Untrimmed /\ b \in body.found THEN "good" ELSE "bad"
          [] OTHER -> "neutral"

\* simplify fails on a nonempty string of white space: the body, or the
\* boundary.
GradeTypesPanics(h, occ, body) ==
    /\ occ["Content-Type"] > 1
    /\ \E p \in ValidOnes(h, "Content-Type") :
          LET ct == h.Fields[p].val
          IN  \/ IsHtml(ct) /\ body.kind = "blank"
              \/ ct.type = "multipart" /\ parameter(ct, "boundary") = " "

\* RemoveAllNamed(f.Name()) and addField(f): f becomes the last field.
OnlyThis(h, f) == addField(RemoveAllNamed(h, f.name), f)

GradeTypes(h, occ, body) ==
    LET Graded(g) == {p \in Named(h, "Content-Type") : Grade(h.Fields[p], body) = g}
    IN  IF occ["Content-Type"] <= 1 THEN h
        ELSE IF Graded("good") # {}
        THEN OnlyThis(h, h.Fields[NthOf(Graded("good"), 0)])
        ELSE IF Cardinality(Graded("neutral")) = 1
        THEN OnlyThis(h, h.Fields[NthOf(Graded("neutral"), 0)])
        ELSE h

\* All of several Content-Types are text/html: keep the first.
OneHtml(h, occ) ==
    IF /\ occ["Content-Type"] > 1
       /\ \A p \in Named(h, "Content-Type") :
             h.Fields[p].err = "" /\ IsHtml(h.Fields[p].val)
    THEN OnlyThis(h, First(h, "Content-Type"))
    ELSE h

-----------------------------------------------------------------------------
(***************************************************************************)
(* From and Sender, when they are there but bad                            *)
(***************************************************************************)
BadFrom(h) == First(h, "From").err # ""

\* from.Addresses = as; from.err = nil
SetFrom(h, as) ==
    SetField(h, field(h, "From", 0), [First(h, "From") EXCEPT !.val = as, !.err = ""])

\* Keep the good addresses of a From that did not parse.
SalvageFrom(h, occ) ==
    LET Good(a) == TypeOf(a) = "Normal" /\ a.lp \in Sensible
        from == First(h, "From").val
        good == At(from, {i \in DOMAIN from : Good(from[i])})
    IN  IF occ["From"] = 1 /\ BadFrom(h) /\ good # <<>> THEN SetFrom(h, good) ELSE h

SalvagePanics(h, occ) ==
    /\ occ["From"] = 1 /\ BadFrom(h)
    /\ \E i \in DOMAIN First(h, "From").val :
          LET a == First(h, "From").val[i] IN TypeOf(a) = "Normal" /\ Unwritable(a)

\* No field that is not Received stands between two that are.
UnbrokenReceived(h) ==
    \A p, q \in Named(h, "Received") : \A r \in DOMAIN h.Fields :
        p < r /\ r < q => r \in Named(h, "Received")

\* The first address of the first field of this name, if that is usable.
Usable(h, fn) ==
    /\ field(h, fn, 0) # Nil
    /\ First(h, fn).err = "" /\ First(h, fn).val # <<>>
    /\ TypeOf(First(h, fn).val[1]) # "Bounce"

FromFromSender(h, occ) ==
    IF /\ occ["From"] = 1 /\ (occ["Sender"] = 1 \/ occ["Return-Path"] = 1)
       /\ BadFrom(h) /\ UnbrokenReceived(h)
       /\ Usable(h, "Return-Path") \/ Usable(h, "Sender")
    THEN SetFrom(h, <<First(h, IF Usable(h, "Return-Path") THEN "Return-Path"
                               ELSE "Sender").val[1]>>)
    ELSE h

\* Of several Sender addresses keep the last if only its domain differs.
LastSender(h) ==
    LET as == AddressesOf(h, "Sender")
        n == Len(as)
        Same(i) == ToTitle(as[i].dom) = ToTitle(as[1].dom)
    IN  IF n > 1 /\ (\A i \in 1..(n - 1) : Same(i)) /\ ~Same(n)
        THEN SetField(h, field(h, "Sender", 0),
                      [First(h, "Sender") EXCEPT !.val = <<as[n]>>, !.err = ""])
        ELSE h

\* A delivery report without a usable From.
ReportWithoutFrom(h) ==
    /\ h.mode = "RFC5322"
    /\ field(h, "From", 0) = Nil \/ First(h, "From").err = "No-bounce"
    /\ IsType(h, "multipart") /\ First(h, "Content-Type").val.subtype = "report"
    /\ parameter(First(h, "Content-Type").val, "report-type") = "delivery-status"

\* The body is parsed as a multipart, and the lines of the report are simplified.
ReportPanics(h, body) ==
    ReportWithoutFrom(h) /\ (body.trap = "nested" \/ "report" \in body.odd)

\* Inside the loop over the parts of the report h is the header of the part,
\* so the postmaster address goes into a part that is thrown away.
ReportFrom(h, body) == h

\* <> as From: postmaster@ the domain of the Message-ID.
BounceFrom(h, occ) ==
    /\ occ["From"] = 1 /\ occ["Message-ID"] = 1 /\ BadFrom(h)
    /\ Len(First(h, "From").val) = 1 /\ TypeOf(First(h, "From").val[1]) = "Bounce"

\* Where the top-level domain starts, or -1 when an index becomes negative.
TopLevel(d) ==
    LET n == d.len
        Dot(k) == k \in d.dots
        one == IF n < 3 THEN -1 ELSE IF Dot(n - 3) THEN n - 3
               ELSE IF n < 4 THEN -1 ELSE IF Dot(n - 4) THEN n - 4 ELSE n
    IN  IF one \in {-1, n} THEN one
        ELSE IF one < 3 THEN -1 ELSE IF Dot(one - 3) THEN one - 3
        ELSE IF one < 4 THEN -1 ELSE IF Dot(one - 4) THEN one - 4 ELSE one

MessageIDDomain(h) ==
    IF AddressesOf(h, "Message-ID") = <<>> THEN "" ELSE AddressesOf(h, "Message-ID")[1].dom

PostmasterPanics(h, occ) ==
    BounceFrom(h, occ) /\ TopLevel(DomainShape(MessageIDDomain(h))) = -1

Postmaster(h, occ) ==
    LET dom == MessageIDDomain(h)
        d == DomainShape(dom)
        dot == IF d.dots = {} THEN -1 ELSE NthOf(d.dots, 0)
        tld == TopLevel(d)
        shorter == 0 <= dot /\ dot < tld
        victim == IF shorter THEN WithoutLabel(dom) ELSE dom
    IN  IF BounceFrom(h, occ) /\ tld < d.len /\ victim # "localhost"
        THEN SetFrom(h, <<NewAddress(PostmasterName(dom), "postmaster", victim)>>)
        ELSE h

\* The last resort.  The display name salvaged from the text of the field is
\* left out.
UnknownAddress == NewAddress("", "invalid", "invalid.invalid")

\* UseInvalid that needs a From to put the address into.
ReplaceInvalid(h) ==
    IF /\ h.mode = "RFC5322" /\ field(h, "From", 0) # Nil
       /\ First(h, "From").err # ""
    THEN SetFrom(h, <<UnknownAddress>>)
    ELSE h

Hopeless(h) ==
    \/ BadFrom(h) /\ First(h, "From").val = <<>>
    \/ First(h, "From").err = "No-bounce"

UseInvalid(h) ==
    IF h.mode # "RFC5322" THEN h
    ELSE IF field(h, "From", 0) = Nil THEN AddField(h, "From", <<UnknownAddress>>)
    ELSE IF Hopeless(h) THEN SetFrom(h, <<UnknownAddress>>)
    ELSE h

\* The display name is sought in the text of From, if it was in the header that
\* was read: the text of an address that AddFrom wrote is harmless.
UseInvalidPanics(h, read, body) ==
    /\ h.mode = "RFC5322" /\ field(h, "From", 0) # Nil /\ Hopeless(h)
    /\ field(h, "From", 0) = field(read, "From", 0) /\ "from" \in body.odd

DropReplyTo(h, occ) ==
    IF /\ occ["From"] > 0 /\ occ["Reply-To"] > 0
       /\ ~BadFrom(h) /\ First(h, "From").val # <<>>
       /\ First(h, "Reply-To").err # ""
    THEN RemoveAllNamed(h, "Reply-To")
    ELSE h

-----------------------------------------------------------------------------
(***************************************************************************)
(* Content-Transfer-Encoding and the rest                                  *)
(***************************************************************************)
Encoding(e, base) == [enc |-> e, base |-> base]

\* GuessEncoding that looks at the first field only.
GuessOneEncoding(h, occ, body) ==
    LET none == RemoveAllNamed(h, "Content-Transfer-Encoding")
        cte == field(h, "Content-Transfer-Encoding", 0)
    IN  IF occ["Content-Transfer-Encoding"] = 0 \/ cte = Nil \/ h.Fields[cte].err = ""
        THEN h
        ELSE IF body.base64
        THEN AddField(none, "Content-Transfer-Encoding", Encoding("base64", "base64"))
        ELSE none

\* "If c-t-e is bad, we try to detect."
GuessEncoding(h, occ, body) ==
    LET none == RemoveAllNamed(h, "Content-Transfer-Encoding")
        ctes == Named(h, "Content-Transfer-Encoding")
    IN  IF \/ occ["Content-Transfer-Encoding"] = 0 \/ ctes = {}
           \/ Cardinality(ctes) = 1 /\ First(h, "Content-Transfer-Encoding").err = ""
        THEN h
        ELSE IF body.base64
        THEN AddField(none, "Content-Transfer-Encoding", Encoding("base64", "base64"))
        ELSE none

\* "Some people don't know c-t from c-t-e"
SwapEncoding(h, occ) ==
    LET raw == First(h, "Content-Type").val.raw
        none == RemoveAllNamed(RemoveAllNamed(h, "Content-Transfer-Encoding"), "Content-Type")
    IN  IF /\ occ["Content-Transfer-Encoding"] = 0 /\ occ["Content-Type"] > 0
           /\ First(h, "Content-Type").err # ""
           /\ raw \in Encodings
        THEN AddField(AddField(none, "Content-Transfer-Encoding", Encoding(raw, raw)),
                      "Content-Type",
                      [type |-> "application", subtype |-> "octet-stream",
                       params |-> [n \in {} |-> ""], raw |-> ""])
        ELSE h

DropBadURLs(h) ==
    Without(h, InvalidOnes(h, "Content-Base") \cup InvalidOnes(h, "Content-Location"))

\* Unverify that is forgotten.
KeepVerdict(h) == h

\* h.verified = false
Unverify(h) == [h EXCEPT !.verified = FALSE]

=============================================================================
