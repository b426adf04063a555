--------------------------- MODULE MessageHeader ---------------------------
(***************************************************************************)
(* The life of one header from ReadHeader to Simplify, as Message.Parse    *)
(* (role "message") and Part.parseMultipart (role "part") drive it:        *)
(*                                                                         *)
(*   message:  ReadHeader, Repair, RepairWithBody with the body, then      *)
(*             parseMultipart or parseBodypart, then Simplify              *)
(*   part:     ReadHeader, Repair, parseBodypart, which ends in Simplify,  *)
(*             then RepairWithBody with an empty body                      *)
(*                                                                         *)
(* Every rule of Repair and RepairWithBody is a step.  A run-time panic    *)
(* ends the run with pc = "panic".                                         *)
(***************************************************************************)
EXTENDS PartHeader, HeaderSimplify

CONSTANTS
    Scenarios   \* the messages considered, a sequence of records:
                \*   starts   what a header begins with, a set of sequences of fields
                \*   pool     the fields that may follow, a sequence
                \*   more     bound: how many of them follow
                \*   roles    \subseteq {"message", "part"}
                \*   bodies   a set of bodies
                \*   chains   the Dates of the enclosing parts, a set of sequences

\* The fields are what Parse makes of some text, those a header begins with
\* were added one by one, and a candidate boundary is a nonempty line of a body
\* that is not empty.
ASSUME ScenariosAssumption ==
    \A s \in DOMAIN Scenarios :
        LET c == Scenarios[s]
        IN  /\ c.roles \subseteq {"message", "part"} /\ c.more \in Nat
            /\ \A i \in DOMAIN c.pool : ReadShape(c.pool[i]) /\ WellParsed(c.pool[i])
            /\ \A fs \in c.starts :
                  /\ Len(fs) \in Nat /\ DOMAIN fs = 1..Len(fs)
                  /\ \A i \in DOMAIN fs : ReadShape(fs[i]) /\ WellParsed(fs[i])
                  /\ \A i, j \in DOMAIN fs :
                        fs[i].name \in MergedNames /\ fs[i].name = fs[j].name => i = j
            /\ \A b \in c.bodies :
                  /\ {"kind", "html", "lines", "cut", "found", "base64", "report",
                      "trap", "odd"} \subseteq DOMAIN b
                  /\ b.lines \in Seq(STRING \ {""})
                  /\ b.lines # <<>> => b.kind = "text"

VARIABLES
    text,       \* the fields that ReadHeader has still to read
    h,          \* the header
    input,      \* the header as ReadHeader left it
    occ,        \* the map occurrences of the running Repair or RepairWithBody
    body,       \* the body
    parents,    \* the Dates of the enclosing parts, innermost first
    role,
    pc

vars == <<text, h, input, occ, body, parents, role, pc>>
context == <<text, input, body, parents, role>>

EmptyBody(b) == [b EXCEPT !.kind = "empty", !.html = FALSE, !.lines = <<>>,
                          !.cut = FALSE, !.found = {}, !.base64 = FALSE, !.report = FALSE,
                          !.trap = "none"]

\* The body RepairWithBody is called with.
theBody == IF role = "message" THEN body ELSE EmptyBody(body)

Start(r, dt, fs) ==
    LET new == NewHeader(IF r = "message" THEN "RFC5322" ELSE "MIME", dt)
    IN  [new EXCEPT !.Fields = fs, !.last = Len(fs)]

Init ==
    /\ \E s \in DOMAIN Scenarios :
          /\ role \in Scenarios[s].roles
          /\ body \in Scenarios[s].bodies
          /\ parents \in Scenarios[s].chains
          /\ \E fs \in Scenarios[s].starts, dt \in {"text/plain", "message/rfc822"} :
                /\ role = "message" => dt = "text/plain"
                /\ h = Start(role, dt, fs)
          /\ \E n \in 0..Scenarios[s].more :
                \E pick \in [1..n -> DOMAIN Scenarios[s].pool] :
                   text = [i \in 1..n |-> Scenarios[s].pool[pick[i]]]
    /\ input = h
    /\ occ = Count(h)
    /\ pc = "read"

-----------------------------------------------------------------------------
(***************************************************************************)
(* Steps                                                                   *)
(***************************************************************************)
\* One iteration of ReadHeader: a field is parsed and added.
ReadField ==
    /\ pc = "read" /\ text # <<>>
    /\ h' = addField(h, Head(text))
    /\ text' = Tail(text)
    /\ UNCHANGED <<input, occ, body, parents, role, pc>>

\* ReadHeader returns.
EndOfHeader ==
    /\ pc = "read" /\ text = <<>>
    /\ input' = h
    /\ pc' = "repair"
    /\ UNCHANGED <<text, h, occ, body, parents, role>>

\* "if h.Valid() { return }", then count the fields.
Enter(at, rules, return) ==
    /\ pc = at
    /\ h' = verify(h)
    /\ occ' = Count(h)
    /\ pc' = IF Valid(h) THEN return ELSE rules
    /\ UNCHANGED context

\* One rule: h becomes k.
Rule(at, k, next) ==
    /\ pc = at
    /\ h' = k
    /\ pc' = next
    /\ UNCHANGED <<context, occ>>

\* One rule that may panic.
Risky(at, panics, k, next) ==
    \/ ~panics /\ Rule(at, k, next)
    \/ pc = at /\ panics /\ pc' = "panic" /\ UNCHANGED <<h, context, occ>>

AfterRepair == IF role = "message" THEN "withbody" ELSE "part"

AfterWithBody ==
    IF role = "part" THEN "done"
    ELSE IF IsType(h, "multipart") THEN "children"
    ELSE "part"

Repair ==
    \/ Enter("repair", "r.identical", AfterRepair)
    \/ Risky("r.identical", RemoveIdenticalPanics(h, occ),
             RemoveIdentical(h, occ), "r.optionless")
    \/ Rule("r.optionless", RemoveOptionless(h, occ), "r.firstvalid")
    \/ Rule("r.firstvalid", KeepFirstValid(h, occ), "r.version")
    \/ Rule("r.version", NoteMIMEVersion(h, occ), "r.encoding")
    \/ Risky("r.encoding", MultipartEncodingPanics(h, occ),
             DropMultipartEncoding(h, occ), "r.sender")
    \/ Risky("r.sender", DropSenderPanics(h, occ), DropSender(h, occ), AfterRepair)

RepairWithBody ==
    \/ Enter("withbody", "identical", AfterWithBody)
    \/ Risky("identical", RemoveIdenticalPanics(h, occ), RemoveIdentical(h, occ), "date")
    \/ Risky("date", DatePanics(h, parents), FixDate(h, occ, parents), "nofrom")
    \/ Risky("nofrom", AddMissingFromPanics(h, occ, theBody),
             AddMissingFrom(h, occ), "receipt")
    \/ Risky("receipt", UseReceiptPanics(h, theBody), UseReceiptAddress(h), "received")
    \/ Rule("received", DropReceived(h, occ), "invalid")
    \/ Rule("invalid", DropInvalid(h, occ), "sender")
    \/ Rule("sender", ChooseSender(h, occ), "subject")
    \/ Rule("subject", ChooseSubject(h, occ), "boundary")
    \/ Risky("boundary", GuessBoundaryPanics(h, occ, theBody),
             GuessBoundary(h, occ, theBody), "salvage")
    \/ Risky("salvage", SalvagePanics(h, occ), SalvageFrom(h, occ), "fromsender")
    \/ Rule("fromsender", FromFromSender(h, occ), "plain")
    \/ Risky("plain", DropPlainPanics(h, occ), DropPlain(h, occ), "grade")
    \/ Risky("grade", GradeTypesPanics(h, occ, theBody),
             GradeTypes(h, occ, theBody), "html")
    \/ Rule("html", OneHtml(h, occ), "lastsender")
    \/ Rule("lastsender", LastSender(h), "report")
    \/ Risky("report", ReportPanics(h, theBody), ReportFrom(h, theBody), "postmaster")
    \/ Risky("postmaster", PostmasterPanics(h, occ), Postmaster(h, occ), "unknown")
    \/ Risky("unknown", UseInvalidPanics(h, input, theBody), UseInvalid(h), "replyto")
    \/ Rule("replyto", DropReplyTo(h, occ), "encoding")
    \/ Rule("encoding", GuessEncoding(h, occ, theBody), "swap")
    \/ Rule("swap", SwapEncoding(h, occ), "urls")
    \/ Rule("urls", Unverify(DropBadURLs(h)), AfterWithBody)

\* parseMultipart of a message leaves the message's own header alone.
ParseChildren == Risky("children", body.trap = "nested", h, "simplify")

\* parseBodypart, which ends with a call of Simplify.
ParsePart ==
    Risky("part", PartPanics(h, body) \/ SimplifyPanics(parseBodypart(h, body)),
          Simplify(parseBodypart(h, body)),
          IF role = "message" THEN "simplify" ELSE "withbody")

Next ==
    \/ ReadField
    \/ EndOfHeader
    \/ Repair
    \/ RepairWithBody
    \/ ParseChildren
    \/ ParsePart
    \/ Risky("simplify", SimplifyPanics(h), Simplify(h), "done")

Spec == Init /\ [][Next]_vars

-----------------------------------------------------------------------------
(***************************************************************************)
(* Properties                                                              *)
(***************************************************************************)
RepairSteps == {"repair", "r.identical", "r.optionless", "r.firstvalid",
                "r.version", "r.encoding", "r.sender"}

\* Repair has just returned.
Repaired == pc = AfterRepair

\* RepairWithBody has returned.
BodyRepaired ==
    pc \in (IF role = "message" THEN {"children", "part", "simplify", "done"} ELSE {"done"})

OnlyRemoves ==
    /\ DOMAIN h'.Fields \subseteq DOMAIN h.Fields
    /\ \A p \in DOMAIN h'.Fields :
          h'.Fields[p] = h.Fields[p] \/ h.Fields[p].name = "MIME-Version"

\* Repair, which does not know the body, only takes fields away: it adds and
\* changes none, except for the note in MIME-Version.
RepairOnlyRemoves == [][(pc \in RepairSteps) => OnlyRemoves]_vars

\* "We retain only the first valid Date field, Return-Path, Message-Id,
\* References": after Repair, if the input had a valid field of one of these
\* names, its first valid one is the only one, whatever RemoveIdentical did
\* before and although occ is not kept up to date.
FirstValidRetained ==
    Repaired =>
        \A fn \in FirstOnlyNames :
            ValidOnes(input, fn) # {} =>
                Named(h, fn) = {NthOf(ValidOnes(input, fn), 0)}

\* Repair loses no kind of field but Sender and Content-Transfer-Encoding.
NoKindLost ==
    Repaired =>
        \A p \in DOMAIN input.Fields :
            input.Fields[p].name \notin {"Sender", "Content-Transfer-Encoding"} =>
                Named(h, input.Fields[p].name) # {}

\* The addresses in the fields of these names.
AddressesIn(k, names) ==
    UNION {{k.Fields[p].val[i] : i \in DOMAIN k.Fields[p].val} :
              p \in {q \in DOMAIN k.Fields : k.Fields[q].name \in names}}

\* RepairWithBody leaves a message with a From and a Date, whatever it was
\* given.  From has an address unless it parsed without one, as "(comment)", or
\* unless there was no good From and the address that took its place parses
\* without an address, and without an error, once it is written.
HasFromAndDate ==
    role = "message" /\ BodyRepaired =>
        /\ Named(h, "From") # {} /\ Named(h, "Date") # {}
        /\ \/ AddressesOf(h, "From") # <<>>
           \/ /\ field(input, "From", 0) # Nil /\ First(input, "From").err = ""
              /\ First(input, "From").val = <<>>
           \/ /\ ValidOnes(input, "From") = {}
              /\ \E x \in AddressesIn(input, StandInNames) :
                    ~Reread(x).err /\ Reread(x).addrs = <<>>

\* RepairWithBody leaves no invalid Content-Location, -Disposition, -ID,
\* -Base or Message-ID and at most one Content-Transfer-Encoding, a valid
\* one, although several of its rules count on stale occurrences.
ContentFieldsClean ==
    BodyRepaired =>
        /\ \A fn \in DroppableNames \cup {"Content-Base"} : InvalidOnes(h, fn) = {}
        /\ Occurrences(h, "Content-Transfer-Encoding") <= 1
        /\ InvalidOnes(h, "Content-Transfer-Encoding") = {}

\* A From that parsed is never replaced by one of the many guesses of
\* RepairWithBody: its addresses survive to the end.
GoodFromKept ==
    pc # "read" /\ field(input, "From", 0) # Nil /\ First(input, "From").err = "" =>
        UniquifyKeys(AddressesOf(h, "From")) = UniquifyKeys(AddressesOf(input, "From"))

\* From is not invented: its addresses were in a field of the input that
\* names the sender, or are what is read where such an address is written to
\* stand in for From, or are the postmaster of the Message-ID's domain or
\* invalid@invalid.invalid.
FromHasSource ==
    pc # "read" => \A i \in DOMAIN AddressesOf(h, "From") :
        LET a == AddressesOf(h, "From")[i]
        IN  \/ a \in AddressesIn(input, FromSources)
            \/ \E x \in AddressesIn(input, StandInNames) :
                  \E j \in DOMAIN Reread(x).addrs : a = Reread(x).addrs[j]
            \/ a = UnknownAddress
            \/ a.lp = "postmaster" /\ Named(h, "Message-ID") # {}

\* Valid() of a header that RepairWithBody has returned is computed afresh:
\* Simplify, which stops at once if the header is invalid, does not act on
\* the verdict from before the repair.
VerdictFresh ==
    /\ role = "message" /\ pc \in {"children", "part", "simplify"}
    /\ h.verified
    => h.err = ~Acceptable(h)

\* "If it's a multipart and the c-t field could not be parsed, try to find the
\* boundary by inspecting the body": no multipart goes to parseMultipart
\* without a boundary, whatever other Content-Types are dropped before or
\* after the guess, when the lines of the body leave one candidate.
BoundaryGuessed ==
    /\ pc = "children" /\ body.lines # <<>>
    /\ \A i \in DOMAIN body.lines : body.lines[i] \in {body.lines[1], EndOf(body.lines[1])}
    => parameter(First(h, "Content-Type").val, "boundary") # ""

\* What the input must look like for a panic.
MayPanic ==
    \/ body.kind = "empty" \/ body.trap # "none"
    \/ Named(input, "Content-Transfer-Encoding") # {} /\ Named(input, "Content-Type") = {}
    \/ DatePanics(input, parents)
    \/ body.cut /\ InvalidOnes(input, "Content-Type") # {}
    \/ /\ Occurrences(input, "Content-Type") > 1
       /\ \/ body.kind = "blank" \/ role = "part"
          \/ Occurrences(input, "Content-Type") > 2
          \/ body.lines # <<>> /\ body.lines[1] = " "
          \/ \E p \in Named(input, "Content-Type") :
                parameter(input.Fields[p].val, "boundary") = " "
    \/ /\ Named(input, "Message-ID") # {} /\ InvalidOnes(input, "From") # {}
       /\ \/ \E a \in AddressesIn(input, {"From"}) : TypeOf(a) = "Bounce"
          \/ \E x \in AddressesIn(input, ReceiptNames) : HasType(Reread(x).addrs, "Bounce")
    \/ \E a \in AddressesIn(input, FromSources \cup {"Message-ID", "References"}) : Unwritable(a)
    \/ /\ ValidOnes(input, "From") = {} /\ role = "message"
       /\ \/ \E x \in AddressesIn(input, StandInNames) :
                \/ Reread(x).panics
                \/ \E j \in DOMAIN Reread(x).addrs : Unwritable(Reread(x).addrs[j])
          \/ /\ "word" \in body.odd
             /\ \E fn \in ReceiptNames \cup {"X-From-Line"} : Named(input, fn) # {}
          \/ "from" \in body.odd /\ Named(input, "From") # {}
          \/ "report" \in body.odd

\* The repairs and the stale occurrences they work from do not make a header
\* panic that does not have one of a few oddities to begin with.
PanicExplained == pc = "panic" => MayPanic

-----------------------------------------------------------------------------
(***************************************************************************)
(* What the comments say of the rules, and the code does not do            *)
(***************************************************************************)
\* "If there is no valid Date field and this is an RFC822 header, we look for
\* a sensible date": a header with one Date, a valid one, gets no second.
ValidDateNotDoubled ==
    BodyRepaired /\ Occurrences(input, "Date") = 1 /\ InvalidOnes(input, "Date") = {} =>
        Occurrences(h, "Date") = 1

\* "If there is no such field or t is meaningless, date() returns a null
\* pointer": asking an enclosing part for its Date does not panic.
DateReturnsNull == [][(pc = "date") => pc' # "panic"]_vars

\* "If there is no From field, try to use either Return-Path or Sender from
\* this Header": the address of From is then that of Return-Path.
ReturnPathUsed ==
    /\ pc = "receipt" /\ role = "message" /\ Named(input, "From") = {}
    /\ HasNormal(AddressesOf(h, "Return-Path"))
    => AddressesOf(h, "From") = <<AddressesOf(h, "Return-Path")[1]>>

\* "If there is an unacceptable Received field somewhere, remove it and all
\* the older Received fields": acceptable ones stay.
ReceivedKept ==
    BodyRepaired /\ InvalidOnes(input, "Received") = {} =>
        Occurrences(h, "Received") = Occurrences(input, "Received")

\* Of two subject fields "the first field comes from the exploited software
\* and the second from the exploiting": RepairWithBody leaves one.
OneSubject == BodyRepaired /\ Occurrences(input, "Subject") = 2 => Occurrences(h, "Subject") = 1

\* "If it's a copy, or even an illegal subset, we drop it": Repair drops a
\* Sender only if its addresses are among those of From.
SenderDroppedOnlyIfSubset ==
    Repaired /\ Named(h, "Sender") = {} =>
        Keys(AddressesOf(input, "Sender")) \subseteq Keys(AddressesOf(input, "From"))

\* "If the Reply-To field is bad and From is good, we forget Reply-To
\* entirely."
BadReplyToForgotten ==
    /\ role = "message" /\ BodyRepaired
    /\ ValidOnes(h, "From") # {} /\ AddressesOf(h, "From") # <<>>
    => InvalidOnes(h, "Reply-To") = {}

\* "Some crapware tries to send DSNs without a From field. We try to patch it
\* up": a report that names an MTA and a recipient gets a From.
ReportGetsFrom == pc = "postmaster" /\ theBody.report => ~ReportWithoutFrom(h)

\* "change c-t-e to match the encoding decided above": the encoding that is
\* written out is the one the body is stored with.
EncodingMatchesText ==
    pc = "simplify" => \A p \in Named(h, "Content-Transfer-Encoding") :
        h.Fields[p].val.enc = h.Fields[p].val.base

=============================================================================
