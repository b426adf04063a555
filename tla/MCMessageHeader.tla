-------------------------- MODULE MCMessageHeader --------------------------
(***************************************************************************)
(* MessageHeader for TLC: scenarios about the content, about the sender,   *)
(* about time, about addresses that cannot be written or not read again,   *)
(* and short ones for what the comments say.                               *)
(***************************************************************************)
EXTENDS MessageHeader

MCNames == {""}
MCLocalparts == {"", "a", "b", "b.", "1", "postmaster", "invalid"}
MCDomains == {"", "example.com", "mail.example.com", "x.de", "invalid.invalid",
              "[1.2.3.4]", "[1.2.3."}
MCToTitle(s) == s
MCSensible == {"a", "b"}
MCBadSubjects == {"long"}
MCEndOf(b) == CASE b = "x" -> "x--" [] b = "y" -> "y--" [] OTHER -> "?"
MCDomainShape(d) ==
    CASE d = "example.com" -> [len |-> 11, dots |-> {7}]
      [] d = "mail.example.com" -> [len |-> 16, dots |-> {4, 12}]
      [] d = "x.de" -> [len |-> 4, dots |-> {1}]
      [] d = "[1.2.3.4]" -> [len |-> 9, dots |-> {2, 4, 6}]
      [] d = "[1.2.3." -> [len |-> 7, dots |-> {2, 4, 6}]
      [] OTHER -> [len |-> 0, dots |-> {}]
MCWithoutLabel(d) == IF d = "mail.example.com" THEN "example.com" ELSE ""
MCPostmasterName(d) == ""

\* An address literal loses its end when it is read, and without that is no
\* address at all; a localpart of digits alone makes the parser panic.
MCReread(x) ==
    [panics |-> x.lp = "1" /\ x.dom = "", err |-> FALSE,
     addrs |-> CASE x.dom = "[1.2.3.4]" -> <<[x EXCEPT !.dom = "[1.2.3."]>>
                 [] x.dom = "[1.2.3." -> <<>>
                 [] OTHER -> <<x>>]

-----------------------------------------------------------------------------
F(fn, err, val) == [name |-> fn, err |-> err, val |-> val]

a == NewAddress("", "a", "example.com")
b == NewAddress("", "b", "mail.example.com")
short == NewAddress("", "b", "x.de")
bounce == NewAddress("", "", "")
dotted == NewAddress("", "b.", "example.com")
literal == NewAddress("", "a", "[1.2.3.4]")
halfLiteral == NewAddress("", "a", "[1.2.3.")
digits == NewAddress("", "1", "")
localDotted == NewAddress("", "b.", "")

noParams == [n \in {} |-> ""]
CT(err, type, subtype, params, raw) ==
    F("Content-Type", err,
      [type |-> type, subtype |-> subtype, params |-> params, raw |-> raw])
CTE(err, e, base) == F("Content-Transfer-Encoding", err, [enc |-> e, base |-> base])

goodFrom == F("From", "", <<a>>)
goodDate == F("Date", "", 3600)
plain == CT("", "text", "plain", noParams, "")
html == CT("", "text", "html", noParams, "")
mixed == CT("", "multipart", "mixed", [boundary |-> "x"], "")
unbounded == CT("bad", "multipart", "mixed", noParams, "")

\* A header that lacks nothing, and one that lacks everything.
Starts == {<<>>, <<goodFrom, goodDate>>}
SenderStarts == {<<>>, <<goodDate>>, <<F("From", "No-bounce", <<bounce>>), goodDate>>}

\* Valid dates only.
DatePool == <<goodDate, F("Received", "", 60), F("Subject", "", "hello"),
                F("Subject", "", "bye")>>

ContentPool ==
    <<plain, html, mixed, unbounded,
     CT("", "text", "plain", [charset |-> "utf8"], ""),
     CT("", "image", "jpeg", noParams, ""),
     CT("bad", "base64", "", noParams, "base64"),
     CT("", "multipart", "mixed", [boundary |-> " "], ""),
     CTE("", "base64", "base64"), CTE("", "7bit", "7bit"),
     CTE("", "quoted-printable", "quoted-printable"),
     CTE("bad", "quoted-printable", ""),
     F("Content-Disposition", "", [disp |-> "inline", params |-> noParams]),
     F("Content-Location", "bad", ""),
     F("MIME-Version", "", "1.0"), F("MIME-Version", "", "1.0 (Mailer)")>>

SenderPool ==
    <<goodFrom, F("From", "", <<>>), F("From", "bad", <<>>), F("From", "No-bounce", <<bounce>>),
     F("From", "No-bounce", <<b, bounce>>),
     F("Sender", "", <<b>>), F("Sender", "bad", <<a, b>>), F("Sender", "", <<>>),
     F("Return-Path", "", <<b>>), F("Return-Path", "", <<bounce>>),
     F("Reply-To", "bad", <<>>), F("Reply-To", "", <<a>>),
     F("Message-ID", "", <<b>>), F("Message-ID", "", <<short>>),
     F("Message-ID", "bad", <<>>),
     F("Return-Receipt-To", "", <<b>>), F("X-From-Line", "", <<b>>)>>

\* Addresses that cannot be written, or are not read as they were written.
WritingPool ==
    <<F("From", "", <<dotted>>), F("From", "No-bounce", <<dotted, bounce>>),
     F("Return-Path", "", <<dotted>>), F("Return-Path", "", <<literal>>),
     F("Return-Path", "", <<halfLiteral>>),
     F("Sender", "", <<dotted>>), F("Sender", "", <<>>), F("Sender", "bad", <<a, dotted>>),
     F("Message-ID", "", <<short>>), F("Message-ID", "", <<dotted>>),
     F("References", "", <<a, dotted>>), F("Errors-To", "", <<a>>),
     F("X-From-Line", "", <<>>), F("X-From-Line", "", <<digits>>),
     F("X-From-Line", "", <<a, localDotted>>),
     F("Return-Receipt-To", "", <<>>), F("Return-Receipt-To", "", <<bounce>>),
     F("Return-Receipt-To", "", <<literal>>), F("Disposition-Notification-To", "", <<dotted>>)>>

WritingStarts == Starts \cup {<<F("From", "bad", <<>>)>>, <<F("From", "No-bounce", <<bounce>>)>>}

\* Senders of a header with a Date that is not valid yet.
ReplyPool ==
    <<goodFrom, F("Sender", "", <<b>>), F("Reply-To", "bad", <<>>),
      F("Sender", "bad", <<a, b>>), F("Subject", "bad", "")>>

ReportPool ==
    <<F("From", "No-bounce", <<bounce>>),
      CT("", "multipart", "report",
         [n \in {"boundary", "report-type"} |->
             IF n = "boundary" THEN "x" ELSE "delivery-status"], "")>>

TimePool ==
    <<F("Date", "", 3600), F("Date", "", 3610), F("Date", "bad", NoTime),
     F("Received", "", 60), F("Received", "", 7205), F("Received", "bad", NoTime),
     F("Received", "", BlankTime),
     F("Subject", "", "hello"), F("Subject", "", "long"), F("Subject", "bad", ""),
     F("References", "", <<a>>), F("From", "", <<a>>)>>

-----------------------------------------------------------------------------
asciiText == [kind |-> "text", html |-> FALSE, lines |-> <<>>, cut |-> FALSE,
          found |-> {}, base64 |-> FALSE, report |-> FALSE, trap |-> "none",
          odd |-> {}, noEquals |-> FALSE,
          needsQP |-> FALSE, pgp |-> FALSE, charset |-> "us-ascii"]

multipartText == [asciiText EXCEPT !.lines = <<"x", "x", "x--">>, !.found = {"x"}]

Bodies ==
    {asciiText, multipartText,
     [asciiText EXCEPT !.html = TRUE, !.charset = "utf8", !.needsQP = TRUE],
     [asciiText EXCEPT !.lines = <<"x", "y">>, !.found = {"x", "y"}, !.noEquals = TRUE],
     [asciiText EXCEPT !.lines = <<"x">>, !.cut = TRUE, !.found = {"x"}, !.base64 = TRUE],
     [asciiText EXCEPT !.lines = <<" ">>, !.found = {" "}],
     [asciiText EXCEPT !.kind = "blank", !.noEquals = TRUE],
     [asciiText EXCEPT !.html = TRUE, !.trap = "html"],
     [asciiText EXCEPT !.trap = "nested", !.charset = "gb2312"],
     [asciiText EXCEPT !.kind = "empty", !.noEquals = TRUE]}

\* No enclosing part; a message in a message; a message in a multipart; one
\* whose enclosing message has a Date that did not parse.
Chains == {<<>>, <<7200>>, <<NoDateField, 7200>>, <<NoTime, 7200>>}

-----------------------------------------------------------------------------
Scenario(starts, pool, more) ==
    [starts |-> starts, pool |-> pool, more |-> more, roles |-> {"message"},
     bodies |-> {asciiText}, chains |-> {<<>>}]

ContentWith(bodies, more) ==
    [Scenario(Starts, ContentPool, more) EXCEPT !.roles = {"message", "part"}, !.bodies = bodies]

ReportWith(bodies) == [Scenario({<<>>}, ReportPool, 2) EXCEPT !.bodies = bodies]
reportText == [asciiText EXCEPT !.report = TRUE]

Envelope == <<Scenario(SenderStarts, SenderPool, 3),
              [Scenario({<<>>}, TimePool, 3) EXCEPT !.chains = Chains],
              [Scenario(WritingStarts, WritingPool, 2) EXCEPT
                  !.roles = {"message", "part"},
                  !.bodies = {asciiText, [asciiText EXCEPT !.odd = {"from", "word"}]}],
              ReportWith({[reportText EXCEPT !.odd = {"report"}]})>>

\* Two content fields with any body, three with a text or a multipart.
MCPipeline ==
    <<ContentWith(Bodies, 2), ContentWith({asciiText, multipartText}, 3)>> \o Envelope

\* Three content fields with any body.
MCPipelineLarge == <<ContentWith(Bodies, 3)>> \o Envelope

MCShort == <<[Scenario({<<>>}, DatePool, 3) EXCEPT !.chains = Chains],
             Scenario({<<>>}, ReplyPool, 3),
             ReportWith({reportText}),
             Scenario({<<goodDate>>}, <<F("Return-Path", "", <<literal>>)>>, 1),
             [Scenario(Starts, ContentPool, 2) EXCEPT !.bodies = Bodies]>>

=============================================================================
