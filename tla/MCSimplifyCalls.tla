-------------------------- MODULE MCSimplifyCalls --------------------------
(***************************************************************************)
(* SimplifyCalls for TLC: a valid header, followed by address fields or by *)
(* MIME fields.                                                            *)
(***************************************************************************)
EXTENDS SimplifyCalls

MCNames == {"", "Ann"}
MCLocalparts == {"", "a", "A", "b", "b."}
MCDomains == {"", "x"}
MCToTitle(s) == IF s = "A" THEN "a" ELSE s

F(fn, val) == [name |-> fn, err |-> "", val |-> val]

a == NewAddress("", "a", "x")
ann == NewAddress("Ann", "a", "x")
upper == NewAddress("", "A", "x")
b == NewAddress("", "b", "x")
dotted == NewAddress("", "b.", "x")

AddressPool ==
    <<F("From", <<a>>), F("From", <<b, a>>), F("From", <<upper>>),
      F("Reply-To", <<a>>), F("Reply-To", <<b>>), F("Reply-To", <<ann>>),
      F("Sender", <<a>>), F("Sender", <<>>), F("To", <<a, upper, b>>), F("Cc", <<>>),
      F("Return-Path", <<a>>), F("Return-Path", <<dotted>>), F("Errors-To", <<upper>>),
      F("Message-ID", <<a>>)>>

noParams == [n \in {} |-> ""]
CT(type, subtype, params) ==
    F("Content-Type", [type |-> type, subtype |-> subtype, params |-> params, raw |-> ""])
CTE(e) == F("Content-Transfer-Encoding", [enc |-> e, base |-> e])

MIMEPool ==
    <<CT("text", "plain", noParams), CT("text", "plain", [charset |-> "utf8"]),
      CT("multipart", "mixed", [boundary |-> "x", charset |-> "utf8"]),
      CT("message", "rfc822", noParams), CTE("7bit"), CTE("base64"),
      F("Content-Disposition", [disp |-> "inline", params |-> noParams]),
      F("Content-Disposition", [disp |-> "attachment", params |-> noParams]),
      F("Content-Description", ""), F("Content-Description", "about"),
      F("Content-Location", "u"), F("MIME-Version", "1.0")>>

Messages == {<<"RFC5322", "text/plain">>}
AllKinds == Messages \cup {<<"MIME", "text/plain">>, <<"MIME", "message/rfc822">>}

MCScenarios ==
    <<[start |-> <<F("Date", 0)>>, pool |-> AddressPool, more |-> 4, kinds |-> Messages],
      [start |-> <<F("Date", 0), F("From", <<a>>)>>, pool |-> MIMEPool, more |-> 4,
       kinds |-> AllKinds]>>

=============================================================================
