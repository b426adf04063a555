--------------------------- MODULE MCMessageText ---------------------------
(***************************************************************************)
(* MessageText for TLC: a multipart with the boundary x, whose text is any *)
(* sequence of up to MaxUnits pieces: the start of a part of each kind, at *)
(* the outer or at an inner level, the ends, a line of text, a blank line. *)
(* The text may be cut off before its last line break.                     *)
(***************************************************************************)
EXTENDS MessageText

CONSTANT MaxUnits

Type(type, b) == <<Field("Content-Type", <<type, b>>), NL>>
Enc(e) == <<Field("Content-Transfer-Encoding", <<e>>), NL>>
Head1(type, b) == <<Field("From", <<>>), NL>> \o Type(type, b) \o <<Field("MIME-Version", <<>>), NL, NL>>

Starts(b, fields) == <<Delim(b), NL>> \o fields \o <<NL>>
Ends(b) == <<Delim(b), Dashes, NL>>

\* Pieces; a line of text is told from the others by its place.
Text(k) == <<Line(<<"1 ", "2 ", "3 ", "4 ", "5 ", "6 ">>[k]), NL>>
Unit(kind, k) ==
    CASE kind = "line" -> Text(k)
      [] kind = "blank" -> <<NL>>
      [] kind = "quoted" -> <<<<"quoted", Delim("x")>>, NL>>
      [] kind = "x" -> Starts("x", <<>>) \o Text(k)
      [] kind = "x end" -> Ends("x")
      [] kind = "x plain" -> Starts("x", Type("text/plain", "") \o Enc("quoted-printable"))
      [] kind = "x image" -> Starts("x", Type("image/png", ""))
      [] kind = "x signature" -> Starts("x", Type("application/pgp-signature", ""))
      [] kind = "x pgp" -> Starts("x", Type("application/octet-stream", "") \o Enc("base64"))
                           \o <<<<"base64", <<Line("BEGIN PGP MESSAGE"), NL>>>>, NL>>
      [] kind = "x hidden" -> Starts("x", Type("application/octet-stream", "") \o Enc("base64"))
                              \o <<<<"base64", <<Line("BEGIN PGP MESSAGE"), NL, Delim("x"), NL>>>>, NL>>
      [] kind = "x multi" -> Starts("x", Type("multipart/mixed", "y"))
      [] kind = "x same" -> Starts("x", Type("multipart/mixed", "x"))
      [] kind = "x message" -> Starts("x", Type("message/rfc822", "")) \o Head1("multipart/mixed", "y")
      [] kind = "x simple" -> Starts("x", Type("message/rfc822", "")) \o <<Field("From", <<>>), NL, NL>>
      [] kind = "x digested" -> Starts("x", <<>>) \o Head1("multipart/mixed", "y")
      [] kind = "y" -> Starts("y", <<>>) \o Text(k)
      [] kind = "y end" -> Ends("y")

Scenario(type, kinds) ==
    [head |-> Head1(type, "x"),
     pieces |-> [k \in 1..MaxUnits |-> {Unit(kind, k) : kind \in kinds}]]

MCScenarios ==
    {Scenario("multipart/mixed", {"line", "blank", "x", "x end", "x multi", "x message", "y", "y end"}),
     Scenario("multipart/mixed", {"quoted", "blank", "x end", "x plain", "x image", "x signature", "x pgp", "y"}),
     Scenario("multipart/digest", {"line", "blank", "x end", "x plain", "x digested", "y", "y end"})}

\* An embedded message without parts.
SimpleScenario == {Scenario("multipart/mixed", {"line", "x simple", "x end"})}

\* An empty part, an inner boundary that is the outer one, and PGP data with a
\* line that is the boundary.
UnreadScenarios ==
    {Scenario("multipart/mixed", {"blank", "x image", "x end"}),
     Scenario("multipart/mixed", {"line", "x same", "x end"}),
     Scenario("multipart/mixed", {"x", "x hidden", "x end"})}

=============================================================================
