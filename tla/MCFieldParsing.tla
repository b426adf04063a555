--------------------------- MODULE MCFieldParsing ---------------------------
(***************************************************************************)
(* FieldParsing for TLC: lists of up to two addresses of every type.       *)
(***************************************************************************)
EXTENDS FieldParsing

MCNames == {"", "Ann"}
MCLocalparts == {"", "a"}
MCDomains == {"", "x"}
MCToTitle(s) == s

MCAddresses == {NewAddress("", "a", "x"), NewAddress("", "", ""),
                NewAddress("Ann", "", ""), NewAddress("", "a", "")}
Lists == {<<>>} \cup {<<x>> : x \in MCAddresses} \cup (MCAddresses \X MCAddresses)

HasBounce(l) == \E i \in DOMAIN l : TypeOf(l[i]) = "Bounce"

\* A <> among the addresses was one in the text.
MCAddressTexts ==
    {r \in [err : BOOLEAN, addrs : Lists, ctl : BOOLEAN, one : BOOLEAN,
            angle : BOOLEAN, at : BOOLEAN] :
        /\ HasBounce(r.addrs) => r.angle
        /\ r.one => r.addrs = <<>> /\ ~r.angle}

MCTypeTexts ==
    [token : {"", "text", "multipart", "postscript", "base64"}, rest : {"end", "/", "=", "other"},
     sub : {"", "plain", "mixed", "appledouble"},
     params : {[n \in {} |-> ""], [boundary |-> "b"], [boundary |-> ""]},
     junk : {"", "j"}, file : {"", "jpg", "html", "other"}]

MCTokens == {"", "8bit", "16bit", "base64", "quoted-printable", "uuencode", "inline", "foo"}
MCTimes == {NoTime, 0, 3600}
MCParamSets == {[n \in {} |-> ""], [filename |-> "f"]}

=============================================================================
