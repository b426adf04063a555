---------------------------- MODULE FieldParsing ----------------------------
(***************************************************************************)
(* One field is read: NewHeaderField picks the Parse of its name.          *)
(***************************************************************************)
EXTENDS FieldParse

CONSTANTS
    AddressTexts,   \* answers of the address parser, a set of records
    TypeTexts,      \* texts of a Content-Type, a set of records
    Tokens,         \* texts of the other MIME fields
    ParamSets,      \* parameters of a Content-Disposition
    Times           \* what parseDate returns, NoTime for nil

ASSUME TextsAssumption ==
    \A r \in AddressTexts : {"err", "addrs"} \subseteq DOMAIN r /\ r.addrs \in Seq(Address)

VARIABLES
    value,          \* the text of the field, once one is chosen
    result          \* the field

fieldVars == <<value, result>>

FieldInit == value = <<>> /\ result = Field("", "", <<>>)

ReadAddresses ==
    \E fn \in AddressNames, r \in AddressTexts :
        result.name = "" /\ value' = <<r>> /\ result' = AddressField_Parse(fn, r)

ReadContentType ==
    \E c \in TypeTexts :
        result.name = "" /\ value' = <<c>> /\ result' = ContentType_Parse(c)

ReadEncoding ==
    \E t \in Tokens :
        result.name = "" /\ value' = <<t>> /\ result' = ContentTransferEncoding_Parse(t)

ReadDisposition ==
    \E t \in Tokens, ps \in ParamSets :
        result.name = "" /\ value' = <<t, ps>> /\ result' = ContentDisposition_Parse(t, ps)

ReadDate ==
    \E t \in Times :
        result.name = "" /\ value' = <<t>> /\ result' = DateField_Parse(t)

FieldNext == ReadAddresses \/ ReadContentType \/ ReadEncoding \/ ReadDisposition \/ ReadDate

FieldSpec == FieldInit /\ [][FieldNext]_fieldVars

\* Whatever the text, the field has the shape the repairs expect.
ParsedShape == WellParsed(result)

\* A comment in AddressField.Parse: "if it doesn't contain even one "@" and
\* also not even one parsable address, surely it's garbage", and the error of
\* such a To field is dropped.
GarbageForgiven ==
    result.name = "To" /\ result.val = <<>> /\ ~value[1].at => result.err = ""

=============================================================================
