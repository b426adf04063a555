----------------------------- MODULE HeaderApi -----------------------------
(***************************************************************************)
(* A caller of the exported methods of Header, in any order: Add,          *)
(* RemoveAt, Remove, RemoveAllNamed and Valid.  It is about the verdict    *)
(* that verify() caches: Add resets it only when it appends, and the       *)
(* removals never do.                                                      *)
(***************************************************************************)
EXTENDS Header

CONSTANTS
    ParsedFields,   \* what NewHeaderField may return
    FieldNames,     \* names RemoveAllNamed is called with
    Modes,          \* header modes considered
    MaxFields,      \* bound: fields ever appended
    MaxAddresses    \* bound: addresses in a merged field

ASSUME ApiAssumption ==
    /\ MaxFields \in Nat /\ MaxAddresses \in Nat
    /\ \A f \in ParsedFields : /\ f = [name |-> f.name, err |-> f.err, val |-> f.val]
                               /\ f.name \in MergedNames => f.val \in Seq(Address)

VARIABLES
    header,     \* the header
    answer      \* what the last call of Valid returned, or "none"

apiVars == <<header, answer>>

ApiInit ==
    /\ \E m \in Modes : header = NewHeader(m, "text/plain")
    /\ answer = "none"

\* Add(key, value)
Add(f) ==
    /\ header.last < MaxFields
    /\ f.name \in MergedNames => Len(AddressesOf(header, f.name)) < MaxAddresses
    /\ header' = addField(header, f)
    /\ answer' = "none"

\* RemoveAt(i), and Remove(r) of the field there.
CallRemoveAt(p) ==
    /\ header' = RemoveAt(header, p)
    /\ answer' = "none"

CallRemoveAllNamed(fn) ==
    /\ header' = RemoveAllNamed(header, fn)
    /\ answer' = "none"

CallValid ==
    /\ header' = verify(header)
    /\ answer' = IF Valid(header) THEN "valid" ELSE "invalid"

ApiNext ==
    \/ \E f \in ParsedFields : Add(f)
    \/ \E p \in DOMAIN header.Fields : CallRemoveAt(p)
    \/ \E fn \in FieldNames : CallRemoveAllNamed(fn)
    \/ CallValid

ApiSpec == ApiInit /\ [][ApiNext]_apiVars

-----------------------------------------------------------------------------
(***************************************************************************)
(* Properties                                                              *)
(***************************************************************************)

\* The header has the shape header.go gives it.
TypeOK == HeaderOK(header) /\ answer \in {"none", "valid", "invalid"}

\* Whatever is added, there is at most one To, Cc, Bcc, Reply-To and From
\* field: addField merges a second one into the first.
MergedOnce == AddressFieldsMerged(header)

\* What a cached verdict is worth.  When verify has once said "valid", every
\* field present is still valid and no once-only field is repeated, however
\* many calls of Add, RemoveAt and RemoveAllNamed there were since: only a
\* required field may have gone.
CachedVerdictSound == header.verified /\ ~header.err => AllFieldsValid(header) /\ NoneRepeated(header)

\* The comment on Valid: "Returns true if this Header fills all the conditions
\* laid out in RFC 2821 for validity, and false if not."
ValidTellsTruth ==
    /\ answer = "valid" => Acceptable(header)
    /\ answer = "invalid" => ~Acceptable(header)

\* The comment on outlawBounce: "'<>' is legal in Return-Path, but as of April
\* 2005, not in any other field", and its presence is recorded as an error.
NoBounceInValidField ==
    \A p \in DOMAIN header.Fields :
        header.Fields[p].name \in MergedNames /\ header.Fields[p].err = "" =>
            \A i \in DOMAIN header.Fields[p].val : TypeOf(header.Fields[p].val[i]) # "Bounce"

=============================================================================
