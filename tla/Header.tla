------------------------------- MODULE Header -------------------------------
(***************************************************************************)
(* The Header of header.go: an ordered list of parsed fields, with the     *)
(* verdict of verify() cached next to it.                                  *)
(*                                                                         *)
(* A header h is a record                                                  *)
(*   Fields       a function from positions to fields.  Its domain is the  *)
(*                set of positions still in use, in list order; a position *)
(*                is never reused, so it is also the field's identity (the *)
(*                pointer that the code compares)                          *)
(*   last         the highest position handed out so far                   *)
(*   mode         "RFC5322" or "MIME"                                      *)
(*   defaultType  "text/plain" or "message/rfc822"                         *)
(*   verified     the verdict in err has been computed                     *)
(*   err          TRUE when the cached error is not nil                    *)
(*                                                                         *)
(* A field is a record [name, err, val].  err is "" for a field that parsed*)
(* "No-bounce" for the error of outlawBounce, "bad" for any other.  What   *)
(* val is depends on the kind of field:                                    *)
(*   address fields         the sequence of Addresses (nil is <<>>)        *)
(*   Date, Received         a time in seconds, or NoTime                   *)
(*   Content-Type           [type, subtype, params, raw], params from the  *)
(*                          parameter names to their values, raw the first *)
(*                          word of the text                               *)
(*   Content-Transfer-Encoding   [enc, base]: Encoding and baseValue       *)
(*   Content-Disposition    [disp, params]                                 *)
(*   Errors-To              the address it holds, or <<>>                  *)
(*   X-From-Line, Return-Receipt-To, Disposition-Notification-To           *)
(*                          the addresses that the first word of the value *)
(*                          parses as; none if there is an error           *)
(*   all others             the value, a token                             *)
(***************************************************************************)
EXTENDS Addresses, Integers

CONSTANT DotEnded   \* localparts that are sensible up to a "." at their end

Nil == 0            \* a nil Field: no position
NoTime == -1        \* a nil *time.Time

MergedNames == {"To", "Cc", "Bcc", "Reply-To", "From"}

addressFieldNames ==
    {"From", "Resent-From", "Sender", "Resent-Sender", "Return-Path",
     "Reply-To", "To", "Cc", "Bcc", "Resent-To", "Resent-Cc", "Resent-Bcc"}

\* The names of all fields whose value is a list of addresses.
AddressNames == addressFieldNames
                \cup {"Message-ID", "Content-ID", "Resent-Message-ID", "References"}

\* &Header{mode: m}, as ReadHeader and parseMultipart set it up.
NewHeader(mode, defaultType) ==
    [Fields |-> [p \in {} |-> Nil], last |-> 0, mode |-> mode,
     defaultType |-> defaultType, verified |-> FALSE, err |-> FALSE]

\* The shape of a header.
HeaderOK(h) ==
    /\ h = [Fields |-> h.Fields, last |-> h.last, mode |-> h.mode,
            defaultType |-> h.defaultType, verified |-> h.verified,
            err |-> h.err]
    /\ h.last \in Nat
    /\ DOMAIN h.Fields \subseteq 1..h.last
    /\ \A p \in DOMAIN h.Fields :
          LET f == h.Fields[p]
          IN  f = [name |-> f.name, err |-> f.err, val |-> f.val]
    /\ h.verified \in BOOLEAN /\ h.err \in BOOLEAN

-----------------------------------------------------------------------------
(***************************************************************************)
(* Looking fields up                                                       *)
(***************************************************************************)
Named(h, fn) == {p \in DOMAIN h.Fields : h.Fields[p].name = fn}

\* occurrences[fn]
Occurrences(h, fn) == Cardinality(Named(h, fn))

\* The position of field number n (from 0) of that name, or Nil.
field(h, fn, n) == NthOf(Named(h, fn), n)

\* h.Addresses(fn), or Value() of the fields that hold one address.
AddressesOf(h, fn) ==
    IF Named(h, fn) = {} THEN <<>> ELSE h.Fields[field(h, fn, 0)].val

-----------------------------------------------------------------------------
(***************************************************************************)
(* Changing the list                                                       *)
(***************************************************************************)
\* The header with the fields at positions S only.
Keep(h, S) == [h EXCEPT !.Fields = [p \in S |-> h.Fields[p]]]

\* Append1 without "h.verified = false".
AppendStale(h, f) ==
    [h EXCEPT !.Fields = [p \in DOMAIN h.Fields \cup {h.last + 1} |->
                             IF p = h.last + 1 THEN f ELSE h.Fields[p]],
              !.last = h.last + 1]

Append1(h, f) ==
    [h EXCEPT !.Fields = [p \in DOMAIN h.Fields \cup {h.last + 1} |->
                             IF p = h.last + 1 THEN f ELSE h.Fields[p]],
              !.last = h.last + 1,
              !.verified = FALSE]

MergeInto(h, f) ==
    [h EXCEPT !.Fields[field(h, f.name, 0)].val = @ \o f.val]

\* The header with field f, of the same name, in place of the one at p.
SetField(h, p, f) == [h EXCEPT !.Fields = [h.Fields EXCEPT ![p] = f]]

\* addField without merging.
addAlways(h, f) == Append1(h, f)

\* addField: a second To, Cc, Bcc, Reply-To or From is merged into the first,
\* which leaves verified alone and forgets the error of the second.
addField(h, f) ==
    IF f.name \in MergedNames /\ Named(h, f.name) # {}
    THEN MergeInto(h, f)
    ELSE Append1(h, f)

\* Add(key, value), given what the value parses as.
AddField(h, fn, val) == addField(h, [name |-> fn, err |-> "", val |-> val])

RemoveAt(h, p) == Keep(h, DOMAIN h.Fields \ {p})

RemoveAllNamed(h, fn) == Keep(h, DOMAIN h.Fields \ Named(h, fn))

\* The loops that remove the fields at positions S one by one.
Without(h, S) == Keep(h, DOMAIN h.Fields \ S)

-----------------------------------------------------------------------------
(***************************************************************************)
(* verify and Valid                                                        *)
(***************************************************************************)
conditions ==
    {[name |-> fn, min |-> IF fn \in {"From", "Date"} THEN 1 ELSE 0,
      max |-> 1, m |-> "RFC5322"] :
        fn \in {"Sender", "Reply-To", "To", "Cc", "Bcc", "Message-ID",
                "References", "Subject", "From", "Date", "MIME-Version",
                "Content-Type", "Content-Transfer-Encoding", "Return-Path"}}
    \cup
    {[name |-> fn, min |-> 0, max |-> 1, m |-> "MIME"] :
        fn \in {"MIME-Version", "Content-Type", "Content-Transfer-Encoding"}}

AllFieldsValid(h) == \A p \in DOMAIN h.Fields : h.Fields[p].err = ""

\* conditions[i].m == h.mode && occ < min || occ > max: && binds tighter, so
\* the maximum applies in both modes.
Breaks(h, c) ==
    \/ c.m = h.mode /\ Occurrences(h, c.name) < c.min
    \/ Occurrences(h, c.name) > c.max

\* What verify computes when it computes anything.
Acceptable(h) == AllFieldsValid(h) /\ \A c \in conditions : ~Breaks(h, c)

\* The two parts of it that removing fields cannot undo: no field that may
\* occur once is repeated, and the fields that addField merges are unique.
NoneRepeated(h) == \A c \in conditions : Occurrences(h, c.name) <= c.max

AddressFieldsMerged(h) ==
    \A p, q \in DOMAIN h.Fields :
        /\ h.Fields[p].name \in MergedNames
        /\ h.Fields[p].name = h.Fields[q].name
        => p = q

verify(h) ==
    IF h.verified THEN h
    ELSE [h EXCEPT !.verified = TRUE, !.err = ~Acceptable(h)]

\* The answer of Valid(); its side effect is verify(h).
Valid(h) == ~verify(h).err

-----------------------------------------------------------------------------
(***************************************************************************)
(* The text of a field, as far as comparing two of the same name goes      *)
(***************************************************************************)
\* toString and lpdomain: a local address is written without its name.
toString(a) == IF TypeOf(a) = "Local" THEN [a EXCEPT !.name = ""] ELSE a

\* rfc822(false).  A field that did not parse has an empty value, except
\* that a Content-Type keeps whatever type and parameters were read.
rfc822(f) ==
    CASE f.name = "Return-Path" ->
            [i \in DOMAIN f.val |-> [toString(f.val[i]) EXCEPT !.name = ""]]
      [] f.name \in (addressFieldNames \ {"Return-Path"})
                    \cup {"Message-ID", "Content-ID", "References"} ->
            [i \in DOMAIN f.val |-> toString(f.val[i])]
      [] f.name = "Content-Type" -> <<f.val.type, f.val.subtype, f.val.params>>
      [] f.name = "Content-Transfer-Encoding" -> f.val.base
      [] f.name = "Content-Disposition" -> <<f.val.disp, f.val.params>>
      [] OTHER -> f.val

\* localpartIsSensible looks at the character after a "."; there is none after
\* the last.  toString and lpdomain ask it about Normal and Local addresses.
Unwritable(a) == TypeOf(a) \in {"Normal", "Local"} /\ a.lp \in DotEnded

WrittenFirstOnly == {"Return-Path", "Message-ID", "Resent-Message-ID", "Content-ID"}

\* rfc822(false) writes every address, or the first.
WritePanics(f) ==
    /\ f.name \in AddressNames
    /\ \E i \in DOMAIN f.val :
          /\ f.name \in WrittenFirstOnly => i = 1
          /\ f.name = "Return-Path" => TypeOf(f.val[i]) = "Normal"
          /\ Unwritable(f.val[i])

\* The fields of a name that parsed, and those that did not.
ValidOnes(h, fn) == {p \in Named(h, fn) : h.Fields[p].err = ""}
InvalidOnes(h, fn) == Named(h, fn) \ ValidOnes(h, fn)

ContentType(h) == field(h, "Content-Type", 0)

\* The shape of the value of a Content-Type.
TypeShape(ct) ==
    ct = [type |-> ct.type, subtype |-> ct.subtype, params |-> ct.params, raw |-> ct.raw]

\* A field has a name, an error and a value, which is a list for an address
\* field and a record for a Content-Type.
FieldShape(f) ==
    /\ f = [name |-> f.name, err |-> f.err, val |-> f.val]
    /\ f.name \in addressFieldNames => f.val \in Seq(Address)
    /\ f.name = "Content-Type" => TypeShape(f.val)

\* ct.parameter(n)
parameter(ct, n) == IF n \in DOMAIN ct.params THEN ct.params[n] ELSE ""

addParameter(ct, n, v) ==
    [ct EXCEPT !.params = [m \in DOMAIN ct.params \cup {n} |->
                              IF m = n THEN v ELSE ct.params[m]]]

removeParameter(ct, n) ==
    [ct EXCEPT !.params = [m \in DOMAIN ct.params \ {n} |-> ct.params[m]]]

IsType(h, type) ==
    ContentType(h) # Nil /\ h.Fields[ContentType(h)].val.type = type

=============================================================================
