---------------------------- MODULE HeaderRepair ----------------------------
(***************************************************************************)
(* The rules of Header.Repair, in the order in which it applies them.      *)
(* Each takes the header h and occ, the number of fields of each name when *)
(* Repair started: the code counts once and does not keep the count up to  *)
(* date while it removes fields.                                           *)
(***************************************************************************)
EXTENDS Header

CountedNames == {c.name : c \in conditions}
                \cup {"Received", "Content-Location", "Content-Disposition", "Content-ID"}

\* occurrences
Count(h) == [fn \in CountedNames |-> Occurrences(h, fn)]

\* RemoveIdentical that compares with any other field of the name, the later
\* ones included.
RemoveAllIdentical(h, occ) ==
    Without(h, {p \in DOMAIN h.Fields :
                   \E c \in conditions :
                       /\ c.m = h.mode /\ occ[c.name] > c.max
                       /\ h.Fields[p].name = c.name
                       /\ \E q \in Named(h, c.name) \ {p} :
                             rfc822(h.Fields[p]) = rfc822(h.Fields[q])})

\* "We remove duplicates of any field that may occur only once": the later
\* fields whose text is that of the first.
RemoveIdentical(h, occ) ==
    Without(h, {p \in DOMAIN h.Fields :
                   \E c \in conditions :
                       /\ c.m = h.mode /\ occ[c.name] > c.max
                       /\ h.Fields[p].name = c.name
                       /\ p # field(h, c.name, 0)
                       /\ rfc822(h.Fields[p]) = rfc822(h.Fields[field(h, c.name, 0)])})

\* All fields of a name that is repeated are written, whether they go or not.
RemoveIdenticalPanics(h, occ) ==
    \E c \in conditions : \E p \in Named(h, c.name) :
        c.m = h.mode /\ occ[c.name] > c.max /\ WritePanics(h.Fields[p])

\* If all Content-Types agree and exactly one has parameters, keep that one.
RemoveOptionless(h, occ) ==
    LET cts == Named(h, "Content-Type")
        ct(p) == h.Fields[p].val
        good == {p \in cts : DOMAIN ct(p).params # {}}
        agree == \A p, q \in cts : /\ ct(p).type = ct(q).type
                                   /\ ct(p).subtype = ct(q).subtype
    IN  IF occ["Content-Type"] > 1 /\ agree /\ Cardinality(good) = 1
        THEN Without(h, cts \ good)
        ELSE h

FirstOnlyNames == {"Date", "Return-Path", "Message-ID", "References"}

\* KeepFirstValid that takes the last valid field for the first.
KeepLastValid(h, occ) ==
    LET last(fn) == NthOf(ValidOnes(h, fn), Cardinality(ValidOnes(h, fn)) - 1)
    IN  Without(h, {p \in DOMAIN h.Fields :
                       LET fn == h.Fields[p].name
                       IN  /\ fn \in FirstOnlyNames \cup {"Content-Type"}
                           /\ occ[fn] > 1 /\ ValidOnes(h, fn) # {}
                           /\ p # last(fn)
                           /\ fn = "Content-Type" => p \in InvalidOnes(h, fn)})

\* Where one field of the name is valid, remove all others, or for
\* Content-Type all invalid ones.
KeepFirstValid(h, occ) ==
    Without(h, {p \in DOMAIN h.Fields :
                   LET fn == h.Fields[p].name
                   IN  /\ fn \in FirstOnlyNames \cup {"Content-Type"}
                       /\ occ[fn] > 1 /\ ValidOnes(h, fn) # {}
                       /\ p # NthOf(ValidOnes(h, fn), 0)
                       /\ fn = "Content-Type" => p \in InvalidOnes(h, fn)})

\* NoteMIMEVersion that adds the note as a new field.
AddMIMEVersionNote(h, occ) ==
    IF field(h, "MIME-Version", 1) = Nil THEN h
    ELSE AddField(RemoveAllNamed(h, "MIME-Version"), "MIME-Version", "1.0 (note)")

\* Only the second MIME-Version goes; the first gets a note.
NoteMIMEVersion(h, occ) ==
    LET first == field(h, "MIME-Version", 0)
        second == field(h, "MIME-Version", 1)
    IN  IF second = Nil THEN h
        ELSE SetField(RemoveAt(h, second), first,
                      [h.Fields[first] EXCEPT !.val = "1.0 (note)"])

\* "ct != nil && ct.Type == multipart || ct.Type == message": && binds
\* tighter, so a header without Content-Type is dereferenced.
MultipartEncodingPanics(h, occ) ==
    occ["Content-Transfer-Encoding"] > 0 /\ ContentType(h) = Nil

DropMultipartEncoding(h, occ) ==
    IF /\ occ["Content-Transfer-Encoding"] > 0
       /\ IsType(h, "multipart") \/ IsType(h, "message")
    THEN RemoveAllNamed(h, "Content-Transfer-Encoding")
    ELSE h

\* The addresses of From are written for a comparison that is not made.
DropSenderPanics(h, occ) ==
    /\ occ["Sender"] > 0 /\ Len(AddressesOf(h, "Sender")) # 1
    /\ \E i \in DOMAIN AddressesOf(h, "From") : Unwritable(AddressesOf(h, "From")[i])

\* The loop that would find a difference between Sender and From starts with
\* difference = false and runs only while difference is true.
DropSender(h, occ) ==
    IF occ["Sender"] > 0 /\ Len(AddressesOf(h, "Sender")) # 1
    THEN RemoveAllNamed(h, "Sender")
    ELSE h

=============================================================================
