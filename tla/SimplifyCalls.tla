--------------------------- MODULE SimplifyCalls ---------------------------
(***************************************************************************)
(* A caller that reads a header and calls Simplify on it, more than once.  *)
(* The properties say that Simplify changes how a header is written and    *)
(* not what it means.  A call that panics leaves no header to speak of and *)
(* is the end.                                                             *)
(***************************************************************************)
EXTENDS HeaderSimplify

CONSTANTS
    Scenarios   \* the headers considered, a sequence of records:
                \*   start    the fields a header begins with
                \*   pool     the fields that may follow, a sequence
                \*   more     bound: how many of them follow
                \*   kinds    pairs of a mode and a default type

\* The fields have values of the right kind, and those a header begins with
\* were added one by one.
ASSUME ScenariosAssumption ==
    \A s \in DOMAIN Scenarios :
        LET c == Scenarios[s]
        IN  /\ c.more \in Nat
            /\ \A i \in DOMAIN c.pool : FieldShape(c.pool[i])
            /\ Len(c.start) \in Nat /\ DOMAIN c.start = 1..Len(c.start)
            /\ \A i \in DOMAIN c.start : FieldShape(c.start[i])
            /\ \A i, j \in DOMAIN c.start :
                  c.start[i].name \in MergedNames /\ c.start[i].name = c.start[j].name => i = j

VARIABLES
    text,       \* the fields that ReadHeader has still to read
    h,          \* the header
    before,     \* the header before the last call of Simplify
    calls       \* how often Simplify has been called

vars == <<text, h, before, calls>>

Init ==
    /\ \E s \in DOMAIN Scenarios :
          /\ \E k \in Scenarios[s].kinds :
                h = [NewHeader(k[1], k[2]) EXCEPT !.Fields = Scenarios[s].start,
                                                  !.last = Len(Scenarios[s].start)]
          /\ \E n \in 0..Scenarios[s].more :
                \E pick \in [1..n -> DOMAIN Scenarios[s].pool] :
                   text = [i \in 1..n |-> Scenarios[s].pool[pick[i]]]
    /\ before = h
    /\ calls = 0

ReadField ==
    /\ text # <<>>
    /\ h' = addField(h, Head(text))
    /\ text' = Tail(text)
    /\ UNCHANGED <<before, calls>>

CallSimplify ==
    /\ text = <<>> /\ calls < 2 /\ ~SimplifyPanics(h)
    /\ h' = Simplify(h)
    /\ before' = h
    /\ calls' = calls + 1
    /\ UNCHANGED text

Next == ReadField \/ CallSimplify

Spec == Init /\ [][Next]_vars

-----------------------------------------------------------------------------
(***************************************************************************)
(* Properties                                                              *)
(***************************************************************************)

\* Simplify never makes a valid header invalid.
KeepsValid == calls > 0 /\ Acceptable(before) => Acceptable(h)

\* Where a reply goes, and who sent the message.
OrFrom(k, fn) == UniquifyKeys(IF AddressesOf(k, fn) = <<>> THEN AddressesOf(k, "From")
                              ELSE AddressesOf(k, fn))

\* A Reply-To or Sender is dropped only if replies go to the same mailboxes
\* and the sender is the same without it.  sameAddresses tests one inclusion
\* only; that this is enough rests on Uniquify having run before.
CorrespondentsKept ==
    calls > 0 => /\ OrFrom(h, "Reply-To") = OrFrom(before, "Reply-To")
                 /\ OrFrom(h, "Sender") = OrFrom(before, "Sender")
                 /\ \A fn \in {"From", "To", "Cc", "Bcc", "Return-Path"} :
                       UniquifyKeys(AddressesOf(h, fn)) =
                       UniquifyKeys(AddressesOf(before, fn))

\* The content type and the encoding that a reader of the header assumes.
AssumedType(k) ==
    IF Has(k, "Content-Type")
    THEN LET ct == k.Fields[ContentType(k)].val IN <<ct.type, ct.subtype>>
    ELSE IF k.defaultType = "text/plain" THEN <<"text", "plain">>
    ELSE <<"message", "rfc822">>

AssumedEncoding(k) ==
    IF Has(k, "Content-Transfer-Encoding")
    THEN k.Fields[field(k, "Content-Transfer-Encoding", 0)].val.enc ELSE "7bit"

\* Dropping a default Content-Type or a binary Content-Transfer-Encoding does
\* not change how the body is read, and a header that has any of the MIME
\* fields Simplify knows has a MIME-Version.
ContentMeaningKept ==
    calls > 0 =>
        /\ AssumedType(h) = AssumedType(before)
        /\ AssumedEncoding(h) = AssumedEncoding(before)
        /\ (/\ Acceptable(before)
            /\ h.mode = "RFC5322"
            /\ \E fn \in {"Content-Type", "Content-Transfer-Encoding",
                          "Content-Description", "Content-Disposition",
                          "Content-Location", "Content-Base"} : Has(h, fn))
           => Has(h, "MIME-Version")

\* The comment on Simplify: "Removes any redundant header fields from this
\* header": a second call finds nothing left to remove.
NothingLeftToRemove == calls = 2 => DOMAIN h.Fields = DOMAIN before.Fields

=============================================================================
