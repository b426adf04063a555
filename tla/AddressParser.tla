--------------------------- MODULE AddressParser ---------------------------
(***************************************************************************)
(* NewAddressParser of addresses.go.  It calls address() once for every    *)
(* address of the text, from the last to the first.  A group calls         *)
(* address() again for its members, and a text that is quoted as a whole   *)
(* runs a parser of its own on what is inside.  If some of the text is     *)
(* left over or in error, Plan B looks for addresses around the "@" signs, *)
(* and Plan C for the name of an empty group.                              *)
(*                                                                         *)
(*   given   the text of the outermost parser, and the list of addresses   *)
(*           it was written from, <<>> if it was not written by this code  *)
(*   pc      "address"   address() is called at q.i                        *)
(*           "branch"    past the white space, commas and ">" at its start *)
(*           "group"     at the head of the loop over the group's members  *)
(*           "returned"  address() has returned q.i                        *)
(*           "planB", "planC", "done", "panic"                             *)
(*   s, q    the text, and the parser as in AddressText                    *)
(*   addrs   Addresses                                                     *)
(*   calls   the calls of address() under way: where each began, and empty *)
(*           of the group that made it; the first is that of the main loop *)
(*   outer   the parsers waiting for the one of the text inside theirs     *)
(***************************************************************************)
EXTENDS AddressText, SequencesExt

CONSTANTS
    Givens,         \* the texts, with the lists they come from
    TldLengths      \* the lengths of the top-level domains in tlds.go

VARIABLES given, pc, s, q, addrs, calls, outer

vars == <<given, pc, s, q, addrs, calls, outer>>

Start(i) == [i |-> i, v |-> <<>>, com |-> <<>>, err |-> FALSE, bad |-> FALSE]

Address == [name : Seq(Char), lp : Seq(Char), dom : Seq(Char)]

NewAddress(name, lp, dom) == [name |-> name, lp |-> lp, dom |-> dom]

Call(i) == [at |-> i, empty |-> TRUE]

\* The main loop calls address() at the last index, unless the text is empty.
Begin(t) == IF t = <<>> THEN "done" ELSE "address"

Init ==
    /\ given \in Givens
    /\ s = given.text
    /\ pc = Begin(s)
    /\ q = Start(Len(s) - 1)
    /\ addrs = <<>>
    /\ calls = <<Call(Len(s) - 1)>>
    /\ outer = <<>>

-----------------------------------------------------------------------------
(***************************************************************************)
(* add() and Uniquify().                                                   *)
(***************************************************************************)
Quotes == {"'", "\""}

\* How many characters at each end of a name are the same kind of quote.
Symmetric(n) ==
    Lowest({k \in 0..(Len(n) - 1) :
               k + 1 >= Len(n) \/ n[k + 1] # n[Len(n) - k] \/ n[k + 1] \notin Quotes}, 0)

Unquoted(n) == SubSeq(n, Symmetric(n) + 1, Len(n) - Symmetric(n))
Parenthesised(n) == Len(n) > 1 /\ n[1] = "(" /\ n[Len(n)] = ")"
Inside(n) == SubSeq(n, 2, Len(n) - 1)

AddPanics(name) ==
    \/ 2 * Symmetric(name) > Len(name)
    \/ SimplifyPanics(Unquoted(name))
    \/ LET n == simplify(Unquoted(name)) IN Parenthesised(n) /\ SimplifyPanics(Inside(n))

\* The name add() stores: without the quotes or parentheses around it, and none
\* if it is just the address.
StoredName(name, lp, dom) ==
    LET n == simplify(Unquoted(name))
        m == IF Parenthesised(n) THEN simplify(Inside(n)) ELSE n
    IN  IF m = lp \o <<"@">> \o dom THEN <<>> ELSE m

Added(a) == NewAddress(StoredName(a.name, a.lp, a.dom), a.lp, a.dom)

Uniquified(l) ==
    LET Copies(i) == {j \in DOMAIN l : l[j].lp = l[i].lp /\ l[j].dom = l[i].dom}
        Firsts == {i \in DOMAIN l : \A j \in Copies(i) : i <= j}
        Named(i) == {j \in Copies(i) : l[j].name # <<>>}
    IN  Picked([i \in DOMAIN l |-> l[Lowest(Named(i), i)]], Firsts)

\* The step to r with the list l, unless something panicked.
Become(next, r, l, panics) ==
    /\ pc' = IF panics THEN "panic" ELSE next
    /\ q' = r
    /\ addrs' = IF panics THEN addrs ELSE l

\* Mutant: the new address goes to the end of the list.
ReturnAppends(r, new) ==
    /\ \E c \in {comment(s, r)} :
           Become("returned", c, addrs \o [n \in DOMAIN new |-> Added(new[n])],
                  c.bad \/ \E n \in DOMAIN new : AddPanics(new[n].name))
    /\ UNCHANGED <<given, s, outer>>

(***************************************************************************)
(* address() returns with the cursor at r, having added the addresses new: *)
(* none or one.  The white space and comments before it go first.          *)
(***************************************************************************)
Return(r, new) ==
    /\ \E c \in {comment(s, r)} :
           Become("returned", c, [n \in DOMAIN new |-> Added(new[n])] \o addrs,
                  c.bad \/ \E n \in DOMAIN new : AddPanics(new[n].name))
    /\ UNCHANGED <<given, s, outer>>

\* The same, leaving the stack of calls alone.
Answer(r, new) == Return(r, new) /\ UNCHANGED calls

-----------------------------------------------------------------------------
(***************************************************************************)
(* The branches of address().                                              *)
(***************************************************************************)
RECURSIVE Commas(_)

\* Past commas, and comments between them.
Commas(r) ==
    IF r.bad \/ r.i <= 0 \/ Chr(s, r.i) # "," THEN r
    ELSE Commas(comment(s, To(r, r.i - 1)))

\* Every further ">" before another goes, but for one at the start of the text.
Enter ==
    /\ pc = "address"
    /\ \E c \in {Commas(comment(s, [q EXCEPT !.com = <<>>]))} :
           /\ pc' = IF c.bad THEN "panic" ELSE "branch"
           /\ q' = IF Chr(s, c.i) = ">" /\ c.i > 0 THEN To(c, Back(s, c.i - 1, 1, {">"}) + 1) ELSE c
    /\ UNCHANGED <<given, s, addrs, calls, outer>>

\* The conditions of the branches; each comes after the ones before it failed.
IsBounce(i) == i > 0 /\ HasAt(s, i - 1, <<"<", ">">>)
IsUnknown(i) == HasAt(s, i - 2, <<":", ";", ">">>) /\ i > 2
IsUnknownAt(i) ==
    HasAt(s, i - 1, <<";", ">">>) /\ i > 2 /\ HasWord(Slice(s, 0, i), <<":", "@">>)
IsGroup(i) == Chr(s, i) = ";" /\ HasWord(Slice(s, 0, i), <<":">>)
IsNode(i) == Chr(s, i) = "\"" /\ HasWord(Slice(s, 0, i), <<":", ":">>)
IsWrapped == isQuoted(s) /\ HasWord(s, <<"@">>)

Kind(i) ==
    IF i < 0 THEN "nothing"
    ELSE IF IsBounce(i) THEN "bounce"
    ELSE IF IsUnknown(i) THEN "unknown"
    ELSE IF IsUnknownAt(i) THEN "unknownAt"
    ELSE IF Chr(s, i) = ">" THEN "nameAddr"
    ELSE IF IsGroup(i) THEN "group"
    ELSE IF IsNode(i) THEN "node"
    ELSE IF IsWrapped THEN "wrapped"
    ELSE "addrSpec"

Branch(kind) == pc = "branch" /\ Kind(q.i) = kind

\* One character less, if it is "<".
PastAngle(r) == IF Chr(s, r.i) = "<" THEN To(r, r.i - 1) ELSE r

Nothing == Branch("nothing") /\ Answer(q, <<>>)

\* <>
Bounce ==
    /\ Branch("bounce")
    /\ Answer(phrase(s, PastAngle(To(q, q.i - 2))), <<NewAddress(<<>>, <<>>, <<>>)>>)

\* <Unknown-Recipient:;>
Unknown ==
    /\ Branch("unknown")
    /\ \E n \in {phrase(s, To(q, q.i - 3))} : Answer(PastAngle(n), <<NewAddress(n.v, <<>>, <<>>)>>)

\* <Unknown-Recipient:@x.y;>; anything else stays where it is.
UnknownAt ==
    /\ Branch("unknownAt")
    /\ \E d \in {domain(s, To(q, q.i - 2))} :
           IF d.i > 1 /\ HasAt(s, d.i - 1, <<":", "@">>)
           THEN \E n \in {phrase(s, To(d, d.i - 2))} :
                    Answer(PastAngle(n), <<NewAddress(n.v, <<>>, <<>>)>>)
           ELSE Answer(To(d, q.i), <<>>)

-----------------------------------------------------------------------------
(***************************************************************************)
(* What name-addr and addr-spec share: what stands before the "@" at d.i,  *)
(* where d.v is the domain.  A result is the parser and the address parts. *)
(***************************************************************************)
Parts(r, name, lp, dom) == [q |-> r, name |-> name, lp |-> lp, dom |-> dom]

\* unlisted-recipients:; (no To-header on input)@do.ma.in, with the ";" at c.i.
\* Without a name n before the ":" the address has a domain only.
GroupName(c, n, name, dom) ==
    IF n.v = <<>> THEN Parts(To(n, c.i), name, <<>>, dom) ELSE Parts(n, n.v, <<>>, <<>>)

Unlisted(c, j, name, dom) ==
    IF Chr(s, j) = ":" THEN GroupName(c, phrase(s, To(c, j - 1)), name, dom)
    ELSE Parts(c, name, <<>>, dom)

\* (Recipient list suppressed)@localhost: the words n of the comment, which only
\* name-addr keeps.
Said(n) == {k \in DOMAIN n : n[k] \in Letters \cup {" ", "-"}}
Hyphenated(n) == Picked([k \in DOMAIN n |-> IF n[k] = " " THEN "-" ELSE n[k]], Said(n))

Suppressed(c, n, angle) ==
    Parts(IF SimplifyPanics(c.com) THEN Crash(c)
          ELSE IF Said(n) = DOMAIN n THEN c ELSE setError(s, c, c.i),
          IF angle THEN Hyphenated(n) ELSE <<>>, <<>>, <<>>)

\* The localpart l of a name-addr goes on to the left over letters and blanks,
\* if these lead to a "<" at index j.
Widened(l, j, name, dom) ==
    IF l.bad \/ l.i < 0 THEN Parts(Crash(l), name, <<>>, dom)
    ELSE IF Chr(s, l.i) = "<" \/ Chr(s, j) # "<" THEN Parts(l, name, l.v, dom)
    ELSE Parts(To(l, j), name,
               Slice(s, j + 1, l.i + 1) \o (IF Chr(s, l.i + 1) = " " THEN <<" ">> ELSE <<>>) \o l.v,
               dom)

WithLocalpart(l, name, dom, angle) ==
    IF angle THEN Widened(l, Back(s, l.i, 0, Letters \cup {" "}), name, dom)
    ELSE Parts(l, name, l.v, dom)

\* after is the index before the "@" signs, c where the comments before it end.
BeforeComments(after, c, name, dom, angle) ==
    IF c.bad THEN Parts(c, name, <<>>, dom)
    ELSE IF c.i >= 1 /\ Chr(s, c.i) = ";" THEN Unlisted(c, Back(s, c.i - 1, 1, {" "}), name, dom)
    ELSE IF after > c.i /\ c.i < 0 THEN Suppressed(c, simplify(c.com), angle)
    ELSE WithLocalpart(localpart(s, c), name, dom, angle)

BeforeAts(d, after, name, angle) ==
    BeforeComments(after, comment(s, To(d, after)), name, d.v, angle)

BeforeAt(d, name, angle) == BeforeAts(d, Back(s, d.i - 1, 1, {"@"}), name, angle)

RECURSIVE DisplayName(_)

\* A display-name: n.v, unless there is an "@" or "<" before it.
DisplayName(n) ==
    IF n.bad \/ Chr(s, n.i) \notin {"@", "<"} THEN n
    ELSE DisplayName(Read(phrase(s, OneBefore(n)), <<>>))

\* name <a@b>: the parts of the address between the angles, without and with the
\* route before them.
Angled(d) ==
    IF d.bad \/ d.i < 0 THEN Parts(Crash(d), <<>>, <<>>, <<>>)
    ELSE IF Chr(s, d.i) = "@" THEN BeforeAt(d, <<>>, TRUE)
    ELSE Parts(d, <<>>, <<>>, d.v)

NameAddr ==
    /\ Branch("nameAddr")
    /\ \E d \in {domain(s, OneBefore(q))} :
       \E p \in {IF Chr(s, d.i) = "<" THEN Parts(d, <<>>, d.v, <<>>) ELSE Angled(d)} :
       \E r \in {IF Chr(s, d.i) = "<" THEN d ELSE route(s, p.q)} :
           IF Chr(s, r.i) = "<"
           THEN \E n \in {DisplayName(phrase(s, To(r, Back(s, r.i, 0, {"<"}))))} :
                    Answer(n, <<NewAddress(IF n.v = <<>> THEN p.name ELSE n.v, p.lp, p.dom)>>)
           ELSE Answer(r, <<NewAddress(p.name, p.lp, p.dom)>>)

\* a@b, or just a
AddrSpec ==
    /\ Branch("addrSpec")
    /\ \E d \in {domain(s, q)} :
       \E p \in {IF Chr(s, d.i) = "@" THEN BeforeAt(d, q.com, FALSE)
                 ELSE Parts(d, q.com, d.v, <<>>)} :
           Answer(comment(s, route(s, p.q)),
                  IF p.name = <<>> /\ p.lp = <<>> /\ p.dom = <<>> THEN <<>>
                  ELSE <<NewAddress(p.name, p.lp, p.dom)>>)

\* NODE::USER "display-name"; the name, whose first quote is at index b, is not
\* kept.
Node ==
    /\ Branch("node")
    /\ \E b \in {Back(s, q.i - 1, 1, Char \ {"\""})} :
       \E u \in {atom(s, IF Chr(s, b) = "\"" THEN To(q, b - 1) ELSE q)} :
           IF u.i > 2 /\ HasAt(s, u.i - 1, <<":", ":">>)
           THEN \E n \in {atom(s, To(u, u.i - 2))} :
                    Answer(n, <<NewAddress(<<>>, n.v \o <<":", ":">> \o u.v, <<>>)>>)
           ELSE Answer(IF u.bad THEN u ELSE setError(s, u, u.i), <<>>)

-----------------------------------------------------------------------------
(***************************************************************************)
(* Groups.  The loop over the members goes on until the ":".               *)
(***************************************************************************)
Frame == calls[Len(calls)]
Popped == SubSeq(calls, 1, Len(calls) - 1)

\* The comments before the ";" are read, and the cursor stays before them.
Group ==
    /\ Branch("group")
    /\ \E c \in {comment(s, To(q, q.i - 1))} :
           Become("group", To(c, q.i - 1), addrs, c.bad)
    /\ UNCHANGED <<given, s, calls, outer>>

\* The head of the loop, in the call the group is in.
Members == q.i > 0 /\ Chr(s, q.i) # ":"

GroupMember ==
    /\ pc = "group" /\ Members
    /\ pc' = "address"
    /\ calls' = Append(calls, Call(q.i))
    /\ UNCHANGED <<given, s, q, addrs, outer>>

\* The end of the loop; a group without members leaves its name.
GroupEnd ==
    /\ pc = "group" /\ ~Members
    /\ IF q.i < 0 THEN Answer(Crash(q), <<>>)
       ELSE IF Chr(s, q.i) # ":" THEN Answer(q, <<>>)
       ELSE \E n \in {phrase(s, OneBefore(q))} :
                Answer(n, IF Frame.empty THEN <<NewAddress(n.v, <<>>, <<>>)>> ELSE <<>>)

\* A member has been read.  The errors return from the call the group is in at
\* once, without looking for another comment.
MemberReturned ==
    /\ pc = "returned" /\ Len(calls) > 1
    /\ calls' = [Popped EXCEPT ![Len(calls) - 1].empty = FALSE]
    /\ IF q.i = Frame.at \/ Chr(s, q.i) \notin {",", ":"}
       THEN \E e \in {IF q.i < 0 /\ q.i # Frame.at THEN Crash(q) ELSE setError(s, q, q.i)} :
                Become("returned", e, addrs, e.bad)
       ELSE Become("group", IF Chr(s, q.i) = "," THEN OneBefore(q) ELSE q, addrs, FALSE)
    /\ UNCHANGED <<given, s, outer>>

-----------------------------------------------------------------------------
(***************************************************************************)
(* A text that is quoted as a whole.  If the parser of the inside reports  *)
(* no error, its addresses are all there is.                               *)
(***************************************************************************)
Wrapped ==
    /\ Branch("wrapped")
    /\ outer' = Append(outer, [s |-> s, q |-> q, addrs |-> addrs, calls |-> calls])
    /\ s' = unquote(s)
    /\ pc' = Begin(s')
    /\ q' = Start(Len(s') - 1)
    /\ addrs' = <<>>
    /\ calls' = <<Call(Len(s') - 1)>>
    /\ UNCHANGED given

\* Mutant: the cursor stays where the quoted text was found.
UnwrapStays ==
    /\ pc = "done" /\ outer # <<>>
    /\ \E o \in {outer[Len(outer)]} :
       \E c \in {comment(o.s, IF q.err THEN setError(o.s, o.q, o.q.i) ELSE o.q)} :
           /\ s' = o.s /\ calls' = o.calls /\ q' = c
           /\ pc' = IF c.bad THEN "panic" ELSE "returned"
           /\ addrs' = IF q.err THEN o.addrs ELSE o.addrs \o addrs
    /\ outer' = SubSeq(outer, 1, Len(outer) - 1)
    /\ UNCHANGED given

Unwrap ==
    /\ pc = "done" /\ outer # <<>>
    /\ \E o \in {outer[Len(outer)]} :
       \E c \in {comment(o.s, IF q.err THEN setError(o.s, o.q, o.q.i) ELSE To(o.q, -1))} :
           /\ s' = o.s /\ calls' = o.calls /\ q' = c
           /\ pc' = IF c.bad THEN "panic" ELSE "returned"
           /\ addrs' = IF q.err THEN o.addrs ELSE o.addrs \o addrs
    /\ outer' = SubSeq(outer, 1, Len(outer) - 1)
    /\ UNCHANGED given

-----------------------------------------------------------------------------
(***************************************************************************)
(* The main loop, once address() has returned.                             *)
(***************************************************************************)
RECURSIVE PastSeparators(_, _)

\* Past commas, and semicolons in a text without groups.
PastSeparators(i, j) ==
    IF i < j /\ \/ Chr(s, i) = ","
                \/ Chr(s, i) = ";" /\ ~HasWord(s, <<":">>)
    THEN PastSeparators(space(s, i - 1), j)
    ELSE i

\* Mutant: the loop does not ask whether address() got anywhere.
ReturnedAnyway ==
    /\ pc = "returned" /\ Len(calls) = 1
    /\ \E i \in {PastSeparators(q.i, Frame.at)} :
           /\ q' = To(q, i)
           /\ IF i >= 0
              THEN pc' = "address" /\ calls' = <<Call(i)>> /\ addrs' = addrs
              ELSE IF i < 0 /\ ~q.err
              THEN pc' = "done" /\ addrs' = Uniquified(addrs) /\ calls' = calls
              ELSE pc' = "planB" /\ addrs' = <<>> /\ calls' = calls
    /\ UNCHANGED <<given, s, outer>>

Returned ==
    /\ pc = "returned" /\ Len(calls) = 1
    /\ \E i \in {PastSeparators(q.i, Frame.at)} :
           /\ q' = To(q, i)
           /\ IF i >= 0 /\ i < Frame.at
              THEN pc' = "address" /\ calls' = <<Call(i)>> /\ addrs' = addrs
              ELSE IF i < 0 /\ ~q.err
              THEN pc' = "done" /\ addrs' = Uniquified(addrs) /\ calls' = calls
              ELSE pc' = "planB" /\ addrs' = <<>> /\ calls' = calls
    /\ UNCHANGED <<given, s, outer>>

-----------------------------------------------------------------------------
(***************************************************************************)
(* Plan B.                                                                 *)
(***************************************************************************)
RECURSIVE AroundAts(_, _), DomainBorder(_, _, _, _)

\* The first index from l on that has the character c, or -1.
IndexFrom(l, c) == Lowest({k \in l..(Len(s) - 1) : Chr(s, k) = c}, -1)
BorderPanic == -2

\* No top-level domain is ever recognised: s[b:l], with l a length, is not the
\* next label, and out of range where b > l.
TldPanics(b, right) ==
    \E l \in TldLengths : b + l <= right /\ Chr(s, b + l) \notin Letters /\ b > l

\* The scan over the domain on the right of the first "@", label by label; the
\* one that starts at b ends at e, and dot is the last dot met.
LabelBorder(left, right, b, e, dot) ==
    IF e = b THEN (IF b > left /\ Chr(s, b - 1) = "." THEN b - 1 ELSE b)
    ELSE IF e > right THEN DomainBorder(left, right, e, dot)
    ELSE IF Chr(s, e) # "." THEN e
    ELSE IF TldPanics(e + 1, right) THEN BorderPanic
    ELSE DomainBorder(left, right, e + 1, e)

\* If all of it could be one domain, the border is the last dot, or an end.
DomainBorder(left, right, b, dot) ==
    IF b <= right
    THEN LabelBorder(left, right, b, Ahead(s, b, right + 1, Letters \cup {"-"}), dot)
    ELSE IF dot > left /\ dot < right THEN dot
    ELSE IF right + 1 >= Len(s) THEN right
    ELSE left

\* The first that is there of a comma, a semicolon, an angle and white space;
\* else the end of the domain.
FirstBorder(left, right, wanted) ==
    IF wanted = <<>> THEN DomainBorder(left, right, left, left) ELSE IndexFrom(left, wanted[1])

findBorder(left, right) ==
    IF right <= left THEN left
    ELSE FirstBorder(left, right, SelectSeq(<<",", ";", "<", ">", " ">>,
                                            LAMBDA c : IndexFrom(left, c) \in left..right))

LabelChars == Letters \cup {".", "-"}

\* The address the strings lp and dom make, after simplify, and those that follow.
Around(lp, dom, rest) ==
    IF SimplifyPanics(lp) \/ SimplifyPanics(dom) THEN [bad |-> TRUE, addrs |-> <<>>]
    ELSE IF lp = <<>> \/ dom = <<>> THEN rest
    ELSE [rest EXCEPT !.addrs = <<NewAddress(<<>>, simplify(lp), simplify(dom))>> \o @]

\* The borders of the address are left and right, the "@" at at.
Between(left, at, right, rest) ==
    Around(Slice(s, Back(s, Back(s, at - 1, left, {" "}), left, LabelChars) + 1, at),
           Slice(s, at + 1, Ahead(s, Ahead(s, at + 1, right, {" "}), right, LabelChars)),
           rest)

\* left is where the address at before the "@" ended; next is the next "@".
AroundAt(left, at, right, next) ==
    IF right = BorderPanic THEN [bad |-> TRUE, addrs |-> <<>>]
    ELSE Between(IF left > 0 /\ Chr(s, left) \in {".", ">"} THEN left + 1 ELSE left,
                 at, right, AroundAts(right, next))

BorderBefore(at, next) == IF next < 0 THEN Len(s) ELSE findBorder(at + 1, next - 1)

AroundAts(left, at) ==
    IF at < 0 THEN [bad |-> FALSE, addrs |-> <<>>]
    ELSE AroundAt(left, at, BorderBefore(at, IndexFrom(at + 1, "@")), IndexFrom(at + 1, "@"))

\* Addresses found this way clear the errors.
PlanB ==
    /\ pc = "planB"
    /\ \E r \in {AroundAts(0, IndexFrom(0, "@"))} :
           /\ pc' = IF r.bad THEN "panic" ELSE IF r.addrs = <<>> THEN "planC" ELSE "done"
           /\ addrs' = Uniquified(addrs \o r.addrs)
           /\ q' = IF r.addrs = <<>> THEN q ELSE [q EXCEPT !.err = FALSE]
    /\ UNCHANGED <<given, s, calls, outer>>

(***************************************************************************)
(* Plan C: the text before the ":;" at index ix names a group, if it is    *)
(* made of letters, blanks and hyphens.                                    *)
(***************************************************************************)
PlanC ==
    /\ pc = "planC"
    /\ \E ix \in {Lowest({k \in 0..Len(s) : HasAt(s, k, <<":", ";">>)}, -1)} :
       \E before \in {Slice(s, 0, ix)} :
           IF ix < 0 \/ HasWord(s, <<"@">>) \/ Said(before) # DOMAIN before
           THEN pc' = "done" /\ UNCHANGED <<q, addrs>>
           ELSE Become("done", [q EXCEPT !.err = FALSE],
                       <<NewAddress(simplify(before), <<>>, <<>>)>>, SimplifyPanics(before))
    /\ UNCHANGED <<given, s, calls, outer>>

-----------------------------------------------------------------------------
Next ==
    \/ Enter \/ Nothing \/ Bounce \/ Unknown \/ UnknownAt \/ NameAddr \/ AddrSpec \/ Node
    \/ Group \/ GroupMember \/ GroupEnd \/ MemberReturned
    \/ Wrapped \/ Unwrap
    \/ Returned \/ PlanB \/ PlanC

Spec == Init /\ [][Next]_vars

-----------------------------------------------------------------------------
(***************************************************************************)
(* How a list of addresses is written.  Names have no quote of their own.  *)
(***************************************************************************)
Quoted(t) == <<"\"">> \o t \o <<"\"">>

\* Name(): quoted unless it is made of atoms and blanks.
Name(n) == IF \A k \in DOMAIN n : n[k] \in Atext \cup {" "} THEN n ELSE Quoted(n)

localpartIsSensible(lp) ==
    /\ lp # <<>>
    /\ \A k \in DOMAIN lp : /\ lp[k] \in Atext \cup {"."}
                            /\ lp[k] = "." => lp[k + 1] # "."

\* quote(lp, '"', '\'')
QuotedLocalpart(lp) ==
    Quoted(FoldLeft(LAMBDA r, c : r \o (IF c \in Quotes THEN <<"'", c>> ELSE <<c>>), <<>>, lp))

Localpart(lp) == IF localpartIsSensible(lp) THEN lp ELSE QuotedLocalpart(lp)

toString(a) ==
    IF a.dom # <<>> /\ a.name = <<>> THEN Localpart(a.lp) \o <<"@">> \o a.dom
    ELSE IF a.dom # <<>>
    THEN Name(a.name) \o <<" ", "<">> \o Localpart(a.lp) \o <<"@">> \o a.dom \o <<">">>
    ELSE IF a.lp # <<>> THEN Localpart(a.lp)
    ELSE IF a.name # <<>> THEN Name(a.name) \o <<":", ";">>
    ELSE <<"<", ">">>

\* rfc822 of an AddressField with the list l; the white space after each comma
\* is one blank or the start of a new line.
rfc822(l, gap) ==
    FoldLeft(LAMBDA r, a : IF r = <<>> THEN toString(a) ELSE r \o <<",">> \o gap \o toString(a),
             <<>>, l)

-----------------------------------------------------------------------------
Finished == pc \in {"done", "panic"} /\ (outer = <<>> \/ pc = "panic")

Mailbox(a) == <<a.lp, a.dom>>

(***************************************************************************)
(* A list that this code wrote is read back by it without an error.  No    *)
(* mailbox is missing, no address is there that was not written, and if no *)
(* mailbox was written twice then the list is what it was, order included. *)
(***************************************************************************)
WrittenReadBack ==
    Finished /\ given.list # <<>> =>
        /\ pc = "done" /\ ~q.err
        /\ {Mailbox(a) : a \in Range(addrs)} = {Mailbox(a) : a \in Range(given.list)}
        /\ Range(addrs) \subseteq Range(given.list)
        /\ (\A k, l \in DOMAIN given.list :
                Mailbox(given.list[k]) = Mailbox(given.list[l]) => k = l)
               => addrs = given.list

\* The comment on AddressParser: it "does not attempt to canonicalize the
\* addresses parsed or get rid of duplicates (To: ams@oryx.com, ams@ory.com), it
\* only parses".
DuplicatesKept ==
    Finished /\ Range(addrs) = Range(given.list) => Len(addrs) = Len(given.list)

Reading == pc \in {"address", "branch", "group", "returned"}

(***************************************************************************)
(* No address is made up, and none is read twice: there are never more     *)
(* addresses with a localpart and a domain than "@" signs to the right of  *)
(* the cursor, or in the whole text once Plan A is over.                   *)
(***************************************************************************)
NothingInvented ==
    Cardinality({n \in DOMAIN addrs : addrs[n].lp # <<>> /\ addrs[n].dom # <<>>})
        <= Cardinality({k \in DOMAIN s : s[k] = "@" /\ (Reading => k - 1 > q.i)})

(***************************************************************************)
(* The loops over addresses and over the members of a group end: every     *)
(* call of address() begins to the left of where the last one began, and   *)
(* no step takes the cursor to the right.                                  *)
(***************************************************************************)
MovesLeft ==
    /\ q'.i <= q.i
    /\ pc' = "address" => calls'[Len(calls')].at < Frame.at

CallsMoveLeft == [][s' = s /\ Reading /\ pc' # "panic" => MovesLeft]_vars

=============================================================================
