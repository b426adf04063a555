---------------------------- MODULE HeaderProofs ----------------------------
(***************************************************************************)
(* Simplify, for every header that can be read: it changes how the header  *)
(* is written and not what it means.  A call of Simplify is one step, so   *)
(* the argument is about the rules it composes: each changes the fields of *)
(* one name only (Frame), and what it does to those keeps the meaning.     *)
(*                                                                         *)
(* Uniquify, for lists of every length over every set of addresses.        *)
(*                                                                         *)
(* The methods of Header: whatever sequence of Add, RemoveAt,              *)
(* RemoveAllNamed and Valid calls is made, with whatever fields, the       *)
(* merged address fields stay unique, and a cached verdict "valid" keeps   *)
(* the part of its meaning that removals cannot undo.                      *)
(*                                                                         *)
(* The Parse functions, for every answer of the parsers below them: the    *)
(* fields they leave have the shape the repairs rely on.                   *)
(***************************************************************************)
EXTENDS SimplifyCalls, Uniquify, HeaderApi, FieldParsing, HeaderTheorems

\* Each rule of SimplifyMIME touches the fields of one name.
LEMMA MIMERuleFrames ==
  ASSUME NEW k, Sound(k), NEW had
  PROVE  /\ Frame(k, DropEmptyDescription(k), {"Content-Description"})
         /\ Frame(k, DropBinary(k), {"Content-Transfer-Encoding"})
         /\ Frame(k, DropInline(k), {"Content-Disposition"})
         /\ Frame(k, DefaultContentType(k, had), {"Content-Type"})
         /\ Frame(k, FixMIMEVersion(k, had), {"MIME-Version"})
         /\ Frame(k, DropCharset(k), {"Content-Type"})
  <1>0. HeaderOK(k) /\ \A N : Frame(k, k, N)
    BY FrameSelf, Zenon DEF Sound
  <1>1. \A fn : Frame(k, RemoveAllNamed(k, fn), {fn})
    BY <1>0, RemoveAllFrame, Zenon
  <1>2. \A fn, val : Frame(k, AddField(k, fn, val), {fn})
    <2> SUFFICES ASSUME NEW fn, NEW val PROVE Frame(k, AddField(k, fn, val), {fn})
      BY Zenon
    <2> DEFINE f == [name |-> fn, err |-> "", val |-> val]
    <2>1. f = [name |-> f.name, err |-> f.err, val |-> f.val] /\ f.name = fn
      BY Zenon
    <2>2. AddField(k, fn, val) = addField(k, f)
      BY Zenon DEF AddField
    <2> HIDE DEF f
    <2> QED
      BY <1>0, <2>1, <2>2, AddFrame, Zenon
  <1>3. Frame(k, DropEmptyDescription(k), {"Content-Description"})
    BY <1>0, <1>1, Zenon DEF DropEmptyDescription
  <1>4. Frame(k, DropBinary(k), {"Content-Transfer-Encoding"})
    BY <1>0, <1>1, Zenon DEF DropBinary
  <1>5. Frame(k, DropInline(k), {"Content-Disposition"})
    BY <1>0, <1>1, Zenon DEF DropInline
  <1>6. Frame(k, DefaultContentType(k, had), {"Content-Type"})
    BY <1>0, <1>1, <1>2, Zenon DEF DefaultContentType
  <1>7. Frame(k, FixMIMEVersion(k, had), {"MIME-Version"})
    BY <1>0, <1>1, <1>2, Zenon DEF FixMIMEVersion
  <1>8. Frame(k, DropCharset(k), {"Content-Type"})
    <2> DEFINE p == ContentType(k)
               f == [k.Fields[p] EXCEPT !.val = removeParameter(@, "charset")]
    <2>1. ASSUME p # Nil PROVE Frame(k, SetField(k, p, f), {"Content-Type"})
      <3>1. p \in DOMAIN k.Fields /\ k.Fields[p].name = "Content-Type"
        BY <1>0, <2>1, NilField, FieldFound DEF ContentType, Named
      <3>2. f = [name |-> f.name, err |-> f.err, val |-> f.val] /\ f.name = "Content-Type"
        BY <1>0, <3>1 DEF HeaderOK
      <3> HIDE DEF f, p
      <3> QED
        BY <1>0, <3>1, <3>2, SetFieldFrame
    <2>2. DropCharset(k) \in {k} \cup (IF p # Nil THEN {SetField(k, p, f)} ELSE {})
      BY Zenon DEF DropCharset, IsType
    <2> HIDE DEF p, f
    <2> QED
      BY <1>0, <2>1, <2>2, Zenon
  <1> QED
    BY <1>3, <1>4, <1>5, <1>6, <1>7, <1>8, Zenon

\* So does each rule of SimplifyAddresses but the last.
LEMMA AddressRuleFrames ==
  ASSUME NEW k, HeaderOK(k)
  PROVE  /\ Frame(k, DropErrorsTo(k), {"Errors-To"})
         /\ \A fn : Frame(k, DropCopyOfFrom(k, fn), {fn})
  <1>0. \A N : Frame(k, k, N)
    BY FrameSelf, Zenon
  <1>1. \A fn : Frame(k, RemoveAllNamed(k, fn), {fn})
    BY RemoveAllFrame, Zenon
  <1> QED
    BY <1>0, <1>1, Zenon DEF DropErrorsTo, DropCopyOfFrom

\* Dropping the fields without addresses changes no list of addresses, and no
\* fields of other names.
LEMMA DropEmptyProperties ==
  ASSUME NEW k, HeaderOK(k)
  PROVE  /\ Frame(k, DropEmpty(k), DroppedWhenEmpty)
         /\ \A fn : AddressesOf(DropEmpty(k), fn) = AddressesOf(k, fn)
  <1> DEFINE T == {p \in DOMAIN k.Fields :
                     /\ k.Fields[p].name \in DroppedWhenEmpty
                     /\ AddressesOf(k, k.Fields[p].name) = <<>>}
             l == Without(k, T)
  <1>1. DropEmpty(k) = l
    BY Zenon DEF DropEmpty
  <1>2. \A p \in DOMAIN k.Fields : p \in T => k.Fields[p].name \in DroppedWhenEmpty
    BY Zenon
  <1>3. \A fn : IF fn \in DroppedWhenEmpty /\ AddressesOf(k, fn) = <<>>
                THEN Named(k, fn) \ T = {} ELSE Named(k, fn) \ T = Named(k, fn)
    BY Zenon DEF Named
  <1> HIDE DEF T
  <1>4. /\ Frame(k, l, DroppedWhenEmpty) /\ \A fn : Named(l, fn) = Named(k, fn) \ T
        /\ \A p \in DOMAIN k.Fields \ T : l.Fields[p] = k.Fields[p]
    BY <1>2, WithoutFrame, Zenon
  <1> HIDE DEF l
  <1>5. ASSUME NEW fn PROVE AddressesOf(l, fn) = AddressesOf(k, fn)
    <2>1. CASE fn \in DroppedWhenEmpty /\ AddressesOf(k, fn) = <<>>
      <3>1. Named(l, fn) = {}
        BY <1>3, <1>4, <2>1, Zenon
      <3> QED
        BY <2>1, <3>1, Zenon DEF AddressesOf
    <2>2. CASE ~(fn \in DroppedWhenEmpty /\ AddressesOf(k, fn) = <<>>)
      <3>1. Named(l, fn) = Named(k, fn) /\ Named(k, fn) \ T = Named(k, fn)
        BY <1>3, <1>4, <2>2, Zenon
      <3>2. SameFields(k, l, fn)
        BY <1>4, <3>1, Zenon DEF SameFields, Named
      <3> QED
        BY <3>2, SameAnswers, Zenon
    <2> QED
      BY <2>1, <2>2, Zenon
  <1> QED
    BY <1>1, <1>4, <1>5, Zenon

-----------------------------------------------------------------------------
\* A list without duplicates has as many keys as addresses.
LEMMA KeysCounted ==
  ASSUME NEW l \in Seq(Address),
         \A m, n \in DOMAIN l : UniquifyKey(l[m]) = UniquifyKey(l[n]) => m = n
  PROVE  IsFiniteSet(UniquifyKeys(l)) /\ Cardinality(UniquifyKeys(l)) = Len(l)
  <1> DEFINE D == 1..Len(l)
             K == UniquifyKeys(l)
             f == [o \in D |-> UniquifyKey(l[o])]
  <1>1. DOMAIN l = D /\ Len(l) \in Nat
    OBVIOUS
  <1>2. IsFiniteSet(D) /\ Cardinality(D) = Len(l)
    BY <1>1, FS_Interval
  <1>3. f \in Surjection(D, K)
    BY <1>1, Zenon DEF Surjection, UniquifyKeys
  <1>4. f \in Injection(D, K)
    BY <1>1, <1>3, Zenon DEF Injection, IsInjective, Surjection
  <1> HIDE DEF f, K, D
  <1> QED
    BY <1>2, <1>3, <1>4, FS_Surjection, Zenon DEF K

\* The one inclusion that sameAddresses tests is enough on lists without
\* duplicates.
LEMMA SameAddressesEnough ==
  ASSUME NEW l \in Seq(Address), NEW m \in Seq(Address),
         \A o, j \in DOMAIN l : UniquifyKey(l[o]) = UniquifyKey(l[j]) => o = j,
         \A o, j \in DOMAIN m : UniquifyKey(m[o]) = UniquifyKey(m[j]) => o = j,
         sameAddresses(l, m)
  PROVE  UniquifyKeys(m) = UniquifyKeys(l)
  <1>1. Len(l) = Len(m) /\ Keys(m) \subseteq Keys(l)
    BY Zenon DEF sameAddresses
  <1>2. \A o \in DOMAIN m : \E j \in DOMAIN l : UniquifyKey(m[o]) = UniquifyKey(l[j])
    <2> SUFFICES ASSUME NEW o \in DOMAIN m
                 PROVE  \E j \in DOMAIN l : UniquifyKey(m[o]) = UniquifyKey(l[j])
      BY Zenon
    <2>1. PICK j \in DOMAIN l : SameKey(m[o]) = SameKey(l[j])
      BY <1>1, Zenon DEF Keys
    <2>2. m[o].lp = l[j].lp /\ ToTitle(m[o].dom) = ToTitle(l[j].dom)
      BY <2>1, Zenon DEF SameKey
    <2>3. UniquifyKey(m[o]) = UniquifyKey(l[j])
      BY <2>2, Zenon DEF UniquifyKey
    <2> QED
      BY <2>3, Zenon
  <1>3. UniquifyKeys(m) \in SUBSET UniquifyKeys(l)
    BY <1>2 DEF UniquifyKeys
  <1>4. /\ IsFiniteSet(UniquifyKeys(l)) /\ Cardinality(UniquifyKeys(l)) = Len(l)
        /\ Cardinality(UniquifyKeys(m)) = Len(m)
    BY KeysCounted, Zenon
  <1> QED
    BY <1>1, <1>3, <1>4, FS_Subset, Zenon

\* SimplifyMIME leaves all address fields alone.
LEMMA MIMELeavesAddresses ==
  ASSUME NEW k, Sound(k)
  PROVE  Sound(SimplifyMIME(k)) /\ \A fn \in addressFieldNames : SameFields(k, SimplifyMIME(k), fn)
  <1> DEFINE d == DropEmptyDescription(k)
             b == DropBinary(d)
             o == DropInline(b)
             had == Has(d, "Content-Transfer-Encoding")
             t == DefaultContentType(o, had)
             x == FixMIMEVersion(t, had)
             c == DropCharset(x)
             Kept(l) == Sound(l) /\ \A fn \in addressFieldNames : SameFields(k, l, fn)
             Changed == {"Content-Description", "Content-Transfer-Encoding",
                         "Content-Disposition", "Content-Type", "MIME-Version"}
  <1>1. SimplifyMIME(k) = c
    BY Zenon DEF SimplifyMIME
  <1>2. addressFieldNames \cap Changed = {}
    BY Zenon DEF addressFieldNames
  <1>3. ASSUME NEW l, NEW m, Kept(l), Simpler(l, m), NEW fn \in Changed, Frame(l, m, {fn})
        PROVE  Kept(m)
    BY <1>2, <1>3, Zenon DEF Frame, SameFields, Simpler
  <1>4. Kept(k)
    BY Zenon DEF SameFields
  <1> HIDE DEF Kept
  <1>5. Kept(d)
    <2>1. Simpler(k, d) /\ Frame(k, d, {"Content-Description"})
      BY SimplerMIMERules, MIMERuleFrames, Zenon
    <2> QED
      BY <1>3, <1>4, <2>1, Zenon
  <1>5a. Sound(d)
    BY <1>5, Zenon DEF Kept
  <1> HIDE DEF d
  <1>6. Kept(b)
    <2>1. Simpler(d, b) /\ Frame(d, b, {"Content-Transfer-Encoding"})
      BY <1>5a, SimplerMIMERules, MIMERuleFrames, Zenon
    <2> QED
      BY <1>3, <1>5, <2>1, Zenon
  <1>6a. Sound(b)
    BY <1>6, Zenon DEF Kept
  <1> HIDE DEF b
  <1>7. Kept(o)
    <2>1. Simpler(b, o) /\ Frame(b, o, {"Content-Disposition"})
      BY <1>6a, SimplerMIMERules, MIMERuleFrames, Zenon
    <2> QED
      BY <1>3, <1>6, <2>1, Zenon
  <1>7a. Sound(o)
    BY <1>7, Zenon DEF Kept
  <1> HIDE DEF o, had
  <1>8. Kept(t)
    <2>1. Simpler(o, t) /\ Frame(o, t, {"Content-Type"})
      BY <1>7a, SimplerMIMERules, MIMERuleFrames, Zenon
    <2> QED
      BY <1>3, <1>7, <2>1, Zenon
  <1>8a. Sound(t)
    BY <1>8, Zenon DEF Kept
  <1> HIDE DEF t
  <1>9. Kept(x)
    <2>1. Simpler(t, x) /\ Frame(t, x, {"MIME-Version"})
      BY <1>8a, SimplerMIMERules, MIMERuleFrames, Zenon
    <2> QED
      BY <1>3, <1>8, <2>1, Zenon
  <1>9a. Sound(x)
    BY <1>9, Zenon DEF Kept
  <1> HIDE DEF x
  <1>10. Kept(c)
    <2>1. Simpler(x, c) /\ Frame(x, c, {"Content-Type"})
      BY <1>9a, SimplerMIMERules, MIMERuleFrames, Zenon
    <2> QED
      BY <1>3, <1>9, <2>1, Zenon
  <1> QED
    BY <1>1, <1>10, Zenon DEF Kept

\* What follows from a header with unique address lists: dropping a Reply-To
\* or Sender that is the same as From leaves the same mailboxes to fall back
\* on.
LEMMA CopyOfFromDropped ==
  ASSUME NEW k, Sound(k), NEW fn \in {"Reply-To", "Sender"},
         \A m \in {"From", fn} :
            /\ AddressesOf(k, m) \in Seq(Address)
            /\ \A o, j \in DOMAIN AddressesOf(k, m) :
                  UniquifyKey(AddressesOf(k, m)[o]) = UniquifyKey(AddressesOf(k, m)[j]) => o = j
  PROVE  OrFrom(DropCopyOfFrom(k, fn), fn) = OrFrom(k, fn)
  <1> DEFINE l == AddressesOf(k, "From")
             m == AddressesOf(k, fn)
             d == DropCopyOfFrom(k, fn)
  <1>1. CASE sameAddresses(l, m)
    <2>1. d = RemoveAllNamed(k, fn)
      BY <1>1, Zenon DEF DropCopyOfFrom
    <2>2. Frame(k, d, {fn}) /\ Named(d, fn) = {} /\ HeaderOK(k)
      BY <2>1, RemoveAllFrame DEF Sound
    <2>3. AddressesOf(d, fn) = <<>>
      BY <2>2, Zenon DEF AddressesOf
    <2>4. SameFields(k, d, "From")
      BY <2>2, Zenon DEF Frame
    <2>5. AddressesOf(d, "From") = l
      BY <2>2, <2>4, SameAnswers
    <2>6. m # <<>>
      BY <1>1, Zenon DEF sameAddresses
    <2>7. UniquifyKeys(m) = UniquifyKeys(l)
      <3> HIDE DEF l, m
      <3> QED
        BY <1>1, SameAddressesEnough, Zenon DEF l, m
    <2>8. OrFrom(d, fn) = UniquifyKeys(l) /\ OrFrom(k, fn) = UniquifyKeys(m)
      <3> HIDE DEF d
      <3> QED
        BY <2>3, <2>5, <2>6, Zenon DEF OrFrom
    <2> QED
      BY <2>7, <2>8, Zenon
  <1>2. CASE ~sameAddresses(l, m)
    BY <1>2, Zenon DEF DropCopyOfFrom
  <1> QED
    BY <1>1, <1>2, Zenon

\* CorrespondentsKept, for one call.
LEMMA SimplifyKeepsCorrespondents ==
  ASSUME NEW k, Sound(k)
  PROVE  /\ \A fn \in {"Reply-To", "Sender"} : OrFrom(Simplify(k), fn) = OrFrom(k, fn)
         /\ \A fn \in {"From", "To", "Cc", "Bcc", "Return-Path"} :
               UniquifyKeys(AddressesOf(Simplify(k), fn)) = UniquifyKeys(AddressesOf(k, fn))
  <1> DEFINE v == verify(k)
             u == UniquifyAll(v)
             c == SimplifyMIME(u)
             e == DropErrorsTo(c)
             r == DropCopyOfFrom(e, "Reply-To")
             s == DropCopyOfFrom(r, "Sender")
             z == DropEmpty(s)
             Names5 == {"From", "To", "Cc", "Bcc", "Return-Path"}
             Seven == Names5 \cup {"Reply-To", "Sender"}
  <1>0. Simplify(k) = IF Valid(k) THEN z ELSE v
    BY Zenon DEF Simplify, SimplifyAddresses
  <1>1. HeaderOK(k) /\ Sound(v) /\ v.Fields = k.Fields
    BY VerifySound, VerifyProperties, Zenon DEF Sound
  <1>2. \A fn : AddressesOf(v, fn) = AddressesOf(k, fn)
    BY <1>1, Zenon DEF AddressesOf, Named, field
  <1> HIDE DEF v
  <1>3. HeaderOK(v)
    BY <1>1, Zenon DEF Sound
  <1>4. Seven \subseteq addressFieldNames
    BY Zenon DEF addressFieldNames
  <1>5. /\ Sound(u) /\ HeaderOK(u) /\ \A fn : Named(u, fn) = Named(v, fn)
        /\ \A fn \in addressFieldNames : Named(v, fn) # {} =>
              u.Fields[field(v, fn, 0)].val = Uniquified(v.Fields[field(v, fn, 0)].val)
    BY <1>1, SimplerUniquify, Zenon DEF Simpler, Sound
  <1> HIDE DEF u
  <1>6. ASSUME NEW fn \in Seven
        PROVE  /\ AddressesOf(u, fn) \in Seq(Address)
               /\ SameMailboxes(AddressesOf(v, fn), AddressesOf(u, fn))
               /\ \A o, j \in DOMAIN AddressesOf(u, fn) :
                     UniquifyKey(AddressesOf(u, fn)[o]) = UniquifyKey(AddressesOf(u, fn)[j]) => o = j
    <2>1. CASE Named(v, fn) = {}
      <3>1. AddressesOf(u, fn) = <<>> /\ AddressesOf(v, fn) = <<>>
        BY <1>5, <2>1, Zenon DEF AddressesOf
      <3> QED
        BY <3>1 DEF SameMailboxes
    <2>2. CASE Named(v, fn) # {}
      <3> DEFINE q == field(v, fn, 0)
                 l == v.Fields[q].val
      <3>1. q \in DOMAIN v.Fields /\ v.Fields[q].name = fn
        BY <1>3, <2>2, FieldFound, Zenon DEF Named
      <3>2. l \in Seq(Address)
        BY <1>1, <1>4, <3>1, Zenon DEF Sound
      <3>3. field(u, fn, 0) = q
        BY <1>5, Zenon DEF field
      <3>4. AddressesOf(v, fn) = l /\ AddressesOf(u, fn) = Uniquified(l)
        BY <1>4, <1>5, <2>2, <3>3, Zenon DEF AddressesOf
      <3> HIDE DEF l
      <3> QED
        BY <3>2, <3>4, UniquifiedProperties, Zenon
    <2> QED
      BY <2>1, <2>2, Zenon
  <1>7. Sound(c) /\ \A fn \in Seven : SameFields(u, c, fn)
    BY <1>4, <1>5, MIMELeavesAddresses, Zenon
  <1> HIDE DEF c
  <1>8. Sound(e) /\ \A fn \in Seven : SameFields(u, e, fn)
    <2>1. Frame(c, e, {"Errors-To"}) /\ Simpler(c, e)
      BY <1>7, SimplerAddressRules, AddressRuleFrames, Zenon DEF Sound
    <2> QED
      BY <1>7, <2>1, Zenon DEF Frame, Simpler, SameFields
  <1> HIDE DEF e
  <1>9. \A fn \in Seven : AddressesOf(e, fn) = AddressesOf(u, fn)
    BY <1>5, <1>8, SameAnswers, Zenon
  <1>10. OrFrom(r, "Reply-To") = OrFrom(e, "Reply-To")
    <2>1. \A m \in {"From", "Reply-To"} :
            /\ AddressesOf(e, m) \in Seq(Address)
            /\ \A o, j \in DOMAIN AddressesOf(e, m) :
                  UniquifyKey(AddressesOf(e, m)[o]) = UniquifyKey(AddressesOf(e, m)[j]) => o = j
      BY <1>6, <1>9, Zenon
    <2> QED
      BY <1>8, <2>1, CopyOfFromDropped, Zenon
  <1>11. Sound(r) /\ HeaderOK(e) /\ \A fn : fn # "Reply-To" => SameFields(e, r, fn)
    BY <1>8, SimplerAddressRules, AddressRuleFrames, Zenon DEF Simpler, Frame, Sound
  <1>12. \A fn \in Seven : fn # "Reply-To" => AddressesOf(r, fn) = AddressesOf(e, fn)
    BY <1>11, SameAnswers, Zenon
  <1> HIDE DEF r
  <1>13. OrFrom(s, "Sender") = OrFrom(r, "Sender")
    <2>1. \A m \in {"From", "Sender"} :
            /\ AddressesOf(r, m) \in Seq(Address)
            /\ \A o, j \in DOMAIN AddressesOf(r, m) :
                  UniquifyKey(AddressesOf(r, m)[o]) = UniquifyKey(AddressesOf(r, m)[j]) => o = j
      BY <1>6, <1>9, <1>12, Zenon
    <2> QED
      BY <1>11, <2>1, CopyOfFromDropped, Zenon
  <1>14. HeaderOK(s) /\ HeaderOK(r) /\ \A fn : fn # "Sender" => SameFields(r, s, fn)
    BY <1>11, SimplerAddressRules, AddressRuleFrames, Zenon DEF Simpler, Frame, Sound
  <1>15. \A fn : fn # "Sender" => AddressesOf(s, fn) = AddressesOf(r, fn)
    BY <1>14, SameAnswers, Zenon
  <1> HIDE DEF s
  <1>16. \A fn : AddressesOf(z, fn) = AddressesOf(s, fn)
    BY <1>14, DropEmptyProperties, Zenon
  <1> HIDE DEF z
  <1>17. \A fn \in Names5 : UniquifyKeys(AddressesOf(z, fn)) = UniquifyKeys(AddressesOf(k, fn))
    <2> SUFFICES ASSUME NEW fn \in Names5
                 PROVE  UniquifyKeys(AddressesOf(z, fn)) = UniquifyKeys(AddressesOf(k, fn))
      BY Zenon
    <2>1. fn \in Seven /\ fn # "Sender" /\ fn # "Reply-To"
      BY Zenon
    <2>2. AddressesOf(z, fn) = AddressesOf(u, fn)
      BY <1>9, <1>12, <1>15, <1>16, <2>1, Zenon
    <2>3. UniquifyKeys(AddressesOf(u, fn)) = UniquifyKeys(AddressesOf(v, fn))
      BY <1>6, <2>1, Zenon DEF SameMailboxes
    <2> QED
      BY <1>2, <2>2, <2>3, Zenon
  <1>18. \A fn \in {"Reply-To", "Sender"} : OrFrom(u, fn) = OrFrom(k, fn)
    BY <1>2, <1>6, Zenon DEF OrFrom, SameMailboxes
  <1>19. OrFrom(z, "Reply-To") = OrFrom(k, "Reply-To")
    <2>1. OrFrom(z, "Reply-To") = OrFrom(r, "Reply-To")
      BY <1>15, <1>16, Zenon DEF OrFrom
    <2>2. OrFrom(e, "Reply-To") = OrFrom(u, "Reply-To")
      BY <1>9 DEF OrFrom
    <2> QED
      BY <2>1, <2>2, <1>10, <1>18, Zenon
  <1>20. OrFrom(z, "Sender") = OrFrom(k, "Sender")
    <2>1. OrFrom(z, "Sender") = OrFrom(s, "Sender")
      BY <1>16 DEF OrFrom
    <2>2. OrFrom(r, "Sender") = OrFrom(u, "Sender")
      BY <1>9, <1>12, Zenon DEF OrFrom
    <2> QED
      BY <2>1, <2>2, <1>13, <1>18, Zenon
  <1>21. CASE Valid(k)
    <2>1. Simplify(k) = z
      BY <1>0, <1>21, Zenon
    <2> QED
      BY <2>1, <1>17, <1>19, <1>20, Zenon
  <1>22. CASE ~Valid(k)
    <2>1. Simplify(k) = v
      BY <1>0, <1>22, Zenon
    <2> QED
      BY <2>1, <1>2, Zenon DEF OrFrom
  <1> QED
    BY <1>21, <1>22, Zenon

-----------------------------------------------------------------------------
MIMEFields == {"Content-Type", "Content-Transfer-Encoding", "Content-Description",
               "Content-Disposition", "Content-Location", "Content-Base"}

\* What is assumed of the type depends on the Content-Types only, and of the
\* encoding on the Content-Transfer-Encodings.
LEMMA AssumptionsFramed ==
  ASSUME NEW k, NEW l, HeaderOK(k), l.defaultType = k.defaultType
  PROVE  /\ SameFields(k, l, "Content-Type") => AssumedType(l) = AssumedType(k)
         /\ SameFields(k, l, "Content-Transfer-Encoding") => AssumedEncoding(l) = AssumedEncoding(k)
         /\ \A fn : SameFields(k, l, fn) => (Has(l, fn) <=> Has(k, fn))
  <1>1. \A fn : SameFields(k, l, fn) => (Has(l, fn) <=> Has(k, fn))
    BY Zenon DEF SameFields, Has
  <1>2. \A fn : SameFields(k, l, fn) /\ Has(k, fn) =>
            l.Fields[field(l, fn, 0)] = k.Fields[field(k, fn, 0)]
    BY SameAnswers, Zenon DEF Has
  <1> QED
    BY <1>1, <1>2, Zenon DEF AssumedType, AssumedEncoding, ContentType

\* DropBinary drops what is assumed anyway.
LEMMA DropBinaryKeeps ==
  ASSUME NEW k, HeaderOK(k)
  PROVE  AssumedEncoding(DropBinary(k)) = AssumedEncoding(k)
  <1>1. Named(RemoveAllNamed(k, "Content-Transfer-Encoding"), "Content-Transfer-Encoding") = {}
    BY RemoveAllFrame, Zenon
  <1> QED
    BY <1>1, Zenon DEF DropBinary, AssumedEncoding, Has

\* So does DefaultContentType, and what it adds is what is assumed anyway.
LEMMA DefaultContentTypeKeeps ==
  ASSUME NEW k, HeaderOK(k), NEW had
  PROVE  AssumedType(DefaultContentType(k, had)) = AssumedType(k)
  <1> DEFINE t == DefaultContentType(k, had)
             ct == [type |-> "message", subtype |-> "rfc822", params |-> [n \in {} |-> ""], raw |-> ""]
             f == [name |-> "Content-Type", err |-> "", val |-> ct]
             a == addField(k, f)
             d == RemoveAllNamed(k, "Content-Type")
  <1>1. Named(d, "Content-Type") = {} /\ d.defaultType = k.defaultType
    BY RemoveAllFrame, Zenon DEF Frame
  <1>2. ASSUME t = d, d # k PROVE AssumedType(t) = AssumedType(k)
    <2>1. CASE Has(k, "Content-Type")
      <3>1. /\ k.defaultType = "text/plain"
            /\ k.Fields[ContentType(k)].val.type = "text"
            /\ k.Fields[ContentType(k)].val.subtype = "plain"
        BY <1>2, <2>1, Zenon DEF DefaultContentType
      <3> QED
        BY <1>1, <1>2, <2>1, <3>1, Zenon DEF AssumedType, Has
    <2>2. CASE ~Has(k, "Content-Type")
      BY <1>1, <1>2, <2>2, Zenon DEF AssumedType, Has
    <2> QED
      BY <2>1, <2>2, Zenon
  <1>3. ASSUME t = a, ~Has(k, "Content-Type"), k.defaultType = "message/rfc822"
        PROVE  AssumedType(t) = AssumedType(k)
    <2>1. f = [name |-> f.name, err |-> f.err, val |-> f.val] /\ f.name = "Content-Type"
          /\ f.val.type = "message" /\ f.val.subtype = "rfc822"
      BY Zenon
    <2> HIDE DEF f
    <2>2. Named(k, f.name) = {} /\ Named(k, "Content-Type") = {}
      BY <1>3, <2>1, Zenon DEF Has
    <2>3. /\ HeaderOK(a) /\ Named(a, f.name) = Named(k, f.name) \cup {k.last + 1}
          /\ a.Fields[k.last + 1] = f
      BY <2>1, <2>2, AddFrame, AddAppends, Zenon DEF Frame
    <2> HIDE DEF a, t
    <2>4. Named(a, "Content-Type") = {k.last + 1}
      BY <2>1, <2>2, <2>3, Zenon
    <2>5. ContentType(a) = k.last + 1
      BY <2>3, <2>4, OnlyField, Zenon DEF ContentType
    <2>6. AssumedType(a) = <<"message", "rfc822">>
      BY <2>1, <2>3, <2>4, <2>5, Zenon DEF AssumedType, Has
    <2> QED
      BY <1>3, <2>6, Zenon DEF AssumedType
  <1>4. \/ t = k
        \/ t = d /\ d # k
        \/ t = a /\ ~Has(k, "Content-Type") /\ k.defaultType = "message/rfc822"
    BY Zenon DEF DefaultContentType, AddField
  <1> HIDE DEF t, a, d
  <1> QED
    BY <1>2, <1>3, <1>4, Zenon DEF t

\* DropCharset keeps the type.
LEMMA DropCharsetKeeps ==
  ASSUME NEW k, Sound(k)
  PROVE  AssumedType(DropCharset(k)) = AssumedType(k) /\ \A fn : Has(DropCharset(k), fn) <=> Has(k, fn)
  <1> DEFINE p == ContentType(k)
             f == [k.Fields[p] EXCEPT !.val = removeParameter(@, "charset")]
             l == SetField(k, p, f)
  <1>0. HeaderOK(k)
    BY Zenon DEF Sound
  <1>1. DropCharset(k) = k \/ (p # Nil /\ DropCharset(k) = l)
    BY Zenon DEF DropCharset, IsType
  <1>2. ASSUME p # Nil
        PROVE  AssumedType(l) = AssumedType(k) /\ \A fn : Has(l, fn) <=> Has(k, fn)
    <2>1. p \in DOMAIN k.Fields /\ k.Fields[p].name = "Content-Type" /\ Named(k, "Content-Type") # {}
      BY <1>0, <1>2, NilField, FieldFound DEF ContentType, Named
    <2>2. TypeShape(k.Fields[p].val) /\ k.Fields[p] = [name |-> k.Fields[p].name, err |-> k.Fields[p].err, val |-> k.Fields[p].val]
      BY <1>0, <2>1, Zenon DEF Sound, HeaderOK
    <2>3. /\ f = [name |-> f.name, err |-> f.err, val |-> f.val] /\ f.name = "Content-Type"
          /\ f.val.type = k.Fields[p].val.type /\ f.val.subtype = k.Fields[p].val.subtype
      BY <2>1, <2>2 DEF TypeShape, removeParameter
    <2> HIDE DEF f
    <2>4. /\ \A fn : Named(l, fn) = Named(k, fn)
          /\ l.Fields[p] = f
      <3>1. f.name = k.Fields[p].name
        BY <2>1, <2>3, Zenon
      <3>2. p \in DOMAIN k.Fields
        BY <2>1, Zenon
      <3> HIDE DEF p, l
      <3>3. l = SetField(k, p, f)
        BY Zenon DEF l
      <3>4. f = [name |-> f.name, err |-> f.err, val |-> f.val]
        BY <2>3, Zenon
      <3>5. \A fn : Named(SetField(k, p, f), fn) = Named(k, fn)
        BY <1>0, <3>1, <3>2, <3>4, SetFieldFrame, Zenon
      <3>6. SetField(k, p, f).Fields[p] = f
        BY <1>0, <3>2, Zenon DEF SetField, HeaderOK
      <3> QED
        BY <3>3, <3>5, <3>6, Zenon
    <2>5. ContentType(l) = p
      BY <2>4, Zenon DEF ContentType, field
    <2> HIDE DEF l
    <2> QED
      BY <2>1, <2>3, <2>4, <2>5, Zenon DEF AssumedType, Has
  <1> HIDE DEF p, l
  <1> QED
    BY <1>1, <1>2, Zenon

\* ContentMeaningKept, for one call.
LEMMA SimplifyKeepsMeaning ==
  ASSUME NEW k, Sound(k), Trusted(k), k.verified => k.err = ~Acceptable(k)
  PROVE  /\ AssumedType(Simplify(k)) = AssumedType(k)
         /\ AssumedEncoding(Simplify(k)) = AssumedEncoding(k)
         /\ (/\ Acceptable(k) /\ Simplify(k).mode = "RFC5322"
             /\ \E fn \in MIMEFields : Has(Simplify(k), fn))
            => Has(Simplify(k), "MIME-Version")
  <1> DEFINE v == verify(k)
             u == UniquifyAll(v)
             d == DropEmptyDescription(u)
             b == DropBinary(d)
             o == DropInline(b)
             had == Has(d, "Content-Transfer-Encoding")
             t == DefaultContentType(o, had)
             x == FixMIMEVersion(t, had)
             c == DropCharset(x)
             e == DropErrorsTo(c)
             r == DropCopyOfFrom(e, "Reply-To")
             s == DropCopyOfFrom(r, "Sender")
             z == DropEmpty(s)
             Meaning == MIMEFields \cup {"MIME-Version"}
             Same(l, m) == AssumedType(m) = AssumedType(l) /\ AssumedEncoding(m) = AssumedEncoding(l)
             Framed(l, m, N) == Frame(l, m, N) /\ Sound(m)
  <1>0. Simplify(k) = IF Valid(k) THEN z ELSE v
    BY Zenon DEF Simplify, SimplifyAddresses, SimplifyMIME
  <1>1. HeaderOK(k) /\ Sound(v) /\ v.Fields = k.Fields /\ v.defaultType = k.defaultType
    BY VerifySound, VerifyProperties, Zenon DEF Sound
  <1>2. Same(k, v)
    <2>1. SameFields(k, v, "Content-Type") /\ SameFields(k, v, "Content-Transfer-Encoding")
      BY <1>1, Zenon DEF SameFields, Named
    <2> QED
      BY <1>1, <2>1, AssumptionsFramed, Zenon
  <1>3. Valid(k) <=> Acceptable(k)
    BY <1>1, VerifyProperties, Zenon DEF Valid
  <1> HIDE DEF v
  <1>4. ASSUME NEW l, NEW m, Sound(l), NEW N, Framed(l, m, N)
        PROVE  /\ "Content-Type" \notin N => AssumedType(m) = AssumedType(l)
               /\ "Content-Transfer-Encoding" \notin N => AssumedEncoding(m) = AssumedEncoding(l)
               /\ \A fn : fn \notin N => (Has(m, fn) <=> Has(l, fn))
               /\ m.mode = l.mode
    <2>1. HeaderOK(l) /\ m.defaultType = l.defaultType /\ \A fn : fn \notin N => SameFields(l, m, fn)
      BY <1>4, Zenon DEF Frame, Sound
    <2> QED
      BY <1>4, <2>1, AssumptionsFramed, Zenon DEF Frame
  <1>5. Framed(v, u, addressFieldNames)
    BY <1>1, SimplerUniquify, Zenon DEF Simpler, Sound, Frame
  <1>5a. Same(v, u) /\ \A fn \in Meaning : Has(u, fn) <=> Has(v, fn)
    <2>1. Meaning \cap addressFieldNames = {} /\ {"Content-Type", "Content-Transfer-Encoding"} \subseteq Meaning
      BY Zenon DEF MIMEFields, addressFieldNames
    <2> HIDE DEF Framed, u, Meaning
    <2> QED
      BY <1>1, <1>4, <1>5, <2>1, Zenon
  <1> HIDE DEF u
  <1>6. Framed(u, d, {"Content-Description"})
    BY <1>5, SimplerMIMERules, MIMERuleFrames, Zenon DEF Simpler
  <1> HIDE DEF d
  <1>7. Framed(d, b, {"Content-Transfer-Encoding"}) /\ AssumedEncoding(b) = AssumedEncoding(d)
    BY <1>6, SimplerMIMERules, MIMERuleFrames, DropBinaryKeeps, Zenon DEF Simpler, Sound
  <1> HIDE DEF b
  <1>8. Framed(b, o, {"Content-Disposition"})
    BY <1>7, SimplerMIMERules, MIMERuleFrames, Zenon DEF Simpler
  <1> HIDE DEF o, had
  <1>9. Framed(o, t, {"Content-Type"}) /\ AssumedType(t) = AssumedType(o)
    BY <1>8, SimplerMIMERules, MIMERuleFrames, DefaultContentTypeKeeps, Zenon DEF Simpler, Sound
  <1> HIDE DEF t
  <1>10. Framed(t, x, {"MIME-Version"})
    BY <1>9, SimplerMIMERules, MIMERuleFrames, Zenon DEF Simpler
  <1>10a. /\ t.mode = "RFC5322"
          /\ \/ had
             \/ \E fn \in MIMEFields \ {"Content-Transfer-Encoding"} : Has(t, fn)
          => Has(x, "MIME-Version")
    <2>1. Has(AddField(t, "MIME-Version", "1.0"), "MIME-Version")
      <3> DEFINE f == [name |-> "MIME-Version", err |-> "", val |-> "1.0"]
      <3>1. f = [name |-> f.name, err |-> f.err, val |-> f.val] /\ f.name = "MIME-Version"
        BY Zenon
      <3>2. AddField(t, "MIME-Version", "1.0") = addField(t, f) /\ HeaderOK(t)
        BY <1>9, Zenon DEF AddField, Sound
      <3> HIDE DEF f
      <3> QED
        BY <3>1, <3>2, AddFrame, Zenon DEF Has
    <2> QED
      BY <2>1, Zenon DEF FixMIMEVersion, MIMEFields
  <1> HIDE DEF x
  <1>11. /\ Framed(x, c, {"Content-Type"}) /\ AssumedType(c) = AssumedType(x)
         /\ \A fn : Has(c, fn) <=> Has(x, fn)
    BY <1>10, SimplerMIMERules, MIMERuleFrames, DropCharsetKeeps, Zenon DEF Simpler
  <1> HIDE DEF c
  <1>12. Framed(c, e, {"Errors-To"})
    BY <1>11, SimplerAddressRules, AddressRuleFrames, Zenon DEF Simpler, Sound
  <1> HIDE DEF e
  <1>13. Framed(e, r, {"Reply-To"})
    BY <1>12, SimplerAddressRules, AddressRuleFrames, Zenon DEF Simpler, Sound
  <1> HIDE DEF r
  <1>14. Framed(r, s, {"Sender"})
    BY <1>13, SimplerAddressRules, AddressRuleFrames, Zenon DEF Simpler, Sound
  <1> HIDE DEF s
  <1>15. Framed(s, z, DroppedWhenEmpty)
    BY <1>14, SimplerAddressRules, DropEmptyProperties, Zenon DEF Simpler, Sound
  <1> HIDE DEF z
  <1>16. Sound(u) /\ Sound(d) /\ Sound(b) /\ Sound(o) /\ Sound(t) /\ Sound(x) /\ Sound(c) /\ Sound(e) /\ Sound(r) /\ Sound(s)
    BY <1>5, <1>6, <1>7, <1>8, <1>9, <1>10, <1>11, <1>12, <1>13, <1>14, Zenon
  <1> HIDE DEF Framed
  <1>17. AssumedType(z) = AssumedType(u) /\ AssumedEncoding(z) = AssumedEncoding(u)
    <2>1. Same(u, d)
      BY <1>4, <1>6, <1>16
    <2>2. Same(d, b)
      BY <1>4, <1>7, <1>16
    <2>3. Same(b, o)
      BY <1>4, <1>8, <1>16
    <2>4. Same(o, t)
      BY <1>4, <1>9, <1>16
    <2>5. Same(t, x)
      BY <1>4, <1>10, <1>16
    <2>6. Same(x, c)
      BY <1>4, <1>11, <1>16
    <2>7. Same(c, e)
      BY <1>4, <1>12, <1>16
    <2>8. Same(e, r)
      BY <1>4, <1>13, <1>16
    <2>9. Same(r, s)
      BY <1>4, <1>14, <1>16
    <2>10. Same(s, z)
      BY <1>4, <1>15, <1>16 DEF DroppedWhenEmpty
    <2> QED
      BY <2>1, <2>2, <2>3, <2>4, <2>5, <2>6, <2>7, <2>8, <2>9, <2>10, Zenon
  <1>18. \A fn \in Meaning : Has(z, fn) <=> Has(x, fn)
    <2> SUFFICES ASSUME NEW fn \in Meaning PROVE Has(z, fn) <=> Has(x, fn)
      BY Zenon
    <2>1. fn \notin {"Errors-To", "Reply-To", "Sender"} \cup DroppedWhenEmpty
      BY Zenon DEF MIMEFields, DroppedWhenEmpty
    <2>2. Has(z, fn) <=> Has(s, fn)
      BY <1>4, <1>15, <1>16, <2>1, Zenon
    <2>3. Has(s, fn) <=> Has(r, fn)
      <3>1. Sound(r) /\ fn # "Sender"
        BY <1>16, <2>1, Zenon
      <3>2. \A m : m \notin {"Sender"} => (Has(s, m) <=> Has(r, m))
        BY <1>4, <1>14, <3>1, Zenon
      <3> QED
        BY <3>1, <3>2, Zenon
    <2>4. Has(r, fn) <=> Has(e, fn)
      <3>1. Sound(e) /\ fn # "Reply-To"
        BY <1>16, <2>1, Zenon
      <3>2. \A m : m \notin {"Reply-To"} => (Has(r, m) <=> Has(e, m))
        BY <1>4, <1>13, <3>1, Zenon
      <3> QED
        BY <3>1, <3>2, Zenon
    <2>5. Has(e, fn) <=> Has(c, fn)
      <3>1. Sound(c) /\ fn # "Errors-To"
        BY <1>16, <2>1, Zenon
      <3>2. \A m : m \notin {"Errors-To"} => (Has(e, m) <=> Has(c, m))
        BY <1>4, <1>12, <3>1, Zenon
      <3> QED
        BY <3>1, <3>2, Zenon
    <2> QED
      BY <2>2, <2>3, <2>4, <2>5, <1>11, Zenon
  <1>19. \A fn \in MIMEFields : Has(z, fn) => had \/ (fn # "Content-Transfer-Encoding" /\ Has(t, fn))
    <2> SUFFICES ASSUME NEW fn \in MIMEFields, Has(z, fn)
                 PROVE  had \/ (fn # "Content-Transfer-Encoding" /\ Has(t, fn))
      BY Zenon
    <2>1. Has(t, fn)
      <3>1. fn \notin {"MIME-Version"}
        BY Zenon DEF MIMEFields
      <3> QED
        BY <1>4, <1>10, <1>16, <1>18, <3>1, Zenon
    <2>2. ASSUME fn = "Content-Transfer-Encoding" PROVE had
      <3>1. Has(o, fn)
        BY <1>4, <1>9, <1>16, <2>1, <2>2
      <3>2. Has(b, fn)
        <4>1. \A m : m \notin {"Content-Disposition"} => (Has(o, m) <=> Has(b, m))
          BY <1>4, <1>8, <1>16, Zenon
        <4> QED
          BY <4>1, <3>1, <2>2, Zenon
      <3>3. Named(RemoveAllNamed(d, fn), fn) = {}
        BY <1>16, RemoveAllFrame, Zenon DEF Sound
      <3> QED
        BY <2>2, <3>2, <3>3, Zenon DEF b, DropBinary, Has, had
    <2> QED
      BY <2>1, <2>2, Zenon
  <1>20. t.mode = z.mode
    BY <1>10, <1>11, <1>12, <1>13, <1>14, <1>15, Zenon DEF Framed, Frame
  <1>21. z.mode = "RFC5322" /\ (\E fn \in MIMEFields : Has(z, fn)) => Has(z, "MIME-Version")
    BY <1>10a, <1>18, <1>19, <1>20, Zenon
  <1>22. CASE Valid(k)
    <2>1. Simplify(k) = z
      BY <1>0, <1>22, Zenon
    <2>2. AssumedType(z) = AssumedType(k) /\ AssumedEncoding(z) = AssumedEncoding(k)
      BY <1>2, <1>5a, <1>17, Zenon
    <2> QED
      BY <2>1, <2>2, <1>21, Zenon
  <1>23. CASE ~Valid(k)
    <2>1. Simplify(k) = v
      BY <1>0, <1>23, Zenon
    <2> QED
      BY <2>1, <1>2, <1>3, <1>23, Zenon
  <1> QED
    BY <1>22, <1>23, Zenon

-----------------------------------------------------------------------------
(***************************************************************************)
(* The calls                                                               *)
(***************************************************************************)
\* The verdict, where there is one, is that of verify.
Fresh(k) == k.verified => k.err = ~Acceptable(k)

\* What is still to be read are fields of the right kind.  Nothing is read
\* once Simplify has been called, and h is what the last call returned.
CallsInv ==
    /\ text \in Seq({f \in UNION {{Scenarios[s].pool[o] : o \in DOMAIN Scenarios[s].pool} :
                                      s \in DOMAIN Scenarios} : FieldShape(f)})
    /\ Sound(h) /\ Fresh(h)
    /\ calls \in Nat
    /\ calls = 0 => ~h.verified
    /\ calls > 0 => /\ text = <<>>
                    /\ Sound(before) /\ Fresh(before) /\ h = Simplify(before)

\* A fresh verdict can be trusted.
LEMMA FreshTrusted ==
  ASSUME NEW k, HeaderOK(k), Fresh(k)
  PROVE  Trusted(k)
  BY Zenon DEF Fresh, Trusted, HeaderOK, Acceptable

\* A header that has been read one field at a time, and no call of Simplify.
LEMMA CallsInit == Init => CallsInv
  <1> SUFFICES ASSUME Init PROVE CallsInv
    BY Zenon
  <1> DEFINE PoolFields == {f \in UNION {{Scenarios[s].pool[o] : o \in DOMAIN Scenarios[s].pool} :
                                          s \in DOMAIN Scenarios} : FieldShape(f)}
  <1>1. PICK s \in DOMAIN Scenarios :
          /\ \E k \in Scenarios[s].kinds :
                h = [NewHeader(k[1], k[2]) EXCEPT !.Fields = Scenarios[s].start,
                                                  !.last = Len(Scenarios[s].start)]
          /\ \E n \in 0..Scenarios[s].more :
                \E pick \in [1..n -> DOMAIN Scenarios[s].pool] :
                   text = [o \in 1..n |-> Scenarios[s].pool[pick[o]]]
    BY Zenon DEF Init
  <1> DEFINE c == Scenarios[s]
             fs == c.start
  <1>2. /\ c.more \in Nat /\ \A o \in DOMAIN c.pool : FieldShape(c.pool[o])
        /\ Len(fs) \in Nat /\ DOMAIN fs = 1..Len(fs)
        /\ \A o \in DOMAIN fs : FieldShape(fs[o])
        /\ \A o, j \in DOMAIN fs : fs[o].name \in MergedNames /\ fs[o].name = fs[j].name => o = j
    BY ScenariosAssumption, Zenon
  <1>3. text \in Seq(PoolFields)
    <2>0. PICK n \in 0..c.more :
             \E pick \in [1..n -> DOMAIN c.pool] : text = [o \in 1..n |-> c.pool[pick[o]]]
      BY <1>1, Zenon
    <2>1. PICK pick \in [1..n -> DOMAIN c.pool] : text = [o \in 1..n |-> c.pool[pick[o]]]
      BY <2>0, Zenon
    <2>2. n \in Nat /\ \A o \in 1..n : c.pool[pick[o]] \in PoolFields
      BY <1>2, <2>1
    <2> HIDE DEF PoolFields, c
    <2> QED
      BY <2>1, <2>2
  <1>4. PICK k \in c.kinds : h = [NewHeader(k[1], k[2]) EXCEPT !.Fields = fs, !.last = Len(fs)]
    BY <1>1, Zenon
  <1>5. h = [Fields |-> fs, last |-> Len(fs), mode |-> k[1], defaultType |-> k[2],
             verified |-> FALSE, err |-> FALSE]
    <2> HIDE DEF fs
    <2> QED
      BY <1>4, Zenon DEF NewHeader
  <1> HIDE DEF fs
  <1>6. HeaderOK(h)
    BY <1>2, <1>5, Zenon DEF HeaderOK, FieldShape
  <1>7. AddressFieldsMerged(h)
    BY <1>2, <1>5, Zenon DEF AddressFieldsMerged
  <1>8. Sound(h)
    BY <1>2, <1>5, <1>6, <1>7, Zenon DEF Sound, FieldShape
  <1>9. ~h.verified /\ calls = 0
    BY <1>5, Zenon DEF Init
  <1> QED
    BY <1>3, <1>8, <1>9 DEF CallsInv, Fresh

\* Reading a field and calling Simplify keep CallsInv.
LEMMA CallsStep == CallsInv /\ [Next]_vars => CallsInv'
  <1> SUFFICES ASSUME CallsInv, [Next]_vars PROVE CallsInv'
    BY Zenon
  <1> DEFINE PoolFields == {f \in UNION {{Scenarios[s].pool[o] : o \in DOMAIN Scenarios[s].pool} :
                                          s \in DOMAIN Scenarios} : FieldShape(f)}
  <1>0. text \in Seq(PoolFields) /\ Sound(h) /\ Fresh(h) /\ calls \in Nat /\ HeaderOK(h)
    BY Zenon DEF CallsInv, Sound
  <1>1. CASE ReadField
    <2>1. text # <<>> /\ h' = addField(h, Head(text)) /\ text' = Tail(text) /\ calls' = calls
      BY <1>1, Zenon DEF ReadField
    <2>2. calls = 0 /\ ~h.verified
      BY <1>0, <2>1 DEF CallsInv
    <2>3. Head(text) \in PoolFields /\ Tail(text) \in Seq(PoolFields)
      <3> HIDE DEF PoolFields
      <3> QED
        BY <1>0, <2>1
    <2>4. FieldShape(Head(text))
      BY <2>3, Zenon
    <2>5. Sound(h') /\ ~h'.verified
      BY <1>0, <2>1, <2>2, <2>4, AddSound, Zenon
    <2> QED
      BY <2>1, <2>2, <2>3, <2>5, Zenon DEF CallsInv, Fresh
  <1>2. CASE CallSimplify
    <2>1. text = <<>> /\ h' = Simplify(h) /\ before' = h /\ calls' = calls + 1 /\ text' = text
      BY <1>2, Zenon DEF CallSimplify
    <2>2. Trusted(h)
      BY <1>0, FreshTrusted, Zenon
    <2>3. Simplify(h).verified => Simplify(h).err = ~Acceptable(Simplify(h))
      BY <1>0, <2>2, SimplifyVerdict, Zenon DEF Fresh
    <2>4. Sound(Simplify(h))
      BY <1>0, SimplifyProperties, Zenon DEF Simpler
    <2>5. Sound(h') /\ Fresh(h')
      BY <2>1, <2>3, <2>4, Zenon DEF Fresh
    <2>6. Sound(before') /\ Fresh(before')
      BY <1>0, <2>1, Zenon
    <2>7. h' = Simplify(before')
      BY <2>1, Zenon
    <2>8. calls' \in Nat /\ calls' # 0
      BY <1>0, <2>1
    <2> QED
      BY <1>0, <2>1, <2>5, <2>6, <2>7, <2>8, Zenon DEF CallsInv
  <1>3. CASE UNCHANGED vars
    BY <1>3, Zenon DEF CallsInv, vars, Sound, Fresh
  <1> QED
    BY <1>1, <1>2, <1>3, Zenon DEF Next

\* However a header is read and however often Simplify is called on it, the
\* header it leaves is what one call makes of a sound header with a right
\* verdict.
THEOREM CallsInvariant == Spec => []CallsInv
  BY CallsInit, CallsStep, PTL DEF Spec

\* Simplify never makes a valid header invalid.
THEOREM SimplifyKeepsValid == Spec => []KeepsValid
  <1>1. CallsInv => KeepsValid
    <2> SUFFICES ASSUME CallsInv, calls > 0, Acceptable(before) PROVE Acceptable(h)
      BY Zenon DEF KeepsValid
    <2>1. Sound(before) /\ Fresh(before) /\ h = Simplify(before) /\ HeaderOK(before)
      BY Zenon DEF CallsInv, Sound
    <2> QED
      BY <2>1, FreshTrusted, SimplifyVerdict, Zenon
  <1> QED
    BY <1>1, CallsInvariant, PTL

\* Replies go to the same mailboxes and the sender is the same after Simplify
\* has dropped a Reply-To or a Sender, for addresses of any kind.
THEOREM SimplifyKeepsReplies == Spec => []CorrespondentsKept
  <1>1. CallsInv => CorrespondentsKept
    <2> SUFFICES ASSUME CallsInv, calls > 0
                 PROVE  /\ OrFrom(h, "Reply-To") = OrFrom(before, "Reply-To")
                        /\ OrFrom(h, "Sender") = OrFrom(before, "Sender")
                        /\ \A fn \in {"From", "To", "Cc", "Bcc", "Return-Path"} :
                              UniquifyKeys(AddressesOf(h, fn)) =
                              UniquifyKeys(AddressesOf(before, fn))
      BY Zenon DEF CorrespondentsKept
    <2>1. Sound(before) /\ h = Simplify(before)
      BY Zenon DEF CallsInv
    <2> QED
      BY <2>1, SimplifyKeepsCorrespondents, Zenon
  <1> QED
    BY <1>1, CallsInvariant, PTL

\* The type and the encoding that a reader assumes do not change, and a
\* header that has one of the MIME fields has a MIME-Version.
THEOREM SimplifyKeepsContent == Spec => []ContentMeaningKept
  <1>1. CallsInv => ContentMeaningKept
    <2> SUFFICES ASSUME CallsInv, calls > 0
                 PROVE  /\ AssumedType(h) = AssumedType(before)
                        /\ AssumedEncoding(h) = AssumedEncoding(before)
                        /\ (/\ Acceptable(before) /\ h.mode = "RFC5322"
                            /\ \E fn \in MIMEFields : Has(h, fn))
                           => Has(h, "MIME-Version")
      BY Zenon DEF ContentMeaningKept, MIMEFields
    <2>1. Sound(before) /\ Fresh(before) /\ h = Simplify(before) /\ HeaderOK(before)
      BY Zenon DEF CallsInv, Sound
    <2> QED
      BY <2>1, FreshTrusted, SimplifyKeepsMeaning, Zenon DEF Fresh
  <1> QED
    BY <1>1, CallsInvariant, PTL

-----------------------------------------------------------------------------
(***************************************************************************)
(* The loop of Uniquify                                                    *)
(***************************************************************************)
\* The inductive invariant: the loop invariant needs dict to be the inverse
\* of unique, and both need the types.
UniquifyInv == UniquifyTypeOK /\ DictExact /\ LoopInvariant

\* The lists Uniquify is called with are sequences of addresses.
LEMMA ListsAreSeqs == \A l \in Lists : l \in Seq(Address)
  BY DEF Lists

\* The invariant holds when Uniquify is entered.
LEMMA UniquifyInitInv == UniquifyInit => UniquifyInv
  BY ListsAreSeqs DEF UniquifyInit, UniquifyInv, UniquifyTypeOK, DictExact, LoopInvariant

\* Entering the loop keeps the invariant.
LEMMA EnterInv == UniquifyInv /\ Enter => UniquifyInv'
  <1> SUFFICES ASSUME UniquifyInv, Enter PROVE UniquifyInv'
    BY Zenon
  <1> USE DEF UniquifyInv, Enter
  <1>1. UniquifyTypeOK'
    BY Zenon DEF UniquifyTypeOK
  <1>2. DictExact'
    BY Zenon DEF DictExact
  <1>3. LoopInvariant'
    BY DEF LoopInvariant, Represents, UniquifyTypeOK, DictExact
  <1> QED
    BY <1>1, <1>2, <1>3, Zenon

\* A new key: the address becomes the representative of its key, at the end.
LEMMA InsertInv ==
  UniquifyInv /\ pc = "loop" /\ i <= Len(as) /\ Insert(as[i], UniquifyKey(as[i]))
    /\ i' = i + 1 /\ UNCHANGED <<as, input, pc>> => UniquifyInv'
  <1> SUFFICES ASSUME UniquifyInv, pc = "loop", i <= Len(as),
                      Insert(as[i], UniquifyKey(as[i])),
                      i' = i + 1, UNCHANGED <<as, input, pc>>
               PROVE  UniquifyInv'
    BY Zenon
  <1> DEFINE a == input[i]
             k == UniquifyKey(a)
  <1>1. /\ as = input /\ i \in 1..Len(input) /\ a \in Address
        /\ input \in Seq(Address) /\ unique \in Seq(Address)
    BY DEF UniquifyInv, UniquifyTypeOK, LoopInvariant
  <1>2. /\ k \notin DOMAIN dict
        /\ dict' = [x \in DOMAIN dict \cup {k} |->
                        IF x = k THEN Len(unique) + 1 ELSE dict[x]]
        /\ unique' = Append(unique, a)
    BY <1>1, Zenon DEF Insert
  <1>3. /\ unique' \in Seq(Address)
        /\ Len(unique') = Len(unique) + 1
        /\ DOMAIN unique = 1..Len(unique) /\ DOMAIN unique' = 1..(Len(unique) + 1)
        /\ \A j \in DOMAIN unique : unique'[j] = unique[j]
        /\ unique'[Len(unique) + 1] = a
    BY <1>1, <1>2
  <1> HIDE DEF a, k
  <1>4. UniquifyTypeOK'
    BY <1>1, <1>2, <1>3 DEF UniquifyInv, UniquifyTypeOK
  <1>5. DictExact'
    <2>1. \A x \in DOMAIN dict : dict'[x] = dict[x] /\ x # k
      BY <1>2, Zenon
    <2>2. dict'[k] = Len(unique) + 1 /\ DOMAIN dict' = DOMAIN dict \cup {k}
      BY <1>2, Zenon
    <2>3. UniquifyKey(unique'[Len(unique) + 1]) = k
      BY <1>3, Zenon DEF k
    <2> QED
      BY <1>3, <2>1, <2>2, <2>3 DEF UniquifyInv, DictExact
  <1>6. \A m \in 1..(i - 1) : UniquifyKey(input[m]) # k
    BY <1>2, Zenon DEF UniquifyInv, LoopInvariant
  <1>7. \A j \in DOMAIN unique : UniquifyKey(unique[j]) # k
    BY <1>2, Zenon DEF UniquifyInv, DictExact
  <1>8. \A m \in 1..i : UniquifyKey(input[m]) \in DOMAIN dict'
    BY <1>1, <1>2 DEF UniquifyInv, LoopInvariant, k, a
  <1>9. \A j \in DOMAIN unique' :
            Represents(unique'[j], UniquifyKey(unique'[j]), i)
    <2>1. ASSUME NEW j \in DOMAIN unique
          PROVE  Represents(unique[j], UniquifyKey(unique[j]), i)
      <3>1. Represents(unique[j], UniquifyKey(unique[j]), i - 1)
        BY Zenon DEF UniquifyInv, LoopInvariant
      <3>2. PICK m \in 1..(i - 1) :
               /\ unique[j] = input[m]
               /\ \A p \in 1..(i - 1) :
                     UniquifyKey(input[p]) = UniquifyKey(unique[j]) =>
                       /\ p < m => unique[j].name # ""
                       /\ p < m \/ unique[j].name = "" => input[p].name = ""
        BY <3>1, Zenon DEF Represents
      <3>3. UniquifyKey(input[i]) # UniquifyKey(unique[j])
        BY <1>7, Zenon DEF k, a
      <3>4. m \in 1..i /\ \A p \in 1..i : p = i \/ p \in 1..(i - 1)
        BY <1>1
      <3>5. UniquifyKey(input[m]) = UniquifyKey(unique[j])
        BY <3>2, Zenon
      <3> QED
        BY <3>2, <3>3, <3>4, <3>5, Zenon DEF Represents
    <2>2. Represents(a, k, i)
      <3>1. i \in 1..i /\ \A p \in 1..i : UniquifyKey(input[p]) = k => p = i
        <4>1. \A p \in 1..i : p = i \/ p \in 1..(i - 1)
          BY <1>1
        <4> QED
          BY <1>1, <1>6, <4>1
      <3>2. a = input[i] /\ UniquifyKey(input[i]) = k /\ ~(i < i)
        BY <1>1 DEF k, a
      <3> QED
        BY <3>1, <3>2, Zenon DEF Represents
    <2> QED
      BY <1>3, <2>1, <2>2 DEF k
  <1>10. ASSUME NEW p \in DOMAIN unique', NEW q \in DOMAIN unique', p < q,
                NEW n \in 1..i, UniquifyKey(input[n]) = UniquifyKey(unique'[q])
         PROVE  \E m \in 1..(n - 1) : UniquifyKey(input[m]) = UniquifyKey(unique'[p])
    <2>1. p \in DOMAIN unique /\ unique'[p] = unique[p]
      BY <1>1, <1>3, <1>10
    <2>2. CASE q \in DOMAIN unique
      <3>1. n # i /\ unique'[q] = unique[q]
        BY <2>2, <1>3, <1>7, <1>10, Zenon DEF k, a
      <3> QED
        BY <1>1, <2>1, <2>2, <3>1, <1>10 DEF UniquifyInv, LoopInvariant
    <2>3. CASE q = Len(unique) + 1
      <3>1. n = i
        <4>1. UniquifyKey(input[n]) = k
          BY <2>3, <1>3, <1>10, Zenon DEF k
        <4>2. n = i \/ n \in 1..(i - 1)
          BY <1>1
        <4> QED
          BY <4>1, <4>2, <1>6, Zenon
      <3> QED
        BY <2>1, <3>1, <1>1, Zenon DEF UniquifyInv, LoopInvariant, Represents
    <2> QED
      BY <1>1, <1>3, <2>2, <2>3
  <1>11. LoopInvariant'
    <2>1. i' - 1 = i /\ pc' = "loop" /\ as' = input'
      BY <1>1 DEF UniquifyInv, UniquifyTypeOK
    <2>2. \A j \in DOMAIN unique' :
             Represents(unique[j], UniquifyKey(unique[j]), i - 1)'
      BY <2>1, <1>9, Zenon DEF Represents
    <2> QED
      BY <2>1, <2>2, <1>8, <1>10, Zenon DEF LoopInvariant
  <1> QED
    BY <1>4, <1>5, <1>11, Zenon DEF UniquifyInv

\* A key seen before: the address replaces an unnamed representative if it
\* has a name, and is dropped otherwise.
LEMMA ReplaceInv ==
  UniquifyInv /\ pc = "loop" /\ i <= Len(as) /\ Replace(as[i], UniquifyKey(as[i]))
    /\ i' = i + 1 /\ UNCHANGED <<as, input, pc>> => UniquifyInv'
  <1> SUFFICES ASSUME UniquifyInv, pc = "loop", i <= Len(as),
                      Replace(as[i], UniquifyKey(as[i])),
                      i' = i + 1, UNCHANGED <<as, input, pc>>
               PROVE  UniquifyInv'
    BY Zenon
  <1> DEFINE a == input[i]
             k == UniquifyKey(a)
             x == dict[k]
             better == unique[x].name = "" /\ a.name # ""
  <1>1. /\ as = input /\ i \in 1..Len(input) /\ a \in Address
        /\ input \in Seq(Address) /\ unique \in Seq(Address)
        /\ DOMAIN unique = 1..Len(unique)
    BY DEF UniquifyInv, UniquifyTypeOK, LoopInvariant
  <1>2. /\ k \in DOMAIN dict /\ dict' = dict
        /\ unique' = IF better THEN [unique EXCEPT ![x] = a] ELSE unique
    BY <1>1, Zenon DEF Replace
  <1>3. x \in DOMAIN unique /\ UniquifyKey(unique[x]) = k
    BY <1>2, Zenon DEF UniquifyInv, DictExact
  <1>4. /\ unique' \in Seq(Address) /\ DOMAIN unique' = DOMAIN unique
        /\ Len(unique') = Len(unique)
        /\ \A j \in DOMAIN unique : j # x => unique'[j] = unique[j]
        /\ unique'[x] = IF better THEN a ELSE unique[x]
    <2>1. CASE better
      <3>1. unique' = [unique EXCEPT ![x] = a]
        BY <1>2, <2>1, Zenon
      <3> HIDE DEF a, x, better
      <3> QED
        BY <1>1, <1>3, <2>1, <3>1
    <2>2. CASE ~better
      BY <1>1, <1>2, <2>2, Zenon
    <2> QED
      BY <2>1, <2>2, Zenon
  <1>5. \A j \in DOMAIN unique : UniquifyKey(unique'[j]) = UniquifyKey(unique[j])
    BY <1>3, <1>4, Zenon DEF k
  <1>6. \A j \in DOMAIN unique : j # x => UniquifyKey(unique[j]) # k
    BY <1>3, Zenon DEF UniquifyInv, DictExact
  <1> HIDE DEF a, k, x, better
  <1>7. UniquifyTypeOK'
    BY <1>1, <1>2, <1>4 DEF UniquifyInv, UniquifyTypeOK
  <1>8. DictExact'
    BY <1>2, <1>4, <1>5, Zenon DEF UniquifyInv, DictExact
  <1>9. \A p \in 1..i : p = i \/ p \in 1..(i - 1)
    BY <1>1
  <1>10. \A m \in 1..i : UniquifyKey(input[m]) \in DOMAIN dict'
    BY <1>2, <1>9, Zenon DEF UniquifyInv, LoopInvariant, k, a
  <1>11. ASSUME NEW j \in DOMAIN unique
         PROVE  Represents(unique'[j], UniquifyKey(unique'[j]), i)
    <2>1. PICK m \in 1..(i - 1) :
               /\ unique[j] = input[m]
               /\ \A p \in 1..(i - 1) :
                     UniquifyKey(input[p]) = UniquifyKey(unique[j]) =>
                       /\ p < m => unique[j].name # ""
                       /\ p < m \/ unique[j].name = "" => input[p].name = ""
      BY Zenon DEF UniquifyInv, LoopInvariant, Represents
    <2>2. m \in 1..i /\ ~(i < m) /\ i \in 1..i /\ ~(i < i)
      BY <1>1
    <2>3. UniquifyKey(input[m]) = UniquifyKey(unique[j])
      BY <2>1, Zenon
    <2>4. CASE j # x
      <3>1. unique'[j] = unique[j] /\ UniquifyKey(input[i]) # UniquifyKey(unique[j])
        BY <2>4, <1>4, <1>6, Zenon DEF k, a
      <3> QED
        BY <2>1, <2>2, <2>3, <3>1, <1>9, Zenon DEF Represents
    <2>5. CASE j = x /\ better
      <3>1. /\ unique'[j] = input[i] /\ UniquifyKey(input[i]) = UniquifyKey(unique[j])
            /\ unique[j].name = "" /\ input[i].name # ""
        BY <2>5, <1>3, <1>4, Zenon DEF k, a, better
      <3>2. \A p \in 1..i : UniquifyKey(input[p]) = UniquifyKey(unique[j]) =>
                p = i \/ input[p].name = ""
        BY <2>1, <3>1, <1>9, Zenon
      <3>3. \A p \in 1..i : p < i => p # i
        BY <1>1
      <3> QED
        BY <2>2, <3>1, <3>2, <3>3, Zenon DEF Represents
    <2>6. CASE j = x /\ ~better
      <3>1. /\ unique'[j] = unique[j]
            /\ unique[j].name = "" => input[i].name = ""
        BY <2>6, <1>4, Zenon DEF a, better
      <3> QED
        BY <2>1, <2>2, <2>3, <3>1, <1>9, Zenon DEF Represents
    <2> QED
      BY <2>4, <2>5, <2>6, Zenon
  <1>12. ASSUME NEW p \in DOMAIN unique, NEW q \in DOMAIN unique, p < q,
                NEW n \in 1..i, UniquifyKey(input[n]) = UniquifyKey(unique[q])
         PROVE  \E m \in 1..(n - 1) : UniquifyKey(input[m]) = UniquifyKey(unique[p])
    <2>1. CASE n \in 1..(i - 1)
      BY <2>1, <1>12, Zenon DEF UniquifyInv, LoopInvariant
    <2>2. CASE n = i
      BY <2>2, <1>1, Zenon DEF UniquifyInv, LoopInvariant, Represents
    <2> QED
      BY <1>9, <2>1, <2>2, Zenon
  <1>13. LoopInvariant'
    <2>1. i' - 1 = i /\ pc' = "loop" /\ as' = input'
      BY <1>1 DEF UniquifyInv, UniquifyTypeOK
    <2>2. \A j \in DOMAIN unique' :
             Represents(unique[j], UniquifyKey(unique[j]), i - 1)'
      <3>1. \A j \in DOMAIN unique' : Represents(unique'[j], UniquifyKey(unique'[j]), i)
        BY <1>4, <1>11, Zenon
      <3> QED
        BY <2>1, <3>1, Zenon DEF Represents
    <2> QED
      BY <2>1, <2>2, <1>4, <1>5, <1>10, <1>12 DEF LoopInvariant
  <1> QED
    BY <1>7, <1>8, <1>13, Zenon DEF UniquifyInv

\* Returning keeps the invariant.
LEMMA ReturnInv == UniquifyInv /\ Return => UniquifyInv'
  <1> SUFFICES ASSUME UniquifyInv, Return PROVE UniquifyInv'
    BY Zenon
  <1>1. UniquifyTypeOK' /\ i = Len(input) + 1
    BY DEF UniquifyInv, Return, UniquifyTypeOK, LoopInvariant
  <1>2. DictExact'
    BY Zenon DEF UniquifyInv, Return, DictExact
  <1>3. \A j \in DOMAIN unique :
            Represents(unique[j], UniquifyKey(unique[j]), i - 1)'
    BY Zenon DEF UniquifyInv, Return, LoopInvariant, Represents
  <1>4. LoopInvariant'
    BY <1>1, <1>3 DEF UniquifyInv, Return, LoopInvariant
  <1> QED
    BY <1>1, <1>2, <1>4, Zenon DEF UniquifyInv

\* Every step of Uniquify keeps the invariant.
LEMMA UniquifyStepInv == UniquifyInv /\ [UniquifyNext]_uniquifyVars => UniquifyInv'
  <1> SUFFICES ASSUME UniquifyInv, [UniquifyNext]_uniquifyVars PROVE UniquifyInv'
    BY Zenon
  <1>1. CASE Enter
    BY <1>1, EnterInv, Zenon
  <1>2. CASE Visit
    BY <1>2, InsertInv, ReplaceInv, Zenon DEF Visit
  <1>3. CASE Return
    BY <1>3, ReturnInv, Zenon
  <1>4. CASE UNCHANGED uniquifyVars
    <2>1. UniquifyTypeOK' /\ DictExact'
      BY <1>4, Zenon DEF uniquifyVars, UniquifyInv, UniquifyTypeOK, DictExact
    <2>2. \A j \in DOMAIN unique :
             Represents(unique[j], UniquifyKey(unique[j]), i - 1)'
      BY <1>4, Zenon DEF uniquifyVars, UniquifyInv, LoopInvariant, Represents
    <2>3. /\ i' = i /\ pc' = pc /\ as' = as /\ input' = input
          /\ dict' = dict /\ unique' = unique
      BY <1>4, Zenon DEF uniquifyVars
    <2>4. \A j, k \in DOMAIN unique' : j < k =>
             \A n \in 1..(i' - 1) :
                UniquifyKey(input'[n]) = UniquifyKey(unique'[k]) =>
                  \E m \in 1..(n - 1) :
                     UniquifyKey(input'[m]) = UniquifyKey(unique'[j])
      BY <2>3 DEF UniquifyInv, LoopInvariant
    <2>5. LoopInvariant'
      BY <2>2, <2>3, <2>4, Zenon DEF UniquifyInv, LoopInvariant
    <2> QED
      BY <2>1, <2>5, Zenon DEF UniquifyInv
  <1> QED
    BY <1>1, <1>2, <1>3, <1>4, Zenon DEF UniquifyNext

\* The loop of Uniquify keeps dict the inverse of unique and unique a list of
\* representatives, for lists of every length.
THEOREM UniquifyInvariant == UniquifySpec => [](UniquifyTypeOK /\ DictExact /\ LoopInvariant)
  <1>1. UniquifySpec => []UniquifyInv
    BY UniquifyInitInv, UniquifyStepInv, PTL DEF UniquifySpec
  <1> QED
    BY <1>1, PTL DEF UniquifyInv

\* Uniquify returns a list in which no key occurs twice, in which every
\* address of its input is represented, and which has no other addresses.
THEOREM UniquifyCorrect == UniquifySpec => []Deduplicated
  <1>1. UniquifyInv => Deduplicated
    <2> SUFFICES ASSUME UniquifyInv, pc = "done" PROVE Deduplicated
      BY Zenon DEF Deduplicated
    <2>1. /\ as = unique /\ i - 1 = Len(input) /\ DOMAIN input = 1..(i - 1)
      BY DEF UniquifyInv, UniquifyTypeOK, LoopInvariant
    <2>2. \A j, k \in DOMAIN as : UniquifyKey(as[j]) = UniquifyKey(as[k]) => j = k
      BY <2>1, Zenon DEF UniquifyInv, DictExact
    <2>3. \A m \in DOMAIN input : \E j \in DOMAIN as :
               /\ UniquifyKey(as[j]) = UniquifyKey(input[m])
               /\ input[m].name # "" => as[j].name # ""
      <3> SUFFICES ASSUME NEW m \in DOMAIN input
                   PROVE  \E j \in DOMAIN as :
                             /\ UniquifyKey(as[j]) = UniquifyKey(input[m])
                             /\ input[m].name # "" => as[j].name # ""
        BY Zenon
      <3> DEFINE j == dict[UniquifyKey(input[m])]
      <3>1. j \in DOMAIN unique /\ UniquifyKey(unique[j]) = UniquifyKey(input[m])
        BY <2>1, Zenon DEF UniquifyInv, LoopInvariant, DictExact
      <3>2. Represents(unique[j], UniquifyKey(unique[j]), i - 1)
        BY <3>1, Zenon DEF UniquifyInv, LoopInvariant
      <3>3. input[m].name # "" => unique[j].name # ""
        BY <2>1, <3>1, <3>2, Zenon DEF Represents
      <3> QED
        BY <2>1, <3>1, <3>3, Zenon
    <2>4. \A j \in DOMAIN as : \E m \in DOMAIN input : as[j] = input[m]
      BY <2>1, Zenon DEF UniquifyInv, LoopInvariant, Represents
    <2> QED
      BY <2>2, <2>3, <2>4, Zenon DEF Deduplicated
  <1> QED
    BY <1>1, UniquifyInitInv, UniquifyStepInv, PTL DEF UniquifySpec

\* Uniquify keeps the earliest copy it may keep of each address.
THEOREM UniquifyKeepsFirst == UniquifySpec => []KeepsFirst
  <1>1. UniquifyInv => KeepsFirst
    <2> SUFFICES ASSUME UniquifyInv, pc = "done" PROVE KeepsFirst
      BY Zenon DEF KeepsFirst
    <2>1. /\ as = unique /\ DOMAIN input = 1..(i - 1)
      BY DEF UniquifyInv, UniquifyTypeOK, LoopInvariant
    <2>2. \A j \in DOMAIN unique : Represents(unique[j], UniquifyKey(unique[j]), i - 1)
      BY Zenon DEF UniquifyInv, LoopInvariant
    <2>3. ASSUME NEW j \in DOMAIN as
          PROVE  \E m \in DOMAIN input :
                    /\ input[m] = as[j]
                    /\ \A n \in DOMAIN input :
                          UniquifyKey(input[n]) = UniquifyKey(as[j]) =>
                            /\ n < m => as[j].name # ""
                            /\ n < m \/ as[j].name = "" => input[n].name = ""
      <3>1. Represents(as[j], UniquifyKey(as[j]), i - 1)
        BY <2>1, <2>2, Zenon
      <3> QED
        BY <2>1, <3>1, Zenon DEF Represents
    <2> QED
      BY <2>3, Zenon DEF KeepsFirst
  <1> QED
    BY <1>1, UniquifyInitInv, UniquifyStepInv, PTL DEF UniquifySpec

\* Uniquify keeps the keys in the order of their first occurrence.
THEOREM UniquifyKeepsOrder == UniquifySpec => []KeepsOrder
  <1>1. UniquifyInv => KeepsOrder
    <2> SUFFICES ASSUME UniquifyInv, pc = "done" PROVE KeepsOrder
      BY Zenon DEF KeepsOrder
    <2>1. /\ as = unique /\ DOMAIN input = 1..(i - 1)
      BY DEF UniquifyInv, UniquifyTypeOK, LoopInvariant
    <2> QED
      BY <2>1 DEF UniquifyInv, LoopInvariant, KeepsOrder
  <1> QED
    BY <1>1, UniquifyInitInv, UniquifyStepInv, PTL DEF UniquifySpec

\* DictExact for every list: between two iterations dict says of every key at
\* which place of unique it is.
THEOREM UniquifyDictExact == UniquifySpec => []DictExact
  BY UniquifyInvariant, PTL

-----------------------------------------------------------------------------
(***************************************************************************)
(* The operations of a header                                              *)
(***************************************************************************)
\* The inductive invariant.  Each conjunct is preserved by itself, given the
\* shape of the header.
ApiInv == TypeOK /\ MergedOnce /\ CachedVerdictSound

\* An empty header satisfies it.
LEMMA ApiInitInv == ApiInit => ApiInv
  <1> SUFFICES ASSUME NEW m \in Modes, header = NewHeader(m, "text/plain"), answer = "none"
               PROVE  ApiInv
    BY Zenon DEF ApiInit
  <1>1. DOMAIN header.Fields = {} /\ header.verified = FALSE /\ header.last = 0
    BY Zenon DEF NewHeader
  <1>2. TypeOK
    BY <1>1, Zenon DEF TypeOK, HeaderOK, NewHeader
  <1> QED
    BY <1>1, <1>2, Zenon DEF ApiInv, MergedOnce, AddressFieldsMerged, CachedVerdictSound

\* Add: appending resets the verdict, merging touches no name and no error.
LEMMA AddInv ==
  ASSUME ApiInv, NEW f \in ParsedFields, Add(f)
  PROVE  ApiInv'
  <1>1. header' = addField(header, f) /\ answer' = "none" /\ HeaderOK(header) /\ AddressFieldsMerged(header)
    BY Zenon DEF Add, ApiInv, TypeOK, MergedOnce
  <1>2. f = [name |-> f.name, err |-> f.err, val |-> f.val]
    BY ApiAssumption, Zenon
  <1>3. HeaderOK(addField(header, f)) /\ AddressFieldsMerged(addField(header, f))
    BY <1>1, <1>2, AddKeepsMerged, Zenon
  <1>4. CachedVerdictSound'
    <2>1. CASE f.name \in MergedNames /\ Named(header, f.name) # {}
      <3>1. header' = MergeInto(header, f)
        BY <1>1, <2>1, Zenon DEF addField
      <3>2. /\ MergeInto(header, f).verified = header.verified
            /\ MergeInto(header, f).err = header.err
        BY <1>1, <2>1, MergeProperties, Zenon
      <3>3. /\ AllFieldsValid(header) => AllFieldsValid(MergeInto(header, f))
            /\ NoneRepeated(header) => NoneRepeated(MergeInto(header, f))
        BY <1>1, <2>1, MergePreserves, Zenon
      <3>4. header.verified /\ ~header.err => AllFieldsValid(header) /\ NoneRepeated(header)
        BY Zenon DEF ApiInv, CachedVerdictSound
      <3>5. header'.verified /\ ~header'.err => AllFieldsValid(header') /\ NoneRepeated(header')
        BY <3>1, <3>2, <3>3, <3>4, Zenon
      <3> QED
        BY <3>5, Zenon DEF CachedVerdictSound
    <2>2. CASE ~(f.name \in MergedNames /\ Named(header, f.name) # {})
      <3>1. header' = Append1(header, f)
        BY <1>1, <2>2, Zenon DEF addField
      <3>2. Append1(header, f).verified = FALSE
        BY <1>1, <1>2, AppendProperties1, Zenon
      <3> QED
        BY <3>1, <3>2, Zenon DEF CachedVerdictSound
    <2> QED
      BY <2>1, <2>2, Zenon
  <1> QED
    BY <1>1, <1>3, <1>4, Zenon DEF ApiInv, TypeOK, MergedOnce

\* Every removal keeps a subset of the fields and leaves the verdict alone.
LEMMA RemovalInv ==
  ASSUME ApiInv, NEW S \in SUBSET (DOMAIN header.Fields), header' = Keep(header, S), answer' = "none"
  PROVE  ApiInv'
  <1>1. HeaderOK(header) /\ AddressFieldsMerged(header)
    BY Zenon DEF ApiInv, TypeOK, MergedOnce
  <1>2. /\ HeaderOK(Keep(header, S))
        /\ Keep(header, S).verified = header.verified /\ Keep(header, S).err = header.err
    BY <1>1, KeepProperties, Zenon
  <1>3. /\ AddressFieldsMerged(Keep(header, S))
        /\ AllFieldsValid(header) => AllFieldsValid(Keep(header, S))
        /\ NoneRepeated(header) => NoneRepeated(Keep(header, S))
    BY <1>1, KeepPreserves, Zenon
  <1>4. header.verified /\ ~header.err => AllFieldsValid(header) /\ NoneRepeated(header)
    BY Zenon DEF ApiInv, CachedVerdictSound
  <1>5. header'.verified /\ ~header'.err => AllFieldsValid(header') /\ NoneRepeated(header')
    BY <1>2, <1>3, <1>4, Zenon
  <1> QED
    BY <1>2, <1>3, <1>5, Zenon DEF ApiInv, TypeOK, MergedOnce, CachedVerdictSound

\* Valid computes the verdict if it is not cached; what it then says is all
\* of CachedVerdictSound and more.
LEMMA ValidInv ==
  ASSUME ApiInv, CallValid
  PROVE  ApiInv'
  <1>1. header' = verify(header) /\ answer' \in {"none", "valid", "invalid"} /\ HeaderOK(header)
    BY Zenon DEF CallValid, ApiInv, TypeOK
  <1>2. /\ HeaderOK(verify(header)) /\ verify(header).Fields = header.Fields
        /\ header.verified => verify(header) = header
        /\ ~header.verified => verify(header).err = ~Acceptable(header)
    BY <1>1, VerifyProperties, Zenon
  <1>3. AddressFieldsMerged(header')
    BY <1>1, <1>2, Zenon DEF ApiInv, MergedOnce, AddressFieldsMerged
  <1>4. AllFieldsValid(header) /\ NoneRepeated(header) => AllFieldsValid(header') /\ NoneRepeated(header')
    BY <1>1, <1>2, Zenon DEF AllFieldsValid, NoneRepeated, Occurrences, Named
  <1>5. Acceptable(header) => AllFieldsValid(header) /\ NoneRepeated(header)
    <2> SUFFICES ASSUME Acceptable(header), NEW c \in conditions
                 PROVE  AllFieldsValid(header) /\ Occurrences(header, c.name) <= c.max
      BY Zenon DEF Acceptable, NoneRepeated
    <2>1. ~(Occurrences(header, c.name) > c.max) /\ AllFieldsValid(header)
      BY Zenon DEF Acceptable, Breaks
    <2>2. c.max = 1
      BY DEF conditions
    <2>3. Occurrences(header, c.name) \in Nat
      BY <1>1, PositionsFinite, Zenon DEF Occurrences, Named
    <2> QED
      BY <2>1, <2>2, <2>3
  <1>6. header'.verified /\ ~header'.err => AllFieldsValid(header') /\ NoneRepeated(header')
    BY <1>1, <1>2, <1>4, <1>5, Zenon DEF ApiInv, CachedVerdictSound
  <1> QED
    BY <1>1, <1>2, <1>3, <1>6, Zenon DEF ApiInv, TypeOK, MergedOnce, CachedVerdictSound

\* For all fields, names and bounds: the header keeps its shape, has at most
\* one of each merged address field, and a verdict "valid" that verify has
\* cached still implies that all fields are valid and none is repeated.
THEOREM ApiInvariant == ApiSpec => [](TypeOK /\ MergedOnce /\ CachedVerdictSound)
  <1>1. ApiInv /\ [ApiNext]_apiVars => ApiInv'
    <2> SUFFICES ASSUME ApiInv, [ApiNext]_apiVars PROVE ApiInv'
      BY Zenon
    <2>1. ASSUME NEW f \in ParsedFields, Add(f) PROVE ApiInv'
      BY <2>1, AddInv, Zenon
    <2>2. ASSUME NEW p \in DOMAIN header.Fields, CallRemoveAt(p) PROVE ApiInv'
      BY <2>2, RemovalInv, Zenon DEF CallRemoveAt, RemoveAt
    <2>3. ASSUME NEW fn \in FieldNames, CallRemoveAllNamed(fn) PROVE ApiInv'
      BY <2>3, RemovalInv, Zenon DEF CallRemoveAllNamed, RemoveAllNamed
    <2>4. CASE CallValid
      BY <2>4, ValidInv, Zenon
    <2>5. CASE UNCHANGED apiVars
      <3>1. header' = header /\ answer' = answer
        BY <2>5, Zenon DEF apiVars
      <3> QED
        BY <3>1, Zenon DEF ApiInv, TypeOK, MergedOnce, CachedVerdictSound
    <2> QED
      BY <2>1, <2>2, <2>3, <2>4, <2>5, Zenon DEF ApiNext
  <1> QED
    BY ApiInitInv, <1>1, PTL DEF ApiSpec, ApiInv

\* MergedOnce for every header: addField merges the address fields it is given,
\* and neither a removal nor Valid takes one of them apart.
THEOREM AddressFieldsMergedOnce == ApiSpec => []MergedOnce
  BY ApiInvariant, PTL

-----------------------------------------------------------------------------
(***************************************************************************)
(* The Parse functions of fields.go                                        *)
(***************************************************************************)
\* outlawBounce changes nothing but the error.
LEMMA Outlawed ==
  ASSUME NEW fn, NEW e, NEW v
  PROVE  outlawBounce(Field(fn, e, v))
           = Field(fn, IF HasType(v, "Bounce") THEN "No-bounce" ELSE e, v)
  <1>1. Field(fn, e, v).val = v /\ Field(fn, e, v).name = fn
    BY Zenon DEF Field
  <1>2. CASE HasType(v, "Bounce")
    BY <1>1, <1>2, Zenon DEF outlawBounce
  <1>3. CASE ~HasType(v, "Bounce")
    BY <1>1, <1>3, Zenon DEF outlawBounce
  <1> QED
    BY <1>2, <1>3, Zenon

\* What a Parse function leaves before outlawBounce: the rules of
\* WellParsedAddresses with the <> aside.
Drafted(fn, e, v) ==
  /\ e \in {"", "bad"}
  /\ fn = "Sender" => (e = "" => Len(v) <= 1) /\ (e # "" => v # <<>>)
  /\ fn = "From" /\ e = "" => ~HasType(v, "EmptyGroup")
  /\ fn = "Message-ID" => ~HasType(v, "Bounce") /\ (IF e = "" THEN Len(v) = 1 ELSE v = <<>>)
  /\ fn = "References" => ~HasType(v, "Bounce") /\ e = ""

\* WellParsedAddresses, of the parts of a field.
WellParts(fn, e, v) ==
  /\ e = "No-bounce" <=> fn # "Return-Path" /\ HasType(v, "Bounce")
  /\ fn = "Return-Path" =>
        /\ e = "" /\ Len(v) <= 1
        /\ ~HasType(v, "EmptyGroup") /\ ~HasType(v, "Local")
  /\ fn = "Sender" => (e = "" => Len(v) <= 1) /\ (e # "" => v # <<>>)
  /\ fn = "From" /\ e = "" => ~HasType(v, "EmptyGroup")
  /\ fn = "Message-ID" => IF e = "" THEN Len(v) = 1 ELSE v = <<>>
  /\ fn = "References" => e = ""

LEMMA WellParsedParts ==
  ASSUME NEW fn, NEW e, NEW v, NEW f, f = Field(fn, e, v), WellParts(fn, e, v)
  PROVE  f.name = fn /\ WellParsedAddresses(f)
  <1>1. f.name = fn /\ f.err = e /\ f.val = v
    BY Zenon DEF Field
  <1> QED
    BY <1>1, Zenon DEF WellParsedAddresses, WellParts

\* outlawBounce completes a draft.
LEMMA OutlawedDraft ==
  ASSUME NEW fn, NEW e, NEW v, Drafted(fn, e, v), fn # "Return-Path"
  PROVE  /\ outlawBounce(Field(fn, e, v)).name = fn
         /\ WellParsedAddresses(outlawBounce(Field(fn, e, v)))
  <1>1. CASE HasType(v, "Bounce")
    <2>1. outlawBounce(Field(fn, e, v)) = Field(fn, "No-bounce", v)
      BY <1>1, Outlawed, Zenon
    <2>2. v # <<>>
      BY <1>1 DEF HasType
    <2>3. fn # "Message-ID" /\ fn # "References" /\ "No-bounce" # ""
      BY <1>1 DEF Drafted
    <2> QED
      <3>1. WellParts(fn, "No-bounce", v)
        BY <1>1, <2>2, <2>3, Zenon DEF WellParts
      <3> QED
        BY <2>1, <3>1, WellParsedParts, Zenon
  <1>2. CASE ~HasType(v, "Bounce")
    <2>1. outlawBounce(Field(fn, e, v)) = Field(fn, e, v)
      BY <1>2, Outlawed, Zenon
    <2>2. e # "No-bounce"
      BY DEF Drafted
    <2>3. fn = "Message-ID" => IF e = "" THEN Len(v) = 1 ELSE v = <<>>
      BY Zenon DEF Drafted
    <2>4. /\ fn = "Sender" => (e = "" => Len(v) <= 1) /\ (e # "" => v # <<>>)
          /\ fn = "From" /\ e = "" => ~HasType(v, "EmptyGroup")
          /\ fn = "References" => e = ""
      BY Zenon DEF Drafted
    <2> QED
      <3>1. WellParts(fn, e, v)
        BY <1>2, <2>2, <2>3, <2>4, Zenon DEF WellParts
      <3> QED
        BY <2>1, <3>1, WellParsedParts, Zenon
  <1> QED
    BY <1>1, <1>2, Zenon

\* What the address parser answers.
Answer(r) == {"err", "addrs"} \subseteq DOMAIN r /\ r.addrs \in Seq(Address)

\* parseAddressList keeps the addresses.
LEMMA AddressListParsed ==
  ASSUME NEW fn, NEW r
  PROVE  \E e \in {"", "bad"} : parseAddressList(fn, r) = Field(fn, e, r.addrs)
  BY Zenon DEF parseAddressList

\* parseMailboxList too, and there is no group if there is no error.
LEMMA MailboxListParsed ==
  ASSUME NEW fn, NEW r
  PROVE  \E e \in {"", "bad"} : /\ parseMailboxList(fn, r) = Field(fn, e, r.addrs)
                                /\ e = "" => ~HasType(r.addrs, "EmptyGroup")
  <1>1. PICK e \in {"", "bad"} : parseAddressList(fn, r) = Field(fn, e, r.addrs)
    BY AddressListParsed, Zenon
  <1>2. Field(fn, e, r.addrs).err = e /\ Field(fn, e, r.addrs).val = r.addrs
    BY Zenon DEF Field
  <1>3. "bad" # ""
    OBVIOUS
  <1>4. CASE e = "" /\ HasType(r.addrs, "EmptyGroup")
    BY <1>1, <1>2, <1>3, <1>4, Zenon DEF parseMailboxList
  <1>5. CASE ~(e = "" /\ HasType(r.addrs, "EmptyGroup"))
    BY <1>1, <1>2, <1>5, Zenon DEF parseMailboxList
  <1> QED
    BY <1>4, <1>5, Zenon

\* A list is longer than one or it is not.
LEMMA LengthCases ==
  ASSUME NEW l \in Seq(Address)
  PROVE  /\ Len(l) > 1 \/ Len(l) <= 1
         /\ l = <<>> => Len(l) <= 1
         /\ Len(l) = 1 => Len(l) <= 1 /\ DOMAIN l = {1}
  <1>1. /\ Len(l) > 1 \/ Len(l) <= 1
        /\ l = <<>> => Len(l) <= 1
    OBVIOUS
  <1>2. ASSUME Len(l) = 1
        PROVE  Len(l) <= 1 /\ DOMAIN l = {1}
    BY <1>2
  <1> QED
    BY <1>1, <1>2, Zenon

\* parseMailbox too, and there is at most one address if there is no error.
LEMMA MailboxParsed ==
  ASSUME NEW fn, NEW r, Answer(r)
  PROVE  \E e \in {"", "bad"} : /\ parseMailbox(fn, r) = Field(fn, e, r.addrs)
                                /\ e = "" => Len(r.addrs) <= 1
  <1>1. PICK e \in {"", "bad"} : parseAddressList(fn, r) = Field(fn, e, r.addrs)
    BY AddressListParsed, Zenon
  <1>2. Field(fn, e, r.addrs).err = e /\ Field(fn, e, r.addrs).val = r.addrs
    BY Zenon DEF Field
  <1>3. "bad" # ""
    OBVIOUS
  <1>4. CASE e = "" /\ Len(r.addrs) > 1
    BY <1>1, <1>2, <1>3, <1>4, Zenon DEF parseMailbox
  <1>5. CASE ~(e = "" /\ Len(r.addrs) > 1)
    <2>1. e = "" => Len(r.addrs) <= 1
      BY <1>5, LengthCases, Zenon DEF Answer
    <2> QED
      BY <1>1, <1>2, <1>5, <2>1, Zenon DEF parseMailbox
  <1> QED
    BY <1>4, <1>5, Zenon

\* references keeps message-ids, none of which is a <>.
LEMMA ReferencesProperties ==
  ASSUME NEW r, Answer(r)
  PROVE  /\ references(r).err = FALSE /\ references(r).addrs \in Seq(Address)
         /\ ~HasType(references(r).addrs, "Bounce")
  <1> DEFINE S == {n \in DOMAIN r.addrs : TypeOf(r.addrs[n]) = "Normal"}
  <1>1. references(r).err = FALSE /\ references(r).addrs = At(r.addrs, S)
    BY DEF references, Answer
  <1>2. S \in SUBSET (DOMAIN r.addrs) /\ \A j \in S : TypeOf(r.addrs[j]) = "Normal"
    OBVIOUS
  <1> HIDE DEF S
  <1>3. /\ At(r.addrs, S) \in Seq(Address)
        /\ \A n \in DOMAIN At(r.addrs, S) : \E j \in S : At(r.addrs, S)[n] = r.addrs[j]
    BY <1>2, AtProperties, Zenon DEF Answer
  <1>4. \A n \in DOMAIN At(r.addrs, S) : TypeOf(At(r.addrs, S)[n]) # "Bounce"
    BY <1>2, <1>3
  <1> QED
    BY <1>1, <1>3, <1>4, Zenon DEF HasType

\* Sender: parseMailbox, and no error if there is no address.
LEMMA SenderParsed ==
  ASSUME NEW r, Answer(r)
  PROVE  \E e : parseSender(r) = Field("Sender", e, r.addrs) /\ Drafted("Sender", e, r.addrs)
  <1>1. PICK e \in {"", "bad"} : /\ parseMailbox("Sender", r) = Field("Sender", e, r.addrs)
                                 /\ e = "" => Len(r.addrs) <= 1
    BY MailboxParsed, Zenon
  <1>2. Field("Sender", e, r.addrs).val = r.addrs
    BY Zenon DEF Field
  <1>3. "Sender" # "From" /\ "Sender" # "Message-ID" /\ "Sender" # "References"
    OBVIOUS
  <1>4. CASE r.addrs = <<>>
    <2>1. parseSender(r) = Field("Sender", "", r.addrs)
      BY <1>1, <1>2, <1>4, Zenon DEF parseSender
    <2>2. Len(r.addrs) <= 1
      BY <1>4, LengthCases, Zenon DEF Answer
    <2> QED
      BY <1>3, <2>1, <2>2, Zenon DEF Drafted
  <1>5. CASE r.addrs # <<>>
    <2>1. parseSender(r) = Field("Sender", e, r.addrs)
      BY <1>1, <1>2, <1>5, Zenon DEF parseSender
    <2> QED
      BY <1>1, <1>3, <1>5, <2>1, Zenon DEF Drafted
  <1> QED
    BY <1>4, <1>5, Zenon

\* Recipients: the value may shrink, the error may be forgiven.
LEMMA RecipientsParsed ==
  ASSUME NEW fn, NEW r, Answer(r)
  PROVE  \E e \in {"", "bad"} : \E v : parseRecipients(fn, r) = Field(fn, e, v)
  <1> DEFINE NotBounce(a) == TypeOf(a) # "Bounce"
             kept == SelectSeq(r.addrs, NotBounce)
  <1>1. PICK e \in {"", "bad"} : parseAddressList(fn, r) = Field(fn, e, r.addrs)
    BY AddressListParsed, Zenon
  <1>2. Field(fn, e, r.addrs).err = e /\ Field(fn, e, r.addrs).val = r.addrs
    BY Zenon DEF Field
  <1>3. parseRecipients(fn, r) \in {Field(fn, "", <<>>), Field(fn, "", kept), Field(fn, e, r.addrs)}
    BY <1>1, <1>2, Zenon DEF parseRecipients
  <1> QED
    BY <1>3, Zenon

\* Content-ID.
LEMMA ContentIDParsed ==
  ASSUME NEW fn, NEW r, Answer(r)
  PROVE  \E e \in {"", "bad"} : \E v : parseContentID(fn, r) = Field(fn, e, v)
  <1>1. PICK e \in {"", "bad"} : parseAddressList(fn, r) = Field(fn, e, r.addrs)
    BY AddressListParsed, Zenon
  <1> QED
    BY <1>1, Zenon DEF parseContentID

\* The empty list.
LEMMA EmptyList ==
  /\ Len(<<>>) <= 1
  /\ ~HasType(<<>>, "EmptyGroup") /\ ~HasType(<<>>, "Local") /\ ~HasType(<<>>, "Bounce")
  <1>1. Len(<<>>) <= 1
    OBVIOUS
  <1>2. ~HasType(<<>>, "EmptyGroup") /\ ~HasType(<<>>, "Local") /\ ~HasType(<<>>, "Bounce")
    BY DEF HasType
  <1> QED
    BY <1>1, <1>2, Zenon

\* Message-ID: exactly one message-id, or an error and nothing.
MessageIDValue(e, v) ==
  /\ e \in {"", "bad"} /\ ~HasType(v, "Bounce")
  /\ IF e = "" THEN Len(v) = 1 ELSE v = <<>>

LEMMA MessageIDParsed ==
  ASSUME NEW fn, NEW r, Answer(r)
  PROVE  \E e, v : parseMessageID(fn, r) = Field(fn, e, v) /\ MessageIDValue(e, v)
  <1>1. CASE Len(references(r).addrs) # 1
    <2>1. parseMessageID(fn, r) = Field(fn, "bad", <<>>)
      BY <1>1, Zenon DEF parseMessageID
    <2>2. "bad" # ""
      BY Zenon
    <2>3. MessageIDValue("bad", <<>>)
      BY <2>2, EmptyList, Zenon DEF MessageIDValue
    <2> QED
      BY <2>1, <2>3, Zenon
  <1>2. CASE Len(references(r).addrs) = 1
    <2>1. parseMessageID(fn, r) = Field(fn, "", references(r).addrs)
      BY <1>2, Zenon DEF parseMessageID
    <2>2. MessageIDValue("", references(r).addrs)
      BY <1>2, ReferencesProperties, Zenon DEF MessageIDValue
    <2> QED
      BY <2>1, <2>2, Zenon
  <1> QED
    BY <1>1, <1>2, Zenon

\* Return-Path: one address that is <> or has a domain, or nothing.
LEMMA ReturnPathParsed ==
  ASSUME NEW r, Answer(r)
  PROVE  parseReturnPath(r).name = "Return-Path" /\ WellParsedAddresses(parseReturnPath(r))
  <1> DEFINE l == r.addrs
             good == /\ Len(l) = 1 /\ (HasType(l, "Bounce") \/ HasType(l, "Normal"))
  <1>1. PICK e \in {"", "bad"} : parseMailbox("Return-Path", r) = Field("Return-Path", e, l)
    BY MailboxParsed, Zenon
  <1>2. Field("Return-Path", e, l).err = e /\ Field("Return-Path", e, l).val = l
    BY Zenon DEF Field
  <1>3. \/ parseReturnPath(r) = Field("Return-Path", "", <<>>)
        \/ good /\ parseReturnPath(r) = Field("Return-Path", "", l)
    BY <1>1, <1>2, Zenon DEF parseReturnPath
  <1>4. PICK v : /\ parseReturnPath(r) = Field("Return-Path", "", v) /\ Len(v) <= 1
                 /\ ~HasType(v, "EmptyGroup") /\ ~HasType(v, "Local")
    <2>1. CASE parseReturnPath(r) = Field("Return-Path", "", <<>>)
      BY <2>1, EmptyList, Zenon
    <2>2. CASE good /\ parseReturnPath(r) = Field("Return-Path", "", l)
      <3>1. Len(l) <= 1 /\ DOMAIN l = {1}
        BY <2>2, LengthCases, Zenon DEF Answer
      <3>2. TypeOf(l[1]) \in {"Bounce", "Normal"}
        BY <2>2, <3>1, Zenon DEF HasType
      <3>3. ~HasType(l, "EmptyGroup") /\ ~HasType(l, "Local")
        BY <3>1, <3>2 DEF HasType
      <3> QED
        BY <2>2, <3>1, <3>3, Zenon
    <2> QED
      BY <1>3, <2>1, <2>2, Zenon
  <1>5. /\ "Return-Path" \notin {"Sender", "From", "Message-ID", "References"}
        /\ "" # "No-bounce"
    OBVIOUS
  <1>6. WellParts("Return-Path", "", v)
    BY <1>4, <1>5, Zenon DEF WellParts
  <1> QED
    BY <1>4, <1>6, WellParsedParts, Zenon

\* The names AddressField.Parse knows.
LEMMA AddressNameCases ==
  ASSUME NEW fn \in AddressNames, fn # "Return-Path"
  PROVE  \/ fn = "Sender" \/ fn = "Resent-Sender" \/ fn \in {"From", "Resent-From"}
         \/ fn \in RecipientNames \/ fn = "Content-ID"
         \/ fn \in {"Message-ID", "Resent-Message-ID"} \/ fn = "References"
  BY Zenon DEF AddressNames, addressFieldNames, RecipientNames

\* The value AddressField.Parse hands to outlawBounce.
Parsed(fn, r) ==
    CASE fn = "Sender" -> parseSender(r)
      [] fn = "Resent-Sender" -> parseMailbox(fn, r)
      [] fn \in {"From", "Resent-From"} -> parseMailboxList(fn, r)
      [] fn \in RecipientNames -> parseRecipients(fn, r)
      [] fn = "Content-ID" -> parseContentID(fn, r)
      [] fn \in {"Message-ID", "Resent-Message-ID"} -> parseMessageID(fn, r)
      [] fn = "References" -> parseReferences(fn, r)

\* It is a draft, whatever the name.
LEMMA ParsedDraft ==
  ASSUME NEW fn \in AddressNames, fn # "Return-Path", NEW r, Answer(r)
  PROVE  \E e, v : Parsed(fn, r) = Field(fn, e, v) /\ Drafted(fn, e, v)
  <1>1. CASE fn = "Sender"
    <2>1. Parsed(fn, r) = parseSender(r)
      BY <1>1 DEF Parsed, RecipientNames
    <2> QED
      BY <1>1, <2>1, SenderParsed, Zenon
  <1>2. CASE fn = "Resent-Sender"
    <2>1. Parsed(fn, r) = parseMailbox(fn, r)
      BY <1>2 DEF Parsed, RecipientNames
    <2>2. fn \notin {"Sender", "From", "Message-ID", "References"}
      BY <1>2
    <2> QED
      BY <2>1, <2>2, MailboxParsed, Zenon DEF Drafted
  <1>3. CASE fn \in {"From", "Resent-From"}
    <2>1. Parsed(fn, r) = parseMailboxList(fn, r)
      BY <1>3 DEF Parsed, RecipientNames
    <2>2. fn \notin {"Sender", "Message-ID", "References"}
      BY <1>3
    <2> QED
      BY <2>1, <2>2, MailboxListParsed, Zenon DEF Drafted
  <1>4. CASE fn \in RecipientNames
    <2>1. Parsed(fn, r) = parseRecipients(fn, r)
      BY <1>4 DEF Parsed, RecipientNames
    <2>2. fn \notin {"Sender", "From", "Message-ID", "References"}
      BY <1>4 DEF RecipientNames
    <2> QED
      BY <2>1, <2>2, RecipientsParsed, Zenon DEF Drafted
  <1>5. CASE fn = "Content-ID"
    <2>1. Parsed(fn, r) = parseContentID(fn, r)
      BY <1>5 DEF Parsed, RecipientNames
    <2>2. fn \notin {"Sender", "From", "Message-ID", "References"}
      BY <1>5
    <2> QED
      BY <2>1, <2>2, ContentIDParsed, Zenon DEF Drafted
  <1>6. CASE fn \in {"Message-ID", "Resent-Message-ID"}
    <2>1. Parsed(fn, r) = parseMessageID(fn, r)
      BY <1>6 DEF Parsed, RecipientNames
    <2>2. fn \notin {"Sender", "From", "References"}
      BY <1>6
    <2>3. PICK e, v : parseMessageID(fn, r) = Field(fn, e, v) /\ MessageIDValue(e, v)
      BY MessageIDParsed, Zenon
    <2>4. Drafted(fn, e, v)
      BY <2>2, <2>3, Zenon DEF Drafted, MessageIDValue
    <2> QED
      BY <2>1, <2>3, <2>4, Zenon
  <1>7. CASE fn = "References"
    <2>1. Parsed(fn, r) = parseReferences(fn, r)
      BY <1>7 DEF Parsed, RecipientNames
    <2>2. fn \notin {"Sender", "From", "Message-ID"}
      BY <1>7
    <2>3. /\ parseReferences(fn, r) = Field(fn, "", references(r).addrs)
          /\ ~HasType(references(r).addrs, "Bounce")
      BY ReferencesProperties, Zenon DEF parseReferences, parseAddressList
    <2>4. Drafted(fn, "", references(r).addrs)
      BY <2>2, <2>3, Zenon DEF Drafted
    <2> QED
      BY <2>1, <2>3, <2>4, Zenon
  <1> QED
    BY <1>1, <1>2, <1>3, <1>4, <1>5, <1>6, <1>7, AddressNameCases, Zenon

\* Every address field that AddressField.Parse returns is well parsed.
LEMMA AddressesParsed ==
  ASSUME NEW fn \in AddressNames, NEW r, Answer(r)
  PROVE  /\ AddressField_Parse(fn, r).name = fn
         /\ WellParsedAddresses(AddressField_Parse(fn, r))
  <1>1. CASE fn = "Return-Path"
    <2>1. AddressField_Parse(fn, r) = parseReturnPath(r)
      BY <1>1, Zenon DEF AddressField_Parse
    <2> QED
      BY <1>1, <2>1, ReturnPathParsed, Zenon
  <1>2. CASE fn # "Return-Path"
    <2>1. AddressField_Parse(fn, r) = outlawBounce(Parsed(fn, r))
      BY <1>2, Zenon DEF AddressField_Parse, Parsed
    <2>2. PICK e, v : Parsed(fn, r) = Field(fn, e, v) /\ Drafted(fn, e, v)
      BY <1>2, ParsedDraft, Zenon
    <2>3. /\ outlawBounce(Field(fn, e, v)).name = fn
          /\ WellParsedAddresses(outlawBounce(Field(fn, e, v)))
      BY <1>2, <2>2, OutlawedDraft, Zenon
    <2> QED
      BY <2>1, <2>2, <2>3, Zenon
  <1> QED
    BY <1>1, <1>2, Zenon

\* A value whose type and subtype can be set.
TypeFields(ct) == {"type", "subtype", "params"} \subseteq DOMAIN ct

\* addParameter leaves them.
LEMMA AddParameterKeeps ==
  ASSUME NEW ct, TypeFields(ct), NEW n, NEW v
  PROVE  /\ TypeFields(addParameter(ct, n, v))
         /\ addParameter(ct, n, v).type = ct.type
         /\ addParameter(ct, n, v).subtype = ct.subtype
  <1>1. DOMAIN addParameter(ct, n, v) = DOMAIN ct
    BY DEF addParameter
  <1> QED
    BY <1>1 DEF TypeFields, addParameter

\* TypeRead returns such a value.
LEMMA TypeReadTyped ==
  ASSUME NEW c
  PROVE  TypeFields(TypeRead(c))
  <1> DEFINE ct == [type |-> Guessed(c)[1], subtype |-> Guessed(c)[2], params |-> c.params,
                    raw |-> c.token]
  <1>1. TypeFields(ct)
    BY DEF TypeFields
  <1>2. TypeRead(c) = ct \/ TypeRead(c) = addParameter(ct, "original-type", "")
    BY Zenon DEF TypeRead
  <1> HIDE DEF ct
  <1> QED
    BY <1>1, <1>2, AddParameterKeeps, Zenon

\* NoAppledouble leaves them or sets both.
LEMMA NoAppledoubleTypes ==
  ASSUME NEW ct, TypeFields(ct)
  PROVE  /\ TypeFields(NoAppledouble(ct))
         /\ \/ NoAppledouble(ct) = ct
            \/ /\ NoAppledouble(ct).type = "application"
               /\ NoAppledouble(ct).subtype = "octet-stream"
  <1> DEFINE octets == [ct EXCEPT !.type = "application", !.subtype = "octet-stream"]
  <1>1. octets.type = "application" /\ octets.subtype = "octet-stream" /\ TypeFields(octets)
    BY DEF TypeFields
  <1>2. NoAppledouble(ct) = octets \/ NoAppledouble(ct) = ct
    BY Zenon DEF NoAppledouble
  <1> HIDE DEF octets
  <1> QED
    BY <1>1, <1>2, Zenon

\* Nor does the boundary parseParameters missed.
LEMMA MissedBoundaryKeeps ==
  ASSUME NEW ct, TypeFields(ct), NEW junk
  PROVE  /\ MissedBoundary(ct, junk).type = ct.type
         /\ MissedBoundary(ct, junk).subtype = ct.subtype
  BY AddParameterKeeps, Zenon DEF MissedBoundary

\* A Content-Type is in error for lack of a type, a subtype or a boundary.
LEMMA ContentTypeParsed ==
  ASSUME NEW c
  PROVE  /\ ContentType_Parse(c).name = "Content-Type"
         /\ WellParsedMIME(ContentType_Parse(c))
  <1> DEFINE ct == TypeRead(c)
             missing == "" \in {ct.type, ct.subtype}
             val == IF missing THEN ct ELSE MissedBoundary(NoAppledouble(ct), c.junk)
             err == IF missing \/ Unbounded(val) THEN "bad" ELSE ""
  <1>1. ContentType_Parse(c) = Field("Content-Type", err, val)
    BY Zenon DEF ContentType_Parse
  <1>2. "" \in {val.type, val.subtype} <=> missing
    <2>1. CASE missing
      BY <2>1, Zenon
    <2>2. CASE ~missing
      <3>1. ct.type # "" /\ ct.subtype # ""
        BY <2>2, Zenon
      <3>2. val = MissedBoundary(NoAppledouble(ct), c.junk)
        BY <2>2, Zenon
      <3>3. TypeFields(NoAppledouble(ct))
        BY TypeReadTyped, NoAppledoubleTypes, Zenon
      <3>4. NoAppledouble(ct).type # "" /\ NoAppledouble(ct).subtype # ""
        BY <3>1, TypeReadTyped, NoAppledoubleTypes, Zenon
      <3>5. val.type # "" /\ val.subtype # ""
        BY <3>2, <3>3, <3>4, MissedBoundaryKeeps, Zenon
      <3> QED
        BY <2>2, <3>5, Zenon
    <2> QED
      BY <2>1, <2>2, Zenon
  <1>3. err # "" <=> missing \/ Unbounded(val)
    BY Zenon
  <1> HIDE DEF val, missing, err
  <1>4. /\ Field("Content-Type", err, val).name = "Content-Type"
        /\ Field("Content-Type", err, val).err = err
        /\ Field("Content-Type", err, val).val = val
    BY Zenon DEF Field
  <1>5. WellParsedMIME(Field("Content-Type", err, val))
           <=> (err # "" <=> \/ "" \in {val.type, val.subtype}
                             \/ val.type = "multipart" /\ parameter(val, "boundary") = "")
    BY <1>4, Zenon DEF WellParsedMIME
  <1>6. WellParsedMIME(Field("Content-Type", err, val))
    BY <1>2, <1>3, <1>5, Zenon DEF Unbounded
  <1> QED
    BY <1>1, <1>4, <1>6, Zenon

\* The encoding of a Content-Transfer-Encoding is its text, if it is valid.
LEMMA EncodingParsed ==
  ASSUME NEW t
  PROVE  /\ ContentTransferEncoding_Parse(t).name = "Content-Transfer-Encoding"
         /\ WellParsedMIME(ContentTransferEncoding_Parse(t))
  <1> DEFINE CTE == "Content-Transfer-Encoding"
  <1>1. \/ \E x : ContentTransferEncoding_Parse(t) = Field(CTE, "", [enc |-> x, base |-> x])
        \/ ContentTransferEncoding_Parse(t)
              = Field(CTE, "bad", [enc |-> "quoted-printable", base |-> ""])
    BY Zenon DEF ContentTransferEncoding_Parse
  <1>2. ASSUME NEW e, NEW x, NEW b, e = "" => b = x, e # "" => x = "quoted-printable" /\ b = ""
        PROVE  /\ Field(CTE, e, [enc |-> x, base |-> b]).name = CTE
               /\ WellParsedMIME(Field(CTE, e, [enc |-> x, base |-> b]))
    <2> DEFINE v == [enc |-> x, base |-> b]
               f == Field(CTE, e, v)
    <2>1. f.name = CTE /\ f.err = e /\ f.val = v /\ v.enc = x /\ v.base = b
      BY Zenon DEF Field
    <2>2. CTE # "Content-Type"
      OBVIOUS
    <2>3. WellParsedMIME(f) <=> f.val = [enc |-> IF f.err = "" THEN f.val.base ELSE "quoted-printable",
                                         base |-> IF f.err = "" THEN f.val.enc ELSE ""]
      BY <2>1, <2>2, Zenon DEF WellParsedMIME
    <2>4. (IF e = "" THEN b ELSE "quoted-printable") = x /\ (IF e = "" THEN x ELSE "") = b
      BY <1>2, Zenon
    <2>5. f.val = [enc |-> IF f.err = "" THEN f.val.base ELSE "quoted-printable",
                   base |-> IF f.err = "" THEN f.val.enc ELSE ""]
      BY <2>1, <2>4, Zenon
    <2> QED
      BY <2>1, <2>3, <2>5, Zenon
  <1>3. ASSUME NEW x, ContentTransferEncoding_Parse(t) = Field(CTE, "", [enc |-> x, base |-> x])
        PROVE  /\ ContentTransferEncoding_Parse(t).name = CTE
               /\ WellParsedMIME(ContentTransferEncoding_Parse(t))
    BY <1>2, <1>3, Zenon
  <1>4. CASE ContentTransferEncoding_Parse(t)
                = Field(CTE, "bad", [enc |-> "quoted-printable", base |-> ""])
    <2>1. "bad" # ""
      BY Zenon
    <2> QED
      BY <1>2, <1>4, <2>1, Zenon
  <1> QED
    BY <1>1, <1>3, <1>4, Zenon

\* The disposition is one of the two the code knows, or there is an error.
LEMMA DispositionParsed ==
  ASSUME NEW t, NEW params
  PROVE  /\ ContentDisposition_Parse(t, params).name = "Content-Disposition"
         /\ WellParsedMIME(ContentDisposition_Parse(t, params))
  <1> DEFINE CD == "Content-Disposition"
  <1>1. \E e, d, ps : /\ ContentDisposition_Parse(t, params) = Field(CD, e, [disp |-> d, params |-> ps])
                      /\ d \in (IF e = "" THEN {"inline", "attachment"} ELSE {""})
    <2>1. "bad" # ""
      BY Zenon
    <2>2. CASE t = ""
      BY <2>1, <2>2, Zenon DEF ContentDisposition_Parse
    <2>3. CASE t # ""
      BY <2>3, Zenon DEF ContentDisposition_Parse
    <2> QED
      BY <2>2, <2>3, Zenon
  <1>2. PICK e, d, ps : /\ ContentDisposition_Parse(t, params) = Field(CD, e, [disp |-> d, params |-> ps])
                        /\ d \in (IF e = "" THEN {"inline", "attachment"} ELSE {""})
    BY <1>1, Zenon
  <1> DEFINE v == [disp |-> d, params |-> ps]
             f == Field(CD, e, v)
  <1>3. f.name = CD /\ f.err = e /\ f.val = v /\ v.disp = d
    BY Zenon DEF Field
  <1>4. CD # "Content-Type" /\ CD # "Content-Transfer-Encoding"
    BY Zenon
  <1>5. WellParsedMIME(f)
    BY <1>2, <1>3, <1>4, Zenon DEF WellParsedMIME
  <1> QED
    BY <1>2, <1>3, <1>5, Zenon

\* A Date is valid if there is a time.
LEMMA DateParsed ==
  ASSUME NEW t
  PROVE  LET f == DateField_Parse(t)
         IN  f.name = "Date" /\ (f.err = "" <=> f.val # NoTime)
  <1>1. "bad" # ""
    BY Zenon
  <1> QED
    BY <1>1, Zenon DEF DateField_Parse, Field

\* The names of the three groups are distinct.
LEMMA GroupsDistinct ==
  /\ AddressNames \cap MIMENames = {}
  /\ "Date" \notin AddressNames /\ "Date" \notin MIMENames
  /\ "" \notin AddressNames /\ "" \notin MIMENames /\ "" # "Date"
  BY Zenon DEF AddressNames, addressFieldNames, MIMENames

\* Whatever the text of a field, the field its Parse function leaves has the
\* shape the repairs of header.go rely on: <> only where an error says so or in
\* Return-Path, one usable address in Return-Path, one or none in Sender and
\* Message-ID, a boundary in every valid multipart.
THEOREM FieldsWellParsed == FieldSpec => []ParsedShape
  <1>1. FieldInit => ParsedShape
    <2>1. ASSUME FieldInit PROVE result.name = ""
      BY <2>1, Zenon DEF FieldInit, Field
    <2> QED
      BY <2>1, GroupsDistinct, Zenon DEF ParsedShape, WellParsed
  <1>2. ParsedShape /\ [FieldNext]_fieldVars => ParsedShape'
    <2> SUFFICES ASSUME ParsedShape, [FieldNext]_fieldVars
                 PROVE  WellParsed(result')
      BY Zenon DEF ParsedShape
    <2>1. CASE ReadAddresses
      <3>1. PICK fn \in AddressNames, r \in AddressTexts : result' = AddressField_Parse(fn, r)
        BY <2>1, Zenon DEF ReadAddresses
      <3>2. Answer(r)
        BY <3>1, TextsAssumption, Zenon DEF Answer
      <3>3. result'.name = fn /\ WellParsedAddresses(result')
        BY <3>1, <3>2, AddressesParsed, Zenon
      <3> QED
        BY <3>1, <3>3, GroupsDistinct, Zenon DEF WellParsed
    <2>2. CASE ReadContentType
      <3>1. result'.name = "Content-Type" /\ WellParsedMIME(result')
        BY <2>2, ContentTypeParsed, Zenon DEF ReadContentType
      <3> QED
        BY <3>1, GroupsDistinct, Zenon DEF WellParsed, MIMENames
    <2>3. CASE ReadEncoding
      <3>1. result'.name = "Content-Transfer-Encoding" /\ WellParsedMIME(result')
        BY <2>3, EncodingParsed, Zenon DEF ReadEncoding
      <3> QED
        BY <3>1, GroupsDistinct, Zenon DEF WellParsed, MIMENames
    <2>4. CASE ReadDisposition
      <3>1. result'.name = "Content-Disposition" /\ WellParsedMIME(result')
        BY <2>4, DispositionParsed, Zenon DEF ReadDisposition
      <3> QED
        BY <3>1, GroupsDistinct, Zenon DEF WellParsed, MIMENames
    <2>5. CASE ReadDate
      <3>1. result'.name = "Date" /\ (result'.err = "" <=> result'.val # NoTime)
        BY <2>5, DateParsed, Zenon DEF ReadDate
      <3> QED
        BY <3>1, GroupsDistinct, Zenon DEF WellParsed
    <2>6. CASE UNCHANGED fieldVars
      BY <2>6, Zenon DEF ParsedShape, fieldVars
    <2> QED
      BY <2>1, <2>2, <2>3, <2>4, <2>5, <2>6, Zenon DEF FieldNext
  <1> QED
    BY <1>1, <1>2, PTL DEF FieldSpec

=============================================================================
