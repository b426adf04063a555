--------------------------- MODULE HeaderTheorems ---------------------------
(***************************************************************************)
(* What the primitives of Header do to a header, for every header, and then*)
(* what each rule of Repair, RepairWithBody, Simplify and parseBodypart    *)
(* does: which names it touches, what it removes, and that the shape of the*)
(* header survives. The proofs about the code that applies the rules rest  *)
(* on these facts.                                                         *)
(***************************************************************************)
EXTENDS PartHeader, HeaderSimplify, FiniteSetTheorems, WellFoundedInduction, NaturalsInduction, TLAPS

\* The positions of a header are finitely many naturals.
LEMMA PositionsFinite ==
  ASSUME NEW h, HeaderOK(h), NEW S \in SUBSET (DOMAIN h.Fields)
  PROVE  IsFiniteSet(S) /\ S \subseteq Nat /\ Cardinality(S) \in Nat
  <1>1. IsFiniteSet(1..h.last) /\ 1..h.last \subseteq Nat
    BY FS_Interval DEF HeaderOK
  <1>2. S \in SUBSET (1..h.last)
    BY Zenon DEF HeaderOK
  <1>3. IsFiniteSet(S)
    BY <1>1, <1>2, FS_Subset, Zenon
  <1> QED
    BY <1>1, <1>2, <1>3, FS_CardinalityType, Zenon

\* A nonempty finite set of positions has a first one, and NthOf finds it.
LEMMA FirstExists ==
  ASSUME NEW S \in SUBSET Nat, IsFiniteSet(S), S # {}
  PROVE  NthOf(S, 0) \in S
  <1> DEFINE R == OpToRel(<, Nat)
  <1>1. PICK p \in S : \A q \in S : ~(<<q, p>> \in R)
    <2>1. IsWellFoundedOn(R, Nat)
      BY NatLessThanWellFounded, Zenon
    <2> HIDE DEF R
    <2> QED
      BY <2>1, WFMin, Zenon
  <1>2. {q \in S : q < p} = {}
    BY <1>1, Zenon DEF OpToRel
  <1>3. Cardinality({q \in S : q < p}) = 0
    BY <1>2, FS_EmptySet, Zenon
  <1>4. Cardinality(S) > 0
    BY FS_EmptySet, FS_CardinalityType
  <1> QED
    BY <1>3, <1>4, Zenon DEF NthOf

\* It is the least one.
LEMMA FirstLeast ==
  ASSUME NEW S \in SUBSET Nat, IsFiniteSet(S), S # {}
  PROVE  NthOf(S, 0) \in S /\ \A q \in S : NthOf(S, 0) <= q
  <1> DEFINE p == NthOf(S, 0)
             below == {q \in S : q < p}
  <1>1. p \in S
    BY FirstExists, Zenon
  <1>2. Cardinality(below) = 0
    <2>1. \E q \in S : Cardinality({r \in S : r < q}) = 0
      <3> DEFINE R == OpToRel(<, Nat)
      <3>1. PICK q \in S : \A r \in S : ~(<<r, q>> \in R)
        <4>1. IsWellFoundedOn(R, Nat)
          BY NatLessThanWellFounded, Zenon
        <4> HIDE DEF R
        <4> QED
          BY <4>1, WFMin, Zenon
      <3>2. {r \in S : r < q} = {}
        BY <3>1, Zenon DEF OpToRel
      <3> QED
        BY <3>2, FS_EmptySet, Zenon
    <2>2. Cardinality(S) > 0
      BY FS_EmptySet, FS_CardinalityType
    <2> QED
      BY <2>1, <2>2, Zenon DEF NthOf
  <1>3. below \in SUBSET S
    BY Zenon
  <1>4. IsFiniteSet(below)
    BY <1>3, FS_Subset, Zenon
  <1>5. below = {}
    BY <1>2, <1>4, FS_EmptySet, Zenon
  <1>6. \A q \in S : ~(q < p) /\ q \in Nat
    BY <1>5, Zenon
  <1>7. p \in Nat
    BY <1>1, Zenon
  <1> HIDE DEF p
  <1>8. \A q \in S : p <= q
    BY <1>6, <1>7
  <1> QED
    BY <1>1, <1>8, Zenon DEF p

\* The least element is what NthOf finds.
LEMMA FirstIs ==
  ASSUME NEW S \in SUBSET Nat, IsFiniteSet(S), NEW p \in S, \A q \in S : p <= q
  PROVE  NthOf(S, 0) = p
  <1> DEFINE r == NthOf(S, 0)
  <1>1. r \in S /\ r <= p
    BY FirstLeast, Zenon
  <1> HIDE DEF r
  <1>2. r \in Nat /\ p \in Nat /\ p <= r
    BY <1>1, Zenon
  <1> QED
    BY <1>1, <1>2 DEF r

\* Every place below the cardinality is taken.
LEMMA NthExists ==
  ASSUME NEW S \in SUBSET Nat, IsFiniteSet(S), NEW n \in Nat, n < Cardinality(S)
  PROVE  NthOf(S, n) \in S /\ Cardinality({q \in S : q < NthOf(S, n)}) = n
  <1> DEFINE Below(p) == {q \in S : q < p}
             Bad == {m \in Nat : m < Cardinality(S) /\ \A p \in S : Cardinality(Below(p)) # m}
             R == OpToRel(<, Nat)
  <1>0. Cardinality(S) \in Nat
    BY FS_CardinalityType, Zenon
  <1>1. Bad = {}
    <2> SUFFICES ASSUME Bad # {} PROVE FALSE
      BY Zenon
    <2>1. PICK m \in Bad : \A k \in Bad : ~(<<k, m>> \in R)
      <3>1. IsWellFoundedOn(R, Nat)
        BY NatLessThanWellFounded, Zenon
      <3>2. Bad \in SUBSET Nat
        BY Zenon
      <3> HIDE DEF R, Bad
      <3> QED
        BY <3>1, <3>2, WFMin, Zenon
    <2>2. /\ m \in Nat /\ m < Cardinality(S)
          /\ \A p \in S : Cardinality(Below(p)) # m
          /\ \A k \in Nat : k < m => \E p \in S : Cardinality(Below(p)) = k
      <3>1. m \in Nat /\ m < Cardinality(S) /\ \A p \in S : Cardinality(Below(p)) # m
        BY Zenon
      <3>2. ASSUME NEW k \in Nat, k < m PROVE \E p \in S : Cardinality(Below(p)) = k
        <4>1. k \notin Bad
          BY <2>1, <3>1, <3>2, Zenon DEF OpToRel
        <4>2. k < Cardinality(S)
          BY <3>1, <3>2, <1>0
        <4> QED
          BY <4>1, <4>2, Zenon
      <3> QED
        BY <3>1, <3>2, Zenon
    <2>3. CASE m = 0
      <3>1. S # {}
        BY <2>2, <2>3, FS_EmptySet, Zenon
      <3>2. NthOf(S, 0) \in S /\ \A q \in S : NthOf(S, 0) <= q
        BY <3>1, FirstLeast, Zenon
      <3>3. Below(NthOf(S, 0)) = {}
        <4> DEFINE f == NthOf(S, 0)
        <4>1. f \in Nat /\ \A q \in S : f <= q /\ q \in Nat
          BY <3>2, Zenon
        <4> HIDE DEF f
        <4>2. \A q \in S : ~(q < f)
          BY <4>1
        <4> QED
          BY <4>2, Zenon DEF f
      <3> QED
        BY <2>2, <2>3, <3>2, <3>3, FS_EmptySet, Zenon
    <2>4. CASE m # 0
      <3>1. PICK p \in S : Cardinality(Below(p)) = m - 1
        BY <2>2, <2>4
      <3> DEFINE upTo == Below(p) \cup {p}
                 above == S \ upTo
      <3>2. Below(p) \in SUBSET S /\ p \notin Below(p)
        OBVIOUS
      <3>3. IsFiniteSet(Below(p))
        BY <3>2, FS_Subset, Zenon
      <3>4. IsFiniteSet(upTo) /\ Cardinality(upTo) = m
        <4> DEFINE B == Below(p)
        <4> HIDE DEF B
        <4>1. IsFiniteSet(B) /\ p \notin B /\ Cardinality(B) = m - 1
          BY <3>1, <3>2, <3>3, Zenon DEF B
        <4>2. IsFiniteSet(B \cup {p}) /\ Cardinality(B \cup {p}) = Cardinality(B) + 1
          BY <4>1, FS_AddElement, Zenon
        <4>3. Cardinality(B \cup {p}) = m
          BY <4>1, <4>2, <2>2
        <4> QED
          BY <4>2, <4>3, Zenon DEF B
      <3>5. above # {}
        <4>1. S # upTo
          BY <3>4, <2>2, Zenon
        <4> QED
          BY <4>1, <3>2, Zenon
      <3>6. above \in SUBSET S /\ above \in SUBSET Nat
        BY Zenon
      <3>7. IsFiniteSet(above)
        BY <3>6, FS_Subset, Zenon
      <3>8. PICK r \in above : \A q \in above : r <= q
        BY <3>5, <3>6, <3>7, FirstLeast, Zenon
      <3>9. Below(r) = upTo
        <4>1. r \in S /\ r # p /\ ~(r < p)
          BY <3>8, Zenon
        <4>2. p < r
          BY <4>1
        <4>3. \A q \in S : q < r => q \in upTo
          BY <3>8, <4>1
        <4>4. \A q \in upTo : q \in S /\ q < r
          BY <4>1, <4>2
        <4> QED
          BY <4>3, <4>4, Zenon
      <3> QED
        BY <2>2, <3>4, <3>8, <3>9, Zenon
    <2> QED
      BY <2>3, <2>4, Zenon
  <1>2. PICK p \in S : Cardinality({q \in S : q < p}) = n
    BY <1>1, <1>0, Zenon
  <1> QED
    BY <1>2, <1>0, Zenon DEF NthOf

\* field(h, fn, 0) is a field of that name if there is one.
LEMMA FieldFound ==
  ASSUME NEW h, HeaderOK(h), NEW fn, Named(h, fn) # {}
  PROVE  field(h, fn, 0) \in Named(h, fn)
  BY PositionsFinite, FirstExists, Zenon DEF field, Named

\* Taking fields away keeps the shape, the flags and the fields that stay.
LEMMA KeepProperties ==
  ASSUME NEW h, HeaderOK(h), NEW S \in SUBSET (DOMAIN h.Fields)
  PROVE  /\ HeaderOK(Keep(h, S))
         /\ DOMAIN Keep(h, S).Fields = S
         /\ \A p \in S : Keep(h, S).Fields[p] = h.Fields[p]
         /\ Keep(h, S).verified = h.verified /\ Keep(h, S).err = h.err
         /\ Keep(h, S).mode = h.mode /\ Keep(h, S).last = h.last
  BY DEF HeaderOK, Keep

\* Appending a field puts it at a new position and resets the verdict.
LEMMA AppendProperties1 ==
  ASSUME NEW h, HeaderOK(h), NEW f, f = [name |-> f.name, err |-> f.err, val |-> f.val]
  PROVE  /\ HeaderOK(Append1(h, f))
         /\ DOMAIN Append1(h, f).Fields = DOMAIN h.Fields \cup {h.last + 1}
         /\ h.last + 1 \notin DOMAIN h.Fields
         /\ \A p \in DOMAIN h.Fields : Append1(h, f).Fields[p] = h.Fields[p]
         /\ Append1(h, f).Fields[h.last + 1] = f
         /\ Append1(h, f).verified = FALSE
  <1> DEFINE n == h.last + 1
             G == [p \in DOMAIN h.Fields \cup {n} |-> IF p = n THEN f ELSE h.Fields[p]]
  <1>1. n \in Nat /\ n \notin DOMAIN h.Fields /\ DOMAIN h.Fields \cup {n} \subseteq 1..n
    BY DEF HeaderOK
  <1>2. /\ DOMAIN G = DOMAIN h.Fields \cup {n}
        /\ \A p \in DOMAIN h.Fields : G[p] = h.Fields[p]
        /\ G[n] = f
    BY <1>1, Zenon
  <1>3. h = [Fields |-> h.Fields, last |-> h.last, mode |-> h.mode,
            defaultType |-> h.defaultType, verified |-> h.verified, err |-> h.err]
    BY Zenon DEF HeaderOK
  <1>4. Append1(h, f) =
          [Fields |-> G, last |-> n, mode |-> h.mode,
           defaultType |-> h.defaultType, verified |-> FALSE, err |-> h.err]
    <2>1. Append1(h, f) = [h EXCEPT !.Fields = G, !.last = n, !.verified = FALSE]
      BY Zenon DEF Append1
    <2> HIDE DEF G, n
    <2> QED
      BY <1>3, <2>1, Zenon
  <1> HIDE DEF G
  <1>5. \A p \in DOMAIN G : G[p] = [name |-> G[p].name, err |-> G[p].err, val |-> G[p].val]
    BY <1>2, Zenon DEF HeaderOK
  <1>6. HeaderOK(Append1(h, f))
    BY <1>1, <1>2, <1>4, <1>5 DEF HeaderOK
  <1> QED
    BY <1>1, <1>2, <1>4, <1>6

\* Two headers with the same fields as far as verify can tell.
SameNamesAndErrors(h, k) ==
    /\ DOMAIN k.Fields = DOMAIN h.Fields
    /\ \A p \in DOMAIN h.Fields : /\ k.Fields[p].name = h.Fields[p].name
                                  /\ k.Fields[p].err = h.Fields[p].err

\* Merging a field into the first of its name changes neither the names nor
\* the errors in the header, nor the verdict.
LEMMA MergeProperties ==
  ASSUME NEW h, HeaderOK(h), NEW f, Named(h, f.name) # {}
  PROVE  /\ HeaderOK(MergeInto(h, f))
         /\ SameNamesAndErrors(h, MergeInto(h, f))
         /\ MergeInto(h, f).verified = h.verified
         /\ MergeInto(h, f).err = h.err
  <1> DEFINE q == field(h, f.name, 0)
             g == h.Fields[q]
             G == [h.Fields EXCEPT ![q] = [g EXCEPT !.val = @ \o f.val]]
  <1>1. q \in DOMAIN h.Fields
    BY FieldFound, Zenon DEF Named
  <1>2. MergeInto(h, f) = [h EXCEPT !.Fields = G]
    BY Zenon DEF MergeInto
  <1>3. g = [name |-> g.name, err |-> g.err, val |-> g.val]
    BY <1>1, Zenon DEF HeaderOK
  <1> HIDE DEF q
  <1>4. /\ DOMAIN G = DOMAIN h.Fields
        /\ \A p \in DOMAIN h.Fields : p # q => G[p] = h.Fields[p]
        /\ G[q] = [name |-> g.name, err |-> g.err, val |-> g.val \o f.val]
    BY <1>1, <1>3, Zenon
  <1> HIDE DEF G, g
  <1>5. \A p \in DOMAIN h.Fields :
            /\ G[p].name = h.Fields[p].name /\ G[p].err = h.Fields[p].err
            /\ G[p] = [name |-> G[p].name, err |-> G[p].err, val |-> G[p].val]
    BY <1>4 DEF HeaderOK, g
  <1>6. h = [Fields |-> h.Fields, last |-> h.last, mode |-> h.mode,
            defaultType |-> h.defaultType, verified |-> h.verified, err |-> h.err]
    BY Zenon DEF HeaderOK
  <1>7. MergeInto(h, f) =
          [Fields |-> G, last |-> h.last, mode |-> h.mode,
           defaultType |-> h.defaultType, verified |-> h.verified, err |-> h.err]
    BY <1>2, <1>6, Zenon
  <1> QED
    BY <1>4, <1>5, <1>7 DEF HeaderOK, SameNamesAndErrors

-----------------------------------------------------------------------------
(***************************************************************************)
(* Facts about headers that the primitives preserve                        *)
(***************************************************************************)

\* Removing fields never undoes what AddressFieldsMerged, AllFieldsValid and
\* NoneRepeated say.
LEMMA KeepPreserves ==
  ASSUME NEW h, HeaderOK(h), NEW S \in SUBSET (DOMAIN h.Fields)
  PROVE  /\ AddressFieldsMerged(h) => AddressFieldsMerged(Keep(h, S))
         /\ AllFieldsValid(h) => AllFieldsValid(Keep(h, S))
         /\ NoneRepeated(h) => NoneRepeated(Keep(h, S))
  <1> DEFINE k == Keep(h, S)
  <1>1. DOMAIN k.Fields = S /\ \A p \in S : k.Fields[p] = h.Fields[p]
    BY KeepProperties, Zenon
  <1> HIDE DEF k
  <1>2. AddressFieldsMerged(h) => AddressFieldsMerged(k)
    BY <1>1, Zenon DEF AddressFieldsMerged
  <1>3. AllFieldsValid(h) => AllFieldsValid(k)
    BY <1>1, Zenon DEF AllFieldsValid
  <1>4. ASSUME NEW fn
        PROVE  Occurrences(k, fn) \in Nat /\ Occurrences(h, fn) \in Nat
               /\ Occurrences(k, fn) <= Occurrences(h, fn)
    <2>1. Named(k, fn) \in SUBSET Named(h, fn) /\ Named(h, fn) \in SUBSET (DOMAIN h.Fields)
      BY <1>1, Zenon DEF Named
    <2>2. Named(k, fn) \in SUBSET (DOMAIN h.Fields)
      BY <2>1, Zenon
    <2>3. /\ IsFiniteSet(Named(h, fn)) /\ Cardinality(Named(h, fn)) \in Nat
          /\ Cardinality(Named(k, fn)) \in Nat
      BY <2>1, <2>2, PositionsFinite, Zenon
    <2> QED
      BY <2>1, <2>3, FS_Subset, Zenon DEF Occurrences
  <1>5. NoneRepeated(h) => NoneRepeated(k)
    <2> SUFFICES ASSUME NoneRepeated(h), NEW c \in conditions
                 PROVE  Occurrences(k, c.name) <= c.max
      BY Zenon DEF NoneRepeated
    <2>1. c.max = 1 /\ Occurrences(h, c.name) <= c.max
      BY DEF NoneRepeated, conditions
    <2> QED
      BY <2>1, <1>4
  <1> QED
    BY <1>2, <1>3, <1>5, Zenon DEF k

\* Merging changes none of the three.
LEMMA MergePreserves ==
  ASSUME NEW h, HeaderOK(h), NEW f, Named(h, f.name) # {}
  PROVE  /\ AddressFieldsMerged(h) => AddressFieldsMerged(MergeInto(h, f))
         /\ AllFieldsValid(h) => AllFieldsValid(MergeInto(h, f))
         /\ NoneRepeated(h) => NoneRepeated(MergeInto(h, f))
  <1> DEFINE k == MergeInto(h, f)
  <1>1. SameNamesAndErrors(h, k)
    BY MergeProperties, Zenon
  <1> HIDE DEF k
  <1>2. \A fn : Named(k, fn) = Named(h, fn)
    BY <1>1, Zenon DEF Named, SameNamesAndErrors
  <1> QED
    BY <1>1, <1>2, Zenon DEF SameNamesAndErrors, AddressFieldsMerged, AllFieldsValid, NoneRepeated, Occurrences, k

\* Adding a field never makes a second To, Cc, Bcc, Reply-To or From.
LEMMA AddKeepsMerged ==
  ASSUME NEW h, HeaderOK(h), AddressFieldsMerged(h),
         NEW f, f = [name |-> f.name, err |-> f.err, val |-> f.val]
  PROVE  HeaderOK(addField(h, f)) /\ AddressFieldsMerged(addField(h, f))
  <1>1. CASE f.name \in MergedNames /\ Named(h, f.name) # {}
    BY <1>1, MergeProperties, MergePreserves, Zenon DEF addField
  <1>2. CASE ~(f.name \in MergedNames /\ Named(h, f.name) # {})
    <2> DEFINE k == Append1(h, f)
    <2>1. /\ HeaderOK(k) /\ DOMAIN k.Fields = DOMAIN h.Fields \cup {h.last + 1}
          /\ \A p \in DOMAIN h.Fields : k.Fields[p] = h.Fields[p]
          /\ k.Fields[h.last + 1] = f
      BY AppendProperties1, Zenon
    <2> HIDE DEF k
    <2>2. AddressFieldsMerged(k)
      BY <1>2, <2>1, Zenon DEF AddressFieldsMerged, Named
    <2> QED
      BY <1>2, <2>1, <2>2, Zenon DEF addField, k
  <1> QED
    BY <1>1, <1>2, Zenon

\* verify changes nothing but the two flags.
LEMMA VerifyProperties ==
  ASSUME NEW h, HeaderOK(h)
  PROVE  /\ HeaderOK(verify(h))
         /\ verify(h).Fields = h.Fields /\ verify(h).verified
         /\ h.verified => verify(h) = h
         /\ ~h.verified => verify(h).err = ~Acceptable(h)
  <1>1. Acceptable(h) \in BOOLEAN
    BY Zenon DEF Acceptable
  <1> QED
    BY <1>1, Zenon DEF HeaderOK, verify

-----------------------------------------------------------------------------
(***************************************************************************)
(* What an operation leaves alone                                          *)
(***************************************************************************)
\* The fields named fn are the same in h and k.
SameFields(h, k, fn) ==
    /\ Named(k, fn) = Named(h, fn)
    /\ \A p \in Named(h, fn) : k.Fields[p] = h.Fields[p]

\* k is a header of the same kind as h, and differs from it only in fields
\* whose names are in N.
Frame(h, k, N) ==
    /\ HeaderOK(k) /\ k.mode = h.mode /\ k.defaultType = h.defaultType
    /\ \A fn : fn \notin N => SameFields(h, k, fn)

\* Doing nothing changes nothing.
LEMMA FrameSelf ==
  ASSUME NEW h, HeaderOK(h), NEW N
  PROVE  Frame(h, h, N)
  BY Zenon DEF Frame, SameFields

\* One operation after another.
LEMMA FrameChain ==
  ASSUME NEW h, NEW k, NEW l, NEW N, NEW M, Frame(h, k, N), Frame(k, l, M)
  PROVE  Frame(h, l, N \cup M)
  <1> SUFFICES ASSUME NEW fn, fn \notin N \cup M PROVE SameFields(h, l, fn)
    BY Zenon DEF Frame
  <1>1. SameFields(h, k, fn) /\ SameFields(k, l, fn)
    BY Zenon DEF Frame
  <1> QED
    BY <1>1, Zenon DEF SameFields

\* The bound on what changes may be relaxed.
LEMMA FrameMore ==
  ASSUME NEW h, NEW k, NEW N, NEW M, Frame(h, k, N), N \subseteq M
  PROVE  Frame(h, k, M)
  BY Zenon DEF Frame

\* All that can be asked about the fields of one name is the same.
LEMMA SameAnswers ==
  ASSUME NEW h, NEW k, NEW fn, HeaderOK(h), SameFields(h, k, fn)
  PROVE  /\ Occurrences(k, fn) = Occurrences(h, fn)
         /\ \A n : field(k, fn, n) = field(h, fn, n)
         /\ AddressesOf(k, fn) = AddressesOf(h, fn)
         /\ ValidOnes(k, fn) = ValidOnes(h, fn)
         /\ InvalidOnes(k, fn) = InvalidOnes(h, fn)
         /\ Named(h, fn) # {} => k.Fields[field(k, fn, 0)] = h.Fields[field(h, fn, 0)]
  <1>1. Named(k, fn) = Named(h, fn) /\ \A p \in Named(h, fn) : k.Fields[p] = h.Fields[p]
    BY Zenon DEF SameFields
  <1>2. Occurrences(k, fn) = Occurrences(h, fn) /\ \A n : field(k, fn, n) = field(h, fn, n)
    BY <1>1, Zenon DEF Occurrences, field
  <1>3. ValidOnes(k, fn) = ValidOnes(h, fn)
    BY <1>1, Zenon DEF ValidOnes
  <1>4. InvalidOnes(k, fn) = InvalidOnes(h, fn)
    BY <1>1, <1>3, Zenon DEF InvalidOnes
  <1>5. Named(h, fn) # {} => k.Fields[field(k, fn, 0)] = h.Fields[field(h, fn, 0)]
    <2> SUFFICES ASSUME Named(h, fn) # {}
                 PROVE  k.Fields[field(k, fn, 0)] = h.Fields[field(h, fn, 0)]
      BY Zenon
    <2>1. field(h, fn, 0) \in Named(h, fn)
      BY FieldFound, Zenon
    <2> QED
      BY <2>1, <1>1, <1>2, Zenon
  <1>6. AddressesOf(k, fn) = AddressesOf(h, fn)
    BY <1>1, <1>5, Zenon DEF AddressesOf
  <1> QED
    BY <1>2, <1>3, <1>4, <1>5, <1>6, Zenon

\* Removing the fields at positions T, all of names in N.
LEMMA WithoutFrame ==
  ASSUME NEW h, HeaderOK(h), NEW T, NEW N,
         \A p \in DOMAIN h.Fields : p \in T => h.Fields[p].name \in N
  PROVE  /\ Frame(h, Without(h, T), N)
         /\ \A fn : Named(Without(h, T), fn) = Named(h, fn) \ T
         /\ DOMAIN Without(h, T).Fields = DOMAIN h.Fields \ T
         /\ \A p \in DOMAIN h.Fields \ T : Without(h, T).Fields[p] = h.Fields[p]
         /\ Without(h, T).verified = h.verified /\ Without(h, T).err = h.err
         /\ AddressFieldsMerged(h) => AddressFieldsMerged(Without(h, T))
  <1> DEFINE S == DOMAIN h.Fields \ T
             k == Without(h, T)
  <1>0. k = Keep(h, S) /\ S \in SUBSET (DOMAIN h.Fields)
    BY Zenon DEF Without
  <1>1. /\ HeaderOK(k) /\ DOMAIN k.Fields = S
        /\ \A p \in S : k.Fields[p] = h.Fields[p]
        /\ k.verified = h.verified /\ k.err = h.err /\ k.mode = h.mode
        /\ AddressFieldsMerged(h) => AddressFieldsMerged(k)
    BY <1>0, KeepProperties, KeepPreserves
  <1>2. k.defaultType = h.defaultType
    BY <1>0, Zenon DEF Keep, HeaderOK
  <1> HIDE DEF k
  <1>3. \A fn : Named(k, fn) = Named(h, fn) \ T
    BY <1>1, Zenon DEF Named
  <1>4. \A fn : fn \notin N => SameFields(h, k, fn)
    BY <1>1, <1>3, Zenon DEF SameFields, Named
  <1> QED
    BY <1>1, <1>2, <1>3, <1>4, Zenon DEF Frame, k

\* RemoveAllNamed touches the fields of that name only, and leaves none.
LEMMA RemoveAllFrame ==
  ASSUME NEW h, HeaderOK(h), NEW fn
  PROVE  /\ Frame(h, RemoveAllNamed(h, fn), {fn})
         /\ Named(RemoveAllNamed(h, fn), fn) = {}
         /\ DOMAIN RemoveAllNamed(h, fn).Fields = DOMAIN h.Fields \ Named(h, fn)
         /\ \A p \in DOMAIN h.Fields \ Named(h, fn) :
               RemoveAllNamed(h, fn).Fields[p] = h.Fields[p]
         /\ RemoveAllNamed(h, fn).verified = h.verified
         /\ RemoveAllNamed(h, fn).err = h.err
         /\ AddressFieldsMerged(h) => AddressFieldsMerged(RemoveAllNamed(h, fn))
  <1> DEFINE T == Named(h, fn)
  <1>1. RemoveAllNamed(h, fn) = Without(h, T)
    BY Zenon DEF RemoveAllNamed, Without
  <1>2. \A p \in DOMAIN h.Fields : p \in T => h.Fields[p].name \in {fn}
    BY Zenon DEF Named
  <1>3. Named(h, fn) \ T = {}
    BY Zenon
  <1> HIDE DEF T
  <1>4. /\ Frame(h, Without(h, T), {fn})
        /\ Named(Without(h, T), fn) = Named(h, fn) \ T
        /\ DOMAIN Without(h, T).Fields = DOMAIN h.Fields \ T
        /\ \A p \in DOMAIN h.Fields \ T : Without(h, T).Fields[p] = h.Fields[p]
        /\ Without(h, T).verified = h.verified /\ Without(h, T).err = h.err
        /\ AddressFieldsMerged(h) => AddressFieldsMerged(Without(h, T))
    BY <1>2, WithoutFrame
  <1> QED
    BY <1>1, <1>3, <1>4, Zenon DEF T

\* Putting a field of the same name in the place of another.
LEMMA SetFieldFrame ==
  ASSUME NEW h, HeaderOK(h), NEW p \in DOMAIN h.Fields, NEW f,
         f = [name |-> f.name, err |-> f.err, val |-> f.val], f.name = h.Fields[p].name
  PROVE  /\ Frame(h, SetField(h, p, f), {f.name})
         /\ \A fn : Named(SetField(h, p, f), fn) = Named(h, fn)
         /\ DOMAIN SetField(h, p, f).Fields = DOMAIN h.Fields
         /\ SetField(h, p, f).Fields[p] = f
         /\ \A q \in DOMAIN h.Fields : q # p => SetField(h, p, f).Fields[q] = h.Fields[q]
         /\ SetField(h, p, f).verified = h.verified /\ SetField(h, p, f).err = h.err
         /\ AddressFieldsMerged(h) => AddressFieldsMerged(SetField(h, p, f))
  <1> DEFINE k == SetField(h, p, f)
             G == [h.Fields EXCEPT ![p] = f]
  <1>1. h = [Fields |-> h.Fields, last |-> h.last, mode |-> h.mode,
            defaultType |-> h.defaultType, verified |-> h.verified, err |-> h.err]
    BY Zenon DEF HeaderOK
  <1>2. k = [h EXCEPT !.Fields = G]
    BY Zenon DEF SetField
  <1>3. DOMAIN G = DOMAIN h.Fields /\ G[p] = f /\ \A q \in DOMAIN h.Fields : q # p => G[q] = h.Fields[q]
    BY Zenon
  <1> HIDE DEF G
  <1>4. k = [Fields |-> G, last |-> h.last, mode |-> h.mode,
            defaultType |-> h.defaultType, verified |-> h.verified, err |-> h.err]
    BY <1>1, <1>2, Zenon
  <1> HIDE DEF k
  <1>5. HeaderOK(k)
    BY <1>3, <1>4, Zenon DEF HeaderOK
  <1>6. \A fn : Named(k, fn) = Named(h, fn)
    BY <1>3, <1>4, Zenon DEF Named
  <1>7. AddressFieldsMerged(h) => AddressFieldsMerged(k)
    BY <1>3, <1>4 DEF AddressFieldsMerged
  <1>8. \A fn : fn \notin {f.name} => SameFields(h, k, fn)
    BY <1>3, <1>4, <1>6, Zenon DEF SameFields, Named
  <1> QED
    BY <1>3, <1>4, <1>5, <1>6, <1>7, <1>8 DEF Frame, k

\* Adding a field touches that name only, and there is one afterwards.
LEMMA AddFrame ==
  ASSUME NEW h, HeaderOK(h), NEW f, f = [name |-> f.name, err |-> f.err, val |-> f.val]
  PROVE  /\ Frame(h, addField(h, f), {f.name})
         /\ Named(addField(h, f), f.name) # {}
         /\ AddressFieldsMerged(h) => AddressFieldsMerged(addField(h, f))
  <1> DEFINE n == f.name
  <1>1. CASE n \in MergedNames /\ Named(h, n) # {}
    <2> DEFINE k == MergeInto(h, f)
               q == field(h, n, 0)
               G == [h.Fields EXCEPT ![q].val = @ \o f.val]
    <2>1. addField(h, f) = k
      BY <1>1, Zenon DEF addField
    <2>2. HeaderOK(k) /\ SameNamesAndErrors(h, k) /\ (AddressFieldsMerged(h) => AddressFieldsMerged(k))
      BY <1>1, MergeProperties, MergePreserves, Zenon
    <2>3. q \in Named(h, n)
      BY <1>1, FieldFound, Zenon
    <2>4. k = [h EXCEPT !.Fields = G]
      BY Zenon DEF MergeInto
    <2>5. \A p \in DOMAIN h.Fields : p # q => G[p] = h.Fields[p]
      BY Zenon
    <2> HIDE DEF G
    <2>6. k.Fields = G /\ k.mode = h.mode /\ k.defaultType = h.defaultType
      BY <2>4, Zenon DEF HeaderOK
    <2> HIDE DEF k, q
    <2>7. \A fn : Named(k, fn) = Named(h, fn)
      BY <2>2, Zenon DEF SameNamesAndErrors, Named
    <2>8. \A fn : fn # n => SameFields(h, k, fn)
      BY <2>3, <2>5, <2>6, <2>7, Zenon DEF SameFields, Named
    <2> QED
      BY <1>1, <2>1, <2>2, <2>6, <2>7, <2>8, Zenon DEF Frame
  <1>2. CASE ~(n \in MergedNames /\ Named(h, n) # {})
    <2> DEFINE k == Append1(h, f)
    <2>1. addField(h, f) = k
      BY <1>2, Zenon DEF addField
    <2>2. /\ HeaderOK(k) /\ DOMAIN k.Fields = DOMAIN h.Fields \cup {h.last + 1}
          /\ h.last + 1 \notin DOMAIN h.Fields
          /\ \A p \in DOMAIN h.Fields : k.Fields[p] = h.Fields[p]
          /\ k.Fields[h.last + 1] = f
      BY AppendProperties1, Zenon
    <2>3. k.mode = h.mode /\ k.defaultType = h.defaultType
      BY Zenon DEF Append1, HeaderOK
    <2>4. AddressFieldsMerged(h) => AddressFieldsMerged(k)
      BY <2>1, AddKeepsMerged, Zenon
    <2> HIDE DEF k
    <2>5. \A fn : fn # n => SameFields(h, k, fn)
      BY <2>2, Zenon DEF SameFields, Named
    <2>6. h.last + 1 \in Named(k, n)
      BY <2>2, Zenon DEF Named
    <2> QED
      BY <2>1, <2>2, <2>3, <2>4, <2>5, <2>6, Zenon DEF Frame
  <1> QED
    BY <1>1, <1>2, Zenon

\* A field that is not merged into another is the last one of its name, and
\* resets the verdict.
LEMMA AddAppends ==
  ASSUME NEW h, HeaderOK(h), NEW f, f = [name |-> f.name, err |-> f.err, val |-> f.val],
         f.name \notin MergedNames \/ Named(h, f.name) = {}
  PROVE  /\ h.last + 1 \notin DOMAIN h.Fields
         /\ DOMAIN addField(h, f).Fields = DOMAIN h.Fields \cup {h.last + 1}
         /\ Named(addField(h, f), f.name) = Named(h, f.name) \cup {h.last + 1}
         /\ addField(h, f).Fields[h.last + 1] = f
         /\ \A p \in DOMAIN h.Fields : addField(h, f).Fields[p] = h.Fields[p]
         /\ addField(h, f).verified = FALSE
  <1> DEFINE k == Append1(h, f)
  <1>1. addField(h, f) = k
    BY Zenon DEF addField
  <1>2. /\ DOMAIN k.Fields = DOMAIN h.Fields \cup {h.last + 1}
        /\ h.last + 1 \notin DOMAIN h.Fields
        /\ \A p \in DOMAIN h.Fields : k.Fields[p] = h.Fields[p]
        /\ k.Fields[h.last + 1] = f /\ k.verified = FALSE
    BY AppendProperties1, Zenon
  <1> HIDE DEF k
  <1>3. Named(k, f.name) = Named(h, f.name) \cup {h.last + 1}
    BY <1>2, Zenon DEF Named
  <1> QED
    BY <1>1, <1>2, <1>3, Zenon

\* With one field of a name, that is the one field finds.
LEMMA OnlyField ==
  ASSUME NEW h, HeaderOK(h), NEW fn, NEW p, Named(h, fn) = {p}
  PROVE  field(h, fn, 0) = p /\ AddressesOf(h, fn) = h.Fields[p].val /\ Occurrences(h, fn) = 1
  <1>1. field(h, fn, 0) \in Named(h, fn)
    BY FieldFound, Zenon
  <1>2. field(h, fn, 0) = p
    BY <1>1, Zenon
  <1> QED
    BY <1>2, FS_Singleton, Zenon DEF AddressesOf, Occurrences

\* The first field of a name is Nil exactly if there is none.
LEMMA NilField ==
  ASSUME NEW h, HeaderOK(h), NEW fn
  PROVE  field(h, fn, 0) # Nil <=> Named(h, fn) # {}
  <1>1. Named(h, fn) # {} => field(h, fn, 0) \in Named(h, fn)
    BY FieldFound, Zenon
  <1>2. \A p \in Named(h, fn) : p # Nil
    BY DEF Named, HeaderOK, Nil
  <1>3. Named(h, fn) = {} => field(h, fn, 0) = Nil
    <2>1. Cardinality({}) = 0
      BY FS_EmptySet, Zenon
    <2> QED
      BY <2>1 DEF field, NthOf, Nil
  <1> QED
    BY <1>1, <1>2, <1>3, Zenon

-----------------------------------------------------------------------------
(***************************************************************************)
(* Uniquified                                                              *)
(***************************************************************************)
\* Two members of a set of positions with equally many smaller ones are one.
LEMMA NthUnique ==
  ASSUME NEW S \in SUBSET Nat, IsFiniteSet(S), NEW p \in S, NEW q \in S,
         Cardinality({r \in S : r < p}) = Cardinality({r \in S : r < q})
  PROVE  p = q
  <1>1. ASSUME NEW x \in S, NEW y \in S, x < y,
               Cardinality({r \in S : r < x}) = Cardinality({r \in S : r < y})
        PROVE  FALSE
    <2> DEFINE B == {r \in S : r < x}
               C == {r \in S : r < y}
    <2>0. x \in Nat /\ y \in Nat /\ x < y /\ \A r \in S : r \in Nat
      BY <1>1, Zenon
    <2>a. \A r \in S : r < x => r < y
      BY <2>0
    <2>b. ~(x < x)
      BY <2>0
    <2>1. C \in SUBSET S /\ B \in SUBSET C /\ x \in C /\ x \notin B
      BY <2>0, <2>a, <2>b, Zenon
    <2>2. IsFiniteSet(C)
      BY <2>1, FS_Subset, Zenon
    <2>3. B # C
      BY <2>1, Zenon
    <2>4. Cardinality(B) = Cardinality(C)
      BY <1>1, Zenon
    <2> HIDE DEF B, C
    <2> QED
      BY <2>1, <2>2, <2>3, <2>4, FS_Subset, Zenon
  <1>2. p \in Nat /\ q \in Nat
    BY Zenon
  <1> QED
    BY <1>1, <1>2

\* Every member of the set is at some place.
LEMMA NthOnto ==
  ASSUME NEW S \in SUBSET Nat, IsFiniteSet(S), NEW p \in S
  PROVE  \E n \in Nat : n < Cardinality(S) /\ NthOf(S, n) = p
  <1> DEFINE B == {r \in S : r < p}
             n == Cardinality(B)
  <1>1. B \in SUBSET S /\ B # S
    OBVIOUS
  <1>2. IsFiniteSet(B)
    BY <1>1, FS_Subset, Zenon
  <1>3. n \in Nat /\ Cardinality(S) \in Nat
    BY <1>2, FS_CardinalityType, Zenon
  <1>4. n < Cardinality(S)
    <2> HIDE DEF B
    <2>1. n <= Cardinality(S) /\ n # Cardinality(S)
      BY <1>1, FS_Subset, Zenon
    <2> QED
      BY <2>1, <1>3
  <1>5. NthOf(S, n) \in S /\ Cardinality({r \in S : r < NthOf(S, n)}) = n
    <2> HIDE DEF n
    <2> QED
      BY <1>3, <1>4, NthExists, Zenon
  <1>6. NthOf(S, n) = p
    <2> DEFINE q == NthOf(S, n)
    <2>1. q \in S /\ Cardinality({r \in S : r < q}) = Cardinality({r \in S : r < p})
      BY <1>5, Zenon
    <2> HIDE DEF q
    <2> QED
      BY <2>1, NthUnique, Zenon DEF q
  <1> HIDE DEF n
  <1> QED
    BY <1>3, <1>4, <1>6, Zenon

\* The same mailboxes, and none that was not there before.
SameMailboxes(l, m) ==
    /\ UniquifyKeys(m) = UniquifyKeys(l)
    /\ (m = <<>>) <=> (l = <<>>)
    /\ \A i \in DOMAIN m : \E j \in DOMAIN l : m[i] = l[j]

\* Uniquify leaves a list of addresses of the same mailboxes, none of them
\* twice.
LEMMA UniquifiedProperties ==
  ASSUME NEW l \in Seq(Address)
  PROVE  /\ Uniquified(l) \in Seq(Address)
         /\ SameMailboxes(l, Uniquified(l))
         /\ \A m, n \in DOMAIN Uniquified(l) :
               UniquifyKey(Uniquified(l)[m]) = UniquifyKey(Uniquified(l)[n]) => m = n
  <1> DEFINE Copies(i) == {j \in DOMAIN l : UniquifyKey(l[j]) = UniquifyKey(l[i])}
             firsts == {i \in DOMAIN l : \A j \in Copies(i) : i <= j}
             named(i) == {j \in Copies(i) : l[j].name # ""}
             Best(i) == IF named(i) = {} THEN l[i] ELSE l[NthOf(named(i), 0)]
             N == Cardinality(firsts)
             u == [n \in 1..N |-> Best(NthOf(firsts, n - 1))]
  <1>0. u = Uniquified(l)
    BY Zenon DEF Uniquified
  <1>1. DOMAIN l = 1..Len(l) /\ Len(l) \in Nat
    OBVIOUS
  <1>2. IsFiniteSet(DOMAIN l) /\ DOMAIN l \in SUBSET Nat
    BY <1>1, FS_Interval
  <1>3. IsFiniteSet(firsts) /\ firsts \in SUBSET Nat /\ firsts \in SUBSET (DOMAIN l) /\ N \in Nat
    <2>1. firsts \in SUBSET (DOMAIN l)
      BY Zenon
    <2>2. IsFiniteSet(firsts)
      BY <2>1, <1>2, FS_Subset, Zenon
    <2> QED
      BY <2>1, <2>2, <1>2, FS_CardinalityType, Zenon
  <1>4. ASSUME NEW i \in DOMAIN l
        PROVE  \E j \in Copies(i) : Best(i) = l[j]
    <2>1. i \in Copies(i)
      BY Zenon
    <2>2. CASE named(i) # {}
      <3> DEFINE M == named(i)
      <3>1. M \in SUBSET (DOMAIN l)
        BY Zenon
      <3>2. IsFiniteSet(M) /\ M \in SUBSET Nat
        BY <3>1, <1>2, FS_Subset, Zenon
      <3> HIDE DEF M
      <3>3. NthOf(M, 0) \in M
        BY <3>2, <2>2, FirstExists, Zenon DEF M
      <3> QED
        BY <3>3, <2>2, Zenon DEF M
    <2> QED
      BY <2>1, <2>2, Zenon
  <1>5. ASSUME NEW i \in DOMAIN l
        PROVE  /\ Best(i) \in Address /\ UniquifyKey(Best(i)) = UniquifyKey(l[i])
               /\ \E j \in DOMAIN l : Best(i) = l[j]
    <2>1. PICK j \in Copies(i) : Best(i) = l[j]
      BY <1>4, Zenon
    <2>2. j \in DOMAIN l /\ UniquifyKey(l[j]) = UniquifyKey(l[i]) /\ l[j] \in Address
      OBVIOUS
    <2> QED
      BY <2>1, <2>2, Zenon
  <1>6. ASSUME NEW i \in DOMAIN l
        PROVE  \E f \in firsts : UniquifyKey(l[f]) = UniquifyKey(l[i])
    <2> DEFINE C == Copies(i)
    <2>1. C \in SUBSET (DOMAIN l) /\ C # {}
      BY Zenon
    <2>2. IsFiniteSet(C) /\ C \in SUBSET Nat
      BY <2>1, <1>2, FS_Subset, Zenon
    <2> HIDE DEF C
    <2>3. PICK f \in C : \A j \in C : f <= j
      BY <2>1, <2>2, FirstLeast, Zenon
    <2> QED
      BY <2>3, Zenon DEF C
  <1>7. \A i, j \in firsts : UniquifyKey(l[i]) = UniquifyKey(l[j]) => i = j
    <2> SUFFICES ASSUME NEW i \in firsts, NEW j \in firsts, UniquifyKey(l[i]) = UniquifyKey(l[j])
                 PROVE  i = j
      BY Zenon
    <2>1. i <= j /\ j <= i /\ i \in Nat /\ j \in Nat
      BY <1>2, Zenon
    <2> QED
      BY <2>1
  <1> DEFINE nth(n) == NthOf(firsts, n - 1)
  <1>8. \A n \in 1..N : nth(n) \in firsts /\ Cardinality({q \in firsts : q < nth(n)}) = n - 1
    <2> SUFFICES ASSUME NEW n \in 1..N
                 PROVE  nth(n) \in firsts /\ Cardinality({q \in firsts : q < nth(n)}) = n - 1
      BY Zenon
    <2>1. n - 1 \in Nat /\ n - 1 < N
      BY <1>3
    <2> HIDE DEF firsts
    <2> QED
      BY <1>3, <2>1, NthExists, Zenon
  <1>9. \A f \in firsts : \E n \in 1..N : nth(n) = f
    <2> SUFFICES ASSUME NEW f \in firsts PROVE \E n \in 1..N : nth(n) = f
      BY Zenon
    <2> HIDE DEF firsts
    <2>1. PICK k \in Nat : k < N /\ NthOf(firsts, k) = f
      BY <1>3, NthOnto, Zenon
    <2>2. k + 1 \in 1..N /\ (k + 1) - 1 = k
      BY <2>1, <1>3
    <2> QED
      BY <2>1, <2>2, Zenon
  <1>10. \A m, n \in 1..N : nth(m) = nth(n) => m = n
    <2> SUFFICES ASSUME NEW m \in 1..N, NEW n \in 1..N, nth(m) = nth(n) PROVE m = n
      BY Zenon
    <2>1. m - 1 = n - 1
      BY <1>8, Zenon
    <2> QED
      BY <2>1
  <1>11. DOMAIN u = 1..N /\ \A n \in 1..N : u[n] = Best(nth(n)) /\ nth(n) \in firsts /\ nth(n) \in DOMAIN l
    BY <1>8, Zenon
  <1> HIDE DEF Best, nth, u, Copies
  <1>12. \A n \in 1..N : /\ u[n] \in Address /\ UniquifyKey(u[n]) = UniquifyKey(l[nth(n)])
                         /\ \E j \in DOMAIN l : u[n] = l[j]
    BY <1>11, <1>5, Zenon
  <1>13. u = [n \in 1..N |-> u[n]]
    BY <1>11, Zenon DEF u
  <1>14. u \in Seq(Address)
    <2> HIDE DEF N
    <2> QED
      BY <1>3, <1>12, <1>13
  <1>15. UniquifyKeys(u) = UniquifyKeys(l)
    <2>1. ASSUME NEW i \in DOMAIN l PROVE \E n \in DOMAIN u : UniquifyKey(u[n]) = UniquifyKey(l[i])
      <3>1. PICK f \in firsts : UniquifyKey(l[f]) = UniquifyKey(l[i])
        BY <1>6, Zenon
      <3>2. PICK n \in 1..N : nth(n) = f
        BY <1>9, Zenon
      <3> QED
        BY <3>1, <3>2, <1>11, <1>12, Zenon
    <2>2. ASSUME NEW n \in DOMAIN u PROVE \E i \in DOMAIN l : UniquifyKey(u[n]) = UniquifyKey(l[i])
      BY <1>11, <1>12, Zenon
    <2> QED
      BY <2>1, <2>2 DEF UniquifyKeys
  <1>16. \A m, n \in DOMAIN u : UniquifyKey(u[m]) = UniquifyKey(u[n]) => m = n
    <2> SUFFICES ASSUME NEW m \in 1..N, NEW n \in 1..N, UniquifyKey(u[m]) = UniquifyKey(u[n])
                 PROVE  m = n
      BY <1>11, Zenon
    <2>1. UniquifyKey(l[nth(m)]) = UniquifyKey(l[nth(n)])
      BY <1>12, Zenon
    <2>2. nth(m) \in firsts /\ nth(n) \in firsts
      BY <1>11, Zenon
    <2> HIDE DEF firsts, N
    <2>3. nth(m) = nth(n)
      BY <2>1, <2>2, <1>7, Zenon
    <2> QED
      BY <2>3, <1>10, Zenon
  <1>17. \A i \in DOMAIN u : \E j \in DOMAIN l : u[i] = l[j]
    BY <1>11, <1>12, Zenon
  <1>18. (u = <<>>) <=> (l = <<>>)
    <2>1. (DOMAIN u = {}) <=> (DOMAIN l = {})
      BY <1>15, Zenon DEF UniquifyKeys
    <2> QED
      BY <2>1, <1>14
  <1> QED
    BY <1>0, <1>14, <1>15, <1>16, <1>17, <1>18, Zenon DEF SameMailboxes

-----------------------------------------------------------------------------
(***************************************************************************)
(* Simplify                                                                *)
(***************************************************************************)
\* Acceptable, without the table.
LEMMA AcceptableMeans ==
  ASSUME NEW h, HeaderOK(h)
  PROVE  Acceptable(h) <=> /\ AllFieldsValid(h) /\ NoneRepeated(h)
                           /\ h.mode = "RFC5322" =>
                                 Named(h, "From") # {} /\ Named(h, "Date") # {}
  <1>1. \A fn : Occurrences(h, fn) \in Nat /\ (Occurrences(h, fn) = 0 <=> Named(h, fn) = {})
    <2> SUFFICES ASSUME NEW fn
                 PROVE  Occurrences(h, fn) \in Nat /\ (Occurrences(h, fn) = 0 <=> Named(h, fn) = {})
      BY Zenon
    <2>1. Named(h, fn) \in SUBSET (DOMAIN h.Fields)
      BY Zenon DEF Named
    <2> QED
      BY <2>1, PositionsFinite, FS_EmptySet, Zenon DEF Occurrences
  <1>2. \A c \in conditions : /\ c.max = 1 /\ c.min \in {0, 1}
                              /\ c.min = 1 <=> c.m = "RFC5322" /\ c.name \in {"From", "Date"}
    BY DEF conditions
  <1>3. \A fn \in {"From", "Date"} : \E c \in conditions : c.name = fn /\ c.m = "RFC5322"
    <2> SUFFICES ASSUME NEW fn \in {"From", "Date"}
                 PROVE  [name |-> fn, min |-> 1, max |-> 1, m |-> "RFC5322"] \in conditions
      BY Zenon
    <2> QED
      BY Zenon DEF conditions
  <1> HIDE DEF conditions
  <1>4. ASSUME NEW c \in conditions
        PROVE  Breaks(h, c) <=> \/ Occurrences(h, c.name) > 1
                                \/ /\ c.m = h.mode /\ c.m = "RFC5322" /\ c.name \in {"From", "Date"}
                                   /\ Named(h, c.name) = {}
    <2>1. Occurrences(h, c.name) < c.min <=> c.min = 1 /\ Occurrences(h, c.name) = 0
      BY <1>1, <1>2
    <2> QED
      BY <1>1, <1>2, <2>1, Zenon DEF Breaks
  <1>5. NoneRepeated(h) <=> \A c \in conditions : ~(Occurrences(h, c.name) > 1)
    BY <1>1, <1>2 DEF NoneRepeated
  <1> QED
    BY <1>3, <1>4, <1>5, Zenon DEF Acceptable

\* A header whose fields have values of the right kind.
Sound(h) ==
    /\ HeaderOK(h) /\ AddressFieldsMerged(h)
    /\ \A p \in DOMAIN h.Fields :
          /\ h.Fields[p].name \in addressFieldNames => h.Fields[p].val \in Seq(Address)
          /\ h.Fields[p].name = "Content-Type" => TypeShape(h.Fields[p].val)

\* The fields that Simplify adds or rewrites.
Rewritten == {"Content-Type", "MIME-Version"}

\* What a rule of Simplify that makes k of h keeps: the verdict, the From and
\* the Date, and of the other fields those that are left, with the same
\* mailboxes in them.
Simpler(h, k) ==
    /\ Sound(k) /\ k.mode = h.mode /\ k.defaultType = h.defaultType
    /\ AllFieldsValid(h) => AllFieldsValid(k)
    /\ \A fn : Occurrences(h, fn) <= 1 => Occurrences(k, fn) <= 1
    /\ \A fn \in {"From", "Date"} : Named(k, fn) = Named(h, fn)
    /\ \A fn : fn \notin Rewritten => Named(k, fn) \subseteq Named(h, fn)
    /\ \A p \in DOMAIN k.Fields : k.Fields[p].name \notin Rewritten =>
          /\ k.Fields[p].err = h.Fields[p].err
          /\ IF k.Fields[p].name \in addressFieldNames
             THEN SameMailboxes(h.Fields[p].val, k.Fields[p].val)
             ELSE k.Fields[p].val = h.Fields[p].val
    /\ AddressesOf(h, "Message-ID") # <<>> => SameFields(h, k, "Message-ID")
    /\ k.verified => h.verified /\ k.err = h.err

\* One rule after another.
LEMMA SimplerChain ==
  ASSUME NEW h, NEW k, NEW l, HeaderOK(h), Simpler(h, k), Simpler(k, l)
  PROVE  Simpler(h, l)
  <1>1. \A fn : fn \notin Rewritten =>
            Named(l, fn) \subseteq Named(k, fn) /\ Named(k, fn) \subseteq Named(h, fn)
    BY Zenon DEF Simpler
  <1>2. ASSUME NEW p \in DOMAIN l.Fields, l.Fields[p].name \notin Rewritten
        PROVE  /\ l.Fields[p].err = h.Fields[p].err
               /\ IF l.Fields[p].name \in addressFieldNames
                  THEN SameMailboxes(h.Fields[p].val, l.Fields[p].val)
                  ELSE l.Fields[p].val = h.Fields[p].val
    <2> DEFINE fn == l.Fields[p].name
    <2>1. p \in Named(l, fn)
      BY Zenon DEF Named
    <2>2. p \in Named(k, fn)
      BY <1>1, <1>2, <2>1, Zenon
    <2>3. p \in DOMAIN k.Fields /\ k.Fields[p].name = fn
      BY <2>2, Zenon DEF Named
    <2>4. /\ l.Fields[p].err = k.Fields[p].err /\ k.Fields[p].err = h.Fields[p].err
          /\ fn \in addressFieldNames =>
                SameMailboxes(h.Fields[p].val, k.Fields[p].val) /\ SameMailboxes(k.Fields[p].val, l.Fields[p].val)
          /\ fn \notin addressFieldNames =>
                l.Fields[p].val = k.Fields[p].val /\ k.Fields[p].val = h.Fields[p].val
      BY <1>2, <2>3, Zenon DEF Simpler
    <2>5. fn \in addressFieldNames => SameMailboxes(h.Fields[p].val, l.Fields[p].val)
      BY <2>4, Zenon DEF SameMailboxes
    <2> QED
      BY <2>4, <2>5, Zenon
  <1>3. AddressesOf(h, "Message-ID") # <<>> => SameFields(h, l, "Message-ID")
    <2> SUFFICES ASSUME AddressesOf(h, "Message-ID") # <<>> PROVE SameFields(h, l, "Message-ID")
      BY Zenon
    <2>1. SameFields(h, k, "Message-ID")
      BY Zenon DEF Simpler
    <2>2. AddressesOf(k, "Message-ID") # <<>>
      BY <2>1, SameAnswers, Zenon
    <2>3. SameFields(k, l, "Message-ID")
      BY <2>2, Zenon DEF Simpler
    <2> QED
      BY <2>1, <2>3, Zenon DEF SameFields
  <1>4. \A fn : fn \notin Rewritten => Named(l, fn) \subseteq Named(h, fn)
    BY <1>1, Zenon
  <1>5. /\ Sound(l) /\ l.mode = h.mode /\ l.defaultType = h.defaultType
        /\ AllFieldsValid(h) => AllFieldsValid(l)
        /\ \A fn : Occurrences(h, fn) <= 1 => Occurrences(l, fn) <= 1
        /\ \A fn \in {"From", "Date"} : Named(l, fn) = Named(h, fn)
        /\ l.verified => h.verified /\ l.err = h.err
    BY Zenon DEF Simpler
  <1> QED
    BY <1>2, <1>3, <1>4, <1>5, Zenon DEF Simpler

\* Doing nothing.
LEMMA SimplerSelf ==
  ASSUME NEW h, Sound(h)
  PROVE  Simpler(h, h)
  BY Zenon DEF Simpler, SameMailboxes, SameFields

\* Removing fields other than From, Date and a Message-ID that has an address.
LEMMA SimplerWithout ==
  ASSUME NEW h, Sound(h), NEW T,
         \A fn \in {"From", "Date"} : Named(h, fn) \cap T = {},
         AddressesOf(h, "Message-ID") # <<>> => Named(h, "Message-ID") \cap T = {}
  PROVE  Simpler(h, Without(h, T))
  <1> DEFINE k == Without(h, T)
             N == {h.Fields[p].name : p \in DOMAIN h.Fields}
  <1>0. HeaderOK(h) /\ AddressFieldsMerged(h)
    BY Zenon DEF Sound
  <1>1. \A p \in DOMAIN h.Fields : p \in T => h.Fields[p].name \in N
    BY Zenon
  <1> HIDE DEF N
  <1>2. /\ Frame(h, k, N) /\ \A fn : Named(k, fn) = Named(h, fn) \ T
        /\ DOMAIN k.Fields = DOMAIN h.Fields \ T
        /\ \A p \in DOMAIN h.Fields \ T : k.Fields[p] = h.Fields[p]
        /\ k.verified = h.verified /\ k.err = h.err /\ AddressFieldsMerged(k)
    BY <1>0, <1>1, WithoutFrame, Zenon
  <1> HIDE DEF k
  <1>3. Sound(k) /\ k.mode = h.mode /\ k.defaultType = h.defaultType
    BY <1>2, Zenon DEF Sound, Frame
  <1>4. AllFieldsValid(h) => AllFieldsValid(k)
    BY <1>2, Zenon DEF AllFieldsValid
  <1>5. ASSUME NEW fn PROVE Occurrences(h, fn) <= 1 => Occurrences(k, fn) <= 1
    <2>1. Named(h, fn) \in SUBSET (DOMAIN h.Fields) /\ Named(k, fn) \in SUBSET Named(h, fn)
      BY <1>2, Zenon DEF Named
    <2>2. IsFiniteSet(Named(h, fn)) /\ Cardinality(Named(h, fn)) \in Nat
      BY <1>0, <2>1, PositionsFinite, Zenon
    <2>3. Cardinality(Named(k, fn)) <= Cardinality(Named(h, fn)) /\ IsFiniteSet(Named(k, fn))
      BY <2>1, <2>2, FS_Subset, Zenon
    <2>4. Cardinality(Named(k, fn)) \in Nat
      BY <2>3, FS_CardinalityType, Zenon
    <2> QED
      BY <2>2, <2>3, <2>4 DEF Occurrences
  <1>6. \A fn \in {"From", "Date"} : Named(k, fn) = Named(h, fn)
    BY <1>2, Zenon
  <1>7. AddressesOf(h, "Message-ID") # <<>> => SameFields(h, k, "Message-ID")
    BY <1>2, Zenon DEF SameFields, Named
  <1> QED
    BY <1>2, <1>3, <1>4, <1>5, <1>6, <1>7, Zenon DEF Simpler, SameMailboxes, k

\* Removing all fields of another name.
LEMMA SimplerRemoveAll ==
  ASSUME NEW h, Sound(h), NEW fn, fn \notin {"From", "Date", "Message-ID"}
  PROVE  Simpler(h, RemoveAllNamed(h, fn))
  <1> DEFINE T == Named(h, fn)
  <1>1. RemoveAllNamed(h, fn) = Without(h, T)
    BY Zenon DEF RemoveAllNamed, Without
  <1>2. \A m \in {"From", "Date", "Message-ID"} : Named(h, m) \cap T = {}
    BY Zenon DEF Named
  <1> HIDE DEF T
  <1> QED
    BY <1>1, <1>2, SimplerWithout, Zenon

\* Adding a Content-Type or MIME-Version where there is none.
LEMMA SimplerAdd ==
  ASSUME NEW h, Sound(h), NEW fn \in Rewritten, Named(h, fn) = {}, NEW val,
         fn = "Content-Type" => TypeShape(val)
  PROVE  Simpler(h, AddField(h, fn, val))
  <1> DEFINE f == [name |-> fn, err |-> "", val |-> val]
             k == addField(h, f)
             n == h.last + 1
  <1>0. HeaderOK(h) /\ AddressFieldsMerged(h) /\ AddField(h, fn, val) = k
    BY Zenon DEF Sound, AddField
  <1>1. f = [name |-> f.name, err |-> f.err, val |-> f.val] /\ f.name = fn /\ f.err = "" /\ f.val = val
    BY Zenon
  <1> HIDE DEF f
  <1>2. Frame(h, k, {fn}) /\ AddressFieldsMerged(k)
    BY <1>0, <1>1, AddFrame, Zenon
  <1>3. /\ n \notin DOMAIN h.Fields /\ DOMAIN k.Fields = DOMAIN h.Fields \cup {n}
        /\ Named(k, fn) = {n} /\ k.Fields[n] = f
        /\ \A p \in DOMAIN h.Fields : k.Fields[p] = h.Fields[p]
        /\ k.verified = FALSE
    <2>1. Named(h, f.name) = {}
      BY <1>1, Zenon
    <2>2. /\ n \notin DOMAIN h.Fields /\ DOMAIN k.Fields = DOMAIN h.Fields \cup {n}
          /\ Named(k, f.name) = Named(h, f.name) \cup {n} /\ k.Fields[n] = f
          /\ \A p \in DOMAIN h.Fields : k.Fields[p] = h.Fields[p]
          /\ k.verified = FALSE
      BY <1>0, <1>1, <2>1, AddAppends, Zenon
    <2> HIDE DEF k, n
    <2>3. Named(k, fn) = {n}
      BY <1>1, <2>1, <2>2, Zenon
    <2> QED
      BY <2>2, <2>3, Zenon
  <1> HIDE DEF k, n
  <1>4. Sound(k) /\ k.mode = h.mode /\ k.defaultType = h.defaultType
    <2>1. fn \notin addressFieldNames
      BY Zenon DEF Rewritten, addressFieldNames
    <2> QED
      BY <1>1, <1>2, <1>3, <2>1, Zenon DEF Sound, Frame
  <1>5. AllFieldsValid(h) => AllFieldsValid(k)
    BY <1>1, <1>3, Zenon DEF AllFieldsValid
  <1>6. ASSUME NEW m PROVE Occurrences(h, m) <= 1 => Occurrences(k, m) <= 1
    <2>1. m = fn => Occurrences(k, m) = 1
      BY <1>3, FS_Singleton, Zenon DEF Occurrences
    <2>2. m # fn => Occurrences(k, m) = Occurrences(h, m)
      BY <1>2, Zenon DEF Frame, SameFields, Occurrences
    <2> QED
      BY <2>1, <2>2
  <1>7. \A m : m \notin Rewritten => SameFields(h, k, m)
    BY <1>2, Zenon DEF Frame
  <1>8. \A p \in DOMAIN k.Fields : k.Fields[p].name \notin Rewritten =>
            p \in DOMAIN h.Fields /\ k.Fields[p] = h.Fields[p]
    BY <1>1, <1>3, Zenon
  <1>9. "Message-ID" \notin Rewritten /\ "From" \notin Rewritten /\ "Date" \notin Rewritten
    BY Zenon DEF Rewritten
  <1> QED
    BY <1>0, <1>3, <1>4, <1>5, <1>6, <1>7, <1>8, <1>9, Zenon DEF Simpler, SameMailboxes, SameFields

\* Changing the value of a Content-Type.
LEMMA SimplerSetType ==
  ASSUME NEW h, Sound(h), NEW p \in Named(h, "Content-Type"), NEW ct, TypeShape(ct)
  PROVE  Simpler(h, SetField(h, p, [h.Fields[p] EXCEPT !.val = ct]))
  <1> DEFINE f == [h.Fields[p] EXCEPT !.val = ct]
             k == SetField(h, p, f)
  <1>0. HeaderOK(h) /\ AddressFieldsMerged(h) /\ p \in DOMAIN h.Fields
        /\ h.Fields[p].name = "Content-Type"
    BY Zenon DEF Sound, Named
  <1>1. /\ f = [name |-> f.name, err |-> f.err, val |-> f.val] /\ f.name = h.Fields[p].name
        /\ f.err = h.Fields[p].err /\ f.val = ct
    BY <1>0 DEF HeaderOK
  <1> HIDE DEF f
  <1>2. /\ Frame(h, k, {f.name}) /\ \A fn : Named(k, fn) = Named(h, fn)
        /\ DOMAIN k.Fields = DOMAIN h.Fields /\ k.Fields[p] = f
        /\ \A q \in DOMAIN h.Fields : q # p => k.Fields[q] = h.Fields[q]
        /\ k.verified = h.verified /\ k.err = h.err /\ AddressFieldsMerged(k)
    BY <1>0, <1>1, SetFieldFrame
  <1> HIDE DEF k
  <1>3. Sound(k) /\ k.mode = h.mode /\ k.defaultType = h.defaultType
    <2>1. "Content-Type" \notin addressFieldNames
      BY Zenon DEF addressFieldNames
    <2> QED
      BY <1>0, <1>1, <1>2, <2>1, Zenon DEF Sound, Frame
  <1>4. AllFieldsValid(h) => AllFieldsValid(k)
    BY <1>0, <1>1, <1>2, Zenon DEF AllFieldsValid
  <1>5. \A q \in DOMAIN k.Fields : k.Fields[q].name \notin Rewritten =>
            q \in DOMAIN h.Fields /\ k.Fields[q] = h.Fields[q]
    BY <1>0, <1>1, <1>2, Zenon DEF Rewritten
  <1>6. SameFields(h, k, "Message-ID")
    BY <1>0, <1>1, <1>2, Zenon DEF Frame
  <1> QED
    BY <1>2, <1>3, <1>4, <1>5, <1>6, Zenon DEF Simpler, SameMailboxes, Occurrences, f, k

\* Apply Uniquify to all address fields.
LEMMA SimplerUniquify ==
  ASSUME NEW h, Sound(h)
  PROVE  /\ Simpler(h, UniquifyAll(h))
         /\ \A fn : Named(UniquifyAll(h), fn) = Named(h, fn)
         /\ \A fn : fn \notin addressFieldNames => SameFields(h, UniquifyAll(h), fn)
         /\ \A fn \in addressFieldNames : Named(h, fn) # {} =>
               UniquifyAll(h).Fields[field(h, fn, 0)].val = Uniquified(h.Fields[field(h, fn, 0)].val)
         /\ UniquifyAll(h).verified = h.verified /\ UniquifyAll(h).err = h.err
  <1> DEFINE D == DOMAIN h.Fields
             G == [p \in D |-> LET f == h.Fields[p]
                               IN  IF f.name \in addressFieldNames /\ p = field(h, f.name, 0)
                                   THEN [f EXCEPT !.val = Uniquified(@)] ELSE f]
             k == UniquifyAll(h)
  <1>0. HeaderOK(h) /\ AddressFieldsMerged(h)
    BY Zenon DEF Sound
  <1>1. h = [Fields |-> h.Fields, last |-> h.last, mode |-> h.mode,
            defaultType |-> h.defaultType, verified |-> h.verified, err |-> h.err]
    BY <1>0, Zenon DEF HeaderOK
  <1>2. DOMAIN G = D /\ k = [h EXCEPT !.Fields = G]
    BY Zenon DEF UniquifyAll
  <1>3. ASSUME NEW p \in D
        PROVE  /\ G[p] = [name |-> G[p].name, err |-> G[p].err, val |-> G[p].val]
               /\ G[p].name = h.Fields[p].name /\ G[p].err = h.Fields[p].err
               /\ G[p].name \notin addressFieldNames => G[p] = h.Fields[p]
               /\ G[p].name \in addressFieldNames /\ p = field(h, G[p].name, 0) =>
                     G[p].val = Uniquified(h.Fields[p].val)
               /\ G[p].name \in addressFieldNames /\ p # field(h, G[p].name, 0) =>
                     G[p].val = h.Fields[p].val
    <2> DEFINE f == h.Fields[p]
    <2>1. f = [name |-> f.name, err |-> f.err, val |-> f.val]
      BY <1>0, Zenon DEF HeaderOK
    <2>2. G[p] = IF f.name \in addressFieldNames /\ p = field(h, f.name, 0)
                 THEN [f EXCEPT !.val = Uniquified(@)] ELSE f
      BY Zenon
    <2> HIDE DEF G, f
    <2> QED
      BY <2>1, <2>2, Zenon DEF f
  <1> HIDE DEF G
  <1>4. k = [Fields |-> G, last |-> h.last, mode |-> h.mode,
            defaultType |-> h.defaultType, verified |-> h.verified, err |-> h.err]
    BY <1>1, <1>2, Zenon
  <1> HIDE DEF k
  <1>5. ASSUME NEW p \in D, G[p].name \in addressFieldNames
        PROVE  G[p].val \in Seq(Address) /\ SameMailboxes(h.Fields[p].val, G[p].val)
    <2>1. h.Fields[p].val \in Seq(Address)
      BY <1>3, <1>5, Zenon DEF Sound
    <2>2. G[p].val \in {h.Fields[p].val, Uniquified(h.Fields[p].val)}
      BY <1>3, <1>5, Zenon
    <2>3. SameMailboxes(h.Fields[p].val, h.Fields[p].val)
      BY Zenon DEF SameMailboxes
    <2> QED
      BY <2>1, <2>2, <2>3, UniquifiedProperties, Zenon
  <1>6. \A fn : Named(k, fn) = Named(h, fn)
    BY <1>2, <1>3, <1>4 DEF Named
  <1>7. HeaderOK(k)
    BY <1>0, <1>2, <1>3, <1>4, Zenon DEF HeaderOK
  <1>8. AddressFieldsMerged(k)
    BY <1>0, <1>2, <1>3, <1>4 DEF AddressFieldsMerged
  <1>9. Sound(k)
    <2>1. "Content-Type" \notin addressFieldNames
      BY Zenon DEF addressFieldNames
    <2>2. ASSUME NEW p \in D
          PROVE  /\ G[p].name \in addressFieldNames => G[p].val \in Seq(Address)
                 /\ G[p].name = "Content-Type" => TypeShape(G[p].val)
      BY <2>1, <1>3, <1>5, Zenon DEF Sound
    <2> QED
      BY <2>2, <1>2, <1>4, <1>7, <1>8, Zenon DEF Sound
  <1>10. \A fn : fn \notin addressFieldNames => SameFields(h, k, fn)
    BY <1>3, <1>4, <1>6, Zenon DEF SameFields, Named
  <1>11. AllFieldsValid(h) => AllFieldsValid(k)
    BY <1>2, <1>3, <1>4, Zenon DEF AllFieldsValid
  <1>12. \A p \in DOMAIN k.Fields :
          /\ k.Fields[p].err = h.Fields[p].err
          /\ IF k.Fields[p].name \in addressFieldNames
             THEN SameMailboxes(h.Fields[p].val, k.Fields[p].val)
             ELSE k.Fields[p].val = h.Fields[p].val
    BY <1>2, <1>3, <1>4, <1>5, Zenon
  <1>13. SameFields(h, k, "Message-ID")
    BY <1>10, Zenon DEF addressFieldNames
  <1>14. Simpler(h, k)
    BY <1>4, <1>6, <1>9, <1>11, <1>12, <1>13, Zenon DEF Simpler, Occurrences
  <1>15. \A fn \in addressFieldNames : Named(h, fn) # {} =>
            k.Fields[field(h, fn, 0)].val = Uniquified(h.Fields[field(h, fn, 0)].val)
    <2> SUFFICES ASSUME NEW fn \in addressFieldNames, Named(h, fn) # {}
                 PROVE  k.Fields[field(h, fn, 0)].val = Uniquified(h.Fields[field(h, fn, 0)].val)
      BY Zenon
    <2>1. field(h, fn, 0) \in D /\ h.Fields[field(h, fn, 0)].name = fn
      BY <1>0, FieldFound, Zenon DEF Named
    <2> QED
      BY <2>1, <1>3, <1>4, Zenon
  <1> QED
    BY <1>4, <1>6, <1>10, <1>14, <1>15 DEF k

\* Each rule of SimplifyMIME.
LEMMA SimplerMIMERules ==
  ASSUME NEW h, Sound(h), NEW hadCTE
  PROVE  /\ Simpler(h, DropEmptyDescription(h)) /\ Simpler(h, DropBinary(h))
         /\ Simpler(h, DropInline(h)) /\ Simpler(h, DefaultContentType(h, hadCTE))
         /\ Simpler(h, FixMIMEVersion(h, hadCTE)) /\ Simpler(h, DropCharset(h))
  <1>0. HeaderOK(h) /\ Simpler(h, h)
    BY SimplerSelf, Zenon DEF Sound
  <1>1. \A fn \in {"Content-Description", "Content-Transfer-Encoding", "Content-Disposition",
                   "Content-Type", "MIME-Version"} : Simpler(h, RemoveAllNamed(h, fn))
    BY SimplerRemoveAll, Zenon
  <1>2. Simpler(h, DropEmptyDescription(h))
    BY <1>0, <1>1, Zenon DEF DropEmptyDescription
  <1>3. Simpler(h, DropBinary(h))
    BY <1>0, <1>1, Zenon DEF DropBinary
  <1>4. Simpler(h, DropInline(h))
    BY <1>0, <1>1, Zenon DEF DropInline
  <1>5. Simpler(h, DefaultContentType(h, hadCTE))
    <2> DEFINE ct == [type |-> "message", subtype |-> "rfc822", params |-> [n \in {} |-> ""], raw |-> ""]
    <2>1. TypeShape(ct)
      BY Zenon DEF TypeShape
    <2>2. DefaultContentType(h, hadCTE) \in
             {h, RemoveAllNamed(h, "Content-Type")}
             \cup (IF Named(h, "Content-Type") = {} THEN {AddField(h, "Content-Type", ct)} ELSE {})
      BY Zenon DEF DefaultContentType, Has
    <2> HIDE DEF ct
    <2>3. Named(h, "Content-Type") = {} => Simpler(h, AddField(h, "Content-Type", ct))
      BY <2>1, SimplerAdd, Zenon DEF Rewritten
    <2> QED
      BY <1>0, <1>1, <2>2, <2>3, Zenon
  <1>6. Simpler(h, FixMIMEVersion(h, hadCTE))
    <2>1. Named(h, "MIME-Version") = {} => Simpler(h, AddField(h, "MIME-Version", "1.0"))
      BY SimplerAdd, Zenon DEF Rewritten
    <2>2. FixMIMEVersion(h, hadCTE) \in
             {h, RemoveAllNamed(h, "MIME-Version")}
             \cup (IF Named(h, "MIME-Version") = {} THEN {AddField(h, "MIME-Version", "1.0")} ELSE {})
      BY Zenon DEF FixMIMEVersion, Has
    <2> QED
      BY <1>0, <1>1, <2>1, <2>2, Zenon
  <1>7. Simpler(h, DropCharset(h))
    <2> DEFINE p == ContentType(h)
               ct == removeParameter(h.Fields[p].val, "charset")
               k == SetField(h, p, [h.Fields[p] EXCEPT !.val = ct])
    <2>1. ASSUME p # Nil PROVE Simpler(h, k)
      <3>1. Named(h, "Content-Type") # {}
        BY <1>0, <2>1, NilField, Zenon DEF ContentType
      <3>2. p \in Named(h, "Content-Type")
        BY <1>0, <3>1, FieldFound, Zenon DEF ContentType
      <3>3. TypeShape(h.Fields[p].val)
        BY <3>2, Zenon DEF Sound, Named
      <3>4. TypeShape(ct)
        BY <3>3 DEF TypeShape, removeParameter
      <3> HIDE DEF p, ct
      <3> QED
        BY <3>2, <3>4, SimplerSetType, Zenon
    <2>2. DropCharset(h) \in {h} \cup (IF p # Nil THEN {k} ELSE {})
      BY Zenon DEF DropCharset, IsType
    <2> HIDE DEF k, p
    <2> QED
      BY <1>0, <2>1, <2>2, Zenon
  <1> QED
    BY <1>2, <1>3, <1>4, <1>5, <1>6, <1>7, Zenon

\* Each rule of SimplifyAddresses.
LEMMA SimplerAddressRules ==
  ASSUME NEW h, Sound(h)
  PROVE  /\ Simpler(h, DropErrorsTo(h)) /\ Simpler(h, DropEmpty(h))
         /\ \A fn \in {"Reply-To", "Sender"} : Simpler(h, DropCopyOfFrom(h, fn))
  <1>0. Simpler(h, h)
    BY SimplerSelf, Zenon
  <1>1. \A fn \in {"Errors-To", "Reply-To", "Sender"} : Simpler(h, RemoveAllNamed(h, fn))
    BY SimplerRemoveAll, Zenon
  <1>2. Simpler(h, DropErrorsTo(h))
    BY <1>0, <1>1, Zenon DEF DropErrorsTo
  <1>3. \A fn \in {"Reply-To", "Sender"} : Simpler(h, DropCopyOfFrom(h, fn))
    BY <1>0, <1>1, Zenon DEF DropCopyOfFrom
  <1>4. Simpler(h, DropEmpty(h))
    <2> DEFINE T == {p \in DOMAIN h.Fields :
                       /\ h.Fields[p].name \in DroppedWhenEmpty
                       /\ AddressesOf(h, h.Fields[p].name) = <<>>}
    <2>1. DropEmpty(h) = Without(h, T)
      BY Zenon DEF DropEmpty
    <2>2. \A fn \in {"From", "Date"} : Named(h, fn) \cap T = {}
      BY Zenon DEF Named, DroppedWhenEmpty
    <2>3. AddressesOf(h, "Message-ID") # <<>> => Named(h, "Message-ID") \cap T = {}
      BY Zenon DEF Named
    <2> HIDE DEF T
    <2> QED
      BY <2>1, <2>2, <2>3, SimplerWithout, Zenon
  <1> QED
    BY <1>2, <1>3, <1>4, Zenon

\* verify leaves a sound header sound.
LEMMA VerifySound ==
  ASSUME NEW h, Sound(h)
  PROVE  Sound(verify(h)) /\ verify(h).mode = h.mode /\ verify(h).defaultType = h.defaultType
  <1>1. HeaderOK(h)
    BY Zenon DEF Sound
  <1>2. HeaderOK(verify(h)) /\ verify(h).Fields = h.Fields
    BY <1>1, VerifyProperties, Zenon
  <1>3. verify(h).mode = h.mode /\ verify(h).defaultType = h.defaultType
    BY <1>1, Zenon DEF verify, HeaderOK
  <1> QED
    BY <1>2, <1>3, Zenon DEF Sound, AddressFieldsMerged

\* The whole of Simplify, and that it stops at once if the header is invalid.
LEMMA SimplifyProperties ==
  ASSUME NEW h, Sound(h)
  PROVE  /\ ~Valid(h) => Simplify(h) = verify(h)
         /\ Simpler(verify(h), Simplify(h))
  <1> DEFINE v == verify(h)
             u == UniquifyAll(v)
             d == DropEmptyDescription(u)
             b == DropBinary(d)
             i == DropInline(b)
             had == Has(d, "Content-Transfer-Encoding")
             t == DefaultContentType(i, had)
             x == FixMIMEVersion(t, had)
             c == DropCharset(x)
             e == DropErrorsTo(c)
             r == DropCopyOfFrom(e, "Reply-To")
             s == DropCopyOfFrom(r, "Sender")
             z == DropEmpty(s)
  <1>1. Simplify(h) = IF Valid(h) THEN z ELSE v
    BY Zenon DEF Simplify, SimplifyAddresses, SimplifyMIME
  <1>2. Sound(v)
    BY VerifySound, Zenon
  <1>3. Simpler(v, v) /\ HeaderOK(v)
    BY <1>2, SimplerSelf, Zenon DEF Sound
  <1> HIDE DEF v
  <1>4. Simpler(v, u)
    BY <1>2, SimplerUniquify, Zenon
  <1> HIDE DEF u
  <1>5. Simpler(v, d)
    <2>1. Simpler(u, d)
      BY <1>4, SimplerMIMERules, Zenon DEF Simpler
    <2> QED
      BY <1>3, <1>4, <2>1, SimplerChain, Zenon
  <1> HIDE DEF d
  <1>6. Simpler(v, b)
    <2>1. Simpler(d, b)
      BY <1>5, SimplerMIMERules, Zenon DEF Simpler
    <2> QED
      BY <1>3, <1>5, <2>1, SimplerChain, Zenon
  <1> HIDE DEF b
  <1>7. Simpler(v, i)
    <2>1. Simpler(b, i)
      BY <1>6, SimplerMIMERules, Zenon DEF Simpler
    <2> QED
      BY <1>3, <1>6, <2>1, SimplerChain, Zenon
  <1> HIDE DEF i, had
  <1>8. Simpler(v, t)
    <2>1. Sound(i)
      BY <1>7, Zenon DEF Simpler
    <2>2. Simpler(i, t)
      BY <2>1, SimplerMIMERules, Zenon
    <2> QED
      BY <1>3, <1>7, <2>2, SimplerChain, Zenon
  <1> HIDE DEF t
  <1>9. Simpler(v, x)
    <2>1. Sound(t)
      BY <1>8, Zenon DEF Simpler
    <2>2. Simpler(t, x)
      BY <2>1, SimplerMIMERules, Zenon
    <2> QED
      BY <1>3, <1>8, <2>2, SimplerChain, Zenon
  <1> HIDE DEF x
  <1>10. Simpler(v, c)
    <2>1. Simpler(x, c)
      BY <1>9, SimplerMIMERules, Zenon DEF Simpler
    <2> QED
      BY <1>3, <1>9, <2>1, SimplerChain, Zenon
  <1> HIDE DEF c
  <1>11. Simpler(v, e)
    <2>1. Simpler(c, e)
      BY <1>10, SimplerAddressRules, Zenon DEF Simpler
    <2> QED
      BY <1>3, <1>10, <2>1, SimplerChain, Zenon
  <1> HIDE DEF e
  <1>12. Simpler(v, r)
    <2>1. Simpler(e, r)
      BY <1>11, SimplerAddressRules, Zenon DEF Simpler
    <2> QED
      BY <1>3, <1>11, <2>1, SimplerChain, Zenon
  <1> HIDE DEF r
  <1>13. Simpler(v, s)
    <2>1. Simpler(r, s)
      BY <1>12, SimplerAddressRules, Zenon DEF Simpler
    <2> QED
      BY <1>3, <1>12, <2>1, SimplerChain, Zenon
  <1> HIDE DEF s
  <1>14. Simpler(v, z)
    <2>1. Simpler(s, z)
      BY <1>13, SimplerAddressRules, Zenon DEF Simpler
    <2> QED
      BY <1>3, <1>13, <2>1, SimplerChain, Zenon
  <1> HIDE DEF z
  <1> QED
    BY <1>1, <1>3, <1>14, Zenon DEF v

\* The verdict in a header, if it is good, is right.
Trusted(h) == h.verified /\ ~h.err => Acceptable(h)

\* Simplify keeps an acceptable header acceptable, and the verdict right.
LEMMA SimplifyVerdict ==
  ASSUME NEW h, Sound(h), Trusted(h)
  PROVE  /\ Trusted(Simplify(h))
         /\ Acceptable(h) => Acceptable(Simplify(h))
         /\ Valid(h) => Acceptable(h)
         /\ (h.verified => h.err = ~Acceptable(h)) =>
               (Simplify(h).verified => Simplify(h).err = ~Acceptable(Simplify(h)))
  <1> DEFINE v == verify(h)
             k == Simplify(h)
  <1>0. HeaderOK(h)
    BY Zenon DEF Sound
  <1>1. Simpler(v, k) /\ (~Valid(h) => k = v) /\ HeaderOK(v) /\ HeaderOK(k)
    BY <1>0, SimplifyProperties, VerifyProperties, Zenon DEF Simpler, Sound
  <1>2. /\ v.Fields = h.Fields /\ v.mode = h.mode /\ v.verified
        /\ h.verified => v = h
        /\ ~h.verified => v.err = ~Acceptable(h)
        /\ Valid(h) = ~v.err
    BY <1>0, VerifySound, VerifyProperties, Zenon DEF Valid
  <1>3. Acceptable(v) <=> Acceptable(h)
    BY <1>2, Zenon DEF Acceptable, AllFieldsValid, Breaks, Occurrences, Named
  <1>4. Acceptable(v) => Acceptable(k)
    <2> HIDE DEF v, k
    <2>1. NoneRepeated(v) => NoneRepeated(k)
      <3>1. \A c \in conditions : c.max = 1
        BY DEF conditions
      <3> QED
        BY <1>1, <3>1, Zenon DEF NoneRepeated, Simpler
    <2> QED
      BY <1>1, <2>1, AcceptableMeans, Zenon DEF Simpler
  <1>5. v.err \in BOOLEAN /\ h.err \in BOOLEAN /\ h.verified \in BOOLEAN
    BY <1>0, <1>1, Zenon DEF HeaderOK
  <1>6. Valid(h) => Acceptable(h)
    BY <1>2, <1>5, Zenon DEF Trusted
  <1>7. k.verified => k.err = v.err
    BY <1>1, Zenon DEF Simpler
  <1> HIDE DEF k, v
  <1>8. Trusted(k)
    BY <1>1, <1>2, <1>3, <1>4, <1>5, <1>6, <1>7, Zenon DEF Trusted
  <1>9. ASSUME h.verified => h.err = ~Acceptable(h), k.verified
        PROVE  k.err = ~Acceptable(k)
    <2>1. v.err = ~Acceptable(h)
      BY <1>2, <1>9, Zenon
    <2>2. CASE Acceptable(h)
      <3>1. Acceptable(k) /\ ~v.err /\ k.err = v.err
        BY <2>1, <2>2, <1>3, <1>4, <1>7, <1>9, Zenon
      <3> QED
        BY <3>1, <1>5, Zenon
    <2>3. CASE ~Acceptable(h)
      <3>1. v.err /\ ~Valid(h)
        BY <2>1, <2>3, <1>2, Zenon
      <3>2. k = v
        BY <1>1, <3>1, Zenon
      <3> QED
        BY <3>1, <3>2, <2>3, <1>3, <1>5, Zenon
    <2> QED
      BY <2>2, <2>3, Zenon
  <1> QED
    BY <1>3, <1>4, <1>6, <1>8, <1>9, Zenon DEF k

-----------------------------------------------------------------------------
\* Adding a field of the right kind keeps a header sound, and a header that
\* is not verified unverified.
LEMMA AddSound ==
  ASSUME NEW h, Sound(h), NEW f, FieldShape(f)
  PROVE  /\ Sound(addField(h, f))
         /\ ~h.verified => ~addField(h, f).verified
  <1> DEFINE k == addField(h, f)
  <1>0. HeaderOK(h) /\ AddressFieldsMerged(h) /\ f = [name |-> f.name, err |-> f.err, val |-> f.val]
    BY Zenon DEF Sound, FieldShape
  <1>1. HeaderOK(k) /\ AddressFieldsMerged(k)
    BY <1>0, AddFrame, Zenon DEF Frame
  <1>2. CASE f.name \in MergedNames /\ Named(h, f.name) # {}
    <2> DEFINE q == field(h, f.name, 0)
               g == h.Fields[q]
    <2>1. k = MergeInto(h, f)
      BY <1>2, Zenon DEF addField
    <2>2. k.verified = h.verified /\ SameNamesAndErrors(h, k)
      BY <1>0, <1>2, <2>1, MergeProperties, Zenon
    <2>3. q \in DOMAIN h.Fields /\ g.name = f.name
      BY <1>0, <1>2, FieldFound, Zenon DEF Named
    <2>4. k.Fields[q].val = g.val \o f.val /\ \A p \in DOMAIN h.Fields : p # q => k.Fields[p] = h.Fields[p]
      <3> DEFINE G == [h.Fields EXCEPT ![q] = [g EXCEPT !.val = @ \o f.val]]
      <3>1. k = [h EXCEPT !.Fields = G]
        BY <2>1, Zenon DEF MergeInto
      <3>2. g = [name |-> g.name, err |-> g.err, val |-> g.val]
        BY <1>0, <2>3, Zenon DEF HeaderOK
      <3> HIDE DEF g, q, k
      <3>3. G[q].val = g.val \o f.val /\ \A p \in DOMAIN h.Fields : p # q => G[p] = h.Fields[p]
        BY <2>3, <3>2, Zenon
      <3> HIDE DEF G
      <3>4. k.Fields = G
        BY <1>0, <3>1, Zenon DEF HeaderOK
      <3> QED
        BY <3>3, <3>4, Zenon DEF q
    <2>5. f.name \in addressFieldNames /\ f.name # "Content-Type"
      BY <1>2, Zenon DEF MergedNames, addressFieldNames
    <2>6. g.val \in Seq(Address) /\ f.val \in Seq(Address)
      BY <2>3, <2>5, Zenon DEF Sound, FieldShape
    <2>7. g.val \o f.val \in Seq(Address)
      BY <2>6
    <2> HIDE DEF k, q, g
    <2>8. ASSUME NEW p \in DOMAIN k.Fields
          PROVE  /\ k.Fields[p].name \in addressFieldNames => k.Fields[p].val \in Seq(Address)
                 /\ k.Fields[p].name = "Content-Type" => TypeShape(k.Fields[p].val)
      <3>1. p \in DOMAIN h.Fields /\ k.Fields[p].name = h.Fields[p].name
        BY <2>2, Zenon DEF SameNamesAndErrors
      <3>2. CASE p = q
        BY <3>1, <3>2, <2>3, <2>4, <2>5, <2>7, Zenon DEF g
      <3>3. CASE p # q
        BY <3>1, <3>3, <2>4, Zenon DEF Sound
      <3> QED
        BY <3>2, <3>3, Zenon
    <2> QED
      BY <1>1, <2>2, <2>8, Zenon DEF Sound, k
  <1>3. CASE ~(f.name \in MergedNames /\ Named(h, f.name) # {})
    <2>1. /\ DOMAIN k.Fields = DOMAIN h.Fields \cup {h.last + 1}
          /\ k.Fields[h.last + 1] = f
          /\ \A p \in DOMAIN h.Fields : k.Fields[p] = h.Fields[p]
          /\ k.verified = FALSE
      BY <1>0, <1>3, AddAppends, Zenon
    <2> HIDE DEF k
    <2> QED
      BY <1>1, <2>1, Zenon DEF Sound, FieldShape, k
  <1> QED
    BY <1>2, <1>3, Zenon

-----------------------------------------------------------------------------
(***************************************************************************)
(* Headers with values of the right kind                                   *)
(***************************************************************************)
Shaped(k) ==
    /\ HeaderOK(k) /\ AddressFieldsMerged(k)
    /\ \A p \in DOMAIN k.Fields : ReadShape(k.Fields[p])

\* What an operation that makes l of k does: it touches the fields whose names
\* are in N only, and their values are of the right kind.
Changes(k, l, N) == Frame(k, l, N) /\ Shaped(l)

\* A field with another value, or another error.
LEMMA WithValue ==
  ASSUME NEW f, f = [name |-> f.name, err |-> f.err, val |-> f.val], NEW v, NEW e
  PROVE  /\ [f EXCEPT !.val = v] = [name |-> f.name, err |-> f.err, val |-> v]
         /\ [f EXCEPT !.err = e] = [name |-> f.name, err |-> e, val |-> f.val]
  <1> DEFINE n == f.name
             d == f.err
             u == f.val
  <1>1. f = [name |-> n, err |-> d, val |-> u]
    BY Zenon
  <1> HIDE DEF n, d, u
  <1>2. [f EXCEPT !.val = v] = [name |-> n, err |-> d, val |-> v]
    BY <1>1
  <1>3. [f EXCEPT !.err = e] = [name |-> n, err |-> e, val |-> u]
    BY <1>1
  <1> QED
    BY <1>2, <1>3, Zenon DEF n, d, u

\* A field with another value and no error.
LEMMA Mended ==
  ASSUME NEW f, f = [name |-> f.name, err |-> f.err, val |-> f.val], NEW v
  PROVE  /\ [f EXCEPT !.val = v, !.err = ""] = [name |-> f.name, err |-> "", val |-> v]
         /\ [f EXCEPT !.err = "", !.val = v] = [name |-> f.name, err |-> "", val |-> v]
  <1> DEFINE g == [f EXCEPT !.val = v]
             e == [f EXCEPT !.err = ""]
  <1>1. /\ [f EXCEPT !.val = v, !.err = ""] = [g EXCEPT !.err = ""]
        /\ [f EXCEPT !.err = "", !.val = v] = [e EXCEPT !.val = v]
    BY Zenon
  <1>2. /\ g = [name |-> f.name, err |-> f.err, val |-> v]
        /\ e = [name |-> f.name, err |-> "", val |-> f.val]
    BY WithValue, Zenon
  <1> HIDE DEF g, e
  <1>3. /\ [g EXCEPT !.err = ""] = [name |-> g.name, err |-> "", val |-> g.val]
        /\ [e EXCEPT !.val = v] = [name |-> e.name, err |-> e.err, val |-> v]
    BY <1>2, WithValue, Zenon
  <1> QED
    BY <1>1, <1>2, <1>3, Zenon

\* All that the proofs about Simplify ask for.
LEMMA ShapedSound ==
  ASSUME NEW k, Shaped(k)
  PROVE  Sound(k)
  BY Zenon DEF Shaped, Sound, ReadShape, FieldShape

\* Doing nothing.
LEMMA ChangesSelf ==
  ASSUME NEW k, Shaped(k), NEW N
  PROVE  Changes(k, k, N)
  BY FrameSelf, Zenon DEF Changes, Shaped

\* One operation after another.
LEMMA ChangesChain ==
  ASSUME NEW k, NEW l, NEW m, NEW N, NEW M, Changes(k, l, N), Changes(l, m, M)
  PROVE  Changes(k, m, N \cup M)
  BY FrameChain, Zenon DEF Changes

\* The bound on what changes may be relaxed.
LEMMA ChangesMore ==
  ASSUME NEW k, NEW l, NEW N, NEW M, Changes(k, l, N), N \subseteq M
  PROVE  Changes(k, l, M)
  BY FrameMore, Zenon DEF Changes

\* Removing fields with names in N.
LEMMA ChangesWithout ==
  ASSUME NEW k, Shaped(k), NEW T, NEW N,
         \A p \in DOMAIN k.Fields : p \in T => k.Fields[p].name \in N
  PROVE  Changes(k, Without(k, T), N)
  <1> DEFINE l == Without(k, T)
  <1>0. HeaderOK(k) /\ AddressFieldsMerged(k)
    BY Zenon DEF Shaped
  <1>1. /\ Frame(k, l, N) /\ AddressFieldsMerged(l)
        /\ DOMAIN l.Fields = DOMAIN k.Fields \ T
        /\ \A p \in DOMAIN k.Fields \ T : l.Fields[p] = k.Fields[p]
    BY <1>0, WithoutFrame, Zenon
  <1> HIDE DEF l
  <1>2. Shaped(l)
    BY <1>1, Zenon DEF Shaped, Frame
  <1> QED
    BY <1>1, <1>2, Zenon DEF Changes, l

\* Removing all fields of a name.
LEMMA ChangesRemoveAll ==
  ASSUME NEW k, Shaped(k), NEW fn
  PROVE  Changes(k, RemoveAllNamed(k, fn), {fn})
  <1>1. RemoveAllNamed(k, fn) = Without(k, Named(k, fn))
    BY Zenon DEF RemoveAllNamed, Without
  <1>2. \A p \in DOMAIN k.Fields : p \in Named(k, fn) => k.Fields[p].name \in {fn}
    BY Zenon DEF Named
  <1> QED
    BY <1>1, <1>2, ChangesWithout, Zenon

\* Adding a field.
LEMMA ChangesAdd ==
  ASSUME NEW k, Shaped(k), NEW f, ReadShape(f)
  PROVE  Changes(k, addField(k, f), {f.name})
  <1> DEFINE l == addField(k, f)
  <1>0. HeaderOK(k) /\ AddressFieldsMerged(k) /\ Sound(k) /\ FieldShape(f)
        /\ f = [name |-> f.name, err |-> f.err, val |-> f.val]
    BY ShapedSound, Zenon DEF Shaped, ReadShape, FieldShape
  <1>1. Frame(k, l, {f.name}) /\ AddressFieldsMerged(l)
    BY <1>0, AddFrame, Zenon
  <1>2. Sound(l)
    BY <1>0, AddSound, Zenon
  <1>3. ASSUME NEW p \in DOMAIN l.Fields, l.Fields[p].name \notin MergedNames
        PROVE  ReadShape(l.Fields[p])
    <2>1. CASE f.name \in MergedNames
      <3>1. SameFields(k, l, l.Fields[p].name)
        BY <1>1, <1>3, <2>1, Zenon DEF Frame
      <3>2. p \in DOMAIN k.Fields /\ l.Fields[p] = k.Fields[p]
        BY <3>1, Zenon DEF SameFields, Named
      <3> QED
        BY <3>2, Zenon DEF Shaped
    <2>2. CASE f.name \notin MergedNames
      <3>1. /\ DOMAIN l.Fields = DOMAIN k.Fields \cup {k.last + 1}
            /\ l.Fields[k.last + 1] = f
            /\ \A q \in DOMAIN k.Fields : l.Fields[q] = k.Fields[q]
        BY <1>0, <2>2, AddAppends, Zenon
      <3> HIDE DEF l
      <3> QED
        BY <3>1, Zenon DEF Shaped
    <2> QED
      BY <2>1, <2>2, Zenon
  <1> HIDE DEF l
  <1>4. ASSUME NEW p \in DOMAIN l.Fields, l.Fields[p].name \in MergedNames
        PROVE  ReadShape(l.Fields[p])
    <2>1. /\ l.Fields[p].name \in addressFieldNames /\ l.Fields[p].val \in Seq(Address)
          /\ l.Fields[p].name # "Content-Type" /\ l.Fields[p].name # "Received"
      BY <1>2, <1>4, Zenon DEF Sound, MergedNames, addressFieldNames
    <2>2. l.Fields[p] = [name |-> l.Fields[p].name, err |-> l.Fields[p].err, val |-> l.Fields[p].val]
      BY <1>2, Zenon DEF Sound, HeaderOK
    <2> QED
      BY <2>1, <2>2, Zenon DEF ReadShape, FieldShape
  <1> QED
    BY <1>1, <1>2, <1>3, <1>4, Zenon DEF Changes, Shaped, Sound, l

\* Putting a field of the same name in the place of another.
LEMMA ChangesSet ==
  ASSUME NEW k, Shaped(k), NEW p \in DOMAIN k.Fields, NEW f, ReadShape(f),
         f.name = k.Fields[p].name
  PROVE  Changes(k, SetField(k, p, f), {f.name})
  <1> DEFINE l == SetField(k, p, f)
  <1>0. /\ HeaderOK(k) /\ AddressFieldsMerged(k)
        /\ f = [name |-> f.name, err |-> f.err, val |-> f.val]
    BY Zenon DEF Shaped, ReadShape, FieldShape
  <1>1. /\ Frame(k, l, {f.name}) /\ AddressFieldsMerged(l)
        /\ DOMAIN l.Fields = DOMAIN k.Fields /\ l.Fields[p] = f
        /\ \A q \in DOMAIN k.Fields : q # p => l.Fields[q] = k.Fields[q]
    BY <1>0, SetFieldFrame
  <1> HIDE DEF l
  <1>2. Shaped(l)
    BY <1>1, Zenon DEF Shaped, Frame
  <1> QED
    BY <1>1, <1>2, Zenon DEF Changes, l


-----------------------------------------------------------------------------
(***************************************************************************)
(* The rules of Repair                                                     *)
(***************************************************************************)
\* An operation that only takes fields away, with names in N.
Removes(k, l, N) ==
    /\ Changes(k, l, N)
    /\ \A p \in DOMAIN l.Fields : p \in DOMAIN k.Fields /\ l.Fields[p] = k.Fields[p]
    /\ l.verified = k.verified /\ l.err = k.err

\* The fields of one name that are left.
LEMMA RemovesNamed ==
  ASSUME NEW k, NEW l, NEW N, Removes(k, l, N), NEW fn
  PROVE  /\ Named(l, fn) \subseteq Named(k, fn)
         /\ \A p \in Named(l, fn) : l.Fields[p] = k.Fields[p]
         /\ ValidOnes(l, fn) \subseteq ValidOnes(k, fn)
         /\ InvalidOnes(l, fn) \subseteq InvalidOnes(k, fn)
  BY Zenon DEF Removes, Named, ValidOnes, InvalidOnes

\* Doing nothing.
LEMMA RemovesSelf ==
  ASSUME NEW k, Shaped(k), NEW N
  PROVE  Removes(k, k, N)
  BY ChangesSelf, Zenon DEF Removes

\* The loops that remove fields.
LEMMA RemovesWithout ==
  ASSUME NEW k, Shaped(k), NEW T, NEW N,
         \A p \in DOMAIN k.Fields : p \in T => k.Fields[p].name \in N
  PROVE  /\ Removes(k, Without(k, T), N)
         /\ DOMAIN Without(k, T).Fields = DOMAIN k.Fields \ T
         /\ \A fn : Named(Without(k, T), fn) = Named(k, fn) \ T
  <1>1. HeaderOK(k)
    BY Zenon DEF Shaped
  <1>2. Changes(k, Without(k, T), N)
    BY ChangesWithout, Zenon
  <1>3. /\ DOMAIN Without(k, T).Fields = DOMAIN k.Fields \ T
        /\ \A p \in DOMAIN k.Fields \ T : Without(k, T).Fields[p] = k.Fields[p]
        /\ Without(k, T).verified = k.verified /\ Without(k, T).err = k.err
        /\ \A fn : Named(Without(k, T), fn) = Named(k, fn) \ T
    BY <1>1, WithoutFrame, Zenon
  <1> QED
    BY <1>2, <1>3, Zenon DEF Removes

\* RemoveAllNamed.
LEMMA RemovesAll ==
  ASSUME NEW k, Shaped(k), NEW fn
  PROVE  /\ Removes(k, RemoveAllNamed(k, fn), {fn})
         /\ Named(RemoveAllNamed(k, fn), fn) = {}
  <1>1. RemoveAllNamed(k, fn) = Without(k, Named(k, fn))
    BY Zenon DEF RemoveAllNamed, Without
  <1>2. \A p \in DOMAIN k.Fields : p \in Named(k, fn) => k.Fields[p].name \in {fn}
    BY Zenon DEF Named
  <1>3. /\ Removes(k, Without(k, Named(k, fn)), {fn})
        /\ \A gn : Named(Without(k, Named(k, fn)), gn) = Named(k, gn) \ Named(k, fn)
    BY <1>2, RemovesWithout, Zenon
  <1> QED
    BY <1>1, <1>3, Zenon

\* The names of the fields that may occur only once.
ConditionNames == {c.name : c \in conditions}

\* Of every name the first field stays, and one that goes has its text.
LEMMA RemoveIdenticalProperties ==
  ASSUME NEW k, Shaped(k), NEW o
  PROVE  LET l == RemoveIdentical(k, o)
         IN  /\ Removes(k, l, ConditionNames)
             /\ \A fn : Named(k, fn) # {} => field(k, fn, 0) \in Named(l, fn)
             /\ \A fn : \A p \in Named(k, fn) \ Named(l, fn) :
                   /\ p # field(k, fn, 0)
                   /\ rfc822(k.Fields[p]) = rfc822(k.Fields[field(k, fn, 0)])
             /\ \A c \in conditions : c.m = k.mode /\ o[c.name] > c.max =>
                   \A p \in Named(l, c.name) :
                       \/ p = field(k, c.name, 0)
                       \/ rfc822(k.Fields[p]) # rfc822(k.Fields[field(k, c.name, 0)])
  <1> DEFINE T == {p \in DOMAIN k.Fields :
                   \E c \in conditions :
                       /\ c.m = k.mode /\ o[c.name] > c.max
                       /\ k.Fields[p].name = c.name
                       /\ p # field(k, c.name, 0)
                       /\ rfc822(k.Fields[p]) = rfc822(k.Fields[field(k, c.name, 0)])}
             l == RemoveIdentical(k, o)
  <1>0. HeaderOK(k)
    BY Zenon DEF Shaped
  <1>1. l = Without(k, T)
    BY Zenon DEF RemoveIdentical
  <1>2. \A p \in DOMAIN k.Fields : p \in T => k.Fields[p].name \in ConditionNames
    BY Zenon DEF ConditionNames
  <1>3. \A p \in T : /\ p # field(k, k.Fields[p].name, 0)
                     /\ rfc822(k.Fields[p]) = rfc822(k.Fields[field(k, k.Fields[p].name, 0)])
    BY Zenon
  <1>4. \A c \in conditions : c.m = k.mode /\ o[c.name] > c.max =>
          \A p \in Named(k, c.name) \ T :
              \/ p = field(k, c.name, 0)
              \/ rfc822(k.Fields[p]) # rfc822(k.Fields[field(k, c.name, 0)])
    BY Zenon DEF Named
  <1> HIDE DEF T
  <1>5. Removes(k, l, ConditionNames) /\ \A fn : Named(l, fn) = Named(k, fn) \ T
    BY <1>1, <1>2, RemovesWithout
  <1> HIDE DEF l
  <1>6. ASSUME NEW fn, Named(k, fn) # {}
        PROVE  field(k, fn, 0) \in Named(l, fn)
    <2>1. field(k, fn, 0) \in Named(k, fn)
      BY <1>0, <1>6, FieldFound, Zenon
    <2>2. k.Fields[field(k, fn, 0)].name = fn
      BY <2>1, Zenon DEF Named
    <2>3. field(k, fn, 0) \notin T
      BY <1>3, <2>2, Zenon
    <2> QED
      BY <2>1, <2>3, <1>5, Zenon
  <1>7. \A fn : \A p \in Named(k, fn) \ Named(l, fn) :
                   /\ p # field(k, fn, 0)
                   /\ rfc822(k.Fields[p]) = rfc822(k.Fields[field(k, fn, 0)])
    <2>1. \A fn : \A p \in Named(k, fn) \ Named(l, fn) : p \in T /\ k.Fields[p].name = fn
      BY <1>5, Zenon DEF Named
    <2> QED
      BY <1>3, <2>1, Zenon
  <1>8. \A c \in conditions : c.m = k.mode /\ o[c.name] > c.max =>
          \A p \in Named(l, c.name) :
              \/ p = field(k, c.name, 0)
              \/ rfc822(k.Fields[p]) # rfc822(k.Fields[field(k, c.name, 0)])
    BY <1>4, <1>5, Zenon
  <1> QED
    BY <1>5, <1>6, <1>7, <1>8, Zenon DEF l

\* RemoveOptionless leaves a Content-Type if there was one.
LEMMA RemoveOptionlessProperties ==
  ASSUME NEW k, Shaped(k), NEW o
  PROVE  LET l == RemoveOptionless(k, o)
         IN  /\ Removes(k, l, {"Content-Type"})
             /\ Named(k, "Content-Type") # {} => Named(l, "Content-Type") # {}
  <1> DEFINE cts == Named(k, "Content-Type")
             good == {p \in cts : DOMAIN k.Fields[p].val.params # {}}
             l == RemoveOptionless(k, o)
  <1>1. l \in {k, Without(k, cts \ good)} /\ (l = k \/ Cardinality(good) = 1)
    BY Zenon DEF RemoveOptionless
  <1>2. Removes(k, k, {"Content-Type"})
    BY RemovesSelf, Zenon
  <1>3. CASE l = k
    BY <1>2, <1>3, Zenon
  <1>4. CASE l # k
    <2>1. l = Without(k, cts \ good) /\ Cardinality(good) = 1
      BY <1>1, <1>4, Zenon
    <2>2. good # {} /\ good \subseteq cts
      BY <2>1, FS_EmptySet
    <2>3. \A p \in DOMAIN k.Fields : p \in cts \ good => k.Fields[p].name \in {"Content-Type"}
      BY Zenon DEF Named
    <2> DEFINE T == cts \ good
    <2> HIDE DEF T
    <2>4. /\ Removes(k, Without(k, T), {"Content-Type"})
          /\ Named(Without(k, T), "Content-Type") = cts \ T
      <3>1. \A p \in DOMAIN k.Fields : p \in T => k.Fields[p].name \in {"Content-Type"}
        BY <2>3, Zenon DEF T
      <3> QED
        BY <3>1, RemovesWithout
    <2>5. cts \ T # {} /\ l = Without(k, T)
      BY <2>1, <2>2, Zenon DEF T
    <2> QED
      BY <2>4, <2>5, Zenon
  <1> QED
    BY <1>3, <1>4, Zenon

\* KeepFirstValid leaves the first valid field of a name if there is one.
LEMMA KeepFirstValidProperties ==
  ASSUME NEW k, Shaped(k), NEW o
  PROVE  LET l == KeepFirstValid(k, o)
             names == FirstOnlyNames \cup {"Content-Type"}
         IN  /\ Removes(k, l, names)
             /\ \A fn : Named(k, fn) # {} => Named(l, fn) # {}
             /\ \A fn : ValidOnes(k, fn) # {} => NthOf(ValidOnes(k, fn), 0) \in Named(l, fn)
             /\ \A fn : ~(o[fn] > 1) \/ ValidOnes(k, fn) = {} => Named(l, fn) = Named(k, fn)
             /\ \A fn \in FirstOnlyNames : o[fn] > 1 /\ ValidOnes(k, fn) # {} =>
                   Named(l, fn) = {NthOf(ValidOnes(k, fn), 0)}
             /\ o["Content-Type"] > 1 /\ ValidOnes(k, "Content-Type") # {} =>
                   InvalidOnes(l, "Content-Type") = {}
  <1> DEFINE l == KeepFirstValid(k, o)
             names == FirstOnlyNames \cup {"Content-Type"}
             Goes(p, fn) == /\ fn \in names
                            /\ o[fn] > 1 /\ ValidOnes(k, fn) # {}
                            /\ p # NthOf(ValidOnes(k, fn), 0)
                            /\ fn = "Content-Type" => p \in InvalidOnes(k, fn)
             T == {p \in DOMAIN k.Fields : Goes(p, k.Fields[p].name)}
  <1>0. HeaderOK(k)
    BY Zenon DEF Shaped
  <1>1. l = Without(k, T)
    BY Zenon DEF KeepFirstValid
  <1>2. \A p \in DOMAIN k.Fields : p \in T => k.Fields[p].name \in names
    BY Zenon
  <1>3. \A fn : \A p \in Named(k, fn) : p \in T <=> Goes(p, fn)
    BY Zenon DEF Named
  <1> HIDE DEF T
  <1>4. Removes(k, l, names) /\ \A fn : Named(l, fn) = Named(k, fn) \ T
    BY <1>1, <1>2, RemovesWithout
  <1> HIDE DEF l
  <1>5. ASSUME NEW fn, ValidOnes(k, fn) # {}
        PROVE  NthOf(ValidOnes(k, fn), 0) \in ValidOnes(k, fn)
    <2>1. ValidOnes(k, fn) \in SUBSET (DOMAIN k.Fields)
      BY Zenon DEF ValidOnes, Named
    <2> QED
      BY <2>1, <1>5, <1>0, PositionsFinite, FirstExists, Zenon
  <1>6. \A fn : ValidOnes(k, fn) \subseteq Named(k, fn)
    BY Zenon DEF ValidOnes
  <1>7. \A fn : ValidOnes(k, fn) # {} => NthOf(ValidOnes(k, fn), 0) \in Named(l, fn)
    BY <1>3, <1>4, <1>5, <1>6, Zenon
  <1>8. \A fn : ~(o[fn] > 1) \/ ValidOnes(k, fn) = {} => Named(l, fn) = Named(k, fn)
    BY <1>3, <1>4, Zenon
  <1>9. \A fn : Named(k, fn) # {} => Named(l, fn) # {}
    BY <1>7, <1>8, Zenon
  <1>10. ASSUME NEW fn \in FirstOnlyNames, o[fn] > 1, ValidOnes(k, fn) # {}
         PROVE  Named(l, fn) = {NthOf(ValidOnes(k, fn), 0)}
    <2>1. fn # "Content-Type" /\ fn \in names
      BY Zenon DEF FirstOnlyNames
    <2>2. \A p \in Named(l, fn) : p = NthOf(ValidOnes(k, fn), 0)
      BY <1>3, <1>4, <1>10, <2>1, Zenon
    <2> QED
      BY <1>7, <1>10, <2>2, Zenon
  <1>11. ASSUME o["Content-Type"] > 1, ValidOnes(k, "Content-Type") # {}
         PROVE  InvalidOnes(l, "Content-Type") = {}
    <2> DEFINE ct == "Content-Type"
    <2>1. \A p \in Named(l, ct) : p \in ValidOnes(k, ct)
      BY <1>3, <1>4, <1>5, <1>11, Zenon DEF InvalidOnes
    <2>2. \A p \in Named(l, ct) : l.Fields[p] = k.Fields[p]
      BY <1>4, Zenon DEF Removes, Named
    <2> QED
      BY <2>1, <2>2, Zenon DEF InvalidOnes, ValidOnes
  <1> QED
    BY <1>4, <1>7, <1>8, <1>9, <1>10, <1>11, Zenon DEF l


\* NoteMIMEVersion keeps the first MIME-Version, if with another value.
LEMMA NoteMIMEVersionProperties ==
  ASSUME NEW k, Shaped(k), NEW o
  PROVE  LET l == NoteMIMEVersion(k, o)
         IN  /\ Changes(k, l, {"MIME-Version"})
             /\ DOMAIN l.Fields \subseteq DOMAIN k.Fields
             /\ \A p \in DOMAIN l.Fields :
                   /\ l.Fields[p].name = k.Fields[p].name
                   /\ l.Fields[p] = k.Fields[p] \/ k.Fields[p].name = "MIME-Version"
             /\ Named(k, "MIME-Version") # {} => Named(l, "MIME-Version") # {}
             /\ l.verified = k.verified /\ l.err = k.err
  <1> DEFINE fn == "MIME-Version"
             l == NoteMIMEVersion(k, o)
             S == Named(k, fn)
             first == field(k, fn, 0)
             second == field(k, fn, 1)
  <1>0. HeaderOK(k)
    BY Zenon DEF Shaped
  <1>1. CASE second = Nil
    BY <1>1, ChangesSelf, Zenon DEF NoteMIMEVersion
  <1>2. CASE second # Nil
    <2> DEFINE m == RemoveAt(k, second)
               f == [k.Fields[first] EXCEPT !.val = "1.0 (note)"]
    <2>1. IsFiniteSet(S) /\ S \in SUBSET Nat /\ S \in SUBSET (DOMAIN k.Fields)
      <3>1. S \in SUBSET (DOMAIN k.Fields)
        BY Zenon DEF Named
      <3> QED
        BY <3>1, <1>0, PositionsFinite, Zenon
    <2>2. Cardinality(S) > 1 /\ Cardinality(S) \in Nat
      BY <2>1, <1>2, FS_CardinalityType, Zenon DEF field, NthOf, Nil
    <2>3. /\ first \in S /\ Cardinality({q \in S : q < first}) = 0
          /\ second \in S /\ Cardinality({q \in S : q < second}) = 1
      <3> HIDE DEF S
      <3>1. 0 < Cardinality(S) /\ 1 < Cardinality(S)
        BY <2>2
      <3> QED
        BY <2>1, <3>1, NthExists, Zenon DEF field, S
    <2>4. first # second
      BY <2>3
    <2>5. m = Without(k, {second})
      BY Zenon DEF RemoveAt, Without
    <2>6. \A p \in DOMAIN k.Fields : p \in {second} => k.Fields[p].name \in {fn}
      BY <2>3, Zenon DEF Named
    <2>7. Removes(k, m, {fn}) /\ DOMAIN m.Fields = DOMAIN k.Fields \ {second}
      BY <2>5, <2>6, RemovesWithout
    <2>8. first \in DOMAIN m.Fields /\ m.Fields[first] = k.Fields[first]
          /\ k.Fields[first].name = fn
      BY <2>3, <2>4, <2>7, Zenon DEF Named, Removes
    <2>9. f = [name |-> fn, err |-> k.Fields[first].err, val |-> "1.0 (note)"]
      <3> DEFINE g == k.Fields[first]
      <3>1. g = [name |-> g.name, err |-> g.err, val |-> g.val] /\ g.name = fn
        BY <2>3, <2>8, <1>0, Zenon DEF HeaderOK, Named
      <3> HIDE DEF g
      <3>2. [g EXCEPT !.val = "1.0 (note)"] = [name |-> fn, err |-> g.err, val |-> "1.0 (note)"]
        BY <3>1, WithValue, Zenon
      <3> QED
        BY <3>2, Zenon DEF g
    <2>10. l = SetField(m, first, f)
      BY <1>2, Zenon DEF NoteMIMEVersion
    <2>11. Shaped(m) /\ HeaderOK(m)
      BY <2>7, Zenon DEF Removes, Changes, Shaped
    <2> HIDE DEF m, f, first, second, l
    <2>12. ReadShape(f)
      BY <2>9, Zenon DEF ReadShape, FieldShape, AddressNames, addressFieldNames
    <2>13. f = [name |-> f.name, err |-> f.err, val |-> f.val] /\ f.name = fn
           /\ f.name = m.Fields[first].name
      BY <2>8, <2>9, Zenon
    <2>14. Changes(m, l, {fn})
      BY <2>8, <2>10, <2>11, <2>12, <2>13, ChangesSet, Zenon
    <2>15. /\ DOMAIN l.Fields = DOMAIN m.Fields /\ l.Fields[first] = f
           /\ \A q \in DOMAIN m.Fields : q # first => l.Fields[q] = m.Fields[q]
           /\ l.verified = m.verified /\ l.err = m.err
      BY <2>8, <2>10, <2>11, Zenon DEF SetField, HeaderOK
    <2>16. Changes(k, l, {fn})
      <3>1. Changes(k, m, {fn})
        BY <2>7, Zenon DEF Removes
      <3>2. Changes(k, l, {fn} \cup {fn})
        BY <3>1, <2>14, ChangesChain, Zenon
      <3> QED
        BY <3>2, ChangesMore, Zenon
    <2>17. \A p \in DOMAIN l.Fields :
                   /\ l.Fields[p].name = k.Fields[p].name
                   /\ l.Fields[p] = k.Fields[p] \/ k.Fields[p].name = fn
      BY <2>7, <2>8, <2>13, <2>15, Zenon DEF Removes
    <2>18. first \in Named(l, fn)
      BY <2>8, <2>13, <2>15, Zenon DEF Named
    <2> QED
      BY <2>7, <2>15, <2>16, <2>17, <2>18, Zenon DEF Removes, l
  <1> QED
    BY <1>1, <1>2, Zenon

\* The last two rules remove one kind of field.
LEMMA DropProperties ==
  ASSUME NEW k, Shaped(k), NEW o
  PROVE  /\ Removes(k, DropMultipartEncoding(k, o), {"Content-Transfer-Encoding"})
         /\ Removes(k, DropSender(k, o), {"Sender"})
  <1>1. Removes(k, RemoveAllNamed(k, "Content-Transfer-Encoding"), {"Content-Transfer-Encoding"})
        /\ Removes(k, RemoveAllNamed(k, "Sender"), {"Sender"})
    BY RemovesAll, Zenon
  <1>2. \A N : Removes(k, k, N)
    BY RemovesSelf, Zenon
  <1> QED
    BY <1>1, <1>2, Zenon DEF DropMultipartEncoding, DropSender


-----------------------------------------------------------------------------
(***************************************************************************)
(* The rules of RepairWithBody                                             *)
(***************************************************************************)
\* The members of a list at some positions are members of the list.
LEMMA AtProperties ==
  ASSUME NEW l \in Seq(Address), NEW S \in SUBSET (DOMAIN l)
  PROVE  /\ At(l, S) \in Seq(Address)
         /\ \A i \in DOMAIN At(l, S) : \E j \in S : At(l, S)[i] = l[j]
  <1> DEFINE n == Cardinality(S)
             m == At(l, S)
  <1>1. DOMAIN l = 1..Len(l) /\ Len(l) \in Nat /\ \A j \in DOMAIN l : l[j] \in Address
    OBVIOUS
  <1>2. IsFiniteSet(DOMAIN l) /\ S \in SUBSET Nat
    BY <1>1, FS_Interval
  <1>3. IsFiniteSet(S) /\ n \in Nat
    BY <1>2, FS_Subset, FS_CardinalityType, Zenon
  <1>4. DOMAIN m = 1..n /\ \A i \in 1..n : m[i] = l[NthOf(S, i - 1)]
    BY Zenon DEF At
  <1>5. ASSUME NEW i \in 1..n
        PROVE  NthOf(S, i - 1) \in S
    <2> HIDE DEF n
    <2>1. i - 1 \in Nat /\ i - 1 < n
      BY <1>3
    <2> QED
      BY <2>1, <1>2, <1>3, NthExists, Zenon DEF n
  <1>6. \A i \in DOMAIN m : \E j \in S : m[i] = l[j]
    BY <1>4, <1>5, Zenon
  <1> HIDE DEF m
  <1>7. m \in Seq(Address)
    <2>1. \A i \in 1..n : m[i] \in Address
      BY <1>1, <1>4, <1>5, Zenon
    <2>2. m = [i \in 1..n |-> m[i]]
      BY <1>4, Zenon DEF m, At
    <2> HIDE DEF n
    <2> QED
      BY <1>3, <2>1, <2>2
  <1> QED
    BY <1>6, <1>7, Zenon DEF m

\* A header has the From and the Content-Type that were counted.
Held(k, o) ==
    \A fn \in {"From", "Content-Type"} : o[fn] > 0 => Named(k, fn) # {}

\* AddField.
LEMMA AddsField ==
  ASSUME NEW k, Shaped(k), NEW fn, NEW v, ReadShape([name |-> fn, err |-> "", val |-> v])
  PROVE  /\ Changes(k, AddField(k, fn, v), {fn})
         /\ Named(AddField(k, fn, v), fn) # {}
  <1> DEFINE f == [name |-> fn, err |-> "", val |-> v]
  <1>1. AddField(k, fn, v) = addField(k, f)
    BY Zenon DEF AddField
  <1>2. f.name = fn /\ f = [name |-> f.name, err |-> f.err, val |-> f.val] /\ ReadShape(f)
    BY Zenon
  <1> HIDE DEF f
  <1>3. Changes(k, addField(k, f), {f.name})
    BY <1>2, ChangesAdd, Zenon
  <1>4. Named(addField(k, f), f.name) # {}
    BY <1>2, AddFrame, Zenon DEF Shaped
  <1> QED
    BY <1>1, <1>2, <1>3, <1>4, Zenon

\* from.Addresses = as; from.err = nil.
LEMMA SetFromProperties ==
  ASSUME NEW k, Shaped(k), Named(k, "From") # {}, NEW as \in Seq(Address)
  PROVE  LET l == SetFrom(k, as)
         IN  /\ Changes(k, l, {"From"})
             /\ Named(l, "From") = Named(k, "From")
             /\ First(l, "From").err = "" /\ First(l, "From").val = as
  <1> DEFINE p == field(k, "From", 0)
             f == [First(k, "From") EXCEPT !.val = as, !.err = ""]
             l == SetFrom(k, as)
  <1>0. HeaderOK(k)
    BY Zenon DEF Shaped
  <1>1. p \in DOMAIN k.Fields /\ k.Fields[p].name = "From"
    BY <1>0, FieldFound, Zenon DEF Named
  <1>2. f = [name |-> "From", err |-> "", val |-> as]
    <2> DEFINE g == k.Fields[p]
    <2>1. g = [name |-> g.name, err |-> g.err, val |-> g.val] /\ g.name = "From"
      BY <1>0, <1>1, Zenon DEF HeaderOK
    <2>2. f = [g EXCEPT !.val = as, !.err = ""]
      BY Zenon DEF First
    <2> HIDE DEF g, f
    <2>3. [g EXCEPT !.val = as, !.err = ""] = [name |-> g.name, err |-> "", val |-> as]
      BY <2>1, Mended, Zenon
    <2> QED
      BY <2>1, <2>2, <2>3, Zenon
  <1>3. l = SetField(k, p, f)
    BY Zenon DEF SetFrom
  <1> HIDE DEF f
  <1>4. ReadShape(f)
    BY <1>2, Zenon DEF ReadShape, FieldShape
  <1>5. f.name = "From"
    BY <1>2, Zenon
  <1> HIDE DEF p
  <1>6. Changes(k, l, {"From"})
    BY <1>1, <1>3, <1>4, <1>5, ChangesSet, Zenon
  <1>7. DOMAIN l.Fields = DOMAIN k.Fields /\ l.Fields[p] = f
        /\ \A q \in DOMAIN k.Fields : q # p => l.Fields[q] = k.Fields[q]
    BY <1>0, <1>1, <1>3, Zenon DEF SetField, HeaderOK
  <1> HIDE DEF l
  <1>8. Named(l, "From") = Named(k, "From")
    BY <1>1, <1>5, <1>7, Zenon DEF Named
  <1>9. field(l, "From", 0) = p
    BY <1>8, Zenon DEF field, p
  <1>10. f.err = "" /\ f.val = as
    BY <1>2, Zenon
  <1>11. First(l, "From").err = "" /\ First(l, "From").val = as
    BY <1>7, <1>9, <1>10, Zenon DEF First
  <1> QED
    BY <1>6, <1>8, <1>11, Zenon DEF l


\* An address of a field of k with one of these names.
InField(k, N, a) ==
    \E p \in DOMAIN k.Fields :
        k.Fields[p].name \in N /\ \E j \in DOMAIN k.Fields[p].val : a = k.Fields[p].val[j]

\* An address that stands in a field of k that names the sender, that is read
\* where such an address is written, or that the repairs make up.
Sourced(k, a) ==
    \/ InField(k, FromSources, a)
    \/ \E x : /\ InField(k, StandInNames, x)
              /\ \E j \in DOMAIN Reread(x).addrs : a = Reread(x).addrs[j]
    \/ a = UnknownAddress
    \/ a.lp = "postmaster" /\ AddressesOf(k, "Message-ID") # <<>>

\* A From that was written by the rules and read again.  Only the address of a
\* receipt replaces a From that is there.
ReadAgain(k, f) ==
    /\ k.mode = "RFC5322"
    /\ \E x \in Address :
          /\ InField(k, IF Named(k, "From") = {} THEN StandInNames ELSE ReceiptNames, x)
          /\ f = FromReread(x)

\* A rule that puts addresses of that kind into From, unless From is good.
FromRule(k, l) ==
    /\ Changes(k, l, {"From"})
    /\ \/ SameFields(k, l, "From")
       \/ /\ Named(k, "From") # {} => First(k, "From").err # ""
          /\ Named(l, "From") # {}
          /\ \A i \in DOMAIN First(l, "From").val : Sourced(k, First(l, "From").val[i])
          /\ \/ First(l, "From").err = "" /\ First(l, "From").val # <<>>
             \/ ReadAgain(k, First(l, "From"))

\* The first member of a list.
LEMMA FirstOfList ==
  ASSUME NEW l \in Seq(Address), l # <<>>
  PROVE  1 \in DOMAIN l /\ l[1] \in Address
  OBVIOUS

\* A list of one address.
LEMMA ListOfOne ==
  ASSUME NEW a \in Address
  PROVE  <<a>> \in Seq(Address) /\ <<a>> # <<>> /\ DOMAIN <<a>> = {1} /\ <<a>>[1] = a
  OBVIOUS

\* The addresses of the fields that name the sender.
LEMMA SourceAddresses ==
  ASSUME NEW k, Shaped(k), NEW fn \in FromSources
  PROVE  /\ \A p \in Named(k, fn) : /\ k.Fields[p].val \in Seq(Address)
                                    /\ \A i \in DOMAIN k.Fields[p].val :
                                          /\ Sourced(k, k.Fields[p].val[i])
                                          /\ InField(k, {fn}, k.Fields[p].val[i])
         /\ AddressesOf(k, fn) \in Seq(Address)
         /\ \A i \in DOMAIN AddressesOf(k, fn) : /\ Sourced(k, AddressesOf(k, fn)[i])
                                                 /\ InField(k, {fn}, AddressesOf(k, fn)[i])
         /\ Named(k, fn) # {} => First(k, fn) = k.Fields[field(k, fn, 0)]
                                 /\ AddressesOf(k, fn) = First(k, fn).val
                                 /\ field(k, fn, 0) \in Named(k, fn)
  <1>1. ASSUME NEW p \in Named(k, fn)
        PROVE  /\ k.Fields[p].val \in Seq(Address)
               /\ \A i \in DOMAIN k.Fields[p].val : /\ Sourced(k, k.Fields[p].val[i])
                                                     /\ InField(k, {fn}, k.Fields[p].val[i])
    <2>1. p \in DOMAIN k.Fields /\ k.Fields[p].name = fn
      BY Zenon DEF Named
    <2>2. k.Fields[p].val \in Seq(Address)
      BY <2>1, Zenon DEF Shaped, ReadShape, FromSources, StandInNames, ReceiptNames,
                         AddressNames, addressFieldNames
    <2> QED
      BY <2>1, <2>2, Zenon DEF Sourced, InField
  <1>2. Named(k, fn) # {} => First(k, fn) = k.Fields[field(k, fn, 0)]
                             /\ AddressesOf(k, fn) = First(k, fn).val
                             /\ field(k, fn, 0) \in Named(k, fn)
    BY FieldFound, Zenon DEF First, AddressesOf, Shaped
  <1>3. Named(k, fn) = {} => AddressesOf(k, fn) = <<>>
    BY Zenon DEF AddressesOf
  <1>4. CASE Named(k, fn) = {}
    BY <1>1, <1>2, <1>3, <1>4
  <1>5. CASE Named(k, fn) # {}
    BY <1>1, <1>2, <1>5, Zenon
  <1> QED
    BY <1>4, <1>5, Zenon

\* Adding a From where there is none.
LEMMA AddsFrom ==
  ASSUME NEW k, Shaped(k), Named(k, "From") = {}, NEW f, ReadShape(f), f.name = "From"
  PROVE  /\ Changes(k, addField(k, f), {"From"})
         /\ Named(addField(k, f), "From") # {}
         /\ First(addField(k, f), "From") = f
  <1> DEFINE l == addField(k, f)
             n == k.last + 1
  <1>0. HeaderOK(k) /\ f = [name |-> f.name, err |-> f.err, val |-> f.val]
    BY Zenon DEF Shaped, ReadShape, FieldShape
  <1>1. Changes(k, l, {f.name})
    BY ChangesAdd, Zenon
  <1> HIDE DEF l
  <1>a. Named(k, f.name) = {}
    BY Zenon
  <1>2. Named(l, f.name) = Named(k, f.name) \cup {n} /\ l.Fields[n] = f
    BY <1>0, <1>a, AddAppends, Zenon DEF l
  <1>3. Named(l, "From") = {n}
    BY <1>2, Zenon
  <1>4. HeaderOK(l)
    BY <1>1, Zenon DEF Changes, Shaped
  <1>5. field(l, "From", 0) = n
    BY <1>3, <1>4, OnlyField, Zenon
  <1>6. First(l, "From") = f
    BY <1>2, <1>5, Zenon DEF First
  <1> QED
    BY <1>1, <1>3, <1>6, Zenon DEF l

\* The same for a list of one address.
LEMMA AddsOneFrom ==
  ASSUME NEW k, Shaped(k), Named(k, "From") = {}, NEW a \in Address
  PROVE  /\ Changes(k, AddField(k, "From", <<a>>), {"From"})
         /\ Named(AddField(k, "From", <<a>>), "From") # {}
         /\ First(AddField(k, "From", <<a>>), "From").err = ""
         /\ First(AddField(k, "From", <<a>>), "From").val = <<a>>
  <1> DEFINE l == AddField(k, "From", <<a>>)
             f == [name |-> "From", err |-> "", val |-> <<a>>]
  <1>1. ReadShape(f)
    BY DEF ReadShape, FieldShape
  <1>2. l = addField(k, f) /\ f.name = "From"
    BY Zenon DEF AddField
  <1>3. f.err = "" /\ f.val = <<a>>
    BY Zenon
  <1> HIDE DEF f, l
  <1>4. Changes(k, l, {"From"}) /\ Named(l, "From") # {} /\ First(l, "From") = f
    BY <1>1, <1>2, AddsFrom, Zenon
  <1>5. First(l, "From").err = "" /\ First(l, "From").val = <<a>>
    BY <1>3, <1>4, Zenon
  <1> QED
    BY <1>4, <1>5, Zenon DEF l

\* That is a rule for From.
LEMMA AddFromRule ==
  ASSUME NEW k, Shaped(k), Named(k, "From") = {}, NEW a \in Address, Sourced(k, a)
  PROVE  FromRule(k, AddField(k, "From", <<a>>))
  <1> DEFINE l == AddField(k, "From", <<a>>)
  <1>1. /\ Changes(k, l, {"From"}) /\ Named(l, "From") # {}
        /\ First(l, "From").err = "" /\ First(l, "From").val = <<a>>
    BY AddsOneFrom, Zenon
  <1> HIDE DEF l
  <1>2. <<a>> # <<>> /\ \A i \in DOMAIN <<a>> : Sourced(k, <<a>>[i])
    BY ListOfOne, Zenon
  <1> QED
    BY <1>1, <1>2, Zenon DEF FromRule, l

\* What is read where an address was written.
LEMMA RereadProperties ==
  ASSUME NEW a \in Address
  PROVE  /\ FromReread(a).name = "From" /\ FromReread(a).val = Reread(a).addrs
         /\ ReadShape(FromReread(a))
         /\ FromReread(a).err = "" => ~Reread(a).err
  <1> DEFINE r == Reread(a)
             f == parseAddressList("From", r)
             g == parseMailboxList("From", r)
             l == FromReread(a)
  <1>1. r.addrs \in Seq(Address)
    BY RepairAssumption, Zenon
  <1>2. f.name = "From" /\ f.val = r.addrs /\ (f.err = "" => ~r.err)
    BY Zenon DEF parseAddressList, Field
  <1>3. PICK e : f = Field("From", e, r.addrs)
    BY Zenon DEF parseAddressList
  <1>4. \E d : g = Field("From", d, r.addrs) /\ (d = "" => ~r.err)
    <2>1. CASE g = f
      BY <1>2, <1>3, <2>1, Zenon DEF Field
    <2>2. CASE g # f
      BY <1>2, <2>2, Zenon DEF parseMailboxList
    <2> QED
      BY <2>1, <2>2, Zenon
  <1> HIDE DEF f, g
  <1>5. \E d : l = Field("From", d, r.addrs) /\ (d = "" => ~r.err)
    <2>1. l = outlawBounce(g)
      BY Zenon DEF FromReread, g
    <2>2. PICK d : g = Field("From", d, r.addrs) /\ (d = "" => ~r.err)
      BY <1>4, Zenon
    <2>3. g.name = "From" /\ g.val = r.addrs
      BY <2>2, Zenon DEF Field
    <2>4. CASE HasType(g.val, "Bounce")
      <3>1. l = Field("From", "No-bounce", r.addrs)
        BY <2>1, <2>3, <2>4, Zenon DEF outlawBounce
      <3>2. "No-bounce" # ""
        BY Zenon
      <3> QED
        BY <3>1, <3>2, Zenon
    <2>5. CASE ~HasType(g.val, "Bounce")
      <3>1. l = g
        BY <2>1, <2>5, Zenon DEF outlawBounce
      <3> QED
        BY <2>2, <3>1, Zenon
    <2> QED
      BY <2>4, <2>5, Zenon
  <1>6. PICK d : l = Field("From", d, r.addrs) /\ (d = "" => ~r.err)
    BY <1>5, Zenon
  <1> HIDE DEF l, r
  <1>7. l.name = "From" /\ l.val = r.addrs /\ l.err = d
    BY <1>6, Zenon DEF Field
  <1>8. l = [name |-> l.name, err |-> l.err, val |-> l.val]
    BY <1>6, <1>7, Zenon DEF Field
  <1>9. ReadShape(l)
    BY <1>1, <1>7, <1>8, Zenon DEF ReadShape, FieldShape
  <1> QED
    BY <1>6, <1>7, <1>9, Zenon DEF l, r

\* Where there is no From, one that is read again is a rule for From.
LEMMA AddReadFrom ==
  ASSUME NEW k, Shaped(k), k.mode = "RFC5322",
         Named(k, "From") # {} => First(k, "From").err # "",
         NEW m, Changes(k, m, {"From"}), Named(m, "From") = {},
         NEW x \in Address,
         InField(k, IF Named(k, "From") = {} THEN StandInNames ELSE ReceiptNames, x)
  PROVE  FromRule(k, AddFrom(m, x))
  <1> DEFINE l == AddFrom(m, x)
             f == FromReread(x)
  <1>1. f.name = "From" /\ f.val = Reread(x).addrs /\ ReadShape(f) /\ Shaped(m)
    BY RereadProperties, Zenon DEF Changes
  <1>2. l = addField(m, f)
    BY Zenon DEF AddFrom
  <1> HIDE DEF f, l
  <1>3. Changes(m, l, {"From"}) /\ Named(l, "From") # {} /\ First(l, "From") = f
    BY <1>1, <1>2, AddsFrom, Zenon
  <1>4. Changes(k, l, {"From"})
    <2>1. Changes(k, l, {"From"} \cup {"From"})
      BY <1>3, ChangesChain, Zenon
    <2> QED
      BY <2>1, ChangesMore, Zenon
  <1>5. InField(k, StandInNames, x)
    BY Zenon DEF InField, StandInNames
  <1>6. \A i \in DOMAIN f.val : Sourced(k, f.val[i])
    BY <1>1, <1>5, Zenon DEF Sourced
  <1>7. ReadAgain(k, f)
    BY Zenon DEF ReadAgain, f
  <1>8. FromRule(k, l)
    BY <1>3, <1>4, <1>6, <1>7, Zenon DEF FromRule
  <1> QED
    BY <1>8, Zenon DEF l

\* Changing the addresses of a bad From.
LEMMA SetFromRule ==
  ASSUME NEW k, Shaped(k), Named(k, "From") # {}, BadFrom(k),
         NEW as \in Seq(Address), as # <<>>, \A i \in DOMAIN as : Sourced(k, as[i])
  PROVE  FromRule(k, SetFrom(k, as))
  <1>1. /\ Changes(k, SetFrom(k, as), {"From"})
        /\ Named(SetFrom(k, as), "From") = Named(k, "From")
        /\ First(SetFrom(k, as), "From").err = "" /\ First(SetFrom(k, as), "From").val = as
    BY SetFromProperties, Zenon
  <1> QED
    BY <1>1, Zenon DEF FromRule, BadFrom

\* A rule that does nothing.
LEMMA NoFromRule ==
  ASSUME NEW k, Shaped(k)
  PROVE  FromRule(k, k)
  BY ChangesSelf, Zenon DEF FromRule, SameFields


\* The addresses that stand in for a missing From.
LEMMA StandInAddresses ==
  ASSUME NEW k, Shaped(k)
  PROVE  /\ StandIn(k) \in Seq(Address)
         /\ \A i \in DOMAIN StandIn(k) : InField(k, StandInNames, StandIn(k)[i])
  <1>1. PICK fn \in {"Return-Path", "Sender", "X-From-Line"} : StandIn(k) = AddressesOf(k, fn)
    BY Zenon DEF StandIn
  <1>2. fn \in FromSources /\ fn \in StandInNames
    BY Zenon DEF FromSources, StandInNames
  <1>3. StandIn(k) \in Seq(Address) /\ \A i \in DOMAIN StandIn(k) : InField(k, {fn}, StandIn(k)[i])
    BY <1>1, <1>2, SourceAddresses, Zenon
  <1> QED
    BY <1>2, <1>3, Zenon DEF InField

\* A missing From.
LEMMA AddMissingFromRule ==
  ASSUME NEW k, Shaped(k), NEW o, o["From"] = 0 => Named(k, "From") = {}
  PROVE  FromRule(k, AddMissingFrom(k, o))
  <1>1. CASE AddMissingFrom(k, o) = k
    BY <1>1, NoFromRule, Zenon
  <1>2. CASE AddMissingFrom(k, o) # k
    <2> DEFINE a == StandIn(k)[1]
    <2>1. /\ AddMissingFrom(k, o) = AddFrom(k, a)
          /\ StandIn(k) # <<>> /\ Named(k, "From") = {} /\ k.mode = "RFC5322"
      BY <1>2, Zenon DEF AddMissingFrom
    <2>2. a \in Address /\ InField(k, StandInNames, a)
      BY <2>1, StandInAddresses, FirstOfList, Zenon
    <2> HIDE DEF a
    <2>3. Changes(k, k, {"From"})
      BY ChangesSelf, Zenon
    <2>4. FromRule(k, AddFrom(k, a))
      BY <2>1, <2>2, <2>3, AddReadFrom, Zenon
    <2> QED
      BY <2>1, <2>4, Zenon
  <1> QED
    BY <1>1, <1>2, Zenon

\* The addresses for receipts.
LEMMA ReceiptProperties ==
  ASSUME NEW k, Shaped(k)
  PROVE  /\ \A p \in ReceiptQueries(k) : /\ k.Fields[p].val \in Seq(Address)
                                         /\ \A i \in DOMAIN k.Fields[p].val :
                                               InField(k, ReceiptNames, k.Fields[p].val[i])
         /\ ReceiptFields(k) # {} => /\ ReceiptAddress(k) \in Address
                                     /\ InField(k, ReceiptNames, ReceiptAddress(k))
  <1>1. ASSUME NEW p \in ReceiptQueries(k)
        PROVE  /\ k.Fields[p].val \in Seq(Address)
               /\ \A i \in DOMAIN k.Fields[p].val : InField(k, ReceiptNames, k.Fields[p].val[i])
    <2>1. p \in DOMAIN k.Fields /\ k.Fields[p].name \in ReceiptNames
      BY Zenon DEF ReceiptQueries
    <2>2. ReadShape(k.Fields[p])
      BY <2>1, Zenon DEF Shaped
    <2> QED
      BY <2>1, <2>2, Zenon DEF ReadShape, ReceiptNames, InField
  <1>2. ASSUME ReceiptFields(k) # {}
        PROVE  ReceiptAddress(k) \in Address /\ InField(k, ReceiptNames, ReceiptAddress(k))
    <2> DEFINE S == ReceiptFields(k)
               p == NthOf(S, 0)
    <2>1. S \in SUBSET (DOMAIN k.Fields) /\ HeaderOK(k)
      BY Zenon DEF ReceiptFields, ReceiptQueries, Shaped
    <2>2. p \in S
      BY <1>2, <2>1, PositionsFinite, FirstExists, Zenon
    <2>3. p \in ReceiptQueries(k) /\ k.Fields[p].val # <<>>
      BY <2>2, Zenon DEF ReceiptFields
    <2>4. ReceiptAddress(k) = k.Fields[p].val[1]
      BY Zenon DEF ReceiptAddress
    <2> HIDE DEF p
    <2> QED
      BY <1>1, <2>3, <2>4, FirstOfList, Zenon
  <1> QED
    BY <1>1, <1>2, Zenon

\* A From that is missing or empty and bad, and an address for receipts.
LEMMA UseReceiptAddressRule ==
  ASSUME NEW k, Shaped(k)
  PROVE  FromRule(k, UseReceiptAddress(k))
  <1>1. CASE UseReceiptAddress(k) = k
    BY <1>1, NoFromRule, Zenon
  <1>2. CASE UseReceiptAddress(k) # k
    <2> DEFINE m == RemoveAllNamed(k, "From")
               a == ReceiptAddress(k)
    <2>0. HeaderOK(k)
      BY Zenon DEF Shaped
    <2>1. /\ UseReceiptAddress(k) = AddFrom(m, a)
          /\ ReceiptFields(k) # {} /\ k.mode = "RFC5322"
          /\ field(k, "From", 0) = Nil \/ First(k, "From").err # ""
      BY <1>2, Zenon DEF UseReceiptAddress, NoFrom
    <2>2. Named(k, "From") # {} => First(k, "From").err # ""
      BY <2>0, <2>1, NilField, Zenon
    <2>3. a \in Address /\ InField(k, ReceiptNames, a)
      BY <2>1, ReceiptProperties, Zenon
    <2>4. Changes(k, m, {"From"}) /\ Named(m, "From") = {}
      BY RemovesAll, Zenon DEF Removes
    <2> HIDE DEF a, m
    <2>5. InField(k, IF Named(k, "From") = {} THEN StandInNames ELSE ReceiptNames, a)
      BY <2>3, Zenon DEF InField, StandInNames
    <2>6. FromRule(k, AddFrom(m, a))
      BY <2>1, <2>2, <2>3, <2>4, <2>5, AddReadFrom, Zenon
    <2> QED
      BY <2>1, <2>6, Zenon
  <1> QED
    BY <1>1, <1>2, Zenon

\* The good addresses of a bad From.
LEMMA SalvageFromRule ==
  ASSUME NEW k, Shaped(k), NEW o, Held(k, o)
  PROVE  FromRule(k, SalvageFrom(k, o))
  <1>1. CASE SalvageFrom(k, o) = k
    BY <1>1, NoFromRule, Zenon
  <1>2. CASE SalvageFrom(k, o) # k
    <2> DEFINE from == First(k, "From").val
               S == {i \in DOMAIN from : TypeOf(from[i]) = "Normal" /\ from[i].lp \in Sensible}
               as == At(from, S)
    <2>1. /\ SalvageFrom(k, o) = SetFrom(k, as)
          /\ o["From"] = 1 /\ BadFrom(k) /\ as # <<>>
      BY <1>2, Zenon DEF SalvageFrom
    <2>2. Named(k, "From") # {} /\ "From" \in FromSources
      BY <2>1 DEF Held, FromSources
    <2>3. from \in Seq(Address) /\ \A i \in DOMAIN from : Sourced(k, from[i])
      BY <2>2, SourceAddresses, Zenon
    <2>4. S \in SUBSET (DOMAIN from)
      BY Zenon
    <2> HIDE DEF from, S
    <2>5. as \in Seq(Address) /\ \A i \in DOMAIN as : \E j \in S : as[i] = from[j]
      BY <2>3, <2>4, AtProperties, Zenon
    <2>6. \A i \in DOMAIN as : Sourced(k, as[i])
      BY <2>3, <2>4, <2>5, Zenon
    <2> HIDE DEF as
    <2>7. FromRule(k, SetFrom(k, as))
      BY <2>1, <2>2, <2>5, <2>6, SetFromRule, Zenon
    <2> QED
      BY <2>1, <2>7, Zenon
  <1> QED
    BY <1>1, <1>2, Zenon

\* The address of Return-Path or Sender instead of a bad From.
LEMMA FromFromSenderRule ==
  ASSUME NEW k, Shaped(k), NEW o, Held(k, o)
  PROVE  FromRule(k, FromFromSender(k, o))
  <1>1. CASE FromFromSender(k, o) = k
    BY <1>1, NoFromRule, Zenon
  <1>2. CASE FromFromSender(k, o) # k
    <2> DEFINE fn == IF Usable(k, "Return-Path") THEN "Return-Path" ELSE "Sender"
               a == First(k, fn).val[1]
    <2>1. /\ FromFromSender(k, o) = SetFrom(k, <<a>>)
          /\ o["From"] = 1 /\ BadFrom(k) /\ Usable(k, fn)
      BY <1>2, Zenon DEF FromFromSender
    <2>2. Named(k, "From") # {} /\ fn \in FromSources
      BY <2>1 DEF Held, FromSources, StandInNames
    <2> HIDE DEF fn
    <2>3. Named(k, fn) # {} /\ First(k, fn).val # <<>>
      BY <2>1, NilField, Zenon DEF Usable, Shaped
    <2>4. First(k, fn).val \in Seq(Address) /\ \A i \in DOMAIN First(k, fn).val : Sourced(k, First(k, fn).val[i])
      BY <2>2, <2>3, SourceAddresses, Zenon
    <2>5. a \in Address /\ Sourced(k, a)
      BY <2>3, <2>4, FirstOfList, Zenon
    <2> HIDE DEF a
    <2>6. <<a>> \in Seq(Address) /\ <<a>> # <<>> /\ \A i \in DOMAIN <<a>> : Sourced(k, <<a>>[i])
      <3>1. \A b \in Address : <<b>> \in Seq(Address) /\ <<b>> # <<>> /\ DOMAIN <<b>> = {1} /\ <<b>>[1] = b
        BY ListOfOne, Zenon
      <3> QED
        BY <2>5, <3>1, Zenon
    <2>7. FromRule(k, SetFrom(k, <<a>>))
      BY <2>1, <2>2, <2>6, SetFromRule, Zenon
    <2> QED
      BY <2>1, <2>7, Zenon
  <1> QED
    BY <1>1, <1>2, Zenon

\* The domain that a bounce From is given is that of a Message-ID.
LEMMA PostmasterNeedsMessageID ==
  ASSUME NEW k, AddressesOf(k, "Message-ID") = <<>>
  PROVE  TopLevel(DomainShape(MessageIDDomain(k))) = -1
  <1>1. MessageIDDomain(k) = ""
    BY Zenon DEF MessageIDDomain
  <1>2. DomainShape("").len = 0
    BY RepairAssumption, Zenon
  <1>3. ASSUME NEW d, d.len = 0 PROVE TopLevel(d) = -1
    BY <1>3 DEF TopLevel
  <1> QED
    BY <1>1, <1>2, <1>3, Zenon

\* The postmaster of the Message-ID's domain.
LEMMA PostmasterRule ==
  ASSUME NEW k, Shaped(k), NEW o, Held(k, o), ~PostmasterPanics(k, o)
  PROVE  FromRule(k, Postmaster(k, o))
  <1>1. CASE Postmaster(k, o) = k
    BY <1>1, NoFromRule, Zenon
  <1>2. CASE Postmaster(k, o) # k
    <2> DEFINE dom == MessageIDDomain(k)
               A(v) == NewAddress(PostmasterName(dom), "postmaster", v)
    <2>1. PICK victim \in {dom, WithoutLabel(dom)} :
             /\ Postmaster(k, o) = SetFrom(k, <<A(victim)>>)
             /\ BounceFrom(k, o)
      BY <1>2, Zenon DEF Postmaster
    <2>2. Named(k, "From") # {} /\ BadFrom(k)
      <3>1. o["From"] = 1 /\ BadFrom(k)
        BY <2>1, Zenon DEF BounceFrom
      <3>2. o["From"] > 0
        BY <3>1
      <3> QED
        BY <3>1, <3>2, Zenon DEF Held
    <2>3. AddressesOf(k, "Message-ID") # <<>>
      BY <2>1, PostmasterNeedsMessageID, Zenon DEF PostmasterPanics
    <2>4. AddressesOf(k, "Message-ID") \in Seq(Address)
      <3>1. Named(k, "Message-ID") # {}
        BY <2>3, Zenon DEF AddressesOf
      <3>2. field(k, "Message-ID", 0) \in Named(k, "Message-ID")
        BY <3>1, FieldFound, Zenon DEF Shaped
      <3> QED
        BY <3>1, <3>2, Zenon DEF AddressesOf, Named, Shaped, ReadShape, AddressNames
    <2>5. AddressesOf(k, "Message-ID")[1] \in Address
      BY <2>3, <2>4, FirstOfList, Zenon
    <2>6. dom \in Domains
      BY <2>3, <2>5, Zenon DEF MessageIDDomain, Address
    <2>7. A(victim) \in Address /\ A(victim).lp = "postmaster"
      BY <2>6, RepairAssumption, Zenon DEF Address, NewAddress
    <2>8. Sourced(k, A(victim))
      BY <2>3, <2>7, Zenon DEF Sourced
    <2> DEFINE a == A(victim)
    <2> HIDE DEF a
    <2>9. <<a>> \in Seq(Address) /\ <<a>> # <<>> /\ \A i \in DOMAIN <<a>> : Sourced(k, <<a>>[i])
      <3>1. a \in Address /\ Sourced(k, a)
        BY <2>7, <2>8, Zenon DEF a
      <3>2. \A b \in Address : <<b>> \in Seq(Address) /\ <<b>> # <<>> /\ DOMAIN <<b>> = {1} /\ <<b>>[1] = b
        BY ListOfOne, Zenon
      <3> QED
        BY <3>1, <3>2, Zenon
    <2>10. FromRule(k, SetFrom(k, <<a>>))
      BY <2>2, <2>9, SetFromRule, Zenon
    <2> QED
      BY <2>1, <2>10, Zenon DEF a
  <1> QED
    BY <1>1, <1>2, Zenon

\* The last resort: afterwards a message has a From, with an address unless
\* it parsed without one.
LEMMA UseInvalidRule ==
  ASSUME NEW k, Shaped(k)
  PROVE  /\ FromRule(k, UseInvalid(k))
         /\ k.mode = "RFC5322" =>
               /\ Named(UseInvalid(k), "From") # {}
               /\ First(UseInvalid(k), "From").err = "" \/ First(UseInvalid(k), "From").val # <<>>
  <1> DEFINE l == UseInvalid(k)
             a == UnknownAddress
  <1>0. HeaderOK(k)
    BY Zenon DEF Shaped
  <1>1. a \in Address /\ Sourced(k, a)
    BY RepairAssumption, EmptyStrings, Zenon DEF UnknownAddress, NewAddress, Address, Sourced
  <1> HIDE DEF a
  <1>2. <<a>> \in Seq(Address) /\ <<a>> # <<>> /\ \A i \in DOMAIN <<a>> : Sourced(k, <<a>>[i])
    <2>1. \A b \in Address : <<b>> \in Seq(Address) /\ <<b>> # <<>> /\ DOMAIN <<b>> = {1} /\ <<b>>[1] = b
      BY ListOfOne, Zenon
    <2> QED
      BY <1>1, <2>1, Zenon
  <1>3. CASE k.mode # "RFC5322"
    BY <1>3, NoFromRule, Zenon DEF UseInvalid
  <1>4. CASE k.mode = "RFC5322" /\ field(k, "From", 0) = Nil
    <2>1. l = AddField(k, "From", <<a>>) /\ Named(k, "From") = {}
      BY <1>0, <1>4, NilField, Zenon DEF UseInvalid, a
    <2>2. FromRule(k, AddField(k, "From", <<a>>))
      BY <1>1, <2>1, AddFromRule, Zenon
    <2>3. /\ Named(AddField(k, "From", <<a>>), "From") # {}
          /\ First(AddField(k, "From", <<a>>), "From").err = "" /\ First(AddField(k, "From", <<a>>), "From").val = <<a>>
      BY <1>1, <2>1, AddsOneFrom, Zenon
    <2> HIDE DEF l
    <2>4. First(l, "From").err = "" /\ Named(l, "From") # {} /\ FromRule(k, l)
      BY <2>1, <2>2, <2>3, Zenon
    <2> QED
      BY <2>4, Zenon DEF l
  <1>5. CASE k.mode = "RFC5322" /\ field(k, "From", 0) # Nil
    <2>1. Named(k, "From") # {}
      BY <1>0, <1>5, NilField, Zenon
    <2>2. CASE BadFrom(k) /\ l # k
      <3>1. l = SetFrom(k, <<a>>)
        BY <1>5, <2>2, Zenon DEF UseInvalid, Hopeless, a
      <3>2. FromRule(k, SetFrom(k, <<a>>))
        BY <1>2, <2>1, <2>2, SetFromRule, Zenon
      <3>3. /\ Named(SetFrom(k, <<a>>), "From") = Named(k, "From")
            /\ First(SetFrom(k, <<a>>), "From").err = "" /\ First(SetFrom(k, <<a>>), "From").val = <<a>>
        BY <1>2, <2>1, SetFromProperties, Zenon
      <3> HIDE DEF l
      <3>4. First(l, "From").err = "" /\ Named(l, "From") # {} /\ FromRule(k, l)
        BY <2>1, <3>1, <3>2, <3>3, Zenon
      <3> QED
        BY <3>4, Zenon DEF l
    <2>3. CASE ~(BadFrom(k) /\ l # k)
      <3>1. l = k
        BY <1>5, <2>3, Zenon DEF UseInvalid, Hopeless, BadFrom
      <3>2. First(k, "From").err = "" \/ First(k, "From").val # <<>>
        <4> SUFFICES ASSUME BadFrom(k), First(k, "From").val = <<>> PROVE FALSE
          BY Zenon DEF BadFrom
        <4>1. l = SetFrom(k, <<a>>)
          BY <1>5, Zenon DEF UseInvalid, Hopeless, a
        <4>2. First(SetFrom(k, <<a>>), "From").err = "" /\ First(SetFrom(k, <<a>>), "From").val = <<a>>
          BY <1>2, <2>1, SetFromProperties, Zenon
        <4> HIDE DEF l
        <4>3. First(l, "From").err = ""
          BY <4>1, <4>2, Zenon
        <4> QED
          BY <3>1, <4>3, Zenon DEF BadFrom
      <3> QED
        BY <2>1, <3>1, <3>2, NoFromRule, Zenon
    <2> QED
      BY <2>2, <2>3, Zenon
  <1> QED
    BY <1>3, <1>4, <1>5, Zenon


\* verify changes no field.
LEMMA ChangesVerify ==
  ASSUME NEW k, Shaped(k), NEW N
  PROVE  Changes(k, verify(k), N) /\ verify(k).Fields = k.Fields
  <1> DEFINE l == verify(k)
  <1>1. HeaderOK(l) /\ l.Fields = k.Fields
    BY VerifyProperties, Zenon DEF Shaped
  <1>2. l.mode = k.mode /\ l.defaultType = k.defaultType
    BY ShapedSound, VerifySound, Zenon
  <1> HIDE DEF l
  <1>3. Shaped(l)
    BY <1>1, Zenon DEF Shaped, AddressFieldsMerged
  <1>4. \A fn : SameFields(k, l, fn)
    BY <1>1, Zenon DEF SameFields, Named
  <1> QED
    BY <1>1, <1>2, <1>3, <1>4, Zenon DEF Changes, Frame, l

\* A date for a message without one is always found.
LEMMA DateFound ==
  ASSUME NEW k, Shaped(k), NEW o, o["Date"] = 0, NEW ps
  PROVE  SensibleDate(k, o, ps) # NoTime
  <1> DEFINE D == ReceivedDates(k)
  <1>1. CASE D # {}
    <2>1. D \in SUBSET Nat
      BY Zenon DEF ReceivedDates, Named, Shaped, ReadShape
    <2>2. \E t \in D : \A u \in D : t <= u
      <3> DEFINE R == OpToRel(<, Nat)
      <3>1. IsWellFoundedOn(R, Nat)
        BY NatLessThanWellFounded, Zenon
      <3> HIDE DEF R, D
      <3>2. PICK t \in D : \A u \in D : ~(<<u, t>> \in R)
        BY <1>1, <2>1, <3>1, WFMin, Zenon
      <3>3. \A u \in D : ~(u < t) /\ u \in Nat /\ t \in Nat
        BY <2>1, <3>2, Zenon DEF R, OpToRel
      <3>4. \A u \in D : t <= u
        BY <3>3
      <3> QED
        BY <3>4, Zenon
    <2>3. SensibleDate(k, o, ps) \in D
      BY <1>1, <2>2, Zenon DEF SensibleDate
    <2> QED
      BY <2>1, <2>3 DEF NoTime
  <1>2. CASE D = {}
    <2>0. Now \in Nat
      BY RepairAssumption, Zenon
    <2>1. Now # NoTime
      BY <2>0 DEF NoTime
    <2> QED
      BY <1>2, <2>1, Zenon DEF SensibleDate
  <1> QED
    BY <1>1, <1>2, Zenon

\* FixDate adds a Date at most.
LEMMA FixDateProperties ==
  ASSUME NEW k, Shaped(k), NEW o, NEW ps
  PROVE  /\ Changes(k, FixDate(k, o, ps), {"Date"})
         /\ \/ Named(k, "Date") # {}
            \/ k.mode = "RFC5322" /\ o["Date"] = 0
            => Named(FixDate(k, o, ps), "Date") # {}
  <1> DEFINE l == FixDate(k, o, ps)
             t == ToMinute(SensibleDate(k, o, ps))
  <1>1. ReadShape([name |-> "Date", err |-> "", val |-> t])
    BY Zenon DEF ReadShape, FieldShape, AddressNames, addressFieldNames
  <1> HIDE DEF t
  <1>2. Changes(k, AddField(k, "Date", t), {"Date"}) /\ Named(AddField(k, "Date", t), "Date") # {}
    BY <1>1, AddsField, Zenon
  <1>3. Changes(k, k, {"Date"})
    BY ChangesSelf, Zenon
  <1>4. l \in {k, AddField(k, "Date", t)}
    BY Zenon DEF FixDate, t
  <1>5. k.mode = "RFC5322" /\ o["Date"] = 0 => l = AddField(k, "Date", t)
    BY DateFound, Zenon DEF FixDate, t
  <1> QED
    BY <1>2, <1>3, <1>4, <1>5, Zenon

\* DropReceived takes Received fields away, or none.
LEMMA DropReceivedProperties ==
  ASSUME NEW k, Shaped(k), NEW o
  PROVE  Changes(k, DropReceived(k, o), {"Received"})
  <1> DEFINE v == verify(k)
  <1>1. \A N : Changes(k, v, N)
    BY ChangesVerify, Zenon
  <1>2. Shaped(v)
    BY <1>1, Zenon DEF Changes
  <1> HIDE DEF v
  <1>3. Changes(v, RemoveAllNamed(v, "Received"), {"Received"})
    BY <1>2, ChangesRemoveAll, Zenon
  <1>4. Changes(k, RemoveAllNamed(v, "Received"), {} \cup {"Received"})
    BY <1>1, <1>3, ChangesChain, Zenon
  <1>5. {} \cup {"Received"} = {"Received"}
    BY Zenon
  <1>6. Changes(k, k, {"Received"})
    BY ChangesSelf, Zenon
  <1> QED
    BY <1>1, <1>4, <1>5, <1>6, Zenon DEF DropReceived, v

\* DropInvalid leaves only valid fields of those names.
LEMMA DropInvalidProperties ==
  ASSUME NEW k, Shaped(k), NEW o
  PROVE  /\ Removes(k, DropInvalid(k, o), DroppableNames)
         /\ \A fn \in DroppableNames : InvalidOnes(DropInvalid(k, o), fn) = {}
  <1> DEFINE T == UNION {InvalidOnes(k, fn) : fn \in DroppableNames}
             l == DropInvalid(k, o)
  <1>1. l = Without(k, T)
    BY Zenon DEF DropInvalid
  <1>2. \A p \in DOMAIN k.Fields : p \in T => k.Fields[p].name \in DroppableNames
    BY Zenon DEF InvalidOnes, Named
  <1>3. \A fn \in DroppableNames : InvalidOnes(k, fn) \subseteq T
    BY Zenon
  <1> HIDE DEF T
  <1>4. Removes(k, l, DroppableNames) /\ \A fn : Named(l, fn) = Named(k, fn) \ T
    BY <1>1, <1>2, RemovesWithout
  <1> HIDE DEF l
  <1>5. ASSUME NEW fn \in DroppableNames PROVE InvalidOnes(l, fn) = {}
    <2>1. InvalidOnes(l, fn) \subseteq InvalidOnes(k, fn)
      BY <1>4, RemovesNamed, Zenon
    <2>2. InvalidOnes(l, fn) \subseteq Named(l, fn)
      BY Zenon DEF InvalidOnes
    <2> QED
      BY <1>3, <1>4, <2>1, <2>2, Zenon
  <1> QED
    BY <1>4, <1>5, Zenon DEF l

\* ChooseSender and ChooseSubject take fields of one name away.
LEMMA ChooseProperties ==
  ASSUME NEW k, Shaped(k), NEW o
  PROVE  /\ Removes(k, ChooseSender(k, o), {"Sender"})
         /\ Removes(k, ChooseSubject(k, o), {"Subject"})
         /\ Removes(k, DropReplyTo(k, o), {"Reply-To"})
  <1>1. ASSUME NEW fn, NEW T \in SUBSET Named(k, fn) PROVE Removes(k, Without(k, T), {fn})
    <2>1. \A p \in DOMAIN k.Fields : p \in T => k.Fields[p].name \in {fn}
      BY Zenon DEF Named
    <2> QED
      BY <2>1, RemovesWithout, Zenon
  <1>2. \A N : Removes(k, k, N)
    BY RemovesSelf, Zenon
  <1>3. Removes(k, ChooseSender(k, o), {"Sender"})
    <2> DEFINE good == {p \in ValidOnes(k, "Sender") :
                           ~sameAddresses(k.Fields[p].val, AddressesOf(k, "From"))}
               T == Named(k, "Sender") \ {NthOf(good, 0)}
    <2>1. ChooseSender(k, o) \in {k, Without(k, T)}
      BY Zenon DEF ChooseSender
    <2>2. T \in SUBSET Named(k, "Sender")
      BY Zenon
    <2> HIDE DEF T
    <2> QED
      BY <1>1, <1>2, <2>1, <2>2, Zenon
  <1>4. Removes(k, ChooseSubject(k, o), {"Subject"})
    <2> DEFINE T == {p \in Named(k, "Subject") : k.Fields[p].val \in BadSubjects}
    <2>1. ChooseSubject(k, o) \in {k, Without(k, T)}
      BY Zenon DEF ChooseSubject
    <2>2. T \in SUBSET Named(k, "Subject")
      BY Zenon
    <2> HIDE DEF T
    <2> QED
      BY <1>1, <1>2, <2>1, <2>2, Zenon
  <1>5. Removes(k, DropReplyTo(k, o), {"Reply-To"})
    BY <1>2, RemovesAll, Zenon DEF DropReplyTo
  <1> QED
    BY <1>3, <1>4, <1>5, Zenon


\* The parameter that addParameter adds.
LEMMA AddParameterProperties ==
  ASSUME NEW ct, TypeShape(ct), NEW n, NEW v
  PROVE  /\ TypeShape(addParameter(ct, n, v))
         /\ addParameter(ct, n, v).type = ct.type
         /\ addParameter(ct, n, v).subtype = ct.subtype
         /\ parameter(addParameter(ct, n, v), n) = v
         /\ \A m : m # n => parameter(addParameter(ct, n, v), m) = parameter(ct, m)
  <1> DEFINE t == ct.type
             s == ct.subtype
             ps == ct.params
             r == ct.raw
             P == [m \in DOMAIN ct.params \cup {n} |-> IF m = n THEN v ELSE ct.params[m]]
             d == addParameter(ct, n, v)
  <1>1. ct = [type |-> t, subtype |-> s, params |-> ps, raw |-> r]
    BY Zenon DEF TypeShape
  <1>2. d = [ct EXCEPT !.params = P]
    BY Zenon DEF addParameter
  <1>3. DOMAIN P = DOMAIN ps \cup {n} /\ P[n] = v /\ \A m \in DOMAIN ps : m # n => P[m] = ps[m]
    BY Zenon
  <1> HIDE DEF t, s, ps, r, P, d
  <1>4. d = [type |-> t, subtype |-> s, params |-> P, raw |-> r]
    BY <1>1, <1>2, Zenon
  <1>5. d.type = t /\ d.subtype = s /\ d.params = P /\ d.raw = r
    BY <1>4, Zenon
  <1>6. TypeShape(d)
    BY <1>4, <1>5, Zenon DEF TypeShape
  <1>7. parameter(d, n) = v /\ \A m : m # n => parameter(d, m) = IF m \in DOMAIN ps THEN ps[m] ELSE ""
    BY <1>3, <1>5, Zenon DEF parameter
  <1> QED
    BY <1>5, <1>6, <1>7, Zenon DEF d, t, s, ps, parameter

\* The field at p of l is the first Content-Type of k, with a boundary.
GuessedAt(k, l, o, b, p) ==
    /\ p = ContentType(k) /\ NeedsBoundary(k, o, b) /\ b.lines # <<>>
    /\ l.Fields[p].err = "" /\ l.Fields[p].val.type = "multipart"
    /\ parameter(l.Fields[p].val, "boundary") = b.lines[1]

\* GuessBoundary gives the first Content-Type a boundary, or does nothing.
LEMMA GuessBoundaryProperties ==
  ASSUME NEW k, Shaped(k), NEW o, NEW b
  PROVE  /\ Changes(k, GuessBoundary(k, o, b), {"Content-Type"})
         /\ Named(GuessBoundary(k, o, b), "Content-Type") = Named(k, "Content-Type")
         /\ \A p \in Named(k, "Content-Type") :
               \/ GuessBoundary(k, o, b).Fields[p] = k.Fields[p]
               \/ GuessedAt(k, GuessBoundary(k, o, b), o, b, p)
         /\ /\ NeedsBoundary(k, o, b) /\ b.lines # <<>>
            /\ StopsAt(b.lines) = 0 \/ EndsAt(b.lines, StopsAt(b.lines))
            => GuessBoundary(k, o, b).Fields[ContentType(k)].err = ""
  <1> DEFINE l == GuessBoundary(k, o, b)
             p == ContentType(k)
             f == First(k, "Content-Type")
             ct == addParameter(f.val, "boundary", b.lines[1])
             g == [f EXCEPT !.err = "", !.val = addParameter(@, "boundary", b.lines[1])]
             Guess == /\ NeedsBoundary(k, o, b) /\ b.lines # <<>>
                      /\ StopsAt(b.lines) = 0 \/ EndsAt(b.lines, StopsAt(b.lines))
  <1>0. HeaderOK(k)
    BY Zenon DEF Shaped
  <1>1. CASE ~Guess
    <2>1. l = k
      BY <1>1, Zenon DEF GuessBoundary
    <2>2. Changes(k, k, {"Content-Type"})
      BY ChangesSelf, Zenon
    <2> QED
      BY <1>1, <2>1, <2>2, Zenon
  <1>2. CASE Guess
    <2>1. l = SetField(k, p, g)
      BY <1>2, Zenon DEF GuessBoundary
    <2>2. p # Nil /\ f.val.type = "multipart"
      BY <1>2, Zenon DEF NeedsBoundary, IsType, First, ContentType
    <2>3. p \in DOMAIN k.Fields /\ p \in Named(k, "Content-Type") /\ f = k.Fields[p] /\ f.name = "Content-Type"
      BY <1>0, <2>2, NilField, FieldFound DEF ContentType, First, Named
    <2>4. f = [name |-> f.name, err |-> f.err, val |-> f.val] /\ TypeShape(f.val)
      BY <1>0, <2>3, Zenon DEF HeaderOK, Shaped, ReadShape, FieldShape
    <2>5. g = [f EXCEPT !.err = "", !.val = ct]
      <3> HIDE DEF f
      <3> QED
        BY <2>4, Zenon
    <2>6. TypeShape(ct) /\ ct.type = "multipart" /\ parameter(ct, "boundary") = b.lines[1]
      <3> HIDE DEF f
      <3> QED
        BY <2>2, <2>4, AddParameterProperties
    <2> HIDE DEF f, g, ct, p, l
    <2>7. g = [name |-> "Content-Type", err |-> "", val |-> ct]
      <3>1. [f EXCEPT !.err = "", !.val = ct] = [name |-> f.name, err |-> "", val |-> ct]
        BY <2>4, Mended, Zenon
      <3> QED
        BY <2>3, <2>5, <3>1, Zenon
    <2>8. g.name = "Content-Type" /\ g.err = "" /\ g.val = ct
      BY <2>7, Zenon
    <2>9. ReadShape(g)
      BY <2>6, <2>7, <2>8, Zenon DEF ReadShape, FieldShape, AddressNames, addressFieldNames
    <2>10. Changes(k, l, {"Content-Type"})
      BY <2>1, <2>3, <2>8, <2>9, ChangesSet, Zenon
    <2>11. DOMAIN l.Fields = DOMAIN k.Fields /\ l.Fields[p] = g
           /\ \A q \in DOMAIN k.Fields : q # p => l.Fields[q] = k.Fields[q]
      BY <1>0, <2>1, <2>3, Zenon DEF SetField, HeaderOK
    <2>12. Named(l, "Content-Type") = Named(k, "Content-Type")
      BY <2>3, <2>8, <2>11, Zenon DEF Named
    <2>13. \A q \in Named(k, "Content-Type") :
             l.Fields[q] = k.Fields[q] \/ GuessedAt(k, l, o, b, q)
      <3>1. GuessedAt(k, l, o, b, p)
        BY <1>2, <2>6, <2>8, <2>11, Zenon DEF GuessedAt, p
      <3> QED
        BY <2>11, <3>1, Zenon DEF Named
    <2>14. l.Fields[p].err = ""
      BY <2>8, <2>11, Zenon
    <2> QED
      BY <1>2, <2>10, <2>12, <2>13, <2>14, Zenon DEF l, p
  <1> QED
    BY <1>1, <1>2, Zenon


\* DropPlain leaves a Content-Type, and does nothing if none is text/plain.
LEMMA DropPlainProperties ==
  ASSUME NEW k, Shaped(k), NEW o, ~DropPlainPanics(k, o)
  PROVE  /\ Removes(k, DropPlain(k, o), {"Content-Type"})
         /\ Named(k, "Content-Type") # {} => Named(DropPlain(k, o), "Content-Type") # {}
         /\ \/ DropPlain(k, o) = k
            \/ \E p \in Named(k, "Content-Type") : IsPlain(k.Fields[p].val)
  <1> DEFINE cts == Named(k, "Content-Type")
             two == {field(k, "Content-Type", 0), field(k, "Content-Type", 1)}
             keep == {p \in two : ~IsPlain(k.Fields[p].val) /\ ~IsHtml(k.Fields[p].val)}
             T == cts \ keep
             l == DropPlain(k, o)
  <1>0. HeaderOK(k)
    BY Zenon DEF Shaped
  <1>1. CASE l = k
    <2>1. Removes(k, k, {"Content-Type"})
      BY RemovesSelf, Zenon
    <2> QED
      BY <1>1, <2>1, Zenon
  <1>2. CASE l # k
    <2>1. /\ l = Without(k, T) /\ o["Content-Type"] = 2 /\ keep # {}
          /\ \E p \in two : IsPlain(k.Fields[p].val)
      BY <1>2, Zenon DEF DropPlain
    <2>2. two \subseteq cts
      <3>1. cts \in SUBSET (DOMAIN k.Fields)
        BY Zenon DEF Named
      <3>2. cts \in SUBSET Nat /\ IsFiniteSet(cts) /\ Cardinality(cts) \in Nat
        BY <1>0, <3>1, PositionsFinite, Zenon
      <3>3. 0 < Cardinality(cts) /\ 1 < Cardinality(cts)
        BY <2>1, <3>2 DEF DropPlainPanics, Occurrences
      <3> HIDE DEF cts
      <3>4. NthOf(cts, 0) \in cts /\ NthOf(cts, 1) \in cts
        BY <3>2, <3>3, NthExists, Zenon
      <3> QED
        BY <3>4, Zenon DEF field, cts
    <2>3. \A p \in DOMAIN k.Fields : p \in T => k.Fields[p].name \in {"Content-Type"}
      BY Zenon DEF Named
    <2>4. cts \ T = keep
      BY <2>2, Zenon
    <2>5. \E p \in cts : IsPlain(k.Fields[p].val)
      BY <2>1, <2>2, Zenon
    <2> HIDE DEF T, keep
    <2>6. /\ Removes(k, Without(k, T), {"Content-Type"})
          /\ \A fn : Named(Without(k, T), fn) = Named(k, fn) \ T
      BY <2>3, RemovesWithout, Zenon
    <2> QED
      BY <2>1, <2>4, <2>5, <2>6, Zenon
  <1> QED
    BY <1>1, <1>2, Zenon

\* RemoveAllNamed and addField of one of the Content-Types.
LEMMA OnlyThisProperties ==
  ASSUME NEW k, Shaped(k), NEW p \in Named(k, "Content-Type")
  PROVE  /\ Changes(k, OnlyThis(k, k.Fields[p]), {"Content-Type"})
         /\ \E n : /\ Named(OnlyThis(k, k.Fields[p]), "Content-Type") = {n}
                   /\ OnlyThis(k, k.Fields[p]).Fields[n] = k.Fields[p]
  <1> DEFINE f == k.Fields[p]
             m == RemoveAllNamed(k, "Content-Type")
             l == addField(m, f)
             n == m.last + 1
  <1>0. /\ f.name = "Content-Type" /\ ReadShape(f)
        /\ f = [name |-> f.name, err |-> f.err, val |-> f.val]
    BY Zenon DEF Named, Shaped, ReadShape, FieldShape
  <1>1. OnlyThis(k, f) = l
    BY <1>0, Zenon DEF OnlyThis
  <1>2. Removes(k, m, {"Content-Type"}) /\ Named(m, "Content-Type") = {}
    BY RemovesAll, Zenon
  <1>3. Shaped(m) /\ HeaderOK(m) /\ Changes(k, m, {"Content-Type"})
    BY <1>2, Zenon DEF Removes, Changes, Shaped
  <1> HIDE DEF f, m
  <1>4. Changes(m, l, {"Content-Type"})
    <2>1. Changes(m, l, {f.name})
      BY <1>0, <1>3, ChangesAdd, Zenon
    <2> QED
      BY <1>0, <2>1, Zenon
  <1>5. Changes(k, l, {"Content-Type"})
    <2>1. Changes(k, l, {"Content-Type"} \cup {"Content-Type"})
      BY <1>3, <1>4, ChangesChain, Zenon
    <2> QED
      BY <2>1, ChangesMore, Zenon
  <1>6. Named(l, "Content-Type") = {n} /\ l.Fields[n] = f
    <2>1. f.name \notin MergedNames
      BY <1>0, Zenon DEF MergedNames
    <2>2. Named(l, f.name) = Named(m, f.name) \cup {n} /\ l.Fields[n] = f
      BY <1>0, <1>3, <2>1, AddAppends, Zenon
    <2> QED
      BY <1>0, <1>2, <2>2, Zenon
  <1> QED
    BY <1>1, <1>5, <1>6, Zenon DEF f

\* A rule that keeps one Content-Type, a valid one, or does nothing.
KeepsOneType(k, l) ==
    /\ Changes(k, l, {"Content-Type"})
    /\ \/ l = k
       \/ \E n : \E p \in Named(k, "Content-Type") :
             /\ Named(l, "Content-Type") = {n} /\ l.Fields[n] = k.Fields[p]
             /\ k.Fields[p].err = ""

\* GradeTypes and OneHtml are of this kind.
LEMMA GradeRules ==
  ASSUME NEW k, Shaped(k), NEW o, Held(k, o), o["Content-Type"] \in Nat, NEW b
  PROVE  KeepsOneType(k, GradeTypes(k, o, b)) /\ KeepsOneType(k, OneHtml(k, o))
  <1> SUFFICES ASSUME NEW l, l \in {GradeTypes(k, o, b), OneHtml(k, o)}
               PROVE  KeepsOneType(k, l)
    BY Zenon
  <1> DEFINE cts == Named(k, "Content-Type")
             Graded(g) == {p \in cts : Grade(k.Fields[p], b) = g}
  <1>0. HeaderOK(k)
    BY Zenon DEF Shaped
  <1>1. CASE l = k
    BY <1>1, ChangesSelf, Zenon DEF KeepsOneType
  <1>2. ASSUME NEW p \in cts, l = OnlyThis(k, k.Fields[p]), k.Fields[p].err = ""
        PROVE  KeepsOneType(k, l)
    <2>1. /\ Changes(k, OnlyThis(k, k.Fields[p]), {"Content-Type"})
          /\ \E n : /\ Named(OnlyThis(k, k.Fields[p]), "Content-Type") = {n}
                    /\ OnlyThis(k, k.Fields[p]).Fields[n] = k.Fields[p]
      BY OnlyThisProperties, Zenon
    <2> QED
      BY <1>2, <2>1, Zenon DEF KeepsOneType
  <1>3. ASSUME NEW g \in {"good", "neutral"}, Graded(g) # {},
               l = OnlyThis(k, k.Fields[NthOf(Graded(g), 0)])
        PROVE  \E p \in cts : l = OnlyThis(k, k.Fields[p]) /\ k.Fields[p].err = ""
    <2>1. Graded(g) \in SUBSET (DOMAIN k.Fields)
      BY Zenon DEF Named
    <2>2. NthOf(Graded(g), 0) \in Graded(g)
      <3> DEFINE S == Graded(g)
      <3> HIDE DEF S
      <3>1. S \in SUBSET (DOMAIN k.Fields) /\ S # {}
        BY <1>3, <2>1, Zenon DEF S
      <3>2. NthOf(S, 0) \in S
        BY <1>0, <3>1, PositionsFinite, FirstExists, Zenon
      <3> QED
        BY <3>2, Zenon DEF S
    <2> DEFINE p == NthOf(Graded(g), 0)
    <2>3. p \in cts /\ Grade(k.Fields[p], b) = g /\ l = OnlyThis(k, k.Fields[p])
      BY <1>3, <2>2, Zenon
    <2> HIDE DEF p
    <2>4. k.Fields[p].err = ""
      BY <2>3, Zenon DEF Grade
    <2> QED
      BY <2>3, <2>4, Zenon
  <1>4. CASE l = GradeTypes(k, o, b) /\ l # k
    <2>1. /\ Graded("good") # {} /\ l = OnlyThis(k, k.Fields[NthOf(Graded("good"), 0)])
          \/ /\ Cardinality(Graded("neutral")) = 1
             /\ l = OnlyThis(k, k.Fields[NthOf(Graded("neutral"), 0)])
      BY <1>4, Zenon DEF GradeTypes
    <2>2. Cardinality(Graded("neutral")) = 1 => Graded("neutral") # {}
      BY FS_EmptySet
    <2>3. PICK p \in cts : l = OnlyThis(k, k.Fields[p]) /\ k.Fields[p].err = ""
      <3>1. "good" \in {"good", "neutral"} /\ "neutral" \in {"good", "neutral"}
        BY Zenon
      <3> HIDE DEF Graded
      <3> QED
        BY <1>3, <2>1, <2>2, <3>1, Zenon
    <2> QED
      BY <1>2, <2>3, Zenon
  <1>5. CASE l = OneHtml(k, o) /\ l # k
    <2> DEFINE p == field(k, "Content-Type", 0)
    <2>1. /\ o["Content-Type"] > 1 /\ l = OnlyThis(k, k.Fields[p])
          /\ \A q \in cts : k.Fields[q].err = "" /\ IsHtml(k.Fields[q].val)
      BY <1>5, Zenon DEF OneHtml, First
    <2>2. p \in cts
      <3>0. \A c \in Nat : c > 1 => c > 0
        OBVIOUS
      <3>1. o["Content-Type"] > 0
        BY <2>1, <3>0, Zenon
      <3>2. Named(k, "Content-Type") # {}
        BY <3>1, Zenon DEF Held
      <3> QED
        BY <1>0, <3>2, FieldFound, Zenon
    <2> HIDE DEF p
    <2> QED
      BY <1>2, <2>1, <2>2, Zenon
  <1> QED
    BY <1>1, <1>4, <1>5, Zenon

\* LastSender puts no address into Sender that was not there.
LEMMA LastSenderProperties ==
  ASSUME NEW k, Shaped(k)
  PROVE  /\ Changes(k, LastSender(k), {"Sender"})
         /\ \A p \in Named(LastSender(k), "Sender") :
               /\ p \in Named(k, "Sender")
               /\ \A i \in DOMAIN LastSender(k).Fields[p].val :
                     \E j \in DOMAIN k.Fields[p].val :
                         LastSender(k).Fields[p].val[i] = k.Fields[p].val[j]
  <1> DEFINE l == LastSender(k)
             as == AddressesOf(k, "Sender")
             n == Len(as)
             p == field(k, "Sender", 0)
             g == [First(k, "Sender") EXCEPT !.val = <<as[n]>>, !.err = ""]
  <1>0. HeaderOK(k) /\ "Sender" \in FromSources
    BY Zenon DEF Shaped, FromSources, StandInNames
  <1>1. CASE l = k
    BY <1>1, ChangesSelf, Zenon
  <1>2. CASE l # k
    <2>1. l = SetField(k, p, g) /\ n > 1
      BY <1>2, Zenon DEF LastSender
    <2>2. Named(k, "Sender") # {}
      <3>1. Len(<<>>) = 0 /\ ~(0 > 1)
        OBVIOUS
      <3> QED
        BY <2>1, <3>1, Zenon DEF AddressesOf
    <2>3. /\ p \in Named(k, "Sender") /\ First(k, "Sender") = k.Fields[p]
          /\ as = k.Fields[p].val /\ as \in Seq(Address)
      BY <1>0, <2>2, SourceAddresses, Zenon
    <2> DEFINE a == as[n]
    <2>4. a \in Address /\ n \in DOMAIN as
      BY <2>1, <2>3
    <2>5. k.Fields[p].name = "Sender" /\ p \in DOMAIN k.Fields
          /\ k.Fields[p] = [name |-> k.Fields[p].name, err |-> k.Fields[p].err, val |-> k.Fields[p].val]
      BY <1>0, <2>3, Zenon DEF Named, HeaderOK
    <2>6. g = [name |-> "Sender", err |-> "", val |-> <<a>>]
      <3> DEFINE f == k.Fields[p]
                 v == <<a>>
      <3>1. f = [name |-> f.name, err |-> f.err, val |-> f.val] /\ f.name = "Sender"
        BY <2>5, Zenon
      <3>2. g = [f EXCEPT !.val = v, !.err = ""]
        BY <2>3, Zenon
      <3> HIDE DEF f, g, v
      <3>3. [f EXCEPT !.val = v, !.err = ""] = [name |-> f.name, err |-> "", val |-> v]
        BY <3>1, Mended, Zenon
      <3> QED
        BY <3>1, <3>2, <3>3, Zenon DEF v
    <2> HIDE DEF g, p, l, n
    <2>7. g.name = "Sender" /\ g.val = <<a>>
      BY <2>6, Zenon
    <2> HIDE DEF a, as
    <2>8. \A b \in Address : <<b>> \in Seq(Address) /\ <<b>> # <<>> /\ DOMAIN <<b>> = {1} /\ <<b>>[1] = b
      BY ListOfOne, Zenon
    <2>9. g.val \in Seq(Address) /\ DOMAIN g.val = {1} /\ g.val[1] = a
      BY <2>4, <2>7, <2>8, Zenon
    <2>10. ReadShape(g)
      BY <2>6, <2>7, <2>9, Zenon DEF ReadShape, FieldShape
    <2>11. Changes(k, l, {"Sender"})
      BY <2>1, <2>5, <2>7, <2>10, ChangesSet, Zenon
    <2>12. DOMAIN l.Fields = DOMAIN k.Fields /\ l.Fields[p] = g
           /\ \A q \in DOMAIN k.Fields : q # p => l.Fields[q] = k.Fields[q]
      BY <1>0, <2>1, <2>5, Zenon DEF SetField, HeaderOK
    <2>13. Named(l, "Sender") = Named(k, "Sender")
      BY <2>5, <2>7, <2>12, Zenon DEF Named
    <2>14. \A i \in DOMAIN l.Fields[p].val : \E j \in DOMAIN k.Fields[p].val : l.Fields[p].val[i] = k.Fields[p].val[j]
      BY <2>3, <2>4, <2>9, <2>12, Zenon DEF a
    <2>15. \A q \in Named(l, "Sender") : q # p => l.Fields[q] = k.Fields[q]
      BY <2>12, <2>13, Zenon DEF Named
    <2> QED
      BY <2>11, <2>13, <2>14, <2>15, Zenon DEF l
  <1> QED
    BY <1>1, <1>2, Zenon

\* At most one field of a name, and a valid one.
OneValid(k, fn) == \A p, q \in Named(k, fn) : p = q /\ k.Fields[p].err = ""

\* A field that is added where there is none of its name.
LEMMA AddsOne ==
  ASSUME NEW k, Shaped(k), NEW fn, Named(k, fn) = {}, NEW v,
         ReadShape([name |-> fn, err |-> "", val |-> v])
  PROVE  /\ Changes(k, AddField(k, fn, v), {fn})
         /\ OneValid(AddField(k, fn, v), fn)
         /\ \A p \in Named(AddField(k, fn, v), fn) : AddField(k, fn, v).Fields[p].val = v
         /\ Named(AddField(k, fn, v), fn) # {}
         /\ ~AddField(k, fn, v).verified
  <1> DEFINE f == [name |-> fn, err |-> "", val |-> v]
             l == AddField(k, fn, v)
             n == k.last + 1
  <1>0. HeaderOK(k)
    BY Zenon DEF Shaped
  <1>1. Changes(k, l, {fn})
    BY AddsField, Zenon
  <1>2. l = addField(k, f) /\ f.name = fn /\ f.err = "" /\ f.val = v
        /\ f = [name |-> f.name, err |-> f.err, val |-> f.val]
    BY Zenon DEF AddField
  <1> HIDE DEF f, l
  <1>3. Named(k, f.name) = {}
    BY <1>2, Zenon
  <1>4. Named(l, f.name) = Named(k, f.name) \cup {n} /\ l.Fields[n] = f /\ l.verified = FALSE
    BY <1>0, <1>2, <1>3, AddAppends, Zenon
  <1>5. Named(l, fn) = {n} /\ l.Fields[n].err = "" /\ l.Fields[n].val = v
    BY <1>2, <1>3, <1>4, Zenon
  <1> QED
    BY <1>1, <1>4, <1>5, Zenon DEF OneValid, l

\* GuessEncoding leaves at most one encoding, a valid one.
LEMMA GuessEncodingProperties ==
  ASSUME NEW k, Shaped(k), NEW o, NEW b
  PROVE  /\ Changes(k, GuessEncoding(k, o, b), {"Content-Transfer-Encoding"})
         /\ o["Content-Transfer-Encoding"] # 0 \/ Named(k, "Content-Transfer-Encoding") = {} =>
               OneValid(GuessEncoding(k, o, b), "Content-Transfer-Encoding")
  <1> DEFINE fn == "Content-Transfer-Encoding"
             l == GuessEncoding(k, o, b)
             none == RemoveAllNamed(k, fn)
             e == Encoding("base64", "base64")
  <1>0. HeaderOK(k)
    BY Zenon DEF Shaped
  <1>1. Removes(k, none, {fn}) /\ Named(none, fn) = {}
    BY RemovesAll, Zenon
  <1>2. Shaped(none) /\ Changes(k, none, {fn})
    BY <1>1, Zenon DEF Removes, Changes
  <1>3. ReadShape([name |-> fn, err |-> "", val |-> e])
    BY Zenon DEF ReadShape, FieldShape, AddressNames, addressFieldNames
  <1> DEFINE m == AddField(none, fn, e)
  <1>4. Changes(none, m, {fn}) /\ OneValid(m, fn)
    <2> HIDE DEF none, e
    <2> QED
      BY <1>1, <1>2, <1>3, AddsOne, Zenon
  <1>5. Changes(k, m, {fn})
    <2> HIDE DEF none, m
    <2>1. Changes(k, m, {fn} \cup {fn})
      BY <1>2, <1>4, ChangesChain, Zenon
    <2> QED
      BY <2>1, ChangesMore, Zenon
  <1>6. OneValid(none, fn)
    BY <1>1, Zenon DEF OneValid
  <1>7. CASE \/ o[fn] = 0 \/ Named(k, fn) = {}
             \/ Cardinality(Named(k, fn)) = 1 /\ First(k, fn).err = ""
    <2>1. l = k
      BY <1>7, Zenon DEF GuessEncoding
    <2>2. Changes(k, k, {fn})
      BY ChangesSelf, Zenon
    <2>3. o[fn] # 0 \/ Named(k, fn) = {} => OneValid(k, fn)
      <3>1. CASE Named(k, fn) = {}
        BY <3>1, Zenon DEF OneValid
      <3>2. CASE Cardinality(Named(k, fn)) = 1 /\ First(k, fn).err = ""
        <4>1. IsFiniteSet(Named(k, fn))
          <5>1. Named(k, fn) \in SUBSET (DOMAIN k.Fields)
            BY Zenon DEF Named
          <5> QED
            BY <1>0, <5>1, PositionsFinite, Zenon
        <4>2. PICK p : Named(k, fn) = {p}
          BY <3>2, <4>1, FS_Singleton, Zenon
        <4>3. field(k, fn, 0) = p
          BY <1>0, <4>2, OnlyField, Zenon
        <4> QED
          BY <3>2, <4>2, <4>3, Zenon DEF OneValid, First
      <3> QED
        BY <1>7, <3>1, <3>2, Zenon
    <2> QED
      BY <2>1, <2>2, <2>3, Zenon
  <1>8. CASE ~(\/ o[fn] = 0 \/ Named(k, fn) = {}
               \/ Cardinality(Named(k, fn)) = 1 /\ First(k, fn).err = "")
    <2>1. l \in {none, m}
      BY <1>8, Zenon DEF GuessEncoding
    <2> QED
      BY <1>2, <1>4, <1>5, <1>6, <2>1, Zenon
  <1> QED
    BY <1>7, <1>8, Zenon

\* SwapEncoding makes an encoding of the Content-Type, or does nothing.
LEMMA SwapEncodingProperties ==
  ASSUME NEW k, Shaped(k), NEW o
  PROVE  /\ Changes(k, SwapEncoding(k, o), {"Content-Transfer-Encoding", "Content-Type"})
         /\ \/ SwapEncoding(k, o) = k
            \/ /\ OneValid(SwapEncoding(k, o), "Content-Transfer-Encoding")
               /\ Named(SwapEncoding(k, o), "Content-Type") # {}
               /\ \A p \in Named(SwapEncoding(k, o), "Content-Type") :
                     /\ SwapEncoding(k, o).Fields[p].err = ""
                     /\ SwapEncoding(k, o).Fields[p].val.type = "application"
  <1> DEFINE cte == "Content-Transfer-Encoding"
             ct == "Content-Type"
             l == SwapEncoding(k, o)
             raw == First(k, "Content-Type").val.raw
             e == Encoding(raw, raw)
             t == [type |-> "application", subtype |-> "octet-stream",
                   params |-> [n \in {} |-> ""], raw |-> ""]
             m1 == RemoveAllNamed(k, cte)
             m2 == RemoveAllNamed(m1, ct)
             m3 == AddField(m2, cte, e)
             m4 == AddField(m3, ct, t)
  <1>1. l \in {k, m4}
    BY Zenon DEF SwapEncoding
  <1>2. CASE l = k
    BY <1>2, ChangesSelf, Zenon
  <1>3. CASE l = m4
    <2>1. Changes(k, m1, {cte}) /\ Named(m1, cte) = {} /\ Shaped(m1)
      BY RemovesAll, Zenon DEF Removes, Changes
    <2> HIDE DEF m1
    <2>2. Changes(m1, m2, {ct}) /\ Named(m2, ct) = {} /\ Shaped(m2)
      BY <2>1, RemovesAll, Zenon DEF Removes, Changes
    <2>3. Named(m2, cte) = {}
      BY <2>1, <2>2, Zenon DEF Changes, Frame, SameFields
    <2> HIDE DEF m2
    <2>4. ReadShape([name |-> cte, err |-> "", val |-> e])
      BY Zenon DEF ReadShape, FieldShape, AddressNames, addressFieldNames
    <2> HIDE DEF e
    <2>5. Changes(m2, m3, {cte}) /\ OneValid(m3, cte) /\ Shaped(m3)
      BY <2>2, <2>3, <2>4, AddsOne, Zenon DEF Changes
    <2>6. Named(m3, ct) = {}
      BY <2>2, <2>5, Zenon DEF Changes, Frame, SameFields
    <2> HIDE DEF m3
    <2>7. TypeShape(t) /\ t.type = "application"
      BY Zenon DEF TypeShape
    <2> HIDE DEF t
    <2>8. ReadShape([name |-> ct, err |-> "", val |-> t])
      BY <2>7, Zenon DEF ReadShape, FieldShape, AddressNames, addressFieldNames
    <2>9. /\ Changes(m3, m4, {ct}) /\ OneValid(m4, ct) /\ Named(m4, ct) # {}
          /\ \A p \in Named(m4, ct) : m4.Fields[p].val = t
      BY <2>5, <2>6, <2>8, AddsOne, Zenon
    <2> HIDE DEF m4
    <2>10. OneValid(m4, cte)
      <3>1. SameFields(m3, m4, cte)
        BY <2>9, Zenon DEF Changes, Frame
      <3> QED
        BY <2>5, <3>1, Zenon DEF SameFields, OneValid
    <2>11. Changes(k, m4, {cte, ct})
      <3>1. Changes(k, m2, {cte} \cup {ct})
        BY <2>1, <2>2, ChangesChain, Zenon
      <3>2. Changes(m2, m4, {cte} \cup {ct})
        BY <2>5, <2>9, ChangesChain, Zenon
      <3>3. Changes(k, m4, ({cte} \cup {ct}) \cup ({cte} \cup {ct}))
        BY <3>1, <3>2, ChangesChain, Zenon
      <3> QED
        BY <3>3, ChangesMore, Zenon
    <2>12. \A p \in Named(m4, ct) : m4.Fields[p].err = "" /\ m4.Fields[p].val.type = "application"
      BY <2>7, <2>9, Zenon DEF OneValid
    <2> QED
      BY <1>3, <2>9, <2>10, <2>11, <2>12, Zenon
  <1> QED
    BY <1>1, <1>2, <1>3, Zenon

\* Unverify changes nothing but the verdict.
LEMMA Unverified ==
  ASSUME NEW k, HeaderOK(k)
  PROVE  /\ Unverify(k).Fields = k.Fields /\ Unverify(k).verified = FALSE
         /\ HeaderOK(Unverify(k))
         /\ Unverify(k).mode = k.mode /\ Unverify(k).defaultType = k.defaultType
  <1>1. ASSUME NEW x \in BOOLEAN PROVE HeaderOK([k EXCEPT !.verified = x])
    BY DEF HeaderOK
  <1>2. HeaderOK(Unverify(k))
    <2>1. FALSE \in BOOLEAN
      BY Zenon
    <2> QED
      BY <1>1, <2>1, Zenon DEF Unverify
  <1>3. /\ Unverify(k).Fields = k.Fields /\ Unverify(k).verified = FALSE
        /\ Unverify(k).mode = k.mode /\ Unverify(k).defaultType = k.defaultType
    BY Zenon DEF Unverify, HeaderOK
  <1> QED
    BY <1>2, <1>3, Zenon

\* The last rule drops bad URLs and forgets the verdict.
LEMMA DropBadURLsProperties ==
  ASSUME NEW k, Shaped(k)
  PROVE  /\ Changes(k, Unverify(DropBadURLs(k)), {"Content-Base", "Content-Location"})
         /\ \A fn \in {"Content-Base", "Content-Location"} :
               InvalidOnes(Unverify(DropBadURLs(k)), fn) = {}
         /\ ~Unverify(DropBadURLs(k)).verified
  <1> DEFINE N == {"Content-Base", "Content-Location"}
             T == InvalidOnes(k, "Content-Base") \cup InvalidOnes(k, "Content-Location")
             m == DropBadURLs(k)
             l == Unverify(m)
  <1>1. m = Without(k, T)
    BY Zenon DEF DropBadURLs
  <1>2. \A p \in DOMAIN k.Fields : p \in T => k.Fields[p].name \in N
    BY Zenon DEF InvalidOnes, Named
  <1>3. \A fn \in N : InvalidOnes(k, fn) \subseteq T
    BY Zenon
  <1> HIDE DEF T, N
  <1>4. Removes(k, m, N) /\ \A fn : Named(m, fn) = Named(k, fn) \ T
    BY <1>1, <1>2, RemovesWithout
  <1> HIDE DEF m
  <1>5. Shaped(m) /\ HeaderOK(m) /\ Frame(k, m, N)
    BY <1>4, Zenon DEF Removes, Changes, Shaped
  <1>6. /\ l.Fields = m.Fields /\ l.verified = FALSE /\ HeaderOK(l)
        /\ l.mode = m.mode /\ l.defaultType = m.defaultType
    BY <1>5, Unverified, Zenon
  <1> HIDE DEF l
  <1>7. Shaped(l)
    BY <1>5, <1>6, Zenon DEF Shaped, AddressFieldsMerged
  <1>8. \A fn : SameFields(m, l, fn)
    BY <1>6, Zenon DEF SameFields, Named
  <1>9. Frame(k, l, N)
    BY <1>5, <1>6, <1>8, Zenon DEF Frame, SameFields
  <1>10. ASSUME NEW fn \in N PROVE InvalidOnes(l, fn) = {}
    <2>1. InvalidOnes(l, fn) = InvalidOnes(m, fn)
      BY <1>6, Zenon DEF InvalidOnes, ValidOnes, Named
    <2>2. InvalidOnes(m, fn) \subseteq InvalidOnes(k, fn)
      BY <1>4, RemovesNamed, Zenon
    <2>3. InvalidOnes(m, fn) \subseteq Named(m, fn)
      BY Zenon DEF InvalidOnes
    <2> QED
      BY <1>3, <1>4, <2>1, <2>2, <2>3, Zenon
  <1> QED
    BY <1>6, <1>7, <1>9, <1>10, Zenon DEF Changes, l, m, N


-----------------------------------------------------------------------------
(***************************************************************************)
(* parseBodypart                                                           *)
(***************************************************************************)
\* At most one field of a name.
Single(k, fn) == \A p, q \in Named(k, fn) : p = q

\* Single is what the count says.
LEMMA SingleCount ==
  ASSUME NEW k, HeaderOK(k), NEW fn
  PROVE  /\ Occurrences(k, fn) \in Nat
         /\ Single(k, fn) <=> Occurrences(k, fn) <= 1
         /\ Occurrences(k, fn) = 0 <=> Named(k, fn) = {}
  <1>1. IsFiniteSet(Named(k, fn))
    <2>1. Named(k, fn) \in SUBSET (DOMAIN k.Fields)
      BY Zenon DEF Named
    <2> QED
      BY <2>1, PositionsFinite, Zenon
  <1>2. Occurrences(k, fn) \in Nat /\ (Occurrences(k, fn) = 0 <=> Named(k, fn) = {})
    BY <1>1, FS_CardinalityType, FS_EmptySet, Zenon DEF Occurrences
  <1>3. CASE Named(k, fn) = {}
    BY <1>2, <1>3 DEF Single
  <1>4. CASE Named(k, fn) # {}
    <2>1. PICK p : p \in Named(k, fn)
      BY <1>4, Zenon
    <2>2. Single(k, fn) => Named(k, fn) = {p}
      BY <2>1, Zenon DEF Single
    <2>3. Named(k, fn) = {p} => Occurrences(k, fn) = 1
      BY FS_Singleton, Zenon DEF Occurrences
    <2>4. Occurrences(k, fn) = 1 => \E q : Named(k, fn) = {q}
      BY <1>1, FS_Singleton, Zenon DEF Occurrences
    <2>5. Occurrences(k, fn) = 1 => Single(k, fn)
      BY <2>4, Zenon DEF Single
    <2>6. Occurrences(k, fn) <= 1 <=> Occurrences(k, fn) = 1
      BY <1>2, <1>4
    <2> QED
      BY <1>2, <2>2, <2>3, <2>5, <2>6, Zenon
  <1> QED
    BY <1>3, <1>4, Zenon

\* What parseBodypart may touch, and what it does not do: it repeats nothing,
\* invalidates nothing and keeps a verdict only if it still applies.
PartNames == {"Content-Transfer-Encoding", "Content-Type", "Subject"}

Improves(k, l) ==
    /\ Changes(k, l, PartNames)
    /\ \A fn : Single(k, fn) => Single(l, fn)
    /\ \A p \in DOMAIN l.Fields :
          \/ l.Fields[p].err = ""
          \/ /\ p \in DOMAIN k.Fields /\ k.Fields[p].name = l.Fields[p].name
             /\ k.Fields[p].err = l.Fields[p].err
    /\ l.verified => k.verified /\ l.err = k.err

\* Doing nothing.
LEMMA ImprovesSelf ==
  ASSUME NEW k, Shaped(k)
  PROVE  Improves(k, k)
  BY ChangesSelf, Zenon DEF Improves

\* One operation after another.
LEMMA ImprovesChain ==
  ASSUME NEW k, NEW l, NEW m, Improves(k, l), Improves(l, m)
  PROVE  Improves(k, m)
  <1>1. Changes(k, m, PartNames \cup PartNames)
    BY ChangesChain, Zenon DEF Improves
  <1>2. Changes(k, m, PartNames)
    BY <1>1, ChangesMore, Zenon
  <1> QED
    BY <1>2, Zenon DEF Improves

\* Removing fields.
LEMMA ImprovesRemoves ==
  ASSUME NEW k, NEW l, Removes(k, l, PartNames)
  PROVE  Improves(k, l)
  <1>1. \A fn : Named(l, fn) \subseteq Named(k, fn)
    BY RemovesNamed, Zenon
  <1> QED
    BY <1>1, Zenon DEF Improves, Removes, Single

\* Removing the encodings.
LEMMA ImprovesRemoveAll ==
  ASSUME NEW k, Shaped(k)
  PROVE  Improves(k, RemoveAllNamed(k, "Content-Transfer-Encoding"))
  <1>1. Removes(k, RemoveAllNamed(k, "Content-Transfer-Encoding"), {"Content-Transfer-Encoding"})
    BY RemovesAll, Zenon
  <1>2. Removes(k, RemoveAllNamed(k, "Content-Transfer-Encoding"), PartNames)
    BY <1>1, ChangesMore, Zenon DEF Removes, PartNames
  <1> QED
    BY <1>2, ImprovesRemoves, Zenon

\* Adding a field where there is none.
LEMMA ImprovesAdd ==
  ASSUME NEW k, Shaped(k), NEW fn \in PartNames, Named(k, fn) = {}, NEW v,
         ReadShape([name |-> fn, err |-> "", val |-> v])
  PROVE  Improves(k, AddField(k, fn, v))
  <1> DEFINE l == AddField(k, fn, v)
  <1>1. Changes(k, l, {fn}) /\ OneValid(l, fn) /\ ~l.verified
    BY AddsOne, Zenon
  <1> HIDE DEF l
  <1>2. Changes(k, l, PartNames)
    BY <1>1, ChangesMore, Zenon
  <1>3. \A gn : gn # fn => SameFields(k, l, gn)
    BY <1>1, Zenon DEF Changes, Frame
  <1>4. \A gn : Single(k, gn) => Single(l, gn)
    BY <1>1, <1>3, Zenon DEF SameFields, Single, OneValid
  <1>5. \A p \in DOMAIN l.Fields :
          \/ l.Fields[p].err = ""
          \/ /\ p \in DOMAIN k.Fields /\ k.Fields[p].name = l.Fields[p].name
             /\ k.Fields[p].err = l.Fields[p].err
    <2> SUFFICES ASSUME NEW p \in DOMAIN l.Fields, l.Fields[p].err # ""
                 PROVE  /\ p \in DOMAIN k.Fields /\ k.Fields[p].name = l.Fields[p].name
                        /\ k.Fields[p].err = l.Fields[p].err
      BY Zenon
    <2>1. l.Fields[p].name # fn
      BY <1>1, Zenon DEF OneValid, Named
    <2>2. SameFields(k, l, l.Fields[p].name)
      BY <1>3, <2>1, Zenon
    <2> QED
      BY <2>2, Zenon DEF SameFields, Named
  <1> QED
    BY <1>1, <1>2, <1>4, <1>5, Zenon DEF Improves, l

\* Changing the value of a field.
LEMMA ImprovesSet ==
  ASSUME NEW k, Shaped(k), NEW p \in DOMAIN k.Fields, NEW f, ReadShape(f),
         f.name = k.Fields[p].name, f.name \in PartNames, f.err = k.Fields[p].err
  PROVE  Improves(k, SetField(k, p, f))
  <1> DEFINE l == SetField(k, p, f)
  <1>0. HeaderOK(k) /\ f = [name |-> f.name, err |-> f.err, val |-> f.val]
    BY Zenon DEF Shaped, ReadShape, FieldShape
  <1>1. Changes(k, l, {f.name})
    BY ChangesSet, Zenon
  <1>2. /\ DOMAIN l.Fields = DOMAIN k.Fields /\ l.Fields[p] = f
        /\ \A q \in DOMAIN k.Fields : q # p => l.Fields[q] = k.Fields[q]
    BY <1>0, Zenon DEF SetField, HeaderOK
  <1>6. l.verified = k.verified /\ l.err = k.err
    BY <1>0, Zenon DEF SetField, HeaderOK
  <1> HIDE DEF l
  <1>7. \A fn : Named(l, fn) = Named(k, fn)
    BY <1>2, Zenon DEF Named
  <1>3. Changes(k, l, PartNames)
    BY <1>1, ChangesMore, Zenon
  <1>4. \A q \in DOMAIN l.Fields : /\ q \in DOMAIN k.Fields /\ k.Fields[q].name = l.Fields[q].name
                                   /\ k.Fields[q].err = l.Fields[q].err
    BY <1>2, Zenon
  <1>5. \A fn : Single(k, fn) => Single(l, fn)
    BY <1>7, Zenon DEF Single
  <1> QED
    BY <1>3, <1>4, <1>5, <1>6, Zenon DEF Improves, l

\* cte.Encoding = e.
LEMMA UseEncodingImproves ==
  ASSUME NEW k, Shaped(k), NEW e
  PROVE  Improves(k, UseEncoding(k, e))
  <1> DEFINE fn == "Content-Transfer-Encoding"
             p == field(k, fn, 0)
             f == k.Fields[p]
             v == [f.val EXCEPT !.enc = e]
             x == Encoding(e, e)
             g == [f EXCEPT !.val = v]
  <1>0. HeaderOK(k) /\ fn \in PartNames
    BY Zenon DEF Shaped, PartNames
  <1>1. CASE p = Nil
    <2>1. Named(k, fn) = {}
      BY <1>0, <1>1, NilField, Zenon
    <2>2. ReadShape([name |-> fn, err |-> "", val |-> x])
      BY Zenon DEF ReadShape, FieldShape, AddressNames, addressFieldNames
    <2>3. UseEncoding(k, e) = AddField(k, fn, x)
      BY <1>1, Zenon DEF UseEncoding
    <2> HIDE DEF x
    <2> QED
      BY <1>0, <2>1, <2>2, <2>3, ImprovesAdd, Zenon
  <1>2. CASE p # Nil
    <2>1. Named(k, fn) # {}
      BY <1>0, <1>2, NilField, Zenon
    <2>2. p \in Named(k, fn)
      BY <1>0, <2>1, FieldFound, Zenon
    <2>3. p \in DOMAIN k.Fields /\ f.name = fn /\ f = [name |-> f.name, err |-> f.err, val |-> f.val]
      BY <1>0, <2>2, Zenon DEF Named, HeaderOK
    <2>4. UseEncoding(k, e) = SetField(k, p, g)
      BY <1>2, Zenon DEF UseEncoding
    <2> HIDE DEF f, v
    <2>5. g = [name |-> f.name, err |-> f.err, val |-> v]
      BY <2>3, WithValue, Zenon
    <2> HIDE DEF g
    <2>6. g.name = fn /\ g.err = f.err /\ g = [name |-> g.name, err |-> g.err, val |-> g.val]
      BY <2>3, <2>5, Zenon
    <2>7. ReadShape(g)
      BY <2>6, Zenon DEF ReadShape, FieldShape, AddressNames, addressFieldNames
    <2> QED
      BY <1>0, <2>3, <2>4, <2>6, <2>7, ImprovesSet, Zenon DEF f
  <1> QED
    BY <1>1, <1>2, Zenon


\* A header with no Content-Type is given one.
LEMMA AddDefaultTypeImproves ==
  ASSUME NEW k, Shaped(k)
  PROVE  /\ Improves(k, AddDefaultType(k))
         /\ Named(AddDefaultType(k), "Content-Type") # {}
  <1> DEFINE fn == "Content-Type"
             t == IF k.defaultType = "text/plain"
                  THEN [type |-> "text", subtype |-> "plain", params |-> [n \in {} |-> ""], raw |-> ""]
                  ELSE [type |-> "message", subtype |-> "rfc822", params |-> [n \in {} |-> ""], raw |-> ""]
  <1>0. HeaderOK(k) /\ fn \in PartNames
    BY Zenon DEF Shaped, PartNames
  <1>1. CASE ContentType(k) # Nil
    <2>1. AddDefaultType(k) = k
      BY <1>1, Zenon DEF AddDefaultType
    <2> QED
      BY <1>0, <1>1, <2>1, NilField, ImprovesSelf, Zenon DEF ContentType
  <1>2. CASE ContentType(k) = Nil
    <2>1. AddDefaultType(k) = AddField(k, fn, t)
      BY <1>2, Zenon DEF AddDefaultType
    <2>2. Named(k, fn) = {}
      BY <1>0, <1>2, NilField, Zenon DEF ContentType
    <2>3. TypeShape(t)
      BY Zenon DEF TypeShape
    <2> HIDE DEF t
    <2>4. ReadShape([name |-> fn, err |-> "", val |-> t])
      BY <2>3, Zenon DEF ReadShape, FieldShape, AddressNames, addressFieldNames
    <2>5. Improves(k, AddField(k, fn, t))
      BY <1>0, <2>2, <2>4, ImprovesAdd, Zenon
    <2>6. Named(AddField(k, fn, t), fn) # {}
      BY <2>2, <2>4, AddsOne, Zenon
    <2> QED
      BY <2>1, <2>5, <2>6, Zenon
  <1> QED
    BY <1>1, <1>2, Zenon

\* The value of a Subject that did not parse.
LEMMA DecodeSubjectsImproves ==
  ASSUME NEW k, Shaped(k), NEW b
  PROVE  /\ Improves(k, DecodeSubjects(k, b))
         /\ DOMAIN DecodeSubjects(k, b).Fields = DOMAIN k.Fields
         /\ \A p \in DOMAIN k.Fields : k.Fields[p].name # "Subject" =>
               DecodeSubjects(k, b).Fields[p] = k.Fields[p]
  <1> DEFINE D == DOMAIN k.Fields
             G == [p \in D |-> IF b.charset = "gb2312" /\ p \in InvalidOnes(k, "Subject")
                               THEN [k.Fields[p] EXCEPT !.val = "decoded"] ELSE k.Fields[p]]
             l == DecodeSubjects(k, b)
  <1>0. HeaderOK(k) /\ AddressFieldsMerged(k) /\ \A p \in D : ReadShape(k.Fields[p])
    BY Zenon DEF Shaped
  <1>1. ASSUME NEW p \in D
        PROVE  /\ G[p].name = k.Fields[p].name /\ G[p].err = k.Fields[p].err
               /\ G[p] = [name |-> G[p].name, err |-> G[p].err, val |-> G[p].val]
               /\ G[p].name # "Subject" => G[p] = k.Fields[p]
               /\ ReadShape(G[p])
    <2> DEFINE f == k.Fields[p]
               g == [f EXCEPT !.val = "decoded"]
    <2>1. f = [name |-> f.name, err |-> f.err, val |-> f.val] /\ ReadShape(f)
      BY <1>0, Zenon DEF HeaderOK
    <2>2. CASE b.charset = "gb2312" /\ p \in InvalidOnes(k, "Subject")
      <3>1. G[p] = g /\ f.name = "Subject"
        BY <2>2, Zenon DEF InvalidOnes, Named
      <3> HIDE DEF f, G
      <3>2. g = [name |-> f.name, err |-> f.err, val |-> "decoded"]
        BY <2>1, WithValue, Zenon
      <3> HIDE DEF g
      <3>3. g.name = "Subject" /\ g.err = f.err /\ g = [name |-> g.name, err |-> g.err, val |-> g.val]
        BY <3>1, <3>2
      <3>4. ReadShape(g)
        BY <3>3, Zenon DEF ReadShape, FieldShape, AddressNames, addressFieldNames
      <3> QED
        BY <3>1, <3>3, <3>4, Zenon DEF f
    <2>3. CASE ~(b.charset = "gb2312" /\ p \in InvalidOnes(k, "Subject"))
      <3>1. G[p] = f
        BY <2>3, Zenon
      <3> HIDE DEF G
      <3> QED
        BY <2>1, <3>1, Zenon
    <2> QED
      BY <2>2, <2>3, Zenon
  <1>2. DOMAIN G = D
    BY Zenon
  <1>3. l = [k EXCEPT !.Fields = G]
    BY Zenon DEF DecodeSubjects
  <1> HIDE DEF G
  <1>4. /\ l.Fields = G /\ l.verified = k.verified /\ l.err = k.err
        /\ l.mode = k.mode /\ l.defaultType = k.defaultType
    BY <1>0, <1>3, Zenon DEF HeaderOK
  <1>5. HeaderOK(l)
    BY <1>0, <1>1, <1>2, <1>3, Zenon DEF HeaderOK
  <1> HIDE DEF l
  <1>6. \A fn : Named(l, fn) = Named(k, fn)
    BY <1>1, <1>2, <1>4, Zenon DEF Named
  <1>7. \A fn : fn # "Subject" => SameFields(k, l, fn)
    BY <1>1, <1>4, <1>6, Zenon DEF SameFields, Named
  <1>8. Shaped(l)
    BY <1>0, <1>1, <1>2, <1>4, <1>5, Zenon DEF Shaped, AddressFieldsMerged
  <1>9. Changes(k, l, PartNames)
    BY <1>4, <1>5, <1>7, <1>8, Zenon DEF Changes, Frame, PartNames
  <1>10. \A fn : Single(k, fn) => Single(l, fn)
    BY <1>6, Zenon DEF Single
  <1>11. Improves(k, l)
    BY <1>1, <1>2, <1>4, <1>9, <1>10, Zenon DEF Improves
  <1> QED
    BY <1>1, <1>2, <1>4, <1>11, Zenon DEF l

\* parseBodypart as a whole.
LEMMA parseBodypartImproves ==
  ASSUME NEW k, Shaped(k), NEW b
  PROVE  Improves(k, parseBodypart(k, b))
  <1> DEFINE cte == "Content-Transfer-Encoding"
             d == DropEquivalentEncodings(k, b)
             m == Typed(k, b)
  <1>1. Improves(k, d)
    BY ImprovesSelf, ImprovesRemoveAll, Zenon DEF DropEquivalentEncodings
  <1>2. Improves(k, m) /\ Named(m, "Content-Type") # {} /\ Shaped(m)
    <2>1. m = AddDefaultType(d)
      BY Zenon DEF Typed
    <2> HIDE DEF d, m
    <2>2. Shaped(d)
      BY <1>1, Zenon DEF Improves, Changes
    <2>3. Improves(d, m) /\ Named(m, "Content-Type") # {}
      BY <2>1, <2>2, AddDefaultTypeImproves, Zenon
    <2>4. Improves(k, m)
      BY <1>1, <2>3, ImprovesChain, Zenon
    <2> QED
      BY <2>3, <2>4, Zenon DEF Improves, Changes
  <1>3. parseBodypart(k, b) \in {EncodeText(m, b), EncodeData(m, b)}
    BY Zenon DEF parseBodypart
  <1> HIDE DEF m
  <1>4. Improves(m, EncodeData(m, b))
    <2>1. EncodeData(m, b) \in {m, RemoveAllNamed(m, cte), UseEncoding(m, "base64")}
      BY Zenon DEF EncodeData
    <2> QED
      BY <1>2, <2>1, ImprovesSelf, ImprovesRemoveAll, UseEncodingImproves, Zenon
  <1>5. Improves(m, EncodeText(m, b))
    <2> DEFINE p == ContentType(m)
               f == m.Fields[p]
               ct == f.val
               v == IF b.charset = "us-ascii" THEN removeParameter(ct, "charset")
                    ELSE addParameter(ct, "charset", b.charset)
               g == [f EXCEPT !.val = v]
               s == DecodeSubjects(m, b)
               l == SetField(s, p, g)
    <2>1. HeaderOK(m)
      BY <1>2, Zenon DEF Shaped
    <2>2. p \in Named(m, "Content-Type")
      BY <1>2, <2>1, FieldFound, Zenon DEF ContentType
    <2>3. /\ p \in DOMAIN m.Fields /\ f.name = "Content-Type"
          /\ f = [name |-> f.name, err |-> f.err, val |-> f.val] /\ ReadShape(f)
      BY <1>2, <2>1, <2>2, Zenon DEF Named, HeaderOK, Shaped
    <2>4. TypeShape(ct)
      BY <2>3, Zenon DEF ReadShape, FieldShape
    <2>5. EncodeText(m, b) \in {UseEncoding(l, "quoted-printable"), RemoveAllNamed(l, cte)}
      BY Zenon DEF EncodeText
    <2>6. /\ Improves(m, s) /\ DOMAIN s.Fields = DOMAIN m.Fields /\ s.Fields[p] = f
      BY <1>2, <2>3, DecodeSubjectsImproves, Zenon
    <2> HIDE DEF f, ct, s, p
    <2>7. TypeShape(v)
      <3>1. TypeShape(addParameter(ct, "charset", b.charset))
        BY <2>4, AddParameterProperties, Zenon
      <3>2. TypeShape(removeParameter(ct, "charset"))
        BY <2>4 DEF TypeShape, removeParameter
      <3> QED
        BY <3>1, <3>2, Zenon
    <2> HIDE DEF v
    <2>8. g = [name |-> f.name, err |-> f.err, val |-> v]
      BY <2>3, WithValue, Zenon
    <2> HIDE DEF g
    <2>9. /\ g.name = "Content-Type" /\ g.err = f.err /\ g.val = v
          /\ g = [name |-> g.name, err |-> g.err, val |-> g.val]
      BY <2>3, <2>8, Zenon
    <2>10. ReadShape(g)
      BY <2>7, <2>9, Zenon DEF ReadShape, FieldShape, AddressNames, addressFieldNames
    <2>11. Shaped(s)
      BY <2>6, Zenon DEF Improves, Changes
    <2>12. Improves(s, l)
      BY <2>3, <2>6, <2>9, <2>10, <2>11, ImprovesSet, Zenon DEF PartNames
    <2> HIDE DEF l
    <2>13. Improves(m, l) /\ Shaped(l)
      BY <2>6, <2>12, ImprovesChain, Zenon DEF Improves, Changes
    <2>14. Improves(l, EncodeText(m, b))
      BY <2>5, <2>13, UseEncodingImproves, ImprovesRemoveAll, Zenon
    <2> QED
      BY <2>13, <2>14, ImprovesChain, Zenon
  <1> QED
    BY <1>2, <1>3, <1>4, <1>5, ImprovesChain, Zenon

\* Simplify keeps the values of the right kind.
LEMMA SimplifyShaped ==
  ASSUME NEW k, Shaped(k)
  PROVE  Shaped(Simplify(k)) /\ Simpler(verify(k), Simplify(k)) /\ Shaped(verify(k))
  <1> DEFINE v == verify(k)
             l == Simplify(k)
  <1>1. Sound(k)
    BY ShapedSound, Zenon
  <1>2. Simpler(v, l) /\ Shaped(v)
    BY <1>1, SimplifyProperties, ChangesVerify, Zenon DEF Changes
  <1> HIDE DEF v, l
  <1>3. Sound(l) /\ HeaderOK(l) /\ AddressFieldsMerged(l)
    BY <1>2, Zenon DEF Simpler, Sound
  <1>4. ASSUME NEW p \in DOMAIN l.Fields PROVE ReadShape(l.Fields[p])
    <2> DEFINE f == l.Fields[p]
               fn == f.name
    <2>1. f = [name |-> f.name, err |-> f.err, val |-> f.val]
      BY <1>3, Zenon DEF HeaderOK
    <2>2. /\ fn \in addressFieldNames => f.val \in Seq(Address)
          /\ fn = "Content-Type" => TypeShape(f.val)
      BY <1>3, Zenon DEF Sound
    <2>3. FieldShape(f)
      BY <2>1, <2>2, Zenon DEF FieldShape
    <2>4. CASE fn \in addressFieldNames \cup Rewritten
      <3>1. fn \notin {"Message-ID", "Content-ID", "Resent-Message-ID", "References",
                       "Errors-To", "X-From-Line", "Return-Receipt-To",
                       "Disposition-Notification-To", "Received"}
        BY <2>4, Zenon DEF addressFieldNames, Rewritten
      <3> HIDE DEF f
      <3>2. fn \in AddressNames => fn \in addressFieldNames
        BY <3>1, Zenon DEF AddressNames
      <3>3. ReadShape(f)
        BY <2>2, <2>3, <3>1, <3>2, Zenon DEF ReadShape
      <3> QED
        BY <3>3, Zenon DEF f
    <2>5. CASE fn \notin addressFieldNames \cup Rewritten
      <3>1. f.val = v.Fields[p].val /\ p \in Named(l, fn) /\ Named(l, fn) \subseteq Named(v, fn)
        BY <1>2, <2>5, Zenon DEF Simpler, Named
      <3>2. ReadShape(v.Fields[p]) /\ v.Fields[p].name = fn
        BY <1>2, <3>1, Zenon DEF Shaped, Named
      <3> HIDE DEF f
      <3>3. ReadShape(f)
        BY <2>3, <3>1, <3>2, Zenon DEF ReadShape
      <3> QED
        BY <3>3, Zenon DEF f
    <2> QED
      BY <2>4, <2>5, Zenon
  <1> QED
    BY <1>2, <1>3, <1>4, Zenon DEF Shaped, l, v

=============================================================================
