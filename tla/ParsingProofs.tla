--------------------------- MODULE ParsingProofs ---------------------------
(***************************************************************************)
(* Parts and tokens.  First parseMultipart, for every body: the parts it   *)
(* stores are numbered in order, not empty and disjoint; no line of text   *)
(* between the first delimiter and the end is lost; and nothing else gets  *)
(* into a part, but for a boundary line that directly follows another.     *)
(*                                                                         *)
(* Then the parser of parser.go, for every text, every set of charsets and *)
(* any number of calls: it implements Cursor, its loops make progress and  *)
(* give back what they read in vain, and no space is written between       *)
(* encoded words.                                                          *)
(*                                                                         *)
(* Last Message.BodyPart, for every tree and any sequence of calls: the    *)
(* numbers of siblings stay in order, and a lookup finds what is there.    *)
(***************************************************************************)
EXTENDS Multipart, BodyParts, Parser, SequenceTheorems, FiniteSetTheorems, WellFoundedInduction,
        NaturalsInduction, TLAPS

(***************************************************************************)
(* parseMultipart                                                          *)
(***************************************************************************)
\* What is known between two iterations: PartsOrdered, and the part that is
\* open starts behind the last one stored and not behind the scan.
ScanInv ==
    /\ body \in Seq(LineKind)
    /\ Parts \in Seq([Number : Nat, from : Nat, to : Nat])
    /\ TypeOK
    /\ PartsOrdered
    /\ Parts # <<>> => Parts[Len(Parts)].to < partStart
    /\ partStart <= i

\* LeastOr finds the least element, or the default.
LEMMA LeastOrLeast ==
  ASSUME NEW S \in SUBSET Nat, NEW n
  PROVE  /\ S = {} => LeastOr(S, n) = n
         /\ S # {} => LeastOr(S, n) \in S /\ \A l \in S : LeastOr(S, n) <= l
  <1>1. CASE S = {}
    BY <1>1, Zenon DEF LeastOr
  <1>2. CASE S # {}
    <2> DEFINE R == OpToRel(<, Nat)
    <2>1. IsWellFoundedOn(R, Nat)
      BY NatLessThanWellFounded, Zenon
    <2>2. PICK k \in S : \A l \in S : ~(<<l, k>> \in R)
      <3> HIDE DEF R
      <3> QED
        BY <1>2, <2>1, WFMin, Zenon
    <2>3. {l \in S : l < k} = {}
      BY <2>2, Zenon DEF OpToRel
    <2>4. \A l \in S : k <= l
      BY <2>3
    <2> QED
      BY <1>2, <2>4, Zenon DEF LeastOr
  <1> QED
    BY <1>1, <1>2, Zenon

\* What the scan needs of it.
LEMMA LeastOrProperties ==
  ASSUME NEW S \in SUBSET Nat, NEW n
  PROVE  /\ S = {} => LeastOr(S, n) = n
         /\ S # {} => LeastOr(S, n) \in S
  BY LeastOrLeast, Zenon

\* The scan moves forward, within the body.
LEMMA NextLineType ==
  ASSUME body \in Seq(LineKind), NEW k \in 1..end
  PROVE  NextLine(k) \in k..end
  <1> DEFINE S == {l \in 1..Len(body) : l > k /\ body[l] # "blank"}
  <1>1. S \in SUBSET Nat /\ S \subseteq k..Len(body) /\ Len(body) \in Nat
    BY DEF end
  <1>2. NextLine(k) = LeastOr(S, end)
    BY Zenon DEF NextLine
  <1> HIDE DEF S
  <1>3. NextLine(k) \in S \/ NextLine(k) = end
    BY <1>1, <1>2, LeastOrProperties
  <1>4. end = Len(body) + 1
    BY Zenon DEF end
  <1>5. CASE NextLine(k) \in S
    <2>1. NextLine(k) \in k..Len(body)
      BY <1>1, <1>5, Zenon
    <2> QED
      BY <1>1, <1>4, <2>1
  <1>6. CASE NextLine(k) = end
    BY <1>1, <1>4, <1>6
  <1> QED
    BY <1>3, <1>5, <1>6, Zenon

\* A header ends where it starts or later, and within the body.
LEMMA AfterHeaderType ==
  ASSUME body \in Seq(LineKind), NEW k \in 1..end
  PROVE  AfterHeader(k) \in k..end
  <1> DEFINE S == {l \in 1..Len(body) : l >= k /\ body[l] # "field"}
             stop == LeastOr(S, end)
  <1>1. S \in SUBSET Nat /\ S \subseteq k..Len(body) /\ Len(body) \in Nat
    BY DEF end
  <1>2. AfterHeader(k) = IF stop < end /\ body[stop] = "blank" THEN stop + 1 ELSE stop
    BY Zenon DEF AfterHeader
  <1> HIDE DEF S
  <1>3. stop \in S \/ stop = end
    BY <1>1, LeastOrProperties, Zenon
  <1> HIDE DEF stop
  <1>e. end = Len(body) + 1
    BY Zenon DEF end
  <1>4. stop \in k..end
    <2>1. CASE stop \in S
      <3>1. stop \in k..Len(body)
        BY <1>1, <2>1, Zenon
      <3> QED
        BY <1>1, <1>e, <3>1
    <2>2. CASE stop = end
      BY <1>1, <1>e, <2>2
    <2> QED
      BY <1>3, <2>1, <2>2, Zenon
  <1> QED
    BY <1>1, <1>2, <1>4 DEF end

\* parseMultipart starts with no part and none open.
LEMMA ScanInitInv == SplitInit => ScanInv
  <1> SUFFICES ASSUME SplitInit PROVE ScanInv
    BY Zenon
  <1>1. body \in Seq(LineKind)
    BY BodiesAssumption, Zenon DEF SplitInit
  <1>2. Len(body) \in Nat
    BY <1>1
  <1>3. Parts = <<>> /\ i = 1 /\ partStart = 0 /\ last = FALSE /\ phase = "scan"
    BY Zenon DEF SplitInit
  <1>4. Parts \in Seq([Number : Nat, from : Nat, to : Nat]) /\ DOMAIN Parts = {}
    BY <1>3
  <1>5. PartsOrdered
    BY <1>4, Zenon DEF PartsOrdered
  <1>6. 1 \in 1..end /\ 0 \in 0..end
    BY <1>2 DEF end
  <1>7. TypeOK
    BY <1>3, <1>4, <1>6, Zenon DEF TypeOK
  <1> QED
    BY <1>1, <1>3, <1>4, <1>5, <1>7 DEF ScanInv

\* Skipping a line only moves the scan forward.
LEMMA SkipInv == ScanInv /\ Skip => ScanInv'
  <1> SUFFICES ASSUME ScanInv, Skip PROVE ScanInv'
    BY Zenon
  <1>1. body \in Seq(LineKind) /\ i \in 1..end /\ partStart \in 0..end /\ partStart <= i
    BY Zenon DEF ScanInv, TypeOK
  <1>2. i' \in i..end
    BY <1>1, NextLineType, Zenon DEF Skip
  <1>3. i' \in 1..end /\ partStart <= i'
    BY <1>1, <1>2 DEF end
  <1>4. UNCHANGED <<body, partStart, last, Parts, phase>> /\ end' = end
    BY Zenon DEF Skip, end
  <1> QED
    BY <1>3, <1>4, Zenon DEF ScanInv, TypeOK, PartsOrdered

\* Where the scan goes after a boundary line.
Onward == IF After >= end THEN end ELSE NextLine(After)

\* After a boundary the scan and the next part start behind it.
LEMMA AfterType ==
  ASSUME body \in Seq(LineKind), i \in 1..end
  PROVE  /\ After \in 1..end /\ i - 1 < After /\ i <= After
         /\ Onward \in 1..end /\ After <= Onward
  <1>1. Len(body) \in Nat
    OBVIOUS
  <1>2. After \in 1..end /\ i - 1 < After /\ i <= After
    BY <1>1 DEF After, end
  <1>3. NextLine(After) \in After..end
    BY <1>2, NextLineType, Zenon
  <1> QED
    BY <1>1, <1>2, <1>3 DEF Onward, end

\* A boundary without a part before it only opens one.
LEMMA OpenInv == ScanInv /\ Open => ScanInv'
  <1> SUFFICES ASSUME ScanInv, Open PROVE ScanInv'
    BY Zenon
  <1>1. body \in Seq(LineKind) /\ i \in 1..end /\ partStart \in 0..end /\ partStart <= i
    BY Zenon DEF ScanInv, TypeOK
  <1>2. i' = Onward /\ partStart' = After /\ last' \in BOOLEAN
    BY Zenon DEF Open, Onward
  <1>3. i' \in 1..end /\ partStart' \in 1..end /\ i <= partStart' /\ partStart' <= i'
    BY <1>1, <1>2, AfterType, Zenon
  <1>4. UNCHANGED <<body, Parts, phase>> /\ end' = end
    BY Zenon DEF Open, end
  <1>5. Parts # <<>> => Parts[Len(Parts)].to < partStart'
    <2> SUFFICES ASSUME Parts # <<>> PROVE Parts[Len(Parts)].to < partStart'
      BY Zenon
    <2>1. /\ Parts \in Seq([Number : Nat, from : Nat, to : Nat])
          /\ Parts[Len(Parts)].to < partStart
      BY Zenon DEF ScanInv
    <2>2. Parts[Len(Parts)] \in [Number : Nat, from : Nat, to : Nat]
      <3>1. Len(Parts) \in Nat /\ Len(Parts) # 0
        BY <2>1, EmptySeq, Zenon
      <3>2. Len(Parts) \in 1..Len(Parts)
        BY <3>1
      <3> QED
        BY <2>1, <3>2, ElementOfSeq, Zenon
    <2>3. Parts[Len(Parts)].to \in Nat
      BY <2>2, Zenon
    <2> QED
      BY <1>1, <1>3, <2>1, <2>3 DEF end
  <1>6. partStart' \in 0..end
    BY <1>3
  <1> QED
    BY <1>2, <1>3, <1>4, <1>5, <1>6, Zenon DEF ScanInv, TypeOK, PartsOrdered

\* The part stored lies between the last one and the boundary at i.
LEMMA StoreInv == ScanInv /\ Store => ScanInv'
  <1> SUFFICES ASSUME ScanInv, Store PROVE ScanInv'
    BY Zenon
  <1> DEFINE n == Len(Parts)
             new == [Number |-> n + 1, from |-> AfterHeader(partStart), to |-> i - 1]
  <1>1. /\ body \in Seq(LineKind) /\ i \in 1..end /\ partStart \in 1..end
        /\ Len(body) \in Nat /\ end = Len(body) + 1
    BY DEF ScanInv, TypeOK, Store, end
  <1>2. i' = Onward /\ partStart' = After /\ last' \in BOOLEAN /\ Parts' = Append(Parts, new)
    BY Zenon DEF Store, Onward
  <1>3. i' \in 1..end /\ partStart' \in 0..end /\ i - 1 < partStart' /\ partStart' <= i'
    BY <1>1, <1>2, AfterType
  <1>4. UNCHANGED <<body, phase>> /\ end' = end
    BY Zenon DEF Store, end
  <1>5. AfterHeader(partStart) \in partStart..end
    BY <1>1, AfterHeaderType, Zenon
  <1>6. AfterHeader(partStart) < i
    BY <1>1, <1>5 DEF Store, PartEmpty
  <1>7. /\ new \in [Number : Nat, from : Nat, to : Nat] /\ n \in Nat
        /\ new.Number = n + 1 /\ new.from \in 1..end /\ new.to \in 1..Len(body)
        /\ new.from <= new.to /\ partStart <= new.from /\ new.to < partStart'
    BY <1>1, <1>3, <1>5, <1>6 DEF ScanInv
  <1> HIDE DEF new
  <1>8. /\ Parts' \in Seq([Number : Nat, from : Nat, to : Nat])
        /\ Parts' # <<>> /\ Len(Parts') = n + 1 /\ DOMAIN Parts' = 1..(n + 1)
        /\ Parts'[n + 1] = new /\ \A k \in 1..n : Parts'[k] = Parts[k]
        /\ DOMAIN Parts = 1..n
    BY <1>2, <1>7 DEF ScanInv
  <1>9. n > 0 => Parts[n].to \in Nat /\ Parts[n].to < new.from
    <2> SUFFICES ASSUME n > 0 PROVE Parts[n].to \in Nat /\ Parts[n].to < new.from
      BY Zenon
    <2>0. Parts \in Seq([Number : Nat, from : Nat, to : Nat])
      BY Zenon DEF ScanInv
    <2>1. Parts # <<>> /\ Parts[n] \in [Number : Nat, from : Nat, to : Nat]
      <3>1. n \in 1..Len(Parts)
        BY <1>7
      <3>2. Parts # <<>>
        BY <3>1
      <3> QED
        BY <2>0, <3>1, <3>2, ElementOfSeq, Zenon
    <2>2. Parts[n].to \in Nat /\ Parts[n].to < partStart
      BY <2>1, Zenon DEF ScanInv
    <2> QED
      BY <1>1, <1>7, <2>2
  <1>10. PartsOrdered'
    <2> SUFFICES ASSUME NEW k \in 1..(n + 1)
                 PROVE  /\ Parts'[k].Number = k /\ Parts'[k].from <= Parts'[k].to
                        /\ k > 1 => Parts'[k - 1].to < Parts'[k].from
      BY <1>8, Zenon DEF PartsOrdered
    <2>1. CASE k = n + 1
      BY <1>7, <1>8, <1>9, <2>1
    <2>2. CASE k \in 1..n
      <3>1. /\ Parts[k].Number = k /\ Parts[k].from <= Parts[k].to
            /\ k > 1 => Parts[k - 1].to < Parts[k].from
        BY <1>8, <2>2, Zenon DEF ScanInv, PartsOrdered
      <3>2. Parts'[k] = Parts[k]
        BY <1>8, <2>2, Zenon
      <3>3. k > 1 => Parts'[k - 1] = Parts[k - 1]
        <4> HIDE DEF n
        <4>1. k > 1 => k - 1 \in 1..n
          BY <1>7, <2>2
        <4> QED
          BY <1>8, <4>1, Zenon
      <3> HIDE DEF n
      <3> QED
        BY <3>1, <3>2, <3>3, Zenon
    <2> QED
      BY <2>1, <2>2, <1>7
  <1>11. TypeOK'
    <2>1. \A k \in 1..n : Parts'[k].from \in 1..end /\ Parts'[k].to \in 1..Len(body)
      BY <1>8, Zenon DEF ScanInv, TypeOK
    <2>2. \A k \in 1..(n + 1) : Parts'[k].from \in 1..end /\ Parts'[k].to \in 1..Len(body)
      BY <1>7, <1>8, <2>1
    <2> QED
      BY <1>2, <1>3, <1>4, <1>8, <2>2, Zenon DEF ScanInv, TypeOK
  <1> QED
    BY <1>1, <1>3, <1>4, <1>7, <1>8, <1>10, <1>11, Zenon DEF ScanInv

\* Every iteration preserves the invariant.
LEMMA ScanStepInv == ScanInv /\ [SplitNext]_splitVars => ScanInv'
  <1> SUFFICES ASSUME ScanInv, [SplitNext]_splitVars PROVE ScanInv'
    BY Zenon
  <1>1. CASE Skip
    BY <1>1, SkipInv, Zenon
  <1>2. CASE Open
    BY <1>2, OpenInv, Zenon
  <1>3. CASE Store
    BY <1>3, StoreInv, Zenon
  <1>4. CASE Panic
    BY <1>4, Zenon DEF Panic, ScanInv, TypeOK, PartsOrdered, end
  <1>5. CASE Return
    BY <1>5, Zenon DEF Return, ScanInv, TypeOK, PartsOrdered, end
  <1>6. CASE UNCHANGED splitVars
    BY <1>6, Zenon DEF splitVars, ScanInv, TypeOK, PartsOrdered, end
  <1> QED
    BY <1>1, <1>2, <1>3, <1>4, <1>5, <1>6, Zenon DEF SplitNext

\* Whatever the body, the parts parseMultipart appends to p.Parts are numbered
\* from 1, none is empty, and each lies behind the one before it.
THEOREM MultipartOrdered == SplitSpec => [](TypeOK /\ PartsOrdered)
  <1>1. ScanInv => TypeOK /\ PartsOrdered
    BY Zenon DEF ScanInv
  <1> QED
    BY ScanInitInv, ScanStepInv, <1>1, PTL DEF SplitSpec

-----------------------------------------------------------------------------
(***************************************************************************)
(* Which lines are in a part                                               *)
(***************************************************************************)
\* Where the scan is: the line behind the boundary that opened the part is not
\* looked at, and no other boundary line was passed.
Scanned ==
    /\ partStart = 0 => \A l \in 1..(i - 1) : ~IsBoundary(l)
    /\ partStart > 0 => \A l \in (partStart + 1)..(i - 1) : ~IsBoundary(l)
    /\ partStart > 0 /\ partStart < end => partStart > 1 /\ IsBoundary(partStart - 1)
    /\ ~last => \A e \in 1..(i - 1) : body[e] = "end" => e > 1 /\ body[e - 1] = "delim"
    /\ last => partStart = end \/ (partStart > 1 /\ body[partStart - 1] = "end")
    /\ phase = "done" => last

\* The text of a part.
Wanted(l) ==
    /\ body[l] = "text"
    /\ \E d \in 1..(l - 1) : body[d] = "delim"
    /\ \A e \in 1..(l - 1) : body[e] # "end"

\* No text is lost before the part that is open.
Kept == partStart > 0 => \A l \in 1..(partStart - 1) : Wanted(l) => InPart(l)

\* The lines that NextLine passes are blank.
LEMMA NextLineSkips ==
  ASSUME body \in Seq(LineKind), NEW k \in 1..end, NEW m \in (k + 1)..(NextLine(k) - 1)
  PROVE  m \in 1..Len(body) /\ body[m] = "blank"
  <1> DEFINE S == {l \in 1..Len(body) : l > k /\ body[l] # "blank"}
             n == NextLine(k)
  <1>1. S \in SUBSET Nat /\ Len(body) \in Nat /\ end = Len(body) + 1
    BY DEF end
  <1>2. n = LeastOr(S, end) /\ n \in k..end
    BY NextLineType, Zenon DEF NextLine
  <1>3. n \in Nat /\ m \in 1..Len(body) /\ m > k /\ m < n
    <2> HIDE DEF n, S
    <2> QED
      BY <1>1, <1>2 DEF n
  <1>4. m \notin S
    <2> HIDE DEF S, n
    <2>1. S # {} => \A l \in S : n <= l
      BY <1>1, <1>2, LeastOrLeast, Zenon
    <2> QED
      BY <1>1, <1>3, <2>1
  <1> QED
    BY <1>3, <1>4, Zenon

\* A line of text is behind the header.
LEMMA AfterHeaderText ==
  ASSUME body \in Seq(LineKind), NEW k \in 1..end, NEW l \in k..Len(body), body[l] = "text"
  PROVE  AfterHeader(k) <= l
  <1> DEFINE S == {m \in 1..Len(body) : m >= k /\ body[m] # "field"}
             stop == LeastOr(S, end)
  <1>1. S \in SUBSET Nat /\ Len(body) \in Nat /\ l \in Nat /\ l \in S
    BY DEF end
  <1>2. AfterHeader(k) = IF stop < end /\ body[stop] = "blank" THEN stop + 1 ELSE stop
    BY Zenon DEF AfterHeader
  <1> HIDE DEF S
  <1>3. stop \in S /\ stop <= l
    BY <1>1, LeastOrLeast, Zenon
  <1>4. stop \in Nat
    BY <1>1, <1>3, Zenon
  <1> HIDE DEF stop
  <1>5. CASE stop = l
    BY <1>2, <1>5
  <1>6. CASE stop # l
    BY <1>1, <1>2, <1>3, <1>4, <1>6
  <1> QED
    BY <1>5, <1>6, Zenon

\* It holds at first.
LEMMA InitScanned == SplitInit => Scanned /\ Kept /\ OnlyParts
  <1> SUFFICES ASSUME SplitInit PROVE Scanned /\ Kept /\ OnlyParts
    BY Zenon
  <1>1. Parts = <<>> /\ i = 1 /\ partStart = 0 /\ last = FALSE /\ phase = "scan"
    BY Zenon DEF SplitInit
  <1>2. DOMAIN Parts = {} /\ 1..(i - 1) = {}
    BY <1>1
  <1>3. OnlyParts
    BY <1>2, Zenon DEF OnlyParts, InPart
  <1> QED
    BY <1>1, <1>2, <1>3 DEF Scanned, Kept

\* What the body says of a line does not change.
LEMMA SameBody ==
  ASSUME UNCHANGED body
  PROVE  /\ \A l : IsBoundary(l)' = IsBoundary(l)
         /\ \A l : Wanted(l)' = Wanted(l)
         /\ end' = end /\ Len(body)' = Len(body)
  BY Zenon DEF IsBoundary, Wanted, end

\* A range of lines, cut in two.
LEMMA SplitRange ==
  ASSUME NEW a \in Nat, NEW b \in Nat, NEW n \in Nat, NEW l \in n..(b - 1)
  PROVE  l \in n..(a - 1) \/ l \in a..(b - 1)
  <1>1. l \in Int /\ n <= l /\ l <= b - 1
    OBVIOUS
  <1> QED
    BY <1>1

\* Skip passes a line that is not a boundary, and blank ones.
LEMMA SkipScanned == ScanInv /\ Scanned /\ Kept /\ OnlyParts /\ Skip => Scanned' /\ Kept' /\ OnlyParts'
  <1> SUFFICES ASSUME ScanInv, Scanned, Kept, OnlyParts, Skip PROVE Scanned' /\ Kept' /\ OnlyParts'
    BY Zenon
  <1>1. /\ body \in Seq(LineKind) /\ i \in 1..end /\ partStart \in 0..end /\ partStart <= i
        /\ Len(body) \in Nat /\ end = Len(body) + 1
    BY DEF ScanInv, TypeOK, end
  <1>2. /\ i' = NextLine(i) /\ UNCHANGED <<body, partStart, last, Parts, phase>>
        /\ ~IsBoundary(i) /\ ~last /\ phase = "scan"
    BY Zenon DEF Skip, AtBoundary, IsBoundary
  <1>3. i' \in i..end
    BY <1>1, <1>2, NextLineType, Zenon
  <1>4. \A l \in i..(i' - 1) : ~IsBoundary(l)
    <2> SUFFICES ASSUME NEW l \in i..(i' - 1) PROVE ~IsBoundary(l)
      BY Zenon
    <2>1. CASE l = i
      BY <1>2, <2>1, Zenon
    <2>2. CASE l # i
      <3>1. l \in (i + 1)..(NextLine(i) - 1)
        BY <1>1, <1>2, <1>3, <2>2
      <3>2. body[l] = "blank"
        BY <1>1, <3>1, NextLineSkips, Zenon
      <3> QED
        BY <3>2, Zenon DEF IsBoundary
    <2> QED
      BY <2>1, <2>2, Zenon
  <1>5. \A l \in i..(i' - 1) : body[l] # "end"
    BY <1>4, Zenon DEF IsBoundary
  <1>6. \A n \in Nat : \A l \in n..(i' - 1) : l \in n..(i - 1) \/ l \in i..(i' - 1)
    <2>1. i \in Nat /\ i' \in Nat
      BY <1>1, <1>3
    <2> QED
      BY <2>1, SplitRange, Zenon
  <1>7. /\ \A l : IsBoundary(l)' = IsBoundary(l)
        /\ \A l : Wanted(l)' = Wanted(l)
        /\ end' = end /\ Len(body)' = Len(body)
    BY <1>2, SameBody, Zenon
  <1>8. \A l : InPart(l)' = InPart(l)
    BY <1>2, Zenon DEF InPart
  <1>9. partStart = 0 => \A l \in 1..(i' - 1) : ~IsBoundary(l)
    BY <1>4, <1>6, Zenon DEF Scanned
  <1>10. partStart > 0 => \A l \in (partStart + 1)..(i' - 1) : ~IsBoundary(l)
    <2>1. partStart + 1 \in Nat
      BY <1>1
    <2> QED
      BY <1>4, <1>6, <2>1, Zenon DEF Scanned
  <1>11. \A e \in 1..(i' - 1) : body[e] = "end" => e > 1 /\ body[e - 1] = "delim"
    BY <1>2, <1>5, <1>6, Zenon DEF Scanned
  <1>12. partStart > 0 /\ partStart < end => partStart > 1 /\ IsBoundary(partStart - 1)
    BY Zenon DEF Scanned
  <1>13. Scanned'
    BY <1>2, <1>7, <1>9, <1>10, <1>11, <1>12, Zenon DEF Scanned
  <1>14. Kept' /\ OnlyParts'
    BY <1>2, <1>7, <1>8, Zenon DEF Kept, OnlyParts
  <1> QED
    BY <1>13, <1>14, Zenon

\* At a boundary line the next part opens behind it, and one line is skipped.
LEMMA BoundaryScanned ==
  ASSUME ScanInv, Scanned, AtBoundary, ~last, phase = "scan", UNCHANGED <<body, phase>>,
         last' = (i >= end \/ body[i] = "end"), partStart' = After, i' = Onward
  PROVE  Scanned'
  <1>1. /\ body \in Seq(LineKind) /\ i \in 1..end
        /\ Len(body) \in Nat /\ end = Len(body) + 1 /\ i \in Nat /\ end \in Nat
    BY DEF ScanInv, TypeOK, end
  <1>2. /\ \A l : IsBoundary(l)' = IsBoundary(l)
        /\ end' = end
    BY SameBody, Zenon
  <1>3. CASE i = end
    <2>1. partStart' = end /\ i' = end /\ last'
      <3>1. i >= end
        BY <1>1, <1>3
      <3>2. last'
        BY <3>1, Zenon
      <3>3. After = end /\ Onward = end
        BY <1>1, <1>3 DEF After, Onward
      <3> QED
        BY <3>2, <3>3, Zenon
    <2>2. (partStart' + 1)..(i' - 1) = {} /\ partStart' > 0 /\ ~(partStart' < end)
      BY <1>1, <2>1
    <2>3. phase' = "scan"
      BY Zenon
    <2> QED
      BY <1>2, <2>1, <2>2, <2>3, Zenon DEF Scanned
  <1>4. CASE i # end
    <2>1. i \in 1..Len(body) /\ i < end
      BY <1>1, <1>4
    <2>2. IsBoundary(i) /\ partStart' = i + 1 /\ (last' <=> body[i] = "end")
      <3>1. ~(i >= end)
        BY <1>1, <2>1
      <3>2. last' <=> body[i] = "end"
        BY <3>1, Zenon
      <3>3. IsBoundary(i)
        BY <2>1, Zenon DEF AtBoundary, IsBoundary
      <3>4. After = i + 1
        BY <3>1, Zenon DEF After
      <3> QED
        BY <3>2, <3>3, <3>4, Zenon
    <2>3. i' \in Nat /\ \A l \in (i + 2)..(i' - 1) : body[l] = "blank"
      <3>1. CASE i + 1 >= end
        <4>1. i' = end
          BY <1>1, <2>1, <3>1 DEF Onward, After
        <4>2. (i + 2)..(i' - 1) = {}
          BY <1>1, <3>1, <4>1
        <4> QED
          BY <1>1, <4>1, <4>2, Zenon
      <3>2. CASE i + 1 < end
        <4>1. i' = NextLine(i + 1) /\ i + 1 \in 1..end
          BY <1>1, <2>1, <3>2 DEF Onward, After
        <4>2. i' \in (i + 1)..end
          BY <1>1, <4>1, NextLineType, Zenon
        <4>3. ASSUME NEW l \in (i + 2)..(i' - 1) PROVE body[l] = "blank"
          <5>1. l \in ((i + 1) + 1)..(NextLine(i + 1) - 1)
            BY <1>1, <4>1
          <5> QED
            BY <1>1, <4>1, <5>1, NextLineSkips, Zenon
        <4> QED
          BY <1>1, <4>2, <4>3
      <3> QED
        BY <1>1, <3>1, <3>2
    <2>4. partStart' > 0 /\ partStart' > 1 /\ partStart' - 1 = i /\ partStart' + 1 = i + 2
      BY <1>1, <2>1, <2>2
    <2>5. \A l \in (partStart' + 1)..(i' - 1) : ~IsBoundary(l)
      BY <2>3, <2>4, Zenon DEF IsBoundary
    <2>6. ASSUME ~last', NEW e \in 1..(i' - 1), body[e] = "end"
          PROVE  e > 1 /\ body[e - 1] = "delim"
      <3>1. body[i] = "delim"
        BY <2>2, <2>6, Zenon DEF IsBoundary
      <3>2. e \in 1..(i - 1) \/ e = i \/ e = i + 1 \/ e \in (i + 2)..(i' - 1)
        BY <1>1, <2>3
      <3>3. CASE e \in 1..(i - 1)
        BY <2>6, <3>3, Zenon DEF Scanned
      <3>4. CASE e = i
        BY <2>6, <3>1, <3>4, Zenon
      <3>5. CASE e = i + 1
        <4>1. e > 1 /\ e - 1 = i
          BY <1>1, <2>1, <3>5
        <4> QED
          BY <3>1, <4>1, Zenon
      <3>6. CASE e \in (i + 2)..(i' - 1)
        BY <2>3, <2>6, <3>6, Zenon
      <3> QED
        BY <3>2, <3>3, <3>4, <3>5, <3>6, Zenon
    <2>7. last' => body[partStart' - 1] = "end"
      BY <2>2, <2>4, Zenon
    <2>8. IsBoundary(partStart' - 1)
      BY <2>2, <2>4, Zenon
    <2>9. partStart' # 0 /\ phase' = "scan" /\ body' = body
      BY <2>4
    <2> QED
      BY <1>2, <2>4, <2>5, <2>6, <2>7, <2>8, <2>9, Zenon DEF Scanned
  <1> QED
    BY <1>3, <1>4, Zenon

\* Open loses no text: there was no part before.
LEMMA OpenScanned == ScanInv /\ Scanned /\ Kept /\ OnlyParts /\ Open => Scanned' /\ Kept' /\ OnlyParts'
  <1> SUFFICES ASSUME ScanInv, Scanned, Kept, OnlyParts, Open PROVE Scanned' /\ Kept' /\ OnlyParts'
    BY Zenon
  <1>1. /\ body \in Seq(LineKind) /\ i \in 1..end /\ partStart \in 0..end /\ partStart <= i
        /\ Len(body) \in Nat /\ end = Len(body) + 1 /\ i \in Nat
    BY DEF ScanInv, TypeOK, end
  <1>2. /\ AtBoundary /\ ~last /\ phase = "scan" /\ UNCHANGED <<body, phase, Parts>>
        /\ last' = (i >= end \/ body[i] = "end") /\ partStart' = After /\ i' = Onward
        /\ partStart = 0 \/ partStart >= end
    BY Zenon DEF Open, Onward
  <1>3. Scanned'
    BY <1>2, BoundaryScanned, Zenon
  <1>4. /\ \A l : IsBoundary(l)' = IsBoundary(l)
        /\ \A l : Wanted(l)' = Wanted(l)
        /\ end' = end /\ Len(body)' = Len(body)
    BY <1>2, SameBody, Zenon
  <1>5. \A l : InPart(l)' = InPart(l)
    BY <1>2, Zenon DEF InPart
  <1>6. ASSUME NEW l \in 1..(partStart' - 1), Wanted(l) PROVE InPart(l)
    <2>1. CASE partStart >= end
      <3>1. partStart = end /\ partStart' = end /\ partStart > 0
        BY <1>1, <1>2, <2>1 DEF After
      <3> QED
        BY <1>6, <3>1, Zenon DEF Kept
    <2>2. CASE partStart = 0
      <3>1. l \in 1..(i - 1) \/ (l = i /\ i \in 1..Len(body))
        BY <1>1, <1>2 DEF After
      <3>2. CASE l \in 1..(i - 1)
        <4>1. PICK d \in 1..(l - 1) : body[d] = "delim"
          BY <1>6, Zenon DEF Wanted
        <4>2. d \in 1..(i - 1)
          BY <1>1, <3>2
        <4> QED
          BY <2>2, <4>1, <4>2, Zenon DEF Scanned, IsBoundary
      <3>3. CASE l = i /\ i \in 1..Len(body)
        BY <1>2, <1>6, <3>3, Zenon DEF AtBoundary, Wanted
      <3> QED
        BY <3>1, <3>2, <3>3, Zenon
    <2> QED
      BY <1>2, <2>1, <2>2, Zenon
  <1>7. Kept'
    BY <1>4, <1>5, <1>6, Zenon DEF Kept
  <1>8. OnlyParts'
    BY <1>2, <1>4, <1>5, Zenon DEF OnlyParts
  <1> QED
    BY <1>3, <1>7, <1>8, Zenon

\* The lines that are in a part after Store.
LEMMA StoredLines ==
  ASSUME ScanInv, Store
  PROVE  \A l : InPart(l)' <=> InPart(l) \/ l \in AfterHeader(partStart)..(i - 1)
  <1> DEFINE n == Len(Parts)
             new == [Number |-> n + 1, from |-> AfterHeader(partStart), to |-> i - 1]
  <1>1. Parts' = Append(Parts, new) /\ DOMAIN Parts = 1..n /\ n \in Nat
    BY DEF Store, ScanInv
  <1>2. new.from = AfterHeader(partStart) /\ new.to = i - 1
    BY Zenon
  <1> HIDE DEF new
  <1>3. /\ DOMAIN Parts' = 1..(n + 1) /\ Parts'[n + 1] = new
        /\ \A k \in 1..n : Parts'[k] = Parts[k]
    BY <1>1 DEF ScanInv
  <1>4. \A k : k \in 1..(n + 1) <=> k \in 1..n \/ k = n + 1
    BY <1>1
  <1>5. \A l : InPart(l)' <=> \E k \in 1..(n + 1) : l \in Parts'[k].from..Parts'[k].to
    BY <1>3, Zenon DEF InPart
  <1>6. \A l : InPart(l) <=> \E k \in 1..n : l \in Parts[k].from..Parts[k].to
    BY <1>1, Zenon DEF InPart
  <1> HIDE DEF n
  <1> SUFFICES ASSUME NEW l
               PROVE  InPart(l)' <=> InPart(l) \/ l \in new.from..new.to
    BY <1>2, Zenon
  <1>7. ASSUME InPart(l)' PROVE InPart(l) \/ l \in new.from..new.to
    <2>1. PICK k \in 1..(n + 1) : l \in Parts'[k].from..Parts'[k].to
      BY <1>5, <1>7, Zenon
    <2>2. CASE k = n + 1
      BY <1>3, <2>1, <2>2, Zenon
    <2>3. CASE k \in 1..n
      BY <1>3, <1>6, <2>1, <2>3, Zenon
    <2> QED
      BY <1>4, <2>1, <2>2, <2>3, Zenon
  <1>8. ASSUME InPart(l) PROVE InPart(l)'
    <2>1. PICK k \in 1..n : l \in Parts[k].from..Parts[k].to
      BY <1>6, <1>8, Zenon
    <2>2. k \in 1..(n + 1) /\ Parts'[k] = Parts[k]
      BY <1>3, <1>4, <2>1, Zenon
    <2> QED
      BY <1>5, <2>1, <2>2, Zenon
  <1>9. ASSUME l \in new.from..new.to PROVE InPart(l)'
    <2>1. n + 1 \in 1..(n + 1)
      BY <1>4, Zenon
    <2> QED
      BY <1>3, <1>5, <1>9, <2>1, Zenon
  <1> QED
    BY <1>7, <1>8, <1>9, Zenon

\* Store puts the lines from the last boundary to this one into a part.
LEMMA StoreScanned == ScanInv /\ Scanned /\ Kept /\ OnlyParts /\ Store => Scanned' /\ Kept' /\ OnlyParts'
  <1> SUFFICES ASSUME ScanInv, Scanned, Kept, OnlyParts, Store PROVE Scanned' /\ Kept' /\ OnlyParts'
    BY Zenon
  <1>1. /\ body \in Seq(LineKind) /\ i \in 1..end /\ partStart \in 1..end
        /\ Len(body) \in Nat /\ end = Len(body) + 1 /\ i \in Nat /\ partStart \in Nat
        /\ partStart > 0 /\ partStart < end
    BY DEF ScanInv, TypeOK, end, Store
  <1>2. /\ AtBoundary /\ ~last /\ phase = "scan" /\ UNCHANGED <<body, phase>>
        /\ last' = (i >= end \/ body[i] = "end") /\ partStart' = After /\ i' = Onward
    BY Zenon DEF Store, Onward
  <1>3. Scanned'
    BY <1>2, BoundaryScanned, Zenon
  <1>4. /\ \A l : IsBoundary(l)' = IsBoundary(l)
        /\ \A l : Wanted(l)' = Wanted(l)
        /\ end' = end /\ Len(body)' = Len(body) /\ body' = body
    BY <1>2, SameBody, Zenon
  <1>5. \A l : InPart(l)' <=> InPart(l) \/ l \in AfterHeader(partStart)..(i - 1)
    BY StoredLines, Zenon
  <1>6. AfterHeader(partStart) \in partStart..end /\ AfterHeader(partStart) \in Nat
    <2>1. AfterHeader(partStart) \in partStart..end
      BY <1>1, AfterHeaderType, Zenon
    <2> QED
      BY <1>1, <2>1
  <1>7. ASSUME NEW l \in 1..(partStart' - 1), Wanted(l) PROVE InPart(l)'
    <2>1. l \in 1..(partStart - 1) \/ l \in partStart..(i - 1) \/ (l = i /\ i \in 1..Len(body))
      BY <1>1, <1>2 DEF After
    <2>2. CASE l \in 1..(partStart - 1)
      BY <1>1, <1>5, <1>7, <2>2, Zenon DEF Kept
    <2>3. CASE l \in partStart..(i - 1)
      <3>1. l \in partStart..Len(body) /\ body[l] = "text" /\ l \in Nat
        BY <1>1, <1>7, <2>3 DEF Wanted
      <3>2. AfterHeader(partStart) <= l
        BY <1>1, <3>1, AfterHeaderText, Zenon
      <3>3. l \in AfterHeader(partStart)..(i - 1)
        BY <1>1, <1>6, <2>3, <3>1, <3>2
      <3> QED
        BY <1>5, <3>3, Zenon
    <2>4. CASE l = i /\ i \in 1..Len(body)
      BY <1>2, <1>7, <2>4, Zenon DEF AtBoundary, Wanted
    <2> QED
      BY <2>1, <2>2, <2>3, <2>4, Zenon
  <1>8. Kept'
    BY <1>4, <1>7, Zenon DEF Kept
  <1>9. ASSUME NEW l \in AfterHeader(partStart)..(i - 1)
        PROVE  /\ \E d \in 1..(l - 1) : IsBoundary(d)
               /\ \A e \in 1..(l - 1) : body[e] = "end" => e > 1 /\ body[e - 1] = "delim"
               /\ IsBoundary(l) => IsBoundary(l - 1)
    <2>1. l \in Nat /\ partStart <= l /\ l < i
      BY <1>1, <1>6
    <2>2. partStart > 1 /\ IsBoundary(partStart - 1)
      BY <1>1, Zenon DEF Scanned
    <2>3. partStart - 1 \in 1..(l - 1)
      BY <1>1, <2>1, <2>2
    <2>4. \A e \in 1..(l - 1) : e \in 1..(i - 1)
      BY <1>1, <2>1
    <2>5. \A e \in 1..(l - 1) : body[e] = "end" => e > 1 /\ body[e - 1] = "delim"
      BY <1>2, <2>4, Zenon DEF Scanned
    <2>6. l = partStart \/ l \in (partStart + 1)..(i - 1)
      BY <1>1, <2>1
    <2>7. l \in (partStart + 1)..(i - 1) => ~IsBoundary(l)
      BY <1>1, Zenon DEF Scanned
    <2>8. IsBoundary(l) => IsBoundary(l - 1)
      BY <2>2, <2>6, <2>7, Zenon
    <2> QED
      BY <2>2, <2>3, <2>5, <2>8, Zenon
  <1>10. OnlyParts'
    BY <1>4, <1>5, <1>9, Zenon DEF OnlyParts
  <1> QED
    BY <1>3, <1>8, <1>10, Zenon

\* Every iteration preserves them.
LEMMA StepScanned ==
  ScanInv /\ Scanned /\ Kept /\ OnlyParts /\ [SplitNext]_splitVars => Scanned' /\ Kept' /\ OnlyParts'
  <1> SUFFICES ASSUME ScanInv, Scanned, Kept, OnlyParts, [SplitNext]_splitVars
               PROVE  Scanned' /\ Kept' /\ OnlyParts'
    BY Zenon
  <1>1. CASE Skip
    BY <1>1, SkipScanned, Zenon
  <1>2. CASE Open
    BY <1>2, OpenScanned, Zenon
  <1>3. CASE Store
    BY <1>3, StoreScanned, Zenon
  <1>4. CASE Panic \/ Return \/ UNCHANGED splitVars
    <2>1. /\ UNCHANGED <<body, i, partStart, last, Parts>>
          /\ phase' = "done" => last
      BY <1>4, Zenon DEF Panic, Return, splitVars, Scanned
    <2>2. /\ \A l : IsBoundary(l)' = IsBoundary(l)
          /\ \A l : Wanted(l)' = Wanted(l)
          /\ \A l : InPart(l)' = InPart(l)
          /\ end' = end
      BY <2>1, SameBody, Zenon DEF InPart
    <2> QED
      BY <2>1, <2>2, Zenon DEF Scanned, Kept, OnlyParts
  <1> QED
    BY <1>1, <1>2, <1>3, <1>4, Zenon DEF SplitNext

\* parseMultipart cuts at the boundary lines: when it returns, every line of
\* text behind the first delimiter and before the end line is in a part.
THEOREM MultipartLosesNothing == SplitSpec => []NothingLost
  <1>1. ScanInv /\ Scanned /\ Kept => NothingLost
    <2> SUFFICES ASSUME ScanInv, Scanned, Kept, phase = "done", NEW l \in 1..Len(body), Wanted(l)
                 PROVE  InPart(l)
      BY Zenon DEF NothingLost, Wanted
    <2>1. partStart \in 0..end /\ Len(body) \in Nat /\ end = Len(body) + 1
      BY DEF ScanInv, TypeOK, end
    <2>2. partStart = end \/ (partStart > 1 /\ body[partStart - 1] = "end")
      BY Zenon DEF Scanned
    <2>3. partStart \in Nat /\ partStart > 0
      BY <2>1, <2>2
    <2>4. l \in 1..(partStart - 1)
      <3>1. CASE partStart = end
        BY <2>1, <3>1
      <3>2. CASE partStart > 1 /\ body[partStart - 1] = "end"
        <4>1. partStart - 1 \notin 1..(l - 1)
          BY <3>2, Zenon DEF Wanted
        <4> QED
          BY <2>3, <3>2, <4>1
      <3> QED
        BY <2>2, <3>1, <3>2, Zenon
    <2> QED
      BY <2>3, <2>4, Zenon DEF Kept
  <1> QED
    BY ScanInitInv, ScanStepInv, InitScanned, StepScanned, <1>1, PTL DEF SplitSpec

\* The preamble and the epilogue are in no part, and a boundary line is in one
\* only if it follows another one, for every body.
THEOREM MultipartTakesPartsOnly == SplitSpec => []OnlyParts
  BY ScanInitInv, ScanStepInv, InitScanned, StepScanned, PTL DEF SplitSpec

-----------------------------------------------------------------------------
(***************************************************************************)
(* The parser                                                              *)
(***************************************************************************)
\* States without error, with the cursor in the text or one past its end.
Good == [at : 0..(Len(str) + 1), err : {FALSE}]

\* The marks a caller holds are below the current state and in order; during a
\* call the cursor is not before its start.
IInv ==
    /\ str \in Seq(Char)
    /\ states \in Seq(Good) /\ states # <<>>
    /\ held \in Seq(Nat)
    /\ \A k \in 1..Len(held) : held[k] \in 1..(Len(states) - 1)
    /\ \A j, k \in 1..Len(held) : j < k => held[j] < held[k]
    /\ pc # "idle" => from \in 0..Pos(states)
    /\ Encoding => start \in from..Pos(states)
    /\ pc = "words" => back \in {"text", "phrase"}

\* An index of an extended sequence is the new one or an old one.
LEMMA LastOrBefore ==
  ASSUME NEW n \in Nat, NEW k \in 1..(n + 1)
  PROVE  k = n + 1 \/ k \in 1..n
  OBVIOUS

\* MinOr takes the least.
LEMMA MinOrLeast ==
  ASSUME NEW S \in SUBSET Nat, NEW n
  PROVE  /\ S = {} => MinOr(S, n) = n
         /\ S # {} => MinOr(S, n) \in S /\ \A l \in S : MinOr(S, n) <= l
<1>1. CASE S = {}
  BY <1>1, Zenon DEF MinOr
<1>2. CASE S # {}
  <2>1. PICK k \in S : \A l \in S : ~(<<l, k>> \in OpToRel(<, Nat))
    BY <1>2, NatLessThanWellFounded, WFMin, Zenon
  <2>2. \A l \in S : ~(l < k)
    BY <2>1, Zenon DEF OpToRel
  <2>3. \A l \in S : k <= l
    BY <2>2
  <2> QED
    BY <1>2, <2>3, Zenon DEF MinOr
<1> QED
  BY <1>1, <1>2, Zenon

\* MinOr finds an element, or the default.
LEMMA MinOrIn ==
  ASSUME NEW S \in SUBSET Nat, NEW n
  PROVE  MinOr(S, n) \in S \/ MinOr(S, n) = n
  BY MinOrLeast, Zenon

-----------------------------------------------------------------------------
(***************************************************************************)
(* Where the productions end: not before they start, and at most one       *)
(* position past the end of the text.                                      *)
(***************************************************************************)
LEMMA SpanEndIn ==
  ASSUME NEW s \in Seq(Char), NEW p \in Nat, NEW C
  PROVE  SpanEnd(s, p, C) \in Nat /\ SpanEnd(s, p, C) >= p
         /\ (p <= Len(s) + 1 => SpanEnd(s, p, C) <= Len(s) + 1)
<1> DEFINE S == {e \in p..(Len(s) - 1) : NextChar(s, e) \notin C}
<1>1. Len(s) \in Nat
  OBVIOUS
<1>2. S \in SUBSET Nat /\ \A e \in S : e \in p..Len(s)
  BY <1>1
<1>3. MinOr(S, Len(s)) \in S \/ MinOr(S, Len(s)) = Len(s)
  BY <1>2, MinOrIn, Zenon
<1>4. CASE p >= Len(s)
  BY <1>1, <1>4 DEF SpanEnd
<1>5. CASE ~(p >= Len(s))
  <2>1. SpanEnd(s, p, C) = MinOr(S, Len(s))
    BY <1>5, Zenon DEF SpanEnd
  <2>2. SpanEnd(s, p, C) \in p..Len(s) \/ SpanEnd(s, p, C) = Len(s)
    BY <1>2, <1>3, <2>1, Zenon
  <2> QED
    BY <1>1, <1>5, <2>2
<1> QED
  BY <1>4, <1>5, Zenon

\* Comment() ends in the text or one past it.
LEMMA CommentEndIn ==
  ASSUME NEW s \in Seq(Char), NEW p \in 0..(Len(s) + 1)
  PROVE  CommentEnd(s, p) \in p..(Len(s) + 1)
<1> DEFINE S == {e \in p..(Len(s) - 1) :
                    NextChar(s, e) \notin White \cup {"("} /\ ~InComment(s, p, e)}
           n == IF Escapes(s, p, Len(s)) THEN Len(s) + 1 ELSE Len(s)
<1>1. Len(s) \in Nat /\ n \in {Len(s), Len(s) + 1}
  OBVIOUS
<1>2. S \in SUBSET Nat /\ \A e \in S : e \in p..Len(s)
  BY <1>1
<1>3. MinOr(S, n) \in S \/ MinOr(S, n) = n
  BY <1>2, MinOrIn, Zenon
<1>4. CASE p >= Len(s)
  BY <1>1, <1>4 DEF CommentEnd
<1>5. CASE ~(p >= Len(s))
  <2>1. CommentEnd(s, p) = MinOr(S, n)
    BY <1>5, Zenon DEF CommentEnd
  <2>2. CommentEnd(s, p) \in p..Len(s) \/ CommentEnd(s, p) \in {Len(s), Len(s) + 1}
    BY <1>1, <1>2, <1>3, <2>1, Zenon
  <2> QED
    BY <1>1, <1>5, <2>2
<1> QED
  BY <1>4, <1>5, Zenon

\* Atom() ends in the text or one past it.
LEMMA AtomEndIn ==
  ASSUME NEW s \in Seq(Char), NEW p \in 0..(Len(s) + 1)
  PROVE  /\ AtomEnd(s, p) \in p..(Len(s) + 1)
         /\ MIMETokenEnd(s, p) \in p..(Len(s) + 1)
         /\ WhitespaceEnd(s, p) \in p..(Len(s) + 1)
<1>1. Len(s) \in Nat /\ CommentEnd(s, p) \in p..(Len(s) + 1)
  BY CommentEndIn
<1>2. CommentEnd(s, p) \in Nat /\ p \in Nat
  BY <1>1
<1>3. AtomEnd(s, p) \in Nat /\ AtomEnd(s, p) >= CommentEnd(s, p) /\ AtomEnd(s, p) <= Len(s) + 1
  BY <1>1, <1>2, SpanEndIn DEF AtomEnd
<1>4. /\ MIMETokenEnd(s, p) \in Nat /\ MIMETokenEnd(s, p) >= CommentEnd(s, p)
      /\ MIMETokenEnd(s, p) <= Len(s) + 1
  BY <1>1, <1>2, SpanEndIn DEF MIMETokenEnd
<1>5. WhitespaceEnd(s, p) \in Nat /\ WhitespaceEnd(s, p) >= p /\ WhitespaceEnd(s, p) <= Len(s) + 1
  BY <1>1, <1>2, SpanEndIn DEF WhitespaceEnd
<1> QED
  BY <1>1, <1>2, <1>3, <1>4, <1>5

\* String() ends in the text or one past it.
LEMMA StringEndIn ==
  ASSUME NEW s \in Seq(Char), NEW p \in 0..(Len(s) + 1)
  PROVE  /\ StringEnd(s, p) \in p..(Len(s) + 1)
         /\ MIMEValueEnd(s, p) \in p..(Len(s) + 1)
<1> DEFINE c == CommentEnd(s, p)
           S == Unescaped(s, c + 1, Len(s), "\"")
           n == IF Escapes(s, c + 1, Len(s)) THEN Len(s) + 1 ELSE Len(s)
<1>1. Len(s) \in Nat /\ c \in p..(Len(s) + 1) /\ n \in {Len(s), Len(s) + 1}
  BY CommentEndIn
<1>2. S \in SUBSET Nat /\ \A e \in S : e \in c..Len(s)
  <2>1. c \in Nat
    BY <1>1
  <2>2. \A e \in S : e \in (c + 1 + 1)..Len(s)
    BY Zenon DEF Unescaped
  <2> HIDE DEF c, S
  <2> QED
    BY <1>1, <2>1, <2>2
<1>3. MinOr(S, n) \in S \/ MinOr(S, n) = n
  BY <1>2, MinOrIn, Zenon
<1>4. QuotedEnd(s, c + 1) = MinOr(S, n)
  BY Zenon DEF QuotedEnd
<1>5. ASSUME NextChar(s, c) = "\"" PROVE QuotedEnd(s, c + 1) \in p..(Len(s) + 1)
  <2>1. c < Len(s)
    BY <1>5, Zenon DEF NextChar
  <2>2. QuotedEnd(s, c + 1) \in c..Len(s) \/ QuotedEnd(s, c + 1) \in {Len(s), Len(s) + 1}
    BY <1>1, <1>2, <1>3, <1>4, Zenon
  <2> HIDE DEF c
  <2> QED
    BY <1>1, <2>1, <2>2
<1>6. StringEnd(s, p) \in p..(Len(s) + 1)
  BY <1>5, AtomEndIn, Zenon DEF StringEnd
<1> QED
  BY <1>6, AtomEndIn, Zenon DEF MIMEValueEnd

\* An encoded word is in the text.
LEMMA EncodedWordEndIn ==
  ASSUME NEW s \in Seq(Char), NEW p \in 0..(Len(s) + 1), NEW t, NEW known
  PROVE  /\ EncodedWordEnd(s, p, t, known) \in p..(Len(s) + 1)
<1> DEFINE c == SpanEnd(s, p + 2, CharsetChars)
           e == SpanEnd(s, c + 3, WordChars(t, NextChar(s, c + 1)))
<1>1. Len(s) \in Nat /\ p \in Nat /\ c \in Nat /\ c >= p + 2
  BY SpanEndIn
<1>2. e \in Nat /\ e >= c + 3
  BY <1>1, SpanEndIn
<1>3. Len(<<"?", "=">>) = 2
  BY Zenon
<1>4. \/ EncodedWordEnd(s, p, t, known) = p
      \/ EncodedWordEnd(s, p, t, known) = e + 2 /\ PresentAt(s, e, <<"?", "=">>)
  <2> DEFINE found ==
                 /\ PresentAt(s, p, <<"=", "?">>)
                 /\ PresentAt(s, c, <<"?">>)
                 /\ NextChar(s, c + 1) \in {"q", "b"}
                 /\ PresentAt(s, c + 2, <<"?">>)
                 /\ PresentAt(s, e, <<"?", "=">>)
                 /\ SubSeq(s, p + 3, c) \in known
  <2>1. EncodedWordEnd(s, p, t, known) = IF found THEN e + 2 ELSE p
    BY Zenon DEF EncodedWordEnd
  <2>2. found => PresentAt(s, e, <<"?", "=">>)
    BY Zenon
  <2> HIDE DEF found, c, e
  <2>3. CASE found
    BY <2>1, <2>2, <2>3, Zenon
  <2>4. CASE ~found
    BY <2>1, <2>4, Zenon
  <2> QED
    BY <2>3, <2>4, Zenon
<1> HIDE DEF c, e
<1>5. PresentAt(s, e, <<"?", "=">>) => e + 2 <= Len(s)
  BY <1>2, <1>3, Zenon DEF PresentAt
<1> QED
  BY <1>1, <1>2, <1>4, <1>5

\* A run that is not empty ends behind one of its characters.
LEMMA SpanEndBehind ==
  ASSUME NEW s \in Seq(Char), NEW p \in Nat, NEW C, SpanEnd(s, p, C) # p
  PROVE  s[SpanEnd(s, p, C)] \in C
<1> DEFINE S == {e \in p..(Len(s) - 1) : NextChar(s, e) \notin C}
           e == MinOr(S, Len(s))
<1>1. Len(s) \in Nat /\ p < Len(s) /\ SpanEnd(s, p, C) = e
  BY DEF SpanEnd
<1>2. S \in SUBSET Nat
  BY <1>1
<1>3. e \in S \/ e = Len(s)
  BY <1>2, MinOrLeast, Zenon
<1>4. e \in Nat /\ p < e /\ e <= Len(s)
  BY <1>1, <1>3
<1>5. e - 1 \in p..(Len(s) - 1) /\ e - 1 < Len(s) /\ (e - 1) + 1 = e
  <2> HIDE DEF e
  <2> QED
    BY <1>1, <1>4
<1>6. e - 1 \notin S
  <2>1. S # {} => \A l \in S : e <= l
    BY <1>2, MinOrLeast, Zenon
  <2>2. ~(e <= e - 1)
    <3> HIDE DEF e
    <3> QED
      BY <1>4
  <2> QED
    BY <2>1, <2>2, Zenon
<1>7. NextChar(s, e - 1) \in C
  BY <1>5, <1>6, Zenon
<1>8. NextChar(s, e - 1) = s[e]
  <2> HIDE DEF e, S
  <2> QED
    BY <1>5, Zenon DEF NextChar
<1> QED
  BY <1>1, <1>7, <1>8, Zenon

\* After Comment() there is no comment to skip: a second call stays.
LEMMA CommentEndTwice ==
  ASSUME NEW s \in Seq(Char), NEW p \in 0..(Len(s) + 1)
  PROVE  CommentEnd(s, CommentEnd(s, p)) = CommentEnd(s, p)
<1> DEFINE c == CommentEnd(s, p)
           Stop(q) == {e \in q..(Len(s) - 1) :
                          NextChar(s, e) \notin White \cup {"("} /\ ~InComment(s, q, e)}
           n(q) == IF Escapes(s, q, Len(s)) THEN Len(s) + 1 ELSE Len(s)
<1>1. Len(s) \in Nat /\ p \in Nat /\ c \in p..(Len(s) + 1)
  BY CommentEndIn
<1>2. CASE c >= Len(s)
  BY <1>2, Zenon DEF CommentEnd
<1>3. CASE ~(c >= Len(s))
  <2>1. p < Len(s) /\ c = MinOr(Stop(p), n(p)) /\ n(p) \in {Len(s), Len(s) + 1}
    BY <1>1, <1>3 DEF CommentEnd
  <2>2. Stop(p) \in SUBSET Nat /\ Stop(c) \in SUBSET Nat
    BY <1>1
  <2>3. c \in Stop(p)
    <3>1. c \in Stop(p) \/ c = n(p)
      <4>1. MinOr(Stop(p), n(p)) \in Stop(p) \/ MinOr(Stop(p), n(p)) = n(p)
        <5> HIDE DEF Stop, n, c
        <5> QED
          BY <2>2, MinOrLeast, Zenon
      <4> HIDE DEF Stop, n, c
      <4> QED
        BY <2>1, <4>1, Zenon
    <3> QED
      BY <1>1, <1>3, <2>1, <3>1
  <2>4. NextChar(s, c) \notin White \cup {"("}
    BY <2>3, Zenon
  <2>5. ~InComment(s, c, c)
    <3>1. (c + 1)..c = {}
      <4> HIDE DEF c
      <4> QED
        BY <1>1
    <3>2. Unescaped(s, c, c, "(") = {} /\ Unescaped(s, c, c, ")") = {}
      BY <3>1, Zenon DEF Unescaped
    <3>3. Cardinality(Unescaped(s, c, c, "(")) = 0 /\ Cardinality(Unescaped(s, c, c, ")")) = 0
      BY <3>2, FS_EmptySet, Zenon
    <3> QED
      BY <3>3 DEF InComment
  <2>6. c \in c..(Len(s) - 1)
    <3> HIDE DEF c
    <3> QED
      BY <1>1, <1>3
  <2>7. c \in Stop(c)
    BY <2>4, <2>5, <2>6, Zenon
  <2>8. \A e \in Stop(c) : e >= c
    <3> HIDE DEF c
    <3> QED
      BY <1>1
  <2>9. CommentEnd(s, c) = MinOr(Stop(c), n(c))
    BY <1>3, Zenon DEF CommentEnd
  <2>10. MinOr(Stop(c), n(c)) \in Stop(c) /\ MinOr(Stop(c), n(c)) <= c
    BY <2>2, <2>7, MinOrLeast, Zenon
  <2>11. MinOr(Stop(c), n(c)) >= c /\ MinOr(Stop(c), n(c)) \in Nat
    BY <2>2, <2>8, <2>10, Zenon
  <2>12. c \in Nat
    <3> HIDE DEF c
    <3> QED
      BY <1>1
  <2>13. CommentEnd(s, c) = c
    <3> HIDE DEF c, Stop, n
    <3> QED
      BY <2>9, <2>10, <2>11, <2>12
  <2> QED
    BY <2>13, Zenon
<1> QED
  BY <1>2, <1>3, Zenon

\* An atom that is not empty ends behind an atom character.
LEMMA AtomEndBehind ==
  ASSUME NEW s \in Seq(Char), NEW p \in 0..(Len(s) + 1), AtomEnd(s, p) # CommentEnd(s, p)
  PROVE  s[AtomEnd(s, p)] \in Atext
<1>1. CommentEnd(s, p) \in Nat
  BY CommentEndIn
<1> QED
  BY <1>1, SpanEndBehind, Zenon DEF AtomEnd

\* A word that is read ends in "?=".
LEMMA EncodedWordBehind ==
  ASSUME NEW s \in Seq(Char), NEW p \in 0..(Len(s) + 1), NEW t, NEW known,
         EncodedWordEnd(s, p, t, known) # p
  PROVE  LET e == EncodedWordEnd(s, p, t, known) IN SubSeq(s, e - 1, e) = <<"?", "=">>
<1> DEFINE c == SpanEnd(s, p + 2, CharsetChars)
           e == SpanEnd(s, c + 3, WordChars(t, NextChar(s, c + 1)))
<1>1. Len(s) \in Nat /\ p \in Nat /\ c \in Nat
  BY SpanEndIn
<1>2. e \in Nat
  BY <1>1, SpanEndIn
<1>3. PresentAt(s, e, <<"?", "=">>) /\ EncodedWordEnd(s, p, t, known) = e + 2
  BY Zenon DEF EncodedWordEnd
<1>4. SubSeq(s, e + 1, e + Len(<<"?", "=">>)) = <<"?", "=">> /\ Len(<<"?", "=">>) = 2
  BY <1>3, Zenon DEF PresentAt
<1>5. (e + 2) - 1 = e + 1
  <2> HIDE DEF e
  <2> QED
    BY <1>2
<1> QED
  BY <1>3, <1>4, <1>5, Zenon

-----------------------------------------------------------------------------
(***************************************************************************)
(* What mark, restore and Step do to the list of states.  b has grown from *)
(* a if it differs from it in the last state of a and in newer ones only.  *)
(***************************************************************************)
Grown(a, b) ==
    /\ b \in Seq(Good) /\ b # <<>> /\ Len(a) <= Len(b)
    /\ \A k \in 1..(Len(a) - 1) : b[k] = a[k]

\* Grown, which relates the states before and after some marks and steps, is
\* transitive.
LEMMA GrownTransitive ==
  ASSUME NEW a \in Seq(Good), a # <<>>, NEW b, NEW c, Grown(a, b), Grown(b, c)
  PROVE  Grown(a, c)
<1>1. Len(a) \in Nat /\ Len(b) \in Nat /\ Len(c) \in Nat
  BY DEF Grown
<1> QED
  BY <1>1 DEF Grown

\* The cursor of good states is in the text or one past it.
LEMMA PosIn ==
  ASSUME NEW st \in Seq(Good), st # <<>>
  PROVE  Pos(st) \in 0..(Len(str) + 1) /\ Valid(st)
<1>1. Len(st) \in 1..Len(st)
  OBVIOUS
<1>2. st[Len(st)] \in Good
  BY <1>1
<1> QED
  BY <1>2, Zenon DEF Pos, Valid, Good

\* Step() moves the cursor of the last state and no other.
LEMMA StepGrows ==
  ASSUME NEW st \in Seq(Good), st # <<>>, NEW p \in 0..(Len(str) + 1)
  PROVE  Grown(st, Step(st, p)) /\ Pos(Step(st, p)) = p /\ Len(Step(st, p)) = Len(st)
<1>1. Len(st) \in 1..Len(st)
  OBVIOUS
<1>2. st[Len(st)] \in Good
  BY <1>1
<1>3. [st[Len(st)] EXCEPT !.at = p] \in Good /\ [st[Len(st)] EXCEPT !.at = p].at = p
  BY <1>2, Zenon DEF Good
<1>4. Step(st, p) = [st EXCEPT ![Len(st)] = [st[Len(st)] EXCEPT !.at = p]]
  BY Zenon DEF Step
<1>5. Step(st, p) \in Seq(Good) /\ Len(Step(st, p)) = Len(st)
  BY <1>1, <1>3, <1>4
<1>6. Step(st, p)[Len(st)] = [st[Len(st)] EXCEPT !.at = p]
  BY <1>1, <1>4
<1>7. \A k \in 1..(Len(st) - 1) : Step(st, p)[k] = st[k]
  BY <1>1, <1>4
<1>8. Step(st, p) # <<>>
  BY <1>1, <1>5
<1> QED
  BY <1>1, <1>3, <1>5, <1>6, <1>7, <1>8 DEF Grown, Pos

\* mark() only grows the states.
LEMMA MarkGrows ==
  ASSUME NEW st \in Seq(Good), st # <<>>
  PROVE  /\ Grown(st, mark(st)) /\ Pos(mark(st)) = Pos(st) /\ Len(mark(st)) = Len(st) + 1
         /\ \A k \in 1..Len(st) : mark(st)[k] = st[k]
<1> DEFINE r == [at |-> Pos(st), err |-> FALSE]
<1>1. r \in Good /\ r.at = Pos(st)
  BY PosIn, Zenon DEF Good
<1>2. mark(st) = Append(st, r)
  BY Zenon DEF mark
<1> HIDE DEF r
<1>3. Len(st) \in Nat /\ Len(st) >= 1
  OBVIOUS
<1>4. /\ mark(st) \in Seq(Good) /\ Len(mark(st)) = Len(st) + 1 /\ mark(st)[Len(st) + 1] = r
      /\ \A k \in 1..Len(st) : mark(st)[k] = st[k]
  BY <1>1, <1>2
<1> QED
  BY <1>1, <1>3, <1>4 DEF Grown, Pos

\* restore undoes what was done to a list since a mark.
LEMMA RestoreUndoes ==
  ASSUME NEW st \in Seq(Good), st # <<>>, NEW T, NEW b \in Seq(T),
         Len(b) = Len(st) + 1, \A k \in 1..Len(st) : b[k] = st[k]
  PROVE  restore(b, Len(st)) = st
<1>1. Len(st) \in Nat /\ Len(st) <= Len(b)
  OBVIOUS
<1>2. restore(b, Len(st)) = SubSeq(b, 1, Len(st))
  BY <1>1, Zenon DEF restore
<1>3. SubSeq(b, 1, Len(st)) \in Seq(T) /\ Len(SubSeq(b, 1, Len(st))) = Len(st)
      /\ \A k \in 1..Len(st) : SubSeq(b, 1, Len(st))[k] = b[k]
  BY <1>1
<1>4. \A k \in 1..Len(st) : SubSeq(b, 1, Len(st))[k] = st[k]
  BY <1>3, Zenon
<1> QED
  BY <1>1, <1>2, <1>3, <1>4, SeqEqual

\* mark(), anything that grows the states, restore(): the cursor is back.
LEMMA TryUndone ==
  ASSUME NEW st \in Seq(Good), st # <<>>, NEW p \in 0..(Len(str) + 1)
  PROVE  /\ restore(Step(mark(st), p), Len(st)) = st
         /\ restore(Fail(Step(mark(st), p)), Len(st)) = st
         /\ restore(Fail(mark(st)), Len(st)) = st
<1> DEFINE State == [at : 0..(Len(str) + 1), err : BOOLEAN]
<1>1. Len(st) \in Nat /\ Len(st) >= 1
  OBVIOUS
<1>2. ASSUME NEW b \in Seq(Good), Len(b) = Len(st) + 1, \A k \in 1..Len(st) : b[k] = st[k]
      PROVE  restore(b, Len(st)) = st /\ restore(Fail(b), Len(st)) = st
  <2>0. Len(b) \in 1..Len(b)
    BY <1>1, <1>2
  <2>1. b[Len(b)] \in Good /\ b \in Seq(State)
    <3>1. Good \subseteq State
      BY Zenon DEF Good
    <3>2. Seq(Good) \subseteq Seq(State)
      BY <3>1, SeqMonotonic, Zenon
    <3> QED
      BY <2>0, <3>2, ElementOfSeq, Zenon
  <2>2. [b[Len(b)] EXCEPT !.err = TRUE] \in State
    BY <2>1, Zenon DEF Good
  <2>3. Fail(b) = [b EXCEPT ![Len(b)] = [b[Len(b)] EXCEPT !.err = TRUE]]
    BY Zenon DEF Fail
  <2> HIDE DEF State
  <2>4. Fail(b) \in Seq(State) /\ Len(Fail(b)) = Len(b)
    BY <2>0, <2>1, <2>2, <2>3, ExceptSeq
  <2>5. \A k \in 1..Len(st) : Fail(b)[k] = b[k]
    BY <1>1, <1>2, <2>3
  <2> QED
    BY <1>2, <2>1, <2>4, <2>5, RestoreUndoes
<1>3. Grown(st, mark(st)) /\ Len(mark(st)) = Len(st) + 1 /\ \A k \in 1..Len(st) : mark(st)[k] = st[k]
  BY MarkGrows, Zenon
<1>4. /\ mark(st) \in Seq(Good) /\ mark(st) # <<>>
  BY <1>3, Zenon DEF Grown
<1>5. Grown(mark(st), Step(mark(st), p)) /\ Len(Step(mark(st), p)) = Len(mark(st))
  BY <1>4, StepGrows, Zenon
<1>6. /\ Step(mark(st), p) \in Seq(Good) /\ Len(Step(mark(st), p)) = Len(st) + 1
      /\ \A k \in 1..Len(st) : Step(mark(st), p)[k] = st[k]
  BY <1>1, <1>3, <1>5 DEF Grown
<1> QED
  BY <1>2, <1>3, <1>4, <1>6, Zenon

-----------------------------------------------------------------------------
(***************************************************************************)
(* What a step of a production does.                                       *)
(***************************************************************************)
Worked ==
    /\ Grown(states, states')
    /\ Pos(states') \in from..(Len(str) + 1)
    /\ UNCHANGED <<str, held, from>>
    /\ Encoding' => start' \in from..Pos(states')
    /\ pc' = "words" => back' \in {"text", "phrase"}
    /\ Progress

\* Behind an encoded word.
BehindWord(p) == SubSeq(str, p - 1, p) = <<"?", "=">>

\* DotAtom() read one more dot and atom, or gave back what it read.
DotAtomTried ==
    \/ pc' = "dotatom" /\ str[Pos(states')] \in Atext
    \/ pc' = "idle" /\ states' = states

\* encodedWords() read the word that starts behind the white space, if there is
\* one, or gave the white space back.
WordsTried ==
    LET n == WhitespaceEnd(str, Pos(states))
        e == EncodedWordEnd(str, n, back, Charsets)
    IN  \/ pc' = "words" /\ e # n /\ BehindWord(Pos(states'))
        \/ pc' = back /\ e = n /\ states' = states
        \/ pc' = "panic"

\* The position at which a step of a production starts.
LEMMA Starts ==
  ASSUME IInv, pc # "idle"
  PROVE  /\ Len(str) \in Nat
         /\ Pos(states) \in 0..(Len(str) + 1) /\ from \in 0..Pos(states)
         /\ Grown(states, states)
  BY PosIn DEF IInv, Grown

\* A step of DotAtom() keeps the invariant, moves on or returns.
LEMMA DotAtomWorks ==
  ASSUME IInv, DotAtom
  PROVE  Worked /\ DotAtomTried
<1> DEFINE m == mark(states)
           p == Pos(m)
           c == CommentEnd(str, p)
           dot == PresentAt(str, c, <<".">>)
           d == CommentEnd(str, IF dot THEN c + 1 ELSE c)
           e == AtomEnd(str, d)
<1>1. pc = "dotatom" /\ ~Encoding /\ str \in Seq(Char) /\ states \in Seq(Good) /\ states # <<>>
      /\ UNCHANGED <<str, held, calls, from, start, back>>
  BY Zenon DEF IInv, DotAtom, Encoding
<1>2. /\ Len(str) \in Nat /\ Pos(states) \in 0..(Len(str) + 1) /\ from \in 0..Pos(states)
      /\ Grown(states, states)
  BY <1>1, Starts, Zenon
<1>3. /\ m \in Seq(Good) /\ m # <<>> /\ p = Pos(states) /\ Len(m) = Len(states) + 1
      /\ Grown(states, m)
  BY <1>1, MarkGrows, Zenon DEF Grown
<1>4. c \in p..(Len(str) + 1)
  BY <1>1, <1>2, <1>3, CommentEndIn, Zenon
<1>5. dot => c + 1 <= Len(str)
  <2>1. Len(<<".">>) = 1
    BY Zenon
  <2> QED
    BY <2>1, Zenon DEF PresentAt
<1>6. (IF dot THEN c + 1 ELSE c) \in p..(Len(str) + 1)
  <2> HIDE DEF dot, c, p
  <2> QED
    BY <1>2, <1>3, <1>4, <1>5
<1>7. d \in p..(Len(str) + 1) /\ (dot => d > p)
  <2>1. d \in (IF dot THEN c + 1 ELSE c)..(Len(str) + 1)
    <3>1. (IF dot THEN c + 1 ELSE c) \in 0..(Len(str) + 1)
      <4> HIDE DEF dot, c, p
      <4> QED
        BY <1>2, <1>3, <1>6
    <3> QED
      BY <1>1, <3>1, CommentEndIn, Zenon
  <2> HIDE DEF d, dot, c, p
  <2> QED
    BY <1>2, <1>3, <1>4, <1>6, <2>1
<1>8. e \in d..(Len(str) + 1)
  <2>1. d \in 0..(Len(str) + 1)
    <3> HIDE DEF d, dot, c, p
    <3> QED
      BY <1>2, <1>3, <1>7
  <2> QED
    BY <1>1, <2>1, AtomEndIn, Zenon
<1>9. e \in 0..(Len(str) + 1) /\ e >= Pos(states) /\ (dot => e > Pos(states))
  <2> HIDE DEF e, d, dot, c, p
  <2> QED
    BY <1>2, <1>3, <1>7, <1>8
<1>10. AfterDot(m) = IF dot /\ e # d THEN Step(m, e) ELSE Fail(Step(m, e))
  BY Zenon DEF AfterDot
<1>11. DotAtom = (/\ pc = "dotatom"
                  /\ IF Valid(AfterDot(m))
                     THEN states' = AfterDot(m) /\ pc' = "dotatom"
                     ELSE states' = restore(AfterDot(m), Len(states)) /\ pc' = "idle"
                  /\ UNCHANGED <<str, held, calls, from, start, back, out, gap>>)
  BY Zenon DEF DotAtom
<1> HIDE DEF e, d, dot, c, p
<1>12. CASE dot /\ e # d
  <2>1. Grown(m, Step(m, e)) /\ Pos(Step(m, e)) = e
    BY <1>3, <1>9, StepGrows, Zenon
  <2>2. Valid(Step(m, e))
    BY <2>1, PosIn, Zenon DEF Grown
  <2>3. states' = Step(m, e) /\ pc' = "dotatom"
    BY <1>10, <1>11, <1>12, <2>2, Zenon
  <2>4. Grown(states, states')
    BY <1>1, <1>3, <2>1, <2>3, GrownTransitive, Zenon
  <2>5. Pos(states') = e /\ ~Encoding'
    BY <2>1, <2>3, Zenon DEF Encoding
  <2>6. str[e] \in Atext
    <3>1. CommentEnd(str, d) = d
      <4>1. (IF dot THEN c + 1 ELSE c) \in 0..(Len(str) + 1)
        BY <1>2, <1>3, <1>6
      <4> QED
        BY <1>1, <4>1, CommentEndTwice, Zenon DEF d
    <3>2. d \in 0..(Len(str) + 1)
      BY <1>2, <1>3, <1>7
    <3> QED
      BY <1>1, <1>12, <3>1, <3>2, AtomEndBehind, Zenon DEF e
  <2>7. DotAtomTried
    BY <2>3, <2>5, <2>6, Zenon DEF DotAtomTried
  <2> QED
    BY <1>1, <1>2, <1>9, <1>12, <2>3, <2>4, <2>5, <2>7 DEF Worked, Progress, IterationAt
<1>13. CASE ~(dot /\ e # d)
  <2>1. AfterDot(m) = Fail(Step(m, e))
    BY <1>10, <1>13, Zenon
  <2>2. Step(m, e) \in Seq(Good) /\ Step(m, e) # <<>>
    BY <1>3, <1>9, StepGrows, Zenon DEF Grown
  <2>3. ~Valid(AfterDot(m))
    <3>1. Len(Step(m, e)) \in DOMAIN Step(m, e) /\ Step(m, e)[Len(Step(m, e))] \in Good
      BY <2>2
    <3>2. Fail(Step(m, e))[Len(Step(m, e))].err = TRUE /\ Len(Fail(Step(m, e))) = Len(Step(m, e))
      BY <2>2, <3>1 DEF Fail, Good
    <3> QED
      BY <2>1, <3>2, Zenon DEF Valid
  <2>4. states' = states /\ pc' = "idle"
    BY <1>1, <1>9, <1>11, <2>1, <2>3, TryUndone, Zenon
  <2> QED
    BY <1>1, <1>2, <2>4 DEF Worked, Progress, Encoding, DotAtomTried
<1> QED
  BY <1>12, <1>13, Zenon

\* encodedWord() grows the states and does not go back.
LEMMA EncodedWordGrows ==
  ASSUME str \in Seq(Char), NEW st \in Seq(Good), st # <<>>, NEW t
  PROVE  LET e == EncodedWordEnd(str, Pos(st), t, Charsets)
         IN  \/ encodedWord(st, t) = st /\ e = Pos(st)
             \/ /\ Grown(st, encodedWord(st, t)) /\ Pos(encodedWord(st, t)) <= Len(str) + 1
                /\ Pos(encodedWord(st, t)) > Pos(st) /\ Pos(encodedWord(st, t)) = e
<1> DEFINE p == Pos(st)
           e == EncodedWordEnd(str, p, t, Charsets)
<1>1. Len(str) \in Nat /\ p \in 0..(Len(str) + 1)
  BY PosIn
<1>2. e \in p..(Len(str) + 1)
  BY <1>1, EncodedWordEndIn, Zenon
<1>3. encodedWord(st, t) = IF e # p THEN Step(mark(st), e) ELSE restore(Fail(mark(st)), Len(st))
  BY Zenon DEF encodedWord
<1>4. Grown(st, mark(st)) /\ mark(st) \in Seq(Good) /\ mark(st) # <<>>
  BY MarkGrows, Zenon DEF Grown
<1> HIDE DEF e, p
<1>5. CASE e # p
  <2>1. e \in 0..(Len(str) + 1) /\ e > p
    BY <1>1, <1>2, <1>5
  <2>2. Grown(mark(st), Step(mark(st), e)) /\ Pos(Step(mark(st), e)) = e
    BY <1>4, <2>1, StepGrows, Zenon
  <2> QED
    BY <1>1, <1>3, <1>4, <1>5, <2>1, <2>2, GrownTransitive DEF p, e
<1>6. CASE e = p
  <2>1. encodedWord(st, t) = st
    BY <1>1, <1>3, <1>6, TryUndone, Zenon
  <2> QED
    BY <1>6, <2>1, Zenon DEF e, p
<1> QED
  BY <1>5, <1>6, Zenon

\* A step of encodedWords() keeps the invariant, moves on, returns or panics.
LEMMA EncodedWordsWorks ==
  ASSUME IInv, EncodedWords
  PROVE  Worked /\ WordsTried
<1> DEFINE st == mark(states)
           n == WhitespaceEnd(str, Pos(st))
           w == encodedWord(Step(st, n), back)
           e == EncodedWordEnd(str, n, back, Charsets)
<1>1. /\ pc = "words" /\ str \in Seq(Char) /\ states \in Seq(Good) /\ states # <<>>
      /\ UNCHANGED <<str, held, from, start, back>> /\ back \in {"text", "phrase"}
      /\ Encoding /\ start \in from..Pos(states)
  BY Zenon DEF IInv, EncodedWords, Encoding
<1>2. /\ Len(str) \in Nat /\ Pos(states) \in 0..(Len(str) + 1) /\ from \in 0..Pos(states)
      /\ Grown(states, states)
  BY <1>1, Starts, Zenon
<1>3. st \in Seq(Good) /\ st # <<>> /\ Pos(st) = Pos(states) /\ Grown(states, st)
  BY <1>1, MarkGrows, Zenon DEF Grown
<1>4. n \in Pos(states)..(Len(str) + 1)
  BY <1>1, <1>2, <1>3, AtomEndIn, Zenon
<1>5. \/ Pos(w) # n /\ states' = w /\ pc' = "words"
      \/ Pos(w) = n /\ states' = restore(w, Len(states)) /\ pc' = back
      \/ states' = states /\ pc' = "panic"
  BY Zenon DEF EncodedWords
<1>6. n \in 0..(Len(str) + 1)
  BY <1>2, <1>4
<1>7. /\ Step(st, n) \in Seq(Good) /\ Step(st, n) # <<>> /\ Pos(Step(st, n)) = n
      /\ Grown(st, Step(st, n))
  BY <1>3, <1>6, StepGrows, Zenon DEF Grown
<1>8. \/ w = Step(st, n) /\ e = n
      \/ Grown(Step(st, n), w) /\ Pos(w) <= Len(str) + 1 /\ Pos(w) > n /\ Pos(w) = e
  BY <1>1, <1>7, EncodedWordGrows, Zenon
<1>9. Grown(states, Step(st, n))
  BY <1>1, <1>3, <1>7, GrownTransitive, Zenon
<1>10. CASE Pos(w) # n /\ states' = w /\ pc' = "words"
  <2>1. Grown(Step(st, n), w) /\ Pos(w) <= Len(str) + 1 /\ Pos(w) > n /\ Pos(w) = e
    BY <1>7, <1>8, <1>10, Zenon
  <2>2. Grown(states, w)
    BY <1>1, <1>9, <2>1, GrownTransitive, Zenon
  <2>3. Pos(w) \in Nat
    BY <1>2, <2>2, PosIn DEF Grown
  <2>6. e # n
    BY <1>10, <2>1, Zenon
  <2>7. BehindWord(e)
    BY <1>1, <1>6, <2>6, EncodedWordBehind, Zenon DEF BehindWord
  <2>8. WordsTried
    <3>1. WhitespaceEnd(str, Pos(states)) = n
      BY <1>3, Zenon
    <3> HIDE DEF w, n, e
    <3>2. EncodedWordEnd(str, n, back, Charsets) = e
      BY Zenon DEF e
    <3> HIDE DEF BehindWord
    <3> QED
      BY <1>10, <2>1, <2>6, <2>7, <3>1, <3>2, Zenon DEF WordsTried
  <2> HIDE DEF w, n
  <2>4. Pos(w) > Pos(states) /\ Pos(w) \in from..(Len(str) + 1) /\ start \in from..Pos(w)
    BY <1>1, <1>2, <1>4, <2>1, <2>3
  <2>5. Encoding' /\ IterationAt' = IterationAt /\ Stage' = Stage
    BY <1>1, <1>10, Zenon DEF Encoding, IterationAt, Stage
  <2> QED
    BY <1>1, <1>10, <2>2, <2>4, <2>5, <2>8, Zenon DEF Worked, Progress
<1>11. CASE Pos(w) = n /\ states' = restore(w, Len(states)) /\ pc' = back
  <2>1. w = Step(st, n) /\ e = n
    BY <1>6, <1>8, <1>11
  <2>2. states' = states
    BY <1>1, <1>6, <1>11, <2>1, TryUndone, Zenon
  <2>3. Encoding' /\ IterationAt' = IterationAt /\ Stage' = 2 /\ Stage = 1
    BY <1>1, <1>11, Zenon DEF Encoding, IterationAt, Stage
  <2>4. WordsTried
    BY <1>3, <1>11, <2>1, <2>2, Zenon DEF WordsTried
  <2> QED
    BY <1>1, <1>2, <1>11, <2>2, <2>3, <2>4 DEF Worked, Progress
<1>12. CASE states' = states /\ pc' = "panic"
  <2>1. ~Encoding'
    BY <1>12, Zenon DEF Encoding
  <2>2. Pos(states') \in from..(Len(str) + 1)
    BY <1>2, <1>12
  <2> QED
    BY <1>1, <1>2, <1>12, <2>1, <2>2, Zenon DEF Worked, Progress, WordsTried
<1> QED
  BY <1>5, <1>10, <1>11, <1>12, Zenon

\* The end of an iteration of Text or Phrase that started at p.
LEMMA TookWorks ==
  ASSUME IInv, pc # "idle", NEW st, Grown(states, st), NEW kind,
         Pos(st) >= IterationAt, UNCHANGED <<str, held, from>>,
         \/ TextTook(st, IterationAt, kind)
         \/ PhraseTook(st, IterationAt, kind)
  PROVE  Worked
<1> DEFINE p == IterationAt
<1>1. /\ Len(str) \in Nat /\ Pos(states) \in 0..(Len(str) + 1) /\ from \in 0..Pos(states)
      /\ str \in Seq(Char) /\ states \in Seq(Good) /\ states # <<>>
  BY Starts, Zenon DEF IInv
<1>2. p \in from..(Len(str) + 1)
  BY <1>1 DEF IInv, IterationAt
<1>3. st \in Seq(Good) /\ st # <<>> /\ Pos(st) \in 0..(Len(str) + 1)
  BY PosIn, Zenon DEF Grown
<1>4. PICK e \in {WhitespaceEnd(str, Pos(st)), CommentEnd(str, Pos(st))} :
         \/ Pos(st) = p /\ states' = st /\ pc' = "idle"
         \/ Pos(st) # p /\ states' = Step(st, e) /\ pc' \in {"nextword", "nextphrase"}
  BY Zenon DEF TextTook, PhraseTook
<1>5. e \in Pos(st)..(Len(str) + 1)
  BY <1>1, <1>3, AtomEndIn, CommentEndIn, Zenon
<1>6. ~Encoding'
  BY <1>4, Zenon DEF Encoding
<1> HIDE DEF p
<1>7. CASE Pos(st) = p /\ states' = st /\ pc' = "idle"
  BY <1>1, <1>2, <1>6, <1>7, Zenon DEF Worked, Progress
<1>8. CASE Pos(st) # p /\ states' = Step(st, e) /\ pc' \in {"nextword", "nextphrase"}
  <2>1. e \in 0..(Len(str) + 1) /\ e > p /\ e \in from..(Len(str) + 1)
    BY <1>1, <1>2, <1>3, <1>5, <1>8 DEF p
  <2>2. Grown(st, states') /\ Pos(states') = e
    BY <1>3, <1>8, <2>1, StepGrows, Zenon
  <2>3. Grown(states, states')
    BY <1>1, <2>2, GrownTransitive, Zenon
  <2>4. IterationAt' = e
    BY <1>6, <2>2, Zenon DEF IterationAt
  <2> QED
    BY <1>6, <1>8, <2>1, <2>2, <2>3, <2>4, Zenon DEF Worked, Progress, p
<1> QED
  BY <1>4, <1>7, <1>8, Zenon

\* "=?" was seen: back to the mark, and encodedWords is called.
LEMMA EncodedWorks ==
  ASSUME IInv, pc \in {"nextword", "nextphrase"}, UNCHANGED <<str, held, from>>,
         PresentAt(str, Pos(states), <<"=", "?">>), NEW who \in {"text", "phrase"},
         Encoded(restore(Step(mark(states), Pos(states) + 2), Len(states)), Pos(states), who)
  PROVE  Worked
<1>1. /\ Len(str) \in Nat /\ Pos(states) \in 0..(Len(str) + 1) /\ from \in 0..Pos(states)
      /\ states \in Seq(Good) /\ states # <<>> /\ Grown(states, states)
  BY Starts, Zenon DEF IInv
<1>2. Len(<<"=", "?">>) = 2
  BY Zenon
<1>3. Pos(states) + 2 \in 0..(Len(str) + 1)
  BY <1>1, <1>2 DEF PresentAt
<1>4. states' = states /\ start' = Pos(states) /\ pc' = "words" /\ back' = who
  BY <1>1, <1>3, TryUndone, Zenon DEF Encoded
<1>5. IterationAt' = Pos(states) /\ IterationAt = Pos(states) /\ Stage = 0 /\ Stage' = 1
  BY <1>4, Zenon DEF IterationAt, Stage, Encoding
<1> QED
  BY <1>1, <1>4, <1>5 DEF Worked, Progress

\* The states from which Text and Phrase read a word: the current ones, and those
\* after a mark.
LEMMA WordStates ==
  ASSUME IInv, pc # "idle", NEW st \in {states, mark(states)}, NEW e \in 0..(Len(str) + 1)
  PROVE  Grown(states, Step(st, e)) /\ Pos(Step(st, e)) = e
<1>1. /\ states \in Seq(Good) /\ states # <<>> /\ Grown(states, states)
  BY Starts, Zenon DEF IInv
<1>2. Grown(states, st) /\ st \in Seq(Good) /\ st # <<>>
  BY <1>1, MarkGrows, Zenon DEF Grown
<1>3. Grown(st, Step(st, e)) /\ Pos(Step(st, e)) = e
  BY <1>2, StepGrows, Zenon
<1> QED
  BY <1>1, <1>2, <1>3, GrownTransitive, Zenon

\* A step of Text() keeps the invariant, moves on or returns.
LEMMA TextWorks ==
  ASSUME IInv, Text \/ TextEncoded
  PROVE  Worked
<1>1. /\ Len(str) \in Nat /\ Pos(states) \in 0..(Len(str) + 1) /\ from \in 0..Pos(states)
      /\ str \in Seq(Char) /\ Grown(states, states) /\ pc # "idle"
  BY Starts, Zenon DEF IInv, Text, TextEncoded
<1>2. UNCHANGED <<str, held, from>>
  BY Zenon DEF Text, TextEncoded
<1>3. ASSUME NEW p \in 0..(Len(str) + 1)
      PROVE  PlainEnd(p) \in p..(Len(str) + 1) /\ PlainEnd(p) \in 0..(Len(str) + 1)
  <2>1. p \in Nat /\ p <= Len(str) + 1
    BY <1>1
  <2>2. PlainEnd(p) \in Nat /\ PlainEnd(p) >= p /\ PlainEnd(p) <= Len(str) + 1
    BY <1>1, <2>1, SpanEndIn, Zenon DEF PlainEnd
  <2> QED
    BY <1>1, <2>1, <2>2
<1>4. CASE Text
  <2> DEFINE p == Pos(states)
  <2>1. pc = "nextword" /\ IterationAt = p
    BY <1>4, Zenon DEF Text, IterationAt, Encoding
  <2>2. \/ PresentAt(str, p, <<"=", "?">>) /\ Encoded(restore(Step(mark(states), p + 2), Len(states)), p, "text")
        \/ TextTook(Step(mark(states), PlainEnd(p)), p, "word")
    BY <1>4, Zenon DEF Text
  <2>3. CASE PresentAt(str, p, <<"=", "?">>) /\ Encoded(restore(Step(mark(states), p + 2), Len(states)), p, "text")
    BY <1>2, <2>1, <2>3, EncodedWorks, Zenon
  <2>4. CASE TextTook(Step(mark(states), PlainEnd(p)), p, "word")
    <3>1. Grown(states, Step(mark(states), PlainEnd(p))) /\ Pos(Step(mark(states), PlainEnd(p))) = PlainEnd(p)
      BY <1>1, <1>3, WordStates, Zenon
    <3>2. Pos(Step(mark(states), PlainEnd(p))) >= IterationAt
      BY <1>1, <1>3, <2>1, <3>1
    <3> QED
      BY <1>1, <1>2, <2>1, <2>4, <3>1, <3>2, TookWorks, Zenon
  <2> QED
    BY <2>2, <2>3, <2>4, Zenon
<1>5. CASE TextEncoded
  <2>1. pc = "text" /\ IterationAt = start /\ start \in from..Pos(states)
    BY <1>5, Zenon DEF TextEncoded, IterationAt, Encoding, IInv
  <2>2. start \in 0..(Len(str) + 1) /\ Pos(states) >= start
    BY <1>1, <2>1
  <2>3. \/ TextTook(states, start, "encoded")
        \/ TextTook(Step(states, PlainEnd(start)), start, "word")
    BY <1>5, Zenon DEF TextEncoded
  <2>4. Grown(states, Step(states, PlainEnd(start))) /\ Pos(Step(states, PlainEnd(start))) = PlainEnd(start)
    BY <1>1, <1>3, <2>2, WordStates, Zenon
  <2>5. Pos(Step(states, PlainEnd(start))) >= start
    BY <1>1, <1>3, <2>2, <2>4
  <2> QED
    BY <1>1, <1>2, <2>1, <2>2, <2>3, <2>4, <2>5, TookWorks, Zenon
<1> QED
  BY <1>4, <1>5, Zenon

\* A step of Phrase() keeps the invariant, moves on or returns.
LEMMA PhraseWorks ==
  ASSUME IInv, Phrase \/ PhraseEncoded
  PROVE  Worked
<1>1. /\ Len(str) \in Nat /\ Pos(states) \in 0..(Len(str) + 1) /\ from \in 0..Pos(states)
      /\ str \in Seq(Char) /\ Grown(states, states) /\ pc # "idle"
      /\ states \in Seq(Good) /\ states # <<>>
  BY Starts, Zenon DEF IInv, Phrase, PhraseEncoded
<1>2. UNCHANGED <<str, held, from>>
  BY Zenon DEF Phrase, PhraseEncoded
<1>3. ASSUME NEW p \in 0..(Len(str) + 1)
      PROVE  /\ AtomEnd(str, p) \in 0..(Len(str) + 1) /\ AtomEnd(str, p) >= p
             /\ StringEnd(str, p) \in 0..(Len(str) + 1) /\ StringEnd(str, p) >= p
  <2>1. p \in Nat /\ AtomEnd(str, p) \in p..(Len(str) + 1) /\ StringEnd(str, p) \in p..(Len(str) + 1)
    BY <1>1, AtomEndIn, StringEndIn
  <2> QED
    BY <1>1, <2>1
<1>4. ASSUME NEW st \in {states, mark(states)}, PlainPhrase(st, Len(states), IterationAt),
             IterationAt \in 0..(Len(str) + 1)
      PROVE  Worked
  <2> DEFINE p == IterationAt
             b == restore(Step(st, p + 1), Len(states))
  <2>1. \/ PresentAt(str, p, <<"\"">>) /\ PhraseTook(Step(b, StringEnd(str, p)), p, "word")
        \/ PhraseTook(Step(st, AtomEnd(str, p)), p, "word")
    BY <1>4, Zenon DEF PlainPhrase
  <2>2. CASE PresentAt(str, p, <<"\"">>) /\ PhraseTook(Step(b, StringEnd(str, p)), p, "word")
    <3>1. Len(<<"\"">>) = 1
      BY Zenon
    <3>2. p + 1 \in 0..(Len(str) + 1)
      <4>1. p + Len(<<"\"">>) <= Len(str)
        BY <2>2, Zenon DEF PresentAt
      <4> QED
        BY <1>1, <1>4, <3>1, <4>1
    <3>3. Grown(states, b) /\ b \in Seq(Good) /\ b # <<>>
      <4>1. CASE st = mark(states)
        BY <1>1, <3>2, <4>1, TryUndone, Zenon
      <4>2. CASE st = states
        <5>1. Grown(states, Step(states, p + 1)) /\ Len(Step(states, p + 1)) = Len(states)
          BY <1>1, <3>2, StepGrows, Zenon
        <5>2. b = Step(states, p + 1)
          BY <4>2, <5>1, SubSeqFull, Zenon DEF restore, Grown
        <5> QED
          BY <5>1, <5>2, Zenon DEF Grown
      <4> QED
        BY <4>1, <4>2, Zenon
    <3>4. Grown(b, Step(b, StringEnd(str, p))) /\ Pos(Step(b, StringEnd(str, p))) = StringEnd(str, p)
      BY <1>3, <1>4, <3>3, StepGrows, Zenon
    <3>5. Grown(states, Step(b, StringEnd(str, p))) /\ Pos(Step(b, StringEnd(str, p))) >= p
      BY <1>1, <1>3, <1>4, <3>3, <3>4, GrownTransitive, Zenon
    <3> QED
      BY <1>1, <1>2, <2>2, <3>5, TookWorks, Zenon
  <2>3. CASE PhraseTook(Step(st, AtomEnd(str, p)), p, "word")
    <3>1. Grown(states, Step(st, AtomEnd(str, p))) /\ Pos(Step(st, AtomEnd(str, p))) = AtomEnd(str, p)
      BY <1>1, <1>3, <1>4, WordStates, Zenon
    <3>2. Pos(Step(st, AtomEnd(str, p))) >= p
      BY <1>3, <1>4, <3>1, Zenon
    <3> QED
      BY <1>1, <1>2, <2>3, <3>1, <3>2, TookWorks, Zenon
  <2> QED
    BY <2>1, <2>2, <2>3, Zenon
<1>5. CASE Phrase
  <2> DEFINE p == Pos(states)
  <2>1. pc = "nextphrase" /\ IterationAt = p
    BY <1>5, Zenon DEF Phrase, IterationAt, Encoding
  <2>2. \/ pc' = "idle" /\ states' = states
        \/ PresentAt(str, p, <<"=", "?">>) /\ Encoded(restore(Step(mark(states), p + 2), Len(states)), p, "phrase")
        \/ PlainPhrase(mark(states), Len(states), p)
    BY <1>5, Zenon DEF Phrase
  <2>3. CASE pc' = "idle" /\ states' = states
    BY <1>1, <1>2, <2>3 DEF Worked, Progress, Encoding
  <2>4. CASE PresentAt(str, p, <<"=", "?">>) /\ Encoded(restore(Step(mark(states), p + 2), Len(states)), p, "phrase")
    BY <1>2, <2>1, <2>4, EncodedWorks, Zenon
  <2>5. CASE PlainPhrase(mark(states), Len(states), p)
    BY <1>1, <1>4, <2>1, <2>5, Zenon
  <2> QED
    BY <2>2, <2>3, <2>4, <2>5, Zenon
<1>6. CASE PhraseEncoded
  <2>1. pc = "phrase" /\ IterationAt = start /\ start \in from..Pos(states)
    BY <1>6, Zenon DEF PhraseEncoded, IterationAt, Encoding, IInv
  <2>2. start \in 0..(Len(str) + 1) /\ Pos(states) >= start
    BY <1>1, <2>1
  <2>3. PhraseTook(states, start, "encoded") \/ PlainPhrase(states, Len(states), start)
    BY <1>6, Zenon DEF PhraseEncoded
  <2> QED
    BY <1>1, <1>2, <1>4, <2>1, <2>2, <2>3, TookWorks, Zenon
<1> QED
  BY <1>5, <1>6, Zenon

\* So does every step of a production that is under way.
LEMMA WorkingWorks ==
  ASSUME IInv, Working
  PROVE  Worked /\ pc # "idle"
<1>1. Worked
  BY DotAtomWorks, EncodedWordsWorks, TextWorks, PhraseWorks, Zenon DEF Working
<1>2. pc # "idle"
  BY Zenon DEF Working, DotAtom, EncodedWords, Text, TextEncoded, Phrase, PhraseEncoded
<1> QED
  BY <1>1, <1>2, Zenon

-----------------------------------------------------------------------------
(***************************************************************************)
(* What the first step of a production does.                               *)
(***************************************************************************)
Called ==
    /\ Grown(states, states')
    /\ Pos(states') \in Pos(states)..(Len(str) + 1)
    /\ from' = Pos(states) /\ UNCHANGED <<str, held>>
    /\ ~Encoding'

\* The call of a production starts it where the cursor is, with no other effect.
LEMMA CallsProduction ==
  ASSUME IInv, CallScan \/ CallDotAtom \/ CallText \/ CallPhrase
  PROVE  Called /\ pc = "idle"
<1> DEFINE p == Pos(states)
<1>1. /\ str \in Seq(Char) /\ Len(str) \in Nat /\ p \in 0..(Len(str) + 1)
      /\ states \in Seq(Good) /\ states # <<>>
  BY PosIn DEF IInv
<1>2. /\ pc = "idle" /\ from' = p /\ UNCHANGED <<str, held>>
      /\ pc' \in {"idle", "dotatom", "nextword", "nextphrase"}
  BY Zenon DEF CallScan, CallDotAtom, CallText, CallPhrase, Call
<1>3. PICK e \in {WhitespaceEnd(str, p), CommentEnd(str, p), AtomEnd(str, p), StringEnd(str, p),
                  MIMETokenEnd(str, p), MIMEValueEnd(str, p)} : states' = Step(states, e)
  BY Zenon DEF CallScan, CallDotAtom, CallText, CallPhrase
<1> HIDE DEF p
<1>4. e \in p..(Len(str) + 1)
  BY <1>1, AtomEndIn, CommentEndIn, StringEndIn, Zenon
<1>5. e \in 0..(Len(str) + 1)
  BY <1>1, <1>4
<1>6. Grown(states, states') /\ Pos(states') = e
  BY <1>1, <1>3, <1>5, StepGrows, Zenon
<1> QED
  BY <1>2, <1>4, <1>6, Zenon DEF Called, Encoding, p

\* The caller marks.
LEMMA CallsMark ==
  ASSUME IInv, CallMark
  PROVE  /\ pc = "idle" /\ pc' = "idle" /\ str' = str
         /\ Grown(states, states') /\ Pos(states') = Pos(states) /\ Len(states') = Len(states) + 1
         /\ \A k \in 1..Len(states) : states'[k] = states[k]
         /\ held' = Append(held, Len(states))
  BY MarkGrows, Zenon DEF IInv, CallMark, Call

\* The caller goes back to its mark k.
LEMMA CallsRestore ==
  ASSUME IInv, CallRestore
  PROVE  /\ pc = "idle" /\ pc' = "idle" /\ str' = str
         /\ \E k \in 1..Len(held) :
               /\ held' = SubSeq(held, 1, k - 1)
               /\ states' \in Seq(Good) /\ Len(states') = held[k] /\ Pos(states') = states[held[k]].at
               /\ \A j \in 1..held[k] : states'[j] = states[j]
<1>1. pc = "idle" /\ pc' = "idle" /\ str' = str
  BY Zenon DEF CallRestore, Call
<1>2. /\ states \in Seq(Good) /\ Len(states) \in Nat /\ held \in Seq(Nat)
      /\ DOMAIN held = 1..Len(held)
  BY DEF IInv
<1>3. PICK k \in 1..Len(held) :
         states' = restore(states, held[k]) /\ held' = SubSeq(held, 1, k - 1)
  BY <1>2, Zenon DEF CallRestore
<1>4. held[k] \in Nat /\ held[k] \in 1..(Len(states) - 1)
  BY <1>3 DEF IInv
<1>5. held[k] <= Len(states) /\ held[k] >= 1
  BY <1>2, <1>4
<1>6. states' = SubSeq(states, 1, held[k])
  BY <1>3, <1>5, Zenon DEF restore
<1>7. /\ states' \in Seq(Good) /\ Len(states') = held[k]
      /\ \A j \in 1..held[k] : states'[j] = states[j]
  BY <1>2, <1>4, <1>5, <1>6
<1>8. Pos(states') = states[held[k]].at
  BY <1>4, <1>5, <1>7 DEF Pos
<1> QED
  BY <1>1, <1>3, <1>7, <1>8, Zenon

-----------------------------------------------------------------------------
\* A new parser satisfies the invariant.
LEMMA InitInv == Init => IInv
<1> SUFFICES ASSUME Init PROVE IInv
  BY Zenon
<1>1. str \in Seq(Char) /\ Len(str) \in Nat
  BY ParserAssumption DEF Init
<1>2. [at |-> 0, err |-> FALSE] \in Good
  BY <1>1 DEF Good
<1>3. states = <<[at |-> 0, err |-> FALSE]>>
  BY Zenon DEF Init
<1>4. states \in Seq(Good) /\ states # <<>>
  BY <1>2, <1>3
<1>5. held = <<>> /\ pc = "idle"
  BY Zenon DEF Init
<1> QED
  BY <1>1, <1>4, <1>5 DEF IInv, Encoding

\* Marks are kept by every step that grows the states.
LEMMA HeldKept ==
  ASSUME IInv, Grown(states, states'), UNCHANGED <<str, held>>
  PROVE  /\ str' \in Seq(Char) /\ states' \in Seq(Good') /\ states' # <<>>
         /\ held' \in Seq(Nat)
         /\ \A k \in 1..Len(held') : held'[k] \in 1..(Len(states') - 1)
         /\ \A j, k \in 1..Len(held') : j < k => held'[j] < held'[k]
<1>1. Good' = Good
  BY Zenon DEF Good
<1>2. Len(states) \in Nat /\ Len(states') \in Nat /\ Len(states) <= Len(states')
  BY DEF IInv, Grown
<1>3. \A k \in 1..Len(held) : held[k] \in 1..(Len(states) - 1)
  BY Zenon DEF IInv
<1>4. \A k \in 1..Len(held') : held'[k] \in 1..(Len(states') - 1)
  BY <1>2, <1>3
<1> QED
  BY <1>1, <1>4, Zenon DEF IInv, Grown

\* Every step preserves the invariant.
LEMMA StepInv == IInv /\ [Next]_vars => IInv'
<1> SUFFICES ASSUME IInv, [Next]_vars PROVE IInv'
  BY Zenon
<1>1. CASE Working
  <2>1. Worked /\ pc # "idle"
    BY <1>1, WorkingWorks, Zenon
  <2>2. Len(str) \in Nat /\ from \in 0..Pos(states) /\ Pos(states) \in 0..(Len(str) + 1)
    BY <2>1, Starts, Zenon
  <2>3. from' \in 0..Pos(states') /\ (Encoding' => start' \in from'..Pos(states'))
    BY <2>1, <2>2 DEF Worked
  <2> QED
    BY <2>1, <2>3, HeldKept, Zenon DEF Worked, IInv
<1>2. CASE CallScan \/ CallDotAtom \/ CallText \/ CallPhrase
  <2>1. Called
    BY <1>2, CallsProduction, Zenon
  <2>2. Len(str) \in Nat /\ Pos(states) \in 0..(Len(str) + 1)
    BY PosIn DEF IInv
  <2>3. from' \in 0..Pos(states')
    BY <2>1, <2>2 DEF Called
  <2>4. pc' # "words"
    BY <2>1, Zenon DEF Called, Encoding
  <2> QED
    BY <2>1, <2>3, <2>4, HeldKept, Zenon DEF Called, IInv
<1>3. CASE CallMark
  <2>1. /\ pc' = "idle" /\ str' = str /\ Grown(states, states') /\ Len(states') = Len(states) + 1
        /\ held' = Append(held, Len(states))
    BY <1>3, CallsMark, Zenon
  <2>2. Good' = Good
    BY <2>1, Zenon DEF Good
  <2>3. /\ held \in Seq(Nat) /\ Len(held) \in Nat /\ Len(states) \in Nat /\ Len(states) >= 1
        /\ \A k \in 1..Len(held) : held[k] \in 1..(Len(states) - 1)
        /\ \A j, k \in 1..Len(held) : j < k => held[j] < held[k]
    BY DEF IInv
  <2>4. /\ held' \in Seq(Nat) /\ Len(held') = Len(held) + 1 /\ held'[Len(held) + 1] = Len(states)
        /\ \A k \in 1..Len(held) : held'[k] = held[k]
    BY <2>1, <2>3
  <2>5. \A k \in 1..Len(held') : held'[k] \in 1..(Len(states') - 1)
    BY <2>1, <2>3, <2>4
  <2>6. \A j, k \in 1..Len(held') : j < k => held'[j] < held'[k]
    <3> SUFFICES ASSUME NEW j \in 1..Len(held'), NEW k \in 1..Len(held'), j < k
                 PROVE  held'[j] < held'[k]
      BY Zenon
    <3>1. j \in 1..Len(held) /\ held'[j] = held[j] /\ held[j] < Len(states)
      BY <2>3, <2>4
    <3>2. CASE k = Len(held) + 1
      BY <2>4, <3>1, <3>2, Zenon
    <3>3. CASE k \in 1..Len(held)
      <4>1. held[j] < held[k]
        BY <2>3, <3>1, <3>3, Zenon
      <4>2. held'[k] = held[k]
        BY <2>4, <3>3, Zenon
      <4> QED
        BY <3>1, <4>1, <4>2, Zenon
    <3>4. k = Len(held) + 1 \/ k \in 1..Len(held)
      <4>1. k \in 1..(Len(held) + 1)
        BY <2>4, Zenon
      <4> QED
        BY <2>3, <4>1, LastOrBefore, Zenon
    <3> QED
      BY <3>2, <3>3, <3>4, Zenon
  <2>7. ~Encoding'
    BY <2>1, Zenon DEF Encoding
  <2> QED
    BY <2>1, <2>2, <2>4, <2>5, <2>6, <2>7, Zenon DEF IInv, Grown
<1>4. CASE CallRestore
  <2>1. pc' = "idle" /\ str' = str
    BY <1>4, CallsRestore, Zenon
  <2>2. PICK k \in 1..Len(held) :
           /\ held' = SubSeq(held, 1, k - 1)
           /\ states' \in Seq(Good) /\ Len(states') = held[k]
    BY <1>4, CallsRestore, Zenon
  <2>3. /\ held \in Seq(Nat) /\ Len(held) \in Nat
        /\ \A j \in 1..Len(held) : held[j] \in Nat /\ held[j] >= 1
        /\ \A j, l \in 1..Len(held) : j < l => held[j] < held[l]
    BY DEF IInv
  <2>4. /\ held' \in Seq(Nat) /\ Len(held') = k - 1
        /\ \A j \in 1..(k - 1) : held'[j] = held[j]
    BY <2>2, <2>3
  <2>5. \A j \in 1..Len(held') : held'[j] \in 1..(Len(states') - 1)
    BY <2>2, <2>3, <2>4
  <2>6. \A j, l \in 1..Len(held') : j < l => held'[j] < held'[l]
    <3> SUFFICES ASSUME NEW j \in 1..Len(held'), NEW l \in 1..Len(held'), j < l
                 PROVE  held'[j] < held'[l]
      BY Zenon
    <3>1. j \in 1..Len(held) /\ l \in 1..Len(held) /\ j \in 1..(k - 1) /\ l \in 1..(k - 1)
      BY <2>2, <2>3, <2>4
    <3>2. held[j] < held[l]
      BY <2>3, <3>1, Zenon
    <3>3. held'[j] = held[j] /\ held'[l] = held[l]
      BY <2>4, <3>1, Zenon
    <3> QED
      BY <3>2, <3>3, Zenon
  <2>7. Good' = Good /\ ~Encoding' /\ states' # <<>>
    BY <2>1, <2>2, <2>3 DEF Good, Encoding
  <2> QED
    BY <2>1, <2>2, <2>4, <2>5, <2>6, <2>7, Zenon DEF IInv
<1>5. CASE UNCHANGED vars
  BY <1>5, Zenon DEF vars, IInv, Good, Encoding, Pos
<1> QED
  BY <1>1, <1>2, <1>3, <1>4, <1>5, Zenon DEF Next

(***************************************************************************)
(* The list of states is never empty, holds no error between the steps,    *)
(* and keeps every cursor in the text or one past its end; marks that a    *)
(* caller holds stay valid.                                                *)
(***************************************************************************)
THEOREM ParserInvariant == Spec => []IInv
<1> QED
  BY InitInv, StepInv, PTL DEF Spec

(***************************************************************************)
(* ProductionsProgress for every text: no loop of the parser can run on    *)
(* without reading.                                                        *)
(***************************************************************************)
THEOREM ParserProgress == Spec => ProductionsProgress
<1>1. IInv /\ [Next]_vars => [pc # "idle" => Progress]_vars
  <2> SUFFICES ASSUME IInv, Next, pc # "idle" PROVE Progress
    BY Zenon
  <2>1. Working
    BY Zenon DEF Next, CallMark, CallRestore, CallScan, CallDotAtom, CallText, CallPhrase, Call
  <2> QED
    BY <2>1, WorkingWorks, Zenon DEF Worked
<1> QED
  BY <1>1, ParserInvariant, PTL DEF Spec, ProductionsProgress

\* What a caller sees.
At == IF pc = "idle" THEN Pos(states) ELSE from
Saved == [k \in DOMAIN held |-> states[held[k]].at]

\* What was saved at the marks a caller holds stays as it was.
LEMMA SavedKept ==
  ASSUME IInv, Grown(states, states'), UNCHANGED <<str, held>>
  PROVE  Saved' = Saved /\ Valid(states) /\ Valid(states')
<1>1. \A k \in 1..Len(held) : held[k] \in 1..(Len(states) - 1)
  BY Zenon DEF IInv
<1>2. \A k \in 1..Len(held) : states'[held[k]] = states[held[k]]
  BY <1>1, Zenon DEF Grown
<1>3. DOMAIN held = 1..Len(held)
  BY DEF IInv
<1>4. Saved' = Saved
  BY <1>2, <1>3, Zenon DEF Saved
<1> QED
  BY <1>4, PosIn, Zenon DEF IInv, Grown

(***************************************************************************)
(* The parser implements Cursor: whatever productions, marks and restores  *)
(* a caller combines, it sees a cursor that productions only move forward  *)
(* and restore puts back where the mark was set.                           *)
(***************************************************************************)
THEOREM ParserImplementsCursor == Spec => ImplementsCursor
<1>1. Init => Abstract!Init
  <2> SUFFICES ASSUME Init PROVE Abstract!Init
    BY Zenon
  <2>1. str \in Seq(Char)
    BY ParserAssumption, Zenon DEF Init
  <2>2. states = <<[at |-> 0, err |-> FALSE]>> /\ held = <<>> /\ pc = "idle"
    BY Zenon DEF Init
  <2>3. Pos(states) = 0 /\ Valid(states) = TRUE
    BY <2>2, Zenon DEF Pos, Valid
  <2>4. [k \in DOMAIN held |-> states[held[k]].at] = <<>>
    BY <2>2
  <2> QED
    BY <2>1, <2>2, <2>3, <2>4 DEF Abstract!Init
<1>2. IInv /\ [Next]_vars => [Abstract!Next]_(Abstract!vars)
  <2> SUFFICES ASSUME IInv, [Next]_vars
               PROVE  [Abstract!Next]_(Abstract!vars)
    BY Zenon
  <2>1. Len(str) \in Nat /\ Pos(states) \in 0..(Len(str) + 1)
    BY PosIn DEF IInv
  <2>2. CASE Working
    <3>1. Worked /\ pc # "idle"
      BY <2>2, WorkingWorks, Zenon
    <3>2. Saved' = Saved /\ Valid(states) /\ Valid(states')
      BY <3>1, SavedKept, Zenon DEF Worked
    <3>3. At = from /\ At' \in from..(Len(str) + 1)
      BY <2>1, <3>1, Starts DEF Worked, At
    <3> QED
      BY <3>1, <3>2, <3>3, Zenon DEF Abstract!Next, Abstract!Move, Worked, At, Saved
  <2>3. CASE CallScan \/ CallDotAtom \/ CallText \/ CallPhrase
    <3>1. Called /\ pc = "idle"
      BY <2>3, CallsProduction, Zenon
    <3>2. Saved' = Saved /\ Valid(states) /\ Valid(states')
      BY <3>1, SavedKept, Zenon DEF Called
    <3>3. At = Pos(states) /\ At' \in At..(Len(str) + 1)
      BY <2>1, <3>1 DEF Called, At
    <3> QED
      BY <3>1, <3>2, <3>3, Zenon DEF Abstract!Next, Abstract!Move, Called, At, Saved
  <2>4. CASE CallMark
    <3>1. /\ pc = "idle" /\ pc' = "idle" /\ str' = str
          /\ Grown(states, states') /\ Pos(states') = Pos(states)
          /\ \A k \in 1..Len(states) : states'[k] = states[k]
          /\ held' = Append(held, Len(states))
      BY <2>4, CallsMark, Zenon
    <3>2. Valid(states) /\ Valid(states') /\ At' = At /\ At = Pos(states)
      BY <3>1, PosIn, Zenon DEF IInv, Grown, At
    <3>3. /\ held \in Seq(Nat) /\ Len(held) \in Nat /\ Len(states) \in Nat /\ Len(states) >= 1
          /\ DOMAIN held = 1..Len(held)
          /\ \A k \in 1..Len(held) : held[k] \in 1..(Len(states) - 1)
      BY DEF IInv
    <3>4. /\ DOMAIN held' = 1..(Len(held) + 1) /\ held'[Len(held) + 1] = Len(states)
          /\ \A k \in 1..Len(held) : held'[k] = held[k]
      BY <3>1, <3>3
    <3>5. Saved' = Append(Saved, At)
      <4>1. \A k \in 1..Len(held) : states'[held'[k]].at = states[held[k]].at
        BY <3>1, <3>3, <3>4
      <4>2. states'[held'[Len(held) + 1]].at = At
        BY <3>1, <3>2, <3>3, <3>4 DEF Pos
      <4>3. Saved = [k \in 1..Len(held) |-> states[held[k]].at]
        BY <3>3, Zenon DEF Saved
      <4>4. Saved' = [k \in 1..(Len(held) + 1) |-> states'[held'[k]].at]
        BY <3>4, Zenon DEF Saved
      <4>5. \A k \in 1..Len(held) : states[held[k]].at \in Nat
        <5> SUFFICES ASSUME NEW k \in 1..Len(held) PROVE states[held[k]].at \in Nat
          BY Zenon
        <5>1. held[k] \in 1..Len(states)
          BY <3>3
        <5>2. states[held[k]] \in Good
          BY <5>1 DEF IInv
        <5>3. states[held[k]].at \in 0..(Len(str) + 1)
          BY <5>2, Zenon DEF Good
        <5> QED
          BY <5>3
      <4>6. Saved \in Seq(Nat) /\ Len(Saved) = Len(held)
        BY <3>3, <4>3, <4>5
      <4>7. At \in Nat
        BY <2>1, <3>2
      <4>8. /\ Append(Saved, At) \in Seq(Nat) /\ Len(Append(Saved, At)) = Len(held) + 1
            /\ Append(Saved, At)[Len(held) + 1] = At
            /\ \A k \in 1..Len(held) : Append(Saved, At)[k] = Saved[k]
        BY <4>6, <4>7, AppendProperties
      <4>9. \A k \in 1..(Len(held) + 1) : Saved'[k] = Append(Saved, At)[k] /\ Saved'[k] \in Nat
        <5> SUFFICES ASSUME NEW k \in 1..(Len(held) + 1)
                     PROVE  Saved'[k] = Append(Saved, At)[k] /\ Saved'[k] \in Nat
          BY Zenon
        <5>1. CASE k = Len(held) + 1
          BY <4>2, <4>4, <4>7, <4>8, <5>1, Zenon
        <5>2. CASE k \in 1..Len(held)
          BY <4>1, <4>3, <4>4, <4>5, <4>8, <5>2, Zenon
        <5> QED
          BY <3>3, <5>1, <5>2, LastOrBefore, Zenon
      <4>10. Saved' \in Seq(Nat) /\ Len(Saved') = Len(held) + 1
        BY <3>3, <4>4, <4>9, IsASeq
      <4> QED
        BY <4>8, <4>9, <4>10, SeqEqual, Zenon
    <3> QED
      BY <3>1, <3>2, <3>5, Zenon DEF Abstract!Next, Abstract!Mark, At, Saved
  <2>5. CASE CallRestore
    <3>1. pc = "idle" /\ pc' = "idle" /\ str' = str
      BY <2>5, CallsRestore, Zenon
    <3>2. PICK k \in 1..Len(held) :
             /\ held' = SubSeq(held, 1, k - 1)
             /\ states' \in Seq(Good) /\ Len(states') = held[k] /\ Pos(states') = states[held[k]].at
             /\ \A j \in 1..held[k] : states'[j] = states[j]
      BY <2>5, CallsRestore, Zenon
    <3>3. /\ held \in Seq(Nat) /\ Len(held) \in Nat /\ DOMAIN held = 1..Len(held)
          /\ \A j \in 1..Len(held) : held[j] \in Nat /\ held[j] >= 1
          /\ \A j, l \in 1..Len(held) : j < l => held[j] < held[l]
      BY DEF IInv
    <3>4. states' # <<>> /\ Valid(states) /\ Valid(states')
      BY <3>2, <3>3, PosIn DEF IInv
    <3>5. At' = Saved[k] /\ k \in DOMAIN Saved
      BY <3>1, <3>2, <3>3, Zenon DEF At, Saved
    <3>6. Saved' = SubSeq(Saved, 1, k - 1)
      <4>1. /\ held' \in Seq(Nat) /\ DOMAIN held' = 1..(k - 1)
            /\ \A j \in 1..(k - 1) : held'[j] = held[j]
        BY <3>2, <3>3
      <4>2. \A j \in 1..(k - 1) : states'[held'[j]].at = states[held[j]].at
        <5> SUFFICES ASSUME NEW j \in 1..(k - 1) PROVE states'[held'[j]].at = states[held[j]].at
          BY Zenon
        <5>1. j \in 1..Len(held) /\ j < k /\ held'[j] = held[j]
          BY <3>2, <3>3, <4>1
        <5>2. held[j] \in 1..held[k]
          BY <3>2, <3>3, <5>1
        <5> QED
          BY <3>2, <5>1, <5>2, Zenon
      <4>3. Saved = [j \in 1..Len(held) |-> states[held[j]].at]
        BY <3>3, Zenon DEF Saved
      <4>4. Saved' = [j \in 1..(k - 1) |-> states[held[j]].at]
        BY <4>1, <4>2, Zenon DEF Saved
      <4>5. SubSeq(Saved, 1, k - 1) = [j \in 1..(k - 1) |-> Saved[j]]
        BY <3>2, <3>3
      <4> QED
        BY <3>2, <3>3, <4>3, <4>4, <4>5
    <3> QED
      BY <3>1, <3>4, <3>5, <3>6, Zenon DEF Abstract!Next, Abstract!Restore, At, Saved
  <2>6. CASE UNCHANGED vars
    BY <2>6, Zenon DEF vars, Abstract!vars, Pos, Valid
  <2> QED
    BY <2>2, <2>3, <2>4, <2>5, <2>6, Zenon DEF Next
<1> QED
  BY <1>1, <1>2, ParserInvariant, PTL DEF Spec, ImplementsCursor, Abstract!Spec

-----------------------------------------------------------------------------
(***************************************************************************)
(* What is tried in vain is given back.  DotAtom stands behind an atom     *)
(* character between its iterations, and encodedWords behind a word, or    *)
(* where it began.                                                         *)
(***************************************************************************)
VainInv ==
    /\ pc = "dotatom" => str[Pos(states)] \in Atext
    /\ pc = "words" => Pos(states) = start \/ BehindWord(Pos(states))

(***************************************************************************)
(* Why Text, which has no rule for the space between two encoded words,    *)
(* never writes one: encodedWords has looked past the white space already  *)
(* and found no word there, and so finds none in the next iteration.       *)
(***************************************************************************)
Kinds == {"space", "word", "encoded"}

NoWordAt(p) == EncodedWordEnd(str, p, "text", Charsets) = p

AfterEncoded == LastIs("encoded") /\ gap

OutInv ==
    /\ out \in Seq(Kinds) /\ gap \in BOOLEAN
    /\ NoSpaceBetweenEncoded
    /\ pc \in {"nextword", "nextphrase", "words", "text", "phrase"} => ~LastIs("space")
    /\ pc = "nextword" /\ AfterEncoded => NoWordAt(Pos(states))
    /\ pc = "words" /\ back = "text" /\ AfterEncoded =>
          Pos(states) = start /\ WhitespaceEnd(str, start) = start /\ NoWordAt(start)
    /\ pc = "text" /\ AfterEncoded => Pos(states) = start
    /\ pc = "text" /\ Pos(states) # start => NoWordAt(WhitespaceEnd(str, Pos(states)))

\* Which step of a production leads to DotAtom's or encodedWords' loop.
LEMMA LoopEntered ==
  ASSUME IInv, [Next]_vars
  PROVE  /\ pc' = "dotatom" => CallDotAtom \/ DotAtom \/ UNCHANGED vars
         /\ pc' = "words" => \/ EncodedWords \/ UNCHANGED vars
                             \/ Pos(states') = start'
         /\ pc = "dotatom" => DotAtom \/ UNCHANGED vars
         /\ pc = "words" => EncodedWords \/ UNCHANGED vars
<1>1. CASE CallMark \/ CallRestore \/ CallScan
  BY <1>1, Zenon DEF CallMark, CallRestore, CallScan, Call
<1>2. CASE CallDotAtom
  BY <1>2, Zenon DEF CallDotAtom, Call
<1>3. CASE CallText \/ CallPhrase
  BY <1>3, Zenon DEF CallText, CallPhrase, Call
<1>4. CASE DotAtom
  BY <1>4, Zenon DEF DotAtom
<1>5. CASE EncodedWords
  <2>1. pc = "words" /\ back \in {"text", "phrase"} /\ pc' \in {"panic", "words", back}
    BY <1>5, Zenon DEF EncodedWords, IInv
  <2> QED
    BY <1>5, <2>1, Zenon
<1>6. ASSUME NEW st, NEW p, NEW kind, TextTook(st, p, kind) \/ PhraseTook(st, p, kind)
      PROVE  pc' \in {"idle", "nextword", "nextphrase"}
  BY <1>6, Zenon DEF TextTook, PhraseTook
<1>7. ASSUME NEW st, NEW b, NEW p, PlainPhrase(st, b, p)
      PROVE  pc' \in {"idle", "nextword", "nextphrase"}
  BY <1>6, <1>7, Zenon DEF PlainPhrase
<1>8. ASSUME NEW who, Encoded(restore(Step(mark(states), Pos(states) + 2), Len(states)), Pos(states), who),
             PresentAt(str, Pos(states), <<"=", "?">>)
      PROVE  pc' = "words" /\ Pos(states') = start'
  <2>1. /\ Len(str) \in Nat /\ Pos(states) \in 0..(Len(str) + 1)
        /\ states \in Seq(Good) /\ states # <<>>
    BY PosIn DEF IInv
  <2>2. Pos(states) + 2 <= Len(str)
    <3>1. Len(<<"=", "?">>) = 2
      BY Zenon
    <3> QED
      BY <1>8, <3>1, Zenon DEF PresentAt
  <2>3. Pos(states) + 2 \in 0..(Len(str) + 1)
    BY <2>1, <2>2
  <2>4. restore(Step(mark(states), Pos(states) + 2), Len(states)) = states
    BY <2>1, <2>3, TryUndone, Zenon
  <2> QED
    BY <1>8, <2>4, Zenon DEF Encoded
<1>9. CASE Text
  BY <1>6, <1>8, <1>9, Zenon DEF Text
<1>10. CASE TextEncoded
  BY <1>6, <1>10, Zenon DEF TextEncoded
<1>11. CASE Phrase
  <2>1. pc = "nextphrase"
    BY <1>11, Zenon DEF Phrase
  <2>2. \/ pc' = "idle"
        \/ PlainPhrase(mark(states), Len(states), Pos(states))
        \/ /\ PresentAt(str, Pos(states), <<"=", "?">>)
           /\ Encoded(restore(Step(mark(states), Pos(states) + 2), Len(states)), Pos(states), "phrase")
    BY <1>11, Zenon DEF Phrase
  <2> QED
    BY <1>7, <1>8, <2>1, <2>2, Zenon
<1>12. CASE PhraseEncoded
  <2>1. pc = "phrase"
    BY <1>12, Zenon DEF PhraseEncoded
  <2>2. \/ PhraseTook(states, start, "encoded")
        \/ PlainPhrase(states, Len(states), start)
    BY <1>12, Zenon DEF PhraseEncoded
  <2> QED
    BY <1>6, <1>7, <2>1, <2>2, Zenon
<1>13. CASE UNCHANGED vars
  BY <1>13, Zenon
<1> QED
  BY <1>1, <1>2, <1>3, <1>4, <1>5, <1>9, <1>10, <1>11, <1>12, <1>13, Zenon DEF Next, Working

\* A step of the parser keeps VainInv.
LEMMA VainStep ==
  ASSUME IInv, VainInv, [Next]_vars
  PROVE  VainInv'
<1>1. str' = str
  BY Zenon DEF vars, Next, Working, CallMark, CallRestore, CallScan, CallDotAtom, CallText,
         CallPhrase, Call, DotAtom, EncodedWords, Text, TextEncoded, Phrase, PhraseEncoded
<1>2. ASSUME pc' = "dotatom" PROVE str[Pos(states')] \in Atext
  <2>1. CASE CallDotAtom
    <3> DEFINE p == Pos(states)
               e == AtomEnd(str, p)
    <3>1. /\ str \in Seq(Char) /\ Len(str) \in Nat /\ p \in 0..(Len(str) + 1)
          /\ states \in Seq(Good) /\ states # <<>>
      BY PosIn DEF IInv
    <3>2. e # CommentEnd(str, p) /\ states' = Step(states, e)
      BY <1>2, <2>1, Zenon DEF CallDotAtom, Call
    <3>3. str[e] \in Atext
      BY <3>1, <3>2, AtomEndBehind, Zenon
    <3>4. e \in 0..(Len(str) + 1)
      <4>1. e \in p..(Len(str) + 1)
        BY <3>1, AtomEndIn, Zenon
      <4> QED
        BY <3>1, <4>1
    <3>5. Pos(states') = e
      BY <3>1, <3>2, <3>4, StepGrows, Zenon
    <3> QED
      BY <3>3, <3>5, Zenon
  <2>2. CASE DotAtom
    BY <1>2, <2>2, DotAtomWorks, Zenon DEF DotAtomTried
  <2>3. CASE UNCHANGED vars
    BY <1>2, <2>3, Zenon DEF vars, VainInv
  <2> QED
    BY <1>2, <2>1, <2>2, <2>3, LoopEntered, Zenon
<1>3. ASSUME pc' = "words" PROVE Pos(states') = start' \/ BehindWord(Pos(states'))
  <2>1. CASE EncodedWords
    <3>1. back \in {"text", "phrase"}
      BY <2>1, Zenon DEF EncodedWords, IInv
    <3> QED
      BY <1>3, <2>1, <3>1, EncodedWordsWorks, Zenon DEF WordsTried
  <2>2. CASE UNCHANGED vars
    BY <1>3, <2>2, Zenon DEF vars, VainInv
  <2> QED
    BY <1>3, <2>1, <2>2, LoopEntered, Zenon
<1> QED
  BY <1>1, <1>2, <1>3, Zenon DEF VainInv, BehindWord

\* TriedInVain for every text: whatever a caller does before, DotAtom() and
\* encodedWords() give back what they read beyond their last atom or word.
THEOREM ParserGivesBack == Spec => TriedInVain
<1>1. Init => VainInv
  BY Zenon DEF Init, VainInv
<1>2. IInv /\ VainInv /\ [Next]_vars => VainInv'
  BY VainStep, Zenon
<1>3. IInv /\ VainInv /\ [Next]_vars =>
        [/\ pc = "dotatom" /\ pc' = "idle" => str[Pos(states')] \in Atext
         /\ pc = "words" /\ pc' = back =>
               \/ Pos(states') = start
               \/ SubSeq(str, Pos(states') - 1, Pos(states')) = <<"?", "=">>]_vars
  <2> SUFFICES ASSUME IInv, VainInv, Next
               PROVE  /\ pc = "dotatom" /\ pc' = "idle" => str[Pos(states')] \in Atext
                      /\ pc = "words" /\ pc' = back =>
                            Pos(states') = start \/ BehindWord(Pos(states'))
    BY Zenon DEF BehindWord
  <2>1. ASSUME pc = "dotatom", pc' = "idle" PROVE str[Pos(states')] \in Atext
    <3>1. DotAtom
      BY <2>1, LoopEntered, Zenon DEF vars
    <3>2. states' = states
      BY <2>1, <3>1, DotAtomWorks, Zenon DEF DotAtomTried
    <3> QED
      BY <2>1, <3>2, Zenon DEF VainInv
  <2>2. ASSUME pc = "words", pc' = back
        PROVE  Pos(states') = start \/ BehindWord(Pos(states'))
    <3>1. back \in {"text", "phrase"}
      BY <2>2, Zenon DEF IInv
    <3>2. EncodedWords
      BY <2>2, <3>1, LoopEntered, Zenon DEF vars
    <3>3. states' = states
      BY <2>2, <3>1, <3>2, EncodedWordsWorks, Zenon DEF WordsTried
    <3> QED
      BY <2>2, <3>3, Zenon DEF VainInv
  <2> QED
    BY <2>1, <2>2, Zenon
<1> QED
  BY <1>1, <1>2, <1>3, ParserInvariant, PTL DEF Spec, TriedInVain

\* NoSpaceBetweenEncoded of a sequence o, and its last element.
Unspaced(o) == \A k \in 1..(Len(o) - 2) : SubSeq(o, k, k + 2) # <<"encoded", "space", "encoded">>
Ends(o, x) == o # <<>> /\ o[Len(o)] = x

\* Three elements of a sequence.
LEMMA Three ==
  ASSUME NEW o \in Seq(Kinds), NEW k \in 1..(Len(o) - 2)
  PROVE  SubSeq(o, k, k + 2) = <<"encoded", "space", "encoded">> <=>
         o[k] = "encoded" /\ o[k + 1] = "space" /\ o[k + 2] = "encoded"
<1>1. Len(o) \in Nat /\ k \in Nat /\ k >= 1 /\ k + 2 <= Len(o)
  OBVIOUS
<1> DEFINE q == SubSeq(o, k, k + 2)
<1>2. /\ q \in Seq(Kinds) /\ Len(q) = 3
      /\ q[1] = o[k] /\ q[2] = o[k + 1] /\ q[3] = o[k + 2]
  <2>1. k \in 1..(Len(o) + 1) /\ k + 2 \in (k - 1)..Len(o) /\ (k + 2) - k + 1 = 3
    BY <1>1
  <2>2. /\ q \in Seq(Kinds) /\ Len(q) = (k + 2) - k + 1
        /\ \A x \in 1..((k + 2) - k + 1) : q[x] = o[k + x - 1]
    BY <2>1, SubSeqProperties
  <2>3. k + 1 - 1 = k /\ k + 2 - 1 = k + 1 /\ k + 3 - 1 = k + 2
    BY <1>1
  <2>4. 1 \in 1..3 /\ 2 \in 1..3 /\ 3 \in 1..3
    OBVIOUS
  <2> HIDE DEF q
  <2> QED
    BY <2>1, <2>2, <2>3, <2>4, Zenon
<1>3. q = <<q[1], q[2], q[3]>>
  <2> HIDE DEF q
  <2> QED
    BY <1>2
<1> HIDE DEF q
<1>4. q = <<"encoded", "space", "encoded">> <=> q[1] = "encoded" /\ q[2] = "space" /\ q[3] = "encoded"
  BY <1>3
<1> QED
  BY <1>2, <1>4, Zenon DEF q

\* Another element makes no space between encoded words unless it is an
\* encoded word behind one and a space.
LEMMA AppendUnspaced ==
  ASSUME NEW o \in Seq(Kinds), NEW x \in Kinds, Unspaced(o),
         x = "encoded" => ~(Len(o) >= 2 /\ o[Len(o)] = "space" /\ o[Len(o) - 1] = "encoded")
  PROVE  /\ Append(o, x) \in Seq(Kinds) /\ Unspaced(Append(o, x))
         /\ Ends(Append(o, x), x) /\ Append(o, x) = o \o <<x>>
<1> DEFINE a == Append(o, x)
<1>1. Len(o) \in Nat
  OBVIOUS
<1>2. /\ a \in Seq(Kinds) /\ Len(a) = Len(o) + 1 /\ a[Len(o) + 1] = x /\ a # <<>>
      /\ \A k \in 1..Len(o) : a[k] = o[k]
  BY AppendProperties, Zenon
<1>3. a = o \o <<x>>
  OBVIOUS
<1> HIDE DEF a
<1>4. ASSUME NEW k \in 1..(Len(a) - 2)
      PROVE  SubSeq(a, k, k + 2) # <<"encoded", "space", "encoded">>
  <2>1. k \in Nat /\ k >= 1 /\ k + 1 <= Len(o)
    BY <1>1, <1>2
  <2>2. a[k] = o[k] /\ a[k + 1] = o[k + 1]
    BY <1>1, <1>2, <2>1
  <2>3. CASE k + 1 = Len(o)
    <3>1. k + 2 = Len(o) + 1 /\ k = Len(o) - 1 /\ Len(o) >= 2
      BY <1>1, <2>1, <2>3
    <3>2. ~(a[k] = "encoded" /\ a[k + 1] = "space" /\ a[k + 2] = "encoded")
      BY <1>2, <2>2, <2>3, <3>1, Zenon
    <3> QED
      BY <1>2, <3>2, Three, Zenon
  <2>4. CASE k + 1 # Len(o)
    <3>1. k \in 1..(Len(o) - 2) /\ k + 2 \in 1..Len(o)
      BY <1>1, <2>1, <2>4
    <3>2. ~(o[k] = "encoded" /\ o[k + 1] = "space" /\ o[k + 2] = "encoded")
      BY <3>1, Three, Zenon DEF Unspaced
    <3>3. a[k + 2] = o[k + 2]
      BY <1>2, <3>1, Zenon
    <3> QED
      BY <1>2, <2>2, <3>2, <3>3, Three
  <2> QED
    BY <2>3, <2>4, Zenon
<1>5. Ends(a, x)
  BY <1>2, Zenon DEF Ends
<1> QED
  BY <1>2, <1>3, <1>4, <1>5, Zenon DEF a, Unspaced

\* What Text and Phrase write: a space, perhaps, and a word.
LEMMA WriteUnspaced ==
  ASSUME NEW o \in Seq(Kinds), Unspaced(o), ~Ends(o, "space")
  PROVE  /\ o \o <<"space">> \in Seq(Kinds) /\ Unspaced(o \o <<"space">>)
         /\ \A x \in {"word", "encoded"} :
               /\ o \o <<x>> \in Seq(Kinds) /\ Unspaced(o \o <<x>>) /\ Ends(o \o <<x>>, x)
               /\ ~(x = "encoded" /\ Ends(o, "encoded")) =>
                     /\ o \o <<"space">> \o <<x>> \in Seq(Kinds)
                     /\ Unspaced(o \o <<"space">> \o <<x>>)
                     /\ Ends(o \o <<"space">> \o <<x>>, x)
<1>1. Len(o) \in Nat /\ "space" \in Kinds /\ "word" \in Kinds /\ "encoded" \in Kinds
  BY DEF Kinds
<1> DEFINE g == Append(o, "space")
<1>2. g \in Seq(Kinds) /\ Unspaced(g) /\ g = o \o <<"space">>
  BY <1>1, AppendUnspaced, Zenon
<1>3. Len(g) = Len(o) + 1 /\ \A k \in 1..Len(o) : g[k] = o[k]
  BY <1>1, AppendProperties
<1> HIDE DEF g
<1>4. ~(Len(o) >= 2 /\ o[Len(o)] = "space" /\ o[Len(o) - 1] = "encoded")
  BY DEF Ends
<1>5. ASSUME NEW x \in {"word", "encoded"}
      PROVE  o \o <<x>> \in Seq(Kinds) /\ Unspaced(o \o <<x>>) /\ Ends(o \o <<x>>, x)
  <2>1. x \in Kinds
    BY Zenon DEF Kinds
  <2> QED
    BY <1>4, <2>1, AppendUnspaced, Zenon
<1>6. ASSUME NEW x \in {"word", "encoded"}, ~(x = "encoded" /\ Ends(o, "encoded"))
      PROVE  g \o <<x>> \in Seq(Kinds) /\ Unspaced(g \o <<x>>) /\ Ends(g \o <<x>>, x)
  <2>1. x \in Kinds
    BY Zenon DEF Kinds
  <2>2. x = "encoded" => ~(Len(g) >= 2 /\ g[Len(g)] = "space" /\ g[Len(g) - 1] = "encoded")
    <3> SUFFICES ASSUME x = "encoded", Len(g) >= 2, g[Len(g) - 1] = "encoded" PROVE FALSE
      BY Zenon
    <3>1. Len(g) - 1 = Len(o) /\ Len(o) \in 1..Len(o)
      BY <1>1, <1>3
    <3>2. o[Len(o)] = "encoded" /\ o # <<>>
      BY <1>3, <3>1
    <3> QED
      BY <1>6, <3>2, Zenon DEF Ends
  <2> QED
    BY <1>2, <2>1, <2>2, AppendUnspaced, Zenon
<1> QED
  BY <1>2, <1>5, <1>6, Zenon

\* White space that is not there is not skipped.
LEMMA SpanEndStays ==
  ASSUME NEW s \in Seq(Char), NEW p \in Nat, NEW C, NextChar(s, p) \notin C
  PROVE  SpanEnd(s, p, C) = p
<1> DEFINE S == {e \in p..(Len(s) - 1) : NextChar(s, e) \notin C}
<1>1. Len(s) \in Nat
  OBVIOUS
<1>2. CASE p >= Len(s)
  BY <1>2, Zenon DEF SpanEnd
<1>3. CASE ~(p >= Len(s))
  <2>1. p \in S /\ S \in SUBSET Nat /\ \A l \in S : l >= p
    BY <1>1, <1>3
  <2>2. MinOr(S, Len(s)) \in S /\ MinOr(S, Len(s)) <= p
    <3> HIDE DEF S
    <3> QED
      BY <2>1, MinOrLeast, Zenon
  <2>3. SpanEnd(s, p, C) = MinOr(S, Len(s))
    BY <1>3, Zenon DEF SpanEnd
  <2>4. MinOr(S, Len(s)) \in Nat /\ MinOr(S, Len(s)) >= p
    <3> HIDE DEF S
    <3> QED
      BY <2>1, <2>2, Zenon
  <2> HIDE DEF S
  <2> QED
    BY <2>2, <2>3, <2>4
<1> QED
  BY <1>2, <1>3, Zenon

\* The end of an iteration of Text() keeps OutInv.
LEMMA TextWrites ==
  ASSUME OutInv, pc \in {"nextword", "text"}, NEW st, NEW p, NEW kind \in {"word", "encoded"},
         TextTook(st, p, kind), str' = str, kind = "encoded" => ~AfterEncoded,
         kind = "encoded" /\ pc' = "nextword" => NoWordAt(Pos(states'))
  PROVE  OutInv'
<1>1. out \in Seq(Kinds) /\ Unspaced(out) /\ ~Ends(out, "space") /\ gap \in BOOLEAN
  BY Zenon DEF OutInv, NoSpaceBetweenEncoded, Unspaced, LastIs, Ends
<1>2. gap' \in BOOLEAN /\ pc' \in {"idle", "nextword"}
  BY Zenon DEF TextTook
<1>3. \/ pc' = "idle" /\ out' = out \o WrittenGap
      \/ pc' = "nextword" /\ out' = out \o WrittenGap \o <<kind>>
  BY Zenon DEF TextTook
<1>4. CASE pc' = "idle" /\ out' = out \o WrittenGap
  <2>1. out' = out \/ out' = out \o <<"space">>
    BY <1>1, <1>4 DEF WrittenGap
  <2>2. out' \in Seq(Kinds) /\ Unspaced(out')
    BY <1>1, <2>1, WriteUnspaced, Zenon
  <2> QED
    BY <1>2, <1>4, <2>2, Zenon DEF OutInv, NoSpaceBetweenEncoded, Unspaced
<1>5. CASE pc' = "nextword" /\ out' = out \o WrittenGap \o <<kind>>
  <2>1. out' \in Seq(Kinds) /\ Unspaced(out') /\ Ends(out', kind)
    <3>1. CASE gap
      <4>1. out' = out \o <<"space">> \o <<kind>>
        BY <1>5, <3>1, Zenon DEF WrittenGap
      <4>2. ~(kind = "encoded" /\ Ends(out, "encoded"))
        BY <3>1, Zenon DEF AfterEncoded, LastIs, Ends
      <4> QED
        BY <1>1, <4>1, <4>2, WriteUnspaced, Zenon
    <3>2. CASE ~gap
      <4>1. out' = out \o <<kind>>
        BY <1>1, <1>5, <3>2 DEF WrittenGap
      <4> QED
        BY <1>1, <4>1, WriteUnspaced, Zenon
    <3> QED
      BY <3>1, <3>2, Zenon
  <2>2. ~LastIs("space")'
    BY <2>1, Zenon DEF Ends, LastIs
  <2>3. AfterEncoded' => kind = "encoded"
    BY <2>1, Zenon DEF Ends, LastIs, AfterEncoded
  <2>4. AfterEncoded' => NoWordAt(Pos(states))'
    BY <1>5, <2>3, Zenon DEF NoWordAt
  <2> QED
    BY <1>2, <1>5, <2>1, <2>2, <2>4, Zenon DEF OutInv, NoSpaceBetweenEncoded, Unspaced
<1> QED
  BY <1>3, <1>4, <1>5, Zenon

\* The end of an iteration of Phrase() keeps OutInv.
LEMMA PhraseWrites ==
  ASSUME OutInv, pc \in {"nextphrase", "phrase"}, NEW st, NEW p, NEW kind \in {"word", "encoded"},
         PhraseTook(st, p, kind)
  PROVE  OutInv'
<1>1. out \in Seq(Kinds) /\ Unspaced(out) /\ ~Ends(out, "space") /\ gap \in BOOLEAN
  BY Zenon DEF OutInv, NoSpaceBetweenEncoded, Unspaced, LastIs, Ends
<1>2. CASE pc' = "idle" /\ UNCHANGED <<out, gap>>
  BY <1>1, <1>2, Zenon DEF OutInv, NoSpaceBetweenEncoded, Unspaced
<1>3. CASE pc' = "nextphrase"
  <2>1. /\ gap' \in BOOLEAN
        /\ out' = (IF kind = "encoded" /\ LastIs("encoded") THEN out ELSE out \o WrittenGap) \o <<kind>>
    BY <1>3, Zenon DEF PhraseTook
  <2>2. out' \in Seq(Kinds) /\ Unspaced(out') /\ Ends(out', kind)
    <3>1. CASE gap /\ ~(kind = "encoded" /\ LastIs("encoded"))
      <4>1. out' = out \o <<"space">> \o <<kind>>
        BY <2>1, <3>1, Zenon DEF WrittenGap
      <4>2. ~(kind = "encoded" /\ Ends(out, "encoded"))
        BY <3>1, Zenon DEF LastIs, Ends
      <4> QED
        BY <1>1, <4>1, <4>2, WriteUnspaced, Zenon
    <3>2. CASE ~gap \/ (kind = "encoded" /\ LastIs("encoded"))
      <4>1. out' = out \o <<kind>>
        <5>1. out \o <<>> = out
          BY <1>1
        <5>2. CASE ~gap
          BY <2>1, <5>1, <5>2, Zenon DEF WrittenGap
        <5>3. CASE kind = "encoded" /\ LastIs("encoded")
          BY <2>1, <5>3, Zenon
        <5> QED
          BY <3>2, <5>2, <5>3, Zenon
      <4> QED
        BY <1>1, <4>1, WriteUnspaced, Zenon
    <3> QED
      BY <3>1, <3>2, Zenon
  <2>3. ~LastIs("space")'
    BY <2>2, Zenon DEF Ends, LastIs
  <2> QED
    BY <1>3, <2>1, <2>2, <2>3, Zenon DEF OutInv, NoSpaceBetweenEncoded, Unspaced
<1>4. pc' \in {"idle", "nextphrase"} /\ (pc' = "idle" => UNCHANGED <<out, gap>>)
  BY Zenon DEF PhraseTook
<1> QED
  BY <1>2, <1>3, <1>4, Zenon

\* A quoted string or an atom in a phrase.
LEMMA PlainPhraseWrites ==
  ASSUME OutInv, pc \in {"nextphrase", "phrase"}, NEW st, NEW b, NEW p, PlainPhrase(st, b, p)
  PROVE  OutInv'
<1>1. PICK r : PhraseTook(r, p, "word")
  BY Zenon DEF PlainPhrase
<1> QED
  BY <1>1, PhraseWrites, Zenon

\* A step that writes nothing, outside the loops of Text() and Phrase().
LEMMA SilentStep ==
  ASSUME OutInv, UNCHANGED <<out, gap>>, pc' \in {"idle", "dotatom", "panic"}
  PROVE  OutInv'
  BY Zenon DEF OutInv, NoSpaceBetweenEncoded

\* A step of the parser keeps OutInv.
LEMMA OutStep ==
  ASSUME IInv, OutInv, [Next]_vars
  PROVE  OutInv'
<1>1. /\ str \in Seq(Char) /\ Len(str) \in Nat /\ Pos(states) \in 0..(Len(str) + 1)
      /\ states \in Seq(Good) /\ states # <<>>
  BY PosIn DEF IInv
<1>2. CASE CallMark \/ CallRestore \/ CallScan \/ CallDotAtom
  <2>1. UNCHANGED <<out, gap>> /\ pc' \in {"idle", "dotatom"}
    BY <1>2, Zenon DEF CallMark, CallRestore, CallScan, CallDotAtom, Call
  <2> QED
    BY <2>1, SilentStep, Zenon
<1>3. CASE CallText \/ CallPhrase
  <2>1. out' = <<>> /\ gap' \in BOOLEAN /\ pc' \in {"nextword", "nextphrase"}
    BY <1>3, Zenon DEF CallText, CallPhrase
  <2>2. out' \in Seq(Kinds) /\ NoSpaceBetweenEncoded'
    BY <2>1 DEF NoSpaceBetweenEncoded
  <2>3. ~LastIs("space")' /\ ~AfterEncoded'
    BY <2>1, Zenon DEF LastIs, AfterEncoded
  <2> QED
    BY <2>1, <2>2, <2>3, Zenon DEF OutInv
<1>4. CASE DotAtom
  <2>1. UNCHANGED <<out, gap>> /\ pc' \in {"idle", "dotatom"}
    BY <1>4, Zenon DEF DotAtom
  <2> QED
    BY <2>1, SilentStep, Zenon
<1>5. CASE EncodedWords
  <2> DEFINE n == WhitespaceEnd(str, Pos(states))
             e == EncodedWordEnd(str, n, back, Charsets)
  <2>1. /\ pc = "words" /\ back \in {"text", "phrase"}
        /\ UNCHANGED <<str, start, back, out, gap>>
    BY <1>5, Zenon DEF EncodedWords, IInv
  <2>2. \/ pc' = "words" /\ e # n
        \/ pc' = back /\ e = n /\ states' = states
        \/ pc' = "panic"
    BY <1>5, EncodedWordsWorks, Zenon DEF WordsTried
  <2>3. /\ out' \in Seq(Kinds) /\ gap' \in BOOLEAN /\ NoSpaceBetweenEncoded'
        /\ ~LastIs("space")' /\ AfterEncoded' = AfterEncoded
    BY <2>1, Zenon DEF OutInv, NoSpaceBetweenEncoded, LastIs, AfterEncoded
  <2>4. back = "text" /\ AfterEncoded => Pos(states) = start /\ e = n
    BY <2>1, Zenon DEF OutInv, NoWordAt
  <2>5. CASE pc' = "words" /\ e # n
    BY <2>1, <2>3, <2>4, <2>5, Zenon DEF OutInv
  <2>6. CASE pc' = back /\ e = n /\ states' = states
    <3>1. back = "text" => NoWordAt(WhitespaceEnd(str, Pos(states)))'
      BY <2>1, <2>6, Zenon DEF NoWordAt
    <3> QED
      BY <2>1, <2>3, <2>4, <2>6, <3>1, Zenon DEF OutInv
  <2>7. CASE pc' = "panic"
    BY <2>3, <2>7, Zenon DEF OutInv
  <2> QED
    BY <2>2, <2>5, <2>6, <2>7, Zenon
<1>6. ASSUME pc \in {"nextword", "nextphrase"}, PresentAt(str, Pos(states), <<"=", "?">>),
             NEW who \in {"text", "phrase"}, who = "text" => pc = "nextword", str' = str,
             Encoded(restore(Step(mark(states), Pos(states) + 2), Len(states)), Pos(states), who)
      PROVE  OutInv'
  <2> DEFINE p == Pos(states)
  <2>1. Len(<<"=", "?">>) = 2 /\ <<"=", "?">>[1] = "="
    BY Zenon
  <2>2. p + 2 <= Len(str) /\ SubSeq(str, p + 1, p + 2) = <<"=", "?">>
    BY <1>6, <2>1, Zenon DEF PresentAt
  <2>3. p + 2 \in 0..(Len(str) + 1) /\ p \in Nat /\ p < Len(str)
    BY <1>1, <2>2
  <2>4. states' = states
    BY <1>1, <1>6, <2>3, TryUndone, Zenon DEF Encoded
  <2>5. pc' = "words" /\ back' = who /\ start' = p /\ UNCHANGED <<out, gap>>
    BY <1>6, Zenon DEF Encoded
  <2>6. WhitespaceEnd(str, p) = p
    <3>1. SubSeq(str, p + 1, p + 2)[1] = str[p + 1]
      BY <1>1, <2>3
    <3>2. NextChar(str, p) = "="
      BY <2>1, <2>2, <2>3, <3>1, Zenon DEF NextChar
    <3>3. NextChar(str, p) \notin White
      BY <3>2, Zenon DEF White
    <3> QED
      BY <1>1, <2>3, <3>3, SpanEndStays, Zenon DEF WhitespaceEnd
  <2>7. /\ out' \in Seq(Kinds) /\ gap' \in BOOLEAN /\ NoSpaceBetweenEncoded'
        /\ ~LastIs("space")' /\ AfterEncoded' = AfterEncoded
    BY <1>6, <2>5, Zenon DEF OutInv, NoSpaceBetweenEncoded, LastIs, AfterEncoded
  <2>8. who = "text" /\ AfterEncoded => NoWordAt(p)
    BY <1>6, Zenon DEF OutInv
  <2>9. who = "text" /\ AfterEncoded => /\ Pos(states') = start'
                                        /\ WhitespaceEnd(str', start') = start'
                                        /\ NoWordAt(start)'
    BY <1>6, <2>4, <2>5, <2>6, <2>8, Zenon DEF NoWordAt
  <2> QED
    BY <2>5, <2>7, <2>9, Zenon DEF OutInv
<1>7. CASE Text
  <2>1. pc = "nextword" /\ str' = str
    BY <1>7, Zenon DEF Text
  <2>2. \/ /\ PresentAt(str, Pos(states), <<"=", "?">>)
           /\ Encoded(restore(Step(mark(states), Pos(states) + 2), Len(states)), Pos(states), "text")
        \/ TextTook(Step(mark(states), PlainEnd(Pos(states))), Pos(states), "word")
    BY <1>7, Zenon DEF Text
  <2> QED
    BY <1>6, <2>1, <2>2, TextWrites, Zenon
<1>8. CASE TextEncoded
  <2>1. pc = "text" /\ str' = str
    BY <1>8, Zenon DEF TextEncoded
  <2>2. CASE Pos(states) # start
    <3> DEFINE e == WhitespaceEnd(str, Pos(states))
    <3>1. TextTook(states, start, "encoded")
      BY <1>8, <2>2, Zenon DEF TextEncoded
    <3>2. ~AfterEncoded /\ NoWordAt(e)
      BY <2>1, <2>2, Zenon DEF OutInv
    <3>3. e \in 0..(Len(str) + 1)
      <4>1. e \in Pos(states)..(Len(str) + 1)
        BY <1>1, AtomEndIn, Zenon
      <4> QED
        BY <1>1, <4>1
    <3>4. states' = Step(states, e)
      BY <2>2, <3>1, Zenon DEF TextTook
    <3>5. Pos(states') = e
      BY <1>1, <3>3, <3>4, StepGrows, Zenon
    <3> QED
      BY <2>1, <3>1, <3>2, <3>5, TextWrites, Zenon
  <2>3. CASE Pos(states) = start
    <3>1. TextTook(Step(states, PlainEnd(start)), start, "word")
      BY <1>8, <2>3, Zenon DEF TextEncoded
    <3> QED
      BY <2>1, <3>1, TextWrites, Zenon
  <2> QED
    BY <2>2, <2>3, Zenon
<1>9. CASE Phrase
  <2>1. pc = "nextphrase" /\ str' = str
    BY <1>9, Zenon DEF Phrase
  <2>2. \/ pc' = "idle" /\ UNCHANGED <<out, gap>>
        \/ PlainPhrase(mark(states), Len(states), Pos(states))
        \/ /\ PresentAt(str, Pos(states), <<"=", "?">>)
           /\ Encoded(restore(Step(mark(states), Pos(states) + 2), Len(states)), Pos(states), "phrase")
    BY <1>9, Zenon DEF Phrase
  <2> QED
    BY <1>6, <2>1, <2>2, SilentStep, PlainPhraseWrites, Zenon
<1>10. CASE PhraseEncoded
  <2>1. pc = "phrase"
    BY <1>10, Zenon DEF PhraseEncoded
  <2>2. \/ PhraseTook(states, start, "encoded")
        \/ PlainPhrase(states, Len(states), start)
    BY <1>10, Zenon DEF PhraseEncoded
  <2> QED
    BY <2>1, <2>2, PhraseWrites, PlainPhraseWrites, Zenon
<1>11. CASE UNCHANGED vars
  <2>1. UNCHANGED <<str, states, pc, start, back, out, gap>>
    BY <1>11, Zenon DEF vars
  <2> QED
    BY <2>1, Zenon DEF OutInv, NoSpaceBetweenEncoded, LastIs, AfterEncoded, NoWordAt
<1> QED
  BY <1>2, <1>3, <1>4, <1>5, <1>7, <1>8, <1>9, <1>10, <1>11, Zenon DEF Next, Working

\* NoSpaceBetweenEncoded for every text: neither Phrase() nor Text() puts a space
\* between two encoded words.
THEOREM ParserJoinsEncoded == Spec => []NoSpaceBetweenEncoded
<1>1. Init => OutInv
  <2> SUFFICES ASSUME Init PROVE OutInv
    BY Zenon
  <2>1. out = <<>> /\ gap = FALSE /\ pc = "idle"
    BY Zenon DEF Init
  <2>2. out \in Seq(Kinds) /\ NoSpaceBetweenEncoded
    BY <2>1 DEF NoSpaceBetweenEncoded
  <2> QED
    BY <2>1, <2>2, Zenon DEF OutInv
<1>2. IInv /\ OutInv /\ [Next]_vars => OutInv'
  BY OutStep, Zenon
<1>3. OutInv => NoSpaceBetweenEncoded
  BY Zenon DEF OutInv
<1> QED
  BY <1>1, <1>2, <1>3, ParserInvariant, PTL DEF Spec

-----------------------------------------------------------------------------
(***************************************************************************)
(* Message.BodyPart                                                        *)
(***************************************************************************)
\* Siblings in the order of their numbers, where an equal number is the same
\* part: append may leave a new part twice in a list.
Ascending(cs, nm) ==
  \A k, l \in DOMAIN cs : /\ k < l => nm[cs[k]] <= nm[cs[l]]
                          /\ nm[cs[k]] = nm[cs[l]] => cs[k] = cs[l]

\* The tree is well formed, whatever calls damaged it.
TreeOK ==
  /\ used \subseteq Part /\ 0 \in used
  /\ kids \in [used -> Seq(used)]
  /\ num \in [used -> Nat]
  /\ \A p \in used : Ascending(kids[p], num)

\* A lookup has followed the first m components of its path.
Followed(m) ==
  /\ Len(todo) = Len(call.s) - m
  /\ \A k \in 1..Len(todo) : todo[k] = call.s[m + k]
  /\ \A k \in 1..m : call.s[k] # 0
  /\ ReachedBy(call.s, m) = {bp}

\* Between two steps: a creating call has parts left, another call is where
\* its path leads.
WalkOK ==
  /\ lookup \in {"idle", "walk"}
  /\ bp \in used /\ todo \in Seq(Nat) /\ call.s \in Seq(Nat)
  /\ lookup = "walk" /\ call.create => Cardinality(used) + Len(todo) <= MaxParts + 1
  /\ lookup = "walk" /\ ~call.create => \E m \in 0..Len(call.s) : Followed(m)

LookupInv == TreeOK /\ WalkOK /\ LookupFinds

\* Position is LeastOr of the places numbered n or more.
LEMMA PositionProperties ==
  ASSUME TreeOK, NEW cs \in Seq(used), cs # <<>>, NEW n \in Nat
  PROVE  /\ Position(cs, n) \in DOMAIN cs
         /\ \A k \in DOMAIN cs : k < Position(cs, n) => num[cs[k]] < n
         /\ num[cs[Position(cs, n)]] < n => Position(cs, n) = Len(cs)
  <1> DEFINE here == {k \in DOMAIN cs : num[cs[k]] >= n}
  <1>1. Position(cs, n) = LeastOr(here, Len(cs))
    BY Zenon DEF Position, LeastOr
  <1>2. here \in SUBSET Nat
    OBVIOUS
  <1>3. /\ here = {} => LeastOr(here, Len(cs)) = Len(cs)
        /\ here # {} => /\ LeastOr(here, Len(cs)) \in here
                        /\ \A l \in here : LeastOr(here, Len(cs)) <= l
    BY <1>2, LeastOrLeast, Zenon
  <1>4. Len(cs) \in DOMAIN cs /\ DOMAIN cs \subseteq Nat
    OBVIOUS
  <1>5. \A k \in DOMAIN cs : num[cs[k]] \in Nat /\ (k \in here <=> num[cs[k]] >= n)
    BY DEF TreeOK
  <1> DEFINE q == Position(cs, n)
  <1> HIDE DEF here, q
  <1>6. CASE here = {}
    <2>1. q = Len(cs)
      BY <1>1, <1>3, <1>6, Zenon DEF q
    <2>2. \A k \in DOMAIN cs : num[cs[k]] < n
      BY <1>5, <1>6
    <2> QED
      BY <1>4, <2>1, <2>2, Zenon DEF q
  <1>7. CASE here # {}
    <2>1. q \in here /\ \A l \in here : q <= l
      BY <1>1, <1>3, <1>7, Zenon DEF q
    <2>2. q \in DOMAIN cs
      BY <2>1, Zenon DEF here
    <2>3. ~(num[cs[q]] < n)
      BY <1>5, <2>1, <2>2
    <2>4. \A k \in DOMAIN cs : k < q => num[cs[k]] < n
      BY <1>4, <1>5, <2>1, <2>2
    <2> QED
      BY <2>2, <2>3, <2>4, Zenon DEF q
  <1> QED
    BY <1>6, <1>7, Zenon

\* The loop over the children finds a number if and only if it is there.
LEMMA FoundChildren ==
  ASSUME TreeOK, NEW p \in used, NEW n \in Nat
  PROVE  /\ Found(kids[p], n) => /\ kids[p][Position(kids[p], n)] \in used
                                 /\ Children(p, n) = {kids[p][Position(kids[p], n)]}
         /\ ~Found(kids[p], n) => Children(p, n) = {}
  <1> DEFINE cs == kids[p]
             q == Position(cs, n)
  <1>1. cs \in Seq(used) /\ Ascending(cs, num)
    BY Zenon DEF TreeOK
  <1>2. Children(p, n) = {cs[k] : k \in {k \in DOMAIN cs : num[cs[k]] = n}}
    BY Zenon DEF Children
  <1> HIDE DEF cs
  <1>3. CASE cs = <<>>
    <2>1. ~Found(cs, n)
      BY <1>3, Zenon DEF Found
    <2>2. DOMAIN cs = {}
      BY <1>3
    <2> QED
      BY <1>2, <2>1, <2>2, Zenon DEF cs
  <1>4. CASE cs # <<>>
    <2>1. /\ q \in DOMAIN cs
          /\ \A k \in DOMAIN cs : k < q => num[cs[k]] < n
          /\ num[cs[q]] < n => q = Len(cs)
      BY <1>1, <1>4, PositionProperties, Zenon
    <2>2. Found(cs, n) <=> num[cs[q]] = n
      BY <1>4, Zenon DEF Found
    <2> HIDE DEF q
    <2>3. cs[q] \in used /\ \A k \in DOMAIN cs : num[cs[k]] \in Nat
      BY <1>1, <2>1 DEF TreeOK
    <2>4. ASSUME NEW k \in DOMAIN cs, num[cs[k]] = n
          PROVE  num[cs[q]] = n
      <3>1. k \in Nat /\ q \in Nat /\ k <= Len(cs) /\ Len(cs) \in Nat
        BY <1>1, <2>1
      <3>2. ~(k < q)
        BY <2>1, <2>3, <2>4
      <3>3. CASE k = q
        BY <2>4, <3>3, Zenon
      <3>4. CASE q < k
        <4>1. num[cs[q]] <= num[cs[k]]
          BY <1>1, <2>1, <3>4, Zenon DEF Ascending
        <4>2. ~(num[cs[q]] < n)
          BY <2>1, <3>1, <3>4
        <4> QED
          BY <2>1, <2>3, <2>4, <4>1, <4>2
      <3> QED
        BY <3>1, <3>2, <3>3, <3>4
    <2>5. CASE num[cs[q]] = n
      <3>1. \A k \in DOMAIN cs : num[cs[k]] = n => cs[k] = cs[q]
        BY <1>1, <2>1, <2>5, Zenon DEF Ascending
      <3>2. Children(p, n) = {cs[q]}
        BY <1>2, <2>1, <2>5, <3>1, Zenon
      <3> QED
        BY <2>2, <2>3, <2>5, <3>2, Zenon DEF cs, q
    <2>6. CASE num[cs[q]] # n
      <3>1. Children(p, n) = {}
        BY <1>2, <2>4, <2>6, Zenon
      <3> QED
        BY <2>2, <2>6, <3>1, Zenon DEF cs, q
    <2> QED
      BY <2>5, <2>6, Zenon
  <1> QED
    BY <1>3, <1>4, Zenon

\* One more component.
LEMMA ReachedNext ==
  ASSUME TreeOK, bp \in used, NEW s \in Seq(Nat), NEW m \in 0..(Len(s) - 1),
         ReachedBy(s, m) = {bp}
  PROVE  ReachedBy(s, m + 1) = Children(bp, s[m + 1])
  <1> DEFINE W == [0..Len(s) -> used]
             n == s[m + 1]
  <1>0. /\ m \in Nat /\ m + 1 \in 1..(m + 1) /\ 1..m \subseteq 1..(m + 1) /\ (m + 1) - 1 = m
        /\ m \in 0..Len(s) /\ m + 1 \in 0..Len(s)
    OBVIOUS
  <1>1. ASSUME NEW w \in W, Leads(w, s, m + 1)
        PROVE  w[m + 1] \in Children(bp, n)
    <2>1. Leads(w, s, m)
      BY <1>0, <1>1, Zenon DEF Leads
    <2>2. w[m] = bp
      BY <2>1, Zenon DEF ReachedBy
    <2>3. w[m + 1] \in Children(w[(m + 1) - 1], s[m + 1])
      BY <1>0, <1>1, Zenon DEF Leads
    <2> QED
      BY <1>0, <2>2, <2>3, Zenon
  <1>2. ASSUME NEW c \in Children(bp, n)
        PROVE  c \in ReachedBy(s, m + 1)
    <2>1. c \in used
      <3>1. PICK k \in DOMAIN kids[bp] : c = kids[bp][k]
        BY <1>2, Zenon DEF Children
      <3> QED
        BY <3>1 DEF TreeOK
    <2>2. PICK w \in W : Leads(w, s, m) /\ w[m] = bp
      <3>1. bp \in ReachedBy(s, m)
        BY Zenon
      <3> QED
        BY <3>1, Zenon DEF ReachedBy
    <2> DEFINE v == [w EXCEPT ![m + 1] = c]
    <2>3. /\ v \in W /\ v[m + 1] = c
          /\ \A k \in 0..m : v[k] = w[k]
      BY <1>0, <2>1, <2>2
    <2> HIDE DEF v
    <2>4. v[0] = 0
      <3>1. 0 \in 0..m
        BY <1>0
      <3> QED
        BY <2>2, <2>3, <3>1, Zenon DEF Leads
    <2>5. ASSUME NEW k \in 1..(m + 1)
          PROVE  v[k] \in Children(v[k - 1], s[k])
      <3>1. k \in Nat /\ k - 1 \in 0..m
        BY <1>0, <2>5
      <3>2. CASE k = m + 1
        <4>1. v[k - 1] = bp /\ v[k] = c /\ s[k] = n
          <5>1. k - 1 = m
            BY <1>0, <3>2
          <5> QED
            BY <2>2, <2>3, <3>1, <3>2, <5>1, Zenon
        <4> QED
          BY <1>2, <4>1, Zenon
      <3>3. CASE k # m + 1
        <4>1. k \in 1..m /\ k \in 0..m
          BY <1>0, <2>5, <3>3
        <4>2. v[k] = w[k] /\ v[k - 1] = w[k - 1]
          BY <2>3, <3>1, <4>1, Zenon
        <4>3. w[k] \in Children(w[k - 1], s[k])
          BY <2>2, <4>1, Zenon DEF Leads
        <4> QED
          BY <4>2, <4>3, Zenon
      <3> QED
        BY <3>2, <3>3, Zenon
    <2>6. Leads(v, s, m + 1)
      BY <2>4, <2>5, Zenon DEF Leads
    <2> QED
      BY <2>3, <2>6, Zenon DEF ReachedBy
  <1>3. ASSUME NEW c \in ReachedBy(s, m + 1)
        PROVE  c \in Children(bp, n)
    <2>1. PICK w \in W : Leads(w, s, m + 1) /\ c = w[m + 1]
      BY <1>3, Zenon DEF ReachedBy
    <2> QED
      BY <1>1, <2>1, Zenon
  <1> QED
    BY <1>2, <1>3, Zenon

\* A path that leads nowhere does not lead on.
LEMMA ReachedNothing ==
  ASSUME NEW s \in Seq(Nat), NEW m \in 0..Len(s), ReachedBy(s, m) = {}
  PROVE  Reached(s) = {}
  <1>1. 1..m \subseteq 1..Len(s)
    OBVIOUS
  <1>2. \A w : Leads(w, s, Len(s)) => Leads(w, s, m)
    BY <1>1, Zenon DEF Leads
  <1>3. \A w \in [0..Len(s) -> used] : ~Leads(w, s, m)
    BY Zenon DEF ReachedBy
  <1> QED
    BY <1>2, <1>3, Zenon DEF Reached, ReachedBy

\* The path of no components leads to the message.
LEMMA ReachedFirst ==
  ASSUME 0 \in used, NEW s \in Seq(Nat)
  PROVE  ReachedBy(s, 0) = {0}
  <1> DEFINE w == [k \in 0..Len(s) |-> 0]
  <1>1. w \in [0..Len(s) -> used] /\ w[0] = 0 /\ 1..0 = {}
    OBVIOUS
  <1> HIDE DEF w
  <1>2. \A v : Leads(v, s, 0) <=> v[0] = 0
    BY <1>1, Zenon DEF Leads
  <1>3. 0 \in ReachedBy(s, 0)
    BY <1>1, <1>2, Zenon DEF ReachedBy
  <1>4. \A c \in ReachedBy(s, 0) : c = 0
    BY <1>2, Zenon DEF ReachedBy
  <1> QED
    BY <1>3, <1>4, Zenon

\* A place behind those that are overwritten.
LEMMA BehindShift ==
  ASSUME NEW len \in Nat, NEW l \in 1..len, NEW q \in 1..len, NEW d \in {0, 1}, q + d < l
  PROVE  l - d \in 1..len /\ q < l - d /\ q # len /\ l > q
  OBVIOUS

\* Overwriting with a new number keeps the order.
LEMMA OverwrittenAscending ==
  ASSUME TreeOK, bp \in used, NEW n \in Nat, ~Found(kids[bp], n), NEW child, NEW nm,
         NEW room \in BOOLEAN,
         nm[child] = n, \A p \in used : nm[p] = num[p]
  PROVE  LET o == Overwritten(kids[bp], Position(kids[bp], n), child, room)
         IN  o \in Seq(used \cup {child}) /\ Ascending(o, nm)
  <1> DEFINE cs == kids[bp]
             q == Position(cs, n)
             o == Overwritten(cs, q, child, room)
             d == IF room THEN 1 ELSE 0
  <1>1. cs \in Seq(used) /\ Ascending(cs, num)
    BY Zenon DEF TreeOK
  <1>2. \A k \in DOMAIN cs : cs[k] \in used /\ num[cs[k]] # n
    <2>0. Children(bp, n) = {}
      BY FoundChildren, Zenon
    <2>1. \A k \in DOMAIN cs : num[cs[k]] # n
      BY <2>0, Zenon DEF Children
    <2> QED
      BY <1>1, <2>1
  <1>3. \A k \in DOMAIN cs : num[cs[k]] \in Nat /\ nm[cs[k]] = num[cs[k]]
    BY <1>2 DEF TreeOK
  <1>4. cs # <<>> => /\ q \in DOMAIN cs
                     /\ \A k \in DOMAIN cs : k < q => num[cs[k]] < n
                     /\ num[cs[q]] < n => q = Len(cs)
    BY <1>1, PositionProperties, Zenon
  <1>5. o = [l \in DOMAIN cs |-> IF l = q \/ (room /\ l = q + 1) THEN child
                                 ELSE IF room /\ l > q THEN cs[l - 1] ELSE cs[l]]
    BY Zenon DEF Overwritten
  <1>6. /\ d \in {0, 1} /\ DOMAIN cs = 1..Len(cs) /\ Len(cs) \in Nat
        /\ room <=> d = 1
    BY <1>1
  <1> HIDE DEF cs, q, o, d
  <1>7. CASE cs = <<>>
    <2>1. DOMAIN cs = {} /\ Len(cs) = 0
      BY <1>7
    <2>2. DOMAIN o = {} /\ o = <<>>
      BY <1>5, <2>1
    <2>3. o \in Seq(used \cup {child}) /\ Ascending(o, nm)
      BY <2>2 DEF Ascending
    <2> QED
      BY <2>3, Zenon DEF o, q, cs
  <1>8. CASE cs # <<>>
    <2>1. q \in 1..Len(cs) /\ DOMAIN o = DOMAIN cs
      BY <1>4, <1>5, <1>6, <1>8, Zenon
    <2>2. ASSUME NEW l \in DOMAIN cs, l < q
          PROVE  o[l] = cs[l] /\ nm[o[l]] < n
      <3>1. l # q /\ l # q + 1 /\ ~(l > q)
        BY <1>6, <2>1, <2>2
      <3>2. o[l] = cs[l]
        BY <1>5, <3>1, Zenon
      <3> QED
        BY <1>3, <1>4, <1>8, <2>2, <3>2, Zenon
    <2>3. ASSUME NEW l \in DOMAIN cs, q <= l, l <= q + d
          PROVE  o[l] = child /\ nm[o[l]] = n
      <3>1. l = q \/ (l = q + 1 /\ d = 1)
        BY <1>6, <2>1, <2>3
      <3> QED
        BY <1>5, <1>6, <3>1, Zenon
    <2>4. ASSUME NEW l \in DOMAIN cs, q + d < l
          PROVE  /\ l - d \in DOMAIN cs /\ q < l - d
                 /\ o[l] = cs[l - d] /\ nm[o[l]] = num[cs[l - d]] /\ n < nm[o[l]]
      <3>0. l \in Nat /\ q \in Nat /\ d \in {0, 1}
        BY <1>6, <2>1
      <3>1. l # q /\ (l = q + 1 => d = 0)
        BY <2>4, <3>0
      <3>2. l - d \in DOMAIN cs /\ q < l - d /\ q # Len(cs) /\ l > q
        <4>1. DOMAIN cs = 1..Len(cs) /\ Len(cs) \in Nat /\ l \in 1..Len(cs) /\ q \in 1..Len(cs)
          BY <1>6, <2>1, Zenon
        <4>2. l - d \in 1..Len(cs) /\ q < l - d /\ q # Len(cs) /\ l > q
          BY <2>4, <3>0, <4>1, BehindShift, Zenon
        <4> QED
          BY <4>1, <4>2, Zenon
      <3>3. o[l] = cs[l - d]
        <4>1. CASE d = 1
          <5>1. l - d = l - 1 /\ room /\ l # q /\ l # q + 1
            BY <1>6, <3>1, <4>1
          <5> QED
            BY <1>5, <3>2, <5>1, Zenon
        <4>2. CASE d = 0
          <5>1. l - d = l /\ ~room /\ l # q
            BY <1>6, <3>1, <4>2
          <5> QED
            BY <1>5, <5>1, Zenon
        <4> QED
          BY <1>6, <4>1, <4>2, Zenon
      <3>4. nm[o[l]] = num[cs[l - d]]
        <4>1. nm[cs[l - d]] = num[cs[l - d]]
          BY <1>3, <3>2, Zenon
        <4> QED
          BY <3>3, <4>1, Zenon
      <3>5. num[cs[q]] <= num[cs[l - d]]
        BY <1>1, <1>6, <2>1, <3>2, Zenon DEF Ascending
      <3>6. num[cs[q]] \in Nat /\ num[cs[l - d]] \in Nat /\ num[cs[q]] # n /\ ~(num[cs[q]] < n)
        BY <1>2, <1>3, <1>4, <1>6, <1>8, <2>1, <3>2, Zenon
      <3>7. n < num[cs[l - d]]
        BY <3>5, <3>6
      <3> QED
        BY <3>2, <3>3, <3>4, <3>7, Zenon
    <2>5. ASSUME NEW l \in DOMAIN cs
          PROVE  l < q \/ (q <= l /\ l <= q + d) \/ q + d < l
      BY <1>6, <2>1
    <2>6. \A l \in DOMAIN cs : o[l] \in used \cup {child} /\ nm[o[l]] \in Nat
      BY <1>2, <1>3, <2>2, <2>3, <2>4, <2>5, Zenon
    <2>7. o \in Seq(used \cup {child})
      <3>1. o \in [1..Len(cs) -> used \cup {child}]
        BY <1>5, <1>6, <2>6, Zenon
      <3> QED
        BY <1>6, <3>1, SeqDef
    <2>8. ASSUME NEW k \in DOMAIN cs, NEW l \in DOMAIN cs, k < l
          PROVE  /\ nm[o[k]] <= nm[o[l]]
                 /\ nm[o[k]] = nm[o[l]] => o[k] = o[l]
      <3>0. k \in Nat /\ l \in Nat /\ q \in Nat /\ d \in Nat
        BY <1>6, <2>1
      <3>1. CASE k < q
        <4>1. CASE l < q
          <5>1. nm[o[k]] = num[cs[k]] /\ nm[o[l]] = num[cs[l]] /\ o[k] = cs[k] /\ o[l] = cs[l]
            BY <1>3, <2>2, <3>1, <4>1, Zenon
          <5> QED
            BY <1>1, <2>8, <5>1, Zenon DEF Ascending
        <4>2. CASE ~(l < q)
          <5>1. nm[o[k]] < n /\ n <= nm[o[l]]
            <6>1. nm[o[l]] = n \/ n < nm[o[l]]
              BY <2>3, <2>4, <2>5, <4>2, Zenon
            <6>2. nm[o[k]] < n /\ nm[o[l]] \in Nat
              BY <2>2, <2>6, <3>1, Zenon
            <6> QED
              BY <6>1, <6>2
          <5> QED
            BY <2>6, <5>1
        <4> QED
          BY <4>1, <4>2, Zenon
      <3>2. CASE q <= k /\ k <= q + d
        <4>1. nm[o[k]] = n /\ o[k] = child
          BY <2>3, <3>2, Zenon
        <4>2. ~(l < q)
          BY <2>8, <3>0, <3>2
        <4>3. (nm[o[l]] = n /\ o[l] = child) \/ n < nm[o[l]]
          BY <2>3, <2>4, <2>5, <4>2, Zenon
        <4>4. nm[o[l]] \in Nat
          BY <2>6, Zenon
        <4> QED
          BY <4>1, <4>3, <4>4
      <3>3. CASE q + d < k
        <4>1. q + d < l /\ k - d < l - d
          BY <2>8, <3>0, <3>3
        <4>2. /\ o[k] = cs[k - d] /\ nm[o[k]] = num[cs[k - d]] /\ k - d \in DOMAIN cs
              /\ o[l] = cs[l - d] /\ nm[o[l]] = num[cs[l - d]] /\ l - d \in DOMAIN cs
          BY <2>4, <3>3, <4>1, Zenon
        <4> QED
          BY <1>1, <4>1, <4>2, Zenon DEF Ascending
      <3> QED
        BY <2>5, <3>1, <3>2, <3>3, Zenon
    <2>9. Ascending(o, nm)
      <3> SUFFICES ASSUME NEW k \in DOMAIN cs, NEW l \in DOMAIN cs
                   PROVE  /\ k < l => nm[o[k]] <= nm[o[l]]
                          /\ nm[o[k]] = nm[o[l]] => o[k] = o[l]
        BY <2>1, Zenon DEF Ascending
      <3>1. k < l \/ l < k \/ k = l
        BY <1>6
      <3> QED
        BY <2>8, <3>1, Zenon
    <2> QED
      BY <2>7, <2>9, Zenon DEF o, q, cs
  <1> QED
    BY <1>7, <1>8, Zenon

\* There are finitely many parts.
LEMMA UsedFinite ==
  ASSUME TreeOK
  PROVE  IsFiniteSet(used) /\ Cardinality(used) \in Nat /\ MaxParts \in Nat
  <1>1. MaxParts \in Nat /\ used \subseteq Part
    BY TreesAssumption, Zenon DEF TreeOK
  <1>2. IsFiniteSet(Part)
    BY <1>1, FS_Interval DEF Part
  <1> QED
    BY <1>1, <1>2, FS_Subset, FS_CardinalityType, Zenon

\* There is room for one more part.
LEMMA PartLeft ==
  ASSUME TreeOK, Cardinality(used) <= MaxParts
  PROVE  /\ \E p \in Part : p \notin used
         /\ \A p \in Part \ used : Cardinality(used \cup {p}) = Cardinality(used) + 1
  <1>1. MaxParts \in Nat /\ used \subseteq Part
    BY TreesAssumption, Zenon DEF TreeOK
  <1>2. IsFiniteSet(Part) /\ Cardinality(Part) = MaxParts + 1
    BY <1>1, FS_Interval DEF Part
  <1>3. IsFiniteSet(used) /\ Cardinality(used) \in Nat
    BY UsedFinite, Zenon
  <1>4. used # Part
    BY <1>1, <1>2, <1>3
  <1>5. \E p \in Part : p \notin used
    BY <1>1, <1>4, Zenon
  <1>6. \A p \in Part \ used : Cardinality(used \cup {p}) = Cardinality(used) + 1
    BY <1>3, FS_AddElement, Zenon
  <1> QED
    BY <1>5, <1>6, Zenon

\* What a call that neither creates nor looks further leaves in place.
LEMMA TreeKept ==
  ASSUME TreeOK, UNCHANGED <<kids, num, used>>
  PROVE  /\ TreeOK' /\ used' = used
         /\ \A s, m : ReachedBy(s, m)' = ReachedBy(s, m)
  <1>1. kids' = kids /\ num' = num /\ used' = used
    BY Zenon
  <1>2. TreeOK'
    BY <1>1, Zenon DEF TreeOK
  <1>3. \A s, m : ReachedBy(s, m)' = ReachedBy(s, m)
    <2>1. \A p, n : Children(p, n)' = Children(p, n)
      BY <1>1, Zenon DEF Children
    <2>2. \A w, s, m : Leads(w, s, m)' <=> Leads(w, s, m)
      BY <2>1, Zenon DEF Leads
    <2> QED
      BY <1>1, <2>2, Zenon DEF ReachedBy
  <1> QED
    BY <1>1, <1>2, <1>3, Zenon

\* The initial trees.
LEMMA LookupInit ==
  ASSUME TreeInit
  PROVE  LookupInv
  <1>1. PICK t \in Trees : kids = t.kids /\ num = t.num /\ used = DOMAIN t.kids
    BY Zenon DEF TreeInit
  <1>2. /\ used \subseteq Part /\ 0 \in used /\ kids \in [used -> Seq(used)] /\ num \in [used -> Nat]
        /\ \A p \in used : \A k, l \in DOMAIN kids[p] : k < l => num[kids[p][k]] < num[kids[p][l]]
    BY <1>1, TreesAssumption, Zenon
  <1>3. ASSUME NEW p \in used
        PROVE  Ascending(kids[p], num)
    <2> SUFFICES ASSUME NEW k \in DOMAIN kids[p], NEW l \in DOMAIN kids[p]
                 PROVE  /\ k < l => num[kids[p][k]] <= num[kids[p][l]]
                        /\ num[kids[p][k]] = num[kids[p][l]] => kids[p][k] = kids[p][l]
      BY Zenon DEF Ascending
    <2>1. /\ k \in Nat /\ l \in Nat
          /\ num[kids[p][k]] \in Nat /\ num[kids[p][l]] \in Nat
      BY <1>2
    <2>2. /\ k < l => num[kids[p][k]] < num[kids[p][l]]
          /\ l < k => num[kids[p][l]] < num[kids[p][k]]
      BY <1>2, Zenon
    <2>3. k < l => num[kids[p][k]] <= num[kids[p][l]]
      BY <2>1, <2>2
    <2>4. num[kids[p][k]] = num[kids[p][l]] => k = l
      BY <2>1, <2>2
    <2> QED
      BY <2>3, <2>4, Zenon
  <1>4. TreeOK
    BY <1>2, <1>3, Zenon DEF TreeOK
  <1>5. lookup = "idle" /\ bp = 0 /\ todo = <<>> /\ call.s = <<>>
    BY DEF TreeInit
  <1>6. <<>> \in Seq(Nat) /\ "idle" # "walk"
    OBVIOUS
  <1>7. WalkOK
    BY <1>2, <1>5, <1>6, Zenon DEF WalkOK
  <1>8. LookupFinds
    BY <1>5, Zenon DEF LookupFinds
  <1> QED
    BY <1>4, <1>7, <1>8, Zenon DEF LookupInv

\* A call starts at the message.
LEMMA CallStep ==
  ASSUME LookupInv, NEW s \in Paths, NEW create \in BOOLEAN, CallBodyPart(s, create)
  PROVE  LookupInv'
  <1>1. /\ todo' = s /\ bp' = 0 /\ lookup' = "walk" /\ UNCHANGED <<kids, num, used>>
        /\ call' = [s |-> s, create |-> create, kids |-> kids]
        /\ create => Cardinality(used) + Len(s) <= MaxParts + 1
    BY Zenon DEF CallBodyPart, tree
  <1>2. call'.s = s /\ call'.create = create
    BY <1>1
  <1>3. s \in Seq(Nat) /\ TreeOK
    BY TreesAssumption, Zenon DEF LookupInv
  <1>4. TreeOK' /\ used' = used /\ \A r, m : ReachedBy(r, m)' = ReachedBy(r, m)
    BY <1>1, <1>3, TreeKept, Zenon
  <1>5. 0 \in used
    BY <1>3, Zenon DEF TreeOK
  <1>6. ReachedBy(s, 0)' = {0}
    BY <1>3, <1>4, <1>5, ReachedFirst, Zenon
  <1>7. /\ Len(s) \in Nat /\ 0 \in 0..Len(s) /\ Len(s) = Len(s) - 0 /\ 1..0 = {}
        /\ \A k \in 1..Len(s) : s[k] = s[0 + k]
    BY <1>3
  <1>8. Followed(0)'
    BY <1>1, <1>2, <1>6, <1>7, Zenon DEF Followed
  <1>9. WalkOK'
    BY <1>1, <1>2, <1>3, <1>4, <1>5, <1>7, <1>8, Zenon DEF WalkOK
  <1>10. LookupFinds'
    <2>1. "walk" # "idle"
      OBVIOUS
    <2> QED
      BY <1>1, <2>1, Zenon DEF LookupFinds
  <1> QED
    BY <1>4, <1>9, <1>10, Zenon DEF LookupInv

\* The first component of what is left to follow.
LEMMA NextComponent ==
  ASSUME WalkOK, todo # <<>>
  PROVE  /\ Head(todo) \in Nat /\ Tail(todo) \in Seq(Nat) /\ Len(todo) \in Nat
         /\ Len(todo) >= 1 /\ Len(Tail(todo)) = Len(todo) - 1
         /\ \A k \in 1..Len(Tail(todo)) : Tail(todo)[k] = todo[k + 1]
         /\ Head(todo) = todo[1]
  <1>1. todo \in Seq(Nat)
    BY Zenon DEF WalkOK
  <1> QED
    BY <1>1

\* The first component of the path that a lookup has not followed yet.
LEMMA FollowedNext ==
  ASSUME WalkOK, todo # <<>>, NEW m \in 0..Len(call.s), Followed(m)
  PROVE  /\ m \in 0..(Len(call.s) - 1) /\ m + 1 \in 1..Len(call.s)
         /\ Head(todo) = call.s[m + 1] /\ m \in Nat
  <1>1. call.s \in Seq(Nat) /\ Len(call.s) \in Nat
    BY DEF WalkOK
  <1>2. Len(todo) = Len(call.s) - m /\ \A k \in 1..Len(todo) : todo[k] = call.s[m + k]
    BY Zenon DEF Followed
  <1>3. Len(todo) \in Nat /\ Len(todo) >= 1 /\ Head(todo) = todo[1]
    BY NextComponent, Zenon
  <1>4. m \in Nat /\ m \in 0..(Len(call.s) - 1) /\ m + 1 \in 1..Len(call.s) /\ 1 \in 1..Len(todo)
    BY <1>1, <1>2, <1>3
  <1> QED
    BY <1>2, <1>3, <1>4, Zenon

\* A lookup that finds the next component is where one more leads.
LEMMA FollowStep ==
  ASSUME LookupInv, Follow
  PROVE  LookupInv'
  <1> DEFINE n == Head(todo)
             c == kids[bp][Position(kids[bp], n)]
  <1>1. /\ lookup = "walk" /\ todo # <<>> /\ n # 0 /\ Found(kids[bp], n)
        /\ bp' = c /\ todo' = Tail(todo) /\ call' = call /\ lookup' = lookup
        /\ UNCHANGED <<kids, num, used>>
    BY Zenon DEF Follow
  <1>2. TreeOK /\ WalkOK /\ bp \in used
    BY Zenon DEF LookupInv, WalkOK
  <1>3. /\ n \in Nat /\ Tail(todo) \in Seq(Nat) /\ Len(Tail(todo)) = Len(todo) - 1
        /\ Len(todo) \in Nat /\ Len(todo) >= 1
        /\ \A k \in 1..Len(Tail(todo)) : Tail(todo)[k] = todo[k + 1]
    BY <1>1, <1>2, NextComponent, Zenon
  <1>4. c \in used /\ Children(bp, n) = {c}
    BY <1>1, <1>2, <1>3, FoundChildren, Zenon
  <1>5. TreeOK' /\ used' = used /\ \A r, m : ReachedBy(r, m)' = ReachedBy(r, m)
    BY <1>1, <1>2, TreeKept, Zenon
  <1> HIDE DEF n, c
  <1>6. ASSUME ~call.create
        PROVE  \E m \in 0..Len(call.s) : Followed(m)'
    <2>1. PICK m \in 0..Len(call.s) : Followed(m)
      BY <1>1, <1>2, <1>6, Zenon DEF WalkOK
    <2>2. /\ m \in 0..(Len(call.s) - 1) /\ m + 1 \in 1..Len(call.s)
          /\ n = call.s[m + 1] /\ m \in Nat
      BY <1>1, <1>2, <2>1, FollowedNext, Zenon DEF n
    <2>3. /\ Len(todo) = Len(call.s) - m
          /\ \A k \in 1..Len(todo) : todo[k] = call.s[m + k]
          /\ \A k \in 1..m : call.s[k] # 0
          /\ ReachedBy(call.s, m) = {bp}
      BY <2>1, Zenon DEF Followed
    <2>4. call.s \in Seq(Nat) /\ Len(call.s) \in Nat
      BY <1>2 DEF WalkOK
    <2>5. ReachedBy(call.s, m + 1) = {c}
      BY <1>2, <1>4, <2>2, <2>3, <2>4, ReachedNext, Zenon
    <2>6. Len(Tail(todo)) = Len(call.s) - (m + 1) /\ m + 1 \in 0..Len(call.s)
      BY <1>3, <2>2, <2>3, <2>4
    <2>7. ASSUME NEW k \in 1..Len(Tail(todo))
          PROVE  Tail(todo)[k] = call.s[(m + 1) + k]
      <3>1. k + 1 \in 1..Len(todo) /\ m + (k + 1) = (m + 1) + k
        BY <1>3, <2>2, <2>7
      <3> QED
        BY <1>3, <2>3, <2>7, <3>1, Zenon
    <2>8. \A k \in 1..(m + 1) : call.s[k] # 0
      <3>1. \A k \in 1..(m + 1) : k \in 1..m \/ k = m + 1
        BY <2>2
      <3> QED
        BY <1>1, <2>2, <2>3, <3>1, Zenon
    <2>9. Followed(m + 1)'
      BY <1>1, <1>5, <2>5, <2>6, <2>7, <2>8, Zenon DEF Followed
    <2> QED
      BY <2>6, <2>9, Zenon
  <1>7. call.create => Cardinality(used) + Len(Tail(todo)) <= MaxParts + 1
    <2>1. call.create => Cardinality(used) + Len(todo) <= MaxParts + 1
      BY <1>1, <1>2, Zenon DEF WalkOK
    <2>2. IsFiniteSet(used) /\ Cardinality(used) \in Nat /\ MaxParts \in Nat
      BY <1>2, UsedFinite, Zenon
    <2> QED
      BY <1>3, <2>1, <2>2
  <1>8. WalkOK'
    BY <1>1, <1>2, <1>3, <1>4, <1>5, <1>6, <1>7, Zenon DEF WalkOK
  <1>9. LookupFinds'
    <2>1. "walk" # "idle"
      OBVIOUS
    <2> QED
      BY <1>1, <2>1, Zenon DEF LookupFinds
  <1> QED
    BY <1>5, <1>8, <1>9, Zenon DEF LookupInv

\* A part that is created goes under a number its siblings do not have.
LEMMA CreateStep ==
  ASSUME LookupInv, Create
  PROVE  LookupInv'
  <1> DEFINE n == Head(todo)
             cs == kids[bp]
             child == CHOOSE p \in Part : p \notin used
  <1>1. /\ lookup = "walk" /\ todo # <<>> /\ ~Found(cs, n) /\ call.create
        /\ num' = [p \in used \cup {child} |-> IF p = child THEN n ELSE num[p]]
        /\ used' = used \cup {child}
        /\ bp' = child /\ todo' = Tail(todo) /\ call' = call /\ lookup' = lookup
    BY Zenon DEF Create
  <1>2. PICK room \in BOOLEAN :
           kids' = [p \in used \cup {child} |->
                       IF p = child THEN <<>>
                       ELSE IF p = bp THEN Overwritten(cs, Position(cs, n), child, room)
                       ELSE kids[p]]
    BY Zenon DEF Create
  <1>3. TreeOK /\ WalkOK /\ bp \in used
    BY Zenon DEF LookupInv, WalkOK
  <1>4. /\ n \in Nat /\ Tail(todo) \in Seq(Nat) /\ Len(Tail(todo)) = Len(todo) - 1
        /\ Len(todo) \in Nat /\ Len(todo) >= 1
    BY <1>1, <1>3, NextComponent, Zenon
  <1>5. /\ Cardinality(used) \in Nat /\ MaxParts \in Nat
        /\ Cardinality(used) + Len(todo) <= MaxParts + 1
    <2>1. Cardinality(used) + Len(todo) <= MaxParts + 1
      BY <1>1, <1>3, Zenon DEF WalkOK
    <2> QED
      BY <1>3, <2>1, UsedFinite, Zenon
  <1>6. Cardinality(used) <= MaxParts
    BY <1>4, <1>5
  <1>7. child \in Part /\ child \notin used
    BY <1>3, <1>6, PartLeft, Zenon
  <1> HIDE DEF n, cs, child
  <1>8. Cardinality(used') + Len(todo') <= MaxParts + 1
    <2>1. Cardinality(used') = Cardinality(used) + 1
      BY <1>1, <1>3, <1>6, <1>7, PartLeft, Zenon
    <2> QED
      BY <1>1, <1>4, <1>5, <2>1
  <1>9. /\ used \subseteq Part /\ 0 \in used /\ kids \in [used -> Seq(used)]
        /\ num \in [used -> Nat] /\ \A p \in used : Ascending(kids[p], num)
    BY <1>3, Zenon DEF TreeOK
  <1>10. used' \subseteq Part /\ 0 \in used'
    BY <1>1, <1>7, <1>9, Zenon
  <1>11. num'[child] = n /\ (\A p \in used : num'[p] = num[p]) /\ num' \in [used' -> Nat]
    <2>1. num'[child] = n
      BY <1>1, Zenon
    <2>2. \A p \in used : num'[p] = num[p]
      BY <1>1, <1>7, Zenon
    <2>3. \A p \in used : num[p] \in Nat
      BY <1>9, Zenon
    <2>4. \A p \in used' : (IF p = child THEN n ELSE num[p]) \in Nat
      BY <1>1, <1>4, <2>3, Zenon
    <2>5. num' \in [used' -> Nat]
      BY <1>1, <2>4, Zenon
    <2> QED
      BY <2>1, <2>2, <2>5, Zenon
  <1> DEFINE o == Overwritten(cs, Position(cs, n), child, room)
  <1>12. o \in Seq(used') /\ Ascending(o, num')
    BY <1>1, <1>3, <1>4, <1>11, OverwrittenAscending, Zenon DEF cs
  <1> HIDE DEF o
  <1>13. ASSUME NEW p \in used'
         PROVE  kids'[p] \in Seq(used') /\ Ascending(kids'[p], num')
    <2>1. CASE p = child
      <3>1. kids'[p] = <<>>
        BY <1>1, <1>2, <2>1, Zenon
      <3>2. <<>> \in Seq(used') /\ DOMAIN <<>> = {}
        OBVIOUS
      <3> QED
        BY <3>1, <3>2, Zenon DEF Ascending
    <2>2. CASE p # child /\ p = bp
      <3>1. kids'[p] = o
        BY <1>1, <1>2, <1>13, <2>2, Zenon DEF o
      <3> QED
        BY <1>12, <3>1, Zenon
    <2>3. CASE p # child /\ p # bp
      <3>1. kids'[p] = kids[p] /\ p \in used
        BY <1>1, <1>2, <1>13, <2>3, Zenon
      <3>2. kids[p] \in Seq(used) /\ Ascending(kids[p], num)
        BY <1>9, <3>1, Zenon
      <3>3. kids[p] \in Seq(used') /\ \A k \in DOMAIN kids[p] : kids[p][k] \in used
        BY <1>1, <3>2
      <3>4. Ascending(kids[p], num')
        BY <1>11, <3>2, <3>3, Zenon DEF Ascending
      <3> QED
        BY <3>1, <3>3, <3>4, Zenon
    <2> QED
      BY <2>1, <2>2, <2>3, Zenon
  <1>14. kids' \in [used' -> Seq(used')]
    <2>1. kids' = [p \in used' |-> kids'[p]]
      BY <1>1, <1>2, Zenon
    <2> QED
      BY <1>13, <2>1, Zenon
  <1>15. TreeOK'
    BY <1>10, <1>11, <1>13, <1>14, Zenon DEF TreeOK
  <1>16. WalkOK'
    <2>1. child \in used' /\ call.s \in Seq(Nat)
      BY <1>1, <1>3, Zenon DEF WalkOK
    <2> QED
      BY <1>1, <1>3, <1>4, <1>8, <2>1, Zenon DEF WalkOK
  <1>17. LookupFinds'
    <2>1. "walk" # "idle"
      OBVIOUS
    <2> QED
      BY <1>1, <2>1, Zenon DEF LookupFinds
  <1> QED
    BY <1>15, <1>16, <1>17, Zenon DEF LookupInv

\* A lookup returns nil if a component is zero or leads nowhere.
LEMMA NilStep ==
  ASSUME LookupInv, ReturnNil
  PROVE  LookupInv'
  <1>1. /\ lookup = "walk" /\ todo # <<>>
        /\ Head(todo) = 0 \/ (~Found(kids[bp], Head(todo)) /\ ~call.create)
        /\ bp' = 0 /\ todo' = <<>> /\ lookup' = "idle" /\ call' = call
        /\ UNCHANGED <<kids, num, used>>
    BY Zenon DEF ReturnNil
  <1>2. TreeOK /\ WalkOK /\ bp \in used /\ 0 \in used /\ call.s \in Seq(Nat)
    BY Zenon DEF LookupInv, WalkOK, TreeOK
  <1>3. TreeOK' /\ used' = used /\ \A r, m : ReachedBy(r, m)' = ReachedBy(r, m)
    BY <1>1, <1>2, TreeKept, Zenon
  <1>4. ASSUME ~call.create, \A k \in DOMAIN call.s : call.s[k] # 0
        PROVE  Reached(call.s) = {}
    <2>1. PICK m \in 0..Len(call.s) : Followed(m)
      BY <1>1, <1>2, <1>4, Zenon DEF WalkOK
    <2>2. /\ m \in 0..(Len(call.s) - 1) /\ m + 1 \in 1..Len(call.s)
          /\ Head(todo) = call.s[m + 1] /\ m \in Nat
      BY <1>1, <1>2, <2>1, FollowedNext, Zenon
    <2>3. DOMAIN call.s = 1..Len(call.s) /\ Len(call.s) \in Nat
      BY <1>2
    <2>4. Head(todo) # 0 /\ Head(todo) \in Nat
      BY <1>1, <1>2, <1>4, <2>2, <2>3, NextComponent, Zenon
    <2>5. Children(bp, call.s[m + 1]) = {}
      BY <1>1, <1>2, <2>2, <2>4, FoundChildren, Zenon
    <2>6. ReachedBy(call.s, m) = {bp}
      BY <2>1, Zenon DEF Followed
    <2>7. ReachedBy(call.s, m + 1) = {}
      BY <1>2, <2>2, <2>5, <2>6, ReachedNext, Zenon
    <2>8. m + 1 \in 0..Len(call.s)
      BY <2>2, <2>3
    <2> QED
      BY <1>2, <2>7, <2>8, ReachedNothing, Zenon
  <1>5. Reached(call.s)' = Reached(call.s)
    BY <1>1, <1>3, Zenon DEF Reached
  <1>6. LookupFinds'
    BY <1>1, <1>4, <1>5, Zenon DEF LookupFinds
  <1>7. <<>> \in Seq(Nat) /\ "idle" # "walk"
    OBVIOUS
  <1>8. WalkOK'
    BY <1>1, <1>2, <1>3, <1>7, Zenon DEF WalkOK
  <1> QED
    BY <1>3, <1>6, <1>8, Zenon DEF LookupInv

\* A lookup returns the part its whole path leads to.
LEMMA PartStep ==
  ASSUME LookupInv, ReturnPart
  PROVE  LookupInv'
  <1>1. /\ lookup = "walk" /\ todo = <<>> /\ lookup' = "idle"
        /\ bp' = bp /\ todo' = todo /\ call' = call /\ UNCHANGED <<kids, num, used>>
    BY Zenon DEF ReturnPart
  <1>2. TreeOK /\ WalkOK /\ bp \in used /\ call.s \in Seq(Nat) /\ todo \in Seq(Nat)
    BY Zenon DEF LookupInv, WalkOK
  <1>3. TreeOK' /\ used' = used /\ \A r, m : ReachedBy(r, m)' = ReachedBy(r, m)
    BY <1>1, <1>2, TreeKept, Zenon
  <1>4. ASSUME ~call.create
        PROVE  Reached(call.s) = {bp} /\ \A k \in DOMAIN call.s : call.s[k] # 0
    <2>1. PICK m \in 0..Len(call.s) : Followed(m)
      BY <1>1, <1>2, <1>4, Zenon DEF WalkOK
    <2>2. /\ Len(todo) = Len(call.s) - m /\ \A k \in 1..m : call.s[k] # 0
          /\ ReachedBy(call.s, m) = {bp}
      BY <2>1, Zenon DEF Followed
    <2>3. Len(todo) = 0
      BY <1>1
    <2>4. DOMAIN call.s = 1..Len(call.s) /\ Len(call.s) \in Nat
      BY <1>2
    <2>5. m = Len(call.s)
      BY <2>1, <2>2, <2>3, <2>4
    <2> QED
      BY <2>2, <2>4, <2>5, Zenon DEF Reached
  <1>5. Reached(call.s)' = Reached(call.s)
    BY <1>1, <1>3, Zenon DEF Reached
  <1>6. LookupFinds'
    BY <1>1, <1>4, <1>5, Zenon DEF LookupFinds
  <1>7. "idle" # "walk"
    OBVIOUS
  <1>8. WalkOK'
    BY <1>1, <1>2, <1>3, <1>7, Zenon DEF WalkOK
  <1> QED
    BY <1>3, <1>6, <1>8, Zenon DEF LookupInv

\* The tree and the lookups stay right in every step.
LEMMA LookupStep ==
  ASSUME LookupInv, [TreeNext]_treeVars
  PROVE  LookupInv'
  <1>1. CASE UNCHANGED treeVars
    <2>1. /\ UNCHANGED <<kids, num, used>> /\ used' = used
          /\ todo' = todo /\ bp' = bp /\ call' = call /\ lookup' = lookup
      BY <1>1, Zenon DEF treeVars
    <2>2. TreeOK' /\ \A r, m : ReachedBy(r, m)' = ReachedBy(r, m)
      BY <2>1, TreeKept, Zenon DEF LookupInv
    <2>3. \A m : Followed(m)' <=> Followed(m)
      BY <2>1, <2>2, Zenon DEF Followed
    <2>4. WalkOK'
      BY <2>1, <2>3, Zenon DEF LookupInv, WalkOK
    <2>5. Reached(call.s)' = Reached(call.s)
      BY <2>1, <2>2, Zenon DEF Reached
    <2>6. LookupFinds'
      BY <2>1, <2>5, Zenon DEF LookupInv, LookupFinds
    <2> QED
      BY <2>2, <2>4, <2>6, Zenon DEF LookupInv
  <1>2. CASE TreeNext
    BY <1>2, CallStep, FollowStep, CreateStep, NilStep, PartStep, Zenon DEF TreeNext
  <1> QED
    BY <1>1, <1>2, Zenon

\* Whatever sequence of BodyPart calls is made on whatever tree, the tree stays
\* well formed and every lookup is where its path leads.
LEMMA LookupInvariant == TreeSpec => []LookupInv
  <1>1. TreeInit => LookupInv
    BY LookupInit, Zenon
  <1>2. LookupInv /\ [TreeNext]_treeVars => LookupInv'
    BY LookupStep, Zenon
  <1> QED
    BY <1>1, <1>2, PTL DEF TreeSpec

\* The loop of BodyPart that looks for a number can rely on the order of the
\* siblings, though creating a part overwrites some of them.
THEOREM SiblingsInOrder == TreeSpec => []NumbersInOrder
  <1>1. LookupInv => NumbersInOrder
    BY Zenon DEF LookupInv, TreeOK, Ascending, NumbersInOrder
  <1> QED
    BY <1>1, LookupInvariant, PTL

\* BodyPart(s, false) returns the part that s leads to, and nil if there is
\* none or a component of s is no part number, after any calls that damaged the
\* tree.
THEOREM LookupsFind == TreeSpec => []LookupFinds
  <1>1. LookupInv => LookupFinds
    BY Zenon DEF LookupInv
  <1> QED
    BY <1>1, LookupInvariant, PTL

=============================================================================
