--------------------------- MODULE BoundaryProofs ---------------------------
(***************************************************************************)
(* Content-Type, for every input: what RepairWithBody leaves has a boundary*)
(* if it is a multipart and the body has one candidate.                    *)
(***************************************************************************)
EXTENDS MessageHeaderProofs

-----------------------------------------------------------------------------
(***************************************************************************)
(* Content-Type                                                            *)
(***************************************************************************)
TypeName == "Content-Type"

\* All Content-Types are valid, or none is.
Alike(k) == InvalidOnes(k, TypeName) = {} \/ ValidOnes(k, TypeName) = {}

\* The Content-Types of l are Content-Types of k.
TypesFrom(k, l) == \A p \in Named(l, TypeName) : p \in Named(k, TypeName) /\ l.Fields[p] = k.Fields[p]

\* A multipart says what its boundary is.
Bounded(f) == f.val.type = "multipart" => parameter(f.val, "boundary") # ""
Marked(k) == \A p \in ValidOnes(k, TypeName) : Bounded(k.Fields[p])
FirstBounded(k) == Named(k, TypeName) # {} => Bounded(First(k, TypeName))

\* Where some Content-Type is invalid none is text/plain.
PlainIfValid(k) == InvalidOnes(k, TypeName) = {} \/ \A p \in Named(k, TypeName) : ~IsPlain(k.Fields[p].val)

\* The candidates for a boundary leave one.
LinesAgree(b) ==
    /\ b.lines # <<>>
    /\ \A i \in DOMAIN b.lines : b.lines[i] \in {b.lines[1], EndOf(b.lines[1])}

\* The rules up to the one that guesses the boundary, and those after it.
ToBoundary == {"identical", "date", "nofrom", "receipt", "received", "invalid", "sender",
               "subject", "boundary"}
ToPlain == ToBoundary \cup {"salvage", "fromsender", "plain"}

\* The Content-Types of a message from Repair to parseMultipart.
TypeInv ==
    role = "message" =>
        /\ pc \in {"r.version", "r.encoding", "r.sender", "withbody"} \cup ToBoundary => Alike(h)
        /\ pc \in {"withbody"} \cup ToBoundary => TypesFrom(input, h)
        /\ pc \in BodyRules => Marked(h)
        /\ pc \in BodyRules /\ occ[TypeName] = 0 => Named(h, TypeName) = {}
        /\ pc \in ToPlain \ ToBoundary => PlainIfValid(h)
        /\ LinesAgree(body) /\ pc \in (BodyRules \ ToBoundary) \cup {"children"} => FirstBounded(h)
        /\ pc = "children" => IsType(h, "multipart")

\* Two Content-Types are removed in Repair or not at all.
Distinct(k) == \A p, q \in Named(k, TypeName) : p # q => rfc822(k.Fields[p]) # rfc822(k.Fields[q])

\* A boundary that is a blank has been read.
Spaced(f) == parameter(f.val, "boundary") = " "
SpaceRead(k, i, b) ==
    (\E p \in Named(k, TypeName) : Spaced(k.Fields[p])) =>
        \/ b.lines # <<>> /\ b.lines[1] = " "
        \/ \E q \in Named(i, TypeName) : Spaced(i.Fields[q])

\* What is known of Content-Types that stay, or of which some are removed.
LEMMA TypesLess ==
  ASSUME NEW k, NEW l, TypesFrom(k, l)
  PROVE  /\ Alike(k) => Alike(l)
         /\ Marked(k) => Marked(l)
         /\ PlainIfValid(k) => PlainIfValid(l)
         /\ Distinct(k) => Distinct(l)
         /\ \A i : TypesFrom(i, k) => TypesFrom(i, l)
         /\ \A i, b : SpaceRead(k, i, b) => SpaceRead(l, i, b)
         /\ Named(l, TypeName) \subseteq Named(k, TypeName)
  <1>1. /\ Named(l, TypeName) \subseteq Named(k, TypeName)
        /\ ValidOnes(l, TypeName) \subseteq ValidOnes(k, TypeName)
        /\ InvalidOnes(l, TypeName) \subseteq InvalidOnes(k, TypeName)
    BY Zenon DEF TypesFrom, ValidOnes, InvalidOnes
  <1>2. Alike(k) => Alike(l)
    BY <1>1, Zenon DEF Alike
  <1>3. Marked(k) => Marked(l)
    BY <1>1, Zenon DEF Marked, TypesFrom, ValidOnes
  <1>4. PlainIfValid(k) => PlainIfValid(l)
    BY <1>1, Zenon DEF PlainIfValid, TypesFrom
  <1>5. Distinct(k) => Distinct(l)
    BY Zenon DEF Distinct, TypesFrom
  <1>6. \A i : TypesFrom(i, k) => TypesFrom(i, l)
    BY Zenon DEF TypesFrom
  <1>7. \A i, b : SpaceRead(k, i, b) => SpaceRead(l, i, b)
    BY Zenon DEF SpaceRead, TypesFrom
  <1> QED
    BY <1>1, <1>2, <1>3, <1>4, <1>5, <1>6, <1>7, Zenon

\* A rule that leaves Content-Type alone keeps what is known of the types.
LEMMA TypesSame ==
  ASSUME NEW k, HeaderOK(k), NEW l, SameFields(k, l, TypeName)
  PROVE  /\ TypesFrom(k, l) /\ Named(l, TypeName) = Named(k, TypeName)
         /\ FirstBounded(k) => FirstBounded(l)
         /\ \A t : IsType(l, t) <=> IsType(k, t)
  <1>1. TypesFrom(k, l) /\ Named(l, TypeName) = Named(k, TypeName)
    BY Zenon DEF TypesFrom, SameFields
  <1>2. /\ field(l, TypeName, 0) = field(k, TypeName, 0)
        /\ Named(k, TypeName) # {} => First(l, TypeName) = First(k, TypeName)
    BY SameAnswers DEF First
  <1>3. field(k, TypeName, 0) # Nil => Named(k, TypeName) # {}
    BY NilField, Zenon
  <1>4. \A t : IsType(l, t) <=> IsType(k, t)
    BY <1>2, <1>3, Zenon DEF IsType, ContentType, First, TypeName
  <1> QED
    BY <1>1, <1>2, <1>4, Zenon DEF FirstBounded

\* A multipart that is valid is bounded.
LEMMA ValidBounded ==
  ASSUME NEW k, HeaderOK(k), Marked(k), InvalidOnes(k, TypeName) = {}
  PROVE  FirstBounded(k)
  <1> SUFFICES ASSUME Named(k, TypeName) # {} PROVE Bounded(First(k, TypeName))
    BY Zenon DEF FirstBounded
  <1>1. field(k, TypeName, 0) \in Named(k, TypeName)
    BY FieldFound, Zenon
  <1> QED
    BY <1>1, Zenon DEF Marked, First, InvalidOnes

\* What Parse makes of a Content-Type.
LEMMA TypesParsed ==
  ASSUME NEW i, AsParsed(i), NEW k, TypesFrom(i, k)
  PROVE  /\ Marked(k)
         /\ \A p \in InvalidOnes(k, TypeName) : ~IsPlain(k.Fields[p].val)
  <1>1. ASSUME NEW p \in Named(k, TypeName)
        PROVE  LET f == k.Fields[p]
               IN  f.err # "" <=> \/ "" \in {f.val.type, f.val.subtype}
                                  \/ f.val.type = "multipart" /\ parameter(f.val, "boundary") = ""
    <2>1. p \in DOMAIN i.Fields /\ i.Fields[p].name = TypeName /\ k.Fields[p] = i.Fields[p]
      BY Zenon DEF TypesFrom, Named
    <2>2. WellParsed(i.Fields[p])
      BY <2>1, Zenon DEF AsParsed, MergedNames, TypeName
    <2>3. WellParsedMIME(i.Fields[p])
      BY <2>1, <2>2, Zenon DEF WellParsed, MIMENames, TypeName
    <2> QED
      BY <2>1, <2>3, Zenon DEF WellParsedMIME, TypeName
  <1>2. Marked(k)
    BY <1>1, Zenon DEF Marked, Bounded, ValidOnes
  <1>3. ASSUME NEW p \in InvalidOnes(k, TypeName) PROVE ~IsPlain(k.Fields[p].val)
    <2>1. p \in Named(k, TypeName) /\ k.Fields[p].err # ""
      BY Zenon DEF InvalidOnes, ValidOnes
    <2> QED
      BY <1>1, <2>1, Zenon DEF IsPlain
  <1> QED
    BY <1>2, <1>3, Zenon

\* The first candidate for a boundary, and where the scan stops.
LEMMA ListDomain ==
  ASSUME NEW S, NEW s \in Seq(S)
  PROVE  /\ Len(s) \in Nat /\ DOMAIN s = 1..Len(s)
         /\ \A i \in DOMAIN s : s[i] \in S
         /\ s # <<>> => 1 \in DOMAIN s /\ s[1] \in S
  OBVIOUS

\* A candidate for a boundary is not empty.
LEMMA FirstCandidate ==
  ASSUME NEW s \in Seq(STRING \ {""}), s # <<>>
  PROVE  s[1] # ""
  <1>1. s[1] \in STRING \ {""}
    BY ListDomain, Zenon
  <1> QED
    BY <1>1, Zenon

\* If every candidate is the first one or its end, the scan of GuessBoundary
\* stops at an end or finds none.
LEMMA ScanEnds ==
  ASSUME NEW S, NEW s \in Seq(S),
         \A i \in DOMAIN s : s[i] \in {s[1], EndOf(s[1])}
  PROVE  StopsAt(s) = 0 \/ EndsAt(s, StopsAt(s))
  <1> DEFINE T == {i \in 2..Len(s) : EndsAt(s, i) \/ Confuses(s, i)}
  <1>1. StopsAt(s) = NthOf(T, 0)
    BY Zenon DEF StopsAt
  <1>2. Len(s) \in Nat /\ DOMAIN s = 1..Len(s)
    BY ListDomain, Zenon
  <1>3. T \subseteq 2..Len(s) /\ T \subseteq Nat
    BY <1>2
  <1>4. IsFiniteSet(T)
    <2>1. IsFiniteSet(2..Len(s))
      BY <1>2, FS_Interval
    <2> HIDE DEF T
    <2> QED
      BY <1>3, <2>1, FS_Subset, Zenon
  <1>5. CASE T = {}
    <2>1. Cardinality(T) = 0
      BY <1>5, FS_EmptySet, Zenon
    <2> HIDE DEF T
    <2>2. NthOf(T, 0) = 0
      BY <2>1 DEF NthOf
    <2> QED
      BY <1>1, <2>2, Zenon
  <1>6. CASE T # {}
    <2>1. NthOf(T, 0) \in T
      <3> HIDE DEF T
      <3> QED
        BY <1>3, <1>4, <1>6, FirstExists, Zenon
    <2>2. ~Confuses(s, NthOf(T, 0))
      <3>1. NthOf(T, 0) \in DOMAIN s
        BY <1>2, <1>3, <2>1
      <3> HIDE DEF T
      <3> QED
        BY <3>1, Zenon DEF Confuses
    <2> QED
      BY <1>1, <2>1, <2>2, Zenon
  <1> QED
    BY <1>5, <1>6, Zenon


\* Counting.
LEMMA Positive == \A n \in Nat : n # 0 => n > 0
  OBVIOUS

\* GuessBoundary gives the first Content-Type a boundary if it needs one, and
\* there is one candidate.
LEMMA GuessBoundaryMarks ==
  ASSUME NEW k, Shaped(k), Alike(k), NEW i, AsParsed(i), TypesFrom(i, k), NEW o, NEW b,
         b.lines \in Seq(STRING \ {""}), o[TypeName] \in Nat
  PROVE  /\ Marked(GuessBoundary(k, o, b)) /\ PlainIfValid(GuessBoundary(k, o, b))
         /\ SpaceRead(GuessBoundary(k, o, b), i, b)
         /\ (/\ LinesAgree(b) /\ b.kind # "empty"
             /\ o[TypeName] = 0 => Named(k, TypeName) = {})
            => FirstBounded(GuessBoundary(k, o, b))
  <1> DEFINE l == GuessBoundary(k, o, b)
             Guessed1(p) == GuessedAt(k, l, o, b, p)
  <1>0. /\ Changes(k, l, {TypeName}) /\ Named(l, TypeName) = Named(k, TypeName)
        /\ \A p \in Named(k, TypeName) : l.Fields[p] = k.Fields[p] \/ Guessed1(p)
    BY GuessBoundaryProperties, Zenon DEF TypeName
  <1>1. HeaderOK(k) /\ HeaderOK(l)
    BY <1>0, Zenon DEF Changes, Shaped
  <1>2. Marked(k) /\ \A p \in InvalidOnes(k, TypeName) : ~IsPlain(k.Fields[p].val)
    BY TypesParsed, Zenon
  <1>3. b.lines # <<>> => b.lines[1] # ""
    BY FirstCandidate, Zenon
  <1>4. \A p : Guessed1(p) => Bounded(l.Fields[p]) /\ ~IsPlain(l.Fields[p].val)
    BY <1>3, Zenon DEF Bounded, IsPlain, GuessedAt
  <1>5. \A p : Guessed1(p) /\ p \in Named(k, TypeName) => p \in InvalidOnes(k, TypeName)
    BY Zenon DEF GuessedAt, NeedsBoundary, InvalidOnes, ValidOnes, First, ContentType, TypeName
  <1> HIDE DEF Guessed1, l
  <1>6. Marked(l)
    <2> SUFFICES ASSUME NEW p \in Named(l, TypeName), l.Fields[p].err = "" PROVE Bounded(l.Fields[p])
      BY Zenon DEF Marked, ValidOnes
    <2>1. CASE l.Fields[p] = k.Fields[p]
      BY <1>0, <1>2, <2>1, Zenon DEF Marked, ValidOnes
    <2>2. CASE Guessed1(p)
      BY <1>4, <2>2, Zenon
    <2> QED
      BY <1>0, <2>1, <2>2, Zenon
  <1>7. PlainIfValid(l)
    <2>1. CASE InvalidOnes(k, TypeName) = {}
      <3>1. \A p \in Named(l, TypeName) : l.Fields[p] = k.Fields[p]
        BY <1>0, <1>5, <2>1, Zenon
      <3>2. InvalidOnes(l, TypeName) = {}
        BY <1>0, <2>1, <3>1, Zenon DEF InvalidOnes, ValidOnes
      <3> QED
        BY <3>2, Zenon DEF PlainIfValid
    <2>2. CASE InvalidOnes(k, TypeName) # {}
      <3>1. \A p \in Named(k, TypeName) : ~IsPlain(k.Fields[p].val)
        BY <1>2, <2>2, Zenon DEF Alike, InvalidOnes
      <3>2. \A p \in Named(l, TypeName) : ~IsPlain(l.Fields[p].val)
        BY <1>0, <1>4, <3>1, Zenon
      <3> QED
        BY <3>2, Zenon DEF PlainIfValid
    <2> QED
      BY <2>1, <2>2, Zenon
  <1>8. SpaceRead(l, i, b)
    <2> SUFFICES ASSUME NEW p \in Named(l, TypeName), Spaced(l.Fields[p])
                 PROVE  \/ b.lines # <<>> /\ b.lines[1] = " "
                        \/ \E q \in Named(i, TypeName) : Spaced(i.Fields[q])
      BY Zenon DEF SpaceRead
    <2>1. CASE l.Fields[p] = k.Fields[p]
      BY <1>0, <2>1, Zenon DEF TypesFrom
    <2>2. CASE Guessed1(p)
      BY <2>2, Zenon DEF Guessed1, GuessedAt, Spaced
    <2> QED
      BY <1>0, <2>1, <2>2, Zenon
  <1>9. ASSUME LinesAgree(b), b.kind # "empty", o[TypeName] = 0 => Named(k, TypeName) = {}
        PROVE  FirstBounded(l)
    <2> SUFFICES ASSUME Named(l, TypeName) # {} PROVE Bounded(First(l, TypeName))
      BY Zenon DEF FirstBounded
    <2> DEFINE p == field(k, TypeName, 0)
    <2>1. p \in Named(k, TypeName) /\ field(l, TypeName, 0) = p
      BY <1>0, <1>1, FieldFound, Zenon DEF field
    <2>2. First(l, TypeName) = l.Fields[p] /\ First(k, TypeName) = k.Fields[p]
      BY <2>1, Zenon DEF First
    <2>3. o[TypeName] > 0
      BY <1>9, <2>1, Positive, Zenon
    <2>4. CASE NeedsBoundary(k, o, b)
      <3>1. StopsAt(b.lines) = 0 \/ EndsAt(b.lines, StopsAt(b.lines))
        BY <1>9, ScanEnds, Zenon DEF LinesAgree
      <3>2. l.Fields[p].err = ""
        <4>1. GuessBoundary(k, o, b).Fields[ContentType(k)].err = ""
          <5>1. b.lines # <<>>
            BY <1>9, Zenon DEF LinesAgree
          <5> QED
            BY <2>4, <3>1, <5>1, GuessBoundaryProperties, Zenon
        <4> QED
          BY <4>1, Zenon DEF l, ContentType, TypeName
      <3> QED
        BY <1>0, <1>6, <2>1, <2>2, <3>2, Zenon DEF Marked, ValidOnes
    <2>5. CASE ~NeedsBoundary(k, o, b)
      <3>1. l.Fields[p] = k.Fields[p]
        BY <1>0, <2>1, <2>5, Zenon DEF Guessed1, GuessedAt
      <3>2. \/ k.Fields[p].val.type # "multipart" \/ k.Fields[p].err = ""
            \/ parameter(k.Fields[p].val, "boundary") # ""
        <4>1. field(k, TypeName, 0) # Nil
          BY <1>1, <2>1, NilField, Zenon
        <4> QED
          BY <1>9, <2>2, <2>3, <2>5, <4>1, Zenon DEF NeedsBoundary, IsType, ContentType, TypeName
      <3>3. k.Fields[p].err = "" => Bounded(k.Fields[p])
        BY <1>2, <2>1, Zenon DEF Marked, ValidOnes
      <3> QED
        BY <2>2, <3>1, <3>2, <3>3, Zenon DEF Bounded
    <2> QED
      BY <2>4, <2>5, Zenon
  <1> QED
    BY <1>6, <1>7, <1>8, <1>9, Zenon DEF l

\* DropPlain, where all Content-Types are valid or none is text/plain.
LEMMA DropPlainMarks ==
  ASSUME NEW k, Shaped(k), Marked(k), PlainIfValid(k), NEW o, ~DropPlainPanics(k, o)
  PROVE  /\ TypesFrom(k, DropPlain(k, o))
         /\ FirstBounded(k) => FirstBounded(DropPlain(k, o))
  <1> DEFINE l == DropPlain(k, o)
  <1>1. /\ Removes(k, l, {TypeName})
        /\ l = k \/ \E p \in Named(k, TypeName) : IsPlain(k.Fields[p].val)
    BY DropPlainProperties, Zenon DEF TypeName
  <1> HIDE DEF l
  <1>2. TypesFrom(k, l) /\ HeaderOK(l)
    BY <1>1, RemovesNamed DEF TypesFrom, Removes, Changes, Shaped
  <1>3. ASSUME l # k PROVE FirstBounded(l)
    <2>1. InvalidOnes(k, TypeName) = {}
      BY <1>1, <1>3, Zenon DEF PlainIfValid
    <2>2. InvalidOnes(l, TypeName) = {}
      BY <1>1, <2>1, RemovesNamed, Zenon
    <2>3. Marked(l)
      BY <1>2, TypesLess, Zenon
    <2> QED
      BY <1>2, <2>2, <2>3, ValidBounded, Zenon
  <1> QED
    BY <1>2, <1>3, Zenon DEF l

\* GradeTypes and OneHtml.
LEMMA OneTypeMarks ==
  ASSUME NEW k, Shaped(k), Marked(k), NEW l, KeepsOneType(k, l)
  PROVE  /\ Marked(l) /\ (FirstBounded(k) => FirstBounded(l))
         /\ Named(k, TypeName) = {} => Named(l, TypeName) = {}
  <1>1. CASE l = k
    BY <1>1, Zenon
  <1>2. CASE l # k
    <2>1. HeaderOK(l)
      BY Zenon DEF KeepsOneType, Changes, Shaped
    <2>2. PICK n : \E p \in Named(k, TypeName) :
             /\ Named(l, TypeName) = {n} /\ l.Fields[n] = k.Fields[p]
             /\ k.Fields[p].err = ""
      BY <1>2, Zenon DEF KeepsOneType, TypeName
    <2>3. PICK p \in Named(k, TypeName) :
             /\ Named(l, TypeName) = {n} /\ l.Fields[n] = k.Fields[p]
             /\ k.Fields[p].err = ""
      BY <2>2, Zenon
    <2>4. Bounded(l.Fields[n]) /\ l.Fields[n].err = ""
      BY <2>3, Zenon DEF Marked, ValidOnes
    <2>5. Marked(l)
      BY <2>3, <2>4, Zenon DEF Marked, ValidOnes
    <2>6. InvalidOnes(l, TypeName) = {}
      BY <2>3, <2>4, Zenon DEF InvalidOnes, ValidOnes
    <2> QED
      BY <2>1, <2>3, <2>5, <2>6, ValidBounded, Zenon
  <1> QED
    BY <1>1, <1>2, Zenon

\* SwapEncoding.
LEMMA SwapMarks ==
  ASSUME NEW k, Shaped(k), Marked(k), NEW o
  PROVE  /\ Marked(SwapEncoding(k, o)) /\ (FirstBounded(k) => FirstBounded(SwapEncoding(k, o)))
         /\ o[TypeName] = 0 => SwapEncoding(k, o) = k
  <1> DEFINE l == SwapEncoding(k, o)
  <1>1. /\ Changes(k, l, {"Content-Transfer-Encoding", "Content-Type"})
        /\ \/ l = k
           \/ \A p \in Named(l, TypeName) :
                 l.Fields[p].err = "" /\ l.Fields[p].val.type = "application"
    BY SwapEncodingProperties, Zenon DEF TypeName
  <1>2. o[TypeName] = 0 => l = k
    BY DEF SwapEncoding, TypeName
  <1> HIDE DEF l
  <1>3. CASE l = k
    BY <1>2, <1>3, Zenon DEF l
  <1>4. CASE l # k
    <2>1. HeaderOK(l)
      BY <1>1, Zenon DEF Changes, Shaped
    <2>2. Marked(l) /\ InvalidOnes(l, TypeName) = {}
      BY <1>1, <1>4, Zenon DEF Marked, Bounded, InvalidOnes, ValidOnes
    <2>3. FirstBounded(l)
      BY <2>1, <2>2, ValidBounded, Zenon
    <2> QED
      BY <1>2, <2>2, <2>3, Zenon DEF l
  <1> QED
    BY <1>3, <1>4, Zenon


\* What Repair does to them.
LEMMA RepairTypes ==
  ASSUME Base, RepairInv, ApplyRepair, pc' # "panic"
  PROVE  /\ TypesFrom(h, h') /\ TypesFrom(input, h')
         /\ pc = "r.firstvalid" => Alike(h')
  <1>0. Shaped(h) /\ HeaderOK(h) /\ HeaderOK(input)
    BY Zenon DEF Base, Shaped
  <1>1. pc \in RepairRules /\ Trims(h, h', Trimmed(pc))
    BY RepairStep, Zenon
  <1>2. TypesFrom(h, h')
    BY <1>1, Zenon DEF Trims, TypesFrom, Named, TypeName
  <1>3. TypesFrom(input, h)
    BY <1>1, Zenon DEF RepairInv, TypesFrom, Named, TypeName
  <1>4. TypesFrom(input, h')
    BY <1>2, <1>3, TypesLess, Zenon
  <1>5. ASSUME pc = "r.firstvalid" PROVE Alike(h')
    <2>1. h' = KeepFirstValid(h, occ)
      BY <1>5, Zenon DEF ApplyRepair, Repair, Rule, Risky, Enter
    <2>2. occ[TypeName] = Occurrences(input, TypeName)
      <3>1. occ = Count(input) /\ TypeName \in CountedNames
        BY <1>1, Counted, Zenon DEF RepairInv, TypeName
      <3> QED
        BY <1>0, <3>1, CountType, Zenon
    <2>3. occ[TypeName] > 1 /\ ValidOnes(h, TypeName) # {} => InvalidOnes(h', TypeName) = {}
      BY <1>0, <2>1, KeepFirstValidProperties, Zenon DEF TypeName
    <2>4. CASE ValidOnes(h, TypeName) = {}
      BY <1>2, <2>4, Zenon DEF Alike, TypesFrom, ValidOnes
    <2>5. CASE ~(occ[TypeName] > 1)
      <3>1. Occurrences(input, TypeName) <= 1
        BY <1>0, <2>2, <2>5, SingleCount
      <3>2. Single(input, TypeName)
        BY <1>0, <3>1, SingleCount, Zenon
      <3>3. Single(h', TypeName)
        BY <1>4, <3>2, Zenon DEF Single, TypesFrom
      <3> QED
        BY <3>3, Zenon DEF Single, Alike, InvalidOnes, ValidOnes
    <2> QED
      BY <2>3, <2>4, <2>5, Zenon DEF Alike
  <1> QED
    BY <1>2, <1>4, <1>5, Zenon

\* What RepairWithBody does to them.
LEMMA BodyTypes ==
  ASSUME Base, TypeInv, ApplyWithBody, pc' # "panic", role = "message"
  PROVE  /\ pc \in ToPlain \ {"boundary"} => TypesFrom(h, h')
         /\ Marked(h') /\ (occ[TypeName] = 0 => Named(h', TypeName) = {})
         /\ pc = "boundary" => PlainIfValid(h') /\ SpaceRead(h', input, body)
         /\ LinesAgree(body) /\ (pc = "boundary" \/ FirstBounded(h)) /\ pc # "identical" =>
               FirstBounded(h')
         /\ pc = "urls" => (IsType(h', "multipart") <=> IsType(h, "multipart"))
  <1>0. Shaped(h) /\ HeaderOK(h) /\ occ[TypeName] \in Nat
    <2>1. occ \in [CountedNames -> Nat] /\ TypeName \in CountedNames
      BY Counted, Zenon DEF Base, TypeName
    <2> QED
      BY <2>1, Zenon DEF Base, Shaped
  <1>1. pc \in BodyRules /\ Changes(h, h', Touched(pc)) /\ Held(h, occ)
    BY BodyStep, Zenon DEF ApplyWithBody, Base
  <1>2. Marked(h) /\ (occ[TypeName] = 0 => Named(h, TypeName) = {})
    BY <1>1, Zenon DEF TypeInv
  <1>3. CASE pc = "identical"
    <2>1. h' = RemoveIdentical(h, occ)
      BY <1>3, Zenon DEF ApplyWithBody, RepairWithBody, Rule, Risky, Enter
    <2>2. Removes(h, h', ConditionNames)
      BY <1>0, <2>1, RemoveIdenticalProperties, Zenon
    <2>3. TypesFrom(h, h')
      BY <2>2, RemovesNamed DEF TypesFrom
    <2>4. Marked(h') /\ Named(h', TypeName) \subseteq Named(h, TypeName)
      BY <1>2, <2>3, TypesLess, Zenon
    <2> QED
      BY <1>2, <1>3, <2>3, <2>4, Zenon
  <1>4. CASE pc = "boundary"
    <2>1. h' = GuessBoundary(h, occ, body)
      BY <1>4, Zenon DEF ApplyWithBody, RepairWithBody, Rule, Risky, Enter, theBody
    <2>2. Alike(h) /\ TypesFrom(input, h)
      BY <1>4, Zenon DEF TypeInv, ToBoundary
    <2>3. AsParsed(input) /\ body.lines \in Seq(STRING \ {""})
          /\ (LinesAgree(body) => body.kind # "empty")
      BY Zenon DEF Base, LinesAgree
    <2>4. /\ Marked(h') /\ PlainIfValid(h') /\ SpaceRead(h', input, body)
          /\ LinesAgree(body) => FirstBounded(h')
      BY <1>0, <1>2, <2>1, <2>2, <2>3, GuessBoundaryMarks, Zenon
    <2>5. Named(h', TypeName) = Named(h, TypeName)
      BY <1>0, <2>1, GuessBoundaryProperties, Zenon DEF TypeName
    <2> QED
      BY <1>2, <1>4, <2>4, <2>5, Zenon
  <1>5. CASE pc = "plain"
    <2>1. h' = DropPlain(h, occ) /\ ~DropPlainPanics(h, occ)
      BY <1>5, Zenon DEF ApplyWithBody, RepairWithBody, Rule, Risky, Enter
    <2>2. PlainIfValid(h)
      BY <1>5, Zenon DEF TypeInv, ToPlain, ToBoundary
    <2>3. TypesFrom(h, h') /\ (FirstBounded(h) => FirstBounded(h'))
      BY <1>0, <1>2, <2>1, <2>2, DropPlainMarks, Zenon
    <2>4. Marked(h') /\ Named(h', TypeName) \subseteq Named(h, TypeName)
      BY <1>2, <2>3, TypesLess, Zenon
    <2> QED
      BY <1>2, <1>5, <2>3, <2>4, Zenon
  <1>6. CASE pc \in {"grade", "html"}
    <2>1. h' \in {GradeTypes(h, occ, theBody), OneHtml(h, occ)}
      BY <1>6, Zenon DEF ApplyWithBody, RepairWithBody, Rule, Risky, Enter
    <2>2. KeepsOneType(h, h')
      BY <1>0, <1>1, <2>1, GradeRules, Zenon DEF TypeName
    <2>3. /\ Marked(h') /\ (FirstBounded(h) => FirstBounded(h'))
          /\ Named(h, TypeName) = {} => Named(h', TypeName) = {}
      BY <1>0, <1>2, <2>2, OneTypeMarks, Zenon
    <2> QED
      BY <1>2, <1>6, <2>3, Zenon DEF ToPlain, ToBoundary
  <1>7. CASE pc = "swap"
    <2>1. h' = SwapEncoding(h, occ)
      BY <1>7, Zenon DEF ApplyWithBody, RepairWithBody, Rule, Risky, Enter
    <2>2. /\ Marked(h') /\ (FirstBounded(h) => FirstBounded(h'))
          /\ occ[TypeName] = 0 => h' = h
      BY <1>0, <1>2, <2>1, SwapMarks, Zenon
    <2> QED
      BY <1>2, <1>7, <2>2, Zenon DEF ToPlain, ToBoundary
  <1>8. CASE pc \notin {"identical", "boundary", "plain", "grade", "html", "swap"}
    <2>1. TypeName \notin Touched(pc)
      BY <1>1, <1>8, Zenon DEF Touched, BodyRules, TypeName, DroppableNames
    <2>2. SameFields(h, h', TypeName)
      BY <1>0, <1>1, <2>1, Untouched, Zenon
    <2>3. /\ TypesFrom(h, h') /\ Named(h', TypeName) = Named(h, TypeName)
          /\ FirstBounded(h) => FirstBounded(h')
          /\ \A t : IsType(h', t) <=> IsType(h, t)
      BY <1>0, <2>2, TypesSame, Zenon
    <2>4. Marked(h')
      BY <1>2, <2>3, TypesLess, Zenon
    <2> QED
      BY <1>2, <1>8, <2>3, <2>4, Zenon
  <1> QED
    BY <1>3, <1>4, <1>5, <1>6, <1>7, <1>8, Zenon


\* verify leaves the fields alone.
LEMMA VerifySame ==
  ASSUME NEW k, HeaderOK(k), NEW fn
  PROVE  SameFields(k, verify(k), fn)
  BY VerifyProperties DEF SameFields, Named

\* Every step preserves TypeInv.
LEMMA TypeStep == Base /\ Verdict /\ RepairInv /\ TypeInv /\ [Next]_vars => TypeInv'
  <1> SUFFICES ASSUME Base, Verdict, RepairInv, TypeInv, [Next]_vars, role' = "message"
               PROVE  TypeInv'
    BY Zenon DEF TypeInv
  <1>0. Shaped(h) /\ HeaderOK(h) /\ HeaderOK(input) /\ AsParsed(input)
    BY Zenon DEF Base, Shaped
  <1>1. ASSUME pc' \notin {"r.version", "r.encoding", "r.sender", "withbody", "children"} \cup BodyRules
        PROVE  TypeInv'
    <2>1. pc' \notin ToBoundary /\ pc' \notin ToPlain
      BY <1>1, Zenon DEF BodyRules, ToBoundary, ToPlain
    <2> QED
      BY <1>1, <2>1, Zenon DEF TypeInv
  <1>2. CASE ReadField \/ EndOfHeader
    <2>1. pc' \in {"read", "repair"}
      BY <1>2, Zenon DEF ReadField, EndOfHeader
    <2> QED
      BY <1>1, <2>1, Zenon DEF BodyRules
  <1>3. CASE StartRepair
    <2>1. /\ pc = "repair" /\ h' = verify(h) /\ input' = input /\ role = "message"
          /\ pc' = IF Valid(h) THEN "withbody" ELSE "r.identical"
      BY <1>3, Zenon DEF StartRepair, Enter, context, AfterRepair
    <2>2. CASE ~Valid(h)
      BY <1>1, <2>1, <2>2, Zenon DEF BodyRules
    <2>3. CASE Valid(h)
      <3>1. h = input /\ h'.Fields = h.Fields
        BY <1>0, <2>1, VerifyProperties, Zenon DEF Base
      <3>2. AllFieldsValid(h)
        <4>1. Trusted(h)
          BY <2>1, Zenon DEF Base, Trusted
        <4> QED
          BY <1>0, <2>3, <4>1, VerifyVerdict, AcceptableMeans, Zenon
      <3>3. Alike(h') /\ TypesFrom(input', h')
        BY <2>1, <3>1, <3>2, Zenon DEF AllFieldsValid, Alike, TypesFrom, InvalidOnes, ValidOnes, Named
      <3>4. pc' = "withbody"
        BY <2>1, <2>3, Zenon
      <3> QED
        BY <3>3, <3>4, Zenon DEF TypeInv, BodyRules, ToPlain, ToBoundary
    <2> QED
      BY <2>2, <2>3, Zenon
  <1>4. CASE ApplyRepair
    <2>1. pc \in RepairRules /\ input' = input /\ role = "message"
          /\ (pc' = "panic" \/ pc' = AfterRule(pc))
      BY <1>4, RepairStep, Zenon DEF context
    <2>2. CASE pc' = "panic" \/ pc \in {"r.identical", "r.optionless"}
      <3>1. pc' \in {"panic", "r.optionless", "r.firstvalid"}
        BY <2>1, <2>2, Zenon DEF AfterRule
      <3> QED
        BY <1>1, <3>1, Zenon DEF BodyRules
    <2>3. CASE pc' # "panic" /\ pc \notin {"r.identical", "r.optionless"}
      <3>1. /\ TypesFrom(h, h') /\ TypesFrom(input, h')
            /\ pc = "r.firstvalid" => Alike(h')
        BY <1>4, <2>3, RepairTypes, Zenon
      <3>2. pc \in {"r.version", "r.encoding", "r.sender"} => Alike(h)
        BY <2>1, Zenon DEF TypeInv
      <3>3. Alike(h')
        BY <2>1, <2>3, <3>1, <3>2, TypesLess, Zenon DEF RepairRules
      <3>4. pc' \in {"r.version", "r.encoding", "r.sender", "withbody"}
        BY <2>1, <2>3, Zenon DEF RepairRules, AfterRule, AfterRepair
      <3> QED
        BY <2>1, <3>1, <3>3, <3>4, Zenon DEF TypeInv, BodyRules, ToPlain, ToBoundary
    <2> QED
      BY <2>2, <2>3, Zenon
  <1>5. CASE StartWithBody
    <2>1. /\ pc = "withbody" /\ h' = verify(h) /\ occ' = Count(h) /\ input' = input /\ role = "message"
          /\ body' = body
          /\ pc' = IF Valid(h) THEN AfterWithBody ELSE "identical"
      BY <1>5, Zenon DEF StartWithBody, Enter, context
    <2>2. SameFields(h, h', TypeName) /\ HeaderOK(h')
      BY <1>0, <2>1, VerifySame, VerifyProperties, Zenon
    <2>3. /\ TypesFrom(h, h') /\ Named(h', TypeName) = Named(h, TypeName)
          /\ \A t : IsType(h', t) <=> IsType(h, t)
      BY <1>0, <2>2, TypesSame, Zenon
    <2>4. Alike(h) /\ TypesFrom(input, h)
      BY <2>1, Zenon DEF TypeInv
    <2>5. Alike(h') /\ TypesFrom(input, h')
      BY <2>3, <2>4, TypesLess, Zenon
    <2>6. Marked(h')
      BY <1>0, <2>5, TypesParsed, Zenon
    <2>7. CASE Valid(h)
      <3>1. pc' \in {"children", "part"} /\ (pc' = "children" => IsType(h', "multipart"))
        BY <2>1, <2>3, <2>7, Zenon DEF AfterWithBody
      <3>2. AllFieldsValid(h)
        <4>1. Trusted(h)
          BY <2>1, Zenon DEF Verdict
        <4> QED
          BY <1>0, <2>7, <4>1, VerifyVerdict, AcceptableMeans, Zenon
      <3>3. InvalidOnes(h, TypeName) = {}
        BY <3>2, Zenon DEF AllFieldsValid, InvalidOnes, ValidOnes, Named
      <3>4. InvalidOnes(h', TypeName) = {}
        BY <1>0, <2>2, <3>3, SameAnswers, Zenon
      <3>5. FirstBounded(h')
        BY <2>2, <2>6, <3>4, ValidBounded, Zenon
      <3> QED
        BY <3>1, <3>5, Zenon DEF TypeInv, BodyRules, ToPlain, ToBoundary
    <2>8. CASE ~Valid(h)
      <3>1. pc' = "identical" /\ TypeName \in CountedNames
        BY <2>1, <2>8, Counted, Zenon DEF TypeName
      <3>2. occ'[TypeName] = 0 => Named(h', TypeName) = {}
        BY <1>0, <2>1, <2>3, <3>1, CountType, SingleCount, Zenon
      <3>3. pc' \in ToBoundary /\ pc' \in BodyRules /\ pc' \notin ToPlain \ ToBoundary
        BY <3>1, Zenon DEF ToBoundary, ToPlain, BodyRules
      <3> QED
        BY <2>1, <2>5, <2>6, <3>1, <3>2, <3>3, Zenon DEF TypeInv
    <2> QED
      BY <2>7, <2>8, Zenon
  <1>6. CASE ApplyWithBody
    <2>1. pc \in BodyRules /\ input' = input /\ body' = body /\ occ' = occ /\ role = "message"
          /\ (pc' = "panic" \/ pc' = After(pc))
      BY <1>6, BodyStep, Zenon DEF ApplyWithBody, context
    <2>2. CASE pc' = "panic"
      BY <1>1, <2>2, Zenon DEF BodyRules
    <2>3. CASE pc' # "panic"
      <3>1. /\ pc \in ToPlain \ {"boundary"} => TypesFrom(h, h')
            /\ Marked(h') /\ (occ[TypeName] = 0 => Named(h', TypeName) = {})
            /\ pc = "boundary" => PlainIfValid(h') /\ SpaceRead(h', input, body)
            /\ LinesAgree(body) /\ (pc = "boundary" \/ FirstBounded(h)) /\ pc # "identical" =>
                  FirstBounded(h')
            /\ pc = "urls" => (IsType(h', "multipart") <=> IsType(h, "multipart"))
        BY <1>6, <2>1, <2>3, BodyTypes, Zenon
      <3>2. /\ pc' \in ToBoundary => pc \in ToBoundary \ {"boundary"}
            /\ pc' \in ToPlain \ ToBoundary => pc \in ToPlain /\ (pc # "boundary" => pc \notin ToBoundary)
            /\ pc' \in (BodyRules \ ToBoundary) \cup {"children"} =>
                  pc = "boundary" \/ pc \in BodyRules \ ToBoundary
            /\ pc' = "children" => pc = "urls" /\ IsType(h, "multipart")
            /\ pc' \notin {"r.version", "r.encoding", "r.sender", "withbody"}
        <4>1. pc' = After(pc)
          BY <2>1, <2>3, Zenon
        <4> QED
          BY <2>1, <4>1, Zenon DEF After, AfterWithBody, BodyRules, ToBoundary, ToPlain
      <3>3. ASSUME pc' \in ToBoundary PROVE Alike(h') /\ TypesFrom(input, h')
        <4>1. pc \in ToBoundary /\ TypesFrom(h, h')
          BY <3>1, <3>2, <3>3, Zenon DEF ToPlain
        <4>2. Alike(h) /\ TypesFrom(input, h)
          BY <2>1, <4>1, Zenon DEF TypeInv
        <4> QED
          BY <4>1, <4>2, TypesLess, Zenon
      <3>4. ASSUME pc' \in ToPlain \ ToBoundary PROVE PlainIfValid(h')
        <4>1. CASE pc # "boundary"
          <5>1. PlainIfValid(h)
            BY <2>1, <3>2, <3>4, <4>1, Zenon DEF TypeInv
          <5> QED
            BY <3>1, <3>2, <3>4, <4>1, <5>1, TypesLess, Zenon
        <4> QED
          BY <3>1, <4>1, Zenon
      <3>5. ASSUME LinesAgree(body), pc' \in (BodyRules \ ToBoundary) \cup {"children"}
            PROVE  FirstBounded(h')
        <4>1. pc # "boundary" => FirstBounded(h)
          BY <2>1, <3>2, <3>5, Zenon DEF TypeInv
        <4>2. pc # "identical"
          BY <3>2, <3>5, Zenon DEF ToBoundary
        <4> QED
          BY <3>1, <3>5, <4>1, <4>2, Zenon
      <3> QED
        BY <2>1, <3>1, <3>2, <3>3, <3>4, <3>5, Zenon DEF TypeInv
    <2> QED
      BY <2>2, <2>3, Zenon
  <1>7. CASE ParseChildren \/ ParsePart \/ CallSimplify
    <2>1. pc' \in {"panic", "simplify", "done"}
      BY <1>7, Zenon DEF ParseChildren, ParsePart, CallSimplify, Risky, Rule, context
    <2> QED
      BY <1>1, <2>1, Zenon DEF BodyRules
  <1>8. CASE UNCHANGED vars
    BY <1>8, Zenon DEF vars, TypeInv
  <1> QED
    BY <1>2, <1>3, <1>4, <1>5, <1>6, <1>7, <1>8, Cases, Zenon

\* RepairWithBody, about multiparts: "If it's a multipart and the c-t field
\* could not be parsed, try to find the boundary by inspecting the body".  No
\* message goes to parseMultipart without a boundary if the body has one
\* candidate, whatever rules about Content-Type run before and after the guess.
THEOREM MultipartHasBoundary == Spec => []BoundaryGuessed
  <1>1. Init => TypeInv
    BY Zenon DEF Init, TypeInv, BodyRules, ToBoundary, ToPlain
  <1>2. Base /\ Verdict /\ RepairInv /\ TypeInv /\ [Next]_vars => TypeInv'
    BY TypeStep, Zenon
  <1>3. Base /\ TypeInv => BoundaryGuessed
    <2> SUFFICES ASSUME Base, TypeInv, pc = "children", LinesAgree(body)
                 PROVE  parameter(First(h, "Content-Type").val, "boundary") # ""
      BY Zenon DEF BoundaryGuessed, LinesAgree
    <2>1. role = "message" /\ HeaderOK(h)
      BY Zenon DEF Base, Shaped
    <2>2. FirstBounded(h) /\ IsType(h, "multipart")
      BY <2>1, Zenon DEF TypeInv
    <2>3. Named(h, TypeName) # {} /\ First(h, TypeName).val.type = "multipart"
      BY <2>1, <2>2, NilField, Zenon DEF IsType, ContentType, First, TypeName
    <2> QED
      BY <2>2, <2>3, Zenon DEF FirstBounded, Bounded, TypeName
  <1> QED
    BY <1>1, <1>2, <1>3, VerdictInvariant, RepairInvariant, PTL DEF Spec

=============================================================================
