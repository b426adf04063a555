---------------------------- MODULE PanicProofs ----------------------------
(***************************************************************************)
(* The panics of Repair and of RepairWithBody have, for every input, the   *)
(* causes that MayPanic names.                                             *)
(***************************************************************************)
EXTENDS BoundaryProofs, BodyRepairProofs

\* What is known of the counts that RepairWithBody works from.
CountInv ==
    /\ /\ pc \in {"repair", "withbody"} \cup RepairRules \/ (role = "part" /\ pc = "part")
       /\ Single(input, TypeName)
       => Single(h, TypeName)
    /\ pc \in BodyRules /\ Single(input, TypeName) => occ[TypeName] <= 1
    /\ pc \in BodyRules /\ occ["Message-ID"] > 0 => Named(input, "Message-ID") # {}
    /\ pc \in BodyRules => \A fn \in MergedNames : occ[fn] <= 1

\* Two Content-Types that are removed are removed in Repair; a boundary that is a
\* blank has been read; the Received fields are the ones read.
OddInv ==
    role = "message" =>
        /\ /\ pc \in (RepairRules \ {"r.identical"}) \cup {"withbody", "identical"}
           /\ Occurrences(input, TypeName) = 2
           => Distinct(h)
        /\ pc \in ToPlain /\ occ[TypeName] = 2 /\ Occurrences(input, TypeName) = 2 => Named(h, TypeName) = Named(input, TypeName)
        /\ pc \in ToPlain \cup {"grade"} => SpaceRead(h, input, body)
        /\ pc \in RepairRules \cup {"repair", "withbody", "identical", "date"} =>
              SameFields(input, h, "Received")

\* There is at most one field of a name whose fields ReadHeader merges.
LEMMA MergedCount ==
  ASSUME NEW k, Shaped(k), NEW fn \in MergedNames
  PROVE  Count(k)[fn] <= 1
  <1>1. HeaderOK(k) /\ Single(k, fn)
    BY Zenon DEF Shaped, AddressFieldsMerged, Single, Named
  <1>2. fn \in CountedNames
    BY Counted, Zenon DEF MergedNames
  <1> QED
    BY <1>1, <1>2, CountType, SingleCount, Zenon

\* Every step preserves CountInv.
LEMMA CountStep == Base /\ SourceInv /\ CountInv /\ [Next]_vars => CountInv'
  <1> SUFFICES ASSUME Base, SourceInv, CountInv, [Next]_vars PROVE CountInv'
    BY Zenon
  <1> DEFINE Before(at) == at \in {"repair", "withbody"} \cup RepairRules \/ (role = "part" /\ at = "part")
  <1>0. Shaped(h) /\ HeaderOK(h) /\ role \in {"message", "part"}
    BY Zenon DEF Base, Shaped
  <1>1. ASSUME Before(pc), input' = input, role' = role, pc' \notin BodyRules,
               Single(h, TypeName) => Single(h', TypeName)
        PROVE  CountInv'
    BY <1>1, Zenon DEF CountInv
  <1>2. ASSUME pc' \notin BodyRules \cup {"repair", "withbody"} \cup RepairRules,
               role' = "part" => pc' # "part"
        PROVE  CountInv'
    BY <1>2, Zenon DEF CountInv
  <1>3. CASE ReadField
    <2>1. pc' = "read"
      BY <1>3, Zenon DEF ReadField
    <2> QED
      BY <1>2, <2>1, Zenon DEF BodyRules, RepairRules
  <1>4. CASE EndOfHeader
    <2>1. pc' = "repair" /\ h' = input'
      BY <1>4, Zenon DEF EndOfHeader
    <2> QED
      BY <2>1, Zenon DEF CountInv, BodyRules
  <1>5. CASE StartRepair
    <2>1. /\ pc = "repair" /\ h' = verify(h) /\ input' = input /\ role' = role
          /\ pc' \in {"r.identical", AfterRepair}
      BY <1>5, Zenon DEF StartRepair, Enter, context
    <2>2. Single(h, TypeName) => Single(h', TypeName)
      BY <1>0, <2>1, VerifyProperties DEF Single, Named
    <2>3. pc' \notin BodyRules
      BY <2>1, Zenon DEF AfterRepair, BodyRules
    <2> QED
      BY <1>1, <2>1, <2>2, <2>3, Zenon
  <1>6. CASE ApplyRepair
    <2>1. /\ pc \in RepairRules /\ input' = input /\ role' = role
          /\ h' = h \/ Trims(h, h', Trimmed(pc))
          /\ pc' \in {"panic", AfterRule(pc)}
      BY <1>6, RepairStep, Zenon DEF context
    <2>2. Single(h, TypeName) => Single(h', TypeName)
      BY <2>1, Zenon DEF Trims, Single, Named
    <2>3. pc' \notin BodyRules
      BY <2>1, Zenon DEF AfterRule, AfterRepair, RepairRules, BodyRules
    <2> QED
      BY <1>1, <2>1, <2>2, <2>3, Zenon
  <1>7. CASE StartWithBody
    <2>1. /\ pc = "withbody" /\ h' = verify(h) /\ occ' = Count(h) /\ role' = role /\ input' = input
          /\ pc' = IF Valid(h) THEN AfterWithBody ELSE "identical"
      BY <1>7, Zenon DEF StartWithBody, Enter, context
    <2>2. CASE pc' # "identical"
      <3>1. pc' = AfterWithBody
        BY <2>1, <2>2, Zenon
      <3>2. pc' \in {"done", "children", "part"} /\ (role = "part" => pc' = "done")
        BY <3>1, Zenon DEF AfterWithBody
      <3> QED
        BY <1>2, <2>1, <3>2, Zenon DEF BodyRules, RepairRules
    <2>3. CASE pc' = "identical"
      <3>1. TypeName \in CountedNames /\ "Message-ID" \in CountedNames
        BY Counted, Zenon DEF TypeName
      <3>2. /\ occ'[TypeName] = Occurrences(h, TypeName)
            /\ occ'["Message-ID"] = Occurrences(h, "Message-ID")
        BY <1>0, <2>1, <3>1, CountType, Zenon
      <3>3. Single(input, TypeName) => occ'[TypeName] <= 1
        BY <1>0, <2>1, <3>2, SingleCount, Zenon DEF CountInv
      <3>4. Named(h, "Message-ID") # {} => Named(input, "Message-ID") # {}
        BY <2>1, Zenon DEF SourceInv
      <3>5. occ'["Message-ID"] > 0 => Named(input, "Message-ID") # {}
        <4>1. Named(h, "Message-ID") = {} => occ'["Message-ID"] = 0
          BY <1>0, <3>2, SingleCount, Zenon
        <4> QED
          BY <3>4, <4>1
      <3>6. \A fn \in MergedNames : occ'[fn] <= 1
        BY <1>0, <2>1, MergedCount, Zenon
      <3> QED
        BY <2>1, <2>3, <3>3, <3>5, <3>6, Zenon DEF CountInv, RepairRules
    <2> QED
      BY <2>2, <2>3, Zenon
  <1>8. CASE ApplyWithBody
    <2>1. /\ pc \in BodyRules /\ input' = input /\ role' = role /\ occ' = occ
          /\ pc' \in {"panic", After(pc)}
      BY <1>8, BodyStep, Zenon DEF ApplyWithBody, context
    <2>2. pc' \in BodyRules \cup {"panic", "done", "children", "part"} /\ (role = "part" => pc' # "part")
      BY <2>1, Zenon DEF BodyRules, After, AfterWithBody
    <2> QED
      BY <2>1, <2>2, Zenon DEF CountInv, BodyRules, RepairRules
  <1>9. CASE ParseChildren
    <2>1. pc' \in {"panic", "simplify"}
      BY <1>9, Zenon DEF ParseChildren, Risky, Rule
    <2> QED
      BY <1>2, <2>1, Zenon DEF BodyRules, RepairRules
  <1>10. CASE ParsePart \/ CallSimplify
    <2>1. /\ pc \in {"part", "simplify"} /\ input' = input /\ role' = role
          /\ \/ pc' = "panic" /\ h' = h
             \/ /\ pc' = IF pc = "simplify" THEN "done"
                         ELSE IF role = "message" THEN "simplify" ELSE "withbody"
                /\ \E m : Improves(h, m) /\ h' = Simplify(m)
      BY <1>10, LaterStep, Zenon DEF context
    <2>2. CASE pc' # "withbody"
      BY <1>2, <2>1, <2>2, Zenon DEF BodyRules, RepairRules
    <2>3. CASE pc' = "withbody"
      <3>1. role = "part" /\ pc = "part" /\ \E m : Improves(h, m) /\ h' = Simplify(m)
        BY <1>0, <2>1, <2>3, Zenon
      <3>2. Condenses(h, h')
        BY <1>0, <3>1, SimplifyCondenses, Zenon
      <3>3. Single(h, TypeName) => Single(h', TypeName)
        BY <3>2, Zenon DEF Condenses
      <3> QED
        BY <1>1, <2>1, <2>3, <3>1, <3>3, Zenon DEF BodyRules
    <2> QED
      BY <2>2, <2>3, Zenon
  <1>11. CASE UNCHANGED vars
    BY <1>11, Zenon DEF vars, CountInv
  <1> QED
    BY <1>3, <1>4, <1>5, <1>6, <1>7, <1>8, <1>9, <1>10, <1>11, Cases, Zenon


\* Of three members of a set of two, two are the same.
LEMMA TwoOf ==
  ASSUME NEW S, IsFiniteSet(S), Cardinality(S) = 2, NEW a \in S, NEW b \in S, NEW c \in S
  PROVE  a = b \/ b = c \/ a = c
  <1> SUFFICES ASSUME a # b, b # c, a # c PROVE FALSE
    BY Zenon
  <1>1. IsFiniteSet(S \ {a}) /\ Cardinality(S \ {a}) = 1
    BY FS_RemoveElement
  <1>2. b \in S \ {a}
    BY Zenon
  <1>3. IsFiniteSet((S \ {a}) \ {b}) /\ Cardinality((S \ {a}) \ {b}) = 0
    BY <1>1, <1>2, FS_RemoveElement
  <1>4. (S \ {a}) \ {b} = {}
    BY <1>3, FS_EmptySet, Zenon
  <1> QED
    BY <1>4, Zenon

\* How many there are.
LEMMA HowMany ==
  ASSUME NEW k, HeaderOK(k), NEW fn
  PROVE  IsFiniteSet(Named(k, fn)) /\ Occurrences(k, fn) = Cardinality(Named(k, fn))
  <1>1. Named(k, fn) \in SUBSET (DOMAIN k.Fields)
    BY Zenon DEF Named
  <1> QED
    BY <1>1, PositionsFinite, Zenon DEF Occurrences

\* Of two Content-Types that are identical RemoveIdentical leaves one.
LEMMA IdenticalGone ==
  ASSUME NEW k, Shaped(k), k.mode = "RFC5322", NEW o, o[TypeName] = 2, Occurrences(k, TypeName) = 2
  PROVE  Distinct(RemoveIdentical(k, o))
  <1> DEFINE l == RemoveIdentical(k, o)
             first == field(k, TypeName, 0)
  <1>1. /\ Removes(k, l, ConditionNames)
        /\ \A c \in conditions : c.m = k.mode /\ o[c.name] > c.max =>
              \A p \in Named(l, c.name) :
                 \/ p = field(k, c.name, 0)
                 \/ rfc822(k.Fields[p]) # rfc822(k.Fields[field(k, c.name, 0)])
    BY RemoveIdenticalProperties, Zenon
  <1> HIDE DEF l
  <1>2. PICK c \in conditions : c.name = TypeName /\ c.m = "RFC5322" /\ c.max = 1
    <2>1. [name |-> TypeName, min |-> 0, max |-> 1, m |-> "RFC5322"] \in conditions
      BY Zenon DEF conditions, TypeName
    <2> QED
      BY <2>1, Zenon
  <1>3. o[c.name] > c.max /\ c.m = k.mode
    BY <1>2
  <1>4. \A p \in Named(l, TypeName) : p = first \/ rfc822(k.Fields[p]) # rfc822(k.Fields[first])
    BY <1>1, <1>2, <1>3, Zenon
  <1>5. Named(l, TypeName) \subseteq Named(k, TypeName) /\ \A p \in Named(l, TypeName) : l.Fields[p] = k.Fields[p]
    BY <1>1, RemovesNamed
  <1>6. IsFiniteSet(Named(k, TypeName)) /\ Cardinality(Named(k, TypeName)) = 2 /\ HeaderOK(k)
    BY HowMany, Zenon DEF Shaped
  <1> SUFFICES ASSUME NEW p \in Named(l, TypeName), NEW q \in Named(l, TypeName), p # q
               PROVE  rfc822(l.Fields[p]) # rfc822(l.Fields[q])
    BY Zenon DEF l, Distinct
  <1>7. first \in Named(k, TypeName)
    BY <1>5, <1>6, FieldFound, Zenon
  <1> HIDE DEF first
  <1>8. p = first \/ q = first
    BY <1>5, <1>6, <1>7, TwoOf, Zenon
  <1> QED
    BY <1>4, <1>5, <1>8, Zenon

\* Two Content-Types that differ are safe from it.
LEMMA DistinctStay ==
  ASSUME NEW k, Shaped(k), NEW o, Distinct(k)
  PROVE  Named(RemoveIdentical(k, o), TypeName) = Named(k, TypeName)
  <1> DEFINE l == RemoveIdentical(k, o)
             first == field(k, TypeName, 0)
  <1>1. /\ Removes(k, l, ConditionNames)
        /\ \A fn : \A p \in Named(k, fn) \ Named(l, fn) :
              p # field(k, fn, 0) /\ rfc822(k.Fields[p]) = rfc822(k.Fields[field(k, fn, 0)])
    BY RemoveIdenticalProperties, Zenon
  <1> HIDE DEF l
  <1>2. Named(l, TypeName) \subseteq Named(k, TypeName)
    BY <1>1, RemovesNamed, Zenon
  <1>3. ASSUME NEW p \in Named(k, TypeName) \ Named(l, TypeName) PROVE FALSE
    <2>1. first \in Named(k, TypeName)
      BY FieldFound, Zenon DEF Shaped
    <2>2. p # first /\ rfc822(k.Fields[p]) = rfc822(k.Fields[first])
      BY <1>1, <1>3, Zenon
    <2> QED
      BY <2>1, <2>2, Zenon DEF Distinct
  <1> QED
    BY <1>2, <1>3, Zenon DEF l


\* SameFields is transitive.
LEMMA SameChain ==
  ASSUME NEW k, NEW l, NEW m, NEW fn, SameFields(k, l, fn), SameFields(l, m, fn)
  PROVE  SameFields(k, m, fn)
  BY Zenon DEF SameFields

\* Every step preserves OddInv.
LEMMA OddStep == Base /\ RepairInv /\ TypeInv /\ OddInv /\ [Next]_vars => OddInv'
  <1> SUFFICES ASSUME Base, RepairInv, TypeInv, OddInv, [Next]_vars, role' = "message"
               PROVE  OddInv'
    BY Zenon DEF OddInv
  <1>0. Shaped(h) /\ HeaderOK(h) /\ HeaderOK(input)
    BY Zenon DEF Base, Shaped
  <1>1. ASSUME pc' \notin RepairRules \cup {"repair", "withbody"} \cup BodyRules PROVE OddInv'
    <2>1. pc' \notin ToPlain \cup {"grade", "identical", "date"}
      BY <1>1, Zenon DEF BodyRules, ToBoundary, ToPlain
    <2> QED
      BY <1>1, <2>1, Zenon DEF OddInv
  <1>2. ASSUME pc' \in RepairRules \cup {"repair", "withbody"}, SameFields(input', h', "Received"),
               pc' \notin {"repair", "r.identical"} /\ Occurrences(input', TypeName) = 2 => Distinct(h')
        PROVE  OddInv'
    <2>1. pc' \notin ToPlain \cup {"grade", "identical"} /\ "repair" \notin RepairRules
      BY <1>2, Zenon DEF RepairRules, ToBoundary, ToPlain
    <2> QED
      BY <1>2, <2>1, Zenon DEF OddInv
  <1>3. CASE ReadField
    <2>1. pc' = "read"
      BY <1>3, Zenon DEF ReadField
    <2> QED
      BY <1>1, <2>1, Zenon DEF BodyRules, RepairRules
  <1>4. CASE EndOfHeader
    <2>1. pc' = "repair" /\ h' = input'
      BY <1>4, Zenon DEF EndOfHeader
    <2> QED
      BY <1>2, <2>1, Zenon DEF SameFields
  <1>5. CASE StartRepair
    <2>1. /\ pc = "repair" /\ h' = verify(h) /\ input' = input /\ role = "message"
          /\ pc' = IF Valid(h) THEN "withbody" ELSE "r.identical"
      BY <1>5, Zenon DEF StartRepair, Enter, context, AfterRepair
    <2>2. h = input /\ Trusted(h)
      BY <2>1, Zenon DEF Base, Trusted
    <2>3. SameFields(input', h', "Received")
      BY <1>0, <2>1, <2>2, VerifySame, Zenon
    <2>4. ASSUME Valid(h) PROVE Occurrences(input, TypeName) # 2
      <3>1. NoneRepeated(h)
        BY <1>0, <2>2, <2>4, VerifyVerdict, AcceptableMeans, Zenon
      <3>2. PICK c \in conditions : c.name = TypeName
        BY Counted, Zenon DEF ConditionNames, TypeName
      <3>3. c.max = 1
        BY DEF conditions
      <3>4. Occurrences(h, TypeName) <= 1
        BY <3>1, <3>2, <3>3, Zenon DEF NoneRepeated
      <3> QED
        BY <2>2, <3>4
    <2> QED
      BY <1>2, <2>1, <2>3, <2>4, Zenon DEF RepairRules
  <1>6. CASE ApplyRepair
    <2>1. /\ pc \in RepairRules /\ input' = input /\ role = "message"
          /\ \/ pc' = "panic"
             \/ pc' = AfterRule(pc) /\ Trims(h, h', Trimmed(pc))
      BY <1>6, RepairStep, Zenon DEF context
    <2>2. CASE pc' = "panic"
      BY <1>1, <2>2, Zenon DEF RepairRules, BodyRules
    <2>3. CASE pc' # "panic"
      <3>1. "Received" \notin Trimmed(pc)
        BY <2>1, Counted, Zenon DEF Trimmed, RepairRules, FirstOnlyNames
      <3>2. SameFields(h, h', "Received")
        BY <1>0, <2>1, <2>3, <3>1, Untouched, Zenon DEF Trims
      <3>3. SameFields(input, h', "Received")
        BY <2>1, <3>2, SameChain, Zenon DEF OddInv
      <3>4. ASSUME Occurrences(input, TypeName) = 2 PROVE Distinct(h')
        <4>1. CASE pc = "r.identical"
          <5>1. h' = RemoveIdentical(h, occ)
            BY <1>6, <2>3, <4>1, Zenon DEF ApplyRepair, Repair, Rule, Risky, Enter
          <5>2. h.Fields = input.Fields /\ occ = Count(input) /\ TypeName \in CountedNames
            BY <2>1, <4>1, Counted, Zenon DEF RepairInv, TypeName
          <5>3. occ[TypeName] = 2
            BY <1>0, <3>4, <5>2, CountType, Zenon
          <5>4. Occurrences(h, TypeName) = 2
            BY <3>4, <5>2, Zenon DEF Occurrences, Named
          <5>5. h.mode = "RFC5322"
            BY <2>1, Zenon DEF Base
          <5> QED
            BY <1>0, <5>1, <5>3, <5>4, <5>5, IdenticalGone, Zenon
        <4>2. CASE pc # "r.identical"
          <5>1. Distinct(h)
            BY <2>1, <3>4, <4>2, Zenon DEF OddInv
          <5>2. TypesFrom(h, h')
            BY <1>6, <2>3, RepairTypes, Zenon
          <5> QED
            BY <5>1, <5>2, TypesLess, Zenon
        <4> QED
          BY <4>1, <4>2, Zenon
      <3>5. pc' \in RepairRules \cup {"withbody"}
        BY <2>1, <2>3, Zenon DEF AfterRule, AfterRepair, RepairRules
      <3> QED
        BY <1>2, <2>1, <3>3, <3>4, <3>5, Zenon
    <2> QED
      BY <2>2, <2>3, Zenon
  <1>7. CASE StartWithBody
    <2>1. /\ pc = "withbody" /\ h' = verify(h) /\ occ' = Count(h) /\ input' = input /\ role = "message"
          /\ body' = body
          /\ pc' = IF Valid(h) THEN AfterWithBody ELSE "identical"
      BY <1>7, Zenon DEF StartWithBody, Enter, context
    <2>2. CASE Valid(h)
      <3>1. pc' \in {"children", "part"}
        BY <2>1, <2>2, Zenon DEF AfterWithBody
      <3> QED
        BY <1>1, <3>1, Zenon DEF RepairRules, BodyRules
    <2>3. CASE ~Valid(h)
      <3>1. \A fn : SameFields(h, h', fn)
        BY <1>0, <2>1, VerifySame, Zenon
      <3>2. TypesFrom(input, h) /\ TypesFrom(h, h') /\ Named(h', TypeName) = Named(h, TypeName)
        BY <1>0, <2>1, <3>1, TypesSame, Zenon DEF TypeInv
      <3>3. TypesFrom(input, h')
        BY <3>2, TypesLess, Zenon
      <3>4. SameFields(input', h', "Received")
        <4>1. SameFields(input, h, "Received")
          BY <2>1, Zenon DEF OddInv
        <4> QED
          BY <2>1, <3>1, <4>1, SameChain, Zenon
      <3>5. Occurrences(input', TypeName) = 2 => Distinct(h')
        <4>1. Occurrences(input, TypeName) = 2 => Distinct(h)
          BY <2>1, Zenon DEF OddInv
        <4> QED
          BY <2>1, <3>2, <4>1, TypesLess, Zenon
      <3>6. SpaceRead(h', input', body')
        BY <2>1, <3>3, Zenon DEF SpaceRead, TypesFrom
      <3>7. ASSUME occ'[TypeName] = 2, Occurrences(input', TypeName) = 2
            PROVE  Named(h', TypeName) = Named(input', TypeName)
        <4>1. TypeName \in CountedNames
          BY Counted, Zenon DEF TypeName
        <4>2. Occurrences(h, TypeName) = 2
          BY <1>0, <2>1, <3>7, <4>1, CountType, Zenon
        <4>3. /\ IsFiniteSet(Named(input, TypeName))
              /\ Cardinality(Named(input, TypeName)) = Cardinality(Named(h, TypeName))
          BY <1>0, <2>1, <3>7, <4>2, HowMany, Zenon
        <4>4. Named(h, TypeName) \in SUBSET Named(input, TypeName)
          BY <3>2, Zenon DEF TypesFrom
        <4>5. Named(h, TypeName) = Named(input, TypeName)
          BY <4>3, <4>4, FS_Subset, Zenon
        <4> QED
          BY <2>1, <3>2, <4>5, Zenon
      <3>8. pc' = "identical"
        BY <2>1, <2>3, Zenon
      <3> QED
        BY <3>4, <3>5, <3>6, <3>7, <3>8, Zenon DEF OddInv
    <2> QED
      BY <2>2, <2>3, Zenon
  <1>8. CASE ApplyWithBody
    <2>1. /\ pc \in BodyRules /\ input' = input /\ body' = body /\ occ' = occ /\ role = "message"
          /\ \/ pc' = "panic"
             \/ pc' = After(pc) /\ Changes(h, h', Touched(pc))
      BY <1>8, BodyStep, Zenon DEF ApplyWithBody, context
    <2>2. CASE pc' \notin ToPlain \cup {"grade"}
      <3>1. pc' \notin RepairRules \cup {"repair", "withbody", "identical", "date"}
        BY <2>1, <2>2, Zenon DEF BodyRules, After, AfterWithBody, RepairRules, ToPlain, ToBoundary
      <3> QED
        BY <2>2, <3>1, Zenon DEF OddInv
    <2>3. CASE pc' \in ToPlain \cup {"grade"}
      <3>1. pc' # "panic" /\ pc' = After(pc) /\ Changes(h, h', Touched(pc))
        BY <2>1, <2>3, Zenon DEF ToPlain, ToBoundary
      <3>2. pc \in ToPlain /\ pc' \notin RepairRules \cup {"repair", "withbody", "identical"}
            /\ (pc' = "date" => pc = "identical") /\ (pc' \in ToPlain => pc # "plain")
        BY <2>1, <2>3, <3>1, Zenon DEF BodyRules, After, AfterWithBody, RepairRules, ToPlain, ToBoundary
      <3>3. /\ pc \in ToPlain \ {"boundary"} => TypesFrom(h, h')
            /\ pc = "boundary" => SpaceRead(h', input, body)
        BY <1>8, <2>1, <3>1, BodyTypes, Zenon
      <3>4. SpaceRead(h, input, body)
        BY <2>1, <3>2, Zenon DEF OddInv
      <3>5. SpaceRead(h', input, body)
        BY <3>2, <3>3, <3>4, TypesLess, Zenon
      <3>6. ASSUME pc' = "date" PROVE SameFields(input, h', "Received")
        <4>1. pc = "identical" /\ Touched("identical") = ConditionNames
          BY <3>2, <3>6, Zenon DEF Touched
        <4>2. "Received" \notin ConditionNames
          BY Counted, Zenon
        <4>3. SameFields(h, h', "Received")
          BY <1>0, <3>1, <4>1, <4>2, Untouched, Zenon
        <4>4. SameFields(input, h, "Received")
          BY <2>1, <4>1, Zenon DEF OddInv
        <4> QED
          BY <4>3, <4>4, SameChain, Zenon
      <3>7. ASSUME pc' \in ToPlain, occ[TypeName] = 2, Occurrences(input, TypeName) = 2
            PROVE  Named(h', TypeName) = Named(input, TypeName)
        <4>1. Named(h, TypeName) = Named(input, TypeName)
          BY <2>1, <3>2, <3>7, Zenon DEF OddInv
        <4>2. CASE pc = "identical"
          <5>1. h' = RemoveIdentical(h, occ)
            BY <1>8, <3>1, <4>2, Zenon DEF ApplyWithBody, RepairWithBody, Rule, Risky, Enter
          <5>2. Distinct(h)
            BY <2>1, <3>7, <4>2, Zenon DEF OddInv
          <5> QED
            BY <1>0, <4>1, <5>1, <5>2, DistinctStay, Zenon
        <4>3. CASE pc = "boundary"
          <5>1. h' = GuessBoundary(h, occ, theBody)
            BY <1>8, <3>1, <4>3, Zenon DEF ApplyWithBody, RepairWithBody, Rule, Risky, Enter
          <5> QED
            BY <1>0, <4>1, <5>1, GuessBoundaryProperties, Zenon DEF TypeName
        <4>4. CASE pc \notin {"identical", "boundary"}
          <5>1. TypeName \notin Touched(pc)
            BY <3>2, <3>7, <4>4, Zenon DEF Touched, ToPlain, ToBoundary, TypeName, DroppableNames
          <5> QED
            BY <1>0, <3>1, <4>1, <5>1, Untouched, Zenon
        <4> QED
          BY <4>2, <4>3, <4>4, Zenon
      <3> QED
        BY <2>1, <3>2, <3>5, <3>6, <3>7, Zenon DEF OddInv
    <2> QED
      BY <2>2, <2>3, Zenon
  <1>9. CASE ParseChildren \/ ParsePart \/ CallSimplify
    <2>1. pc' \in {"panic", "simplify", "done"}
      BY <1>9, Zenon DEF ParseChildren, ParsePart, CallSimplify, Risky, Rule, context
    <2> QED
      BY <1>1, <2>1, Zenon DEF BodyRules, RepairRules
  <1>10. CASE UNCHANGED vars
    BY <1>10, Zenon DEF vars, OddInv
  <1> QED
    BY <1>3, <1>4, <1>5, <1>6, <1>7, <1>8, <1>9, <1>10, Cases, Zenon


\* The body that a part is repaired with.
LEMMA PartBody ==
  ASSUME Base, role = "part"
  PROVE  theBody.kind = "empty" /\ theBody.trap = "none"
  BY Zenon DEF Base, theBody, EmptyBody

-----------------------------------------------------------------------------
(***************************************************************************)
(* Addresses that cannot be written                                        *)
(***************************************************************************)
\* An address that is written was read.
LEMMA UnwritableRead ==
  ASSUME NEW N, N \subseteq KeptNames \cup {"From"}, NEW x, InField(input, N, x), Unwritable(x)
  PROVE  MayPanic
  <1> DEFINE M == FromSources \cup {"Message-ID", "References"}
  <1>1. N \subseteq M
    BY Zenon DEF KeptNames, FromSources
  <1> HIDE DEF M
  <1>2. InField(input, M, x)
    BY <1>1, Zenon DEF InField
  <1>3. x \in AddressesIn(input, M)
    BY <1>2, AddressesFound, Zenon
  <1> QED
    BY <1>3, Zenon DEF MayPanic, M

LEMMA KeptFound ==
  ASSUME NameInv, pc # "read", NEW N, N \subseteq KeptNames, NEW x, InField(h, N, x)
  PROVE  InField(input, N, x)
  <1>1. \A fn \in N : KeepsName(input, h, fn)
    BY Zenon DEF NameInv
  <1> QED
    BY <1>1, KeepsNameFound, Zenon

LEMMA UnwritableKept ==
  ASSUME NameInv, pc # "read", NEW N, N \subseteq KeptNames, NEW x, InField(h, N, x), Unwritable(x)
  PROVE  MayPanic
  BY KeptFound, UnwritableRead, Zenon

\* An address that is read where one that stands in for From is written.
LEMMA UnwritableAgain ==
  ASSUME role = "message", ValidOnes(input, "From") = {}, NEW x, InField(input, StandInNames, x),
         \/ Reread(x).panics
         \/ \E j \in DOMAIN Reread(x).addrs : Unwritable(Reread(x).addrs[j])
  PROVE  MayPanic
  <1>1. x \in AddressesIn(input, StandInNames)
    BY AddressesFound, Zenon
  <1> QED
    BY <1>1, Zenon DEF MayPanic

\* RemoveIdentical writes the fields of the names that occur too often, but
\* never an address field that ReadHeader merges.
LEMMA IdenticalPanic ==
  ASSUME NEW k, NEW o \in [CountedNames -> Nat], \A fn \in MergedNames : o[fn] <= 1,
         RemoveIdenticalPanics(k, o)
  PROVE  \E x : /\ InField(k, {"Sender", "Return-Path", "Message-ID", "References"}, x)
                /\ Unwritable(x)
  <1> DEFINE W == {"Sender", "Return-Path", "Message-ID", "References"}
  <1>0. PICK c \in conditions : \E p \in Named(k, c.name) : o[c.name] > c.max /\ WritePanics(k.Fields[p])
    BY Zenon DEF RemoveIdenticalPanics
  <1>1. PICK p \in Named(k, c.name) : o[c.name] > c.max /\ WritePanics(k.Fields[p])
    BY <1>0, Zenon
  <1>2. c.max = 1
    BY DEF conditions
  <1>3. c.name \in ConditionNames /\ c.name \in CountedNames
    BY Counted, Zenon DEF ConditionNames
  <1>4. c.name \notin MergedNames
    <2> SUFFICES ASSUME c.name \in MergedNames PROVE FALSE
      BY Zenon
    <2>1. o[c.name] <= 1 /\ o[c.name] \in Nat
      BY <1>3, Zenon
    <2> QED
      BY <1>1, <1>2, <2>1
  <1>5. p \in DOMAIN k.Fields /\ k.Fields[p].name = c.name
    BY <1>1, Zenon DEF Named
  <1>6. c.name \in AddressNames /\ \E i \in DOMAIN k.Fields[p].val : Unwritable(k.Fields[p].val[i])
    BY <1>1, <1>5, Zenon DEF WritePanics
  <1>7. c.name \in W
    BY <1>3, <1>4, <1>6, Counted, Zenon DEF AddressNames, addressFieldNames, MergedNames
  <1> HIDE DEF W
  <1>8. \E x : InField(k, W, x) /\ Unwritable(x)
    BY <1>5, <1>6, <1>7, Zenon DEF InField
  <1> QED
    BY <1>8, Zenon DEF W

LEMMA IdenticalRead ==
  ASSUME Base, NameInv, pc # "read", \A fn \in MergedNames : occ[fn] <= 1,
         RemoveIdenticalPanics(h, occ)
  PROVE  MayPanic
  <1> DEFINE W == {"Sender", "Return-Path", "Message-ID", "References"}
  <1>1. occ \in [CountedNames -> Nat] /\ W \subseteq KeptNames
    BY Zenon DEF Base, KeptNames, StandInNames
  <1>2. \E x : InField(h, W, x) /\ Unwritable(x)
    BY <1>1, IdenticalPanic, Zenon
  <1> HIDE DEF W
  <1> QED
    BY <1>1, <1>2, UnwritableKept, Zenon

\* Simplify writes Return-Path and Message-ID.
LEMMA SimplifyPanic ==
  ASSUME NEW k, Shaped(k), NEW m, Improves(k, m), SimplifyPanics(m)
  PROVE  \E x : InField(k, {"Return-Path", "Message-ID"}, x) /\ Unwritable(x)
  <1> DEFINE u == UniquifyAll(m)
             rp == AddressesOf(u, "Return-Path")
  <1>1. Shaped(m) /\ HeaderOK(m) /\ Sound(m)
    BY ShapedSound, Zenon DEF Improves, Changes, Shaped
  <1>2. \A fn \in {"Return-Path", "Message-ID"} : SameFields(k, m, fn)
    BY Zenon DEF Improves, Changes, Frame, PartNames
  <1>3. ASSUME NEW fn \in {"Return-Path", "Message-ID"}, NEW p \in Named(m, fn),
               NEW i \in DOMAIN m.Fields[p].val
        PROVE  InField(k, {"Return-Path", "Message-ID"}, m.Fields[p].val[i])
    <2>1. p \in Named(k, fn) /\ m.Fields[p] = k.Fields[p]
      BY <1>2, <1>3, Zenon DEF SameFields
    <2>2. p \in DOMAIN k.Fields /\ k.Fields[p].name = fn
      BY <2>1, Zenon DEF Named
    <2> QED
      BY <1>3, <2>1, <2>2, Zenon DEF InField
  <1>4. CASE Len(rp) = 1 /\ Unwritable(rp[1])
    <2>1. Named(u, "Return-Path") = Named(m, "Return-Path")
      BY <1>1, SimplerUniquify, Zenon
    <2>2. HeaderOK(u)
      BY <1>1, SimplerUniquify, Zenon DEF Simpler, Sound
    <2>3. CASE Named(m, "Return-Path") = {}
      <3>1. rp = <<>>
        BY <2>1, <2>3, Zenon DEF AddressesOf
      <3> QED
        BY <1>4, <3>1
    <2>4. CASE Named(m, "Return-Path") # {}
      <3> DEFINE p == field(m, "Return-Path", 0)
      <3>1. p \in Named(m, "Return-Path") /\ p \in DOMAIN m.Fields
        BY <1>1, <2>4, FieldFound, Zenon DEF Named
      <3>2. field(u, "Return-Path", 0) = p
        BY <2>1, Zenon DEF field
      <3>3. u.Fields[p].val = Uniquified(m.Fields[p].val)
        BY <1>1, <2>4, SimplerUniquify, Zenon DEF addressFieldNames
      <3>4. rp = Uniquified(m.Fields[p].val)
        BY <2>1, <2>4, <3>2, <3>3, Zenon DEF AddressesOf
      <3>5. m.Fields[p].val \in Seq(Address)
        BY <1>1, <2>4, SourceAddresses, Zenon DEF FromSources, StandInNames
      <3> HIDE DEF p, rp, u
      <3>6. rp \in Seq(Address) /\ \A i \in DOMAIN rp : \E j \in DOMAIN m.Fields[p].val : rp[i] = m.Fields[p].val[j]
        <4> DEFINE v == m.Fields[p].val
        <4>1. v \in Seq(Address) /\ rp = Uniquified(v)
          BY <3>4, <3>5, Zenon
        <4> HIDE DEF v
        <4>2. Uniquified(v) \in Seq(Address) /\ SameMailboxes(v, Uniquified(v))
          BY <4>1, UniquifiedProperties, Zenon
        <4>3. rp \in Seq(Address) /\ \A i \in DOMAIN rp : \E j \in DOMAIN v : rp[i] = v[j]
          BY <4>1, <4>2, Zenon DEF SameMailboxes
        <4> QED
          BY <4>3, Zenon DEF v
      <3>7. 1 \in DOMAIN rp
        BY <1>4, <3>6, OneAndNone, Zenon
      <3>8. PICK j \in DOMAIN m.Fields[p].val : rp[1] = m.Fields[p].val[j]
        BY <3>6, <3>7, Zenon
      <3> QED
        BY <1>3, <1>4, <3>1, <3>8, Zenon
    <2> QED
      BY <2>3, <2>4, Zenon
  <1>5. CASE Has(m, "Message-ID") /\ WritePanics(m.Fields[field(m, "Message-ID", 0)])
    <2>1. field(m, "Message-ID", 0) \in Named(m, "Message-ID")
      BY <1>1, <1>5, FieldFound, Zenon DEF Has
    <2>2. \E i \in DOMAIN m.Fields[field(m, "Message-ID", 0)].val :
             Unwritable(m.Fields[field(m, "Message-ID", 0)].val[i])
      BY <1>5, Zenon DEF WritePanics
    <2> QED
      BY <1>3, <2>1, <2>2, Zenon
  <1> QED
    BY <1>4, <1>5, Zenon DEF SimplifyPanics

-----------------------------------------------------------------------------
(***************************************************************************)
(* Panics                                                                  *)
(***************************************************************************)
\* A From that is missing, or is bad and was guessed.
LEMMA GuessedBad ==
  ASSUME Base, FromInv, pc # "read", NEW p \in InvalidOnes(h, "From")
  PROVE  \/ SameFields(input, h, "From")
         \/ /\ role = "message" /\ ValidOnes(input, "From") = {}
            /\ \E x \in Address :
                  /\ InField(input, IF Named(input, "From") = {} THEN StandInNames ELSE ReceiptNames, x)
                  /\ InField(input, StandInNames, x)
                  /\ h.Fields[p].val = Reread(x).addrs
  <1> SUFFICES ASSUME ~SameFields(input, h, "From")
               PROVE  /\ role = "message" /\ ValidOnes(input, "From") = {}
                      /\ \E x \in Address :
                            /\ InField(input, IF Named(input, "From") = {} THEN StandInNames ELSE ReceiptNames, x)
                            /\ InField(input, StandInNames, x)
                            /\ h.Fields[p].val = Reread(x).addrs
    BY Zenon
  <1> DEFINE N == IF Named(input, "From") = {} THEN StandInNames ELSE ReceiptNames
  <1>1. StoodIn(input, h.Fields[p])
    BY Zenon DEF FromInv, KeepsFrom
  <1>2. ValidOnes(input, "From") = {} /\ input.mode = "RFC5322"
    BY <1>1, Zenon DEF StoodIn, ReadAgain
  <1>3. PICK x \in Address : InField(input, N, x) /\ h.Fields[p] = FromReread(x)
    BY <1>1, Zenon DEF StoodIn, ReadAgain
  <1>4. role = "message"
    BY <1>2, Zenon DEF Base
  <1>5. N \subseteq StandInNames
    BY Zenon DEF StandInNames
  <1> HIDE DEF N
  <1>6. InField(input, StandInNames, x)
    BY <1>3, <1>5, Zenon DEF InField
  <1>7. h.Fields[p].val = Reread(x).addrs
    BY <1>3, RereadProperties, Zenon
  <1> QED
    BY <1>2, <1>3, <1>4, <1>6, <1>7, Zenon DEF N

\* A header without a valid From had none when it was read.
LEMMA NoneValid ==
  ASSUME FromInv, pc # "read", ValidOnes(h, "From") = {}
  PROVE  ValidOnes(input, "From") = {}
  BY Zenon DEF FromInv, KeepsFrom

\* A header whose first From is bad has no valid one.
LEMMA BadFromOnly ==
  ASSUME NEW k, Shaped(k), field(k, "From", 0) = Nil \/ First(k, "From").err # ""
  PROVE  ValidOnes(k, "From") = {}
  <1> SUFFICES ASSUME NEW p \in ValidOnes(k, "From") PROVE FALSE
    BY Zenon
  <1>1. p \in Named(k, "From") /\ k.Fields[p].err = "" /\ HeaderOK(k)
    BY Zenon DEF ValidOnes, Shaped
  <1>2. First(k, "From") = k.Fields[p]
    BY <1>1, OneFrom, Zenon
  <1>3. field(k, "From", 0) # Nil
    BY <1>1, NilField, Zenon
  <1> QED
    BY <1>1, <1>2, <1>3, Zenon

\* A list that is not empty.
LEMMA SomeFirst == \A l \in Seq(Address) : l # <<>> => 1 \in DOMAIN l
  OBVIOUS

\* Writing an address that stands in for From, and reading it again.
LEMMA AddedPanic ==
  ASSUME NameInv, pc # "read", role = "message", ValidOnes(input, "From") = {},
         NEW x, InField(h, StandInNames, x), AddFromPanics(x)
  PROVE  MayPanic
  <1>1. StandInNames \subseteq KeptNames
    BY Zenon DEF KeptNames
  <1>2. InField(input, StandInNames, x)
    BY <1>1, KeptFound, Zenon
  <1>3. CASE Unwritable(x)
    BY <1>1, <1>3, UnwritableKept, Zenon
  <1>4. CASE Reread(x).panics
    BY <1>2, <1>4, UnwritableAgain, Zenon
  <1> QED
    BY <1>3, <1>4, Zenon DEF AddFromPanics

\* What is behind a panic in RepairWithBody.
LEMMA BodyPanic ==
  ASSUME Base, NameInv, FromInv, TypeInv, CountInv, OddInv, ApplyWithBody, pc' = "panic"
  PROVE  MayPanic
  <1>0. /\ Shaped(h) /\ HeaderOK(h) /\ Shaped(input) /\ HeaderOK(input)
        /\ role \in {"message", "part"} /\ input.mode = h.mode
    BY Zenon DEF Base, Shaped
  <1>1. pc \in BodyRules /\ pc # "read"
    BY BodyStep, Zenon DEF ApplyWithBody, BodyRules
  <1>M. h.mode = "RFC5322" => role = "message" /\ theBody = body
    BY Zenon DEF Base, theBody
  <1>2. \/ pc = "identical" /\ RemoveIdenticalPanics(h, occ)
        \/ pc = "date" /\ DatePanics(h, parents)
        \/ pc = "nofrom" /\ AddMissingFromPanics(h, occ, theBody)
        \/ pc = "receipt" /\ UseReceiptPanics(h, theBody)
        \/ pc = "salvage" /\ SalvagePanics(h, occ)
        \/ pc = "unknown" /\ UseInvalidPanics(h, input, theBody)
        \/ pc = "boundary" /\ GuessBoundaryPanics(h, occ, theBody)
        \/ pc = "plain" /\ DropPlainPanics(h, occ)
        \/ pc = "grade" /\ GradeTypesPanics(h, occ, theBody)
        \/ pc = "report" /\ ReportPanics(h, theBody)
        \/ pc = "postmaster" /\ PostmasterPanics(h, occ)
    <2>1. Risky("identical", RemoveIdenticalPanics(h, occ),
                RemoveIdentical(h, occ), "date") => pc = "identical" /\ RemoveIdenticalPanics(h, occ)
      BY Zenon DEF Risky, Rule
    <2>2. Risky("date", DatePanics(h, parents),
                FixDate(h, occ, parents), "nofrom") => pc = "date" /\ DatePanics(h, parents)
      BY Zenon DEF Risky, Rule
    <2>3. Risky("nofrom", AddMissingFromPanics(h, occ, theBody),
                AddMissingFrom(h, occ), "receipt") => pc = "nofrom" /\ AddMissingFromPanics(h, occ, theBody)
      BY Zenon DEF Risky, Rule
    <2>4. Risky("receipt", UseReceiptPanics(h, theBody),
                UseReceiptAddress(h), "received") => pc = "receipt" /\ UseReceiptPanics(h, theBody)
      BY Zenon DEF Risky, Rule
    <2>5. Risky("boundary", GuessBoundaryPanics(h, occ, theBody),
                GuessBoundary(h, occ, theBody), "salvage") => pc = "boundary" /\ GuessBoundaryPanics(h, occ, theBody)
      BY Zenon DEF Risky, Rule
    <2>6. Risky("salvage", SalvagePanics(h, occ),
                SalvageFrom(h, occ), "fromsender") => pc = "salvage" /\ SalvagePanics(h, occ)
      BY Zenon DEF Risky, Rule
    <2>7. Risky("plain", DropPlainPanics(h, occ),
                DropPlain(h, occ), "grade") => pc = "plain" /\ DropPlainPanics(h, occ)
      BY Zenon DEF Risky, Rule
    <2>8. Risky("grade", GradeTypesPanics(h, occ, theBody),
                GradeTypes(h, occ, theBody), "html") => pc = "grade" /\ GradeTypesPanics(h, occ, theBody)
      BY Zenon DEF Risky, Rule
    <2>9. Risky("report", ReportPanics(h, theBody),
                ReportFrom(h, theBody), "postmaster") => pc = "report" /\ ReportPanics(h, theBody)
      BY Zenon DEF Risky, Rule
    <2>10. Risky("postmaster", PostmasterPanics(h, occ),
                Postmaster(h, occ), "unknown") => pc = "postmaster" /\ PostmasterPanics(h, occ)
      BY Zenon DEF Risky, Rule
    <2>11. Risky("unknown", UseInvalidPanics(h, input, theBody),
                UseInvalid(h), "replyto") => pc = "unknown" /\ UseInvalidPanics(h, input, theBody)
      BY Zenon DEF Risky, Rule
    <2>12. \A at, k, next : Rule(at, k, next) => pc' = next
      BY Zenon DEF Rule
    <2>13. AfterWithBody # "panic"
      BY Zenon DEF AfterWithBody
    <2>14. ~Enter("withbody", "identical", AfterWithBody)
      BY Zenon DEF ApplyWithBody, Enter
    <2> QED
      BY <2>1, <2>2, <2>3, <2>4, <2>5, <2>6, <2>7, <2>8, <2>9, <2>10, <2>11, <2>12, <2>13, <2>14, Zenon DEF ApplyWithBody, RepairWithBody
  <1>3. ASSUME occ[TypeName] > 1
        PROVE  Occurrences(input, TypeName) \in Nat /\ Occurrences(input, TypeName) > 1
    <2>1. ~Single(input, TypeName)
      <3>1. occ[TypeName] \in Nat
        <4>1. occ \in [CountedNames -> Nat] /\ TypeName \in CountedNames
          BY Counted, Zenon DEF Base, TypeName
        <4> QED
          BY <4>1, Zenon
      <3>2. ~(occ[TypeName] <= 1)
        BY <1>3, <3>1
      <3> QED
        BY <1>1, <3>2, Zenon DEF CountInv
    <2> QED
      BY <1>0, <2>1, SingleCount
  <1>4. CASE pc = "date" /\ DatePanics(h, parents)
    <2>1. h.mode = "RFC5322" /\ role = "message"
      BY <1>0, <1>4, Zenon DEF DatePanics, Base
    <2>2. SameFields(input, h, "Received")
      BY <1>4, <2>1, Zenon DEF OddInv
    <2>3. Named(h, "Received") = Named(input, "Received")
          /\ \A p \in Named(h, "Received") : h.Fields[p] = input.Fields[p]
      BY <2>2, Zenon DEF SameFields
    <2>4. ReceivedDates(h) = ReceivedDates(input)
      BY <2>3, Zenon DEF ReceivedDates
    <2>5. DatePanics(input, parents)
      BY <1>0, <1>4, <2>3, <2>4, Zenon DEF DatePanics
    <2> QED
      BY <2>5, Zenon DEF MayPanic
  <1>5. CASE pc = "boundary" /\ GuessBoundaryPanics(h, occ, theBody)
    <2>1. theBody.kind # "empty"
      BY <1>5, Zenon DEF GuessBoundaryPanics, NeedsBoundary
    <2>2. role = "message" /\ theBody = body
      BY <1>0, <2>1, PartBody, Zenon DEF theBody
    <2>3. body.cut /\ IsType(h, "multipart") /\ First(h, TypeName).err # ""
      BY <1>5, <2>2, Zenon DEF GuessBoundaryPanics, NeedsBoundary, TypeName
    <2>4. field(h, TypeName, 0) \in Named(h, TypeName)
      BY <1>0, <2>3, NilField, FieldFound, Zenon DEF IsType, ContentType, TypeName
    <2>5. TypesFrom(input, h)
      BY <1>5, <2>2, Zenon DEF TypeInv, ToBoundary
    <2>6. InvalidOnes(input, TypeName) # {}
      BY <2>3, <2>4, <2>5, Zenon DEF TypesFrom, First, InvalidOnes, ValidOnes
    <2> QED
      BY <2>3, <2>6, Zenon DEF MayPanic, TypeName
  <1>6. CASE pc = "plain" /\ DropPlainPanics(h, occ)
    <2>1. occ[TypeName] = 2 /\ Occurrences(h, TypeName) < 2
      BY <1>6, Zenon DEF DropPlainPanics, TypeName
    <2>2. Occurrences(input, TypeName) \in Nat /\ Occurrences(input, TypeName) > 1
      BY <1>3, <2>1
    <2>3. role = "part" \/ Occurrences(input, TypeName) > 2
      <3> SUFFICES ASSUME role = "message", Occurrences(input, TypeName) = 2 PROVE FALSE
        BY <1>0, <2>2
      <3>1. Named(h, TypeName) = Named(input, TypeName)
        BY <1>6, <2>1, Zenon DEF OddInv, ToPlain
      <3>2. Occurrences(h, TypeName) = Occurrences(input, TypeName)
        BY <3>1, Zenon DEF Occurrences
      <3> QED
        BY <2>1, <3>2
    <2> QED
      BY <2>2, <2>3, Zenon DEF MayPanic, TypeName
  <1>7. CASE pc = "grade" /\ GradeTypesPanics(h, occ, theBody)
    <2>1. occ[TypeName] > 1 /\ \E p \in ValidOnes(h, TypeName) :
             theBody.kind = "blank" \/ Spaced(h.Fields[p])
      BY <1>7, Zenon DEF GradeTypesPanics, Spaced, TypeName
    <2>2. Occurrences(input, TypeName) > 1
      BY <1>3, <2>1, Zenon
    <2>3. CASE role = "part"
      BY <2>2, <2>3, Zenon DEF MayPanic, TypeName
    <2>4. CASE role = "message"
      <3>1. theBody = body /\ SpaceRead(h, input, body)
        BY <1>7, <2>4, Zenon DEF theBody, OddInv
      <3>2. CASE body.kind = "blank"
        BY <2>2, <3>2, Zenon DEF MayPanic, TypeName
      <3>3. CASE body.kind # "blank"
        <4>1. \E p \in Named(h, TypeName) : Spaced(h.Fields[p])
          BY <2>1, <3>1, <3>3, Zenon DEF ValidOnes
        <4>2. \/ body.lines # <<>> /\ body.lines[1] = " "
              \/ \E q \in Named(input, TypeName) : Spaced(input.Fields[q])
          BY <3>1, <4>1, Zenon DEF SpaceRead
        <4> QED
          BY <2>2, <4>2, Zenon DEF MayPanic, Spaced, TypeName
      <3> QED
        BY <3>2, <3>3, Zenon
    <2> QED
      BY <1>0, <2>3, <2>4, Zenon
  <1>8. CASE pc = "report" /\ ReportPanics(h, theBody)
    <2>1. /\ h.mode = "RFC5322"
          /\ field(h, "From", 0) = Nil \/ First(h, "From").err = "No-bounce"
          /\ theBody.trap = "nested" \/ "report" \in theBody.odd
      BY <1>8, Zenon DEF ReportPanics, ReportWithoutFrom
    <2>2. role = "message" /\ theBody = body
      BY <1>M, <2>1, Zenon
    <2>3. "No-bounce" # ""
      OBVIOUS
    <2>4. ValidOnes(input, "From") = {}
      BY <1>0, <1>1, <2>1, <2>3, BadFromOnly, NoneValid, Zenon
    <2> QED
      BY <2>1, <2>2, <2>4, Zenon DEF MayPanic
  <1>9. CASE pc = "postmaster" /\ PostmasterPanics(h, occ)
    <2>0. occ["From"] = 1 /\ occ["From"] > 0 /\ occ["From"] # 0 /\ occ["Message-ID"] > 0
      <3>1. occ["From"] = 1 /\ occ["Message-ID"] = 1
        BY <1>9, Zenon DEF PostmasterPanics, BounceFrom
      <3> QED
        BY <3>1
    <2>1. /\ First(h, "From").err # ""
          /\ Len(First(h, "From").val) = 1 /\ TypeOf(First(h, "From").val[1]) = "Bounce"
      BY <1>9, Zenon DEF PostmasterPanics, BounceFrom, BadFrom
    <2>2. Named(input, "Message-ID") # {} /\ Named(input, "From") # {}
      BY <1>1, <2>0, Zenon DEF CountInv, NameInv
    <2>3. PICK p : p \in Named(h, "From")
      BY <1>1, <2>0, Zenon DEF Base, Held
    <2>4. First(h, "From") = h.Fields[p] /\ p \in InvalidOnes(h, "From")
      BY <1>0, <2>1, <2>3, OneFrom, Zenon DEF InvalidOnes, ValidOnes
    <2>5. h.Fields[p].val \in Seq(Address)
      BY <1>0, <2>3, SourceAddresses, Zenon DEF FromSources
    <2>6. 1 \in DOMAIN h.Fields[p].val
      BY <2>1, <2>4, <2>5, OneAndNone, Zenon
    <2>7. TypeOf(h.Fields[p].val[1]) = "Bounce"
      BY <2>1, <2>4, Zenon
    <2>8. CASE SameFields(input, h, "From")
      <3>1. p \in Named(input, "From") /\ input.Fields[p] = h.Fields[p] /\ p \in InvalidOnes(input, "From")
        BY <2>3, <2>4, <2>8, Zenon DEF SameFields, InvalidOnes, ValidOnes
      <3>2. InField(input, {"From"}, h.Fields[p].val[1])
        BY <2>6, <3>1, Zenon DEF InField, Named
      <3>3. h.Fields[p].val[1] \in AddressesIn(input, {"From"})
        BY <3>2, AddressesFound, Zenon
      <3> QED
        BY <2>2, <2>7, <3>1, <3>3, Zenon DEF MayPanic
    <2>9. CASE ~SameFields(input, h, "From")
      <3>1. PICK x \in Address : /\ InField(input, ReceiptNames, x)
                                 /\ h.Fields[p].val = Reread(x).addrs
        BY <1>1, <2>2, <2>4, <2>9, GuessedBad, Zenon
      <3>2. x \in AddressesIn(input, ReceiptNames)
        BY <3>1, AddressesFound, Zenon
      <3>3. HasType(Reread(x).addrs, "Bounce")
        BY <2>6, <2>7, <3>1, Zenon DEF HasType
      <3>4. InvalidOnes(input, "From") # {}
        <4>1. ValidOnes(input, "From") = {}
          BY <1>1, <2>4, <2>9, GuessedBad, Zenon
        <4> QED
          BY <2>2, <4>1, Zenon DEF InvalidOnes
      <3> QED
        BY <2>2, <3>2, <3>3, <3>4, Zenon DEF MayPanic
    <2> QED
      BY <2>8, <2>9, Zenon
  <1>10. CASE pc = "identical" /\ RemoveIdenticalPanics(h, occ)
    <2>1. \A fn \in MergedNames : occ[fn] <= 1
      BY <1>1, Zenon DEF CountInv
    <2> QED
      BY <1>1, <1>10, <2>1, IdenticalRead, Zenon
  <1>11. CASE pc = "nofrom" /\ AddMissingFromPanics(h, occ, theBody)
    <2>1. h.mode = "RFC5322" /\ occ["From"] = 0
      BY <1>11, Zenon DEF AddMissingFromPanics
    <2>2. role = "message" /\ theBody = body
      BY <1>M, <2>1, Zenon
    <2>3. ValidOnes(input, "From") = {}
      <3>1. ValidOnes(h, "From") = {}
        BY <1>11, <2>1, Zenon DEF Base, ValidOnes
      <3> QED
        BY <1>1, <3>1, NoneValid, Zenon
    <2>4. CASE Named(h, "X-From-Line") # {} /\ WordPanics(AddressesOf(h, "X-From-Line"), theBody)
      <3>1. "X-From-Line" \in StandInNames
        BY Zenon DEF StandInNames
      <3>2. Named(input, "X-From-Line") # {}
        BY <1>1, <2>4, <3>1, Zenon DEF NameInv, KeptNames, KeepsName
      <3>3. \A i \in DOMAIN AddressesOf(h, "X-From-Line") :
               InField(h, {"X-From-Line"}, AddressesOf(h, "X-From-Line")[i])
        BY <1>0, <3>1, SourceAddresses, Zenon DEF FromSources
      <3>4. {"X-From-Line"} \subseteq KeptNames
        BY <3>1, Zenon DEF KeptNames
      <3>5. CASE \E i \in DOMAIN AddressesOf(h, "X-From-Line") : Unwritable(AddressesOf(h, "X-From-Line")[i])
        BY <1>1, <3>3, <3>4, <3>5, UnwritableKept, Zenon
      <3>6. CASE "word" \in theBody.odd
        BY <2>2, <2>3, <3>2, <3>6, Zenon DEF MayPanic
      <3> QED
        BY <2>4, <3>5, <3>6, Zenon DEF WordPanics
    <2>5. CASE StandIn(h) # <<>> /\ AddFromPanics(StandIn(h)[1])
      <3>1. StandIn(h) \in Seq(Address) /\ \A i \in DOMAIN StandIn(h) : InField(h, StandInNames, StandIn(h)[i])
        BY <1>0, StandInAddresses, Zenon
      <3> HIDE DEF StandIn
      <3>2. 1 \in DOMAIN StandIn(h)
        BY <2>5, <3>1, SomeFirst, Zenon
      <3>3. InField(h, StandInNames, StandIn(h)[1])
        BY <3>1, <3>2, Zenon
      <3> QED
        BY <1>1, <2>2, <2>3, <2>5, <3>3, AddedPanic, Zenon
    <2> QED
      BY <1>11, <2>4, <2>5, Zenon DEF AddMissingFromPanics
  <1>12. CASE pc = "receipt" /\ UseReceiptPanics(h, theBody)
    <2>1. /\ h.mode = "RFC5322"
          /\ field(h, "From", 0) = Nil \/ First(h, "From").err # ""
      BY <1>12, Zenon DEF UseReceiptPanics, NoFrom
    <2>2. role = "message" /\ theBody = body
      BY <1>M, <2>1, Zenon
    <2>3. ValidOnes(input, "From") = {}
      BY <1>0, <1>1, <2>1, BadFromOnly, NoneValid, Zenon
    <2>4. ReceiptNames \subseteq StandInNames /\ ReceiptNames \subseteq KeptNames
      BY Zenon DEF StandInNames, KeptNames
    <2>5. ASSUME NEW p \in ReceiptQueries(h), WordPanics(h.Fields[p].val, theBody)
          PROVE  MayPanic
      <3>1. /\ p \in Named(h, h.Fields[p].name) /\ h.Fields[p].name \in ReceiptNames
        BY <2>5, Zenon DEF ReceiptQueries, Named
      <3>2. Named(input, h.Fields[p].name) # {}
        BY <1>1, <2>4, <3>1, Zenon DEF NameInv, KeepsName
      <3>3. \A i \in DOMAIN h.Fields[p].val : InField(h, ReceiptNames, h.Fields[p].val[i])
        BY <1>0, <2>5, ReceiptProperties, Zenon
      <3>4. CASE \E i \in DOMAIN h.Fields[p].val : Unwritable(h.Fields[p].val[i])
        BY <1>1, <2>4, <3>3, <3>4, UnwritableKept, Zenon
      <3>5. CASE "word" \in theBody.odd
        BY <2>2, <2>3, <3>1, <3>2, <3>5, Zenon DEF MayPanic
      <3> QED
        BY <2>5, <3>4, <3>5, Zenon DEF WordPanics
    <2>6. CASE ReceiptFields(h) # {} /\ AddFromPanics(ReceiptAddress(h))
      <3>1. InField(h, ReceiptNames, ReceiptAddress(h))
        BY <1>0, <2>6, ReceiptProperties, Zenon
      <3>2. InField(h, StandInNames, ReceiptAddress(h))
        BY <2>4, <3>1, Zenon DEF InField
      <3> QED
        BY <1>1, <2>2, <2>3, <2>6, <3>2, AddedPanic, Zenon
    <2> QED
      BY <1>12, <2>5, <2>6, Zenon DEF UseReceiptPanics
  <1>13. CASE pc = "salvage" /\ SalvagePanics(h, occ)
    <2>1. /\ occ["From"] = 1 /\ First(h, "From").err # ""
          /\ \E i \in DOMAIN First(h, "From").val : Unwritable(First(h, "From").val[i])
      BY <1>13, Zenon DEF SalvagePanics, BadFrom
    <2>2. occ["From"] > 0
      <3>1. occ["From"] = 1
        BY <2>1, Zenon
      <3> QED
        BY <3>1
    <2>3. PICK p : p \in Named(h, "From")
      BY <1>1, <2>2, Zenon DEF Base, Held
    <2>4. First(h, "From") = h.Fields[p] /\ p \in InvalidOnes(h, "From")
      BY <1>0, <2>1, <2>3, OneFrom, Zenon DEF InvalidOnes, ValidOnes
    <2>5. PICK i \in DOMAIN h.Fields[p].val : Unwritable(h.Fields[p].val[i])
      BY <2>1, <2>4, Zenon
    <2>6. CASE SameFields(input, h, "From")
      <3>1. p \in Named(input, "From") /\ input.Fields[p] = h.Fields[p]
        BY <2>3, <2>6, Zenon DEF SameFields
      <3>2. InField(input, {"From"}, h.Fields[p].val[i])
        BY <2>5, <3>1, Zenon DEF InField, Named
      <3> QED
        BY <2>5, <3>2, UnwritableRead, Zenon
    <2>7. CASE ~SameFields(input, h, "From")
      <3>1. /\ role = "message" /\ ValidOnes(input, "From") = {}
            /\ \E x \in Address : InField(input, StandInNames, x) /\ h.Fields[p].val = Reread(x).addrs
        BY <1>1, <2>4, <2>7, GuessedBad, Zenon
      <3>2. PICK x \in Address : InField(input, StandInNames, x) /\ h.Fields[p].val = Reread(x).addrs
        BY <3>1, Zenon
      <3>3. \E j \in DOMAIN Reread(x).addrs : Unwritable(Reread(x).addrs[j])
        BY <2>5, <3>2, Zenon
      <3> QED
        BY <3>1, <3>2, <3>3, UnwritableAgain, Zenon
    <2> QED
      BY <2>6, <2>7, Zenon
  <1>14. CASE pc = "unknown" /\ UseInvalidPanics(h, input, theBody)
    <2>1. /\ h.mode = "RFC5322" /\ field(h, "From", 0) # Nil /\ "from" \in theBody.odd
          /\ First(h, "From").err # "" \/ First(h, "From").err = "No-bounce"
          /\ field(h, "From", 0) = field(input, "From", 0)
      BY <1>14, Zenon DEF UseInvalidPanics, Hopeless, BadFrom
    <2>2. role = "message" /\ theBody = body
      BY <1>M, <2>1, Zenon
    <2>3. "No-bounce" # ""
      OBVIOUS
    <2>4. ValidOnes(input, "From") = {}
      BY <1>0, <1>1, <2>1, <2>3, BadFromOnly, NoneValid, Zenon
    <2>5. Named(input, "From") # {}
      BY <1>0, <2>1, NilField, Zenon
    <2> QED
      BY <2>1, <2>2, <2>4, <2>5, Zenon DEF MayPanic
  <1> QED
    BY <1>2, <1>4, <1>5, <1>6, <1>7, <1>8, <1>9, <1>10, <1>11, <1>12, <1>13, <1>14, Zenon

\* What is behind a panic in Repair, which dereferences the Content-Type and
\* writes addresses.
LEMMA RepairPanic ==
  ASSUME Base, RepairInv, NameInv, ApplyRepair, pc' = "panic"
  PROVE  MayPanic
  <1>0. Shaped(h) /\ HeaderOK(h) /\ Shaped(input) /\ HeaderOK(input)
    BY Zenon DEF Base, Shaped
  <1>1. /\ pc \in RepairRules /\ pc # "read"
        /\ \/ pc = "r.identical" /\ RemoveIdenticalPanics(h, occ)
           \/ pc = "r.encoding" /\ MultipartEncodingPanics(h, occ)
           \/ pc = "r.sender" /\ DropSenderPanics(h, occ)
    <2>1. AfterRule(pc) # "panic" \/ pc \notin RepairRules
      BY Zenon DEF AfterRule, AfterRepair, RepairRules
    <2> QED
      BY <2>1, RepairStep, Zenon DEF RepairRules
  <1>2. CASE pc = "r.identical" /\ RemoveIdenticalPanics(h, occ)
    <2>1. occ = Count(input)
      BY <1>1, Zenon DEF RepairInv
    <2>2. \A fn \in MergedNames : occ[fn] <= 1
      BY <1>0, <2>1, MergedCount, Zenon
    <2> QED
      BY <1>1, <1>2, <2>2, IdenticalRead, Zenon
  <1>3. CASE pc = "r.encoding" /\ MultipartEncodingPanics(h, occ)
    <2>2. occ[EncodingName] > 0 /\ field(h, TypeName, 0) = Nil
      BY <1>3, Zenon DEF MultipartEncodingPanics, ContentType, EncodingName, TypeName
    <2>3. Named(h, TypeName) = {}
      BY <1>0, <2>2, NilField, Zenon
    <2>4. Named(input, TypeName) = {}
      BY <1>1, <2>3, Zenon DEF RepairInv, TypeName
    <2>5. Named(input, EncodingName) # {}
      <3>1. occ = Count(input) /\ EncodingName \in CountedNames
        BY <1>1, Counted, Zenon DEF RepairInv, EncodingName
      <3>2. occ[EncodingName] = Occurrences(input, EncodingName)
        BY <1>0, <3>1, CountType, Zenon
      <3>3. Named(input, EncodingName) = {} => occ[EncodingName] = 0
        BY <1>0, <3>2, SingleCount, Zenon
      <3> QED
        BY <2>2, <3>3
    <2> QED
      BY <2>4, <2>5, Zenon DEF MayPanic, EncodingName, TypeName
  <1>4. CASE pc = "r.sender" /\ DropSenderPanics(h, occ)
    <2>1. PICK i \in DOMAIN AddressesOf(h, "From") : Unwritable(AddressesOf(h, "From")[i])
      BY <1>4, Zenon DEF DropSenderPanics
    <2>2. InField(h, {"From"}, AddressesOf(h, "From")[i])
      BY <1>0, <2>1, SourceAddresses, Zenon DEF FromSources
    <2>3. \A fn \in {"From"} : KeepsName(input, h, fn)
      BY <1>1, Zenon DEF NameInv, Early
    <2>4. InField(input, {"From"}, AddressesOf(h, "From")[i])
      BY <2>2, <2>3, KeepsNameFound, Zenon
    <2> QED
      BY <2>1, <2>4, UnwritableRead, Zenon
  <1> QED
    BY <1>1, <1>2, <1>3, <1>4, Zenon

\* MayPanic is about the input and the body, which stay.
LEMMA PanicStep ==
  ASSUME Base, RepairInv, NameInv, FromInv, TypeInv, CountInv, OddInv, PanicExplained, [Next]_vars
  PROVE  PanicExplained'
  <1> SUFFICES ASSUME pc' = "panic" PROVE MayPanic'
    BY Zenon DEF PanicExplained
  <1>1. UNCHANGED context /\ MayPanic
    <2>1. CASE ReadField \/ EndOfHeader \/ StartRepair \/ StartWithBody
      BY <2>1, Zenon DEF ReadField, EndOfHeader, StartRepair, StartWithBody, Enter, AfterRepair, AfterWithBody
    <2>2. CASE ApplyRepair
      BY <2>2, RepairPanic, RepairStep, Zenon
    <2>3. CASE ApplyWithBody
      BY <2>3, BodyPanic, BodyStep, Zenon DEF ApplyWithBody
    <2>4. CASE ParseChildren
      BY <2>4, Zenon DEF ParseChildren, Risky, Rule, MayPanic, context
    <2>5. CASE ParsePart \/ CallSimplify
      <3>1. /\ UNCHANGED context /\ pc # "read"
            /\ PartPanics(h, body) \/ \E m : Improves(h, m) /\ SimplifyPanics(m)
        BY <2>5, LaterStep, Zenon
      <3>2. CASE PartPanics(h, body)
        BY <3>1, <3>2, Zenon DEF PartPanics, MayPanic
      <3>3. CASE \E m : Improves(h, m) /\ SimplifyPanics(m)
        <4> DEFINE W == {"Return-Path", "Message-ID"}
        <4>1. Shaped(h) /\ W \subseteq KeptNames
          BY Zenon DEF Base, KeptNames, StandInNames
        <4>2. \E x : InField(h, W, x) /\ Unwritable(x)
          BY <3>3, <4>1, SimplifyPanic, Zenon
        <4> HIDE DEF W
        <4> QED
          BY <3>1, <4>1, <4>2, UnwritableKept, Zenon
      <3> QED
        BY <3>1, <3>2, <3>3, Zenon
    <2>6. CASE UNCHANGED vars
      BY <2>6, Zenon DEF vars, PanicExplained, context
    <2> QED
      BY <2>1, <2>2, <2>3, <2>4, <2>5, <2>6, Cases, Zenon
  <1>2. input' = input /\ body' = body /\ role' = role /\ parents' = parents
    BY <1>1, Zenon DEF context
  <1> QED
    BY <1>1, <1>2, Zenon DEF MayPanic

\* The repairs, several of which work from counts that are out of date, panic
\* only on headers that are odd to begin with: those with an empty body, a
\* Content-Transfer-Encoding and no Content-Type, several Content-Types, an
\* address whose localpart ends in a dot, no valid From and a text that
\* simplify cannot handle, and so on.
THEOREM PanicsExplained == Spec => []PanicExplained
  <1>1. Init => PanicExplained /\ NameInv /\ FromInv /\ SourceInv /\ TypeInv /\ CountInv /\ OddInv
    BY Zenon DEF Init, PanicExplained, NameInv, Early, FromInv, SourceInv, TypeInv, CountInv, OddInv,
           BodyRules, RepairRules, ToBoundary, ToPlain
  <1>2. /\ Base /\ Verdict /\ RepairInv /\ NameInv /\ FromInv /\ SourceInv /\ TypeInv /\ CountInv
        /\ OddInv /\ PanicExplained /\ [Next]_vars
        => /\ NameInv' /\ FromInv' /\ SourceInv' /\ TypeInv' /\ CountInv' /\ OddInv'
           /\ PanicExplained'
    BY NameInvStep, FromInvStep, SourceInvStep, TypeStep, CountStep, OddStep, PanicStep, Zenon
  <1> QED
    BY <1>1, <1>2, VerdictInvariant, RepairInvariant, PTL DEF Spec

=============================================================================
