-------------------------- MODULE BodyRepairProofs --------------------------
(***************************************************************************)
(* What RepairWithBody leaves, for every input: no invalid field of the    *)
(* names it cleans and one transfer encoding at most, a From and a Date, a *)
(* good From as it was, and no address in From that the input does not     *)
(* justify.                                                                *)
(***************************************************************************)
EXTENDS MessageHeaderProofs

-----------------------------------------------------------------------------
(***************************************************************************)
(* The fields that RepairWithBody cleans up                                *)
(***************************************************************************)
EncodingName == "Content-Transfer-Encoding"

\* How far RepairWithBody has come with them.
CleanInv ==
    /\ pc \in BodyRules \ {"identical", "date", "nofrom", "receipt", "received", "invalid"} =>
          \A fn \in DroppableNames : InvalidOnes(h, fn) = {}
    /\ pc \in BodyRules \ {"swap", "urls"} /\ occ[EncodingName] = 0 => Named(h, EncodingName) = {}
    /\ pc \in {"swap", "urls"} => OneValid(h, EncodingName)
    /\ BodyRepaired => /\ OneValid(h, EncodingName)
                       /\ \A fn \in DroppableNames \cup {"Content-Base"} : InvalidOnes(h, fn) = {}

\* Invalid fields do not come from Simplify.
LEMMA CondensesClean ==
  ASSUME NEW k, NEW l, Condenses(k, l), NEW fn, fn \notin PartNames \cup Rewritten,
         InvalidOnes(k, fn) = {}
  PROVE  InvalidOnes(l, fn) = {}
  <1> SUFFICES ASSUME NEW p \in Named(l, fn), l.Fields[p].err # "" PROVE FALSE
    BY Zenon DEF InvalidOnes, ValidOnes
  <1>1. p \in Named(k, fn) /\ l.Fields[p].err = k.Fields[p].err
    BY Zenon DEF Condenses, Named
  <1> QED
    BY <1>1, Zenon DEF InvalidOnes, ValidOnes

\* Every step preserves CleanInv.
LEMMA CleanStep == Base /\ Verdict /\ CleanInv /\ [Next]_vars => CleanInv'
  <1> SUFFICES ASSUME Base, Verdict, CleanInv, [Next]_vars PROVE CleanInv'
    BY Zenon
  <1>0. Shaped(h) /\ HeaderOK(h) /\ role \in {"message", "part"}
    BY Zenon DEF Base, Shaped
  <1>1. ASSUME pc' \notin BodyRules, ~BodyRepaired' PROVE CleanInv'
    BY <1>1, Zenon DEF CleanInv, BodyRules
  <1>2. CASE ReadField \/ EndOfHeader \/ StartRepair \/ ApplyRepair
    <2>1. /\ pc' \in {"read", "repair", "panic", AfterRepair} \cup RepairRules
          /\ role' = role
      <3>1. CASE ReadField \/ EndOfHeader
        BY <3>1, Zenon DEF ReadField, EndOfHeader
      <3>2. CASE StartRepair
        BY <3>2, Zenon DEF StartRepair, Enter, context, RepairRules
      <3>3. CASE ApplyRepair
        BY <3>3, RepairStep, Zenon DEF AfterRule, RepairRules, context
      <3> QED
        BY <1>2, <3>1, <3>2, <3>3, Zenon
    <2>2. pc' \notin BodyRules
      BY <2>1, Zenon DEF BodyRules, RepairRules, AfterRepair
    <2>3. ~BodyRepaired'
      BY <1>0, <2>1, Zenon DEF BodyRepaired, RepairRules, AfterRepair
    <2> QED
      BY <1>1, <2>2, <2>3, Zenon
  <1>3. CASE StartWithBody
    <2>1. /\ pc = "withbody" /\ h' = verify(h) /\ occ' = Count(h)
          /\ pc' = IF Valid(h) THEN AfterWithBody ELSE "identical"
      BY <1>3, Zenon DEF StartWithBody, Enter
    <2>2. h'.Fields = h.Fields
      BY <1>0, <2>1, VerifyProperties, Zenon
    <2>3. CASE Valid(h)
      <3>1. Trusted(h)
        BY <2>1, Zenon DEF Verdict
      <3>2. Acceptable(h)
        BY <1>0, <2>3, <3>1, VerifyVerdict, Zenon
      <3>3. AllFieldsValid(h) /\ NoneRepeated(h)
        BY <1>0, <3>2, AcceptableMeans, Zenon
      <3>4. \A fn : InvalidOnes(h', fn) = {}
        BY <2>2, <3>3, Zenon DEF AllFieldsValid, InvalidOnes, ValidOnes, Named
      <3>5. Occurrences(h, EncodingName) <= 1
        <4>1. PICK c \in conditions : c.name = EncodingName
          BY Counted, Zenon DEF ConditionNames, EncodingName
        <4>2. c.max = 1
          BY DEF conditions
        <4> QED
          BY <3>3, <4>1, <4>2, Zenon DEF NoneRepeated
      <3>6. Single(h, EncodingName)
        BY <1>0, <3>5, SingleCount, Zenon
      <3>7. OneValid(h', EncodingName)
        BY <2>2, <3>3, <3>6, Zenon DEF OneValid, Single, Named, AllFieldsValid
      <3>8. pc' \notin BodyRules
        BY <2>1, <2>3, Zenon DEF AfterWithBody, BodyRules
      <3> QED
        BY <3>4, <3>7, <3>8, Zenon DEF CleanInv, BodyRules
    <2>4. CASE ~Valid(h)
      <3>1. pc' = "identical"
        BY <2>1, <2>4, Zenon
      <3>2. EncodingName \in CountedNames
        BY Counted, Zenon DEF EncodingName
      <3>3. occ'[EncodingName] = Occurrences(h, EncodingName)
        BY <1>0, <2>1, <3>2, CountType, Zenon
      <3>4. occ'[EncodingName] = 0 => Named(h, EncodingName) = {}
        BY <1>0, <3>3, SingleCount, Zenon
      <3>5. Named(h', EncodingName) = Named(h, EncodingName)
        BY <2>2, Zenon DEF Named
      <3>6. ~BodyRepaired'
        BY <3>1, Zenon DEF BodyRepaired
      <3> QED
        BY <3>1, <3>4, <3>5, <3>6, Zenon DEF CleanInv
    <2> QED
      BY <2>3, <2>4, Zenon
  <1>4. CASE ApplyWithBody
    <2>1. /\ pc \in BodyRules /\ UNCHANGED <<context, occ>>
          /\ \/ pc' = "panic" /\ h' = h
             \/ pc' = After(pc) /\ Changes(h, h', Touched(pc))
      BY <1>4, BodyStep, Zenon DEF ApplyWithBody
    <2>2. CASE pc' = "panic"
      BY <1>1, <2>2, Zenon DEF BodyRules, BodyRepaired
    <2>3. CASE pc' # "panic"
      <3>0. pc' = After(pc) /\ Changes(h, h', Touched(pc)) /\ occ' = occ
        BY <2>1, <2>3, Zenon
      <3>1. CASE pc = "identical"
        <4>1. h' = RemoveIdentical(h, occ) /\ pc' = "date"
          BY <1>4, <2>3, <3>1, Zenon DEF ApplyWithBody, RepairWithBody, Rule, Risky, Enter
        <4>2. Removes(h, h', ConditionNames)
          BY <1>0, <4>1, RemoveIdenticalProperties, Zenon
        <4>3. Named(h', EncodingName) \subseteq Named(h, EncodingName)
          BY <4>2, RemovesNamed, Zenon
        <4>4. ~BodyRepaired'
          BY <4>1, Zenon DEF BodyRepaired
        <4>5. occ[EncodingName] = 0 => Named(h, EncodingName) = {}
          BY <3>1, Zenon DEF CleanInv, BodyRules
        <4> QED
          BY <3>0, <4>1, <4>3, <4>4, <4>5, Zenon DEF CleanInv
      <3>2. CASE pc \in BodyRules \ {"identical", "encoding", "swap", "urls"}
        <4>1. pc' \in BodyRules \ {"identical", "swap", "urls"}
          BY <3>0, <3>2, Zenon DEF BodyRules, After
        <4>2. EncodingName \notin Touched(pc)
          BY <3>2, Zenon DEF BodyRules, Touched, DroppableNames, EncodingName
        <4>3. Named(h', EncodingName) = Named(h, EncodingName)
          BY <1>0, <3>0, <4>2, Untouched, Zenon
        <4>4. occ[EncodingName] = 0 => Named(h, EncodingName) = {}
          BY <3>2, Zenon DEF CleanInv
        <4>5. ASSUME pc' \notin {"identical", "date", "nofrom", "receipt", "received", "invalid"},
                     NEW fn \in DroppableNames
              PROVE  InvalidOnes(h', fn) = {}
          <5>1. CASE pc = "invalid"
            <6>1. h' = DropInvalid(h, occ)
              BY <1>4, <5>1, Zenon DEF ApplyWithBody, RepairWithBody, Rule, Risky, Enter
            <6> QED
              BY <1>0, <6>1, DropInvalidProperties, Zenon
          <5>2. CASE pc # "invalid"
            <6>1. pc \in BodyRules \ {"identical", "date", "nofrom", "receipt", "received", "invalid"}
              BY <3>0, <3>2, <4>5, <5>2, Zenon DEF BodyRules, After
            <6>2. fn \notin Touched(pc)
              BY <3>2, <5>2, Zenon DEF BodyRules, Touched, DroppableNames
            <6>3. InvalidOnes(h, fn) = {}
              BY <6>1, Zenon DEF CleanInv
            <6> QED
              BY <1>0, <3>0, <6>2, <6>3, Untouched, Zenon
          <5> QED
            BY <5>1, <5>2, Zenon
        <4>6. ~BodyRepaired'
          BY <4>1, Zenon DEF BodyRepaired, BodyRules
        <4> QED
          BY <3>0, <4>1, <4>3, <4>4, <4>5, <4>6, Zenon DEF CleanInv
      <3>3. CASE pc \in {"encoding", "swap"}
        <4>1. pc' \in {"swap", "urls"}
          BY <3>0, <3>3, Zenon DEF After
        <4>2. ASSUME NEW fn \in DroppableNames PROVE InvalidOnes(h', fn) = {}
          <5>1. fn \notin Touched(pc)
            BY <3>3, Zenon DEF Touched, DroppableNames
          <5>2. InvalidOnes(h, fn) = {}
            BY <3>3, Zenon DEF CleanInv, BodyRules
          <5> QED
            BY <1>0, <3>0, <5>1, <5>2, Untouched, Zenon
        <4>3. OneValid(h', EncodingName)
          <5>1. CASE pc = "encoding"
            <6>1. h' = GuessEncoding(h, occ, theBody)
              BY <1>4, <5>1, Zenon DEF ApplyWithBody, RepairWithBody, Rule, Risky, Enter
            <6>2. occ[EncodingName] # 0 \/ Named(h, EncodingName) = {}
              BY <5>1, Zenon DEF CleanInv, BodyRules
            <6> QED
              BY <1>0, <6>1, <6>2, GuessEncodingProperties, Zenon DEF EncodingName
          <5>2. CASE pc = "swap"
            <6>1. h' = SwapEncoding(h, occ)
              BY <1>4, <5>2, Zenon DEF ApplyWithBody, RepairWithBody, Rule, Risky, Enter
            <6>2. OneValid(h, EncodingName)
              BY <5>2, Zenon DEF CleanInv
            <6> QED
              BY <1>0, <6>1, <6>2, SwapEncodingProperties, Zenon DEF EncodingName
          <5> QED
            BY <3>3, <5>1, <5>2, Zenon
        <4>4. ~BodyRepaired'
          BY <4>1, Zenon DEF BodyRepaired
        <4> QED
          BY <4>1, <4>2, <4>3, <4>4, Zenon DEF CleanInv
      <3>4. CASE pc = "urls"
        <4>1. h' = Unverify(DropBadURLs(h)) /\ pc' = AfterWithBody
          BY <1>4, <3>4, Zenon DEF ApplyWithBody, RepairWithBody, Rule, Risky, Enter
        <4>2. pc' \notin BodyRules
          BY <4>1, Zenon DEF AfterWithBody, BodyRules
        <4>3. OneValid(h', EncodingName)
          <5>1. EncodingName \notin Touched(pc) /\ OneValid(h, EncodingName)
            BY <3>4, Zenon DEF Touched, EncodingName, CleanInv
          <5> QED
            BY <1>0, <3>0, <5>1, Untouched, Zenon
        <4>4. \A fn \in {"Content-Base", "Content-Location"} : InvalidOnes(h', fn) = {}
          BY <1>0, <4>1, DropBadURLsProperties, Zenon
        <4>5. ASSUME NEW fn \in DroppableNames \ {"Content-Location"} PROVE InvalidOnes(h', fn) = {}
          <5>1. fn \notin Touched(pc)
            BY <3>4, Zenon DEF Touched, DroppableNames
          <5>2. InvalidOnes(h, fn) = {}
            BY <3>4, Zenon DEF CleanInv, BodyRules
          <5> QED
            BY <1>0, <3>0, <5>1, <5>2, Untouched, Zenon
        <4> QED
          BY <4>2, <4>3, <4>4, <4>5, Zenon DEF CleanInv, BodyRules
      <3> QED
        BY <2>1, <3>1, <3>2, <3>3, <3>4, Zenon
    <2> QED
      BY <2>2, <2>3, Zenon
  <1>5. CASE ParseChildren
    <2>1. pc = "children" /\ h' = h /\ UNCHANGED <<context, occ>> /\ pc' \in {"panic", "simplify"}
      BY <1>5, Zenon DEF ParseChildren, Risky, Rule
    <2>2. pc' \notin BodyRules /\ role' = role
      BY <2>1, Zenon DEF BodyRules, context
    <2>3. BodyRepaired' => BodyRepaired
      BY <1>0, <2>1, <2>2, Zenon DEF BodyRepaired
    <2> QED
      BY <2>1, <2>2, <2>3, Zenon DEF CleanInv, BodyRules
  <1>6. CASE ParsePart \/ CallSimplify
    <2>1. /\ pc \in {"part", "simplify"} /\ UNCHANGED <<context, occ>>
          /\ \/ pc' = "panic" /\ h' = h
             \/ /\ pc' = IF pc = "simplify" THEN "done"
                         ELSE IF role = "message" THEN "simplify" ELSE "withbody"
                /\ \E m : Improves(h, m) /\ h' = Simplify(m)
      BY <1>6, LaterStep, Zenon
    <2>2. CASE ~BodyRepaired'
      <3>1. pc' \notin BodyRules
        BY <2>1, Zenon DEF BodyRules
      <3> QED
        BY <1>1, <2>2, <3>1, Zenon
    <2>3. CASE BodyRepaired'
      <3>1. role' = role /\ pc' # "panic"
        BY <2>1, <2>3, Zenon DEF context, BodyRepaired
      <3>2. role = "message"
        BY <1>0, <2>1, <2>3, <3>1, Zenon DEF BodyRepaired, Base
      <3>3. BodyRepaired
        BY <2>1, <3>2, Zenon DEF BodyRepaired
      <3>4. Condenses(h, h')
        BY <1>0, <2>1, <3>1, SimplifyCondenses, Zenon
      <3>5. OneValid(h', EncodingName)
        BY <3>3, <3>4, Zenon DEF CleanInv, Condenses, EncodingName
      <3>6. ASSUME NEW fn \in DroppableNames \cup {"Content-Base"} PROVE InvalidOnes(h', fn) = {}
        <4>1. fn \notin PartNames \cup Rewritten
          BY Zenon DEF DroppableNames, PartNames, Rewritten
        <4>2. InvalidOnes(h, fn) = {}
          BY <3>3, Zenon DEF CleanInv
        <4> QED
          BY <3>4, <4>1, <4>2, CondensesClean, Zenon
      <3>7. pc' \notin BodyRules
        BY <2>1, Zenon DEF BodyRules
      <3> QED
        BY <3>5, <3>6, <3>7, Zenon DEF CleanInv, BodyRules
    <2> QED
      BY <2>2, <2>3, Zenon
  <1>7. CASE UNCHANGED vars
    BY <1>7, Zenon DEF vars, CleanInv, BodyRepaired
  <1> QED
    BY <1>2, <1>3, <1>4, <1>5, <1>6, <1>7, Cases, Zenon

\* RepairWithBody leaves no invalid Content-Location, -Disposition, -ID, -Base
\* or Message-ID and at most one Content-Transfer-Encoding, a valid one.
THEOREM BodyRepairCleans == Spec => []ContentFieldsClean
  <1>1. Init => Base /\ Verdict /\ CleanInv
    BY BaseInit, Zenon DEF Init, Verdict, CleanInv, RepairRules, BodyRules, BodyRepaired
  <1>2. Base /\ Verdict /\ CleanInv /\ [Next]_vars => Base' /\ Verdict' /\ CleanInv'
    BY BaseStep, VerdictStep, CleanStep, Zenon
  <1>3. Base /\ CleanInv => ContentFieldsClean
    <2> SUFFICES ASSUME Base, CleanInv, BodyRepaired
                 PROVE  /\ \A fn \in DroppableNames \cup {"Content-Base"} : InvalidOnes(h, fn) = {}
                        /\ Occurrences(h, EncodingName) <= 1 /\ InvalidOnes(h, EncodingName) = {}
      BY Zenon DEF ContentFieldsClean, EncodingName
    <2>1. OneValid(h, EncodingName) /\ HeaderOK(h)
      BY Zenon DEF CleanInv, Base, Shaped
    <2>2. Single(h, EncodingName) /\ InvalidOnes(h, EncodingName) = {}
      BY <2>1, Zenon DEF OneValid, Single, InvalidOnes, ValidOnes
    <2>3. Occurrences(h, EncodingName) <= 1
      BY <2>1, <2>2, SingleCount, Zenon
    <2> QED
      BY <2>2, <2>3, Zenon DEF CleanInv
  <1> QED
    BY <1>1, <1>2, <1>3, PTL DEF Spec

-----------------------------------------------------------------------------
(***************************************************************************)
(* The addresses that the rules work from                                  *)
(***************************************************************************)
\* The fields whose addresses a rule takes, or writes: From is guessed from the
\* first, and of the last duplicates are removed.
KeptNames == StandInNames \cup {"Message-ID", "References"}

\* The fields of this name in l have their addresses from those in k.
KeepsName(k, l, fn) ==
    \A p \in Named(l, fn) :
        /\ Named(k, fn) # {}
        /\ \A i \in DOMAIN l.Fields[p].val : InField(k, {fn}, l.Fields[p].val[i])

\* Before RepairWithBody starts.
Early == pc \in {"repair", "withbody"} \cup RepairRules \/ (role = "part" /\ pc = "part")

\* The addresses were read, those of From until RepairWithBody guesses others.
NameInv ==
    /\ pc # "read" => \A fn \in KeptNames : KeepsName(input, h, fn)
    /\ Early => KeepsName(input, h, "From")
    /\ pc \in BodyRules /\ Named(input, "From") = {} => occ["From"] = 0

\* Fields that are removed, or keep some of their addresses.
LEMMA KeepsNameLess ==
  ASSUME NEW k, NEW l, NEW fn,
         \A p \in Named(l, fn) :
             /\ p \in Named(k, fn)
             /\ \A i \in DOMAIN l.Fields[p].val :
                   \E j \in DOMAIN k.Fields[p].val : l.Fields[p].val[i] = k.Fields[p].val[j]
  PROVE  KeepsName(k, l, fn)
  <1> SUFFICES ASSUME NEW p \in Named(l, fn)
               PROVE  /\ Named(k, fn) # {}
                      /\ \A i \in DOMAIN l.Fields[p].val : InField(k, {fn}, l.Fields[p].val[i])
    BY Zenon DEF KeepsName
  <1>1. p \in DOMAIN k.Fields /\ k.Fields[p].name \in {fn}
    BY Zenon DEF Named
  <1> QED
    BY <1>1, Zenon DEF InField

\* Fields that stay as they are.
LEMMA KeepsNameSame ==
  ASSUME NEW k, NEW l, NEW fn, \A p \in Named(l, fn) : p \in Named(k, fn) /\ l.Fields[p] = k.Fields[p]
  PROVE  KeepsName(k, l, fn)
  <1>1. \A p \in Named(l, fn) :
           /\ p \in Named(k, fn)
           /\ \A i \in DOMAIN l.Fields[p].val :
                 \E j \in DOMAIN k.Fields[p].val : l.Fields[p].val[i] = k.Fields[p].val[j]
    BY Zenon
  <1> QED
    BY <1>1, KeepsNameLess, Zenon

\* An address that l has in a field of these names is in k too.
LEMMA KeepsNameFound ==
  ASSUME NEW k, NEW l, NEW N, \A fn \in N : KeepsName(k, l, fn), NEW a, InField(l, N, a)
  PROVE  InField(k, N, a)
  <1>1. PICK p \in DOMAIN l.Fields : /\ l.Fields[p].name \in N
                                     /\ \E j \in DOMAIN l.Fields[p].val : a = l.Fields[p].val[j]
    BY Zenon DEF InField
  <1> DEFINE fn == l.Fields[p].name
  <1>2. p \in Named(l, fn) /\ fn \in N
    BY <1>1, Zenon DEF Named
  <1>3. InField(k, {fn}, a)
    BY <1>1, <1>2, Zenon DEF KeepsName
  <1> QED
    BY <1>2, <1>3, Zenon DEF InField

\* One step after another.
LEMMA KeepsNameChain ==
  ASSUME NEW k, NEW l, NEW m, NEW fn, KeepsName(k, l, fn), KeepsName(l, m, fn)
  PROVE  KeepsName(k, m, fn)
  <1> SUFFICES ASSUME NEW p \in Named(m, fn)
               PROVE  /\ Named(k, fn) # {}
                      /\ \A i \in DOMAIN m.Fields[p].val : InField(k, {fn}, m.Fields[p].val[i])
    BY Zenon DEF KeepsName
  <1>1. Named(k, fn) # {}
    BY Zenon DEF KeepsName
  <1>2. \A i \in DOMAIN m.Fields[p].val : InField(l, {fn}, m.Fields[p].val[i])
    BY Zenon DEF KeepsName
  <1>3. \A a : InField(l, {fn}, a) => InField(k, {fn}, a)
    <2>1. \A n \in {fn} : KeepsName(k, l, n)
      BY Zenon
    <2> QED
      BY <2>1, KeepsNameFound, Zenon
  <1> QED
    BY <1>1, <1>2, <1>3, Zenon

\* Every step that ReadHeader does not take has its addresses from the header it
\* starts with.
LEMMA NameStep ==
  ASSUME Base, [Next]_vars, pc # "read"
  PROVE  /\ input' = input
         /\ \A fn \in KeptNames : KeepsName(h, h', fn)
         /\ pc \notin BodyRules => KeepsName(h, h', "From")
  <1>0. Shaped(h) /\ HeaderOK(h) /\ pc # "read"
    BY Zenon DEF Base, Shaped
  <1>A. ASSUME h'.Fields = h.Fields PROVE \A fn : KeepsName(h, h', fn)
    BY <1>A, KeepsNameSame, Zenon DEF Named
  <1>1. CASE ReadField \/ EndOfHeader
    BY <1>0, <1>1, Zenon DEF ReadField, EndOfHeader
  <1>2. CASE StartRepair \/ StartWithBody
    <2>1. h' = verify(h) /\ input' = input
      BY <1>2, Zenon DEF StartRepair, StartWithBody, Enter, context
    <2>2. h'.Fields = h.Fields
      BY <1>0, <2>1, VerifyProperties, Zenon
    <2> QED
      BY <1>A, <2>1, <2>2, Zenon
  <1>3. CASE ApplyRepair
    <2>1. input' = input /\ (h' = h \/ Trims(h, h', Trimmed(pc)))
      BY <1>3, RepairStep, Zenon DEF context
    <2>2. CASE h' = h
      BY <1>A, <2>1, <2>2, Zenon
    <2>3. CASE Trims(h, h', Trimmed(pc))
      <3>1. ASSUME NEW fn, fn # "MIME-Version" PROVE KeepsName(h, h', fn)
        <4>1. \A p \in Named(h', fn) : p \in Named(h, fn) /\ h'.Fields[p] = h.Fields[p]
          BY <2>3, <3>1, Zenon DEF Trims, Named
        <4> QED
          BY <4>1, KeepsNameSame, Zenon
      <3>2. \A fn \in KeptNames \cup {"From"} : fn # "MIME-Version"
        BY Zenon DEF KeptNames, StandInNames, ReceiptNames
      <3> QED
        BY <2>1, <3>1, <3>2, Zenon
    <2> QED
      BY <2>1, <2>2, <2>3, Zenon
  <1>4. CASE ApplyWithBody
    <2>1. /\ pc \in BodyRules /\ input' = input
          /\ h' = h \/ Changes(h, h', Touched(pc))
      BY <1>4, BodyStep, Zenon DEF ApplyWithBody, context
    <2>2. CASE h' = h
      BY <1>A, <2>1, <2>2, Zenon
    <2>3. CASE h' # h
      <3>0. Changes(h, h', Touched(pc))
        BY <2>1, <2>3, Zenon
      <3>1. ASSUME NEW N, Removes(h, h', N) PROVE \A fn : KeepsName(h, h', fn)
        <4>1. \A fn : \A p \in Named(h', fn) : p \in Named(h, fn) /\ h'.Fields[p] = h.Fields[p]
          BY <3>1, Zenon DEF Removes, Named
        <4> QED
          BY <4>1, KeepsNameSame, Zenon
      <3>2. CASE pc = "identical"
        <4>1. h' = RemoveIdentical(h, occ)
          BY <1>4, <2>3, <3>2, Zenon DEF ApplyWithBody, RepairWithBody, Rule, Risky, Enter
        <4> QED
          BY <1>0, <2>1, <3>1, <4>1, RemoveIdenticalProperties, Zenon
      <3>3. CASE pc = "invalid"
        <4>1. h' = DropInvalid(h, occ)
          BY <1>4, <3>3, Zenon DEF ApplyWithBody, RepairWithBody, Rule, Risky, Enter
        <4> QED
          BY <1>0, <2>1, <3>1, <4>1, DropInvalidProperties, Zenon
      <3>4. CASE pc = "sender"
        <4>1. h' = ChooseSender(h, occ)
          BY <1>4, <3>4, Zenon DEF ApplyWithBody, RepairWithBody, Rule, Risky, Enter
        <4> QED
          BY <1>0, <2>1, <3>1, <4>1, ChooseProperties, Zenon
      <3>5. ASSUME NEW fn, fn \notin Touched(pc) PROVE KeepsName(h, h', fn)
        <4>1. SameFields(h, h', fn)
          BY <1>0, <3>0, <3>5, Untouched, Zenon
        <4> QED
          BY <4>1, KeepsNameSame, Zenon DEF SameFields
      <3>6. CASE pc = "lastsender"
        <4>1. h' = LastSender(h)
          BY <1>4, <3>6, Zenon DEF ApplyWithBody, RepairWithBody, Rule, Risky, Enter
        <4>2. \A p \in Named(h', "Sender") :
                 /\ p \in Named(h, "Sender")
                 /\ \A i \in DOMAIN h'.Fields[p].val :
                       \E j \in DOMAIN h.Fields[p].val : h'.Fields[p].val[i] = h.Fields[p].val[j]
          BY <1>0, <4>1, LastSenderProperties
        <4>3. KeepsName(h, h', "Sender")
          BY <4>2, KeepsNameLess, Zenon
        <4>4. Touched(pc) = {"Sender"}
          BY <3>6, Zenon DEF Touched
        <4> QED
          BY <2>1, <3>5, <4>3, <4>4, Zenon
      <3>7. CASE pc \notin {"identical", "invalid", "sender", "lastsender"}
        <4>1. KeptNames \cap Touched(pc) = {}
          BY <2>1, <3>7, Zenon DEF BodyRules, Touched, KeptNames, StandInNames, ReceiptNames
        <4> QED
          BY <2>1, <3>5, <4>1, Zenon
      <3> QED
        BY <3>2, <3>3, <3>4, <3>6, <3>7, Zenon
    <2> QED
      BY <2>2, <2>3, Zenon
  <1>5. CASE ParseChildren
    <2>1. h' = h /\ input' = input
      BY <1>5, Zenon DEF ParseChildren, Risky, Rule, context
    <2> QED
      BY <1>A, <2>1, Zenon
  <1>6. CASE ParsePart \/ CallSimplify
    <2>1. /\ input' = input
          /\ h' = h \/ \E m : Improves(h, m) /\ h' = Simplify(m)
      BY <1>6, LaterStep, Zenon DEF context
    <2>2. CASE h' = h
      BY <1>A, <2>1, <2>2, Zenon
    <2>3. CASE h' # h
      <3>1. Condenses(h, h')
        BY <1>0, <2>1, <2>3, SimplifyCondenses, Zenon
      <3>2. ASSUME NEW fn, fn \notin PartNames \cup Rewritten PROVE KeepsName(h, h', fn)
        <4>1. ASSUME NEW p \in Named(h', fn)
              PROVE  /\ p \in Named(h, fn)
                     /\ \A i \in DOMAIN h'.Fields[p].val :
                           \E j \in DOMAIN h.Fields[p].val : h'.Fields[p].val[i] = h.Fields[p].val[j]
          <5>1. p \in Named(h, fn) /\ p \in DOMAIN h'.Fields /\ h'.Fields[p].name = fn
            BY <3>1, <3>2, Zenon DEF Condenses, Named
          <5> QED
            BY <3>1, <3>2, <5>1, Zenon DEF Condenses, SameMailboxes
        <4> QED
          BY <4>1, KeepsNameLess, Zenon
      <3>3. \A fn \in KeptNames \cup {"From"} : fn \notin PartNames \cup Rewritten
        BY Zenon DEF KeptNames, StandInNames, ReceiptNames, PartNames, Rewritten
      <3> QED
        BY <2>1, <3>2, <3>3, Zenon
    <2> QED
      BY <2>2, <2>3, Zenon
  <1>7. CASE UNCHANGED vars
    BY <1>A, <1>7, Zenon DEF vars
  <1> QED
    BY <1>1, <1>2, <1>3, <1>4, <1>5, <1>6, <1>7, Cases, Zenon

\* Every step preserves NameInv.
LEMMA NameInvStep == Base /\ NameInv /\ [Next]_vars => NameInv'
  <1> SUFFICES ASSUME Base, NameInv, [Next]_vars PROVE NameInv'
    BY Zenon
  <1>0. Shaped(h) /\ HeaderOK(h) /\ role \in {"message", "part"}
    BY Zenon DEF Base, Shaped
  <1>1. CASE pc = "read"
    <2>1. CASE EndOfHeader
      <3>1. pc' = "repair" /\ h' = h /\ input' = h
        BY <2>1, Zenon DEF EndOfHeader
      <3>2. \A fn : KeepsName(input', h', fn)
        BY <3>1, KeepsNameSame, Zenon
      <3> QED
        BY <3>1, <3>2, Zenon DEF NameInv, BodyRules
    <2>2. CASE ~EndOfHeader
      <3>1. pc' = "read"
        BY <1>1, <2>2, Cases, Zenon DEF ReadField, StartRepair, ApplyRepair, Repair, StartWithBody,
           ApplyWithBody, RepairWithBody, Enter, Rule, Risky, ParseChildren, ParsePart, CallSimplify, vars
      <3> QED
        BY <3>1, Zenon DEF NameInv, Early, RepairRules, BodyRules
    <2> QED
      BY <2>1, <2>2, Zenon
  <1>2. CASE pc # "read"
    <2>1. /\ input' = input
          /\ \A fn \in KeptNames : KeepsName(h, h', fn)
          /\ pc \notin BodyRules => KeepsName(h, h', "From")
      BY <1>2, NameStep, Zenon
    <2>2. \A fn \in KeptNames : KeepsName(input', h', fn)
      BY <1>2, <2>1, KeepsNameChain, Zenon DEF NameInv
    <2>3. ASSUME Early, pc \notin BodyRules PROVE KeepsName(input', h', "From")
      BY <2>1, <2>3, KeepsNameChain, Zenon DEF NameInv
    <2>4. CASE StartWithBody
      <3>1. /\ pc = "withbody" /\ occ' = Count(h) /\ role' = role
            /\ pc' \in {"identical", AfterWithBody}
        BY <2>4, Zenon DEF StartWithBody, Enter, context
      <3>2. KeepsName(input, h, "From")
        BY <3>1, Zenon DEF NameInv, Early
      <3>3. Named(input, "From") = {} => Named(h, "From") = {}
        BY <3>2, Zenon DEF KeepsName
      <3>4. "From" \in CountedNames
        BY Counted, Zenon
      <3>5. occ'["From"] = Occurrences(h, "From")
        BY <1>0, <3>1, <3>4, CountType, Zenon
      <3>6. Named(input', "From") = {} => occ'["From"] = 0
        BY <1>0, <2>1, <3>3, <3>5, SingleCount, Zenon
      <3>7. ~Early'
        BY <3>1, Zenon DEF Early, AfterWithBody, RepairRules
      <3> QED
        BY <2>2, <3>6, <3>7, Zenon DEF NameInv
    <2>5. CASE ApplyWithBody
      <3>1. /\ pc \in BodyRules /\ role' = role /\ occ' = occ /\ pc' \in {"panic", After(pc)}
        BY <2>5, BodyStep, Zenon DEF ApplyWithBody, context
      <3>2. ~Early'
        BY <3>1, Zenon DEF Early, After, AfterWithBody, RepairRules, BodyRules
      <3> QED
        BY <2>1, <2>2, <3>1, <3>2, Zenon DEF NameInv
    <2>6. CASE ~StartWithBody /\ ~ApplyWithBody /\ ~UNCHANGED vars
      <3>1. pc' \notin BodyRules /\ pc \notin BodyRules /\ (Early' => Early)
        <4>1. CASE ReadField \/ EndOfHeader
          BY <1>2, <4>1, Zenon DEF ReadField, EndOfHeader
        <4>2. CASE StartRepair
          BY <4>2, Zenon DEF StartRepair, Enter, context, AfterRepair, BodyRules, Early
        <4>3. CASE ApplyRepair
          <5>1. pc \in RepairRules /\ pc' \in {"panic", AfterRule(pc)}
            BY <4>3, RepairStep, Zenon
          <5> QED
            BY <5>1, Zenon DEF RepairRules, AfterRule, AfterRepair, BodyRules, Early
        <4>4. CASE ParseChildren
          BY <4>4, Zenon DEF ParseChildren, Risky, Rule, BodyRules, Early, RepairRules
        <4>5. CASE ParsePart \/ CallSimplify
          <5>1. /\ pc \in {"part", "simplify"} /\ role' = role
                /\ \/ pc' = "panic"
                   \/ pc' = IF pc = "simplify" THEN "done"
                            ELSE IF role = "message" THEN "simplify" ELSE "withbody"
            BY <4>5, LaterStep, Zenon DEF context
          <5> QED
            BY <1>0, <5>1, Zenon DEF BodyRules, Early, RepairRules
        <4> QED
          BY <2>6, <4>1, <4>2, <4>3, <4>4, <4>5, Cases, Zenon
      <3> QED
        BY <2>2, <2>3, <3>1, Zenon DEF NameInv
    <2>7. CASE UNCHANGED vars
      BY <2>7, Zenon DEF vars, NameInv, Early
    <2> QED
      BY <2>4, <2>5, <2>6, <2>7, Zenon
  <1> QED
    BY <1>1, <1>2, Zenon

-----------------------------------------------------------------------------
(***************************************************************************)
(* From and Date                                                           *)
(***************************************************************************)
\* A From that was written where k had no good one, and was read again.
StoodIn(k, f) == ValidOnes(k, "From") = {} /\ ReadAgain(k, f)

\* What becomes of a From: one that is invalid is the one that was there, or was
\* guessed, one that was valid keeps its mailboxes, and none becomes empty or
\* is lost.
KeepsFrom(k, l) ==
    /\ \/ InvalidOnes(l, "From") = {} \/ SameFields(k, l, "From")
       \/ \A p \in InvalidOnes(l, "From") : StoodIn(k, l.Fields[p])
    /\ ValidOnes(k, "From") # {} =>
          /\ ValidOnes(l, "From") = ValidOnes(k, "From")
          /\ \A p \in ValidOnes(l, "From") :
                UniquifyKeys(l.Fields[p].val) = UniquifyKeys(k.Fields[p].val)
    /\ \A p \in ValidOnes(l, "From") : l.Fields[p].val = <<>> =>
          \/ p \in ValidOnes(k, "From") /\ k.Fields[p].val = <<>>
          \/ StoodIn(k, l.Fields[p])
    /\ Named(k, "From") # {} => Named(l, "From") # {}

\* The From of a header is its only one.
LEMMA OneFrom ==
  ASSUME NEW k, Shaped(k), NEW p \in Named(k, "From")
  PROVE  /\ Named(k, "From") = {p} /\ field(k, "From", 0) = p
         /\ First(k, "From") = k.Fields[p] /\ AddressesOf(k, "From") = k.Fields[p].val
  <1>1. HeaderOK(k) /\ Named(k, "From") = {p}
    BY Zenon DEF Shaped, AddressFieldsMerged, Named, MergedNames
  <1> QED
    BY <1>1, OnlyField, Zenon DEF First

\* KeepsFrom is reflexive and transitive.
LEMMA KeepsFromSame ==
  ASSUME NEW k, Shaped(k), NEW l, SameFields(k, l, "From")
  PROVE  KeepsFrom(k, l)
  <1>1. ValidOnes(l, "From") = ValidOnes(k, "From") /\ HeaderOK(k)
    BY SameAnswers, Zenon DEF Shaped
  <1>2. \A p \in ValidOnes(l, "From") : l.Fields[p] = k.Fields[p]
    BY Zenon DEF ValidOnes, SameFields
  <1> QED
    BY <1>1, <1>2, Zenon DEF KeepsFrom, SameFields

\* What is guessed after a step might have been guessed before it.
LEMMA StoodInBefore ==
  ASSUME NEW k, NEW l, l.mode = k.mode, KeepsFrom(k, l),
         \A fn \in StandInNames : KeepsName(k, l, fn), NEW f, StoodIn(l, f)
  PROVE  StoodIn(k, f)
  <1> DEFINE N(m) == IF Named(m, "From") = {} THEN StandInNames ELSE ReceiptNames
  <1>1. ValidOnes(k, "From") = {} /\ k.mode = "RFC5322"
    BY Zenon DEF StoodIn, KeepsFrom, ReadAgain
  <1>2. PICK x \in Address : InField(l, N(l), x) /\ f = FromReread(x)
    BY Zenon DEF StoodIn, ReadAgain
  <1>3. N(l) \subseteq N(k) /\ N(l) \subseteq StandInNames
    BY Zenon DEF KeepsFrom, StandInNames
  <1> HIDE DEF N
  <1>4. InField(k, N(l), x)
    BY <1>2, <1>3, KeepsNameFound, Zenon
  <1>5. InField(k, N(k), x)
    BY <1>3, <1>4, Zenon DEF InField
  <1> QED
    BY <1>1, <1>2, <1>5, Zenon DEF StoodIn, ReadAgain, N

\* Keeping a good From is transitive.
LEMMA KeepsFromChain ==
  ASSUME NEW k, Shaped(k), NEW l, Shaped(l), NEW m, Shaped(m), l.mode = k.mode,
         KeepsFrom(k, l), KeepsFrom(l, m), \A fn \in StandInNames : KeepsName(k, l, fn)
  PROVE  KeepsFrom(k, m)
  <1>0. \A f : StoodIn(l, f) => StoodIn(k, f)
    BY StoodInBefore, Zenon
  <1>1. \/ InvalidOnes(m, "From") = {} \/ SameFields(k, m, "From")
        \/ \A p \in InvalidOnes(m, "From") : StoodIn(k, m.Fields[p])
    <2>1. CASE SameFields(l, m, "From") /\ InvalidOnes(m, "From") # {}
      <3>1. InvalidOnes(l, "From") = InvalidOnes(m, "From")
        BY <2>1, SameAnswers, Zenon DEF Shaped
      <3>2. \A p \in InvalidOnes(m, "From") : m.Fields[p] = l.Fields[p]
        BY <2>1, <3>1, Zenon DEF SameFields, InvalidOnes
      <3>3. CASE SameFields(k, l, "From")
        BY <2>1, <3>3, Zenon DEF SameFields
      <3>4. CASE \A p \in InvalidOnes(l, "From") : StoodIn(k, l.Fields[p])
        BY <3>1, <3>2, <3>4, Zenon
      <3> QED
        BY <2>1, <3>1, <3>3, <3>4, Zenon DEF KeepsFrom
    <2>2. CASE \A p \in InvalidOnes(m, "From") : StoodIn(l, m.Fields[p])
      BY <1>0, <2>2, Zenon
    <2> QED
      BY <2>1, <2>2, Zenon DEF KeepsFrom
  <1>2. ASSUME NEW p \in ValidOnes(m, "From"), m.Fields[p].val = <<>>
        PROVE  \/ p \in ValidOnes(k, "From") /\ k.Fields[p].val = <<>>
               \/ StoodIn(k, m.Fields[p])
    <2>1. CASE p \in ValidOnes(l, "From") /\ l.Fields[p].val = <<>>
      <3>1. /\ p \in DOMAIN l.Fields /\ l.Fields[p].name = "From" /\ l.Fields[p].err = ""
            /\ p \in DOMAIN m.Fields /\ m.Fields[p].name = "From" /\ m.Fields[p].err = ""
        BY <2>1, Zenon DEF ValidOnes, Named
      <3>2. /\ l.Fields[p] = [name |-> l.Fields[p].name, err |-> l.Fields[p].err, val |-> l.Fields[p].val]
            /\ m.Fields[p] = [name |-> m.Fields[p].name, err |-> m.Fields[p].err, val |-> m.Fields[p].val]
        BY <3>1, Zenon DEF Shaped, HeaderOK
      <3>3. m.Fields[p] = l.Fields[p]
        BY <1>2, <2>1, <3>1, <3>2, Zenon
      <3> QED
        BY <2>1, <3>3, Zenon DEF KeepsFrom
    <2>2. CASE StoodIn(l, m.Fields[p])
      BY <1>0, <2>2, Zenon
    <2> QED
      BY <1>2, <2>1, <2>2, Zenon DEF KeepsFrom
  <1>3. ValidOnes(k, "From") # {} =>
           /\ ValidOnes(m, "From") = ValidOnes(k, "From")
           /\ \A p \in ValidOnes(m, "From") :
                 UniquifyKeys(m.Fields[p].val) = UniquifyKeys(k.Fields[p].val)
    BY Zenon DEF KeepsFrom
  <1>4. Named(k, "From") # {} => Named(m, "From") # {}
    BY Zenon DEF KeepsFrom
  <1> QED
    BY <1>1, <1>2, <1>3, <1>4, Zenon DEF KeepsFrom

\* The rules that guess a From replace only an invalid one.
LEMMA KeepsFromRule ==
  ASSUME NEW k, Shaped(k), NEW l, FromRule(k, l)
  PROVE  KeepsFrom(k, l)
  <1>1. CASE SameFields(k, l, "From")
    BY <1>1, KeepsFromSame, Zenon
  <1>2. CASE ~SameFields(k, l, "From")
    <2>1. /\ Shaped(l)
          /\ Named(k, "From") # {} => First(k, "From").err # ""
          /\ Named(l, "From") # {}
          /\ \/ First(l, "From").err = "" /\ First(l, "From").val # <<>>
             \/ ReadAgain(k, First(l, "From"))
      BY <1>2, Zenon DEF FromRule, Changes
    <2>2. PICK p : p \in Named(l, "From")
      BY <2>1, Zenon
    <2>3. Named(l, "From") = {p} /\ First(l, "From") = l.Fields[p]
      BY <2>1, <2>2, OneFrom, Zenon
    <2>4. ValidOnes(k, "From") = {}
      <3> SUFFICES ASSUME NEW q \in Named(k, "From"), k.Fields[q].err = "" PROVE FALSE
        BY Zenon DEF ValidOnes
      <3> QED
        BY <2>1, OneFrom, Zenon
    <2>5. CASE l.Fields[p].err = "" /\ l.Fields[p].val # <<>>
      <3>1. InvalidOnes(l, "From") = {}
        BY <2>3, <2>5, Zenon DEF InvalidOnes, ValidOnes
      <3>2. \A q \in ValidOnes(l, "From") : l.Fields[q].val # <<>>
        BY <2>3, <2>5, Zenon DEF ValidOnes
      <3> QED
        BY <2>1, <2>4, <3>1, <3>2, Zenon DEF KeepsFrom
    <2>6. CASE ReadAgain(k, l.Fields[p])
      <3>1. \A q \in Named(l, "From") : StoodIn(k, l.Fields[q])
        BY <2>3, <2>4, <2>6, Zenon DEF StoodIn
      <3> QED
        BY <2>1, <2>4, <3>1, Zenon DEF KeepsFrom, InvalidOnes, ValidOnes
    <2> QED
      BY <2>1, <2>3, <2>5, <2>6, Zenon
  <1> QED
    BY <1>1, <1>2, Zenon

\* Fields are removed, but a From remains.
LEMMA KeepsFromTrimmed ==
  ASSUME NEW k, Shaped(k), NEW l, Shaped(l),
         \A p \in Named(l, "From") : p \in Named(k, "From") /\ l.Fields[p] = k.Fields[p],
         Named(k, "From") # {} => Named(l, "From") # {}
  PROVE  SameFields(k, l, "From")
  <1>1. CASE Named(k, "From") = {}
    BY <1>1, Zenon DEF SameFields
  <1>2. CASE Named(k, "From") # {}
    <2>1. PICK p : p \in Named(l, "From")
      BY <1>2, Zenon
    <2>2. Named(l, "From") = {p} /\ Named(k, "From") = {p}
      BY <2>1, OneFrom, Zenon
    <2> QED
      BY <2>1, <2>2, Zenon DEF SameFields
  <1> QED
    BY <1>1, <1>2, Zenon

\* parseBodypart and Simplify.
LEMMA KeepsFromLater ==
  ASSUME NEW k, Shaped(k), Trusted(k), NEW m, Improves(k, m)
  PROVE  KeepsFrom(k, Simplify(m))
  <1> DEFINE l == Simplify(m)
  <1>1. Condenses(k, l)
    BY SimplifyCondenses, Zenon
  <1>2. InvalidOnes(l, "From") # {} => SameFields(k, l, "From")
    BY BadFromUntouched, Zenon
  <1>3. Named(l, "From") = Named(k, "From")
    BY <1>1, Zenon DEF Condenses
  <1>4. \A p \in Named(l, "From") : /\ l.Fields[p].err = k.Fields[p].err
                                    /\ SameMailboxes(k.Fields[p].val, l.Fields[p].val)
    BY <1>1, Zenon DEF Condenses, Named, PartNames, Rewritten, addressFieldNames
  <1>5. ValidOnes(l, "From") = ValidOnes(k, "From")
    BY <1>3, <1>4, Zenon DEF ValidOnes
  <1>6. \A p \in ValidOnes(l, "From") : SameMailboxes(k.Fields[p].val, l.Fields[p].val)
    BY <1>4, Zenon DEF ValidOnes
  <1> HIDE DEF l
  <1>7. KeepsFrom(k, l)
    BY <1>2, <1>3, <1>5, <1>6, Zenon DEF KeepsFrom, SameMailboxes
  <1> QED
    BY <1>7, Zenon DEF l

\* The rules that guess a From.
FromRules == {"nofrom", "receipt", "salvage", "fromsender", "postmaster", "unknown"}

\* A rule that guesses a From does so only where no usable one is left.
LEMMA GuessStep ==
  ASSUME Base, ApplyWithBody, pc \in FromRules, h' # h
  PROVE  FromRule(h, h')
  <1>0. Shaped(h) /\ Held(h, occ)
    BY Zenon DEF Base, FromRules, BodyRules
  <1>1. CASE pc = "nofrom"
    <2>1. h' = AddMissingFrom(h, occ)
      BY <1>1, Zenon DEF ApplyWithBody, RepairWithBody, Rule, Risky, Enter
    <2>2. occ["From"] = 0 => Named(h, "From") = {}
      BY <1>1, Zenon DEF Base
    <2> QED
      BY <1>0, <2>1, <2>2, AddMissingFromRule, Zenon
  <1>2. CASE pc = "receipt"
    <2>1. h' = UseReceiptAddress(h)
      BY <1>2, Zenon DEF ApplyWithBody, RepairWithBody, Rule, Risky, Enter
    <2> QED
      BY <1>0, <2>1, UseReceiptAddressRule, Zenon
  <1>3. CASE pc = "salvage"
    <2>1. h' = SalvageFrom(h, occ)
      BY <1>3, Zenon DEF ApplyWithBody, RepairWithBody, Rule, Risky, Enter
    <2> QED
      BY <1>0, <2>1, SalvageFromRule, Zenon
  <1>4. CASE pc = "fromsender"
    <2>1. h' = FromFromSender(h, occ)
      BY <1>4, Zenon DEF ApplyWithBody, RepairWithBody, Rule, Risky, Enter
    <2> QED
      BY <1>0, <2>1, FromFromSenderRule, Zenon
  <1>5. CASE pc = "postmaster"
    <2>1. h' = Postmaster(h, occ) /\ ~PostmasterPanics(h, occ)
      BY <1>5, Zenon DEF ApplyWithBody, RepairWithBody, Rule, Risky, Enter
    <2> QED
      BY <1>0, <2>1, PostmasterRule, Zenon
  <1>6. CASE pc = "unknown"
    <2>1. h' = UseInvalid(h)
      BY <1>6, Zenon DEF ApplyWithBody, RepairWithBody, Rule, Risky, Enter
    <2> QED
      BY <1>0, <2>1, UseInvalidRule, Zenon
  <1> QED
    BY <1>1, <1>2, <1>3, <1>4, <1>5, <1>6, Zenon DEF FromRules

\* Every step that ReadHeader does not take keeps the From.
LEMMA FromStep ==
  ASSUME Base, Verdict, [Next]_vars, pc # "read"
  PROVE  KeepsFrom(h, h') /\ input' = input
  <1>0. Shaped(h) /\ HeaderOK(h) /\ pc # "read"
    BY Zenon DEF Base, Shaped
  <1>1. CASE ReadField \/ EndOfHeader
    BY <1>0, <1>1, Zenon DEF ReadField, EndOfHeader
  <1>2. CASE StartRepair \/ StartWithBody
    <2>1. h' = verify(h) /\ input' = input
      BY <1>2, Zenon DEF StartRepair, StartWithBody, Enter, context
    <2>2. SameFields(h, h', "From")
      BY <1>0, <2>1, VerifyProperties DEF SameFields, Named
    <2> QED
      BY <1>0, <2>1, <2>2, KeepsFromSame, Zenon
  <1>3. CASE ApplyRepair
    <2>1. input' = input /\ (h' = h \/ Trims(h, h', Trimmed(pc)))
      BY <1>3, RepairStep, Zenon DEF context
    <2>2. CASE h' = h
      BY <1>0, <2>1, <2>2, KeepsFromSame, Zenon DEF SameFields
    <2>3. CASE Trims(h, h', Trimmed(pc))
      <3>1. Shaped(h') /\ (Named(h, "From") # {} => Named(h', "From") # {})
        BY <2>3, Zenon DEF Trims, Changes
      <3>2. \A p \in Named(h', "From") : p \in Named(h, "From") /\ h'.Fields[p] = h.Fields[p]
        BY <2>3, Zenon DEF Trims, Named
      <3> QED
        BY <1>0, <2>1, <3>1, <3>2, KeepsFromTrimmed, KeepsFromSame, Zenon
    <2> QED
      BY <2>1, <2>2, <2>3, Zenon
  <1>4. CASE ApplyWithBody
    <2>1. /\ pc \in BodyRules /\ input' = input
          /\ h' = h \/ Changes(h, h', Touched(pc))
      BY <1>4, BodyStep, Zenon DEF ApplyWithBody, context
    <2>2. CASE h' = h
      BY <1>0, <2>1, <2>2, KeepsFromSame, Zenon DEF SameFields
    <2>3. CASE h' # h
      <3>0. Changes(h, h', Touched(pc))
        BY <2>1, <2>3, Zenon
      <3>1. CASE "From" \notin Touched(pc)
        BY <1>0, <2>1, <3>0, <3>1, Untouched, KeepsFromSame, Zenon
      <3>2. CASE pc = "identical"
        <4>1. h' = RemoveIdentical(h, occ)
          BY <1>4, <2>3, <3>2, Zenon DEF ApplyWithBody, RepairWithBody, Rule, Risky, Enter
        <4>2. Removes(h, h', ConditionNames)
          BY <1>0, <4>1, RemoveIdenticalProperties, Zenon
        <4>3. Named(h, "From") # {} => Named(h', "From") # {}
          BY <1>0, <4>1, RemoveIdenticalProperties, Zenon
        <4>4. Shaped(h')
          BY <3>0, Zenon DEF Changes
        <4>5. \A p \in Named(h', "From") : p \in Named(h, "From") /\ h'.Fields[p] = h.Fields[p]
          BY <4>2, RemovesNamed
        <4> QED
          BY <1>0, <2>1, <4>3, <4>4, <4>5, KeepsFromTrimmed, KeepsFromSame, Zenon
      <3>3. CASE pc \in FromRules
        BY <1>0, <1>4, <2>1, <2>3, <3>3, GuessStep, KeepsFromRule, Zenon
      <3> QED
        BY <2>1, <3>1, <3>2, <3>3, Zenon DEF BodyRules, Touched, DroppableNames, FromRules
    <2> QED
      BY <2>2, <2>3, Zenon
  <1>5. CASE ParseChildren
    <2>1. h' = h /\ input' = input
      BY <1>5, Zenon DEF ParseChildren, Risky, Rule, context
    <2> QED
      BY <1>0, <2>1, KeepsFromSame, Zenon DEF SameFields
  <1>6. CASE ParsePart \/ CallSimplify
    <2>1. /\ pc \in {"part", "simplify"} /\ input' = input
          /\ h' = h \/ \E m : Improves(h, m) /\ h' = Simplify(m)
      BY <1>6, LaterStep, Zenon DEF context
    <2>2. Trusted(h)
      BY <2>1, Zenon DEF Verdict
    <2>3. CASE h' = h
      BY <1>0, <2>1, <2>3, KeepsFromSame, Zenon DEF SameFields
    <2>4. CASE h' # h
      BY <1>0, <2>1, <2>2, <2>4, KeepsFromLater, Zenon
    <2> QED
      BY <2>3, <2>4, Zenon
  <1>7. CASE UNCHANGED vars
    BY <1>0, <1>7, KeepsFromSame, Zenon DEF vars, SameFields
  <1> QED
    BY <1>1, <1>2, <1>3, <1>4, <1>5, <1>6, <1>7, Cases, Zenon

\* From the end of ReadHeader on.
FromInv == pc # "read" => KeepsFrom(input, h)

\* Every step of the pipeline keeps FromInv.
LEMMA FromInvStep == Base /\ Verdict /\ NameInv /\ FromInv /\ [Next]_vars => FromInv'
  <1> SUFFICES ASSUME Base, Verdict, NameInv, FromInv, [Next]_vars, pc' # "read"
               PROVE  KeepsFrom(input', h')
    BY Zenon DEF FromInv
  <1>0. Shaped(h) /\ Shaped(input) /\ Shaped(h') /\ h.mode = input.mode
    BY BaseStep, Zenon DEF Base
  <1>1. CASE pc = "read"
    <2>1. EndOfHeader
      BY <1>1, Cases, Zenon DEF ReadField, StartRepair, ApplyRepair, Repair, StartWithBody, ApplyWithBody,
         RepairWithBody, Enter, Rule, Risky, ParseChildren, ParsePart, CallSimplify, vars
    <2>2. h' = h /\ input' = h
      BY <2>1, Zenon DEF EndOfHeader
    <2> QED
      BY <1>0, <2>2, KeepsFromSame, Zenon DEF SameFields
  <1>2. CASE pc # "read"
    <2>1. KeepsFrom(h, h') /\ input' = input
      BY <1>2, FromStep, Zenon
    <2>2. \A fn \in StandInNames : KeepsName(input, h, fn)
      BY <1>2, Zenon DEF NameInv, KeptNames
    <2> QED
      BY <1>0, <1>2, <2>1, <2>2, KeepsFromChain, Zenon DEF FromInv
  <1> QED
    BY <1>1, <1>2, Zenon

\* A From that parsed is never replaced by one of the guesses of
\* RepairWithBody: its mailboxes survive to the end.
THEOREM GoodFromSurvives == Spec => []GoodFromKept
  <1>1. Init => Base /\ Verdict /\ NameInv /\ FromInv
    BY BaseInit, Zenon DEF Init, Verdict, NameInv, Early, FromInv, RepairRules, BodyRules
  <1>2. Base /\ Verdict /\ NameInv /\ FromInv /\ [Next]_vars =>
            Base' /\ Verdict' /\ NameInv' /\ FromInv'
    BY BaseStep, VerdictStep, NameInvStep, FromInvStep, Zenon
  <1>3. Base /\ FromInv => GoodFromKept
    <2> SUFFICES ASSUME Base, FromInv, pc # "read", field(input, "From", 0) # Nil,
                        First(input, "From").err = ""
                 PROVE  UniquifyKeys(AddressesOf(h, "From")) = UniquifyKeys(AddressesOf(input, "From"))
      BY Zenon DEF GoodFromKept
    <2>0. Shaped(h) /\ Shaped(input) /\ HeaderOK(input)
      BY Zenon DEF Base, Shaped
    <2>1. PICK p : p \in Named(input, "From")
      BY <2>0, NilField, Zenon
    <2>2. input.Fields[p].err = "" /\ AddressesOf(input, "From") = input.Fields[p].val
      BY <2>0, <2>1, OneFrom, Zenon
    <2>3. p \in ValidOnes(input, "From")
      BY <2>1, <2>2, Zenon DEF ValidOnes
    <2>4. p \in ValidOnes(h, "From") /\ UniquifyKeys(h.Fields[p].val) = UniquifyKeys(input.Fields[p].val)
      BY <2>3, Zenon DEF FromInv, KeepsFrom
    <2>5. AddressesOf(h, "From") = h.Fields[p].val
      BY <2>0, <2>4, OneFrom, Zenon DEF ValidOnes
    <2> QED
      BY <2>2, <2>4, <2>5, Zenon
  <1> QED
    BY <1>1, <1>2, <1>3, PTL DEF Spec


\* The From says who sent the message, or parsed without an address.
Answers(k) ==
    Named(k, "From") # {} /\ \A p \in InvalidOnes(k, "From") : k.Fields[p].val # <<>>

\* Where a message has a Date, and where it has a From.
SenderInv ==
    /\ pc \in {"identical", "date"} /\ occ["Date"] > 0 => Named(h, "Date") # {}
    /\ role = "message" /\ pc \in BodyRules \ {"identical", "date"} => Named(h, "Date") # {}
    /\ role = "message" /\ pc \in {"replyto", "encoding", "swap", "urls"} => Answers(h)
    /\ role = "message" /\ BodyRepaired => Named(h, "Date") # {} /\ Answers(h)

\* What a message that RepairWithBody is done with has, it keeps.
LEMMA AnswersSame ==
  ASSUME NEW k, Shaped(k), NEW l, SameFields(k, l, "From"), Answers(k)
  PROVE  Answers(l)
  <1>1. InvalidOnes(l, "From") = InvalidOnes(k, "From")
    BY SameAnswers, Zenon DEF Shaped
  <1>2. \A p \in InvalidOnes(k, "From") : l.Fields[p] = k.Fields[p]
    BY Zenon DEF SameFields, InvalidOnes
  <1> QED
    BY <1>1, <1>2, Zenon DEF Answers, SameFields

\* Every step preserves SenderInv.
LEMMA SenderStep == Base /\ Verdict /\ SenderInv /\ [Next]_vars => SenderInv'
  <1> SUFFICES ASSUME Base, Verdict, SenderInv, [Next]_vars PROVE SenderInv'
    BY Zenon
  <1>0. /\ Shaped(h) /\ HeaderOK(h) /\ role \in {"message", "part"}
        /\ role = "message" => h.mode = "RFC5322"
    BY Zenon DEF Base, Shaped
  <1>1. ASSUME pc' \notin BodyRules, ~BodyRepaired' PROVE SenderInv'
    BY <1>1, Zenon DEF SenderInv, BodyRules
  <1>2. CASE ReadField \/ EndOfHeader \/ StartRepair \/ ApplyRepair
    <2>1. /\ pc' \in {"read", "repair", "panic", AfterRepair} \cup RepairRules
          /\ role' = role
      <3>1. CASE ReadField \/ EndOfHeader
        BY <3>1, Zenon DEF ReadField, EndOfHeader
      <3>2. CASE StartRepair
        BY <3>2, Zenon DEF StartRepair, Enter, context, RepairRules
      <3>3. CASE ApplyRepair
        BY <3>3, RepairStep, Zenon DEF AfterRule, RepairRules, context
      <3> QED
        BY <1>2, <3>1, <3>2, <3>3, Zenon
    <2>2. pc' \notin BodyRules
      BY <2>1, Zenon DEF BodyRules, RepairRules, AfterRepair
    <2>3. ~BodyRepaired'
      BY <1>0, <2>1, Zenon DEF BodyRepaired, RepairRules, AfterRepair
    <2> QED
      BY <1>1, <2>2, <2>3, Zenon
  <1>3. CASE StartWithBody
    <2>1. /\ pc = "withbody" /\ h' = verify(h) /\ occ' = Count(h) /\ role' = role
          /\ pc' = IF Valid(h) THEN AfterWithBody ELSE "identical"
      BY <1>3, Zenon DEF StartWithBody, Enter, context
    <2>2. h'.Fields = h.Fields
      BY <1>0, <2>1, VerifyProperties, Zenon
    <2>3. CASE Valid(h)
      <3>1. Trusted(h)
        BY <2>1, Zenon DEF Verdict
      <3>2. Acceptable(h)
        BY <1>0, <2>3, <3>1, VerifyVerdict, Zenon
      <3>3. AllFieldsValid(h) /\ (role = "message" => Named(h, "From") # {} /\ Named(h, "Date") # {})
        BY <1>0, <3>2, AcceptableMeans, Zenon
      <3>4. InvalidOnes(h', "From") = {} /\ \A fn : Named(h', fn) = Named(h, fn)
        BY <2>2, <3>3, Zenon DEF AllFieldsValid, InvalidOnes, ValidOnes, Named
      <3>5. pc' \notin BodyRules
        BY <2>1, <2>3, Zenon DEF AfterWithBody, BodyRules
      <3> QED
        BY <2>1, <3>3, <3>4, <3>5, Zenon DEF SenderInv, Answers, BodyRules
    <2>4. CASE ~Valid(h)
      <3>1. pc' = "identical"
        BY <2>1, <2>4, Zenon
      <3>2. "Date" \in CountedNames
        BY Counted, Zenon
      <3>3. occ'["Date"] = Occurrences(h, "Date") /\ Occurrences(h, "Date") \in Nat
        BY <1>0, <2>1, <3>2, CountType, SingleCount, Zenon
      <3>4. Named(h, "Date") = {} => occ'["Date"] = 0
        BY <1>0, <3>3, SingleCount, Zenon
      <3>5. Named(h', "Date") = Named(h, "Date")
        BY <2>2, Zenon DEF Named
      <3>6. ~BodyRepaired'
        BY <3>1, Zenon DEF BodyRepaired
      <3>7. occ'["Date"] > 0 => Named(h', "Date") # {}
        BY <3>4, <3>5
      <3> QED
        BY <3>1, <3>6, <3>7, Zenon DEF SenderInv
    <2> QED
      BY <2>3, <2>4, Zenon
  <1>4. CASE ApplyWithBody
    <2>1. /\ pc \in BodyRules /\ role' = role /\ occ' = occ
          /\ \/ pc' = "panic" /\ h' = h
             \/ pc' = After(pc) /\ Changes(h, h', Touched(pc))
      BY <1>4, BodyStep, Zenon DEF ApplyWithBody, context
    <2>2. CASE pc' = "panic"
      BY <1>1, <2>2, Zenon DEF BodyRules, BodyRepaired
    <2>3. CASE pc' # "panic"
      <3>0. pc' = After(pc) /\ Changes(h, h', Touched(pc))
        BY <2>1, <2>3, Zenon
      <3>1. CASE pc = "identical"
        <4>1. h' = RemoveIdentical(h, occ) /\ pc' = "date"
          BY <1>4, <2>3, <3>1, Zenon DEF ApplyWithBody, RepairWithBody, Rule, Risky, Enter
        <4>2. Named(h, "Date") # {} => Named(h', "Date") # {}
          BY <1>0, <4>1, RemoveIdenticalProperties, Zenon
        <4>3. ~BodyRepaired'
          BY <4>1, Zenon DEF BodyRepaired
        <4>4. occ["Date"] > 0 => Named(h, "Date") # {}
          BY <3>1, Zenon DEF SenderInv
        <4> QED
          BY <2>1, <4>1, <4>2, <4>3, <4>4, Zenon DEF SenderInv
      <3>2. CASE pc = "date"
        <4>1. h' = FixDate(h, occ, parents) /\ pc' = "nofrom"
          BY <1>4, <2>3, <3>2, Zenon DEF ApplyWithBody, RepairWithBody, Rule, Risky, Enter
        <4>2. occ["Date"] > 0 => Named(h, "Date") # {}
          BY <3>2, Zenon DEF SenderInv
        <4>3. occ["Date"] \in Nat
          BY Counted, Zenon DEF Base
        <4>4. Named(h, "Date") # {} \/ occ["Date"] = 0
          BY <4>2, <4>3
        <4>5. role = "message" => Named(h', "Date") # {}
          BY <1>0, <4>1, <4>4, FixDateProperties, Zenon
        <4>6. ~BodyRepaired'
          BY <4>1, Zenon DEF BodyRepaired
        <4> QED
          BY <2>1, <4>1, <4>5, <4>6, Zenon DEF SenderInv
      <3>3. CASE pc \notin {"identical", "date"}
        <4>1. "Date" \notin Touched(pc)
          BY <2>1, <3>3, Zenon DEF BodyRules, Touched, DroppableNames
        <4>2. role = "message" => Named(h', "Date") # {}
          BY <1>0, <2>1, <3>0, <3>3, <4>1, Untouched, Zenon DEF SenderInv
        <4>3. ASSUME role = "message", pc \in {"unknown", "replyto", "encoding", "swap", "urls"}
              PROVE  Answers(h')
          <5>1. CASE pc = "unknown"
            <6>1. h' = UseInvalid(h)
              BY <1>4, <2>3, <5>1, Zenon DEF ApplyWithBody, RepairWithBody, Rule, Risky, Enter
            <6>2. /\ Named(h', "From") # {} /\ Shaped(h')
                  /\ First(h', "From").err = "" \/ First(h', "From").val # <<>>
              BY <1>0, <3>0, <4>3, <6>1, UseInvalidRule, Zenon DEF Changes
            <6>3. \A p \in InvalidOnes(h', "From") : h'.Fields[p].val # <<>>
              BY <6>2, OneFrom, Zenon DEF InvalidOnes, ValidOnes
            <6> QED
              BY <6>2, <6>3, Zenon DEF Answers
          <5>2. CASE pc # "unknown"
            <6>1. "From" \notin Touched(pc)
              BY <4>3, <5>2, Zenon DEF Touched
            <6>2. Answers(h)
              BY <4>3, <5>2, Zenon DEF SenderInv
            <6> QED
              BY <1>0, <3>0, <6>1, <6>2, Untouched, AnswersSame, Zenon
          <5> QED
            BY <5>1, <5>2, Zenon
        <4>4. pc' \in {"replyto", "encoding", "swap", "urls"} \/ BodyRepaired' =>
                pc \in {"unknown", "replyto", "encoding", "swap", "urls"}
          BY <1>0, <2>1, <3>0, Zenon DEF BodyRules, After, BodyRepaired
        <4>5. pc' \notin {"identical", "date"}
          BY <2>1, <3>0 , <3>3, Zenon DEF BodyRules, After, AfterWithBody
        <4> QED
          BY <2>1, <4>2, <4>3, <4>4, <4>5, Zenon DEF SenderInv
      <3> QED
        BY <3>1, <3>2, <3>3, Zenon
    <2> QED
      BY <2>2, <2>3, Zenon
  <1>5. CASE ParseChildren
    <2>1. pc = "children" /\ h' = h /\ role' = role /\ pc' \in {"panic", "simplify"}
      BY <1>5, Zenon DEF ParseChildren, Risky, Rule, context
    <2>2. pc' \notin BodyRules
      BY <2>1, Zenon DEF BodyRules
    <2>3. BodyRepaired' => BodyRepaired
      BY <1>0, <2>1, Zenon DEF BodyRepaired
    <2> QED
      BY <2>1, <2>2, <2>3, Zenon DEF SenderInv, BodyRules
  <1>6. CASE ParsePart \/ CallSimplify
    <2>1. /\ pc \in {"part", "simplify"} /\ role' = role
          /\ \/ pc' = "panic" /\ h' = h
             \/ /\ pc' = IF pc = "simplify" THEN "done"
                         ELSE IF role = "message" THEN "simplify" ELSE "withbody"
                /\ \E m : Improves(h, m) /\ h' = Simplify(m)
      BY <1>6, LaterStep, Zenon DEF context
    <2>2. pc' \notin BodyRules
      BY <2>1, Zenon DEF BodyRules
    <2>3. CASE pc' = "panic"
      BY <1>1, <2>2, <2>3, Zenon DEF BodyRepaired
    <2>4. CASE pc' # "panic"
      <3>0. PICK m : Improves(h, m) /\ h' = Simplify(m)
        BY <2>1, <2>4, Zenon
      <3>1. CASE role # "message"
        BY <2>1, <2>2, <3>1, Zenon DEF SenderInv, BodyRules
      <3>2. CASE role = "message"
        <4>1. Named(h, "Date") # {} /\ Answers(h)
          BY <2>1, <3>2, Zenon DEF SenderInv, BodyRepaired
        <4>2. Condenses(h, h')
          BY <1>0, <3>0, SimplifyCondenses, Zenon
        <4>3. Named(h', "Date") # {} /\ Named(h', "From") # {}
          BY <4>1, <4>2, Zenon DEF Condenses, Answers
        <4>4. Trusted(h)
          BY <2>1, Zenon DEF Verdict
        <4>5. InvalidOnes(h', "From") # {} => SameFields(h, h', "From")
          BY <1>0, <3>0, <4>4, BadFromUntouched, Zenon
        <4>6. Answers(h')
          BY <1>0, <4>1, <4>3, <4>5, AnswersSame, Zenon DEF Answers
        <4> QED
          BY <2>2, <4>3, <4>6, Zenon DEF SenderInv, BodyRules
      <3> QED
        BY <3>1, <3>2, Zenon
    <2> QED
      BY <2>3, <2>4, Zenon
  <1>7. CASE UNCHANGED vars
    BY <1>7, Zenon DEF vars, SenderInv, BodyRepaired
  <1> QED
    BY <1>2, <1>3, <1>4, <1>5, <1>6, <1>7, Cases, Zenon

\* The addresses in the fields of these names.
LEMMA AddressesFound ==
  ASSUME NEW k, NEW N, NEW a
  PROVE  a \in AddressesIn(k, N) <=> InField(k, N, a)
  <1> DEFINE S == {q \in DOMAIN k.Fields : k.Fields[q].name \in N}
  <1> DEFINE V(p) == {k.Fields[p].val[i] : i \in DOMAIN k.Fields[p].val}
  <1>1. a \in AddressesIn(k, N) <=> \E p \in S : a \in V(p)
    <2> HIDE DEF V, S
    <2>1. a \in UNION {V(p) : p \in S} <=> \E p \in S : a \in V(p)
      OBVIOUS
    <2> QED
      BY <2>1, Zenon DEF AddressesIn, V, S
  <1>2. \A p : a \in V(p) <=> \E j \in DOMAIN k.Fields[p].val : a = k.Fields[p].val[j]
    BY Zenon
  <1> HIDE DEF V
  <1> QED
    BY <1>1, <1>2, Zenon DEF InField

\* RepairWithBody leaves a message with a From and a Date, and the From has an
\* address unless it parsed without one, or an address that stands in for it
\* parses without one once it is written.
THEOREM BodyRepairCompletes == Spec => []HasFromAndDate
  <1>1. Init => Base /\ Verdict /\ NameInv /\ FromInv /\ SenderInv
    BY BaseInit, Zenon DEF Init, Verdict, NameInv, Early, FromInv, SenderInv,
                           RepairRules, BodyRules, BodyRepaired
  <1>2. Base /\ Verdict /\ NameInv /\ FromInv /\ SenderInv /\ [Next]_vars =>
            Base' /\ Verdict' /\ NameInv' /\ FromInv' /\ SenderInv'
    BY BaseStep, VerdictStep, NameInvStep, FromInvStep, SenderStep, Zenon
  <1>3. Base /\ FromInv /\ SenderInv => HasFromAndDate
    <2> SUFFICES ASSUME Base, FromInv, SenderInv, role = "message", BodyRepaired
                 PROVE  /\ Named(h, "From") # {} /\ Named(h, "Date") # {}
                        /\ \/ AddressesOf(h, "From") # <<>>
                           \/ /\ field(input, "From", 0) # Nil /\ First(input, "From").err = ""
                              /\ First(input, "From").val = <<>>
                           \/ /\ ValidOnes(input, "From") = {}
                              /\ \E x \in AddressesIn(input, StandInNames) :
                                    ~Reread(x).err /\ Reread(x).addrs = <<>>
      BY Zenon DEF HasFromAndDate
    <2>0. Shaped(h) /\ Shaped(input) /\ HeaderOK(input) /\ pc # "read"
      BY Zenon DEF Base, Shaped, BodyRepaired
    <2>1. Named(h, "Date") # {} /\ Answers(h)
      BY Zenon DEF SenderInv
    <2>2. PICK p : p \in Named(h, "From")
      BY <2>1, Zenon DEF Answers
    <2>3. AddressesOf(h, "From") = h.Fields[p].val
      BY <2>0, <2>2, OneFrom, Zenon
    <2>4. CASE h.Fields[p].val # <<>>
      BY <2>1, <2>2, <2>3, <2>4, Zenon
    <2>5. CASE h.Fields[p].val = <<>>
      <3>1. p \in ValidOnes(h, "From")
        BY <2>1, <2>2, <2>5, Zenon DEF Answers, InvalidOnes
      <3>2. CASE p \in ValidOnes(input, "From") /\ input.Fields[p].val = <<>>
        <4>1. p \in Named(input, "From") /\ input.Fields[p].err = ""
          BY <3>2, Zenon DEF ValidOnes
        <4>2. First(input, "From") = input.Fields[p] /\ field(input, "From", 0) # Nil
          BY <2>0, <4>1, OneFrom, NilField, Zenon
        <4> QED
          BY <2>1, <2>2, <3>2, <4>1, <4>2, Zenon
      <3>3. CASE StoodIn(input, h.Fields[p])
        <4> DEFINE N == IF Named(input, "From") = {} THEN StandInNames ELSE ReceiptNames
        <4>1. PICK x \in Address : InField(input, N, x) /\ h.Fields[p] = FromReread(x)
          BY <3>3, Zenon DEF StoodIn, ReadAgain
        <4>2. InField(input, StandInNames, x)
          BY <4>1, Zenon DEF InField, StandInNames
        <4>3. x \in AddressesIn(input, StandInNames)
          BY <4>2, AddressesFound, Zenon
        <4>4. h.Fields[p].err = ""
          BY <3>1, Zenon DEF ValidOnes
        <4>5. ~Reread(x).err /\ Reread(x).addrs = <<>>
          BY <2>5, <4>1, <4>4, RereadProperties, Zenon
        <4>6. ValidOnes(input, "From") = {}
          BY <3>3, Zenon DEF StoodIn
        <4> QED
          BY <2>1, <2>2, <4>3, <4>5, <4>6, Zenon
      <3> QED
        BY <2>0, <2>5, <3>1, <3>2, <3>3, Zenon DEF FromInv, KeepsFrom
    <2> QED
      BY <2>4, <2>5, Zenon
  <1> QED
    BY <1>1, <1>2, <1>3, PTL DEF Spec

-----------------------------------------------------------------------------
(***************************************************************************)
(* Where the addresses of From come from                                   *)
(***************************************************************************)
\* The addresses of the From of l have their source in k, and a Message-ID that
\* names one still does.
SourcedFrom(k, l) ==
    \A p \in Named(l, "From") :
        \A i \in DOMAIN l.Fields[p].val : Sourced(k, l.Fields[p].val[i])

KeepsMessageID(k, l) ==
    /\ \A p \in Named(l, "Message-ID") : p \in Named(k, "Message-ID") /\ l.Fields[p] = k.Fields[p]
    /\ AddressesOf(k, "Message-ID") # <<>> => AddressesOf(l, "Message-ID") # <<>>

\* A From that keeps its addresses has its source in itself.
LEMMA SourcedKept ==
  ASSUME NEW k, NEW l, KeepsName(k, l, "From")
  PROVE  SourcedFrom(k, l)
  <1> SUFFICES ASSUME NEW p \in Named(l, "From"), NEW i \in DOMAIN l.Fields[p].val
               PROVE  Sourced(k, l.Fields[p].val[i])
    BY Zenon DEF SourcedFrom
  <1>1. InField(k, {"From"}, l.Fields[p].val[i])
    BY Zenon DEF KeepsName
  <1>2. InField(k, FromSources, l.Fields[p].val[i])
    BY <1>1, Zenon DEF InField, FromSources
  <1> QED
    BY <1>2, Zenon DEF Sourced

\* The rules that guess a From.
LEMMA SourcedRule ==
  ASSUME NEW k, Shaped(k), NEW l, FromRule(k, l)
  PROVE  SourcedFrom(k, l)
  <1>0. Shaped(l)
    BY Zenon DEF FromRule, Changes
  <1>1. CASE SameFields(k, l, "From")
    BY <1>1, KeepsNameSame, SourcedKept, Zenon DEF SameFields
  <1>2. CASE ~SameFields(k, l, "From")
    <2>1. \A p \in Named(l, "From") : First(l, "From") = l.Fields[p]
      BY <1>0, OneFrom, Zenon
    <2> QED
      BY <1>2, <2>1, Zenon DEF FromRule, SourcedFrom
  <1> QED
    BY <1>1, <1>2, Zenon

\* A Message-ID that is not touched, and one that stays the first.
LEMMA MessageIDSame ==
  ASSUME NEW k, HeaderOK(k), NEW l, SameFields(k, l, "Message-ID")
  PROVE  KeepsMessageID(k, l)
  <1>1. AddressesOf(l, "Message-ID") = AddressesOf(k, "Message-ID")
    BY SameAnswers, Zenon
  <1> QED
    BY <1>1, Zenon DEF KeepsMessageID, SameFields

\* A header that still has the first of the Message-IDs has its addresses.
LEMMA MessageIDFirst ==
  ASSUME NEW k, HeaderOK(k), NEW l, HeaderOK(l),
         \A p \in Named(l, "Message-ID") : p \in Named(k, "Message-ID") /\ l.Fields[p] = k.Fields[p],
         AddressesOf(k, "Message-ID") # <<>> => field(k, "Message-ID", 0) \in Named(l, "Message-ID")
  PROVE  KeepsMessageID(k, l)
  <1> SUFFICES ASSUME AddressesOf(k, "Message-ID") # <<>> PROVE AddressesOf(l, "Message-ID") # <<>>
    BY Zenon DEF KeepsMessageID
  <1> DEFINE first == field(k, "Message-ID", 0)
             S == Named(l, "Message-ID")
  <1>1. first \in S /\ Named(k, "Message-ID") # {}
    BY Zenon DEF AddressesOf
  <1>2. S \subseteq Nat /\ IsFiniteSet(S) /\ S \subseteq Named(k, "Message-ID")
    BY PositionsFinite, Zenon DEF Named
  <1>3. Named(k, "Message-ID") \subseteq Nat /\ IsFiniteSet(Named(k, "Message-ID"))
    BY PositionsFinite, Zenon DEF Named
  <1>4. \A q \in Named(k, "Message-ID") : first <= q
    BY <1>1, <1>3, FirstLeast, Zenon DEF field
  <1>5. \A q \in S : first <= q
    BY <1>2, <1>4, Zenon
  <1>6. NthOf(S, 0) = first
    <2> HIDE DEF first, S
    <2> QED
      BY <1>1, <1>2, <1>5, FirstIs, Zenon
  <1>7. AddressesOf(l, "Message-ID") = l.Fields[first].val
    BY <1>1, <1>6, Zenon DEF AddressesOf, field
  <1>8. AddressesOf(k, "Message-ID") = k.Fields[first].val /\ l.Fields[first] = k.Fields[first]
    BY <1>1, Zenon DEF AddressesOf
  <1> QED
    BY <1>7, <1>8, Zenon

\* The invariant: the Message-IDs are those that were read, and the addresses
\* have their source in what was read.
SourcedBy(k, l, a) ==
    \/ InField(k, FromSources, a)
    \/ \E x : /\ InField(k, StandInNames, x)
              /\ \E j \in DOMAIN Reread(x).addrs : a = Reread(x).addrs[j]
    \/ a = UnknownAddress
    \/ a.lp = "postmaster" /\ AddressesOf(l, "Message-ID") # <<>>

SourceInv ==
    pc # "read" =>
        /\ \A p \in Named(h, "Message-ID") :
              p \in Named(input, "Message-ID") /\ h.Fields[p] = input.Fields[p]
        /\ \A p \in Named(h, "From") :
              \A i \in DOMAIN h.Fields[p].val : SourcedBy(input, h, h.Fields[p].val[i])

\* A Message-ID has an address if and only if it is valid.
LEMMA MessageIDValid ==
  ASSUME Base, SourceInv, pc # "read", AddressesOf(h, "Message-ID") # <<>>
  PROVE  /\ Named(h, "Message-ID") # {} /\ field(h, "Message-ID", 0) \in ValidOnes(h, "Message-ID")
         /\ NthOf(ValidOnes(h, "Message-ID"), 0) = field(h, "Message-ID", 0)
  <1> DEFINE first == field(h, "Message-ID", 0)
             S == ValidOnes(h, "Message-ID")
  <1>0. HeaderOK(h)
    BY Zenon DEF Base, Shaped
  <1>1. Named(h, "Message-ID") # {} /\ h.Fields[first].val # <<>>
    BY Zenon DEF AddressesOf
  <1>2. first \in Named(h, "Message-ID")
    BY <1>0, <1>1, FieldFound, Zenon
  <1>3. first \in Named(input, "Message-ID") /\ h.Fields[first] = input.Fields[first]
    BY <1>2, Zenon DEF SourceInv
  <1>4. WellParsed(input.Fields[first]) /\ input.Fields[first].name = "Message-ID"
    BY <1>3, Zenon DEF Base, AsParsed, Named, MergedNames
  <1>5. input.Fields[first].err = ""
    BY <1>1, <1>3, <1>4, Zenon DEF WellParsed, WellParsedAddresses, AddressNames, addressFieldNames
  <1>6. first \in S
    BY <1>2, <1>3, <1>5, Zenon DEF ValidOnes
  <1>7. S \subseteq Nat /\ IsFiniteSet(S) /\ S \subseteq Named(h, "Message-ID")
    BY <1>0, PositionsFinite, Zenon DEF ValidOnes, Named
  <1>8. Named(h, "Message-ID") \subseteq Nat /\ IsFiniteSet(Named(h, "Message-ID"))
    BY <1>0, PositionsFinite, Zenon DEF Named
  <1>9. \A q \in S : first <= q
    BY <1>1, <1>7, <1>8, FirstLeast, Zenon DEF field
  <1>10. NthOf(S, 0) = first
    <2> HIDE DEF first, S
    <2> QED
      BY <1>6, <1>7, <1>9, FirstIs, Zenon
  <1> QED
    BY <1>1, <1>6, <1>10, Zenon


\* A header that stays as it is, or loses fields but not its first Message-ID.
LEMMA MessageIDSelf ==
  ASSUME NEW k, Shaped(k), NEW l, l.Fields = k.Fields
  PROVE  KeepsMessageID(k, l)
  <1>1. SameFields(k, l, "Message-ID") /\ HeaderOK(k)
    BY Zenon DEF SameFields, Named, Shaped
  <1> QED
    BY <1>1, MessageIDSame, Zenon

\* A rule that only removes fields, or rewrites MIME-Version.
LEMMA MessageIDLess ==
  ASSUME NEW k, Shaped(k), NEW l, Shaped(l),
         \A p \in DOMAIN l.Fields :
             /\ p \in DOMAIN k.Fields /\ l.Fields[p].name = k.Fields[p].name
             /\ l.Fields[p] = k.Fields[p] \/ k.Fields[p].name = "MIME-Version",
         AddressesOf(k, "Message-ID") # <<>> => field(k, "Message-ID", 0) \in Named(l, "Message-ID")
  PROVE  KeepsMessageID(k, l)
  <1>1. \A p \in Named(l, "Message-ID") : p \in Named(k, "Message-ID") /\ l.Fields[p] = k.Fields[p]
    BY Zenon DEF Named
  <1> QED
    BY <1>1, MessageIDFirst, Zenon DEF Shaped

\* parseBodypart and Simplify.
LEMMA MessageIDLater ==
  ASSUME NEW k, Shaped(k), NEW l, Condenses(k, l)
  PROVE  KeepsMessageID(k, l)
  <1>0. Shaped(l) /\ HeaderOK(k)
    BY Zenon DEF Condenses, Shaped
  <1>2. ASSUME NEW p \in Named(l, "Message-ID")
        PROVE  p \in Named(k, "Message-ID") /\ l.Fields[p] = k.Fields[p]
    <2>1. p \in Named(k, "Message-ID")
      BY Zenon DEF Condenses, PartNames, Rewritten
    <2>2. l.Fields[p].err = k.Fields[p].err /\ l.Fields[p].val = k.Fields[p].val
      BY Zenon DEF Condenses, PartNames, Rewritten, addressFieldNames, Named
    <2>3. /\ p \in DOMAIN l.Fields /\ p \in DOMAIN k.Fields
          /\ l.Fields[p].name = "Message-ID" /\ k.Fields[p].name = "Message-ID"
      BY <2>1, Zenon DEF Named
    <2>4. /\ l.Fields[p] = [name |-> l.Fields[p].name, err |-> l.Fields[p].err, val |-> l.Fields[p].val]
          /\ k.Fields[p] = [name |-> k.Fields[p].name, err |-> k.Fields[p].err, val |-> k.Fields[p].val]
      BY <1>0, <2>3, Zenon DEF Shaped, HeaderOK
    <2> QED
      BY <2>1, <2>2, <2>3, <2>4, Zenon
  <1>3. AddressesOf(k, "Message-ID") # <<>> => AddressesOf(l, "Message-ID") # <<>>
    BY <1>0, SameAnswers, Zenon DEF Condenses
  <1> QED
    BY <1>2, <1>3, Zenon DEF KeepsMessageID

\* Every step that ReadHeader does not take has the addresses of From from the
\* header it starts with.
LEMMA FromSourced ==
  ASSUME Base, [Next]_vars, pc # "read"
  PROVE  SourcedFrom(h, h')
  <1>0. Shaped(h)
    BY Zenon DEF Base
  <1>1. CASE pc \notin BodyRules
    BY <1>1, NameStep, SourcedKept, Zenon
  <1>2. CASE h' = h
    BY <1>2, KeepsNameSame, SourcedKept, Zenon
  <1>3. CASE pc \in BodyRules /\ h' # h
    <2>1. ApplyWithBody
      BY <1>3, Cases, Zenon DEF ReadField, EndOfHeader, StartRepair, ApplyRepair, Repair, StartWithBody,
         Enter, Rule, Risky, ParseChildren, ParsePart, CallSimplify, BodyRules, vars
    <2>2. Changes(h, h', Touched(pc))
      BY <1>3, <2>1, BodyStep, Zenon DEF ApplyWithBody
    <2>3. CASE pc \in FromRules
      BY <1>0, <1>3, <2>1, <2>3, GuessStep, SourcedRule, Zenon
    <2>4. CASE pc = "identical"
      <3>1. h' = RemoveIdentical(h, occ)
        BY <1>3, <2>1, <2>4, Zenon DEF ApplyWithBody, RepairWithBody, Rule, Risky, Enter
      <3>2. Removes(h, h', ConditionNames)
        BY <1>0, <3>1, RemoveIdenticalProperties, Zenon
      <3>3. \A p \in Named(h', "From") : p \in Named(h, "From") /\ h'.Fields[p] = h.Fields[p]
        BY <3>2, Zenon DEF Removes, Named
      <3> QED
        BY <3>3, KeepsNameSame, SourcedKept, Zenon
    <2>5. CASE pc \notin FromRules \cup {"identical"}
      <3>1. "From" \notin Touched(pc)
        BY <1>3, <2>5, Zenon DEF BodyRules, Touched, DroppableNames, FromRules
      <3>2. SameFields(h, h', "From")
        BY <1>0, <2>2, <3>1, Untouched, Zenon
      <3> QED
        BY <3>2, KeepsNameSame, SourcedKept, Zenon DEF SameFields
    <2> QED
      BY <2>3, <2>4, <2>5, Zenon
  <1> QED
    BY <1>1, <1>2, <1>3, Zenon

\* Every step that ReadHeader does not take keeps the Message-ID.
LEMMA MessageIDStep ==
  ASSUME Base, SourceInv, [Next]_vars, pc # "read"
  PROVE  KeepsMessageID(h, h')
  <1>0. Shaped(h) /\ HeaderOK(h) /\ pc # "read"
    BY Zenon DEF Base, Shaped
  <1>1. CASE ReadField \/ EndOfHeader
    BY <1>0, <1>1, Zenon DEF ReadField, EndOfHeader
  <1>2. CASE StartRepair \/ StartWithBody
    <2>1. h' = verify(h) /\ input' = input
      BY <1>2, Zenon DEF StartRepair, StartWithBody, Enter, context
    <2> QED
      BY <1>0, <2>1, VerifyProperties, MessageIDSelf
  <1>3. CASE ApplyRepair
    <2>1. /\ pc \in RepairRules /\ input' = input
          /\ h' = h \/ (pc' = AfterRule(pc) /\ Trims(h, h', Trimmed(pc)))
      BY <1>3, RepairStep, Zenon DEF context
    <2>2. CASE h' = h
      BY <1>0, <2>1, <2>2, MessageIDSelf, Zenon
    <2>3. CASE h' # h
      <3>0. Trims(h, h', Trimmed(pc)) /\ Shaped(h')
        BY <2>1, <2>3, Zenon DEF Trims, Changes
      <3>1. ASSUME AddressesOf(h, "Message-ID") # <<>>
            PROVE  field(h, "Message-ID", 0) \in Named(h', "Message-ID")
        <4>0. /\ Named(h, "Message-ID") # {} /\ ValidOnes(h, "Message-ID") # {}
              /\ field(h, "Message-ID", 0) \in Named(h, "Message-ID")
              /\ NthOf(ValidOnes(h, "Message-ID"), 0) = field(h, "Message-ID", 0)
          BY <1>0, <3>1, MessageIDValid, Zenon DEF ValidOnes
        <4>1. CASE pc = "r.identical"
          <5>1. h' = RemoveIdentical(h, occ)
            BY <1>3, <2>3, <4>1, Zenon DEF ApplyRepair, Repair, Rule, Risky, Enter
          <5> QED
            BY <1>0, <4>0, <5>1, RemoveIdenticalProperties, Zenon
        <4>2. CASE pc = "r.firstvalid"
          <5>1. h' = KeepFirstValid(h, occ)
            BY <1>3, <4>2, Zenon DEF ApplyRepair, Repair, Rule, Risky, Enter
          <5>2. NthOf(ValidOnes(h, "Message-ID"), 0) \in Named(h', "Message-ID")
            BY <1>0, <4>0, <5>1, KeepFirstValidProperties, Zenon
          <5> QED
            BY <4>0, <5>2, Zenon
        <4>3. CASE pc \notin {"r.identical", "r.firstvalid"}
          <5>1. "Message-ID" \notin Trimmed(pc)
            BY <2>1, <4>3, Zenon DEF RepairRules, Trimmed
          <5>2. Changes(h, h', Trimmed(pc))
            BY <3>0, Zenon DEF Trims
          <5> QED
            BY <1>0, <4>0, <5>1, <5>2, Untouched, Zenon
        <4> QED
          BY <4>1, <4>2, <4>3, Zenon
      <3>2. \A p \in DOMAIN h'.Fields :
               /\ p \in DOMAIN h.Fields /\ h'.Fields[p].name = h.Fields[p].name
               /\ h'.Fields[p] = h.Fields[p] \/ h.Fields[p].name = "MIME-Version"
        BY <3>0, Zenon DEF Trims
      <3> QED
        BY <1>0, <2>1, <3>0, <3>1, <3>2, MessageIDLess, Zenon
    <2> QED
      BY <2>2, <2>3, Zenon
  <1>4. CASE ApplyWithBody
    <2>1. /\ pc \in BodyRules /\ input' = input
          /\ h' = h \/ Changes(h, h', Touched(pc))
      BY <1>4, BodyStep, Zenon DEF ApplyWithBody, context
    <2>2. CASE h' = h
      BY <1>0, <2>1, <2>2, MessageIDSelf, Zenon
    <2>3. CASE h' # h
      <3>0. Changes(h, h', Touched(pc)) /\ Shaped(h')
        BY <2>1, <2>3, Zenon DEF Changes
      <3>1. CASE pc = "identical"
        <4>1. h' = RemoveIdentical(h, occ)
          BY <1>4, <2>3, <3>1, Zenon DEF ApplyWithBody, RepairWithBody, Rule, Risky, Enter
        <4>2. Removes(h, h', ConditionNames)
          BY <1>0, <4>1, RemoveIdenticalProperties, Zenon
        <4>3. Named(h, "Message-ID") # {} => field(h, "Message-ID", 0) \in Named(h', "Message-ID")
          BY <1>0, <4>1, RemoveIdenticalProperties, Zenon
        <4>4. AddressesOf(h, "Message-ID") # <<>> =>
                 field(h, "Message-ID", 0) \in Named(h', "Message-ID")
          BY <4>3, Zenon DEF AddressesOf
        <4> QED
          BY <1>0, <2>1, <3>0, <4>2, <4>4, MessageIDLess, Zenon DEF Removes
      <3>2. CASE pc = "invalid"
        <4>1. h' = DropInvalid(h, occ)
          BY <1>4, <3>2, Zenon DEF ApplyWithBody, RepairWithBody, Rule, Risky, Enter
        <4>2. Removes(h, h', DroppableNames)
          BY <1>0, <4>1, DropInvalidProperties, Zenon
        <4>3. ASSUME AddressesOf(h, "Message-ID") # <<>>
              PROVE  field(h, "Message-ID", 0) \in Named(h', "Message-ID")
          <5> DEFINE first == field(h, "Message-ID", 0)
                     T == UNION {InvalidOnes(h, fn) : fn \in DroppableNames}
          <5>1. first \in ValidOnes(h, "Message-ID")
            BY <1>0, <4>3, MessageIDValid, Zenon
          <5>2. first \notin T
            BY <5>1, Zenon DEF InvalidOnes, ValidOnes, Named
          <5>3. h' = Without(h, T)
            BY <4>1, Zenon DEF DropInvalid
          <5>4. \A p \in DOMAIN h.Fields : p \in T => h.Fields[p].name \in DroppableNames
            BY Zenon DEF InvalidOnes, Named
          <5>5. Named(h', "Message-ID") = Named(h, "Message-ID") \ T
            <6> HIDE DEF T
            <6>1. \A fn : Named(Without(h, T), fn) = Named(h, fn) \ T
              BY <1>0, <5>4, RemovesWithout, Zenon
            <6> QED
              BY <5>3, <6>1, Zenon
          <5> QED
            BY <5>1, <5>2, <5>5, Zenon DEF ValidOnes
        <4> QED
          BY <1>0, <2>1, <3>0, <4>2, <4>3, MessageIDLess, Zenon DEF Removes
      <3>3. CASE pc \notin {"identical", "invalid"}
        <4>1. "Message-ID" \notin Touched(pc)
          BY <2>1, <3>3, Zenon DEF BodyRules, Touched
        <4> QED
          BY <1>0, <3>0, <4>1, Untouched, MessageIDSame, Zenon
      <3> QED
        BY <3>1, <3>2, <3>3, Zenon
    <2> QED
      BY <2>2, <2>3, Zenon
  <1>5. CASE ParseChildren
    <2>1. h' = h /\ input' = input
      BY <1>5, Zenon DEF ParseChildren, Risky, Rule, context
    <2> QED
      BY <1>0, <2>1, MessageIDSelf, Zenon
  <1>6. CASE ParsePart \/ CallSimplify
    <2>1. /\ input' = input
          /\ h' = h \/ \E m : Improves(h, m) /\ h' = Simplify(m)
      BY <1>6, LaterStep, Zenon DEF context
    <2>2. CASE h' = h
      BY <1>0, <2>1, <2>2, MessageIDSelf, Zenon
    <2>3. CASE h' # h
      BY <1>0, <2>1, <2>3, SimplifyCondenses, MessageIDLater, Zenon
    <2> QED
      BY <2>2, <2>3, Zenon
  <1>7. CASE UNCHANGED vars
    BY <1>0, <1>7, MessageIDSelf, Zenon DEF vars
  <1> QED
    BY <1>1, <1>2, <1>3, <1>4, <1>5, <1>6, <1>7, Cases, Zenon


\* Every step preserves SourceInv.
LEMMA SourceInvStep == Base /\ NameInv /\ SourceInv /\ [Next]_vars => SourceInv'
  <1> SUFFICES ASSUME Base, NameInv, SourceInv, [Next]_vars, pc' # "read"
               PROVE  /\ \A p \in Named(h', "Message-ID") :
                            p \in Named(input', "Message-ID") /\ h'.Fields[p] = input'.Fields[p]
                      /\ \A p \in Named(h', "From") :
                            \A i \in DOMAIN h'.Fields[p].val : SourcedBy(input', h', h'.Fields[p].val[i])
    BY Zenon DEF SourceInv, SourcedBy
  <1>1. CASE pc = "read"
    <2>1. EndOfHeader
      BY <1>1, Cases, Zenon DEF ReadField, StartRepair, ApplyRepair, Repair, StartWithBody, ApplyWithBody,
         RepairWithBody, Enter, Rule, Risky, ParseChildren, ParsePart, CallSimplify, vars
    <2>2. h' = h /\ input' = h
      BY <2>1, Zenon DEF EndOfHeader
    <2> QED
      BY <2>2, Zenon DEF SourcedBy, InField, FromSources, Named
  <1>2. CASE pc # "read"
    <2>1. SourcedFrom(h, h') /\ KeepsMessageID(h, h') /\ input' = input
      BY <1>2, FromSourced, MessageIDStep, NameStep, Zenon
    <2>2. /\ \A p \in Named(h, "Message-ID") :
                p \in Named(input, "Message-ID") /\ h.Fields[p] = input.Fields[p]
          /\ \A p \in Named(h, "From") :
                \A i \in DOMAIN h.Fields[p].val : SourcedBy(input, h, h.Fields[p].val[i])
      BY <1>2, Zenon DEF SourceInv
    <2>3. \A p \in Named(h', "Message-ID") :
             p \in Named(input', "Message-ID") /\ h'.Fields[p] = input'.Fields[p]
      BY <2>1, <2>2, Zenon DEF KeepsMessageID
    <2>4. \A a : SourcedBy(input, h, a) => SourcedBy(input', h', a)
      BY <2>1, Zenon DEF SourcedBy, KeepsMessageID
    <2>5. \A a : InField(h, StandInNames, a) => InField(input, StandInNames, a)
      <3>1. \A fn \in StandInNames : KeepsName(input, h, fn)
        BY <1>2, Zenon DEF NameInv, KeptNames
      <3> QED
        BY <3>1, KeepsNameFound, Zenon
    <2>6. \A a : Sourced(h, a) => SourcedBy(input', h', a)
      <3> SUFFICES ASSUME NEW a, Sourced(h, a) PROVE SourcedBy(input', h', a)
        BY Zenon
      <3>1. CASE InField(h, {"From"}, a)
        <4>1. SourcedBy(input, h, a)
          BY <2>2, <3>1, Zenon DEF InField, Named
        <4> QED
          BY <2>4, <4>1, Zenon
      <3>2. CASE InField(h, StandInNames, a)
        <4>1. InField(input, FromSources, a)
          BY <2>5, <3>2, Zenon DEF InField, FromSources
        <4> QED
          BY <2>1, <4>1, Zenon DEF SourcedBy
      <3>3. CASE \E x : /\ InField(h, StandInNames, x)
                        /\ \E j \in DOMAIN Reread(x).addrs : a = Reread(x).addrs[j]
        BY <2>1, <2>5, <3>3, Zenon DEF SourcedBy
      <3>4. CASE a = UnknownAddress
        BY <3>4, Zenon DEF SourcedBy
      <3>5. CASE a.lp = "postmaster" /\ AddressesOf(h, "Message-ID") # <<>>
        BY <2>1, <3>5, Zenon DEF SourcedBy, KeepsMessageID
      <3>6. InField(h, FromSources, a) => InField(h, {"From"}, a) \/ InField(h, StandInNames, a)
        BY Zenon DEF InField, FromSources
      <3> QED
        BY <3>1, <3>2, <3>3, <3>4, <3>5, <3>6, Zenon DEF Sourced
    <2> QED
      BY <2>1, <2>3, <2>6, Zenon DEF SourcedFrom
  <1> QED
    BY <1>1, <1>2, Zenon

\* From is not invented: its addresses were in a field of the input that names
\* the sender, or are what is read where such an address is written to stand in
\* for From, or are the postmaster of the Message-ID's domain or
\* invalid@invalid.invalid.
THEOREM FromNotInvented == Spec => []FromHasSource
  <1>1. Init => Base /\ NameInv /\ SourceInv
    BY BaseInit, Zenon DEF Init, NameInv, Early, SourceInv, RepairRules, BodyRules
  <1>2. Base /\ NameInv /\ SourceInv /\ [Next]_vars => Base' /\ NameInv' /\ SourceInv'
    BY BaseStep, NameInvStep, SourceInvStep, Zenon
  <1>3. Base /\ SourceInv => FromHasSource
    <2> SUFFICES ASSUME Base, SourceInv, pc # "read", NEW i \in DOMAIN AddressesOf(h, "From")
                 PROVE  LET a == AddressesOf(h, "From")[i]
                        IN  \/ a \in AddressesIn(input, FromSources)
                            \/ \E x \in AddressesIn(input, StandInNames) :
                                  \E j \in DOMAIN Reread(x).addrs : a = Reread(x).addrs[j]
                            \/ a = UnknownAddress
                            \/ a.lp = "postmaster" /\ Named(h, "Message-ID") # {}
      BY Zenon DEF FromHasSource
    <2> DEFINE a == AddressesOf(h, "From")[i]
    <2>0. Shaped(h)
      BY Zenon DEF Base
    <2>1. Named(h, "From") # {}
      <3> SUFFICES ASSUME Named(h, "From") = {} PROVE FALSE
        BY Zenon
      <3>1. AddressesOf(h, "From") = <<>>
        BY Zenon DEF AddressesOf
      <3> QED
        BY <3>1
    <2>2. PICK p : p \in Named(h, "From")
      BY <2>1, Zenon
    <2>3. AddressesOf(h, "From") = h.Fields[p].val
      BY <2>0, <2>2, OneFrom, Zenon
    <2>4. SourcedBy(input, h, a)
      BY <2>2, <2>3, Zenon DEF SourceInv
    <2>5. AddressesOf(h, "Message-ID") # <<>> => Named(h, "Message-ID") # {}
      BY Zenon DEF AddressesOf
    <2> HIDE DEF a
    <2>6. InField(input, FromSources, a) => a \in AddressesIn(input, FromSources)
      BY AddressesFound, Zenon
    <2>7. \A x : InField(input, StandInNames, x) => x \in AddressesIn(input, StandInNames)
      BY AddressesFound, Zenon
    <2>8. \/ a \in AddressesIn(input, FromSources)
          \/ \E x \in AddressesIn(input, StandInNames) :
                \E j \in DOMAIN Reread(x).addrs : a = Reread(x).addrs[j]
          \/ a = UnknownAddress
          \/ a.lp = "postmaster" /\ Named(h, "Message-ID") # {}
      BY <2>4, <2>5, <2>6, <2>7, Zenon DEF SourcedBy
    <2> QED
      BY <2>8, Zenon DEF a
  <1> QED
    BY <1>1, <1>2, <1>3, PTL DEF Spec

=============================================================================
